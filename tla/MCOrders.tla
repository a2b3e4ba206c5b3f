------------------------------ MODULE MCOrders ------------------------------
(* Orders with one planet, two types of orders and two turns.              *)
EXTENDS Orders
=============================================================================
