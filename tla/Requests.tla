------------------------------ MODULE Requests ------------------------------
(***************************************************************************)
(* What the callback table of server.c promises the modules that send      *)
(* requests: a request that was sent is answered, once, and requests are   *)
(* answered in the order they were sent.  The code that takes an answer    *)
(* may send further requests before it returns.                            *)
(***************************************************************************)
EXTENDS Naturals

CONSTANT Limit        \* bound: the last sequence number

VARIABLES
  asked,              \* the sequence number of the last request sent
  open                \* the requests sent and not answered

vars == <<asked, open>>

Init ==
  /\ asked \in 0..Limit
  /\ open = {}

(* Requests a+1 to b are sent. *)
Sent(a, b) == (a + 1)..b

(* Requests are sent outside of any answer. *)
Ask ==
  /\ asked' \in (asked + 1)..Limit
  /\ open' = open \cup Sent(asked, asked')

(* The oldest open request is answered. *)
Oldest(s) == s \in open /\ \A t \in open : s <= t

Answer ==
  \E s \in open :
    /\ Oldest(s)
    /\ asked' \in asked..Limit
    /\ open' = (open \ {s}) \cup Sent(asked, asked')

Next == Ask \/ Answer

Spec ==
  /\ Init
  /\ [][Next]_vars

(* No request stays open for ever. *)
FairSpec ==
  /\ Spec
  /\ WF_vars(Answer)
=============================================================================
