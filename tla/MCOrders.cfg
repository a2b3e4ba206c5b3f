SPECIFICATION Spec
CONSTANTS
  ParamsRead = {TRUE, FALSE}
  Planets = {1}
  Types = {1, 2}
  BuildType = 2
  PageSizes = {1, 2}
  Portion = 2
  Patience = {TRUE, FALSE}
  MaxOrders = 3
  MaxTurns = 2
INVARIANTS
  OrdersShown
  OrdersFindTheirPlace
  OneOrderAtATime
CHECK_DEADLOCK FALSE
