-------------------------------- MODULE Comm --------------------------------
(***************************************************************************)
(* tpe_comm.c: connecting, logging in and following the turn.  The module  *)
(* runs on Server: each action is one of Server's with the requests and    *)
(* events tpe_comm.c sends in it, and the state tpe_comm.c keeps.          *)
(*                                                                         *)
(* The game server is modelled from how the client uses it: it lets a      *)
(* registered player in, answers questions about the time and the player   *)
(* once he is in, and announces the end of each turn with a frame that     *)
(* answers nothing, has no time remaining and names the turn that ends.    *)
(***************************************************************************)
EXTENDS Naturals, Sequences, FiniteSets

CONSTANTS
  PlayerAsSequence, \* TRUE: player data comes behind a MsgSEQUENCE
  MaxSeq,           \* bound: last sequence number used
  MaxTurn           \* bound: last turn of the game

ASSUME BoundAssumption == MaxSeq \in Nat \ {0} /\ MaxTurn \in Nat

VARIABLES
  conncb, seq, cbs, toServer, fromServer, events, pushed,   \* as in Server
  triedcreate,      \* connect->triedcreate
  accountregister,  \* connect->accountregister: set nowhere, the handler is a stub
  timers,           \* number of timers that ask for the time
  turn,             \* tpe->turn
  player,           \* TRUE when tpe->player has been received
  ended,            \* "no", "exit" or "abort": how the program has ended
  newTurns,         \* number of NewTurn events sent, for the properties
  registered,       \* the server has an account for the player
  session,          \* the server has let the player in
  serverTurn,       \* the server's turn
  joined            \* the server's turn when it let the player in

netVars == <<conncb, seq, cbs, toServer, fromServer, events, pushed>>
commVars == <<triedcreate, accountregister, timers, turn, player, newTurns>>
peerVars == <<registered, session, serverTurn, joined>>

(* Frames.  A MsgTimeRemaining says whether time remains, and the turn.    *)
(* Connected and NewTurn are the events tpe_comm.c itself sends.           *)
Msg(type) == [type |-> type]
TimeMsg(remain, turnid) ==
  [type |-> "TimeRemaining", remain |-> remain, turn |-> turnid]

Time == {TimeMsg(remain, turnid) : remain \in {"none", "some"}, turnid \in 0..MaxTurn}
Replies == Time \cup {Msg(type) : type \in {"OK", "Fail", "AvailableFeatures", "SEQUENCE",
                                            "PlayerData", "Connected", "NewTurn"}}

Requests == {"Connect", "GetFeatures", "Login", "CreateAccount",
             "GetTimeRemaining", "GetPlayerData"}
Callbacks == {"may_login", "logged_in", "create_account_cb", "player_id"}

Srv == INSTANCE Server
         WITH Body <- Requests, Reply <- Replies,
              Callback <- Callbacks, NoCallback <- "none",
              Heard <- {Msg("Fail"), Msg("AvailableFeatures")} \cup Time,
              MaxSends <- 2, MaxReply <- 2, MaxPush <- 2 * MaxTurn

vars == <<netVars, commVars, peerVars, ended>>

Ask(body) == [body |-> body, cb |-> "none"]
AskFor(body, cb) == [body |-> body, cb |-> cb]
Event(type) == [seq |-> 0, body |-> Msg(type)]

(* tpe_comm_connect() has been called with a user who has an account on    *)
(* the server or has none.                                                 *)
Init ==
  /\ Srv!ServerInit
  /\ triedcreate = FALSE
  /\ accountregister = FALSE
  /\ timers = 0
  /\ turn = 0
  /\ player = FALSE
  /\ ended = "no"
  /\ newTurns = 0
  /\ registered \in BOOLEAN
  /\ session = FALSE
  /\ serverTurn = 0
  /\ joined = 0

-----------------------------------------------------------------------------
(* Client                                                                  *)

Running == ended = "no"

SocketConnect ==
  /\ Running
  /\ Srv!ServerAdd(<<AskFor("Connect", "may_login")>>)
  /\ UNCHANGED <<commVars, peerVars, ended>>

(* The frame in front goes to callback cb. *)
For(cb) ==
  /\ Running
  /\ fromServer # <<>>
  /\ cb \in Srv!Called(Head(fromServer))

Content == Head(fromServer).body.type

LoginRequest == AskFor("Login", "logged_in")

(* Mutant: the login is sent twice. *)
MayLoginTwice ==
  /\ For("may_login")
  /\ Srv!HandlePacket(<<LoginRequest, LoginRequest>>, <<>>)
  /\ UNCHANGED <<commVars, peerVars, ended>>

(* Mutant: nothing is sent when the server refuses MsgConnect. *)
MayLoginUnlessRefused ==
  /\ For("may_login")
  /\ Srv!HandlePacket(IF Content = "Fail" THEN <<>>
                      ELSE <<Ask("GetFeatures"), LoginRequest>>, <<>>)
  /\ UNCHANGED <<commVars, peerVars, ended>>

(* Whatever the server said to MsgConnect. *)
MayLogin ==
  /\ For("may_login")
  /\ Srv!HandlePacket(<<Ask("GetFeatures"), LoginRequest>>, <<>>)
  /\ UNCHANGED <<commVars, peerVars, ended>>

(* A refused login ends the program, unless an account may be created.     *)
(* What follows MsgCreateAccount is left out: nothing sets accountregister.*)
LoginRefused ==
  /\ For("logged_in")
  /\ Content = "Fail"
  /\ IF ~triedcreate /\ accountregister
     THEN /\ Srv!HandlePacket(<<AskFor("CreateAccount", "create_account_cb")>>, <<>>)
          /\ triedcreate' = TRUE
          /\ UNCHANGED ended
     ELSE /\ ended' = "exit"
          /\ UNCHANGED <<netVars, triedcreate>>
  /\ UNCHANGED <<accountregister, timers, turn, player, newTurns, peerVars>>

(* Mutant: a refusal is not looked for. *)
LoginAcceptedAnyway ==
  /\ For("logged_in")
  /\ Srv!HandlePacket(<<Ask("GetTimeRemaining"),
                        AskFor("GetPlayerData", "player_id")>>,
                      <<Event("Connected")>>)
  /\ timers' = timers + 1
  /\ UNCHANGED <<triedcreate, accountregister, turn, player, newTurns>>
  /\ UNCHANGED <<peerVars, ended>>

(* Mutant: the player is asked for without a callback. *)
LoginAcceptedNoCallback ==
  /\ For("logged_in")
  /\ Content # "Fail"
  /\ Srv!HandlePacket(<<Ask("GetTimeRemaining"),
                        Ask("GetPlayerData")>>,
                      <<Event("Connected")>>)
  /\ timers' = timers + 1
  /\ UNCHANGED <<triedcreate, accountregister, turn, player, newTurns>>
  /\ UNCHANGED <<peerVars, ended>>

LoginAccepted ==
  /\ For("logged_in")
  /\ Content # "Fail"
  /\ Srv!HandlePacket(<<Ask("GetTimeRemaining"),
                        AskFor("GetPlayerData", "player_id")>>,
                      <<Event("Connected")>>)
  /\ timers' = timers + 1
  /\ UNCHANGED <<triedcreate, accountregister, turn, player, newTurns>>
  /\ UNCHANGED <<peerVars, ended>>

(* The player's data; a sequence header is dropped. *)
PlayerId ==
  /\ For("player_id")
  /\ IF Content = "Fail"
     THEN /\ ended' = "abort"
          /\ UNCHANGED <<netVars, player>>
     ELSE /\ Srv!HandlePacket(<<>>, <<>>)
          /\ player' = (player \/ Content # "SEQUENCE")
          /\ UNCHANGED ended
  /\ UNCHANGED <<triedcreate, accountregister, timers, turn, newTurns, peerVars>>

(* A frame no callback waits for is an event at most. *)
OtherFrame ==
  /\ Running
  /\ fromServer # <<>>
  /\ Srv!Called(Head(fromServer)) = {}
  /\ Srv!HandlePacket(<<>>, <<>>)
  /\ UNCHANGED <<commVars, peerVars, ended>>

(* Mutant: an answer counts as an announcement. *)
TurnEndsByTime(e) == e.body.remain = "none"

(* Mutant: the announcement must name another turn than the last frame. *)
TurnEndsIfOther(e) == e.seq = 0 /\ e.body.remain = "none" /\ e.body.turn # turn

TurnEnds(e) == e.seq = 0 /\ e.body.remain = "none"

(* Mutant: the end of a turn leaves the turn it names. *)
TurnAfterNamed(e) == e.body.turn

(* tpe_comm_time_remaining(): the turn is the one the frame names, and one *)
(* more when the frame announces the end of that turn.                     *)
TurnAfter(e) == IF TurnEnds(e) THEN e.body.turn + 1 ELSE e.body.turn

TimeRemaining ==
  /\ Running
  /\ events # <<>>
  /\ Head(events).body.type = "TimeRemaining"
  /\ turn' = TurnAfter(Head(events))
  /\ IF TurnEnds(Head(events))
     THEN /\ newTurns' = newTurns + 1
          /\ Srv!HandleEvent(<<>>, <<Event("NewTurn")>>)
     ELSE /\ UNCHANGED newTurns
          /\ Srv!HandleEvent(<<>>, <<>>)
  /\ UNCHANGED <<triedcreate, accountregister, timers, player, peerVars, ended>>

(* The other events: features and errors are printed, and what listens to  *)
(* Connected and NewTurn is in other modules.                              *)
OtherEvent ==
  /\ Running
  /\ events # <<>>
  /\ Head(events).body.type # "TimeRemaining"
  /\ Srv!HandleEvent(<<>>, <<>>)
  /\ UNCHANGED <<commVars, peerVars, ended>>

(* The timer of a login: every five seconds. *)
GetTime ==
  /\ Running
  /\ timers > 0
  /\ seq < MaxSeq
  /\ Srv!ClientSends(<<Ask("GetTimeRemaining")>>)
  /\ UNCHANGED <<commVars, peerVars, ended>>

Client ==
  \/ SocketConnect
  \/ MayLogin \/ LoginRefused \/ LoginAccepted
  \/ PlayerId \/ OtherFrame
  \/ TimeRemaining \/ OtherEvent
  \/ GetTime

-----------------------------------------------------------------------------
(* Game server                                                             *)

Asked(body) ==
  /\ Running
  /\ toServer # <<>>
  /\ Head(toServer).body = body

AnswerConnect ==
  /\ Asked("Connect")
  /\ \E b \in {"OK", "Fail"} : Srv!Answer(<<Msg(b)>>)
  /\ UNCHANGED peerVars

AnswerGetFeatures ==
  /\ Asked("GetFeatures")
  /\ Srv!Answer(<<Msg("AvailableFeatures")>>)
  /\ UNCHANGED peerVars

AnswerLogin ==
  /\ Asked("Login")
  /\ Srv!Answer(<<Msg(IF registered THEN "OK" ELSE "Fail")>>)
  /\ session' = registered
  /\ joined' = serverTurn
  /\ UNCHANGED <<registered, serverTurn>>

AnswerGetTimeRemaining ==
  /\ Asked("GetTimeRemaining")
  /\ \E r \in {"none", "some"} :
       Srv!Answer(<<IF session THEN TimeMsg(r, serverTurn) ELSE Msg("Fail")>>)
  /\ UNCHANGED peerVars

AnswerGetPlayerData ==
  /\ Asked("GetPlayerData")
  /\ Srv!Answer(CASE ~session -> <<Msg("Fail")>>
                  [] session /\ PlayerAsSequence -> <<Msg("SEQUENCE"), Msg("PlayerData")>>
                  [] OTHER -> <<Msg("PlayerData")>>)
  /\ UNCHANGED peerVars

AnswerRequest ==
  \/ AnswerConnect \/ AnswerGetFeatures \/ AnswerLogin
  \/ AnswerGetTimeRemaining \/ AnswerGetPlayerData

(* The turn ends, and the players who are in are told.                     *)
EndTurn ==
  /\ Running
  /\ serverTurn < MaxTurn
  /\ serverTurn' = serverTurn + 1
  /\ IF session
     THEN Srv!Push(TimeMsg("none", serverTurn))
     ELSE UNCHANGED netVars
  /\ UNCHANGED <<registered, session, joined>>

Next ==
  \/ Client
  \/ (AnswerRequest \/ EndTurn) /\ UNCHANGED <<commVars, ended>>

Spec ==
  /\ Init
  /\ [][Next]_vars

(* The main loop handles what arrives and what is queued; the server       *)
(* answers.  Turns need not end and the timer need not fire.               *)
HandleFrame ==
  \/ MayLogin \/ LoginRefused \/ LoginAccepted
  \/ PlayerId \/ OtherFrame

Fairness ==
  /\ WF_vars(SocketConnect)
  /\ WF_vars(HandleFrame)
  /\ WF_vars(TimeRemaining \/ OtherEvent)
  /\ WF_vars(AnswerRequest /\ UNCHANGED <<commVars, ended>>)

FairSpec == Spec /\ Fairness

-----------------------------------------------------------------------------

Members(s) == {s[i].body : i \in 1..Len(s)}
PositionsOf(s, B) == {i \in 1..Len(s) : s[i].seq = 0 /\ s[i].body \in B}

TypeOK ==
  /\ Srv!TypeOK
  /\ {triedcreate, accountregister, player, registered, session} \subseteq BOOLEAN
  /\ timers \in 0..1
  /\ turn \in 0..MaxTurn
  /\ newTurns \in 0..MaxTurn
  /\ {serverTurn, joined} \subseteq 0..MaxTurn
  /\ ended \in {"no", "exit", "abort"}

(* The client never gives a login up that the server granted, and never    *)
(* takes a refused one for granted: it asks for nothing that needs a       *)
(* player before the server let him in.                                    *)
LoginAgrees ==
  /\ Members(toServer) \cap {"GetTimeRemaining", "GetPlayerData"} # {} => session
  /\ timers > 0 => session
  /\ ended # "no" => ~session

(* Once nothing about the time is under way, it is the game's turn.        *)
TurnInStep ==
  /\ timers > 0
  /\ "GetTimeRemaining" \notin Members(toServer)
  /\ (Members(fromServer) \cup Members(events)) \cap Time = {}
  => turn = serverTurn

(* Each turn that ends while the player is in becomes one NewTurn event.   *)
TurnEnd == {t \in Time : t.remain = "none"}
EachTurnOnce ==
  session =>
    newTurns + Cardinality(PositionsOf(fromServer, TurnEnd))
             + Cardinality(PositionsOf(events, TurnEnd)) = serverTurn - joined

(* The turn shown to the player does not go back.                          *)
TurnMonotone == [][turn' >= turn]_vars

(* Connecting ends: the player is in or the program has given up.          *)
ConnectSettles == <>(timers > 0 \/ ended # "no")

(* A player who is in learns who he is: "just the sequence header" is no   *)
(* more than the beginning of the answer.                                  *)
PlayerLearned == (timers > 0) ~> player
=============================================================================
