------------------------------ MODULE CommProofs ------------------------------
(***************************************************************************)
(* Proofs about Comm, for any number of turns, of requests and of answers  *)
(* under way.                                                              *)
(***************************************************************************)
EXTENDS Comm, QueueLemmas

(* What is proved about Server holds of the server.c Comm runs on.         *)
SP == INSTANCE ServerProofs
        WITH Body <- Requests, Reply <- Replies,
             Callback <- Callbacks, NoCallback <- "none",
             Heard <- {Msg("Fail"), Msg("AvailableFeatures")} \cup Time,
             MaxSends <- 2, MaxReply <- 2, MaxPush <- 2 * MaxTurn

-----------------------------------------------------------------------------
(* The inductive invariant                                                 *)

(* The client asks in one order, so that a number says what was asked.     *)
RequestOf(n) ==
  CASE n = 2 -> AskFor("Connect", "may_login")
    [] n = 3 -> Ask("GetFeatures")
    [] n = 4 -> LoginRequest
    [] n = 6 -> AskFor("GetPlayerData", "player_id")
    [] OTHER -> Ask("GetTimeRemaining")

(* What the server says to it, 0 being what it says unasked.               *)
AnswersTo(n) ==
  CASE n = 0 -> TurnEnd
    [] n = 2 -> {Msg("OK"), Msg("Fail")}
    [] n = 3 -> {Msg("AvailableFeatures")}
    [] n = 4 -> {Msg(IF registered THEN "OK" ELSE "Fail")}
    [] n = 6 -> {Msg("SEQUENCE"), Msg("PlayerData")}
    [] OTHER -> Time

Wire == [seq : Nat, body : Requests]
Queued == [seq : Nat, body : Replies]

RequestsAsked == {r \in Wire : r.body = RequestOf(r.seq).body}
AnswersGiven == {f \in Srv!Frame : f.body \in AnswersTo(f.seq)}
OwnEvents == {Event("Connected"), Event("NewTurn")}
EventsSent == {e \in Queued : e \in OwnEvents \/ e.body \in AnswersTo(e.seq)}

ByNumber ==
  /\ toServer \in Seq(RequestsAsked)
  /\ \A c \in cbs : c.cb = RequestOf(c.seq).cb
  /\ fromServer \in Seq(AnswersGiven)
  /\ events \in Seq(EventsSent)

(* How far the client is can be told from the number of its last request.  *)
Stage ==
  /\ seq \in {1, 2, 4} \/ seq >= 6
  /\ conncb <=> seq = 1
  /\ 2 \in Srv!Open => seq = 2
  /\ 4 \in Srv!Open => seq = 4
  /\ timers = IF seq >= 6 THEN 1 ELSE 0
  /\ triedcreate = FALSE /\ accountregister = FALSE

(* The server has let the player in when it has answered the login of one  *)
(* who has an account, and the client knows when it has handled the answer.*)
LetIn ==
  /\ session <=> registered /\ seq >= 4 /\ 4 \notin Srv!NumbersOf(toServer)
  /\ seq >= 6 => session
  /\ ended # "no" => ~session
  /\ ended \in {"no", "exit", "abort"}
  /\ {player, registered, session} \subseteq BOOLEAN

(* The frames and events about the time, and the ends of turns among them. *)
OfTime(s) == {x \in ToSet(s) : x.body \in Time}

(* Who handles them in their order counts the turns up to the server's.    *)
Passing == Queued \cup Srv!Frame
Rising == {p \in Passing \X Passing :
             p[1].body \in Time /\ p[2].body \in Time => TurnAfter(p[1]) <= TurnAfter(p[2])}

TurnsRise ==
  /\ turn \in Nat /\ serverTurn \in 0..MaxTurn /\ joined \in 0..serverTurn
  /\ turn <= serverTurn
  /\ \A x \in OfTime(events) \cup OfTime(fromServer) :
       turn <= TurnAfter(x) /\ TurnAfter(x) <= serverTurn
  /\ Ordered(events, Rising)
  /\ Ordered(fromServer, Rising)
  /\ Across(events, fromServer, Rising)

(* A client that asks for the time has the turn or will get it.            *)
TurnUnderWay ==
  \/ turn = serverTurn
  \/ "GetTimeRemaining" \in Members(toServer)
  \/ \E x \in OfTime(events) \cup OfTime(fromServer) : TurnAfter(x) = serverTurn

TurnKnown == timers > 0 => TurnUnderWay

(* Each end of a turn is announced or has been handled, once.              *)
Announcement == {x \in Passing : x.seq = 0 /\ x.body \in TurnEnd}
Announced(s) == Cardinality(Places(s, Announcement))

TurnsCounted ==
  /\ newTurns \in Nat
  /\ newTurns + Announced(fromServer) + Announced(events)
       = IF session THEN serverTurn - joined ELSE 0

IInv ==
  /\ Srv!IInv
  /\ ByNumber
  /\ Stage
  /\ LetIn
  /\ TurnsRise
  /\ TurnKnown
  /\ TurnsCounted

-----------------------------------------------------------------------------
(* Comm's server.c is the one the theorems are about                       *)

LEMMA ServerAssumptions ==
  SP!HeardAssumption /\ SP!NoCallbackAssumption /\ SP!BoundAssumption
<1>1. {Msg("Fail"), Msg("AvailableFeatures")} \cup Time \subseteq Replies
  BY DEF Replies
<1>2. "none" \notin Callbacks
  BY DEF Callbacks
<1>3. MaxSeq \in Nat \ {0} /\ 2 * MaxTurn \in Nat
  BY BoundAssumption
<1> QED BY <1>1, <1>2, <1>3

LEMMA SameInvariant == Srv!IInv <=> SP!IInv
<1>1. Srv!TypeOK <=> SP!TypeOK
  BY DEF Srv!TypeOK, SP!TypeOK, Srv!Frame, SP!Frame
<1>2. /\ Srv!Firsts = SP!Firsts
      /\ Srv!Open = SP!Open
      /\ Srv!FirstNumbers = SP!FirstNumbers
  BY DEF Srv!Firsts, SP!Firsts, Srv!Open, SP!Open, Srv!FirstNumbers, SP!FirstNumbers
<1>3. Srv!TableMatchesWire <=> SP!TableMatchesWire
  BY <1>2 DEF Srv!TableMatchesWire, SP!TableMatchesWire, Srv!NumbersOf, SP!NumbersOf
<1>4. Srv!OneEntryPerNumber <=> SP!OneEntryPerNumber
  BY DEF Srv!OneEntryPerNumber, SP!OneEntryPerNumber
<1>5. Srv!EventAfterCallback <=> SP!EventAfterCallback
  BY <1>2 DEF Srv!EventAfterCallback, SP!EventAfterCallback
<1>6. Srv!NumbersUsed <=> SP!NumbersUsed
  BY <1>2 DEF Srv!NumbersUsed, SP!NumbersUsed
<1>7. Srv!WireInOrder <=> SP!WireInOrder
  BY <1>2 DEF Srv!WireInOrder, SP!WireInOrder
<1>8. Srv!RestBehindFirst <=> SP!RestBehindFirst
  BY <1>2 DEF Srv!RestBehindFirst, SP!RestBehindFirst
<1> QED BY <1>1, <1>3, <1>4, <1>5, <1>6, <1>7, <1>8 DEF Srv!IInv, SP!IInv

LEMMA SameInvariantNext == Srv!IInv' <=> SP!IInv'
BY SameInvariant, PTL

LEMMA SameState ==
  /\ Srv!TypeOK <=> SP!TypeOK
  /\ Srv!Open = SP!Open
  /\ Srv!NumbersOf(toServer) = SP!NumbersOf(toServer)
  /\ Srv!Request = SP!Request
BY DEF Srv!TypeOK, SP!TypeOK, Srv!Frame, SP!Frame, Srv!Open, SP!Open,
       Srv!NumbersOf, SP!NumbersOf, Srv!Request, SP!Request

LEMMA SameSteps ==
  ASSUME NEW rs, NEW es, NEW bodies, NEW body
  PROVE  /\ Srv!ServerAdd(rs) <=> SP!ServerAdd(rs)
         /\ Srv!ClientSends(rs) <=> SP!ClientSends(rs)
         /\ Srv!HandlePacket(rs, es) <=> SP!HandlePacket(rs, es)
         /\ Srv!HandleEvent(rs, es) <=> SP!HandleEvent(rs, es)
         /\ Srv!Answer(bodies) <=> SP!Answer(bodies)
         /\ Srv!Push(body) <=> SP!Push(body)
         /\ Srv!SendAll(rs) <=> SP!SendAll(rs)
         /\ Srv!Entries(rs) = SP!Entries(rs)
<1>1. /\ Srv!SendAll(rs) <=> SP!SendAll(rs)
      /\ Srv!Entries(rs) = SP!Entries(rs)
  BY DEF Srv!SendAll, SP!SendAll, Srv!Entries, SP!Entries
<1>2. /\ Srv!ServerAdd(rs) <=> SP!ServerAdd(rs)
      /\ Srv!ClientSends(rs) <=> SP!ClientSends(rs)
  BY <1>1 DEF Srv!ServerAdd, SP!ServerAdd, Srv!ClientSends, SP!ClientSends
<1>3. Srv!HandlePacket(rs, es) <=> SP!HandlePacket(rs, es)
  BY <1>1 DEF Srv!HandlePacket, SP!HandlePacket, Srv!Called, SP!Called,
              Srv!Matching, SP!Matching, Srv!Posted, SP!Posted
<1>4. Srv!HandleEvent(rs, es) <=> SP!HandleEvent(rs, es)
  BY <1>1 DEF Srv!HandleEvent, SP!HandleEvent
<1>5. /\ Srv!Answer(bodies) <=> SP!Answer(bodies)
      /\ Srv!Push(body) <=> SP!Push(body)
  BY DEF Srv!Answer, SP!Answer, Srv!Push, SP!Push
<1> QED BY <1>1, <1>2, <1>3, <1>4, <1>5

(* Each of Server's steps keeps its invariant, whatever Comm sends in it.  *)
LEMMA ServerStep ==
  ASSUME Srv!IInv, NEW rs \in Seq(Srv!Request), NEW es \in Seq(SP!OwnEvent),
         NEW bodies \in Seq(Replies) \ {<<>>}, NEW body \in Replies,
         \/ Srv!ServerAdd(rs) \/ Srv!ClientSends(rs)
         \/ Srv!HandlePacket(rs, es) \/ Srv!HandleEvent(rs, es)
         \/ Srv!Answer(bodies) \/ Srv!Push(body)
  PROVE  Srv!IInv'
<1>1. SP!IInv /\ rs \in Seq(SP!Request)
  BY SameInvariant, SameState
<1>2. SP!IInv'
  <2>1. CASE Srv!ServerAdd(rs)
    BY <1>1, <2>1, SameSteps, ServerAssumptions, SP!ServerAddInv
  <2>2. CASE Srv!ClientSends(rs)
    BY <1>1, <2>2, SameSteps, ServerAssumptions, SP!ClientSendsInv
  <2>3. CASE Srv!HandlePacket(rs, es)
    BY <1>1, <2>3, SameSteps, ServerAssumptions, SP!HandlePacketInv
  <2>4. CASE Srv!HandleEvent(rs, es)
    BY <1>1, <2>4, SameSteps, ServerAssumptions, SP!HandleEventInv
  <2>5. CASE Srv!Answer(bodies)
    BY <1>1, <2>5, SameSteps, ServerAssumptions, SP!AnswerInv
  <2>6. CASE Srv!Push(body)
    BY <1>1, <2>6, SameSteps, ServerAssumptions, SP!PushInv
  <2> QED BY <2>1, <2>2, <2>3, <2>4, <2>5, <2>6
<1>3. Srv!IInv' <=> SP!IInv'
  BY SameInvariantNext
<1> QED BY <1>2, <1>3

-----------------------------------------------------------------------------
(* Frames, requests and queues                                             *)

LEMMA WhatIsSaid ==
  /\ \A b \in Time : /\ b \in Replies
                     /\ b.type = "TimeRemaining"
                     /\ b.turn \in 0..MaxTurn
                     /\ b.turn \in Nat
  /\ \A b \in Replies : b.type = "TimeRemaining" => b \in Time
  /\ \A type : Msg(type).type = type /\ (type # "TimeRemaining" => Msg(type) \notin Time)
  /\ \A remain \in {"none", "some"}, n \in 0..MaxTurn :
       /\ TimeMsg(remain, n) \in Time
       /\ TimeMsg(remain, n).remain = remain
       /\ TimeMsg(remain, n).turn = n
<1>1. MaxTurn \in Nat
  BY BoundAssumption
<1>2. \A remain, n : /\ TimeMsg(remain, n).type = "TimeRemaining"
                     /\ TimeMsg(remain, n).remain = remain
                     /\ TimeMsg(remain, n).turn = n
  BY DEF TimeMsg
<1>3. \A type : Msg(type).type = type
  BY DEF Msg
<1>4. \A b \in Time : /\ b.type = "TimeRemaining"
                     /\ b.turn \in 0..MaxTurn
                     /\ b.turn \in Nat
  BY <1>1, <1>2 DEF Time
<1>5. \A b \in Replies : b.type = "TimeRemaining" => b \in Time
  BY <1>3 DEF Replies
<1>6. \A remain \in {"none", "some"}, n \in 0..MaxTurn : TimeMsg(remain, n) \in Time
  BY DEF Time
<1>7. Time \subseteq Replies
  BY DEF Replies
<1> QED BY <1>2, <1>3, <1>4, <1>5, <1>6, <1>7

(* The numbers tell the requests apart.                                    *)
LEMMA Asking ==
  /\ \A n \in Nat : /\ RequestOf(n) \in Srv!Request
                    /\ RequestOf(n).cb = "may_login" => n = 2
                    /\ RequestOf(n).cb = "logged_in" => n = 4
                    /\ RequestOf(n).cb = "player_id" => n = 6
                    /\ RequestOf(n).cb # "create_account_cb"
                    /\ RequestOf(n).body = "Connect" => n = 2
                    /\ RequestOf(n).body = "GetFeatures" => n = 3
                    /\ RequestOf(n).body = "Login" <=> n = 4
                    /\ RequestOf(n).body = "GetPlayerData" => n = 6
                    /\ RequestOf(n).body = "GetTimeRemaining" => n \notin {2, 3, 4, 6}
                    /\ RequestOf(n).body \in {"GetPlayerData", "GetTimeRemaining"} => n \notin 2..4
  /\ RequestOf(2) = AskFor("Connect", "may_login")
  /\ RequestOf(3) = Ask("GetFeatures")
  /\ RequestOf(4) = LoginRequest
  /\ RequestOf(5) = Ask("GetTimeRemaining")
  /\ RequestOf(6) = AskFor("GetPlayerData", "player_id")
  /\ \A n \in Nat : n > 6 => RequestOf(n) = Ask("GetTimeRemaining")
BY DEF RequestOf, AskFor, Ask, LoginRequest, Srv!Request, Requests, Callbacks

(* No event of tpe_comm.c's own is about the time.                         *)
LEMMA OwnEventsPlain ==
  ASSUME NEW e \in OwnEvents
  PROVE  e \in EventsSent /\ e \in Passing /\ e \in SP!OwnEvent /\ e.body \notin Time
<1>1. e \in Queued /\ e.body \in {Msg("Connected"), Msg("NewTurn")} /\ e.seq = 0
  BY DEF OwnEvents, Event, Queued, Replies
<1>2. e.body \notin Time
  BY <1>1, WhatIsSaid
<1>3. e \in SP!OwnEvent
  BY DEF OwnEvents, Event, SP!OwnEvent, Replies
<1> QED BY <1>1, <1>2, <1>3 DEF EventsSent, Passing

LEMMA PlainRises ==
  ASSUME NEW x \in Passing, NEW y \in Passing, x.body \notin Time \/ y.body \notin Time
  PROVE  <<x, y>> \in Rising
BY DEF Rising

LEMMA PlainUncounted ==
  ASSUME NEW S, NEW s \in Seq(S), \A x \in S : x.body \notin Time \/ x.seq # 0
  PROVE  Announced(s) = 0
<1>1. ToSet(s) \subseteq S
  BY Contents
<1>2. ToSet(s) \cap Announcement = {}
  BY <1>1 DEF Announcement, TurnEnd
<1> QED BY <1>2, PlacesFinite DEF Announced

(* What lies in the queues.                                                *)
LEMMA Queues ==
  ASSUME IInv
  PROVE  /\ fromServer \in Seq(AnswersGiven) /\ fromServer \in Seq(Passing)
         /\ events \in Seq(EventsSent) /\ events \in Seq(Passing)
         /\ Announced(fromServer) \in Nat /\ Announced(events) \in Nat
         /\ \A x \in Passing : x.seq \in Nat
<1>1. fromServer \in Seq(AnswersGiven) /\ events \in Seq(EventsSent)
  BY DEF IInv, ByNumber
<1>2. AnswersGiven \subseteq Passing /\ EventsSent \subseteq Passing
  BY DEF AnswersGiven, EventsSent, Passing
<1>3. fromServer \in Seq(Passing) /\ events \in Seq(Passing)
  BY <1>1, <1>2, SeqMonotonic
<1>4. Announced(fromServer) \in Nat /\ Announced(events) \in Nat
  BY <1>3, PlacesFinite DEF Announced
<1>5. \A x \in Passing : x.seq \in Nat
  BY DEF Passing, Queued, Srv!Frame
<1> QED BY <1>1, <1>3, <1>4, <1>5

(* A request for what the invariant says its number asks for.              *)
Conforms(rs) == \A i \in 1..Len(rs) : rs[i] = RequestOf(seq + i)

LEMMA SendStep ==
  ASSUME IInv, NEW rs \in Seq(Srv!Request), Conforms(rs), Srv!SendAll(rs)
  PROVE  /\ seq \in Nat /\ seq' = seq + Len(rs) /\ Len(rs) \in Nat
         /\ toServer' \in Seq(RequestsAsked)
         /\ Members(toServer)' = Members(toServer) \cup {rs[i].body : i \in 1..Len(rs)}
         /\ Srv!NumbersOf(toServer)' = Srv!NumbersOf(toServer) \cup (seq + 1)..seq'
         /\ \A c \in Srv!Entries(rs) : c.cb = RequestOf(c.seq).cb
<1> DEFINE new == [i \in 1..Len(rs) |-> [seq |-> seq + i, body |-> rs[i].body]]
<1>1. /\ Srv!TypeOK /\ SP!TypeOK /\ rs \in Seq(SP!Request) /\ SP!SendAll(rs)
      /\ seq \in Nat
      /\ toServer \in Seq(RequestsAsked)
  BY SameState, SameSteps DEF IInv, Srv!IInv, Srv!TypeOK, ByNumber
<1>2. Len(rs) \in Nat
  OBVIOUS
<1>3. seq' = seq + Len(rs) /\ toServer' = toServer \o new
  BY DEF Srv!SendAll
<1>4. ASSUME NEW i \in 1..Len(rs)
      PROVE  new[i] \in RequestsAsked /\ new[i].body = rs[i].body
  <2>1. rs[i] \in Srv!Request /\ rs[i] = RequestOf(seq + i) /\ seq + i \in Nat
    BY <1>1, <1>2 DEF Conforms
  <2>2. new[i] = [seq |-> seq + i, body |-> rs[i].body]
    OBVIOUS
  <2>3. new[i] \in Wire
    BY <2>1, <2>2 DEF Wire, Srv!Request
  <2> QED BY <2>1, <2>2, <2>3 DEF RequestsAsked
<1>5. new \in Seq(RequestsAsked) /\ Len(new) = Len(rs)
  <2>1. new \in [1..Len(rs) -> RequestsAsked]
    BY <1>4
  <2> HIDE DEF new
  <2> QED BY <1>2, <2>1
<1>6. ToSet(new) = {new[i] : i \in 1..Len(rs)}
  <2> HIDE DEF new
  <2> QED BY <1>5, Contents
<1>7. toServer' \in Seq(RequestsAsked) /\ ToSet(toServer') = ToSet(toServer) \cup ToSet(new)
  <2> HIDE DEF new
  <2> QED BY <1>1, <1>3, <1>5, ConcatContents
<1>8. Members(toServer)' = Members(toServer) \cup {rs[i].body : i \in 1..Len(rs)}
  <2>1. /\ ToSet(toServer') = {toServer'[i] : i \in 1..Len(toServer')}
        /\ ToSet(toServer) = {toServer[i] : i \in 1..Len(toServer)}
    BY <1>1, <1>7, Contents
  <2>2. /\ Members(toServer)' = {x.body : x \in ToSet(toServer')}
        /\ Members(toServer) = {x.body : x \in ToSet(toServer)}
    BY <2>1 DEF Members
  <2>3. {x.body : x \in ToSet(new)} = {rs[i].body : i \in 1..Len(rs)}
    <3> HIDE DEF new
    <3> QED BY <1>4, <1>6
  <2> HIDE DEF new
  <2> QED BY <1>7, <2>2, <2>3
<1>9. Srv!NumbersOf(toServer)' = Srv!NumbersOf(toServer) \cup (seq + 1)..seq'
  <2>1. SP!NumbersOf(toServer)' = SP!NumbersOf(toServer) \cup (seq + 1)..seq'
    BY <1>1, ServerAssumptions, SP!SendingNumbers
  <2> QED BY <2>1 DEF Srv!NumbersOf, SP!NumbersOf
<1>10. ASSUME NEW c \in Srv!Entries(rs)
       PROVE  c.cb = RequestOf(c.seq).cb
  <2>1. PICK i \in 1..Len(rs) : c = [seq |-> seq + i, cb |-> rs[i].cb]
    BY DEF Srv!Entries
  <2> QED BY <2>1 DEF Conforms
<1> QED BY <1>1, <1>2, <1>3, <1>7, <1>8, <1>9, <1>10

(* The members of a list by its contents.                                  *)
LEMMA MembersOf ==
  ASSUME NEW S, NEW s \in Seq(S)
  PROVE  /\ Members(s) = {x.body : x \in ToSet(s)}
         /\ Srv!NumbersOf(s) = {x.seq : x \in ToSet(s)}
<1>1. ToSet(s) = {s[i] : i \in 1..Len(s)}
  BY Contents
<1> QED BY <1>1 DEF Members, Srv!NumbersOf

(* The number of a frame some callback waits for.                          *)
LEMMA WhoCalls ==
  ASSUME IInv, NEW cb \in Callbacks, For(cb)
  PROVE  LET f == Head(fromServer)
         IN  /\ f \in AnswersGiven
             /\ f.seq \in Srv!Open
             /\ f.seq \notin Srv!NumbersOf(toServer)
             /\ f.seq = CASE cb = "may_login" -> 2
                          [] cb = "logged_in" -> 4
                          [] cb = "player_id" -> 6
             /\ cb # "create_account_cb"
<1> DEFINE f == Head(fromServer)
<1>1. fromServer # <<>> /\ fromServer \in Seq(AnswersGiven)
  BY DEF For, IInv, ByNumber
<1>2. f \in AnswersGiven
  BY <1>1, HeadAndTail
<1>3. PICK c \in cbs : c.seq = f.seq /\ c.cb = cb
  BY DEF For, Srv!Called, Srv!Matching
<1>4. f.seq \in Nat /\ cb = RequestOf(f.seq).cb
  BY <1>2, <1>3 DEF IInv, ByNumber, AnswersGiven, Srv!Frame
<1>5. f.seq \in Srv!Open
  BY <1>3 DEF Srv!Open
<1>6. f.seq \notin Srv!NumbersOf(toServer)
  BY <1>1, SameInvariant, SameState, ServerAssumptions, SP!OldestFrame DEF IInv
<1>7. cb # "create_account_cb" /\ f.seq = CASE cb = "may_login" -> 2
                          [] cb = "logged_in" -> 4
                          [] cb = "player_id" -> 6
  <2>1. /\ cb = "may_login" => f.seq = 2
        /\ cb = "logged_in" => f.seq = 4
        /\ cb = "player_id" => f.seq = 6
        /\ cb # "create_account_cb"
    BY <1>4, Asking
  <2> QED BY <2>1 DEF Callbacks
<1> QED BY <1>2, <1>5, <1>6, <1>7

(* The oldest frame leaves its queue, and its event joins the other, behind*)
(* what tpe_comm.c itself sends.                                           *)
LEMMA FramePasses ==
  ASSUME IInv, NEW es \in Seq(OwnEvents), fromServer # <<>>,
         fromServer' = Tail(fromServer),
         events' = events \o es \o Srv!Posted(Head(fromServer)),
         UNCHANGED <<turn, registered, serverTurn, joined>>
  PROVE  /\ fromServer' \in Seq(AnswersGiven)' /\ events' \in Seq(EventsSent)'
         /\ TurnsRise'
         /\ \A x \in OfTime(events) \cup OfTime(fromServer) :
              \E y \in OfTime(events') \cup OfTime(fromServer') : TurnAfter(y) = TurnAfter(x)
         /\ Announced(fromServer') + Announced(events')
              = Announced(fromServer) + Announced(events)
<1> DEFINE f == Head(fromServer)
           rest == Tail(fromServer)
           g == Srv!Posted(f)
           new == es \o g
<1>1. /\ fromServer \in Seq(AnswersGiven) /\ fromServer \in Seq(Passing)
      /\ events \in Seq(EventsSent) /\ events \in Seq(Passing)
      /\ \A x \in Passing : x.seq \in Nat
  BY Queues
<1>2. /\ f \in AnswersGiven /\ rest \in Seq(AnswersGiven)
  BY <1>1, HeadAndTail
<1>3. /\ f \in Passing /\ rest \in Seq(Passing)
      /\ ToSet(fromServer) = {f} \cup ToSet(rest)
  BY <1>1, HeadAndTail
<1>4. f \in Srv!Frame /\ f.body \in AnswersTo(f.seq) /\ f.seq \in Nat /\ f.body \in Replies
  BY <1>2 DEF AnswersGiven, Srv!Frame
<1>5. /\ g \in Seq(EventsSent) /\ g \in Seq(Passing)
      /\ \A x \in ToSet(g) : x.seq = f.seq /\ x.body = f.body /\ TurnAfter(x) = TurnAfter(f)
      /\ Ordered(g, Rising)
      /\ f.body \in Time => ToSet(g) # {}
      /\ Announced(g) = IF f \in Announcement THEN 1 ELSE 0
  <2> DEFINE e == [seq |-> f.seq, body |-> f.body]
             h == <<e>>
  <2>1. e \in EventsSent /\ e \in Passing
    BY <1>4 DEF EventsSent, Passing, Queued
  <2>2. TurnAfter(e) = TurnAfter(f)
    BY DEF TurnAfter, TurnEnds
  <2>3. e \in Announcement <=> f \in Announcement
    BY <1>3, <2>1 DEF Announcement
  <2>4. ToSet(h) = {e} /\ Ordered(h, Rising) /\ h \in Seq(EventsSent) /\ h \in Seq(Passing)
    <3>1. h \in Seq(EventsSent) /\ h \in Seq(Passing)
      BY <2>1
    <3>2. ToSet(h) = {e}
      BY SingleContents
    <3>3. Ordered(h, Rising)
      BY ShortOrdered
    <3> QED BY <3>1, <3>2, <3>3
  <2>5. Announced(h) = IF f \in Announcement THEN 1 ELSE 0
    BY <2>3, SingleCount DEF Announced
  <2>6. (g = <<>> /\ f.body \notin Time) \/ g = h
    BY DEF Srv!Posted
  <2>7. CASE g = h
    <3> HIDE DEF g, h
    <3> QED BY <2>2, <2>4, <2>5, <2>7
  <2>8. CASE g = <<>> /\ f.body \notin Time
    <3>1. f \notin Announcement
      BY <2>8 DEF Announcement, TurnEnd
    <3>2. Announced(<<>>) = 0
      BY EmptyContents, FS_EmptySet DEF Announced
    <3> HIDE DEF g
    <3> QED BY <2>8, <3>1, <3>2, EmptyContents, ShortOrdered
  <2> QED BY <2>6, <2>7, <2>8
<1>6. /\ es \in Seq(EventsSent) /\ es \in Seq(Passing)
      /\ \A x \in ToSet(es) : x.body \notin Time /\ x \in Passing
      /\ Ordered(es, Rising)
      /\ Announced(es) = 0
  <2>1. /\ OwnEvents \subseteq EventsSent /\ OwnEvents \subseteq Passing
        /\ \A x \in OwnEvents : x.body \notin Time
    BY OwnEventsPlain
  <2>2. ToSet(es) \subseteq OwnEvents
    BY Contents
  <2>3. Announced(es) = 0
    BY <2>1, PlainUncounted
  <2>4. Ordered(es, Rising)
    BY <2>1, PlainRises DEF Ordered
  <2> QED BY <2>1, <2>2, <2>3, <2>4, SeqMonotonic
<1>0. events' = (events \o es) \o g
  OBVIOUS
<1> HIDE DEF g
<1>7. /\ new \in Seq(EventsSent) /\ new \in Seq(Passing)
      /\ ToSet(new) = ToSet(es) \cup ToSet(g)
      /\ Announced(new) = IF f \in Announcement THEN 1 ELSE 0
      /\ Ordered(new, Rising)
  <2>1. new \in Seq(EventsSent)
    BY <1>5, <1>6
  <2>2. new \in Seq(Passing) /\ ToSet(new) = ToSet(es) \cup ToSet(g)
    BY <1>5, <1>6, ConcatContents
  <2>3. Across(es, g, Rising)
    <3>1. ToSet(g) \subseteq Passing
      BY <1>5, Contents
    <3> QED BY <1>6, <3>1, PlainRises DEF Across
  <2>4. Announced(new) = Announced(es) + Announced(g)
    BY <1>5, <1>6, ConcatCount DEF Announced
  <2> QED BY <1>5, <1>6, <2>1, <2>2, <2>3, <2>4, ConcatOrdered
<1>8. events' = events \o new
  <2>1. (events \o es) \o g = events \o (es \o g)
    <3>1. events \in Seq(Passing) /\ es \in Seq(Passing) /\ g \in Seq(Passing)
      BY <1>1, <1>5, <1>6
    <3> QED BY ONLY <3>1, ConcatAssociative
  <2> QED BY <1>0, <2>1
<1>9. /\ Ordered(events, Rising) /\ Ordered(fromServer, Rising)
      /\ Across(events, fromServer, Rising)
      /\ \A x \in OfTime(events) \cup OfTime(fromServer) :
            turn <= TurnAfter(x) /\ TurnAfter(x) <= serverTurn
  BY DEF IInv, TurnsRise
<1>10. /\ Ordered(rest, Rising)
       /\ \A x \in ToSet(rest) : <<f, x>> \in Rising
  BY <1>1, <1>9, TailOrdered
<1> HIDE DEF new
<1>11. /\ events' \in Seq(EventsSent) /\ events' \in Seq(Passing)
       /\ ToSet(events') = ToSet(events) \cup ToSet(es) \cup ToSet(g)
  <2>1. events \o new \in Seq(EventsSent)
    BY <1>1, <1>7
  <2>2. events \o new \in Seq(Passing) /\ ToSet(events \o new) = ToSet(events) \cup ToSet(new)
    BY <1>1, <1>7, ConcatContents
  <2> QED BY <1>7, <1>8, <2>1, <2>2
<1>12. /\ ToSet(events) \subseteq Passing /\ ToSet(fromServer) \subseteq Passing
       /\ ToSet(g) \subseteq Passing
  BY <1>1, <1>5, Contents
<1>13. ASSUME NEW x \in ToSet(g), NEW y \in Passing
       PROVE  /\ <<y, f>> \in Rising => <<y, x>> \in Rising
              /\ <<f, y>> \in Rising => <<x, y>> \in Rising
  <2>1. x \in Passing /\ x.body = f.body /\ TurnAfter(x) = TurnAfter(f)
    BY <1>5, <1>12
  <2> QED BY <1>3, <2>1 DEF Rising
<1>14. Ordered(events', Rising)
  <2>1. Across(events, new, Rising)
    <3>1. \A x \in ToSet(events) : <<x, f>> \in Rising
      BY <1>3, <1>9 DEF Across
    <3>2. \A x \in ToSet(events), y \in ToSet(es) : <<x, y>> \in Rising
      BY <1>6, <1>12, PlainRises
    <3> QED BY <1>7, <1>12, <1>13, <3>1, <3>2 DEF Across
  <2>2. Ordered(events \o new, Rising)
    BY <1>1, <1>7, <1>9, <2>1, ConcatOrdered
  <2> QED BY <1>8, <2>2
<1>15. Across(events', rest, Rising)
  <2>1. \A x \in ToSet(events), y \in ToSet(rest) : <<x, y>> \in Rising
    BY <1>3, <1>9 DEF Across
  <2>2. \A x \in ToSet(es), y \in ToSet(rest) : <<x, y>> \in Rising
    BY <1>3, <1>6, <1>12, PlainRises
  <2>3. \A x \in ToSet(g), y \in ToSet(rest) : <<x, y>> \in Rising
    BY <1>3, <1>10, <1>12, <1>13
  <2> QED BY <1>11, <2>1, <2>2, <2>3 DEF Across
<1>16. ASSUME NEW x \in OfTime(events) \cup OfTime(fromServer)
       PROVE  \E y \in OfTime(events') \cup OfTime(rest) : TurnAfter(y) = TurnAfter(x)
  BY <1>3, <1>5, <1>11 DEF OfTime
<1>17. ASSUME NEW y \in OfTime(events') \cup OfTime(rest)
       PROVE  \E x \in OfTime(events) \cup OfTime(fromServer) : TurnAfter(y) = TurnAfter(x)
  BY <1>3, <1>5, <1>6, <1>11 DEF OfTime
<1>18. TurnsRise'
  <2>1. \A y \in OfTime(events') \cup OfTime(rest) :
          turn <= TurnAfter(y) /\ TurnAfter(y) <= serverTurn
    BY <1>9, <1>17
  <2>2. OfTime(events)' = OfTime(events') /\ OfTime(fromServer)' = OfTime(rest)
    BY DEF OfTime
  <2>3. \A x : TurnAfter(x)' = TurnAfter(x)
    BY DEF TurnAfter, TurnEnds
  <2>4. turn \in Nat /\ serverTurn \in 0..MaxTurn /\ joined \in 0..serverTurn /\ turn <= serverTurn
    BY DEF IInv, TurnsRise
  <2> QED BY <1>10, <1>14, <1>15, <2>1, <2>4 DEF TurnsRise, OfTime
<1>19. Announced(rest) + Announced(events') = Announced(fromServer) + Announced(events)
  <2>1. Announced(events') = Announced(events) + Announced(new)
    <3>1. Announced(events \o new) = Announced(events) + Announced(new)
      BY <1>1, <1>7, ConcatCount DEF Announced
    <3> QED BY <1>8, <3>1
  <2>2. Announced(fromServer) = (IF f \in Announcement THEN 1 ELSE 0) + Announced(rest)
    BY <1>1, TailCount DEF Announced
  <2>3. Announced(rest) \in Nat /\ Announced(events) \in Nat
    BY <1>1, <1>3, PlacesFinite DEF Announced
  <2> QED BY <1>7, <2>1, <2>2, <2>3
<1>20. AnswersGiven' = AnswersGiven /\ EventsSent' = EventsSent
  BY DEF AnswersGiven, EventsSent, AnswersTo
<1> QED BY <1>2, <1>11, <1>16, <1>18, <1>19, <1>20

(* The oldest event is handled; one about the time names the turn.         *)
LEMMA EventTaken ==
  ASSUME IInv, NEW es \in Seq(OwnEvents), events # <<>>, events' = Tail(events) \o es,
         turn' = IF Head(events).body \in Time THEN TurnAfter(Head(events)) ELSE turn,
         UNCHANGED <<fromServer, registered, serverTurn, joined>>
  PROVE  /\ fromServer' \in Seq(AnswersGiven)' /\ events' \in Seq(EventsSent)'
         /\ TurnsRise' /\ turn <= turn'
         /\ \A x \in OfTime(events) \cup OfTime(fromServer) :
              TurnAfter(x) = turn' \/ x \in OfTime(events') \cup OfTime(fromServer')
         /\ Announced(events)
              = (IF Head(events) \in Announcement THEN 1 ELSE 0) + Announced(events')
         /\ Announced(events') \in Nat
<1> DEFINE h == Head(events)
           rest == Tail(events)
           new == rest \o es
<1>1. /\ fromServer \in Seq(AnswersGiven) /\ fromServer \in Seq(Passing)
      /\ events \in Seq(EventsSent) /\ events \in Seq(Passing)
  BY Queues
<1>2. /\ rest \in Seq(EventsSent)
      /\ h \in Passing /\ rest \in Seq(Passing)
      /\ ToSet(events) = {h} \cup ToSet(rest)
  <2>1. rest \in Seq(EventsSent)
    BY <1>1, HeadAndTail
  <2>2. h \in Passing /\ rest \in Seq(Passing) /\ ToSet(events) = {h} \cup ToSet(rest)
    BY <1>1, HeadAndTail
  <2> QED BY <2>1, <2>2
<1>3. /\ es \in Seq(EventsSent) /\ es \in Seq(Passing)
      /\ \A x \in ToSet(es) : x.body \notin Time /\ x \in Passing
      /\ Ordered(es, Rising)
      /\ Announced(es) = 0
  <2>1. /\ OwnEvents \subseteq EventsSent /\ OwnEvents \subseteq Passing
        /\ \A x \in OwnEvents : x.body \notin Time
    BY OwnEventsPlain
  <2>2. ToSet(es) \subseteq OwnEvents
    BY Contents
  <2>3. Announced(es) = 0
    BY <2>1, PlainUncounted
  <2>4. Ordered(es, Rising)
    BY <2>1, PlainRises DEF Ordered
  <2> QED BY <2>1, <2>2, <2>3, <2>4, SeqMonotonic
<1>4. /\ turn \in Nat /\ serverTurn \in 0..MaxTurn /\ joined \in 0..serverTurn
      /\ turn <= serverTurn
      /\ Ordered(events, Rising) /\ Ordered(fromServer, Rising)
      /\ Across(events, fromServer, Rising)
      /\ \A x \in OfTime(events) \cup OfTime(fromServer) :
            turn <= TurnAfter(x) /\ TurnAfter(x) <= serverTurn
  BY DEF IInv, TurnsRise
<1>5. /\ Ordered(rest, Rising)
      /\ \A x \in ToSet(rest) : <<h, x>> \in Rising
  BY <1>1, <1>4, TailOrdered
<1>6. \A x \in ToSet(fromServer) : <<h, x>> \in Rising
  BY <1>2, <1>4 DEF Across
<1>7. new \in Seq(EventsSent) /\ new \in Seq(Passing) /\ ToSet(new) = ToSet(rest) \cup ToSet(es)
  <2>1. new \in Seq(EventsSent)
    BY <1>2, <1>3
  <2>2. new \in Seq(Passing) /\ ToSet(new) = ToSet(rest) \cup ToSet(es)
    <3>1. rest \in Seq(Passing) /\ es \in Seq(Passing)
      BY <1>2, <1>3
    <3> HIDE DEF rest
    <3> QED BY ONLY <3>1, ConcatContents
  <2> QED BY <2>1, <2>2
<1>8. OfTime(new) = OfTime(rest)
  BY <1>3, <1>7 DEF OfTime
<1>9. Ordered(new, Rising) /\ Across(new, fromServer, Rising)
  <2>1. ToSet(rest) \subseteq Passing /\ ToSet(fromServer) \subseteq Passing
    BY <1>1, <1>2, Contents
  <2>2. Across(rest, es, Rising) /\ Across(es, fromServer, Rising)
    BY <1>3, <2>1, PlainRises DEF Across
  <2>3. Ordered(new, Rising)
    BY <1>2, <1>3, <1>5, <2>2, ConcatOrdered
  <2>4. \A x \in ToSet(rest), y \in ToSet(fromServer) : <<x, y>> \in Rising
    BY <1>2, <1>4 DEF Across
  <2> QED BY <1>7, <2>2, <2>3, <2>4 DEF Across
<1>10. /\ turn' \in Nat /\ turn <= turn' /\ turn' <= serverTurn
       /\ \A x \in OfTime(new) \cup OfTime(fromServer) :
             turn' <= TurnAfter(x) /\ TurnAfter(x) <= serverTurn
  <2>1. CASE h.body \in Time
    <3>1. h \in OfTime(events) /\ turn' = TurnAfter(h)
      BY <1>2, <2>1 DEF OfTime
    <3>2. TurnAfter(h) \in Nat
      BY <2>1, WhatIsSaid DEF TurnAfter
    <3>3. \A x \in ToSet(rest) \cup ToSet(fromServer) :
            x.body \in Time => TurnAfter(h) <= TurnAfter(x)
      BY <1>5, <1>6, <2>1 DEF Rising
    <3>4. turn <= TurnAfter(h) /\ TurnAfter(h) <= serverTurn
      BY <1>4, <3>1
    <3> QED BY <1>2, <1>4, <1>8, <3>1, <3>2, <3>3, <3>4 DEF OfTime
  <2>2. CASE h.body \notin Time
    BY <1>2, <1>4, <1>8, <2>2 DEF OfTime
  <2> QED BY <2>1, <2>2
<1>11. \A x \in OfTime(events) \cup OfTime(fromServer) :
         TurnAfter(x) = turn' \/ x \in OfTime(new) \cup OfTime(fromServer)
  BY <1>2, <1>8 DEF OfTime
<1>12. /\ Announced(events) = (IF h \in Announcement THEN 1 ELSE 0) + Announced(new)
       /\ Announced(new) \in Nat
  <2>1. Announced(events) = (IF h \in Announcement THEN 1 ELSE 0) + Announced(rest)
    BY <1>1, TailCount DEF Announced
  <2>2. Announced(new) = Announced(rest) + Announced(es)
    BY <1>2, <1>3, ConcatCount DEF Announced
  <2>3. Announced(rest) \in Nat
    BY <1>2, PlacesFinite DEF Announced
  <2> QED BY <1>3, <2>1, <2>2, <2>3
<1>13. AnswersGiven' = AnswersGiven /\ EventsSent' = EventsSent
  BY DEF AnswersGiven, EventsSent, AnswersTo
<1> HIDE DEF new
<1>14. events' = new
  BY DEF new
<1>15. TurnsRise'
  <2>1. OfTime(events)' = OfTime(new) /\ OfTime(fromServer)' = OfTime(fromServer)
    BY <1>14 DEF OfTime
  <2> QED BY <1>4, <1>9, <1>10, <1>14, <2>1 DEF TurnsRise
<1> QED BY <1>1, <1>7, <1>10, <1>11, <1>12, <1>13, <1>14, <1>15

(* Frames arrive; those about the time know the server's turn.             *)
LEMMA FramesArrive ==
  ASSUME IInv, NEW new \in Seq(AnswersGiven), fromServer' = fromServer \o new,
         serverTurn' \in serverTurn..MaxTurn, joined' \in 0..serverTurn',
         \A x \in ToSet(new) : x.body \in Time => TurnAfter(x) = serverTurn',
         UNCHANGED <<events, turn, registered>>
  PROVE  /\ fromServer' \in Seq(AnswersGiven)' /\ events' \in Seq(EventsSent)'
         /\ TurnsRise'
         /\ ToSet(fromServer') = ToSet(fromServer) \cup ToSet(new)
         /\ Announced(fromServer') = Announced(fromServer) + Announced(new)
<1> DEFINE all == fromServer \o new
<1>1. /\ fromServer \in Seq(AnswersGiven) /\ fromServer \in Seq(Passing)
      /\ events \in Seq(EventsSent) /\ events \in Seq(Passing)
  BY Queues
<1>2. AnswersGiven \subseteq Passing
  BY DEF AnswersGiven, Passing
<1>3. new \in Seq(Passing)
  BY <1>2, SeqMonotonic
<1>4. /\ ToSet(new) \subseteq Passing /\ ToSet(fromServer) \subseteq Passing
      /\ ToSet(events) \subseteq Passing
  BY <1>1, <1>3, Contents
<1>5. /\ turn \in Nat /\ serverTurn \in 0..MaxTurn
      /\ turn <= serverTurn
      /\ Ordered(events, Rising) /\ Ordered(fromServer, Rising)
      /\ Across(events, fromServer, Rising)
      /\ \A x \in OfTime(events) \cup OfTime(fromServer) :
            turn <= TurnAfter(x) /\ TurnAfter(x) <= serverTurn
  BY DEF IInv, TurnsRise
<1>6. \A x \in Passing : x.body \in Time => TurnAfter(x) \in Nat
  BY WhatIsSaid DEF TurnAfter
<1>7. MaxTurn \in Nat /\ serverTurn \in Nat /\ serverTurn' \in Nat /\ serverTurn <= serverTurn'
  BY <1>5, BoundAssumption
<1>8. /\ all \in Seq(AnswersGiven)
      /\ ToSet(all) = ToSet(fromServer) \cup ToSet(new)
      /\ Announced(all) = Announced(fromServer) + Announced(new)
  <2>1. all \in Seq(AnswersGiven)
    BY <1>1
  <2>2. ToSet(all) = ToSet(fromServer) \cup ToSet(new)
    BY <1>1, <1>3, ConcatContents
  <2>3. Announced(all) = Announced(fromServer) + Announced(new)
    BY <1>1, <1>3, ConcatCount DEF Announced
  <2> QED BY <2>1, <2>2, <2>3
<1>9. \A x \in ToSet(events) \cup ToSet(fromServer), y \in ToSet(new) : <<x, y>> \in Rising
  <2> SUFFICES ASSUME NEW x \in ToSet(events) \cup ToSet(fromServer), NEW y \in ToSet(new)
               PROVE  <<x, y>> \in Rising
    OBVIOUS
  <2>1. x \in Passing /\ y \in Passing
    BY <1>4
  <2>2. ASSUME x.body \in Time, y.body \in Time
        PROVE  TurnAfter(x) <= TurnAfter(y)
    <3>1. TurnAfter(x) <= serverTurn
      BY <1>5, <2>2 DEF OfTime
    <3> QED BY <1>6, <1>7, <2>1, <2>2, <3>1
  <2> QED BY <2>1, <2>2 DEF Rising
<1>10. Ordered(new, Rising)
  <2>1. ToSet(new) = {new[i] : i \in 1..Len(new)}
    BY Contents
  <2>2. \A x, y \in ToSet(new) : <<x, y>> \in Rising
    BY <1>4, <1>7 DEF Rising
  <2> QED BY <2>1, <2>2 DEF Ordered
<1>11. Ordered(all, Rising)
  <2>1. Across(fromServer, new, Rising)
    BY <1>9 DEF Across
  <2> QED BY <1>1, <1>3, <1>5, <1>10, <2>1, ConcatOrdered
<1>12. Across(events, all, Rising)
  BY <1>5, <1>8, <1>9 DEF Across
<1>13. \A x \in OfTime(events) \cup OfTime(all) :
         turn <= TurnAfter(x) /\ TurnAfter(x) <= serverTurn'
  <2> SUFFICES ASSUME NEW x \in OfTime(events) \cup OfTime(all)
               PROVE  turn <= TurnAfter(x) /\ TurnAfter(x) <= serverTurn'
    OBVIOUS
  <2>1. x \in Passing /\ TurnAfter(x) \in Nat
    BY <1>4, <1>6, <1>8 DEF OfTime
  <2>2. CASE x \in OfTime(events) \cup OfTime(fromServer)
    BY <1>5, <1>7, <2>1, <2>2
  <2>3. CASE x \in ToSet(new) /\ x.body \in Time
    BY <1>5, <1>7, <2>3
  <2> QED BY <1>8, <2>2, <2>3 DEF OfTime
<1>14. AnswersGiven' = AnswersGiven /\ EventsSent' = EventsSent
  BY DEF AnswersGiven, EventsSent, AnswersTo
<1> HIDE DEF all
<1>15. fromServer' = all
  BY DEF all
<1>16. TurnsRise'
  <2>1. OfTime(events)' = OfTime(events) /\ OfTime(fromServer)' = OfTime(all)
    BY <1>15 DEF OfTime
  <2> QED BY <1>5, <1>7, <1>11, <1>12, <1>13, <1>15, <2>1 DEF TurnsRise
<1> QED BY <1>1, <1>8, <1>14, <1>15, <1>16

-----------------------------------------------------------------------------
(* The client's steps                                                      *)

(* The table of callbacks goes on saying what the numbers say.             *)
LEMMA TableConforms ==
  ASSUME IInv, NEW rs \in Seq(Srv!Request), Conforms(rs), Srv!SendAll(rs),
         NEW M \in SUBSET cbs, cbs' = (cbs \ M) \cup Srv!Entries(rs)
  PROVE  \A c \in cbs' : c.cb = RequestOf(c.seq).cb
<1>1. \A c \in Srv!Entries(rs) : c.cb = RequestOf(c.seq).cb
  BY SendStep
<1>2. \A c \in cbs : c.cb = RequestOf(c.seq).cb
  BY DEF IInv, ByNumber
<1> QED BY <1>1, <1>2

(* What every step that handles a frame does.                              *)
LEMMA FrameHandled ==
  ASSUME IInv, NEW rs \in Seq(Srv!Request), Conforms(rs), NEW es \in Seq(OwnEvents),
         Srv!HandlePacket(rs, es),
         UNCHANGED <<turn, newTurns, peerVars>>
  PROVE  /\ Srv!IInv' /\ ByNumber' /\ TurnsRise' /\ TurnsCounted'
         /\ TurnUnderWay => TurnUnderWay'
         /\ Srv!Open' = (Srv!Open \ {Head(fromServer).seq}) \cup (seq + 1)..seq'
         /\ Srv!NumbersOf(toServer)' = Srv!NumbersOf(toServer) \cup (seq + 1)..seq'
         /\ Members(toServer)' = Members(toServer) \cup {rs[i].body : i \in 1..Len(rs)}
         /\ seq \in Nat /\ seq' = seq + Len(rs)
         /\ conncb' = conncb
<1> DEFINE f == Head(fromServer)
<1>1. /\ fromServer # <<>> /\ fromServer' = Tail(fromServer)
      /\ events' = events \o es \o Srv!Posted(f)
      /\ Srv!SendAll(rs)
      /\ cbs' = (cbs \ Srv!Matching(f)) \cup Srv!Entries(rs)
      /\ conncb' = conncb
  BY DEF Srv!HandlePacket
<1>2. UNCHANGED <<turn, registered, serverTurn, joined, newTurns, session>>
  BY DEF peerVars
<1>3. es \in Seq(SP!OwnEvent)
  <2>1. OwnEvents \subseteq SP!OwnEvent
    BY OwnEventsPlain
  <2> QED BY <2>1, SeqMonotonic
<1>4. /\ seq \in Nat /\ seq' = seq + Len(rs)
      /\ toServer' \in Seq(RequestsAsked)
      /\ Members(toServer)' = Members(toServer) \cup {rs[i].body : i \in 1..Len(rs)}
      /\ Srv!NumbersOf(toServer)' = Srv!NumbersOf(toServer) \cup (seq + 1)..seq'
  BY <1>1, SendStep
<1>5. /\ fromServer' \in Seq(AnswersGiven)' /\ events' \in Seq(EventsSent)'
      /\ TurnsRise'
      /\ \A x \in OfTime(events) \cup OfTime(fromServer) :
           \E y \in OfTime(events') \cup OfTime(fromServer') : TurnAfter(y) = TurnAfter(x)
      /\ Announced(fromServer') + Announced(events')
           = Announced(fromServer) + Announced(events)
  BY <1>1, <1>2, FramePasses
<1>6. Srv!IInv'
  BY <1>3, SameInvariant, SameInvariantNext, SameState, SameSteps, ServerAssumptions,
     SP!HandlePacketInv DEF IInv
<1>7. Srv!Open' = (Srv!Open \ {f.seq}) \cup (seq + 1)..seq'
  <2>1. SP!Open' = (SP!Open \ {f.seq}) \cup (seq + 1)..seq'
    BY SameInvariant, SameState, SameSteps, ServerAssumptions, SP!HandlePacketOpen DEF IInv
  <2> QED BY <2>1 DEF Srv!Open, SP!Open
<1>8. \A c \in cbs' : c.cb = RequestOf(c.seq).cb
  <2>1. Srv!Matching(f) \in SUBSET cbs
    BY DEF Srv!Matching
  <2> QED BY <1>1, <2>1, TableConforms
<1>9. ByNumber'
  BY <1>4, <1>5, <1>8 DEF ByNumber, RequestsAsked, RequestOf, Wire
<1>10. TurnsCounted'
  <2>1. /\ Announced(fromServer)' = Announced(fromServer')
        /\ Announced(events)' = Announced(events')
    BY DEF Announced
  <2>2. Announced(fromServer') \in Nat /\ Announced(events') \in Nat
    <3>1. fromServer' \in Seq(AnswersGiven') /\ events' \in Seq(EventsSent')
      BY <1>5
    <3> QED BY <3>1, PlacesFinite DEF Announced
  <2>3. Announced(fromServer) \in Nat /\ Announced(events) \in Nat
    BY Queues
  <2>4. /\ newTurns \in Nat
        /\ newTurns + Announced(fromServer) + Announced(events)
             = IF session THEN serverTurn - joined ELSE 0
    BY DEF IInv, TurnsCounted
  <2>5. newTurns + Announced(fromServer') + Announced(events')
          = newTurns + Announced(fromServer) + Announced(events)
    <3>1. \A n, a, b, c, d \in Nat : a + b = c + d => n + a + b = n + c + d
      OBVIOUS
    <3>2. newTurns \in Nat
      BY <2>4
    <3>3. Announced(fromServer') + Announced(events')
            = Announced(fromServer) + Announced(events)
      BY <1>5
    <3>4. PICK a \in Nat, b \in Nat, c \in Nat, d \in Nat :
            /\ a = Announced(fromServer') /\ b = Announced(events')
            /\ c = Announced(fromServer) /\ d = Announced(events)
      BY ONLY <2>2, <2>3
    <3>5. newTurns + a + b = newTurns + c + d
      <4>1. a + b = c + d
        BY ONLY <3>3, <3>4
      <4>2. {a, b, c, d} \subseteq Nat
        BY ONLY <3>4
      <4> QED BY ONLY <3>1, <3>2, <4>1, <4>2
    <3> QED BY ONLY <3>4, <3>5
  <2> QED BY <1>2, <2>1, <2>4, <2>5 DEF TurnsCounted
<1>11. TurnUnderWay => TurnUnderWay'
  <2>1. /\ OfTime(events)' = OfTime(events')
        /\ OfTime(fromServer)' = OfTime(fromServer')
    BY DEF OfTime
  <2>2. "GetTimeRemaining" \in Members(toServer) => "GetTimeRemaining" \in Members(toServer)'
    BY <1>4
  <2>3. (\E x \in OfTime(events) \cup OfTime(fromServer) : TurnAfter(x) = serverTurn)
          => \E y \in OfTime(events') \cup OfTime(fromServer') : TurnAfter(y) = serverTurn
    BY <1>5
  <2>4. TurnUnderWay' <=>
          \/ turn' = serverTurn'
          \/ "GetTimeRemaining" \in Members(toServer)'
          \/ \E y \in OfTime(events') \cup OfTime(fromServer') : TurnAfter(y) = serverTurn'
    BY <2>1 DEF TurnUnderWay, TurnAfter, TurnEnds
  <2> QED BY <1>2, <2>2, <2>3, <2>4 DEF TurnUnderWay
<1> QED BY <1>1, <1>4, <1>5, <1>6, <1>7, <1>9, <1>10, <1>11

LEMMA MayLoginInv == IInv /\ MayLogin => IInv'
<1> SUFFICES ASSUME IInv, MayLogin PROVE IInv'
  OBVIOUS
<1> DEFINE a == Ask("GetFeatures")
           rs == <<a, LoginRequest>>
<1>1. /\ For("may_login") /\ Srv!HandlePacket(rs, <<>>)
      /\ UNCHANGED <<commVars, peerVars, ended>>
  BY DEF MayLogin
<1>2. Head(fromServer).seq = 2 /\ 2 \in Srv!Open
  BY <1>1, WhoCalls DEF Callbacks
<1>3. seq = 2
  BY <1>2 DEF IInv, Stage
<1>4. a = RequestOf(3) /\ LoginRequest = RequestOf(4)
  BY Asking
<1>5. rs \in Seq(Srv!Request)
  <2>1. a \in Srv!Request /\ LoginRequest \in Srv!Request
    BY <1>4, Asking
  <2> HIDE DEF a
  <2> QED BY <2>1
<1>6. Len(rs) = 2 /\ rs[1] = RequestOf(3) /\ rs[2] = RequestOf(4)
  BY <1>4
<1> HIDE DEF rs
<1>7. Conforms(rs)
  BY <1>3, <1>6 DEF Conforms
<1>8. <<>> \in Seq(OwnEvents) /\ UNCHANGED <<turn, newTurns, peerVars>>
  BY <1>1 DEF commVars
<1>9. /\ Srv!IInv' /\ ByNumber' /\ TurnsRise' /\ TurnsCounted'
      /\ TurnUnderWay => TurnUnderWay'
      /\ Srv!Open' = (Srv!Open \ {Head(fromServer).seq}) \cup (seq + 1)..seq'
      /\ Srv!NumbersOf(toServer)' = Srv!NumbersOf(toServer) \cup (seq + 1)..seq'
      /\ seq' = seq + Len(rs)
      /\ conncb' = conncb
  BY <1>1, <1>5, <1>7, <1>8, FrameHandled
<1>10. UNCHANGED <<triedcreate, accountregister, timers, player, ended, registered, session>>
  BY <1>1 DEF commVars, peerVars
<1>11. Stage'
  BY <1>2, <1>3, <1>6, <1>9, <1>10 DEF IInv, Stage
<1>12. LetIn'
  BY <1>3, <1>6, <1>9, <1>10 DEF IInv, LetIn
<1>13. TurnKnown'
  BY <1>9, <1>10 DEF IInv, TurnKnown
<1> QED BY <1>9, <1>11, <1>12, <1>13 DEF IInv

(* The server refuses those who have no account, and does not let them in. *)
LEMMA LoginRefusedInv == IInv /\ LoginRefused => IInv'
<1> SUFFICES ASSUME IInv, LoginRefused PROVE IInv'
  OBVIOUS
<1>1. /\ For("logged_in") /\ Content = "Fail"
      /\ ended' = "exit" /\ UNCHANGED <<netVars, triedcreate>>
      /\ UNCHANGED <<accountregister, timers, turn, player, newTurns, peerVars>>
  BY DEF LoginRefused, IInv, Stage
<1>2. ~session
  <2>1. /\ Head(fromServer) \in AnswersGiven /\ Head(fromServer).seq = 4
    BY <1>1, WhoCalls DEF Callbacks
  <2>2. Head(fromServer).body = Msg(IF registered THEN "OK" ELSE "Fail")
    BY <2>1 DEF AnswersGiven, AnswersTo
  <2>3. registered \in BOOLEAN /\ (session => registered)
    BY DEF IInv, LetIn
  <2> QED BY <1>1, <2>2, <2>3, WhatIsSaid DEF Content
<1>3. UNCHANGED <<conncb, seq, cbs, toServer, fromServer, events, pushed,
                  triedcreate, accountregister, timers, turn, player, newTurns,
                  registered, session, serverTurn, joined>>
  BY <1>1 DEF netVars, peerVars
<1>4. Srv!IInv'
  BY <1>3, SameInvariant, SameInvariantNext, ServerAssumptions, SP!StepInv
     DEF IInv, SP!serverVars
<1>5. ByNumber'
  BY <1>3 DEF IInv, ByNumber, AnswersGiven, EventsSent, AnswersTo
<1>6. Stage'
  BY <1>3 DEF IInv, Stage, Srv!Open
<1>7. LetIn'
  BY <1>1, <1>2, <1>3 DEF IInv, LetIn, Srv!NumbersOf
<1>8. TurnsRise'
  BY <1>3 DEF IInv, TurnsRise, OfTime
<1>9. TurnKnown'
  BY <1>3 DEF IInv, TurnKnown, TurnUnderWay, OfTime, Members, TurnAfter, TurnEnds
<1>10. TurnsCounted'
  BY <1>3 DEF IInv, TurnsCounted, Announced, Places
<1> QED BY <1>4, <1>5, <1>6, <1>7, <1>8, <1>9, <1>10 DEF IInv

LEMMA LoginAcceptedInv == IInv /\ LoginAccepted => IInv'
<1> SUFFICES ASSUME IInv, LoginAccepted PROVE IInv'
  OBVIOUS
<1> DEFINE a == Ask("GetTimeRemaining")
           b == AskFor("GetPlayerData", "player_id")
           rs == <<a, b>>
           e == Event("Connected")
           es == <<e>>
<1>1. /\ For("logged_in") /\ Content # "Fail" /\ Srv!HandlePacket(rs, es)
      /\ timers' = timers + 1
      /\ UNCHANGED <<triedcreate, accountregister, turn, player, newTurns, peerVars, ended>>
  BY DEF LoginAccepted
<1>2. /\ Head(fromServer) \in AnswersGiven /\ Head(fromServer).seq = 4
      /\ 4 \in Srv!Open /\ 4 \notin Srv!NumbersOf(toServer)
  BY <1>1, WhoCalls DEF Callbacks
<1>3. seq = 4 /\ timers = 0
  BY <1>2 DEF IInv, Stage
<1>4. a = RequestOf(5) /\ b = RequestOf(6) /\ a.body = "GetTimeRemaining"
  BY Asking DEF Ask
<1>5. rs \in Seq(Srv!Request) /\ es \in Seq(OwnEvents)
  <2>1. a \in Srv!Request /\ b \in Srv!Request /\ e \in OwnEvents
    BY <1>4, Asking DEF OwnEvents
  <2> HIDE DEF a, b, e
  <2> QED BY <2>1
<1>6. Len(rs) = 2 /\ rs[1] = RequestOf(5) /\ rs[2] = RequestOf(6)
      /\ rs[1].body = "GetTimeRemaining"
  BY <1>4
<1> HIDE DEF rs, es
<1>7. Conforms(rs)
  BY <1>3, <1>6 DEF Conforms
<1>8. /\ Srv!IInv' /\ ByNumber' /\ TurnsRise' /\ TurnsCounted'
      /\ Srv!Open' = (Srv!Open \ {Head(fromServer).seq}) \cup (seq + 1)..seq'
      /\ Srv!NumbersOf(toServer)' = Srv!NumbersOf(toServer) \cup (seq + 1)..seq'
      /\ Members(toServer)' = Members(toServer) \cup {rs[i].body : i \in 1..Len(rs)}
      /\ seq' = seq + Len(rs)
      /\ conncb' = conncb
  BY <1>1, <1>5, <1>7, FrameHandled
<1>9. UNCHANGED <<triedcreate, accountregister, player, ended, registered, session>>
  BY <1>1 DEF peerVars
<1>10. session
  <2>1. Head(fromServer).body = Msg(IF registered THEN "OK" ELSE "Fail")
    BY <1>2 DEF AnswersGiven, AnswersTo
  <2>2. registered
    BY <1>1, <2>1, WhatIsSaid DEF Content
  <2> QED BY <1>2, <1>3, <2>2 DEF IInv, LetIn
<1>11. Stage'
  BY <1>1, <1>2, <1>3, <1>6, <1>8, <1>9 DEF IInv, Stage
<1>12. LetIn'
  BY <1>2, <1>3, <1>6, <1>8, <1>9, <1>10 DEF IInv, LetIn
<1>13. TurnKnown'
  <2>1. "GetTimeRemaining" \in Members(toServer)'
    BY <1>6, <1>8
  <2> QED BY <2>1 DEF TurnKnown, TurnUnderWay
<1> QED BY <1>8, <1>11, <1>12, <1>13 DEF IInv

(* Frames that make the client send nothing.                               *)
LEMMA QuietFrameInv ==
  ASSUME IInv, Srv!HandlePacket(<<>>, <<>>),
         UNCHANGED <<triedcreate, accountregister, timers, turn, newTurns, peerVars, ended>>,
         player' \in BOOLEAN
  PROVE  IInv'
<1>1. <<>> \in Seq(Srv!Request) /\ <<>> \in Seq(OwnEvents) /\ Conforms(<<>>) /\ Len(<<>>) = 0
  BY DEF Conforms
<1>2. /\ seq \in Nat /\ seq' = seq + 0 /\ conncb' = conncb
      /\ Srv!IInv' /\ ByNumber' /\ TurnsRise' /\ TurnsCounted'
      /\ TurnUnderWay => TurnUnderWay'
      /\ Srv!Open' = (Srv!Open \ {Head(fromServer).seq}) \cup (seq + 1)..seq'
      /\ Srv!NumbersOf(toServer)' = Srv!NumbersOf(toServer) \cup (seq + 1)..seq'
  BY <1>1, FrameHandled
<1>3. seq' = seq /\ (seq + 1)..seq' = {}
  BY <1>2
<1>4. UNCHANGED <<triedcreate, accountregister, timers, ended, registered, session>>
  BY DEF peerVars
<1>5. Stage'
  BY <1>2, <1>3, <1>4 DEF IInv, Stage
<1>6. LetIn'
  BY <1>2, <1>3, <1>4 DEF IInv, LetIn
<1>7. TurnKnown'
  BY <1>2, <1>4 DEF IInv, TurnKnown
<1> QED BY <1>2, <1>5, <1>6, <1>7 DEF IInv

LEMMA PlayerIdInv == IInv /\ PlayerId => IInv'
<1> SUFFICES ASSUME IInv, PlayerId PROVE IInv'
  OBVIOUS
<1>1. For("player_id")
  BY DEF PlayerId
<1>2. Content # "Fail"
  <2>1. Head(fromServer) \in AnswersGiven /\ Head(fromServer).seq = 6
    BY <1>1, WhoCalls DEF Callbacks
  <2> QED BY <2>1, WhatIsSaid DEF AnswersGiven, AnswersTo, Content
<1>3. /\ Srv!HandlePacket(<<>>, <<>>)
      /\ player' = (player \/ Content # "SEQUENCE")
      /\ UNCHANGED <<triedcreate, accountregister, timers, turn, newTurns, peerVars, ended>>
  BY <1>2 DEF PlayerId
<1> QED BY <1>3, QuietFrameInv

LEMMA OtherFrameInv == IInv /\ OtherFrame => IInv'
<1> SUFFICES ASSUME IInv, OtherFrame PROVE IInv'
  OBVIOUS
<1>1. /\ Srv!HandlePacket(<<>>, <<>>)
      /\ UNCHANGED <<triedcreate, accountregister, timers, turn, newTurns, peerVars, ended>>
      /\ player' = player
  BY DEF OtherFrame, commVars
<1>2. player \in BOOLEAN
  BY DEF IInv, LetIn
<1> QED BY <1>1, <1>2, QuietFrameInv

(* What is sent outside of an answer is entered in the table.              *)
LEMMA RequestsSent ==
  ASSUME IInv, NEW rs \in Seq(Srv!Request), Conforms(rs), Srv!SendAll(rs),
         cbs' = cbs \cup Srv!Entries(rs)
  PROVE  /\ seq \in Nat /\ seq' = seq + Len(rs)
         /\ toServer' \in Seq(RequestsAsked)
         /\ \A c \in cbs' : c.cb = RequestOf(c.seq).cb
         /\ Members(toServer)' = Members(toServer) \cup {rs[i].body : i \in 1..Len(rs)}
         /\ Srv!NumbersOf(toServer)' = Srv!NumbersOf(toServer) \cup (seq + 1)..seq'
         /\ Srv!Open' = Srv!Open \cup (seq + 1)..seq'
<1>1. {} \in SUBSET cbs /\ cbs' = (cbs \ {}) \cup Srv!Entries(rs) /\ cbs \ {} = cbs
  OBVIOUS
<1>2. \A c \in cbs' : c.cb = RequestOf(c.seq).cb
  BY <1>1, TableConforms
<1>3. Srv!Open' = Srv!Open \cup (seq + 1)..seq'
  <2>1. SP!IInv /\ rs \in Seq(SP!Request) /\ SP!SendAll(rs)
        /\ cbs' = (cbs \ {}) \cup SP!Entries(rs)
    BY <1>1, SameInvariant, SameState, SameSteps DEF IInv
  <2>2. SP!Open' = {c.seq : c \in cbs \ {}} \cup (seq + 1)..seq'
    BY <1>1, <2>1, ServerAssumptions, SP!TableStep
  <2> QED BY <1>1, <2>2 DEF Srv!Open, SP!Open
<1> QED BY <1>2, <1>3, SendStep

(* What is on its way stays as it is while requests are sent.              *)
LEMMA QueuesStay ==
  ASSUME IInv, UNCHANGED <<fromServer, events, turn, newTurns, peerVars>>,
         "GetTimeRemaining" \in Members(toServer) => "GetTimeRemaining" \in Members(toServer)'
  PROVE  /\ fromServer' \in Seq(AnswersGiven)' /\ events' \in Seq(EventsSent)'
         /\ TurnsRise' /\ TurnsCounted'
         /\ TurnUnderWay => TurnUnderWay'
<1>1. UNCHANGED <<fromServer, events, turn, newTurns, registered, session, serverTurn, joined>>
  BY DEF peerVars
<1>2. fromServer' \in Seq(AnswersGiven)' /\ events' \in Seq(EventsSent)'
  BY <1>1, Queues DEF AnswersGiven, EventsSent, AnswersTo
<1>3. TurnsRise'
  BY <1>1 DEF IInv, TurnsRise, OfTime
<1>4. TurnsCounted'
  BY <1>1 DEF IInv, TurnsCounted, Announced, Places
<1>5. TurnUnderWay => TurnUnderWay'
  <2>1. OfTime(events)' = OfTime(events) /\ OfTime(fromServer)' = OfTime(fromServer)
    BY <1>1 DEF OfTime
  <2> QED BY <1>1, <2>1 DEF TurnUnderWay, TurnAfter, TurnEnds
<1> QED BY <1>2, <1>3, <1>4, <1>5

LEMMA SocketConnectInv == IInv /\ SocketConnect => IInv'
<1> SUFFICES ASSUME IInv, SocketConnect PROVE IInv'
  OBVIOUS
<1> DEFINE a == AskFor("Connect", "may_login")
           rs == <<a>>
<1>1. /\ Srv!ServerAdd(rs) /\ Srv!SendAll(rs) /\ cbs' = cbs \cup Srv!Entries(rs)
      /\ conncb /\ conncb' = FALSE
      /\ UNCHANGED <<fromServer, events, commVars, peerVars, ended>>
  BY DEF SocketConnect, Srv!ServerAdd
<1>2. seq = 1 /\ timers = 0
  BY <1>1 DEF IInv, Stage
<1>3. a = RequestOf(2) /\ a \in Srv!Request
  BY Asking
<1>4. rs \in Seq(Srv!Request) /\ Len(rs) = 1 /\ rs[1] = RequestOf(2)
  <2> HIDE DEF a
  <2> QED BY <1>3
<1> HIDE DEF rs
<1>5. Conforms(rs)
  BY <1>2, <1>4 DEF Conforms
<1>6. /\ seq' = seq + Len(rs)
      /\ toServer' \in Seq(RequestsAsked)
      /\ \A c \in cbs' : c.cb = RequestOf(c.seq).cb
      /\ Members(toServer)' = Members(toServer) \cup {rs[i].body : i \in 1..Len(rs)}
      /\ Srv!NumbersOf(toServer)' = Srv!NumbersOf(toServer) \cup (seq + 1)..seq'
      /\ Srv!Open' = Srv!Open \cup (seq + 1)..seq'
  BY <1>1, <1>4, <1>5, RequestsSent
<1>7. Srv!IInv'
  BY <1>1, <1>4, SameInvariant, SameInvariantNext, SameState, SameSteps, ServerAssumptions,
     SP!ServerAddInv DEF IInv
<1>8. UNCHANGED <<fromServer, events, turn, newTurns, peerVars, player, registered, session,
                  timers, triedcreate, accountregister, ended>>
  BY <1>1 DEF commVars, peerVars
<1>9. /\ fromServer' \in Seq(AnswersGiven)' /\ events' \in Seq(EventsSent)'
      /\ TurnsRise' /\ TurnsCounted'
  BY <1>6, <1>8, QueuesStay
<1>10. ByNumber'
  BY <1>6, <1>9 DEF ByNumber, RequestsAsked, RequestOf, Wire
<1>11. Stage'
  <2>1. Srv!Open = {}
    BY <1>2 DEF IInv, Srv!IInv, Srv!TypeOK, Srv!Open
  <2> QED BY <1>1, <1>2, <1>4, <1>6, <1>8, <2>1 DEF IInv, Stage
<1>12. LetIn'
  BY <1>2, <1>4, <1>6, <1>8 DEF IInv, LetIn
<1>13. TurnKnown'
  BY <1>2, <1>8 DEF TurnKnown
<1> QED BY <1>7, <1>9, <1>10, <1>11, <1>12, <1>13 DEF IInv

LEMMA GetTimeInv == IInv /\ GetTime => IInv'
<1> SUFFICES ASSUME IInv, GetTime PROVE IInv'
  OBVIOUS
<1> DEFINE a == Ask("GetTimeRemaining")
           rs == <<a>>
<1>1. /\ timers > 0
      /\ Srv!ClientSends(rs) /\ Srv!SendAll(rs) /\ cbs' = cbs \cup Srv!Entries(rs)
      /\ conncb' = conncb
      /\ UNCHANGED <<fromServer, events, commVars, peerVars, ended>>
  BY DEF GetTime, Srv!ClientSends
<1>2. seq \in Nat /\ seq >= 6
  BY <1>1 DEF IInv, Stage, Srv!IInv, Srv!TypeOK
<1>3. a = RequestOf(seq + 1) /\ a \in Srv!Request
  <2>1. seq + 1 \in Nat /\ seq + 1 > 6
    BY <1>2
  <2> QED BY <2>1, Asking
<1>4. rs \in Seq(Srv!Request) /\ Len(rs) = 1 /\ rs[1] = RequestOf(seq + 1)
  <2> HIDE DEF a
  <2> QED BY <1>3
<1> HIDE DEF rs
<1>5. Conforms(rs)
  BY <1>2, <1>4 DEF Conforms
<1>6. /\ seq' = seq + Len(rs)
      /\ toServer' \in Seq(RequestsAsked)
      /\ \A c \in cbs' : c.cb = RequestOf(c.seq).cb
      /\ Members(toServer)' = Members(toServer) \cup {rs[i].body : i \in 1..Len(rs)}
      /\ Srv!NumbersOf(toServer)' = Srv!NumbersOf(toServer) \cup (seq + 1)..seq'
      /\ Srv!Open' = Srv!Open \cup (seq + 1)..seq'
  BY <1>1, <1>4, <1>5, RequestsSent
<1>7. Srv!IInv'
  BY <1>1, <1>4, SameInvariant, SameInvariantNext, SameState, SameSteps, ServerAssumptions,
     SP!ClientSendsInv DEF IInv
<1>8. UNCHANGED <<fromServer, events, turn, newTurns, peerVars, player, registered, session,
                  timers, triedcreate, accountregister, ended>>
  BY <1>1 DEF commVars, peerVars
<1>9. /\ fromServer' \in Seq(AnswersGiven)' /\ events' \in Seq(EventsSent)'
      /\ TurnsRise' /\ TurnsCounted'
      /\ TurnUnderWay => TurnUnderWay'
  BY <1>6, <1>8, QueuesStay
<1>10. ByNumber'
  BY <1>6, <1>9 DEF ByNumber, RequestsAsked, RequestOf, Wire
<1>11. Stage'
  BY <1>1, <1>2, <1>4, <1>6, <1>8 DEF IInv, Stage
<1>12. LetIn'
  BY <1>2, <1>4, <1>6, <1>8 DEF IInv, LetIn
<1>13. TurnKnown'
  BY <1>8, <1>9 DEF IInv, TurnKnown
<1> QED BY <1>7, <1>9, <1>10, <1>11, <1>12, <1>13 DEF IInv

(* What every step that handles an event does.                             *)
LEMMA EventHandled ==
  ASSUME IInv, NEW es \in Seq(OwnEvents), Srv!HandleEvent(<<>>, es),
         turn' = IF Head(events).body \in Time THEN TurnAfter(Head(events)) ELSE turn,
         newTurns' = newTurns + IF Head(events) \in Announcement THEN 1 ELSE 0,
         UNCHANGED <<triedcreate, accountregister, timers, player, peerVars, ended>>
  PROVE  IInv'
<1>1. /\ events # <<>> /\ events' = Tail(events) \o es
      /\ Srv!SendAll(<<>>) /\ cbs' = cbs \cup Srv!Entries(<<>>)
      /\ UNCHANGED <<conncb, fromServer>>
  BY DEF Srv!HandleEvent
<1>2. UNCHANGED <<triedcreate, accountregister, timers, player, ended,
                  registered, session, serverTurn, joined>>
  BY DEF peerVars
<1>3. <<>> \in Seq(Srv!Request) /\ Conforms(<<>>) /\ Len(<<>>) = 0
  BY DEF Conforms
<1>4. /\ seq \in Nat /\ seq' = seq + 0
      /\ toServer' \in Seq(RequestsAsked)
      /\ \A c \in cbs' : c.cb = RequestOf(c.seq).cb
      /\ Members(toServer) \subseteq Members(toServer)'
      /\ Srv!NumbersOf(toServer)' = Srv!NumbersOf(toServer) \cup (seq + 1)..seq'
      /\ Srv!Open' = Srv!Open \cup (seq + 1)..seq'
  BY <1>1, <1>3, RequestsSent
<1>5. seq' = seq /\ (seq + 1)..seq' = {}
  BY <1>4
<1>6. es \in Seq(SP!OwnEvent)
  <2>1. OwnEvents \subseteq SP!OwnEvent
    BY OwnEventsPlain
  <2> QED BY <2>1, SeqMonotonic
<1>7. Srv!IInv'
  BY <1>3, <1>6, SameInvariant, SameInvariantNext, SameState, SameSteps, ServerAssumptions,
     SP!HandleEventInv DEF IInv
<1>8. /\ fromServer' \in Seq(AnswersGiven)' /\ events' \in Seq(EventsSent)'
      /\ TurnsRise' /\ turn <= turn'
      /\ \A x \in OfTime(events) \cup OfTime(fromServer) :
            TurnAfter(x) = turn' \/ x \in OfTime(events') \cup OfTime(fromServer')
      /\ Announced(events)
           = (IF Head(events) \in Announcement THEN 1 ELSE 0) + Announced(events')
      /\ Announced(events') \in Nat
  BY <1>1, <1>2, EventTaken
<1>9. ByNumber'
  BY <1>4, <1>8 DEF ByNumber, RequestsAsked, RequestOf, Wire
<1>10. Stage'
  BY <1>1, <1>2, <1>4, <1>5 DEF IInv, Stage
<1>11. LetIn'
  BY <1>2, <1>4, <1>5 DEF IInv, LetIn
<1>12. TurnKnown'
  <2> SUFFICES ASSUME timers' > 0
               PROVE  \/ turn' = serverTurn
                      \/ "GetTimeRemaining" \in Members(toServer)'
                      \/ \E x \in OfTime(events') \cup OfTime(fromServer') :
                            TurnAfter(x) = serverTurn
    <3>1. TurnUnderWay' <=>
            \/ turn' = serverTurn'
            \/ "GetTimeRemaining" \in Members(toServer)'
            \/ \E x \in OfTime(events') \cup OfTime(fromServer') :
                  TurnAfter(x) = serverTurn'
      BY DEF TurnUnderWay, TurnAfter, TurnEnds, OfTime
    <3> QED BY <1>2, <3>1 DEF TurnKnown
  <2>1. TurnUnderWay
    BY <1>2 DEF IInv, TurnKnown
  <2>2. CASE turn = serverTurn
    <3>1. turn' <= serverTurn' /\ turn' \in Nat /\ serverTurn' \in Nat /\ turn \in Nat
      BY <1>8, BoundAssumption DEF TurnsRise, IInv
    <3> QED BY <1>2, <1>8, <2>2, <3>1
  <2>3. CASE "GetTimeRemaining" \in Members(toServer)
    BY <1>4, <2>3
  <2>4. CASE \E x \in OfTime(events) \cup OfTime(fromServer) : TurnAfter(x) = serverTurn
    BY <1>8, <2>4
  <2> QED BY <2>1, <2>2, <2>3, <2>4 DEF TurnUnderWay
<1>13. TurnsCounted'
  <2>1. /\ Announced(events)' = Announced(events')
        /\ Announced(fromServer)' = Announced(fromServer)
    BY <1>1 DEF Announced, Places
  <2>2. Announced(fromServer) \in Nat /\ newTurns \in Nat
    BY Queues DEF IInv, TurnsCounted
  <2>3. newTurns + Announced(fromServer) + Announced(events)
          = IF session THEN serverTurn - joined ELSE 0
    BY DEF IInv, TurnsCounted
  <2>4. CASE Head(events) \in Announcement
    <3>1. newTurns' = newTurns + 1 /\ Announced(events) = 1 + Announced(events')
      BY <1>8, <2>4
    <3> QED BY <1>2, <1>8, <2>1, <2>2, <2>3, <3>1 DEF TurnsCounted
  <2>5. CASE Head(events) \notin Announcement
    <3>1. newTurns' = newTurns + 0 /\ Announced(events) = 0 + Announced(events')
      BY <1>8, <2>5
    <3> QED BY <1>2, <1>8, <2>1, <2>2, <2>3, <3>1 DEF TurnsCounted
  <2> QED BY <2>4, <2>5
<1> QED BY <1>7, <1>8, <1>9, <1>10, <1>11, <1>12, <1>13 DEF IInv

(* The oldest event.                                                       *)
LEMMA OldestEvent ==
  ASSUME IInv, events # <<>>
  PROVE  LET h == Head(events)
         IN  /\ h.body \in Time <=> h.body.type = "TimeRemaining"
             /\ h \in Announcement <=> h.body \in Time /\ TurnEnds(h)
<1> DEFINE h == Head(events)
<1>1. h \in EventsSent /\ h \in Passing
  BY Queues, HeadAndTail
<1>2. h.body \in Replies
  BY <1>1 DEF EventsSent, Queued
<1>3. h.body \in Time <=> h.body.type = "TimeRemaining"
  BY <1>2, WhatIsSaid
<1>4. h \in Announcement <=> h.body \in Time /\ TurnEnds(h)
  BY <1>1 DEF Announcement, TurnEnd, TurnEnds
<1> QED BY <1>3, <1>4

LEMMA TimeRemainingInv == IInv /\ TimeRemaining => IInv'
<1> SUFFICES ASSUME IInv, TimeRemaining PROVE IInv'
  OBVIOUS
<1> DEFINE e == Event("NewTurn")
           es == <<e>>
<1>1. /\ events # <<>> /\ Head(events).body.type = "TimeRemaining"
      /\ turn' = TurnAfter(Head(events))
      /\ UNCHANGED <<triedcreate, accountregister, timers, player, peerVars, ended>>
  BY DEF TimeRemaining
<1>2. /\ Head(events).body \in Time
      /\ Head(events) \in Announcement <=> TurnEnds(Head(events))
  BY <1>1, OldestEvent
<1>3. newTurns \in Nat
  BY DEF IInv, TurnsCounted
<1>4. CASE TurnEnds(Head(events))
  <2>1. newTurns' = newTurns + 1 /\ Srv!HandleEvent(<<>>, es)
    BY <1>4 DEF TimeRemaining
  <2>2. es \in Seq(OwnEvents)
    <3>1. e \in OwnEvents
      BY DEF OwnEvents
    <3> HIDE DEF e
    <3> QED BY <3>1
  <2> HIDE DEF es
  <2> QED BY <1>1, <1>2, <1>4, <2>1, <2>2, EventHandled
<1>5. CASE ~TurnEnds(Head(events))
  <2>1. newTurns' = newTurns + 0 /\ Srv!HandleEvent(<<>>, <<>>)
    BY <1>3, <1>5 DEF TimeRemaining
  <2>2. <<>> \in Seq(OwnEvents)
    OBVIOUS
  <2> QED BY <1>1, <1>2, <1>5, <2>1, <2>2, EventHandled
<1> QED BY <1>4, <1>5

LEMMA OtherEventInv == IInv /\ OtherEvent => IInv'
<1> SUFFICES ASSUME IInv, OtherEvent PROVE IInv'
  OBVIOUS
<1>1. /\ events # <<>> /\ Head(events).body.type # "TimeRemaining"
      /\ Srv!HandleEvent(<<>>, <<>>)
      /\ UNCHANGED <<triedcreate, accountregister, timers, turn, player, newTurns,
                     peerVars, ended>>
  BY DEF OtherEvent, commVars
<1>2. Head(events).body \notin Time /\ Head(events) \notin Announcement
  BY <1>1, OldestEvent
<1>3. newTurns' = newTurns + 0
  BY <1>1 DEF IInv, TurnsCounted
<1>4. <<>> \in Seq(OwnEvents)
  OBVIOUS
<1> QED BY <1>1, <1>2, <1>3, <1>4, EventHandled

-----------------------------------------------------------------------------
(* The game server's steps                                                 *)

LEMMA OldestRequest ==
  ASSUME IInv, toServer # <<>>, toServer' = Tail(toServer)
  PROVE  LET r == Head(toServer)
         IN  /\ r.seq \in 2..seq /\ r.seq \in Srv!NumbersOf(toServer) /\ r.seq \in Srv!Open
             /\ r.body = RequestOf(r.seq).body
             /\ toServer' \in Seq(RequestsAsked)
             /\ Srv!NumbersOf(toServer)' = Srv!NumbersOf(toServer) \ {r.seq}
             /\ Members(toServer) = {r.body} \cup Members(toServer)'
<1> DEFINE r == Head(toServer)
           rest == Tail(toServer)
           Q == [seq : 2..seq, body : Requests]
<1>1. toServer \in Seq(RequestsAsked) /\ toServer \in Seq(Q) /\ seq \in Nat
  BY DEF IInv, ByNumber, Srv!IInv, Srv!TypeOK
<1>2. /\ r \in RequestsAsked /\ rest \in Seq(RequestsAsked) /\ r = toServer[1]
      /\ ToSet(toServer) = {r} \cup ToSet(rest)
  BY <1>1, HeadAndTail
<1>3. r \in Q
  BY <1>1, HeadAndTail
<1>4. r.body = RequestOf(r.seq).body /\ r.seq \in 2..seq
  BY <1>2, <1>3 DEF RequestsAsked
<1>5. /\ Members(toServer) = {x.body : x \in ToSet(toServer)}
      /\ Srv!NumbersOf(toServer) = {x.seq : x \in ToSet(toServer)}
      /\ Members(rest) = {x.body : x \in ToSet(rest)}
      /\ Srv!NumbersOf(rest) = {x.seq : x \in ToSet(rest)}
  <2>1. /\ Members(toServer) = {x.body : x \in ToSet(toServer)}
        /\ Srv!NumbersOf(toServer) = {x.seq : x \in ToSet(toServer)}
    BY <1>1, MembersOf
  <2>2. /\ Members(rest) = {x.body : x \in ToSet(rest)}
        /\ Srv!NumbersOf(rest) = {x.seq : x \in ToSet(rest)}
    <3> HIDE DEF rest
    <3> QED BY <1>2, MembersOf
  <2> QED BY <2>1, <2>2
<1>6. r.seq \in Srv!NumbersOf(toServer)
  BY <1>2, <1>5
<1>7. r.seq \in Srv!Open
  BY <1>6 DEF IInv, Srv!IInv, Srv!TableMatchesWire
<1>8. \A x \in ToSet(rest) : x.seq # r.seq
  <2> SUFFICES ASSUME NEW x \in ToSet(rest) PROVE x.seq # r.seq
    OBVIOUS
  <2>1. /\ Len(toServer) \in Nat /\ Len(rest) = Len(toServer) - 1
        /\ \A i \in 1..Len(rest) : rest[i] = toServer[i + 1]
        /\ ToSet(rest) = {rest[i] : i \in 1..Len(rest)}
    <3>1. /\ Len(rest) = Len(toServer) - 1
          /\ \A i \in 1..Len(rest) : rest[i] = toServer[i + 1]
      BY <1>1, HeadTailProperties
    <3>2. ToSet(rest) = {rest[i] : i \in 1..Len(rest)}
      <4> HIDE DEF rest
      <4> QED BY <1>2, Contents
    <3> QED BY <1>1, <3>1, <3>2
  <2>2. PICK i \in 1..Len(rest) : x = toServer[i + 1]
    BY <2>1
  <2>3. 1 \in 1..Len(toServer) /\ i + 1 \in 1..Len(toServer) /\ 1 < i + 1
    BY <2>1
  <2>4. toServer[1].seq < toServer[i + 1].seq
    BY <2>3 DEF IInv, Srv!IInv, Srv!WireInOrder
  <2> QED BY <1>2, <1>4, <2>2, <2>4
<1>9. Srv!NumbersOf(rest) = Srv!NumbersOf(toServer) \ {r.seq}
  BY <1>2, <1>5, <1>8
<1>10. Members(toServer) = {r.body} \cup Members(rest)
  BY <1>2, <1>5
<1>11. Srv!NumbersOf(toServer)' = Srv!NumbersOf(rest) /\ Members(toServer)' = Members(rest)
  BY DEF Srv!NumbersOf, Members
<1> QED BY <1>2, <1>4, <1>6, <1>7, <1>9, <1>10, <1>11

(* What every answer does.                                                 *)
LEMMA Answered ==
  ASSUME IInv, NEW bodies \in Seq(Replies) \ {<<>>}, Srv!Answer(bodies),
         \A i \in 1..Len(bodies) :
           /\ bodies[i] \in AnswersTo(Head(toServer).seq)
           /\ bodies[i] \in Time => bodies[i].turn = serverTurn,
         Head(toServer).body = "GetTimeRemaining" => bodies[1] \in Time,
         UNCHANGED <<commVars, ended, registered, serverTurn>>, joined' \in 0..serverTurn,
         (IF session' THEN serverTurn - joined' ELSE 0)
           = IF session THEN serverTurn - joined ELSE 0,
         LetIn'
  PROVE  IInv'
<1> DEFINE n == Head(toServer).seq
           new == [i \in 1..Len(bodies) |-> [seq |-> n, body |-> bodies[i], first |-> i = 1]]
           S == {x \in AnswersGiven : x.seq # 0}
<1>1. /\ toServer # <<>> /\ toServer' = Tail(toServer) /\ fromServer' = fromServer \o new
      /\ UNCHANGED <<conncb, seq, cbs, events, pushed>>
  BY DEF Srv!Answer
<1>2. UNCHANGED <<triedcreate, accountregister, timers, turn, player, newTurns, ended>>
  BY DEF commVars
<1>3. /\ n \in 2..seq /\ seq \in Nat
      /\ toServer' \in Seq(RequestsAsked)
      /\ Members(toServer) = {Head(toServer).body} \cup Members(toServer)'
  BY <1>1, OldestRequest DEF IInv, Srv!IInv, Srv!TypeOK
<1>4. Len(bodies) \in Nat /\ 1 \in 1..Len(bodies)
  OBVIOUS
<1>5. ASSUME NEW i \in 1..Len(bodies)
      PROVE  /\ new[i] \in S
             /\ new[i].body = bodies[i]
             /\ new[i].body \in Time => TurnAfter(new[i]) = serverTurn
  <2>1. new[i] = [seq |-> n, body |-> bodies[i], first |-> i = 1]
    OBVIOUS
  <2>2. bodies[i] \in Replies /\ n \in Nat /\ n # 0
    BY <1>3
  <2>3. new[i] \in Srv!Frame
    BY <2>1, <2>2 DEF Srv!Frame
  <2>4. new[i].seq = n /\ new[i].body = bodies[i]
    BY <2>1
  <2>5. new[i] \in S
    BY <2>2, <2>3, <2>4 DEF AnswersGiven
  <2>6. ~TurnEnds(new[i])
    BY <2>2, <2>4 DEF TurnEnds
  <2> QED BY <2>4, <2>5, <2>6 DEF TurnAfter
<1>6. new \in Seq(S) /\ Len(new) = Len(bodies)
  <2>1. new \in [1..Len(bodies) -> S]
    BY <1>5
  <2> HIDE DEF new, S
  <2> QED BY <1>4, <2>1
<1> HIDE DEF new
<1>7. new \in Seq(AnswersGiven) /\ ToSet(new) = {new[i] : i \in 1..Len(bodies)}
      /\ Announced(new) = 0
  <2>1. S \subseteq AnswersGiven /\ \A x \in S : x.seq # 0
    OBVIOUS
  <2>2. ToSet(new) = {new[i] : i \in 1..Len(bodies)}
    <3> HIDE DEF S
    <3> QED BY <1>6, Contents
  <2>3. new \in Seq(AnswersGiven)
    BY <1>6, <2>1, SeqMonotonic
  <2>4. Announced(new) = 0
    <3> HIDE DEF S
    <3> QED BY <1>6, <2>1, PlainUncounted
  <2> QED BY <2>2, <2>3, <2>4
<1>8. serverTurn \in 0..MaxTurn /\ serverTurn' \in serverTurn..MaxTurn /\ joined' \in 0..serverTurn'
  BY BoundAssumption DEF IInv, TurnsRise
<1>9. /\ fromServer' \in Seq(AnswersGiven)' /\ events' \in Seq(EventsSent)'
      /\ TurnsRise'
      /\ ToSet(fromServer') = ToSet(fromServer) \cup ToSet(new)
      /\ Announced(fromServer') = Announced(fromServer) + Announced(new)
  <2>1. \A x \in ToSet(new) : x.body \in Time => TurnAfter(x) = serverTurn'
    BY <1>5, <1>7
  <2>2. new \in Seq(AnswersGiven) /\ UNCHANGED <<events, turn, registered>>
    BY <1>1, <1>2, <1>7
  <2> QED BY <1>1, <1>8, <2>1, <2>2, FramesArrive
<1>10. Srv!IInv'
  BY SameInvariant, SameInvariantNext, SameSteps, ServerAssumptions, SP!AnswerInv DEF IInv
<1>11. ByNumber'
  BY <1>1, <1>3, <1>9 DEF IInv, ByNumber, RequestsAsked, RequestOf, Wire
<1>12. Stage'
  BY <1>1, <1>2 DEF IInv, Stage, Srv!Open
<1>13. TurnKnown'
  <2> SUFFICES ASSUME timers' > 0
               PROVE  \/ turn' = serverTurn'
                      \/ "GetTimeRemaining" \in Members(toServer)'
                      \/ \E x \in OfTime(events') \cup OfTime(fromServer') :
                            TurnAfter(x) = serverTurn'
    BY DEF TurnKnown, TurnUnderWay, TurnAfter, TurnEnds, OfTime
  <2>1. TurnUnderWay
    BY <1>2 DEF IInv, TurnKnown
  <2>2. CASE turn = serverTurn
    BY <1>2, <2>2
  <2>3. CASE "GetTimeRemaining" \in Members(toServer)'
    BY <2>3
  <2>4. CASE "GetTimeRemaining" = Head(toServer).body
    <3>1. new[1] \in ToSet(new) /\ new[1].body \in Time /\ TurnAfter(new[1]) = serverTurn
      BY <1>4, <1>5, <1>7, <2>4
    <3> QED BY <1>9, <3>1 DEF OfTime
  <2>5. CASE \E x \in OfTime(events) \cup OfTime(fromServer) : TurnAfter(x) = serverTurn
    BY <1>1, <1>9, <2>5 DEF OfTime
  <2> QED BY <1>3, <2>1, <2>2, <2>3, <2>4, <2>5 DEF TurnUnderWay
<1>14. TurnsCounted'
  <2>1. /\ Announced(events)' = Announced(events)
        /\ Announced(fromServer)' = Announced(fromServer')
    BY <1>1 DEF Announced, Places
  <2>2. Announced(fromServer') = Announced(fromServer)
    BY <1>7, <1>9, Queues
  <2>3. /\ newTurns \in Nat
        /\ newTurns + Announced(fromServer) + Announced(events)
             = IF session THEN serverTurn - joined ELSE 0
    BY DEF IInv, TurnsCounted
  <2>4. newTurns' = newTurns /\ serverTurn' = serverTurn
    BY <1>2
  <2> QED BY <2>1, <2>2, <2>3, <2>4 DEF TurnsCounted
<1> QED BY <1>9, <1>10, <1>11, <1>12, <1>13, <1>14 DEF IInv

(* Only the answer to the login lets the player in.                        *)
LEMMA StaysIn ==
  ASSUME IInv, toServer # <<>>, toServer' = Tail(toServer), Head(toServer).body # "Login",
         UNCHANGED <<seq, ended, player, registered, session>>
  PROVE  LetIn'
<1>1. /\ Srv!NumbersOf(toServer)' = Srv!NumbersOf(toServer) \ {Head(toServer).seq}
      /\ Head(toServer).seq \in Nat
      /\ Head(toServer).body = RequestOf(Head(toServer).seq).body
  BY OldestRequest DEF IInv, Srv!IInv, Srv!TypeOK
<1>2. Head(toServer).seq # 4
  BY <1>1, Asking
<1> QED BY <1>1, <1>2 DEF IInv, LetIn

LEMMA OneAnswer ==
  ASSUME IInv, NEW body \in Replies, Srv!Answer(<<body>>),
         body \in AnswersTo(Head(toServer).seq),
         body \in Time => body.turn = serverTurn,
         Head(toServer).body = "GetTimeRemaining" => body \in Time,
         UNCHANGED <<commVars, ended, registered, serverTurn>>, joined' \in 0..serverTurn,
         (IF session' THEN serverTurn - joined' ELSE 0)
           = IF session THEN serverTurn - joined ELSE 0,
         LetIn'
  PROVE  IInv'
<1> DEFINE bodies == <<body>>
<1>1. bodies \in Seq(Replies) \ {<<>>} /\ Len(bodies) = 1 /\ bodies[1] = body
  OBVIOUS
<1> HIDE DEF bodies
<1>2. Srv!Answer(bodies)
  BY DEF bodies
<1>3. \A i \in 1..Len(bodies) : bodies[i] = body
  BY <1>1
<1>4. \A i \in 1..Len(bodies) :
        /\ bodies[i] \in AnswersTo(Head(toServer).seq)
        /\ bodies[i] \in Time => bodies[i].turn = serverTurn
  <2>1. body \in AnswersTo(Head(toServer).seq) /\ (body \in Time => body.turn = serverTurn)
    OBVIOUS
  <2> QED BY ONLY <1>3, <2>1
<1>5. Head(toServer).body = "GetTimeRemaining" => bodies[1] \in Time
  BY <1>1
<1>6. bodies \in Seq(Replies) \ {<<>>}
  BY ONLY <1>1
<1> QED BY <1>2, <1>4, <1>5, <1>6, Answered, ZenonT(30)

LEMMA AnswerConnectInv ==
  IInv /\ AnswerConnect /\ UNCHANGED <<commVars, ended>> => IInv'
<1> SUFFICES ASSUME IInv, AnswerConnect, UNCHANGED <<commVars, ended>> PROVE IInv'
  OBVIOUS
<1>1. /\ toServer # <<>> /\ Head(toServer).body = "Connect"
      /\ UNCHANGED <<registered, session, serverTurn, joined>>
  BY DEF AnswerConnect, Asked, peerVars
<1>2. PICK b \in {"OK", "Fail"} : Srv!Answer(<<Msg(b)>>)
  BY DEF AnswerConnect
<1>3. toServer' = Tail(toServer) /\ seq' = seq
  BY <1>2 DEF Srv!Answer
<1>4. Head(toServer).seq = 2
  <2>1. /\ Head(toServer).seq \in 2..seq /\ seq \in Nat
        /\ RequestOf(Head(toServer).seq).body = "Connect"
    BY <1>1, <1>3, OldestRequest DEF IInv, Srv!IInv, Srv!TypeOK
  <2>2. PICK n \in Nat : n = Head(toServer).seq
    BY ONLY <2>1
  <2> QED BY ONLY <2>1, <2>2, Asking
<1>5. Msg(b) \in AnswersTo(2) /\ Msg(b) \in Replies /\ Msg(b) \notin Time
  BY WhatIsSaid DEF AnswersTo, Replies
<1>6. LetIn'
  BY <1>1, <1>3, StaysIn DEF commVars
<1>7. joined' \in 0..serverTurn
  BY <1>1 DEF IInv, TurnsRise
<1> QED BY <1>1, <1>2, <1>4, <1>5, <1>6, <1>7, OneAnswer

LEMMA AnswerGetFeaturesInv ==
  IInv /\ AnswerGetFeatures /\ UNCHANGED <<commVars, ended>> => IInv'
<1> SUFFICES ASSUME IInv, AnswerGetFeatures, UNCHANGED <<commVars, ended>> PROVE IInv'
  OBVIOUS
<1> DEFINE b == Msg("AvailableFeatures")
<1>1. /\ toServer # <<>> /\ Head(toServer).body = "GetFeatures"
      /\ UNCHANGED <<registered, session, serverTurn, joined>>
      /\ Srv!Answer(<<b>>)
  BY DEF AnswerGetFeatures, Asked, peerVars
<1>2. toServer' = Tail(toServer) /\ seq' = seq
  BY <1>1 DEF Srv!Answer
<1>3. Head(toServer).seq = 3
  <2>1. /\ Head(toServer).seq \in 2..seq /\ seq \in Nat
        /\ RequestOf(Head(toServer).seq).body = "GetFeatures"
    BY <1>1, <1>2, OldestRequest DEF IInv, Srv!IInv, Srv!TypeOK
  <2>2. PICK n \in Nat : n = Head(toServer).seq
    BY ONLY <2>1
  <2> QED BY ONLY <2>1, <2>2, Asking
<1>4. b \in AnswersTo(3) /\ b \in Replies /\ b \notin Time
  BY WhatIsSaid DEF AnswersTo, Replies
<1>5. LetIn'
  BY <1>1, <1>2, StaysIn DEF commVars
<1>6. joined' \in 0..serverTurn
  BY <1>1 DEF IInv, TurnsRise
<1> QED BY <1>1, <1>3, <1>4, <1>5, <1>6, OneAnswer

(* The answer to the login lets the player in from the server's turn on.   *)
LEMMA AnswerLoginInv ==
  IInv /\ AnswerLogin /\ UNCHANGED <<commVars, ended>> => IInv'
<1> SUFFICES ASSUME IInv, AnswerLogin, UNCHANGED <<commVars, ended>> PROVE IInv'
  OBVIOUS
<1> DEFINE b == Msg(IF registered THEN "OK" ELSE "Fail")
<1>1. /\ toServer # <<>> /\ Head(toServer).body = "Login"
      /\ Srv!Answer(<<b>>) /\ session' = registered /\ joined' = serverTurn
      /\ UNCHANGED <<registered, serverTurn>> /\ ended = "no"
  BY DEF AnswerLogin, Asked, Running
<1>2. toServer' = Tail(toServer) /\ seq' = seq
  BY <1>1 DEF Srv!Answer
<1>3. /\ Head(toServer).seq = 4 /\ 4 \in Srv!NumbersOf(toServer) /\ 4 \in Srv!Open
      /\ Srv!NumbersOf(toServer)' = Srv!NumbersOf(toServer) \ {4}
  <2>1. /\ Head(toServer).seq \in 2..seq /\ seq \in Nat
        /\ RequestOf(Head(toServer).seq).body = LoginRequest.body
        /\ Head(toServer).seq \in Srv!NumbersOf(toServer) /\ Head(toServer).seq \in Srv!Open
        /\ Srv!NumbersOf(toServer)' = Srv!NumbersOf(toServer) \ {Head(toServer).seq}
    BY <1>1, <1>2, OldestRequest DEF IInv, Srv!IInv, Srv!TypeOK, LoginRequest, AskFor
  <2>2. PICK n \in Nat : n = Head(toServer).seq
    BY ONLY <2>1
  <2>3. n = 4
    BY ONLY <2>1, <2>2, Asking DEF LoginRequest, AskFor
  <2> QED BY ONLY <2>1, <2>2, <2>3
<1>4. b \in AnswersTo(4) /\ b \in Replies /\ b \notin Time
  BY WhatIsSaid DEF AnswersTo, Replies
<1>5. seq = 4 /\ ~session
  BY <1>3 DEF IInv, Stage, LetIn
<1>6. LetIn'
  BY <1>1, <1>2, <1>3, <1>5 DEF IInv, LetIn, commVars
<1>7. serverTurn \in Nat
  BY BoundAssumption DEF IInv, TurnsRise
<1>8. joined' \in 0..serverTurn /\ serverTurn - joined' = 0
  BY <1>1, <1>7
<1> QED BY <1>1, <1>3, <1>4, <1>5, <1>6, <1>8, OneAnswer

(* Who asks for the time or the player is in.                              *)
LEMMA WhoAsks ==
  ASSUME IInv, toServer # <<>>, toServer' = Tail(toServer),
         Head(toServer).body \in {"GetTimeRemaining", "GetPlayerData"}
  PROVE  session
<1>1. /\ Head(toServer).seq \in 2..seq /\ seq \in Nat
      /\ Head(toServer).body = RequestOf(Head(toServer).seq).body
  BY OldestRequest DEF IInv, Srv!IInv, Srv!TypeOK
<1>2. Head(toServer).seq \notin 2..4
  BY <1>1, Asking
<1>3. seq > 4
  BY <1>1, <1>2
<1> QED BY <1>1, <1>3 DEF IInv, Stage, LetIn

LEMMA AnswerGetTimeRemainingInv ==
  IInv /\ AnswerGetTimeRemaining /\ UNCHANGED <<commVars, ended>> => IInv'
<1> SUFFICES ASSUME IInv, AnswerGetTimeRemaining, UNCHANGED <<commVars, ended>> PROVE IInv'
  OBVIOUS
<1>1. /\ toServer # <<>> /\ Head(toServer).body = "GetTimeRemaining"
      /\ UNCHANGED <<registered, session, serverTurn, joined>>
  BY DEF AnswerGetTimeRemaining, Asked, peerVars
<1>2. PICK r \in {"none", "some"} :
        Srv!Answer(<<IF session THEN TimeMsg(r, serverTurn) ELSE Msg("Fail")>>)
  BY DEF AnswerGetTimeRemaining
<1>3. toServer' = Tail(toServer) /\ seq' = seq
  BY <1>2 DEF Srv!Answer
<1>4. session
  BY <1>1, <1>3, WhoAsks
<1> DEFINE b == TimeMsg(r, serverTurn)
<1>5. Srv!Answer(<<b>>)
  BY <1>2, <1>4
<1>6. serverTurn \in 0..MaxTurn
  BY DEF IInv, TurnsRise
<1>7. b \in Time /\ b \in Replies /\ b.turn = serverTurn
  BY <1>6, WhatIsSaid
<1>8. Head(toServer).seq \in Nat /\ Head(toServer).seq \notin {0, 2, 3, 4, 6}
  <2>1. /\ Head(toServer).seq \in 2..seq /\ seq \in Nat
        /\ RequestOf(Head(toServer).seq).body = "GetTimeRemaining"
    BY <1>1, <1>3, OldestRequest DEF IInv, Srv!IInv, Srv!TypeOK
  <2>2. PICK n \in Nat : n = Head(toServer).seq /\ n >= 2
    BY ONLY <2>1
  <2>3. n \notin {2, 3, 4, 6}
    BY ONLY <2>1, <2>2, Asking
  <2> QED BY ONLY <2>2, <2>3
<1>9. AnswersTo(Head(toServer).seq) = Time
  BY <1>8 DEF AnswersTo
<1>10. LetIn'
  BY <1>1, <1>3, StaysIn DEF commVars
<1>11. joined' \in 0..serverTurn
  BY <1>1 DEF IInv, TurnsRise
<1> HIDE DEF b
<1> QED BY <1>1, <1>5, <1>7, <1>9, <1>10, <1>11, OneAnswer

LEMMA AnswerGetPlayerDataInv ==
  IInv /\ AnswerGetPlayerData /\ UNCHANGED <<commVars, ended>> => IInv'
<1> SUFFICES ASSUME IInv, AnswerGetPlayerData, UNCHANGED <<commVars, ended>> PROVE IInv'
  OBVIOUS
<1> DEFINE bodies == IF PlayerAsSequence THEN <<Msg("SEQUENCE"), Msg("PlayerData")>>
                     ELSE <<Msg("PlayerData")>>
<1>1. /\ toServer # <<>> /\ Head(toServer).body = "GetPlayerData"
      /\ UNCHANGED <<registered, session, serverTurn, joined>>
  BY DEF AnswerGetPlayerData, Asked, peerVars
<1>2. toServer' = Tail(toServer) /\ seq' = seq
  BY DEF AnswerGetPlayerData, Srv!Answer
<1>3. session
  BY <1>1, <1>2, WhoAsks
<1>4. Srv!Answer(bodies)
  BY <1>3 DEF AnswerGetPlayerData
<1>5. Msg("SEQUENCE") \in Replies /\ Msg("PlayerData") \in Replies
  BY DEF Replies
<1>6. bodies \in Seq(Replies) \ {<<>>}
  BY <1>5
<1>7. \A i \in 1..Len(bodies) : bodies[i] \in {Msg("SEQUENCE"), Msg("PlayerData")}
  OBVIOUS
<1>8. Head(toServer).seq = 6
  <2>1. /\ Head(toServer).seq \in 2..seq /\ seq \in Nat
        /\ RequestOf(Head(toServer).seq).body = "GetPlayerData"
    BY <1>1, <1>2, OldestRequest DEF IInv, Srv!IInv, Srv!TypeOK
  <2>2. PICK n \in Nat : n = Head(toServer).seq
    BY ONLY <2>1
  <2> QED BY ONLY <2>1, <2>2, Asking
<1>9. /\ AnswersTo(6) = {Msg("SEQUENCE"), Msg("PlayerData")}
      /\ \A b \in AnswersTo(6) : b \notin Time
  BY WhatIsSaid DEF AnswersTo
<1>10. LetIn'
  BY <1>1, <1>2, StaysIn DEF commVars
<1>11. joined' \in 0..serverTurn
  BY <1>1 DEF IInv, TurnsRise
<1> HIDE DEF bodies
<1> QED BY <1>1, <1>4, <1>6, <1>7, <1>8, <1>9, <1>10, <1>11, Answered

(* A turn ends: a player who is in is told.                                *)
LEMMA EndTurnInv == IInv /\ EndTurn /\ UNCHANGED <<commVars, ended>> => IInv'
<1> SUFFICES ASSUME IInv, EndTurn, UNCHANGED <<commVars, ended>> PROVE IInv'
  OBVIOUS
<1> DEFINE b == TimeMsg("none", serverTurn)
           x == [seq |-> 0, body |-> b, first |-> FALSE]
           new == IF session THEN <<x>> ELSE <<>>
<1>1. /\ serverTurn < MaxTurn /\ serverTurn' = serverTurn + 1
      /\ UNCHANGED <<registered, session, joined>>
      /\ UNCHANGED <<triedcreate, accountregister, timers, turn, player, newTurns, ended>>
  BY DEF EndTurn, commVars
<1>2. serverTurn \in 0..MaxTurn /\ MaxTurn \in Nat /\ joined \in 0..serverTurn
  BY BoundAssumption DEF IInv, TurnsRise
<1>3. b \in Time /\ b \in TurnEnd /\ b \in Replies /\ b.turn = serverTurn /\ b.remain = "none"
  BY <1>2, WhatIsSaid DEF TurnEnd
<1>4. x.seq = 0 /\ x.body = b
  OBVIOUS
<1> HIDE DEF b
<1>5. x \in AnswersGiven /\ x \in Announcement /\ TurnAfter(x) = serverTurn'
  <2>1. x \in Srv!Frame
    BY <1>3 DEF Srv!Frame
  <2>2. x \in AnswersGiven
    BY <1>3, <1>4, <2>1 DEF AnswersGiven, AnswersTo
  <2>3. x \in Announcement
    BY <1>3, <1>4, <2>1 DEF Announcement, Passing
  <2>4. TurnAfter(x) = serverTurn'
    BY <1>1, <1>3, <1>4 DEF TurnAfter, TurnEnds
  <2> QED BY <2>2, <2>3, <2>4
<1>6. /\ fromServer' = fromServer \o new
      /\ UNCHANGED <<conncb, seq, cbs, toServer, events>>
      /\ Srv!IInv'
  <2>1. CASE session
    <3>1. Srv!Push(b)
      BY <2>1 DEF EndTurn, b
    <3>2. fromServer' = Append(fromServer, x) /\ UNCHANGED <<conncb, seq, cbs, toServer, events>>
      BY <3>1 DEF Srv!Push
    <3>3. Append(fromServer, x) = fromServer \o <<x>>
      <4>1. fromServer \in Seq(AnswersGiven)
        BY Queues
      <4> HIDE DEF x
      <4> QED BY <1>5, <4>1, AppendContents
    <3>4. Srv!IInv'
      BY <1>3, <3>1, SameInvariant, SameInvariantNext, SameSteps, ServerAssumptions, SP!PushInv
         DEF IInv
    <3> QED BY <2>1, <3>2, <3>3, <3>4
  <2>2. CASE ~session
    <3>1. UNCHANGED <<conncb, seq, cbs, toServer, fromServer, events, pushed>>
      BY <2>2 DEF EndTurn, netVars
    <3>2. Srv!IInv'
      BY <3>1, SameInvariant, SameInvariantNext, ServerAssumptions, SP!StepInv
         DEF IInv, SP!serverVars
    <3>3. fromServer \o <<>> = fromServer
      BY Queues
    <3> QED BY <2>2, <3>1, <3>2, <3>3
  <2>3. session \in BOOLEAN
    BY DEF IInv, LetIn
  <2> QED BY <2>1, <2>2, <2>3
<1> HIDE DEF x
<1>7. /\ new \in Seq(AnswersGiven)
      /\ ToSet(new) = IF session THEN {x} ELSE {}
      /\ Announced(new) = IF session THEN 1 ELSE 0
  <2>1. <<x>> \in Seq(AnswersGiven) /\ <<>> \in Seq(AnswersGiven)
    BY <1>5
  <2>2. ToSet(<<x>>) = {x} /\ ToSet(<<>>) = {}
    BY SingleContents, EmptyContents
  <2>3. Announced(<<x>>) = 1 /\ Announced(<<>>) = 0
    BY <1>5, SingleCount, EmptyContents, FS_EmptySet DEF Announced
  <2> QED BY <2>1, <2>2, <2>3
<1> HIDE DEF new
<1>8. /\ fromServer' \in Seq(AnswersGiven)' /\ events' \in Seq(EventsSent)'
      /\ TurnsRise'
      /\ ToSet(fromServer') = ToSet(fromServer) \cup ToSet(new)
      /\ Announced(fromServer') = Announced(fromServer) + Announced(new)
  <2>1. serverTurn' \in serverTurn..MaxTurn /\ joined' \in 0..serverTurn'
    BY <1>1, <1>2
  <2>2. \A y \in ToSet(new) : y.body \in Time => TurnAfter(y) = serverTurn'
    BY <1>5, <1>7
  <2>3. UNCHANGED <<events, turn, registered>>
    BY <1>1, <1>6
  <2> QED BY <1>6, <1>7, <2>1, <2>2, <2>3, FramesArrive
<1>9. ByNumber'
  BY <1>6, <1>8 DEF IInv, ByNumber, RequestsAsked, RequestOf, Wire
<1>10. Stage'
  BY <1>1, <1>6 DEF IInv, Stage, Srv!Open
<1>11. LetIn'
  BY <1>1, <1>6 DEF IInv, LetIn, Srv!NumbersOf
<1>12. TurnKnown'
  <2> SUFFICES ASSUME timers' > 0
               PROVE  \E y \in OfTime(events') \cup OfTime(fromServer') :
                        TurnAfter(y) = serverTurn'
    BY DEF TurnKnown, TurnUnderWay, TurnAfter, TurnEnds, OfTime
  <2>1. session
    BY <1>1 DEF IInv, Stage, LetIn
  <2>2. x \in OfTime(fromServer')
    BY <1>3, <1>4, <1>7, <1>8, <2>1 DEF OfTime, x
  <2> QED BY <1>5, <2>2
<1>13. TurnsCounted'
  <2>1. /\ Announced(events)' = Announced(events)
        /\ Announced(fromServer)' = Announced(fromServer')
    BY <1>6 DEF Announced, Places
  <2>2. /\ newTurns \in Nat /\ Announced(fromServer) \in Nat /\ Announced(events) \in Nat
        /\ newTurns + Announced(fromServer) + Announced(events)
             = IF session THEN serverTurn - joined ELSE 0
    BY Queues DEF IInv, TurnsCounted
  <2>3. CASE session
    <3>1. Announced(fromServer') = Announced(fromServer) + 1
      BY <1>7, <1>8, <2>3
    <3>2. newTurns + Announced(fromServer') + Announced(events) = serverTurn' - joined
      BY <1>1, <1>2, <2>2, <2>3, <3>1
    <3> QED BY <1>1, <2>1, <2>2, <2>3, <3>2 DEF TurnsCounted
  <2>4. CASE ~session
    <3>1. Announced(fromServer') = Announced(fromServer) + 0
      BY <1>7, <1>8, <2>4
    <3>2. newTurns + Announced(fromServer') + Announced(events) = 0
      BY <2>2, <2>4, <3>1
    <3> QED BY <1>1, <2>1, <2>2, <2>4, <3>2 DEF TurnsCounted
  <2> QED BY <2>3, <2>4 DEF IInv, LetIn
<1> QED BY <1>6, <1>8, <1>9, <1>10, <1>11, <1>12, <1>13 DEF IInv

-----------------------------------------------------------------------------
(* The invariant and what follows from it                                  *)

LEMMA InitInv == Init => IInv
<1> SUFFICES ASSUME Init PROVE IInv
  OBVIOUS
<1>1. /\ Srv!ServerInit /\ SP!ServerInit
      /\ conncb = TRUE /\ seq = 1 /\ cbs = {} /\ toServer = <<>>
      /\ fromServer = <<>> /\ events = <<>>
  BY DEF Init, Srv!ServerInit, SP!ServerInit
<1>2. Srv!IInv
  BY <1>1, SameInvariant, ServerAssumptions, SP!InitInv
<1>3. Srv!Open = {} /\ Srv!NumbersOf(toServer) = {}
  BY <1>1 DEF Srv!Open, Srv!NumbersOf
<1>4. ByNumber
  BY <1>1 DEF ByNumber
<1>5. Stage
  BY <1>1, <1>3 DEF Init, Stage
<1>5a. LetIn
  <2>1. /\ session = FALSE /\ player = FALSE /\ ended = "no" /\ registered \in BOOLEAN
    BY DEF Init
  <2>2. session <=> registered /\ seq >= 4 /\ 4 \notin Srv!NumbersOf(toServer)
    BY <1>1, <2>1
  <2>3. {player, registered, session} \subseteq BOOLEAN
    BY <2>1
  <2> QED BY <1>1, <2>1, <2>2, <2>3 DEF LetIn
<1>6. OfTime(events) = {} /\ OfTime(fromServer) = {}
      /\ Ordered(events, Rising) /\ Ordered(fromServer, Rising)
      /\ Across(events, fromServer, Rising)
  BY <1>1, EmptyContents, ShortOrdered DEF OfTime, Across
<1>7. TurnsRise /\ TurnKnown
  BY <1>6, BoundAssumption DEF Init, TurnsRise, TurnKnown
<1>8. Announced(events) = 0 /\ Announced(fromServer) = 0
  BY <1>1, EmptyContents, FS_EmptySet DEF Announced
<1>9. TurnsCounted
  BY <1>8 DEF Init, TurnsCounted
<1> QED BY <1>2, <1>4, <1>5, <1>5a, <1>7, <1>9 DEF IInv

LEMMA UnchangedInv == IInv /\ UNCHANGED vars => IInv'
<1> SUFFICES ASSUME IInv, UNCHANGED vars PROVE IInv'
  OBVIOUS
<1>1. /\ UNCHANGED <<conncb, seq, cbs, toServer, fromServer, events, pushed>>
      /\ UNCHANGED <<triedcreate, accountregister, timers, turn, player, newTurns, ended,
                     registered, session, serverTurn, joined, peerVars>>
  BY DEF vars, netVars, commVars, peerVars
<1>2. Srv!IInv'
  BY <1>1, SameInvariant, SameInvariantNext, ServerAssumptions, SP!StepInv
     DEF IInv, SP!serverVars
<1>3. Stage' /\ LetIn'
  BY <1>1 DEF IInv, Stage, LetIn, Srv!Open, Srv!NumbersOf
<1>4. Members(toServer)' = Members(toServer)
  BY <1>1 DEF Members
<1>5. /\ fromServer' \in Seq(AnswersGiven)' /\ events' \in Seq(EventsSent)'
      /\ TurnsRise' /\ TurnsCounted'
      /\ TurnUnderWay => TurnUnderWay'
  BY <1>1, <1>4, QueuesStay
<1>6. ByNumber'
  BY <1>1, <1>5 DEF IInv, ByNumber
<1>7. TurnKnown'
  BY <1>1, <1>5 DEF IInv, TurnKnown
<1> QED BY <1>2, <1>3, <1>5, <1>6, <1>7 DEF IInv

LEMMA StepInv == IInv /\ [Next]_vars => IInv'
<1> SUFFICES ASSUME IInv, [Next]_vars PROVE IInv'
  OBVIOUS
<1>1. CASE Client
  BY <1>1, SocketConnectInv, MayLoginInv, LoginRefusedInv, LoginAcceptedInv, PlayerIdInv,
     OtherFrameInv, TimeRemainingInv, OtherEventInv, GetTimeInv DEF Client
<1>2. CASE (AnswerRequest \/ EndTurn) /\ UNCHANGED <<commVars, ended>>
  BY <1>2, AnswerConnectInv, AnswerGetFeaturesInv, AnswerLoginInv,
     AnswerGetTimeRemainingInv, AnswerGetPlayerDataInv, EndTurnInv DEF AnswerRequest
<1>3. CASE UNCHANGED vars
  BY <1>3, UnchangedInv
<1> QED BY <1>1, <1>2, <1>3 DEF Next

(* All that is said about numbers, the login and the turns holds together. *)
THEOREM InductiveInvariant == Spec => []IInv
BY InitInv, StepInv, PTL DEF Spec

(* The variables keep their types: there is one timer at most, and neither *)
(* the turn nor the number of NewTurn events exceeds the game's turns.     *)
THEOREM TypeCorrect == Spec => []TypeOK
<1>1. IInv => TypeOK
  <2> SUFFICES ASSUME IInv PROVE TypeOK
    OBVIOUS
  <2>1. Srv!TypeOK /\ {triedcreate, accountregister, player, registered, session} \subseteq BOOLEAN
    BY DEF IInv, Srv!IInv, Stage, LetIn
  <2>2. timers \in 0..1 /\ ended \in {"no", "exit", "abort"}
    BY DEF IInv, Stage, LetIn
  <2>3. turn \in 0..MaxTurn /\ {serverTurn, joined} \subseteq 0..MaxTurn
    BY BoundAssumption DEF IInv, TurnsRise
  <2>4. newTurns \in 0..MaxTurn
    <3>1. /\ newTurns \in Nat /\ Announced(fromServer) \in Nat /\ Announced(events) \in Nat
          /\ newTurns + Announced(fromServer) + Announced(events)
               = IF session THEN serverTurn - joined ELSE 0
      BY Queues DEF IInv, TurnsCounted
    <3>2. serverTurn - joined <= MaxTurn /\ MaxTurn \in Nat /\ serverTurn - joined \in Int
      BY BoundAssumption DEF IInv, TurnsRise
    <3> QED BY <3>1, <3>2
  <2> QED BY <2>1, <2>2, <2>3, <2>4 DEF TypeOK
<1> QED BY <1>1, InductiveInvariant, PTL

(* logged_in() and what it sends go by the server's decision: nothing that *)
(* needs a player is asked before he is in, and who is in goes on.         *)
THEOREM LoginIsAgreed == Spec => []LoginAgrees
<1>1. IInv => LoginAgrees
  <2> SUFFICES ASSUME IInv PROVE LoginAgrees
    OBVIOUS
  <2>1. timers > 0 => session
    BY DEF IInv, Stage, LetIn
  <2>2. ended # "no" => ~session
    BY DEF IInv, LetIn
  <2>3. ASSUME Members(toServer) \cap {"GetTimeRemaining", "GetPlayerData"} # {}
        PROVE  session
    <3>1. PICK i \in 1..Len(toServer) : toServer[i].body \in {"GetTimeRemaining", "GetPlayerData"}
      BY <2>3 DEF Members
    <3>2. toServer[i] \in RequestsAsked /\ toServer[i].seq \in 2..seq /\ seq \in Nat
      <4>1. toServer \in Seq(RequestsAsked)
        BY DEF IInv, ByNumber
      <4>2. toServer[i] \in RequestsAsked
        BY <3>1, <4>1
      <4> DEFINE Q == [seq : 2..seq, body : Requests]
      <4>3. toServer \in Seq(Q) /\ seq \in Nat
        BY DEF IInv, Srv!IInv, Srv!TypeOK
      <4>4. toServer[i] \in Q
        <5> HIDE DEF Q
        <5> QED BY <3>1, <4>3
      <4> QED BY <4>2, <4>3, <4>4
    <3>3. toServer[i].seq \notin 2..4
      BY <3>1, <3>2, Asking DEF RequestsAsked
    <3>4. seq > 4
      BY <3>2, <3>3
    <3> QED BY <3>4 DEF IInv, Stage, LetIn
  <2> QED BY <2>1, <2>2, <2>3 DEF LoginAgrees
<1> QED BY <1>1, InductiveInvariant, PTL

(* tpe_comm_time_remaining() leaves the client with the game's turn when   *)
(* nothing about the time is under way.                                    *)
THEOREM TurnIsInStep == Spec => []TurnInStep
<1>1. IInv => TurnInStep
  <2> SUFFICES ASSUME IInv, timers > 0, "GetTimeRemaining" \notin Members(toServer),
                      (Members(fromServer) \cup Members(events)) \cap Time = {}
               PROVE  turn = serverTurn
    BY DEF TurnInStep
  <2>1. /\ Members(fromServer) = {x.body : x \in ToSet(fromServer)}
        /\ Members(events) = {x.body : x \in ToSet(events)}
    BY Queues, MembersOf
  <2>2. OfTime(events) \cup OfTime(fromServer) = {}
    BY <2>1 DEF OfTime
  <2> QED BY <2>2 DEF IInv, TurnKnown, TurnUnderWay
<1> QED BY <1>1, InductiveInvariant, PTL

(* Each turn that ends while the player is in becomes one NewTurn event:   *)
(* tpe_comm_time_remaining() neither misses an announcement nor takes      *)
(* anything else for one.                                                  *)
THEOREM EachTurnIsSentOnce == Spec => []EachTurnOnce
<1>1. IInv => EachTurnOnce
  <2> SUFFICES ASSUME IInv PROVE EachTurnOnce
    OBVIOUS
  <2>1. ASSUME NEW s \in Seq(Passing)
        PROVE  PositionsOf(s, TurnEnd) = Places(s, Announcement)
    <3>1. \A i \in 1..Len(s) : s[i] \in Passing
      BY <2>1
    <3> QED BY <3>1 DEF PositionsOf, Places, Announcement
  <2>2. /\ Cardinality(PositionsOf(fromServer, TurnEnd)) = Announced(fromServer)
        /\ Cardinality(PositionsOf(events, TurnEnd)) = Announced(events)
    BY <2>1, Queues DEF Announced
  <2> QED BY <2>2 DEF IInv, TurnsCounted, EachTurnOnce
<1> QED BY <1>1, InductiveInvariant, PTL

(* The turn shown to the player never goes back, whatever answers and      *)
(* announcements are on their way when one of them is handled.             *)
THEOREM TurnNeverGoesBack == Spec => TurnMonotone
<1>1. IInv /\ [Next]_vars => [turn' >= turn]_vars
  <2> SUFFICES ASSUME IInv, Next PROVE turn' >= turn
    OBVIOUS
  <2>1. turn \in Nat
    BY DEF IInv, TurnsRise
  <2>2. CASE TimeRemaining
    <3>1. /\ events # <<>> /\ turn' = TurnAfter(Head(events))
          /\ Head(events).body.type = "TimeRemaining"
      BY <2>2 DEF TimeRemaining
    <3>2. Head(events).body \in Time
      BY <3>1, OldestEvent
    <3>3. Head(events) \in OfTime(events)
      <4>1. Head(events) \in ToSet(events)
        BY <3>1, Queues, HeadAndTail
      <4> QED BY <3>2, <4>1 DEF OfTime
    <3>4. turn <= TurnAfter(Head(events))
      BY <3>3 DEF IInv, TurnsRise
    <3>5. TurnAfter(Head(events)) \in Nat
      BY <3>2, WhatIsSaid DEF TurnAfter
    <3> QED BY <2>1, <3>1, <3>4, <3>5
  <2>3. CASE Client /\ ~TimeRemaining
    <3>1. turn' = turn
      BY <2>3 DEF Client, SocketConnect, MayLogin, LoginRefused, LoginAccepted, PlayerId,
                  OtherFrame, OtherEvent, GetTime, commVars
    <3> QED BY <2>1, <3>1
  <2>4. CASE (AnswerRequest \/ EndTurn) /\ UNCHANGED <<commVars, ended>>
    BY <2>1, <2>4 DEF commVars
  <2> QED BY <2>2, <2>3, <2>4 DEF Next
<1> QED BY <1>1, InductiveInvariant, PTL DEF Spec, TurnMonotone
=============================================================================
