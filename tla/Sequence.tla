------------------------------ MODULE Sequence ------------------------------
(***************************************************************************)
(* tpe_sequence.c, and what the sequences registered with it keep: objects *)
(* (objects.c), order descriptions (tpe_orders.c), resources               *)
(* (tpe_resources.c) and designs (tpe_ship.c).  The module runs on Server. *)
(*                                                                         *)
(* When the player is in, and at each new turn, the ids of every kind are  *)
(* asked for.  The server sends them in pages, each with the times the     *)
(* things last changed; those that are newer than what is cached are       *)
(* fetched, and arrive as events of their own.                             *)
(*                                                                         *)
(* The game server is modelled from how the client uses it.  A list is     *)
(* named by a key, which is opaque to the client: here it is the list      *)
(* itself.  The catalogue changes when a turn ends.  What tpe_comm.c sends *)
(* is left out; the model starts when it has sent Connected.               *)
(***************************************************************************)
EXTENDS Integers, Sequences, SequencesExt, FiniteSets, Lists

CONSTANTS
  KindSets,         \* the sets of kinds that may be registered
  Ids,              \* their ids
  PageSizes,        \* lengths of a page: one is chosen at the start
  FirstTime,        \* when the things there are at the start last changed
  Patient,          \* TRUE: no turn ends while a list in pages is under way
  MaxLists          \* bound: lists the client starts anew at ends of turn

(* The order in which main() initialises the modules that register.        *)
Registered == <<"Object", "OrderDescription", "Resource", "Design">>

Kinds == {"Object", "OrderDescription", "Resource", "Design"}

ASSUME KindsAssumption == KindSets \subseteq SUBSET Kinds
ASSUME BoundAssumption ==
  /\ Ids \subseteq Nat /\ IsFiniteSet(Ids)
  /\ PageSizes \subseteq Nat \ {0}
  /\ FirstTime \in Nat \ {0}           \* 0 is the time of what is not known
  /\ MaxLists \in Nat

VARIABLES
  conncb, seq, cbs, toServer, fromServer, events, pushed,   \* as in Server
  seqs,             \* tpe->sequence->seqs, the kinds registered
  position,         \* position[k]: seq->position of kind k
  cache,            \* cache[k]: the things of kind k received, in a list
  told,             \* the objects an ObjectNew event was handled for
  catalogue,        \* catalogue[k]: ids the server has, with their times
  pageSize,         \* ids in a page
  serverTurn        \* the server's turn

netVars == <<conncb, seq, cbs, toServer, fromServer, events, pushed>>
peerVars == <<catalogue, pageSize, serverTurn>>
vars == <<netVars, seqs, position, cache, told, peerVars>>

Thing == [id : Ids, updated : Nat]

(* What the client sends.                                                  *)
GetIDs(k) == [type |-> "GetIDs", kind |-> k]
GetPage(k, key, pos) == [type |-> "GetPage", kind |-> k, key |-> key, pos |-> pos]
Get(k, ids) == [type |-> "Get", kind |-> k, ids |-> ids]

(* Frames and events.                                                      *)
Msg(type) == [type |-> type]
ListOfIDs(k, key, things, more) ==
  [type |-> "ListOfIDs", kind |-> k, key |-> key, things |-> things, more |-> more]
Data(k, thing) == [type |-> "Data", kind |-> k, thing |-> thing]
ObjectEvent(type, id) == [type |-> type, id |-> id]

Ask(body) == [body |-> body, cb |-> "none"]
Event(body) == [seq |-> 0, body |-> body]

Requests ==
  [type : {"GetIDs"}, kind : Kinds]
    \cup [type : {"GetPage"}, kind : Kinds, key : Seq(Thing), pos : Nat]
    \cup [type : {"Get"}, kind : Kinds, ids : Seq(Ids)]
Unheard == {Msg("SEQUENCE")}
Replies ==
  Unheard \cup {Msg("TurnEnds"), Msg("NewTurn"), Msg("Connected"), Msg("Fail")}
    \cup [type : {"ListOfIDs"}, kind : Kinds, key : Seq(Thing), things : Seq(Thing), more : Nat]
    \cup [type : {"Data"}, kind : Kinds, thing : Thing]
    \cup [type : {"ObjectNew", "ObjectChanged"}, id : Ids]

Srv == INSTANCE Server
         WITH Body <- Requests, Reply <- Replies, Callback <- {}, NoCallback <- "none",
              Heard <- Replies \ Unheard,
              MaxSeq <- 1, MaxSends <- 0, MaxReply <- 0, MaxPush <- MaxLists

(* The things of a catalogue as a list, in the order of their ids.         *)
ListOf(c) ==
  LET ids == Ascending(DOMAIN c)
  IN  [i \in 1..Len(ids) |-> [id |-> ids[i], updated |-> c[ids[i]]]]

Init ==
  /\ conncb = FALSE
  /\ seq = 1
  /\ cbs = {}
  /\ toServer = <<>>
  /\ fromServer = <<>>
  /\ events = <<Event(Msg("Connected"))>>
  /\ pushed = 0
  /\ seqs \in KindSets
  /\ position = [k \in seqs |-> 0]
  /\ cache = [k \in seqs |-> <<>>]
  /\ told = {}
  /\ \E there \in SUBSET Ids :
       catalogue = [k \in seqs |-> [id \in there |-> FirstTime]]
  /\ pageSize \in PageSizes
  /\ serverTurn = 0

-----------------------------------------------------------------------------
(* Client                                                                  *)

Frame ==
  /\ fromServer # <<>>
  /\ Srv!HandlePacket(<<>>, <<>>)
  /\ UNCHANGED <<seqs, position, cache, told, peerVars>>

Arrives(type) ==
  /\ events # <<>>
  /\ Head(events).body.type = type

Content == Head(events).body

(* tpe_comm_time_remaining(): the end of a turn becomes a NewTurn event.   *)
TimeRemaining ==
  /\ Arrives("TurnEnds")
  /\ Srv!HandleEvent(<<>>, <<Event(Msg("NewTurn"))>>)
  /\ UNCHANGED <<seqs, position, cache, told, peerVars>>

(* Mutant: a new list begins with the times reset. *)
StartForgets ==
  /\ Arrives("Connected") \/ Arrives("NewTurn")
  /\ LET kinds == Selected(Registered, seqs)
     IN  Srv!HandleEvent([i \in 1..Len(kinds) |-> Ask(GetIDs(kinds[i]))], <<>>)
  /\ position' = [k \in seqs |-> 0]
  /\ cache' = [k \in seqs |-> [i \in 1..Len(cache[k]) |-> [cache[k][i] EXCEPT !.updated = 0]]]
  /\ UNCHANGED <<seqs, told, peerVars>>

(* tpe_sequence_start(): every list is asked for from its beginning.       *)
Start ==
  /\ Arrives("Connected") \/ Arrives("NewTurn")
  /\ LET kinds == Selected(Registered, seqs)
     IN  Srv!HandleEvent([i \in 1..Len(kinds) |-> Ask(GetIDs(kinds[i]))], <<>>)
  /\ position' = [k \in seqs |-> 0]
  /\ UNCHANGED <<seqs, cache, told, peerVars>>

(* UINT64_MAX, later than any time.                                        *)
Always == FirstTime + MaxLists + 1

(* Order descriptions and designs are appended when they arrive, the other *)
(* kinds replaced.                                                         *)
Appended == {"OrderDescription", "Design"}

PlacesOf(k, id) == {i \in 1..Len(cache[k]) : cache[k][i].id = id}

(* The entry a lookup finds: the first with the id, if there is one.       *)
Lookup(k, id) == {i \in PlacesOf(k, id) : \A j \in PlacesOf(k, id) : i <= j}

(* The lastupdatefn of each kind.                                          *)
LastUpdate(k, id) ==
  IF Lookup(k, id) = {}
  THEN IF k \in Appended THEN Always ELSE 0
  ELSE cache[k][CHOOSE i \in Lookup(k, id) : TRUE].updated

(* Mutant: things that changed are not fetched again. *)
WantedUnknown(k, thing) == Lookup(k, thing.id) = {}

(* Mutant: later than any time is later than the server's. *)
WantedNewer(k, thing) == LastUpdate(k, thing.id) < thing.updated

Wanted(k, thing) ==
  \/ LastUpdate(k, thing.id) < thing.updated
  \/ LastUpdate(k, thing.id) = Always

(* Mutant: the ids received are taken off. *)
PositionAfterLess(k, things) == position[k] - Len(things)

(* Mutant: every page begins where the first one did. *)
PositionAfterNone(k, things) == position[k]

PositionAfter(k, things) == position[k] + Len(things)

(* tpe_sequence_handle_oids(): fetch what is new, and ask for the next     *)
(* page if there is more.                                                  *)
HandleOids ==
  /\ Arrives("ListOfIDs")
  /\ LET k == Content.kind
         new == Selected(Content.things, {thing \in ToSet(Content.things) : Wanted(k, thing)})
         get == [i \in 1..Len(new) |-> new[i].id]
     IN  /\ position' = [position EXCEPT ![k] = PositionAfter(k, Content.things)]
         /\ Srv!HandleEvent(
              (IF get # <<>> THEN <<Ask(Get(k, get))>> ELSE <<>>)
                \o (IF Content.more > 0
                    THEN <<Ask(GetPage(k, Content.key, position'[k]))>>
                    ELSE <<>>),
              <<>>)
  /\ UNCHANGED <<seqs, cache, told, peerVars>>

(* The cache of kind k after a thing has arrived.                          *)
Stored(k, thing) ==
  IF k \in Appended \/ PlacesOf(k, thing.id) = {}
  THEN Append(cache[k], thing)
  ELSE [i \in 1..Len(cache[k]) |-> IF i \in Lookup(k, thing.id) THEN thing ELSE cache[k][i]]

(* Mutant: every object is announced as new. *)
AnnouncedNew(k, thing) ==
  IF k # "Object" THEN <<>> ELSE <<Event(ObjectEvent("ObjectNew", thing.id))>>

(* Objects are announced.  ResourceNew has no handlers.                    *)
Announced(k, thing) ==
  IF k # "Object" THEN <<>>
  ELSE IF PlacesOf(k, thing.id) = {}
  THEN <<Event(ObjectEvent("ObjectNew", thing.id))>>
  ELSE <<Event(ObjectEvent("ObjectChanged", thing.id))>>

Receive ==
  /\ Arrives("Data")
  /\ Srv!HandleEvent(<<>>, Announced(Content.kind, Content.thing))
  /\ cache' = [cache EXCEPT ![Content.kind] = Stored(Content.kind, Content.thing)]
  /\ UNCHANGED <<seqs, position, told, peerVars>>

(* What the objects announced, and a MsgFail, do to the state here.        *)
OtherEvent ==
  /\ Arrives("ObjectNew") \/ Arrives("ObjectChanged") \/ Arrives("Fail")
  /\ Srv!HandleEvent(<<>>, <<>>)
  /\ told' = IF Arrives("ObjectNew") THEN told \cup {Content.id} ELSE told
  /\ UNCHANGED <<seqs, position, cache, peerVars>>

HandleAnyEvent == TimeRemaining \/ Start \/ HandleOids \/ Receive \/ OtherEvent

-----------------------------------------------------------------------------
(* Game server                                                             *)

Asked(type) ==
  /\ toServer # <<>>
  /\ Head(toServer).body.type = type

Question == Head(toServer).body

(* The page of a list from a position on.                                  *)
Page(k, key, pos) ==
  LET last == IF pos + pageSize < Len(key) THEN pos + pageSize ELSE Len(key)
  IN  ListOfIDs(k, key, SubSeq(key, pos + 1, last), Len(key) - last)

AnswerGetIDs ==
  /\ Asked("GetIDs")
  /\ Srv!Answer(<<Page(Question.kind, ListOf(catalogue[Question.kind]), 0)>>)

AnswerGetPage ==
  /\ Asked("GetPage")
  /\ Srv!Answer(<<Page(Question.kind, Question.key, Question.pos)>>)

(* A thing that is gone is refused.  Several things come behind a header.  *)
AnswerGet ==
  /\ Asked("Get")
  /\ LET k == Question.kind
         answer == [i \in 1..Len(Question.ids) |->
                      IF Question.ids[i] \in DOMAIN catalogue[k]
                      THEN Data(k, [id |-> Question.ids[i],
                                    updated |-> catalogue[k][Question.ids[i]]])
                      ELSE Msg("Fail")]
     IN  Srv!Answer(IF Len(answer) = 1 THEN answer ELSE <<Msg("SEQUENCE")>> \o answer)

Answer == (AnswerGetIDs \/ AnswerGetPage \/ AnswerGet)
          /\ UNCHANGED <<seqs, position, cache, told, peerVars>>

(* Nothing is under way between client and server.                         *)
Quiet == toServer = <<>> /\ fromServer = <<>> /\ events = <<>>

(* A turn ends: a thing appears, changes or goes, and the player is told.  *)
EndTurn ==
  /\ (serverTurn + 1) * Cardinality(seqs) <= MaxLists
  /\ Patient /\ pageSize < Cardinality(Ids) => Quiet
  /\ serverTurn' = serverTurn + 1
  /\ \E k \in seqs, id \in Ids :
       \E rest \in {[i \in DOMAIN catalogue[k] \ {id} |-> catalogue[k][i]]} :
         \/ catalogue' = [catalogue EXCEPT ![k] = rest]
         \/ catalogue' = [catalogue EXCEPT
              ![k] = [i \in DOMAIN rest \cup {id} |->
                        IF i = id THEN FirstTime + serverTurn' ELSE rest[i]]]
  /\ Srv!Push(Msg("TurnEnds"))
  /\ UNCHANGED <<seqs, position, cache, told, pageSize>>

Next == Frame \/ HandleAnyEvent \/ Answer \/ EndTurn

Spec ==
  /\ Init
  /\ [][Next]_vars

(* The main loop runs and the server answers; turns need not end.          *)
Fairness ==
  /\ WF_vars(Frame)
  /\ WF_vars(HandleAnyEvent)
  /\ WF_vars(Answer)

FairSpec == Spec /\ Fairness

-----------------------------------------------------------------------------

TypeOK ==
  /\ Srv!TypeOK
  /\ seqs \in KindSets
  /\ position \in [seqs -> Nat]
  /\ cache \in [seqs -> Seq([id : Ids, updated : 0..(Always - 1)])]
  /\ told \subseteq Ids
  /\ serverTurn \in 0..MaxLists

(* A list in pages is asked for page by page, none twice and none skipped: *)
(* the next page begins where the items received so far end.               *)
PagesInOrder ==
  \A i \in 1..Len(toServer) :
    toServer[i].body.type = "GetPage" =>
      /\ toServer[i].body.pos = position[toServer[i].body.kind]
      /\ 0 < toServer[i].body.pos /\ toServer[i].body.pos < Len(toServer[i].body.key)

(* "A registered sequence will automatically handle sequence updates":     *)
(* when nothing is under way, what a lookup finds is what the server has.  *)
UpdatesHandled ==
  Quiet => \A k \in seqs : \A id \in DOMAIN catalogue[k] :
             \E i \in Lookup(k, id) : cache[k][i].updated = catalogue[k][id]

(* That much holds of the kinds that are replaced; of those that are       *)
(* appended, that everything the server has is known in some version and   *)
(* that the latest is the last in the list.                                *)
SyncComplete ==
  Quiet => \A k \in seqs : \A id \in DOMAIN catalogue[k] :
             \E i \in IF k \in Appended THEN PlacesOf(k, id) ELSE Lookup(k, id) :
               cache[k][i].updated = catalogue[k][id]

(* An object is announced as new once, when it is first cached, and as     *)
(* changed only after that.                                                *)
PlacesIn(s, type, id) == {i \in 1..Len(s) : s[i].body = ObjectEvent(type, id)}
NewOnceFirst ==
  \A id \in Ids :
    LET new == PlacesIn(events, "ObjectNew", id)
        changed == PlacesIn(events, "ObjectChanged", id)
    IN  /\ Cardinality(new) + (IF id \in told THEN 1 ELSE 0)
             = IF "Object" \in seqs /\ PlacesOf("Object", id) # {} THEN 1 ELSE 0
        /\ \A i \in new, j \in changed : i < j

(* The version a lookup finds never goes back.                             *)
CacheMonotone ==
  [][\A k \in seqs, id \in Ids :
       Lookup(k, id) # {} => LastUpdate(k, id) <= LastUpdate(k, id)']_vars

(* Whatever the server adds, the client catches up: again and again all    *)
(* the server has is known, in some version.                               *)
CatchesUp ==
  []<>(\A k \in seqs : \A id \in DOMAIN catalogue[k] : PlacesOf(k, id) # {})
=============================================================================
