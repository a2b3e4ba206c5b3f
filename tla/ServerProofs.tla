---------------------------- MODULE ServerProofs ----------------------------
(***************************************************************************)
(* Proofs about Server, for every client and every server: what is sent,   *)
(* with which callbacks, and what the server says are arbitrary.           *)
(***************************************************************************)
EXTENDS Server, SequenceTheorems, TLAPS

(* An event a callback or a handler sends itself answers nothing.          *)
OwnEvent == [seq : {0}, body : Reply]

LEMMA SeqOfLists ==
  /\ RequestLists \subseteq Seq(Request)
  /\ ReplyLists \subseteq Seq(Reply) \ {<<>>}
<1>1. /\ MaxSends \in Nat
      /\ MaxReply \in Nat
  BY BoundAssumption
<1>2. ASSUME NEW S, NEW n \in Nat, NEW s \in [1..n -> S]
      PROVE  /\ s \in Seq(S)
             /\ n # 0 => s # <<>>
  BY <1>2
<1>3. RequestLists \subseteq Seq(Request)
  BY <1>1, <1>2 DEF RequestLists
<1>4. ReplyLists \subseteq Seq(Reply) \ {<<>>}
  BY <1>1, <1>2 DEF ReplyLists
<1> QED BY <1>3, <1>4

(* What server_send() does to the wire.                                    *)
LEMMA Sending ==
  ASSUME TypeOK, NEW rs \in Seq(Request), SendAll(rs)
  PROVE  /\ Len(rs) \in Nat
         /\ seq' = seq + Len(rs)
         /\ seq' \in Nat \ {0}
         /\ toServer' \in Seq([seq : 2..seq', body : Body])
         /\ Len(toServer') = Len(toServer) + Len(rs)
         /\ \A i \in 1..Len(toServer) : toServer'[i] = toServer[i]
         /\ \A i \in 1..Len(rs) : toServer'[Len(toServer) + i].seq = seq + i
<1> DEFINE new == [i \in 1..Len(rs) |-> [seq |-> seq + i, body |-> rs[i].body]]
           S == [seq : 2..(seq + Len(rs)), body : Body]
<1>1. /\ Len(rs) \in Nat
      /\ seq \in Nat \ {0}
      /\ toServer \in Seq([seq : 2..seq, body : Body])
  BY DEF TypeOK
<1>2. seq' = seq + Len(rs) /\ toServer' = toServer \o new
  BY DEF SendAll
<1>3. ASSUME NEW i \in 1..Len(rs)
      PROVE  [seq |-> seq + i, body |-> rs[i].body] \in S
  <2>1. rs[i] \in Request
    OBVIOUS
  <2> QED BY <2>1, <1>1 DEF Request
<1>4. new \in Seq(S) /\ Len(new) = Len(rs)
  BY <1>1, <1>3
<1>5. toServer \in Seq(S)
  <2>1. [seq : 2..seq, body : Body] \subseteq S
    BY <1>1
  <2> QED BY <2>1, <1>1, SeqMonotonic
<1>6. /\ toServer' \in Seq(S)
      /\ Len(toServer') = Len(toServer) + Len(rs)
      /\ \A i \in 1..(Len(toServer) + Len(rs)) :
           toServer'[i] = IF i <= Len(toServer) THEN toServer[i] ELSE new[i - Len(toServer)]
  <2> HIDE DEF new, S
  <2>1. /\ toServer \o new \in Seq(S)
        /\ Len(toServer \o new) = Len(toServer) + Len(new)
        /\ \A i \in 1..(Len(toServer) + Len(new)) :
             (toServer \o new)[i]
               = IF i <= Len(toServer) THEN toServer[i] ELSE new[i - Len(toServer)]
    BY <1>4, <1>5, ConcatProperties
  <2> QED BY <2>1, <1>2, <1>4
<1>7. ASSUME NEW i \in 1..Len(rs)
      PROVE  toServer'[Len(toServer) + i].seq = seq + i
  <2>1. Len(toServer) \in Nat
    BY <1>5
  <2> DEFINE n == Len(toServer)
             k == n + i
  <2>2. /\ k \in 1..(n + Len(rs))
        /\ ~ (k <= n)
        /\ k - n = i
    BY <2>1, <1>1
  <2>3. toServer'[k] = new[i]
    <3> HIDE DEF new, k
    <3> QED BY <2>2, <1>6
  <2> QED BY <2>3
<1>8. \A i \in 1..Len(toServer) : toServer'[i] = toServer[i]
  <2> SUFFICES ASSUME NEW i \in 1..Len(toServer)
               PROVE  toServer'[i] = toServer[i]
    OBVIOUS
  <2>1. Len(toServer) \in Nat
    BY <1>5
  <2>2. i \in 1..(Len(toServer) + Len(rs)) /\ i <= Len(toServer)
    BY <2>1, <1>1
  <2> HIDE DEF new
  <2> QED BY <2>2, <1>6
<1> QED BY <1>1, <1>2, <1>6, <1>7, <1>8

LEMMA SendingNumbers ==
  ASSUME TypeOK, NEW rs \in Seq(Request), SendAll(rs)
  PROVE  NumbersOf(toServer)' = NumbersOf(toServer) \cup (seq + 1)..seq'
<1> DEFINE n == Len(toServer)
<1>1. n \in Nat /\ seq \in Nat /\ Len(rs) \in Nat /\ seq' = seq + Len(rs)
  BY Sending DEF TypeOK
<1>2. Len(toServer') = n + Len(rs)
  BY Sending
<1>3. ASSUME NEW i \in 1..Len(toServer')
      PROVE  toServer'[i].seq \in NumbersOf(toServer) \cup (seq + 1)..seq'
  <2>1. CASE i <= n
    <3>1. i \in 1..n
      BY <2>1, <1>1
    <3>2. toServer'[i] = toServer[i]
      BY <3>1, Sending
    <3> QED BY <3>1, <3>2 DEF NumbersOf
  <2>2. CASE i > n
    <3>1. i - n \in 1..Len(rs) /\ n + (i - n) = i
      BY <2>2, <1>1, <1>2
    <3>2. toServer'[i].seq = seq + (i - n)
      BY <3>1, Sending
    <3> QED BY <3>1, <3>2, <1>1
  <2> QED BY <2>1, <2>2, <1>1
<1>4. ASSUME NEW x \in NumbersOf(toServer) \cup (seq + 1)..seq'
      PROVE  x \in NumbersOf(toServer)'
  <2>1. CASE x \in NumbersOf(toServer)
    <3>1. PICK i \in 1..n : x = toServer[i].seq
      BY <2>1 DEF NumbersOf
    <3>2. i \in 1..Len(toServer') /\ x = toServer'[i].seq
      BY <3>1, <1>1, <1>2, Sending
    <3> QED BY <3>2 DEF NumbersOf
  <2>2. CASE x \in (seq + 1)..seq'
    <3>1. x - seq \in 1..Len(rs) /\ seq + (x - seq) = x
      BY <2>2, <1>1
    <3>2. toServer'[n + (x - seq)].seq = x
      BY <3>1, Sending
    <3>3. n + (x - seq) \in 1..Len(toServer')
      BY <3>1, <1>1, <1>2
    <3> QED BY <3>2, <3>3 DEF NumbersOf
  <2> QED BY <2>1, <2>2
<1> QED BY <1>3, <1>4 DEF NumbersOf

(* What server_cb_add() enters.                                            *)
LEMMA Entering ==
  ASSUME TypeOK, NEW rs \in Seq(Request)
  PROVE  /\ Entries(rs) \subseteq [seq : (seq + 1)..(seq + Len(rs)),
                                   cb : Callback \cup {NoCallback}]
         /\ {c.seq : c \in Entries(rs)} = (seq + 1)..(seq + Len(rs))
         /\ \A c, d \in Entries(rs) : c.seq = d.seq => c = d
<1>1. seq \in Nat /\ Len(rs) \in Nat
  BY DEF TypeOK
<1>2. ASSUME NEW i \in 1..Len(rs)
      PROVE  rs[i].cb \in Callback \cup {NoCallback}
  <2>1. rs[i] \in Request
    OBVIOUS
  <2> QED BY <2>1 DEF Request
<1>3. Entries(rs) \subseteq [seq : (seq + 1)..(seq + Len(rs)),
                             cb : Callback \cup {NoCallback}]
  BY <1>1, <1>2 DEF Entries
<1>4. ASSUME NEW x \in (seq + 1)..(seq + Len(rs))
      PROVE  x \in {c.seq : c \in Entries(rs)}
  <2>1. x - seq \in 1..Len(rs) /\ seq + (x - seq) = x
    BY <1>1
  <2>2. [seq |-> seq + (x - seq), cb |-> rs[x - seq].cb] \in Entries(rs)
    BY <2>1 DEF Entries
  <2> QED BY <2>1, <2>2
<1>5. \A c, d \in Entries(rs) : c.seq = d.seq => c = d
  <2> SUFFICES ASSUME NEW i \in 1..Len(rs), NEW j \in 1..Len(rs), seq + i = seq + j
               PROVE  i = j
    BY DEF Entries
  <2> QED BY <1>1
<1>6. {c.seq : c \in Entries(rs)} \subseteq (seq + 1)..(seq + Len(rs))
  BY <1>3
<1> QED BY <1>3, <1>4, <1>5, <1>6

(* A step that sends rs and takes the entries M out of the table.          *)
LEMMA TableStep ==
  ASSUME IInv, NEW rs \in Seq(Request), SendAll(rs), NEW M \in SUBSET cbs,
         cbs' = (cbs \ M) \cup Entries(rs)
  PROVE  /\ cbs' \subseteq [seq : 2..seq', cb : Callback \cup {NoCallback}]
         /\ OneEntryPerNumber'
         /\ Open' = {c.seq : c \in cbs \ M} \cup (seq + 1)..seq'
<1>1. /\ TypeOK
      /\ seq \in Nat \ {0}
      /\ Len(rs) \in Nat
      /\ seq' = seq + Len(rs)
      /\ cbs \subseteq [seq : 2..seq, cb : Callback \cup {NoCallback}]
  BY Sending DEF IInv, TypeOK
<1>2. /\ Entries(rs) \subseteq [seq : (seq + 1)..seq', cb : Callback \cup {NoCallback}]
      /\ {c.seq : c \in Entries(rs)} = (seq + 1)..seq'
      /\ \A c, d \in Entries(rs) : c.seq = d.seq => c = d
  BY <1>1, Entering
<1>3. cbs' \subseteq [seq : 2..seq', cb : Callback \cup {NoCallback}]
  <2>1. /\ [seq : 2..seq, cb : Callback \cup {NoCallback}]
             \subseteq [seq : 2..seq', cb : Callback \cup {NoCallback}]
        /\ [seq : (seq + 1)..seq', cb : Callback \cup {NoCallback}]
             \subseteq [seq : 2..seq', cb : Callback \cup {NoCallback}]
    BY <1>1
  <2> QED BY <2>1, <1>1, <1>2
<1>4. OneEntryPerNumber'
  <2> SUFFICES ASSUME NEW c \in cbs', NEW d \in cbs', c.seq = d.seq
               PROVE  c = d
    BY DEF OneEntryPerNumber
  <2>1. \A e \in cbs : e.seq \in 2..seq
    BY <1>1
  <2>2. \A e \in Entries(rs) : e.seq \in (seq + 1)..seq'
    BY <1>2
  <2>3. CASE c \in cbs /\ d \in cbs
    BY <2>3 DEF IInv, OneEntryPerNumber
  <2>4. CASE c \in Entries(rs) /\ d \in Entries(rs)
    BY <2>4, <1>2
  <2>5. CASE \/ c \in cbs /\ d \in Entries(rs)
             \/ d \in cbs /\ c \in Entries(rs)
    BY <2>1, <2>2, <2>5, <1>1
  <2> QED BY <2>3, <2>4, <2>5
<1>5. Open' = {c.seq : c \in cbs \ M} \cup (seq + 1)..seq'
  BY <1>2 DEF Open
<1> QED BY <1>3, <1>4, <1>5

(* Requests stay in order, behind every answer that has begun.             *)
LEMMA RequestsStep ==
  ASSUME IInv, NEW rs \in Seq(Request), SendAll(rs)
  PROVE  /\ \A i, j \in 1..Len(toServer') :
               i < j => toServer'[i].seq < toServer'[j].seq
         /\ \A i \in Firsts, j \in 1..Len(toServer') :
               fromServer[i].seq < toServer'[j].seq
<1> DEFINE n == Len(toServer)
<1>1. /\ TypeOK
      /\ seq \in Nat \ {0}
      /\ n \in Nat
      /\ Len(rs) \in Nat
      /\ Len(toServer') = n + Len(rs)
  BY Sending DEF IInv, TypeOK
<1>2. ASSUME NEW i \in 1..n
      PROVE  /\ toServer'[i].seq \in 2..seq
             /\ toServer'[i] = toServer[i]
  <2>1. toServer[i] \in [seq : 2..seq, body : Body]
    <3>1. toServer \in Seq([seq : 2..seq, body : Body])
      BY <1>1 DEF TypeOK
    <3> QED BY <3>1, ElementOfSeq
  <2>2. toServer'[i] = toServer[i]
    BY <1>1, Sending
  <2> QED BY <2>1, <2>2
<1>3. ASSUME NEW i \in 1..Len(toServer'), ~(i <= n)
      PROVE  toServer'[i].seq = seq + (i - n)
  <2>1. i - n \in 1..Len(rs) /\ n + (i - n) = i
    BY <1>1, <1>3
  <2> QED BY <2>1, <1>1, Sending
<1>4. ASSUME NEW i \in 1..Len(toServer'), NEW j \in 1..Len(toServer'), i < j
      PROVE  toServer'[i].seq < toServer'[j].seq
  <2>1. CASE j <= n
    <3>1. i \in 1..n /\ j \in 1..n
      BY <2>1, <1>1, <1>4
    <3> QED BY <3>1, <1>2, <1>4 DEF IInv, WireInOrder
  <2>2. CASE i <= n /\ ~(j <= n)
    BY <2>2, <1>1, <1>2, <1>3
  <2>3. CASE ~(i <= n)
    BY <2>3, <1>1, <1>3, <1>4
  <2> QED BY <2>1, <2>2, <2>3
<1>5. ASSUME NEW i \in Firsts, NEW j \in 1..Len(toServer')
      PROVE  fromServer[i].seq < toServer'[j].seq
  <2>1. fromServer[i].seq \in 0..seq
    BY DEF IInv, NumbersUsed, Firsts
  <2>2. CASE j <= n
    <3>1. j \in 1..n
      BY <2>2, <1>1
    <3> QED BY <3>1, <1>2 DEF IInv, WireInOrder
  <2>3. CASE ~(j <= n)
    BY <2>1, <2>3, <1>1, <1>3
  <2> QED BY <2>2, <2>3
<1> QED BY <1>4, <1>5

(* A step that sends rs and handles no frame.                              *)
LEMMA SendsInv ==
  ASSUME IInv, NEW rs \in Seq(Request), SendAll(rs),
         cbs' = cbs \cup Entries(rs),
         conncb' \in BOOLEAN,
         UNCHANGED <<fromServer, pushed>>,
         events' \in Seq([seq : Nat, body : Reply]),
         \A i \in 1..Len(events') :
           \/ events'[i].seq = 0
           \/ \E j \in 1..Len(events) : events'[i].seq = events[j].seq
  PROVE  IInv'
<1>1. /\ TypeOK
      /\ seq \in Nat \ {0}
      /\ Len(rs) \in Nat
      /\ seq' = seq + Len(rs)
  BY Sending DEF IInv, TypeOK
<1>2. cbs' = (cbs \ {}) \cup Entries(rs)
  OBVIOUS
<1>3. /\ cbs' \subseteq [seq : 2..seq', cb : Callback \cup {NoCallback}]
      /\ OneEntryPerNumber'
      /\ Open' = Open \cup (seq + 1)..seq'
  <2>1. Open' = {c.seq : c \in cbs \ {}} \cup (seq + 1)..seq'
    BY <1>2, TableStep
  <2>2. {c.seq : c \in cbs \ {}} = Open
    BY DEF Open
  <2> QED BY <2>1, <2>2, <1>2, TableStep
<1>4. TypeOK'
  <2>1. seq' \in Nat \ {0} /\ toServer' \in Seq([seq : 2..seq', body : Body])
    BY <1>1, Sending
  <2> QED BY <2>1, <1>1, <1>3 DEF TypeOK
<1>5. Firsts' = Firsts /\ FirstNumbers' = FirstNumbers
  BY DEF Firsts, FirstNumbers
<1>6. TableMatchesWire'
  <2>1. NumbersOf(toServer)' = NumbersOf(toServer) \cup (seq + 1)..seq'
    BY <1>1, SendingNumbers
  <2> QED BY <2>1, <1>3, <1>5 DEF TableMatchesWire, IInv
<1>7. NumbersUsed'
  <2>1. ASSUME NEW i \in 1..Len(fromServer)
        PROVE  fromServer[i].seq \in 0..seq'
    BY <1>1 DEF IInv, NumbersUsed
  <2>2. ASSUME NEW i \in 1..Len(events')
        PROVE  events'[i].seq \in 0..seq'
    <3>1. \A j \in 1..Len(events) : events[j].seq \in 0..seq'
      BY <1>1 DEF IInv, NumbersUsed
    <3>2. CASE events'[i].seq = 0
      BY <3>2, <1>1
    <3>3. CASE events'[i].seq # 0
      <4>1. PICK j \in 1..Len(events) : events'[i].seq = events[j].seq
        BY <3>3
      <4> QED BY <4>1, <3>1
    <3> QED BY <3>2, <3>3
  <2> QED BY <2>1, <2>2, <1>5 DEF IInv, NumbersUsed
<1>8. EventAfterCallback'
  <2> SUFFICES ASSUME NEW i \in 1..Len(events'), events'[i].seq # 0
               PROVE  events'[i].seq \notin Open'
    BY DEF EventAfterCallback
  <2>1. PICK j \in 1..Len(events) : events'[i].seq = events[j].seq
    OBVIOUS
  <2>2. events[j].seq \notin Open /\ events[j].seq \in 0..seq
    BY <2>1 DEF IInv, EventAfterCallback, NumbersUsed
  <2>3. events[j].seq \notin (seq + 1)..seq'
    BY ONLY <2>2, <1>1
  <2> QED BY ONLY <2>1, <2>2, <2>3, <1>3
<1>9. WireInOrder'
  BY <1>5, RequestsStep DEF WireInOrder, IInv
<1>10. RestBehindFirst'
  <2> SUFFICES ASSUME NEW j \in (1..Len(fromServer)) \ Firsts, fromServer[j].seq \in Open'
               PROVE  \E i \in Firsts : i < j /\ fromServer[i].seq = fromServer[j].seq
    BY <1>5 DEF RestBehindFirst
  <2>1. fromServer[j].seq \in 0..seq
    BY DEF IInv, NumbersUsed
  <2>2. fromServer[j].seq \in Open
    BY <2>1, <1>1, <1>3
  <2> QED BY <2>2 DEF IInv, RestBehindFirst
<1> QED BY <1>3, <1>4, <1>6, <1>7, <1>8, <1>9, <1>10 DEF IInv

(* Events stay typed and numbered when own events are queued behind them   *)
(* and the oldest ones are gone.                                           *)
LEMMA QueueStep ==
  ASSUME TypeOK, NEW rest \in {events, Tail(events)}, NEW es \in Seq(OwnEvent),
         rest = events \/ events # <<>>
  PROVE  /\ rest \o es \in Seq([seq : Nat, body : Reply])
         /\ \A i \in 1..Len(rest \o es) :
              \/ (rest \o es)[i].seq = 0
              \/ \E j \in 1..Len(events) : (rest \o es)[i].seq = events[j].seq
<1> DEFINE E == [seq : Nat, body : Reply]
<1>1. events \in Seq(E)
  BY DEF TypeOK
<1>2. es \in Seq(E)
  <2>1. OwnEvent \subseteq E
    BY DEF OwnEvent
  <2> QED BY <2>1, SeqMonotonic
<1>3. /\ rest \in Seq(E)
      /\ \A i \in 1..Len(rest) : \E j \in 1..Len(events) : rest[i] = events[j]
  <2>1. CASE rest = events
    BY <2>1, <1>1
  <2>2. CASE rest = Tail(events) /\ events # <<>>
    <3>1. /\ Tail(events) \in Seq(E)
          /\ Len(Tail(events)) = Len(events) - 1
          /\ \A i \in 1..Len(Tail(events)) : Tail(events)[i] = events[i + 1]
      BY <1>1, <2>2, HeadTailProperties
    <3>2. Len(events) \in Nat
      BY <1>1
    <3>3. \A i \in 1..Len(Tail(events)) : i + 1 \in 1..Len(events)
      BY <3>1, <3>2
    <3> QED BY <2>2, <3>1, <3>3
  <2> QED BY <2>1, <2>2
<1>4. /\ rest \o es \in Seq(E)
      /\ Len(rest \o es) = Len(rest) + Len(es)
      /\ \A i \in 1..(Len(rest) + Len(es)) :
           (rest \o es)[i] = IF i <= Len(rest) THEN rest[i] ELSE es[i - Len(rest)]
  BY <1>2, <1>3, ConcatProperties
<1>5. ASSUME NEW i \in 1..Len(rest \o es)
      PROVE  \/ (rest \o es)[i].seq = 0
             \/ \E j \in 1..Len(events) : (rest \o es)[i].seq = events[j].seq
  <2>1. Len(rest) \in Nat /\ Len(es) \in Nat
    BY <1>2, <1>3
  <2>2. CASE i <= Len(rest)
    <3>1. i \in 1..Len(rest) /\ (rest \o es)[i] = rest[i]
      BY <2>1, <2>2, <1>4
    <3> QED BY <3>1, <1>3
  <2>3. CASE ~(i <= Len(rest))
    <3>1. i - Len(rest) \in 1..Len(es) /\ (rest \o es)[i] = es[i - Len(rest)]
      BY <2>1, <2>3, <1>4
    <3>2. es[i - Len(rest)] \in OwnEvent
      BY <3>1
    <3> QED BY <3>1, <3>2 DEF OwnEvent
  <2> QED BY <2>2, <2>3
<1> QED BY <1>4, <1>5

LEMMA ServerAddInv ==
  ASSUME IInv, NEW rs \in Seq(Request), ServerAdd(rs)
  PROVE  IInv'
<1>1. /\ SendAll(rs)
      /\ cbs' = cbs \cup Entries(rs)
      /\ conncb' \in BOOLEAN
      /\ UNCHANGED <<fromServer, pushed>>
      /\ events' = events
  BY DEF ServerAdd
<1>2. events \in Seq([seq : Nat, body : Reply])
  BY DEF IInv, TypeOK
<1> QED BY <1>1, <1>2, SendsInv

LEMMA ClientSendsInv ==
  ASSUME IInv, NEW rs \in Seq(Request), ClientSends(rs)
  PROVE  IInv'
<1>1. /\ SendAll(rs)
      /\ cbs' = cbs \cup Entries(rs)
      /\ conncb' = conncb
      /\ UNCHANGED <<fromServer, pushed>>
      /\ events' = events
  BY DEF ClientSends
<1>2. events \in Seq([seq : Nat, body : Reply]) /\ conncb \in BOOLEAN
  BY DEF IInv, TypeOK
<1> QED BY <1>1, <1>2, SendsInv

LEMMA HandleEventInv ==
  ASSUME IInv, NEW rs \in Seq(Request), NEW es \in Seq(OwnEvent), HandleEvent(rs, es)
  PROVE  IInv'
<1>1. /\ SendAll(rs)
      /\ cbs' = cbs \cup Entries(rs)
      /\ conncb' = conncb
      /\ UNCHANGED <<fromServer, pushed>>
      /\ events # <<>>
      /\ events' = Tail(events) \o es
  BY DEF HandleEvent
<1>2. TypeOK /\ conncb \in BOOLEAN
  BY DEF IInv, TypeOK
<1>3. /\ events' \in Seq([seq : Nat, body : Reply])
      /\ \A i \in 1..Len(events') :
           \/ events'[i].seq = 0
           \/ \E j \in 1..Len(events) : events'[i].seq = events[j].seq
  BY <1>1, <1>2, QueueStep
<1> QED BY <1>1, <1>2, <1>3, SendsInv

(* The frame that is handled: an entry waits for it only if it begins an   *)
(* answer, and then it is the oldest entry.                                *)
LEMMA OldestFrame ==
  ASSUME IInv, fromServer # <<>>
  PROVE  /\ Len(fromServer) \in Nat \ {0}
         /\ Head(fromServer) = fromServer[1]
         /\ Head(fromServer) \in Frame
         /\ Head(fromServer).seq \in 0..seq
         /\ Head(fromServer).seq \in Open => 1 \in Firsts
         /\ 1 \in Firsts => /\ Head(fromServer).seq \in Open
                           /\ \A i \in Firsts :
                                i # 1 => Head(fromServer).seq < fromServer[i].seq
         /\ Head(fromServer).seq \notin NumbersOf(toServer)
         /\ \A x \in Open : 1 \in Firsts => Head(fromServer).seq <= x
<1> DEFINE f == Head(fromServer)
<1>1. /\ fromServer \in Seq(Frame)
      /\ seq \in Nat
  BY DEF IInv, TypeOK
<1>2. /\ Len(fromServer) \in Nat \ {0}
      /\ f = fromServer[1]
      /\ f \in Frame
  BY <1>1
<1>3. f.seq \in 0..seq
  BY <1>2 DEF IInv, NumbersUsed
<1>4. f.seq \in Open => 1 \in Firsts
  <2> SUFFICES ASSUME f.seq \in Open, 1 \notin Firsts PROVE FALSE
    OBVIOUS
  <2>1. PICK i \in Firsts : i < 1
    BY <1>2 DEF IInv, RestBehindFirst
  <2> QED BY <2>1, <1>2 DEF Firsts
<1>5. Open = NumbersOf(toServer) \cup FirstNumbers
  BY DEF IInv, TableMatchesWire
<1>6. ASSUME 1 \in Firsts
      PROVE  /\ f.seq \in Open
             /\ \A i \in Firsts : i # 1 => f.seq < fromServer[i].seq
             /\ \A j \in 1..Len(toServer) : f.seq < toServer[j].seq
  <2>1. f.seq \in FirstNumbers
    BY <1>2, <1>6 DEF FirstNumbers
  <2>2. \A i \in Firsts : i # 1 => 1 < i
    BY <1>2 DEF Firsts
  <2> QED BY <2>1, <2>2, <1>2, <1>5, <1>6 DEF IInv, WireInOrder
<1>7. f.seq \notin NumbersOf(toServer)
  <2>1. CASE 1 \in Firsts
    BY <2>1, <1>3, <1>6 DEF NumbersOf
  <2>2. CASE 1 \notin Firsts
    BY <2>2, <1>4, <1>5
  <2> QED BY <2>1, <2>2
<1>8. ASSUME NEW x \in Open, 1 \in Firsts
      PROVE  f.seq <= x
  <2>1. CASE x \in NumbersOf(toServer)
    <3>1. PICK j \in 1..Len(toServer) : x = toServer[j].seq
      BY <2>1 DEF NumbersOf
    <3>2. x \in 2..seq
      <4>1. toServer \in Seq([seq : 2..seq, body : Body])
        BY DEF IInv, TypeOK
      <4>2. toServer[j] \in [seq : 2..seq, body : Body]
        BY <4>1, ElementOfSeq
      <4> QED BY <3>1, <4>2
    <3> QED BY <3>1, <3>2, <1>3, <1>6, <1>8
  <2>2. CASE x \in FirstNumbers
    <3>1. PICK i \in Firsts : x = fromServer[i].seq
      BY <2>2 DEF FirstNumbers
    <3>2. x \in 0..seq
      BY <3>1 DEF Firsts, IInv, NumbersUsed
    <3>3. CASE i = 1
      BY <3>1, <3>3, <1>2, <1>3
    <3>4. CASE i # 1
      BY <3>1, <3>2, <3>4, <1>3, <1>6, <1>8
    <3> QED BY <3>3, <3>4
  <2> QED BY <2>1, <2>2, <1>5, <1>8
<1> QED BY <1>2, <1>3, <1>4, <1>6, <1>7, <1>8

(* Taking the oldest frame away.                                           *)
LEMMA TakeFrame ==
  ASSUME IInv, fromServer # <<>>, fromServer' = Tail(fromServer)
  PROVE  /\ fromServer' \in Seq(Frame)
         /\ Len(fromServer') = Len(fromServer) - 1
         /\ \A i \in 1..Len(fromServer') :
              /\ i + 1 \in 1..Len(fromServer)
              /\ fromServer'[i] = fromServer[i + 1]
              /\ i \in Firsts' <=> i + 1 \in Firsts
         /\ FirstNumbers' = FirstNumbers \ {Head(fromServer).seq}
<1> DEFINE f == Head(fromServer)
           n == Len(fromServer)
<1>1. fromServer \in Seq(Frame) /\ n \in Nat \ {0}
  BY OldestFrame DEF IInv, TypeOK
<1>2. /\ fromServer' \in Seq(Frame)
      /\ Len(fromServer') = n - 1
      /\ \A i \in 1..Len(fromServer') : fromServer'[i] = fromServer[i + 1]
  BY <1>1, HeadTailProperties
<1>3. ASSUME NEW i \in 1..Len(fromServer')
      PROVE  /\ i + 1 \in 1..n
             /\ fromServer'[i] = fromServer[i + 1]
             /\ i \in Firsts' <=> i + 1 \in Firsts
  <2>1. i + 1 \in 1..n
    BY <1>1, <1>2
  <2> QED BY <2>1, <1>2 DEF Firsts
<1>4. ASSUME NEW i \in Firsts'
      PROVE  fromServer'[i].seq \in FirstNumbers \ {f.seq}
  <2>1. i \in 1..Len(fromServer') /\ i + 1 \in Firsts /\ i + 1 # 1
    <3>1. i \in 1..Len(fromServer')
      BY DEF Firsts
    <3> QED BY <3>1, <1>2, <1>3, <1>1
  <2>2. fromServer'[i].seq = fromServer[i + 1].seq
    BY <2>1, <1>3
  <2>3. fromServer[i + 1].seq \in FirstNumbers
    BY <2>1 DEF FirstNumbers
  <2>4. fromServer[i + 1].seq # f.seq
    <3>1. CASE 1 \in Firsts
      <4>1. f.seq < fromServer[i + 1].seq
        BY <3>1, <2>1, OldestFrame
      <4>2. f.seq \in Nat /\ fromServer[i + 1].seq \in Nat
        <5>1. f \in Frame /\ fromServer[i + 1] \in Frame
          BY <1>1, <2>1, ElementOfSeq, OldestFrame DEF Firsts
        <5> QED BY ONLY <5>1 DEF Frame
      <4> QED BY ONLY <4>1, <4>2
    <3>2. CASE 1 \notin Firsts
      <4>1. f.seq \notin Open
        BY <3>2, OldestFrame
      <4> QED BY <4>1, <2>3 DEF IInv, TableMatchesWire
    <3> QED BY <3>1, <3>2
  <2> QED BY <2>2, <2>3, <2>4
<1>5. ASSUME NEW x \in FirstNumbers, x # f.seq
      PROVE  x \in FirstNumbers'
  <2>1. PICK k \in Firsts : x = fromServer[k].seq
    BY DEF FirstNumbers
  <2>2. k \in 1..n /\ k # 1
    BY <2>1, <1>5, OldestFrame DEF Firsts
  <2>3. k - 1 \in 1..Len(fromServer') /\ (k - 1) + 1 = k
    BY <2>2, <1>1, <1>2
  <2>4. k - 1 \in Firsts' /\ fromServer'[k - 1].seq = x
    BY <2>1, <2>3, <1>3
  <2> QED BY <2>4 DEF FirstNumbers
<1>6. FirstNumbers' = FirstNumbers \ {f.seq}
  BY <1>4, <1>5 DEF FirstNumbers
<1> QED BY <1>2, <1>3, <1>6

(* The events after a frame: those before, the callbacks' own, and the     *)
(* frame itself.                                                           *)
LEMMA PostStep ==
  ASSUME TypeOK, NEW f \in Frame, NEW es \in Seq(OwnEvent),
         events' = events \o es \o Posted(f)
  PROVE  /\ events' \in Seq([seq : Nat, body : Reply])
         /\ \A i \in 1..Len(events') :
              \/ events'[i].seq = 0
              \/ events'[i].seq = f.seq
              \/ \E j \in 1..Len(events) : events'[i].seq = events[j].seq
<1> DEFINE E == [seq : Nat, body : Reply]
           q == events \o es
           p == Posted(f)
<1>1. /\ q \in Seq(E)
      /\ \A i \in 1..Len(q) : \/ q[i].seq = 0
                              \/ \E j \in 1..Len(events) : q[i].seq = events[j].seq
  BY QueueStep
<1>2. p \in Seq(E) /\ \A i \in 1..Len(p) : p[i].seq = f.seq
  <2>1. CASE p = <<>>
    BY <2>1
  <2>2. CASE p = <<[seq |-> f.seq, body |-> f.body]>>
    <3>1. [seq |-> f.seq, body |-> f.body] \in E
      BY DEF Frame
    <3> QED BY <2>2, <3>1
  <2> QED BY <2>1, <2>2 DEF Posted
<1> HIDE DEF q, p
<1>3. events' = q \o p
  BY DEF q, p
<1>4. /\ q \o p \in Seq(E)
      /\ Len(q \o p) = Len(q) + Len(p)
      /\ \A i \in 1..(Len(q) + Len(p)) :
           (q \o p)[i] = IF i <= Len(q) THEN q[i] ELSE p[i - Len(q)]
  BY <1>1, <1>2, ConcatProperties
<1>5. ASSUME NEW i \in 1..Len(q \o p)
      PROVE  \/ (q \o p)[i].seq = 0
             \/ (q \o p)[i].seq = f.seq
             \/ \E j \in 1..Len(events) : (q \o p)[i].seq = events[j].seq
  <2>1. Len(q) \in Nat /\ Len(p) \in Nat
    BY <1>1, <1>2
  <2>2. CASE i <= Len(q)
    <3>1. i \in 1..Len(q) /\ (q \o p)[i] = q[i]
      BY <2>1, <2>2, <1>4
    <3> QED BY <3>1, <1>1
  <2>3. CASE ~(i <= Len(q))
    <3>1. i - Len(q) \in 1..Len(p) /\ (q \o p)[i] = p[i - Len(q)]
      BY <2>1, <2>3, <1>4
    <3> QED BY <3>1, <1>2
  <2> QED BY <2>2, <2>3
<1> QED BY <1>3, <1>4, <1>5

(* Handling a frame: the entries under its number go, new ones come.       *)
LEMMA HandlePacketOpen ==
  ASSUME IInv, NEW rs \in Seq(Request), NEW es, HandlePacket(rs, es)
  PROVE  /\ cbs' \subseteq [seq : 2..seq', cb : Callback \cup {NoCallback}]
         /\ OneEntryPerNumber'
         /\ Open' = (Open \ {Head(fromServer).seq}) \cup (seq + 1)..seq'
<1> DEFINE f == Head(fromServer)
<1>1. /\ SendAll(rs)
      /\ cbs' = (cbs \ Matching(f)) \cup Entries(rs)
      /\ fromServer # <<>>
  BY DEF HandlePacket
<1>2. Matching(f) \in SUBSET cbs
  BY DEF Matching
<1>3. \A c \in cbs : c.seq # 0
  BY DEF IInv, TypeOK
<1>4. {c.seq : c \in cbs \ Matching(f)} = Open \ {f.seq}
  <2>1. CASE f.seq = 0
    <3>1. Matching(f) = {}
      BY <2>1 DEF Matching
    <3>2. {c.seq : c \in cbs \ {}} = Open
      BY DEF Open
    <3>3. 0 \notin Open
      BY <1>3 DEF Open
    <3> QED BY <3>1, <3>2, <3>3, <2>1
  <2>2. CASE f.seq # 0
    <3>1. Matching(f) = {c \in cbs : c.seq = f.seq}
      BY <2>2 DEF Matching
    <3> QED BY <3>1 DEF Open
  <2> QED BY <2>1, <2>2
<1> QED BY <1>1, <1>2, <1>4, TableStep

LEMMA HandlePacketInv ==
  ASSUME IInv, NEW rs \in Seq(Request), NEW es \in Seq(OwnEvent), HandlePacket(rs, es)
  PROVE  IInv'
<1> DEFINE f == Head(fromServer)
<1>1. /\ fromServer # <<>>
      /\ SendAll(rs)
      /\ events' = events \o es \o Posted(f)
      /\ fromServer' = Tail(fromServer)
      /\ UNCHANGED <<conncb, pushed>>
  BY DEF HandlePacket
<1>2. /\ TypeOK
      /\ seq \in Nat \ {0}
      /\ Len(rs) \in Nat
      /\ seq' = seq + Len(rs)
  BY <1>1, Sending DEF IInv, TypeOK
<1>3. f \in Frame /\ f.seq \in 0..seq
  BY <1>1, OldestFrame
<1>4. /\ cbs' \subseteq [seq : 2..seq', cb : Callback \cup {NoCallback}]
      /\ OneEntryPerNumber'
      /\ Open' = (Open \ {f.seq}) \cup (seq + 1)..seq'
  BY HandlePacketOpen
<1>5. /\ fromServer' \in Seq(Frame)
      /\ \A i \in 1..Len(fromServer') :
           /\ i + 1 \in 1..Len(fromServer)
           /\ fromServer'[i] = fromServer[i + 1]
           /\ i \in Firsts' <=> i + 1 \in Firsts
      /\ FirstNumbers' = FirstNumbers \ {f.seq}
  BY <1>1, TakeFrame
<1>6. /\ events' \in Seq([seq : Nat, body : Reply])
      /\ \A i \in 1..Len(events') :
           \/ events'[i].seq = 0
           \/ events'[i].seq = f.seq
           \/ \E j \in 1..Len(events) : events'[i].seq = events[j].seq
  BY <1>1, <1>2, <1>3, PostStep
<1>7. TypeOK'
  <2>1. seq' \in Nat \ {0} /\ toServer' \in Seq([seq : 2..seq', body : Body])
    BY <1>1, <1>2, Sending
  <2>2. conncb' \in BOOLEAN /\ pushed' \in Nat
    BY <1>1 DEF IInv, TypeOK
  <2> QED BY <2>1, <2>2, <1>4, <1>5, <1>6 DEF TypeOK
<1>8. TableMatchesWire'
  <2>1. NumbersOf(toServer)' = NumbersOf(toServer) \cup (seq + 1)..seq'
    BY <1>1, <1>2, SendingNumbers
  <2>2. f.seq \notin NumbersOf(toServer)
    BY <1>1, OldestFrame
  <2>3. Open = NumbersOf(toServer) \cup FirstNumbers
    BY DEF IInv, TableMatchesWire
  <2> QED BY <2>1, <2>2, <2>3, <1>4, <1>5 DEF TableMatchesWire
<1>9. \A i \in Firsts' : i \in 1..Len(fromServer') /\ i + 1 \in Firsts
  <2>1. Firsts' \subseteq 1..Len(fromServer')
    BY DEF Firsts
  <2> QED BY <2>1, <1>5
<1>10. NumbersUsed'
  <2>1. ASSUME NEW i \in 1..Len(fromServer')
        PROVE  fromServer'[i].seq \in 0..seq'
    <3>1. fromServer[i + 1].seq \in 0..seq
      BY <1>5 DEF IInv, NumbersUsed
    <3> QED BY <3>1, <1>2, <1>5
  <2>2. ASSUME NEW i \in Firsts'
        PROVE  fromServer'[i].seq # 0
    BY <1>5, <1>9 DEF IInv, NumbersUsed
  <2>3. ASSUME NEW i \in 1..Len(events')
        PROVE  events'[i].seq \in 0..seq'
    <3>1. \A j \in 1..Len(events) : events[j].seq \in 0..seq
      BY DEF IInv, NumbersUsed
    <3>2. events'[i].seq \in 0..seq
      <4>1. CASE events'[i].seq = 0
        BY <4>1, <1>2
      <4>2. CASE events'[i].seq = f.seq
        BY <4>2, <1>3
      <4>3. CASE \E j \in 1..Len(events) : events'[i].seq = events[j].seq
        BY <4>3, <3>1
      <4> QED BY <4>1, <4>2, <4>3, <1>6
    <3> QED BY <3>2, <1>2
  <2> QED BY <2>1, <2>2, <2>3 DEF NumbersUsed
<1>11. EventAfterCallback'
  <2> SUFFICES ASSUME NEW i \in 1..Len(events'), events'[i].seq # 0
               PROVE  events'[i].seq \notin Open'
    BY DEF EventAfterCallback
  <2>1. CASE events'[i].seq = f.seq
    BY <2>1, <1>2, <1>3, <1>4
  <2>2. CASE events'[i].seq # f.seq
    <3>1. PICK j \in 1..Len(events) : events'[i].seq = events[j].seq
      BY <2>2, <1>6
    <3>2. events[j].seq \notin Open /\ events[j].seq \in 0..seq
      BY <3>1 DEF IInv, EventAfterCallback, NumbersUsed
    <3> QED BY <3>1, <3>2, <1>2, <1>4
  <2> QED BY <2>1, <2>2
<1>12. WireInOrder'
  <2>1. ASSUME NEW i \in Firsts', NEW j \in Firsts', i < j
        PROVE  fromServer'[i].seq < fromServer'[j].seq
    <3>1. /\ i + 1 \in Firsts /\ fromServer'[i] = fromServer[i + 1] /\ i \in Nat
          /\ j + 1 \in Firsts /\ fromServer'[j] = fromServer[j + 1] /\ j \in Nat
      BY <1>5, <1>9
    <3>2. i + 1 < j + 1
      BY <3>1, <2>1
    <3> QED BY <3>1, <3>2 DEF IInv, WireInOrder
  <2>2. ASSUME NEW i \in Firsts', NEW j \in 1..Len(toServer')
        PROVE  fromServer'[i].seq < toServer'[j].seq
    <3>1. i + 1 \in Firsts /\ fromServer'[i] = fromServer[i + 1]
      BY <1>5, <1>9
    <3> QED BY <3>1, <1>1, RequestsStep
  <2>3. \A i, j \in 1..Len(toServer') : i < j => toServer'[i].seq < toServer'[j].seq
    BY <1>1, RequestsStep
  <2> QED BY <2>1, <2>2, <2>3 DEF WireInOrder
<1>13. RestBehindFirst'
  <2> SUFFICES ASSUME NEW j \in (1..Len(fromServer')) \ Firsts', fromServer'[j].seq \in Open'
               PROVE  \E i \in Firsts' : i < j /\ fromServer'[i].seq = fromServer'[j].seq
    BY DEF RestBehindFirst
  <2>1. j + 1 \in (1..Len(fromServer)) \ Firsts /\ fromServer'[j] = fromServer[j + 1]
    BY <1>5
  <2>2. fromServer[j + 1].seq \in 0..seq
    BY <2>1 DEF IInv, NumbersUsed
  <2>3. fromServer[j + 1].seq \in Open /\ fromServer[j + 1].seq # f.seq
    BY <2>1, <2>2, <1>2, <1>3, <1>4
  <2>4. PICK k \in Firsts : k < j + 1 /\ fromServer[k].seq = fromServer[j + 1].seq
    BY <2>1, <2>3 DEF IInv, RestBehindFirst
  <2>5. k # 1 /\ k \in 1..Len(fromServer)
    BY <2>3, <2>4, <1>1, OldestFrame DEF Firsts
  <2>6. k - 1 \in 1..Len(fromServer') /\ (k - 1) + 1 = k /\ k - 1 < j
    <3>1. Len(fromServer') = Len(fromServer) - 1 /\ Len(fromServer) \in Nat
      BY <1>1, TakeFrame, OldestFrame
    <3> QED BY <3>1, <2>4, <2>5
  <2>7. k - 1 \in Firsts' /\ fromServer'[k - 1].seq = fromServer'[j].seq
    BY <2>1, <2>4, <2>6, <1>5
  <2> QED BY <2>6, <2>7
<1> QED BY <1>4, <1>7, <1>8, <1>10, <1>11, <1>12, <1>13 DEF IInv

(* The server answers its oldest request, whose number is behind those of  *)
(* all answers that have begun and before those of all other requests.     *)
LEMMA AnswerInv ==
  ASSUME IInv, NEW bodies \in Seq(Reply) \ {<<>>}, Answer(bodies)
  PROVE  IInv'
<1> DEFINE s == Head(toServer).seq
           m == Len(fromServer)
           new == [i \in 1..Len(bodies) |->
                     [seq |-> s, body |-> bodies[i], first |-> i = 1]]
           Q == [seq : 2..seq, body : Body]
<1>1. /\ toServer # <<>>
      /\ toServer' = Tail(toServer)
      /\ fromServer' = fromServer \o new
      /\ UNCHANGED <<conncb, seq, cbs, events, pushed>>
  BY DEF Answer
<1>2. /\ toServer \in Seq(Q)
      /\ fromServer \in Seq(Frame)
      /\ seq \in Nat \ {0}
      /\ m \in Nat
      /\ Len(toServer) \in Nat
  BY DEF IInv, TypeOK
<1>3. /\ Tail(toServer) \in Seq(Q)
      /\ Len(Tail(toServer)) = Len(toServer) - 1
      /\ \A i \in 1..Len(Tail(toServer)) : Tail(toServer)[i] = toServer[i + 1]
      /\ Head(toServer) \in Q
      /\ Head(toServer) = toServer[1]
      /\ 1 \in 1..Len(toServer)
  <2> HIDE DEF Q
  <2>1. toServer \in Seq(Q) /\ toServer # <<>>
    BY <1>1, <1>2
  <2>2. /\ Tail(toServer) \in Seq(Q)
        /\ Len(Tail(toServer)) = Len(toServer) - 1
        /\ \A i \in 1..Len(Tail(toServer)) : Tail(toServer)[i] = toServer[i + 1]
        /\ Head(toServer) \in Q
    BY <2>1, HeadTailProperties
  <2>3. Head(toServer) = toServer[1] /\ 1 \in 1..Len(toServer)
    BY <2>1
  <2> QED BY <2>2, <2>3
<1>4. s \in 2..seq
  BY <1>3
<1>5. /\ new \in Seq(Frame)
      /\ Len(new) = Len(bodies)
      /\ Len(bodies) \in Nat \ {0}
      /\ \A i \in 1..Len(new) : new[i].seq = s /\ (new[i].first <=> i = 1)
  <2>1. Len(bodies) \in Nat \ {0}
    BY EmptySeq
  <2>2. ASSUME NEW i \in 1..Len(bodies)
        PROVE  [seq |-> s, body |-> bodies[i], first |-> i = 1] \in Frame
    <3>1. bodies[i] \in Reply /\ s \in Nat /\ (i = 1) \in BOOLEAN
      BY <1>2, <1>4
    <3> QED BY <3>1 DEF Frame
  <2>3. new \in [1..Len(bodies) -> Frame]
    BY <2>2
  <2>4. new \in Seq(Frame) /\ Len(new) = Len(bodies)
    <3> HIDE DEF new
    <3> QED BY <2>1, <2>3
  <2>5. ASSUME NEW i \in 1..Len(bodies)
        PROVE  new[i].seq = s /\ (new[i].first <=> i = 1)
    <3>1. new[i] = [seq |-> s, body |-> bodies[i], first |-> i = 1]
      OBVIOUS
    <3> HIDE DEF new
    <3>2. new[i].seq = s
      BY <3>1
    <3>3. CASE i = 1
      <4>1. (i = 1) = TRUE
        BY <3>3
      <4>2. new[i] = [seq |-> s, body |-> bodies[i], first |-> TRUE]
        BY <3>1, <4>1, Zenon
      <4> QED BY <3>2, <3>3, <4>2
    <3>4. CASE i # 1
      <4>1. (i = 1) = FALSE
        BY <3>4
      <4>2. new[i] = [seq |-> s, body |-> bodies[i], first |-> FALSE]
        BY <3>1, <4>1, Zenon
      <4> QED BY <3>2, <3>4, <4>2
    <3> QED BY <3>3, <3>4
  <2> HIDE DEF new
  <2> QED BY <2>1, <2>4, <2>5
<1> HIDE DEF new, s
<1>6. /\ fromServer' \in Seq(Frame)
      /\ Len(fromServer') = m + Len(new)
      /\ \A i \in 1..(m + Len(new)) :
           fromServer'[i] = IF i <= m THEN fromServer[i] ELSE new[i - m]
  <2>1. /\ fromServer \o new \in Seq(Frame)
        /\ Len(fromServer \o new) = m + Len(new)
        /\ \A i \in 1..(m + Len(new)) :
             (fromServer \o new)[i] = IF i <= m THEN fromServer[i] ELSE new[i - m]
    <3>1. fromServer \in Seq(Frame) /\ new \in Seq(Frame)
      BY <1>2, <1>5
    <3> QED BY <3>1, ConcatProperties
  <2> QED BY <2>1, <1>1
<1>7. ASSUME NEW i \in 1..m
      PROVE  /\ i \in 1..Len(fromServer')
             /\ fromServer'[i] = fromServer[i]
             /\ i \in Firsts' <=> i \in Firsts
  <2>1. i \in 1..Len(fromServer') /\ fromServer'[i] = fromServer[i]
    BY <1>2, <1>5, <1>6
  <2> QED BY <2>1 DEF Firsts
<1>8. ASSUME NEW i \in 1..Len(fromServer'), ~(i <= m)
      PROVE  /\ fromServer'[i].seq = s
             /\ i \in Firsts' <=> i = m + 1
  <2>1. i - m \in 1..Len(new) /\ fromServer'[i] = new[i - m]
    BY <1>2, <1>5, <1>6, <1>8
  <2>2. fromServer'[i].seq = s /\ (fromServer'[i].first <=> i - m = 1)
    BY <2>1, <1>5
  <2>3. i - m = 1 <=> i = m + 1
    BY <1>2, <1>8
  <2> QED BY <2>2, <2>3 DEF Firsts
<1>9. m + 1 \in 1..Len(fromServer') /\ m + 1 \in Firsts' /\ fromServer'[m + 1].seq = s
  <2>1. m + 1 \in 1..Len(fromServer') /\ ~(m + 1 <= m)
    BY <1>2, <1>5, <1>6
  <2> QED BY <2>1, <1>8
<1>10. ASSUME NEW i \in Firsts'
       PROVE  \/ i \in Firsts /\ i \in 1..m /\ fromServer'[i] = fromServer[i]
              \/ i = m + 1 /\ fromServer'[i].seq = s
  <2>1. i \in 1..Len(fromServer')
    BY DEF Firsts
  <2>2. CASE i <= m
    <3>1. i \in 1..m
      BY <2>1, <2>2, <1>2
    <3> QED BY <3>1, <1>7
  <2>3. CASE ~(i <= m)
    BY <2>1, <2>3, <1>8
  <2> QED BY <2>2, <2>3
<1>11. \A i \in Firsts : i \in 1..m /\ i \in Firsts' /\ fromServer'[i] = fromServer[i]
  <2>1. Firsts \subseteq 1..m
    BY DEF Firsts
  <2> QED BY <2>1, <1>7
<1>12. FirstNumbers' = FirstNumbers \cup {s}
  <2>1. ASSUME NEW i \in Firsts'
        PROVE  fromServer'[i].seq \in FirstNumbers \cup {s}
    BY <1>10 DEF FirstNumbers
  <2>2. ASSUME NEW x \in FirstNumbers \cup {s}
        PROVE  \E i \in Firsts' : x = fromServer'[i].seq
    <3>1. CASE x \in FirstNumbers
      <4>1. PICK i \in Firsts : x = fromServer[i].seq
        BY <3>1 DEF FirstNumbers
      <4> QED BY <4>1, <1>11
    <3>2. CASE x = s
      BY <3>2, <1>9
    <3> QED BY <3>1, <3>2
  <2> QED BY <2>1, <2>2 DEF FirstNumbers
<1>13. ASSUME NEW j \in 1..Len(toServer')
       PROVE  /\ j \in Nat
              /\ j + 1 \in 1..Len(toServer)
              /\ toServer'[j] = toServer[j + 1]
              /\ s < toServer'[j].seq
  <2>1. j \in Nat /\ j + 1 \in 1..Len(toServer) /\ 1 < j + 1
    BY <1>1, <1>2, <1>3
  <2>2. toServer'[j] = toServer[j + 1]
    BY <1>1, <1>3
  <2>3. toServer[1].seq < toServer[j + 1].seq
    BY <2>1, <1>3 DEF IInv, WireInOrder
  <2> QED BY <2>1, <2>2, <2>3, <1>3 DEF s
<1>14. NumbersOf(toServer) = NumbersOf(toServer)' \cup {s}
  <2>1. ASSUME NEW i \in 1..Len(toServer)
        PROVE  toServer[i].seq \in NumbersOf(toServer)' \cup {s}
    <3>1. CASE i = 1
      BY <3>1, <1>3 DEF s
    <3>2. CASE i # 1
      <4>1. i - 1 \in 1..Len(toServer') /\ (i - 1) + 1 = i
        BY <3>2, <1>1, <1>2, <1>3
      <4>2. toServer'[i - 1] = toServer[i]
        BY <4>1, <1>13
      <4> QED BY <4>1, <4>2 DEF NumbersOf
    <3> QED BY <3>1, <3>2
  <2>2. s \in NumbersOf(toServer)
    BY <1>3 DEF NumbersOf, s
  <2>3. NumbersOf(toServer)' \subseteq NumbersOf(toServer)
    BY <1>13 DEF NumbersOf
  <2> QED BY <2>1, <2>2, <2>3 DEF NumbersOf
<1>15. Open' = Open
  BY <1>1 DEF Open
<1>16. TypeOK'
  BY <1>1, <1>3, <1>6 DEF IInv, TypeOK
<1>17. TableMatchesWire'
  BY <1>12, <1>14, <1>15 DEF IInv, TableMatchesWire
<1>18. OneEntryPerNumber' /\ EventAfterCallback'
  BY <1>1, <1>15 DEF IInv, OneEntryPerNumber, EventAfterCallback
<1>19. NumbersUsed'
  <2>1. ASSUME NEW i \in 1..Len(fromServer')
        PROVE  fromServer'[i].seq \in 0..seq
    <3>1. CASE i <= m
      <4>1. i \in 1..m
        BY <3>1, <1>2
      <4> QED BY <4>1, <1>7 DEF IInv, NumbersUsed
    <3>2. CASE ~(i <= m)
      BY <3>2, <1>2, <1>4, <1>8
    <3> QED BY <3>1, <3>2
  <2>2. ASSUME NEW i \in Firsts'
        PROVE  fromServer'[i].seq # 0
    <3>1. CASE i \in Firsts /\ fromServer'[i] = fromServer[i]
      BY <3>1 DEF IInv, NumbersUsed
    <3>2. CASE fromServer'[i].seq = s
      BY <3>2, <1>2, <1>4
    <3> QED BY <3>1, <3>2, <1>10
  <2> QED BY <2>1, <2>2, <1>1 DEF IInv, NumbersUsed
<1>20. WireInOrder'
  <2>1. ASSUME NEW i \in 1..Len(toServer'), NEW j \in 1..Len(toServer'), i < j
        PROVE  toServer'[i].seq < toServer'[j].seq
    <3>1. i + 1 < j + 1
      BY <2>1, <1>13
    <3> QED BY <3>1, <1>13 DEF IInv, WireInOrder
  <2>2. ASSUME NEW i \in Firsts
        PROVE  fromServer[i].seq < s
    BY <1>3 DEF IInv, WireInOrder, s
  <2>3. ASSUME NEW i \in Firsts', NEW j \in Firsts', i < j
        PROVE  fromServer'[i].seq < fromServer'[j].seq
    <3>1. i \in Firsts /\ fromServer'[i] = fromServer[i]
      <4>1. j <= m + 1 /\ j \in Nat /\ i \in Nat
        BY <1>2, <1>10
      <4> QED BY <4>1, <2>3, <1>2, <1>10
    <3>2. CASE j \in Firsts /\ fromServer'[j] = fromServer[j]
      BY <3>1, <3>2, <2>3 DEF IInv, WireInOrder
    <3>3. CASE fromServer'[j].seq = s
      BY <3>1, <3>3, <2>2
    <3> QED BY <3>2, <3>3, <1>10
  <2>4. ASSUME NEW i \in Firsts', NEW j \in 1..Len(toServer')
        PROVE  fromServer'[i].seq < toServer'[j].seq
    <3>1. CASE i \in Firsts /\ fromServer'[i] = fromServer[i]
      BY <3>1, <1>13 DEF IInv, WireInOrder
    <3>2. CASE fromServer'[i].seq = s
      BY <3>2, <1>13
    <3> QED BY <3>1, <3>2, <1>10
  <2> QED BY <2>1, <2>3, <2>4 DEF WireInOrder
<1>21. RestBehindFirst'
  <2> SUFFICES ASSUME NEW j \in (1..Len(fromServer')) \ Firsts', fromServer'[j].seq \in Open'
               PROVE  \E i \in Firsts' : i < j /\ fromServer'[i].seq = fromServer'[j].seq
    BY DEF RestBehindFirst
  <2>1. CASE j <= m
    <3>1. j \in 1..m
      BY <2>1, <1>2
    <3>2. j \in (1..m) \ Firsts /\ fromServer'[j] = fromServer[j]
      BY <3>1, <1>7
    <3>3. PICK i \in Firsts : i < j /\ fromServer[i].seq = fromServer[j].seq
      BY <3>2, <1>15 DEF IInv, RestBehindFirst
    <3> QED BY <3>2, <3>3, <1>11
  <2>2. CASE ~(j <= m)
    <3>1. fromServer'[j].seq = s /\ j # m + 1
      BY <2>2, <1>8
    <3>2. m + 1 < j
      BY <2>2, <3>1, <1>2
    <3> QED BY <3>1, <3>2, <1>9
  <2> QED BY <2>1, <2>2
<1> QED BY <1>16, <1>17, <1>18, <1>19, <1>20, <1>21 DEF IInv

(* A frame nobody asked for carries the number 0.                          *)
LEMMA PushInv ==
  ASSUME IInv, NEW body \in Reply, Push(body)
  PROVE  IInv'
<1> DEFINE m == Len(fromServer)
           f == [seq |-> 0, body |-> body, first |-> FALSE]
<1>1. /\ fromServer' = Append(fromServer, f)
      /\ pushed' = pushed + 1
      /\ UNCHANGED <<conncb, seq, cbs, toServer, events>>
  BY DEF Push
<1>2. fromServer \in Seq(Frame) /\ seq \in Nat /\ m \in Nat
  BY DEF IInv, TypeOK
<1>3. f \in Frame
  BY DEF Frame
<1>4. /\ fromServer' \in Seq(Frame)
      /\ Len(fromServer') = m + 1
      /\ \A i \in 1..m : fromServer'[i] = fromServer[i]
      /\ fromServer'[m + 1] = f
  <2> HIDE DEF f
  <2> QED BY <1>1, <1>2, <1>3
<1>5. ASSUME NEW i \in 1..Len(fromServer')
      PROVE  \/ i \in 1..m /\ fromServer'[i] = fromServer[i]
             \/ fromServer'[i].seq = 0 /\ ~fromServer'[i].first
  <2>1. CASE i = m + 1
    BY <2>1, <1>4
  <2>2. CASE i # m + 1
    BY <2>2, <1>2, <1>4
  <2> QED BY <2>1, <2>2
<1>6. Firsts' = Firsts /\ \A i \in Firsts : i \in 1..m /\ fromServer'[i] = fromServer[i]
  <2>1. \A i \in 1..m : i \in 1..Len(fromServer')
    BY <1>2, <1>4
  <2> QED BY <2>1, <1>4, <1>5 DEF Firsts
<1>7. FirstNumbers' = FirstNumbers
  BY <1>6 DEF FirstNumbers
<1>8. Open' = Open
  BY <1>1 DEF Open
<1>9. TypeOK'
  BY <1>1, <1>4 DEF IInv, TypeOK
<1>10. TableMatchesWire' /\ OneEntryPerNumber' /\ EventAfterCallback'
  BY <1>1, <1>7, <1>8
     DEF IInv, TableMatchesWire, NumbersOf, OneEntryPerNumber, EventAfterCallback
<1>11. NumbersUsed'
  <2>1. ASSUME NEW i \in 1..Len(fromServer')
        PROVE  fromServer'[i].seq \in 0..seq
    BY <1>2, <1>5 DEF IInv, NumbersUsed
  <2> QED BY <2>1, <1>1, <1>6 DEF IInv, NumbersUsed
<1>12. WireInOrder'
  BY <1>1, <1>6 DEF IInv, WireInOrder
<1>13. RestBehindFirst'
  <2> SUFFICES ASSUME NEW j \in (1..Len(fromServer')) \ Firsts', fromServer'[j].seq \in Open'
               PROVE  \E i \in Firsts' : i < j /\ fromServer'[i].seq = fromServer'[j].seq
    BY DEF RestBehindFirst
  <2>1. 0 \notin Open
    BY DEF IInv, TypeOK, Open
  <2>2. j \in (1..m) \ Firsts /\ fromServer'[j] = fromServer[j]
    BY <2>1, <1>5, <1>6, <1>8
  <2>3. PICK i \in Firsts : i < j /\ fromServer[i].seq = fromServer[j].seq
    BY <2>2, <1>8 DEF IInv, RestBehindFirst
  <2> QED BY <2>2, <2>3, <1>6
<1> QED BY <1>9, <1>10, <1>11, <1>12, <1>13 DEF IInv

LEMMA InitInv == ServerInit => IInv
<1> SUFFICES ASSUME ServerInit PROVE IInv
  OBVIOUS
<1> USE DEF ServerInit
<1>1. TypeOK
  BY DEF TypeOK
<1>2. Open = {} /\ Firsts = {} /\ FirstNumbers = {} /\ NumbersOf(toServer) = {}
  BY DEF Open, Firsts, FirstNumbers, NumbersOf
<1>3. TableMatchesWire /\ OneEntryPerNumber /\ EventAfterCallback
  BY <1>2 DEF TableMatchesWire, OneEntryPerNumber, EventAfterCallback
<1>4. NumbersUsed /\ WireInOrder /\ RestBehindFirst
  BY <1>2 DEF NumbersUsed, WireInOrder, RestBehindFirst
<1> QED BY <1>1, <1>3, <1>4 DEF IInv

LEMMA StepInv == IInv /\ [Next]_serverVars => IInv'
<1> SUFFICES ASSUME IInv, [Next]_serverVars PROVE IInv'
  OBVIOUS
<1>1. <<>> \in Seq(OwnEvent)
  OBVIOUS
<1>2. CASE AnyServerAdd
  BY <1>2, SeqOfLists, ServerAddInv DEF AnyServerAdd
<1>3. CASE AnyClientSends
  BY <1>3, SeqOfLists, ClientSendsInv DEF AnyClientSends
<1>4. CASE AnyHandlePacket
  BY <1>1, <1>4, SeqOfLists, HandlePacketInv DEF AnyHandlePacket
<1>5. CASE AnyHandleEvent
  BY <1>1, <1>5, SeqOfLists, HandleEventInv DEF AnyHandleEvent
<1>6. CASE AnyAnswer
  BY <1>6, SeqOfLists, AnswerInv DEF AnyAnswer
<1>7. CASE AnyPush
  BY <1>7, PushInv DEF AnyPush
<1>8. CASE UNCHANGED serverVars
  <2>1. UNCHANGED <<conncb, seq, cbs, toServer, fromServer, events, pushed>>
    BY <1>8 DEF serverVars
  <2>2. Open' = Open /\ Firsts' = Firsts
    BY <2>1 DEF Open, Firsts
  <2>3. FirstNumbers' = FirstNumbers /\ NumbersOf(toServer)' = NumbersOf(toServer)
    BY <2>1, <2>2 DEF FirstNumbers, NumbersOf
  <2>4. TypeOK'
    BY <2>1 DEF IInv, TypeOK
  <2>5. TableMatchesWire' /\ OneEntryPerNumber' /\ EventAfterCallback'
    BY <2>1, <2>2, <2>3
       DEF IInv, TableMatchesWire, OneEntryPerNumber, EventAfterCallback
  <2>6. NumbersUsed' /\ WireInOrder' /\ RestBehindFirst'
    BY <2>1, <2>2 DEF IInv, NumbersUsed, WireInOrder, RestBehindFirst
  <2> QED BY <2>4, <2>5, <2>6 DEF IInv
<1> QED BY <1>2, <1>3, <1>4, <1>5, <1>6, <1>7, <1>8 DEF Next

(* The invariant of server.c's requests, for every client and server.      *)
THEOREM InductiveInvariant == Spec => []IInv
BY InitInv, StepInv, PTL DEF Spec

(* The variables keep their types: in particular no entry and no request   *)
(* carries a number that has not been used.                                *)
THEOREM TypeCorrect == Spec => []TypeOK
<1>1. IInv => TypeOK
  BY DEF IInv
<1> QED BY <1>1, InductiveInvariant, PTL

(* server_handle_packet() finds the entry of every answer that begins, and *)
(* leaves none behind.                                                     *)
THEOREM TableIsExact == Spec => []TableMatchesWire
<1>1. IInv => TableMatchesWire
  BY DEF IInv
<1> QED BY <1>1, InductiveInvariant, PTL

(* server_handle_packet() never calls two callbacks for a frame.           *)
THEOREM NumbersAreUnique == Spec => []OneEntryPerNumber
<1>1. IInv => OneEntryPerNumber
  BY DEF IInv
<1> QED BY <1>1, InductiveInvariant, PTL

(* A frame's event handlers run when its callback has returned and its     *)
(* entry is gone.                                                          *)
THEOREM EventsFollowCallbacks == Spec => []EventAfterCallback
<1>1. IInv => EventAfterCallback
  BY DEF IInv
<1> QED BY <1>1, InductiveInvariant, PTL

(* Sending outside of an answer asks, or does nothing.                     *)
LEMMA SendingAsks ==
  ASSUME IInv, NEW rs \in Seq(Request), SendAll(rs), Within(rs),
         cbs' = cbs \cup Entries(rs)
  PROVE  [R!Next]_(R!vars)
<1>1. /\ seq \in Nat \ {0}
      /\ Len(rs) \in Nat
      /\ seq' = seq + Len(rs)
      /\ seq' <= MaxSeq
  BY Sending DEF IInv, TypeOK, Within
<1>2. Open' = Open \cup (seq + 1)..seq'
  <2>1. cbs' = (cbs \ {}) \cup Entries(rs) /\ cbs \ {} = cbs
    OBVIOUS
  <2>2. Open' = {c.seq : c \in cbs \ {}} \cup (seq + 1)..seq'
    BY <2>1, TableStep
  <2> QED BY <2>1, <2>2 DEF Open
<1>3. CASE Len(rs) = 0
  <2>1. seq' = seq /\ Open' = Open
    BY <1>1, <1>2, <1>3
  <2> QED BY <2>1 DEF R!vars
<1>4. CASE Len(rs) # 0
  <2>1. seq' \in (seq + 1)..MaxSeq
    BY <1>1, <1>4, BoundAssumption
  <2> QED BY <2>1, <1>2 DEF R!Next, R!Ask, R!Sent
<1> QED BY <1>3, <1>4

(* Handling a frame answers the oldest request, if the frame begins an     *)
(* answer, and otherwise does nothing.                                     *)
LEMMA HandlingAnswers ==
  ASSUME IInv, NEW rs \in Seq(Request), HandlePacket(rs, <<>>), Within(rs)
  PROVE  [R!Next]_(R!vars)
<1> DEFINE f == Head(fromServer)
<1>1. fromServer # <<>> /\ SendAll(rs) /\ (Called(f) = {} => rs = <<>>)
  BY DEF HandlePacket
<1>2. /\ seq \in Nat \ {0}
      /\ Len(rs) \in Nat
      /\ seq' = seq + Len(rs)
      /\ seq' <= MaxSeq
  BY <1>1, Sending DEF IInv, TypeOK, Within
<1>3. Open' = (Open \ {f.seq}) \cup (seq + 1)..seq'
  BY HandlePacketOpen
<1>4. CASE 1 \in Firsts
  <2>1. f.seq \in Open /\ \A t \in Open : f.seq <= t
    BY <1>1, <1>4, OldestFrame
  <2>2. seq' \in seq..MaxSeq
    BY <1>2, BoundAssumption
  <2> QED BY <2>1, <2>2, <1>3 DEF R!Next, R!Answer, R!Oldest, R!Sent
<1>5. CASE 1 \notin Firsts
  <2>1. f.seq \notin Open
    BY <1>1, <1>5, OldestFrame
  <2>2. Matching(f) = {}
    BY <2>1 DEF Matching, Open
  <2>3. rs = <<>>
    BY <2>2, <1>1 DEF Called
  <2>4. seq' = seq /\ Open' = Open
    BY <2>1, <2>3, <1>2, <1>3
  <2> QED BY <2>4 DEF R!vars
<1> QED BY <1>4, <1>5

(* Every step of Server is one of Requests, or none.                       *)
LEMMA StepRefines == IInv /\ [Next]_serverVars => [R!Next]_(R!vars)
<1> SUFFICES ASSUME IInv, [Next]_serverVars PROVE [R!Next]_(R!vars)
  OBVIOUS
<1>1. CASE AnyServerAdd
  <2>1. PICK rs \in RequestLists : Within(rs) /\ ServerAdd(rs)
    BY <1>1 DEF AnyServerAdd
  <2> QED BY <2>1, SeqOfLists, SendingAsks DEF ServerAdd
<1>2. CASE AnyClientSends
  <2>1. PICK rs \in RequestLists : Within(rs) /\ ClientSends(rs)
    BY <1>2 DEF AnyClientSends
  <2> QED BY <2>1, SeqOfLists, SendingAsks DEF ClientSends
<1>3. CASE AnyHandlePacket
  BY <1>3, SeqOfLists, HandlingAnswers DEF AnyHandlePacket
<1>4. CASE AnyHandleEvent
  <2>1. PICK rs \in RequestLists : Within(rs) /\ HandleEvent(rs, <<>>)
    BY <1>4 DEF AnyHandleEvent
  <2> QED BY <2>1, SeqOfLists, SendingAsks DEF HandleEvent
<1>5. CASE AnyAnswer \/ AnyPush \/ UNCHANGED serverVars
  <2>1. seq' = seq /\ cbs' = cbs
    BY <1>5 DEF AnyAnswer, Answer, AnyPush, Push, serverVars
  <2> QED BY <2>1 DEF Open, R!vars
<1> QED BY <1>1, <1>2, <1>3, <1>4, <1>5 DEF Next

(* Server implements Requests, up to liveness: server_send() asks, and     *)
(* server_handle_packet() gives each answer to the oldest open request.    *)
THEOREM ImplementsRequests == Spec => R!Spec
<1>1. ServerInit => R!Init
  BY BoundAssumption DEF ServerInit, R!Init, Open
<1> QED BY <1>1, InductiveInvariant, StepRefines, PTL DEF Spec, R!Spec
=============================================================================
