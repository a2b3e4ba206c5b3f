-------------------------- MODULE ServerStreamProofs --------------------------
(***************************************************************************)
(* Proofs about ServerStream for every header size, set of payload lengths *)
(* and number of frames: the properties of the receive path, and that it   *)
(* implements FrameChannel (its safety part; liveness stays with TLC).     *)
(***************************************************************************)
EXTENDS ServerStream, SequenceTheorems, TLAPS

LEMMA EndBound ==
  ASSUME NEW f \in Frame
  PROVE  End(f) \in Nat /\ End(f) > f.at
<1>1. f.at \in Nat /\ f.len \in Lens
  BY DEF Frame
<1>2. f.len \in Nat
  BY <1>1, LensAssumption
<1>3. HeaderSize \in Nat /\ HeaderSize > 0
  BY HeaderSizeAssumption
<1> QED BY <1>1, <1>2, <1>3 DEF End

LEMMA ExtentType ==
  ASSUME NEW s \in Seq(Frame), NEW n \in 0..Len(s)
  PROVE  Extent(s, n) \in Nat
BY EndBound DEF Extent

(* A header looked for while IInv holds is that of the first frame that    *)
(* has not been handled.                                                   *)
LEMMA HeaderIsNext ==
  ASSUME IInv, pc = "parse", Len(work) > 0
  PROVE  /\ Len(handled) < Len(sent)
         /\ Len(work) = arrived - sent[Len(handled) + 1].at
         /\ work[1] = sent[Len(handled) + 1].at
         /\ HeaderAt(work[1]) = sent[Len(handled) + 1]
         /\ MagicAt(work[1]) <=> sent[Len(handled) + 1].magic
<1> DEFINE n == Len(handled)
           b == Extent(sent, n)
<1>1. /\ n \in Nat
      /\ n <= Len(sent)
      /\ sent \in Seq(Frame)
      /\ handled \in Seq(Frame)
      /\ arrived \in Nat
  BY DEF IInv, TypeOK, InOrder
<1>2. Extent(handled, n) = b
  <2>1. CASE n = 0
    BY <2>1 DEF Extent
  <2>2. CASE n # 0
    BY <2>2, <1>1 DEF Extent, IInv, InOrder
  <2> QED BY <2>1, <2>2
<1>3. held = <<>>
  BY DEF IInv, TypeOK
<1>4. work = Bytes(b, arrived)
  BY <1>2, <1>3 DEF IInv, NoByteLost, TypeOK
<1>5. b \in Nat /\ b <= arrived
  BY <1>1, ExtentType DEF IInv, Layout
<1>6. Len(work) = arrived - b /\ work[1] = b
  BY <1>1, <1>4, <1>5 DEF Bytes
<1>7. n < Len(sent)
  <2>1. SUFFICES ASSUME n = Len(sent) PROVE FALSE
    BY <1>1
  <2>2. arrived <= b
    BY <2>1 DEF IInv, Layout, Written
  <2> QED BY <2>2, <1>6, <1>5, <1>1
<1>8. sent[n + 1].at = b
  BY <1>1, <1>7 DEF IInv, Layout
<1>9. ASSUME NEW k \in 1..Len(sent)
      PROVE  /\ sent[k] \in Frame
             /\ sent[k].at \in Nat
             /\ End(sent[k]) \in Nat
             /\ End(sent[k]) > sent[k].at
  <2>1. sent[k] \in Frame
    BY <1>1
  <2>2. sent[k].at \in Nat
    BY <2>1 DEF Frame
  <2> QED BY <2>1, <2>2, EndBound
<1>10. \A j, k \in 1..Len(sent) : j < k => End(sent[j]) <= sent[k].at
  BY DEF IInv, Layout
<1>11. ASSUME NEW k \in 1..Len(sent), sent[k].at = b
      PROVE  k = n + 1
  <2>1. n + 1 \in 1..Len(sent)
    BY <1>1, <1>7
  <2>2. ~ (k < n + 1)
    <3>1. k < n + 1 => End(sent[k]) <= b
      BY <2>1, <1>8, <1>10
    <3> QED BY <3>1, <1>11, <1>9
  <2>3. ~ (n + 1 < k)
    <3>1. n + 1 < k => End(sent[n + 1]) <= b
      BY <2>1, <1>11, <1>10
    <3> QED BY <3>1, <2>1, <1>8, <1>9
  <2> QED BY <2>1, <2>2, <2>3
<1>12. HeaderAt(work[1]) = sent[n + 1]
  BY <1>1, <1>6, <1>7, <1>8, <1>11 DEF HeaderAt
<1>13. MagicAt(work[1]) <=> sent[n + 1].magic
  BY <1>1, <1>6, <1>7, <1>8, <1>11 DEF MagicAt
<1> QED BY <1>6, <1>7, <1>8, <1>12, <1>13

LEMMA InitInv == Init => IInv
<1> SUFFICES ASSUME Init PROVE IInv
  OBVIOUS
<1> USE DEF Init
<1>1. TypeOK
  BY DEF TypeOK
<1>2. Layout
  BY DEF Layout, Written, Extent
<1>3. InOrder /\ NothingWaits /\ ExitIsJustified
  BY DEF InOrder, NothingWaits, ExitIsJustified
<1>4. NoByteLost
  BY DEF NoByteLost, Bytes, Extent
<1> QED BY <1>1, <1>2, <1>3, <1>4 DEF IInv

(* The server writes behind everything it wrote before, so what has been   *)
(* read stays as it was.                                                   *)
LEMMA WriteFrameInv ==
  ASSUME IInv, NEW len \in Lens, NEW magic \in Magics, WriteFrame(len, magic)
  PROVE  IInv'
<1> DEFINE f == [at |-> Written, len |-> len, magic |-> magic]
<1>1. /\ sent \in Seq(Frame)
      /\ handled \in Seq(Frame)
      /\ Len(handled) \in 0..Len(sent)
      /\ arrived \in Nat
  BY DEF IInv, TypeOK, InOrder
<1>2. Written \in Nat
  BY <1>1, ExtentType DEF Written
<1>3. f \in Frame
  BY <1>2 DEF Frame
<1>4. /\ sent' = Append(sent, f)
      /\ UNCHANGED <<arrived, held, work, handled, pc>>
  BY DEF WriteFrame
<1>5. /\ sent' \in Seq(Frame)
      /\ Len(sent') = Len(sent) + 1
      /\ \A k \in 1..Len(sent) : sent'[k] = sent[k]
      /\ sent'[Len(sent) + 1] = f
  BY <1>1, <1>3, <1>4
<1>6. \A k \in 0..Len(sent) : Extent(sent', k) = Extent(sent, k)
  BY <1>5 DEF Extent
<1>7. ASSUME NEW k \in 1..Len(sent)
      PROVE  End(sent[k]) \in Nat /\ End(sent[k]) <= Written
  <2>1. sent[k] \in Frame /\ sent[Len(sent)] \in Frame
    BY <1>1
  <2>2. Written = End(sent[Len(sent)])
    BY <1>1 DEF Written, Extent
  <2>3. CASE k = Len(sent)
    BY <2>1, <2>2, <2>3, EndBound
  <2>4. CASE k < Len(sent)
    <3>1. End(sent[k]) <= sent[Len(sent)].at
      BY <1>1, <2>4 DEF IInv, Layout
    <3>2. sent[Len(sent)].at \in Nat
      BY <2>1 DEF Frame
    <3> QED BY <3>1, <3>2, <2>1, <2>2, EndBound
  <2> QED BY <2>3, <2>4, <1>1
<1>8. End(f) \in Nat /\ End(f) > Written
  BY <1>3, EndBound
<1>9. TypeOK'
  BY <1>4, <1>5 DEF IInv, TypeOK
<1>10. Layout'
  <2>1. \A k \in 1..Len(sent') : sent'[k].at = Extent(sent', k - 1)
    <3>1. \A k \in 1..Len(sent) : sent'[k].at = Extent(sent', k - 1)
      BY <1>1, <1>5, <1>6 DEF IInv, Layout
    <3>2. sent'[Len(sent) + 1].at = Extent(sent', (Len(sent) + 1) - 1)
      <4>1. (Len(sent) + 1) - 1 = Len(sent)
        BY <1>1
      <4>2. Extent(sent', Len(sent)) = Written
        BY <1>1, <1>6 DEF Written
      <4> QED BY <1>5, <4>1, <4>2
    <3>3. \A k \in 1..Len(sent') : k \in 1..Len(sent) \/ k = Len(sent) + 1
      BY <1>1, <1>5
    <3> QED BY <3>1, <3>2, <3>3
  <2>2. \A j, k \in 1..Len(sent') : j < k => End(sent'[j]) <= sent'[k].at
    <3> SUFFICES ASSUME NEW j \in 1..Len(sent'), NEW k \in 1..Len(sent'), j < k
                 PROVE  End(sent'[j]) <= sent'[k].at
      OBVIOUS
    <3>1. j \in 1..Len(sent) /\ sent'[j] = sent[j]
      BY <1>1, <1>5
    <3>2. CASE k = Len(sent) + 1
      BY <3>1, <3>2, <1>5, <1>7
    <3>3. CASE k \in 1..Len(sent)
      BY <3>1, <3>3, <1>5 DEF IInv, Layout
    <3> QED BY <3>2, <3>3, <1>1, <1>5
  <2>3. Extent(sent', Len(handled')) <= arrived'
    BY <1>1, <1>4, <1>6 DEF IInv, Layout
  <2>4. arrived' <= Written'
    <3>1. Written' = End(f)
      BY <1>1, <1>5 DEF Written, Extent
    <3> QED BY <3>1, <1>1, <1>2, <1>4, <1>8 DEF IInv, Layout
  <2> QED BY <2>1, <2>2, <2>3, <2>4 DEF Layout
<1>11. InOrder'
  BY <1>1, <1>4, <1>5 DEF IInv, InOrder
<1>12. NoByteLost'
  BY <1>4 DEF IInv, NoByteLost, Extent, Bytes
<1>13. NothingWaits'
  <2>1. arrived < End(f)
    BY <1>1, <1>2, <1>8 DEF IInv, Layout
  <2> QED BY <2>1, <1>1, <1>4, <1>5, <1>8 DEF IInv, NothingWaits
<1>14. ExitIsJustified'
  BY <1>1, <1>4, <1>5 DEF IInv, ExitIsJustified
<1> QED BY <1>9, <1>10, <1>11, <1>12, <1>13, <1>14 DEF IInv

(* The bytes that are not in a handled frame, as one interval.             *)
LEMMA Buffered ==
  ASSUME IInv
  PROVE  /\ Extent(handled, Len(handled)) = Extent(sent, Len(handled))
         /\ Extent(sent, Len(handled)) \in Nat
         /\ pc = "idle" => held = Bytes(Extent(sent, Len(handled)), arrived)
         /\ pc # "idle" => work = Bytes(Extent(sent, Len(handled)), arrived)
<1>1. /\ sent \in Seq(Frame)
      /\ handled \in Seq(Frame)
      /\ Len(handled) \in 0..Len(sent)
      /\ held \in Seq(Nat)
      /\ work \in Seq(Nat)
  BY DEF IInv, TypeOK, InOrder
<1>2. Extent(handled, Len(handled)) = Extent(sent, Len(handled))
  <2>1. Len(handled) # 0 => handled[Len(handled)] = sent[Len(handled)]
    BY <1>1 DEF IInv, InOrder
  <2> QED BY <2>1 DEF Extent
<1>3. Extent(sent, Len(handled)) \in Nat
  BY <1>1, ExtentType
<1>4. held \o work = Bytes(Extent(sent, Len(handled)), arrived)
  BY <1>2 DEF IInv, NoByteLost
<1>5. pc = "idle" => held \o work = held
  BY <1>1 DEF IInv, TypeOK
<1>6. pc # "idle" => held \o work = work
  BY <1>1 DEF IInv, TypeOK
<1> QED BY <1>2, <1>3, <1>4, <1>5, <1>6

LEMMA BytesProperties ==
  ASSUME NEW a \in Nat, NEW b \in Nat, a <= b
  PROVE  /\ Bytes(a, b) \in Seq(Nat)
         /\ Len(Bytes(a, b)) = b - a
         /\ \A i \in 1..(b - a) : Bytes(a, b)[i] = a + i - 1
<1>1. b - a \in Nat /\ \A i \in 1..(b - a) : a + i - 1 \in Nat
  OBVIOUS
<1>2. [i \in 1..(b - a) |-> a + i - 1] \in Seq(Nat)
  BY <1>1
<1> QED BY <1>1, <1>2 DEF Bytes

LEMMA JoinBytes ==
  ASSUME NEW a \in Nat, NEW b \in Nat, NEW c \in Nat, a <= b, b <= c
  PROVE  Bytes(a, b) \o Bytes(b, c) = Bytes(a, c)
<1> DEFINE p == Bytes(a, b)
           q == Bytes(b, c)
           t == Bytes(a, c)
<1>1. p \in Seq(Nat) /\ Len(p) = b - a /\ \A i \in 1..(b - a) : p[i] = a + i - 1
  BY BytesProperties
<1>2. q \in Seq(Nat) /\ Len(q) = c - b /\ \A i \in 1..(c - b) : q[i] = b + i - 1
  BY BytesProperties
<1>3. t \in Seq(Nat) /\ Len(t) = c - a /\ \A i \in 1..(c - a) : t[i] = a + i - 1
  <2>1. a <= c
    OBVIOUS
  <2> QED BY <2>1, BytesProperties
<1> HIDE DEF p, q, t
<1>4. /\ p \o q \in Seq(Nat)
      /\ Len(p \o q) = Len(p) + Len(q)
      /\ \A i \in 1..Len(p) + Len(q) :
           (p \o q)[i] = IF i <= Len(p) THEN p[i] ELSE q[i - Len(p)]
  BY <1>1, <1>2, ConcatProperties
<1>5. Len(p \o q) = Len(t)
  BY <1>1, <1>2, <1>3, <1>4
<1>6. ASSUME NEW i \in 1..(c - a)
      PROVE  (p \o q)[i] = t[i]
  <2>1. CASE i <= b - a
    BY <1>1, <1>2, <1>3, <1>4, <2>1
  <2>2. CASE i > b - a
    <3> DEFINE j == i - (b - a)
    <3>1. j \in 1..(c - b)
      BY <2>2
    <3>2. q[j] = b + j - 1
      BY <1>2, <3>1
    <3>3. (p \o q)[i] = q[j]
      BY <1>1, <1>2, <1>4, <2>2
    <3>4. b + j - 1 = a + i - 1
      OBVIOUS
    <3>5. t[i] = a + i - 1
      BY <1>3
    <3> QED BY <3>2, <3>3, <3>4, <3>5
  <2>3. i <= b - a \/ i > b - a
    OBVIOUS
  <2> QED BY <2>1, <2>2, <2>3
<1>7. p \o q = t
  BY <1>3, <1>4, <1>5, <1>6, SeqEqual
<1> QED BY <1>7 DEF p, q, t

LEMMA ReceiveInv ==
  ASSUME IInv, NEW n \in 1..(Written - arrived), Receive(n)
  PROVE  IInv'
<1> DEFINE b == Extent(sent, Len(handled))
<1>1. /\ pc = "idle" /\ pc' = "parse"
      /\ arrived' = arrived + n
      /\ work' = held \o Bytes(arrived, arrived')
      /\ held' = <<>>
      /\ sent' = sent /\ handled' = handled
  BY DEF Receive
<1>2. /\ sent \in Seq(Frame)
      /\ arrived \in Nat
      /\ Written \in Nat
  BY ExtentType DEF IInv, TypeOK, Written
<1>3. b \in Nat /\ b <= arrived /\ arrived <= arrived' /\ arrived' <= Written
  BY <1>1, <1>2, Buffered DEF IInv, Layout
<1>4. held = Bytes(b, arrived)
  BY <1>1, Buffered
<1>5. work' = Bytes(b, arrived') /\ work' \in Seq(Nat)
  <2>1. arrived' \in Nat
    BY <1>1, <1>2
  <2>2. Bytes(b, arrived') \in Seq(Nat)
    <3>1. b \in Nat /\ b <= arrived'
      BY <1>2, <1>3, <2>1
    <3> QED BY <2>1, <3>1, BytesProperties
  <2>3. Bytes(b, arrived) \o Bytes(arrived, arrived') = Bytes(b, arrived')
    BY <1>2, <1>3, <2>1, JoinBytes
  <2> QED BY <1>1, <1>4, <2>2, <2>3
<1>6. TypeOK'
  BY <1>1, <1>2, <1>5 DEF IInv, TypeOK
<1>7. Layout'
  BY <1>1, <1>2, <1>3 DEF IInv, Layout, Written, Extent
<1>8. InOrder' /\ NothingWaits' /\ ExitIsJustified'
  BY <1>1 DEF IInv, InOrder, NothingWaits, ExitIsJustified
<1>9. NoByteLost'
  <2>1. Extent(handled', Len(handled')) = b
    BY <1>1, Buffered
  <2>2. held' \o work' = work'
    BY <1>1, <1>5
  <2> QED BY <1>5, <2>1, <2>2 DEF NoByteLost
<1> QED BY <1>6, <1>7, <1>8, <1>9 DEF IInv

LEMMA HandlePacketInv ==
  ASSUME IInv, HandlePacket
  PROVE  IInv'
<1> DEFINE n == Len(handled)
           b == Extent(sent, n)
           f == sent[n + 1]
<1>1. /\ pc = "parse" /\ FrameReady
      /\ sent' = sent /\ arrived' = arrived /\ held' = held
  BY DEF HandlePacket
<1>2. /\ sent \in Seq(Frame)
      /\ handled \in Seq(Frame)
      /\ n \in Nat
      /\ arrived \in Nat
      /\ work \in Seq(Nat)
      /\ held = <<>>
  BY <1>1 DEF IInv, TypeOK
<1>3. Len(work) > 0
  BY <1>1, <1>2, HeaderSizeAssumption DEF FrameReady, HeaderReady
<1>4. /\ n < Len(sent)
      /\ Len(work) = arrived - f.at
      /\ HeaderAt(work[1]) = f
      /\ f.magic
  BY <1>1, <1>3, HeaderIsNext DEF FrameReady
<1>5. CASE f.len = 0
  <2>1. pc' = "aborted" /\ UNCHANGED <<handled, work>>
    BY <1>4, <1>5 DEF HandlePacket
  <2>2. TypeOK' /\ Layout'
    BY <1>1, <1>2, <2>1 DEF IInv, TypeOK, Layout, Written, Extent
  <2>3. InOrder' /\ NoByteLost' /\ NothingWaits' /\ ExitIsJustified'
    BY <1>1, <2>1 DEF IInv, InOrder, NoByteLost, NothingWaits, ExitIsJustified
  <2> QED BY <2>2, <2>3 DEF IInv
<1>6. CASE f.len # 0
  <2>1. /\ handled' = Append(handled, f)
        /\ work' = SubSeq(work, HeaderSize + f.len + 1, Len(work))
        /\ pc' = "parse"
    BY <1>1, <1>4, <1>6 DEF HandlePacket
  <2>2. f \in Frame /\ f.at \in Nat /\ f.len \in Nat /\ HeaderSize \in Nat
    <3>1. f \in Frame
      BY <1>2, <1>4
    <3>2. f.at \in Nat /\ f.len \in Lens
      BY <3>1 DEF Frame
    <3> QED BY <3>1, <3>2, LensAssumption, HeaderSizeAssumption
  <2>3. f.at = b
    BY <1>2, <1>4 DEF IInv, Layout
  <2>4. End(f) \in Nat /\ End(f) = b + HeaderSize + f.len
    BY <2>2, <2>3, EndBound DEF End
  <2>5. Extent(sent, n + 1) = End(f)
    BY <1>2 DEF Extent
  <2>6. End(f) <= arrived
    BY <1>1, <1>2, <1>4, <2>2, <2>3, <2>4 DEF FrameReady
  <2>7. /\ handled' \in Seq(Frame)
        /\ Len(handled') = n + 1
        /\ \A k \in 1..n : handled'[k] = handled[k]
        /\ handled'[n + 1] = f
    BY <1>2, <2>1, <2>2
  <2>8. handled' = SubSeq(sent, 1, n + 1)
    <3>1. \A k \in 1..n : handled[k] = sent[k]
      BY <1>2, <1>4 DEF IInv, InOrder
    <3>2. \A k \in 1..(n + 1) : handled'[k] = sent[k]
      <4>1. \A k \in 1..(n + 1) : k \in 1..n \/ k = n + 1
        BY <1>2
      <4> QED BY <2>7, <3>1, <4>1
    <3>3. /\ SubSeq(sent, 1, n + 1) \in Seq(Frame)
          /\ Len(SubSeq(sent, 1, n + 1)) = n + 1
          /\ \A k \in 1..(n + 1) : SubSeq(sent, 1, n + 1)[k] = sent[k]
      BY <1>2, <1>4
    <3> QED BY <2>7, <3>2, <3>3, SeqEqual
  <2>9. work' = Bytes(End(f), arrived) /\ work' \in Seq(Nat)
    <3> DEFINE w == SubSeq(work, HeaderSize + f.len + 1, Len(work))
               m == arrived - End(f)
    <3>1. work = Bytes(b, arrived)
      BY <1>1, Buffered
    <3>2. Len(work) = arrived - b
      BY <1>4, <2>3
    <3>3. b \in Nat /\ arrived \in Nat /\ b <= arrived
      BY <1>2, <2>2, <2>3 DEF IInv, Layout
    <3> DEFINE h == HeaderSize + f.len
               e == End(f)
    <3>4. h \in Nat /\ e \in Nat /\ e = b + h /\ e <= arrived
      BY <2>2, <2>3, <2>4, <2>6
    <3>5. w = SubSeq(work, h + 1, Len(work))
      OBVIOUS
    <3>6. /\ \A i \in 1..(arrived - b) : work[i] = b + i - 1
          /\ Bytes(e, arrived) \in Seq(Nat)
          /\ Len(Bytes(e, arrived)) = m
          /\ \A i \in 1..m : Bytes(e, arrived)[i] = e + i - 1
      BY <3>1, <3>3, <3>4, BytesProperties
    <3> HIDE DEF b, f, h, e, w
    <3>7. m \in Nat /\ Len(work) = h + m
      BY <3>2, <3>3, <3>4 DEF e
    <3>8. /\ w \in Seq(Nat) /\ Len(w) = m
          /\ \A i \in 1..m : w[i] = work[h + i]
      <4>1. h + 1 \in Int /\ Len(work) \in Int /\ h + 1 \in 1..(Len(work) + 1)
        BY <3>4, <3>7
      <4>2. \A i \in (h + 1)..Len(work) : work[i] \in Nat
        BY <1>2, <4>1
      <4>3. /\ w \in Seq(Nat)
            /\ Len(w) = IF h + 1 <= Len(work) THEN Len(work) - (h + 1) + 1 ELSE 0
            /\ \A i \in 1..(Len(work) - (h + 1) + 1) : w[i] = work[(h + 1) + i - 1]
        BY <3>5, <4>1, <4>2, SubSeqProperties
      <4>4. Len(work) - (h + 1) + 1 = m /\ (h + 1 <= Len(work) <=> m # 0)
        BY <3>4, <3>7
      <4>5. \A i \in 1..m : (h + 1) + i - 1 = h + i
        BY <3>4
      <4> QED BY <3>7, <4>3, <4>4, <4>5
    <3>9. ASSUME NEW i \in 1..m
          PROVE  w[i] = Bytes(e, arrived)[i]
      <4>1. h + i \in 1..(arrived - b) /\ b + (h + i) - 1 = e + i - 1
        BY <3>2, <3>3, <3>4, <3>7
      <4> QED BY <3>6, <3>8, <4>1
    <3>10. w = Bytes(e, arrived)
      BY <3>6, <3>8, <3>9, SeqEqual
    <3> QED BY <2>1, <3>8, <3>10 DEF w, e
  <2>10. TypeOK'
    BY <1>1, <1>2, <2>1, <2>7, <2>9 DEF IInv, TypeOK
  <2>11. Layout'
    BY <1>1, <2>5, <2>6, <2>7 DEF IInv, Layout, Written, Extent
  <2>12. InOrder'
    BY <1>1, <1>2, <1>4, <2>7, <2>8 DEF InOrder
  <2>13. NoByteLost'
    <3>1. Extent(handled', Len(handled')) = End(f)
      BY <1>2, <2>7 DEF Extent
    <3>2. held' \o work' = work'
      BY <1>1, <1>2, <2>9
    <3> QED BY <1>1, <2>9, <3>1, <3>2 DEF NoByteLost
  <2>14. NothingWaits' /\ ExitIsJustified'
    BY <2>1 DEF NothingWaits, ExitIsJustified
  <2> QED BY <2>10, <2>11, <2>12, <2>13, <2>14 DEF IInv
<1> QED BY <1>5, <1>6

LEMMA BadMagicInv ==
  ASSUME IInv, BadMagic
  PROVE  IInv'
<1>1. /\ pc = "parse" /\ pc' = "exited"
      /\ ~MagicAt(work[1])
      /\ UNCHANGED <<sent, arrived, held, work, handled>>
  BY DEF BadMagic
<1>2. Len(work) > 0
  BY HeaderSizeAssumption DEF IInv, TypeOK, BadMagic, HeaderReady
<1>3. Len(handled) < Len(sent) /\ ~sent[Len(handled) + 1].magic
  BY <1>1, <1>2, HeaderIsNext
<1>4. TypeOK' /\ Layout'
  BY <1>1 DEF IInv, TypeOK, Layout, Written, Extent
<1>5. InOrder' /\ NoByteLost' /\ NothingWaits' /\ ExitIsJustified'
  BY <1>1, <1>3 DEF IInv, InOrder, NoByteLost, NothingWaits, ExitIsJustified
<1> QED BY <1>4, <1>5 DEF IInv

LEMMA FrameBehind ==
  ASSUME NEW a \in Nat, NEW h \in Nat, NEW l \in Nat, NEW b \in Nat,
         NEW m \in Nat, NEW c \in Nat,
         a + h + l <= b, b + h + m <= c, m > 0
  PROVE  a + h + l <= c /\ a + h < c
OBVIOUS

(* Returning from the call is where NothingWaits is at stake: a frame that *)
(* has arrived lies behind the first unhandled one, and that one is not    *)
(* complete.                                                               *)
LEMMA SaveRestInv ==
  ASSUME IInv, SaveRest
  PROVE  IInv'
<1> DEFINE n == Len(handled)
           f == sent[n + 1]
<1>1. /\ pc = "parse" /\ pc' = "idle"
      /\ ~FrameReady
      /\ HeaderReady => MagicAt(work[1])
      /\ held' = work /\ work' = <<>>
      /\ UNCHANGED <<sent, arrived, handled>>
  BY DEF SaveRest
<1>2. /\ sent \in Seq(Frame)
      /\ n \in 0..Len(sent)
      /\ arrived \in Nat
      /\ work \in Seq(Nat)
      /\ held = <<>>
  BY <1>1 DEF IInv, TypeOK, InOrder
<1>3. TypeOK' /\ Layout'
  BY <1>1, <1>2 DEF IInv, TypeOK, Layout, Written, Extent
<1>4. InOrder' /\ ExitIsJustified'
  BY <1>1 DEF IInv, InOrder, ExitIsJustified
<1>5. NoByteLost'
  <2>1. held' \o work' = held \o work
    BY <1>1, <1>2
  <2> QED BY <1>1, <2>1 DEF IInv, NoByteLost
<1>6. NothingWaits'
  <2>1. SUFFICES ASSUME NEW k \in 1..Len(sent), End(sent[k]) <= arrived,
                        sent[k].len > 0, k > n
                 PROVE  FALSE
    BY <1>1, <1>2 DEF NothingWaits
  <2>2. /\ sent[k] \in Frame /\ f \in Frame
        /\ sent[k].at \in Nat /\ f.at \in Nat
        /\ sent[k].len \in Nat /\ f.len \in Nat
        /\ HeaderSize \in Nat /\ HeaderSize > 0
    <3>1. n + 1 \in 1..Len(sent)
      BY <1>2, <2>1
    <3>2. sent[k] \in Frame /\ f \in Frame
      BY <1>2, <3>1
    <3>3. /\ sent[k].at \in Nat /\ f.at \in Nat
          /\ sent[k].len \in Lens /\ f.len \in Lens
      BY <3>2 DEF Frame
    <3>4. sent[k].len \in Nat /\ f.len \in Nat
      BY <3>3, LensAssumption
    <3> QED BY <3>2, <3>3, <3>4, HeaderSizeAssumption
  <2>3. Len(work) = arrived - f.at
    <3>1. n + 1 \in 1..Len(sent)
      BY <1>2, <2>1
    <3>2. f.at = Extent(sent, n)
      <4>1. f.at = Extent(sent, (n + 1) - 1)
        BY <3>1 DEF IInv, Layout
      <4>2. (n + 1) - 1 = n
        BY <1>2
      <4> QED BY <4>1, <4>2
    <3>3. work = Bytes(f.at, arrived)
      BY <1>1, <3>2, Buffered
    <3>4. f.at <= arrived
      BY <3>2 DEF IInv, Layout
    <3> QED BY <3>3, <3>4, <1>2, <2>2, BytesProperties
  <2>4. k = n + 1 \/ End(f) <= sent[k].at
    <3>1. n + 1 \in 1..Len(sent) /\ k >= n + 1
      BY <1>2, <2>1
    <3>2. n + 1 < k => End(f) <= sent[k].at
      BY <3>1 DEF IInv, Layout
    <3> QED BY <3>1, <3>2, <1>2
  <2>5. Len(work) > HeaderSize /\ HeaderSize + f.len <= Len(work)
    <3> DEFINE g == sent[k]
    <3>1. g.at + HeaderSize + g.len <= arrived /\ g.len > 0
      BY <2>1 DEF End
    <3>2. g = f \/ f.at + HeaderSize + f.len <= g.at
      BY <2>4 DEF End
    <3>3. /\ f.at \in Nat /\ f.len \in Nat /\ g.at \in Nat /\ g.len \in Nat
          /\ HeaderSize \in Nat /\ arrived \in Nat
      BY <1>2, <2>2
    <3> HIDE DEF f, g
    <3>4. CASE g = f
      BY ONLY <2>3, <3>1, <3>3, <3>4
    <3>5. CASE f.at + HeaderSize + f.len <= g.at
      <4>1. f.at + HeaderSize + f.len <= arrived /\ f.at + HeaderSize < arrived
        BY <3>1, <3>3, <3>5, FrameBehind
      <4> QED BY ONLY <2>3, <3>3, <4>1
    <3> QED BY <3>2, <3>4, <3>5
  <2>6. HeaderAt(work[1]) = f /\ MagicAt(work[1])
    BY <1>1, <2>2, <2>5, HeaderIsNext DEF HeaderReady
  <2> QED BY <1>1, <2>5, <2>6 DEF FrameReady, HeaderReady
<1> QED BY <1>3, <1>4, <1>5, <1>6 DEF IInv

THEOREM InductiveInvariant == Spec => []IInv
<1>1. Init => IInv
  BY InitInv
<1>2. IInv /\ [Next]_vars => IInv'
  <2> SUFFICES ASSUME IInv, [Next]_vars PROVE IInv'
    OBVIOUS
  <2>1. CASE \E len \in Lens, magic \in Magics : WriteFrame(len, magic)
    BY <2>1, WriteFrameInv
  <2>2. CASE Arrival
    BY <2>2, ReceiveInv DEF Arrival
  <2>3. CASE HandlePacket
    BY <2>3, HandlePacketInv
  <2>4. CASE BadMagic
    BY <2>4, BadMagicInv
  <2>5. CASE SaveRest
    BY <2>5, SaveRestInv
  <2>6. CASE UNCHANGED vars
    <3>1. TypeOK' /\ Layout'
      BY <2>6 DEF IInv, TypeOK, Layout, Written, Extent, vars
    <3>2. InOrder' /\ NoByteLost' /\ NothingWaits' /\ ExitIsJustified'
      BY <2>6 DEF IInv, InOrder, NoByteLost, NothingWaits, ExitIsJustified,
                  vars
    <3> QED BY <3>1, <3>2 DEF IInv
  <2> QED BY <2>1, <2>2, <2>3, <2>4, <2>5, <2>6 DEF Next, Parse
<1> QED BY <1>1, <1>2, PTL DEF Spec

(* The buffer is where the program counter says: taken over while frames   *)
(* are cut from it, held between two calls of server_receive().            *)
THEOREM TypeCorrect == Spec => []TypeOK
<1>1. IInv => TypeOK
  BY DEF IInv
<1> QED BY <1>1, InductiveInvariant, PTL

(* server_handle_packet() sees the frames of the stream in order, each     *)
(* whole and once, however the network cuts the stream.                    *)
THEOREM FramesInOrder == Spec => []InOrder
<1>1. IInv => InOrder
  BY DEF IInv
<1> QED BY <1>1, InductiveInvariant, PTL

(* No byte that has arrived is lost or duplicated between two calls of     *)
(* server_receive().                                                       *)
THEOREM BufferIsExact == Spec => []NoByteLost
<1>1. IInv => NoByteLost
  BY DEF IInv
<1> QED BY <1>1, InductiveInvariant, PTL

(* A complete frame never waits in the buffer for more bytes to arrive.    *)
THEOREM NoFrameWaits == Spec => []NothingWaits
<1>1. IInv => NothingWaits
  BY DEF IInv
<1> QED BY <1>1, InductiveInvariant, PTL

(* The program exits over "Invalid magic" only at a frame whose own header *)
(* is wrong.                                                               *)
THEOREM ExitsAreJustified == Spec => []ExitIsJustified
<1>1. IInv => ExitIsJustified
  BY DEF IInv
<1> QED BY <1>1, InductiveInvariant, PTL

(* Each step of the receive path is a step of the frame channel or none.   *)
LEMMA StepSimulation ==
  ASSUME IInv, [Next]_vars
  PROVE  [Channel!Next]_(Channel!vars)
<1> USE DEF Channel!vars
<1>1. /\ sent \in Seq(Frame)
      /\ Len(handled) \in 0..Len(sent)
      /\ work \in Seq(Nat)
  BY DEF IInv, TypeOK, InOrder
<1>2. ASSUME NEW len \in Lens, NEW magic \in Magics, WriteFrame(len, magic)
      PROVE  Channel!Write
  <2> DEFINE f == [at |-> Written, len |-> len, magic |-> magic]
  <2>1. f \in Frame
    <3>1. Written \in Nat
      BY <1>1, ExtentType DEF Written
    <3> QED BY <3>1 DEF Frame
  <2>2. sent' = Append(sent, f) /\ UNCHANGED <<handled, pc>>
    BY <1>2 DEF WriteFrame
  <2>3. /\ sent' \in Seq(Frame)
        /\ Len(sent') = Len(sent) + 1
        /\ \A k \in 1..Len(sent) : sent'[k] = sent[k]
    BY <1>1, <2>1, <2>2
  <2>4. SubSeq(sent', 1, Len(sent)) = sent
    <3>1. /\ SubSeq(sent', 1, Len(sent)) \in Seq(Frame)
          /\ Len(SubSeq(sent', 1, Len(sent))) = Len(sent)
          /\ \A k \in 1..Len(sent) : SubSeq(sent', 1, Len(sent))[k] = sent'[k]
      BY <1>1, <2>3
    <3> QED BY <1>1, <2>3, <3>1, SeqEqual
  <2> QED BY <2>2, <2>3, <2>4 DEF Channel!Write
<1>3. CASE Arrival
  BY <1>3 DEF Arrival, Receive, IInv, TypeOK
<1>4. ASSUME pc = "parse", HeaderReady
      PROVE  /\ Len(handled) < Len(sent)
             /\ HeaderAt(work[1]) = Channel!NextFrame
             /\ MagicAt(work[1]) <=> Channel!NextFrame.magic
  BY <1>1, <1>4, HeaderIsNext, HeaderSizeAssumption
     DEF HeaderReady, Channel!NextFrame
<1>5. CASE HandlePacket
  <2> DEFINE f == Channel!NextFrame
  <2>1. /\ pc = "parse" /\ HeaderReady /\ UNCHANGED sent
        /\ HeaderAt(work[1]) = f /\ f.magic
    BY <1>4, <1>5 DEF HandlePacket, FrameReady
  <2>2. f.len \in Nat
    <3>1. f \in Frame
      <4>1. Len(handled) + 1 \in 1..Len(sent)
        BY <1>1, <1>4, <2>1
      <4>2. sent[Len(handled) + 1] \in Frame
        BY <1>1, <4>1
      <4>3. Channel!NextFrame = sent[Len(handled) + 1]
        BY DEF Channel!NextFrame
      <4> QED BY <4>2, <4>3
    <3>2. f.len \in Lens
      BY <3>1 DEF Frame
    <3> QED BY <3>2, LensAssumption
  <2>3. Channel!Pending
    BY <1>4, <2>1 DEF Channel!Pending
  <2>4. CASE f.len = 0
    <3>1. pc' = "aborted" /\ UNCHANGED handled
      BY <1>5, <2>1, <2>4 DEF HandlePacket
    <3> QED BY <2>1, <2>3, <2>4, <3>1 DEF Channel!Next, Channel!Break, Acceptable
  <2>5. CASE f.len # 0
    <3>1. pc' = "parse" /\ handled' = Append(handled, f)
      BY <1>5, <2>1, <2>5 DEF HandlePacket
    <3> QED BY <2>1, <2>2, <2>3, <2>5, <3>1
            DEF Channel!Next, Channel!Handle, Acceptable
  <2> QED BY <2>4, <2>5
<1>6. CASE BadMagic
  <2>1. /\ pc = "parse" /\ pc' = "exited" /\ UNCHANGED <<sent, handled>>
        /\ ~Channel!NextFrame.magic
    BY <1>4, <1>6 DEF BadMagic
  <2>2. Channel!Pending
    BY <1>4, <1>6 DEF Channel!Pending, BadMagic
  <2> QED BY <2>1, <2>2 DEF Channel!Next, Channel!Break, Acceptable
<1>7. CASE SaveRest
  BY <1>7 DEF SaveRest
<1>8. CASE UNCHANGED vars
  BY <1>8 DEF vars
<1> QED BY <1>2, <1>3, <1>5, <1>6, <1>7, <1>8 DEF Next, Parse, Channel!Next

(* server.c's receive path implements the frame channel.                   *)
THEOREM ImplementsChannel == Spec => Channel!Spec
<1>1. Init => Channel!Init
  BY DEF Init, Channel!Init
<1>2. IInv /\ [Next]_vars => [Channel!Next]_(Channel!vars)
  BY StepSimulation
<1> QED BY <1>1, <1>2, InductiveInvariant, PTL DEF Spec, Channel!Spec
=============================================================================
