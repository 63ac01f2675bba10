-------------------------- MODULE TcpStreamProofs --------------------------
(* Theorems about TcpStream, for every stream, every way to cut it into segments
   and packets, every order of arrival and every limit of the buffer. *)
EXTENDS TcpStream, TLAPS, FiniteSetTheorems, SequenceTheorems

Byte == 0..(Total - 1)

(* Bytes that were adjacent in the stream. *)
Run(d) == \A k \in 1..Len(d) : d[k] = d[1] + (k - 1)

(* What is in the buffer was adjacent and ends at next; nothing is in it before
   the stream has begun. *)
Framed ==
    /\ Run(data)
    /\ data # <<>> => next = SeqNo(data[Len(data)] + 1)
    /\ waiting \/ seen = {} => data = <<>> /\ DOMAIN pending = {}

(* A SYN, or a counter that was read right, says that the aligner is in place. *)
Trusted == aligner.synced /\ (~incoming \/ aligner.tick >= 0)

(* Then it is, and what is left of a packet leaves room for the next segment: an
   overflow would move the buffer on and leave the aligner where it was. *)
Placed ==
    Trusted =>
        /\ AtPacket /\ ~waiting
        /\ pc = "idle" => Len(data) < MaxPacket

Inv ==
    /\ TypeOK /\ Framed /\ Placed
    /\ ~incoming => DecryptsProperly

-----------------------------------------------------------------------------
LEMMA Sizes ==
    /\ Total \in Nat /\ Half \in Nat /\ Total < Half /\ Isn \in 0..(2 * Half - 1)
    /\ \A s \in Segment : /\ s.pos \in 0..Total /\ s.len \in 1..Total /\ s.pos + s.len <= Total
                          /\ s.pos \in Nat /\ s.len \in Nat \ {0}
    /\ MaxPending \in Nat /\ HeaderSize \in Nat \ {0}
BY StreamAssumption

(* Sequence numbers of a stream that is shorter than half of their space. *)
LEMMA SeqNoOf ==
    ASSUME NEW p \in 0..Total
    PROVE  /\ SeqNo(p) \in 0..(2 * Half - 1)
           /\ SeqNo(p) = IF Isn + p < 2 * Half THEN Isn + p ELSE Isn + p - 2 * Half
<1> DEFINE n == 2 * Half
<1>1. Total \in Nat /\ n \in Nat /\ n > 0 /\ Total < n /\ Isn \in 0..(n - 1)
    BY Sizes
<1>2. (Isn + p) % n = IF Isn + p < n THEN Isn + p ELSE Isn + p - n
    <2> HIDE DEF n
    <2>1. CASE Isn + p < n
        BY <1>1, <2>1
    <2>2. CASE ~(Isn + p < n)
        BY <1>1, <2>2
    <2> QED BY <2>1, <2>2
<1> QED BY <1>1, <1>2 DEF SeqNo

LEMMA SeqNoInjective ==
    ASSUME NEW p \in 0..Total, NEW q \in 0..Total, SeqNo(p) = SeqNo(q)
    PROVE  p = q
BY SeqNoOf, Sizes

(* wrapping_sub tells earlier from later. *)
LEMMA AheadOf ==
    ASSUME NEW p \in 0..Total, NEW q \in 0..Total
    PROVE  Ahead(SeqNo(p), SeqNo(q)) <=> q <= p
<1> DEFINE n == 2 * Half
           a == SeqNo(p) - SeqNo(q)
<1>1. n \in Nat /\ n > 0 /\ Half \in Nat /\ n = Half + Half /\ Total \in Nat /\ Total < Half
    BY Sizes
<1>2. /\ a \in Int /\ -n < a /\ a < n
      /\ q <= p => a = p - q \/ a = p - q - n
      /\ p < q => a = p - q \/ a = p - q + n
    BY SeqNoOf, Sizes
<1>3. a % n = IF a >= 0 THEN a ELSE a + n
    <2> HIDE DEF n, a
    <2> QED BY <1>1, <1>2
<1> QED BY <1>1, <1>2, <1>3 DEF Ahead, Distance

LEMMA PayloadOf ==
    ASSUME NEW s \in Segment
    PROVE  /\ Payload(s) \in Seq(Byte) /\ Len(Payload(s)) = s.len
           /\ \A k \in 1..s.len : Payload(s)[k] = s.pos + k - 1
BY Sizes DEF Payload, Byte

(* Appending the segment that follows what is in the buffer. *)
LEMMA ExtendRun ==
    ASSUME NEW d \in Seq(Byte), Run(d), NEW s \in Segment,
           d # <<>> => d[Len(d)] + 1 = s.pos
    PROVE  /\ d \o Payload(s) \in Seq(Byte) /\ Run(d \o Payload(s)) /\ d \o Payload(s) # <<>>
           /\ (d \o Payload(s))[Len(d \o Payload(s))] + 1 = s.pos + s.len
           /\ (d \o Payload(s))[1] = IF d = <<>> THEN s.pos ELSE d[1]
<1> DEFINE e == d \o Payload(s)
           p == s.pos
           n == s.len
<1>1. /\ e \in Seq(Byte) /\ Len(e) = Len(d) + n
      /\ \A k \in 1..Len(e) :
             e[k] = IF k <= Len(d) THEN d[k] ELSE Payload(s)[k - Len(d)]
    <2>1. Payload(s) \in Seq(Byte) /\ Len(Payload(s)) = n
        BY PayloadOf
    <2> HIDE DEF e
    <2>2. /\ d \o Payload(s) \in Seq(Byte) /\ Len(d \o Payload(s)) = Len(d) + Len(Payload(s))
          /\ \A k \in 1..(Len(d) + Len(Payload(s))) :
                 (d \o Payload(s))[k] = IF k <= Len(d) THEN d[k] ELSE Payload(s)[k - Len(d)]
        BY <2>1, ConcatProperties
    <2> QED BY <2>1, <2>2, Zenon DEF e
<1>2. p \in Nat /\ n \in Nat \ {0} /\ Len(d) \in Nat
    BY Sizes
<1> HIDE DEF e
<1>3. \A k \in 1..Len(e) : e[k] = IF k <= Len(d) THEN d[k] ELSE p + (k - Len(d)) - 1
    BY <1>1, <1>2, PayloadOf
<1>4. d # <<>> => d[Len(d)] + 1 = p
    OBVIOUS
<1> HIDE DEF p, n
<1>5. Len(d) \in Nat /\ Len(e) >= 1 /\ Len(e) \in Nat /\ Len(e) > Len(d)
    BY <1>1, <1>2
<1>6. e # <<>> /\ e[Len(e)] + 1 = p + n
    BY <1>1, <1>2, <1>3, <1>5
<1>7. Run(e) /\ e[1] = IF d = <<>> THEN p ELSE d[1]
    <2>1. CASE d = <<>>
        <3>1. \A k \in 1..Len(e) : e[k] = p + k - 1
            BY <1>2, <1>3, <2>1
        <3> QED BY <3>1, <1>2, <1>5, <2>1 DEF Run
    <2>2. CASE d # <<>>
        <3>1. Len(d) >= 1 /\ d[1] \in Int /\ d[Len(d)] \in Int
            BY <2>2, Sizes DEF Byte
        <3>3. \A k \in 1..Len(d) : d[k] = d[1] + (k - 1)
            BY DEF Run
        <3>2. p = d[1] + Len(d) /\ e[1] = d[1]
            <4>1. d[Len(d)] = d[1] + (Len(d) - 1)
                BY <3>1, <3>3, <1>2
            <4>2. e[1] = d[1]
                BY <3>1, <1>2, <1>3, <1>5
            <4> QED BY <4>1, <4>2, <3>1, <2>2, <1>2, <1>4
        <3>4. ASSUME NEW k \in 1..Len(e) PROVE e[k] = d[1] + (k - 1)
            <4>1. CASE k <= Len(d)
                <5>1. k \in 1..Len(d) /\ e[k] = d[k]
                    BY <4>1, <1>3, <1>5
                <5> QED BY <5>1, <3>3
            <4>2. CASE ~(k <= Len(d))
                <5>1. e[k] = p + (k - Len(d)) - 1
                    BY <4>2, <1>3
                <5>2. k \in Int /\ Len(d) \in Int
                    BY <1>5
                <5> QED BY SMTT(30), <5>1, <5>2, <3>1, <3>2
            <4> QED BY <4>1, <4>2
        <3> QED BY <2>2, <3>2, <3>4 DEF Run
    <2> QED BY <2>1, <2>2
<1> QED BY <1>1, <1>6, <1>7 DEF e, p, n

(* Taking bytes from the front. *)
LEMMA DropRun ==
    ASSUME NEW d \in Seq(Byte), Run(d), NEW n \in 1..Len(d)
    PROVE  /\ SubSeq(d, n + 1, Len(d)) \in Seq(Byte) /\ Run(SubSeq(d, n + 1, Len(d)))
           /\ Len(SubSeq(d, n + 1, Len(d))) = Len(d) - n
           /\ (SubSeq(d, n + 1, Len(d)) = <<>>) <=> (n = Len(d))
           /\ SubSeq(d, n + 1, Len(d)) # <<>> =>
                 /\ SubSeq(d, n + 1, Len(d))[1] = d[1] + n
                 /\ SubSeq(d, n + 1, Len(d))[Len(SubSeq(d, n + 1, Len(d)))] = d[Len(d)]
           /\ d[Len(d)] = d[1] + Len(d) - 1 /\ d[1] \in Byte
<1> DEFINE e == SubSeq(d, n + 1, Len(d))
<1>1. /\ e \in Seq(Byte) /\ Len(e) = Len(d) - n /\ Len(d) \in Nat
      /\ \A k \in 1..Len(e) : e[k] = d[n + k]
    OBVIOUS
<1> HIDE DEF e
<1>2. Len(d) \in Nat /\ Len(d) >= 1 /\ d[1] \in Byte /\ d[1] \in Int
    BY Sizes DEF Byte
<1>3. d[Len(d)] = d[1] + Len(d) - 1
    BY <1>2 DEF Run
<1>4. \A k \in 1..Len(e) : e[k] = d[1] + n + k - 1
    BY <1>1, <1>2 DEF Run
<1>5. (e = <<>>) <=> (Len(e) = 0)
    BY <1>1
<1>6. Run(e)
    <2>1. \A k \in 1..Len(e) : e[1] = d[1] + n
        BY <1>1, <1>2, <1>4
    <2> QED BY <1>2, <1>4, <2>1 DEF Run
<1>7. e # <<>> => e[1] = d[1] + n /\ e[Len(e)] = d[Len(d)]
    BY <1>1, <1>2, <1>3, <1>4, <1>5
<1>8. (e = <<>>) <=> (n = Len(d))
    BY <1>1, <1>2, <1>5
<1> QED BY <1>1, <1>2, <1>3, <1>6, <1>7, <1>8 DEF e

-----------------------------------------------------------------------------
Aligner == [synced : BOOLEAN, tick : Nat \cup {None, Garbage}, bytes : Nat,
            a : 0..Total \cup {None}, cipher : Nat]

LEMMA SyncedOrNot ==
    /\ Unsynced \in Aligner /\ Unsynced.synced = FALSE
    /\ NewSynced \in Aligner /\ NewSynced.tick = None /\ NewSynced.cipher = 0
<1>1. Unsynced \in Aligner
    BY DEF Unsynced, Aligner
<1>2. NewSynced \in Aligner
    BY <1>1 DEF NewSynced, Aligner
<1>3. Unsynced.synced = FALSE /\ Unsynced.tick = None /\ Unsynced.cipher = 0
    BY DEF Unsynced
<1>4. NewSynced.tick = None /\ NewSynced.cipher = 0
    BY <1>1, <1>3 DEF NewSynced, Aligner
<1> QED BY <1>1, <1>2, <1>3, <1>4

LEMMA InitInv == Init => Inv
<1> SUFFICES ASSUME Init PROVE Inv
    OBVIOUS
<1>1. TypeOK
    <2>1. next \in 0..(2 * Half - 1)
        BY SeqNoOf, Sizes DEF Init
    <2>2. aligner \in Aligner
        BY SyncedOrNot DEF Init
    <2>3. data \in Seq(0..(Total - 1)) /\ DOMAIN pending = {} /\ invalid \in Nat
        BY DEF Init, NoPending
    <2> QED BY <2>1, <2>2, <2>3 DEF Init, TypeOK, Aligner
<1>2. Framed
    BY DEF Init, Framed, Run, NoPending
<1>3. Placed
    <2> SUFFICES ASSUME Trusted PROVE Placed
        BY DEF Placed
    <2>1. ~incoming /\ next = SeqNo(0) /\ waiting = FALSE /\ aligner = NewSynced
        BY SyncedOrNot DEF Init, Trusted, None
    <2>2. \A p \in Position : p = 0
        BY <2>1, SeqNoInjective, Sizes DEF Init, Position
    <2>3. 0 \in Boundary /\ Key[0] = 0 /\ NewSynced.cipher = 0
        BY StreamAssumption, SyncedOrNot
    <2>4. Len(data) < MaxPacket
        BY StreamAssumption DEF Init
    <2> QED BY <2>1, <2>2, <2>3, <2>4 DEF Placed, AtPacket
<1>4. DecryptsProperly
    BY DEF Init, DecryptsProperly
<1> QED BY <1>1, <1>2, <1>3, <1>4 DEF Inv

(* A segment that follows the buffer joins it. *)
LEMMA Extended ==
    ASSUME Inv, NEW s \in Segment, data = <<>> \/ next = SeqNo(s.pos), Extend(s)
    PROVE  /\ data' \in Seq(Byte) /\ data' # <<>> /\ Run(data')
           /\ next' = SeqNo(data'[Len(data')] + 1) /\ next' \in 0..(2 * Half - 1)
           /\ data'[1] = IF data = <<>> THEN s.pos ELSE data[1]
<1>1. data \in Seq(Byte) /\ Run(data)
    BY DEF Inv, TypeOK, Framed, Byte
<1>2. data # <<>> => data[Len(data)] + 1 = s.pos
    <2> SUFFICES ASSUME data # <<>> PROVE data[Len(data)] + 1 = s.pos
        OBVIOUS
    <2>1. data[Len(data)] \in Byte
        BY <1>1
    <2>2. data[Len(data)] + 1 \in 0..Total /\ s.pos \in 0..Total
        BY <2>1, Sizes DEF Byte
    <2>3. SeqNo(data[Len(data)] + 1) = SeqNo(s.pos)
        BY DEF Inv, Framed
    <2> QED BY <2>2, <2>3, SeqNoInjective
<1>3. /\ data \o Payload(s) \in Seq(Byte) /\ Run(data \o Payload(s)) /\ data \o Payload(s) # <<>>
      /\ (data \o Payload(s))[Len(data \o Payload(s))] + 1 = s.pos + s.len
      /\ (data \o Payload(s))[1] = IF data = <<>> THEN s.pos ELSE data[1]
    BY <1>1, <1>2, ExtendRun
<1>4. data' = data \o Payload(s) /\ next' = SeqNo(s.pos + s.len)
    BY DEF Extend
<1>5. s.pos + s.len \in 0..Total
    BY Sizes
<1> QED BY <1>3, <1>4, <1>5, SeqNoOf

(* What is left when bytes are taken from the front. *)
LEMMA Dropped ==
    ASSUME Inv, NEW n \in 1..Len(data), Drop(n), next' = next
    PROVE  /\ data' \in Seq(Byte) /\ Run(data') /\ Len(data') = Len(data) - n
           /\ data' # <<>> => data'[1] = data[1] + n /\ next' = SeqNo(data'[Len(data')] + 1)
           /\ data' = <<>> => next' = SeqNo(data[1] + n)
           /\ data[1] \in Byte /\ data # <<>> /\ ~waiting /\ seen # {}
<1>1. data \in Seq(Byte) /\ Run(data) /\ Len(data) \in Nat /\ data # <<>>
    BY DEF Inv, TypeOK, Framed, Byte
<1>2. data' = SubSeq(data, n + 1, Len(data))
    BY DEF Drop
<1>3. /\ data' \in Seq(Byte) /\ Run(data') /\ Len(data') = Len(data) - n
      /\ (data' = <<>>) <=> (n = Len(data))
      /\ data' # <<>> => data'[1] = data[1] + n /\ data'[Len(data')] = data[Len(data)]
      /\ data[Len(data)] = data[1] + Len(data) - 1 /\ data[1] \in Byte
    BY <1>1, <1>2, DropRun
<1>4. next = SeqNo(data[Len(data)] + 1) /\ ~waiting /\ seen # {}
    BY <1>1 DEF Inv, Framed
<1>5. data' = <<>> => data[Len(data)] + 1 = data[1] + n
    BY <1>1, <1>3 DEF Byte
<1> QED BY <1>1, <1>3, <1>4, <1>5

(* Where the buffer begins after a step. *)
LEMMA Begins ==
    ASSUME NEW q \in Boundary, q \in 0..Total, aligner'.cipher = Key[q],
           data' # <<>> => data'[1] = q, data' = <<>> => next' = SeqNo(q)
    PROVE  AtPacket'
<1>1. ASSUME NEW p \in Position' PROVE p = q
    BY <1>1, SeqNoInjective DEF Position
<1> QED BY <1>1 DEF AtPacket

LEMMA SynAckInv == ASSUME Inv, SynAck, incoming' = incoming PROVE Inv'
<1>1. data = <<>> /\ DOMAIN pending = {} /\ Run(data)
    BY DEF SynAck, Inv, Framed
<1>2. TypeOK'
    <2>1. next' \in 0..(2 * Half - 1)
        BY SeqNoOf, Sizes DEF SynAck
    <2>2. aligner \in Aligner
        BY DEF Inv, TypeOK, Aligner
    <2>3. aligner' \in Aligner
        BY <2>2 DEF SynAck, Aligner
    <2> QED BY <2>1, <2>3 DEF SynAck, Inv, TypeOK, ghosts, Aligner
<1>3. Framed'
    BY <1>1 DEF SynAck, Framed, ghosts
<1>4. Placed'
    BY DEF SynAck, Placed, Trusted, None, Inv, TypeOK
<1>5. (~incoming => DecryptsProperly)'
    BY DEF SynAck
<1> QED BY <1>2, <1>3, <1>4, <1>5 DEF Inv

(* The steps that leave the buffer, and all that says where it is, alone. *)
LEMMA NoGapInv == ASSUME Inv, NoGap, incoming' = incoming PROVE Inv'
<1> USE DEF NoGap, Inv, buffer, ghosts
<1>1. TypeOK'
    BY DEF TypeOK
<1>2. Framed'
    BY DEF Framed
<1>3. Placed'
    BY DEF Placed, Trusted, AtPacket, Position
<1> QED BY <1>1, <1>2, <1>3 DEF DecryptsProperly

LEMMA HeaderOf ==
    ASSUME Inv, NEW h \in Headers
    PROVE  /\ Len(data) >= HeaderSize /\ data # <<>> /\ data[1] \in Byte
           /\ h.size \in Nat /\ h.size <= MaxPacket /\ h.tick \in BOOLEAN
           /\ data[1] \in Start => /\ h.size = Size[data[1]] /\ h.size >= HeaderSize
                                   /\ h.tick => Tick[data[1]] > 0
<1>1. data \in Seq(Byte) /\ Len(data) >= HeaderSize
    BY Sizes DEF Headers, Inv, TypeOK, Byte
<1>2. data # <<>> /\ data[1] \in Byte
    BY <1>1, Sizes
<1>3. HeaderSize \in Nat /\ MaxPacket \in Nat
    BY StreamAssumption
<1>4. CASE data[1] \in Start
    <2>1. Size[data[1]] \in HeaderSize..MaxPacket /\ h = [size |-> Size[data[1]], tick |-> Tick[data[1]] > 0]
        BY <1>4, <1>1, <1>2, StreamAssumption DEF Headers
    <2>4. h.size = Size[data[1]] /\ h.tick = (Tick[data[1]] > 0)
        BY <2>1
    <2>5. (Tick[data[1]] > 0) \in BOOLEAN
        OBVIOUS
    <2>2. h.size = Size[data[1]] /\ h.tick \in BOOLEAN /\ (h.tick => Tick[data[1]] > 0)
        BY <2>4, <2>5, Zenon
    <2>3. h.size \in Nat /\ h.size >= HeaderSize /\ h.size <= MaxPacket
        BY <2>1, <2>2, <1>3
    <2> QED BY <2>2, <2>3, <1>1, <1>2
<1>5. CASE data[1] \notin Start
    <2>1. h \in [size : {0} \cup HeaderSize..MaxPacket, tick : BOOLEAN]
        BY <1>5, <1>1, <1>2, <1>3, Sizes DEF Headers
    <2> QED BY <2>1, <1>1, <1>2, <1>3, <1>5
<1> QED BY <1>4, <1>5

LEMMA NeedMoreDataInv == ASSUME Inv, NeedMoreData, incoming' = incoming PROVE Inv'
<1> USE DEF NeedMoreData, Inv, buffer, ghosts
<1>1. TypeOK'
    BY DEF TypeOK
<1>2. Framed'
    BY DEF Framed
<1>3. Len(data) < MaxPacket
    <2>1. HeaderSize <= MaxPacket /\ HeaderSize \in Nat /\ MaxPacket \in Nat /\ Len(data) \in Nat
        BY StreamAssumption DEF TypeOK
    <2>2. CASE Len(data) < HeaderSize
        BY <2>1, <2>2
    <2>3. CASE \E h \in Headers : h.size > Len(data)
        BY <2>1, <2>3, HeaderOf
    <2> QED BY <2>2, <2>3
<1>4. Placed'
    BY <1>3 DEF Placed, Trusted, AtPacket, Position
<1> QED BY <1>1, <1>2, <1>4 DEF DecryptsProperly

(* The segment that is expected keeps the aligner in place. *)
LEMMA Joined ==
    ASSUME Inv, NEW s \in Segment, next = SeqNo(s.pos), Extend(s), aligner' = aligner, AtPacket
    PROVE  AtPacket'
<1>1. data' # <<>> /\ data'[1] = IF data = <<>> THEN s.pos ELSE data[1]
    BY Extended
<1>2. s.pos \in 0..Total
    BY Sizes
<1>3. data = <<>> => s.pos \in Position
    BY <1>2 DEF Position
<1>4. data # <<>> => data[1] \in Position /\ data[1] \in 0..Total
    BY Sizes DEF Position, Inv, TypeOK
<1> QED BY <1>1, <1>2, <1>3, <1>4, Begins DEF AtPacket

LEMMA ReceiveInv == ASSUME Inv, NEW s \in Segment, Receive(s), incoming' = incoming PROVE Inv'
<1>1. /\ pc = "idle" /\ UNCHANGED <<invalid, aligner, out>>
      /\ s.len \in Nat /\ Len(data) \in Nat /\ Len(data) >= 0 /\ SeqNo(s.pos) \in 0..(2 * Half - 1)
    <2>1. pc = "idle" /\ UNCHANGED <<invalid, aligner, out>>
        BY DEF Receive
    <2>2. Len(data) \in Nat
        BY DEF Inv, TypeOK
    <2> QED BY <2>1, <2>2, Sizes, SeqNoOf
<1>2. (~incoming => DecryptsProperly)'
    BY <1>1 DEF Inv, DecryptsProperly
<1>3. CASE Len(data) + s.len > MaxBuffer
    <2>1. Restart /\ pc' = "gap" /\ UNCHANGED <<next, seen>>
        BY <1>3 DEF Receive
    <2>2. TypeOK'
        BY <1>1, <2>1 DEF Inv, TypeOK, Restart, NoPending
    <2>3. Framed'
        BY <2>1 DEF Framed, Run, Restart, NoPending
    <2>4. ~Trusted
        <3>1. s.len + MaxPacket <= MaxBuffer + 1 /\ MaxPacket \in Nat /\ MaxBuffer \in Nat
            BY StreamAssumption
        <3>2. Trusted => Len(data) < MaxPacket
            BY <1>1 DEF Inv, Placed
        <3> QED BY <3>1, <3>2, <1>1, <1>3
    <2>5. Placed'
        BY <1>1, <2>4 DEF Placed, Trusted
    <2> QED BY <1>2, <2>2, <2>3, <2>5 DEF Inv
<1>4. CASE ~(Len(data) + s.len > MaxBuffer) /\ waiting /\ s.len >= Mtu
    <2>1. pc' = "gap" /\ UNCHANGED <<data, next, pending, waiting, seen, loss>>
        BY <1>4 DEF Receive
    <2>2. TypeOK'
        BY <1>1, <2>1 DEF Inv, TypeOK
    <2>3. Framed'
        BY <2>1 DEF Inv, Framed
    <2>4. Placed'
        BY <1>1, <1>4, <2>1 DEF Inv, Placed, Trusted
    <2> QED BY <1>2, <2>2, <2>3, <2>4 DEF Inv
<1>5. CASE ~(Len(data) + s.len > MaxBuffer) /\ ~(waiting /\ s.len >= Mtu)
    <2> DEFINE expected == IF waiting THEN SeqNo(s.pos) ELSE next
    <2>1. /\ waiting' = FALSE /\ seen' = seen \cup {s} /\ seen' # {} /\ loss' = loss
          /\ seen' \subseteq Segment
        BY <1>5 DEF Receive, Inv, TypeOK
    <2>2. CASE SeqNo(s.pos) = expected
        <3>1. Extend(s) /\ pc' = "flush" /\ pending' = pending
            BY <1>5, <2>2 DEF Receive
        <3>2. data = <<>> \/ next = SeqNo(s.pos)
            BY <2>2 DEF Inv, Framed
        <3>3. /\ data' \in Seq(Byte) /\ data' # <<>> /\ Run(data')
              /\ next' = SeqNo(data'[Len(data')] + 1) /\ next' \in 0..(2 * Half - 1)
            BY <3>1, <3>2, Extended
        <3>4. TypeOK'
            BY <1>1, <2>1, <3>1, <3>3 DEF Inv, TypeOK, Byte
        <3>5. Framed'
            BY <2>1, <3>3 DEF Framed
        <3>6. Placed'
            <4> SUFFICES ASSUME Trusted' PROVE Placed'
                BY DEF Placed
            <4>1. Trusted
                BY <1>1 DEF Trusted
            <4>2. AtPacket /\ ~waiting
                BY <4>1 DEF Inv, Placed
            <4>3. AtPacket'
                BY <4>2, <2>2, <3>1, <1>1, Joined
            <4> QED BY <4>3, <2>1, <3>1 DEF Placed
        <3> QED BY <1>2, <3>4, <3>5, <3>6 DEF Inv
    <2>3. CASE ~(SeqNo(s.pos) = expected)
        <3>1. /\ pc' = "gap" /\ UNCHANGED <<data, next>> /\ ~waiting
              /\ pending' = IF Ahead(SeqNo(s.pos), next)
                            THEN [t \in DOMAIN pending \cup {SeqNo(s.pos)} |->
                                      IF t = SeqNo(s.pos) THEN s ELSE pending[t]]
                            ELSE pending
            BY <1>5, <2>3 DEF Receive
        <3>2. /\ DOMAIN pending' \subseteq 0..(2 * Half - 1)
              /\ \A t \in DOMAIN pending' : pending'[t] \in Segment /\ SeqNo(pending'[t].pos) = t
            BY <3>1, <1>1 DEF Inv, TypeOK
        <3>3. TypeOK'
            BY <1>1, <2>1, <3>1, <3>2 DEF Inv, TypeOK
        <3>4. Framed'
            BY <2>1, <3>1 DEF Inv, Framed
        <3>5. Placed'
            BY <1>1, <2>1, <3>1 DEF Inv, Placed, Trusted, AtPacket, Position
        <3> QED BY <1>2, <3>3, <3>4, <3>5 DEF Inv
    <2> QED BY <2>2, <2>3
<1> QED BY <1>3, <1>4, <1>5

LEMMA FlushInv == ASSUME Inv, Flush, incoming' = incoming PROVE Inv'
<1>1. UNCHANGED <<waiting, invalid, aligner, out, seen, loss>>
    BY DEF Flush, ghosts
<1>2. (~incoming => DecryptsProperly)'
    BY <1>1 DEF Inv, DecryptsProperly
<1>3. CASE next \in DOMAIN pending
    <2> DEFINE s == pending[next]
    <2>1. s \in Segment /\ next = SeqNo(s.pos)
        BY <1>3 DEF Inv, TypeOK
    <2>2. Extend(s) /\ pc' = pc /\ pending' = Restrict(pending, DOMAIN pending \ {next})
        BY <1>3 DEF Flush
    <2>3. /\ data' \in Seq(Byte) /\ data' # <<>> /\ Run(data')
          /\ next' = SeqNo(data'[Len(data')] + 1) /\ next' \in 0..(2 * Half - 1)
        BY <2>1, <2>2, Extended
    <2>4. /\ DOMAIN pending' \subseteq DOMAIN pending
          /\ \A t \in DOMAIN pending' : pending'[t] = pending[t]
        BY <2>2 DEF Restrict
    <2>5. TypeOK'
        BY ZenonT(60), <1>1, <2>2, <2>3, <2>4 DEF Inv, TypeOK, Byte
    <2>6. Framed'
        BY <1>1, <1>3, <2>3 DEF Inv, Framed
    <2>7. Placed'
        <3> SUFFICES ASSUME Trusted' PROVE Placed'
            BY DEF Placed
        <3>1. Trusted
            BY <1>1 DEF Trusted
        <3>2. AtPacket /\ ~waiting
            BY <3>1 DEF Inv, Placed
        <3>3. AtPacket'
            BY <3>2, <2>1, <2>2, <1>1, Joined
        <3>4. pc' # "idle"
            BY <2>2 DEF Flush
        <3> QED BY <3>2, <3>3, <3>4, <1>1 DEF Placed
    <2> QED BY <1>2, <2>5, <2>6, <2>7 DEF Inv
<1>4. CASE next \notin DOMAIN pending
    <2>1. /\ UNCHANGED <<data, next>> /\ pc' = IF pc = "flush" THEN "gap" ELSE "extract"
          /\ pending' = Restrict(pending, {t \in DOMAIN pending : Ahead(t, next)})
        BY <1>4 DEF Flush
    <2>2. /\ DOMAIN pending' \subseteq DOMAIN pending
          /\ \A t \in DOMAIN pending' : pending'[t] = pending[t]
        BY <2>1 DEF Restrict
    <2>3. TypeOK'
        BY <1>1, <2>1, <2>2 DEF Inv, TypeOK
    <2>4. Framed'
        BY <1>1, <2>1, <2>2 DEF Inv, Framed
    <2>5. Placed'
        BY <1>1, <2>1 DEF Inv, Placed, Trusted, AtPacket, Position
    <2> QED BY <1>2, <2>3, <2>4, <2>5 DEF Inv
<1> QED BY <1>3, <1>4

LEMMA SkipGapInv == ASSUME Inv, SkipGap, incoming' = incoming PROVE Inv'
<1>1. PICK t \in DOMAIN pending : next' = t
    BY DEF SkipGap
<1>2. /\ data' = <<>> /\ invalid' = 0 /\ aligner' = Unsynced /\ pc' = "reflush"
      /\ UNCHANGED <<pending, waiting, out, seen>> /\ loss' \in {"skipped", loss}
      /\ DOMAIN pending # {}
    BY DEF SkipGap, Skipped
<1>3. TypeOK'
    <2>1. aligner' \in Aligner /\ next' \in 0..(2 * Half - 1)
        BY <1>1, <1>2, SyncedOrNot DEF Inv, TypeOK
    <2> QED BY <2>1, <1>2 DEF Inv, TypeOK, Aligner
<1>4. Framed'
    BY <1>2 DEF Inv, Framed, Run
<1>5. Placed'
    BY <1>2, SyncedOrNot DEF Placed, Trusted
<1>6. (~incoming => DecryptsProperly)'
    BY <1>2 DEF Inv, DecryptsProperly
<1> QED BY <1>3, <1>4, <1>5, <1>6 DEF Inv

LEMMA InvalidHeaderInv == ASSUME Inv, InvalidHeader, incoming' = incoming PROVE Inv'
<1>1. PICK h \in Headers : h.size = 0
    BY DEF InvalidHeader
<1>2. UNCHANGED <<next, pc, out, seen>>
    BY DEF InvalidHeader
<1>3. data # <<>> /\ data[1] \notin Start /\ data[1] \in Byte /\ Len(data) >= 1
    BY <1>1, HeaderOf, Sizes
<1>4. ~Trusted
    <2>1. data[1] \notin Boundary
        BY <1>3, Sizes DEF Boundary, Byte
    <2> QED BY <1>3, <2>1 DEF Inv, Placed, AtPacket, Position
<1>5. (~incoming => DecryptsProperly)'
    BY <1>2 DEF Inv, DecryptsProperly
<1>6. CASE invalid + 1 >= MaxInvalid
    <2>1. Restart /\ invalid' = 0 /\ aligner' = Unsynced
        BY <1>6 DEF InvalidHeader
    <2>2. TypeOK'
        BY <2>1, <1>2, SyncedOrNot DEF Inv, TypeOK, Restart, NoPending, Aligner
    <2>3. Framed'
        BY <2>1 DEF Framed, Run, Restart, NoPending
    <2>4. Placed'
        BY <2>1, SyncedOrNot DEF Placed, Trusted
    <2> QED BY <1>5, <2>2, <2>3, <2>4 DEF Inv
<1>7. CASE ~(invalid + 1 >= MaxInvalid)
    <2>1. /\ Drop(1) /\ invalid' = invalid + 1
          /\ UNCHANGED <<pending, waiting, aligner, loss>>
        BY <1>7 DEF InvalidHeader
    <2>2. 1 \in 1..Len(data)
        BY <1>3 DEF Inv, TypeOK
    <2>3. /\ data' \in Seq(Byte) /\ Run(data') /\ ~waiting /\ seen # {}
          /\ data' # <<>> => next' = SeqNo(data'[Len(data')] + 1)
        BY <2>1, <2>2, <1>2, Dropped
    <2>4. TypeOK'
        BY <2>1, <2>3, <1>2 DEF Inv, TypeOK, Byte
    <2>5. Framed'
        BY <2>1, <2>3, <1>2 DEF Framed
    <2>6. Placed'
        BY <2>1, <1>2, <1>4 DEF Placed, Trusted
    <2> QED BY <1>5, <2>4, <2>5, <2>6 DEF Inv
<1> QED BY <1>6, <1>7

LEMMA BoundaryWithin == \A p \in Boundary : p \in 0..Total
BY StreamAssumption DEF Boundary

LEMMA WholeOf ==
    ASSUME Inv, NEW h \in Headers, Complete(h)
    PROVE  /\ h.size \in 1..Len(data) /\ h.size \in Nat /\ h.size - HeaderSize \in Nat
           /\ data[1] \in 0..Total /\ data[1] \in Byte /\ data # <<>>
<1>1. /\ h.size \in Nat /\ h.size >= HeaderSize /\ Len(data) >= h.size /\ Len(data) \in Nat
      /\ data[1] \in Byte /\ data # <<>>
    BY HeaderOf DEF Complete, Inv, TypeOK
<1>2. data[1] \in 0..Total
    BY <1>1, Sizes DEF Byte
<1> QED BY <1>1, <1>2, Sizes

(* A whole packet in sync brings buffer and cipher to the next one. *)
LEMMA Advanced ==
    ASSUME Inv, NEW h \in Headers, Complete(h), Drop(h.size), next' = next,
           data[1] \in Start, aligner'.cipher = Key[data[1]] + (h.size - HeaderSize)
    PROVE  AtPacket'
<1> DEFINE p == data[1]
           q == p + Size[p]
<1>1. h.size = Size[p] /\ h.size \in Nat /\ h.size >= HeaderSize
    BY HeaderOf
<1>2. q \in Boundary /\ Key[q] = Key[p] + (Size[p] - HeaderSize) /\ p \in Start
    BY StreamAssumption
<1>3. h.size \in 1..Len(data)
    BY WholeOf
<1>4. /\ data' # <<>> => data'[1] = p + h.size
      /\ data' = <<>> => next' = SeqNo(p + h.size)
    BY <1>3, Dropped
<1>5. q \in 0..Total
    BY <1>2, BoundaryWithin
<1> QED BY <1>1, <1>2, <1>4, <1>5, Begins

LEMMA KeyWithin == \A p \in Boundary : Key[p] \in Nat /\ Cap(Key[p]) = Key[p]
<1> SUFFICES ASSUME NEW p \in Boundary PROVE Key[p] \in Nat /\ Cap(Key[p]) = Key[p]
    OBVIOUS
<1>1. Key[p] \in Nat /\ Key[Total] \in Nat /\ Key[p] <= Key[Total]
    BY StreamAssumption DEF Boundary
<1> QED BY <1>1 DEF Cap

LEMMA CapNat == ASSUME NEW n \in Nat PROVE Cap(n) \in Nat
<1>1. Key[Total] \in Nat
    BY StreamAssumption DEF Boundary
<1> QED BY <1>1 DEF Cap

LEMMA LoseSyncInv == ASSUME Inv, LoseSync, incoming' = incoming PROVE Inv'
<1>1. PICK h \in Headers : Complete(h) /\ Drop(h.size)
    BY DEF LoseSync
<1>2. /\ aligner' = Unsynced /\ pc' = "idle"
      /\ UNCHANGED <<next, pending, waiting, invalid, out, seen, loss>>
    BY DEF LoseSync, ghosts
<1>3. h.size \in 1..Len(data)
    BY <1>1, WholeOf
<1>4. /\ data' \in Seq(Byte) /\ Run(data') /\ ~waiting /\ seen # {}
      /\ data' # <<>> => next' = SeqNo(data'[Len(data')] + 1)
    BY <1>1, <1>2, <1>3, Dropped
<1>5. TypeOK'
    BY <1>2, <1>4, SyncedOrNot DEF Inv, TypeOK, Byte, Aligner
<1>6. Framed'
    BY <1>2, <1>4 DEF Framed
<1>7. Placed'
    BY <1>2, SyncedOrNot DEF Placed, Trusted
<1>8. (~incoming => DecryptsProperly)'
    BY <1>2 DEF Inv, DecryptsProperly
<1> QED BY <1>5, <1>6, <1>7, <1>8 DEF Inv

LEMMA SearchInv == ASSUME Inv, Search, incoming' = incoming PROVE Inv'
<1>1. PICK h \in Headers :
         /\ Complete(h) /\ Drop(h.size)
         /\ IF h.tick /\ aligner.a # None /\ Pair(aligner.a, data[1])
            THEN /\ aligner' = [synced |-> TRUE, tick |-> Tick[data[1]], bytes |-> 0, a |-> None,
                                cipher |-> Key[aligner.a] + aligner.bytes + (h.size - HeaderSize)]
                 /\ invalid' = 0 /\ UNCHANGED pc
            ELSE /\ pc' = "idle" /\ UNCHANGED invalid
                 /\ \/ aligner' = [aligner EXCEPT !.bytes = Cap(@ + (h.size - HeaderSize))]
                    \/ aligner' = [aligner EXCEPT !.bytes = h.size - HeaderSize,
                                                  !.a = IF @ = None THEN data[1] ELSE None]
                    \/ UNCHANGED aligner
    BY DEF Search
<1>2. UNCHANGED <<next, pending, waiting, out, seen, loss>> /\ ~aligner.synced /\ pc = "extract"
    BY DEF Search, ghosts
<1>3. /\ h.size \in 1..Len(data) /\ h.size - HeaderSize \in Nat /\ h.size \in Nat
      /\ data[1] \in 0..Total
    BY <1>1, WholeOf
<1>4. /\ data' \in Seq(Byte) /\ Run(data') /\ ~waiting /\ seen # {}
      /\ data' # <<>> => next' = SeqNo(data'[Len(data')] + 1)
    BY <1>1, <1>2, <1>3, Dropped
<1>5. Framed'
    BY <1>2, <1>4 DEF Framed
<1>6. (~incoming => DecryptsProperly)'
    BY <1>2 DEF Inv, DecryptsProperly
<1>7. aligner \in Aligner
    BY DEF Inv, TypeOK, Aligner
<1>8. CASE h.tick /\ aligner.a # None /\ Pair(aligner.a, data[1])
    <2>1. /\ aligner' = [synced |-> TRUE, tick |-> Tick[data[1]], bytes |-> 0, a |-> None,
                         cipher |-> Key[aligner.a] + aligner.bytes + (h.size - HeaderSize)]
          /\ invalid' = 0 /\ pc' = "extract"
        BY <1>1, <1>2, <1>8
    <2>2. /\ data[1] \in Start /\ aligner.a \in Start
          /\ Key[data[1]] = Key[aligner.a] + aligner.bytes
        BY <1>8 DEF Pair
    <2>3. Key[data[1]] \in Nat /\ Tick[data[1]] \in Nat
        BY <2>2, KeyWithin, StreamAssumption DEF Boundary
    <2>4. aligner'.cipher = Key[data[1]] + (h.size - HeaderSize)
        BY <2>1, <2>2
    <2>5. aligner' \in Aligner
        BY <2>1, <2>2, <2>3, <1>3 DEF Aligner
    <2>6. TypeOK'
        BY <2>1, <2>5, <1>2, <1>4 DEF Inv, TypeOK, Byte, Aligner
    <2>7. AtPacket'
        BY <1>1, <1>2, <2>2, <2>4, Advanced
    <2>8. Placed'
        BY <2>1, <2>7, <1>2, <1>4 DEF Placed
    <2> QED BY <1>5, <1>6, <2>6, <2>8 DEF Inv
<1>9. CASE ~(h.tick /\ aligner.a # None /\ Pair(aligner.a, data[1]))
    <2>1. /\ pc' = "idle" /\ invalid' = invalid
          /\ \/ aligner' = [aligner EXCEPT !.bytes = Cap(@ + (h.size - HeaderSize))]
             \/ aligner' = [aligner EXCEPT !.bytes = h.size - HeaderSize,
                                           !.a = IF @ = None THEN data[1] ELSE None]
             \/ aligner' = aligner
        BY <1>1, <1>9
    <2>2. Cap(aligner.bytes + (h.size - HeaderSize)) \in Nat
        <3>1. aligner.bytes + (h.size - HeaderSize) \in Nat
            BY <1>3, <1>7 DEF Aligner
        <3> QED BY <3>1, CapNat
    <2>3. aligner' \in Aligner /\ ~aligner'.synced
        BY <2>1, <2>2, <1>2, <1>3, <1>7 DEF Aligner
    <2>4. TypeOK'
        BY <2>1, <2>3, <1>2, <1>4 DEF Inv, TypeOK, Byte, Aligner
    <2>5. Placed'
        BY <2>3 DEF Placed, Trusted
    <2> QED BY <1>5, <1>6, <2>4, <2>5 DEF Inv
<1> QED BY <1>8, <1>9

LEMMA EmitInv == ASSUME Inv, Emit, incoming' = incoming PROVE Inv'
<1>1. PICK h \in Headers :
         /\ Complete(h) /\ TickValid(h) /\ Drop(h.size)
         /\ out' = [at |-> data[1], size |-> h.size, cipher |-> aligner.cipher]
         /\ aligner' = [aligner EXCEPT !.cipher = Cap(@ + (h.size - HeaderSize)),
                                       !.tick = IF h.tick THEN Counter ELSE @]
    BY DEF Emit
<1>2. /\ UNCHANGED <<next, pending, waiting, pc, seen, loss>> /\ aligner.synced
      /\ pc = "extract" /\ invalid' = 0
    BY DEF Emit
<1>3. /\ h.size \in 1..Len(data) /\ h.size - HeaderSize \in Nat /\ h.size \in Nat
      /\ data[1] \in 0..Total /\ data[1] \in Byte /\ data # <<>>
    BY <1>1, WholeOf
<1>4. /\ data' \in Seq(Byte) /\ Run(data') /\ ~waiting /\ seen # {}
      /\ data' # <<>> => next' = SeqNo(data'[Len(data')] + 1)
    BY <1>1, <1>2, <1>3, Dropped
<1>5. Framed'
    BY <1>2, <1>4 DEF Framed
<1>6. aligner \in Aligner
    BY DEF Inv, TypeOK, Aligner
<1>7. Counter \in Nat \cup {Garbage}
    BY StreamAssumption DEF Counter
<1>8. Cap(aligner.cipher + (h.size - HeaderSize)) \in Nat
    <2>1. aligner.cipher + (h.size - HeaderSize) \in Nat
        BY <1>3, <1>6 DEF Aligner
    <2> QED BY <2>1, CapNat
<1>9. /\ aligner' \in Aligner /\ aligner'.synced
      /\ aligner'.cipher = Cap(aligner.cipher + (h.size - HeaderSize))
      /\ aligner'.tick = IF h.tick THEN Counter ELSE aligner.tick
    BY <1>1, <1>2, <1>6, <1>7, <1>8 DEF Aligner
<1>10. TypeOK'
    <2>1. out' \in [at : 0..Total, size : Nat, cipher : Nat]
        BY <1>1, <1>3, <1>6 DEF Aligner
    <2> QED BY <2>1, <1>2, <1>4, <1>9 DEF Inv, TypeOK, Byte, Aligner
<1>11. ~incoming => data[1] \in Start /\ aligner.cipher = Key[data[1]]
    <2> SUFFICES ASSUME ~incoming PROVE data[1] \in Start /\ aligner.cipher = Key[data[1]]
        OBVIOUS
    <2>1. AtPacket
        BY <1>2 DEF Inv, Placed, Trusted
    <2> QED BY <2>1, <1>3, Sizes DEF AtPacket, Position, Boundary, Byte
<1>12. Trusted' => data[1] \in Start /\ aligner.cipher = Key[data[1]]
    <2> SUFFICES ASSUME Trusted', incoming PROVE data[1] \in Start /\ aligner.cipher = Key[data[1]]
        BY <1>11
    <2>1. aligner'.tick >= 0
        BY DEF Trusted
    <2>2. CASE h.tick
        <3>1. Counter # Garbage
            BY <2>1, <2>2, <1>9 DEF Garbage
        <3> QED BY <3>1 DEF Counter
    <2>3. CASE ~h.tick
        <3>1. Trusted
            BY <2>1, <2>3, <1>2, <1>9 DEF Trusted
        <3>2. AtPacket
            BY <3>1 DEF Inv, Placed
        <3> QED BY <3>2, <1>3, Sizes DEF AtPacket, Position, Boundary, Byte
    <2> QED BY <2>2, <2>3
<1>13. Placed'
    <2> SUFFICES ASSUME Trusted' PROVE Placed'
        BY DEF Placed
    <2>1. data[1] \in Start /\ aligner.cipher = Key[data[1]]
        BY <1>12
    <2>2. /\ data[1] + Size[data[1]] \in Boundary
          /\ Key[data[1] + Size[data[1]]] = Key[data[1]] + (Size[data[1]] - HeaderSize)
        BY <2>1, StreamAssumption
    <2>3. h.size = Size[data[1]]
        BY <2>1, HeaderOf
    <2>4. aligner'.cipher = Key[data[1]] + (h.size - HeaderSize)
        BY <2>1, <2>2, <2>3, <1>9, KeyWithin
    <2>5. AtPacket'
        BY <1>1, <1>2, <2>1, <2>4, Advanced
    <2> QED BY <2>5, <1>2, <1>4 DEF Placed
<1>14. (~incoming => DecryptsProperly)'
    <2> SUFFICES ASSUME ~incoming PROVE DecryptsProperly'
        OBVIOUS
    <2>1. data[1] \in Start /\ aligner.cipher = Key[data[1]] /\ h.size = Size[data[1]]
        BY <1>11, HeaderOf
    <2> QED BY <2>1, <1>1 DEF DecryptsProperly
<1> QED BY <1>5, <1>10, <1>13, <1>14 DEF Inv

-----------------------------------------------------------------------------
THEOREM Invariance == Spec => []Inv
<1>1. Inv /\ [Next]_vars => Inv'
    <2> SUFFICES ASSUME Inv, [Next]_vars PROVE Inv'
        OBVIOUS
    <2>1. CASE Next
        <3>1. incoming' = incoming
            BY <2>1 DEF Next
        <3>2. \/ SynAck
              \/ \E s \in Segment : Receive(s)
              \/ Flush \/ NoGap \/ SkipGap
              \/ NeedMoreData \/ InvalidHeader \/ Search \/ LoseSync \/ Emit
            BY <2>1 DEF Next
        <3> QED BY <3>1, <3>2, SynAckInv, ReceiveInv, FlushInv, NoGapInv, SkipGapInv,
                NeedMoreDataInv, InvalidHeaderInv, SearchInv, LoseSyncInv, EmitInv
    <2>2. CASE UNCHANGED vars
        <3> USE <2>2 DEF vars, Inv
        <3>1. TypeOK'
            BY DEF TypeOK
        <3>2. Framed' /\ Placed'
            BY DEF Framed, Placed, Trusted, AtPacket, Position
        <3> QED BY <3>1, <3>2 DEF DecryptsProperly
    <2> QED BY <2>1, <2>2
<1> QED BY InitInv, <1>1, PTL DEF Spec

(* The reassembler's state stays within its types (StreamBuffer, TickAligner). *)
THEOREM Types == Spec => []TypeOK
<1>1. Inv => TypeOK
    BY DEF Inv
<1> QED BY <1>1, Invariance, PTL

(* Whatever is lost, repeated or reordered, add_segment and flush_pending never
   join bytes that were not adjacent, and an aligner that was synchronized by a SYN
   or has read a true counter stays at the place of the packet it decrypts. *)
THEOREM StaysInSync == Spec => []InSync
<1>1. Inv => InSync
    <2> SUFFICES ASSUME Inv PROVE InSync
        OBVIOUS
    <2>1. \A k \in 1..(Len(data) - 1) : data[k + 1] = data[k] + 1
        <3>1. data \in Seq(Byte) /\ Run(data) /\ Len(data) \in Nat
            BY DEF Inv, TypeOK, Framed, Byte
        <3> SUFFICES ASSUME NEW k \in 1..(Len(data) - 1) PROVE data[k + 1] = data[k] + 1
            OBVIOUS
        <3>2. k \in 1..Len(data) /\ k + 1 \in 1..Len(data) /\ 1 \in 1..Len(data)
            BY <3>1
        <3>3. data[1] \in Int /\ data[k] = data[1] + (k - 1) /\ data[k + 1] = data[1] + ((k + 1) - 1)
            BY <3>1, <3>2, Sizes DEF Run, Byte
        <3> QED BY <3>2, <3>3
    <2>2. Adjacent
        BY <2>1 DEF Adjacent, Inv, Framed
    <2> QED BY <2>2 DEF InSync, Inv, Placed, Trusted
<1> QED BY <1>1, Invariance, PTL

-----------------------------------------------------------------------------
(* No segment has p inside. *)
Cut(p) == p \in 0..Total /\ \A s \in Segment : s.pos + s.len <= p \/ p <= s.pos

(* The stream is at p, and what came before it is behind it or pending. *)
Reached(p) ==
    /\ Cut(p) /\ next = SeqNo(p)
    /\ \A s \in seen : s.pos + s.len <= p \/ SeqNo(s.pos) \in DOMAIN pending

Contiguous == loss = "none" => IF waiting THEN seen = {} ELSE \E p \in 0..Total : Reached(p)

(* One segment too many waits for the gap to be skipped, and the skip takes one. *)
Few ==
    /\ IsFiniteSet(DOMAIN pending)
    /\ pc \in {"idle", "gap", "extract"} => next \notin DOMAIN pending
    /\ Cardinality(DOMAIN pending) <=
          IF pc = "gap" \/ (pc = "reflush" /\ next \in DOMAIN pending)
          THEN MaxPending + 1 ELSE MaxPending

Kept == Contiguous /\ Few

LEMMA CutEnd == ASSUME NEW s \in Segment PROVE Cut(s.pos + s.len)
<1>1. s.pos + s.len \in 0..Total
    BY Sizes
<1>2. ASSUME NEW u \in Segment PROVE u.pos + u.len <= s.pos + s.len \/ s.pos + s.len <= u.pos
    <2>1. s = u \/ s.pos + s.len <= u.pos \/ u.pos + u.len <= s.pos
        BY CutAssumption
    <2>2. /\ s.pos \in Nat /\ s.len \in Nat /\ u.pos \in Nat /\ u.len \in Nat
        BY Sizes
    <2> QED BY <2>1, <2>2
<1> QED BY <1>1, <1>2 DEF Cut

LEMMA CutStart == Cut(0)
BY Sizes DEF Cut

LEMMA InitKept == Init => Kept
<1> SUFFICES ASSUME Init PROVE Kept
    OBVIOUS
<1>1. DOMAIN pending = {} /\ pc = "idle" /\ seen = {} /\ (waiting \/ next = SeqNo(0))
    BY DEF Init, NoPending
<1>2. Few
    BY <1>1, FS_EmptySet, Sizes DEF Few
<1>3. ~waiting => Reached(0)
    BY <1>1, CutStart DEF Reached
<1> QED BY <1>1, <1>2, <1>3, Sizes DEF Kept, Contiguous

(* Taking the expected segment. *)
LEMMA ReachedEnd ==
    ASSUME NEW s \in Segment, NEW p, Reached(p), SeqNo(s.pos) = next, next' = SeqNo(s.pos + s.len),
           \A u \in seen' : \/ u = s
                            \/ u \in seen /\ \/ SeqNo(u.pos) = next
                                             \/ SeqNo(u.pos) \in DOMAIN pending =>
                                                    SeqNo(u.pos) \in DOMAIN pending',
           seen \subseteq Segment
    PROVE  Reached(s.pos + s.len)'
<1>1. p = s.pos
    <2>1. p \in 0..Total /\ SeqNo(p) = SeqNo(s.pos) /\ s.pos \in 0..Total
        BY Sizes DEF Reached, Cut
    <2> QED BY <2>1, SeqNoInjective
<1>2. ASSUME NEW u \in seen'
      PROVE  u.pos + u.len <= s.pos + s.len \/ SeqNo(u.pos) \in DOMAIN pending'
    <2>1. CASE u = s
        BY <2>1, Sizes
    <2>2. CASE u \in seen /\ SeqNo(u.pos) = next
        <3>1. u \in Segment /\ u.pos \in 0..Total /\ s.pos \in 0..Total
            BY <2>2, Sizes
        <3>2. u.pos = s.pos
            BY <3>1, <2>2, SeqNoInjective
        <3>3. s = u \/ s.pos + s.len <= u.pos \/ u.pos + u.len <= s.pos
            BY <3>1, CutAssumption
        <3> QED BY <3>1, <3>2, <3>3, Sizes
    <2>3. CASE u \in seen /\ (SeqNo(u.pos) \in DOMAIN pending => SeqNo(u.pos) \in DOMAIN pending')
        <3>1. u \in Segment /\ (u.pos + u.len <= p \/ SeqNo(u.pos) \in DOMAIN pending)
            BY <2>3 DEF Reached
        <3>2. /\ u.pos \in Nat /\ u.len \in Nat /\ s.pos \in Nat /\ s.len \in Nat
            BY <3>1, Sizes
        <3> QED BY <3>1, <3>2, <2>3, <1>1
    <2> QED BY <1>2, <2>1, <2>2, <2>3
<1>3. Cut(s.pos + s.len)
    BY CutEnd
<1> QED BY <1>2, <1>3 DEF Reached, Cut

(* A segment behind the stream is behind it whole. *)
LEMMA BehindWhole ==
    ASSUME NEW u \in Segment, NEW p, Cut(p), ~Ahead(SeqNo(u.pos), SeqNo(p))
    PROVE  u.pos + u.len <= p
<1>1. u.pos \in 0..Total /\ p \in 0..Total
    BY Sizes DEF Cut
<1>2. ~(p <= u.pos)
    BY <1>1, AheadOf
<1> QED BY <1>1, <1>2 DEF Cut

LEMMA SynAckKept == ASSUME Inv, Kept, SynAck PROVE Kept'
<1>1. /\ seen' = {} /\ DOMAIN pending' = {} /\ pc' = "idle" /\ next' = SeqNo(0) /\ ~waiting'
    BY DEF SynAck, Inv, Framed, ghosts
<1>2. Reached(0)'
    BY <1>1, CutStart DEF Reached, Cut
<1>3. Few'
    BY <1>1, FS_EmptySet, Sizes DEF Few
<1> QED BY <1>1, <1>2, <1>3, Sizes DEF Kept, Contiguous

LEMMA RestartKept == ASSUME Restart PROVE Kept'
<1>1. DOMAIN pending' = {} /\ loss' # "none"
    BY DEF Restart, NoPending
<1> QED BY <1>1, FS_EmptySet, Sizes DEF Kept, Contiguous, Few

LEMMA ReceiveKept == ASSUME Inv, Kept, NEW s \in Segment, Receive(s) PROVE Kept'
<1>1. /\ pc = "idle" /\ seen \subseteq Segment /\ SeqNo(s.pos) \in 0..(2 * Half - 1)
      /\ next \notin DOMAIN pending /\ Cardinality(DOMAIN pending) <= MaxPending
      /\ IsFiniteSet(DOMAIN pending) /\ Cardinality(DOMAIN pending) \in Nat /\ MaxPending \in Nat
    <2>1. pc = "idle"
        BY DEF Receive
    <2>2. seen \subseteq Segment /\ SeqNo(s.pos) \in 0..(2 * Half - 1)
        BY SeqNoOf, Sizes DEF Inv, TypeOK
    <2> QED BY <2>1, <2>2, FS_CardinalityType, Sizes DEF Kept, Few
<1>2. CASE Len(data) + s.len > MaxBuffer
    BY <1>2, RestartKept DEF Receive
<1>3. CASE ~(Len(data) + s.len > MaxBuffer) /\ waiting /\ s.len >= Mtu
    <2>1. pc' = "gap" /\ UNCHANGED <<next, pending, waiting, seen, loss>>
        BY <1>3 DEF Receive
    <2>2. Few'
        BY <2>1, <1>1 DEF Few
    <2>3. Contiguous'
        BY <2>1, <1>3 DEF Kept, Contiguous
    <2> QED BY <2>2, <2>3 DEF Kept
<1>4. CASE ~(Len(data) + s.len > MaxBuffer) /\ ~(waiting /\ s.len >= Mtu)
    <2>1. waiting' = FALSE /\ seen' = seen \cup {s} /\ loss' = loss
        BY <1>4 DEF Receive
    <2>2. CASE SeqNo(s.pos) = IF waiting THEN SeqNo(s.pos) ELSE next
        <3>1. /\ next' = SeqNo(s.pos + s.len) /\ pc' = "flush" /\ pending' = pending
            BY <1>4, <2>2 DEF Receive, Extend
        <3>2. Few'
            BY <3>1, <1>1 DEF Few
        <3>3. ASSUME loss = "none" PROVE Reached(s.pos + s.len)'
            <4>1. CASE waiting
                <5>1. seen' = {s}
                    BY <2>1, <4>1, <3>3 DEF Kept, Contiguous
                <5> QED BY <5>1, <3>1, CutEnd, Sizes DEF Reached, Cut
            <4>2. CASE ~waiting
                <5>1. PICK p \in 0..Total : Reached(p)
                    BY <4>2, <3>3 DEF Kept, Contiguous
                <5>2. SeqNo(s.pos) = next
                    BY <4>2, <2>2
                <5> QED BY <5>1, <5>2, <3>1, <2>1, <1>1, ReachedEnd
            <4> QED BY <4>1, <4>2
        <3>4. s.pos + s.len \in 0..Total
            BY Sizes
        <3>5. Contiguous'
            BY <2>1, <3>3, <3>4 DEF Contiguous
        <3> QED BY <3>2, <3>5 DEF Kept
    <2>3. CASE ~(SeqNo(s.pos) = IF waiting THEN SeqNo(s.pos) ELSE next)
        <3>1. /\ pc' = "gap" /\ next' = next /\ ~waiting /\ SeqNo(s.pos) # next
              /\ pending' = IF Ahead(SeqNo(s.pos), next)
                            THEN [t \in DOMAIN pending \cup {SeqNo(s.pos)} |->
                                      IF t = SeqNo(s.pos) THEN s ELSE pending[t]]
                            ELSE pending
            BY <1>4, <2>3 DEF Receive
        <3>2. /\ DOMAIN pending \subseteq DOMAIN pending'
              /\ DOMAIN pending' = DOMAIN pending \/ DOMAIN pending' = DOMAIN pending \cup {SeqNo(s.pos)}
              /\ Ahead(SeqNo(s.pos), next) => SeqNo(s.pos) \in DOMAIN pending'
            BY <3>1
        <3>3. /\ IsFiniteSet(DOMAIN pending') /\ next' \notin DOMAIN pending'
              /\ Cardinality(DOMAIN pending') <= MaxPending + 1
            <4>1. /\ IsFiniteSet(DOMAIN pending \cup {SeqNo(s.pos)})
                  /\ Cardinality(DOMAIN pending \cup {SeqNo(s.pos)}) \in
                         {Cardinality(DOMAIN pending), Cardinality(DOMAIN pending) + 1}
                BY <1>1, FS_AddElement
            <4> QED BY <4>1, <3>1, <3>2, <1>1
        <3>4. Few'
            BY <3>1, <3>3 DEF Few
        <3>5. ASSUME loss = "none" PROVE \E p \in 0..Total : Reached(p)'
            <4>1. PICK p \in 0..Total : Reached(p)
                BY <3>1, <3>5 DEF Kept, Contiguous
            <4>2. ~Ahead(SeqNo(s.pos), next) => s.pos + s.len <= p
                BY <4>1, BehindWhole DEF Reached
            <4>3. \A u \in seen' : u.pos + u.len <= p \/ SeqNo(u.pos) \in DOMAIN pending'
                BY <4>1, <4>2, <3>2, <2>1 DEF Reached
            <4> QED BY <4>1, <4>3, <3>1 DEF Reached, Cut
        <3>6. Contiguous'
            BY <2>1, <3>5 DEF Contiguous
        <3> QED BY <3>4, <3>6 DEF Kept
    <2> QED BY <2>2, <2>3
<1> QED BY <1>2, <1>3, <1>4

LEMMA FlushKept == ASSUME Inv, Kept, Flush PROVE Kept'
<1>1. /\ UNCHANGED <<waiting, seen, loss>> /\ pc \in {"flush", "reflush"}
      /\ IsFiniteSet(DOMAIN pending) /\ Cardinality(DOMAIN pending) \in Nat /\ MaxPending \in Nat
      /\ seen \subseteq Segment
    BY FS_CardinalityType, Sizes DEF Flush, ghosts, Kept, Few, Inv, TypeOK
<1>2. CASE next \in DOMAIN pending
    <2>0. PICK s \in Segment : s = pending[next]
        BY <1>2 DEF Inv, TypeOK
    <2>1. next = SeqNo(s.pos) /\ ~waiting
        BY <2>0, <1>2 DEF Inv, TypeOK, Framed
    <2>2. /\ next' = SeqNo(s.pos + s.len) /\ pc' = pc
          /\ DOMAIN pending' = DOMAIN pending \ {next}
        BY <2>0, <1>2 DEF Flush, Extend, Restrict
    <2>3. /\ IsFiniteSet(DOMAIN pending')
          /\ Cardinality(DOMAIN pending') = Cardinality(DOMAIN pending) - 1
        BY <2>2, <1>1, <1>2, FS_RemoveElement
    <2>4. Few'
        BY <2>2, <2>3, <1>1, <1>2 DEF Kept, Few
    <2>5. ASSUME loss = "none" PROVE Reached(s.pos + s.len)'
        <3>1. PICK p \in 0..Total : Reached(p)
            BY <2>1, <2>5 DEF Kept, Contiguous
        <3>2. \A u \in seen' :
                  \/ u = s
                  \/ u \in seen /\ \/ SeqNo(u.pos) = next
                                   \/ SeqNo(u.pos) \in DOMAIN pending =>
                                          SeqNo(u.pos) \in DOMAIN pending'
            BY <1>1, <2>2
        <3> QED BY <3>1, <3>2, <2>1, <2>2, <1>1, ReachedEnd
    <2>6. s.pos + s.len \in 0..Total
        BY Sizes
    <2>7. Contiguous'
        BY <1>1, <2>1, <2>5, <2>6 DEF Contiguous
    <2> QED BY <2>4, <2>7 DEF Kept
<1>3. CASE next \notin DOMAIN pending
    <2>1. /\ next' = next /\ pc' \in {"gap", "extract"}
          /\ DOMAIN pending' = {t \in DOMAIN pending : Ahead(t, next)}
        BY <1>1, <1>3 DEF Flush, Restrict
    <2>2. IsFiniteSet(DOMAIN pending') /\ Cardinality(DOMAIN pending') <= Cardinality(DOMAIN pending)
        BY <2>1, <1>1, FS_Subset
    <2>3. Cardinality(DOMAIN pending) <= MaxPending /\ Cardinality(DOMAIN pending') \in Nat
        BY <1>1, <1>3, <2>2, FS_CardinalityType DEF Kept, Few
    <2>4. Few'
        BY <2>1, <2>2, <2>3, <1>1, <1>3 DEF Few
    <2>5. ASSUME loss = "none", ~waiting PROVE \E p \in 0..Total : Reached(p)'
        <3>1. PICK p \in 0..Total : Reached(p)
            BY <2>5 DEF Kept, Contiguous
        <3>2. \A u \in seen' : u.pos + u.len <= p \/ SeqNo(u.pos) \in DOMAIN pending'
            BY <3>1, <2>1, <1>1, BehindWhole DEF Reached
        <3> QED BY <3>1, <3>2, <2>1 DEF Reached, Cut
    <2>6. Contiguous'
        BY <1>1, <2>5 DEF Kept, Contiguous
    <2> QED BY <2>4, <2>6 DEF Kept
<1> QED BY <1>2, <1>3

LEMMA SkipGapKept == ASSUME Inv, Kept, SkipGap PROVE Kept'
<1>1. /\ next' \in DOMAIN pending /\ pc = "gap" /\ pc' = "reflush" /\ pending' = pending
      /\ loss' # "none"
    BY DEF SkipGap, Skipped
<1>2. Few'
    BY <1>1 DEF Kept, Few
<1> QED BY <1>1, <1>2 DEF Kept, Contiguous

LEMMA NoGapKept == ASSUME Inv, Kept, NoGap PROVE Kept'
<1>1. /\ UNCHANGED <<next, pending, waiting, seen, loss>> /\ pc = "gap" /\ pc' = "extract"
      /\ Cardinality(DOMAIN pending) <= MaxPending
    BY DEF NoGap, buffer, ghosts
<1> QED BY <1>1 DEF Kept, Few, Contiguous, Reached, Cut

(* The packets are cut from what is in order already. *)
LEMMA ExtractKept ==
    ASSUME Inv, Kept, pc = "extract", pc' \in {"extract", "idle"},
           \/ UNCHANGED <<next, pending, waiting, seen, loss>>
           \/ Restart
    PROVE  Kept'
<1>1. CASE UNCHANGED <<next, pending, waiting, seen, loss>>
    BY <1>1 DEF Kept, Few, Contiguous, Reached, Cut
<1>2. CASE Restart
    BY <1>2, RestartKept
<1> QED BY <1>1, <1>2

THEOREM KeptInvariance == Spec => []Kept
<1>1. Inv /\ Kept /\ [Next]_vars => Kept'
    <2> SUFFICES ASSUME Inv, Kept, [Next]_vars PROVE Kept'
        OBVIOUS
    <2>1. CASE NeedMoreData
        BY <2>1, ExtractKept DEF NeedMoreData, buffer, ghosts
    <2>2. CASE InvalidHeader
        BY <2>2, ExtractKept DEF InvalidHeader
    <2>3. CASE Search
        BY <2>3, ExtractKept DEF Search, ghosts
    <2>4. CASE LoseSync
        BY <2>4, ExtractKept DEF LoseSync, ghosts
    <2>5. CASE Emit
        BY <2>5, ExtractKept DEF Emit
    <2>6. CASE UNCHANGED vars
        BY <2>6 DEF vars, Kept, Few, Contiguous, Reached, Cut
    <2> QED BY <2>1, <2>2, <2>3, <2>4, <2>5, <2>6, SynAckKept, ReceiveKept, FlushKept,
               NoGapKept, SkipGapKept DEF Next
<1> QED BY InitKept, Invariance, <1>1, PTL DEF Spec

(* Reordering alone costs nothing, and what is lost is skipped: between two
   segments add_segment, flush_pending and try_skip_gap leave at most
   MAX_PENDING_SEGMENTS waiting, never the expected one, and, if nothing was
   skipped, every segment received is in order or waits for its turn. *)
THEOREM HoldsNothingBack == Spec => []NothingHeldBack
<1>1. Inv /\ Kept => NothingHeldBack
    <2> SUFFICES ASSUME Inv, Kept, pc = "idle" PROVE NothingHeldBack
        BY DEF NothingHeldBack
    <2>1. Cardinality(DOMAIN pending) <= MaxPending /\ next \notin DOMAIN pending
        BY DEF Kept, Few
    <2>2. ASSUME loss = "none", NEW s \in seen
          PROVE  Ahead(next, SeqNo(s.pos + s.len)) \/ SeqNo(s.pos) \in DOMAIN pending
        <3>1. PICK p \in 0..Total : Reached(p)
            BY <2>2 DEF Kept, Contiguous
        <3>2. CASE s.pos + s.len <= p
            <4>1. s.pos + s.len \in 0..Total
                BY SMTT(30), Sizes DEF Inv, TypeOK
            <4> QED BY <3>1, <3>2, <4>1, AheadOf DEF Reached
        <3> QED BY <3>1, <3>2 DEF Reached
    <2> QED BY <2>1, <2>2 DEF NothingHeldBack
<1> QED BY <1>1, Invariance, KeptInvariance, PTL
=============================================================================
