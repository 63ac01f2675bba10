------------------------------ MODULE TcpStream ------------------------------
(***************************************************************************)
(* One direction of one captured connection: the StreamBuffer that puts    *)
(* TCP segments back in order and cuts packets out of them, and the        *)
(* TickAligner that keeps, or finds again, the position of the stream      *)
(* cipher (stream/reassembler.rs, crypto/tick_aligner.rs).                 *)
(*                                                                         *)
(* A byte is its position in the sender's stream; what the sender sent is  *)
(* given by constants.  Segments reach the buffer in any order, any number *)
(* of times, or never.  Bytes read where no packet starts give any header. *)
(* Two values decrypted at a wrong position are never taken for successive *)
(* ticks (one chance in 2^32), and time is left open: a pending segment    *)
(* may be older than GAP_MAX_AGE_MS at any moment.                         *)
(***************************************************************************)
EXTENDS Integers, Sequences, FiniteSets, Functions

CONSTANTS
    Total,       \* bytes the sender sends
    Start,       \* positions where its packets start
    Size,        \* of each packet, header included
    Tick,        \* tick counter of each packet, 0 if it carries none
    Key,         \* payload bytes before a packet: its place in the keystream
    Segment,     \* the segments it cuts the stream into
    Isn,         \* sequence number of the first byte
    Half,        \* half of the sequence space (2^31)
    HeaderSize,  \* PacketHeader::SIZE
    MaxPacket,   \* largest valid packet size
    Mtu,         \* segments this long never start a stream
    MaxBuffer,   \* max_buffer_size
    MaxPending,  \* MAX_PENDING_SEGMENTS
    MaxInvalid,  \* MAX_CONSECUTIVE_INVALID
    MaxSearch    \* MAX_SYNC_SEARCH

Boundary == Start \cup {Total}

ASSUME StreamAssumption ==
    /\ Total \in Nat /\ Start \subseteq 0..(Total - 1)
    /\ 0 \in Boundary
    /\ HeaderSize \in Nat \ {0} /\ MaxPacket \in Nat /\ HeaderSize <= MaxPacket
    /\ Size \in [Start -> HeaderSize..MaxPacket]
    /\ Tick \in [Start -> Nat]
    /\ Key \in [Boundary -> Nat] /\ Key[0] = 0
    /\ \A p \in Boundary : Key[p] <= Key[Total]
    /\ \A p \in Start : /\ p + Size[p] \in Boundary
                        /\ Key[p + Size[p]] = Key[p] + (Size[p] - HeaderSize)
    /\ Segment \subseteq [pos : 0..Total, len : 1..Total]
    /\ \A s \in Segment : s.pos + s.len <= Total
    /\ Half \in Nat /\ Total < Half /\ Isn \in 0..(2 * Half - 1)
    /\ {Mtu, MaxBuffer, MaxPending, MaxInvalid, MaxSearch} \subseteq Nat
    /\ \A s \in Segment : s.len + MaxPacket <= MaxBuffer + 1  \* 64 KiB each, and 1 MiB

(* Used for NothingHeldBack only: a segment sent again is cut as it was. *)
ASSUME CutAssumption ==
    \A s, u \in Segment : s = u \/ s.pos + s.len <= u.pos \/ u.pos + u.len <= s.pos

VARIABLES
    incoming, \* server to client
    data,     \* bytes in order, ready for extraction
    next,     \* next_seq
    pending,  \* out-of-order segments by sequence number
    waiting,  \* waiting_for_start
    invalid,  \* consecutive_invalid
    aligner,  \* tick aligner
    pc,       \* where process_segment is
    out,      \* ghost: the packet emitted last, and the cipher's place then
    seen,     \* ghost: segments received since the stream began
    loss      \* ghost: whether a gap was skipped, or the stream restarted

vars == <<incoming, data, next, pending, waiting, invalid, aligner, pc, out, seen, loss>>
buffer == <<data, next, pending, waiting, invalid>>
ghosts == <<out, seen, loss>>

None == -1      \* no tick yet, no first tick packet, nothing emitted
Garbage == -2   \* a counter decrypted at a wrong position

SeqNo(p) == (Isn + p) % (2 * Half)

(* Bound: counts of payload bytes beyond the end of the stream are alike. *)
Cap(n) == IF n > Key[Total] THEN Key[Total] + 1 ELSE n

(* How far sequence number t is ahead of u: wrapping_sub. *)
Distance(t, u) == (t - u) % (2 * Half)

(* Mutant: sequence numbers are compared as numbers. *)
AheadNumerically(t, u) == t > u

Ahead(t, u) == Distance(t, u) < Half

Payload(s) == [k \in 1..s.len |-> s.pos + k - 1]

NoPending == [t \in {} |-> None]

Unsynced == [synced |-> FALSE, tick |-> None, bytes |-> 0, a |-> None, cipher |-> 0]
NewSynced == [Unsynced EXCEPT !.synced = TRUE]

TypeOK ==
    /\ incoming \in BOOLEAN
    /\ data \in Seq(0..(Total - 1))
    /\ next \in 0..(2 * Half - 1)
    /\ DOMAIN pending \subseteq 0..(2 * Half - 1)
    /\ \A t \in DOMAIN pending : pending[t] \in Segment /\ SeqNo(pending[t].pos) = t
    /\ waiting \in BOOLEAN /\ invalid \in Nat
    /\ aligner \in [synced : BOOLEAN, tick : Nat \cup {None, Garbage}, bytes : Nat,
                    a : 0..Total \cup {None}, cipher : Nat]
    /\ pc \in {"idle", "flush", "gap", "reflush", "extract"}
    /\ out \in [at : 0..Total, size : Nat, cipher : Nat] \cup {<<>>}
    /\ seen \subseteq Segment /\ loss \in {"none", "skipped", "restarted"}

(* The SYN fixes where the outgoing stream starts, but not the incoming one;
   a stream joined later starts at the first short segment, unsynced. *)
Init ==
    /\ incoming \in BOOLEAN
    /\ \/ ~incoming /\ next = SeqNo(0) /\ waiting = FALSE /\ aligner = NewSynced
       \/ incoming /\ next = 0 /\ waiting = TRUE /\ aligner = NewSynced
       \/ next = 0 /\ waiting = TRUE /\ aligner = Unsynced
    /\ data = <<>> /\ pending = NoPending /\ invalid = 0
    /\ pc = "idle" /\ out = <<>> /\ seen = {} /\ loss = "none"

-----------------------------------------------------------------------------
(* process_segment of a SYN-ACK, if it is captured, and before any data *)
SynAck ==
    /\ incoming /\ pc = "idle" /\ seen = {}
    /\ next' = SeqNo(0) /\ waiting' = FALSE
    /\ aligner' = [aligner EXCEPT !.synced = TRUE, !.tick = None, !.bytes = 0, !.a = None]
    /\ UNCHANGED <<data, pending, invalid, pc, ghosts>>

Restart ==
    /\ waiting' = TRUE /\ data' = <<>> /\ pending' = NoPending
    /\ loss' = "restarted"

Skipped == loss' = IF loss = "none" THEN "skipped" ELSE loss

(* Mutant: sequence numbers do not wrap. *)
ExtendUnwrapped(s) ==
    /\ data' = data \o Payload(s)
    /\ next' = Isn + s.pos + s.len

(* add_segment of the next expected segment *)
Extend(s) ==
    /\ data' = data \o Payload(s)
    /\ next' = SeqNo(s.pos + s.len)

(* add_segment: restart on overflow, skip what cannot start a stream, take the
   next expected segment, keep a future one, drop an old one. *)
Receive(s) ==
    /\ pc = "idle"
    /\ IF Len(data) + s.len > MaxBuffer
       THEN Restart /\ pc' = "gap" /\ UNCHANGED <<next, seen>>
       ELSE LET expected == IF waiting THEN SeqNo(s.pos) ELSE next IN
            /\ UNCHANGED loss
            /\ IF waiting /\ s.len >= Mtu
               THEN pc' = "gap" /\ UNCHANGED <<data, next, pending, waiting, seen>>
               ELSE /\ waiting' = FALSE /\ seen' = seen \cup {s}
                    /\ IF SeqNo(s.pos) = expected
                       THEN Extend(s) /\ pc' = "flush" /\ UNCHANGED pending
                       ELSE /\ pc' = "gap" /\ UNCHANGED <<data, next>>
                            /\ pending' = IF Ahead(SeqNo(s.pos), next)
                                          THEN [t \in DOMAIN pending \cup {SeqNo(s.pos)} |->
                                                   IF t = SeqNo(s.pos) THEN s ELSE pending[t]]
                                          ELSE pending
    /\ UNCHANGED <<invalid, aligner, out>>

(* One turn of flush_pending's loop, and the pruning after it. *)
Flush ==
    /\ pc \in {"flush", "reflush"}
    /\ IF next \in DOMAIN pending
       THEN /\ Extend(pending[next])
            /\ pending' = Restrict(pending, DOMAIN pending \ {next})
            /\ UNCHANGED pc
       ELSE /\ pending' = Restrict(pending, {t \in DOMAIN pending : Ahead(t, next)})
            /\ pc' = IF pc = "flush" THEN "gap" ELSE "extract"
            /\ UNCHANGED <<data, next>>
    /\ UNCHANGED <<waiting, invalid, aligner, ghosts>>

(* try_skip_gap finds nothing to skip *)
NoGap ==
    /\ pc = "gap" /\ Cardinality(DOMAIN pending) <= MaxPending
    /\ pc' = "extract"
    /\ UNCHANGED <<buffer, aligner, ghosts>>

(* Mutant: the caller forgets to reset the aligner. *)
SkipGapInSync ==
    /\ pc = "gap" /\ DOMAIN pending # {}
    /\ \E t \in DOMAIN pending :
         /\ \A u \in DOMAIN pending : Distance(t, next) <= Distance(u, next)
         /\ next' = t
    /\ data' = <<>> /\ invalid' = 0 /\ Skipped
    /\ pc' = "reflush"
    /\ UNCHANGED <<pending, waiting, aligner, out, seen>>

(* try_skip_gap, by count or by age, and the reset of the aligner. *)
SkipGap ==
    /\ pc = "gap" /\ DOMAIN pending # {}
    /\ \E t \in DOMAIN pending :
         /\ \A u \in DOMAIN pending : Distance(t, next) <= Distance(u, next)
         /\ next' = t
    /\ data' = <<>> /\ invalid' = 0 /\ Skipped
    /\ aligner' = Unsynced
    /\ pc' = "reflush"
    /\ UNCHANGED <<pending, waiting, out, seen>>

-----------------------------------------------------------------------------
(* The header at the front of the buffer; size 0 stands for an invalid one. *)
Headers ==
    IF Len(data) < HeaderSize THEN {}
    ELSE IF data[1] \in Start THEN {[size |-> Size[data[1]], tick |-> Tick[data[1]] > 0]}
    ELSE [size : {0} \cup HeaderSize..MaxPacket, tick : BOOLEAN]

Complete(h) == h.size >= HeaderSize /\ Len(data) >= h.size

Drop(n) == data' = SubSeq(data, n + 1, Len(data))

NeedMoreData ==
    /\ pc = "extract"
    /\ \/ Len(data) < HeaderSize
       \/ \E h \in Headers : h.size > Len(data)
    /\ pc' = "idle"
    /\ UNCHANGED <<buffer, aligner, ghosts>>

(* An invalid header costs one byte, or the stream after too many. *)
InvalidHeader ==
    /\ pc = "extract"
    /\ \E h \in Headers : h.size = 0
    /\ IF invalid + 1 >= MaxInvalid
       THEN Restart /\ invalid' = 0 /\ aligner' = Unsynced
       ELSE Drop(1) /\ invalid' = invalid + 1 /\ UNCHANGED <<pending, waiting, aligner, loss>>
    /\ UNCHANGED <<next, pc, out, seen>>

(* sync_cipher finds the offset of a true pair of ticks only. *)
Pair(a, b) ==
    /\ a \in Start /\ b \in Start
    /\ Tick[a] > 0 /\ Tick[b] = Tick[a] + 1
    /\ Key[b] = Key[a] + aligner.bytes
    /\ Key[a] < MaxSearch

(* A tick packet without room for its counter: the sender sends none. *)
TooShort(h) == h.tick /\ data[1] \notin Start

(* check_alignment while unsynced; the packet is dropped, and unless it
   synchronized the cipher the rest waits for the next segment. *)
Search ==
    /\ pc = "extract" /\ ~aligner.synced
    /\ \E h \in Headers :
         LET body == h.size - HeaderSize IN
         /\ Complete(h) /\ Drop(h.size)
         /\ IF h.tick /\ aligner.a # None /\ Pair(aligner.a, data[1])
            THEN /\ aligner' = [synced |-> TRUE, tick |-> Tick[data[1]], bytes |-> 0, a |-> None,
                                cipher |-> Key[aligner.a] + aligner.bytes + body]
                 /\ invalid' = 0 /\ UNCHANGED pc
            ELSE /\ pc' = "idle" /\ UNCHANGED invalid
                 /\ \/ ~h.tick /\ aligner' = [aligner EXCEPT !.bytes = Cap(@ + body)]
                    \/ h.tick /\ aligner' = [aligner EXCEPT !.bytes = body,
                                                 !.a = IF @ = None THEN data[1] ELSE None]
                    \/ TooShort(h) /\ UNCHANGED aligner
    /\ UNCHANGED <<next, pending, waiting, ghosts>>

(* The counter of a tick packet, decrypted where the cipher is. *)
Counter == IF data[1] \in Start /\ aligner.cipher = Key[data[1]] THEN Tick[data[1]] ELSE Garbage

(* validate_synced_tick: the counter goes on from the last one, or anchors the
   first; a garbage anchor counts as none when it is negative. *)
TickValid(h) == h.tick => aligner.tick \in {None, Garbage} \/ Counter = aligner.tick + 1

TickInvalid(h) == TooShort(h) \/ (h.tick /\ aligner.tick # None /\ Counter # aligner.tick + 1)

(* A tick out of step: validate_synced_tick resets the aligner. *)
LoseSync ==
    /\ pc = "extract" /\ aligner.synced
    /\ \E h \in Headers : Complete(h) /\ TickInvalid(h) /\ Drop(h.size)
    /\ aligner' = Unsynced
    /\ pc' = "idle"
    /\ UNCHANGED <<next, pending, waiting, invalid, ghosts>>

(* try_extract_packet_ex of a packet in sync, whatever follows in the buffer *)
Emit ==
    /\ pc = "extract" /\ aligner.synced
    /\ \E h \in Headers :
         /\ Complete(h) /\ TickValid(h) /\ Drop(h.size)
         /\ out' = [at |-> data[1], size |-> h.size, cipher |-> aligner.cipher]
         /\ aligner' = [aligner EXCEPT !.cipher = Cap(@ + (h.size - HeaderSize)),
                                       !.tick = IF h.tick THEN Counter ELSE @]
    /\ invalid' = 0
    /\ UNCHANGED <<next, pending, waiting, pc, seen, loss>>

Next ==
    /\ \/ SynAck
       \/ \E s \in Segment : Receive(s)
       \/ Flush \/ NoGap \/ SkipGap
       \/ NeedMoreData \/ InvalidHeader \/ Search \/ LoseSync \/ Emit
    /\ UNCHANGED incoming

Spec == Init /\ [][Next]_vars

-----------------------------------------------------------------------------
(* The buffer holds bytes that were adjacent in the stream, up to next. *)
Adjacent ==
    /\ \A k \in 1..(Len(data) - 1) : data[k + 1] = data[k] + 1
    /\ (data # <<>> /\ ~waiting) => next = SeqNo(data[Len(data)] + 1)

(* Where the buffer begins, or would begin with the next segment. *)
Position == IF data # <<>> THEN {data[1]} ELSE {p \in 0..Total : SeqNo(p) = next}

AtPacket == \A p \in Position : p \in Boundary /\ aligner.cipher = Key[p]

(* "Cipher is synced - we can decrypt properly": the packet handed on last is
   one the sender sent, whole, decrypted where it was encrypted. *)
DecryptsProperly ==
    out # <<>> => /\ out.at \in Start /\ out.size = Size[out.at]
                  /\ out.cipher = Key[out.at]

(* Whatever is lost, repeated or reordered, the buffer never joins bytes that
   were not adjacent in the stream, across the wrap of sequence numbers too; while
   the aligner says it is synced, the buffer begins at a packet and the cipher at
   that packet's payload; and only packets that were sent are handed on.  The
   incoming stream's start may be guessed wrong (no SYN says where it is), but a
   tick counter that was read right proves that everything since is in place. *)
InSync ==
    /\ Adjacent
    /\ aligner.synced /\ (~incoming \/ aligner.tick >= 0) => AtPacket
    /\ ~incoming => DecryptsProperly

(* Reordering alone costs nothing: as long as no gap was skipped, the stream is
   at the first byte not yet received; and a lost segment does not stall it
   ("Without a skip, pending would grow forever"). *)
NothingHeldBack ==
    pc = "idle" =>
        /\ Cardinality(DOMAIN pending) <= MaxPending /\ next \notin DOMAIN pending
        /\ loss = "none" =>
             \A s \in seen : Ahead(next, SeqNo(s.pos + s.len)) \/ SeqNo(s.pos) \in DOMAIN pending
=============================================================================
