---------------------------- MODULE WorkerProofs ----------------------------
(* The processing worker.  First, whom it follows: what leaves a candidate and
   what a verified socket has lost, for any sockets and accounts, any buffer and
   any number of events.  Then how its threads hand over: that no edit of the
   user is lost and the channels lose their oldest elements only, for any
   capacities of the channels, any sizes of batches and frames and any numbers of
   inputs and failures. *)
EXTENDS AccountIsolation, Pipeline, FunctionTheorems, FiniteSetTheorems, SequenceTheorems,
        TLAPS

(* The session, the buffer and the ghosts: all that sockets and boosts are not. *)
Typed ==
    /\ main \in Conn \cup {None} /\ player \in Conn \cup {None}
    /\ pending \in BOOLEAN /\ candidate \in BOOLEAN
    /\ buffer \in Seq([from : Conn, n : Nat]) /\ Len(buffer) <= Cap
    /\ credential \in Conn \cup {None}
    /\ ignored \subseteq Conn
    /\ sent \in [Conn -> Nat] /\ applied \in Seq([from : Conn, n : Nat])
    /\ released \subseteq Account

(* The events of the main connection since its Hello are all in the buffer before
   the verdict, and all applied after it. *)
Ordered ==
    /\ main # None /\ pending => applied = <<>> /\ InOrder(buffer, main, sent[main])
    /\ NothingLost

(* A token waits for the verdict on the candidate that sent it. *)
TokenWaits == credential # None => credential = main /\ pending

(* Until a socket strays, the buffer holds the candidate's events alone, and who
   is verified, applied or released is the main account. *)
Only(es, c) == \A i \in DOMAIN es : es[i].from = c
OfMain(es) == \A i \in DOMAIN es : Owner[es[i].from] = Main
Isolated ==
    ~strayed => /\ main # None => Only(buffer, main)
                /\ Verified => Owner[main] = Main
                /\ OfMain(applied) /\ released \subseteq {Main}

Kept == Typed /\ Ordered /\ TokenWaits /\ Isolated

(* Whoever plays on is the candidate, the main connection or ignored. *)
Tracked == ~strayed => ~Stray

IInv == IsolationTypeOK /\ Kept /\ Tracked

-----------------------------------------------------------------------------
(* The next event of a connection continues its events; another's does not
   disturb them. *)
LEMMA NextInOrder ==
    ASSUME NEW es \in Seq([from : Conn, n : Nat]), NEW c \in Conn, NEW k \in Nat,
           InOrder(es, c, k)
    PROVE  InOrder(Append(es, [from |-> c, n |-> k + 1]), c, k + 1)
<1> DEFINE new == Append(es, [from |-> c, n |-> k + 1])
           own == {i \in DOMAIN es : es[i].from = c}
           owned == {i \in DOMAIN new : new[i].from = c}
<1>1. Len(es) \in Nat /\ DOMAIN es = 1..Len(es) /\ DOMAIN new = 1..(Len(es) + 1)
  OBVIOUS
<1>2. \A i \in DOMAIN es : new[i] = es[i]
  OBVIOUS
<1>3. new[Len(es) + 1].from = c /\ new[Len(es) + 1].n = k + 1
  OBVIOUS
<1>4. {es[i].n : i \in own} = 1..k /\ \A i, j \in own : i < j => es[i].n < es[j].n
  BY DEF InOrder
<1> HIDE DEF new
<1>5. \A i \in owned : i \in own \/ i = Len(es) + 1
  BY <1>1, <1>2
<1>6. \A i \in own : i \in owned /\ new[i].n = es[i].n /\ es[i].n \in 1..k
  BY <1>1, <1>2, <1>4
<1>7. Len(es) + 1 \in owned /\ Len(es) + 1 \notin own
  BY <1>1, <1>3
<1>8. {new[i].n : i \in owned} = 1..(k + 1)
  <2>1. ASSUME NEW i \in owned PROVE new[i].n \in 1..(k + 1)
    BY <1>3, <1>5, <1>6
  <2>2. ASSUME NEW m \in 1..(k + 1) PROVE \E i \in owned : new[i].n = m
    <3>1. CASE m = k + 1
      BY <1>3, <1>7, <3>1
    <3>2. CASE m # k + 1
      <4>1. m \in 1..k
        BY <3>2
      <4>2. m \in {es[i].n : i \in own}
        BY <1>4, <4>1
      <4> QED BY <1>6, <4>2
    <3> QED BY <3>1, <3>2
  <2> QED BY <2>1, <2>2
<1>9. ASSUME NEW i \in owned, NEW j \in owned, i < j PROVE new[i].n < new[j].n
  <2>1. i \in own
    BY <1>1, <1>5, <1>9
  <2>2. CASE j \in own
    BY <1>4, <1>6, <1>9, <2>1, <2>2
  <2>3. CASE j = Len(es) + 1
    BY <1>3, <1>6, <2>1, <2>3
  <2> QED BY <1>5, <2>2, <2>3
<1> QED BY <1>8, <1>9 DEF InOrder, new

LEMMA OthersInOrder ==
    ASSUME NEW es \in Seq([from : Conn, n : Nat]), NEW e \in [from : Conn, n : Nat],
           NEW c \in Conn, NEW k \in Nat, e.from # c, InOrder(es, c, k)
    PROVE  InOrder(Append(es, e), c, k)
<1> DEFINE new == Append(es, e)
           own == {i \in DOMAIN es : es[i].from = c}
           owned == {i \in DOMAIN new : new[i].from = c}
<1>1. Len(es) \in Nat /\ DOMAIN es = 1..Len(es) /\ DOMAIN new = 1..(Len(es) + 1)
  OBVIOUS
<1>2. (\A i \in DOMAIN es : new[i] = es[i]) /\ new[Len(es) + 1] = e
  OBVIOUS
<1> HIDE DEF new
<1>3. owned = own
  BY <1>1, <1>2
<1>4. \A i \in own : new[i].n = es[i].n
  BY <1>2
<1>5. {new[i].n : i \in own} = {es[i].n : i \in own}
  BY <1>4
<1> QED BY <1>3, <1>4, <1>5 DEF InOrder, new

LEMMA NothingInOrder ==
    ASSUME NEW c PROVE InOrder(<<>>, c, 0)
BY DEF InOrder

(* What an appended event is to the counts of the socket c that sent it. *)
LEMMA CountedInOrder ==
    ASSUME NEW es \in Seq([from : Conn, n : Nat]), NEW c \in Conn, NEW d \in Conn,
           sent \in [Conn -> Nat], Count(c), InOrder(es, d, sent[d])
    PROVE  InOrder(Append(es, Numbered(c)), d, sent'[d])
<1>1. CASE d = c
  <2>1. sent'[d] = sent[d] + 1 /\ sent[d] \in Nat
    BY <1>1 DEF Count
  <2> QED BY <1>1, <2>1, NextInOrder DEF Numbered
<1>2. CASE d # c
  <2>1. sent'[d] = sent[d] /\ sent[d] \in Nat
    BY <1>2 DEF Count
  <2>2. Numbered(c) \in [from : Conn, n : Nat] /\ Numbered(c).from # d
    BY <1>2 DEF Numbered
  <2> QED BY <2>1, <2>2, OthersInOrder
<1> QED BY <1>1, <1>2

LEMMA OnlyAppend ==
    ASSUME NEW S, NEW es \in Seq(S), NEW e \in S
    PROVE  /\ \A c : Only(es, c) /\ e.from = c => Only(Append(es, e), c)
           /\ OfMain(es) /\ Owner[e.from] = Main => OfMain(Append(es, e))
<1>1. DOMAIN es = 1..Len(es) /\ DOMAIN Append(es, e) = 1..(Len(es) + 1) /\ Len(es) \in Nat
  OBVIOUS
<1>2. \A i \in DOMAIN Append(es, e) :
          Append(es, e)[i] = e \/ (i \in DOMAIN es /\ Append(es, e)[i] = es[i])
  BY <1>1
<1> QED BY <1>2 DEF Only, OfMain

-----------------------------------------------------------------------------
(* Who is heard until a socket strays. *)
LEMMA OnlyCandidateSpeaks ==
    ASSUME Tracked, NEW c \in Conn, sock[c] \in {"greeted", "playing"}, Heard(c), ~strayed
    PROVE  c = main
BY DEF Tracked, Stray, Heard

LEMMA NumberedType ==
    ASSUME Typed, NEW c \in Conn
    PROVE  Numbered(c) \in [from : Conn, n : Nat] /\ Numbered(c).from = c
BY DEF Typed, Numbered

LEMMA CountType ==
    ASSUME Typed, NEW c \in Conn, Count(c)
    PROVE  sent' \in [Conn -> Nat]
BY DEF Typed, Count

LEMMA EmptyFits ==
    <<>> \in Seq([from : Conn, n : Nat]) /\ Len(<<>>) <= Cap
BY IsolationAssumption

(* The candidate is given up: nothing of it is left. *)
LEMMA DiscardKeeps ==
    ASSUME Kept, Discard, ignored' \subseteq Conn, sent' \in [Conn -> Nat],
           UNCHANGED <<applied, released>>, strayed => strayed'
    PROVE  Kept'
<1>1. main' = None /\ ~pending' /\ candidate' = FALSE /\ player' = None
      /\ buffer' = <<>> /\ credential' = None
  BY DEF Discard, OnMismatch
<1>2. Typed'
  <2>1. buffer' \in Seq([from : Conn, n : Nat]) /\ Len(buffer') <= Cap
    BY <1>1, EmptyFits
  <2>2. /\ main' \in Conn \cup {None} /\ player' \in Conn \cup {None}
        /\ pending' \in BOOLEAN /\ candidate' \in BOOLEAN /\ credential' \in Conn \cup {None}
    BY <1>1 DEF Discard, OnMismatch
  <2> QED BY <2>1, <2>2 DEF Kept, Typed
<1>3. Ordered' /\ TokenWaits'
  BY <1>1 DEF Ordered, NothingLost, Verified, TokenWaits
<1>4. Isolated'
  BY <1>1 DEF Kept, Isolated, Verified, OfMain
<1> QED BY <1>2, <1>3, <1>4 DEF Kept

(* An event of a candidate is held back, or it is the last its buffer can take. *)
LEMMA HoldKeeps ==
    ASSUME Kept, Tracked, ~Verified, NEW c \in Conn, NEW p \in Conn \cup {None},
           sock[c] \in {"greeted", "playing"}, Heard(c), Count(c), Hold(p, Numbered(c)),
           UNCHANGED <<applied, ignored, released>>, strayed => strayed'
    PROVE  Kept'
<1>1. CASE Len(buffer) < Cap
  <2>1. /\ buffer' = Append(buffer, Numbered(c)) /\ player' = p
        /\ UNCHANGED <<main, pending, candidate, credential>>
    BY <1>1 DEF Hold
  <2>2. Numbered(c) \in [from : Conn, n : Nat] /\ Numbered(c).from = c
    BY NumberedType DEF Kept
  <2>3. buffer \in Seq([from : Conn, n : Nat]) /\ main \in Conn \cup {None} /\ Typed
    BY DEF Kept, Typed
  <2>4. Typed'
    <3>1. buffer' \in Seq([from : Conn, n : Nat]) /\ Len(buffer') <= Cap
      BY <1>1, <2>1, <2>2, <2>3, IsolationAssumption
    <3>2. sent' \in [Conn -> Nat]
      BY <2>3, CountType
    <3> QED BY <2>1, <3>1, <3>2 DEF Kept, Typed
  <2>5. Ordered'
    <3>1. ASSUME main # None, pending PROVE InOrder(buffer', main, sent'[main])
      <4>1. InOrder(buffer, main, sent[main]) /\ main \in Conn /\ sent \in [Conn -> Nat]
        BY <2>3, <3>1 DEF Kept, Ordered, Typed
      <4> QED BY <2>1, <2>3, <4>1, CountedInOrder
    <3>2. ~Verified' /\ (main' # None /\ pending' => applied' = <<>>)
      BY <2>1 DEF Verified, Kept, Ordered
    <3> QED BY <2>1, <3>1, <3>2 DEF Ordered, NothingLost
  <2>6. TokenWaits'
    BY <2>1 DEF Kept, TokenWaits
  <2>7. Isolated'
    <3>1. ASSUME ~strayed, main # None PROVE Only(buffer', main)
      <4>1. Only(buffer, main) /\ c = main
        BY <3>1, OnlyCandidateSpeaks DEF Kept, Isolated
      <4> QED BY <2>1, <2>2, <2>3, <4>1, OnlyAppend
    <3> QED BY <2>1, <3>1 DEF Kept, Isolated, Verified, OfMain
  <2> QED BY <2>4, <2>5, <2>6, <2>7 DEF Kept
<1>2. CASE ~(Len(buffer) < Cap)
  <2>1. Discard /\ sent' \in [Conn -> Nat] /\ ignored' \subseteq Conn
    BY <1>2, CountType DEF Hold, Kept, Typed
  <2> QED BY <2>1, DiscardKeeps
<1> QED BY <1>1, <1>2

(* An event of the verified socket is applied. *)
LEMMA ApplyKeeps ==
    ASSUME Kept, Tracked, Verified, NEW c \in Conn,
           sock[c] \in {"greeted", "playing"}, Heard(c), Count(c), Apply(<<Numbered(c)>>),
           player' \in Conn \cup {None},
           UNCHANGED <<main, pending, candidate, buffer, credential, ignored, released>>,
           strayed => strayed'
    PROVE  Kept'
<1>1. Numbered(c) \in [from : Conn, n : Nat] /\ Numbered(c).from = c
  BY NumberedType DEF Kept
<1>2. applied \in Seq([from : Conn, n : Nat]) /\ main \in Conn /\ Typed
      /\ sent \in [Conn -> Nat]
  BY DEF Kept, Typed, Verified
<1>3. applied' = Append(applied, Numbered(c))
  <2>1. applied' = applied \o <<Numbered(c)>>
    BY DEF Apply
  <2> QED BY <1>1, <1>2, <2>1, AppendIsConcat
<1>4. Typed'
  <2>1. applied' \in Seq([from : Conn, n : Nat]) /\ sent' \in [Conn -> Nat]
    BY <1>1, <1>2, <1>3, CountType
  <2> QED BY <2>1 DEF Kept, Typed
<1>5. Ordered'
  <2>1. InOrder(applied, main, sent[main]) /\ buffer = <<>>
    BY DEF Kept, Ordered, NothingLost
  <2>2. InOrder(applied', main, sent'[main])
    BY <1>2, <1>3, <2>1, CountedInOrder
  <2> QED BY <2>1, <2>2 DEF Ordered, NothingLost, Verified
<1>6. TokenWaits'
  BY DEF Kept, TokenWaits
<1>7. Isolated'
  <2>1. ASSUME ~strayed PROVE OfMain(applied')
    <3>1. OfMain(applied) /\ Owner[main] = Main /\ c = main
      BY <2>1, OnlyCandidateSpeaks DEF Kept, Isolated
    <3> QED BY <1>1, <1>2, <1>3, <3>1, OnlyAppend
  <2> QED BY <2>1 DEF Kept, Isolated, Verified
<1> QED BY <1>4, <1>5, <1>6, <1>7 DEF Kept

LEMMA DispatchKeeps ==
    ASSUME Kept, Tracked, NEW c \in Conn, NEW p \in Conn \cup {None},
           sock[c] \in {"greeted", "playing"}, Heard(c), Count(c), DispatchEvent(p, Numbered(c)),
           strayed => strayed'
    PROVE  Kept'
<1>1. CASE Verified
  <2>1. /\ Apply(<<Numbered(c)>>) /\ player' = p
        /\ UNCHANGED <<main, pending, candidate, buffer, credential, ignored, released>>
    BY <1>1 DEF DispatchEvent
  <2> QED BY <1>1, <2>1, ApplyKeeps
<1>2. CASE ~Verified
  <2>1. Hold(p, Numbered(c)) /\ UNCHANGED <<applied, ignored, released>>
    BY <1>2 DEF DispatchEvent
  <2> QED BY <1>2, <2>1, HoldKeeps
<1> QED BY <1>1, <1>2

(* The candidate proves to be the main account's: its buffer is applied, and the
   Update that proved it; its token goes out. *)
LEMMA VerifyKeeps ==
    ASSUME Kept, Tracked, pending, NEW c \in Conn,
           sock[c] \in {"greeted", "playing"}, Heard(c), Count(c), Owner[c] = Main,
           Verify(Numbered(c)), strayed => strayed'
    PROVE  Kept'
<1>1. Numbered(c) \in [from : Conn, n : Nat] /\ Numbered(c).from = c
  BY NumberedType DEF Kept
<1>2. /\ buffer \in Seq([from : Conn, n : Nat]) /\ main \in Conn \cup {None} /\ Typed
      /\ sent \in [Conn -> Nat] /\ sent' \in [Conn -> Nat]
  BY CountType DEF Kept, Typed
<1>3. /\ ~pending' /\ candidate' = FALSE /\ Release /\ UNCHANGED ignored /\ main' = main
  BY DEF Verify
<1>4. /\ credential' = None /\ released' \subseteq Account
      /\ released' # released =>
            credential = main /\ main # None /\ released' = released \cup {Owner[main]}
  BY <1>2, <1>3, IsolationAssumption DEF Release, Kept, TokenWaits, Typed
<1>5. TokenWaits'
  BY <1>4 DEF TokenWaits
<1>6. ~strayed => c = main /\ Owner[main] = Main /\ released' \subseteq {Main}
  BY <1>4, OnlyCandidateSpeaks DEF Kept, Isolated
<1>7. /\ main' \in Conn \cup {None} /\ pending' \in BOOLEAN /\ candidate' \in BOOLEAN
      /\ credential' \in Conn \cup {None} /\ ignored' \subseteq Conn
      /\ released' \subseteq Account
  <2>1. pending' = FALSE
    BY DEF Verify
  <2> QED BY <1>2, <1>3, <1>4, <2>1 DEF Typed
<1>8. CASE main # None
  <2>1. /\ applied = <<>> /\ InOrder(buffer, main, sent[main])
        /\ Apply(Append(buffer, Numbered(c))) /\ buffer' = <<>> /\ UNCHANGED player
    BY <1>8 DEF Verify, Kept, Ordered
  <2>2. applied' = Append(buffer, Numbered(c))
    BY <1>1, <1>2, <2>1 DEF Apply
  <2>3. Typed'
    <3>1. applied' \in Seq([from : Conn, n : Nat])
      BY <1>1, <1>2, <2>2
    <3>2. buffer' \in Seq([from : Conn, n : Nat]) /\ Len(buffer') <= Cap
      BY <2>1, EmptyFits
    <3> QED BY <1>2, <1>7, <2>1, <3>1, <3>2 DEF Typed
  <2>4. Ordered'
    <3>1. InOrder(applied', main, sent'[main])
      BY <1>2, <1>8, <2>1, <2>2, CountedInOrder
    <3> QED BY <1>3, <2>1, <3>1 DEF Ordered, NothingLost
  <2>5. Isolated'
    <3>1. ASSUME ~strayed PROVE OfMain(applied')
      <4>1. OfMain(buffer)
        BY <1>6, <1>8, <3>1 DEF Kept, Isolated, Only, OfMain
      <4> QED BY <1>1, <1>2, <1>6, <2>2, <3>1, <4>1, OnlyAppend
    <3>2. Only(buffer', main')
      BY <2>1 DEF Only
    <3> QED BY <1>3, <1>6, <3>1, <3>2 DEF Isolated
  <2> QED BY <1>5, <2>3, <2>4, <2>5 DEF Kept
<1>9. CASE main = None
  <2>1. /\ UNCHANGED applied
        /\ \/ Len(buffer) < Cap /\ buffer' = Append(buffer, Numbered(c)) /\ UNCHANGED player
           \/ buffer' = <<>> /\ player' = None
    BY <1>9 DEF Verify
  <2>2. buffer' \in Seq([from : Conn, n : Nat]) /\ Len(buffer') <= Cap
    <3>1. CASE buffer' = <<>>
      BY <3>1, EmptyFits
    <3>2. CASE Len(buffer) < Cap /\ buffer' = Append(buffer, Numbered(c))
      BY <1>1, <1>2, <3>2, IsolationAssumption
    <3> QED BY <2>1, <3>1, <3>2
  <2>3. Typed'
    <3>1. player' \in Conn \cup {None} /\ applied' \in Seq([from : Conn, n : Nat])
      BY <1>2, <2>1 DEF Typed
    <3> QED BY <1>2, <1>7, <2>2, <3>1 DEF Typed
  <2>4. Ordered'
    BY <1>3, <1>9 DEF Ordered, NothingLost, Verified
  <2>5. Isolated'
    BY <1>3, <1>6, <1>9, <2>1 DEF Kept, Isolated, Verified, OfMain
  <2> QED BY <1>5, <2>3, <2>4, <2>5 DEF Kept
<1> QED BY <1>8, <1>9

LEMMA IdentifyKeeps ==
    ASSUME Kept, Tracked, NEW c \in Conn, sock[c] \in {"greeted", "playing"}, Heard(c),
           Count(c), Identify(c, Numbered(c)), strayed => strayed'
    PROVE  Kept'
<1>1. player \in Conn \cup {None}
  BY DEF Kept, Typed
<1>2. CASE player # c \/ Verified \/ ~pending
  BY <1>1, <1>2, DispatchKeeps DEF Identify
<1>3. CASE ~(player # c \/ Verified \/ ~pending) /\ Owner[c] = Main
  BY <1>3, VerifyKeeps DEF Identify
<1>4. CASE ~(player # c \/ Verified \/ ~pending) /\ Owner[c] # Main
  <2>1. Mismatch
    BY <1>4 DEF Identify
  <2>2. Discard /\ ignored' \subseteq Conn /\ UNCHANGED <<applied, released>>
    BY <2>1 DEF Mismatch, Kept, Typed
  <2>3. sent' \in [Conn -> Nat]
    BY CountType DEF Kept
  <2> QED BY <2>2, <2>3, DiscardKeeps
<1> QED BY <1>2, <1>3, <1>4

(* Nothing the session knows changes. *)
LEMMA SameKeeps ==
    ASSUME Kept, strayed => strayed', player' \in Conn \cup {None}, candidate' \in BOOLEAN,
           ignored' \subseteq Conn,
           UNCHANGED <<main, pending, buffer, credential, sent, applied, released>>
    PROVE  Kept'
<1>1. Typed'
  BY DEF Kept, Typed
<1>2. Ordered'
  BY DEF Kept, Ordered, NothingLost, Verified
<1>3. TokenWaits' /\ Isolated'
  BY DEF Kept, TokenWaits, Isolated, Verified, OfMain
<1> QED BY <1>1, <1>2, <1>3 DEF Kept

(* A Hello without a main connection makes its socket the candidate, from its
   first event on. *)
LEMMA AcceptKeeps ==
    ASSUME Kept, NEW c \in Conn, NEW token \in BOOLEAN, Accept(c, token), strayed => strayed'
    PROVE  Kept'
<1>1. /\ main = None /\ main' = c /\ pending' = TRUE /\ candidate' = TRUE
      /\ buffer' = <<>> /\ applied' = <<>> /\ sent' = [sent EXCEPT ![c] = 0]
      /\ UNCHANGED <<player, ignored, released>>
  BY DEF Accept
<1>2. credential = None
  BY <1>1 DEF Kept, TokenWaits
<1>3. credential' \in {c, None}
  BY <1>2 DEF Accept
<1>4. c # None /\ sent' \in [Conn -> Nat] /\ sent'[c] = 0
  BY <1>1, IsolationAssumption DEF Kept, Typed
<1>5. Typed'
  <2>1. /\ buffer' \in Seq([from : Conn, n : Nat]) /\ Len(buffer') <= Cap
        /\ applied' \in Seq([from : Conn, n : Nat])
    BY <1>1, EmptyFits
  <2>2. pending' \in BOOLEAN /\ candidate' \in BOOLEAN
    BY <1>1
  <2> QED BY <1>1, <1>3, <1>4, <2>1, <2>2 DEF Kept, Typed
<1>6. Ordered'
  <2>1. InOrder(buffer', main', sent'[main'])
    BY <1>1, <1>4, NothingInOrder
  <2> QED BY <1>1, <2>1 DEF Ordered, NothingLost, Verified
<1>7. TokenWaits'
  BY <1>1, <1>3 DEF TokenWaits
<1>8. Isolated'
  BY <1>1 DEF Kept, Isolated, Verified, OfMain, Only
<1> QED BY <1>5, <1>6, <1>7, <1>8 DEF Kept

LEMMA ReconnectKeeps ==
    ASSUME Kept, NEW c \in Conn, NEW token \in BOOLEAN, Reconnect(c, token), strayed => strayed'
    PROVE  Kept'
<1>1. main = c /\ UNCHANGED <<main, pending, candidate, player, buffer, ignored, sent, applied>>
  BY DEF Reconnect, session
<1>2. c # None
  BY IsolationAssumption
<1>3. CASE token /\ Verified
  <2>1. released' = released \cup {Owner[c]} /\ credential' = None
    BY <1>3 DEF Reconnect
  <2>2. Typed'
    BY <1>1, <2>1, IsolationAssumption DEF Kept, Typed
  <2>3. Ordered' /\ TokenWaits'
    BY <1>1, <2>1 DEF Kept, Ordered, NothingLost, Verified, TokenWaits
  <2>4. Isolated'
    BY <1>1, <1>3, <2>1 DEF Kept, Isolated, Verified, OfMain
  <2> QED BY <2>2, <2>3, <2>4 DEF Kept
<1>4. CASE ~(token /\ Verified)
  <2>1. credential' = (IF token THEN c ELSE credential) /\ UNCHANGED released
    BY <1>4 DEF Reconnect
  <2>2. Typed'
    BY <1>1, <2>1 DEF Kept, Typed
  <2>3. TokenWaits'
    BY <1>1, <1>2, <1>4, <2>1 DEF Kept, TokenWaits, Verified
  <2>4. Ordered' /\ Isolated'
    BY <1>1, <2>1 DEF Kept, Ordered, NothingLost, Verified, Isolated, OfMain
  <2> QED BY <2>2, <2>3, <2>4 DEF Kept
<1> QED BY <1>3, <1>4

LEMMA DisconnectKeeps ==
    ASSUME Kept, OnDisconnect, UNCHANGED <<ignored, sent, applied, released>>,
           strayed => strayed'
    PROVE  Kept'
<1>1. main' = None /\ candidate' = FALSE /\ player' = None /\ pending' = pending
      /\ buffer' = <<>> /\ credential' = None
  BY DEF OnDisconnect
<1>2. Typed'
  <2>1. buffer' \in Seq([from : Conn, n : Nat]) /\ Len(buffer') <= Cap
    BY <1>1, EmptyFits
  <2>2. candidate' \in BOOLEAN
    BY <1>1
  <2> QED BY <1>1, <2>1, <2>2 DEF Kept, Typed
<1>3. Ordered' /\ TokenWaits'
  BY <1>1 DEF Ordered, NothingLost, Verified, TokenWaits
<1>4. Isolated'
  BY <1>1 DEF Kept, Isolated, Verified, OfMain
<1> QED BY <1>2, <1>3, <1>4 DEF Kept

-----------------------------------------------------------------------------
LEMMA InitInv == IsolationInit => IInv
<1> SUFFICES ASSUME IsolationInit PROVE IInv
  OBVIOUS
<1>1. /\ main = None /\ ~pending /\ pending \in BOOLEAN /\ candidate \in BOOLEAN
      /\ player = None /\ boost = None /\ buffer = <<>> /\ credential = None
      /\ ignored = {} /\ released = {} /\ applied = <<>> /\ sent \in [Conn -> Nat]
      /\ strayed = Stray
  BY DEF IsolationInit
<1>2. sock \in [Conn -> {"none", "open", "greeted", "playing", "closed"}]
  BY DEF IsolationInit
<1>3. Stray \in BOOLEAN
  BY DEF Stray
<1>4. Typed
  <2>1. /\ buffer \in Seq([from : Conn, n : Nat]) /\ Len(buffer) <= Cap
        /\ applied \in Seq([from : Conn, n : Nat])
    BY <1>1, EmptyFits
  <2> QED BY <1>1, <2>1 DEF Typed
<1>5. IsolationTypeOK
  BY <1>1, <1>2, <1>3, <1>4 DEF IsolationTypeOK, Typed
<1>6. Ordered /\ TokenWaits /\ Isolated
  BY <1>1 DEF Ordered, NothingLost, Verified, TokenWaits, Isolated, OfMain
<1> QED BY <1>1, <1>4, <1>5, <1>6 DEF IInv, Kept, Tracked

LEMMA NextInv == IInv /\ [IsolationNext]_isolationVars => IInv'
<1> SUFFICES ASSUME IInv, [IsolationNext]_isolationVars PROVE IInv'
  OBVIOUS
<1>1. Kept /\ Tracked /\ IsolationTypeOK /\ Typed /\ player \in Conn \cup {None} /\ candidate \in BOOLEAN
      /\ ignored \subseteq Conn
  BY DEF IInv, Kept, Typed
<1>2. CASE UNCHANGED isolationVars
  <2>1. UNCHANGED <<sock, main, pending, candidate, player, boost, buffer, credential,
                    ignored, strayed, sent, applied, released>>
    BY <1>2 DEF isolationVars, session
  <2>2. Kept'
    BY <1>1, <2>1, SameKeeps
  <2>3. IsolationTypeOK' /\ Tracked'
    BY <1>1, <2>1 DEF IsolationTypeOK, Tracked, Stray
  <2> QED BY <2>2, <2>3 DEF IInv
<1>3. CASE IsolationNext
  <2>1. strayed' = (strayed \/ Stray') /\ (strayed => strayed')
    BY <1>3 DEF IsolationNext, Track
  <2>2. Tracked'
    BY <2>1 DEF Tracked
  <2>3. ASSUME NEW c \in Conn, Open(c) PROVE Kept'
    <3>1. UNCHANGED <<main, pending, candidate, player, buffer, credential, ignored, sent,
                      applied, released>>
      BY <2>3 DEF Open, session
    <3> QED BY <1>1, <2>1, <3>1, SameKeeps
  <2>4. ASSUME NEW c \in Conn, Hello(c) PROVE Kept'
    <3>1. PICK captured \in Captured(c), token \in BOOLEAN :
            IF captured /\ c \notin ignored
            THEN Accept(c, token) \/ Reject(c) \/ Reconnect(c, token)
            ELSE UNCHANGED <<session, buffer, credential, ignored, sent, applied, released>>
      BY <2>4 DEF Hello
    <3>2. CASE Accept(c, token)
      BY <1>1, <2>1, <3>2, AcceptKeeps
    <3>3. CASE Reject(c)
      <4>1. /\ UNCHANGED <<main, pending, candidate, player, buffer, credential, sent,
                           applied, released>>
            /\ ignored' \subseteq Conn
        BY <1>1, <3>3 DEF Reject, session
      <4> QED BY <1>1, <2>1, <4>1, SameKeeps
    <3>4. CASE Reconnect(c, token)
      BY <1>1, <2>1, <3>4, ReconnectKeeps
    <3>5. CASE UNCHANGED <<session, buffer, credential, ignored, sent, applied, released>>
      <4>1. UNCHANGED <<main, pending, candidate, player, buffer, credential, ignored, sent,
                        applied, released>>
        BY <3>5 DEF session
      <4> QED BY <1>1, <2>1, <4>1, SameKeeps
    <3> QED BY <3>1, <3>2, <3>3, <3>4, <3>5
  <2>5. ASSUME NEW c \in Conn, Load(c) PROVE Kept'
    <3>1. CASE Heard(c) /\ Count(c) /\ DispatchEvent(c, Numbered(c))
      BY <1>1, <2>1, <2>5, <3>1, DispatchKeeps DEF Load
    <3>2. CASE UNCHANGED <<session, buffer, credential, ignored, sent, applied, released>>
      <4>1. UNCHANGED <<main, pending, candidate, player, buffer, credential, ignored, sent,
                        applied, released>>
        BY <3>2 DEF session
      <4> QED BY <1>1, <2>1, <4>1, SameKeeps
    <3> QED BY <2>5, <3>1, <3>2 DEF Load
  <2>6. ASSUME NEW c \in Conn, Event(c) PROVE Kept'
    BY <1>1, <2>1, <2>6, DispatchKeeps DEF Event
  <2>7. ASSUME NEW c \in Conn, Update(c) PROVE Kept'
    BY <1>1, <2>1, <2>7, IdentifyKeeps DEF Update
  <2>8. ASSUME NEW c \in Conn, Close(c) PROVE Kept'
    <3>1. UNCHANGED <<ignored, sent, applied, released>>
      BY <2>8 DEF Close
    <3>2. CASE OnDisconnect
      BY <1>1, <2>1, <3>1, <3>2, DisconnectKeeps
    <3>3. CASE UNCHANGED <<session, boost, buffer, credential>>
      <4>1. UNCHANGED <<main, pending, candidate, player, buffer, credential>>
        BY <3>3 DEF session
      <4> QED BY <1>1, <2>1, <3>1, <4>1, SameKeeps
    <3> QED BY <2>8, <3>2, <3>3 DEF Close
  <2>9. ASSUME TimeOut PROVE Kept'
    <3>1. Discard /\ UNCHANGED <<ignored, sent, applied, released>>
      BY <2>9 DEF TimeOut
    <3>2. ignored' \subseteq Conn /\ sent' \in [Conn -> Nat]
      BY <1>1, <3>1 DEF Typed
    <3> QED BY <1>1, <2>1, <3>1, <3>2, DiscardKeeps
  <2>10. Kept'
    BY <1>3, <2>3, <2>4, <2>5, <2>6, <2>7, <2>8, <2>9 DEF IsolationNext
  <2>11. sock' \in [Conn -> {"none", "open", "greeted", "playing", "closed"}]
    <3>1. \/ UNCHANGED sock
          \/ \E c \in Conn, s \in {"open", "greeted", "playing", "closed"} :
                sock' = [sock EXCEPT ![c] = s]
      BY <1>3 DEF IsolationNext, Open, Hello, Load, Event, Update, Close, TimeOut
    <3> QED BY <1>1, <3>1 DEF IsolationTypeOK
  <2>12. boost' \in Account \cup {None}
    <3>1. boost' = boost \/ boost' = None \/ \E c \in Conn : boost' = Owner[c]
      BY <1>3 DEF IsolationNext, Open, Hello, Load, Event, Update, Close, OnDisconnect, TimeOut
    <3> QED BY <1>1, <3>1, IsolationAssumption DEF IsolationTypeOK
  <2>13. strayed' \in BOOLEAN
    BY <1>1, <2>1 DEF IsolationTypeOK
  <2>14. Typed'
    BY <2>10 DEF Kept
  <2>15. IsolationTypeOK'
    BY <2>11, <2>12, <2>13, <2>14 DEF IsolationTypeOK, Typed
  <2> QED BY <2>2, <2>10, <2>15 DEF IInv
<1> QED BY <1>2, <1>3

-----------------------------------------------------------------------------
(* Socket by socket, the buffer continues what was applied and a token is of the
   candidate, however connections interleave and whatever the capture misses. *)
THEOREM Invariance == IsolationSpec => []IInv
BY InitInv, NextInv, PTL DEF IsolationSpec

(* The buffer never holds more than PENDING_EVENT_CAP events. *)
THEOREM Types == IsolationSpec => []IsolationTypeOK
<1>1. IInv => IsolationTypeOK
  BY DEF IInv
<1> QED BY <1>1, Invariance, PTL

(* "The buffer is discarded and nothing ever reaches the UI", and a candidate
   "never releases credentials": until a socket strays, only the events and the
   token of the main account get out, and a token that waits is always that of
   the candidate whose verdict it waits for. *)
THEOREM MuleKeptOut == IsolationSpec => []OnlyMainGetsOut
<1>1. IInv => OnlyMainGetsOut
  BY DEF IInv, Kept, TokenWaits, Isolated, OfMain, OnlyMainGetsOut
<1> QED BY <1>1, Invariance, PTL

(* "None of the main's own loot/combat/location/objects are lost": the verified
   socket's events since its Hello are all applied, once and in order. *)
THEOREM ReplayIsWhole == IsolationSpec => []NothingLost
<1>1. IInv => NothingLost
  BY DEF IInv, Kept, Ordered
<1> QED BY <1>1, Invariance, PTL

-----------------------------------------------------------------------------
(* What the control channel carries, and what is counted. *)
Messages == [kind : {"edit", "capture", "result", "shutdown"}, gen : 0..MaxInputs]
Counts == [captured : 0..MaxInputs, processed : Nat, edits : 0..MaxInputs,
           fetches : 0..MaxInputs, sent : Nat, shown : Nat]

(* The edits that the worker has still to take from its control channel. *)
EditsAt(q) == {k \in 1..Len(q) : q[k].kind = "edit"}
EditsIn(q) == Cardinality(EditsAt(q))

(* The worker has taken the message that shuts it down. *)
Ending == worker \in {"drain", "close", "stopped"}

(* The window is on its way out: it takes no more edits. *)
Leaving == ui \in {"waiting", "replaced", "ended"}

HasShutdown(q) == \E k \in 1..Len(q) : q[k].kind = "shutdown"
NoEditAfterShutdown(q) ==
    \A k \in 1..Len(q) : q[k].kind = "shutdown" =>
        \A j \in k..Len(q) : q[j].kind # "edit"

(* Every edit is in the model or on its way there; none comes after a shutdown. *)
EditsFollowed ==
    /\ model.edits + EditsIn(control) = count.edits
    /\ NoEditAfterShutdown(control)
    /\ HasShutdown(control) \/ Ending => Leaving
    /\ Ending => EditsAt(control) = {}
    /\ ui = "starting" => control = <<>> /\ fetching = {} /\ worker = "staged"

(* What the report says of the disk. *)
ReportTrue ==
    /\ ~dirty => disk = Saved(model)
    /\ report # "none" => worker \in {"close", "stopped"}
    /\ worker = "close" /\ report = "none" => disk = Saved(model)
    /\ report = "success" => worker = "stopped" /\ disk = Saved(model)
    /\ ui = "replaced" => report = "success"

(* All of it: inductive. *)
PInv == TypeOK /\ QueuesLoseOldestOnly /\ EditsFollowed /\ ReportTrue

-----------------------------------------------------------------------------
(* The places of the edits are finitely many. *)
LEMMA EditsFinite ==
    ASSUME NEW S, NEW q \in Seq(S)
    PROVE  IsFiniteSet(EditsAt(q)) /\ EditsIn(q) \in Nat
<1>1. Len(q) \in Nat
  OBVIOUS
<1>2. IsFiniteSet(1..Len(q))
  BY <1>1, FS_Interval
<1>3. EditsAt(q) \subseteq 1..Len(q)
  BY DEF EditsAt
<1>4. IsFiniteSet(EditsAt(q))
  BY <1>2, <1>3, FS_Subset
<1> QED
  BY <1>4, FS_CardinalityType DEF EditsIn

(* A message that is no edit adds none. *)
LEMMA AppendOther ==
    ASSUME NEW S, NEW q \in Seq(S), NEW e \in S, e.kind # "edit"
    PROVE  EditsAt(Append(q, e)) = EditsAt(q)
  BY DEF EditsAt

(* An edit adds one. *)
LEMMA AppendEdit ==
    ASSUME NEW S, NEW q \in Seq(S), NEW e \in S, e.kind = "edit"
    PROVE  EditsIn(Append(q, e)) = EditsIn(q) + 1
<1>1. EditsAt(Append(q, e)) = EditsAt(q) \cup {Len(q) + 1}
  BY DEF EditsAt
<1>2. Len(q) + 1 \notin EditsAt(q)
  BY DEF EditsAt
<1>3. Cardinality(EditsAt(q) \cup {Len(q) + 1}) = Cardinality(EditsAt(q)) + 1
  BY <1>2, EditsFinite, FS_AddElement
<1> QED
  BY <1>1, <1>3 DEF EditsIn

(* Taking the first message takes one edit if it is one, and none otherwise. *)
LEMMA TailEdits ==
    ASSUME NEW S, NEW q \in Seq(S), q # <<>>
    PROVE  /\ EditsIn(q) = EditsIn(Tail(q)) + (IF Head(q).kind = "edit" THEN 1 ELSE 0)
           /\ EditsAt(q) = {} => EditsAt(Tail(q)) = {}
<1> DEFINE T == EditsAt(Tail(q))
           U == EditsAt(q) \ {1}
           f == [k \in T |-> k + 1]
<1>1. /\ Tail(q) \in Seq(S) /\ Len(Tail(q)) = Len(q) - 1 /\ Len(q) \in Nat \ {0}
      /\ \A k \in 1..Len(Tail(q)) : Tail(q)[k] = q[k + 1]
      /\ Head(q) = q[1]
  OBVIOUS
<1>2. f \in Bijection(T, U)
  <2>1. \A k \in T : k + 1 \in U
    BY <1>1 DEF EditsAt
  <2>2. \A j \in U : j - 1 \in T /\ j = (j - 1) + 1
    BY <1>1 DEF EditsAt
  <2>3. f \in [T -> U]
    BY <2>1
  <2>4. \A j \in U : \E k \in T : f[k] = j
    BY <2>2
  <2>5. \A a, b \in T : f[a] = f[b] => a = b
    BY DEF EditsAt
  <2> QED
    BY <2>3, <2>4, <2>5, Fun_IsBij
<1>3. Cardinality(T) = Cardinality(U)
  <2>1. ExistsBijection(T, U)
    BY <1>2 DEF ExistsBijection
  <2>2. IsFiniteSet(T)
    BY <1>1, EditsFinite
  <2> QED
    BY <2>1, <2>2, FS_Bijection
<1>4. EditsIn(q) = Cardinality(U) + (IF Head(q).kind = "edit" THEN 1 ELSE 0)
  <2>1. 1 \in EditsAt(q) <=> Head(q).kind = "edit"
    BY <1>1 DEF EditsAt
  <2>2. IsFiniteSet(EditsAt(q)) /\ Cardinality(EditsAt(q)) \in Nat
    BY EditsFinite DEF EditsIn
  <2>3. Cardinality(U) = IF 1 \in EditsAt(q) THEN Cardinality(EditsAt(q)) - 1
                                           ELSE Cardinality(EditsAt(q))
    BY <2>2, FS_RemoveElement
  <2> QED
    BY <2>1, <2>2, <2>3 DEF EditsIn
<1>5. EditsAt(q) = {} => T = {}
  BY <1>1 DEF EditsAt
<1> QED
  BY <1>3, <1>4, <1>5 DEF EditsIn

-----------------------------------------------------------------------------
(* A channel keeps to its capacity, whatever it has to drop for that. *)
LEMMA PushBounded ==
    ASSUME NEW S, NEW q \in Seq(S), NEW e \in S, NEW cap \in Nat \ {0}, Len(q) <= cap
    PROVE  /\ Push(q, e, cap) \in Seq(S)
           /\ Len(q) >= cap => Len(Push(q, e, cap)) = Len(q)
           /\ ~(Len(q) >= cap) => Len(Push(q, e, cap)) = Len(q) + 1
           /\ Len(Push(q, e, cap)) <= cap
  BY DEF Push

(* What is left of a channel after the first n elements. *)
LEMMA Rest ==
    ASSUME NEW S, NEW q \in Seq(S), NEW n \in 0..Len(q)
    PROVE  /\ SubSeq(q, n + 1, Len(q)) \in Seq(S)
           /\ Len(SubSeq(q, n + 1, Len(q))) = Len(q) - n
           /\ \A k \in 1..(Len(q) - n) : SubSeq(q, n + 1, Len(q))[k] = q[n + k]
  OBVIOUS

(* What the numbers of the inputs allow. *)
LEMMA SomeInputLeft ==
    ASSUME TypeOK, Inputs < MaxInputs
    PROVE  /\ count.captured + 1 \in 1..MaxInputs /\ count.edits + 1 \in 1..MaxInputs
           /\ count.fetches + 1 \in 1..MaxInputs
  BY SMTT(30), PipelineAssumption DEF TypeOK, Inputs

(* Counting leaves the counts what they are. *)
LEMMA Counted ==
    ASSUME NEW c \in Counts
    PROVE  /\ \A n \in 0..MaxInputs : /\ [c EXCEPT !.captured = n] \in Counts
                                     /\ [c EXCEPT !.edits = n] \in Counts
                                     /\ [c EXCEPT !.fetches = n] \in Counts
           /\ \A n \in Nat : /\ [c EXCEPT !.processed = n] \in Counts
                            /\ [c EXCEPT !.sent = n] \in Counts
                            /\ [c EXCEPT !.shown = n] \in Counts
<1>1. \A n \in 0..MaxInputs : [c EXCEPT !.captured = n] \in Counts
  BY DEF Counts
<1>2. \A n \in 0..MaxInputs : [c EXCEPT !.edits = n] \in Counts
  BY DEF Counts
<1>3. \A n \in 0..MaxInputs : [c EXCEPT !.fetches = n] \in Counts
  BY DEF Counts
<1>4. \A n \in Nat : [c EXCEPT !.processed = n] \in Counts
  BY DEF Counts
<1>5. \A n \in Nat : [c EXCEPT !.sent = n] \in Counts
  BY DEF Counts
<1>6. \A n \in Nat : [c EXCEPT !.shown = n] \in Counts
  BY DEF Counts
<1> QED
  BY <1>1, <1>2, <1>3, <1>4, <1>5, <1>6

(* What a batch takes. *)
LEMMA BatchTaken ==
    ASSUME NEW len \in Nat, NEW most \in Nat \ {0}
    PROVE  Smaller(len, most) \in 0..len /\ Smaller(len, most) <= most
  BY DEF Smaller

-----------------------------------------------------------------------------
(* What a batch does: n packets are taken, and nothing else. *)
LEMMA BatchReceived ==
    ASSUME TypeOK, Receive
    PROVE  \E n \in 0..Len(packets), emits \in Nat, changes \in Nat :
             /\ packets' = SubSeq(packets, n + 1, Len(packets))
             /\ count' = [count EXCEPT !.processed = @ + n]
             /\ out' = out + emits
             /\ model' = [model EXCEPT !.live = @ + changes]
             /\ dirty' = (dirty \/ changes > 0)
             /\ source' = source \/ (source' = "gone" /\ packets' = <<>>)
<1> DEFINE n == IF source \in {"running", "ended"} THEN Smaller(Len(packets), Batch) ELSE 0
           rest == SubSeq(packets, n + 1, Len(packets))
           stops == IF Closed(rest) THEN 1 ELSE 0
<1>1. n \in 0..Len(packets)
  BY PipelineAssumption DEF TypeOK, Smaller
<1>2. /\ packets' = rest
      /\ source' = IF stops = 1 THEN "gone" ELSE source
      /\ \E emits \in 0..n, changes \in {0, n} :
           /\ out' = out + emits + stops
           /\ model' = [model EXCEPT !.live = @ + changes]
           /\ dirty' = (dirty \/ changes > 0)
      /\ count' = [count EXCEPT !.processed = @ + n]
  BY DEF Receive
<1>3. stops \in {0, 1} /\ (stops = 1 => rest = <<>>)
  BY DEF Closed
<1> HIDE DEF n, rest, stops
<1>4. source' = source \/ (source' = "gone" /\ packets' = <<>>)
  BY <1>2, <1>3
<1>5. PICK emits \in 0..n, changes \in {0, n} :
           /\ out' = out + emits + stops
           /\ model' = [model EXCEPT !.live = @ + changes]
           /\ dirty' = (dirty \/ changes > 0)
  BY <1>2
<1>6. Len(packets) \in Nat /\ out \in Nat
  BY DEF TypeOK
<1>7. n \in Nat /\ emits + stops \in Nat /\ changes \in Nat /\ out' = out + (emits + stops)
  BY <1>1, <1>3, <1>5, <1>6
<1>8. packets' = SubSeq(packets, n + 1, Len(packets))
  BY <1>2 DEF rest
<1> QED
  BY <1>1, <1>2, <1>4, <1>5, <1>7, <1>8

(* A batch leaves the queue and the model what they are. *)
LEMMA BatchTyped ==
    ASSUME TypeOK, Receive
    PROVE  /\ packets' \in Seq(1..MaxInputs) /\ Len(packets') <= QueueCap
           /\ count' \in Counts /\ model' \in Model /\ out' \in Nat /\ dirty' \in BOOLEAN
<1>1. /\ packets \in Seq(1..MaxInputs) /\ Len(packets) <= QueueCap /\ count \in Counts
      /\ model \in Model /\ out \in Nat /\ dirty \in BOOLEAN
  BY DEF TypeOK, Counts
<1>2. PICK n \in 0..Len(packets), emits \in Nat, changes \in Nat :
         /\ packets' = SubSeq(packets, n + 1, Len(packets))
         /\ count' = [count EXCEPT !.processed = @ + n]
         /\ out' = out + emits
         /\ model' = [model EXCEPT !.live = @ + changes]
         /\ dirty' = (dirty \/ changes > 0)
  BY BatchReceived
<1>3. packets' \in Seq(1..MaxInputs) /\ Len(packets') = Len(packets) - n
  BY <1>1, <1>2, Rest
<1>4. Len(packets') <= QueueCap
  BY SMTT(30), <1>1, <1>2, <1>3, PipelineAssumption
<1>5. count.processed + n \in Nat
  BY <1>1 DEF Counts
<1>6. count' \in Counts
  <2>1. count' = [count EXCEPT !.processed = count.processed + n]
    BY <1>2
  <2>2. count \in Counts
    BY <1>1
  <2> QED
    BY <1>5, <2>1, <2>2, Counted
<1>7. model' \in Model
  BY SMTT(30), <1>1, <1>2 DEF Model
<1>8. out' \in Nat /\ dirty' \in BOOLEAN
  BY <1>1, <1>2
<1> QED
  BY <1>3, <1>4, <1>6, <1>7, <1>8

(* What a frame takes from the update channel. *)
LEMMA FrameTaken ==
    ASSUME TypeOK, DrainUpdates
    PROVE  \E n \in 0..Len(queue) :
             /\ queue' = SubSeq(queue, n + 1, Len(queue))
             /\ count' = [count EXCEPT !.shown = @ + n]
<1>1. Smaller(Len(queue), PerFrame) \in 0..Len(queue)
  BY PipelineAssumption DEF TypeOK, Smaller
<1>2. /\ queue' = SubSeq(queue, Smaller(Len(queue), PerFrame) + 1, Len(queue))
      /\ count' = [count EXCEPT !.shown = @ + Smaller(Len(queue), PerFrame)]
  BY DEF DrainUpdates
<1> QED
  BY <1>1, <1>2

(* A frame leaves the update channel what it is. *)
LEMMA FrameTyped ==
    ASSUME TypeOK, DrainUpdates
    PROVE  queue' \in Seq(Nat) /\ Len(queue') <= UiCap /\ count' \in Counts
<1>1. queue \in Seq(Nat) /\ Len(queue) <= UiCap /\ count \in Counts
  BY DEF TypeOK, Counts
<1>2. PICK n \in 0..Len(queue) :
         /\ queue' = SubSeq(queue, n + 1, Len(queue))
         /\ count' = [count EXCEPT !.shown = @ + n]
  BY FrameTaken
<1>3. queue' \in Seq(Nat) /\ Len(queue') = Len(queue) - n
  BY <1>1, <1>2, Rest
<1>4. Len(queue') <= UiCap
  BY <1>1, <1>2, <1>3, PipelineAssumption
<1>5. count.shown + n \in Nat
  BY <1>1 DEF Counts
<1>6. count' \in Counts
  <2>1. count' = [count EXCEPT !.shown = count.shown + n]
    BY <1>2
  <2>2. count \in Counts
    BY <1>1
  <2> QED
    BY <1>5, <2>1, <2>2, Counted
<1> QED
  BY <1>3, <1>4, <1>6

(* Every step keeps the types. *)
LEMMA TypeStep ==
    ASSUME TypeOK, [Next]_vars
    PROVE  TypeOK'
<1>1. CASE CapturePacket
  <2>1. count \in Counts /\ packets \in Seq(1..MaxInputs) /\ Len(packets) <= QueueCap
    BY DEF TypeOK, Counts
  <2>2. count' \in Counts
    <3>1. count' = [count EXCEPT !.captured = count.captured + 1]
      BY <1>1 DEF CapturePacket
    <3>2. count.captured + 1 \in 0..MaxInputs
      BY <1>1, SomeInputLeft DEF CapturePacket
    <3> QED
      BY <2>1, <3>1, <3>2, Counted
  <2>3. packets' \in Seq(1..MaxInputs) /\ Len(packets') <= QueueCap
    BY <1>1, <2>1, SomeInputLeft, PushBounded, PipelineAssumption DEF CapturePacket
  <2>4. lost' \in Nat
    BY <1>1 DEF TypeOK, CapturePacket
  <2>5. UNCHANGED <<source, control, worker, publishing, account, out, channel, storage,
                    report, window, repaint, fetching>>
    BY <1>1 DEF CapturePacket
  <2> QED
    BY <2>1, <2>2, <2>3, <2>4, <2>5
       DEF TypeOK, Counts, capture, channel, publishing, account, storage, window
<1>2. CASE EndCapture
  BY <1>2, PipelineAssumption
     DEF TypeOK, EndCapture, capture, channel, publishing, account, storage, window,
         At, Alive, Model, Saved
<1>3. CASE HandleControl
  <2>1. control \in Seq(Messages) /\ model \in Model
    BY DEF TypeOK, Messages
  <2>2. control # <<>>
    BY <1>3 DEF HandleControl
  <2>3. Head(control) \in Messages /\ control' \in Seq(Messages)
    BY <1>3, <2>1, <2>2 DEF HandleControl
  <2>4. Head(control).gen \in Nat
    BY <2>3, PipelineAssumption DEF Messages
  <2>5. model' \in Model
    BY <1>3, <2>1, <2>4 DEF HandleControl, ApplyResult, Model, account
  <2>6. /\ dirty' \in {dirty, TRUE} /\ wake' \in {wake, TRUE}
       /\ out' \in {out, out + 1} /\ source' \in {source, "running"}
    BY <1>3 DEF HandleControl, account
  <2>7. /\ UNCHANGED <<packets, lost, snapshot, channel, storage, report, window, repaint,
                       fetching, count>>
       /\ worker' = "publish" /\ resume' = "control"
    BY <1>3 DEF HandleControl
  <2>8. out' \in Nat /\ source' \in {"none", "offered", "running", "ended", "gone"}
    BY <2>6 DEF TypeOK
  <2>9. dirty' \in BOOLEAN /\ wake' \in BOOLEAN
    BY <2>6 DEF TypeOK
  <2> QED
    BY <2>3, <2>5, <2>7, <2>8, <2>9
       DEF TypeOK, Messages, capture, channel, publishing, account, storage, window
<1>4. CASE HandleShutdown
  BY <1>4, PipelineAssumption
     DEF TypeOK, HandleShutdown, capture, channel, publishing, account, storage,
         window, At, Alive, Model, Saved
<1>5. CASE Receive
  <2>1. /\ packets' \in Seq(1..MaxInputs) /\ Len(packets') <= QueueCap /\ count' \in Counts
       /\ model' \in Model /\ out' \in Nat /\ dirty' \in BOOLEAN
    BY <1>5, BatchTyped
  <2>2. worker' \in {"save", "dispatch"} /\ source' \in {source, "gone"}
    BY <1>5 DEF Receive
  <2>3. UNCHANGED <<lost, control, wake, snapshot, channel, storage, report, window, repaint,
                    fetching>> /\ resume' = "save"
    BY <1>5 DEF Receive
  <2> QED
    BY SMTT(30), <2>1, <2>2, <2>3
       DEF TypeOK, Counts, capture, channel, publishing, account, storage, window
<1>6. CASE Dispatch
  <2>1. count \in Counts /\ queue \in Seq(Nat) /\ Len(queue) <= UiCap
    BY DEF TypeOK, Counts
  <2>2. count.sent + 1 \in Nat
    BY <2>1 DEF Counts
  <2>3. count' \in Counts
    <3>1. count' = [count EXCEPT !.sent = count.sent + 1]
      BY <1>6 DEF Dispatch
    <3> QED
      BY <2>1, <2>2, <3>1, Counted
  <2>4. queue' \in Seq(Nat) /\ Len(queue') <= UiCap
    BY <1>6, <2>1, <2>2, PushBounded, PipelineAssumption DEF Dispatch
  <2>5. dropped' \in Nat /\ out' \in Nat
    BY SMTT(30), <1>6 DEF TypeOK, Dispatch
  <2>6. /\ UNCHANGED <<capture, control, worker, resume, snapshot, account, storage, report,
                       window, repaint, fetching>>
       /\ wake' = TRUE
    BY <1>6 DEF Dispatch
  <2> QED
    BY <2>1, <2>2, <2>3, <2>4, <2>5, <2>6
       DEF TypeOK, Counts, capture, channel, publishing, account, storage, window
<1>7. CASE Publish
  BY <1>7, PipelineAssumption
     DEF TypeOK, Publish, capture, channel, publishing, account, storage, window, At,
         Alive, Model, Saved
<1>8. CASE Wake
  BY <1>8, PipelineAssumption
     DEF TypeOK, Wake, capture, channel, publishing, account, storage, window, At,
         Alive, Model, Saved
<1>9. CASE SaveAccount
  BY <1>9, PipelineAssumption
     DEF TypeOK, SaveAccount, capture, channel, publishing, account, storage, window,
         At, Alive, Model, Saved
<1>10. CASE SaveFails
  BY <1>10, PipelineAssumption
     DEF TypeOK, SaveFails, capture, channel, publishing, account, storage, window,
         At, Alive, Model, Saved
<1>11. CASE SaveNotDue
  BY <1>11, PipelineAssumption
     DEF TypeOK, SaveNotDue, capture, channel, publishing, account, storage, window,
         At, Alive, Model, Saved
<1>12. CASE DrainAndSave
  <2>1. model \in Model /\ disk \in Model
    BY DEF TypeOK
  <2>2. model' \in Model
    BY <1>12, <2>1 DEF DrainAndSave, Model
  <2>3. Saved(model') \in Model
    BY <2>2 DEF Model, Saved
  <2>4. disk' \in {disk, Saved(model')}
    BY <1>12 DEF DrainAndSave
  <2>5. failures' \in 0..MaxFailures /\ report' \in {report, "failed"}
    <3>1. /\ failures' = failures \/ (failures < MaxFailures /\ failures' = failures + 1)
          /\ report' \in {report, "failed"}
      BY <1>12 DEF DrainAndSave
    <3>2. failures \in 0..MaxFailures
      BY DEF TypeOK
    <3> QED
      BY <3>1, <3>2, PipelineAssumption
  <2>6. /\ UNCHANGED <<capture, control, publishing, out, channel, window, repaint,
                       fetching, count>>
       /\ worker' = "close" /\ dirty' \in BOOLEAN
    BY <1>12 DEF DrainAndSave
  <2> QED
    BY <2>1, <2>2, <2>3, <2>4, <2>5, <2>6
       DEF TypeOK, capture, channel, publishing, account, storage, window
<1>13. CASE CloseDatabases
  <2>1. failures' \in 0..MaxFailures
    BY SMTT(30), <1>13, PipelineAssumption DEF TypeOK, CloseDatabases
  <2> QED
    BY ZenonT(60), <1>13, <2>1, PipelineAssumption
       DEF TypeOK, CloseDatabases, capture, channel, publishing, account, storage,
           window, At, Alive, Model, Saved, Counts, Messages
<1>14. CASE Start
  <2>1. control \in Seq(Messages)
    BY DEF TypeOK, Messages
  <2>2. [kind |-> "capture", gen |-> 0] \in Messages
    BY PipelineAssumption DEF Messages
  <2>3. <<[kind |-> "capture", gen |-> 0]>> \in Seq(Messages)
    BY <2>2
  <2>4. control' \in Seq(Messages)
    BY <1>14, <2>1, <2>3 DEF Start
  <2> QED
    BY <1>14, <2>1, <2>2, <2>3, <2>4, PipelineAssumption
       DEF TypeOK, Start, capture, channel, publishing, account, storage, window, At,
           Alive, Model, Saved, Counts, Messages
<1>15. CASE CancelStaged
  BY <1>15, PipelineAssumption
     DEF TypeOK, CancelStaged, capture, channel, publishing, account, storage, window,
         At, Alive, Model, Saved
<1>16. CASE Edit
  <2>1. count \in Counts /\ control \in Seq(Messages)
    BY DEF TypeOK, Counts, Messages
  <2>2. count' \in Counts
    <3>1. count' = [count EXCEPT !.edits = count.edits + 1]
      BY <1>16 DEF Edit
    <3>2. count.edits + 1 \in 0..MaxInputs
      BY <1>16, SomeInputLeft DEF Edit
    <3> QED
      BY <2>1, <3>1, <3>2, Counted
  <2>3. control' \in Seq(Messages)
    BY <1>16, <2>1, PipelineAssumption DEF Edit, Messages
  <2> QED
    BY <1>16, <2>1, <2>2, <2>3, PipelineAssumption
       DEF TypeOK, Edit, capture, channel, publishing, account, storage, window, At,
           Alive, Model, Saved, Counts, Messages
<1>17. CASE Refresh
  <2>1. count \in Counts /\ fetching \subseteq 1..MaxInputs
    BY DEF TypeOK, Counts
  <2>2. count' \in Counts
    <3>1. count' = [count EXCEPT !.fetches = count.fetches + 1]
      BY <1>17 DEF Refresh
    <3>2. count.fetches + 1 \in 0..MaxInputs
      BY <1>17, SomeInputLeft DEF Refresh
    <3> QED
      BY <2>1, <3>1, <3>2, Counted
  <2>3. fetching' \subseteq 1..MaxInputs
    BY <1>17, <2>1, SomeInputLeft DEF Refresh
  <2> QED
    BY ZenonT(60), <1>17, <2>1, <2>2, <2>3, PipelineAssumption
       DEF TypeOK, Refresh, capture, channel, publishing, account, storage, window,
           At, Alive, Model, Saved, Counts, Messages
<1>18. CASE FetchDone
  BY <1>18, PipelineAssumption
     DEF TypeOK, FetchDone, capture, channel, publishing, account, storage, window,
         At, Alive, Model, Saved
<1>19. CASE DrainUpdates
  <2>1. count' \in Counts /\ queue' \in Seq(Nat) /\ Len(queue') <= UiCap
    BY <1>19, FrameTyped
  <2>2. repaint' \in BOOLEAN
    BY <1>19 DEF DrainUpdates
  <2>3. /\ UNCHANGED <<capture, control, worker, publishing, account, out, dropped, storage,
                       report, seen, fetching>>
       /\ ui' = "frame"
    BY <1>19 DEF DrainUpdates
  <2> QED
    BY <2>1, <2>2, <2>3
       DEF TypeOK, Counts, capture, channel, publishing, account, storage, window
<1>20. CASE RefreshSnapshot
  BY <1>20, PipelineAssumption
     DEF TypeOK, RefreshSnapshot, capture, channel, publishing, account, storage,
         window, At, Alive, Model, Saved
<1>21. CASE ShutDown
  BY <1>21, PipelineAssumption
     DEF TypeOK, ShutDown, capture, channel, publishing, account, storage, window, At,
         Alive, Model, Saved
<1>22. CASE ReportArrives
  BY <1>22, PipelineAssumption
     DEF TypeOK, ReportArrives, capture, channel, publishing, account, storage,
         window, At, Alive, Model, Saved, After, MayRelaunch
<1>23. CASE ShutdownTimesOut
  BY <1>23, PipelineAssumption
     DEF TypeOK, ShutdownTimesOut, capture, channel, publishing, account, storage,
         window, At, Alive, Model, Saved, After, MayRelaunch
<1>24. CASE UNCHANGED vars
  BY <1>24 DEF TypeOK, vars, capture, channel, publishing, account, storage, window
<1> QED
  BY <1>1, <1>2, <1>3, <1>4, <1>5, <1>6, <1>7, <1>8, <1>9, <1>10, <1>11, <1>12, <1>13,
     <1>14, <1>15, <1>16, <1>17, <1>18, <1>19, <1>20, <1>21, <1>22, <1>23, <1>24
     DEF Next, WorkerStep, Frame

-----------------------------------------------------------------------------
(* In order, element by element. *)
LEMMA NumberedUpto ==
    ASSUME NEW q \in Seq(Nat), NEW upto
    PROVE  q = [k \in 1..Len(q) |-> upto - Len(q) + k]
           <=> \A k \in 1..Len(q) : q[k] = upto - Len(q) + k
<1>1. q = [k \in 1..Len(q) |-> q[k]]
  OBVIOUS
<1>2. ASSUME \A k \in 1..Len(q) : q[k] = upto - Len(q) + k
      PROVE  [k \in 1..Len(q) |-> q[k]] = [k \in 1..Len(q) |-> upto - Len(q) + k]
  BY <1>2
<1>3. ASSUME q = [k \in 1..Len(q) |-> upto - Len(q) + k], NEW k \in 1..Len(q)
      PROVE  q[k] = upto - Len(q) + k
  BY <1>3
<1> QED
  BY <1>1, <1>2, <1>3

(* Sending puts the next number at the end, and what it drops at the other. *)
LEMMA PushInOrder ==
    ASSUME NEW q \in Seq(Nat), NEW last \in Nat, NEW cap \in Nat \ {0}, Len(q) <= cap,
           \A k \in 1..Len(q) : q[k] = last - Len(q) + k
    PROVE  \A k \in 1..Len(Push(q, last + 1, cap)) :
             Push(q, last + 1, cap)[k] = last + 1 - Len(Push(q, last + 1, cap)) + k
<1>1. CASE Len(q) >= cap
  <2>1. q # <<>> /\ Len(q) \in Nat
    BY <1>1
  <2> DEFINE t == Tail(q)
  <2>2. /\ t \in Seq(Nat) /\ Len(t) = Len(q) - 1
        /\ \A k \in 1..Len(t) : t[k] = q[k + 1]
    BY <2>1
  <2>3. Push(q, last + 1, cap) = Append(t, last + 1)
    BY <1>1 DEF Push
  <2> HIDE DEF t
  <2>4. /\ Len(Append(t, last + 1)) = Len(q)
        /\ \A k \in 1..Len(t) : Append(t, last + 1)[k] = q[k + 1]
        /\ Append(t, last + 1)[Len(q)] = last + 1
    BY <2>1, <2>2
  <2>5. \A k \in 1..Len(t) : q[k + 1] = last + 1 - Len(q) + k
    BY <2>1, <2>2
  <2>6. ASSUME NEW k \in 1..Len(q)
        PROVE  Append(t, last + 1)[k] = last + 1 - Len(q) + k
    <3>1. CASE k = Len(q)
      BY <2>1, <2>4, <3>1
    <3>2. CASE k # Len(q)
      <4>1. k \in 1..Len(t)
        BY <2>1, <2>2, <3>2
      <4> QED
        BY <2>4, <2>5, <4>1
    <3> QED
      BY <3>1, <3>2
  <2> QED
    BY <2>3, <2>4, <2>6
<1>2. CASE ~(Len(q) >= cap)
  <2>1. Push(q, last + 1, cap) = Append(q, last + 1)
    BY <1>2 DEF Push
  <2>2. /\ Len(Append(q, last + 1)) = Len(q) + 1
        /\ \A k \in 1..Len(q) : Append(q, last + 1)[k] = q[k]
        /\ Append(q, last + 1)[Len(q) + 1] = last + 1
    OBVIOUS
  <2>3. ASSUME NEW k \in 1..(Len(q) + 1)
        PROVE  Append(q, last + 1)[k] = last + 1 - (Len(q) + 1) + k
    <3>1. CASE k = Len(q) + 1
      BY <2>2, <3>1
    <3>2. CASE k # Len(q) + 1
      <4>1. k \in 1..Len(q)
        BY <3>2
      <4> QED
        BY <2>2, <4>1
    <3> QED
      BY <3>1, <3>2
  <2> QED
    BY <2>1, <2>2, <2>3
<1> QED
  BY <1>1, <1>2

(* A step that touches neither queue leaves the channels right. *)
LEMMA QueuesApart ==
    ASSUME QueuesLoseOldestOnly, UNCHANGED <<packets, lost, queue, dropped>>,
           source' = "gone" => source = "gone",
           count'.captured = count.captured, count'.processed = count.processed,
           count'.sent = count.sent, count'.shown = count.shown
    PROVE  QueuesLoseOldestOnly'
  BY DEF QueuesLoseOldestOnly

(* Every step leaves the channels right. *)
LEMMA QueueStep ==
    ASSUME TypeOK, QueuesLoseOldestOnly, [Next]_vars
    PROVE  QueuesLoseOldestOnly'
<1>t. /\ packets \in Seq(1..MaxInputs) /\ Len(packets) <= QueueCap /\ lost \in Nat
      /\ queue \in Seq(Nat) /\ Len(queue) <= UiCap /\ dropped \in Nat /\ count \in Counts
  BY DEF TypeOK, Counts
<1>c. /\ count.captured \in Nat /\ count.processed \in Nat /\ count.sent \in Nat
      /\ count.shown \in Nat /\ Len(packets) \in Nat /\ Len(queue) \in Nat
      /\ lost \in Nat /\ dropped \in Nat
  BY <1>t, PipelineAssumption DEF Counts
<1>q. /\ \A k \in 1..Len(queue) : queue[k] = count.sent - Len(queue) + k
      /\ count.shown + Len(queue) + dropped = count.sent
      /\ source = "gone" => packets = <<>>
      /\ count.processed + Len(packets) + lost = count.captured
  BY <1>t, NumberedUpto DEF QueuesLoseOldestOnly
<1>r. /\ count.shown + Len(queue) + dropped = count.sent
      /\ count.processed + Len(packets) + lost = count.captured
  BY DEF QueuesLoseOldestOnly
<1>g. QueuesLoseOldestOnly
  OBVIOUS
<1>1. CASE CapturePacket
  <2>1. /\ packets' = Push(packets, count.captured + 1, QueueCap)
        /\ lost' = IF Len(packets) >= QueueCap THEN lost + 1 ELSE lost
        /\ count' = [count EXCEPT !.captured = count.captured + 1]
        /\ source # "gone" /\ source' = source /\ queue' = queue /\ dropped' = dropped
    BY <1>1 DEF CapturePacket, channel
  <2>2. count.captured + 1 \in 1..MaxInputs
    BY <1>1, SomeInputLeft DEF CapturePacket
  <2>3. /\ Len(packets) >= QueueCap => Len(packets') = Len(packets)
        /\ ~(Len(packets) >= QueueCap) => Len(packets') = Len(packets) + 1
    <3>1. /\ packets \in Seq(1..MaxInputs) /\ Len(packets) <= QueueCap
          /\ QueueCap \in Nat \ {0}
      BY <1>t, PipelineAssumption
    <3>2. LET p == Push(packets, count.captured + 1, QueueCap) IN
            /\ Len(packets) >= QueueCap => Len(p) = Len(packets)
            /\ ~(Len(packets) >= QueueCap) => Len(p) = Len(packets) + 1
      BY <3>1, <2>2 DEF Push
    <3> QED
      BY <2>1, <3>2
  <2>4. /\ count'.captured = count.captured + 1 /\ count'.processed = count.processed
        /\ count'.sent = count.sent /\ count'.shown = count.shown
    BY <1>t, <2>1 DEF Counts
  <2>5. count'.processed + Len(packets') + lost' = count'.captured
    <3>1. lost \in Nat /\ lost' = IF Len(packets) >= QueueCap THEN lost + 1 ELSE lost
      BY <1>t, <2>1
    <3>2. CASE Len(packets) >= QueueCap
      <4>1. Len(packets') = Len(packets) /\ lost' = lost + 1
        BY <2>3, <3>1, <3>2
      <4>2. /\ count.processed \in Nat /\ Len(packets) \in Nat
            /\ lost \in Nat /\ count.captured \in Nat
            /\ count.processed + Len(packets) + lost = count.captured
            /\ Len(packets') = Len(packets) /\ lost' = lost + 1
            /\ count'.processed = count.processed /\ count'.captured = count.captured + 1
        BY <1>c, <1>r, <2>4, <4>1
      <4> QED
        BY <4>2
    <3>3. CASE ~(Len(packets) >= QueueCap)
      <4>1. Len(packets') = Len(packets) + 1 /\ lost' = lost
        BY <2>3, <3>1, <3>3
      <4>2. /\ count.processed \in Nat /\ Len(packets) \in Nat
            /\ lost \in Nat /\ count.captured \in Nat
            /\ count.processed + Len(packets) + lost = count.captured
            /\ Len(packets') = Len(packets) + 1 /\ lost' = lost
            /\ count'.processed = count.processed /\ count'.captured = count.captured + 1
        BY <1>c, <1>r, <2>4, <4>1
      <4> QED
        BY <4>2
    <3> QED
      BY <3>2, <3>3
  <2> QED
    BY <1>g, <2>1, <2>4, <2>5 DEF QueuesLoseOldestOnly
<1>2. CASE Receive
  <2>1. PICK n \in 0..Len(packets) :
          /\ packets' = SubSeq(packets, n + 1, Len(packets))
          /\ count' = [count EXCEPT !.processed = count.processed + n]
          /\ source' = source \/ (source' = "gone" /\ packets' = <<>>)
    BY <1>2, BatchReceived
  <2>2. Len(packets') = Len(packets) - n
    BY <1>t, <2>1, Rest
  <2>3. /\ count'.captured = count.captured /\ count'.processed = count.processed + n
        /\ count'.sent = count.sent /\ count'.shown = count.shown
    BY <1>t, <2>1 DEF Counts
  <2>4. lost' = lost /\ queue' = queue /\ dropped' = dropped
    BY <1>2 DEF Receive, channel
  <2>5. count'.processed + Len(packets') + lost' = count'.captured
    BY <1>c, <1>t, <1>q, <2>2, <2>3, <2>4
  <2>6. source' = "gone" => packets' = <<>>
    <3>1. packets' \in Seq(1..MaxInputs)
      BY <1>2, BatchTyped
    <3>2. source = "gone" => Len(packets') = 0
      BY <1>q, <2>2, <1>c
    <3> QED
      BY <2>1, <3>1, <3>2
  <2> QED
    BY <1>g, <2>3, <2>4, <2>5, <2>6 DEF QueuesLoseOldestOnly
<1>3. CASE Dispatch
  <2>1. /\ queue' = Push(queue, count.sent + 1, UiCap)
        /\ dropped' = IF Len(queue) >= UiCap THEN dropped + 1 ELSE dropped
        /\ count' = [count EXCEPT !.sent = count.sent + 1]
        /\ source' = source /\ packets' = packets /\ lost' = lost
    BY <1>3 DEF Dispatch, capture
  <2>2. /\ queue' \in Seq(Nat)
        /\ Len(queue) >= UiCap => Len(queue') = Len(queue)
        /\ ~(Len(queue) >= UiCap) => Len(queue') = Len(queue) + 1
    <3>1. count.sent + 1 \in Nat
      BY <1>c
    <3>2. /\ queue \in Seq(Nat) /\ Len(queue) <= UiCap /\ UiCap \in Nat \ {0}
      BY <1>t, PipelineAssumption
    <3>3. LET p == Push(queue, count.sent + 1, UiCap) IN
            /\ p \in Seq(Nat)
            /\ Len(queue) >= UiCap => Len(p) = Len(queue)
            /\ ~(Len(queue) >= UiCap) => Len(p) = Len(queue) + 1
      BY <3>1, <3>2 DEF Push
    <3> QED
      BY <2>1, <3>3
  <2>3. /\ count'.captured = count.captured /\ count'.processed = count.processed
        /\ count'.sent = count.sent + 1 /\ count'.shown = count.shown
    BY <1>t, <2>1 DEF Counts
  <2>4. count'.shown + Len(queue') + dropped' = count'.sent
    <3>1. dropped \in Nat /\ dropped' = IF Len(queue) >= UiCap THEN dropped + 1 ELSE dropped
      BY <1>t, <2>1
    <3>2. CASE Len(queue) >= UiCap
      <4>1. Len(queue') = Len(queue) /\ dropped' = dropped + 1
        BY <2>2, <3>1, <3>2
      <4>2. /\ count.shown \in Nat /\ Len(queue) \in Nat
            /\ dropped \in Nat /\ count.sent \in Nat
            /\ count.shown + Len(queue) + dropped = count.sent
            /\ Len(queue') = Len(queue) /\ dropped' = dropped + 1
            /\ count'.shown = count.shown /\ count'.sent = count.sent + 1
        BY <1>c, <1>r, <2>3, <4>1
      <4> QED
        BY <4>2
    <3>3. CASE ~(Len(queue) >= UiCap)
      <4>1. Len(queue') = Len(queue) + 1 /\ dropped' = dropped
        BY <2>2, <3>1, <3>3
      <4>2. /\ count.shown \in Nat /\ Len(queue) \in Nat
            /\ dropped \in Nat /\ count.sent \in Nat
            /\ count.shown + Len(queue) + dropped = count.sent
            /\ Len(queue') = Len(queue) + 1 /\ dropped' = dropped
            /\ count'.shown = count.shown /\ count'.sent = count.sent + 1
        BY <1>c, <1>r, <2>3, <4>1
      <4> QED
        BY <4>2
    <3> QED
      BY <3>2, <3>3
  <2>5. \A k \in 1..Len(queue') : queue'[k] = count'.sent - Len(queue') + k
    <3>1. LET p == Push(queue, count.sent + 1, UiCap) IN
            \A k \in 1..Len(p) : p[k] = count.sent + 1 - Len(p) + k
      BY <1>c, <1>t, <1>q, PushInOrder, PipelineAssumption
    <3>2. \A k \in 1..Len(queue') : queue'[k] = count.sent + 1 - Len(queue') + k
      BY <2>1, <3>1
    <3> QED
      BY <1>c, <3>2, <2>3
  <2>6. queue' = [k \in 1..Len(queue') |-> count'.sent - Len(queue') + k]
    BY <2>2, <2>5, NumberedUpto
  <2> QED
    BY <1>q, <2>1, <2>3, <2>4, <2>6 DEF QueuesLoseOldestOnly
<1>4. CASE DrainUpdates
  <2>1. PICK n \in 0..Len(queue) :
          /\ queue' = SubSeq(queue, n + 1, Len(queue))
          /\ count' = [count EXCEPT !.shown = count.shown + n]
    BY <1>4, FrameTaken
  <2>2. /\ queue' \in Seq(Nat) /\ Len(queue') = Len(queue) - n
        /\ \A k \in 1..(Len(queue) - n) : queue'[k] = queue[n + k]
    BY <1>t, <2>1, Rest
  <2>3. /\ count'.captured = count.captured /\ count'.processed = count.processed
        /\ count'.sent = count.sent /\ count'.shown = count.shown + n
    BY <1>t, <2>1 DEF Counts
  <2>4. source' = source /\ packets' = packets /\ lost' = lost /\ dropped' = dropped
    BY <1>4 DEF DrainUpdates, capture
  <2>5. count'.shown + Len(queue') + dropped' = count'.sent
    BY <1>c, <1>t, <1>q, <2>2, <2>3, <2>4
  <2>6. \A k \in 1..Len(queue') : queue'[k] = count'.sent - Len(queue') + k
    <3>1. SUFFICES ASSUME NEW k \in 1..(Len(queue) - n)
                   PROVE  queue[n + k] = count.sent - (Len(queue) - n) + k
      BY <2>2, <2>3
    <3>2. n + k \in 1..Len(queue) /\ Len(queue) \in Nat /\ count.sent \in Nat
      BY <1>c
    <3>3. queue[n + k] = count.sent - Len(queue) + (n + k)
      BY <1>q, <3>2
    <3> QED
      BY <3>2, <3>3
  <2>7. queue' = [k \in 1..Len(queue') |-> count'.sent - Len(queue') + k]
    BY <2>2, <2>6, NumberedUpto
  <2> QED
    BY <1>q, <2>3, <2>4, <2>5, <2>7 DEF QueuesLoseOldestOnly
<1>5. CASE HandleControl
  <2>1. /\ UNCHANGED <<packets, lost, queue, dropped, count>>
        /\ source' = "gone" => source = "gone"
    BY <1>5 DEF HandleControl, channel
  <2> QED
    BY <2>1, QueuesApart
<1>6. CASE EndCapture \/ Start
  <2>1. /\ UNCHANGED <<packets, lost, queue, dropped, count>>
        /\ source' = "gone" => source = "gone"
    BY <1>6 DEF EndCapture, Start, channel
  <2> QED
    BY <2>1, QueuesApart
<1>7. CASE Edit \/ Refresh
  <2>1. /\ UNCHANGED <<packets, lost, queue, dropped, source>>
        /\ \/ count' = [count EXCEPT !.edits = count.edits + 1]
           \/ count' = [count EXCEPT !.fetches = count.fetches + 1]
    BY <1>7 DEF Edit, Refresh, capture, channel
  <2>2. /\ count'.captured = count.captured /\ count'.processed = count.processed
        /\ count'.sent = count.sent /\ count'.shown = count.shown
    BY <1>t, <2>1 DEF Counts
  <2> QED
    BY <2>1, <2>2, QueuesApart
<1>8. CASE \/ HandleShutdown \/ Publish \/ Wake \/ SaveAccount \/ SaveFails \/ SaveNotDue
           \/ DrainAndSave \/ CloseDatabases \/ CancelStaged \/ FetchDone \/ RefreshSnapshot
           \/ ShutDown \/ ReportArrives \/ ShutdownTimesOut \/ UNCHANGED vars
  <2>1. UNCHANGED <<packets, lost, queue, dropped, source, count>>
    BY <1>8 DEF HandleShutdown, Publish, Wake, SaveAccount, SaveFails, SaveNotDue,
       DrainAndSave, CloseDatabases, CancelStaged, FetchDone, RefreshSnapshot, ShutDown,
       ReportArrives, ShutdownTimesOut, vars, capture, channel
  <2> QED
    BY <2>1, QueuesApart
<1> QED
  BY <1>1, <1>2, <1>3, <1>4, <1>5, <1>6, <1>7, <1>8 DEF Next, WorkerStep, Frame

-----------------------------------------------------------------------------
(* What is put at the end of the control channel. *)
LEMMA AppendMessage ==
    ASSUME NEW S, NEW q \in Seq(S), NEW e \in S, NoEditAfterShutdown(q),
           e.kind # "edit" \/ ~HasShutdown(q)
    PROVE  /\ NoEditAfterShutdown(Append(q, e))
           /\ HasShutdown(Append(q, e)) => HasShutdown(q) \/ e.kind = "shutdown"
<1> DEFINE r == Append(q, e)
<1>1. /\ Len(q) \in Nat /\ Len(r) = Len(q) + 1 /\ r[Len(q) + 1] = e
      /\ \A k \in 1..Len(q) : r[k] = q[k]
  OBVIOUS
<1> HIDE DEF r
<1>2. ASSUME NEW k \in 1..Len(r), r[k].kind = "shutdown", NEW j \in k..Len(r)
      PROVE  r[j].kind # "edit"
  <2>1. CASE j = Len(q) + 1
    <3>1. CASE e.kind # "edit"
      BY <1>1, <2>1, <3>1
    <3>2. CASE e.kind = "edit" /\ ~HasShutdown(q)
      <4>1. k = Len(q) + 1
        BY <1>1, <1>2, <3>2 DEF HasShutdown
      <4> QED
        BY <1>1, <1>2, <3>2, <4>1
    <3> QED
      BY <3>1, <3>2
  <2>2. CASE j # Len(q) + 1
    <3>1. k \in 1..Len(q) /\ j \in k..Len(q) /\ j \in 1..Len(q)
      BY <1>1, <2>2
    <3> QED
      BY <1>1, <1>2, <3>1 DEF NoEditAfterShutdown
  <2> QED
    BY <2>1, <2>2
<1>3. ASSUME NEW k \in 1..Len(r), r[k].kind = "shutdown"
      PROVE  HasShutdown(q) \/ e.kind = "shutdown"
  <2>1. CASE k = Len(q) + 1
    BY <1>1, <1>3, <2>1
  <2>2. CASE k # Len(q) + 1
    <3>1. k \in 1..Len(q)
      BY <1>1, <2>2
    <3> QED
      BY <1>1, <1>3, <3>1 DEF HasShutdown
  <2> QED
    BY <2>1, <2>2
<1>4. NoEditAfterShutdown(r) /\ (HasShutdown(r) => HasShutdown(q) \/ e.kind = "shutdown")
  BY <1>2, <1>3 DEF NoEditAfterShutdown, HasShutdown
<1> QED
  BY <1>4 DEF r

(* What is left when the first message is taken. *)
LEMMA TailMessages ==
    ASSUME NEW S, NEW q \in Seq(S), q # <<>>, NoEditAfterShutdown(q)
    PROVE  /\ NoEditAfterShutdown(Tail(q))
           /\ HasShutdown(Tail(q)) => HasShutdown(q)
           /\ Head(q).kind = "shutdown" => HasShutdown(q) /\ EditsAt(q) = {}
<1> DEFINE r == Tail(q)
<1>1. /\ Len(q) \in Nat \ {0} /\ Len(r) = Len(q) - 1 /\ Head(q) = q[1]
      /\ \A k \in 1..Len(r) : r[k] = q[k + 1]
  OBVIOUS
<1> HIDE DEF r
<1>2. \A k \in 1..Len(r) : k + 1 \in 1..Len(q)
  BY <1>1
<1>3. ASSUME NEW k \in 1..Len(r), r[k].kind = "shutdown", NEW j \in k..Len(r)
      PROVE  r[j].kind # "edit"
  <2>1. j \in 1..Len(r) /\ j + 1 \in (k + 1)..Len(q) /\ k + 1 \in 1..Len(q)
    BY <1>1
  <2> QED
    BY <1>1, <1>3, <2>1 DEF NoEditAfterShutdown
<1>4. HasShutdown(r) => HasShutdown(q)
  BY <1>1, <1>2 DEF HasShutdown
<1>5. ASSUME Head(q).kind = "shutdown"
      PROVE  HasShutdown(q) /\ EditsAt(q) = {}
  <2>1. 1 \in 1..Len(q) /\ q[1].kind = "shutdown"
    BY <1>1, <1>5
  <2>2. \A j \in 1..Len(q) : q[j].kind # "edit"
    BY <2>1 DEF NoEditAfterShutdown
  <2> QED
    BY <2>1, <2>2 DEF HasShutdown, EditsAt
<1>6. NoEditAfterShutdown(r)
  BY <1>3 DEF NoEditAfterShutdown
<1> QED
  BY <1>4, <1>5, <1>6 DEF r

(* A step that touches neither the edits nor their way to the model. *)
LEMMA EditsApart ==
    ASSUME EditsFollowed, control' = control, Leaving => Leaving', Ending' => Ending,
           model'.edits = model.edits, count'.edits = count.edits,
           ui' = "starting" => ui = "starting" /\ fetching' = fetching /\ worker' = worker
    PROVE  EditsFollowed'
<1>1. (model.edits + EditsIn(control) = count.edits)'
  BY DEF EditsFollowed
<1>2. (HasShutdown(control) \/ Ending => Leaving)'
  BY DEF EditsFollowed
<1> QED
  BY <1>1, <1>2 DEF EditsFollowed

(* Every step keeps track of the edits. *)
LEMMA EditsStep ==
    ASSUME TypeOK, EditsFollowed, [Next]_vars
    PROVE  EditsFollowed'
<1>t. /\ control \in Seq(Messages) /\ model \in Model /\ count \in Counts
      /\ model.edits \in Nat /\ count.edits \in Nat /\ EditsIn(control) \in Nat
  <2>1. control \in Seq(Messages) /\ model \in Model /\ count \in Counts
    BY DEF TypeOK, Messages, Counts
  <2>2. EditsIn(control) \in Nat
    BY <2>1, EditsFinite
  <2> QED
    BY <2>1, <2>2, PipelineAssumption DEF Model, Counts
<1>e. /\ model.edits + EditsIn(control) = count.edits
      /\ NoEditAfterShutdown(control)
      /\ HasShutdown(control) \/ Ending => Leaving
      /\ Ending => EditsAt(control) = {}
      /\ ui = "starting" => control = <<>> /\ fetching = {} /\ worker = "staged"
  BY DEF EditsFollowed
<1>g. EditsFollowed
  OBVIOUS
<1>1. CASE HandleControl
  <2>1. /\ control # <<>> /\ control' = Tail(control)
        /\ worker = "control" /\ worker' = "publish"
        /\ ui' = ui /\ fetching' = fetching /\ count' = count
        /\ IF Head(control).kind = "edit"
           THEN model' = [model EXCEPT !.edits = model.edits + 1]
           ELSE model' \in {model, ApplyResult(Head(control).gen)}
    BY <1>1 DEF HandleControl, At, window, account
  <2>2. model'.edits = model.edits + (IF Head(control).kind = "edit" THEN 1 ELSE 0)
    BY <1>t, <2>1 DEF Model, ApplyResult
  <2>3. EditsIn(control) = EditsIn(control') + (IF Head(control).kind = "edit" THEN 1 ELSE 0)
    BY <1>t, <2>1, TailEdits
  <2>4. control' \in Seq(Messages) /\ EditsIn(control') \in Nat
    <3>1. control' \in Seq(Messages)
      BY <1>t, <2>1
    <3> QED
      BY <3>1, EditsFinite
  <2>5. model'.edits + EditsIn(control') = count'.edits
    BY <1>t, <1>e, <2>1, <2>2, <2>3, <2>4
  <2>6. NoEditAfterShutdown(control') /\ (HasShutdown(control') => Leaving')
    BY <1>t, <1>e, <2>1, TailMessages DEF Leaving
  <2>7. ~Ending' /\ ui' # "starting"
    BY <1>e, <2>1 DEF Ending
  <2> QED
    BY <2>5, <2>6, <2>7 DEF EditsFollowed
<1>2. CASE HandleShutdown
  <2>1. /\ control # <<>> /\ control' = Tail(control)
        /\ worker = "control" /\ worker' = "drain"
        /\ Head(control).kind = "shutdown" /\ UNCHANGED <<ui, fetching, count, model>>
    BY <1>2 DEF HandleShutdown, At, window, account
  <2>2. /\ NoEditAfterShutdown(control') /\ HasShutdown(control) /\ EditsAt(control) = {}
    BY <1>t, <1>e, <2>1, TailMessages
  <2>3. EditsIn(control) = EditsIn(control') /\ EditsAt(control') = {}
    <3>1. EditsIn(control) = EditsIn(control') + 0 /\ EditsAt(control') = {}
      BY <1>t, <2>1, <2>2, TailEdits
    <3>2. EditsIn(control') \in Nat
      <4>1. control' \in Seq(Messages)
        BY <1>t, <2>1
      <4> QED
        BY <4>1, EditsFinite
    <3> QED
      BY <3>1, <3>2
  <2>4. (model.edits + EditsIn(control) = count.edits)'
    BY <1>e, <2>1, <2>3
  <2>5. Leaving' /\ ui' # "starting"
    BY <1>e, <2>1, <2>2 DEF Leaving
  <2> QED
    BY <2>2, <2>3, <2>4, <2>5 DEF EditsFollowed
<1>3. CASE Edit
  <2> DEFINE e == [kind |-> "edit", gen |-> 0]
  <2>1. /\ ui = "up" /\ control' = Append(control, e)
        /\ count' = [count EXCEPT !.edits = count.edits + 1]
        /\ UNCHANGED <<ui, fetching, worker, model>>
    BY <1>3 DEF Edit, window, account
  <2>2. e \in Messages /\ e.kind = "edit"
    BY PipelineAssumption DEF Messages
  <2> HIDE DEF e
  <2>3. ~HasShutdown(control) /\ ~Ending /\ ~Ending'
    BY <1>e, <2>1 DEF Leaving, Ending
  <2>4. NoEditAfterShutdown(control') /\ ~HasShutdown(control')
    BY <1>t, <1>e, <2>1, <2>2, <2>3, AppendMessage
  <2>5. EditsIn(control') = EditsIn(control) + 1 /\ count'.edits = count.edits + 1
    <3>1. EditsIn(control') = EditsIn(control) + 1
      BY <1>t, <2>1, <2>2, AppendEdit
    <3>2. count'.edits = count.edits + 1
      BY <1>t, <2>1 DEF Counts
    <3> QED
      BY <3>1, <3>2
  <2>6. (model.edits + EditsIn(control) = count.edits)'
    BY <1>t, <1>e, <2>1, <2>5
  <2> QED
    BY <2>1, <2>3, <2>4, <2>6 DEF EditsFollowed
<1>4. CASE FetchDone
  <2>1. PICK g \in fetching :
          /\ control' = Append(control, [kind |-> "result", gen |-> g])
          /\ UNCHANGED <<ui, worker, model, count>>
    BY <1>4 DEF FetchDone, window, account
  <2> DEFINE e == [kind |-> "result", gen |-> g]
  <2>2. e \in Messages /\ e.kind = "result"
    BY <2>1, PipelineAssumption DEF TypeOK, Messages
  <2>3. control' = Append(control, e) /\ ui # "starting"
    BY <1>e, <2>1
  <2> HIDE DEF e
  <2>4. NoEditAfterShutdown(control') /\ (HasShutdown(control') => HasShutdown(control))
    BY <1>t, <1>e, <2>2, <2>3, AppendMessage
  <2>5. EditsAt(control') = EditsAt(control)
    BY <1>t, <2>2, <2>3, AppendOther
  <2>6. (model.edits + EditsIn(control) = count.edits)'
    BY <1>e, <2>1, <2>5 DEF EditsIn
  <2> QED
    BY <1>e, <2>1, <2>3, <2>4, <2>5, <2>6 DEF EditsFollowed, Ending, Leaving
<1>5. CASE Start
  <2> DEFINE e == [kind |-> "capture", gen |-> 0]
  <2>1. /\ ui = "starting" /\ ui' = "up" /\ worker' = "control"
        /\ model' = model /\ count' = count
        /\ control' = <<e>> \/ control' = control
    BY <1>5 DEF Start, account
  <2>2. e \in Messages /\ e.kind = "capture"
    BY PipelineAssumption DEF Messages
  <2> HIDE DEF e
  <2>3. control = <<>>
    BY <1>e, <2>1
  <2>4. EditsAt(control) = {} /\ EditsAt(control') = {}
    BY <2>1, <2>2, <2>3 DEF EditsAt
  <2>5. ~HasShutdown(control')
    BY <2>1, <2>2, <2>3 DEF HasShutdown
  <2>6. NoEditAfterShutdown(control')
    BY <2>5 DEF HasShutdown, NoEditAfterShutdown
  <2>7. (model.edits + EditsIn(control) = count.edits)'
    BY <1>e, <2>1, <2>4 DEF EditsIn
  <2> QED
    BY <2>1, <2>5, <2>6, <2>7 DEF EditsFollowed, Ending
<1>6. CASE ShutDown
  <2> DEFINE e == [kind |-> "shutdown", gen |-> 0]
  <2>1. /\ ui = "up" /\ ui' = "waiting" /\ control' = Append(control, e)
        /\ UNCHANGED <<fetching, worker, model, count>>
    BY <1>6 DEF ShutDown, account
  <2>2. e \in Messages /\ e.kind = "shutdown"
    BY PipelineAssumption DEF Messages
  <2> HIDE DEF e
  <2>3. ~Ending'
    BY <1>e, <2>1 DEF Leaving, Ending
  <2>4. NoEditAfterShutdown(control')
    BY <1>t, <1>e, <2>1, <2>2, AppendMessage
  <2>5. EditsAt(control') = EditsAt(control)
    BY <1>t, <2>1, <2>2, AppendOther
  <2>6. (model.edits + EditsIn(control) = count.edits)'
    BY <1>e, <2>1, <2>5 DEF EditsIn
  <2> QED
    BY <2>1, <2>3, <2>4, <2>6 DEF EditsFollowed, Leaving
<1>7. CASE Receive
  <2>1. PICK n \in 0..Len(packets), changes \in Nat :
          /\ count' = [count EXCEPT !.processed = count.processed + n]
          /\ model' = [model EXCEPT !.live = model.live + changes]
    BY <1>7, BatchReceived
  <2>2. count'.edits = count.edits /\ model'.edits = model.edits
    BY <1>t, <2>1 DEF Counts, Model
  <2>3. control' = control /\ ui' = ui /\ ui' # "starting" /\ ~Ending'
    BY <1>7, <1>e DEF Receive, At, window, Ending
  <2> QED
    BY <1>g, <2>2, <2>3, EditsApart DEF Leaving
<1>8. CASE DrainAndSave
  <2>1. \E change \in 0..1 : model' = [model EXCEPT !.live = model.live + change]
    BY <1>8 DEF DrainAndSave
  <2>2. model'.edits = model.edits
    BY <1>t, <2>1 DEF Model
  <2>3. control' = control /\ ui' = ui /\ ui' # "starting" /\ Ending /\ count' = count
    BY <1>8, <1>e DEF DrainAndSave, At, window, Ending
  <2> QED
    BY <1>g, <2>2, <2>3, EditsApart DEF Leaving
<1>9. CASE CapturePacket \/ Dispatch \/ Refresh \/ DrainUpdates
  <2>1. /\ control' = control /\ worker' = worker /\ model' = model
        /\ (UNCHANGED <<ui, fetching>> \/ (ui \in {"up", "frame"} /\ ui' \in {"up", "frame"}))
    BY <1>9 DEF CapturePacket, Dispatch, Refresh, DrainUpdates, window, account
  <2>2. count'.edits = count.edits
    BY <1>9, <1>t DEF CapturePacket, Dispatch, Refresh, DrainUpdates, Counts
  <2> QED
    BY <1>g, <2>1, <2>2, EditsApart DEF Leaving, Ending
<1>10. CASE \/ EndCapture \/ RefreshSnapshot \/ ReportArrives \/ ShutdownTimesOut
            \/ CancelStaged \/ UNCHANGED vars
  <2>1. /\ UNCHANGED <<control, model, count, fetching>>
        /\ worker' = worker \/ (worker' = "cancelled" /\ ui' # "starting")
        /\ ui' = ui \/ (ui = "frame" /\ ui' = "up") \/ ui' \in {"replaced", "ended"}
    <3>1. CASE EndCapture \/ RefreshSnapshot \/ CancelStaged
      BY <3>1 DEF EndCapture, RefreshSnapshot, CancelStaged, window, account
    <3>2. CASE ReportArrives \/ ShutdownTimesOut
      BY <3>2 DEF ReportArrives, ShutdownTimesOut, After, account
    <3>3. CASE UNCHANGED vars
      BY <3>3 DEF vars, window, account
    <3> QED
      BY <1>10, <3>1, <3>2, <3>3
  <2> QED
    BY <1>g, <2>1, EditsApart DEF Leaving, Ending
<1>11. CASE Publish \/ Wake \/ SaveAccount \/ SaveFails \/ SaveNotDue \/ CloseDatabases
  <2>1. /\ UNCHANGED <<control, model, count, fetching, ui>> /\ worker # "staged"
        /\ worker' \in {"wake", "control", "save"} \/ worker = "close" \/ worker' = resume
    BY <1>11
       DEF Publish, Wake, SaveAccount, SaveFails, SaveNotDue, CloseDatabases, At,
           window, account
  <2>2. ui' # "starting"
    BY <1>e, <2>1
  <2>3. Ending' => Ending
    BY <2>1 DEF Ending, TypeOK
  <2> QED
    BY <1>g, <2>1, <2>2, <2>3, EditsApart DEF Leaving
<1> QED
  BY <1>1, <1>2, <1>3, <1>4, <1>5, <1>6, <1>7, <1>8, <1>9, <1>10, <1>11
     DEF Next, WorkerStep, Frame

-----------------------------------------------------------------------------
(* A fetched result is none of the account data that are saved. *)
LEMMA ResultNotSaved ==
    ASSUME model \in Model, NEW g
    PROVE  Saved(ApplyResult(g)) = Saved(model)
<1>1. Saved([model EXCEPT !.result = g]) = Saved(model)
  BY DEF Saved, Model
<1> QED
  BY <1>1 DEF ApplyResult

(* A batch that changes no account data leaves the model as it was. *)
LEMMA NoChange ==
    ASSUME NEW m \in Model
    PROVE  [m EXCEPT !.live = m.live + 0] = m
  BY DEF Model

(* A step that touches neither the account data, the disk nor the report. *)
LEMMA ReportApart ==
    ASSUME ReportTrue, UNCHANGED <<dirty, disk, model, report>>,
           worker' = worker \/ (worker \notin {"close", "stopped"} /\ worker' # "close"),
           ui' = "replaced" => ui = "replaced" \/ report = "success"
    PROVE  ReportTrue'
  BY DEF ReportTrue, Saved

(* Every step leaves the report true of the disk. *)
LEMMA ReportStep ==
    ASSUME TypeOK, EditsFollowed, ReportTrue, [Next]_vars
    PROVE  ReportTrue'
<1>g. ReportTrue
  OBVIOUS
<1>m. model \in Model
  BY DEF TypeOK
<1>1. CASE HandleControl
  <2>1. /\ worker = "control" /\ worker' = "publish" /\ UNCHANGED <<ui, report, disk>>
        /\ \/ dirty' = TRUE
           \/ dirty' = dirty /\ model' \in {model, ApplyResult(Head(control).gen)}
    BY <1>1 DEF HandleControl, At, window, storage, account
  <2>2. report = "none"
    BY <1>g, <2>1 DEF ReportTrue
  <2>3. ~dirty' => disk' = Saved(model')
    <3>1. Saved(ApplyResult(Head(control).gen)) = Saved(model)
      BY <1>m, ResultNotSaved
    <3>2. Saved(model)' = Saved(model')
      BY DEF Saved
    <3> QED
      BY <1>g, <2>1, <3>1 DEF ReportTrue
  <2> QED
    BY <1>g, <2>1, <2>2, <2>3 DEF ReportTrue, Saved
<1>2. CASE Receive
  <2>1. PICK n \in 0..Len(packets), changes \in Nat :
          /\ model' = [model EXCEPT !.live = model.live + changes]
          /\ dirty' = (dirty \/ changes > 0)
    BY <1>2, BatchReceived
  <2>2. /\ worker = "control" /\ worker' \in {"save", "dispatch"}
        /\ UNCHANGED <<ui, report, disk>>
    BY <1>2 DEF Receive, At, window, storage
  <2>3. report = "none"
    BY <1>g, <2>2 DEF ReportTrue
  <2>4. ~dirty' => disk' = Saved(model')
    <3>1. SUFFICES ASSUME ~dirty'
                   PROVE  disk' = Saved(model')
      OBVIOUS
    <3>2. ~dirty /\ changes = 0
      <4>1. ~dirty /\ ~(changes > 0)
        BY <2>1, <3>1, Zenon
      <4> QED
        BY <4>1
    <3>3. model' = model
      BY <1>m, <2>1, <3>2, NoChange
    <3> QED
      BY <1>g, <2>2, <3>2, <3>3 DEF ReportTrue
  <2> QED
    BY <1>g, <2>2, <2>3, <2>4 DEF ReportTrue, Saved
<1>3. CASE SaveAccount
  <2>1. /\ worker = "save" /\ worker' = "control" /\ disk' = Saved(model)
        /\ UNCHANGED <<ui, report, model>>
    BY <1>3 DEF SaveAccount, At, window
  <2> QED
    BY <1>g, <2>1 DEF ReportTrue, Saved
<1>4. CASE DrainAndSave
  <2>1. /\ worker = "drain" /\ worker' = "close" /\ ui' = ui
        /\ dirty' = (dirty \/ model' # model)
        /\ \/ disk' = Saved(model') /\ report' = report
           \/ disk' = disk /\ report' = "failed"
    BY <1>4 DEF DrainAndSave, At, window
  <2>2. report = "none"
    BY <1>g, <2>1 DEF ReportTrue
  <2>3. ~dirty' => disk' = Saved(model')
    <3>1. ~dirty' => ~dirty /\ model' = model
      BY <2>1
    <3> QED
      BY <1>g, <2>1, <3>1 DEF ReportTrue
  <2> QED
    BY <1>g, <2>1, <2>2, <2>3 DEF ReportTrue, Saved
<1>5. CASE CloseDatabases
  <2>1. /\ worker = "close" /\ worker' = "stopped" /\ ui # "replaced"
        /\ UNCHANGED <<ui, dirty, disk, model>>
        /\ \/ report' = "failed"
           \/ report = "none" /\ report' = "success"
           \/ report # "none" /\ report' = report
    BY <1>5 DEF CloseDatabases, At, Alive, window, account
  <2> QED
    BY <1>g, <2>1 DEF ReportTrue, Saved
<1>6. CASE ReportArrives \/ ShutdownTimesOut
  <2>1. /\ UNCHANGED <<worker, dirty, disk, model, report>>
        /\ ui' = "replaced" => report = "success"
    BY <1>6 DEF ReportArrives, ShutdownTimesOut, After, MayRelaunch, account, storage
  <2> QED
    BY <1>g, <2>1, ReportApart
<1>7. CASE Start \/ CancelStaged
  <2>1. /\ UNCHANGED <<dirty, disk, model, report>> /\ worker = "staged"
        /\ worker' \in {"control", "cancelled"} /\ ui' # "replaced"
    BY <1>7 DEF Start, CancelStaged, account, storage, EditsFollowed
  <2> QED
    BY <1>g, <2>1, ReportApart
<1>8. CASE HandleShutdown \/ Publish \/ Wake \/ SaveFails \/ SaveNotDue \/ Dispatch
  <2>1. /\ UNCHANGED <<ui, dirty, disk, model, report>> /\ worker \notin {"close", "stopped"}
        /\ worker' \in {"drain", "wake", "control", resume, worker}
    BY <1>8
       DEF HandleShutdown, Publish, Wake, SaveFails, SaveNotDue, Dispatch, At, account,
           storage, window
  <2>2. worker' # "close"
    BY <2>1 DEF TypeOK
  <2> QED
    BY <1>g, <2>1, <2>2, ReportApart
<1>9. CASE \/ CapturePacket \/ EndCapture \/ Edit \/ Refresh \/ FetchDone \/ DrainUpdates
           \/ RefreshSnapshot \/ ShutDown \/ UNCHANGED vars
  <2>1. /\ UNCHANGED <<worker, dirty, disk, model, report>>
        /\ ui' = "replaced" => ui = "replaced"
    BY <1>9 DEF CapturePacket, EndCapture, Edit, Refresh, FetchDone, DrainUpdates,
       RefreshSnapshot, ShutDown, vars, account, storage, window
  <2> QED
    BY <1>g, <2>1, ReportApart
<1> QED
  BY <1>1, <1>2, <1>3, <1>4, <1>5, <1>6, <1>7, <1>8, <1>9 DEF Next, WorkerStep, Frame

-----------------------------------------------------------------------------
(* A program that has started has all of it. *)
LEMMA PInit == Init => PInv
<1>1. SUFFICES ASSUME Init PROVE PInv
  OBVIOUS
<1>2. TypeOK
  <2>1. Empty \in Model
    BY DEF Empty, Model
  <2>2. count \in Counts
    BY <1>1, PipelineAssumption DEF Init, Counts
  <2>3. /\ packets \in Seq(1..MaxInputs) /\ Len(packets) <= QueueCap
        /\ queue \in Seq(Nat) /\ Len(queue) <= UiCap /\ control \in Seq(Messages)
    BY <1>1, PipelineAssumption DEF Init
  <2>4. fetching \subseteq 1..MaxInputs /\ failures \in 0..MaxFailures
    BY <1>1, PipelineAssumption DEF Init
  <2> QED
    BY <1>1, <2>1, <2>2, <2>3, <2>4 DEF Init, TypeOK, Counts, Messages
<1>3. QueuesLoseOldestOnly
  BY <1>1 DEF Init, QueuesLoseOldestOnly
<1>4. EditsFollowed
  <2>1. EditsAt(control) = {}
    BY <1>1 DEF Init, EditsAt
  <2>2. EditsIn(control) = 0
    BY <2>1, FS_EmptySet DEF EditsIn
  <2> QED
    BY <1>1, <2>1, <2>2
       DEF Init, Empty, EditsFollowed, Ending, HasShutdown, NoEditAfterShutdown
<1>5. ReportTrue
  BY <1>1 DEF Init, ReportTrue, Saved, Empty
<1> QED
  BY <1>2, <1>3, <1>4, <1>5 DEF PInv

(* Whatever a packet, an edit, a fetched result, a failure, a shutdown or a
   timeout does, the channels, the edits and the report stay as they are
   described. *)
THEOREM PipelineInvariance == Spec => []PInv
<1>1. PInv /\ [Next]_vars => PInv'
  BY TypeStep, QueueStep, EditsStep, ReportStep DEF PInv
<1> QED
  BY PInit, <1>1, PTL DEF Spec

(* The channels keep to their capacities, the control channel carries messages
   of the kinds the worker knows, and every number stays within its bound. *)
THEOREM PipelineTyped == Spec => []TypeOK
<1>1. PInv => TypeOK
  BY DEF PInv
<1> QED
  BY <1>1, PipelineInvariance, PTL

(* Overflow costs a channel its oldest elements and nothing else, for channels of
   any capacity (Push, Dispatch and DrainUpdates), and the packet receiver is let
   go only when it is empty (Receive). *)
THEOREM OldestLostOnly == Spec => []QueuesLoseOldestOnly
<1>1. PInv => QueuesLoseOldestOnly
  BY DEF PInv
<1> QED
  BY <1>1, PipelineInvariance, PTL

(* A successor finds all that was known of the account on disk, every edit of the
   user among it. *)
LEMMA SuccessorFindsAll ==
    ASSUME PInv, ui = "replaced"
    PROVE  disk = Saved(model) /\ disk.edits = model.edits /\ model.edits = count.edits
<1>1. disk = Saved(model) /\ worker = "stopped"
  BY DEF PInv, ReportTrue
<1>2. EditsAt(control) = {}
  BY <1>1 DEF PInv, EditsFollowed, Ending
<1>3. EditsIn(control) = 0
  BY <1>2, FS_EmptySet DEF EditsIn
<1>4. model.edits = count.edits
  BY <1>3 DEF PInv, EditsFollowed, TypeOK, Model
<1>5. disk.edits = model.edits
  BY <1>1 DEF PInv, TypeOK, Model, Saved
<1> QED
  BY <1>1, <1>4, <1>5

(* Account data that are not marked dirty are on disk, and a successor is started
   only when every edit the user made is on disk (DrainAndSave, CloseDatabases,
   MayRelaunch), however many edits were on their way at the shutdown. *)
THEOREM EditsKept == Spec => []NoEditLost
<1>1. PInv => NoEditLost
  BY SuccessorFindsAll DEF PInv, ReportTrue, NoEditLost
<1> QED
  BY <1>1, PipelineInvariance, PTL

-----------------------------------------------------------------------------
(* The rest is the refinement of AccountStore.  What the worker knows is numbers,
   and it knows of no edit that was not made. *)
LEMMA KnownEdits ==
    ASSUME NEW m \in Model, NEW c \in Counts, NEW q \in Seq(Messages),
           m.edits + EditsIn(q) = c.edits
    PROVE  Part(m) \in Store!Data /\ m.edits <= c.edits
<1>1. EditsIn(q) \in Nat
  BY EditsFinite
<1>2. m.edits \in Nat /\ m.live \in Nat
  BY DEF Model
<1> QED
  BY <1>1, <1>2 DEF Part, Store!Data

(* The process that has a worker at some place runs. *)
LEMMA WorkerRuns ==
    ASSUME PInv, Alive
    PROVE  Life \in {"open", "leaving"} /\ (Ending => Life = "leaving")
  BY DEF PInv, TypeOK, EditsFollowed, Ending, Leaving, Alive, Life

(* A step that the store does not show. *)
LEMMA StoreApart ==
    ASSUME UNCHANGED <<disk, dirty>>, Part(model') = Part(model),
           count'.edits = count.edits, Life' = Life
    PROVE  UNCHANGED Store!vars
  BY DEF Store!vars, Part

(* A step in which the worker learns something, and marks it. *)
LEMMA LearnsMore ==
    ASSUME PInv, PInv', Alive, UNCHANGED <<ui, disk>>, count'.edits = count.edits, dirty',
           model'.edits \in {model.edits, model.edits + 1}, model'.live >= model.live
    PROVE  Store!Learn
<1>1. Life \in {"open", "leaving"} /\ Life' = Life
  BY WorkerRuns DEF Life
<1>2. Part(model') \in Store!Data /\ model'.edits <= count.edits
  <2>1. /\ model' \in Model /\ count' \in Counts /\ control' \in Seq(Messages)
        /\ model'.edits + EditsIn(control)' = count'.edits
    BY DEF PInv, TypeOK, EditsFollowed, Counts, Messages
  <2>2. EditsIn(control)' = EditsIn(control')
    BY DEF EditsIn, EditsAt
  <2> QED
    BY <2>1, <2>2, KnownEdits
<1>3. Store!Grows
  BY <1>2 DEF Store!Grows, Part
<1> QED
  BY <1>1, <1>3 DEF Store!Learn, Store!Running, Part

(* What the worker does in its loop: it takes in edits and news, and saves. *)
LEMMA WorkerStores ==
    ASSUME PInv, PInv', HandleControl \/ Receive \/ SaveAccount
    PROVE  [Store!Next]_(Store!vars)
<1>0. /\ Alive /\ ui' = ui /\ Life' = Life /\ Life \in {"open", "leaving"}
      /\ count'.edits = count.edits
  <2>1. Alive /\ ui' = ui
    BY DEF HandleControl, Receive, SaveAccount, At, window
  <2>2. count'.edits = count.edits
    <3>1. CASE HandleControl \/ SaveAccount
      BY <3>1 DEF HandleControl, SaveAccount
    <3>2. CASE Receive
      <4>1. \E n : count' = [count EXCEPT !.processed = count.processed + n]
        BY <3>2, BatchReceived DEF PInv
      <4>2. count \in Counts
        BY DEF PInv, TypeOK, Counts
      <4> QED
        BY <4>1, <4>2 DEF Counts
    <3> QED
      BY <3>1, <3>2
  <2> QED
    BY <2>1, <2>2, WorkerRuns DEF Life
<1>m. model \in Model /\ model.edits \in Nat /\ model.live \in Nat
  BY DEF PInv, TypeOK, Model
<1>1. CASE HandleControl
  <2>1. /\ disk' = disk
        /\ \/ model' = [model EXCEPT !.edits = model.edits + 1] /\ dirty' = TRUE
           \/ model' \in {model, [model EXCEPT !.result = Head(control).gen]} /\ dirty' = dirty
    BY <1>1 DEF HandleControl, ApplyResult, account, storage
  <2>2. CASE model' = [model EXCEPT !.edits = model.edits + 1] /\ dirty' = TRUE
    <3>1. model'.edits = model.edits + 1 /\ model'.live = model.live
      BY <1>m, <2>2 DEF Model
    <3> QED
      BY <1>0, <1>m, <2>1, <2>2, <3>1, LearnsMore DEF Store!Next
  <2>3. CASE model' \in {model, [model EXCEPT !.result = Head(control).gen]} /\ dirty' = dirty
    <3>1. Part(model') = Part(model)
      BY <1>m, <2>3 DEF Model, Part
    <3> QED
      BY <1>0, <2>1, <2>3, <3>1, StoreApart
  <2> QED
    BY <2>1, <2>2, <2>3
<1>2. CASE Receive
  <2>1. PICK changes \in Nat : /\ model' = [model EXCEPT !.live = model.live + changes]
                               /\ dirty' = (dirty \/ changes > 0)
    BY <1>2, BatchReceived DEF PInv
  <2>2. disk' = disk
    BY <1>2 DEF Receive, storage
  <2>3. model'.edits = model.edits /\ model'.live = model.live + changes
    BY <1>m, <2>1 DEF Model
  <2>4. CASE dirty'
    BY <1>0, <1>m, <2>2, <2>3, <2>4, LearnsMore DEF Store!Next
  <2>5. CASE ~dirty'
    <3>1. ~dirty /\ ~(changes > 0)
      BY <2>1, <2>5, Zenon
    <3>2. Part(model') = Part(model)
      BY <1>m, <2>3, <3>1 DEF Part
    <3>3. dirty' = dirty
      BY <2>5, <3>1 DEF PInv, TypeOK
    <3> QED
      BY <1>0, <2>2, <3>2, <3>3, StoreApart
  <2> QED
    BY <2>4, <2>5
<1>3. CASE SaveAccount
  <2>1. disk' = Saved(model) /\ dirty' = FALSE /\ model' = model
    BY <1>3 DEF SaveAccount
  <2>2. Part(disk') = Part(model)
    BY <1>m, <2>1 DEF Saved, Part, Model
  <2>3. Store!Save
    BY <1>0, <2>1, <2>2 DEF Store!Save, Store!Running
  <2> QED
    BY <2>3 DEF Store!Next
<1> QED
  BY <1>1, <1>2, <1>3

(* The last save, after what came with the shutdown; or it fails, and what came is
   marked. *)
LEMMA LastStore ==
    ASSUME PInv, PInv', DrainAndSave
    PROVE  [Store!Next]_(Store!vars)
<1>1. /\ Alive /\ worker = "drain" /\ ui' = ui /\ count' = count
      /\ dirty' = (dirty \/ model' # model)
      /\ disk' = Saved(model') \/ disk' = disk
  BY DEF DrainAndSave, At, window
<1>2. Life' = Life /\ Life = "leaving"
  BY <1>1, WorkerRuns DEF Ending, Life
<1>3. model \in Model /\ model' \in Model
  BY DEF PInv, TypeOK
<1>4. PICK n \in 0..1 : model' = [model EXCEPT !.live = model.live + n]
  BY DEF DrainAndSave
<1>5. /\ model'.edits = model.edits /\ model'.live = model.live + n
      /\ model.edits \in Nat /\ model.live \in Nat
      /\ model' # model => Part(model') # Part(model)
  BY <1>3, <1>4 DEF Model, Part
<1>6. CASE disk' = disk /\ model' = model
  <2>1. dirty' = dirty
    BY <1>1, <1>6 DEF PInv, TypeOK
  <2> QED
    BY <1>1, <1>2, <1>6, <2>1, StoreApart
<1>7. CASE disk' = disk /\ model' # model
  <2>1. dirty'
    BY <1>1, <1>7
  <2> QED
    BY <1>1, <1>5, <1>7, <2>1, LearnsMore DEF Store!Next
<1>8. CASE disk' = Saved(model')
  <2>1. Part(disk') = Part(model')
    BY <1>3, <1>8 DEF Saved, Part, Model
  <2>2. Part(model') \in Store!Data /\ model'.edits <= count'.edits
    <3>1. /\ count' \in Counts /\ control' \in Seq(Messages)
          /\ model'.edits + EditsIn(control)' = count'.edits
      BY DEF PInv, TypeOK, EditsFollowed, Counts, Messages
    <3>2. EditsIn(control)' = EditsIn(control')
      BY DEF EditsIn, EditsAt
    <3> QED
      BY <1>3, <3>1, <3>2, KnownEdits
  <2>3. Store!Grows
    BY <1>1, <1>5, <2>2 DEF Store!Grows, Part
  <2>4. dirty' = (dirty \/ Part(model') # Part(model))
    BY <1>1, <1>5
  <2>5. Store!LastSave
    BY <1>1, <1>2, <2>1, <2>3, <2>4 DEF Store!LastSave
  <2> QED
    BY <2>5 DEF Store!Next
<1> QED
  BY <1>1, <1>6, <1>7, <1>8

(* What the window does: it takes an edit, and ends in one way or the other. *)
LEMMA WindowStores ==
    ASSUME PInv, PInv', Edit \/ ShutDown \/ ReportArrives \/ ShutdownTimesOut \/ CancelStaged
    PROVE  [Store!Next]_(Store!vars)
<1>0. UNCHANGED <<model, disk, dirty>>
  BY DEF Edit, ShutDown, ReportArrives, ShutdownTimesOut, CancelStaged, account, storage
<1>c. count \in Counts
  BY DEF PInv, TypeOK, Counts
<1>1. CASE Edit
  <2>1. ui = "up" /\ ui' = ui /\ count'.edits = count.edits + 1
    BY <1>1, <1>c DEF Edit, window, Counts
  <2>2. Store!Edit
    BY <1>0, <2>1 DEF Store!Edit, Part, Life
  <2> QED
    BY <2>2 DEF Store!Next
<1>2. CASE ShutDown
  <2>1. ui = "up" /\ ui' = "waiting" /\ count' = count
    BY <1>2 DEF ShutDown
  <2>2. Store!Leave
    BY <1>0, <2>1 DEF Store!Leave, Part, Life
  <2> QED
    BY <2>2 DEF Store!Next
<1>3. CASE ReportArrives \/ ShutdownTimesOut
  <2>1. ui = "waiting" /\ ui' \in {"replaced", "ended"} /\ count' = count
    BY <1>3 DEF ReportArrives, ShutdownTimesOut, After
  <2>2. CASE ui' = "ended"
    <3>1. Store!End
      BY <1>0, <2>1, <2>2 DEF Store!End, Store!Running, Part, Life
    <3> QED
      BY <3>1 DEF Store!Next
  <2>3. CASE ui' = "replaced"
    <3>1. /\ ReportArrives /\ report = "success" /\ worker = "stopped" /\ control' = control
      BY <1>3, <2>3 DEF ReportArrives, ShutdownTimesOut, After, MayRelaunch
    <3>2. disk = Saved(model) /\ EditsAt(control) = {}
      BY <3>1 DEF PInv, ReportTrue, EditsFollowed, Ending
    <3>3. EditsIn(control) = 0
      BY <3>2, FS_EmptySet DEF EditsIn
    <3>4. model.edits = count.edits /\ model \in Model
      BY <3>3 DEF PInv, EditsFollowed, TypeOK, Model
    <3>5. Part(disk) = Part(model)
      BY <3>2, <3>4 DEF Saved, Part, Model
    <3>6. Store!Replace
      BY <1>0, <2>1, <2>3, <3>4, <3>5 DEF Store!Replace, Part, Life
    <3> QED
      BY <3>6 DEF Store!Next
  <2> QED
    BY <2>1, <2>2, <2>3
<1>4. CASE CancelStaged
  <2>1. ui = "starting" /\ ui' = "ended" /\ count' = count
    BY <1>4 DEF CancelStaged
  <2>2. Store!End
    BY <1>0, <2>1 DEF Store!End, Store!Running, Part, Life
  <2> QED
    BY <2>2 DEF Store!Next
<1> QED
  BY <1>1, <1>2, <1>3, <1>4

(* Everything else leaves the account data, their file and the process alone. *)
LEMMA StoreIdle ==
    ASSUME PInv,
           \/ CapturePacket \/ EndCapture \/ HandleShutdown \/ Dispatch \/ Publish \/ Wake
           \/ SaveFails \/ SaveNotDue \/ CloseDatabases \/ Start \/ Refresh \/ FetchDone
           \/ Frame \/ UNCHANGED vars
    PROVE  UNCHANGED Store!vars
<1>1. UNCHANGED <<model, disk, dirty>>
  BY DEF CapturePacket, EndCapture, HandleShutdown, Dispatch, Publish, Wake, SaveFails,
     SaveNotDue, CloseDatabases, Start, Refresh, FetchDone, Frame, DrainUpdates,
     RefreshSnapshot, vars, account, storage
<1>2. Life' = Life
  BY DEF CapturePacket, EndCapture, HandleShutdown, Dispatch, Publish, Wake, SaveFails,
     SaveNotDue, CloseDatabases, Start, Refresh, FetchDone, Frame, DrainUpdates,
     RefreshSnapshot, vars, window, Life
<1>3. count'.edits = count.edits
  <2>1. count \in Counts
    BY DEF PInv, TypeOK, Counts
  <2>2. CASE CapturePacket \/ Dispatch \/ Refresh
    BY <2>1, <2>2 DEF CapturePacket, Dispatch, Refresh, Counts
  <2>3. CASE Frame
    BY <2>1, <2>3 DEF Frame, DrainUpdates, RefreshSnapshot, Counts
  <2>4. CASE ~(CapturePacket \/ Dispatch \/ Refresh \/ Frame)
    BY <2>4 DEF EndCapture, HandleShutdown, Publish, Wake, SaveFails, SaveNotDue,
       CloseDatabases, Start, FetchDone, vars
  <2> QED
    BY <2>2, <2>3, <2>4
<1> QED
  BY <1>1, <1>2, <1>3, StoreApart

(* The program keeps AccountStore's promise, for any capacities, batches, frames,
   inputs and failures: nothing stored was not known, nothing known goes back or is
   stored late without a mark, and no successor starts on less than every edit
   (Worker::run, save_account_if_dirty, final_drain, relaunch_preflight). *)
THEOREM StoreKept == Spec => ImplementsStore
<1>1. Init => Store!Init
  BY DEF Init, Empty, Store!Init, Part, Life
<1>2. PInv /\ PInv' /\ [Next]_vars => [Store!Next]_(Store!vars)
  <2> SUFFICES ASSUME PInv, PInv', [Next]_vars PROVE [Store!Next]_(Store!vars)
    OBVIOUS
  <2>1. CASE HandleControl \/ Receive \/ SaveAccount
    BY <2>1, WorkerStores
  <2>2. CASE DrainAndSave
    BY <2>2, LastStore
  <2>3. CASE Edit \/ ShutDown \/ ReportArrives \/ ShutdownTimesOut \/ CancelStaged
    BY <2>3, WindowStores
  <2>4. CASE \/ CapturePacket \/ EndCapture \/ HandleShutdown \/ Dispatch \/ Publish \/ Wake
             \/ SaveFails \/ SaveNotDue \/ CloseDatabases \/ Start \/ Refresh \/ FetchDone
             \/ Frame \/ UNCHANGED vars
    BY <2>4, StoreIdle
  <2> QED
    BY <2>1, <2>2, <2>3, <2>4 DEF Next, WorkerStep
<1> QED
  BY <1>1, <1>2, PipelineInvariance, PTL DEF Spec, ImplementsStore, Store!Spec
=============================================================================
