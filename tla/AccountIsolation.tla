-------------------------- MODULE AccountIsolation --------------------------
(***************************************************************************)
(* Which of the captured connections is the user's main account.           *)
(*                                                                         *)
(* Several game clients may run on the machine, and each opens a new       *)
(* socket for every map.  The worker (processing/processor.rs, session.rs) *)
(* takes the first Hello for the main account's, holds back what that      *)
(* candidate says until an Update shows whose player it is, and then       *)
(* replays it, or ignores the socket.  A returning user is assumed, as the *)
(* program always is given the selected account's id.                      *)
(*                                                                         *)
(* Packets of one socket are processed in the order they were sent; those  *)
(* of different sockets in any order.  An event is its number in its       *)
(* socket since the socket was accepted.  The object id of a player stands *)
(* for its socket: ids of different servers are taken to be different.     *)
(***************************************************************************)
EXTENDS Naturals, Sequences, FiniteSets

CONSTANTS
    Conn,       \* sockets (ConnectionKey)
    Account,
    Main,       \* the selected account (saved_account_id)
    Owner,      \* whose client opens each socket
    None,       \* no socket, no account
    Prior,      \* sockets that may be in play before the capture began
    Lossy,      \* the capture may miss a Hello, a CreateSuccess or a FIN
    Timeouts,   \* a candidate may stay unverified for IDENTITY_TIMEOUT_MS
    Cap,        \* PENDING_EVENT_CAP
    MaxEvents   \* bound: events of a socket since it was accepted

ASSUME IsolationAssumption ==
    /\ Main \in Account
    /\ Owner \in [Conn -> Account]
    /\ None \notin Conn \cup Account
    /\ Prior \subseteq Conn
    /\ Lossy \in BOOLEAN /\ Timeouts \in BOOLEAN
    /\ Cap \in Nat /\ MaxEvents \in Nat

VARIABLES
    sock,        \* where each client is with its socket
    main,        \* main_connection
    pending,     \* pending_account_verification
    candidate,   \* candidate_since_ms is set
    player,      \* player.object_id: the socket whose player it is
    boost,       \* player.loot_boost_secs: whose boost it is
    buffer,      \* pending_events
    credential,  \* pending_credential: the socket whose token it is
    ignored,     \* ignored_connections
    strayed,     \* ghost: a socket played on, neither main nor ignored
    sent,        \* ghost: events captured of a socket since its acceptance
    applied,     \* ghost: events that reached the model and the UI since the
                 \*   last acceptance
    released     \* ghost: accounts whose token was handed to the UI

session == <<main, pending, candidate, player>>
isolationVars ==
    <<sock, session, boost, buffer, credential, ignored, strayed, sent, applied, released>>

IsolationTypeOK ==
    /\ sock \in [Conn -> {"none", "open", "greeted", "playing", "closed"}]
    /\ main \in Conn \cup {None} /\ player \in Conn \cup {None}
    /\ pending \in BOOLEAN /\ candidate \in BOOLEAN
    /\ boost \in Account \cup {None}
    /\ buffer \in Seq([from : Conn, n : Nat]) /\ Len(buffer) <= Cap
    /\ credential \in Conn \cup {None}
    /\ ignored \subseteq Conn
    /\ strayed \in BOOLEAN
    /\ sent \in [Conn -> Nat] /\ applied \in Seq([from : Conn, n : Nat])
    /\ released \subseteq Account

(* A socket plays on that process_available neither follows nor ignores. *)
Stray == \E c \in Conn : sock[c] \in {"greeted", "playing"} /\ c # main /\ c \notin ignored

IsolationInit ==
    /\ \E played \in SUBSET Prior :
         sock = [c \in Conn |-> IF c \in played THEN "playing" ELSE "none"]
    /\ main = None /\ pending = FALSE /\ candidate = FALSE /\ player = None
    /\ boost = None /\ buffer = <<>> /\ credential = None
    /\ ignored = {} /\ released = {}
    /\ strayed = Stray
    /\ sent = [c \in Conn |-> 0] /\ applied = <<>>

-----------------------------------------------------------------------------
(* is_account_verified *)
Verified == main # None /\ ~pending

(* A packet of c passes the reassembler and is_foreign_connection. *)
Heard(c) == c \notin ignored /\ ~(Verified /\ main # c)

(* A packet of c is captured, or with a lossy capture perhaps not. *)
Captured(c) == IF Lossy THEN BOOLEAN ELSE {TRUE}

(* on_account_mismatch *)
OnMismatch == main' = None /\ pending' = FALSE /\ candidate' = FALSE /\ player' = None

(* discard_unverified_candidate *)
Discard == OnMismatch /\ buffer' = <<>> /\ credential' = None

(* Phases 1 and 2 of dispatch_event: the events reach the panels and the model. *)
Apply(es) == applied' = applied \o es

(* Mutant: one event more than the cap. *)
HoldOneMore(p, e) ==
    IF Len(buffer) <= Cap
    THEN /\ buffer' = Append(buffer, e)
         /\ player' = p /\ UNCHANGED <<main, pending, candidate, credential>>
    ELSE Discard

(* Mutant: what does not fit is dropped and the candidate kept. *)
HoldWhatFits(p, e) ==
    /\ buffer' = IF Len(buffer) < Cap THEN Append(buffer, e) ELSE buffer
    /\ player' = p /\ UNCHANGED <<main, pending, candidate, credential>>

(* dispatch_event keeps an event back, or gives the candidate up for it *)
Hold(p, e) ==
    IF Len(buffer) < Cap
    THEN /\ buffer' = Append(buffer, e)
         /\ player' = p /\ UNCHANGED <<main, pending, candidate, credential>>
    ELSE Discard

(* release_pending_credential *)
Release ==
    IF credential # None /\ credential = main
    THEN released' = released \cup {Owner[credential]} /\ credential' = None
    ELSE UNCHANGED <<released, credential>>

(* dispatch_event of an event that identifies nobody; p is the player now. *)
DispatchEvent(p, e) ==
    /\ IF Verified
       THEN /\ Apply(<<e>>)
            /\ player' = p /\ UNCHANGED <<main, pending, candidate, buffer, credential>>
       ELSE Hold(p, e) /\ UNCHANGED applied
    /\ UNCHANGED <<ignored, released>>

(* run_account_verification: the player is another account's. *)
Mismatch ==
    /\ ignored' = ignored \cup ({main} \ {None})
    /\ Discard
    /\ UNCHANGED <<applied, released>>

(* run_account_verification: the player is the main account's.  Without a main
   connection the replayed events are held back again. *)
Verify(e) ==
    /\ pending' = FALSE /\ candidate' = FALSE
    /\ Release
    /\ IF main # None
       THEN Apply(Append(buffer, e)) /\ buffer' = <<>> /\ UNCHANGED <<main, player>>
       ELSE /\ UNCHANGED <<applied, main>>
            /\ IF Len(buffer) < Cap
               THEN buffer' = Append(buffer, e) /\ UNCHANGED player
               ELSE buffer' = <<>> /\ player' = None
    /\ UNCHANGED ignored

(* dispatch_event of an Update that shows the player of socket c. *)
Identify(c, e) ==
    IF player # c \/ Verified \/ ~pending THEN DispatchEvent(player, e)
    ELSE IF Owner[c] = Main THEN Verify(e) ELSE Mismatch

-----------------------------------------------------------------------------
(* A client opens its next socket once it has closed the last one. *)
Open(c) ==
    /\ sock[c] = "none"
    /\ \A d \in Conn : Owner[d] = Owner[c] => sock[d] \in {"none", "closed"}
    /\ sock' = [sock EXCEPT ![c] = "open"]
    /\ UNCHANGED <<session, boost, buffer, credential, ignored, sent, applied, released>>

(* Mutant: the candidate's time is not taken. *)
AcceptUntimed(c, token) ==
    /\ main = None
    /\ main' = c /\ pending' = TRUE
    /\ buffer' = <<>>
    /\ credential' = IF token THEN c ELSE credential
    /\ sent' = [sent EXCEPT ![c] = 0] /\ applied' = <<>>
    /\ UNCHANGED <<candidate, player, ignored, released>>

(* evaluate_hello, and what process_available does with its answer. *)
Accept(c, token) ==
    /\ main = None
    /\ main' = c /\ pending' = TRUE /\ candidate' = TRUE
    /\ buffer' = <<>>
    /\ credential' = IF token THEN c ELSE credential
    /\ sent' = [sent EXCEPT ![c] = 0] /\ applied' = <<>>
    /\ UNCHANGED <<player, ignored, released>>

Reject(c) ==
    /\ main \notin {None, c}
    /\ ignored' = ignored \cup {c}
    /\ UNCHANGED <<session, buffer, credential, sent, applied, released>>

(* Mutant: a reconnecting candidate is taken for verified. *)
ReconnectTrusted(c, token) ==
    /\ main = c
    /\ released' = IF token THEN released \cup {Owner[c]} ELSE released
    /\ UNCHANGED <<session, buffer, credential, ignored, sent, applied>>

Reconnect(c, token) ==
    /\ main = c
    /\ IF token /\ Verified
       THEN released' = released \cup {Owner[c]} /\ credential' = None
       ELSE /\ credential' = IF token THEN c ELSE credential
            /\ UNCHANGED released
    /\ UNCHANGED <<session, buffer, ignored, sent, applied>>

Hello(c) ==
    /\ sock[c] \in {"open", "greeted", "playing"}
    /\ sock' = [sock EXCEPT ![c] = "greeted"]
    /\ \E captured \in Captured(c), token \in BOOLEAN :
         IF captured /\ c \notin ignored
         THEN Accept(c, token) \/ Reject(c) \/ Reconnect(c, token)
         ELSE UNCHANGED <<session, buffer, credential, ignored, sent, applied, released>>
    /\ UNCHANGED boost

Numbered(c) == [from |-> c, n |-> sent[c] + 1]

Count(c) == sent[c] < MaxEvents /\ sent' = [sent EXCEPT ![c] = @ + 1]

(* CreateSuccess: the router takes the player for the main account's. *)
Load(c) ==
    /\ sock[c] = "greeted"
    /\ sock' = [sock EXCEPT ![c] = "playing"]
    /\ \E captured \in Captured(c) :
         IF captured /\ Heard(c)
         THEN Count(c) /\ DispatchEvent(c, Numbered(c))
         ELSE UNCHANGED <<session, buffer, credential, ignored, sent, applied, released>>
    /\ UNCHANGED boost

(* Any other routed event; a NewTick of the verified player may carry its boost. *)
Event(c) ==
    /\ sock[c] \in {"greeted", "playing"} /\ Heard(c)
    /\ Count(c) /\ DispatchEvent(player, Numbered(c))
    /\ boost' \in {boost} \cup IF Verified /\ player = c THEN {Owner[c], None} ELSE {}
    /\ UNCHANGED sock

(* An Update with the client's own player, and perhaps its boost: routed first. *)
Update(c) ==
    /\ sock[c] = "playing" /\ Heard(c)
    /\ Count(c) /\ Identify(c, Numbered(c))
    /\ boost' \in {boost} \cup IF player = c THEN {Owner[c], None} ELSE {}
    /\ UNCHANGED sock

(* on_disconnect, and what process_available clears with it *)
OnDisconnect ==
    /\ main' = None /\ candidate' = FALSE /\ player' = None /\ boost' = None
    /\ buffer' = <<>> /\ credential' = None
    /\ UNCHANGED pending

(* FIN or RST.  process_segment returns before the line that would forget an
   ignored socket. *)
Close(c) ==
    /\ sock[c] \in {"open", "greeted", "playing"}
    /\ sock' = [sock EXCEPT ![c] = "closed"]
    /\ \E captured \in Captured(c) :
         IF captured /\ c = main THEN OnDisconnect
         ELSE UNCHANGED <<session, boost, buffer, credential>>
    /\ UNCHANGED <<ignored, sent, applied, released>>

(* check_identity_timeout *)
TimeOut ==
    /\ Timeouts /\ candidate /\ ~Verified
    /\ Discard
    /\ UNCHANGED <<sock, boost, ignored, sent, applied, released>>

Track == strayed' = (strayed \/ Stray')

IsolationNext ==
    /\ \/ \E c \in Conn : \/ Open(c) \/ Hello(c) \/ Load(c) \/ Event(c) \/ Update(c) \/ Close(c)
       \/ TimeOut
    /\ Track

IsolationSpec == IsolationInit /\ [][IsolationNext]_isolationVars

(* The worker's loop comes by at least every RECV_TIMEOUT, and time passes. *)
IsolationFairSpec == IsolationSpec /\ WF_isolationVars(TimeOut /\ Track)

-----------------------------------------------------------------------------
(* "If it turns out to be a mule, the buffer is discarded and nothing ever
   reaches the UI": so it is until a socket strays, that is, one was in play
   before the capture, or lost its candidacy without being ignored.  Likewise
   "An unverified/foreign candidate never releases credentials": the player that
   verifies a candidate is the one whose CreateSuccess came last, and a token
   waits for nothing but the verdict on the candidate that sent it. *)
OnlyMainGetsOut ==
    /\ credential # None => credential = main /\ pending
    /\ ~strayed => /\ \A i \in DOMAIN applied : Owner[applied[i].from] = Main
                   /\ released \subseteq {Main}

(* The events of c among es are its first k, once each and in order. *)
InOrder(es, c, k) ==
    LET own == {i \in DOMAIN es : es[i].from = c} IN
    /\ {es[i].n : i \in own} = 1..k
    /\ \A i, j \in own : i < j => es[i].n < es[j].n

(* "None of the main's own loot/combat/location/objects are lost": whatever was
   lost, discarded or timed out before, the verified socket's events since its
   Hello have all been applied, once and in order, and none is held back. *)
NothingLost ==
    Verified => InOrder(applied, main, sent[main]) /\ buffer = <<>>

(* The candidate's slot is decided, or freed for the next Hello. *)
CandidateDecided == (main # None /\ ~Verified) ~> (main = None \/ Verified)

(* "So a mule's boost can't leak onto the card." *)
BoostIsMains == Verified => boost \in {Main, None}
=============================================================================
