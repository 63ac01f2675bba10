------------------------------ MODULE Pipeline ------------------------------
(***************************************************************************)
(* The threads of a running program and the channels between them:         *)
(* capture threads, the worker that owns the model (processing/worker.rs), *)
(* the UI thread, and the threads that fetch account data.                 *)
(*                                                                         *)
(* What a packet, an edit or a fetched result means is left out: each may  *)
(* change the model and emit updates.  What the worker does between two    *)
(* uses of a channel, the snapshot, the repaint request or the disk is one *)
(* step.  Audio commands, historical maintenance, the stop message the     *)
(* application never sends and the latency diagnostics are not modelled.   *)
(***************************************************************************)
EXTENDS Naturals, Sequences

CONSTANTS
    QueueCap,     \* capacity of the packet queue
    UiCap,        \* DEFAULT_BOUND of the update channel
    Batch,        \* MAX_PACKETS_PER_BATCH
    PerFrame,     \* updates applied in a frame (4096)
    MaxInputs,    \* bound: packets captured, edits and refreshes, together
    MaxFailures   \* bound: saves that fail

ASSUME PipelineAssumption ==
    /\ QueueCap \in Nat \ {0} /\ UiCap \in Nat \ {0} /\ Batch \in Nat \ {0} /\ PerFrame \in Nat \ {0}
    /\ MaxInputs \in Nat /\ MaxFailures \in Nat

VARIABLES
    packets,   \* the packet queue: packets by number
    lost,      \* its dropped counter
    source,    \* the capture: not started, handed over, running, ended, or its receiver let go
    control,   \* the control channel
    worker,    \* where the worker is
    wake,      \* it is going to ask for a repaint
    resume,    \* where it goes on after it has published
    model,     \* what it owns: edits, packets' changes, newest fetched result
    dirty,     \* account data changed since the last save
    out,       \* updates emitted and not sent yet
    queue,     \* the update channel: updates by number
    dropped,   \* its dropped counter
    snapshot,  \* the shared latest-value snapshot
    disk,      \* account data on disk
    report,    \* what the shutdown channel holds
    ui,        \* where the UI thread is
    seen,      \* its copy of the snapshot
    repaint,   \* a repaint is requested
    fetching,  \* generations of the refreshes under way
    failures,  \* saves and closes that failed
    count      \* ghost: packets captured and processed, edits and refreshes asked
               \* for, updates sent and shown

capture == <<packets, lost, source>>
channel == <<queue, dropped>>
publishing == <<wake, resume, snapshot>>
account == <<model, dirty>>
storage == <<disk, failures>>
window == <<ui, seen>>
vars == <<capture, control, worker, publishing, account, out, channel, storage, report,
          window, repaint, fetching, count>>

Model == [edits : Nat, live : Nat, result : Nat]
Empty == [edits |-> 0, live |-> 0, result |-> 0]

(* The fetched missions are not part of the saved account data. *)
Saved(m) == [m EXCEPT !.result = 0]

TypeOK ==
    /\ packets \in Seq(1..MaxInputs) /\ Len(packets) <= QueueCap /\ lost \in Nat
    /\ source \in {"none", "offered", "running", "ended", "gone"}
    /\ control \in Seq([kind : {"edit", "capture", "result", "shutdown"}, gen : 0..MaxInputs])
    /\ worker \in {"staged", "control", "dispatch", "publish", "wake", "save",
                   "drain", "close", "stopped", "cancelled"}
    /\ wake \in BOOLEAN /\ resume \in {"control", "save"}
    /\ model \in Model /\ snapshot \in Model /\ seen \in Model /\ disk \in Model
    /\ dirty \in BOOLEAN /\ repaint \in BOOLEAN /\ out \in Nat
    /\ queue \in Seq(Nat) /\ Len(queue) <= UiCap /\ dropped \in Nat
    /\ report \in {"none", "success", "failed"}
    /\ ui \in {"starting", "up", "frame", "waiting", "replaced", "ended"}
    /\ fetching \subseteq 1..MaxInputs /\ failures \in 0..MaxFailures
    /\ count \in [captured : 0..MaxInputs, processed : Nat, edits : 0..MaxInputs,
                  fetches : 0..MaxInputs, sent : Nat, shown : Nat]

Init ==
    /\ packets = <<>> /\ lost = 0 /\ source = "none" /\ control = <<>>
    /\ worker = "staged" /\ wake = FALSE /\ resume = "control" /\ model = Empty
    /\ dirty = FALSE /\ out = 0 /\ queue = <<>> /\ dropped = 0 /\ snapshot = Empty
    /\ disk = Empty /\ report = "none" /\ failures = 0
    /\ ui = "starting" /\ seen = Empty /\ repaint = FALSE /\ fetching = {}
    /\ count = [captured |-> 0, processed |-> 0, edits |-> 0, fetches |-> 0,
                sent |-> 0, shown |-> 0]

-----------------------------------------------------------------------------
(* The process is there, and its threads with it. *)
Alive == ui \notin {"replaced", "ended"}

Inputs == count.captured + count.edits + count.fetches

At(place) == Alive /\ worker = place

Smaller(m, n) == IF m < n THEN m ELSE n

(* Mutant: a channel is never full. *)
PushUnbounded(q, e, cap) == Append(q, e)

(* A channel that is full drops its oldest element. *)
Push(q, e, cap) == Append(IF Len(q) >= cap THEN Tail(q) ELSE q, e)

(* A capture thread's send, while the worker holds the receiver. *)
CapturePacket ==
    /\ Alive /\ worker # "stopped"
    /\ source \in {"offered", "running"} /\ Inputs < MaxInputs
    /\ packets' = Push(packets, count.captured + 1, QueueCap)
    /\ lost' = IF Len(packets) >= QueueCap THEN lost + 1 ELSE lost
    /\ count' = [count EXCEPT !.captured = @ + 1]
    /\ UNCHANGED <<source, control, worker, publishing, account, out, channel, storage,
                   report, window, repaint, fetching>>

(* The last capture thread ends. *)
EndCapture ==
    /\ Alive /\ source = "running" /\ source' = "ended"
    /\ UNCHANGED <<packets, lost, control, worker, publishing, account, out, channel,
                   storage, report, window, repaint, fetching, count>>

-----------------------------------------------------------------------------
(* Mutant: whichever result comes last is applied. *)
ApplyAnyResult(g) == [model EXCEPT !.result = g]

(* apply_control of fetched missions *)
ApplyResult(g) == IF g <= model.result THEN model ELSE [model EXCEPT !.result = g]

(* handle_control of the first message, which it then publishes *)
HandleControl ==
    /\ At("control") /\ control # <<>> /\ Head(control).kind # "shutdown"
    /\ control' = Tail(control) /\ worker' = "publish" /\ resume' = "control"
    /\ \/ /\ Head(control).kind = "edit"
          /\ model' = [model EXCEPT !.edits = @ + 1] /\ dirty' = TRUE
          /\ UNCHANGED <<source, wake, out>>
       \/ /\ Head(control).kind = "result"
          /\ model' = ApplyResult(Head(control).gen)
          /\ UNCHANGED <<source, dirty, wake, out>>
       \/ /\ Head(control).kind = "capture"
          /\ source' = "running" /\ out' = out + 1 /\ wake' = TRUE
          /\ UNCHANGED account
    /\ UNCHANGED <<packets, lost, snapshot, channel, storage, report, window, repaint,
                   fetching, count>>

HandleShutdown ==
    /\ At("control") /\ control # <<>> /\ Head(control).kind = "shutdown"
    /\ control' = Tail(control) /\ worker' = "drain"
    /\ UNCHANGED <<capture, publishing, account, out, channel, storage, report, window,
                   repaint, fetching, count>>

(* Mutant: the receiver is let go as soon as the capture threads have ended. *)
ClosedAtOnce(rest) == source = "ended"

(* recv_timeout tells the end of the capture when the queue is empty, too. *)
Closed(rest) == source = "ended" /\ rest = <<>>

(* recv_timeout and process_available: a batch of packets, each of which may
   emit an update, and which together may change account data. *)
Receive ==
    /\ At("control") /\ control = <<>>
    /\ LET n == IF source \in {"running", "ended"} THEN Smaller(Len(packets), Batch) ELSE 0
           rest == SubSeq(packets, n + 1, Len(packets))
           stops == IF Closed(rest) THEN 1 ELSE 0
       IN  /\ packets' = rest
           /\ source' = IF stops = 1 THEN "gone" ELSE source
           /\ \E emits \in 0..n, changes \in {0, n} :
                /\ out' = out + emits + stops
                /\ model' = [model EXCEPT !.live = @ + changes]
                /\ dirty' = (dirty \/ changes > 0)
           /\ count' = [count EXCEPT !.processed = @ + n]
           /\ worker' = IF n = 0 /\ out' = 0 THEN "save" ELSE "dispatch"
    /\ resume' = "save"
    /\ UNCHANGED <<lost, control, wake, snapshot, channel, storage, report, window, repaint,
                   fetching>>

(* ui_tx.send of the next update: a repaint will be asked for, at once or, if
   its tab is not shown, after SUPPRESSED_DRAIN_INTERVAL.  (The receiver goes
   with the process.) *)
Dispatch ==
    /\ At("dispatch") /\ out > 0
    /\ out' = out - 1 /\ wake' = TRUE
    /\ queue' = Push(queue, count.sent + 1, UiCap)
    /\ dropped' = IF Len(queue) >= UiCap THEN dropped + 1 ELSE dropped
    /\ count' = [count EXCEPT !.sent = @ + 1]
    /\ UNCHANGED <<capture, control, worker, resume, snapshot, account, storage, report,
                   window, repaint, fetching>>

(* Mutant: the repaint is left to the user's next input. *)
PublishQuietly ==
    /\ At("publish") \/ (At("dispatch") /\ out = 0)
    /\ snapshot' = model /\ worker' = "wake"
    /\ UNCHANGED <<capture, control, wake, resume, account, out, channel, storage, report,
                   window, repaint, fetching, count>>

(* publish_snapshot *)
Publish ==
    /\ At("publish") \/ (At("dispatch") /\ out = 0)
    /\ snapshot' = model /\ wake' = (wake \/ snapshot # model) /\ worker' = "wake"
    /\ UNCHANGED <<capture, control, resume, account, out, channel, storage, report,
                   window, repaint, fetching, count>>

(* request_repaint, or request_repaint_after *)
Wake ==
    /\ At("wake")
    /\ repaint' = (repaint \/ wake) /\ wake' = FALSE /\ worker' = resume
    /\ UNCHANGED <<capture, control, resume, snapshot, account, out, channel, storage,
                   report, window, fetching, count>>

-----------------------------------------------------------------------------
(* save_and_clear_dirty, whose failure is logged and tried again later *)
SaveAccount ==
    /\ At("save") /\ dirty /\ worker' = "control"
    /\ disk' = Saved(model) /\ dirty' = FALSE
    /\ UNCHANGED <<capture, control, publishing, model, out, channel, failures, report,
                   window, repaint, fetching, count>>

SaveFails ==
    /\ At("save") /\ dirty /\ failures < MaxFailures /\ worker' = "control"
    /\ failures' = failures + 1
    /\ UNCHANGED <<capture, control, publishing, account, out, channel, disk, report,
                   window, repaint, fetching, count>>

(* Nothing to save, or SAVE_INTERVAL has not passed. *)
SaveNotDue ==
    /\ At("save") /\ worker' = "control"
    /\ UNCHANGED <<capture, control, publishing, account, out, channel, storage, report,
                   window, repaint, fetching, count>>

-----------------------------------------------------------------------------
(* final_drain and save_account_on_exit *)
DrainAndSave ==
    /\ At("drain") /\ worker' = "close"
    /\ \E change \in 0..1 : model' = [model EXCEPT !.live = @ + change]
    /\ dirty' = (dirty \/ model' # model)
    /\ \/ disk' = Saved(model') /\ UNCHANGED <<failures, report>>
       \/ /\ failures < MaxFailures /\ failures' = failures + 1
          /\ report' = "failed" /\ UNCHANGED disk
    /\ UNCHANGED <<capture, control, publishing, out, channel, window, repaint, fetching,
                   count>>

(* close_databases, tried even if the save has failed; the last snapshot and
   the report; the thread ends. *)
CloseDatabases ==
    /\ At("close") /\ worker' = "stopped" /\ snapshot' = model
    /\ \/ report' = (IF report = "none" THEN "success" ELSE report) /\ UNCHANGED failures
       \/ failures < MaxFailures /\ failures' = failures + 1 /\ report' = "failed"
    /\ UNCHANGED <<capture, control, wake, resume, account, out, channel, disk, window,
                   repaint, fetching, count>>

-----------------------------------------------------------------------------
(* The launch metadata are recorded and the worker is activated; then the
   capture starts, if it can. *)
Start ==
    /\ ui = "starting" /\ ui' = "up" /\ worker' = "control"
    /\ seen' = snapshot /\ repaint' = TRUE
    /\ \/ control' = <<[kind |-> "capture", gen |-> 0]>> /\ source' = "offered"
       \/ UNCHANGED <<control, source>>
    /\ UNCHANGED <<packets, lost, publishing, account, out, channel, storage, report,
                   fetching, count>>

(* They could not be recorded: cancel_staged. *)
CancelStaged ==
    /\ ui = "starting" /\ ui' = "ended" /\ worker' = "cancelled"
    /\ UNCHANGED <<capture, control, publishing, account, out, channel, storage, report, seen, repaint, fetching, count>>

(* The user edits: send_control, in a frame. *)
Edit ==
    /\ ui = "up" /\ Inputs < MaxInputs
    /\ control' = Append(control, [kind |-> "edit", gen |-> 0])
    /\ count' = [count EXCEPT !.edits = @ + 1] /\ repaint' = TRUE
    /\ UNCHANGED <<capture, worker, publishing, account, out, channel, storage, report,
                   window, fetching>>

(* start_account_refresh, in a frame: one more thread, one more generation. *)
Refresh ==
    /\ ui = "up" /\ Inputs < MaxInputs
    /\ fetching' = fetching \cup {count.fetches + 1}
    /\ count' = [count EXCEPT !.fetches = @ + 1] /\ repaint' = TRUE
    /\ UNCHANGED <<capture, control, worker, publishing, account, out, channel, storage,
                   report, window>>

(* A fetching thread posts its result while the worker can take it; a thread
   that has none ends unnoticed. *)
FetchDone ==
    /\ Alive /\ worker # "stopped"
    /\ \E g \in fetching :
         /\ fetching' = fetching \ {g}
         /\ control' = Append(control, [kind |-> "result", gen |-> g])
    /\ UNCHANGED <<capture, worker, publishing, account, out, channel, storage, report,
                   window, repaint, count>>

(* drain_ui_updates at the end of a frame, up to PerFrame of them *)
DrainUpdates ==
    /\ ui = "up" /\ repaint /\ ui' = "frame"
    /\ LET n == Smaller(Len(queue), PerFrame) IN
         /\ queue' = SubSeq(queue, n + 1, Len(queue))
         /\ repaint' = (n = PerFrame)
         /\ count' = [count EXCEPT !.shown = @ + n]
    /\ UNCHANGED <<capture, control, worker, publishing, account, out, dropped, storage,
                   report, seen, fetching>>

RefreshSnapshot ==
    /\ ui = "frame" /\ ui' = "up" /\ seen' = snapshot
    /\ UNCHANGED <<capture, control, worker, publishing, account, out, channel, storage,
                   report, repaint, fetching, count>>

(* relaunch, which is called before the frame drains the updates.  (on_exit waits
   for the worker in the same way, and the process ends whatever the outcome.) *)
ShutDown ==
    /\ ui = "up" /\ ui' = "waiting"
    /\ control' = Append(control, [kind |-> "shutdown", gen |-> 0])
    /\ UNCHANGED <<capture, worker, publishing, account, out, channel, storage, report,
                   seen, repaint, fetching, count>>

(* Mutant: a failed save is no obstacle. *)
MayRelaunchOnReport(outcome) == outcome # "timed out"

(* relaunch_preflight: the successor is started after a success only.  The
   settings and the registry are taken to be written. *)
MayRelaunch(outcome) == outcome = "success"

After(outcome) == IF MayRelaunch(outcome) THEN "replaced" ELSE "ended"

ReportArrives ==
    /\ ui = "waiting" /\ worker = "stopped" /\ ui' = After(report)
    /\ UNCHANGED <<capture, control, worker, publishing, account, out, channel, storage,
                   report, seen, repaint, fetching, count>>

ShutdownTimesOut ==
    /\ ui = "waiting" /\ worker # "stopped" /\ ui' = After("timed out")
    /\ UNCHANGED <<capture, control, worker, publishing, account, out, channel, storage,
                   report, seen, repaint, fetching, count>>

-----------------------------------------------------------------------------
WorkerStep ==
    \/ HandleControl \/ HandleShutdown \/ Receive
    \/ Dispatch \/ Publish \/ Wake
    \/ SaveAccount \/ SaveFails \/ SaveNotDue
    \/ DrainAndSave \/ CloseDatabases

Frame == DrainUpdates \/ RefreshSnapshot

Next ==
    \/ CapturePacket \/ EndCapture \/ WorkerStep
    \/ Start \/ CancelStaged \/ Edit \/ Refresh \/ FetchDone \/ Frame
    \/ ShutDown \/ ReportArrives \/ ShutdownTimesOut

Spec == Init /\ [][Next]_vars

(* The threads run, a requested frame is drawn, and SAVE_INTERVAL passes again
   and again while the worker comes to save. *)
FairSpec == Spec /\ WF_vars(WorkerStep) /\ WF_vars(Frame) /\ SF_vars(SaveAccount)

-----------------------------------------------------------------------------
(* Account data not marked dirty are on disk, whatever saves have failed (the
   save at the end leaves them marked); and a successor is started only if every
   edit the user made, and everything the worker knew of the account, is. *)
NoEditLost ==
    /\ ~dirty => disk = Saved(model)
    /\ ui = "replaced" => disk = Saved(model) /\ disk.edits = count.edits

(* The program keeps the promise of AccountStore with its account data, whatever is
   queued, fails, is late or is given up: what the worker knows of edits and of the
   account is what it has taken in, the marks are its dirty flag, and the process
   leaves with the message that shuts it down (Worker::run, final_drain, relaunch). *)
Part(m) == [edits |-> m.edits, live |-> m.live]
Life == IF ui \in {"starting", "up", "frame"} THEN "open"
        ELSE IF ui = "waiting" THEN "leaving" ELSE ui
Store == INSTANCE AccountStore WITH
             given <- count.edits, known <- Part(model), stored <- Part(disk), marked <- dirty,
             life <- Life
ImplementsStore == Store!Spec

(* Overflow costs the oldest updates and nothing else: what is queued is the end
   of what was sent, in order, and what is missing was shown or counted.
   "Buffered packets are always delivered first": the receiver is not let go
   while it holds packets, and each packet was processed, is queued or counted
   as dropped. *)
QueuesLoseOldestOnly ==
    /\ queue = [k \in 1..Len(queue) |-> count.sent - Len(queue) + k]
    /\ count.shown + Len(queue) + dropped = count.sent
    /\ source = "gone" => packets = <<>>
    /\ count.processed + Len(packets) + lost = count.captured

(* While the window is up, every update and every change of the model gets to
   the UI without another input of the user; when no refresh is under way it
   comes to show the result of the one asked for last, in whatever order the
   fetching threads posted them; and changed account data are saved, though saves
   fail. *)
CatchesUp ==
    /\ (queue # <<>> \/ seen # model)
          ~> ((queue = <<>> /\ seen = model) \/ ui \notin {"up", "frame"})
    /\ fetching = {}
          ~> (seen.result = count.fetches \/ fetching # {} \/ ui \notin {"up", "frame"})
    /\ dirty ~> (~dirty \/ ui \notin {"up", "frame"})
=============================================================================
