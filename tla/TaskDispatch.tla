---------------------------- MODULE TaskDispatch ----------------------------
(***************************************************************************)
(* Dispatching a task: TaskRunner::run of the hub (hub/runner), its inbox  *)
(* pump, and the worker's DaemonRuntime (daemon/task_loop) that admits,    *)
(* queues and runs the task.                                               *)
(*                                                                         *)
(* A call is one invocation of run_inner.  Its correlation ids are         *)
(* <<call, attempt>>: the code makes each one with a counter, so no two    *)
(* are alike.  The link between the two is ordered and reliable while both *)
(* processes live (QueueLink, ReliableQueue).  The worker handles every    *)
(* frame in a task of its own, so two frames it took in order may be       *)
(* handled in either order.                                                *)
(*                                                                         *)
(* Durations are left out.  A window may run out at any moment its clock   *)
(* is running, however short the silence was: every behaviour of the real  *)
(* windows is one of these.                                                *)
(***************************************************************************)
EXTENDS Integers, Sequences, FiniteSets, Functions

CONSTANTS
    Calls, NoCall,  \* the invocations of run_inner, and none of them
    TaskOf,         \* the task id each call carries on the wire
    AbortIdOf,      \* the id each call is aborted by; a workflow's nodes share one
    MaxResets,      \* MAX_RESETS: resends after a silent ack window
    MaxPending,     \* DaemonConfig::max_pending
    Concurrency,    \* DaemonConfig::concurrency
    LinkCapacity,   \* frames a direction of the link holds before a send waits
    MaxCrashes,     \* bound: crashes of the worker
    MaxOutages,     \* bound: times the link stops being live
    MaxHolds        \* bound: times an operator takes a session

ASSUME DispatchAssumption ==
    /\ NoCall \notin Calls
    /\ TaskOf \in [Calls -> Range(TaskOf)] /\ AbortIdOf \in [Calls -> Range(AbortIdOf)]
    /\ MaxResets \in Nat /\ MaxPending \in Nat \ {0} /\ Concurrency \in Nat \ {0}
    /\ LinkCapacity \in Nat \ {0}
    /\ MaxCrashes \in Nat /\ MaxOutages \in Nat /\ MaxHolds \in Nat

Task == Range(TaskOf)

AbortId == Range(AbortIdOf)

Cid == Calls \X (0..MaxResets)

NoCid == <<>>

VARIABLES
    call,       \* each call's own state (run_inner's locals and its Waiter's shared cells)
    waiters,    \* TaskRunner::waiters, the correlation ids a frame can still reach
    aborts,     \* TaskRunner::aborts, the call whose signal an abort id finds
    live,       \* the link to the worker is BridgeLiveness::Live
    toWorker,   \* frames the hub's link holds for the worker
    toHub,      \* frames the worker's link holds for the hub
    handler,    \* where the worker's handler of each task frame stands
    aborting,   \* abort frames whose handler is spawned and has not run
    ackDue,     \* abort frames handled and not yet acknowledged
    running,    \* Inner::running, the correlation id holding each task id
    admitted,   \* Inner::admitted
    aborted,    \* the runs whose Abort is signalled
    spent       \* the bounded events so far: [crashes, outages, holds]

hubVars == <<call, waiters, aborts, live>>
workerVars == <<handler, aborting, ackDue, running, admitted, aborted>>
vars == <<hubVars, toWorker, toHub, workerVars, spent>>

Pcs == {"idle", "sending", "handed", "acking", "working", "silent", "leaving", "stopping", "done"}

(* What a call can end with (TaskOutcome, or a RunError), "none" before.   *)
Outcomes == {"none", "reply", "worker", "busy", "held", "timeout", "aborted", "transport"}

CallState ==
    [pc : Pcs, attempt : 0..MaxResets,
     signal : BOOLEAN,      \* a permit of the abort Notify
     activity : BOOLEAN,    \* a permit of the activity Notify
     held : BOOLEAN,        \* Waiter::held
     rx : Outcomes,         \* what the oneshot holds
     from : Cid \cup {NoCid},   \* history: the run that answer came from
     outcome : Outcomes]    \* the result, or why the call is leaving

(* A handler's stages.  "unserved", "shed", "refused", "registered" and    *)
(* "cancelled" owe the hub a frame (Owed); "rejected", "replied" and       *)
(* "closing" have sent their last and still hold the admission guard.      *)
Stages == {"none", "spawned", "unserved", "shed", "admitted", "refused", "rejected",
           "registered", "queued", "cancelled", "turn", "running", "held", "replied",
           "closing", "gone"}

Kinds == {"task", "abort", "ack", "status", "session held", "session resumed"}
            \cup {"reply", "worker", "busy", "held"}

Frame == [kind : Kinds, cid : Cid]

TypeOK ==
    /\ call \in [Calls -> CallState]
    /\ waiters \in SUBSET Cid
    /\ aborts \in [AbortId -> Calls \cup {NoCall}]
    /\ live \in BOOLEAN
    /\ toWorker \in Seq(Frame) /\ toHub \in Seq(Frame)
    /\ handler \in [Cid -> Stages]
    /\ aborting \in SUBSET Cid /\ ackDue \in SUBSET Cid
    /\ running \in [Task -> Cid \cup {NoCid}]
    /\ admitted \in 0..MaxPending
    /\ aborted \in SUBSET Cid
    /\ spent \in [crashes : 0..MaxCrashes, outages : 0..MaxOutages, holds : 0..MaxHolds]

Init ==
    /\ call = [c \in Calls |->
                  [pc |-> "idle", attempt |-> 0, signal |-> FALSE, activity |-> FALSE,
                   held |-> FALSE, rx |-> "none", from |-> NoCid, outcome |-> "none"]]
    /\ waiters = {}
    /\ aborts = [a \in AbortId |-> NoCall]
    /\ live = TRUE
    /\ toWorker = <<>> /\ toHub = <<>>
    /\ handler = [k \in Cid |-> "none"]
    /\ aborting = {} /\ ackDue = {}
    /\ running = [t \in Task |-> NoCid]
    /\ admitted = 0
    /\ aborted = {}
    /\ spent = [crashes |-> 0, outages |-> 0, holds |-> 0]

CidOf(c) == <<c, call[c].attempt>>

TaskIdOf(k) == TaskOf[k[1]]

-----------------------------------------------------------------------------
(* The hub: run_inner. *)

(* A fresh correlation id with a fresh oneshot, activity and held.         *)
Attempt(n, signal) ==
    [pc |-> "sending", attempt |-> n, signal |-> signal, activity |-> FALSE,
     held |-> FALSE, rx |-> "none", from |-> NoCid, outcome |-> "none"]

Start(c) ==
    /\ call[c].pc = "idle"
    /\ aborts' = [aborts EXCEPT ![AbortIdOf[c]] = c]
    /\ call' = [call EXCEPT ![c] = Attempt(0, FALSE)]
    /\ waiters' = waiters \cup {<<c, 0>>}
    /\ UNCHANGED <<live, toWorker, toHub, workerVars, spent>>

(* The call returns: its AbortGuard removes the signal if it is still its own. *)
Return(c, outcome) ==
    /\ call' = [call EXCEPT ![c].pc = "done", ![c].outcome = outcome, ![c].signal = FALSE,
                            ![c].activity = FALSE, ![c].held = FALSE, ![c].rx = "none"]
    /\ aborts' = [aborts EXCEPT ![AbortIdOf[c]] = IF @ = c THEN NoCall ELSE @]

(* The send hands the frame to the link's driver and waits for its answer. *)
HandOver(c) ==
    /\ call[c].pc = "sending" /\ ~call[c].signal
    /\ Len(toWorker) < LinkCapacity
    /\ call' = [call EXCEPT ![c].pc = "handed"]
    /\ toWorker' = Append(toWorker, [kind |-> "task", cid |-> CidOf(c)])
    /\ UNCHANGED <<waiters, aborts, live, toHub, workerVars, spent>>

SendReturns(c) ==
    /\ call[c].pc = "handed" /\ ~call[c].signal
    /\ call' = [call EXCEPT ![c].pc = "acking"]
    /\ UNCHANGED <<waiters, aborts, live, toWorker, toHub, workerVars, spent>>

(* The abort arm of the send drops the send, wherever it has got to.       *)
SendAborted(c) ==
    /\ call[c].pc \in {"sending", "handed"} /\ call[c].signal
    /\ waiters' = waiters \ {CidOf(c)}
    /\ Return(c, "aborted")
    /\ UNCHANGED <<live, toWorker, toHub, workerVars, spent>>

SendFails(c) ==
    /\ call[c].pc = "sending" /\ ~call[c].signal
    /\ waiters' = waiters \ {CidOf(c)}
    /\ Return(c, "transport")
    /\ UNCHANGED <<live, toWorker, toHub, workerVars, spent>>

(* The two waiting selects.  Their arms are biased: the terminal frame,    *)
(* then the abort, then activity, then the window.                         *)
Waiting(c) == call[c].pc \in {"acking", "working"}

Settle(c) ==
    /\ Waiting(c) /\ call[c].rx # "none"
    /\ Return(c, call[c].rx)
    /\ UNCHANGED <<waiters, live, toWorker, toHub, workerVars, spent>>

(* Mutant of Aborted: only the ack window's select listens for the abort. *)
AbortedBeforeWork(c) ==
    /\ call[c].pc = "acking" /\ call[c].rx = "none" /\ call[c].signal
    /\ call' = [call EXCEPT ![c].pc = "leaving", ![c].outcome = "aborted", ![c].signal = FALSE]
    /\ UNCHANGED <<waiters, aborts, live, toWorker, toHub, workerVars, spent>>

Aborted(c) ==
    /\ Waiting(c) /\ call[c].rx = "none" /\ call[c].signal
    /\ call' = [call EXCEPT ![c].pc = "leaving", ![c].outcome = "aborted", ![c].signal = FALSE]
    /\ UNCHANGED <<waiters, aborts, live, toWorker, toHub, workerVars, spent>>

(* A frame came: the ack window is over, or the idle window starts again.  *)
Activity(c) ==
    /\ Waiting(c) /\ call[c].rx = "none" /\ ~call[c].signal /\ call[c].activity
    /\ call' = [call EXCEPT ![c].pc = "working", ![c].activity = FALSE]
    /\ UNCHANGED <<waiters, aborts, live, toWorker, toHub, workerVars, spent>>

(* live_sleep: a window runs only while the link is live and no operator   *)
(* holds the session.                                                      *)
ClockRuns(c) == live /\ ~call[c].held

(* Mutant of WindowOver: no window bounds the silence after the first frame. *)
WindowOverBeforeWork(c) ==
    /\ call[c].pc = "acking" /\ call[c].rx = "none" /\ ~call[c].signal /\ ~call[c].activity
    /\ ClockRuns(c)
    /\ call' = [call EXCEPT ![c].outcome = "timeout",
                            ![c].pc = IF call[c].attempt < MaxResets THEN "silent" ELSE "leaving"]
    /\ UNCHANGED <<waiters, aborts, live, toWorker, toHub, workerVars, spent>>

WindowOver(c) ==
    /\ Waiting(c) /\ call[c].rx = "none" /\ ~call[c].signal /\ ~call[c].activity
    /\ ClockRuns(c)
    /\ call' = [call EXCEPT ![c].outcome = "timeout",
                            ![c].pc = IF @ = "acking" /\ call[c].attempt < MaxResets
                                      THEN "silent" ELSE "leaving"]
    /\ UNCHANGED <<waiters, aborts, live, toWorker, toHub, workerVars, spent>>

(* After a silent ack window the same task goes out under a new id; the    *)
(* worker is not told to stop the attempt before.  (reset_session does     *)
(* nothing on either bridge.)                                              *)
Resend(c) ==
    /\ call[c].pc = "silent"
    /\ waiters' = (waiters \ {CidOf(c)}) \cup {<<c, call[c].attempt + 1>>}
    /\ call' = [call EXCEPT ![c] = Attempt(call[c].attempt + 1, call[c].signal)]
    /\ UNCHANGED <<aborts, live, toWorker, toHub, workerVars, spent>>

(* The waiter goes, then the worker is told to stop.                        *)
Leave(c) ==
    /\ call[c].pc = "leaving"
    /\ waiters' = waiters \ {CidOf(c)}
    /\ call' = [call EXCEPT ![c].pc = "stopping"]
    /\ UNCHANGED <<aborts, live, toWorker, toHub, workerVars, spent>>

SendAbort(c) ==
    /\ call[c].pc = "stopping"
    /\ Len(toWorker) < LinkCapacity
    /\ toWorker' = Append(toWorker, [kind |-> "abort", cid |-> CidOf(c)])
    /\ Return(c, call[c].outcome)
    /\ UNCHANGED <<waiters, live, toHub, workerVars, spent>>

(* Best effort: a send that fails changes nothing. *)
SendAbortFails(c) ==
    /\ call[c].pc = "stopping"
    /\ Return(c, call[c].outcome)
    /\ UNCHANGED <<waiters, live, toWorker, toHub, workerVars, spent>>

(* abort_task: the signal leaves the registry as it is notified. *)
AbortTask(a) ==
    /\ aborts[a] # NoCall
    /\ call' = [call EXCEPT ![aborts[a]].signal = TRUE]
    /\ aborts' = [aborts EXCEPT ![a] = NoCall]
    /\ UNCHANGED <<waiters, live, toWorker, toHub, workerVars, spent>>

(* abort_all: every signal in the registry, which keeps them. *)
AbortAll ==
    /\ \E a \in AbortId : aborts[a] # NoCall
    /\ call' = [c \in Calls |-> IF c \in Range(aborts) THEN [call[c] EXCEPT !.signal = TRUE]
                                ELSE call[c]]
    /\ UNCHANGED <<waiters, aborts, live, toWorker, toHub, workerVars, spent>>

-----------------------------------------------------------------------------
(* The pump: route_frame.  Any frame of a waiting attempt is activity, a   *)
(* terminal one settles and removes the waiter, and a control marker sets  *)
(* whether the session is held.  A frame nobody waits for is dropped.      *)
Terminal == {"reply", "worker", "busy", "held"}

(* Mutant of WaiterOf: frames are routed by their task id. *)
WaiterOfTask(m) == {k \in waiters : TaskIdOf(k) = TaskIdOf(m.cid)}

(* The waiter a frame is for: the one registered under its correlation id. *)
WaiterOf(m) == {k \in waiters : k = m.cid}

Route ==
    /\ live /\ toHub # <<>>
    /\ toHub' = Tail(toHub)
    /\ LET m == Head(toHub)
       IN  IF WaiterOf(m) = {} THEN UNCHANGED <<call, waiters>>
           ELSE \E k \in WaiterOf(m) :
                   LET c == k[1]
                   IN  /\ waiters' = IF m.kind \in Terminal THEN waiters \ {k} ELSE waiters
                       /\ call' = [call EXCEPT
                             ![c].activity = TRUE,
                             ![c].held = IF m.kind = "session held" THEN TRUE
                                         ELSE IF m.kind = "session resumed" THEN FALSE ELSE @,
                             ![c].rx = IF m.kind \in Terminal THEN m.kind ELSE @,
                             ![c].from = IF m.kind \in Terminal THEN m.cid ELSE @]
    /\ UNCHANGED <<aborts, live, toWorker, workerVars, spent>>

(* The link stops and starts being Live (the transport's Liveness). *)
LinkDown ==
    /\ live /\ spent.outages < MaxOutages
    /\ live' = FALSE
    /\ spent' = [spent EXCEPT !.outages = @ + 1]
    /\ UNCHANGED <<call, waiters, aborts, toWorker, toHub, workerVars>>

LinkUp ==
    /\ ~live
    /\ live' = TRUE
    /\ UNCHANGED <<call, waiters, aborts, toWorker, toHub, workerVars, spent>>

-----------------------------------------------------------------------------
(* The worker: handle_message spawns a handler for every frame it drains.  *)
Drain ==
    /\ toWorker # <<>>
    /\ toWorker' = Tail(toWorker)
    /\ LET m == Head(toWorker)
       IN  IF m.kind = "task"
           THEN handler' = [handler EXCEPT ![m.cid] = "spawned"] /\ UNCHANGED aborting
           ELSE aborting' = aborting \cup {m.cid} /\ UNCHANGED handler
    /\ UNCHANGED <<hubVars, toHub, ackDue, running, admitted, aborted, spent>>

(* A send waits while the link has no room (send_with_backpressure). *)
Reply(k, kind) ==
    /\ Len(toHub) < LinkCapacity
    /\ toHub' = Append(toHub, [kind |-> kind, cid |-> k])

(* handle_abort: only the run whose correlation id the frame names is      *)
(* stopped; the frame is acknowledged either way.                          *)
HandleAbort(k) ==
    /\ k \in aborting
    /\ aborting' = aborting \ {k}
    /\ aborted' = IF running[TaskIdOf(k)] = k THEN aborted \cup {k} ELSE aborted
    /\ ackDue' = ackDue \cup {k}
    /\ UNCHANGED <<hubVars, toWorker, toHub, handler, running, admitted, spent>>

AckAbort(k) ==
    /\ k \in ackDue
    /\ ackDue' = ackDue \ {k}
    /\ Reply(k, "ack")
    /\ UNCHANGED <<hubVars, toWorker, handler, aborting, running, admitted, aborted, spent>>

(* handle_task.  The handler of k moves to another stage.                  *)
Becomes(k, stage) == handler' = [handler EXCEPT ![k] = stage]

(* A request this worker cannot serve is refused before admission.         *)
Unserved(k) ==
    /\ handler[k] = "spawned"
    /\ Becomes(k, "unserved")
    /\ UNCHANGED <<hubVars, toWorker, toHub, aborting, ackDue, running, admitted, aborted, spent>>

(* AdmissionGuard::claim, one compare-and-exchange. *)
Admit(k) ==
    /\ handler[k] = "spawned"
    /\ IF admitted >= MaxPending
       THEN Becomes(k, "shed") /\ UNCHANGED admitted
       ELSE Becomes(k, "admitted") /\ admitted' = admitted + 1
    /\ UNCHANGED <<hubVars, toWorker, toHub, aborting, ackDue, running, aborted, spent>>

(* Mutant of RegisterRunning: a duplicate overwrites the record. *)
RegisterOverwriting(k) ==
    /\ handler[k] = "admitted"
    /\ Becomes(k, "registered")
    /\ running' = [running EXCEPT ![TaskIdOf(k)] = k]
    /\ UNCHANGED <<hubVars, toWorker, toHub, aborting, ackDue, admitted, aborted, spent>>

(* register_running claims the task id, or it is another run's. *)
RegisterRunning(k) ==
    /\ handler[k] = "admitted"
    /\ IF running[TaskIdOf(k)] = NoCid
       THEN Becomes(k, "registered") /\ running' = [running EXCEPT ![TaskIdOf(k)] = k]
       ELSE Becomes(k, "refused") /\ UNCHANGED running
    /\ UNCHANGED <<hubVars, toWorker, toHub, aborting, ackDue, admitted, aborted, spent>>

(* Mutant of Owed: a refused duplicate returns without dropping its guard, *)
(* as it would if the count were given back on the normal path only.       *)
OwedLeakingRefused ==
    [unserved   |-> [kind |-> "worker", next |-> "gone"],
     shed       |-> [kind |-> "busy",   next |-> "gone"],
     refused    |-> [kind |-> "worker", next |-> "gone"],
     registered |-> [kind |-> "ack",    next |-> "queued"],
     cancelled  |-> [kind |-> "worker", next |-> "closing"]]

(* Mutant of Owed: an abort while queued is answered, and the wait goes on. *)
OwedStillQueued ==
    [unserved   |-> [kind |-> "worker", next |-> "gone"],
     shed       |-> [kind |-> "busy",   next |-> "gone"],
     refused    |-> [kind |-> "worker", next |-> "rejected"],
     registered |-> [kind |-> "ack",    next |-> "queued"],
     cancelled  |-> [kind |-> "worker", next |-> "queued"]]

(* The frame a handler owes the hub, and the stage once it is sent. *)
Owed ==
    [unserved   |-> [kind |-> "worker", next |-> "gone"],
     shed       |-> [kind |-> "busy",   next |-> "gone"],
     refused    |-> [kind |-> "worker", next |-> "rejected"],
     registered |-> [kind |-> "ack",    next |-> "queued"],
     cancelled  |-> [kind |-> "worker", next |-> "closing"]]

Answer(k) ==
    /\ handler[k] \in DOMAIN Owed
    /\ Reply(k, Owed[handler[k]].kind)
    /\ Becomes(k, Owed[handler[k]].next)
    /\ UNCHANGED <<hubVars, toWorker, aborting, ackDue, running, admitted, aborted, spent>>

(* The handlers that hold a permit of the slots semaphore. *)
Executing == {k \in Cid : handler[k] \in {"turn", "running", "held", "replied"}}

(* The semaphore is first come first served; here any waiting run may be next. *)
TakeSlot(k) ==
    /\ handler[k] = "queued" /\ Cardinality(Executing) < Concurrency
    /\ Becomes(k, "turn")
    /\ UNCHANGED <<hubVars, toWorker, toHub, aborting, ackDue, running, admitted, aborted, spent>>

AbortQueued(k) ==
    /\ handler[k] = "queued" /\ k \in aborted
    /\ Becomes(k, "cancelled")
    /\ UNCHANGED <<hubVars, toWorker, toHub, aborting, ackDue, running, admitted, aborted, spent>>

(* acquire_turn: with its slot, silent and heeding no abort, the run waits *)
(* for the turn before it of its conversation, which may be any turn of    *)
(* this worker's sessions.                                                 *)
AcquireTurn(k) ==
    /\ handler[k] = "turn"
    /\ Becomes(k, "running")
    /\ UNCHANGED <<hubVars, toWorker, toHub, aborting, ackDue, running, admitted, aborted, spent>>

(* The heartbeat of a queued or running task, and any other status frame.  *)
(* At most one of a run is under way (a bound: they all do the same).      *)
Heartbeat(k) ==
    /\ handler[k] \in {"queued", "running", "held"}
    /\ \A i \in 1..Len(toHub) : toHub[i] # [kind |-> "status", cid |-> k]
    /\ Reply(k, "status")
    /\ UNCHANGED <<hubVars, toWorker, workerVars, spent>>

(* An operator takes the session a task runs in, and hands it back. *)
Hold(k) ==
    /\ handler[k] = "running" /\ spent.holds < MaxHolds
    /\ Becomes(k, "held")
    /\ spent' = [spent EXCEPT !.holds = @ + 1]
    /\ Reply(k, "session held")
    /\ UNCHANGED <<hubVars, toWorker, aborting, ackDue, running, admitted, aborted>>

HandBack(k) ==
    /\ handler[k] = "held"
    /\ Becomes(k, "running")
    /\ Reply(k, "session resumed")
    /\ UNCHANGED <<hubVars, toWorker, aborting, ackDue, running, admitted, aborted, spent>>

(* run_task returns: the harness's reply, its error, or that it was not    *)
(* attempted because an operator has the checkout.  A held session that is *)
(* aborted, or ends, returns an error.                                     *)
Finish(k) ==
    /\ handler[k] \in {"running", "held"}
    /\ Becomes(k, "replied")
    /\ \E kind \in IF handler[k] = "held" THEN {"worker"} ELSE {"reply", "worker", "held"} :
          Reply(k, kind)
    /\ UNCHANGED <<hubVars, toWorker, aborting, ackDue, running, admitted, aborted, spent>>

DropPermit(k) ==
    /\ handler[k] = "replied"
    /\ Becomes(k, "closing")
    /\ UNCHANGED <<hubVars, toWorker, toHub, aborting, ackDue, running, admitted, aborted, spent>>

(* The admission guard drops: the count, and the task id a registered run  *)
(* was given, whoever holds it now.                                        *)
Release(k) ==
    /\ handler[k] \in {"rejected", "closing"}
    /\ Becomes(k, "gone")
    /\ running' = IF handler[k] = "rejected" THEN running
                  ELSE [running EXCEPT ![TaskIdOf(k)] = NoCid]
    /\ admitted' = admitted - 1
    /\ UNCHANGED <<hubVars, toWorker, toHub, aborting, ackDue, aborted, spent>>

(* The worker's process ends and a new one starts: its tasks are gone, and *)
(* so are the frames its link had not yet delivered.                       *)
Crash ==
    /\ spent.crashes < MaxCrashes
    /\ spent' = [spent EXCEPT !.crashes = @ + 1]
    /\ handler' = [k \in Cid |-> IF handler[k] = "none" THEN "none" ELSE "gone"]
    /\ aborting' = {} /\ ackDue' = {} /\ aborted' = {}
    /\ running' = [t \in Task |-> NoCid]
    /\ admitted' = 0
    /\ \E n \in 0..Len(toHub) : toHub' = SubSeq(toHub, 1, n)
    /\ UNCHANGED <<hubVars, toWorker>>

-----------------------------------------------------------------------------
HubStep(c) ==
    \/ HandOver(c) \/ SendReturns(c) \/ SendAborted(c)
    \/ Settle(c) \/ Aborted(c) \/ Activity(c) \/ WindowOver(c) \/ Resend(c)
    \/ Leave(c) \/ SendAbort(c)

WorkerStep(k) ==
    \/ Unserved(k) \/ Admit(k) \/ RegisterRunning(k) \/ Answer(k)
    \/ TakeSlot(k) \/ AbortQueued(k) \/ DropPermit(k) \/ Release(k)

Next ==
    \/ \E c \in Calls : Start(c) \/ HubStep(c) \/ SendFails(c) \/ SendAbortFails(c)
    \/ \E a \in AbortId : AbortTask(a)
    \/ AbortAll \/ Route \/ LinkDown \/ LinkUp \/ Drain \/ Crash
    \/ \E k \in Cid : \/ WorkerStep(k) \/ HandleAbort(k) \/ AckAbort(k) \/ AcquireTurn(k)
                     \/ Heartbeat(k) \/ Hold(k) \/ HandBack(k) \/ Finish(k)

Spec == Init /\ [][Next]_vars

(* Every task the runtimes have scheduled runs on, a window whose clock    *)
(* runs is over some day, an outage ends, and a harness heeds its abort.   *)
(* Nothing is assumed of how long a harness works, a conversation's turn   *)
(* lasts or an operator stays.                                             *)
(* A handler's fairness is strong: its send needs room on the link, which  *)
(* another handler may take again and again, but the senders queue for it. *)
Fairness ==
    /\ \A c \in Calls : WF_vars(HubStep(c))
    /\ WF_vars(Route) /\ WF_vars(LinkUp) /\ WF_vars(Drain)
    /\ \A k \in Cid : /\ SF_vars(WorkerStep(k)) /\ WF_vars(HandleAbort(k))
                      /\ SF_vars(k \in aborted /\ Finish(k))

FairSpec == Spec /\ Fairness

-----------------------------------------------------------------------------
(* A run past its registration is the one its task id leads to, so that an *)
(* abort with its correlation id reaches it, and no task id has two runs:  *)
(* register_running claims under one lock and the guard removes by key     *)
(* alone.                                                                  *)
Registered ==
    {k \in Cid : handler[k] \in {"registered", "queued", "cancelled", "turn", "running",
                                 "held", "replied", "closing"}}

RunsReachable == \A k \in Registered : running[TaskIdOf(k)] = k

(* The load-shed gate counts exactly the handlers that hold a guard, and   *)
(* an id in `running` is always some such handler's: neither a slot nor a  *)
(* task id stays taken after its handler is gone.                          *)
NothingStranded ==
    /\ admitted = Cardinality({k \in Cid : handler[k] \in {"admitted", "refused", "rejected"}} \cup Registered)
    /\ \A t \in Task : running[t] # NoCid => running[t] \in Registered
    /\ Cardinality(Executing) <= Concurrency

(* Only the present attempt of a call that has not returned has a waiter:  *)
(* a dispatch given up on never pins its correlation entry.                *)
NoWaiterLeaks ==
    \A k \in waiters : call[k[1]].pc \notin {"idle", "done"} /\ k = CidOf(k[1])

(* What a call returns is the answer of a run of its last attempt, never   *)
(* of an earlier one or of another call with the same task id.             *)
OutcomeIsItsOwn ==
    \A c \in Calls : call[c].outcome \in Terminal => call[c].from = CidOf(c)

(* A call that an abort found, and that is open still. *)
AbortOpen(c) == call[c].pc # "done" /\ (call[c].signal \/ call[c].outcome = "aborted")

(* An abort that found its call ends it, whatever the worker and the link  *)
(* do, and even while the worker keeps reporting progress.                 *)
AbortEnds == \A c \in Calls : []<>~AbortOpen(c)

(* A run told to stop stops, also one still waiting for a slot: neither    *)
(* the slot nor the task id is held for an answer nobody will read.  Only  *)
(* the wait for a conversation's turn heeds no abort: there the run keeps  *)
(* its slot and its id until the turn before it is over.                   *)
AbortedRunStops ==
    \A k \in Cid : []<>(k \in aborted => handler[k] \in {"turn", "gone"})

(* The worker has work of call c. *)
WorkerHas(c) ==
    \E k \in Cid : k[1] = c /\ handler[k] \in {"queued", "turn", "running", "held"}

(* A dispatch does not stay open for ever when no worker has its task (a   *)
(* worker that died before its terminal frame), unless the last it said    *)
(* was that an operator has the session.                                   *)
SilentReaped ==
    \A c \in Calls : []<>(call[c].pc \in {"idle", "done"} \/ WorkerHas(c) \/ call[c].held)
=============================================================================
