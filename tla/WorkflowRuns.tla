---------------------------- MODULE WorkflowRuns ----------------------------
(***************************************************************************)
(* The life of one workflow run whose record several processes share: the  *)
(* process that executes it (workflows/run, workflows/local), the ones     *)
(* that cancel it (workflows/ops/runs), the ones whose sweep settles what  *)
(* a dead process left (run/reconcile) and the ones that resume it at an   *)
(* approval gate.  Runs share nothing but their processes, so one is       *)
(* enough.                                                                 *)
(*                                                                         *)
(* The store reads and writes a record whole and has no compare-and-set:   *)
(* every read and every write is a step of its own that may fail, and what *)
(* was read is written back as it was.  Steps, evidence and summaries are  *)
(* left out.  The engine is external: it ends a leg in any way it may.     *)
(***************************************************************************)
EXTENDS Integers, FiniteSets

CONSTANTS
    Proc, NoProc,   \* the medulla processes of a host, and none of them
    MaxGates,       \* bound: approval gates of the workflow
    MaxCancels,     \* bound: cancels asked for
    MaxFrames,      \* bound: task frames that name the run, resent ones included
    Readable        \* whether a process can look another up in the process table

ASSUME RunsAssumption ==
    /\ NoProc \notin Proc /\ MaxGates \in Nat /\ MaxCancels \in Nat /\ MaxFrames \in Nat
    /\ Readable \in BOOLEAN

Settled == {"Succeeded", "Failed", "Cancelled", "Interrupted"}

Open == {"Running", "PendingApproval"}

Status == Settled \union Open \union {"none"}

Record == [status : Status, executor : Proc \union {NoProc}, cancel : BOOLEAN, gate : 0..MaxGates]

NoRecord == [status |-> "none", executor |-> NoProc, cancel |-> FALSE, gate |-> 0]

VARIABLES
    disk,       \* the run record in the store
    alive,      \* the processes that have not gone away
    leg,        \* the run as each process executes it: rec is the finalizer's record,
                \* copy the one about to be written, local whether LocalRun started it
    signalled,  \* the processes whose registered CancelSignal is set
    resuming,   \* the record a resume has read and not yet claimed the run for
    op,         \* a process's cancel_run or sweep, between two of its store calls
    gates,      \* how many gates the workflow has
    passed,     \* how many of them the engine's checkpoint is past
    cancels,    \* cancels asked for
    owners,     \* the processes that have ever claimed the run to execute it afresh
    frames,     \* task frames handled that name the run
    faults      \* which failures of the store are in the record's past (Faults)

vars == <<disk, alive, leg, signalled, resuming, op, gates, passed, cancels, owners, frames, faults>>

(* unwritten: a leg ended and no write of how it ended succeeded.            *)
(* unread: a cancel whose second read failed went on with the first.         *)
Faults == {"unwritten", "unread"}

Leg == [pc : {"idle", "admitted", "merged", "running", "snapshot", "settled", "writing", "failing"},
        rec : Record, copy : Record, local : BOOLEAN]

Op == [kind : {"none", "cancel", "sweep"}, step : {"none", "judge", "reread", "write"},
       rec : Record, live : BOOLEAN]

IdleLeg == [pc |-> "idle", rec |-> NoRecord, copy |-> NoRecord, local |-> FALSE]

NoOp == [kind |-> "none", step |-> "none", rec |-> NoRecord, live |-> FALSE]

TypeOK ==
    /\ disk \in Record /\ (disk # NoRecord => disk.executor \in Proc)
    /\ alive \subseteq Proc
    /\ leg \in [Proc -> Leg]
    /\ signalled \subseteq Proc
    /\ resuming \in [Proc -> Record]
    /\ op \in [Proc -> Op]
    /\ gates \in 0..MaxGates /\ passed \in 0..gates /\ cancels \in 0..MaxCancels
    /\ owners \subseteq Proc /\ frames \in 0..MaxFrames /\ faults \subseteq Faults

Init ==
    /\ disk = NoRecord /\ alive = Proc /\ leg = [p \in Proc |-> IdleLeg] /\ signalled = {}
    /\ resuming = [p \in Proc |-> NoRecord] /\ op = [p \in Proc |-> NoOp]
    /\ gates \in 0..MaxGates /\ passed = 0 /\ cancels = 0
    /\ owners = {} /\ frames = 0 /\ faults = {}

(* new_run_record, stamped with the process that executes the run. *)
NewRecord(p) == [status |-> "Running", executor |-> p, cancel |-> FALSE, gate |-> 0]

(* is_running: the process-local registry holds the run from its claim until *)
(* its guard is dropped, which is before LocalRun's task settles the record  *)
(* of a run that failed to.                                                  *)
Registered(p) == leg[p].pc \notin {"idle", "failing"}

(* Mutant of IsAlive: what is not known to be dead, so everything, is alive. *)
IsAliveAlways(q, p) == TRUE

(* is_alive(p), as q sees it: a process that q cannot look up reads as dead, *)
(* and q itself is never looked up.  Every executor is one of this host.     *)
IsAlive(q, p) == p \in alive /\ (p = q \/ Readable)

(* The run leaves the process: RunGuard::drop takes the signal with it. *)
Leave(p, to) == leg' = [leg EXCEPT ![p] = to] /\ signalled' = signalled \ {p}

(* After a failure that LocalRun's task is yet to write down. *)
FailingLeg == [pc |-> "failing", rec |-> NoRecord, copy |-> NoRecord, local |-> TRUE]

-----------------------------------------------------------------------------
(* A fresh run. *)

Claim(p, local) ==
    /\ leg' = [leg EXCEPT ![p] =
            [pc |-> "admitted", rec |-> NewRecord(p), copy |-> NoRecord, local |-> local]]
    /\ owners' = owners \union {p}

(* LocalRun::start: a new id is claimed and an admission record written      *)
(* before the task that runs it is first polled.                             *)
Start(p) ==
    /\ p \in alive /\ owners = {}
    /\ disk' = NewRecord(p)
    /\ Claim(p, TRUE)
    /\ UNCHANGED <<alive, signalled, resuming, op, gates, passed, cancels, frames, faults>>

(* A task frame runs its workflow inline, under the task's id: only a run    *)
(* that this process is at is in the way, whatever the store says of the id. *)
(* A frame names no run of LocalRun's, and one worker serves a link address: *)
(* another handles a frame once the one before it is gone.                   *)
StartInline(p) ==
    /\ p \in alive /\ ~Registered(p)
    /\ frames < MaxFrames /\ (frames = 0 => owners = {}) /\ owners \intersect alive \subseteq {p}
    /\ Claim(p, FALSE)
    /\ frames' = frames + 1
    /\ UNCHANGED <<disk, alive, signalled, resuming, op, gates, passed, cancels, faults>>

(* run_workflow refuses: the workflow changed, is disabled or does not       *)
(* compile, which an inline run finds out before it claims; or its first     *)
(* record cannot be written.  The claim goes.                                *)
Refuse(p) ==
    /\ leg[p].pc = "merged" \/ (leg[p].pc = "admitted" /\ leg[p].local)
    /\ Leave(p, IF leg[p].local THEN FailingLeg ELSE IdleLeg)
    /\ UNCHANGED <<disk, alive, resuming, op, gates, passed, cancels, owners, frames, faults>>

(* preserve_cancel_request: a request another process wrote is carried onto  *)
(* the record about to be written, unless it cannot be read.                 *)
WithRequest(rec) == {rec, [rec EXCEPT !.cancel = @ \/ disk.cancel]}

Merge(p) ==
    /\ \/ /\ leg[p].pc = "admitted"
          /\ \E rec \in WithRequest(leg[p].rec) :
                leg' = [leg EXCEPT ![p].pc = "merged", ![p].rec = rec]
       \/ /\ leg[p].pc = "settled"
          /\ \E rec \in WithRequest(leg[p].copy) :
                leg' = [leg EXCEPT ![p].pc = "writing", ![p].copy = rec]
    /\ UNCHANGED <<disk, alive, signalled, resuming, op, gates, passed, cancels, owners, frames, faults>>

Begin(p) ==
    /\ leg[p].pc = "merged"
    /\ disk' = leg[p].rec
    /\ leg' = [leg EXCEPT ![p].pc = "running"]
    /\ UNCHANGED <<alive, signalled, resuming, op, gates, passed, cancels, owners, frames, faults>>

(* LocalRun's step snapshot: the record is read and, if it is running still, *)
(* written back with the steps so far.  It happens in the engine's poll,     *)
(* which the biased select does not reach once the signal is set.            *)
SnapshotRead(p) ==
    /\ leg[p].pc = "running" /\ leg[p].local /\ p \notin signalled /\ disk.status = "Running"
    /\ leg' = [leg EXCEPT ![p].pc = "snapshot", ![p].copy = disk]
    /\ UNCHANGED <<disk, alive, signalled, resuming, op, gates, passed, cancels, owners, frames, faults>>

SnapshotWrite(p) ==
    /\ leg[p].pc = "snapshot"
    /\ disk' \in {leg[p].copy, disk}
    /\ leg' = [leg EXCEPT ![p].pc = "running", ![p].copy = NoRecord]
    /\ UNCHANGED <<alive, signalled, resuming, op, gates, passed, cancels, owners, frames, faults>>

-----------------------------------------------------------------------------
(* How a leg ends. *)

(* The select of run_workflow and resume_workflow: biased, so a signal that  *)
(* is set wins over the engine.                                              *)
Settle(p, rec) ==
    /\ leg[p].pc = "running"
    /\ leg' = [leg EXCEPT ![p].pc = "settled", ![p].copy = rec]
    /\ UNCHANGED <<disk, alive, signalled, resuming, op, gates, passed, cancels, owners, frames, faults>>

(* Mutant of SettleCancelled: the record is settled before the run has stopped. *)
SettleCancelledEarly(p) ==
    /\ p \in signalled \/ disk.cancel
    /\ leg[p].pc = "running"
    /\ disk' = [leg[p].rec EXCEPT !.status = "Cancelled", !.cancel = TRUE]
    /\ leg' = [leg EXCEPT ![p].pc = "settled", ![p].copy = disk']
    /\ UNCHANGED <<alive, signalled, resuming, op, gates, passed, cancels, owners, frames, faults>>

(* The process's own cancel, or watch_cancel_request reading one from disk.  *)
SettleCancelled(p) ==
    /\ p \in signalled \/ disk.cancel
    /\ Settle(p, [leg[p].rec EXCEPT !.status = "Cancelled", !.cancel = TRUE])

(* The engine finished, failed, ran out of time, or stopped at its next gate. *)
SettleEngine(p) ==
    /\ p \notin signalled
    /\ \E status \in {"Succeeded", "Failed", "Cancelled", "PendingApproval"} :
        /\ status = "Succeeded" => passed = gates
        /\ status = "PendingApproval" => passed < gates
        /\ Settle(p, [leg[p].rec EXCEPT !.status = status,
                                        !.gate = IF status = "PendingApproval" THEN passed + 1 ELSE 0])

(* The terminal write; the RunFinalizer is disarmed only after it. *)
Finish(p) ==
    /\ leg[p].pc = "writing"
    /\ disk' = leg[p].copy
    /\ Leave(p, IdleLeg)
    /\ UNCHANGED <<alive, resuming, op, gates, passed, cancels, owners, frames, faults>>

(* RunFinalizer::drop: the record it holds is written as Interrupted, or     *)
(* that write fails too and is only logged.                                  *)
Finalizes(p, written) ==
    disk' = IF written THEN [leg[p].rec EXCEPT !.status = "Interrupted"] ELSE disk

(* The terminal write fails, and the finalizer is still armed.  The run then *)
(* returns an error to LocalRun's task or to the frame's handler.            *)
FinishFails(p) ==
    /\ leg[p].pc = "writing"
    /\ \E written \in BOOLEAN :
        /\ Finalizes(p, written)
        /\ faults' = faults \union (IF written \/ leg[p].local THEN {} ELSE {"unwritten"})
    /\ Leave(p, IF leg[p].local THEN FailingLeg ELSE IdleLeg)
    /\ UNCHANGED <<alive, resuming, op, gates, passed, cancels, owners, frames>>

(* LocalRun's task writes the record it admitted as Failed. *)
WriteFailed(p) ==
    /\ leg[p].pc = "failing"
    /\ \/ disk' = [NewRecord(p) EXCEPT !.status = "Failed"] /\ UNCHANGED faults
       \/ UNCHANGED disk /\ faults' = faults \union {"unwritten"}
    /\ Leave(p, IdleLeg)
    /\ UNCHANGED <<alive, resuming, op, gates, passed, cancels, owners, frames>>

(* Mutant of Drop: no finalizer is armed. *)
DropNoFinalizer(p) ==
    /\ leg[p].pc \in {"running", "settled", "writing"}
    /\ Leave(p, IdleLeg)
    /\ UNCHANGED <<disk, alive, resuming, op, gates, passed, cancels, owners, frames, faults>>

(* The run's future is dropped by a panic or an orderly shutdown, and with   *)
(* it the task that would have written Failed.                               *)
Drop(p) ==
    /\ leg[p].pc \in {"running", "settled", "writing"}
    /\ \E written \in BOOLEAN :
        /\ Finalizes(p, written)
        /\ faults' = faults \union (IF written THEN {} ELSE {"unwritten"})
    /\ Leave(p, IdleLeg)
    /\ UNCHANGED <<alive, resuming, op, gates, passed, cancels, owners, frames>>

(* Dropped before there is a finalizer: what LocalRun admitted stays Running. *)
DropUnarmed(p) ==
    /\ leg[p].pc \in {"admitted", "merged"}
    /\ faults' = faults \union (IF leg[p].local THEN {"unwritten"} ELSE {})
    /\ Leave(p, IdleLeg)
    /\ UNCHANGED <<disk, alive, resuming, op, gates, passed, cancels, owners, frames>>

(* SIGKILL, power loss, or a command that is done and exits: no destructor   *)
(* runs.  One process is always left to look at the record.                  *)
Kill(p) ==
    /\ p \in alive /\ alive # {p}
    /\ alive' = alive \ {p}
    /\ Leave(p, IdleLeg)
    /\ resuming' = [resuming EXCEPT ![p] = NoRecord] /\ op' = [op EXCEPT ![p] = NoOp]
    /\ UNCHANGED <<disk, gates, passed, cancels, owners, frames, faults>>

-----------------------------------------------------------------------------
(* resume_workflow: the record is read and checked, then the run claimed,    *)
(* then what was read is written back as Running.                            *)

ResumeRead(p) ==
    /\ p \in alive /\ resuming[p] = NoRecord /\ disk.status = "PendingApproval"
    /\ resuming' = [resuming EXCEPT ![p] = disk]
    /\ UNCHANGED <<disk, alive, leg, signalled, op, gates, passed, cancels, owners, frames, faults>>

(* The workflow does not compile, the run is claimed here already, or the    *)
(* record cannot be written.                                                 *)
ResumeRefused(p) ==
    /\ resuming[p] # NoRecord
    /\ resuming' = [resuming EXCEPT ![p] = NoRecord]
    /\ UNCHANGED <<disk, alive, leg, signalled, op, gates, passed, cancels, owners, frames, faults>>

(* The engine takes the call as consent to the gates its checkpoint is at. *)
Resume(p) ==
    /\ resuming[p] # NoRecord /\ leg[p].pc = "idle"
    /\ disk' = [resuming[p] EXCEPT !.status = "Running", !.executor = p]
    /\ leg' = [leg EXCEPT ![p] = [pc |-> "running", rec |-> disk', copy |-> NoRecord, local |-> FALSE]]
    /\ resuming' = [resuming EXCEPT ![p] = NoRecord]
    /\ passed' = IF passed < gates THEN passed + 1 ELSE passed
    /\ UNCHANGED <<alive, signalled, op, gates, cancels, owners, frames, faults>>

-----------------------------------------------------------------------------
(* cancel_run and reconcile_orphans.  Each reads the record, judges its      *)
(* executor, reads it again, and writes.                                     *)

(* workflows::run::cancel: the run executes here. *)
CancelHere(p) ==
    /\ p \in alive /\ cancels < MaxCancels /\ Registered(p)
    /\ signalled' = signalled \union {p} /\ cancels' = cancels + 1
    /\ UNCHANGED <<disk, alive, leg, resuming, op, gates, passed, owners, frames, faults>>

Look(p, kind) ==
    /\ p \in alive /\ op[p] = NoOp /\ disk.status \in Open
    /\ op' = [op EXCEPT ![p] = [kind |-> kind, step |-> "judge", rec |-> disk, live |-> FALSE]]
    /\ UNCHANGED <<disk, alive, leg, signalled, resuming, gates, passed, owners, frames, faults>>

CancelRead(p) == ~Registered(p) /\ cancels < MaxCancels /\ cancels' = cancels + 1 /\ Look(p, "cancel")

SweepRead(p) == UNCHANGED cancels /\ Look(p, "sweep")

(* A step of a cancel or a sweep that writes nothing. *)
Ops(p, next) ==
    /\ op' = [op EXCEPT ![p] = next]
    /\ UNCHANGED <<disk, alive, leg, signalled, resuming, gates, passed, cancels, owners, frames>>

CancelJudge(p) ==
    /\ op[p].kind = "cancel" /\ op[p].step = "judge"
    /\ Ops(p, [op[p] EXCEPT !.step = "reread", !.live = IsAlive(p, op[p].rec.executor)])
    /\ UNCHANGED faults

(* is_orphaned, of the snapshot. *)
IsOrphaned(p, rec) ==
    rec.status = "Running" /\ ~Registered(p) /\ ~IsAlive(p, rec.executor)

SweepJudge(p) ==
    /\ op[p].kind = "sweep" /\ op[p].step = "judge"
    /\ Ops(p, IF IsOrphaned(p, op[p].rec) THEN [op[p] EXCEPT !.step = "reread"] ELSE NoOp)
    /\ UNCHANGED faults

(* What the second read stops: a run that settled meanwhile and, in a sweep, *)
(* one that another process picked up.                                       *)
StillOpen(p) ==
    /\ disk.status \in Open
    /\ op[p].kind = "sweep" => disk.executor = op[p].rec.executor

(* Mutant of Reread: the snapshot is trusted. *)
RereadSkipped(p) ==
    /\ op[p].step = "reread"
    /\ Ops(p, [op[p] EXCEPT !.step = "write"])
    /\ UNCHANGED faults

Reread(p) ==
    /\ op[p].step = "reread"
    /\ Ops(p, IF StillOpen(p) THEN [op[p] EXCEPT !.step = "write", !.rec = disk] ELSE NoOp)
    /\ UNCHANGED faults

(* A sweep lets the record be, a cancel goes on with what it read first. *)
RereadFails(p) ==
    /\ op[p].step = "reread"
    /\ IF op[p].kind = "sweep"
       THEN Ops(p, NoOp) /\ UNCHANGED faults
       ELSE Ops(p, [op[p] EXCEPT !.step = "write"]) /\ faults' = faults \union {"unread"}

(* The request for a live executor, or the cancel of a run nobody executes. *)
CancelWrite(p) ==
    /\ op[p].kind = "cancel" /\ op[p].step = "write"
    /\ disk' = IF op[p].live THEN [op[p].rec EXCEPT !.cancel = TRUE]
                             ELSE [op[p].rec EXCEPT !.status = "Cancelled"]
    /\ op' = [op EXCEPT ![p] = NoOp]
    /\ UNCHANGED <<alive, leg, signalled, resuming, gates, passed, cancels, owners, frames, faults>>

SweepWrite(p) ==
    /\ op[p].kind = "sweep" /\ op[p].step = "write"
    /\ disk' = [op[p].rec EXCEPT !.status = IF op[p].rec.cancel THEN "Cancelled" ELSE "Interrupted"]
    /\ op' = [op EXCEPT ![p] = NoOp]
    /\ UNCHANGED <<alive, leg, signalled, resuming, gates, passed, cancels, owners, frames, faults>>

(* The write of either fails: reported, or logged, and not tried again. *)
WriteFails(p) == op[p].step = "write" /\ Ops(p, NoOp) /\ UNCHANGED faults

-----------------------------------------------------------------------------
(* Every await of these ends: the engine's by run_timeout_secs, the store's  *)
(* by the call returning.                                                    *)
LegStep(p) ==
    \/ Merge(p) \/ Begin(p) \/ SnapshotWrite(p)
    \/ SettleCancelled(p) \/ SettleEngine(p) \/ Finish(p) \/ WriteFailed(p)

OpStep(p) ==
    \/ CancelJudge(p) \/ SweepJudge(p) \/ Reread(p) \/ RereadFails(p)
    \/ CancelWrite(p) \/ SweepWrite(p) \/ WriteFails(p)

Next ==
    \E p \in Proc :
        \/ Start(p) \/ StartInline(p) \/ Refuse(p) \/ SnapshotRead(p)
        \/ LegStep(p) \/ FinishFails(p) \/ Drop(p) \/ DropUnarmed(p) \/ Kill(p)
        \/ ResumeRead(p) \/ ResumeRefused(p) \/ Resume(p)
        \/ CancelHere(p) \/ CancelRead(p) \/ SweepRead(p) \/ OpStep(p)

Spec == Init /\ [][Next]_vars

(* A process that stays up keeps discovering its store, and so sweeps again; *)
(* an orphan is not swept if nobody looks, nor while the store fails.        *)
Fairness ==
    \A p \in Proc :
        /\ WF_vars(LegStep(p)) /\ WF_vars(OpStep(p)) /\ WF_vars(SweepRead(p))
        /\ SF_vars(Reread(p)) /\ SF_vars(SweepWrite(p))

-----------------------------------------------------------------------------
Executing(p) == leg[p].pc \in {"running", "snapshot", "settled", "writing"}

(* A record that says a live process is running the run is telling the truth *)
(* (RunFinalizer: every exit path leaves it honest), or it would read as     *)
(* running for as long as that process lives, since no sweep touches it.     *)
(* Two things break it: the request of a cancel_run that lands just after    *)
(* the run settled and puts Running back, and a store that fails every last  *)
(* write of a run, which is only logged, or a drop before the finalizer is.  *)
RunningHasRunner ==
    disk.status = "Running" /\ disk.executor \in alive /\ ~disk.cancel /\ "unwritten" \notin faults
        => leg[disk.executor].pc # "idle"

(* While a live process executes a run that has no gate and that no other    *)
(* has executed, nobody else settles its record: "a live run reconciled out  *)
(* from under its executor is a lost run" (reconcile.rs).                    *)
LiveRunLeftAlone ==
    \A p \in alive : gates = 0 /\ owners = {p} /\ Executing(p) => disk.status = "Running"

(* It is so where processes can look each other up: a sweep or a cancel that *)
(* judged the executor dead was right.                                       *)
LiveRunSpared == Readable => LiveRunLeftAlone

(* The graph is started anew under an id that was run before. *)
BegunAgain == \E p \in Proc : leg[p].pc = "merged" /\ leg'[p].pc = "running"

(* The record has the outcome of a run without gates that one process has    *)
(* executed, and no cancel goes by what it read before that.                 *)
Outcome ==
    /\ gates = 0 /\ Readable /\ "unread" \notin faults /\ (\E p \in Proc : owners = {p})
    /\ disk.status \in {"Succeeded", "Failed"}

(* What the one executor of a run without gates recorded is never replaced   *)
(* by what a sweep or a cancel makes of an older copy, but for cancel_run's  *)
(* request landing late; a resent task frame may begin the run again.        *)
OutcomeKept ==
    [][Outcome => disk'.status = disk.status \/ disk'.cancel \/ BegunAgain]_vars

(* A run left running by a process that is gone does not stay so: those that *)
(* are left settle it.                                                       *)
Orphan == disk.status = "Running" /\ disk.executor \notin alive

OrphanSettles == Orphan ~> ~Orphan

-----------------------------------------------------------------------------
(* Why these hold. *)

Beginning(p) == leg[p].pc \in {"admitted", "merged"}

(* p alone has started the run, and nobody resumes it yet. *)
Alone(p) == owners = {p} /\ (gates = 0 \/ (leg[p].local /\ leg[p].pc # "idle"))

(* A run that only p has executed has only records of p's, on disk and in    *)
(* everyone's hands.                                                         *)
OnlyItsRecords ==
    \A p \in Proc : Alone(p) =>
        /\ disk = NoRecord \/ (disk.executor = p /\ disk.status # "PendingApproval")
        /\ leg[p].local /\ leg[p].pc # "idle" => disk.status \in {"Running", "Interrupted", "Cancelled"}
        /\ leg[p].copy.status # "PendingApproval" \/ gates # 0
        /\ \A q \in Proc :
            /\ resuming[q] = NoRecord /\ (q # p => leg[q] = IdleLeg)
            /\ op[q] # NoOp => op[q].rec.status = "Running" /\ op[q].rec.executor = p

(* While it lives, what is past its judgement is a cancel that found it so.  *)
LiveJudged ==
    \A p \in alive : Alone(p) /\ Readable =>
        \A q \in Proc : op[q].step \in {"reread", "write"} => op[q].kind = "cancel" /\ op[q].live

(* A leg's own records: the finalizer's says Running, and the one about to   *)
(* be written how the leg ended.                                             *)
LegRecords ==
    \A p \in Proc :
        /\ leg[p].pc = "idle" => leg[p] = IdleLeg
        /\ leg[p].pc # "idle" => p \in alive
        /\ Registered(p) => leg[p].rec.status = "Running" /\ leg[p].rec.executor = p
        /\ leg[p].local => owners = {p} /\ frames = 0
        /\ leg[p].pc \in {"snapshot", "failing"} => leg[p].local
        /\ leg[p].pc = "snapshot" => leg[p].copy.status = "Running" /\ leg[p].copy.executor = p
        /\ leg[p].pc \in {"settled", "writing"} =>
                leg[p].copy.status \in Settled \union {"PendingApproval"} /\ leg[p].copy.executor = p

(* Nobody reads a record before there is one; those that are read are open.  *)
Recorded ==
    /\ disk.status = "none" => disk = NoRecord
    /\ owners = {} => disk = NoRecord /\ frames = 0
    /\ \A q \in Proc :
        /\ disk = NoRecord => op[q] = NoOp /\ resuming[q] = NoRecord
        /\ disk = NoRecord /\ leg[q].pc # "idle" => Beginning(q) /\ ~leg[q].local /\ owners # {}
        /\ resuming[q] # NoRecord => q \in alive /\ resuming[q].status = "PendingApproval"
        /\ op[q] # NoOp => op[q].rec.status \in Open /\ op[q].rec.executor \in Proc
        /\ op[q].kind = "none" \/ op[q].step = "none" => op[q] = NoOp

(* When the one executor has recorded the outcome of a run without gates,    *)
(* the only write under way is of a request.                                 *)
OnlyRequests ==
    Outcome => \A q \in Proc : op[q].step = "write" => op[q].kind = "cancel" /\ op[q].live

(* A record of a live process that says Running: who is behind it. *)
RunningHeld ==
    disk.status = "Running" /\ disk.executor \in alive /\ ~disk.cancel /\ "unwritten" \notin faults
        => Executing(disk.executor) \/ (leg[disk.executor].local /\ leg[disk.executor].pc # "idle")

IInv ==
    /\ TypeOK /\ LegRecords /\ Recorded /\ OnlyItsRecords /\ LiveJudged /\ OnlyRequests
    /\ RunningHeld /\ LiveRunSpared
=============================================================================
