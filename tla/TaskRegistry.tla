---------------------------- MODULE TaskRegistry ----------------------------
(***************************************************************************)
(* The tasks the control socket has accepted (control_socket/server,       *)
(* registry and handle/tasks): a dispatch gives back a handle as soon as   *)
(* it is recorded, and the work between "accepted" and "read" is owned by  *)
(* a table that is bounded in every direction.                             *)
(*                                                                         *)
(* Each section under the table's lock, each poll of the spawned task and  *)
(* each channel operation is a step.  The dispatch itself is the hub's:    *)
(* see TaskDispatch.  Status lines and the text of replies are left out.   *)
(*                                                                         *)
(* Init, Next, Spec and the like are called RegistryInit and so on:        *)
(* ControlSocketProofs extends this module together with HarnessRuns.      *)
(***************************************************************************)
EXTENDS Integers, FiniteSets

CONSTANTS
    Task,               \* the handles build_request mints
    Grant,              \* the tokens that dispatch
    MaxInFlight,        \* max_in_flight of each grant
    MaxInFlightGlobal,  \* MAX_IN_FLIGHT_GLOBAL (256)
    MaxEntries          \* MAX_ENTRIES (512)

ASSUME TaskRegistryAssumption ==
    /\ IsFiniteSet(Task) /\ MaxInFlight \in [Grant -> Nat \ {0}]
    /\ MaxInFlightGlobal \in Nat \ {0} /\ MaxEntries \in Nat /\ MaxEntries >= MaxInFlightGlobal

VARIABLES
    entry,      \* the table: each task's state, "none" if it has no entry
    owner,      \* TaskEntry::token
    finished,   \* TaskEntry::finished_at, in any unit; 0 if it has none
    call,       \* the task.dispatch call that accepted the task
    work,       \* the spawned task that drives the dispatch
    poll        \* a task.get that waits: it holds a receiver of the task's signal

registryVars == <<entry, owner, finished, call, work, poll>>

RegistryInit ==
    /\ entry = [t \in Task |-> "none"] /\ owner \in [Task -> Grant] /\ finished = [t \in Task |-> 0]
    /\ call = [t \in Task |-> "none"] /\ work = [t \in Task |-> "none"] /\ poll = [t \in Task |-> "none"]

Kept == {t \in Task : entry[t] # "none"}

Running(tasks) == {t \in tasks : entry[t] = "Running"}

-----------------------------------------------------------------------------
(* Mutant of Unwatched: a receiver does not keep its entry. *)
UnwatchedAny(aged) == {t \in Task : finished[t] # 0} \ aged

(* The finished entries that may go: one that somebody waits for stays. *)
Unwatched(aged) == {t \in Task : finished[t] # 0 /\ poll[t] # "parked"} \ aged

(* Mutant of Evictions: the table is cut to its bound, whatever is in it. *)
EvictionsAny(aged) ==
    LET kept == Kept \ aged
    IN  {aged \union more : more \in {m \in SUBSET kept :
            Cardinality(m) = IF Cardinality(kept) < MaxEntries THEN 0 ELSE 1}}

(* evict: what has outlived RESULT_TTL, and of what is left enough of the   *)
(* oldest to make room for one.  Entries may have finished in the same      *)
(* millisecond, and are then in no order.                                   *)
Evictions(aged) ==
    LET over == Cardinality(Kept \ aged) - MaxEntries + 1
        free == Unwatched(aged)
    IN  {aged \union more : more \in {m \in SUBSET free :
            /\ Cardinality(m) = IF over <= 0 THEN 0 ELSE IF over < Cardinality(free) THEN over ELSE Cardinality(free)
            /\ \A t \in m, u \in free \ m : finished[t] <= finished[u]}}

(* The ceilings of spawn_below_limit, on the table after its eviction, which *)
(* no running task left.                                                     *)
MayStart(t) ==
    /\ Cardinality(Running(Task)) < MaxInFlightGlobal
    /\ Cardinality(Running({u \in Task : owner[u] = owner[t]})) < MaxInFlight[owner[t]]

Recorded(t, gone) ==
    /\ entry' = [u \in Task |-> CASE u \in gone -> "none"
                                  [] u = t /\ MayStart(t) -> "Running"
                                  [] OTHER -> entry[u]]
    /\ finished' = [u \in Task |-> IF u \in gone THEN 0 ELSE finished[u]]

(* spawn_below_limit up to the await of its start.  An entry can have aged   *)
(* out unless somebody waits for it: MAX_WAIT is 2 minutes, RESULT_TTL 30.   *)
Spawn(t) ==
    /\ call[t] = "none"
    /\ \E expired \in 0..Cardinality(Task) :
        LET aged == {u \in Task : finished[u] \in 1..expired}
        IN  /\ \A u \in aged : poll[u] # "parked"
            /\ \E gone \in Evictions(aged) : Recorded(t, gone)
            /\ call' = [call EXCEPT ![t] = IF MayStart(t) THEN "starting" ELSE "refused"]
            /\ work' = [work EXCEPT ![t] = IF MayStart(t) THEN "spawned" ELSE "none"]
    /\ UNCHANGED <<owner, poll>>

(* The first poll of the dispatch: its abort is registered, or it has ended.  *)
(* The start is signalled after it.                                           *)
FirstPoll(t) ==
    /\ work[t] = "spawned"
    /\ \E next \in {"registered", "ended"} : work' = [work EXCEPT ![t] = next]
    /\ UNCHANGED <<entry, owner, finished, call, poll>>

(* The dispatch answers, or was aborted (task_abort finds it registered). *)
DispatchEnds(t) ==
    /\ work[t] = "registered"
    /\ work' = [work EXCEPT ![t] = "ended"]
    /\ UNCHANGED <<entry, owner, finished, call, poll>>

(* The runtime drops the spawned task, or it panics: nobody settles a task    *)
(* that had started.                                                          *)
Lost(t) ==
    /\ work[t] \in {"spawned", "registered"}
    /\ work' = [work EXCEPT ![t] = IF @ = "spawned" THEN "dropped" ELSE "lost"]
    /\ UNCHANGED <<entry, owner, finished, call, poll>>

(* now_millis: no earlier than any finished_at; how much later makes no       *)
(* difference.                                                                *)
Clock ==
    {now \in 1..Cardinality(Task) :
        (\A u \in Task : finished[u] <= now) /\ (\E u \in Task : now <= finished[u] + 1)}

(* settle: an entry that is there gets its state and a finished_at. *)
Written(t) ==
    IF entry[t] = "none" THEN UNCHANGED <<entry, finished>>
    ELSE /\ entry' = [entry EXCEPT ![t] = "Settled"]
         /\ \E now \in Clock : finished' = [finished EXCEPT ![t] = now]

Settle(t) ==
    /\ work[t] = "ended"
    /\ Written(t) /\ work' = [work EXCEPT ![t] = "settled"]
    /\ UNCHANGED <<owner, call, poll>>

(* Mutant of Signal: the receivers are left to their timeouts. *)
SignalNever(t) == FALSE

(* settled.send_replace(true): the receivers wake. *)
Signal(t) ==
    /\ work[t] = "settled"
    /\ work' = [work EXCEPT ![t] = "signalled"]
    /\ UNCHANGED <<entry, owner, finished, call, poll>>

(* started_rx: the handle is given back; a task that went away before it     *)
(* started is settled here.                                                  *)
Started(t) ==
    /\ call[t] = "starting" /\ work[t] # "spawned"
    /\ call' = [call EXCEPT ![t] = "answered"]
    /\ IF work[t] = "dropped" THEN Written(t) ELSE UNCHANGED <<entry, finished>>
    /\ UNCHANGED <<owner, work, poll>>

-----------------------------------------------------------------------------
(* wait: the entry is read and its signal subscribed to under one lock; a     *)
(* settled one is the answer.                                                 *)
Wait(t) ==
    /\ entry[t] = "Running" /\ poll[t] = "none"
    /\ poll' = [poll EXCEPT ![t] = "parked"]
    /\ UNCHANGED <<entry, owner, finished, call, work>>

(* The receiver is woken, and the entry read again while it is held. *)
Wake(t) ==
    /\ poll[t] = "parked" /\ work[t] = "signalled"
    /\ poll' = [poll EXCEPT ![t] = IF entry[t] = "Settled" THEN "none" ELSE "misled"]
    /\ UNCHANGED <<entry, owner, finished, call, work>>

(* MAX_WAIT: the answer is the entry as it is. *)
TimesOut(t) ==
    /\ poll[t] = "parked"
    /\ poll' = [poll EXCEPT ![t] = IF entry[t] = "none" THEN "misled" ELSE "none"]
    /\ UNCHANGED <<entry, owner, finished, call, work>>

-----------------------------------------------------------------------------
Work(t) == FirstPoll(t) \/ DispatchEnds(t) \/ Settle(t) \/ Signal(t) \/ Started(t)

RegistryNext ==
    \E t \in Task : Spawn(t) \/ Work(t) \/ Lost(t) \/ Wait(t) \/ Wake(t) \/ TimesOut(t)

RegistrySpec == RegistryInit /\ [][RegistryNext]_registryVars

(* The runtime polls what is ready; the hub's dispatch ends (TaskDispatch).   *)
(* A poller may be slow: only its own timeout is not relied on.               *)
RegistryFairSpec == RegistrySpec /\ \A t \in Task : WF_registryVars(Work(t)) /\ WF_registryVars(Wake(t))

-----------------------------------------------------------------------------
RegistryTypeOK ==
    /\ entry \in [Task -> {"none", "Running", "Settled"}]
    /\ owner \in [Task -> Grant]
    /\ call \in [Task -> {"none", "starting", "answered", "refused"}]
    /\ work \in [Task -> {"none", "spawned", "registered", "ended", "settled", "signalled", "dropped", "lost"}]
    /\ poll \in [Task -> {"none", "parked", "misled"}]
    /\ finished \in [Task -> 0..Cardinality(Task)]

(* Work that executes has its entry, so there is a handle to abort it by,     *)
(* however full the table is; and once the handle has been given back the     *)
(* abort it names is registered, or there is nothing left to abort.           *)
WorkReachable ==
    \A t \in Task :
        /\ work[t] \in {"spawned", "registered", "ended"} => entry[t] = "Running"
        /\ call[t] = "answered" => work[t] # "spawned"

(* A poll that waits is never told that its task does not exist, and one that *)
(* the signal woke never reads the task as running.                           *)
NotMisled == \A t \in Task : poll[t] # "misled"

(* What the table, the spawned tasks and the polls know of each other: the    *)
(* dates are those of the settled entries, a task not yet accepted has        *)
(* nothing, an end once written stays written until the entry goes, and what  *)
(* is waited for stays.                                                       *)
Consistent ==
    \A t \in Task :
        /\ finished[t] # 0 <=> entry[t] = "Settled"
        /\ call[t] = "none" => work[t] = "none" /\ entry[t] = "none"
        /\ work[t] \in {"settled", "signalled"} => entry[t] # "Running"
        /\ poll[t] = "parked" => entry[t] # "none"

(* However dispatches race, no grant and no process has more work in flight   *)
(* than it may: a task counts from before it is spawned until its end is      *)
(* written.                                                                   *)
InFlight == {t \in Task : work[t] \in {"spawned", "registered", "ended"}}

WithinLimits ==
    /\ Cardinality(InFlight) <= MaxInFlightGlobal
    /\ \A g \in Grant : Cardinality({t \in InFlight : owner[t] = g}) <= MaxInFlight[g]

(* Together they are inductive. *)
RegistryIInv == RegistryTypeOK /\ Consistent /\ WorkReachable /\ NotMisled /\ WithinLimits

(* A task that is waited for and ends wakes whoever waits, without the        *)
(* timeout of the poll; unless the spawned task went away, which signals      *)
(* nothing.                                                                   *)
WaiterWoken == \A t \in Task : (poll[t] = "parked") ~> (poll[t] = "none" \/ work[t] \in {"dropped", "lost"})
=============================================================================
