----------------------------- MODULE HarnessRuns -----------------------------
(***************************************************************************)
(* The capability of one harness session and the workflow runs it left     *)
(* executing: the grants (control_socket/grants), the table of reported    *)
(* runs (control_socket/runs), the end of the session (mcp/attach) and the *)
(* reporter of each run in the MCP subprocess (workflows/report).          *)
(* Both tables are keyed by the session, so sessions do not meet.          *)
(*                                                                         *)
(* Grants and runs are behind two locks; each lock section is a step.      *)
(* Progress lines, labels and colours are left out.                        *)
(***************************************************************************)
EXTENDS Integers, Sequences, FiniteSets, SequencesExt

CONSTANTS
    Run,            \* the runs the session may start
    MaxRuns,        \* MAX_RUNS_PER_SESSION (8)
    MaxPending      \* MAX_PENDING_PROGRESS (64)

ASSUME HarnessRunsAssumption ==
    IsFiniteSet(Run) /\ MaxRuns \in Nat \ {0} /\ MaxPending \in Nat \ {0}

Token == {"fleet", "child", "hook"}

(* What a run may say last; AwaitingApproval is not terminal for the table. *)
Final == {"Succeeded", "Failed", "AwaitingApproval"}

VARIABLES
    grants,     \* GrantRegistry: what each token of the session may do
    child,      \* a grant.child request, between its redeem and its mint
    straddled,  \* history: that mint came after the harness exited
    harness,    \* the PTY's child, and how far its revoke_session has come
    row,        \* the PTY's row, and how far forget_session_runs has come
    table,      \* Table::sessions of the session, oldest first
    retiring,   \* the session is in Table::retiring
    run,        \* the runs, in the MCP subprocess
    inbox,      \* RunReporter::reports
    rep         \* the forwarder and the request the server handles for it

vars == <<grants, child, straddled, harness, row, table, retiring, run, inbox, rep>>

Init ==
    /\ grants = [k \in Token |-> CASE k = "fleet" -> "full" [] k = "hook" -> "hook" [] k = "child" -> "none"]
    /\ child = "none" /\ straddled = FALSE /\ harness = "up" /\ row = "shown"
    /\ table = <<>> /\ retiring = FALSE
    /\ run = [r \in Run |-> "new"] /\ inbox = [r \in Run |-> <<>>]
    /\ rep = [r \in Run |-> [pc |-> "none", report |-> "none"]]

NoGrants == [k \in Token |-> "none"]

-----------------------------------------------------------------------------
(* A run and its reporter. *)

(* workflow_run: LocalRun starts its reporter, which announces the run. *)
StartRun(r) ==
    /\ harness = "up" /\ run[r] = "new"
    /\ run' = [run EXCEPT ![r] = "running"] /\ inbox' = [inbox EXCEPT ![r] = <<"Running">>]
    /\ rep' = [rep EXCEPT ![r].pc = "connecting"]
    /\ UNCHANGED <<grants, child, straddled, harness, row, table, retiring>>

(* The sink drops a frame once MaxPending wait; a harness may emit one after  *)
(* the run has settled.                                                       *)
Progress(r) ==
    /\ run[r] \notin {"new", "killed"} /\ rep[r].pc \notin {"done", "mute"}
    /\ Cardinality({i \in DOMAIN inbox[r] : inbox[r][i] = "Running"}) < MaxPending
    /\ inbox' = [inbox EXCEPT ![r] = Append(@, "Running")]
    /\ UNCHANGED <<grants, child, straddled, harness, row, table, retiring, run, rep>>

Settled(r, status) ==
    /\ run[r] = "running"
    /\ run' = [run EXCEPT ![r] = status] /\ inbox' = [inbox EXCEPT ![r] = Append(@, status)]
    /\ UNCHANGED <<grants, child, straddled, harness, row, table, retiring, rep>>

(* ControlClient::connect: hello redeems the fleet token. *)
Connect(r) ==
    /\ rep[r].pc = "connecting"
    /\ rep' = [rep EXCEPT ![r].pc = IF grants["fleet"] = "none" THEN "mute" ELSE "idle"]
    /\ UNCHANGED <<grants, child, straddled, harness, row, table, retiring, run, inbox>>

(* Mutant of Coalesce: the newest report overtakes every other. *)
CoalesceNewest(reports) == Last(reports)

(* The newest report overtakes the others, but nothing overtakes a final one. *)
Coalesce(reports) ==
    LET finals == {i \in DOMAIN reports : reports[i] \in Final}
    IN  IF finals # {} THEN reports[Max(finals)] ELSE Last(reports)

(* The forwarder drains its inbox and sends; the server redeems the token.    *)
(* A refused report silences the forwarder for good.                          *)
Redeem(r) ==
    /\ rep[r].pc = "idle" /\ inbox[r] # <<>>
    /\ inbox' = [inbox EXCEPT ![r] = <<>>]
    /\ rep' = [rep EXCEPT ![r] = [pc |-> IF grants["fleet"] = "none" THEN "mute" ELSE "redeemed",
                                  report |-> Coalesce(inbox[r])]]
    /\ UNCHANGED <<grants, child, straddled, harness, row, table, retiring, run>>

IsTerminal(status) == status \in {"Succeeded", "Failed"}

HasUnsettled(rows) == \E i \in DOMAIN rows : ~IsTerminal(rows[i].status)

(* Over the bound the oldest settled row goes, or the oldest if none is. *)
Evict(rows) ==
    IF Len(rows) <= MaxRuns THEN rows
    ELSE LET settled == {i \in DOMAIN rows : IsTerminal(rows[i].status)}
         IN  RemoveAt(rows, IF settled = {} THEN 1 ELSE Min(settled))

(* HarnessRunRegistry::report up to finish_retiring_if_settled. *)
Reported(r, status) ==
    IF \E i \in DOMAIN table : table[i].run = r
    THEN [i \in DOMAIN table |-> IF table[i].run = r THEN [run |-> r, status |-> status] ELSE table[i]]
    ELSE Evict(Append(table, [run |-> r, status |-> status]))

(* Mutant of Answered: the forwarder returns after its first report. *)
AnsweredOnce(r) == "done"

(* The forwarder returns after a final report. *)
Answered(r) == IF rep[r].report \in Final THEN "done" ELSE "idle"

Report(r) ==
    /\ rep[r].pc = "redeemed"
    /\ table' = Reported(r, rep[r].report)
    /\ retiring' = (retiring /\ HasUnsettled(table'))
    /\ rep' = [rep EXCEPT ![r].pc = IF retiring /\ ~retiring' THEN "revoking" ELSE Answered(r)]
    /\ UNCHANGED <<grants, child, straddled, harness, row, run, inbox>>

(* Mutant of GiveBack: the grant of the retired session is left. *)
GiveBackForgotten(r) ==
    /\ rep[r].pc = "revoking"
    /\ rep' = [rep EXCEPT ![r].pc = Answered(r)]
    /\ UNCHANGED <<grants, child, straddled, harness, row, table, retiring, run, inbox>>

(* run_report gives the grant back: the report settled the last run. *)
GiveBack(r) ==
    /\ rep[r].pc = "revoking"
    /\ grants' = NoGrants
    /\ rep' = [rep EXCEPT ![r].pc = Answered(r)]
    /\ UNCHANGED <<child, straddled, harness, row, table, retiring, run, inbox>>

(* The MCP subprocess dies: what its forwarders have not sent is lost. *)
SubprocessDies ==
    /\ rep' = [r \in Run |-> IF rep[r].pc \in {"connecting", "idle"} THEN [rep[r] EXCEPT !.pc = "mute"] ELSE rep[r]]
    /\ run' = [r \in Run |-> IF rep[r].pc = "done" THEN run[r] ELSE "killed"]
    /\ inbox' = [r \in Run |-> IF rep[r].pc = "done" THEN inbox[r] ELSE <<>>]
    /\ UNCHANGED <<grants, child, straddled, harness, row, table, retiring>>

-----------------------------------------------------------------------------
(* The end of the session. *)

(* SessionHandle::reap: the child is gone, so the row may be forgotten. *)
Exit ==
    /\ harness = "up"
    /\ harness' = "exited"
    /\ UNCHANGED <<grants, child, straddled, row, table, retiring, run, inbox, rep>>

(* revoke_session: retire says whether the reporting side is still needed ... *)
Retire ==
    /\ harness = "exited"
    /\ retiring' = HasUnsettled(table)
    /\ harness' = IF HasUnsettled(table) THEN "narrowing" ELSE "revoking"
    /\ UNCHANGED <<grants, child, straddled, row, table, run, inbox, rep>>

(* ... and the grants are narrowed, the hook-only one dropped, or revoked. *)
RestrictToReporting ==
    /\ harness = "narrowing"
    /\ grants' = [k \in Token |-> IF grants[k] \in {"none", "hook"} THEN "none" ELSE "report"]
    /\ harness' = "gone"
    /\ UNCHANGED <<child, straddled, row, table, retiring, run, inbox, rep>>

Revoke ==
    /\ harness = "revoking"
    /\ grants' = NoGrants
    /\ harness' = "gone"
    /\ UNCHANGED <<child, straddled, row, table, retiring, run, inbox, rep>>

(* forget_session_runs, when the operator drops the row. *)
ForgetGrants ==
    /\ row = "shown" /\ harness # "up"
    /\ grants' = NoGrants /\ row' = "forgetting"
    /\ UNCHANGED <<child, straddled, harness, table, retiring, run, inbox, rep>>

Forget ==
    /\ row = "forgetting"
    /\ table' = <<>> /\ retiring' = FALSE /\ row' = "dropped"
    /\ UNCHANGED <<grants, child, straddled, harness, run, inbox, rep>>

(* grant.child: a redeem of a full grant, and a mint of one like it. *)
GrantChild ==
    /\ child = "none" /\ grants["fleet"] = "full"
    /\ child' = "redeemed"
    /\ UNCHANGED <<grants, straddled, harness, row, table, retiring, run, inbox, rep>>

Mint ==
    /\ child = "redeemed"
    /\ grants' = [grants EXCEPT !["child"] = "full"] /\ child' = "minted"
    /\ straddled' = (harness # "up")
    /\ UNCHANGED <<harness, row, table, retiring, run, inbox, rep>>

-----------------------------------------------------------------------------
Forward(r) == Connect(r) \/ Redeem(r) \/ Report(r) \/ GiveBack(r)

Ending == Retire \/ RestrictToReporting \/ Revoke

Next ==
    \/ \E r \in Run :
        \/ StartRun(r) \/ Progress(r) \/ Forward(r)
        \/ \E status \in Final : Settled(r, status)
    \/ Exit \/ Ending \/ ForgetGrants \/ Forget \/ GrantChild \/ Mint \/ SubprocessDies

Spec == Init /\ [][Next]_vars

(* The forwarders and the reader thread run; a run ends (run_timeout_secs),  *)
(* although nothing says how, nor that its process lives to report it.       *)
FairSpec ==
    /\ Spec /\ WF_vars(Ending) /\ WF_vars(Forget)
    /\ \A r \in Run : WF_vars(Forward(r)) /\ WF_vars(\E status \in Final : Settled(r, status))

-----------------------------------------------------------------------------
Row == [run : Run, status : Final \union {"Running"}]

TypeOK ==
    /\ grants \in [Token -> {"none", "full", "report", "hook"}]
    /\ child \in {"none", "redeemed", "minted"} /\ straddled \in BOOLEAN
    /\ harness \in {"up", "exited", "narrowing", "revoking", "gone"}
    /\ row \in {"shown", "forgetting", "dropped"}
    /\ table \in Seq(Row) /\ Len(table) <= MaxRuns /\ retiring \in BOOLEAN
    /\ run \in [Run -> {"new", "running", "killed"} \union Final]
    /\ inbox \in [Run -> Seq(Final \union {"Running"})]
    /\ rep \in [Run -> [pc : {"none", "connecting", "idle", "redeemed", "revoking", "done", "mute"},
                        report : Final \union {"Running", "none"}]]

(* The session is over, and no request of it is between two lock sections. *)
AtRest == harness = "gone" /\ row # "forgetting" /\ \A r \in Run : rep[r].pc \notin {"redeemed", "revoking"}

(* Once a session is over a token of it works only while a run it left      *)
(* behind is unsettled in the table, and then it does work: whatever order  *)
(* the exit, the reports and the operator come in, the grant is given back  *)
(* with the last run and not before.  A grant.child that had redeemed its   *)
(* grant before the exit is outside this.                                   *)
GrantIffRetiring ==
    AtRest /\ ~straddled =>
        /\ (\E k \in Token : grants[k] # "none") => retiring
        /\ retiring /\ row = "shown" => grants["fleet"] = "report" /\ HasUnsettled(table)

(* What the forwarder leaves on a row that is still there is how its run    *)
(* ended, although progress overtakes progress, comes late, and competes    *)
(* for the table with other runs.                                           *)
OutcomeShown ==
    \A r \in Run : \A i \in DOMAIN table :
        run[r] \in Final /\ rep[r].pc \in {"idle", "done"} /\ inbox[r] = <<>> /\ table[i].run = r
            => table[i].status = run[r]

(* A session that is over loses its last token, unless a run it left is      *)
(* parked at a gate, whose forwarder has returned, or died with its process. *)
GrantReturned ==
    (harness # "up") ~>
        \/ grants = NoGrants \/ straddled
        \/ \E r \in Run : run[r] \in {"AwaitingApproval", "killed"}

-----------------------------------------------------------------------------
(* Why these hold. *)

(* The session is retiring from its revoke_session until a report, the one   *)
(* that then gives the grant back, or the operator ends it.                  *)
RetiresOnce ==
    /\ harness \in {"up", "exited", "revoking"} => ~retiring
    /\ row = "shown" \/ harness # "up"
    /\ (\E r \in Run : rep[r].pc = "revoking") => ~retiring /\ harness \in {"narrowing", "gone"}

(* The fleet token works until its grants are narrowed. *)
FleetReports ==
    row = "shown" =>
        /\ harness \in {"up", "exited"} => grants["fleet"] = "full"
        /\ retiring => /\ HasUnsettled(table)
                       /\ grants["fleet"] = IF harness = "gone" THEN "report" ELSE "full"

(* Nothing works once the row is being dropped or the session has retired,   *)
(* but for what a report is about to give back.                              *)
NoneLeft ==
    ~straddled =>
        /\ row # "shown" => grants = NoGrants
        /\ harness \in {"narrowing", "gone"} /\ ~retiring
            => grants = NoGrants \/ \E r \in Run : rep[r].pc = "revoking"

FinalsIn(reports) == {i \in DOMAIN reports : reports[i] \in Final}

(* A run that ended has said so once: its report waits in the inbox, is on   *)
(* its way, or was the forwarder's last.                                     *)
SaidOnce ==
    \A r \in Run : run[r] # "killed" =>
        /\ \A i, j \in FinalsIn(inbox[r]) : i = j /\ inbox[r][i] = run[r]
        /\ rep[r].report \in Final => rep[r].report = run[r]
        /\ run[r] = "new" => inbox[r] = <<>> /\ rep[r].pc = "none"
        /\ run[r] \in Final /\ rep[r].pc # "mute"
            => FinalsIn(inbox[r]) # {} \/ (rep[r].report = run[r] /\ rep[r].pc \in {"redeemed", "revoking", "done"})
        /\ rep[r].pc = "done" => rep[r].report \in Final

(* After its report a run's row says what was reported last. *)
RowIsLast ==
    \A r \in Run : \A i \in DOMAIN table :
        rep[r].pc \in {"revoking", "done"} /\ table[i].run = r => table[i].status = rep[r].report

(* Who has reported, and what: a forwarder has drained a report before it    *)
(* sends one.                                                                *)
Drained ==
    \A r \in Run :
        /\ rep[r].pc \in {"redeemed", "revoking", "done"} => rep[r].report # "none"
        /\ rep[r].pc \in {"none", "connecting"} => rep[r].report = "none"
        /\ rep[r].pc = "idle" => rep[r].report \notin Final
        /\ run[r] = "killed" => inbox[r] = <<>>

IInv == TypeOK /\ RetiresOnce /\ FleetReports /\ NoneLeft /\ SaidOnce /\ RowIsLast /\ Drained
=============================================================================
