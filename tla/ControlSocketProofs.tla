------------------------- MODULE ControlSocketProofs -------------------------
(***************************************************************************)
(* What is proved of the control socket (control_socket/server).           *)
(*                                                                         *)
(* Its harness runs: the grant of a harness session is given back with the *)
(* last run it left, and what its table shows of a run is how the run      *)
(* ended, for any number of runs and any bounds of the table and the       *)
(* inboxes.  Its registry: the table of accepted tasks never loses work    *)
(* that executes or a poll that waits, and its ceilings hold, for any      *)
(* number of tasks and grants and any limits.                              *)
(***************************************************************************)
EXTENDS HarnessRuns, TaskRegistry, WellFoundedInduction, FiniteSetTheorems, TLAPS

-----------------------------------------------------------------------------
(* The harness runs. *)

(* What a report may say. *)
Says == Final \union {"Running"}

(* A set of naturals has a least element, < being well-founded. *)
LEMMA Least ==
    ASSUME NEW S \in SUBSET Nat, S # {}
    PROVE  \E k \in S : \A j \in S : k <= j
<1> DEFINE R == {ss \in Nat \X Nat : ss[1] < ss[2]}
<1>1. OpToRel(<, Nat) = R
  BY Zenon DEF OpToRel
<1>2. IsWellFoundedOn(R, Nat)
  BY <1>1, NatLessThanWellFounded, Zenon
<1> HIDE DEF R
<1>3. PICK k \in S : \A j \in S : <<j, k>> \notin R
  BY <1>2, WFMin
<1>4. ASSUME NEW j \in S
      PROVE  k <= j
  <2>1. j < k => <<j, k>> \in R
    BY Zenon DEF R
  <2>2. ~(j < k)
    BY <1>3, <2>1
  <2> QED
    BY <2>2
<1> QED
  BY <1>4

(* A sequence without one of its elements holds no other than it did. *)
LEMMA Removed ==
    ASSUME NEW S, NEW s \in Seq(S), NEW k \in 1..Len(s)
    PROVE  /\ RemoveAt(s, k) \in Seq(S) /\ Len(RemoveAt(s, k)) = Len(s) - 1
           /\ \A i \in DOMAIN RemoveAt(s, k) : \E j \in DOMAIN s : RemoveAt(s, k)[i] = s[j]
<1> DEFINE a == SubSeq(s, 1, k - 1)
           b == SubSeq(s, k + 1, Len(s))
           c == a \o b
<1>1. a \in Seq(S) /\ Len(a) = k - 1 /\ \A i \in 1..(k - 1) : a[i] = s[i]
  OBVIOUS
<1>2. b \in Seq(S) /\ Len(b) = Len(s) - k /\ \A i \in 1..(Len(s) - k) : b[i] = s[k + i]
  OBVIOUS
<1>3. RemoveAt(s, k) = c
  BY DEF RemoveAt
<1> HIDE DEF a, b
<1>4. c \in Seq(S)
  BY <1>1, <1>2
<1>5. Len(c) = Len(s) - 1
  BY <1>1, <1>2
<1>6. ASSUME NEW i \in 1..(Len(s) - 1)
      PROVE  \E j \in 1..Len(s) : c[i] = s[j]
  <2>1. CASE i <= k - 1
    <3>1. c[i] = a[i]
      BY <1>1, <1>2, <2>1
    <3> QED
      BY <1>1, <2>1, <3>1
  <2>2. CASE i > k - 1
    <3>1. c[i] = b[i - (k - 1)]
      BY <1>1, <1>2, <2>2
    <3>2. i - (k - 1) \in 1..(Len(s) - k) /\ k + (i - (k - 1)) = i + 1 /\ i + 1 \in 1..Len(s)
      BY <2>2
    <3>3. c[i] = s[i + 1]
      BY <1>2, <3>1, <3>2
    <3> QED
      BY <3>2, <3>3
  <2>3. i <= k - 1 \/ i > k - 1
    OBVIOUS
  <2> QED
    BY <2>1, <2>2, <2>3
<1> HIDE DEF c
<1>7. DOMAIN c = 1..(Len(s) - 1) /\ DOMAIN s = 1..Len(s)
  BY <1>4, <1>5
<1> QED
  BY <1>3, <1>4, <1>5, <1>6, <1>7

(* The row evicted makes room and is the only one to go. *)
LEMMA Evicted ==
    ASSUME NEW rows \in Seq(Row), Len(rows) <= MaxRuns + 1
    PROVE  /\ Evict(rows) \in Seq(Row) /\ Len(Evict(rows)) <= MaxRuns
           /\ \A i \in DOMAIN Evict(rows) : \E j \in DOMAIN rows : Evict(rows)[i] = rows[j]
<1>1. CASE Len(rows) <= MaxRuns
  BY <1>1 DEF Evict
<1>2. CASE Len(rows) > MaxRuns
  <2> DEFINE settled == {i \in DOMAIN rows : IsTerminal(rows[i].status)}
             k == IF settled = {} THEN 1 ELSE Min(settled)
  <2>1. settled \in SUBSET (1..Len(rows)) /\ Len(rows) \in Nat
    OBVIOUS
  <2>2. k \in 1..Len(rows)
    <3>1. CASE settled = {}
      BY <1>2, <2>1, <3>1, HarnessRunsAssumption
    <3>2. CASE settled # {}
      <4> HIDE DEF settled
      <4>1. settled \in SUBSET Nat
        BY <2>1
      <4>2. \E i \in settled : \A j \in settled : i <= j
        BY <3>2, <4>1, Least
      <4>3. Min(settled) \in settled
        BY <4>2 DEF Min
      <4> QED
        BY <2>1, <3>2, <4>3
    <3> QED
      BY <3>1, <3>2
  <2>3. Evict(rows) = RemoveAt(rows, k)
    BY <1>2, HarnessRunsAssumption DEF Evict
  <2> HIDE DEF k
  <2>4. /\ Evict(rows) \in Seq(Row) /\ Len(Evict(rows)) = Len(rows) - 1
        /\ \A i \in DOMAIN Evict(rows) : \E j \in DOMAIN rows : Evict(rows)[i] = rows[j]
    BY <2>2, <2>3, Removed
  <2> QED
    BY <2>4, HarnessRunsAssumption
<1> QED
  BY <1>1, <1>2, HarnessRunsAssumption

(* A report writes the row of its run, and no other. *)
LEMMA RowsReported ==
    ASSUME TypeOK, NEW r \in Run, NEW status \in Says
    PROVE  /\ Reported(r, status) \in Seq(Row) /\ Len(Reported(r, status)) <= MaxRuns
           /\ \A i \in DOMAIN Reported(r, status) :
                \/ Reported(r, status)[i] = [run |-> r, status |-> status]
                \/ \E j \in DOMAIN table : table[j] = Reported(r, status)[i] /\ table[j].run # r
<1> DEFINE new == [run |-> r, status |-> status]
<1>1. new \in Row
  BY DEF Row, Says
<1>2. CASE \E i \in DOMAIN table : table[i].run = r
  <2>1. Reported(r, status) = [i \in DOMAIN table |-> IF table[i].run = r THEN new ELSE table[i]]
    BY <1>2 DEF Reported
  <2>2. table \in Seq(Row) /\ Len(table) <= MaxRuns
    BY DEF TypeOK
  <2>3. Reported(r, status) \in Seq(Row) /\ Len(Reported(r, status)) = Len(table)
    BY <1>1, <2>1, <2>2
  <2>4. ASSUME NEW i \in DOMAIN table
        PROVE  IF table[i].run = r THEN Reported(r, status)[i] = new ELSE Reported(r, status)[i] = table[i]
    BY <2>1
  <2>5. DOMAIN Reported(r, status) = DOMAIN table
    BY <2>1
  <2> QED
    BY <2>2, <2>3, <2>4, <2>5
<1>3. CASE ~\E i \in DOMAIN table : table[i].run = r
  <2>1. Reported(r, status) = Evict(Append(table, new))
    BY <1>3 DEF Reported
  <2>2. Append(table, new) \in Seq(Row) /\ Len(Append(table, new)) <= MaxRuns + 1
    BY <1>1, HarnessRunsAssumption DEF TypeOK
  <2>3. \A j \in DOMAIN Append(table, new) :
          \/ Append(table, new)[j] = new
          \/ j \in DOMAIN table /\ Append(table, new)[j] = table[j]
    BY <1>1 DEF TypeOK
  <2> DEFINE rows == Append(table, new)
  <2> HIDE DEF rows
  <2>4. /\ Evict(rows) \in Seq(Row) /\ Len(Evict(rows)) <= MaxRuns
        /\ \A i \in DOMAIN Evict(rows) : \E j \in DOMAIN rows : Evict(rows)[i] = rows[j]
    BY <2>2, Evicted DEF rows
  <2>5. \A j \in DOMAIN rows : rows[j] = new \/ (j \in DOMAIN table /\ rows[j] = table[j])
    BY <2>3 DEF rows
  <2>6. Reported(r, status) = Evict(rows)
    BY <2>1 DEF rows
  <2> QED
    BY <1>3, <2>4, <2>5, <2>6
<1> QED
  BY <1>2, <1>3

(* What is sent of an inbox: its final report, or that the run goes on. *)
LEMMA Coalesced ==
    ASSUME NEW reports \in Seq(Says), reports # <<>>, \A i, j \in FinalsIn(reports) : i = j
    PROVE  /\ Coalesce(reports) \in Says
           /\ FinalsIn(reports) = {} => Coalesce(reports) \notin Final
           /\ \A i \in FinalsIn(reports) : Coalesce(reports) = reports[i]
<1>1. Len(reports) \in DOMAIN reports
  OBVIOUS
<1>2. CASE FinalsIn(reports) = {}
  <2>1. Coalesce(reports) = reports[Len(reports)]
    BY <1>2 DEF Coalesce, FinalsIn, Last
  <2> QED
    BY <1>1, <1>2, <2>1 DEF FinalsIn
<1>3. ASSUME NEW i \in FinalsIn(reports)
      PROVE  Coalesce(reports) = reports[i]
  <2>1. FinalsIn(reports) \in SUBSET (1..Len(reports)) /\ FinalsIn(reports) = {i}
    BY <1>3 DEF FinalsIn
  <2>2. Max(FinalsIn(reports)) = i
    BY <2>1 DEF Max
  <2> QED
    BY <1>3, <2>2 DEF Coalesce, FinalsIn
<1> QED
  BY <1>2, <1>3 DEF FinalsIn

-----------------------------------------------------------------------------
(* A run starts with an empty inbox and a forwarder that has drained nothing. *)
LEMMA StartRunStep ==
    ASSUME IInv, NEW r \in Run, StartRun(r)
    PROVE  IInv'
<1>1. TypeOK'
  <2>1. <<"Running">> \in Seq(Final \union {"Running"})
    OBVIOUS
  <2> QED
    BY <2>1 DEF IInv, TypeOK, StartRun
<1>2. RetiresOnce'
  BY HarnessRunsAssumption DEF IInv, RetiresOnce, StartRun, TypeOK
<1>3. FleetReports'
  BY HarnessRunsAssumption DEF IInv, FleetReports, StartRun, TypeOK,
     RetiresOnce, HasUnsettled, Token
<1>4. NoneLeft'
  BY HarnessRunsAssumption DEF IInv, NoneLeft, StartRun, TypeOK, RetiresOnce,
     Token
<1>5. SaidOnce'
  BY HarnessRunsAssumption DEF IInv, SaidOnce, StartRun, TypeOK, Drained,
     FinalsIn, Final
<1>6. RowIsLast'
  BY HarnessRunsAssumption DEF IInv, RowIsLast, StartRun, TypeOK
<1>7. Drained'
  BY HarnessRunsAssumption DEF IInv, Drained, StartRun, TypeOK, Final, SaidOnce,
     FinalsIn
<1> QED
  BY <1>1, <1>2, <1>3, <1>4, <1>5, <1>6, <1>7 DEF IInv

(* Progress is not final, so it moves no final report.                       *)
LEMMA ProgressStep ==
    ASSUME IInv, NEW r \in Run, Progress(r)
    PROVE  IInv'
<1>a. \A q \in Run : FinalsIn(inbox'[q]) = FinalsIn(inbox[q]) /\ \A i \in FinalsIn(inbox[q]) : inbox'[q][i] = inbox[q][i]
  <2>1. FinalsIn(Append(inbox[r], "Running")) = FinalsIn(inbox[r])
    BY DEF IInv, TypeOK, FinalsIn, Final
  <2>2. \A i \in FinalsIn(inbox[r]) : Append(inbox[r], "Running")[i] = inbox[r][i]
    BY DEF IInv, TypeOK, FinalsIn
  <2> QED
    BY <2>1, <2>2 DEF Progress, IInv, TypeOK
<1>1. TypeOK'
  BY HarnessRunsAssumption DEF IInv, TypeOK, Progress, Final, Token
<1>2. RetiresOnce'
  BY HarnessRunsAssumption DEF IInv, RetiresOnce, Progress, TypeOK
<1>3. FleetReports'
  BY HarnessRunsAssumption DEF IInv, FleetReports, Progress, TypeOK,
     RetiresOnce, HasUnsettled, Token
<1>4. NoneLeft'
  BY HarnessRunsAssumption DEF IInv, NoneLeft, Progress, TypeOK, RetiresOnce,
     Token
<1>5. SaidOnce'
  <2>1. run[r] \notin {"new", "killed"} /\ \A q \in Run : q # r => inbox'[q] = inbox[q]
    BY DEF Progress, IInv, TypeOK
  <2>2. UNCHANGED <<run, rep>>
    BY DEF Progress
  <2> SUFFICES ASSUME NEW q \in Run, run[q] # "killed"
               PROVE  /\ \A i, j \in FinalsIn(inbox'[q]) : i = j /\ inbox'[q][i] = run[q]
                      /\ run[q] = "new" => inbox'[q] = <<>>
                      /\ FinalsIn(inbox[q]) # {} => FinalsIn(inbox'[q]) # {}
    BY <2>2 DEF IInv, SaidOnce
  <2>3. \A i, j \in FinalsIn(inbox[q]) : i = j /\ inbox[q][i] = run[q]
    BY DEF IInv, SaidOnce
  <2>4. run[q] = "new" => inbox'[q] = <<>>
    BY <2>1 DEF IInv, SaidOnce
  <2> QED
    BY <1>a, <2>3, <2>4
<1>6. RowIsLast'
  BY HarnessRunsAssumption DEF IInv, RowIsLast, Progress, TypeOK
<1>7. Drained'
  BY HarnessRunsAssumption DEF IInv, Drained, Progress, TypeOK, Final
<1> QED
  BY <1>1, <1>2, <1>3, <1>4, <1>5, <1>6, <1>7 DEF IInv

(* A run ends once, and its inbox holds no other final report.               *)
LEMMA SettledStep ==
    ASSUME IInv, NEW r \in Run, NEW status \in Final, Settled(r, status)
    PROVE  IInv'
<1>a. run[r] = "running" /\ FinalsIn(inbox[r]) = {}
  BY DEF Settled, IInv, TypeOK, SaidOnce, FinalsIn, Final
<1>b. /\ inbox'[r] = Append(inbox[r], status) /\ \A q \in Run : q # r => inbox'[q] = inbox[q] /\ run'[q] = run[q]
      /\ run'[r] = status /\ rep' = rep
  BY DEF Settled, IInv, TypeOK
<1>c. FinalsIn(inbox'[r]) = {Len(inbox[r]) + 1} /\ inbox'[r][Len(inbox[r]) + 1] = status
  BY <1>a, <1>b DEF FinalsIn, IInv, TypeOK
<1>1. TypeOK'
  BY HarnessRunsAssumption DEF IInv, TypeOK, Settled, Final, Token
<1>2. RetiresOnce'
  BY HarnessRunsAssumption DEF IInv, RetiresOnce, Settled, TypeOK
<1>3. FleetReports'
  BY HarnessRunsAssumption DEF IInv, FleetReports, Settled, TypeOK, RetiresOnce,
     HasUnsettled, Token
<1>4. NoneLeft'
  BY HarnessRunsAssumption DEF IInv, NoneLeft, Settled, TypeOK, RetiresOnce,
     Token
<1>5. SaidOnce'
  <2>1. rep[r].report \notin Final
    BY <1>a DEF IInv, SaidOnce, Final
  <2>2. status \notin {"new", "killed"}
    BY DEF Final
  <2>3. rep[r].pc # "done"
    BY <1>a, <2>1 DEF IInv, SaidOnce
  <2>4. \A i, j \in FinalsIn(inbox'[r]) : i = j /\ inbox'[r][i] = run'[r]
    BY <1>b, <1>c
  <2> SUFFICES ASSUME NEW q \in Run, q # r, run'[q] # "killed"
               PROVE  /\ \A i, j \in FinalsIn(inbox'[q]) : i = j /\ inbox'[q][i] = run'[q]
                      /\ rep[q].report \in Final => rep[q].report = run'[q]
                      /\ run'[q] = "new" => inbox'[q] = <<>> /\ rep[q].pc = "none"
                      /\ run'[q] \in Final /\ rep[q].pc # "mute"
                            => \/ FinalsIn(inbox'[q]) # {}
                               \/ rep[q].report = run'[q] /\ rep[q].pc \in {"redeemed", "revoking", "done"}
                      /\ rep[q].pc = "done" => rep[q].report \in Final
    BY <1>b, <1>c, <2>1, <2>2, <2>3, <2>4 DEF SaidOnce
  <2>5. inbox'[q] = inbox[q] /\ run'[q] = run[q]
    BY <1>b
  <2> QED
    BY <2>5 DEF IInv, SaidOnce
<1>6. RowIsLast'
  BY HarnessRunsAssumption DEF IInv, RowIsLast, Settled, TypeOK
<1>7. Drained'
  BY HarnessRunsAssumption DEF IInv, Drained, Settled, TypeOK, Final
<1> QED
  BY <1>1, <1>2, <1>3, <1>4, <1>5, <1>6, <1>7 DEF IInv

LEMMA ConnectStep ==
    ASSUME IInv, NEW r \in Run, Connect(r)
    PROVE  IInv'
<1>1. TypeOK'
  BY HarnessRunsAssumption DEF IInv, TypeOK, Connect, Final, Token
<1>2. RetiresOnce'
  BY HarnessRunsAssumption DEF IInv, RetiresOnce, Connect, TypeOK
<1>3. FleetReports'
  BY HarnessRunsAssumption DEF IInv, FleetReports, Connect, TypeOK, RetiresOnce,
     HasUnsettled, Token
<1>4. NoneLeft'
  BY HarnessRunsAssumption DEF IInv, NoneLeft, Connect, TypeOK, RetiresOnce,
     Token
<1>5. SaidOnce'
  BY HarnessRunsAssumption DEF IInv, SaidOnce, Connect, TypeOK, Drained,
     FinalsIn, Final
<1>6. RowIsLast'
  BY HarnessRunsAssumption DEF IInv, RowIsLast, Connect, TypeOK
<1>7. Drained'
  BY HarnessRunsAssumption DEF IInv, Drained, Connect, TypeOK, Final
<1> QED
  BY <1>1, <1>2, <1>3, <1>4, <1>5, <1>6, <1>7 DEF IInv

(* What is drained is the final report if the inbox had one.                 *)
LEMMA RedeemStep ==
    ASSUME IInv, NEW r \in Run, Redeem(r)
    PROVE  IInv'
<1> DEFINE said == Coalesce(inbox[r])
<1>a. inbox[r] \in Seq(Says) /\ inbox[r] # <<>> /\ run[r] # "killed"
  BY DEF Redeem, IInv, TypeOK, Drained, Says
<1>b. \A i, j \in FinalsIn(inbox[r]) : i = j /\ inbox[r][i] = run[r]
  BY <1>a DEF IInv, SaidOnce
<1>c. /\ said \in Says /\ (FinalsIn(inbox[r]) = {} => said \notin Final)
      /\ FinalsIn(inbox[r]) # {} => said = run[r]
  BY <1>a, <1>b, Coalesced
<1>d. /\ rep' = [rep EXCEPT ![r] = [pc |-> IF grants["fleet"] = "none" THEN "mute" ELSE "redeemed", report |-> said]]
      /\ inbox' = [inbox EXCEPT ![r] = <<>>]
      /\ rep[r].pc = "idle" /\ UNCHANGED <<grants, child, straddled, harness, row, table, retiring, run>>
  BY DEF Redeem
<1> HIDE DEF said
<1>1. TypeOK'
  BY <1>c, <1>d DEF IInv, TypeOK, Says
<1>2. RetiresOnce'
  BY HarnessRunsAssumption DEF IInv, RetiresOnce, Redeem, TypeOK
<1>3. FleetReports'
  BY HarnessRunsAssumption DEF IInv, FleetReports, Redeem, TypeOK, RetiresOnce,
     HasUnsettled, Token
<1>4. NoneLeft'
  BY HarnessRunsAssumption DEF IInv, NoneLeft, Redeem, TypeOK, RetiresOnce,
     Token
<1>5. SaidOnce'
  <2>1. FinalsIn(<<>>) = {}
    BY DEF FinalsIn
  <2>2. run[r] # "new"
    BY <1>d DEF IInv, SaidOnce
  <2>3. run[r] \in Final => said = run[r]
    BY <1>a, <1>c, <1>d DEF IInv, SaidOnce
  <2>4. said \in Final => said = run[r]
    BY <1>c
  <2>5. /\ rep'[r].report = said /\ rep'[r].pc \in {"mute", "redeemed"} /\ inbox'[r] = <<>> /\ run' = run
        /\ \A q \in Run : q # r => rep'[q] = rep[q] /\ inbox'[q] = inbox[q]
    BY <1>d DEF IInv, TypeOK
  <2> QED
    BY <2>1, <2>2, <2>3, <2>4, <2>5 DEF IInv, SaidOnce
<1>6. RowIsLast'
  BY HarnessRunsAssumption DEF IInv, RowIsLast, Redeem, TypeOK
<1>7. Drained'
  <2>1. said # "none"
    BY <1>c DEF Says, Final
  <2> QED
    BY <1>d, <2>1 DEF IInv, TypeOK, Drained
<1> QED
  BY <1>1, <1>2, <1>3, <1>4, <1>5, <1>6, <1>7 DEF IInv

(* The report that settles the last run ends the retirement, and is the one  *)
(* that gives the grant back.                                                *)
LEMMA ReportStep ==
    ASSUME IInv, NEW r \in Run, Report(r)
    PROVE  IInv'
<1>a. rep[r].report \in Says /\ rep[r].pc = "redeemed"
  BY DEF Report, IInv, TypeOK, Drained, Says
<1>b. /\ table' \in Seq(Row) /\ Len(table') <= MaxRuns
      /\ \A i \in DOMAIN table' :
            \/ table'[i] = [run |-> r, status |-> rep[r].report]
            \/ \E j \in DOMAIN table : table[j] = table'[i] /\ table[j].run # r
  BY <1>a, RowsReported DEF Report, IInv
<1>1. TypeOK'
  <2>1. retiring' \in BOOLEAN
    BY DEF Report, HasUnsettled
  <2>2. rep' = [rep EXCEPT ![r].pc = IF retiring /\ ~retiring' THEN "revoking" ELSE Answered(r)]
    BY DEF Report
  <2>3. rep' \in [Run -> [pc : {"none", "connecting", "idle", "redeemed", "revoking", "done", "mute"},
                         report : Final \union {"Running", "none"}]]
    BY <2>2 DEF Answered, IInv, TypeOK
  <2> QED
    BY <1>b, <2>1, <2>3 DEF Report, IInv, TypeOK
<1>2. RetiresOnce'
  BY HarnessRunsAssumption DEF IInv, RetiresOnce, Report, Answered, TypeOK
<1>3. FleetReports'
  BY HarnessRunsAssumption DEF IInv, FleetReports, Report, Answered, TypeOK,
     RetiresOnce, HasUnsettled, Token
<1>4. NoneLeft'
  BY HarnessRunsAssumption DEF IInv, NoneLeft, Report, Answered, TypeOK,
     RetiresOnce, Token
<1>5. SaidOnce'
  BY HarnessRunsAssumption DEF IInv, SaidOnce, Report, Answered, TypeOK,
     Drained, FinalsIn, Final
<1>6. RowIsLast'
  <2> SUFFICES ASSUME NEW q \in Run, NEW i \in DOMAIN table', rep'[q].pc \in {"revoking", "done"}, table'[i].run = q
               PROVE  table'[i].status = rep'[q].report
    BY DEF RowIsLast
  <2>1. rep'[q].report = rep[q].report /\ (q # r => rep'[q] = rep[q])
    BY DEF Report, IInv, TypeOK
  <2>2. CASE q = r
    BY <1>b, <2>1, <2>2
  <2>3. CASE q # r
    BY <1>b, <2>1, <2>3 DEF IInv, RowIsLast
  <2> QED
    BY <2>2, <2>3
<1>7. Drained'
  BY HarnessRunsAssumption DEF IInv, Drained, Report, Answered, TypeOK, Final
<1> QED
  BY <1>1, <1>2, <1>3, <1>4, <1>5, <1>6, <1>7 DEF IInv

LEMMA GiveBackStep ==
    ASSUME IInv, NEW r \in Run, GiveBack(r)
    PROVE  IInv'
<1>1. TypeOK'
  BY HarnessRunsAssumption DEF IInv, TypeOK, GiveBack, Answered, NoGrants,
     Final, Token
<1>2. RetiresOnce'
  BY HarnessRunsAssumption DEF IInv, RetiresOnce, GiveBack, Answered, NoGrants,
     TypeOK
<1>3. FleetReports'
  BY HarnessRunsAssumption DEF IInv, FleetReports, GiveBack, Answered, NoGrants,
     TypeOK, RetiresOnce, HasUnsettled, Token
<1>4. NoneLeft'
  BY HarnessRunsAssumption DEF IInv, NoneLeft, GiveBack, Answered, NoGrants,
     TypeOK, RetiresOnce, Token
<1>5. SaidOnce'
  BY HarnessRunsAssumption DEF IInv, SaidOnce, GiveBack, Answered, NoGrants,
     TypeOK, Drained, FinalsIn, Final
<1>6. RowIsLast'
  BY HarnessRunsAssumption DEF IInv, RowIsLast, GiveBack, Answered, NoGrants,
     TypeOK
<1>7. Drained'
  BY HarnessRunsAssumption DEF IInv, Drained, GiveBack, Answered, NoGrants,
     TypeOK, Final
<1> QED
  BY <1>1, <1>2, <1>3, <1>4, <1>5, <1>6, <1>7 DEF IInv

(* A request the server handles outlives the subprocess that sent it.        *)
LEMMA SubprocessDiesStep ==
    ASSUME IInv, SubprocessDies
    PROVE  IInv'
<1>1. TypeOK'
  <2>1. <<>> \in Seq(Final \union {"Running"})
    OBVIOUS
  <2> QED
    BY <2>1 DEF SubprocessDies, IInv, TypeOK
<1>2. RetiresOnce'
  BY HarnessRunsAssumption DEF IInv, RetiresOnce, SubprocessDies, TypeOK
<1>3. FleetReports'
  BY HarnessRunsAssumption DEF IInv, FleetReports, SubprocessDies, TypeOK,
     RetiresOnce, HasUnsettled, Token
<1>4. NoneLeft'
  BY HarnessRunsAssumption DEF IInv, NoneLeft, SubprocessDies, TypeOK,
     RetiresOnce, Token
<1>5. SaidOnce'
  BY HarnessRunsAssumption DEF IInv, SaidOnce, SubprocessDies, TypeOK, Drained,
     FinalsIn, Final
<1>6. RowIsLast'
  BY HarnessRunsAssumption DEF IInv, RowIsLast, SubprocessDies, TypeOK
<1>7. Drained'
  BY HarnessRunsAssumption DEF IInv, Drained, SubprocessDies, TypeOK, Final
<1> QED
  BY <1>1, <1>2, <1>3, <1>4, <1>5, <1>6, <1>7 DEF IInv

LEMMA ExitStep ==
    ASSUME IInv, Exit
    PROVE  IInv'
<1>1. TypeOK'
  BY HarnessRunsAssumption DEF IInv, TypeOK, Exit, Final, Token
<1>2. RetiresOnce'
  BY HarnessRunsAssumption DEF IInv, RetiresOnce, Exit, TypeOK
<1>3. FleetReports'
  BY HarnessRunsAssumption DEF IInv, FleetReports, Exit, TypeOK, RetiresOnce,
     HasUnsettled, Token
<1>4. NoneLeft'
  BY HarnessRunsAssumption DEF IInv, NoneLeft, Exit, TypeOK, RetiresOnce, Token
<1>5. SaidOnce'
  BY HarnessRunsAssumption DEF IInv, SaidOnce, Exit, TypeOK, Drained, FinalsIn,
     Final
<1>6. RowIsLast'
  BY HarnessRunsAssumption DEF IInv, RowIsLast, Exit, TypeOK
<1>7. Drained'
  BY HarnessRunsAssumption DEF IInv, Drained, Exit, TypeOK, Final
<1> QED
  BY <1>1, <1>2, <1>3, <1>4, <1>5, <1>6, <1>7 DEF IInv

(* The one step that starts the retirement; before it nothing is given back. *)
LEMMA RetireStep ==
    ASSUME IInv, Retire
    PROVE  IInv'
<1>1. TypeOK'
  BY DEF Retire, HasUnsettled, IInv, TypeOK
<1>2. RetiresOnce'
  BY HarnessRunsAssumption DEF IInv, RetiresOnce, Retire, TypeOK
<1>3. FleetReports'
  BY HarnessRunsAssumption DEF IInv, FleetReports, Retire, TypeOK, RetiresOnce,
     HasUnsettled, Token
<1>4. NoneLeft'
  BY HarnessRunsAssumption DEF IInv, NoneLeft, Retire, TypeOK, RetiresOnce,
     Token
<1>5. SaidOnce'
  BY HarnessRunsAssumption DEF IInv, SaidOnce, Retire, TypeOK, Drained,
     FinalsIn, Final
<1>6. RowIsLast'
  BY HarnessRunsAssumption DEF IInv, RowIsLast, Retire, TypeOK
<1>7. Drained'
  BY HarnessRunsAssumption DEF IInv, Drained, Retire, TypeOK, Final
<1> QED
  BY <1>1, <1>2, <1>3, <1>4, <1>5, <1>6, <1>7 DEF IInv

(* What was given back meanwhile stays given back.                           *)
LEMMA RestrictToReportingStep ==
    ASSUME IInv, RestrictToReporting
    PROVE  IInv'
<1>1. TypeOK'
  BY HarnessRunsAssumption DEF IInv, TypeOK, RestrictToReporting, NoGrants,
     Final, Token
<1>2. RetiresOnce'
  BY HarnessRunsAssumption DEF IInv, RetiresOnce, RestrictToReporting, NoGrants,
     TypeOK
<1>3. FleetReports'
  BY HarnessRunsAssumption DEF IInv, FleetReports, RestrictToReporting,
     NoGrants, TypeOK, RetiresOnce, HasUnsettled, Token
<1>4. NoneLeft'
  BY HarnessRunsAssumption DEF IInv, NoneLeft, RestrictToReporting, NoGrants,
     TypeOK, RetiresOnce, Token
<1>5. SaidOnce'
  BY HarnessRunsAssumption DEF IInv, SaidOnce, RestrictToReporting, NoGrants,
     TypeOK, Drained, FinalsIn, Final
<1>6. RowIsLast'
  BY HarnessRunsAssumption DEF IInv, RowIsLast, RestrictToReporting, NoGrants,
     TypeOK
<1>7. Drained'
  BY HarnessRunsAssumption DEF IInv, Drained, RestrictToReporting, NoGrants,
     TypeOK, Final
<1> QED
  BY <1>1, <1>2, <1>3, <1>4, <1>5, <1>6, <1>7 DEF IInv

LEMMA RevokeStep ==
    ASSUME IInv, Revoke
    PROVE  IInv'
<1>1. TypeOK'
  BY HarnessRunsAssumption DEF IInv, TypeOK, Revoke, NoGrants, Final, Token
<1>2. RetiresOnce'
  BY HarnessRunsAssumption DEF IInv, RetiresOnce, Revoke, NoGrants, TypeOK
<1>3. FleetReports'
  BY HarnessRunsAssumption DEF IInv, FleetReports, Revoke, NoGrants, TypeOK,
     RetiresOnce, HasUnsettled, Token
<1>4. NoneLeft'
  BY HarnessRunsAssumption DEF IInv, NoneLeft, Revoke, NoGrants, TypeOK,
     RetiresOnce, Token
<1>5. SaidOnce'
  BY HarnessRunsAssumption DEF IInv, SaidOnce, Revoke, NoGrants, TypeOK,
     Drained, FinalsIn, Final
<1>6. RowIsLast'
  BY HarnessRunsAssumption DEF IInv, RowIsLast, Revoke, NoGrants, TypeOK
<1>7. Drained'
  BY HarnessRunsAssumption DEF IInv, Drained, Revoke, NoGrants, TypeOK, Final
<1> QED
  BY <1>1, <1>2, <1>3, <1>4, <1>5, <1>6, <1>7 DEF IInv

(* The row is dropped with its grants, so the rest need not hold of it.      *)
LEMMA ForgetGrantsStep ==
    ASSUME IInv, ForgetGrants
    PROVE  IInv'
<1>1. TypeOK'
  BY HarnessRunsAssumption DEF IInv, TypeOK, ForgetGrants, NoGrants, Final,
     Token
<1>2. RetiresOnce'
  BY HarnessRunsAssumption DEF IInv, RetiresOnce, ForgetGrants, NoGrants, TypeOK
<1>3. FleetReports'
  BY HarnessRunsAssumption DEF IInv, FleetReports, ForgetGrants, NoGrants,
     TypeOK, RetiresOnce, HasUnsettled, Token
<1>4. NoneLeft'
  BY HarnessRunsAssumption DEF IInv, NoneLeft, ForgetGrants, NoGrants, TypeOK,
     RetiresOnce, Token
<1>5. SaidOnce'
  BY HarnessRunsAssumption DEF IInv, SaidOnce, ForgetGrants, NoGrants, TypeOK,
     Drained, FinalsIn, Final
<1>6. RowIsLast'
  BY HarnessRunsAssumption DEF IInv, RowIsLast, ForgetGrants, NoGrants, TypeOK
<1>7. Drained'
  BY HarnessRunsAssumption DEF IInv, Drained, ForgetGrants, NoGrants, TypeOK,
     Final
<1> QED
  BY <1>1, <1>2, <1>3, <1>4, <1>5, <1>6, <1>7 DEF IInv

LEMMA ForgetStep ==
    ASSUME IInv, Forget
    PROVE  IInv'
<1>1. TypeOK'
  <2>1. <<>> \in Seq(Row) /\ Len(<<>>) = 0
    OBVIOUS
  <2>2. 0 <= MaxRuns
    BY HarnessRunsAssumption
  <2> QED
    BY <2>1, <2>2 DEF Forget, IInv, TypeOK
<1>2. RetiresOnce'
  BY HarnessRunsAssumption DEF IInv, RetiresOnce, Forget, TypeOK
<1>3. FleetReports'
  BY HarnessRunsAssumption DEF IInv, FleetReports, Forget, TypeOK, RetiresOnce,
     HasUnsettled, Token
<1>4. NoneLeft'
  BY HarnessRunsAssumption DEF IInv, NoneLeft, Forget, TypeOK, RetiresOnce,
     Token
<1>5. SaidOnce'
  BY HarnessRunsAssumption DEF IInv, SaidOnce, Forget, TypeOK, Drained,
     FinalsIn, Final
<1>6. RowIsLast'
  BY HarnessRunsAssumption DEF IInv, RowIsLast, Forget, TypeOK
<1>7. Drained'
  BY HarnessRunsAssumption DEF IInv, Drained, Forget, TypeOK, Final
<1> QED
  BY <1>1, <1>2, <1>3, <1>4, <1>5, <1>6, <1>7 DEF IInv

LEMMA GrantChildStep ==
    ASSUME IInv, GrantChild
    PROVE  IInv'
<1>1. TypeOK'
  BY HarnessRunsAssumption DEF IInv, TypeOK, GrantChild, Final, Token
<1>2. RetiresOnce'
  BY HarnessRunsAssumption DEF IInv, RetiresOnce, GrantChild, TypeOK
<1>3. FleetReports'
  BY HarnessRunsAssumption DEF IInv, FleetReports, GrantChild, TypeOK,
     RetiresOnce, HasUnsettled, Token
<1>4. NoneLeft'
  BY HarnessRunsAssumption DEF IInv, NoneLeft, GrantChild, TypeOK, RetiresOnce,
     Token
<1>5. SaidOnce'
  BY HarnessRunsAssumption DEF IInv, SaidOnce, GrantChild, TypeOK, Drained,
     FinalsIn, Final
<1>6. RowIsLast'
  BY HarnessRunsAssumption DEF IInv, RowIsLast, GrantChild, TypeOK
<1>7. Drained'
  BY HarnessRunsAssumption DEF IInv, Drained, GrantChild, TypeOK, Final
<1> QED
  BY <1>1, <1>2, <1>3, <1>4, <1>5, <1>6, <1>7 DEF IInv

(* A child minted while the harness is up is narrowed with the others.       *)
LEMMA MintStep ==
    ASSUME IInv, Mint
    PROVE  IInv'
<1>1. TypeOK'
  BY HarnessRunsAssumption DEF IInv, TypeOK, Mint, NoGrants, Final, Token
<1>2. RetiresOnce'
  BY HarnessRunsAssumption DEF IInv, RetiresOnce, Mint, NoGrants, TypeOK
<1>3. FleetReports'
  BY HarnessRunsAssumption DEF IInv, FleetReports, Mint, NoGrants, TypeOK,
     RetiresOnce, HasUnsettled, Token
<1>4. NoneLeft'
  BY HarnessRunsAssumption DEF IInv, NoneLeft, Mint, NoGrants, TypeOK,
     RetiresOnce, Token
<1>5. SaidOnce'
  BY HarnessRunsAssumption DEF IInv, SaidOnce, Mint, NoGrants, TypeOK, Drained,
     FinalsIn, Final
<1>6. RowIsLast'
  BY HarnessRunsAssumption DEF IInv, RowIsLast, Mint, NoGrants, TypeOK
<1>7. Drained'
  BY HarnessRunsAssumption DEF IInv, Drained, Mint, NoGrants, TypeOK, Final
<1> QED
  BY <1>1, <1>2, <1>3, <1>4, <1>5, <1>6, <1>7 DEF IInv

-----------------------------------------------------------------------------
LEMMA InitIInv == Init => IInv
<1> SUFFICES ASSUME Init PROVE IInv
  OBVIOUS
<1>1. TypeOK
  <2>1. <<>> \in Seq(Row) /\ Len(<<>>) = 0 /\ <<>> \in Seq(Final \union {"Running"})
    OBVIOUS
  <2>2. 0 <= MaxRuns
    BY HarnessRunsAssumption
  <2>3. grants \in [Token -> {"none", "full", "report", "hook"}]
    BY DEF Init, Token
  <2> QED
    BY <2>1, <2>2, <2>3 DEF Init, TypeOK
<1>2. RetiresOnce /\ NoneLeft /\ RowIsLast
  BY DEF Init, RetiresOnce, NoneLeft, RowIsLast
<1>3. FleetReports
  BY DEF Init, FleetReports, Token
<1>4. SaidOnce
  BY DEF Init, SaidOnce, FinalsIn, Final
<1>5. Drained
  BY DEF Init, Drained
<1> QED
  BY <1>1, <1>2, <1>3, <1>4, <1>5 DEF IInv

LEMMA StutterStep ==
    ASSUME IInv, UNCHANGED vars
    PROVE  IInv'
BY DEF vars, IInv, TypeOK, RetiresOnce, FleetReports, NoneLeft, SaidOnce, RowIsLast, Drained,
       HasUnsettled

LEMMA NextStep ==
    ASSUME IInv, [Next]_vars
    PROVE  IInv'
<1>1. CASE UNCHANGED vars
  BY <1>1, StutterStep
<1>2. CASE \E r \in Run :
            \/ StartRun(r) \/ Progress(r) \/ Forward(r)
            \/ \E status \in Final : Settled(r, status)
  BY <1>2, StartRunStep, ProgressStep, ConnectStep, RedeemStep, ReportStep, GiveBackStep, SettledStep
     DEF Forward
<1>3. CASE Exit \/ Ending
  BY <1>3, ExitStep, RetireStep, RestrictToReportingStep, RevokeStep DEF Ending
<1>4. CASE ForgetGrants \/ Forget \/ GrantChild \/ Mint \/ SubprocessDies
  BY <1>4, ForgetGrantsStep, ForgetStep, GrantChildStep, MintStep, SubprocessDiesStep
<1> QED
  BY <1>1, <1>2, <1>3, <1>4 DEF Next

(* The invariant behind the rest: the end of a session, the reports of its   *)
(* runs and the operator in any order, for any number of runs and any bounds.*)
THEOREM Inductive == Spec => []IInv
<1>1. Init => IInv
  BY InitIInv
<1>2. IInv /\ [Next]_vars => IInv'
  BY NextStep
<1> QED
  BY <1>1, <1>2, PTL DEF Spec

(* Every variable keeps to its type, and the table to its bound              *)
(* (MAX_RUNS_PER_SESSION).                                                   *)
THEOREM TypeCorrect == Spec => []TypeOK
<1>1. IInv => TypeOK
  BY DEF IInv
<1> QED
  BY <1>1, Inductive, PTL

(* A token of a session that is over works exactly as long as a run it left  *)
(* is unsettled (revoke_session, finish_retiring_if_settled, run_report).    *)
THEOREM GrantsFollowRuns == Spec => []GrantIffRetiring
<1>1. ASSUME IInv
      PROVE  GrantIffRetiring
  <2> SUFFICES ASSUME AtRest, ~straddled
               PROVE  /\ (\E k \in Token : grants[k] # "none") => retiring
                      /\ retiring /\ row = "shown" => grants["fleet"] = "report" /\ HasUnsettled(table)
    BY DEF GrantIffRetiring
  <2>1. retiring \/ grants = NoGrants
    BY <1>1 DEF IInv, NoneLeft, AtRest
  <2>2. (\E k \in Token : grants[k] # "none") => retiring
    BY <2>1 DEF NoGrants
  <2>3. retiring /\ row = "shown" => grants["fleet"] = "report" /\ HasUnsettled(table)
    BY <1>1 DEF IInv, FleetReports, AtRest
  <2> QED
    BY <2>2, <2>3
<1> QED
  BY <1>1, Inductive, PTL

(* The row of a run whose forwarder is done shows how the run ended, for all *)
(* the progress that RunReporter coalesces and the table evicts.             *)
THEOREM OutcomesAreShown == Spec => []OutcomeShown
<1>1. ASSUME IInv
      PROVE  OutcomeShown
  <2> SUFFICES ASSUME NEW r \in Run, NEW i \in DOMAIN table, run[r] \in Final,
                      rep[r].pc \in {"idle", "done"}, inbox[r] = <<>>, table[i].run = r
               PROVE  table[i].status = run[r]
    BY DEF OutcomeShown
  <2>1. FinalsIn(inbox[r]) = {} /\ run[r] # "killed"
    BY DEF FinalsIn, Final
  <2>2. rep[r].report = run[r] /\ rep[r].pc = "done"
    BY <1>1, <2>1 DEF IInv, SaidOnce
  <2> QED
    BY <1>1, <2>2 DEF IInv, RowIsLast
<1> QED
  BY <1>1, Inductive, PTL

-----------------------------------------------------------------------------
(* The registry of accepted tasks. *)

(* Task is finite, so that what is counted has a count. *)
LEMMA Counted ==
    ASSUME NEW S \in SUBSET Task
    PROVE  IsFiniteSet(S) /\ Cardinality(S) \in Nat
BY TaskRegistryAssumption, FS_Subset, FS_CardinalityType

(* What an eviction takes has ended, and nobody waits for it. *)
LEMMA EvictedUnwatched ==
    ASSUME NEW n \in Nat,
           NEW aged, aged = {u \in Task : finished[u] \in 1..n},
           \A u \in aged : poll[u] # "parked",
           NEW gone \in Evictions(aged)
    PROVE  \A u \in gone : u \in Task /\ finished[u] # 0 /\ poll[u] # "parked"
<1>1. \E more \in SUBSET Unwatched(aged) : gone = aged \union more
  BY Zenon DEF Evictions
<1>2. PICK more \in SUBSET Unwatched(aged) : gone = aged \union more
  BY <1>1
<1>3. \A u \in aged : u \in Task /\ finished[u] # 0
  OBVIOUS
<1> QED
  BY <1>2, <1>3 DEF Unwatched

(* A step that starts nothing has no more in flight. *)
LEMMA FewerInFlight ==
    ASSUME RegistryTypeOK, WithinLimits, owner' = owner, InFlight' \subseteq InFlight
    PROVE  WithinLimits'
<1>1. InFlight \in SUBSET Task
  BY DEF InFlight
<1>2. Cardinality(InFlight') <= Cardinality(InFlight)
  BY <1>1, Counted, FS_Subset
<1>3. Cardinality(InFlight) \in Nat /\ Cardinality(InFlight') \in Nat
  BY <1>1, Counted
<1>4. Cardinality(InFlight)' <= MaxInFlightGlobal
  BY <1>2, <1>3, TaskRegistryAssumption DEF WithinLimits
<1>5. ASSUME NEW g \in Grant
      PROVE  Cardinality({t \in InFlight : owner[t] = g})' <= MaxInFlight[g]
  <2>1. {t \in InFlight' : owner'[t] = g} \subseteq {t \in InFlight : owner[t] = g}
    OBVIOUS
  <2>2. {t \in InFlight : owner[t] = g} \in SUBSET Task
    BY <1>1
  <2>3. Cardinality({t \in InFlight' : owner'[t] = g}) <= Cardinality({t \in InFlight : owner[t] = g})
    BY <2>1, <2>2, Counted, FS_Subset
  <2>4. Cardinality({t \in InFlight' : owner'[t] = g}) \in Nat
    BY <2>1, <2>2, Counted
  <2>5. MaxInFlight[g] \in Nat /\ Cardinality({t \in InFlight : owner[t] = g}) <= MaxInFlight[g]
    BY TaskRegistryAssumption DEF WithinLimits
  <2> QED
    BY <2>2, <2>3, <2>4, <2>5, Counted
<1> QED
  BY <1>4, <1>5 DEF WithinLimits

(* One more in a set that is below a limit keeps to it. *)
LEMMA OneMore ==
    ASSUME NEW S \in SUBSET Task, NEW R \in SUBSET Task, S \subseteq R, NEW t \in Task,
           NEW max \in Nat, Cardinality(R) < max
    PROVE  Cardinality(S \union {t}) <= max
<1>1. Cardinality(S) <= Cardinality(R)
  BY Counted, FS_Subset
<1>2. Cardinality(S \union {t}) = IF t \in S THEN Cardinality(S) ELSE Cardinality(S) + 1
  BY Counted, FS_AddElement
<1> QED
  BY <1>1, <1>2, Counted

-----------------------------------------------------------------------------
LEMMA RegistryInitial == RegistryInit => RegistryIInv
<1> SUFFICES ASSUME RegistryInit PROVE RegistryIInv
  OBVIOUS
<1>1. 0 \in 0..Cardinality(Task)
  BY Counted
<1>2. RegistryTypeOK
  BY <1>1 DEF RegistryInit, RegistryTypeOK
<1>3. Consistent /\ WorkReachable /\ NotMisled
  BY DEF RegistryInit, Consistent, WorkReachable, NotMisled
<1>4. InFlight = {} /\ \A g \in Grant : {t \in InFlight : owner[t] = g} = {}
  BY DEF RegistryInit, InFlight
<1>5. WithinLimits
  BY <1>4, FS_EmptySet, TaskRegistryAssumption DEF WithinLimits
<1> QED
  BY <1>2, <1>3, <1>5 DEF RegistryIInv

(* An accepted dispatch: what makes room for it had ended and is not waited  *)
(* for, and it is counted before the next is looked at.                      *)
LEMMA SpawnStep ==
    ASSUME RegistryIInv, NEW t \in Task, Spawn(t)
    PROVE  RegistryIInv'
<1>1. PICK n \in 0..Cardinality(Task) :
        LET aged == {u \in Task : finished[u] \in 1..n}
        IN  /\ \A u \in aged : poll[u] # "parked"
            /\ \E gone \in Evictions(aged) : Recorded(t, gone)
            /\ call' = [call EXCEPT ![t] = IF MayStart(t) THEN "starting" ELSE "refused"]
            /\ work' = [work EXCEPT ![t] = IF MayStart(t) THEN "spawned" ELSE "none"]
  BY DEF Spawn
<1> DEFINE aged == {u \in Task : finished[u] \in 1..n}
<1>2. PICK gone \in Evictions(aged) : Recorded(t, gone)
  BY <1>1
<1>3. \A u \in gone : u \in Task /\ finished[u] # 0 /\ poll[u] # "parked"
  BY <1>1, EvictedUnwatched, Counted
<1>4. \A u \in gone : entry[u] = "Settled"
  BY <1>3 DEF RegistryIInv, Consistent
<1>5. call[t] = "none" /\ work[t] = "none" /\ entry[t] = "none" /\ t \notin gone
  BY <1>4 DEF Spawn, RegistryIInv, Consistent
<1>6. /\ entry' = [u \in Task |-> IF u \in gone THEN "none"
                                   ELSE IF u = t /\ MayStart(t) THEN "Running" ELSE entry[u]]
      /\ finished' = [u \in Task |-> IF u \in gone THEN 0 ELSE finished[u]]
  BY <1>2, <1>5 DEF Recorded
<1>7. UNCHANGED <<owner, poll>>
  BY DEF Spawn
<1> HIDE DEF aged
<1>8. 0 \in 0..Cardinality(Task)
  BY Counted
<1>9. RegistryTypeOK'
  BY <1>1, <1>6, <1>7, <1>8 DEF RegistryIInv, RegistryTypeOK
<1>10. Consistent'
  BY <1>1, <1>3, <1>4, <1>5, <1>6, <1>7 DEF RegistryIInv, RegistryTypeOK, Consistent, WorkReachable
<1>11. WorkReachable'
  BY <1>1, <1>4, <1>5, <1>6, <1>7 DEF RegistryIInv, RegistryTypeOK, WorkReachable
<1>12. NotMisled'
  BY <1>7 DEF RegistryIInv, NotMisled
<1>13. WithinLimits'
  <2>1. CASE MayStart(t)
    <3>1. InFlight' = InFlight \union {t}
      BY <1>1, <2>1 DEF InFlight, RegistryIInv, RegistryTypeOK
    <3>2. InFlight \subseteq Running(Task)
      BY DEF RegistryIInv, WorkReachable, InFlight, Running
    <3>3. Cardinality(InFlight') <= MaxInFlightGlobal
      BY <2>1, <3>1, <3>2, OneMore, TaskRegistryAssumption DEF MayStart, InFlight, Running
    <3>4. ASSUME NEW g \in Grant
          PROVE  Cardinality({u \in InFlight' : owner'[u] = g}) <= MaxInFlight[g]
      <4> DEFINE mine == {u \in InFlight : owner[u] = g}
      <4>1. MaxInFlight[g] \in Nat
        BY TaskRegistryAssumption
      <4>2. CASE owner[t] = g
        <5>1. {u \in InFlight' : owner'[u] = g} = mine \union {t}
          BY <1>7, <3>1, <4>2
        <5>2. mine \subseteq Running({u \in Task : owner[u] = g})
          BY <3>2 DEF Running
        <5>3. mine \in SUBSET Task /\ Running({u \in Task : owner[u] = g}) \in SUBSET Task
          BY DEF InFlight, Running
        <5>4. Cardinality(Running({u \in Task : owner[u] = g})) < MaxInFlight[g]
          BY <2>1, <4>2 DEF MayStart
        <5> QED
          BY <4>1, <5>1, <5>2, <5>3, <5>4, OneMore
      <4>3. CASE owner[t] # g
        <5>1. {u \in InFlight' : owner'[u] = g} = mine
          BY <1>7, <3>1, <4>3
        <5> QED
          BY <5>1 DEF RegistryIInv, WithinLimits
      <4> QED
        BY <4>2, <4>3
    <3> QED
      BY <3>3, <3>4 DEF WithinLimits
  <2>2. CASE ~MayStart(t)
    <3>1. InFlight' = InFlight
      BY <1>1, <1>5, <2>2 DEF InFlight, RegistryIInv, RegistryTypeOK
    <3> QED
      BY <1>7, <3>1, FewerInFlight DEF RegistryIInv
  <2> QED
    BY <2>1, <2>2
<1> QED
  BY <1>9, <1>10, <1>11, <1>12, <1>13 DEF RegistryIInv

(* An end that is written: the entry was there, and is settled. *)
LEMMA WrittenEntry ==
    ASSUME RegistryIInv, NEW t \in Task, Written(t), entry[t] = "Running"
    PROVE  /\ entry' = [entry EXCEPT ![t] = "Settled"]
           /\ \E now \in 1..Cardinality(Task) : finished' = [finished EXCEPT ![t] = now]
BY DEF Written, Clock

LEMMA SettleStep ==
    ASSUME RegistryIInv, NEW t \in Task, Settle(t)
    PROVE  RegistryIInv'
<1>1. work[t] = "ended" /\ Written(t) /\ work' = [work EXCEPT ![t] = "settled"]
  BY DEF Settle
<1>2. UNCHANGED <<owner, call, poll>>
  BY DEF Settle
<1>3. entry[t] = "Running"
  BY <1>1 DEF RegistryIInv, WorkReachable
<1>4. PICK now \in 1..Cardinality(Task) : finished' = [finished EXCEPT ![t] = now]
  BY <1>1, <1>3, WrittenEntry
<1>5. entry' = [entry EXCEPT ![t] = "Settled"]
  BY <1>1, <1>3, WrittenEntry
<1>6. now # 0 /\ now \in 0..Cardinality(Task)
  BY Counted
<1>7. RegistryTypeOK'
  BY <1>1, <1>2, <1>4, <1>5, <1>6 DEF RegistryIInv, RegistryTypeOK
<1>8. Consistent' /\ WorkReachable' /\ NotMisled'
  BY <1>1, <1>2, <1>3, <1>4, <1>5, <1>6 DEF RegistryIInv, RegistryTypeOK, Consistent, WorkReachable, NotMisled
<1>9. InFlight' \subseteq InFlight
  BY <1>1 DEF InFlight, RegistryIInv, RegistryTypeOK
<1> QED
  BY <1>2, <1>7, <1>8, <1>9, FewerInFlight DEF RegistryIInv

(* The start of a dispatch is answered.  One that was dropped before its     *)
(* first poll is settled by its call.                                        *)
LEMMA StartedStep ==
    ASSUME RegistryIInv, NEW t \in Task, Started(t)
    PROVE  RegistryIInv'
<1>1. /\ call[t] = "starting" /\ work[t] # "spawned"
      /\ call' = [call EXCEPT ![t] = "answered"]
      /\ UNCHANGED <<owner, work, poll>>
  BY DEF Started
<1>2. InFlight' = InFlight
  BY <1>1 DEF InFlight
<1>3. WithinLimits'
  BY <1>1, <1>2, FewerInFlight DEF RegistryIInv
<1>4. CASE UNCHANGED <<entry, finished>>
  BY <1>1, <1>3, <1>4 DEF RegistryIInv, RegistryTypeOK, Consistent, WorkReachable, NotMisled
<1>5. CASE work[t] = "dropped" /\ Written(t) /\ entry[t] # "none"
  <2>1. PICK now \in 1..Cardinality(Task) : finished' = [finished EXCEPT ![t] = now]
    BY <1>5 DEF Written, Clock
  <2>2. entry' = [entry EXCEPT ![t] = "Settled"]
    BY <1>5 DEF Written
  <2>3. now # 0 /\ now \in 0..Cardinality(Task)
    BY Counted
  <2>4. RegistryTypeOK'
    BY <1>1, <2>1, <2>2, <2>3 DEF RegistryIInv, RegistryTypeOK
  <2>5. Consistent' /\ WorkReachable' /\ NotMisled'
    BY <1>1, <1>5, <2>1, <2>2, <2>3 DEF RegistryIInv, RegistryTypeOK, Consistent, WorkReachable, NotMisled
  <2> QED
    BY <1>3, <2>4, <2>5 DEF RegistryIInv
<1> QED
  BY <1>4, <1>5 DEF Started, Written

(* The steps that leave the table alone. *)
LEMMA WorkStep ==
    ASSUME RegistryIInv, NEW t \in Task, FirstPoll(t) \/ DispatchEnds(t) \/ Lost(t) \/ Signal(t)
    PROVE  RegistryIInv'
<1>1. UNCHANGED <<entry, owner, finished, call, poll>>
  BY DEF FirstPoll, DispatchEnds, Lost, Signal
<1>2. InFlight' \subseteq InFlight
  BY DEF FirstPoll, DispatchEnds, Lost, Signal, InFlight, RegistryIInv, RegistryTypeOK
<1>3. RegistryTypeOK'
  BY <1>1 DEF FirstPoll, DispatchEnds, Lost, Signal, RegistryIInv, RegistryTypeOK
<1>4. Consistent' /\ WorkReachable' /\ NotMisled'
  BY <1>1 DEF FirstPoll, DispatchEnds, Lost, Signal, RegistryIInv, RegistryTypeOK, Consistent, WorkReachable, NotMisled
<1> QED
  BY <1>1, <1>2, <1>3, <1>4, FewerInFlight DEF RegistryIInv

LEMMA PollStep ==
    ASSUME RegistryIInv, NEW t \in Task, Wait(t) \/ Wake(t) \/ TimesOut(t)
    PROVE  RegistryIInv'
<1>1. UNCHANGED <<entry, owner, finished, call, work>>
  BY DEF Wait, Wake, TimesOut
<1>2. WithinLimits'
  BY <1>1 DEF RegistryIInv, WithinLimits, InFlight
<1>3. \E p \in {"none", "parked"} :
        /\ poll' = [poll EXCEPT ![t] = p]
        /\ p = "parked" => entry[t] = "Running"
  BY DEF Wait, Wake, TimesOut, RegistryIInv, RegistryTypeOK, Consistent
<1> QED
  BY <1>1, <1>2, <1>3 DEF RegistryIInv, RegistryTypeOK, Consistent, WorkReachable, NotMisled

LEMMA RegistryStep == RegistryIInv /\ [RegistryNext]_registryVars => RegistryIInv'
<1> SUFFICES ASSUME RegistryIInv, [RegistryNext]_registryVars PROVE RegistryIInv'
  OBVIOUS
<1>1. CASE UNCHANGED registryVars
  BY <1>1 DEF registryVars, RegistryIInv, RegistryTypeOK, Consistent, WorkReachable, NotMisled, WithinLimits, InFlight
<1>2. ASSUME NEW t \in Task, Spawn(t) \/ Work(t) \/ Lost(t) \/ Wait(t) \/ Wake(t) \/ TimesOut(t)
      PROVE  RegistryIInv'
  BY <1>2, SpawnStep, SettleStep, StartedStep, WorkStep, PollStep DEF Work
<1> QED
  BY <1>1, <1>2 DEF RegistryNext

(* Every behaviour of the registry keeps the inductive invariant. *)
THEOREM RegistryInductive == RegistrySpec => []RegistryIInv
BY RegistryInitial, RegistryStep, PTL DEF RegistrySpec

(* The variables of the registry keep their types. *)
THEOREM RegistryTypes == RegistrySpec => []RegistryTypeOK
<1>1. RegistryIInv => RegistryTypeOK
  BY DEF RegistryIInv
<1> QED
  BY <1>1, RegistryInductive, PTL

(* Work that executes keeps the entry it is aborted by (evict never takes a  *)
(* running one), whatever the limits are and however full the table is.      *)
THEOREM WorkStaysReachable == RegistrySpec => []WorkReachable
<1>1. RegistryIInv => WorkReachable
  BY DEF RegistryIInv
<1> QED
  BY <1>1, RegistryInductive, PTL

(* wait never reports a task that was polled in time as unknown, nor one     *)
(* whose end was signalled as running.                                       *)
THEOREM PollsAreTold == RegistrySpec => []NotMisled
<1>1. RegistryIInv => NotMisled
  BY DEF RegistryIInv
<1> QED
  BY <1>1, RegistryInductive, PTL

(* spawn_below_limit: no interleaving of dispatches exceeds a grant's        *)
(* max_in_flight or MAX_IN_FLIGHT_GLOBAL.                                    *)
THEOREM CeilingsHold == RegistrySpec => []WithinLimits
<1>1. RegistryIInv => WithinLimits
  BY DEF RegistryIInv
<1> QED
  BY <1>1, RegistryInductive, PTL
=============================================================================
