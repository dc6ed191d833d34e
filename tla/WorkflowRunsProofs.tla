------------------------- MODULE WorkflowRunsProofs -------------------------
(***************************************************************************)
(* The record of a workflow run stays honest whatever the processes that   *)
(* execute, cancel, sweep and resume it interleave, for any number of      *)
(* processes, gates, cancels, resent frames and failing writes.            *)
(***************************************************************************)
EXTENDS WorkflowRuns, TLAPS

(* What there is when there is nothing. *)
LEMMA Blank ==
    /\ NoRecord \in Record /\ NoRecord.status = "none" /\ NoRecord.executor = NoProc
    /\ NoRecord.cancel = FALSE /\ NoRecord.gate = 0
    /\ NoOp \in Op /\ NoOp.kind = "none" /\ NoOp.step = "none" /\ NoOp.rec = NoRecord /\ ~NoOp.live
    /\ IdleLeg \in Leg /\ IdleLeg.pc = "idle" /\ IdleLeg.copy = NoRecord
    /\ IdleLeg.rec = NoRecord /\ IdleLeg.local = FALSE
    /\ FailingLeg \in Leg /\ FailingLeg.pc = "failing" /\ FailingLeg.copy = NoRecord /\ FailingLeg.local = TRUE
<1>1. NoRecord \in Record
  BY RunsAssumption DEF NoRecord, Record, Status
<1>2. NoOp \in Op /\ IdleLeg \in Leg /\ FailingLeg \in Leg
  BY <1>1 DEF NoOp, Op, IdleLeg, FailingLeg, Leg
<1> QED
  BY <1>1, <1>2 DEF NoRecord, NoOp, IdleLeg, FailingLeg

(* A record with another status, executor or gate is a record. *)
LEMMA Rewritten ==
    ASSUME NEW r \in Record
    PROVE  /\ \A s \in Status : [r EXCEPT !.status = s] \in Record
           /\ \A b \in BOOLEAN : [r EXCEPT !.cancel = b] \in Record
           /\ \A s \in Status, b \in BOOLEAN : [r EXCEPT !.status = s, !.cancel = b] \in Record
           /\ \A s \in Status, g \in 0..MaxGates : [r EXCEPT !.status = s, !.gate = g] \in Record
           /\ \A s \in Status, q \in Proc : [r EXCEPT !.status = s, !.executor = q] \in Record
BY DEF Record

LEMMA NewIsRecord ==
    ASSUME NEW p \in Proc
    PROVE  /\ NewRecord(p) \in Record /\ NewRecord(p).status = "Running" /\ NewRecord(p).executor = p
           /\ [NewRecord(p) EXCEPT !.status = "Failed"] \in Record
           /\ [NewRecord(p) EXCEPT !.status = "Failed"].executor = p
           /\ NewRecord(p) # NoRecord
<1>1. NewRecord(p) \in Record
  BY RunsAssumption DEF NewRecord, Record, Status, Open
<1>2. NewRecord(p).status = "Running" /\ NewRecord(p).executor = p
  BY DEF NewRecord
<1>3. \A r \in Record : [r EXCEPT !.status = "Failed"].executor = r.executor
  BY DEF Record
<1> HIDE DEF NewRecord
<1>4. [NewRecord(p) EXCEPT !.status = "Failed"] \in Record
  BY <1>1, Rewritten DEF Status, Settled
<1> QED
  BY <1>1, <1>2, <1>3, <1>4, Blank

(* A leg that goes on with another record is a leg. *)
LEMMA LegRewritten ==
    ASSUME NEW p \in Proc, leg \in [Proc -> Leg], NEW r \in Record,
           NEW pc \in {"idle", "admitted", "merged", "running", "snapshot", "settled", "writing", "failing"}
    PROVE  /\ [leg EXCEPT ![p].pc = pc, ![p].copy = r] \in [Proc -> Leg]
           /\ [leg EXCEPT ![p].pc = pc, ![p].rec = r] \in [Proc -> Leg]
           /\ [leg EXCEPT ![p].pc = pc] \in [Proc -> Leg]
<1>1. leg[p] \in Leg
  OBVIOUS
<1>2. /\ [leg[p] EXCEPT !.pc = pc, !.copy = r] \in Leg
      /\ [leg[p] EXCEPT !.pc = pc, !.rec = r] \in Leg
      /\ [leg[p] EXCEPT !.pc = pc] \in Leg
  BY <1>1 DEF Leg
<1> QED
  BY <1>2

(* Nothing has been read yet, and nobody else has the run.                   *)
LEMMA StartStep ==
    ASSUME IInv, NEW p \in Proc, Start(p)
    PROVE  IInv'
<1>a. /\ disk = NoRecord /\ owners = {} /\ frames = 0
      /\ \A q \in Proc : leg[q] = IdleLeg /\ op[q] = NoOp /\ resuming[q] = NoRecord
  BY DEF Start, IInv, Recorded, LegRecords
<1>b. /\ owners' = {p} /\ frames' = 0 /\ disk' = NewRecord(p) /\ p \in alive
      /\ UNCHANGED <<alive, op, resuming, gates>>
      /\ \A q \in Proc : q # p => leg'[q] = IdleLeg
      /\ leg'[p].pc = "admitted" /\ leg'[p].rec = NewRecord(p) /\ leg'[p].copy = NoRecord /\ leg'[p].local
  BY <1>a DEF Start, Claim, IInv, TypeOK
<1>1. TypeOK'
  BY RunsAssumption, Blank DEF IInv, Start, NewRecord, Claim, TypeOK, Record, Leg,
       Op, Status, Settled, Open, Faults
<1>2. LegRecords'
  <2> SUFFICES ASSUME NEW q \in Proc
               PROVE  LegRecords!(q)'
    BY DEF LegRecords
  <2>1. CASE q = p
    BY <1>b, <2>1, NewIsRecord DEF Registered
  <2>2. CASE q # p
    BY <1>b, <2>2, Blank DEF Registered
  <2> QED
    BY <2>1, <2>2
<1>3. Recorded'
  BY RunsAssumption, Blank DEF IInv, Start, NewRecord, Claim, Recorded, Beginning,
       TypeOK, LegRecords, Registered, Leg, Op, Record, Open, Settled
<1>4. OnlyItsRecords'
  <2>1. \A q \in Proc : Alone(q)' => q = p
    BY <1>b DEF Alone
  <2>2. disk'.executor = p /\ disk'.status = "Running" /\ leg'[p].copy.status # "PendingApproval"
    BY <1>b, NewIsRecord, Blank
  <2>3. \A q \in Proc : op'[q] = NoOp /\ resuming'[q] = NoRecord /\ (q # p => leg'[q] = IdleLeg)
    BY <1>a, <1>b
  <2> QED
    BY <2>1, <2>2, <2>3 DEF OnlyItsRecords
<1>5. LiveJudged'
  BY RunsAssumption, Blank DEF IInv, Start, NewRecord, Claim, LiveJudged,
       OnlyItsRecords, Alone, LegRecords, Recorded, TypeOK, Leg, Op, Record
<1>6. OnlyRequests'
  BY RunsAssumption, Blank DEF IInv, Start, NewRecord, Claim, OnlyRequests, Outcome,
       LiveJudged, LiveRunSpared, LiveRunLeftAlone, OnlyItsRecords, Alone,
       Executing, LegRecords, Registered, Recorded, TypeOK, Leg, Op, Record, Open,
       Settled
<1>7. RunningHeld'
  BY RunsAssumption, Blank DEF IInv, Start, NewRecord, Claim, RunningHeld,
       Executing, LegRecords, Registered, OnlyItsRecords, Alone, Recorded, TypeOK,
       Leg, Op, Record, Open, Settled
<1>8. LiveRunSpared'
  BY RunsAssumption, Blank DEF IInv, Start, NewRecord, Claim, LiveRunSpared,
       LiveRunLeftAlone, LiveJudged, OnlyItsRecords, Alone, Executing, LegRecords,
       Registered, Recorded, TypeOK, Leg, Op, Record, Open, Settled
<1> QED
  BY <1>1, <1>2, <1>3, <1>4, <1>5, <1>6, <1>7, <1>8 DEF IInv

(* A frame claims, and the store is as it was: what is on disk is nobody's yet, *)
(* or an earlier leg's of this process, or the run has had two executors.    *)
LEMMA StartInlineStep ==
    ASSUME IInv, NEW p \in Proc, StartInline(p)
    PROVE  IInv'
<1>a. ASSUME NEW r \in Proc, owners' = {r}
      PROVE  r = p /\ (owners = {} \/ owners = {p})
  BY <1>a DEF StartInline, Claim
<1>b. UNCHANGED <<disk, alive, resuming, op, gates, faults>>
  BY DEF StartInline
<1>c. \A q \in Proc : leg'[q] = IF q = p THEN [pc |-> "admitted", rec |-> NewRecord(p),
                                               copy |-> NoRecord, local |-> FALSE] ELSE leg[q]
  BY DEF StartInline, Claim, IInv, TypeOK
<1>d. owners = {} => /\ disk = NoRecord
                     /\ \A q \in Proc : leg[q] = IdleLeg /\ op[q] = NoOp /\ resuming[q] = NoRecord
  BY DEF IInv, Recorded, LegRecords
<1>1. TypeOK'
  BY RunsAssumption, Blank DEF IInv, StartInline, NewRecord, Claim, TypeOK, Record,
       Leg, Op, Status, Settled, Open, Faults
<1>2. LegRecords'
  BY RunsAssumption, Blank DEF IInv, StartInline, NewRecord, Claim, LegRecords,
       Registered, TypeOK, Leg, Record, Settled
<1>3. Recorded'
  BY RunsAssumption, Blank DEF IInv, StartInline, NewRecord, Claim, Recorded,
       Beginning, TypeOK, LegRecords, Registered, Leg, Op, Record, Open, Settled
<1>4. OnlyItsRecords'
  <2> SUFFICES ASSUME NEW r \in Proc, Alone(r)'
               PROVE  /\ disk = NoRecord \/ (disk.executor = r /\ disk.status # "PendingApproval")
                      /\ ~leg'[r].local /\ leg'[r].copy.status # "PendingApproval"
                      /\ \A q \in Proc :
                          /\ resuming[q] = NoRecord /\ (q # r => leg'[q] = IdleLeg)
                          /\ op[q] # NoOp => op[q].rec.status = "Running" /\ op[q].rec.executor = r
    BY <1>b DEF OnlyItsRecords
  <2>1. r = p /\ (owners = {} \/ owners = {p}) /\ ~leg'[p].local /\ gates = 0
    BY <1>a, <1>b, <1>c DEF Alone
  <2>2. leg'[r].copy = NoRecord
    BY <1>c, <2>1
  <2>3. CASE owners = {}
    BY <1>c, <1>d, <2>1, <2>2, <2>3, Blank
  <2>4. CASE owners = {p}
    BY <1>c, <2>1, <2>2, <2>4, Blank DEF IInv, OnlyItsRecords, Alone
  <2> QED
    BY <2>1, <2>3, <2>4
<1>5. LiveJudged'
  <2> SUFFICES ASSUME NEW r \in Proc, r \in alive, Alone(r)', Readable, NEW q \in Proc,
                      op[q].step \in {"reread", "write"}
               PROVE  op[q].kind = "cancel" /\ op[q].live
    BY <1>b DEF LiveJudged, IInv, TypeOK
  <2>1. r = p /\ (owners = {} \/ owners = {p}) /\ gates = 0
    BY <1>a, <1>b, <1>c DEF Alone
  <2>2. CASE owners = {}
    BY <1>d, <2>2, Blank
  <2>3. CASE owners = {p}
    BY <2>1, <2>3 DEF IInv, LiveJudged, Alone
  <2> QED
    BY <2>1, <2>2, <2>3
<1>6. OnlyRequests'
  <2> SUFFICES ASSUME Outcome' PROVE \A q \in Proc : op[q].step = "write" => op[q].kind = "cancel" /\ op[q].live
    BY <1>b DEF OnlyRequests
  <2>1. CASE owners = {}
    BY <1>d, <2>1, Blank
  <2>2. CASE owners = {p}
    BY <1>b, <2>2 DEF IInv, OnlyRequests, Outcome
  <2> QED
    BY <1>a, <2>1, <2>2 DEF Outcome
<1>7. RunningHeld'
  BY RunsAssumption, Blank DEF IInv, StartInline, NewRecord, Claim, RunningHeld,
       Executing, LegRecords, Registered, OnlyItsRecords, Alone, Recorded, TypeOK,
       Leg, Op, Record, Open, Settled
<1>8. LiveRunSpared'
  BY RunsAssumption, Blank DEF IInv, StartInline, NewRecord, Claim, LiveRunSpared,
       LiveRunLeftAlone, LiveJudged, OnlyItsRecords, Alone, Executing, LegRecords,
       Registered, Recorded, TypeOK, Leg, Op, Record, Open, Settled
<1> QED
  BY <1>1, <1>2, <1>3, <1>4, <1>5, <1>6, <1>7, <1>8 DEF IInv

(* What LocalRun admitted has its task to settle it.                         *)
LEMMA RefuseStep ==
    ASSUME IInv, NEW p \in Proc, Refuse(p)
    PROVE  IInv'
<1>1. TypeOK'
  BY RunsAssumption, Blank DEF IInv, Refuse, Leave, FailingLeg, TypeOK, Record, Leg,
       Op, Status, Settled, Open, Faults
<1>2. LegRecords'
  BY RunsAssumption, Blank DEF IInv, Refuse, Leave, FailingLeg, LegRecords,
       Registered, TypeOK, Leg, Record, Settled
<1>3. Recorded'
  BY RunsAssumption, Blank DEF IInv, Refuse, Leave, FailingLeg, Recorded, Beginning,
       TypeOK, LegRecords, Registered, Leg, Op, Record, Open, Settled
<1>4. OnlyItsRecords'
  BY RunsAssumption, Blank DEF IInv, Refuse, Leave, FailingLeg, OnlyItsRecords,
       Alone, LegRecords, Registered, Recorded, TypeOK, Leg, Op, Record, Open,
       Settled
<1>5. LiveJudged'
  BY RunsAssumption, Blank DEF IInv, Refuse, Leave, FailingLeg, LiveJudged,
       OnlyItsRecords, Alone, LegRecords, Recorded, TypeOK, Leg, Op, Record
<1>6. OnlyRequests'
  BY DEF IInv, Refuse, Leave, FailingLeg, OnlyRequests, Outcome
<1>7. RunningHeld'
  BY RunsAssumption, Blank DEF IInv, Refuse, Leave, FailingLeg, RunningHeld,
       Executing, LegRecords, Registered, OnlyItsRecords, Alone, Recorded, TypeOK,
       Leg, Op, Record, Open, Settled
<1>8. LiveRunSpared'
  BY RunsAssumption, Blank DEF IInv, Refuse, Leave, FailingLeg, LiveRunSpared,
       LiveRunLeftAlone, LiveJudged, OnlyItsRecords, Alone, Executing, LegRecords,
       Registered, Recorded, TypeOK, Leg, Op, Record, Open, Settled
<1> QED
  BY <1>1, <1>2, <1>3, <1>4, <1>5, <1>6, <1>7, <1>8 DEF IInv

(* A merged record is the record, whoever asked for what.                    *)
LEMMA MergeStep ==
    ASSUME IInv, NEW p \in Proc, Merge(p)
    PROVE  IInv'
<1>a. ASSUME NEW r \in Record, NEW m \in WithRequest(r)
      PROVE  m \in Record /\ m.status = r.status /\ m.executor = r.executor
  BY <1>a DEF WithRequest, Record, IInv, TypeOK
<1>b. leg[p] \in Leg
  BY DEF IInv, TypeOK
<1>c. \/ leg[p].pc = "admitted" /\ \E m \in Record :
            /\ m.status = leg[p].rec.status /\ m.executor = leg[p].rec.executor
            /\ leg' = [leg EXCEPT ![p].pc = "merged", ![p].rec = m]
      \/ leg[p].pc = "settled" /\ \E m \in Record :
            /\ m.status = leg[p].copy.status /\ m.executor = leg[p].copy.executor
            /\ leg' = [leg EXCEPT ![p].pc = "writing", ![p].copy = m]
  <2>1. leg[p].rec \in Record /\ leg[p].copy \in Record
    BY <1>b DEF Leg
  <2> QED
    BY <1>a, <2>1 DEF Merge
<1>d. UNCHANGED <<disk, alive, signalled, resuming, op, gates, passed, cancels, owners, frames, faults>>
  BY DEF Merge
<1>e. /\ \A q \in Proc : q # p => leg'[q] = leg[q]
      /\ leg' \in [Proc -> Leg]
      /\ leg'[p].local = leg[p].local /\ leg'[p].copy.status = leg[p].copy.status
      /\ leg'[p].copy.executor = leg[p].copy.executor
      /\ leg'[p].rec.status = leg[p].rec.status /\ leg'[p].rec.executor = leg[p].rec.executor
      /\ \/ leg[p].pc = "admitted" /\ leg'[p].pc = "merged"
         \/ leg[p].pc = "settled" /\ leg'[p].pc = "writing"
  <2>1. CASE leg[p].pc = "admitted"
    <3>1. PICK m \in Record : /\ m.status = leg[p].rec.status /\ m.executor = leg[p].rec.executor
                              /\ leg' = [leg EXCEPT ![p].pc = "merged", ![p].rec = m]
      BY <1>c, <2>1
    <3>2. leg' \in [Proc -> Leg]
      BY <3>1, LegRewritten DEF IInv, TypeOK
    <3>3. leg'[p] = [leg[p] EXCEPT !.pc = "merged", !.rec = m] /\ \A q \in Proc : q # p => leg'[q] = leg[q]
      BY <3>1 DEF IInv, TypeOK
    <3> QED
      BY <1>b, <2>1, <3>1, <3>2, <3>3 DEF Leg
  <2>2. CASE leg[p].pc = "settled"
    <3>1. PICK m \in Record : /\ m.status = leg[p].copy.status /\ m.executor = leg[p].copy.executor
                              /\ leg' = [leg EXCEPT ![p].pc = "writing", ![p].copy = m]
      BY <1>c, <2>2
    <3>2. leg' \in [Proc -> Leg]
      BY <3>1, LegRewritten DEF IInv, TypeOK
    <3>3. leg'[p] = [leg[p] EXCEPT !.pc = "writing", !.copy = m] /\ \A q \in Proc : q # p => leg'[q] = leg[q]
      BY <3>1 DEF IInv, TypeOK
    <3> QED
      BY <1>b, <2>2, <3>1, <3>2, <3>3 DEF Leg
  <2> QED
    BY <1>c, <2>1, <2>2
<1>1. TypeOK'
  BY <1>d, <1>e DEF IInv, TypeOK
<1>2. LegRecords'
  BY <1>d, <1>e DEF IInv, LegRecords, Registered
<1>3. Recorded'
  BY <1>d, <1>e DEF IInv, Recorded, Beginning
<1>4. OnlyItsRecords'
  <2>1. \A q \in Proc : Alone(q)' <=> Alone(q)
    BY <1>d, <1>e DEF Alone
  <2>2. \A q \in Proc : /\ leg'[q].copy.status = leg[q].copy.status /\ (leg[q] = IdleLeg => leg'[q] = IdleLeg)
                        /\ (leg'[q].local <=> leg[q].local) /\ (leg'[q].pc = "idle" <=> leg[q].pc = "idle")
    BY <1>e, Blank
  <2> QED
    BY <1>d, <2>1, <2>2 DEF IInv, OnlyItsRecords
<1>5. LiveJudged'
  <2>1. \A q \in Proc : Alone(q)' <=> Alone(q)
    BY <1>d, <1>e DEF Alone
  <2> QED
    BY <1>d, <2>1 DEF IInv, LiveJudged, TypeOK
<1>6. OnlyRequests'
  BY DEF IInv, Merge, WithRequest, OnlyRequests, Outcome
<1>7. RunningHeld'
  <2>1. disk # NoRecord => disk.executor \in Proc
    BY DEF IInv, TypeOK
  <2>2. \A q \in Proc : /\ Executing(q)' <=> Executing(q)
                        /\ (leg'[q].local <=> leg[q].local) /\ (leg'[q].pc = "idle" <=> leg[q].pc = "idle")
    BY <1>e DEF Executing
  <2> QED
    BY <1>d, <2>1, <2>2, Blank DEF IInv, RunningHeld
<1>8. LiveRunSpared'
  <2>1. \A q \in Proc : Executing(q)' <=> Executing(q)
    BY <1>e DEF Executing
  <2> QED
    BY <1>d, <2>1 DEF IInv, LiveRunSpared, LiveRunLeftAlone, TypeOK
<1> QED
  BY <1>1, <1>2, <1>3, <1>4, <1>5, <1>6, <1>7, <1>8 DEF IInv

LEMMA BeginStep ==
    ASSUME IInv, NEW p \in Proc, Begin(p)
    PROVE  IInv'
<1>1. TypeOK'
  <2>1. leg' \in [Proc -> Leg] /\ leg[p].rec \in Record
    BY DEF Begin, IInv, TypeOK, Leg
  <2>2. leg[p].rec.executor = p
    BY DEF Begin, IInv, LegRecords, Registered
  <2> QED
    BY <2>1, <2>2 DEF Begin, IInv, TypeOK
<1>2. LegRecords'
  BY RunsAssumption, Blank DEF IInv, Begin, LegRecords, Registered, TypeOK, Leg,
       Record, Settled
<1>3. Recorded'
  BY RunsAssumption, Blank DEF IInv, Begin, Recorded, Beginning, TypeOK, LegRecords,
       Registered, Leg, Op, Record, Open, Settled
<1>4. OnlyItsRecords'
  BY RunsAssumption, Blank DEF IInv, Begin, OnlyItsRecords, Alone, LegRecords,
       Registered, Recorded, TypeOK, Leg, Op, Record, Open, Settled
<1>5. LiveJudged'
  BY RunsAssumption, Blank DEF IInv, Begin, LiveJudged, OnlyItsRecords, Alone,
       LegRecords, Recorded, TypeOK, Leg, Op, Record
<1>6. OnlyRequests'
  BY RunsAssumption, Blank DEF IInv, Begin, OnlyRequests, Outcome, LiveJudged,
       LiveRunSpared, LiveRunLeftAlone, OnlyItsRecords, Alone, Executing,
       LegRecords, Registered, Recorded, TypeOK, Leg, Op, Record, Open, Settled
<1>7. RunningHeld'
  BY RunsAssumption, Blank DEF IInv, Begin, RunningHeld, Executing, LegRecords,
       Registered, OnlyItsRecords, Alone, Recorded, TypeOK, Leg, Op, Record, Open,
       Settled
<1>8. LiveRunSpared'
  BY RunsAssumption, Blank DEF IInv, Begin, LiveRunSpared, LiveRunLeftAlone,
       LiveJudged, OnlyItsRecords, Alone, Executing, LegRecords, Registered,
       Recorded, TypeOK, Leg, Op, Record, Open, Settled
<1> QED
  BY <1>1, <1>2, <1>3, <1>4, <1>5, <1>6, <1>7, <1>8 DEF IInv

(* Only a leg LocalRun started takes snapshots, so the record it copies is its *)
(* own.                                                                      *)
LEMMA SnapshotReadStep ==
    ASSUME IInv, NEW p \in Proc, SnapshotRead(p)
    PROVE  IInv'
<1>a. /\ leg[p] \in Leg /\ disk \in Record /\ leg[p].pc = "running" /\ leg[p].local /\ disk.status = "Running"
      /\ leg' = [leg EXCEPT ![p].pc = "snapshot", ![p].copy = disk]
  BY DEF SnapshotRead, IInv, TypeOK
<1>b. /\ \A q \in Proc : q # p => leg'[q] = leg[q]
      /\ leg'[p] = [leg[p] EXCEPT !.pc = "snapshot", !.copy = disk]
      /\ leg'[p] \in Leg /\ leg'[p].pc = "snapshot" /\ leg'[p].copy = disk /\ leg'[p].local
      /\ leg'[p].rec = leg[p].rec
  BY <1>a DEF IInv, TypeOK, Leg
<1>c. disk.executor = p
  BY <1>a, Blank DEF IInv, OnlyItsRecords, Alone, LegRecords
<1>1. TypeOK'
  <2>1. leg' \in [Proc -> Leg]
    BY <1>a, <1>b DEF IInv, TypeOK
  <2> QED
    BY <2>1 DEF SnapshotRead, IInv, TypeOK
<1>2. LegRecords'
  <2>1. UNCHANGED <<alive, owners, frames>>
    BY DEF SnapshotRead
  <2> SUFFICES ASSUME NEW q \in Proc
               PROVE  LegRecords!(q)'
    BY DEF LegRecords
  <2>2. CASE q = p
    BY <1>a, <1>b, <1>c, <2>1, <2>2 DEF IInv, LegRecords, Registered
  <2>3. CASE q # p
    BY <1>b, <2>1, <2>3 DEF IInv, LegRecords, Registered
  <2> QED
    BY <2>2, <2>3
<1>3. Recorded'
  BY RunsAssumption, Blank DEF IInv, SnapshotRead, Recorded, Beginning, TypeOK,
       LegRecords, Registered, Leg, Op, Record, Open, Settled
<1>4. OnlyItsRecords'
  BY RunsAssumption, Blank DEF IInv, SnapshotRead, OnlyItsRecords, Alone,
       LegRecords, Registered, Recorded, TypeOK, Leg, Op, Record, Open, Settled
<1>5. LiveJudged'
  BY RunsAssumption, Blank DEF IInv, SnapshotRead, LiveJudged, OnlyItsRecords,
       Alone, LegRecords, Recorded, TypeOK, Leg, Op, Record
<1>6. OnlyRequests'
  BY DEF IInv, SnapshotRead, OnlyRequests, Outcome
<1>7. RunningHeld'
  BY RunsAssumption, Blank DEF IInv, SnapshotRead, RunningHeld, Executing,
       LegRecords, Registered, OnlyItsRecords, Alone, Recorded, TypeOK, Leg, Op,
       Record, Open, Settled
<1>8. LiveRunSpared'
  BY RunsAssumption, Blank DEF IInv, SnapshotRead, LiveRunSpared, LiveRunLeftAlone,
       LiveJudged, OnlyItsRecords, Alone, Executing, LegRecords, Registered,
       Recorded, TypeOK, Leg, Op, Record, Open, Settled
<1> QED
  BY <1>1, <1>2, <1>3, <1>4, <1>5, <1>6, <1>7, <1>8 DEF IInv

LEMMA SnapshotWriteStep ==
    ASSUME IInv, NEW p \in Proc, SnapshotWrite(p)
    PROVE  IInv'
<1>1. TypeOK'
  <2>1. leg' \in [Proc -> Leg] /\ leg[p].copy \in Record
    BY Blank DEF SnapshotWrite, IInv, TypeOK, Leg
  <2>2. leg[p].copy.executor = p
    BY DEF SnapshotWrite, IInv, LegRecords
  <2> QED
    BY <2>1, <2>2 DEF SnapshotWrite, IInv, TypeOK
<1>2. LegRecords'
  BY RunsAssumption, Blank DEF IInv, SnapshotWrite, LegRecords, Registered, TypeOK,
       Leg, Record, Settled
<1>3. Recorded'
  BY RunsAssumption, Blank DEF IInv, SnapshotWrite, Recorded, Beginning, TypeOK,
       LegRecords, Registered, Leg, Op, Record, Open, Settled
<1>4. OnlyItsRecords'
  BY RunsAssumption, Blank DEF IInv, SnapshotWrite, OnlyItsRecords, Alone,
       LegRecords, Registered, Recorded, TypeOK, Leg, Op, Record, Open, Settled
<1>5. LiveJudged'
  BY RunsAssumption, Blank DEF IInv, SnapshotWrite, LiveJudged, OnlyItsRecords,
       Alone, LegRecords, Recorded, TypeOK, Leg, Op, Record
<1>6. OnlyRequests'
  BY RunsAssumption, Blank DEF IInv, SnapshotWrite, OnlyRequests, Outcome,
       LiveJudged, LiveRunSpared, LiveRunLeftAlone, OnlyItsRecords, Alone,
       Executing, LegRecords, Registered, Recorded, TypeOK, Leg, Op, Record, Open,
       Settled
<1>7. RunningHeld'
  BY RunsAssumption, Blank DEF IInv, SnapshotWrite, RunningHeld, Executing,
       LegRecords, Registered, OnlyItsRecords, Alone, Recorded, TypeOK, Leg, Op,
       Record, Open, Settled
<1>8. LiveRunSpared'
  BY RunsAssumption, Blank DEF IInv, SnapshotWrite, LiveRunSpared, LiveRunLeftAlone,
       LiveJudged, OnlyItsRecords, Alone, Executing, LegRecords, Registered,
       Recorded, TypeOK, Leg, Op, Record, Open, Settled
<1> QED
  BY <1>1, <1>2, <1>3, <1>4, <1>5, <1>6, <1>7, <1>8 DEF IInv

(* A leg that settles keeps the run until it has written.                    *)
LEMMA SettleCancelledStep ==
    ASSUME IInv, NEW p \in Proc, SettleCancelled(p)
    PROVE  IInv'
<1>1. TypeOK'
  <2>1. [leg[p].rec EXCEPT !.status = "Cancelled", !.cancel = TRUE] \in Record
    BY Rewritten DEF IInv, TypeOK, Leg, Status, Settled
  <2>2. leg' \in [Proc -> Leg]
    BY <2>1, LegRewritten DEF SettleCancelled, Settle, IInv, TypeOK
  <2> QED
    BY <2>2 DEF SettleCancelled, Settle, IInv, TypeOK
<1>2. LegRecords'
  BY RunsAssumption, Blank DEF IInv, SettleCancelled, Settle, LegRecords,
       Registered, TypeOK, Leg, Record, Settled
<1>3. Recorded'
  BY RunsAssumption, Blank DEF IInv, SettleCancelled, Settle, Recorded, Beginning,
       TypeOK, LegRecords, Registered, Leg, Op, Record, Open, Settled
<1>4. OnlyItsRecords'
  BY RunsAssumption, Blank DEF IInv, SettleCancelled, Settle, OnlyItsRecords, Alone,
       LegRecords, Registered, Recorded, TypeOK, Leg, Op, Record, Open, Settled
<1>5. LiveJudged'
  BY RunsAssumption, Blank DEF IInv, SettleCancelled, Settle, LiveJudged,
       OnlyItsRecords, Alone, LegRecords, Recorded, TypeOK, Leg, Op, Record
<1>6. OnlyRequests'
  BY DEF IInv, SettleCancelled, Settle, OnlyRequests, Outcome
<1>7. RunningHeld'
  BY RunsAssumption, Blank DEF IInv, SettleCancelled, Settle, RunningHeld,
       Executing, LegRecords, Registered, OnlyItsRecords, Alone, Recorded, TypeOK,
       Leg, Op, Record, Open, Settled
<1>8. LiveRunSpared'
  BY RunsAssumption, Blank DEF IInv, SettleCancelled, Settle, LiveRunSpared,
       LiveRunLeftAlone, LiveJudged, OnlyItsRecords, Alone, Executing, LegRecords,
       Registered, Recorded, TypeOK, Leg, Op, Record, Open, Settled
<1> QED
  BY <1>1, <1>2, <1>3, <1>4, <1>5, <1>6, <1>7, <1>8 DEF IInv

LEMMA SettleEngineStep ==
    ASSUME IInv, NEW p \in Proc, SettleEngine(p)
    PROVE  IInv'
<1>1. TypeOK'
  <2>1. PICK status \in {"Succeeded", "Failed", "Cancelled", "PendingApproval"} :
          /\ status = "PendingApproval" => passed < gates
          /\ Settle(p, [leg[p].rec EXCEPT !.status = status,
                                          !.gate = IF status = "PendingApproval" THEN passed + 1 ELSE 0])
    BY DEF SettleEngine
  <2>2. (IF status = "PendingApproval" THEN passed + 1 ELSE 0) \in 0..MaxGates
    BY <2>1, RunsAssumption DEF IInv, TypeOK
  <2>3. [leg[p].rec EXCEPT !.status = status,
                           !.gate = IF status = "PendingApproval" THEN passed + 1 ELSE 0] \in Record
    BY <2>2, Rewritten DEF IInv, TypeOK, Leg, Status, Settled, Open
  <2>4. leg' \in [Proc -> Leg]
    BY <2>1, <2>3, LegRewritten DEF Settle, IInv, TypeOK
  <2> QED
    BY <2>1, <2>4 DEF Settle, IInv, TypeOK
<1>2. LegRecords'
  BY RunsAssumption, Blank DEF IInv, SettleEngine, Settle, LegRecords, Registered,
       TypeOK, Leg, Record, Settled
<1>3. Recorded'
  BY RunsAssumption, Blank DEF IInv, SettleEngine, Settle, Recorded, Beginning,
       TypeOK, LegRecords, Registered, Leg, Op, Record, Open, Settled
<1>4. OnlyItsRecords'
  BY RunsAssumption, Blank DEF IInv, SettleEngine, Settle, OnlyItsRecords, Alone,
       LegRecords, Registered, Recorded, TypeOK, Leg, Op, Record, Open, Settled
<1>5. LiveJudged'
  BY RunsAssumption, Blank DEF IInv, SettleEngine, Settle, LiveJudged,
       OnlyItsRecords, Alone, LegRecords, Recorded, TypeOK, Leg, Op, Record
<1>6. OnlyRequests'
  BY DEF IInv, SettleEngine, Settle, OnlyRequests, Outcome
<1>7. RunningHeld'
  BY RunsAssumption, Blank DEF IInv, SettleEngine, Settle, RunningHeld, Executing,
       LegRecords, Registered, OnlyItsRecords, Alone, Recorded, TypeOK, Leg, Op,
       Record, Open, Settled
<1>8. LiveRunSpared'
  BY RunsAssumption, Blank DEF IInv, SettleEngine, Settle, LiveRunSpared,
       LiveRunLeftAlone, LiveJudged, OnlyItsRecords, Alone, Executing, LegRecords,
       Registered, Recorded, TypeOK, Leg, Op, Record, Open, Settled
<1> QED
  BY <1>1, <1>2, <1>3, <1>4, <1>5, <1>6, <1>7, <1>8 DEF IInv

(* The last write of a leg leaves no record that says it runs.               *)
LEMMA FinishStep ==
    ASSUME IInv, NEW p \in Proc, Finish(p)
    PROVE  IInv'
<1>1. TypeOK'
  <2>1. leg[p].copy \in Record /\ leg[p].copy.executor = p
    BY DEF Finish, IInv, TypeOK, Leg, LegRecords
  <2> QED
    BY <2>1, Blank DEF Finish, Leave, IInv, TypeOK
<1>2. LegRecords'
  BY RunsAssumption, Blank DEF IInv, Finish, Leave, LegRecords, Registered, TypeOK,
       Leg, Record, Settled
<1>3. Recorded'
  BY RunsAssumption, Blank DEF IInv, Finish, Leave, Recorded, Beginning, TypeOK,
       LegRecords, Registered, Leg, Op, Record, Open, Settled
<1>4. OnlyItsRecords'
  BY RunsAssumption, Blank DEF IInv, Finish, Leave, OnlyItsRecords, Alone,
       LegRecords, Registered, Recorded, TypeOK, Leg, Op, Record, Open, Settled
<1>5. LiveJudged'
  BY RunsAssumption, Blank DEF IInv, Finish, Leave, LiveJudged, OnlyItsRecords,
       Alone, LegRecords, Recorded, TypeOK, Leg, Op, Record
<1>6. OnlyRequests'
  BY RunsAssumption, Blank DEF IInv, Finish, Leave, OnlyRequests, Outcome,
       LiveJudged, LiveRunSpared, LiveRunLeftAlone, OnlyItsRecords, Alone,
       Executing, LegRecords, Registered, Recorded, TypeOK, Leg, Op, Record, Open,
       Settled
<1>7. RunningHeld'
  BY RunsAssumption, Blank DEF IInv, Finish, Leave, RunningHeld, Executing,
       LegRecords, Registered, OnlyItsRecords, Alone, Recorded, TypeOK, Leg, Op,
       Record, Open, Settled
<1>8. LiveRunSpared'
  BY RunsAssumption, Blank DEF IInv, Finish, Leave, LiveRunSpared, LiveRunLeftAlone,
       LiveJudged, OnlyItsRecords, Alone, Executing, LegRecords, Registered,
       Recorded, TypeOK, Leg, Op, Record, Open, Settled
<1> QED
  BY <1>1, <1>2, <1>3, <1>4, <1>5, <1>6, <1>7, <1>8 DEF IInv

LEMMA FinishFailsStep ==
    ASSUME IInv, NEW p \in Proc, FinishFails(p)
    PROVE  IInv'
<1>1. TypeOK'
  <2>1. [leg[p].rec EXCEPT !.status = "Interrupted"] \in Record
    BY Rewritten DEF IInv, TypeOK, Leg, Status, Settled
  <2>2. [leg[p].rec EXCEPT !.status = "Interrupted"].executor = p
    BY DEF FinishFails, IInv, TypeOK, Leg, Record, LegRecords, Registered
  <2>3. disk' \in Record /\ (disk' # NoRecord => disk'.executor \in Proc)
    BY <2>1, <2>2 DEF FinishFails, Finalizes, IInv, TypeOK
  <2>4. leg' \in [Proc -> Leg] /\ signalled' \subseteq Proc /\ faults' \subseteq Faults
    BY Blank DEF FinishFails, Leave, IInv, TypeOK, Faults
  <2> QED
    BY <2>3, <2>4 DEF FinishFails, IInv, TypeOK
<1>2. LegRecords'
  BY RunsAssumption, Blank DEF IInv, FinishFails, Finalizes, Leave, FailingLeg,
       LegRecords, Registered, TypeOK, Leg, Record, Settled
<1>3. Recorded'
  BY RunsAssumption, Blank DEF IInv, FinishFails, Finalizes, Leave, FailingLeg,
       Recorded, Beginning, TypeOK, LegRecords, Registered, Leg, Op, Record, Open,
       Settled
<1>4. OnlyItsRecords'
  BY RunsAssumption, Blank DEF IInv, FinishFails, Finalizes, Leave, FailingLeg,
       OnlyItsRecords, Alone, LegRecords, Registered, Recorded, TypeOK, Leg, Op,
       Record, Open, Settled
<1>5. LiveJudged'
  BY RunsAssumption, Blank DEF IInv, FinishFails, Finalizes, Leave, FailingLeg,
       LiveJudged, OnlyItsRecords, Alone, LegRecords, Recorded, TypeOK, Leg, Op,
       Record
<1>6. OnlyRequests'
  BY RunsAssumption, Blank DEF IInv, FinishFails, Finalizes, Leave, FailingLeg,
       OnlyRequests, Outcome, LiveJudged, LiveRunSpared, LiveRunLeftAlone,
       OnlyItsRecords, Alone, Executing, LegRecords, Registered, Recorded, TypeOK,
       Leg, Op, Record, Open, Settled
<1>7. RunningHeld'
  BY RunsAssumption, Blank DEF IInv, FinishFails, Finalizes, Leave, FailingLeg,
       RunningHeld, Executing, LegRecords, Registered, OnlyItsRecords, Alone,
       Recorded, TypeOK, Leg, Op, Record, Open, Settled
<1>8. LiveRunSpared'
  BY RunsAssumption, Blank DEF IInv, FinishFails, Finalizes, Leave, FailingLeg,
       LiveRunSpared, LiveRunLeftAlone, LiveJudged, OnlyItsRecords, Alone,
       Executing, LegRecords, Registered, Recorded, TypeOK, Leg, Op, Record, Open,
       Settled
<1> QED
  BY <1>1, <1>2, <1>3, <1>4, <1>5, <1>6, <1>7, <1>8 DEF IInv

LEMMA WriteFailedStep ==
    ASSUME IInv, NEW p \in Proc, WriteFailed(p)
    PROVE  IInv'
<1>1. TypeOK'
  <2>1. disk' = disk \/ disk' = [NewRecord(p) EXCEPT !.status = "Failed"]
    BY DEF WriteFailed
  <2>2. leg' \in [Proc -> Leg] /\ signalled' \subseteq Proc /\ faults' \subseteq Faults
    BY Blank DEF WriteFailed, Leave, IInv, TypeOK, Faults
  <2>3. disk' \in Record /\ (disk' # NoRecord => disk'.executor \in Proc)
    <3>1. CASE disk' = disk
      BY <3>1 DEF IInv, TypeOK
    <3>2. CASE disk' = [NewRecord(p) EXCEPT !.status = "Failed"]
      BY <3>2, NewIsRecord
    <3> QED
      BY <2>1, <3>1, <3>2
  <2> QED
    BY <2>2, <2>3 DEF WriteFailed, IInv, TypeOK
<1>2. LegRecords'
  BY RunsAssumption, Blank DEF IInv, WriteFailed, NewRecord, Leave, LegRecords,
       Registered, TypeOK, Leg, Record, Settled
<1>3. Recorded'
  BY RunsAssumption, Blank DEF IInv, WriteFailed, NewRecord, Leave, Recorded,
       Beginning, TypeOK, LegRecords, Registered, Leg, Op, Record, Open, Settled
<1>4. OnlyItsRecords'
  BY RunsAssumption, Blank DEF IInv, WriteFailed, NewRecord, Leave, OnlyItsRecords,
       Alone, LegRecords, Registered, Recorded, TypeOK, Leg, Op, Record, Open,
       Settled
<1>5. LiveJudged'
  BY RunsAssumption, Blank DEF IInv, WriteFailed, NewRecord, Leave, LiveJudged,
       OnlyItsRecords, Alone, LegRecords, Recorded, TypeOK, Leg, Op, Record
<1>6. OnlyRequests'
  BY RunsAssumption, Blank DEF IInv, WriteFailed, NewRecord, Leave, OnlyRequests,
       Outcome, LiveJudged, LiveRunSpared, LiveRunLeftAlone, OnlyItsRecords, Alone,
       Executing, LegRecords, Registered, Recorded, TypeOK, Leg, Op, Record, Open,
       Settled
<1>7. RunningHeld'
  BY RunsAssumption, Blank DEF IInv, WriteFailed, NewRecord, Leave, RunningHeld,
       Executing, LegRecords, Registered, OnlyItsRecords, Alone, Recorded, TypeOK,
       Leg, Op, Record, Open, Settled
<1>8. LiveRunSpared'
  BY RunsAssumption, Blank DEF IInv, WriteFailed, NewRecord, Leave, LiveRunSpared,
       LiveRunLeftAlone, LiveJudged, OnlyItsRecords, Alone, Executing, LegRecords,
       Registered, Recorded, TypeOK, Leg, Op, Record, Open, Settled
<1> QED
  BY <1>1, <1>2, <1>3, <1>4, <1>5, <1>6, <1>7, <1>8 DEF IInv

LEMMA DropStep ==
    ASSUME IInv, NEW p \in Proc, Drop(p)
    PROVE  IInv'
<1>1. TypeOK'
  <2>1. [leg[p].rec EXCEPT !.status = "Interrupted"] \in Record
    BY Rewritten DEF IInv, TypeOK, Leg, Status, Settled
  <2>2. [leg[p].rec EXCEPT !.status = "Interrupted"].executor = p
    BY DEF Drop, IInv, TypeOK, Leg, Record, LegRecords, Registered
  <2>3. disk' \in Record /\ (disk' # NoRecord => disk'.executor \in Proc)
    BY <2>1, <2>2 DEF Drop, Finalizes, IInv, TypeOK
  <2>4. leg' \in [Proc -> Leg] /\ signalled' \subseteq Proc /\ faults' \subseteq Faults
    BY Blank DEF Drop, Leave, IInv, TypeOK, Faults
  <2> QED
    BY <2>3, <2>4 DEF Drop, IInv, TypeOK
<1>2. LegRecords'
  BY RunsAssumption, Blank DEF IInv, Drop, Finalizes, Leave, LegRecords, Registered,
       TypeOK, Leg, Record, Settled
<1>3. Recorded'
  BY RunsAssumption, Blank DEF IInv, Drop, Finalizes, Leave, Recorded, Beginning,
       TypeOK, LegRecords, Registered, Leg, Op, Record, Open, Settled
<1>4. OnlyItsRecords'
  BY RunsAssumption, Blank DEF IInv, Drop, Finalizes, Leave, OnlyItsRecords, Alone,
       LegRecords, Registered, Recorded, TypeOK, Leg, Op, Record, Open, Settled
<1>5. LiveJudged'
  BY RunsAssumption, Blank DEF IInv, Drop, Finalizes, Leave, LiveJudged,
       OnlyItsRecords, Alone, LegRecords, Recorded, TypeOK, Leg, Op, Record
<1>6. OnlyRequests'
  BY RunsAssumption, Blank DEF IInv, Drop, Finalizes, Leave, OnlyRequests, Outcome,
       LiveJudged, LiveRunSpared, LiveRunLeftAlone, OnlyItsRecords, Alone,
       Executing, LegRecords, Registered, Recorded, TypeOK, Leg, Op, Record, Open,
       Settled
<1>7. RunningHeld'
  BY RunsAssumption, Blank DEF IInv, Drop, Finalizes, Leave, RunningHeld, Executing,
       LegRecords, Registered, OnlyItsRecords, Alone, Recorded, TypeOK, Leg, Op,
       Record, Open, Settled
<1>8. LiveRunSpared'
  BY RunsAssumption, Blank DEF IInv, Drop, Finalizes, Leave, LiveRunSpared,
       LiveRunLeftAlone, LiveJudged, OnlyItsRecords, Alone, Executing, LegRecords,
       Registered, Recorded, TypeOK, Leg, Op, Record, Open, Settled
<1> QED
  BY <1>1, <1>2, <1>3, <1>4, <1>5, <1>6, <1>7, <1>8 DEF IInv

LEMMA DropUnarmedStep ==
    ASSUME IInv, NEW p \in Proc, DropUnarmed(p)
    PROVE  IInv'
<1>1. TypeOK'
  BY RunsAssumption, Blank DEF IInv, DropUnarmed, Leave, TypeOK, Record, Leg, Op,
       Status, Settled, Open, Faults
<1>2. LegRecords'
  BY RunsAssumption, Blank DEF IInv, DropUnarmed, Leave, LegRecords, Registered,
       TypeOK, Leg, Record, Settled
<1>3. Recorded'
  BY RunsAssumption, Blank DEF IInv, DropUnarmed, Leave, Recorded, Beginning,
       TypeOK, LegRecords, Registered, Leg, Op, Record, Open, Settled
<1>4. OnlyItsRecords'
  BY RunsAssumption, Blank DEF IInv, DropUnarmed, Leave, OnlyItsRecords, Alone,
       LegRecords, Registered, Recorded, TypeOK, Leg, Op, Record, Open, Settled
<1>5. LiveJudged'
  BY RunsAssumption, Blank DEF IInv, DropUnarmed, Leave, LiveJudged, OnlyItsRecords,
       Alone, LegRecords, Recorded, TypeOK, Leg, Op, Record
<1>6. OnlyRequests'
  BY RunsAssumption, Blank DEF IInv, DropUnarmed, Leave, OnlyRequests, Outcome,
       LiveJudged, LiveRunSpared, LiveRunLeftAlone, OnlyItsRecords, Alone,
       Executing, LegRecords, Registered, Recorded, TypeOK, Leg, Op, Record, Open,
       Settled
<1>7. RunningHeld'
  BY RunsAssumption, Blank DEF IInv, DropUnarmed, Leave, RunningHeld, Executing,
       LegRecords, Registered, OnlyItsRecords, Alone, Recorded, TypeOK, Leg, Op,
       Record, Open, Settled
<1>8. LiveRunSpared'
  BY RunsAssumption, Blank DEF IInv, DropUnarmed, Leave, LiveRunSpared,
       LiveRunLeftAlone, LiveJudged, OnlyItsRecords, Alone, Executing, LegRecords,
       Registered, Recorded, TypeOK, Leg, Op, Record, Open, Settled
<1> QED
  BY <1>1, <1>2, <1>3, <1>4, <1>5, <1>6, <1>7, <1>8 DEF IInv

(* A process that dies takes with it what it had read.                       *)
LEMMA KillStep ==
    ASSUME IInv, NEW p \in Proc, Kill(p)
    PROVE  IInv'
<1>1. TypeOK'
  BY RunsAssumption, Blank DEF IInv, Kill, Leave, TypeOK, Record, Leg, Op, Status,
       Settled, Open, Faults
<1>2. LegRecords'
  BY RunsAssumption, Blank DEF IInv, Kill, Leave, LegRecords, Registered, TypeOK,
       Leg, Record, Settled
<1>3. Recorded'
  BY RunsAssumption, Blank DEF IInv, Kill, Leave, Recorded, Beginning, TypeOK,
       LegRecords, Registered, Leg, Op, Record, Open, Settled
<1>4. OnlyItsRecords'
  BY RunsAssumption, Blank DEF IInv, Kill, Leave, OnlyItsRecords, Alone, LegRecords,
       Registered, Recorded, TypeOK, Leg, Op, Record, Open, Settled
<1>5. LiveJudged'
  BY RunsAssumption, Blank DEF IInv, Kill, Leave, LiveJudged, OnlyItsRecords, Alone,
       LegRecords, Recorded, TypeOK, Leg, Op, Record
<1>6. OnlyRequests'
  BY RunsAssumption, Blank DEF IInv, Kill, Leave, OnlyRequests, Outcome, LiveJudged,
       LiveRunSpared, LiveRunLeftAlone, OnlyItsRecords, Alone, Executing,
       LegRecords, Registered, Recorded, TypeOK, Leg, Op, Record, Open, Settled
<1>7. RunningHeld'
  BY RunsAssumption, Blank DEF IInv, Kill, Leave, RunningHeld, Executing,
       LegRecords, Registered, OnlyItsRecords, Alone, Recorded, TypeOK, Leg, Op,
       Record, Open, Settled
<1>8. LiveRunSpared'
  BY RunsAssumption, Blank DEF IInv, Kill, Leave, LiveRunSpared, LiveRunLeftAlone,
       LiveJudged, OnlyItsRecords, Alone, Executing, LegRecords, Registered,
       Recorded, TypeOK, Leg, Op, Record, Open, Settled
<1> QED
  BY <1>1, <1>2, <1>3, <1>4, <1>5, <1>6, <1>7, <1>8 DEF IInv

LEMMA ResumeReadStep ==
    ASSUME IInv, NEW p \in Proc, ResumeRead(p)
    PROVE  IInv'
<1>1. TypeOK'
  BY RunsAssumption, Blank DEF IInv, ResumeRead, TypeOK, Record, Leg, Op, Status,
       Settled, Open, Faults
<1>2. LegRecords'
  BY DEF IInv, ResumeRead, LegRecords, Registered
<1>3. Recorded'
  BY RunsAssumption, Blank DEF IInv, ResumeRead, Recorded, Beginning, TypeOK,
       LegRecords, Registered, Leg, Op, Record, Open, Settled
<1>4. OnlyItsRecords'
  BY RunsAssumption, Blank DEF IInv, ResumeRead, OnlyItsRecords, Alone, LegRecords,
       Registered, Recorded, TypeOK, Leg, Op, Record, Open, Settled
<1>5. LiveJudged'
  BY DEF IInv, ResumeRead, LiveJudged, Alone
<1>6. OnlyRequests'
  BY DEF IInv, ResumeRead, OnlyRequests, Outcome
<1>7. RunningHeld'
  BY DEF IInv, ResumeRead, RunningHeld, Executing
<1>8. LiveRunSpared'
  BY DEF IInv, ResumeRead, LiveRunSpared, LiveRunLeftAlone, Executing
<1> QED
  BY <1>1, <1>2, <1>3, <1>4, <1>5, <1>6, <1>7, <1>8 DEF IInv

LEMMA ResumeRefusedStep ==
    ASSUME IInv, NEW p \in Proc, ResumeRefused(p)
    PROVE  IInv'
<1>1. TypeOK'
  BY RunsAssumption, Blank DEF IInv, ResumeRefused, TypeOK, Record, Leg, Op, Status,
       Settled, Open, Faults
<1>2. LegRecords'
  BY DEF IInv, ResumeRefused, LegRecords, Registered
<1>3. Recorded'
  BY RunsAssumption, Blank DEF IInv, ResumeRefused, Recorded, Beginning, TypeOK,
       LegRecords, Registered, Leg, Op, Record, Open, Settled
<1>4. OnlyItsRecords'
  BY RunsAssumption, Blank DEF IInv, ResumeRefused, OnlyItsRecords, Alone,
       LegRecords, Registered, Recorded, TypeOK, Leg, Op, Record, Open, Settled
<1>5. LiveJudged'
  BY DEF IInv, ResumeRefused, LiveJudged, Alone
<1>6. OnlyRequests'
  BY DEF IInv, ResumeRefused, OnlyRequests, Outcome
<1>7. RunningHeld'
  BY DEF IInv, ResumeRefused, RunningHeld, Executing
<1>8. LiveRunSpared'
  BY DEF IInv, ResumeRefused, LiveRunSpared, LiveRunLeftAlone, Executing
<1> QED
  BY <1>1, <1>2, <1>3, <1>4, <1>5, <1>6, <1>7, <1>8 DEF IInv

(* A run is resumed where it is parked, so it has gates, and LocalRun's leg is *)
(* over.                                                                     *)
LEMMA ResumeStep ==
    ASSUME IInv, NEW p \in Proc, Resume(p)
    PROVE  IInv'
<1>a. /\ disk' \in Record /\ disk'.status = "Running" /\ disk'.executor = p
      /\ leg' = [leg EXCEPT ![p] = [pc |-> "running", rec |-> disk', copy |-> NoRecord, local |-> FALSE]]
  <2>1. disk' = [resuming[p] EXCEPT !.status = "Running", !.executor = p]
    BY DEF Resume
  <2>2. resuming[p] \in Record
    BY DEF IInv, TypeOK
  <2>3. disk' \in Record
    BY <2>1, <2>2, Rewritten DEF Status, Open
  <2>4. disk'.status = "Running" /\ disk'.executor = p
    BY <2>1, <2>2 DEF Record
  <2>5. leg' = [leg EXCEPT ![p] = [pc |-> "running", rec |-> disk', copy |-> NoRecord, local |-> FALSE]]
    BY DEF Resume
  <2> QED
    BY <2>3, <2>4, <2>5
<1>b. resuming[p] # NoRecord /\ leg[p].pc = "idle" /\ p \in alive /\ disk # NoRecord
  BY DEF Resume, IInv, TypeOK, Recorded
<1>c. /\ UNCHANGED <<alive, signalled, op, gates, cancels, owners, frames, faults>>
      /\ resuming' = [resuming EXCEPT ![p] = NoRecord]
  BY DEF Resume
<1>d. /\ leg' \in [Proc -> Leg] /\ \A q \in Proc : q # p => leg'[q] = leg[q]
      /\ leg'[p].pc = "running" /\ leg'[p].local = FALSE /\ leg'[p].copy = NoRecord /\ leg'[p].rec = disk'
  BY <1>a, Blank DEF Leg, IInv, TypeOK
<1>e. /\ resuming' \in [Proc -> Record] /\ resuming'[p] = NoRecord
      /\ \A q \in Proc : q # p => resuming'[q] = resuming[q]
  BY <1>c, Blank DEF IInv, TypeOK
<1>1. TypeOK'
  <2>1. passed' \in 0..gates
    BY DEF Resume, IInv, TypeOK
  <2> QED
    BY <1>a, <1>c, <1>d, <1>e, <2>1 DEF IInv, TypeOK
<1>2. LegRecords'
  BY <1>a, <1>b, <1>c, <1>d, Blank DEF IInv, LegRecords, Registered
<1>3. Recorded'
  <2>1. disk' # NoRecord /\ disk'.status # "none"
    BY <1>a, Blank
  <2>2. owners # {}
    BY <1>b DEF IInv, Recorded
  <2> QED
    BY <1>b, <1>c, <1>e, <2>1, <2>2 DEF IInv, Recorded
<1>4. OnlyItsRecords'
  BY RunsAssumption, Blank DEF IInv, Resume, OnlyItsRecords, Alone, LegRecords,
       Registered, Recorded, TypeOK, Leg, Op, Record, Open, Settled
<1>5. LiveJudged'
  BY RunsAssumption, Blank DEF IInv, Resume, LiveJudged, OnlyItsRecords, Alone,
       LegRecords, Recorded, TypeOK, Leg, Op, Record
<1>6. OnlyRequests'
  BY RunsAssumption, Blank DEF IInv, Resume, OnlyRequests, Outcome, LiveJudged,
       LiveRunSpared, LiveRunLeftAlone, OnlyItsRecords, Alone, Executing,
       LegRecords, Registered, Recorded, TypeOK, Leg, Op, Record, Open, Settled
<1>7. RunningHeld'
  BY RunsAssumption, Blank DEF IInv, Resume, RunningHeld, Executing, LegRecords,
       Registered, OnlyItsRecords, Alone, Recorded, TypeOK, Leg, Op, Record, Open,
       Settled
<1>8. LiveRunSpared'
  BY RunsAssumption, Blank DEF IInv, Resume, LiveRunSpared, LiveRunLeftAlone,
       LiveJudged, OnlyItsRecords, Alone, Executing, LegRecords, Registered,
       Recorded, TypeOK, Leg, Op, Record, Open, Settled
<1> QED
  BY <1>1, <1>2, <1>3, <1>4, <1>5, <1>6, <1>7, <1>8 DEF IInv

LEMMA CancelHereStep ==
    ASSUME IInv, NEW p \in Proc, CancelHere(p)
    PROVE  IInv'
<1>1. TypeOK'
  BY RunsAssumption, Blank DEF IInv, CancelHere, TypeOK, Record, Leg, Op, Status,
       Settled, Open, Faults
<1>2. LegRecords'
  BY DEF IInv, CancelHere, LegRecords, Registered
<1>3. Recorded'
  BY DEF IInv, CancelHere, Recorded, Beginning
<1>4. OnlyItsRecords'
  BY DEF IInv, CancelHere, OnlyItsRecords, Alone
<1>5. LiveJudged'
  BY DEF IInv, CancelHere, LiveJudged, Alone
<1>6. OnlyRequests'
  BY DEF IInv, CancelHere, OnlyRequests, Outcome
<1>7. RunningHeld'
  BY DEF IInv, CancelHere, RunningHeld, Executing
<1>8. LiveRunSpared'
  BY DEF IInv, CancelHere, LiveRunSpared, LiveRunLeftAlone, Executing
<1> QED
  BY <1>1, <1>2, <1>3, <1>4, <1>5, <1>6, <1>7, <1>8 DEF IInv

(* What is read while one process executes is a record of its own.           *)
LEMMA CancelReadStep ==
    ASSUME IInv, NEW p \in Proc, CancelRead(p)
    PROVE  IInv'
<1>1. TypeOK'
  BY RunsAssumption, Blank DEF IInv, CancelRead, Look, TypeOK, Record, Leg, Op,
       Status, Settled, Open, Faults
<1>2. LegRecords'
  BY DEF IInv, CancelRead, Look, LegRecords, Registered
<1>3. Recorded'
  BY RunsAssumption, Blank DEF IInv, CancelRead, Look, Recorded, Beginning, TypeOK,
       LegRecords, Registered, Leg, Op, Record, Open, Settled
<1>4. OnlyItsRecords'
  BY RunsAssumption, Blank DEF IInv, CancelRead, Look, OnlyItsRecords, Alone,
       LegRecords, Registered, Recorded, TypeOK, Leg, Op, Record, Open, Settled
<1>5. LiveJudged'
  BY RunsAssumption, Blank DEF IInv, CancelRead, Look, LiveJudged, OnlyItsRecords,
       Alone, LegRecords, Recorded, TypeOK, Leg, Op, Record
<1>6. OnlyRequests'
  BY RunsAssumption, Blank DEF IInv, CancelRead, Look, OnlyRequests, Outcome,
       LiveJudged, LiveRunSpared, LiveRunLeftAlone, OnlyItsRecords, Alone,
       Executing, LegRecords, Registered, Recorded, TypeOK, Leg, Op, Record, Open,
       Settled
<1>7. RunningHeld'
  BY DEF IInv, CancelRead, Look, RunningHeld, Executing
<1>8. LiveRunSpared'
  BY DEF IInv, CancelRead, Look, LiveRunSpared, LiveRunLeftAlone, Executing
<1> QED
  BY <1>1, <1>2, <1>3, <1>4, <1>5, <1>6, <1>7, <1>8 DEF IInv

LEMMA SweepReadStep ==
    ASSUME IInv, NEW p \in Proc, SweepRead(p)
    PROVE  IInv'
<1>1. TypeOK'
  BY RunsAssumption, Blank DEF IInv, SweepRead, Look, TypeOK, Record, Leg, Op,
       Status, Settled, Open, Faults
<1>2. LegRecords'
  BY DEF IInv, SweepRead, Look, LegRecords, Registered
<1>3. Recorded'
  BY RunsAssumption, Blank DEF IInv, SweepRead, Look, Recorded, Beginning, TypeOK,
       LegRecords, Registered, Leg, Op, Record, Open, Settled
<1>4. OnlyItsRecords'
  BY RunsAssumption, Blank DEF IInv, SweepRead, Look, OnlyItsRecords, Alone,
       LegRecords, Registered, Recorded, TypeOK, Leg, Op, Record, Open, Settled
<1>5. LiveJudged'
  BY RunsAssumption, Blank DEF IInv, SweepRead, Look, LiveJudged, OnlyItsRecords,
       Alone, LegRecords, Recorded, TypeOK, Leg, Op, Record
<1>6. OnlyRequests'
  BY RunsAssumption, Blank DEF IInv, SweepRead, Look, OnlyRequests, Outcome,
       LiveJudged, LiveRunSpared, LiveRunLeftAlone, OnlyItsRecords, Alone,
       Executing, LegRecords, Registered, Recorded, TypeOK, Leg, Op, Record, Open,
       Settled
<1>7. RunningHeld'
  BY DEF IInv, SweepRead, Look, RunningHeld, Executing
<1>8. LiveRunSpared'
  BY DEF IInv, SweepRead, Look, LiveRunSpared, LiveRunLeftAlone, Executing
<1> QED
  BY <1>1, <1>2, <1>3, <1>4, <1>5, <1>6, <1>7, <1>8 DEF IInv

(* A lone executor is found alive: a cancel goes on to request, and a sweep  *)
(* stops.                                                                    *)
LEMMA CancelJudgeStep ==
    ASSUME IInv, NEW p \in Proc, CancelJudge(p)
    PROVE  IInv'
<1>1. TypeOK'
  <2>1. IsAlive(p, op[p].rec.executor) \in BOOLEAN
    BY DEF IsAlive
  <2>2. op' \in [Proc -> Op]
    BY <2>1 DEF CancelJudge, Ops, IInv, TypeOK, Op
  <2> QED
    BY <2>2 DEF CancelJudge, Ops, IInv, TypeOK
<1>2. LegRecords'
  BY DEF IInv, CancelJudge, Ops, IsAlive, LegRecords, Registered
<1>3. Recorded'
  BY RunsAssumption, Blank DEF IInv, CancelJudge, Ops, IsAlive, Recorded, Beginning,
       TypeOK, LegRecords, Registered, Leg, Op, Record, Open, Settled
<1>4. OnlyItsRecords'
  BY RunsAssumption, Blank DEF IInv, CancelJudge, Ops, IsAlive, OnlyItsRecords,
       Alone, LegRecords, Registered, Recorded, TypeOK, Leg, Op, Record, Open,
       Settled
<1>5. LiveJudged'
  BY RunsAssumption, Blank DEF IInv, CancelJudge, Ops, IsAlive, LiveJudged,
       OnlyItsRecords, Alone, LegRecords, Recorded, TypeOK, Leg, Op, Record
<1>6. OnlyRequests'
  BY RunsAssumption, Blank DEF IInv, CancelJudge, Ops, IsAlive, OnlyRequests,
       Outcome, LiveJudged, LiveRunSpared, LiveRunLeftAlone, OnlyItsRecords, Alone,
       Executing, LegRecords, Registered, Recorded, TypeOK, Leg, Op, Record, Open,
       Settled
<1>7. RunningHeld'
  BY DEF IInv, CancelJudge, Ops, IsAlive, RunningHeld, Executing
<1>8. LiveRunSpared'
  BY DEF IInv, CancelJudge, Ops, IsAlive, LiveRunSpared, LiveRunLeftAlone, Executing
<1> QED
  BY <1>1, <1>2, <1>3, <1>4, <1>5, <1>6, <1>7, <1>8 DEF IInv

LEMMA SweepJudgeStep ==
    ASSUME IInv, NEW p \in Proc, SweepJudge(p)
    PROVE  IInv'
<1>1. TypeOK'
  BY RunsAssumption, Blank DEF IInv, SweepJudge, Ops, IsOrphaned, IsAlive, TypeOK,
       Record, Leg, Op, Status, Settled, Open, Faults
<1>2. LegRecords'
  BY DEF IInv, SweepJudge, Ops, IsOrphaned, IsAlive, LegRecords, Registered
<1>3. Recorded'
  BY RunsAssumption, Blank DEF IInv, SweepJudge, Ops, IsOrphaned, IsAlive, Recorded,
       Beginning, TypeOK, LegRecords, Registered, Leg, Op, Record, Open, Settled
<1>4. OnlyItsRecords'
  BY RunsAssumption, Blank DEF IInv, SweepJudge, Ops, IsOrphaned, IsAlive,
       OnlyItsRecords, Alone, LegRecords, Registered, Recorded, TypeOK, Leg, Op,
       Record, Open, Settled
<1>5. LiveJudged'
  BY RunsAssumption, Blank DEF IInv, SweepJudge, Ops, IsOrphaned, IsAlive,
       LiveJudged, OnlyItsRecords, Alone, LegRecords, Recorded, TypeOK, Leg, Op,
       Record
<1>6. OnlyRequests'
  BY RunsAssumption, Blank DEF IInv, SweepJudge, Ops, IsOrphaned, IsAlive,
       OnlyRequests, Outcome, LiveJudged, LiveRunSpared, LiveRunLeftAlone,
       OnlyItsRecords, Alone, Executing, LegRecords, Registered, Recorded, TypeOK,
       Leg, Op, Record, Open, Settled
<1>7. RunningHeld'
  BY DEF IInv, SweepJudge, Ops, IsOrphaned, IsAlive, RunningHeld, Executing
<1>8. LiveRunSpared'
  BY DEF IInv, SweepJudge, Ops, IsOrphaned, IsAlive, LiveRunSpared,
       LiveRunLeftAlone, Executing
<1> QED
  BY <1>1, <1>2, <1>3, <1>4, <1>5, <1>6, <1>7, <1>8 DEF IInv

(* The second read finds the run still open, or stops.                       *)
LEMMA RereadStep ==
    ASSUME IInv, NEW p \in Proc, Reread(p)
    PROVE  IInv'
<1>1. TypeOK'
  <2>1. op[p] \in Op /\ disk \in Record
    BY DEF IInv, TypeOK
  <2>2. [op[p] EXCEPT !.step = "write", !.rec = disk] \in Op
    BY <2>1 DEF Op
  <2>3. op' \in [Proc -> Op]
    BY <2>2, Blank DEF Reread, Ops, IInv, TypeOK
  <2> QED
    BY <2>3 DEF Reread, Ops, IInv, TypeOK
<1>2. LegRecords'
  BY DEF IInv, Reread, Ops, StillOpen, LegRecords, Registered
<1>3. Recorded'
  BY RunsAssumption, Blank DEF IInv, Reread, Ops, StillOpen, Recorded, Beginning,
       TypeOK, LegRecords, Registered, Leg, Op, Record, Open, Settled
<1>4. OnlyItsRecords'
  BY RunsAssumption, Blank DEF IInv, Reread, Ops, StillOpen, OnlyItsRecords, Alone,
       LegRecords, Registered, Recorded, TypeOK, Leg, Op, Record, Open, Settled
<1>5. LiveJudged'
  BY RunsAssumption, Blank DEF IInv, Reread, Ops, StillOpen, LiveJudged,
       OnlyItsRecords, Alone, LegRecords, Recorded, TypeOK, Leg, Op, Record
<1>6. OnlyRequests'
  BY RunsAssumption, Blank DEF IInv, Reread, Ops, StillOpen, OnlyRequests, Outcome,
       LiveJudged, LiveRunSpared, LiveRunLeftAlone, OnlyItsRecords, Alone,
       Executing, LegRecords, Registered, Recorded, TypeOK, Leg, Op, Record, Open,
       Settled
<1>7. RunningHeld'
  BY DEF IInv, Reread, Ops, StillOpen, RunningHeld, Executing
<1>8. LiveRunSpared'
  BY DEF IInv, Reread, Ops, StillOpen, LiveRunSpared, LiveRunLeftAlone, Executing
<1> QED
  BY <1>1, <1>2, <1>3, <1>4, <1>5, <1>6, <1>7, <1>8 DEF IInv

LEMMA RereadFailsStep ==
    ASSUME IInv, NEW p \in Proc, RereadFails(p)
    PROVE  IInv'
<1>1. TypeOK'
  BY RunsAssumption, Blank DEF IInv, RereadFails, Ops, TypeOK, Record, Leg, Op,
       Status, Settled, Open, Faults
<1>2. LegRecords'
  BY DEF IInv, RereadFails, Ops, LegRecords, Registered
<1>3. Recorded'
  BY RunsAssumption, Blank DEF IInv, RereadFails, Ops, Recorded, Beginning, TypeOK,
       LegRecords, Registered, Leg, Op, Record, Open, Settled
<1>4. OnlyItsRecords'
  <2>1. UNCHANGED <<disk, owners, gates, leg, resuming>>
    BY DEF RereadFails, Ops
  <2>2. \A q \in Proc : op'[q] # NoOp => op[q] # NoOp /\ op'[q].rec = op[q].rec
    BY Blank DEF RereadFails, Ops, IInv, TypeOK, Op
  <2>3. \A q \in Proc : Alone(q)' <=> Alone(q)
    BY <2>1 DEF Alone
  <2> QED
    BY <2>1, <2>2, <2>3 DEF IInv, OnlyItsRecords
<1>5. LiveJudged'
  <2>1. UNCHANGED <<alive, owners, gates, leg>> /\ op[p].step = "reread" /\ op[p] \in Op
    BY DEF RereadFails, Ops, IInv, TypeOK
  <2>2. \A q \in Proc : q # p => op'[q] = op[q]
    BY DEF RereadFails, Ops, IInv, TypeOK
  <2>3. op[p].kind = "cancel" /\ op[p].live => op'[p].kind = "cancel" /\ op'[p].live
    BY <2>1 DEF RereadFails, Ops, IInv, TypeOK, Op
  <2>4. \A q \in Proc : Alone(q)' <=> Alone(q)
    BY <2>1 DEF Alone
  <2> QED
    BY <2>1, <2>2, <2>3, <2>4 DEF IInv, LiveJudged, TypeOK
<1>6. OnlyRequests'
  BY RunsAssumption, Blank DEF IInv, RereadFails, Ops, OnlyRequests, Outcome,
       LiveJudged, LiveRunSpared, LiveRunLeftAlone, OnlyItsRecords, Alone,
       Executing, LegRecords, Registered, Recorded, TypeOK, Leg, Op, Record, Open,
       Settled
<1>7. RunningHeld'
  BY RunsAssumption, Blank DEF IInv, RereadFails, Ops, RunningHeld, Executing,
       LegRecords, Registered, OnlyItsRecords, Alone, Recorded, TypeOK, Leg, Op,
       Record, Open, Settled
<1>8. LiveRunSpared'
  BY DEF IInv, RereadFails, Ops, LiveRunSpared, LiveRunLeftAlone, Executing
<1> QED
  BY <1>1, <1>2, <1>3, <1>4, <1>5, <1>6, <1>7, <1>8 DEF IInv

(* Under a live lone executor the write is of a request, and leaves the record *)
(* running.                                                                  *)
LEMMA CancelWriteStep ==
    ASSUME IInv, NEW p \in Proc, CancelWrite(p)
    PROVE  IInv'
<1>1. TypeOK'
  <2>1. disk' \in Record
    BY Rewritten DEF CancelWrite, IInv, TypeOK, Op, Status, Settled
  <2>2. disk'.executor \in Proc
    BY Blank DEF CancelWrite, IInv, TypeOK, Op, Record, Recorded
  <2> QED
    BY <2>1, <2>2, Blank DEF CancelWrite, IInv, TypeOK
<1>2. LegRecords'
  BY DEF IInv, CancelWrite, LegRecords, Registered
<1>3. Recorded'
  BY RunsAssumption, Blank DEF IInv, CancelWrite, Recorded, Beginning, TypeOK,
       LegRecords, Registered, Leg, Op, Record, Open, Settled
<1>4. OnlyItsRecords'
  BY RunsAssumption, Blank DEF IInv, CancelWrite, OnlyItsRecords, Alone, LegRecords,
       Registered, Recorded, TypeOK, Leg, Op, Record, Open, Settled
<1>5. LiveJudged'
  BY RunsAssumption, Blank DEF IInv, CancelWrite, LiveJudged, OnlyItsRecords, Alone,
       LegRecords, Recorded, TypeOK, Leg, Op, Record
<1>6. OnlyRequests'
  BY RunsAssumption, Blank DEF IInv, CancelWrite, OnlyRequests, Outcome, LiveJudged,
       LiveRunSpared, LiveRunLeftAlone, OnlyItsRecords, Alone, Executing,
       LegRecords, Registered, Recorded, TypeOK, Leg, Op, Record, Open, Settled
<1>7. RunningHeld'
  BY RunsAssumption, Blank DEF IInv, CancelWrite, RunningHeld, Executing,
       LegRecords, Registered, OnlyItsRecords, Alone, Recorded, TypeOK, Leg, Op,
       Record, Open, Settled
<1>8. LiveRunSpared'
  BY RunsAssumption, Blank DEF IInv, CancelWrite, LiveRunSpared, LiveRunLeftAlone,
       LiveJudged, OnlyItsRecords, Alone, Executing, LegRecords, Registered,
       Recorded, TypeOK, Leg, Op, Record, Open, Settled
<1> QED
  BY <1>1, <1>2, <1>3, <1>4, <1>5, <1>6, <1>7, <1>8 DEF IInv

LEMMA SweepWriteStep ==
    ASSUME IInv, NEW p \in Proc, SweepWrite(p)
    PROVE  IInv'
<1>1. TypeOK'
  <2>1. disk' \in Record
    BY Rewritten DEF SweepWrite, IInv, TypeOK, Op, Status, Settled
  <2>2. disk'.executor \in Proc
    BY Blank DEF SweepWrite, IInv, TypeOK, Op, Record, Recorded
  <2> QED
    BY <2>1, <2>2, Blank DEF SweepWrite, IInv, TypeOK
<1>2. LegRecords'
  BY DEF IInv, SweepWrite, LegRecords, Registered
<1>3. Recorded'
  BY RunsAssumption, Blank DEF IInv, SweepWrite, Recorded, Beginning, TypeOK,
       LegRecords, Registered, Leg, Op, Record, Open, Settled
<1>4. OnlyItsRecords'
  BY RunsAssumption, Blank DEF IInv, SweepWrite, OnlyItsRecords, Alone, LegRecords,
       Registered, Recorded, TypeOK, Leg, Op, Record, Open, Settled
<1>5. LiveJudged'
  BY RunsAssumption, Blank DEF IInv, SweepWrite, LiveJudged, OnlyItsRecords, Alone,
       LegRecords, Recorded, TypeOK, Leg, Op, Record
<1>6. OnlyRequests'
  BY RunsAssumption, Blank DEF IInv, SweepWrite, OnlyRequests, Outcome, LiveJudged,
       LiveRunSpared, LiveRunLeftAlone, OnlyItsRecords, Alone, Executing,
       LegRecords, Registered, Recorded, TypeOK, Leg, Op, Record, Open, Settled
<1>7. RunningHeld'
  BY RunsAssumption, Blank DEF IInv, SweepWrite, RunningHeld, Executing, LegRecords,
       Registered, OnlyItsRecords, Alone, Recorded, TypeOK, Leg, Op, Record, Open,
       Settled
<1>8. LiveRunSpared'
  BY RunsAssumption, Blank DEF IInv, SweepWrite, LiveRunSpared, LiveRunLeftAlone,
       LiveJudged, OnlyItsRecords, Alone, Executing, LegRecords, Registered,
       Recorded, TypeOK, Leg, Op, Record, Open, Settled
<1> QED
  BY <1>1, <1>2, <1>3, <1>4, <1>5, <1>6, <1>7, <1>8 DEF IInv

LEMMA WriteFailsStep ==
    ASSUME IInv, NEW p \in Proc, WriteFails(p)
    PROVE  IInv'
<1>1. TypeOK'
  BY RunsAssumption, Blank DEF IInv, WriteFails, Ops, TypeOK, Record, Leg, Op,
       Status, Settled, Open, Faults
<1>2. LegRecords'
  BY DEF IInv, WriteFails, Ops, LegRecords, Registered
<1>3. Recorded'
  BY RunsAssumption, Blank DEF IInv, WriteFails, Ops, Recorded, Beginning, TypeOK,
       LegRecords, Registered, Leg, Op, Record, Open, Settled
<1>4. OnlyItsRecords'
  BY RunsAssumption, Blank DEF IInv, WriteFails, Ops, OnlyItsRecords, Alone,
       LegRecords, Registered, Recorded, TypeOK, Leg, Op, Record, Open, Settled
<1>5. LiveJudged'
  BY RunsAssumption, Blank DEF IInv, WriteFails, Ops, LiveJudged, OnlyItsRecords,
       Alone, LegRecords, Recorded, TypeOK, Leg, Op, Record
<1>6. OnlyRequests'
  BY RunsAssumption, Blank DEF IInv, WriteFails, Ops, OnlyRequests, Outcome,
       LiveJudged, LiveRunSpared, LiveRunLeftAlone, OnlyItsRecords, Alone,
       Executing, LegRecords, Registered, Recorded, TypeOK, Leg, Op, Record, Open,
       Settled
<1>7. RunningHeld'
  BY DEF IInv, WriteFails, Ops, RunningHeld, Executing
<1>8. LiveRunSpared'
  BY DEF IInv, WriteFails, Ops, LiveRunSpared, LiveRunLeftAlone, Executing
<1> QED
  BY <1>1, <1>2, <1>3, <1>4, <1>5, <1>6, <1>7, <1>8 DEF IInv

-----------------------------------------------------------------------------
LEMMA InitIInv == Init => IInv
<1> SUFFICES ASSUME Init PROVE IInv
  OBVIOUS
<1>1. TypeOK
  BY RunsAssumption, Blank DEF Init, TypeOK
<1>2. LegRecords
  BY Blank DEF Init, LegRecords, Registered
<1>3. Recorded
  BY Blank DEF Init, Recorded
<1>4. OnlyItsRecords /\ LiveJudged /\ LiveRunSpared
  BY DEF Init, OnlyItsRecords, LiveJudged, LiveRunSpared, LiveRunLeftAlone, Alone
<1>5. OnlyRequests /\ RunningHeld
  BY Blank DEF Init, OnlyRequests, Outcome, RunningHeld
<1> QED
  BY <1>1, <1>2, <1>3, <1>4, <1>5 DEF IInv

LEMMA StutterStep ==
    ASSUME IInv, UNCHANGED vars
    PROVE  IInv'
BY DEF vars, IInv, TypeOK, LegRecords, Recorded, OnlyItsRecords, LiveJudged, OnlyRequests, RunningHeld,
       LiveRunSpared, LiveRunLeftAlone, Outcome, Alone, Registered, Beginning, Executing

LEMMA NextStep ==
    ASSUME IInv, [Next]_vars
    PROVE  IInv'
<1>1. CASE UNCHANGED vars
  BY <1>1, StutterStep
<1>2. CASE Next
  <2>1. PICK p \in Proc :
          \/ Start(p) \/ StartInline(p) \/ Refuse(p) \/ SnapshotRead(p)
          \/ LegStep(p) \/ FinishFails(p) \/ Drop(p) \/ DropUnarmed(p) \/ Kill(p)
          \/ ResumeRead(p) \/ ResumeRefused(p) \/ Resume(p)
          \/ CancelHere(p) \/ CancelRead(p) \/ SweepRead(p) \/ OpStep(p)
    BY <1>2 DEF Next
  <2>2. CASE Start(p) \/ StartInline(p) \/ Refuse(p) \/ SnapshotRead(p)
    BY <2>2, StartStep, StartInlineStep, RefuseStep, SnapshotReadStep
  <2>3. CASE LegStep(p)
    BY <2>3, MergeStep, BeginStep, SnapshotWriteStep, SettleCancelledStep, SettleEngineStep, FinishStep,
       WriteFailedStep DEF LegStep
  <2>4. CASE FinishFails(p) \/ Drop(p) \/ DropUnarmed(p) \/ Kill(p)
    BY <2>4, FinishFailsStep, DropStep, DropUnarmedStep, KillStep
  <2>5. CASE ResumeRead(p) \/ ResumeRefused(p) \/ Resume(p)
    BY <2>5, ResumeReadStep, ResumeRefusedStep, ResumeStep
  <2>6. CASE CancelHere(p) \/ CancelRead(p) \/ SweepRead(p)
    BY <2>6, CancelHereStep, CancelReadStep, SweepReadStep
  <2>7. CASE OpStep(p)
    BY <2>7, CancelJudgeStep, SweepJudgeStep, RereadStep, RereadFailsStep, CancelWriteStep, SweepWriteStep,
       WriteFailsStep DEF OpStep
  <2> QED
    BY <2>1, <2>2, <2>3, <2>4, <2>5, <2>6, <2>7
<1> QED
  BY <1>1, <1>2

(* The invariant behind the rest: whatever legs, cancels, sweeps and resumes *)
(* interleave on the shared record, in any number of processes, and whatever *)
(* reads and writes fail.                                                    *)
THEOREM Inductive == Spec => []IInv
<1>1. Init => IInv
  BY InitIInv
<1>2. IInv /\ [Next]_vars => IInv'
  BY NextStep
<1> QED
  BY <1>1, <1>2, PTL DEF Spec

(* Every variable keeps to its type, and a record names its executor. *)
THEOREM TypeCorrect == Spec => []TypeOK
<1>1. IInv => TypeOK
  BY DEF IInv
<1> QED
  BY <1>1, Inductive, PTL

(* A record that says a live process runs the run is honest (RunFinalizer),  *)
(* but for a cancel request that lands after the run settled, and for a leg  *)
(* that ended with no write of its end that succeeded.                       *)
THEOREM RunningIsHonest == Spec => []RunningHasRunner
<1>1. IInv => RunningHasRunner
  BY DEF IInv, RunningHeld, RunningHasRunner, Executing
<1> QED
  BY <1>1, Inductive, PTL

(* Where processes can look each other up, no sweep and no cancel settles a  *)
(* run without gates under the one process that executes it (is_orphaned and *)
(* the second read of cancel_run).                                           *)
THEOREM LiveRunsAreSpared == Spec => []LiveRunSpared
<1>1. IInv => LiveRunSpared
  BY DEF IInv
<1> QED
  BY <1>1, Inductive, PTL

(* While the outcome of a run without gates is on disk, its one executor is  *)
(* not at it, unless to begin it again: what writes is a cancel or a sweep.  *)
LEMMA OutcomeStep ==
    ASSUME IInv, [Next]_vars, Outcome
    PROVE  disk'.status = disk.status \/ disk'.cancel \/ BegunAgain
<1>1. PICK r \in Proc : owners = {r}
  BY DEF Outcome
<1>2. Alone(r)
  BY <1>1 DEF Outcome, Alone
<1>3. ASSUME NEW p \in Proc, leg[p].pc # "idle"
      PROVE  p = r /\ Beginning(p) /\ ~leg[p].local
  <2>1. p = r
    BY <1>2, <1>3, Blank DEF IInv, OnlyItsRecords
  <2>2. r \in alive /\ ~Executing(r)
    BY <1>1, <1>3, <2>1 DEF IInv, LegRecords, LiveRunSpared, LiveRunLeftAlone, Outcome
  <2>3. ~leg[r].local
    BY <1>2, <1>3, <2>1 DEF IInv, OnlyItsRecords, Outcome
  <2>4. leg[r].pc # "failing"
    BY <2>3 DEF IInv, LegRecords
  <2> QED
    BY <1>3, <2>1, <2>2, <2>3, <2>4 DEF IInv, TypeOK, Leg, Executing, Beginning
<1>4. \A p \in Proc : resuming[p] = NoRecord
  BY <1>2 DEF IInv, OnlyItsRecords
<1>5. CASE UNCHANGED vars
  BY <1>5 DEF vars
<1>6. ASSUME NEW p \in Proc, CancelWrite(p)
      PROVE  disk'.cancel
  BY <1>6 DEF CancelWrite, IInv, TypeOK, Op, Record, OnlyRequests
<1>7. ASSUME NEW p \in Proc
      PROVE  ~SweepWrite(p)
  BY DEF SweepWrite, IInv, OnlyRequests
<1>8. ASSUME NEW p \in Proc, Begin(p)
      PROVE  BegunAgain
  BY <1>8 DEF Begin, BegunAgain, IInv, TypeOK, Leg
<1>9. ASSUME NEW p \in Proc, LegStep(p) \/ OpStep(p), ~CancelWrite(p), ~Begin(p)
      PROVE  disk' = disk
  BY <1>3, <1>7, <1>9 DEF LegStep, OpStep, Beginning, Merge, SnapshotWrite, SettleCancelled, SettleEngine,
         Settle, Finish, WriteFailed, CancelJudge, SweepJudge, Reread, RereadFails, WriteFails, Ops
<1>10. ASSUME NEW p \in Proc,
              \/ Start(p) \/ StartInline(p) \/ Refuse(p) \/ SnapshotRead(p)
              \/ FinishFails(p) \/ Drop(p) \/ DropUnarmed(p) \/ Kill(p)
              \/ ResumeRead(p) \/ ResumeRefused(p) \/ Resume(p)
              \/ CancelHere(p) \/ CancelRead(p) \/ SweepRead(p)
       PROVE  disk' = disk
  BY <1>1, <1>3, <1>4, <1>10 DEF Beginning, Start, StartInline, Refuse, SnapshotRead, FinishFails, Drop,
         DropUnarmed, Kill, ResumeRead, ResumeRefused, Resume, CancelHere, CancelRead, SweepRead, Look
<1> QED
  BY <1>5, <1>6, <1>8, <1>9, <1>10 DEF Next

(* What the one executor of a run without gates recorded stays, whatever     *)
(* older copy a sweep or a cancel still holds, but for a request landing     *)
(* late and for a frame that begins the run again.                           *)
THEOREM OutcomesAreKept == Spec => OutcomeKept
<1>1. IInv /\ [Next]_vars => [Outcome => disk'.status = disk.status \/ disk'.cancel \/ BegunAgain]_vars
  BY OutcomeStep
<1> QED
  BY <1>1, Inductive, PTL DEF Spec, OutcomeKept
=============================================================================
