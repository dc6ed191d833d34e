------------------------- MODULE TaskDispatchProofs -------------------------
(***************************************************************************)
(* Proofs about TaskDispatch, for any calls, task ids, abort ids and       *)
(* bounds.                                                                 *)
(***************************************************************************)
EXTENDS TaskDispatch, FiniteSetTheorems, TLAPS

(* The shape of correlation ids. *)
LEMMA CidFacts ==
    /\ \A c \in Calls, n \in 0..MaxResets : <<c, n>> \in Cid
    /\ \A k \in Cid : k[1] \in Calls /\ k[2] \in 0..MaxResets /\ k = <<k[1], k[2]>>
    /\ NoCid \notin Cid
  BY DispatchAssumption DEF Cid, NoCid

(* Every call has a task id and an abort id. *)
LEMMA IdFacts ==
    /\ \A c \in Calls : TaskOf[c] \in Task /\ AbortIdOf[c] \in AbortId
    /\ \A k \in Cid : TaskIdOf(k) \in Task
  BY DispatchAssumption, CidFacts DEF Task, AbortId, Range, TaskIdOf

(* A call's present correlation id is one. *)
LEMMA CidOfFacts ==
    ASSUME TypeOK, NEW c \in Calls
    PROVE  /\ CidOf(c) \in Cid /\ CidOf(c)[1] = c /\ CidOf(c)[2] = call[c].attempt
           /\ CidOf(c) = <<c, call[c].attempt>>
           /\ call[c] \in CallState
  BY CidFacts DEF TypeOK, CallState, CidOf

-----------------------------------------------------------------------------
(* What the hub's side of the type invariant says. *)
HubTyped ==
    /\ call \in [Calls -> CallState]
    /\ waiters \in SUBSET Cid
    /\ aborts \in [AbortId -> Calls \cup {NoCall}]
    /\ live \in BOOLEAN

LinkTyped == toWorker \in Seq(Frame) /\ toHub \in Seq(Frame)

(* A call's record after a change of its fields is still one. *)
LEMMA CallUpdate ==
    ASSUME TypeOK, NEW c \in Calls, NEW r \in CallState
    PROVE  [call EXCEPT ![c] = r] \in [Calls -> CallState]
  BY DEF TypeOK

(* The record of a new attempt is well typed. *)
LEMMA AttemptTyped ==
    ASSUME NEW n \in 0..MaxResets, NEW b \in BOOLEAN
    PROVE  Attempt(n, b) \in CallState
  BY DEF Attempt, CallState, Pcs, Outcomes

(* So is that of a call that has returned, and the registry of aborts. *)
LEMMA ReturnTyped ==
    ASSUME TypeOK, NEW c \in Calls, NEW o \in Outcomes, Return(c, o)
    PROVE  call' \in [Calls -> CallState] /\ aborts' \in [AbortId -> Calls \cup {NoCall}]
<1>1. call[c] \in CallState /\ AbortIdOf[c] \in AbortId
  BY CidOfFacts, IdFacts
<1>2. call' \in [Calls -> CallState]
  BY <1>1 DEF TypeOK, Return, CallState, Pcs, Outcomes
<1>3. aborts' \in [AbortId -> Calls \cup {NoCall}]
  BY <1>1 DEF TypeOK, Return
<1> QED
  BY <1>2, <1>3

(* The hub's steps keep the hub's types and the frames on the link. *)
LEMMA HubTypes ==
    ASSUME TypeOK, NEW c \in Calls,
           call[c].pc = "silent" => call[c].attempt < MaxResets,
           Start(c) \/ HubStep(c) \/ SendFails(c) \/ SendAbortFails(c)
    PROVE  HubTyped' /\ LinkTyped'
<1> USE DEF HubTyped, LinkTyped
<1>1. /\ call[c] \in CallState /\ CidOf(c) \in Cid /\ AbortIdOf[c] \in AbortId
      /\ call[c].attempt \in 0..MaxResets /\ 0 \in 0..MaxResets
  BY CidOfFacts, IdFacts, DispatchAssumption DEF CallState
<1>2. CASE Start(c)
  <2>1. call' \in [Calls -> CallState]
    BY <1>1, <1>2, AttemptTyped, CallUpdate DEF Start
  <2>2. waiters' \in SUBSET Cid
    BY <1>1, <1>2, CidFacts DEF Start, TypeOK
  <2> QED
    BY <1>1, <1>2, <2>1, <2>2 DEF Start, TypeOK
<1>3. CASE HandOver(c)
  <2>1. [kind |-> "task", cid |-> CidOf(c)] \in Frame
    BY <1>1 DEF Frame, Kinds
  <2>2. toWorker' \in Seq(Frame)
    BY <1>3, <2>1 DEF HandOver, TypeOK
  <2> QED
    BY <1>1, <1>3, <2>2 DEF HandOver, TypeOK, CallState, Pcs
<1>4. CASE SendReturns(c)
  BY <1>1, <1>4 DEF SendReturns, TypeOK, CallState, Pcs
<1>5. CASE SendAborted(c)
  <2>1. "aborted" \in Outcomes
    BY DEF Outcomes
  <2> QED
    BY <1>5, <2>1, ReturnTyped DEF SendAborted, TypeOK
<1>6. CASE SendFails(c)
  <2>1. "transport" \in Outcomes
    BY DEF Outcomes
  <2> QED
    BY <1>6, <2>1, ReturnTyped DEF SendFails, TypeOK
<1>7. CASE Settle(c)
  <2>1. call[c].rx \in Outcomes
    BY <1>1 DEF CallState
  <2> QED
    BY <1>7, <2>1, ReturnTyped DEF Settle, TypeOK
<1>8. CASE Aborted(c)
  BY <1>1, <1>8 DEF Aborted, TypeOK, CallState, Pcs, Outcomes
<1>9. CASE Activity(c)
  BY <1>1, <1>9 DEF Activity, TypeOK, CallState, Pcs
<1>10. CASE WindowOver(c)
  BY <1>1, <1>10 DEF WindowOver, TypeOK, CallState, Pcs, Outcomes
<1>11. CASE Resend(c)
  <2>1. call[c].attempt + 1 \in 0..MaxResets
    BY <1>1, <1>11, DispatchAssumption DEF Resend
  <2>2. call[c].signal \in BOOLEAN
    BY <1>1 DEF CallState
  <2>3. call' \in [Calls -> CallState]
    BY <1>11, <2>1, <2>2, AttemptTyped, CallUpdate DEF Resend
  <2>4. <<c, call[c].attempt + 1>> \in Cid
    BY <2>1, CidFacts
  <2>5. waiters' \in SUBSET Cid
    BY <1>11, <2>4 DEF Resend, TypeOK
  <2> QED
    BY <1>11, <2>3, <2>5 DEF Resend, TypeOK
<1>12. CASE Leave(c)
  BY <1>1, <1>12 DEF Leave, TypeOK, CallState, Pcs
<1>13. CASE SendAbort(c)
  <2>1. [kind |-> "abort", cid |-> CidOf(c)] \in Frame
    BY <1>1 DEF Frame, Kinds
  <2>2. toWorker' \in Seq(Frame)
    BY <1>13, <2>1 DEF SendAbort, TypeOK
  <2>3. call[c].outcome \in Outcomes
    BY <1>1 DEF CallState
  <2> QED
    BY <1>13, <2>2, <2>3, ReturnTyped DEF SendAbort, TypeOK
<1>14. CASE SendAbortFails(c)
  <2>3. call[c].outcome \in Outcomes
    BY <1>1 DEF CallState
  <2> QED
    BY <1>14, <2>3, ReturnTyped DEF SendAbortFails, TypeOK
<1> QED
  BY <1>2, <1>3, <1>4, <1>5, <1>6, <1>7, <1>8, <1>9, <1>10, <1>11, <1>12, <1>13, <1>14
     DEF HubStep

-----------------------------------------------------------------------------
(* What each call keeps, beyond its waiter: the first attempt is number 0, *)
(* a silent one is not the last, an answer in the oneshot is the present attempt's and took its    *)
(* waiter away, a call that tells the worker to stop has none any more,    *)
(* and an answer is the outcome only of a call that has returned.          *)
CallInv(c) ==
    /\ call[c].pc = "idle" => call[c].attempt = 0
    /\ call[c].pc = "silent" => call[c].attempt < MaxResets
    /\ call[c].rx # "none" => /\ call[c].rx \in Terminal /\ call[c].from = CidOf(c)
                              /\ CidOf(c) \notin waiters
    /\ call[c].pc = "stopping" => CidOf(c) \notin waiters
    /\ call[c].outcome \in Terminal => call[c].pc = "done" /\ call[c].from = CidOf(c)

(* The waiters of one call: its present attempt's, while it has not returned. *)
OwnWaiter(c) ==
    \A k \in waiters :
        k[1] = c => call[c].pc \notin {"idle", "done"} /\ k = CidOf(c)

HubInv == \A c \in Calls : CallInv(c) /\ OwnWaiter(c)

(* A step that touches one call has to be looked at for that call only. *)
LEMMA OneCall ==
    ASSUME TypeOK, HubInv, NEW c \in Calls,
           \A d \in Calls \ {c} : call'[d] = call[d],
           \A k \in Cid : k[1] # c => (k \in waiters' => k \in waiters),
           waiters' \in SUBSET Cid,
           CallInv(c)', OwnWaiter(c)'
    PROVE  HubInv'
<1> SUFFICES ASSUME NEW d \in Calls, d # c
             PROVE  CallInv(d)' /\ OwnWaiter(d)'
  BY DEF HubInv
<1>1. call'[d] = call[d] /\ CidOf(d)' = CidOf(d) /\ CidOf(d) \in Cid /\ CidOf(d)[1] = d
  BY CidOfFacts DEF CidOf
<1>2. CidOf(d) \in waiters' => CidOf(d) \in waiters
  BY <1>1
<1>3. CallInv(d)'
  BY <1>1, <1>2 DEF HubInv, CallInv
<1>4. OwnWaiter(d)'
  BY <1>1 DEF HubInv, OwnWaiter
<1> QED
  BY <1>3, <1>4

(* Returning settles a call: no waiter of it is left. *)
LEMMA Returned ==
    ASSUME TypeOK, HubInv, NEW c \in Calls, NEW o \in Outcomes, Return(c, o),
           waiters' \in SUBSET waiters, CidOf(c) \notin waiters',
           o \in Terminal => call[c].from = CidOf(c)
    PROVE  HubInv'
<1>1. call[c] \in CallState
  BY CidOfFacts
<1>2. /\ call'[c].pc = "done" /\ call'[c].outcome = o /\ call'[c].rx = "none"
      /\ call'[c].from = call[c].from /\ call'[c].attempt = call[c].attempt
  BY <1>1 DEF Return, TypeOK, CallState
<1>3. CidOf(c)' = CidOf(c)
  BY <1>2 DEF CidOf
<1>4. CallInv(c)'
  BY <1>2, <1>3 DEF CallInv
<1>5. OwnWaiter(c)'
  BY <1>3 DEF OwnWaiter, HubInv
<1>6. \A d \in Calls \ {c} : call'[d] = call[d]
  BY DEF Return, TypeOK
<1> QED
  BY <1>4, <1>5, <1>6, OneCall DEF TypeOK

(* Moving on without returning: the attempt, its answer and its waiter are *)
(* what they were, or the waiter is gone.                                  *)
LEMMA MovedOn ==
    ASSUME TypeOK, HubInv, NEW c \in Calls,
           call[c].pc \notin {"idle", "done"},
           call'[c].pc \notin {"idle", "done"},
           call'[c].rx = call[c].rx, call'[c].from = call[c].from,
           call'[c].attempt = call[c].attempt,
           call'[c].outcome \notin Terminal,
           call'[c].pc = "silent" => call[c].attempt < MaxResets,
           call'[c].pc = "stopping" => CidOf(c) \notin waiters',
           \A d \in Calls \ {c} : call'[d] = call[d],
           waiters' \in SUBSET waiters
    PROVE  HubInv'
<1>1. CidOf(c)' = CidOf(c)
  BY DEF CidOf
<1>2. CallInv(c)'
  BY <1>1 DEF CallInv, HubInv
<1>3. OwnWaiter(c)'
  BY <1>1 DEF OwnWaiter, HubInv
<1> QED
  BY <1>2, <1>3, OneCall DEF TypeOK

(* A new attempt starts with its own waiter and nothing else. *)
LEMMA Attempted ==
    ASSUME TypeOK, HubInv, NEW c \in Calls, NEW n \in 0..MaxResets, NEW b \in BOOLEAN,
           call' = [call EXCEPT ![c] = Attempt(n, b)],
           waiters' \in SUBSET Cid,
           \A k \in waiters' : k[1] = c => k = <<c, n>>,
           \A k \in Cid : k[1] # c => (k \in waiters' => k \in waiters)
    PROVE  HubInv'
<1>1. /\ call'[c].pc = "sending" /\ call'[c].rx = "none" /\ call'[c].attempt = n
      /\ call'[c].outcome = "none"
  BY DEF TypeOK, Attempt
<1>2. CidOf(c)' = <<c, n>>
  BY <1>1 DEF CidOf
<1>3. CallInv(c)'
  BY <1>1 DEF CallInv, Terminal
<1>4. OwnWaiter(c)'
  BY <1>1, <1>2 DEF OwnWaiter
<1>5. \A d \in Calls \ {c} : call'[d] = call[d]
  BY DEF TypeOK
<1> QED
  BY <1>3, <1>4, <1>5, OneCall

(* The hub's own steps keep its invariant. *)
LEMMA HubKeeps ==
    ASSUME TypeOK, HubInv, NEW c \in Calls,
           Start(c) \/ HubStep(c) \/ SendFails(c) \/ SendAbortFails(c)
    PROVE  HubInv'
<1>1. /\ call[c] \in CallState /\ CidOf(c) \in Cid /\ CidOf(c) = <<c, call[c].attempt>>
      /\ call[c].attempt \in 0..MaxResets /\ 0 \in 0..MaxResets
      /\ call[c].rx \in Outcomes /\ call[c].outcome \in Outcomes
      /\ call[c].signal \in BOOLEAN
  BY CidOfFacts, DispatchAssumption DEF CallState
<1>2. CallInv(c) /\ OwnWaiter(c)
  BY DEF HubInv
<1>3. CASE Start(c)
  <2>1. \A k \in waiters' : k[1] = c => k = <<c, 0>>
    BY <1>2, <1>3 DEF Start, OwnWaiter
  <2>2. waiters' \in SUBSET Cid
    <3>1. <<c, 0>> \in Cid
      BY <1>1, CidFacts
    <3> QED
      BY <1>3, <3>1 DEF Start, TypeOK
  <2>3. \A k \in Cid : k[1] # c => (k \in waiters' => k \in waiters)
    BY <1>3 DEF Start
  <2> QED
    BY <1>1, <1>3, <2>1, <2>2, <2>3, Attempted DEF Start
<1>4. CASE HandOver(c)
  <2>1. /\ call[c].pc \notin {"idle", "done"} /\ call'[c].pc \notin {"idle", "done"}
        /\ call'[c].rx = call[c].rx /\ call'[c].from = call[c].from
        /\ call'[c].attempt = call[c].attempt /\ call'[c].outcome \notin Terminal
        /\ call'[c].pc = "handed"
    BY <1>1, <1>2, <1>4 DEF HandOver, TypeOK, CallState, CallInv, Terminal
  <2>2. /\ \A d \in Calls \ {c} : call'[d] = call[d]
        /\ waiters' \in SUBSET waiters
    BY <1>4 DEF HandOver, TypeOK
  <2> QED
    BY <1>1, <2>1, <2>2, MovedOn
<1>5. CASE SendReturns(c)
  BY <1>1, <1>2, <1>5, MovedOn DEF SendReturns, TypeOK, CallInv
<1>6. CASE SendAborted(c)
  BY <1>1, <1>6, Returned DEF SendAborted, Outcomes, Terminal
<1>7. CASE SendFails(c)
  BY <1>1, <1>7, Returned DEF SendFails, Outcomes, Terminal
<1>8. CASE Settle(c)
  BY <1>1, <1>2, <1>8, Returned DEF Settle, CallInv
<1>9. CASE Aborted(c)
  BY <1>1, <1>9, MovedOn DEF Aborted, Waiting, TypeOK, Terminal
<1>10. CASE Activity(c)
  <2>1. /\ call[c].pc \notin {"idle", "done"} /\ call'[c].pc \notin {"idle", "done"}
        /\ call'[c].rx = call[c].rx /\ call'[c].from = call[c].from
        /\ call'[c].attempt = call[c].attempt /\ call'[c].outcome \notin Terminal
        /\ call'[c].pc = "working"
    BY <1>1, <1>2, <1>10 DEF Activity, Waiting, TypeOK, CallState, CallInv, Terminal
  <2>2. /\ \A d \in Calls \ {c} : call'[d] = call[d]
        /\ waiters' \in SUBSET waiters
    BY <1>10 DEF Activity, TypeOK
  <2> QED
    BY <1>1, <2>1, <2>2, MovedOn
<1>11. CASE WindowOver(c)
  <2>1. /\ call[c].pc \notin {"idle", "done"} /\ call'[c].pc \notin {"idle", "done"}
        /\ call'[c].rx = call[c].rx /\ call'[c].from = call[c].from
        /\ call'[c].attempt = call[c].attempt /\ call'[c].outcome \notin Terminal
        /\ call'[c].pc \in {"silent", "leaving"}
        /\ call'[c].pc = "silent" => call[c].attempt < MaxResets
    BY <1>1, <1>2, <1>11 DEF WindowOver, Waiting, TypeOK, CallState, CallInv, Terminal
  <2>2. /\ \A d \in Calls \ {c} : call'[d] = call[d]
        /\ waiters' \in SUBSET waiters
    BY <1>11 DEF WindowOver, TypeOK
  <2> QED
    BY <1>1, <2>1, <2>2, MovedOn
<1>12. CASE Resend(c)
  <2>1. call[c].attempt + 1 \in 0..MaxResets
    BY <1>1, <1>2, <1>12, DispatchAssumption DEF Resend, CallInv
  <2>2. \A k \in waiters' : k[1] = c => k = <<c, call[c].attempt + 1>>
    BY <1>2, <1>12 DEF Resend, OwnWaiter
  <2>3. waiters' \in SUBSET Cid
    BY <1>12, <2>1, CidFacts DEF Resend, TypeOK
  <2>4. \A k \in Cid : k[1] # c => (k \in waiters' => k \in waiters)
    BY <1>12 DEF Resend
  <2> QED
    BY <1>1, <1>12, <2>1, <2>2, <2>3, <2>4, Attempted DEF Resend
<1>13. CASE Leave(c)
  <2>1. /\ call[c].pc \notin {"idle", "done"} /\ call'[c].pc \notin {"idle", "done"}
        /\ call'[c].rx = call[c].rx /\ call'[c].from = call[c].from
        /\ call'[c].attempt = call[c].attempt /\ call'[c].outcome \notin Terminal
        /\ call'[c].pc = "stopping"
    BY <1>1, <1>2, <1>13 DEF Leave, TypeOK, CallState, CallInv, Terminal
  <2>2. /\ \A d \in Calls \ {c} : call'[d] = call[d]
        /\ waiters' \in SUBSET waiters
    BY <1>13 DEF Leave, TypeOK
  <2> QED
    BY <1>1, <2>1, <2>2, MovedOn, <1>13 DEF Leave
<1>14. CASE SendAbort(c)
  BY <1>1, <1>2, <1>14, Returned DEF SendAbort, CallInv
<1>15. CASE SendAbortFails(c)
  BY <1>1, <1>2, <1>15, Returned DEF SendAbortFails, CallInv
<1> QED
  BY <1>3, <1>4, <1>5, <1>6, <1>7, <1>8, <1>9, <1>10, <1>11, <1>12, <1>13, <1>14, <1>15
     DEF HubStep

(* A step that changes none of the fields the invariant speaks of. *)
LEMMA OthersOnly ==
    ASSUME HubInv, waiters' = waiters,
           \A d \in Calls :
              /\ call'[d].pc = call[d].pc /\ call'[d].attempt = call[d].attempt
              /\ call'[d].rx = call[d].rx /\ call'[d].from = call[d].from
              /\ call'[d].outcome = call[d].outcome
    PROVE  HubInv'
<1> SUFFICES ASSUME NEW d \in Calls
             PROVE  CallInv(d)' /\ OwnWaiter(d)'
  BY DEF HubInv
<1>1. CidOf(d)' = CidOf(d)
  BY DEF CidOf
<1>2. CallInv(d)'
  BY <1>1 DEF HubInv, CallInv
<1>3. OwnWaiter(d)'
  BY <1>1 DEF HubInv, OwnWaiter
<1> QED
  BY <1>2, <1>3

(* A step after which every call is where it was, in the same attempt. *)
SameAttempts ==
    \A d \in Calls : call'[d].pc = call[d].pc /\ call'[d].attempt = call[d].attempt

(* The signals. *)
LEMMA SignalsKeep ==
    ASSUME TypeOK, HubInv, AbortAll \/ \E a \in AbortId : AbortTask(a)
    PROVE  HubTyped' /\ LinkTyped' /\ HubInv' /\ SameAttempts
<1> USE DEF HubTyped, LinkTyped
<1>1. CASE AbortAll
  <2>1. call' \in [Calls -> CallState]
    <3>1. \A r \in CallState : [r EXCEPT !.signal = TRUE] \in CallState
      BY DEF CallState
    <3> QED
      BY <1>1, <3>1 DEF AbortAll, TypeOK
  <2>2. \A d \in Calls :
              /\ call'[d].pc = call[d].pc /\ call'[d].attempt = call[d].attempt
              /\ call'[d].rx = call[d].rx /\ call'[d].from = call[d].from
              /\ call'[d].outcome = call[d].outcome
    BY <1>1 DEF AbortAll, TypeOK, CallState
  <2>3. HubInv'
    BY <1>1, <2>2, OthersOnly DEF AbortAll
  <2> QED
    BY <1>1, <2>1, <2>2, <2>3 DEF AbortAll, TypeOK, SameAttempts
<1>2. ASSUME NEW a \in AbortId, AbortTask(a)
      PROVE  HubTyped' /\ LinkTyped' /\ HubInv' /\ SameAttempts
  <2>1. aborts[a] \in Calls
    BY <1>2 DEF AbortTask, TypeOK
  <2>2. call[aborts[a]] \in CallState
    BY <2>1 DEF TypeOK
  <2>3. call' \in [Calls -> CallState]
    BY <1>2, <2>1, <2>2 DEF AbortTask, TypeOK, CallState
  <2>4. \A d \in Calls :
              /\ call'[d].pc = call[d].pc /\ call'[d].attempt = call[d].attempt
              /\ call'[d].rx = call[d].rx /\ call'[d].from = call[d].from
              /\ call'[d].outcome = call[d].outcome
    BY <1>2, <2>1, <2>2 DEF AbortTask, TypeOK, CallState
  <2>5. HubInv'
    BY <1>2, <2>4, OthersOnly DEF AbortTask
  <2> QED
    BY <1>2, <2>3, <2>4, <2>5 DEF AbortTask, TypeOK, SameAttempts
<1> QED
  BY <1>1, <1>2

(* The pump. *)
LEMMA RouteKeeps ==
    ASSUME TypeOK, HubInv, Route
    PROVE  HubTyped' /\ LinkTyped' /\ HubInv' /\ SameAttempts
<1> USE DEF HubTyped, LinkTyped
<1> DEFINE m == Head(toHub)
<1>1. toHub' \in Seq(Frame) /\ m \in Frame
  <2>1. toHub \in Seq(Frame) /\ toHub # <<>> /\ toHub' = Tail(toHub)
    BY DEF Route, TypeOK
  <2> QED
    BY <2>1
<1>2. m.kind \in Kinds /\ m.cid \in Cid
  BY <1>1 DEF Frame
<1> HIDE DEF m
<1>3. CASE WaiterOf(m) = {}
  <2>1. UNCHANGED <<call, waiters, aborts, live, toWorker>>
    BY <1>3 DEF Route, m
  <2>2. HubInv'
    BY <2>1, OthersOnly
  <2> QED
    BY <1>1, <2>1, <2>2 DEF TypeOK, SameAttempts
<1>4. CASE WaiterOf(m) # {}
  <2>1. PICK k \in WaiterOf(m) :
           /\ waiters' = IF m.kind \in Terminal THEN waiters \ {k} ELSE waiters
           /\ call' = [call EXCEPT
                         ![k[1]].activity = TRUE,
                         ![k[1]].held = IF m.kind = "session held" THEN TRUE
                                     ELSE IF m.kind = "session resumed" THEN FALSE ELSE @,
                         ![k[1]].rx = IF m.kind \in Terminal THEN m.kind ELSE @,
                         ![k[1]].from = IF m.kind \in Terminal THEN m.cid ELSE @]
    BY <1>4 DEF Route, m
  <2>2. k \in waiters /\ k = m.cid /\ k \in Cid /\ k[1] \in Calls
    BY <1>2, CidFacts DEF WaiterOf
  <2> DEFINE c == k[1]
  <2>3. c \in Calls /\ call[c] \in CallState
    BY <2>2, CidOfFacts
  <2>4. CallInv(c) /\ OwnWaiter(c)
    BY <2>3 DEF HubInv
  <2>5. k = CidOf(c) /\ call[c].pc \notin {"idle", "done"}
    BY <2>2, <2>4 DEF OwnWaiter
  <2> HIDE DEF c
  <2>6. call' \in [Calls -> CallState]
    <3>1. m.kind \in Terminal => m.kind \in Outcomes
      BY DEF Terminal, Outcomes
    <3> DEFINE r == [call[c] EXCEPT
                       !.activity = TRUE,
                       !.held = IF m.kind = "session held" THEN TRUE
                                ELSE IF m.kind = "session resumed" THEN FALSE ELSE @,
                       !.rx = IF m.kind \in Terminal THEN m.kind ELSE @,
                       !.from = IF m.kind \in Terminal THEN m.cid ELSE @]
    <3>2. r \in CallState
      BY <1>2, <2>3, <3>1 DEF CallState
    <3>3. call' = [call EXCEPT ![c] = r]
      BY <2>1, <2>3 DEF TypeOK, c
    <3> QED
      BY <2>3, <3>2, <3>3, CallUpdate
  <2>7. /\ call'[c].pc = call[c].pc /\ call'[c].attempt = call[c].attempt
        /\ call'[c].outcome = call[c].outcome
        /\ call'[c].rx = IF m.kind \in Terminal THEN m.kind ELSE call[c].rx
        /\ call'[c].from = IF m.kind \in Terminal THEN m.cid ELSE call[c].from
        /\ \A d \in Calls \ {c} : call'[d] = call[d]
    BY <2>1, <2>2, <2>3 DEF TypeOK, CallState, c
  <2>8. CidOf(c)' = CidOf(c)
    BY <2>7 DEF CidOf
  <2>9. CallInv(c)'
    BY <2>1, <2>2, <2>4, <2>5, <2>7, <2>8 DEF CallInv
  <2>10. waiters' \in SUBSET waiters
    BY <2>1
  <2>11. OwnWaiter(c)'
    BY <2>4, <2>7, <2>8, <2>10 DEF OwnWaiter
  <2>12. HubInv'
    BY <2>3, <2>7, <2>9, <2>10, <2>11, OneCall DEF TypeOK
  <2> QED
    BY <1>1, <2>6, <2>7, <2>10, <2>12 DEF Route, TypeOK, SameAttempts
<1> QED
  BY <1>3, <1>4

-----------------------------------------------------------------------------
(* The worker.  Stages that hold a task id, an admission guard, a permit.  *)
RegStages ==
    {"registered", "queued", "cancelled", "turn", "running", "held", "replied", "closing"}

HoldStages == {"admitted", "refused", "rejected"} \cup RegStages

ExecStages == {"turn", "running", "held", "replied"}

(* The handlers h that are in one of these stages. *)
In(h, stages) == {k \in Cid : h[k] \in stages}

(* The sets of handlers the properties speak of, by their stages. *)
LEMMA StageFacts ==
    /\ RegStages \subseteq HoldStages /\ ExecStages \subseteq RegStages
    /\ Registered = In(handler, RegStages)
    /\ Executing = In(handler, ExecStages)
    /\ {k \in Cid : handler[k] \in {"admitted", "refused", "rejected"}} \cup Registered
          = In(handler, HoldStages)
  BY DEF RegStages, HoldStages, ExecStages, Registered, Executing, In

(* The same sets in the next state. *)
LEMMA StageFactsNext ==
    /\ Registered' = In(handler', RegStages)
    /\ Executing' = In(handler', ExecStages)
    /\ {k \in Cid : handler'[k] \in {"admitted", "refused", "rejected"}} \cup Registered'
          = In(handler', HoldStages)
  BY DEF RegStages, HoldStages, ExecStages, Registered, Executing, In

(* What a handler in stage s counts among those in some stages. *)
Weight(s, stages) == IF s \in stages THEN 1 ELSE 0

(* What one handler's step does to the number of handlers in some stages. *)
LEMMA Counting ==
    ASSUME NEW h \in [Cid -> Stages], NEW k \in Cid, NEW s \in Stages, NEW T,
           IsFiniteSet(In(h, T)), NEW g, g = [h EXCEPT ![k] = s]
    PROVE  /\ IsFiniteSet(In(g, T))
           /\ Cardinality(In(h, T)) \in Nat
           /\ Cardinality(In(g, T)) =
                Cardinality(In(h, T)) + Weight(s, T) - Weight(h[k], T)
<1>1. Cardinality(In(h, T)) \in Nat
  BY FS_CardinalityType
<1>2. CASE (s \in T) = (h[k] \in T)
  <2>1. In(g, T) = In(h, T)
    BY <1>2 DEF In
  <2> QED
    BY <1>1, <1>2, <2>1 DEF Weight
<1>3. CASE s \in T /\ h[k] \notin T
  <2>1. In(g, T) = In(h, T) \cup {k} /\ k \notin In(h, T)
    BY <1>3 DEF In
  <2>2. /\ IsFiniteSet(In(h, T) \cup {k})
        /\ Cardinality(In(h, T) \cup {k}) = Cardinality(In(h, T)) + 1
    BY <2>1, FS_AddElement
  <2>3. IsFiniteSet(In(g, T)) /\ Cardinality(In(g, T)) = Cardinality(In(h, T)) + 1
    BY <2>1, <2>2, Zenon
  <2> QED
    BY <1>1, <1>3, <2>3, SMT DEF Weight
<1>4. CASE s \notin T /\ h[k] \in T
  <2>1. In(g, T) = In(h, T) \ {k} /\ k \in In(h, T)
    BY <1>4 DEF In
  <2>2. /\ IsFiniteSet(In(h, T) \ {k})
        /\ Cardinality(In(h, T) \ {k}) = Cardinality(In(h, T)) - 1
    BY <2>1, FS_RemoveElement
  <2>3. IsFiniteSet(In(g, T)) /\ Cardinality(In(g, T)) = Cardinality(In(h, T)) - 1
    BY <2>1, <2>2, Zenon
  <2> QED
    BY <1>1, <1>4, <2>3 DEF Weight
<1> QED
  BY <1>2, <1>3, <1>4

(* A task frame goes out once: its correlation id is spent when the send   *)
(* is handed over, and no handler runs under an id that is not spent.      *)
Spent(k) ==
    \/ k[2] < call[k[1]].attempt
    \/ k[2] = call[k[1]].attempt /\ call[k[1]].pc \notin {"idle", "sending"}

SentOnce ==
    /\ \A k \in Cid : handler[k] # "none" => Spent(k)
    /\ \A i \in 1..Len(toWorker) : toWorker[i].kind = "task" =>
          /\ Spent(toWorker[i].cid) /\ handler[toWorker[i].cid] = "none"
          /\ \A j \in 1..Len(toWorker) :
                toWorker[j].kind = "task" /\ toWorker[j].cid = toWorker[i].cid => i = j

(* A task id leads to a run of that task. *)
OwnTask == \A t \in Task : running[t] # NoCid => TaskIdOf(running[t]) = t

WorkInv ==
    /\ RunsReachable /\ NothingStranded /\ OwnTask
    /\ IsFiniteSet(In(handler, HoldStages))
    /\ SentOnce

(* The frames on the way to the worker. *)
LEMMA FrameFacts ==
    ASSUME TypeOK
    PROVE  \A i \in 1..Len(toWorker) :
              toWorker[i] \in Frame /\ toWorker[i].cid \in Cid /\ toWorker[i].kind \in Kinds
<1>1. \A i \in 1..Len(toWorker) : toWorker[i] \in Frame
  BY DEF TypeOK
<1>2. \A m \in Frame : m.cid \in Cid /\ m.kind \in Kinds
  BY DEF Frame
<1> QED
  BY <1>1, <1>2

(* A handler that has started moves on: no task frame is about it. *)
LEMMA StillSentOnce ==
    ASSUME TypeOK, SentOnce, NEW k \in Cid, NEW s \in Stages, handler[k] # "none",
           Becomes(k, s), UNCHANGED <<call, toWorker>>
    PROVE  SentOnce'
<1>1. \A j \in Cid : handler'[j] = IF j = k THEN s ELSE handler[j]
  BY DEF TypeOK, Becomes
<1>2. \A j \in Cid : Spent(j)' = Spent(j)
  BY DEF Spent
<1>3. Spent(k)
  BY DEF SentOnce
<1>4. \A i \in 1..Len(toWorker) : toWorker[i] \in Frame /\ toWorker[i].cid \in Cid
  BY FrameFacts
<1>5. \A j \in Cid : handler'[j] # "none" => Spent(j)'
  BY <1>1, <1>2, <1>3 DEF SentOnce
<1>6. \A i \in 1..Len(toWorker) : toWorker[i].kind = "task" =>
          Spent(toWorker[i].cid)' /\ handler'[toWorker[i].cid] = "none"
  BY <1>1, <1>2, <1>4 DEF SentOnce
<1> QED
  BY <1>5, <1>6 DEF SentOnce, Spent

(* The counts of admitted and executing handlers after one of them moved. *)
LEMMA Counts ==
    ASSUME TypeOK, WorkInv, NEW k \in Cid, NEW s \in Stages, Becomes(k, s),
           admitted' = admitted + Weight(s, HoldStages)
                                - Weight(handler[k], HoldStages),
           s \in ExecStages => handler[k] \in ExecStages \/ Cardinality(Executing) < Concurrency
    PROVE  /\ IsFiniteSet(In(handler', HoldStages))
           /\ admitted' = Cardinality(In(handler', HoldStages))
           /\ Cardinality(In(handler', ExecStages)) <= Concurrency
           /\ admitted' \in Nat
<1>1. handler \in [Cid -> Stages] /\ handler' = [handler EXCEPT ![k] = s]
  BY DEF TypeOK, Becomes
<1>2. /\ IsFiniteSet(In(handler, HoldStages))
      /\ admitted = Cardinality(In(handler, HoldStages))
      /\ Cardinality(In(handler, ExecStages)) <= Concurrency
      /\ Executing = In(handler, ExecStages)
  BY StageFacts DEF WorkInv, NothingStranded
<1>3. IsFiniteSet(In(handler, ExecStages))
  <2>1. In(handler, ExecStages) \subseteq In(handler, HoldStages)
    BY StageFacts DEF In
  <2> QED
    BY <1>2, <2>1, FS_Subset
<1>4. /\ IsFiniteSet(In(handler', HoldStages))
      /\ Cardinality(In(handler, HoldStages)) \in Nat
      /\ Cardinality(In(handler', HoldStages)) = Cardinality(In(handler, HoldStages))
            + Weight(s, HoldStages) - Weight(handler[k], HoldStages)
  BY <1>1, <1>2, Counting, Zenon
<1>5. /\ Cardinality(In(handler, ExecStages)) \in Nat
      /\ Cardinality(In(handler', ExecStages)) = Cardinality(In(handler, ExecStages))
            + Weight(s, ExecStages) - Weight(handler[k], ExecStages)
  BY <1>1, <1>3, Counting, Zenon
<1>6. admitted' = Cardinality(In(handler', HoldStages))
  BY <1>2, <1>4 DEF Weight
<1>7. Cardinality(In(handler', ExecStages)) <= Concurrency
  BY <1>2, <1>5, DispatchAssumption DEF Weight
<1>8. Cardinality(In(handler', HoldStages)) \in Nat
  BY <1>4, FS_CardinalityType
<1> QED
  BY <1>4, <1>6, <1>7, <1>8

(* A step that keeps the task id, the guard and the permit a handler has. *)
LEMMA Moves ==
    ASSUME TypeOK, WorkInv, NEW k \in Cid, NEW s \in Stages, Becomes(k, s),
           handler[k] # "none",
           s \in RegStages <=> handler[k] \in RegStages,
           s \in HoldStages <=> handler[k] \in HoldStages,
           s \in ExecStages => handler[k] \in ExecStages \/ Cardinality(Executing) < Concurrency,
           UNCHANGED <<call, toWorker, running, admitted>>
    PROVE  WorkInv' /\ handler' \in [Cid -> Stages]
<1>1. handler \in [Cid -> Stages] /\ handler' = [handler EXCEPT ![k] = s]
  BY DEF TypeOK, Becomes
<1>2. admitted' = admitted + Weight(s, HoldStages) - Weight(handler[k], HoldStages)
  BY DEF Weight, TypeOK
<1>3. /\ IsFiniteSet(In(handler', HoldStages))
      /\ admitted' = Cardinality(In(handler', HoldStages))
      /\ Cardinality(In(handler', ExecStages)) <= Concurrency
  BY <1>2, Counts
<1>4. In(handler', RegStages) = In(handler, RegStages)
  BY <1>1 DEF In
<1>5. Registered' = Registered
  BY <1>4, StageFacts DEF Registered, In, RegStages
<1>6. RunsReachable'
  BY <1>5 DEF RunsReachable, WorkInv
<1>7. NothingStranded'
  <2>1. \A t \in Task : running'[t] # NoCid => running'[t] \in Registered'
    BY <1>5 DEF NothingStranded, WorkInv
  <2> QED
    BY <1>3, <2>1, StageFactsNext DEF NothingStranded
<1>8. SentOnce'
  BY StillSentOnce DEF WorkInv
<1>9. OwnTask'
  BY DEF OwnTask, WorkInv
<1> QED
  BY <1>1, <1>3, <1>6, <1>7, <1>8, <1>9 DEF WorkInv

(* The handler's steps that only move it on. *)
LEMMA HandlerMoves ==
    ASSUME TypeOK, WorkInv, NEW k \in Cid,
           \/ Unserved(k) \/ Answer(k) \/ TakeSlot(k) \/ AbortQueued(k) \/ AcquireTurn(k)
           \/ Hold(k) \/ HandBack(k) \/ Finish(k) \/ DropPermit(k)
    PROVE  WorkInv' /\ handler' \in [Cid -> Stages]
<1> USE DEF Stages, RegStages, HoldStages, ExecStages, hubVars
<1>1. CASE Unserved(k)
  BY <1>1, Moves DEF Unserved
<1>2. CASE Answer(k)
  <2>1. PICK s \in {"unserved", "shed", "refused", "registered", "cancelled"} :
           handler[k] = s /\ Becomes(k, Owed[s].next)
    BY <1>2 DEF Answer, Owed
  <2>2. UNCHANGED <<call, toWorker, running, admitted>>
    BY <1>2 DEF Answer
  <2>3. CASE s \in {"unserved", "shed"}
    <3>1. Owed[s].next = "gone"
      BY <2>3 DEF Owed
    <3> QED
      BY <2>1, <2>2, <2>3, <3>1, Moves
  <2>4. CASE s = "refused"
    BY <2>1, <2>2, <2>4, Moves DEF Owed
  <2>5. CASE s = "registered"
    BY <2>1, <2>2, <2>5, Moves DEF Owed
  <2>6. CASE s = "cancelled"
    BY <2>1, <2>2, <2>6, Moves DEF Owed
  <2> QED
    BY <2>1, <2>3, <2>4, <2>5, <2>6
<1>3. CASE TakeSlot(k)
  BY <1>3, Moves DEF TakeSlot
<1>4. CASE AbortQueued(k)
  BY <1>4, Moves DEF AbortQueued
<1>5. CASE AcquireTurn(k)
  BY <1>5, Moves DEF AcquireTurn
<1>6. CASE Hold(k)
  BY <1>6, Moves DEF Hold
<1>7. CASE HandBack(k)
  BY <1>7, Moves DEF HandBack
<1>8. CASE Finish(k)
  BY <1>8, Moves DEF Finish
<1>9. CASE DropPermit(k)
  BY <1>9, Moves DEF DropPermit
<1> QED
  BY <1>1, <1>2, <1>3, <1>4, <1>5, <1>6, <1>7, <1>8, <1>9

(* The load-shed gate. *)
LEMMA AdmitKeeps ==
    ASSUME TypeOK, WorkInv, NEW k \in Cid, Admit(k)
    PROVE  WorkInv' /\ handler' \in [Cid -> Stages] /\ admitted' \in 0..MaxPending
<1> USE DEF Stages, RegStages, HoldStages, ExecStages, hubVars
<1>1. CASE admitted >= MaxPending
  BY <1>1, Moves DEF Admit, TypeOK
<1>2. CASE ~(admitted >= MaxPending)
  <2>1. /\ Becomes(k, "admitted") /\ handler[k] = "spawned" /\ admitted' = admitted + 1
        /\ UNCHANGED <<call, toWorker, running>>
    BY <1>2 DEF Admit
  <2>2. admitted \in 0..MaxPending /\ admitted' \in 0..MaxPending
    BY <1>2, <2>1, DispatchAssumption DEF TypeOK
  <2>3. admitted' = admitted + Weight("admitted", HoldStages) - Weight(handler[k], HoldStages)
    BY <2>1, <2>2 DEF Weight
  <2>4. /\ IsFiniteSet(In(handler', HoldStages))
        /\ admitted' = Cardinality(In(handler', HoldStages))
        /\ Cardinality(In(handler', ExecStages)) <= Concurrency
    BY <2>1, <2>3, Counts
  <2>5. handler' \in [Cid -> Stages] /\ Registered' = Registered
    BY <2>1 DEF Becomes, TypeOK, Registered
  <2>6. RunsReachable'
    BY <2>1, <2>5 DEF RunsReachable, WorkInv
  <2>7. \A t \in Task : running'[t] # NoCid => running'[t] \in Registered'
    BY <2>1, <2>5 DEF NothingStranded, WorkInv
  <2>8. NothingStranded'
    BY <2>4, <2>7, StageFactsNext DEF NothingStranded
  <2>9. SentOnce'
    BY <2>1, StillSentOnce DEF WorkInv
  <2>10. OwnTask'
    BY <2>1 DEF OwnTask, WorkInv
  <2> QED
    BY <2>2, <2>4, <2>5, <2>6, <2>8, <2>9, <2>10 DEF WorkInv
<1> QED
  BY <1>1, <1>2

(* Claiming the task id. *)
LEMMA RegisterKeeps ==
    ASSUME TypeOK, WorkInv, NEW k \in Cid, RegisterRunning(k)
    PROVE  WorkInv' /\ handler' \in [Cid -> Stages] /\ running' \in [Task -> Cid \cup {NoCid}]
<1> USE DEF Stages, RegStages, HoldStages, ExecStages, hubVars
<1> DEFINE t == TaskIdOf(k)
<1>1. t \in Task
  BY IdFacts
<1>2. CASE running[t] # NoCid
  BY <1>2, Moves DEF RegisterRunning, TypeOK
<1>3. CASE running[t] = NoCid
  <2>1. /\ Becomes(k, "registered") /\ handler[k] = "admitted"
        /\ running' = [running EXCEPT ![t] = k]
        /\ UNCHANGED <<call, toWorker, admitted>>
    BY <1>3 DEF RegisterRunning
  <2>2. admitted' = admitted + Weight("registered", HoldStages) - Weight(handler[k], HoldStages)
    BY <2>1 DEF Weight, TypeOK
  <2>3. /\ IsFiniteSet(In(handler', HoldStages))
        /\ admitted' = Cardinality(In(handler', HoldStages))
        /\ Cardinality(In(handler', ExecStages)) <= Concurrency
    BY <2>1, <2>2, Counts
  <2>4. handler' \in [Cid -> Stages] /\ Registered' = Registered \cup {k}
    BY <2>1 DEF Becomes, TypeOK, Registered
  <2>5. running' \in [Task -> Cid \cup {NoCid}] /\ running'[t] = k
        /\ \A u \in Task : u # t => running'[u] = running[u]
    BY <1>1, <2>1 DEF TypeOK
  <2>6. RunsReachable'
    <3>1. SUFFICES ASSUME NEW j \in Registered, j # k
                   PROVE  running'[TaskIdOf(j)] = j
      BY <2>4, <2>5 DEF RunsReachable
    <3>2. j \in Cid /\ TaskIdOf(j) \in Task /\ running[TaskIdOf(j)] = j
      BY IdFacts DEF Registered, RunsReachable, WorkInv
    <3>3. TaskIdOf(j) # t
      BY <1>3, <3>2, CidFacts
    <3> QED
      BY <2>5, <3>2, <3>3
  <2>7. \A u \in Task : running'[u] # NoCid => running'[u] \in Registered'
    BY <2>4, <2>5 DEF NothingStranded, WorkInv
  <2>8. NothingStranded'
    BY <2>3, <2>7, StageFactsNext DEF NothingStranded
  <2>9. SentOnce'
    BY <2>1, StillSentOnce DEF WorkInv
  <2>10. OwnTask'
    BY <2>5 DEF OwnTask, WorkInv
  <2> QED
    BY <2>3, <2>4, <2>5, <2>6, <2>8, <2>9, <2>10 DEF WorkInv
<1> QED
  BY <1>2, <1>3

(* The guard drops. *)
LEMMA ReleaseKeeps ==
    ASSUME TypeOK, WorkInv, NEW k \in Cid, Release(k)
    PROVE  /\ WorkInv' /\ handler' \in [Cid -> Stages]
           /\ running' \in [Task -> Cid \cup {NoCid}] /\ admitted' \in 0..MaxPending
<1> USE DEF Stages, RegStages, HoldStages, ExecStages, hubVars
<1> DEFINE t == TaskIdOf(k)
<1>1. t \in Task
  BY IdFacts
<1>2. /\ Becomes(k, "gone") /\ handler[k] \in {"rejected", "closing"} /\ admitted' = admitted - 1
      /\ UNCHANGED <<call, toWorker>>
  BY DEF Release
<1>3. admitted' = admitted + Weight("gone", HoldStages) - Weight(handler[k], HoldStages)
  BY <1>2 DEF Weight, TypeOK
<1>4. /\ IsFiniteSet(In(handler', HoldStages))
      /\ admitted' = Cardinality(In(handler', HoldStages))
      /\ Cardinality(In(handler', ExecStages)) <= Concurrency
      /\ admitted' \in Nat
  BY <1>2, <1>3, Counts
<1>5. admitted' \in 0..MaxPending
  BY <1>2, <1>4, DispatchAssumption DEF TypeOK
<1>6. handler' \in [Cid -> Stages] /\ Registered' = Registered \ {k}
  BY <1>2 DEF Becomes, TypeOK, Registered
<1>7. SentOnce'
  BY <1>2, StillSentOnce DEF WorkInv
<1>8. ASSUME NEW j \in Registered, j # k
      PROVE  j \in Cid /\ running[TaskIdOf(j)] = j /\ TaskIdOf(j) \in Task
  BY IdFacts DEF Registered, RunsReachable, WorkInv
<1>9. CASE handler[k] = "rejected"
  <2>1. running' = running /\ k \notin Registered
    BY <1>9 DEF Release, Registered
  <2>2. RunsReachable'
    BY <1>6, <2>1 DEF RunsReachable, WorkInv
  <2>3. NothingStranded'
    BY <1>4, <1>6, <2>1, StageFactsNext DEF NothingStranded, WorkInv
  <2> QED
    BY <1>4, <1>5, <1>6, <1>7, <2>1, <2>2, <2>3 DEF WorkInv, TypeOK, OwnTask
<1>10. CASE handler[k] = "closing"
  <2>1. running' = [running EXCEPT ![t] = NoCid] /\ k \in Registered /\ running[t] = k
    BY <1>10 DEF Release, Registered, RunsReachable, WorkInv
  <2>2. running' \in [Task -> Cid \cup {NoCid}] /\ running'[t] = NoCid
        /\ \A u \in Task : u # t => running'[u] = running[u]
    BY <1>1, <2>1 DEF TypeOK
  <2>3. RunsReachable'
    BY <1>6, <1>8, <2>1, <2>2 DEF RunsReachable
  <2>4. \A u \in Task : running'[u] # NoCid => running'[u] \in Registered'
    <3>1. SUFFICES ASSUME NEW u \in Task, u # t, running[u] # NoCid
                   PROVE  running[u] \in Registered \ {k}
      BY <1>6, <2>2
    <3>2. running[u] \in Registered /\ running[u] \in Cid
      BY <3>1 DEF NothingStranded, WorkInv, TypeOK
    <3>3. TaskIdOf(running[u]) = u
      BY <3>1 DEF OwnTask, WorkInv
    <3> QED
      BY <3>1, <3>2, <3>3
  <2>5. NothingStranded'
    BY <1>4, <2>4, StageFactsNext DEF NothingStranded
  <2>6. OwnTask'
    BY <2>2 DEF OwnTask, WorkInv
  <2> QED
    BY <1>4, <1>5, <1>6, <1>7, <2>2, <2>3, <2>5, <2>6 DEF WorkInv
<1> QED
  BY <1>2, <1>9, <1>10

(* A frame is drained: a task frame starts the only handler of its id. *)
LEMMA DrainKeeps ==
    ASSUME TypeOK, WorkInv, Drain
    PROVE  /\ WorkInv' /\ handler' \in [Cid -> Stages] /\ aborting' \in SUBSET Cid
           /\ toWorker' \in Seq(Frame)
<1> USE DEF Stages, RegStages, HoldStages, ExecStages, hubVars
<1> DEFINE m == Head(toWorker)
<1>1. toWorker \in Seq(Frame) /\ toWorker # <<>> /\ toWorker' = Tail(toWorker)
  BY DEF Drain, TypeOK
<1>2. /\ Len(toWorker) \in Nat /\ 1 \in 1..Len(toWorker) /\ m = toWorker[1]
      /\ toWorker' \in Seq(Frame) /\ Len(toWorker') = Len(toWorker) - 1
      /\ \A i \in 1..Len(toWorker') : i + 1 \in 1..Len(toWorker) /\ toWorker'[i] = toWorker[i + 1]
  BY <1>1
<1>3. m \in Frame /\ m.cid \in Cid /\ m.kind \in Kinds
  BY <1>2, FrameFacts
<1> HIDE DEF m
<1>4. UNCHANGED <<call, running, admitted>>
  BY DEF Drain
<1>5. \A j \in Cid : Spent(j)' = Spent(j)
  BY <1>4 DEF Spent
<1>6. \A i \in 1..Len(toWorker') : toWorker'[i].cid \in Cid
  BY <1>2, FrameFacts
<1>7. SentOnce
  BY DEF WorkInv
<1>8. CASE m.kind = "task"
  <2>1. handler' = [handler EXCEPT ![m.cid] = "spawned"] /\ aborting' = aborting
    BY <1>8 DEF Drain, m
  <2>2. handler[m.cid] = "none" /\ Spent(m.cid)
    BY <1>2, <1>7, <1>8 DEF SentOnce
  <2>3. handler \in [Cid -> Stages] /\ handler' \in [Cid -> Stages]
    BY <1>3, <2>1 DEF TypeOK
  <2>4. \A j \in Cid : handler'[j] = IF j = m.cid THEN "spawned" ELSE handler[j]
    BY <1>3, <2>1, <2>3
  <2>5. /\ In(handler', HoldStages) = In(handler, HoldStages)
        /\ In(handler', RegStages) = In(handler, RegStages)
        /\ In(handler', ExecStages) = In(handler, ExecStages)
    BY <1>3, <2>2, <2>4 DEF In
  <2>6. SentOnce'
    <3>1. \A j \in Cid : handler'[j] # "none" => Spent(j)'
      BY <1>5, <1>7, <2>2, <2>4 DEF SentOnce
    <3>2. ASSUME NEW i \in 1..Len(toWorker'), toWorker'[i].kind = "task"
          PROVE  /\ Spent(toWorker[i].cid)' /\ handler'[toWorker'[i].cid] = "none"
                 /\ \A j \in 1..Len(toWorker') :
                       toWorker'[j].kind = "task" /\ toWorker'[j].cid = toWorker'[i].cid => i = j
      <4>1. i + 1 \in 1..Len(toWorker) /\ toWorker[i + 1].kind = "task" /\ i + 1 # 1
            /\ toWorker'[i] = toWorker[i + 1]
        BY <1>2, <3>2
      <4>2. /\ Spent(toWorker[i + 1].cid) /\ handler[toWorker[i + 1].cid] = "none"
            /\ \A j \in 1..Len(toWorker) :
                  toWorker[j].kind = "task" /\ toWorker[j].cid = toWorker[i + 1].cid => i + 1 = j
        BY <1>7, <4>1 DEF SentOnce
      <4>3. toWorker[i + 1].cid # m.cid
        BY <1>2, <1>8, <4>1, <4>2
      <4>4. \A j \in 1..Len(toWorker') :
               toWorker'[j].kind = "task" /\ toWorker'[j].cid = toWorker'[i].cid => i = j
        BY <1>2, <4>1, <4>2
      <4>5. Spent(toWorker[i].cid)'
        BY <1>4, <4>1, <4>2 DEF Spent
      <4> QED
        BY <1>6, <2>4, <4>1, <4>2, <4>3, <4>4, <4>5
    <3> QED
      BY <3>1, <3>2 DEF SentOnce
  <2> QED
    BY <1>2, <1>4, <2>1, <2>3, <2>5, <2>6, StageFacts, StageFactsNext
       DEF WorkInv, RunsReachable, NothingStranded, OwnTask, TypeOK
<1>9. CASE m.kind # "task"
  <2>1. handler' = handler /\ aborting' = aborting \cup {m.cid}
    BY <1>9 DEF Drain, m
  <2>2. SentOnce'
    <3>1. \A j \in Cid : handler'[j] # "none" => Spent(j)'
      BY <1>5, <1>7, <2>1 DEF SentOnce
    <3>2. ASSUME NEW i \in 1..Len(toWorker'), toWorker'[i].kind = "task"
          PROVE  /\ Spent(toWorker[i].cid)' /\ handler'[toWorker'[i].cid] = "none"
                 /\ \A j \in 1..Len(toWorker') :
                       toWorker'[j].kind = "task" /\ toWorker'[j].cid = toWorker'[i].cid => i = j
      <4>1. i + 1 \in 1..Len(toWorker) /\ toWorker'[i] = toWorker[i + 1]
        BY <1>2, <3>2
      <4>2. /\ Spent(toWorker[i + 1].cid) /\ handler[toWorker[i + 1].cid] = "none"
            /\ \A j \in 1..Len(toWorker) :
                  toWorker[j].kind = "task" /\ toWorker[j].cid = toWorker[i + 1].cid => i + 1 = j
        BY <1>7, <3>2, <4>1 DEF SentOnce
      <4>3. Spent(toWorker[i].cid)'
        BY <1>4, <4>1, <4>2 DEF Spent
      <4> QED
        BY <1>2, <2>1, <4>1, <4>2, <4>3
    <3> QED
      BY <3>1, <3>2 DEF SentOnce
  <2> QED
    BY <1>2, <1>3, <1>4, <2>1, <2>2, StageFacts, StageFactsNext
       DEF WorkInv, RunsReachable, NothingStranded, OwnTask, TypeOK
<1> QED
  BY <1>8, <1>9

(* A crash leaves nothing behind. *)
LEMMA CrashKeeps ==
    ASSUME TypeOK, WorkInv, Crash
    PROVE  /\ WorkInv' /\ handler' \in [Cid -> Stages]
           /\ running' \in [Task -> Cid \cup {NoCid}] /\ admitted' \in 0..MaxPending
           /\ toHub' \in Seq(Frame)
<1> USE DEF Stages, RegStages, HoldStages, ExecStages, hubVars
<1>1. /\ handler' = [k \in Cid |-> IF handler[k] = "none" THEN "none" ELSE "gone"]
      /\ running' = [t \in Task |-> NoCid] /\ admitted' = 0
      /\ UNCHANGED <<call, toWorker>>
  BY DEF Crash
<1>2. PICK n \in 0..Len(toHub) : toHub' = SubSeq(toHub, 1, n)
  BY DEF Crash
<1>3. toHub' \in Seq(Frame)
  BY <1>2 DEF TypeOK
<1>4. In(handler', HoldStages) = {} /\ In(handler', RegStages) = {} /\ In(handler', ExecStages) = {}
  BY <1>1 DEF In
<1>5. NothingStranded' /\ IsFiniteSet(In(handler', HoldStages))
  <2>1. Cardinality({}) = 0 /\ IsFiniteSet({})
    BY FS_EmptySet
  <2>2. 0 <= Concurrency
    BY DispatchAssumption
  <2> QED
    BY <1>1, <1>4, <2>1, <2>2, StageFactsNext DEF NothingStranded
<1>6. RunsReachable' /\ OwnTask'
  BY <1>1, <1>4, StageFactsNext DEF RunsReachable, OwnTask
<1>7. SentOnce'
  <2>1. \A j \in Cid : Spent(j)' = Spent(j)
    BY <1>1 DEF Spent
  <2> QED
    BY <1>1, <2>1, FrameFacts DEF SentOnce, WorkInv, Spent
<1> QED
  BY <1>1, <1>3, <1>5, <1>6, <1>7, DispatchAssumption DEF WorkInv

-----------------------------------------------------------------------------
(* The hub's steps, seen from the worker.  A correlation id that is spent  *)
(* stays spent.                                                            *)
LEMMA SpentGrows ==
    ASSUME TypeOK, HubInv, NEW c \in Calls,
           Start(c) \/ HubStep(c) \/ SendFails(c) \/ SendAbortFails(c)
    PROVE  \A k \in Cid : Spent(k) => Spent(k)'
<1>1. call[c] \in CallState /\ call[c].attempt \in 0..MaxResets
  BY CidOfFacts DEF CallState
<1>2. \A k \in Cid : k[1] \in Calls /\ k[2] \in 0..MaxResets
  BY CidFacts
<1>3. \A d \in Calls \ {c} : call'[d] = call[d]
  BY DEF TypeOK, HubStep, Start, HandOver, SendReturns, SendAborted, Settle, Aborted, Activity,
         WindowOver, Resend, Leave, SendAbort, SendFails, SendAbortFails, Return
<1>4. ASSUME call'[c].attempt \in Nat,
             \/ call'[c].attempt > call[c].attempt
             \/ /\ call'[c].attempt = call[c].attempt
                /\ \/ call[c].pc \in {"idle", "sending"}
                   \/ call'[c].pc \notin {"idle", "sending"}
      PROVE  \A k \in Cid : Spent(k) => Spent(k)'
  <2>1. \A k \in Cid : k[1] # c => (Spent(k) => Spent(k)')
    BY <1>2, <1>3 DEF Spent
  <2>2. call'[c].attempt > call[c].attempt => \A k \in Cid : k[1] = c => (Spent(k) => Spent(k)')
    BY <1>1, <1>2, <1>4, DispatchAssumption DEF Spent
  <2>3. call'[c].attempt = call[c].attempt => \A k \in Cid : k[1] = c => (Spent(k) => Spent(k)')
    BY <1>4 DEF Spent
  <2> QED
    BY <1>4, <2>1, <2>2, <2>3
<1>5. CASE Start(c)
  <2>1. call[c].attempt = 0 /\ call[c].pc = "idle"
    BY <1>5 DEF HubInv, CallInv, Start
  <2>2. call'[c].attempt = 0
    BY <1>5 DEF Start, Attempt, TypeOK
  <2> QED
    BY <1>4, <2>1, <2>2
<1>6. CASE Resend(c)
  <2>1. call'[c].attempt = call[c].attempt + 1
    BY <1>6 DEF Resend, Attempt, TypeOK
  <2> QED
    BY <1>1, <1>4, <2>1, DispatchAssumption
<1>7. CASE SendAborted(c) \/ SendFails(c) \/ Settle(c) \/ SendAbort(c) \/ SendAbortFails(c)
  <2>1. call'[c].attempt = call[c].attempt /\ call'[c].pc = "done"
    BY <1>1, <1>7 DEF SendAborted, SendFails, Settle, SendAbort, SendAbortFails, Return, TypeOK,
                      CallState
  <2> QED
    BY <1>1, <1>4, <2>1, DispatchAssumption
<1>8. CASE HandOver(c) \/ SendReturns(c) \/ Aborted(c) \/ Activity(c) \/ WindowOver(c) \/ Leave(c)
  <2>1. call'[c].attempt = call[c].attempt /\ call'[c].pc \notin {"idle", "sending"}
    BY <1>1, <1>8 DEF HandOver, SendReturns, Aborted, Activity, WindowOver, Leave, TypeOK, CallState
  <2> QED
    BY <1>1, <1>4, <2>1, DispatchAssumption
<1> QED
  BY <1>5, <1>6, <1>7, <1>8 DEF HubStep

(* A step that does not touch the worker keeps its invariant if no id is   *)
(* taken back and no task frame is added.                                  *)
LEMMA WorkerApart ==
    ASSUME TypeOK, WorkInv, UNCHANGED <<handler, running, admitted>>,
           \A k \in Cid : Spent(k) => Spent(k)',
           \/ toWorker' = toWorker
           \/ \E f \in Frame : toWorker' = Append(toWorker, f) /\
                (f.kind = "task" => /\ Spent(f.cid)' /\ ~Spent(f.cid))
    PROVE  WorkInv'
<1>1. SentOnce /\ toWorker \in Seq(Frame)
  BY DEF WorkInv, TypeOK
<1>2. \A k \in Cid : handler'[k] # "none" => Spent(k)'
  BY <1>1 DEF SentOnce
<1>3. SentOnce'
  <2>1. CASE toWorker' = toWorker
    <3>1. ASSUME NEW i \in 1..Len(toWorker), toWorker[i].kind = "task"
          PROVE  Spent(toWorker[i].cid)'
      <4>1. toWorker[i].cid \in Cid /\ Spent(toWorker[i].cid)
        BY <1>1, <3>1, FrameFacts DEF SentOnce
      <4>2. ASSUME NEW k \in Cid, k = toWorker[i].cid PROVE Spent(k)'
        BY <4>1, <4>2
      <4> QED
        BY <2>1, <4>1, <4>2 DEF Spent
    <3> QED
      BY <1>1, <1>2, <2>1, <3>1 DEF SentOnce
  <2>2. ASSUME NEW f \in Frame, toWorker' = Append(toWorker, f),
               f.kind = "task" => Spent(f.cid)' /\ ~Spent(f.cid)
        PROVE  SentOnce'
    <3> DEFINE n == Len(toWorker)
    <3>1. /\ n \in Nat /\ Len(toWorker') = n + 1 /\ toWorker'[n + 1] = f
          /\ \A i \in 1..n : toWorker'[i] = toWorker[i]
      BY <1>1, <2>2
    <3>2. f.cid \in Cid
      BY DEF Frame
    <3>3. f.kind = "task" => handler[f.cid] = "none"
      BY <1>1, <2>2, <3>2 DEF SentOnce
    <3> HIDE DEF n
    <3>4. ASSUME NEW i \in 1..n, toWorker[i].kind = "task"
          PROVE  /\ Spent(toWorker[i].cid)' /\ handler[toWorker[i].cid] = "none"
                 /\ f.kind = "task" => toWorker[i].cid # f.cid
                 /\ \A j \in 1..n :
                       toWorker[j].kind = "task" /\ toWorker[j].cid = toWorker[i].cid => i = j
      <4>1. /\ toWorker[i].cid \in Cid /\ Spent(toWorker[i].cid)
            /\ handler[toWorker[i].cid] = "none"
            /\ \A j \in 1..n :
                  toWorker[j].kind = "task" /\ toWorker[j].cid = toWorker[i].cid => i = j
        BY <1>1, <3>4, FrameFacts DEF SentOnce, n
      <4>2. toWorker'[i] = toWorker[i]
        BY <3>1
      <4>3. ASSUME NEW k \in Cid, k = toWorker[i].cid PROVE Spent(k)' /\ Spent(k)
        BY <4>1, <4>3
      <4>4. Spent(toWorker[i].cid)'
        BY <4>1, <4>2, <4>3 DEF Spent
      <4>5. f.kind = "task" => toWorker[i].cid # f.cid
        BY <2>2, <4>1
      <4> QED
        BY <4>1, <4>4, <4>5
    <3>5. ASSUME NEW i \in 1..(n + 1), toWorker'[i].kind = "task"
          PROVE  /\ Spent(toWorker[i].cid)' /\ handler'[toWorker'[i].cid] = "none"
                 /\ \A j \in 1..(n + 1) :
                       toWorker'[j].kind = "task" /\ toWorker'[j].cid = toWorker'[i].cid => i = j
      <4>1. CASE i \in 1..n
        BY <3>1, <3>4, <3>5, <4>1
      <4>2. CASE i = n + 1
        <5>1. Spent(toWorker[i].cid)'
          BY <2>2, <3>1, <3>5, <4>2 DEF Spent
        <5>2. handler'[toWorker'[i].cid] = "none"
          BY <3>1, <3>3, <3>5, <4>2
        <5>3. \A j \in 1..(n + 1) :
                 toWorker'[j].kind = "task" /\ toWorker'[j].cid = toWorker'[i].cid => i = j
          BY <3>1, <3>4, <3>5, <4>2
        <5> QED
          BY <5>1, <5>2, <5>3
      <4> QED
        BY <3>1, <4>1, <4>2
    <3> QED
      BY <1>2, <3>1, <3>5 DEF SentOnce
  <2> QED
    BY <2>1, <2>2
<1> QED
  BY <1>3 DEF WorkInv, RunsReachable, NothingStranded, OwnTask, Registered, Executing, In

(* The hub's steps keep the worker's invariant. *)
LEMMA HubKeepsWork ==
    ASSUME TypeOK, HubInv, WorkInv, NEW c \in Calls,
           Start(c) \/ HubStep(c) \/ SendFails(c) \/ SendAbortFails(c)
    PROVE  WorkInv'
<1>1. \A k \in Cid : Spent(k) => Spent(k)'
  BY SpentGrows
<1>2. UNCHANGED <<handler, running, admitted>>
  BY DEF HubStep, Start, HandOver, SendReturns, SendAborted, Settle, Aborted, Activity,
         WindowOver, Resend, Leave, SendAbort, SendFails, SendAbortFails, workerVars
<1>3. CidOf(c) \in Cid /\ CidOf(c)[1] = c /\ CidOf(c)[2] = call[c].attempt
      /\ call[c].attempt \in 0..MaxResets /\ call[c] \in CallState
  BY CidOfFacts DEF CallState
<1>4. CASE HandOver(c)
  <2> DEFINE f == [kind |-> "task", cid |-> CidOf(c)]
  <2>1. f \in Frame /\ f.kind = "task" /\ f.cid = CidOf(c)
    BY <1>3 DEF Frame, Kinds
  <2>2. toWorker' = Append(toWorker, f)
    BY <1>4 DEF HandOver
  <2>3. ~Spent(f.cid)
    BY <1>3, <1>4, <2>1, DispatchAssumption DEF HandOver, Spent
  <2>4. call'[c].attempt = call[c].attempt /\ call'[c].pc = "handed"
    BY <1>3, <1>4 DEF HandOver, TypeOK, CallState
  <2>5. \A k \in Cid : k[1] = c /\ k[2] = call[c].attempt => Spent(k)'
    BY <2>4 DEF Spent
  <2>6. ASSUME NEW k \in Cid, k = CidOf(c) PROVE Spent(k)' /\ ~Spent(k)
    BY <1>3, <2>1, <2>3, <2>5, <2>6
  <2> HIDE DEF f
  <2> QED
    BY <1>1, <1>2, <1>3, <2>1, <2>2, <2>6, WorkerApart
<1>5. CASE SendAbort(c)
  <2> DEFINE f == [kind |-> "abort", cid |-> CidOf(c)]
  <2>1. f \in Frame /\ f.kind # "task"
    BY <1>3 DEF Frame, Kinds
  <2>2. toWorker' = Append(toWorker, f)
    BY <1>5 DEF SendAbort
  <2> HIDE DEF f
  <2> QED
    BY <1>1, <1>2, <2>1, <2>2, WorkerApart
<1>6. CASE ~HandOver(c) /\ ~SendAbort(c)
  <2>1. toWorker' = toWorker
    BY <1>6 DEF HubStep, Start, SendReturns, SendAborted, Settle, Aborted, Activity,
                WindowOver, Resend, Leave, SendFails, SendAbortFails
  <2> QED
    BY <1>1, <1>2, <2>1, WorkerApart
<1> QED
  BY <1>4, <1>5, <1>6

(* So do the pump, the signals and the link's liveness. *)
LEMMA PumpKeepsWork ==
    ASSUME TypeOK, WorkInv, UNCHANGED <<handler, running, admitted, toWorker>>,
           SameAttempts
    PROVE  WorkInv'
<1>1. \A k \in Cid : Spent(k) => Spent(k)'
  BY CidFacts DEF Spent, SameAttempts
<1> QED
  BY <1>1, WorkerApart

-----------------------------------------------------------------------------
(* What a handler sends is a frame. *)
LEMMA ReplyTyped ==
    ASSUME TypeOK, NEW k \in Cid, NEW kind \in Kinds, Reply(k, kind)
    PROVE  toHub' \in Seq(Frame)
<1>1. [kind |-> kind, cid |-> k] \in Frame
  BY DEF Frame
<1> QED
  BY <1>1 DEF Reply, TypeOK

(* The bounded events stay within their bounds. *)
LEMMA SpentTyped ==
    ASSUME TypeOK
    PROVE  LET S == [crashes : 0..MaxCrashes, outages : 0..MaxOutages, holds : 0..MaxHolds]
           IN  /\ spent.crashes < MaxCrashes => [spent EXCEPT !.crashes = @ + 1] \in S
               /\ spent.outages < MaxOutages => [spent EXCEPT !.outages = @ + 1] \in S
               /\ spent.holds < MaxHolds => [spent EXCEPT !.holds = @ + 1] \in S
<1> DEFINE S == [crashes : 0..MaxCrashes, outages : 0..MaxOutages, holds : 0..MaxHolds]
<1>1. spent \in S
  BY DEF TypeOK
<1>2. /\ spent.crashes < MaxCrashes => spent.crashes + 1 \in 0..MaxCrashes
      /\ spent.outages < MaxOutages => spent.outages + 1 \in 0..MaxOutages
      /\ spent.holds < MaxHolds => spent.holds + 1 \in 0..MaxHolds
  BY <1>1, DispatchAssumption
<1> QED
  BY <1>1, <1>2

(* What the steps of the worker's handlers do besides moving them. *)
LEMMA HandlerTypes ==
    ASSUME TypeOK, NEW k \in Cid,
           WorkerStep(k) \/ AcquireTurn(k) \/ Heartbeat(k) \/ Hold(k) \/ HandBack(k) \/ Finish(k)
    PROVE  /\ toHub' \in Seq(Frame)
           /\ UNCHANGED <<call, waiters, aborts, live, toWorker, aborting, ackDue, aborted>>
           /\ spent' \in [crashes : 0..MaxCrashes, outages : 0..MaxOutages, holds : 0..MaxHolds]
<1> USE DEF hubVars, workerVars
<1>1. {"status", "session held", "session resumed", "worker", "reply", "held", "busy", "ack"}
        \subseteq Kinds
  BY DEF Kinds
<1>2. toHub \in Seq(Frame)
      /\ spent \in [crashes : 0..MaxCrashes, outages : 0..MaxOutages, holds : 0..MaxHolds]
  BY DEF TypeOK
<1>3. CASE Unserved(k) \/ Admit(k) \/ RegisterRunning(k) \/ TakeSlot(k) \/ AbortQueued(k)
           \/ DropPermit(k) \/ Release(k) \/ AcquireTurn(k)
  BY <1>2, <1>3 DEF Unserved, Admit, RegisterRunning, TakeSlot, AbortQueued, DropPermit, Release,
                    AcquireTurn
<1>4. CASE Answer(k)
  <2>1. Owed[handler[k]].kind \in Kinds
    <3>1. handler[k] \in {"unserved", "shed", "refused", "registered", "cancelled"}
      BY <1>4 DEF Answer, Owed
    <3>2. \A s \in {"unserved", "shed", "refused", "registered", "cancelled"} :
             Owed[s].kind \in {"worker", "busy", "ack"}
      BY DEF Owed
    <3> QED
      BY <1>1, <3>1, <3>2
  <2>2. Reply(k, Owed[handler[k]].kind)
    BY <1>4 DEF Answer
  <2> QED
    BY <1>2, <1>4, <2>1, <2>2, ReplyTyped DEF Answer
<1>5. CASE Heartbeat(k)
  BY <1>1, <1>2, <1>5, ReplyTyped DEF Heartbeat
<1>6. CASE Hold(k)
  <2>1. spent' \in [crashes : 0..MaxCrashes, outages : 0..MaxOutages, holds : 0..MaxHolds]
    BY <1>6, SpentTyped DEF Hold
  <2> QED
    BY <1>1, <1>6, <2>1, ReplyTyped DEF Hold
<1>7. CASE HandBack(k)
  BY <1>1, <1>2, <1>7, ReplyTyped DEF HandBack
<1>8. CASE Finish(k)
  <2>1. PICK kind \in {"worker", "reply", "held"} : Reply(k, kind)
    BY <1>8 DEF Finish
  <2> QED
    BY <1>1, <1>2, <1>8, <2>1, ReplyTyped DEF Finish
<1> QED
  BY <1>3, <1>4, <1>5, <1>6, <1>7, <1>8 DEF WorkerStep

(* The inductive invariant. *)
IInv == TypeOK /\ HubInv /\ WorkInv

(* The invariant holds initially. *)
LEMMA InitIInv == Init => IInv
<1> SUFFICES ASSUME Init PROVE IInv
  OBVIOUS
<1>1. TypeOK
  <2>1. [pc |-> "idle", attempt |-> 0, signal |-> FALSE, activity |-> FALSE,
         held |-> FALSE, rx |-> "none", from |-> NoCid, outcome |-> "none"] \in CallState
    BY DispatchAssumption DEF CallState, Pcs, Outcomes
  <2>2. call \in [Calls -> CallState]
    BY <2>1 DEF Init
  <2>3. spent \in [crashes : 0..MaxCrashes, outages : 0..MaxOutages, holds : 0..MaxHolds]
    BY DispatchAssumption DEF Init
  <2>4. handler \in [Cid -> Stages]
    BY DEF Init, Stages
  <2>5. /\ waiters \in SUBSET Cid /\ aborting \in SUBSET Cid /\ ackDue \in SUBSET Cid
        /\ aborted \in SUBSET Cid /\ live \in BOOLEAN
        /\ toWorker \in Seq(Frame) /\ toHub \in Seq(Frame)
    BY DEF Init
  <2>6. /\ aborts \in [AbortId -> Calls \cup {NoCall}]
        /\ running \in [Task -> Cid \cup {NoCid}]
    BY DEF Init
  <2>7. admitted \in 0..MaxPending
    BY DispatchAssumption DEF Init
  <2> QED
    BY <2>2, <2>3, <2>4, <2>5, <2>6, <2>7 DEF TypeOK
<1>2. HubInv
  BY DEF Init, HubInv, CallInv, OwnWaiter, Terminal
<1>3. In(handler, HoldStages) = {} /\ In(handler, RegStages) = {} /\ In(handler, ExecStages) = {}
  BY DEF Init, In, HoldStages, RegStages, ExecStages
<1>4. NothingStranded /\ IsFiniteSet(In(handler, HoldStages))
  <2>1. Cardinality({}) = 0 /\ IsFiniteSet({})
    BY FS_EmptySet
  <2>2. 0 <= Concurrency
    BY DispatchAssumption
  <2>3. \A t \in Task : running[t] = NoCid
    BY DEF Init
  <2>4. admitted = 0
    BY DEF Init
  <2> QED
    BY <1>3, <2>1, <2>2, <2>3, <2>4, StageFacts DEF NothingStranded
<1>5. RunsReachable /\ OwnTask
  BY <1>3, StageFacts DEF Init, RunsReachable, OwnTask
<1>6. SentOnce
  BY DEF Init, SentOnce
<1> QED
  BY <1>1, <1>2, <1>4, <1>5, <1>6 DEF IInv, WorkInv

(* Every step keeps the invariant. *)
LEMMA NextIInv == IInv /\ [Next]_vars => IInv'
<1> SUFFICES ASSUME IInv, [Next]_vars PROVE IInv'
  OBVIOUS
<1>1. TypeOK /\ HubInv /\ WorkInv
  BY DEF IInv
<1>2. ASSUME NEW c \in Calls, Start(c) \/ HubStep(c) \/ SendFails(c) \/ SendAbortFails(c)
      PROVE  IInv'
  <2>1. HubTyped' /\ LinkTyped'
    BY <1>1, <1>2, HubTypes DEF HubInv, CallInv
  <2>2. HubInv' /\ WorkInv'
    BY <1>1, <1>2, HubKeeps, HubKeepsWork
  <2>3. UNCHANGED <<workerVars, spent>>
    BY <1>2 DEF HubStep, Start, HandOver, SendReturns, SendAborted, Settle, Aborted, Activity,
                WindowOver, Resend, Leave, SendAbort, SendFails, SendAbortFails
  <2> QED
    BY <1>1, <2>1, <2>2, <2>3 DEF IInv, TypeOK, HubTyped, LinkTyped, workerVars
<1>3. CASE AbortAll \/ Route \/ \E a \in AbortId : AbortTask(a)
  <2>1. HubTyped' /\ LinkTyped' /\ HubInv' /\ SameAttempts
    BY <1>1, <1>3, SignalsKeep, RouteKeeps
  <2>2. UNCHANGED <<toWorker, workerVars, spent>>
    BY <1>3 DEF AbortAll, Route, AbortTask
  <2>3. WorkInv'
    BY <1>1, <2>1, <2>2, PumpKeepsWork DEF workerVars
  <2> QED
    BY <1>1, <2>1, <2>2, <2>3 DEF IInv, TypeOK, HubTyped, LinkTyped, workerVars
<1>4. CASE LinkDown \/ LinkUp
  <2>1. /\ live' \in BOOLEAN
        /\ UNCHANGED <<call, waiters, aborts, toWorker, toHub, workerVars>>
    BY <1>4 DEF LinkDown, LinkUp
  <2>2. spent' \in [crashes : 0..MaxCrashes, outages : 0..MaxOutages, holds : 0..MaxHolds]
    BY <1>1, <1>4, SpentTyped DEF LinkDown, LinkUp, TypeOK
  <2>3. HubInv'
    BY <1>1, <2>1, OthersOnly
  <2>4. WorkInv'
    BY <1>1, <2>1, PumpKeepsWork DEF workerVars, SameAttempts
  <2> QED
    BY <1>1, <2>1, <2>2, <2>3, <2>4 DEF IInv, TypeOK, workerVars
<1>5. CASE Drain
  <2>1. UNCHANGED <<call, waiters, aborts, live, toHub, ackDue, running, admitted, aborted, spent>>
    BY <1>5 DEF Drain, hubVars
  <2>2. HubInv'
    BY <1>1, <2>1, OthersOnly
  <2> QED
    BY <1>1, <1>5, <2>1, <2>2, DrainKeeps DEF IInv, TypeOK
<1>6. CASE Crash
  <2>1. UNCHANGED <<call, waiters, aborts, live, toWorker>>
        /\ aborting' = {} /\ ackDue' = {} /\ aborted' = {}
    BY <1>6 DEF Crash, hubVars
  <2>2. HubInv'
    BY <1>1, <2>1, OthersOnly
  <2>3. spent' \in [crashes : 0..MaxCrashes, outages : 0..MaxOutages, holds : 0..MaxHolds]
    BY <1>1, <1>6, SpentTyped DEF Crash
  <2> QED
    BY <1>1, <1>6, <2>1, <2>2, <2>3, CrashKeeps DEF IInv, TypeOK
<1>7. ASSUME NEW k \in Cid,
             WorkerStep(k) \/ AcquireTurn(k) \/ Heartbeat(k) \/ Hold(k) \/ HandBack(k) \/ Finish(k)
      PROVE  IInv'
  <2>1. /\ toHub' \in Seq(Frame)
        /\ UNCHANGED <<call, waiters, aborts, live, toWorker, aborting, ackDue, aborted>>
        /\ spent' \in [crashes : 0..MaxCrashes, outages : 0..MaxOutages, holds : 0..MaxHolds]
    BY <1>1, <1>7, HandlerTypes
  <2>2. HubInv'
    BY <1>1, <2>1, OthersOnly
  <2>3. /\ WorkInv' /\ handler' \in [Cid -> Stages]
        /\ running' \in [Task -> Cid \cup {NoCid}] /\ admitted' \in 0..MaxPending
    <3>1. CASE Admit(k)
      BY <1>1, <3>1, AdmitKeeps DEF Admit, TypeOK
    <3>2. CASE RegisterRunning(k)
      BY <1>1, <3>2, RegisterKeeps DEF RegisterRunning, TypeOK
    <3>3. CASE Release(k)
      BY <1>1, <3>3, ReleaseKeeps
    <3>4. CASE Heartbeat(k)
      <4>1. UNCHANGED <<call, toWorker, handler, running, admitted>>
        BY <3>4 DEF Heartbeat, hubVars, workerVars
      <4> QED
        BY <1>1, <4>1, PumpKeepsWork DEF SameAttempts, TypeOK
    <3>5. CASE Unserved(k) \/ Answer(k) \/ TakeSlot(k) \/ AbortQueued(k) \/ AcquireTurn(k)
               \/ Hold(k) \/ HandBack(k) \/ Finish(k) \/ DropPermit(k)
      <4>1. UNCHANGED <<running, admitted>>
        BY <3>5 DEF Unserved, Answer, TakeSlot, AbortQueued, AcquireTurn, Hold, HandBack, Finish,
                    DropPermit
      <4> QED
        BY <1>1, <3>5, <4>1, HandlerMoves DEF TypeOK
    <3> QED
      BY <1>7, <3>1, <3>2, <3>3, <3>4, <3>5 DEF WorkerStep
  <2> QED
    BY <1>1, <2>1, <2>2, <2>3 DEF IInv, TypeOK
<1>8. ASSUME NEW k \in Cid, HandleAbort(k) \/ AckAbort(k)
      PROVE  IInv'
  <2>1. UNCHANGED <<call, waiters, aborts, live, toWorker, handler, running, admitted, spent>>
    BY <1>8 DEF HandleAbort, AckAbort, hubVars
  <2>2. aborting' \in SUBSET Cid /\ ackDue' \in SUBSET Cid /\ aborted' \in SUBSET Cid
    BY <1>1, <1>8 DEF HandleAbort, AckAbort, TypeOK
  <2>3. toHub' \in Seq(Frame)
    <3>1. "ack" \in Kinds
      BY DEF Kinds
    <3> QED
      BY <1>1, <1>8, <3>1, ReplyTyped DEF HandleAbort, AckAbort, TypeOK
  <2>4. HubInv'
    BY <1>1, <2>1, OthersOnly
  <2>5. WorkInv'
    BY <1>1, <2>1, PumpKeepsWork DEF SameAttempts
  <2> QED
    BY <1>1, <2>1, <2>2, <2>3, <2>4, <2>5 DEF IInv, TypeOK
<1>9. CASE UNCHANGED vars
  <2>1. UNCHANGED <<call, waiters, aborts, live, toWorker, toHub, handler, aborting, ackDue,
                    running, admitted, aborted, spent>>
    BY <1>9 DEF vars, hubVars, workerVars
  <2>2. HubInv'
    BY <1>1, <2>1, OthersOnly
  <2>3. WorkInv'
    BY <1>1, <2>1, PumpKeepsWork DEF SameAttempts
  <2> QED
    BY <1>1, <2>1, <2>2, <2>3 DEF IInv, TypeOK
<1> QED
  BY <1>2, <1>3, <1>4, <1>5, <1>6, <1>7, <1>8, <1>9 DEF Next

(* The hub, the link and the worker keep their types; the load-shed gate   *)
(* in particular never admits more than max_pending and never goes below   *)
(* zero.                                                                   *)
THEOREM TypeCorrect == Spec => []TypeOK
<1>1. IInv => TypeOK
  BY DEF IInv
<1> QED
  BY <1>1, InitIInv, NextIInv, PTL DEF Spec

(* A run past register_running is the one its task id leads to, so that an *)
(* abort frame with its correlation id finds it, and no two runs have one  *)
(* task id, whatever resends, refusals, crashes and aborts come between.   *)
THEOREM RunsStayReachable == Spec => []RunsReachable
<1>1. IInv => RunsReachable
  BY DEF IInv, WorkInv
<1> QED
  BY <1>1, InitIInv, NextIInv, PTL DEF Spec

(* AdmissionGuard accounts for every handler: the count is the number of   *)
(* handlers that hold a guard, no task id outlives its handler, and the    *)
(* harness slots are never exceeded.                                       *)
THEOREM NothingStaysTaken == Spec => []NothingStranded
<1>1. IInv => NothingStranded
  BY DEF IInv, WorkInv
<1> QED
  BY <1>1, InitIInv, NextIInv, PTL DEF Spec

(* The waiters map holds at most the present attempt of a call that has    *)
(* not returned.                                                           *)
THEOREM WaitersAreReaped == Spec => []NoWaiterLeaks
<1>1. IInv => NoWaiterLeaks
  BY CidFacts DEF IInv, HubInv, OwnWaiter, NoWaiterLeaks, TypeOK
<1> QED
  BY <1>1, InitIInv, NextIInv, PTL DEF Spec

(* What a dispatch returns was sent by the run of its own last attempt. *)
THEOREM AnswersAreOwn == Spec => []OutcomeIsItsOwn
<1>1. IInv => OutcomeIsItsOwn
  BY DEF IInv, HubInv, CallInv, OutcomeIsItsOwn
<1> QED
  BY <1>1, InitIInv, NextIInv, PTL DEF Spec
=============================================================================
