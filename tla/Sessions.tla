------------------------------ MODULE Sessions ------------------------------
(***************************************************************************)
(* The sessions of one conversation: SessionManager (sessions/manager),    *)
(* the registry's binding and turn chain (sessions/registry) and the       *)
(* interactive children (sessions/interactive).  Records, bindings and     *)
(* chains are looked up by the conversation's key, so conversations meet   *)
(* only where another one's binding evicts this one's.                     *)
(*                                                                         *)
(* Each lock section of the manager and of the registry is one step; a     *)
(* turn moves through them and may be overtaken between any two.           *)
(* Transcripts, counters, names and workspaces are left out.               *)
(***************************************************************************)
EXTENDS Integers, Sequences, FiniteSets, FiniteSetsExt

CONSTANTS
    Turns, NoTurn,  \* the turns asked for, and none of them
    MaxOpens,       \* bound: session records the operator or an observation makes
    MaxCloses       \* bound: close calls

ASSUME SessionsAssumption == NoTurn \notin Turns /\ IsFiniteSet(Turns) /\ MaxOpens \in Nat /\ MaxCloses \in Nat

VARIABLES
    interactive,    \* route_transport: the provider's unbound turns share one child
    sessions,       \* Inner::sessions, by id; a lower id is an older session
    nextId,         \* Inner::next_id
    chain,          \* the turn lock the registry's map holds for the key; 0 if none
    nextLock,       \* turn locks made
    asked,          \* turns that have asked for a lock, each served by its ticket
    turn,           \* what run_turn and submit keep on the way
    fired,          \* turns whose Abort is signalled
    binding,        \* the captured harness session id, named after the turn that began it
    child,          \* the interactive children spawned so far
    closing,        \* close calls past their first lock section: <<session, its child>>
    dropped,        \* history: harness sessions a reset has dropped
    graced,         \* history: a turn gave up waiting for its child (INTERRUPT_GRACE)
    closes          \* close calls made

records == <<sessions, nextId>>
locks == <<chain, nextLock, asked>>
history == <<dropped, graced, closes>>
vars == <<interactive, records, locks, turn, fired, binding, child, closing, history>>

Terminal == {"Closed", "Failed"}

NewTurn == [pc |-> "new", class |-> "Unbound", lock |-> 0, ticket |-> 0, resume |-> NoTurn, bind |-> FALSE,
            id |-> 0, child |-> 0, answer |-> NoTurn]

Init ==
    /\ interactive \in BOOLEAN
    /\ sessions = <<>> /\ nextId = 1 /\ chain = 0 /\ nextLock = 0 /\ asked = 0
    /\ turn = [t \in Turns |-> NewTurn] /\ fired = {} /\ binding = NoTurn
    /\ child = <<>> /\ closing = {} /\ dropped = {} /\ graced = FALSE /\ closes = 0

Ids == DOMAIN sessions

(* The records after one changes; a change to an id that is gone changes    *)
(* nothing, as every find of the manager does.                              *)
Update(id, entry) == [i \in Ids |-> IF i = id THEN entry ELSE sessions[i]]

SetPhase(id, phase) == Update(id, [sessions[id] EXCEPT !.phase = phase])

(* The records with a new one. *)
WithNew(class, phase) ==
    [i \in Ids \union {nextId} |->
        IF i = nextId THEN [class |-> class, phase |-> phase, live |-> 0, abort |-> NoTurn]
        ELSE sessions[i]]

OpenOnes == {id \in Ids : sessions[id].phase \notin Terminal}

Goto(t, pc) == turn' = [turn EXCEPT ![t].pc = pc]

-----------------------------------------------------------------------------
(* What the operator, and a remote wrapper, do to the records. *)

(* open: an open session of the key is the one returned. *)
Open(class) ==
    /\ OpenOnes = {} /\ nextId <= MaxOpens
    /\ sessions' = WithNew(class, "Idle") /\ nextId' = nextId + 1
    /\ UNCHANGED <<interactive, locks, turn, fired, binding, child, closing, history>>

(* observe: makes a row when the key has none, whatever its phase. *)
Observe ==
    /\ Ids = {} /\ nextId <= MaxOpens
    /\ sessions' = WithNew("Unbound", "Live") /\ nextId' = nextId + 1
    /\ UNCHANGED <<interactive, locks, turn, fired, binding, child, closing, history>>

Close(id) ==
    /\ id \in Ids /\ closes < MaxCloses /\ closes' = closes + 1
    /\ fired' = fired \union ({sessions[id].abort} \ {NoTurn})
    /\ sessions' = Update(id, [sessions[id] EXCEPT !.phase = "Closed", !.live = 0])
    /\ closing' = closing \union {<<id, sessions[id].live>>}
    /\ UNCHANGED <<interactive, nextId, locks, turn, binding, child, dropped, graced>>

(* A turn keeps the stdin of its child locked while it writes a line. *)
WritesTo(t, k) == turn[t].child = k /\ turn[t].pc \in {"writing", "interrupting"}

(* InteractiveSession::close: stdin is closed, once no turn writes to it, and *)
(* the child is reaped, or killed after a while.                              *)
Reap(c) ==
    /\ c \in closing /\ c[2] # 0 /\ \A t \in Turns : ~WritesTo(t, c[2])
    /\ child' = [child EXCEPT ![c[2]] = [@ EXCEPT !.open = FALSE, !.prompts = <<>>]]
    /\ closing' = (closing \ {c}) \union {<<c[1], 0>>}
    /\ UNCHANGED <<interactive, records, locks, turn, fired, binding, history>>

(* prune_chain: the map drops a lock that nobody else holds a reference to. *)
Unshared == \A t \in Turns : turn[t].lock # chain

(* Mutant of Prune: the reference count is not looked at. *)
PruneHeld(c) ==
    /\ c \in closing /\ c[2] = 0
    /\ chain' = IF c[1] \in Ids THEN 0 ELSE chain
    /\ closing' = closing \ {c}
    /\ UNCHANGED <<interactive, records, nextLock, asked, turn, fired, binding, child, history>>

Prune(c) ==
    /\ c \in closing /\ c[2] = 0
    /\ chain' = IF c[1] \in Ids /\ Unshared THEN 0 ELSE chain
    /\ closing' = closing \ {c}
    /\ UNCHANGED <<interactive, records, nextLock, asked, turn, fired, binding, child, history>>

Forget(id) ==
    /\ id \in Ids /\ sessions[id].phase \in Terminal /\ sessions[id].live = 0
    /\ sessions' = [i \in Ids \ {id} |-> sessions[i]]
    /\ UNCHANGED <<interactive, nextId, locks, turn, fired, binding, child, closing, history>>

Interrupt(id) ==
    /\ id \in Ids /\ sessions[id].phase = "Turn"
    /\ fired' = fired \union ({sessions[id].abort} \ {NoTurn})
    /\ sessions' = SetPhase(id, "Interrupting")
    /\ UNCHANGED <<interactive, nextId, locks, turn, binding, child, closing, history>>

(* reset and reset_conversation; also the eviction of the binding by those of *)
(* other conversations.                                                       *)
Reset ==
    /\ binding # NoTurn
    /\ dropped' = dropped \union {binding} /\ binding' = NoTurn
    /\ UNCHANGED <<interactive, records, locks, turn, fired, child, closing, graced, closes>>

-----------------------------------------------------------------------------
(* A turn up to its transport. *)

(* submit of a bounded session: the phase is checked on a copy of the record.*)
SubmitBounded(t, id) ==
    /\ turn[t].pc = "new" /\ id \in Ids
    /\ sessions[id].class = "Bounded" /\ sessions[id].phase \in {"Idle", "Live"}
    /\ turn' = [turn EXCEPT ![t].class = "Bounded", ![t].id = id, ![t].pc = "ensured"]
    /\ UNCHANGED <<interactive, records, locks, fired, binding, child, closing, history>>

(* run_turn of an unbound request, or submit of an unbound session, whose    *)
(* check leaves no trace: acquire_turn takes a reference to the key's lock   *)
(* and waits for it.                                                         *)
Acquire(t) ==
    /\ turn[t].pc = "new"
    /\ IF chain = 0 THEN chain' = nextLock + 1 /\ nextLock' = nextLock + 1
                    ELSE UNCHANGED <<chain, nextLock>>
    /\ asked' = asked + 1
    /\ turn' = [turn EXCEPT ![t].pc = "queued", ![t].lock = chain', ![t].ticket = asked']
    /\ UNCHANGED <<interactive, records, fired, binding, child, closing, history>>

(* tokio's mutex is first in, first out. *)
Holds(t) == \A u \in Turns : turn[u].lock = turn[t].lock => turn[t].ticket <= turn[u].ticket

(* Mutant of Plan: a turn that resumes binds what it captures as well. *)
PlanRebinds(t) == [turn[t] EXCEPT !.pc = "ensured", !.resume = binding, !.bind = TRUE]

(* plan: resume what is bound, or bind what this turn captures.  Then       *)
(* ensure_session, which looks at nothing that plan does.                    *)
Plan(t) == [turn[t] EXCEPT !.pc = "ensured", !.resume = binding, !.bind = (binding = NoTurn)]

(* Mutant of EnsureSession: an open record of the key is not looked for. *)
EnsureSessionFresh(t) ==
    /\ turn[t].pc = "queued" /\ Holds(t)
    /\ turn' = [turn EXCEPT ![t] = [Plan(t) EXCEPT !.id = nextId]]
    /\ sessions' = WithNew("Unbound", "Idle") /\ nextId' = nextId + 1
    /\ UNCHANGED <<interactive, locks, fired, binding, child, closing, history>>

EnsureSession(t) ==
    /\ turn[t].pc = "queued" /\ Holds(t)
    /\ IF OpenOnes # {}
       THEN /\ turn' = [turn EXCEPT ![t] = [Plan(t) EXCEPT !.id = Min(OpenOnes)]]
            /\ UNCHANGED <<records>>
       ELSE /\ turn' = [turn EXCEPT ![t] = [Plan(t) EXCEPT !.id = nextId]]
            /\ sessions' = WithNew("Unbound", "Idle") /\ nextId' = nextId + 1
    /\ UNCHANGED <<interactive, locks, fired, binding, child, closing, history>>

(* begin_turn: a fresh Abort, which is the turn's own. *)
BeginTurn(t) ==
    /\ turn[t].pc = "ensured"
    /\ sessions' = Update(turn[t].id, [sessions[turn[t].id] EXCEPT !.phase = "Turn", !.abort = t])
    /\ Goto(t, IF interactive /\ turn[t].class = "Unbound" THEN "begun" ELSE "running")
    /\ UNCHANGED <<interactive, nextId, locks, fired, binding, child, closing, history>>

-----------------------------------------------------------------------------
(* run_interactive. *)

(* live_session, or spawn_interactive up to its await. *)
Attach(t) ==
    /\ turn[t].pc = "begun"
    /\ CASE turn[t].id \notin Ids -> Goto(t, "ended") /\ UNCHANGED sessions
         [] turn[t].id \in Ids /\ sessions[turn[t].id].live # 0 ->
                /\ turn' = [turn EXCEPT ![t].pc = "prompting", ![t].child = sessions[turn[t].id].live]
                /\ UNCHANGED sessions
         [] OTHER -> Goto(t, "spawning") /\ sessions' = SetPhase(turn[t].id, "Starting")
    /\ UNCHANGED <<interactive, nextId, locks, fired, binding, child, closing, history>>

Spawned(t) ==
    /\ turn[t].pc = "spawning"
    /\ child' = Append(child, [open |-> TRUE, takes |-> TRUE, prompts |-> <<>>, results |-> <<>>])
    /\ sessions' = Update(turn[t].id, [sessions[turn[t].id] EXCEPT !.live = Len(child'), !.phase = "Turn"])
    /\ turn' = [turn EXCEPT ![t].pc = "prompting", ![t].child = Len(child')]
    /\ UNCHANGED <<interactive, nextId, locks, fired, binding, closing, history>>

(* fail_session. *)
SpawnFails(t) ==
    /\ turn[t].pc = "spawning"
    /\ sessions' = SetPhase(turn[t].id, "Failed") /\ Goto(t, "ended")
    /\ UNCHANGED <<interactive, nextId, locks, fired, binding, child, closing, history>>

(* The transport is gone: clear_live. *)
TransportGone(t) ==
    /\ sessions' = Update(turn[t].id, [sessions[turn[t].id] EXCEPT !.live = 0])
    /\ turn' = [turn EXCEPT ![t].pc = "ended", ![t].child = 0]

(* submit of the child waits for the turn before it, and from then on is     *)
(* deaf to the abort until its prompt is written.                            *)
Prompt(t) ==
    /\ turn[t].pc = "prompting"
    /\ \A u \in Turns : turn[u].child = turn[t].child =>
            turn[u].pc \notin {"writing", "reading", "interrupting", "aborting"}
    /\ Goto(t, "writing")
    /\ UNCHANGED <<interactive, records, locks, fired, binding, child, closing, history>>

(* write_line returns once the child has taken the line, or is gone. *)
Prompted(t) ==
    /\ turn[t].pc = "writing"
    /\ \/ /\ child[turn[t].child].open /\ child[turn[t].child].takes
          /\ child' = [child EXCEPT ![turn[t].child].prompts = Append(@, t)]
          /\ Goto(t, "reading") /\ UNCHANGED sessions
       \/ ~child[turn[t].child].open /\ TransportGone(t) /\ UNCHANGED child
    /\ UNCHANGED <<interactive, nextId, locks, fired, binding, closing, history>>

(* The child reads its stdin no more; one that only pauses lets a write last. *)
Clog(c) ==
    /\ c \in DOMAIN child /\ child[c].open /\ child[c].takes
    /\ child' = [child EXCEPT ![c].takes = FALSE]
    /\ UNCHANGED <<interactive, records, locks, turn, fired, binding, closing, history>>

(* The child answers the prompts in order, or exits. *)
Reply(c) ==
    /\ c \in DOMAIN child /\ child[c].open /\ child[c].prompts # <<>>
    /\ LET p == child[c] IN
        child' = [child EXCEPT ![c] = [p EXCEPT !.prompts = Tail(p.prompts),
                                                !.results = Append(p.results, Head(p.prompts))]]
    /\ UNCHANGED <<interactive, records, locks, turn, fired, binding, closing, history>>

Exit(c) ==
    /\ c \in DOMAIN child /\ child[c].open
    /\ child' = [child EXCEPT ![c] = [@ EXCEPT !.open = FALSE, !.prompts = <<>>]]
    /\ UNCHANGED <<interactive, records, locks, turn, fired, binding, closing, history>>

(* Mutant of Aborting: the turn ends without the result that terminates it. *)
AbortingAtOnce(t) ==
    /\ turn[t].pc = "reading" /\ t \in fired
    /\ turn' = [turn EXCEPT ![t].pc = "ended", ![t].child = 0]
    /\ UNCHANGED <<interactive, records, locks, fired, binding, child, closing, history>>

(* The interrupt frame is being written, in the arm that saw the abort. *)
Aborting(t) ==
    /\ turn[t].pc = "reading" /\ t \in fired
    /\ Goto(t, "interrupting")
    /\ UNCHANGED <<interactive, records, locks, fired, binding, child, closing, history>>

(* It is written, or cannot be, and the grace timer is armed. *)
Interrupted(t) ==
    /\ turn[t].pc = "interrupting"
    /\ child[turn[t].child].takes \/ ~child[turn[t].child].open
    /\ Goto(t, "aborting")
    /\ UNCHANGED <<interactive, records, locks, fired, binding, child, closing, history>>

(* Mutant of Grace: no timer is armed. *)
GraceNever(t) == FALSE

Grace(t) ==
    /\ turn[t].pc = "aborting"
    /\ turn' = [turn EXCEPT ![t].pc = "ended", ![t].child = 0]
    /\ graced' = TRUE
    /\ UNCHANGED <<interactive, records, locks, fired, binding, child, closing, dropped, closes>>

(* The terminating result ends the turn, interrupted or not; the end of the  *)
(* stream without one is the child's death.                                  *)
Read(t) ==
    /\ turn[t].pc \in {"reading", "aborting"}
    /\ LET c == turn[t].child IN
        \/ /\ child[c].results # <<>>
           /\ child' = [child EXCEPT ![c].results = Tail(@)]
           /\ turn' = [turn EXCEPT ![t].pc = "ended", ![t].child = 0,
                                   ![t].answer = Head(child[c].results)]
           /\ UNCHANGED <<sessions, graced>>
        \/ child[c].results = <<>> /\ ~child[c].open /\ TransportGone(t) /\ UNCHANGED <<child, graced>>
    /\ UNCHANGED <<interactive, nextId, locks, fired, binding, closing, dropped, closes>>

-----------------------------------------------------------------------------
(* run_one_shot.  The process is external: an answer, with or without a     *)
(* session id, or an error; an abort kills it, and its idle watchdog ends a  *)
(* hung one.  Capture-then-bind is last.                                     *)
RunOneShot(t) ==
    /\ turn[t].pc = "running"
    /\ \E id \in {NoTurn, IF turn[t].resume = NoTurn THEN t ELSE turn[t].resume} :
        binding' = IF turn[t].bind /\ id # NoTurn THEN id ELSE binding
    /\ Goto(t, "ended")
    /\ UNCHANGED <<interactive, records, locks, fired, child, closing, history>>

(* end_turn; the lock of an unbound turn goes with its guard. *)
EndTurn(t) ==
    /\ turn[t].pc = "ended"
    /\ sessions' = Update(turn[t].id, [sessions[turn[t].id] EXCEPT !.phase = "Live", !.abort = NoTurn])
    /\ turn' = [turn EXCEPT ![t] = IF turn[t].class = "Bounded" THEN [@ EXCEPT !.pc = "spending"]
                                   ELSE [NewTurn EXCEPT !.pc = "done"]]
    /\ fired' = fired \ {t}
    /\ UNCHANGED <<interactive, nextId, locks, binding, child, closing, history>>

(* spend_bounded. *)
Spend(t) ==
    /\ turn[t].pc = "spending"
    /\ sessions' = SetPhase(turn[t].id, "Closed") /\ turn' = [turn EXCEPT ![t] = [NewTurn EXCEPT !.pc = "done"]]
    /\ UNCHANGED <<interactive, nextId, locks, fired, binding, child, closing, history>>

-----------------------------------------------------------------------------
TurnStep(t) ==
    \/ EnsureSession(t) \/ BeginTurn(t)
    \/ Attach(t) \/ Spawned(t) \/ SpawnFails(t) \/ Prompt(t) \/ Prompted(t)
    \/ Aborting(t) \/ Interrupted(t) \/ Grace(t) \/ Read(t)
    \/ RunOneShot(t) \/ EndTurn(t) \/ Spend(t)

Next ==
    \/ \E t \in Turns : Acquire(t) \/ TurnStep(t) \/ \E id \in Ids : SubmitBounded(t, id)
    \/ \E class \in {"Unbound", "Bounded"} : Open(class)
    \/ \E id \in Ids : Close(id) \/ Forget(id) \/ Interrupt(id)
    \/ \E c \in closing : Reap(c) \/ Prune(c)
    \/ \E c \in DOMAIN child : Reply(c) \/ Exit(c) \/ Clog(c)
    \/ Observe \/ Reset

Spec == Init /\ [][Next]_vars

(* The runtime polls a turn that can go on.  Nothing is assumed of a child:  *)
(* it need neither answer, nor exit, nor read.                               *)
FairSpec == Spec /\ \A t \in Turns : WF_vars(TurnStep(t))

-----------------------------------------------------------------------------
Pcs == {"new", "queued", "ensured", "begun", "spawning", "prompting",
        "writing", "reading", "interrupting", "aborting", "running", "ended", "spending", "done"}

Phases == {"Idle", "Starting", "Live", "Turn", "Interrupting"} \union Terminal

Entry == [class : {"Unbound", "Bounded"}, phase : Phases, live : Nat, abort : Turns \union {NoTurn}]

TurnState ==
    [pc : Pcs, class : {"Unbound", "Bounded"}, lock : Nat, ticket : Nat, resume : Turns \union {NoTurn},
     bind : BOOLEAN, id : Nat, child : Nat, answer : Turns \union {NoTurn}]

ChildState == [open : BOOLEAN, takes : BOOLEAN, prompts : Seq(Turns), results : Seq(Turns)]

TypeOK ==
    /\ interactive \in BOOLEAN /\ sessions \in [Ids -> Entry] /\ nextId \in Nat \ {0}
    /\ chain \in Nat /\ nextLock \in Nat /\ asked \in Nat
    /\ turn \in [Turns -> TurnState] /\ fired \subseteq Turns /\ binding \in Turns \union {NoTurn}
    /\ child \in Seq(ChildState) /\ closing \subseteq Nat \X Nat
    /\ dropped \subseteq Turns /\ graced \in BOOLEAN /\ closes \in Nat

InTurn(t) == turn[t].class = "Unbound" /\ turn[t].pc \notin {"new", "queued", "done"}

(* Two unbound turns of one conversation are never under way together,       *)
(* however a close prunes the chain they wait on.                            *)
TurnsSerialized == \A t, u \in Turns : InTurn(t) /\ InTurn(u) => t = u

Unbounds == {id \in Ids : sessions[id].class = "Unbound"}

(* A conversation has at most one child that is not being closed, so two     *)
(* processes never share its context.  A bounded record is the exception:    *)
(* an unbound turn may lend it a child, which spend_bounded then strands, or *)
(* which has a rival when the record was closed and its own turn opened it   *)
(* again: a turn is then spoken of only if its record is an unbound one.     *)
OneChild ==
    /\ \A i, j \in Unbounds : i # j => sessions[i].live = 0 \/ sessions[j].live = 0
    /\ \A t \in Turns : \A i \in Unbounds :
        turn[t].child # 0 /\ turn[t].id \in Unbounds => sessions[i].live \in {0, turn[t].child}

(* A turn takes the answer to its own prompt, unless a turn before it gave   *)
(* up on the child, whose answer then comes late.                            *)
AnswerIsOwn ==
    interactive => \A t \in Turns :
        turn[t].class = "Unbound" /\ turn[t].answer # NoTurn /\ ~graced => turn[t].answer = t

(* What a reset dropped is never bound again: the turn after it starts fresh,*)
(* even when the reset fell into a turn that was resuming it.                *)
ResetSticks == binding \notin dropped

(* A turn that waits for its child to take a line, and the child reads none. *)
Stuck(t) == turn[t].child # 0 /\ WritesTo(t, turn[t].child)
            /\ child[turn[t].child].open /\ ~child[turn[t].child].takes

(* An interrupted or closed turn ends, whether its child answers, exits or   *)
(* does neither, or else is stuck for good in a write that the child does    *)
(* not take.                                                                 *)
AbortedEnds == \A t \in Turns : (t \in fired) ~> (turn[t].pc = "done" \/ []Stuck(t))

-----------------------------------------------------------------------------
(* Why these hold. *)

(* Ids, tickets and children are given out in order. *)
GivenOut ==
    /\ Ids \subseteq 1..(nextId - 1) /\ \A i \in Ids : sessions[i].live <= Len(child)
    /\ \A c \in closing : c[2] <= Len(child)
    /\ \A t \in Turns :
        turn[t].id < nextId /\ turn[t].ticket <= asked /\ turn[t].child <= Len(child)

Attached == {"prompting", "writing", "reading", "interrupting", "aborting"}

(* What a turn keeps at each of its stages. *)
Stage(s) ==
    /\ s.lock # 0 <=> s.class = "Unbound" /\ s.pc \notin {"new", "done"}
    /\ s.child # 0 <=> s.pc \in Attached
    /\ s.pc \in Attached \union {"queued", "begun", "spawning", "new", "done"} => s.class = "Unbound"
    /\ s.pc = "spending" => s.class = "Bounded"
    /\ s.answer # NoTurn => s.pc = "ended" /\ s.class = "Unbound"
    /\ s.bind => s.resume = NoTurn

Stages == \A t \in Turns : Stage(turn[t])

(* Whoever waits for a lock waits for the one in the map: it is pruned only  *)
(* when nobody does.  Who is under way asked before all of them.             *)
Lined ==
    \A t \in Turns : turn[t].lock # 0 =>
        /\ turn[t].lock = chain
        /\ \A u \in Turns : turn[u].lock # 0 /\ u # t =>
            turn[t].ticket # turn[u].ticket /\ (InTurn(t) => turn[t].ticket < turn[u].ticket)

(* What is or was bound is the session of a turn that is over. *)
BoundIsOver ==
    /\ \A t \in Turns : t \in dropped \/ t = binding => turn[t].pc \in {"ended", "spending", "done"}
    /\ ResetSticks

Over(id) == sessions[id].phase \in Terminal

(* The turns of a conversation use its oldest open record, so a child on an  *)
(* unbound record means that the older ones are over, and a record that is   *)
(* over has none.                                                            *)
OldestServes ==
    \A j \in Unbounds :
        /\ Over(j) => sessions[j].live = 0
        /\ \A i \in Unbounds : i < j /\ sessions[j].live # 0 => Over(i)

(* So while a turn is under way on its record no other has a child, and none *)
(* older comes back.                                                         *)
Served(t) ==
    /\ turn[t].class = "Bounded" => turn[t].id \notin Unbounds
    /\ InTurn(t) /\ turn[t].id \in Unbounds =>
        /\ \A j \in Unbounds : (j # turn[t].id => sessions[j].live = 0) /\ (j < turn[t].id => Over(j))
        /\ turn[t].pc = "spawning" => sessions[turn[t].id].live = 0
        /\ turn[t].child # 0 => sessions[turn[t].id].live \in {0, turn[t].child}

TurnServed == \A t \in Turns : Served(t)

(* The turn that has the child's events to itself, and whether it has asked. *)
Waits(t, c) == turn[t].child = c /\ turn[t].pc \in {"writing", "reading", "interrupting", "aborting"}

Awaits(t, c) == Waits(t, c) /\ turn[t].pc # "writing"

(* A child that is gone has no prompt to answer. *)
Silent == \A c \in DOMAIN child : ~child[c].open => child[c].prompts = <<>>

(* One turn waits for a child at a time. *)
OneWaits == \A t, u \in Turns : \A c \in DOMAIN child : Waits(t, c) /\ Waits(u, c) => t = u

(* Until a turn gives up on it, a child has one prompt or one result at most,*)
(* that of the turn that waits.                                              *)
InFlight ==
    ~graced => \A c \in DOMAIN child :
        /\ Len(child[c].prompts) + Len(child[c].results) <= 1
        /\ child[c].prompts # <<>> => Awaits(Head(child[c].prompts), c)
        /\ child[c].results # <<>> => Awaits(Head(child[c].results), c)

OwnAnswer == ~graced => \A t \in Turns : turn[t].answer \in {NoTurn, t}

IInv ==
    /\ TypeOK /\ GivenOut /\ Stages /\ Lined /\ BoundIsOver /\ OldestServes /\ TurnServed
    /\ Silent /\ OneWaits /\ InFlight /\ OwnAnswer
=============================================================================
