# TLA+ models of medulla

Medulla lets one machine (the *hub*, the *owner* of a link) drive coding
harnesses that run on other machines (*workers*, *hosts*). This directory holds
TLA+ models of the parts on which that depends: the link that carries every
message between the two, the dispatch of a task from the hub to a worker, the
conversations a worker keeps, the control socket a harness calls back through,
and the records of the workflows it runs.
The models are checked with TLC on small instances, and the most important
properties are proved with TLAPS for every instance.

Paths below are relative to the repository's `src/`. `PROJECT.json` has, for
every definition that models code, the lines it models; the list of runs, the
mutants that show each property can fail, the hazards and the theorems.

1. [The system](#1-the-system)
2. [Modules and the code](#2-modules-and-the-code)
3. [Runs](#3-runs)
4. [Fairness](#4-fairness)
5. [Proofs](#5-proofs)
6. [Disagreements between code and documentation](#6-disagreements-between-code-and-documentation)
7. [Observations without a run](#7-observations-without-a-run)
8. [What is not modelled](#8-what-is-not-modelled)
9. [Plan](#9-plan)

## 1. The system

### Inventory

| Component | Source | State it keeps | Operations |
|---|---|---|---|
| Sequence reservation, node store | `link/src/keys/{seq,store,mod}.rs` | `node.json` on disk (pair key, reserved sequence), the lock file, a live counter with its block's limit | `acquire`, `acquire_or_create`, `reserve`, `next_seq`, `write_node_state` |
| Synchronised states | `link/src/state/{queue,grid}.rs` | a queue of messages with a base number; a grid of rows | `push`, `diff_from`, `apply_diff`, `prune`, `drain`, `rebase_steps` |
| State channel | `link/src/transport/channel.rs` | current state and number, history of sent states, the number the peer is assumed to hold, the received state and number | `advance`, `instruction`, `note_sent`, `apply` (with the acknowledgement), `reset_peer` |
| Session | `link/src/transport/mod.rs` | two channels, pending acknowledgements, own epoch, peer's epoch, retired epochs, timing | `queue_message`, `set_screen`, `outgoing`, `receive`, `take_messages` |
| Link driver and handle | `link/src/link/{mod,types,direct}.rs` | sessions of all peers, backlog of inbound messages, direct routes, screen lock | command handling, datagram handling, `send_message`, `send_screen` |
| Bridge | `sdk/src/bridge/` | reassembly buffers, bounded inbox, a send lock per peer | `send`, pump, `reassemble`, `drain_inbox`, `wait_for_inbox` |
| Hub runner and pump | `sdk/src/hub/{runner,pump}` | `waiters` by correlation id, `aborts` by abort id | `run_inner`, `route_frame`, `abort_task`, `abort_all` |
| Worker runtime | `sdk/src/daemon/` | `running` by task id, admission count, harness slots | `handle_message`, `handle_task`, `handle_abort` |
| Sessions | `sdk/src/sessions/` | session records and their phases, bindings to a harness's own session, turn chains, interactive children | `open`, `observe`, `submit`, `run_turn`, `interrupt`, `reset`, `close`, `forget` |
| Executor | `tui/src/worker/executor/` | the pty of a session, who holds it, the checkout | `run_turn`, hold, hand-back |
| Control socket: tasks | `sdk/src/control_socket/server/` | accepted tasks with their state and signal | `spawn_below_limit`, `settle`, `evict`, `wait`, abort |
| Control socket: grants and runs | `sdk/src/control_socket/{grants,runs}` | grants by token, rows of reported runs, sessions retiring | `mint`, `redeem`, `restrict_to_reporting`, `revoke`, `report`, `retire`, `forget` |
| Workflow runs | `sdk/src/workflows/{run,local,ops}` | a registry per process, persisted run records | start, snapshot, settle, resume, `cancel_run`, `reconcile_orphans` |
| Screen store | `sdk/src/hub/screens` | watched screens | arm, apply full and delta frames, evict |
| Codex app server | `sdk/src/codex_app_server/` | shared process, calls, subscriptions | call, subscribe, reader and writer tasks |

The remaining parts (configuration, accounts, rendering, parsers, vendored
code) are in the `components` of `PROJECT.json` with the reason they are not
modelled.

### How the parts interact

    hub runner --frame--> bridge --message--> link driver --> session --> channel 0
        ^                   |                    (one task)      |           |
        |                fragments                              seal      diff from the
      pump <--- inbox <-- reassembly <-- take_messages           |       assumed state
                                                          sequence number
                                                       (ReservedSeq, a nonce)

* A session draws one sequence number for every datagram. The sequence is the
  nonce of the AEAD, so a repeat is fatal: `keys/seq.rs` reserves blocks on disk
  before it hands any of it out.
* A channel synchronises a *state* rather than delivering packets: it sends the
  difference between a state it believes the peer holds and a newer one.
  Acknowledgements ride on instructions. Channel 0 carries a message queue,
  channel 1 (host to owner) the rows of a screen.
* A process restart gives the session a new random epoch. The surviving peer
  hears it in the next datagram and rebases both channels.
* The bridge cuts task-protocol frames into messages of channel 0, and the
  hub's pump routes incoming frames to waiters by their correlation id. The
  worker starts one asynchronous handler per frame, so that frames taken in
  order can be handled in any order.
* A conversation's turns go through `SessionManager`, which serialises them with
  a lock per key and runs them in one long-lived child or in a process per turn.
* A harness calls back over the control socket with a token. It dispatches tasks
  (which go to the hub runner), and starts workflow runs that may outlive it;
  their reporters keep using the token after the harness is gone.
* A workflow run is a record in a store that several processes read and write
  whole: the one that executes it, those that cancel it, and those that settle
  what a dead process left.

### What is hard

* **Unreliable network.** Loss, duplication, reordering, delay. A diff does not
  say where it belongs; only the pair of state numbers does.
* **Crashes.** At every step of a file replacement; of either end of a link,
  with unacknowledged state at the other; of a worker with tasks at any stage.
* **Limits.** History of sent states, queue length, datagram size, reserved
  block at the end of the sequence space, admission gate, harness slots, room
  on the link.
* **Interleaving.** Two processes and one identity directory; two tasks sending
  screens over one channel; handlers of one worker; abort, answer, timeout and
  resend of one dispatch; a close while turns wait; a harness that exits while
  its runs report; processes that read, judge and write one run record.
* **Stale state.** A timer that runs out while the answer is on its way; an
  acknowledgement for a former life; a hold that outlives its worker.
* **Liveness.** A queued message is taken in the end; a dispatch ends; a full
  inbox is set going again; an orphaned run is settled; a grant is given back.

What makes each part correct, in one line:

* *sequence reservation*: no sequence twice under one key, whatever crashes;
* *channel 0*: messages arrive once and in order, the sender forgets only what
  has arrived, and every state can be sent;
* *channel 1*: the owner's grid is the host's of that number, and only whole
  frames are shown, in order;
* *session*: a restart of the peer loses and repeats nothing, and communication
  resumes;
* *task dispatch*: an answer reaches the attempt it belongs to, no waiter, slot
  or task id leaks, every run can be aborted, and every dispatch ends;
* *bridge*: frames come out whole, once, in order, and all of them;
* *sessions*: one turn at a time and one child per conversation, each turn gets
  the answer to its own prompt, a reset holds, an interrupt ends the turn;
* *task registry*: no work and no poll loses its entry, and no wake-up is lost;
* *grants*: the token of a session that is over works exactly as long as a run
  it left behind still reports;
* *workflow runs*: a record says what happened, whoever dies or sweeps.

## 2. Modules and the code

| Module | Models | Extended or used by |
|---|---|---|
| `SeqReservation` | `keys/seq.rs`, `keys/store.rs`, `keys/mod.rs` | `MCSeqReservation`, `LinkNodeProofs` |
| `MessageQueue` | `state/queue.rs` (operators) | `QueueLink`, `LinkSession` |
| `ScreenGrid` | `state/grid.rs` (operators) | `ScreenLink`, `LinkSession` |
| `Channel` | `transport/channel.rs` (operators, parameterised by the state) | instantiated by the three below |
| `QueueLink` | channel 0 between two endpoints | `MCQueueLink`, `QueueLinkProofs` |
| `ReliableQueue` | abstract: what channel 0 promises | refined by `QueueLink` |
| `ScreenLink` | channel 1 and `send_screen` of several tasks | `MCScreenLink`, `ScreenLinkProofs` |
| `LinkSession` | the whole `Session` at both ends, with epochs and restarts | `MCLinkSession`, `LinkNodeProofs` |
| `TaskDispatch` | `hub/runner`, the pump, `daemon/task_loop` | `MCTaskDispatch`, `TaskDispatchProofs` |
| `LinkBridge` | `bridge/link.rs` and the inbound half of the link driver | `MCLinkBridge`, `LinkBridgeProofs` |
| `Sessions` | `sessions/manager`, `sessions/registry`, `sessions/interactive` | `SessionsProofs` |
| `TaskRegistry` | `control_socket/server/registry.rs`, `handle/tasks.rs` | `MCTaskRegistry`, `ControlSocketProofs` |
| `HarnessRuns` | `control_socket/{grants,runs}`, `mcp/attach.rs`, `workflows/report.rs` | `ControlSocketProofs` |
| `WorkflowRuns` | `workflows/{run,local.rs,ops/runs}` | `MCWorkflowRuns`, `WorkflowRunsProofs` |

A proof module may be about two modules that do not interact: the names that
these would share begin with `Reservation` in `SeqReservation` and with
`Registry` in `TaskRegistry`.

The modules meet where one takes for granted what another shows. `LinkBridge`
and `TaskDispatch` take a link that is an ordered queue while both processes
live, which `QueueLink` shows to implement `ReliableQueue`; `TaskDispatch` takes
whole frames in order, which are `WholeFrames` and `InOrderOnce` of `LinkBridge`;
`TaskRegistry` takes that a dispatch ends, which `TaskDispatch` shows for one
that is aborted or whose worker is silent; `HarnessRuns` takes a run that ends
in any way, of which `WorkflowRuns` models the record.

### SeqReservation

Processes race for an identity directory. `lock` is the lock file, `file` what
a reader of `node.json` sees now, and `survivors` everything a power cut may
leave of it (a rename is not durable before the directory is synced). Each
process has its program counter, the `stage` of the write it is in, and
`ReservedSeq`'s fields `key`, `res` (recorded reservation), `next` and `limit`.
`issued` is a history of `<<key, sequence>>` pairs.

`write_node_state` is not one action: the temporary file, the removal of the
target (where `windows`, chosen at the start and kept), the rename, the sync of the directory
and the return are separate, and after each of them the process may die, the
machine may lose power or the call may fail (a power cut only where the
directory is synced, which the Windows build does not do). `NextSeq` hands out a
sequence, `Reserve` begins `reserve()` when the block is used up; at the end of the sequence
space (`MaxSeq`) a reservation is clamped and the counter then is exhausted.
A random pair key is a number never used before (`nextKey`).

### Channel, MessageQueue, ScreenGrid

`Channel` has the functions of `Channel<S>` as operators on a record with the
fields of the struct. Rust's trait `SyncState` becomes the operator parameters
`DiffFrom`, `ApplyDiff`, `Accepts`, `ReleaseThrough` and `Fits`, and each module
that uses it instantiates it per state type. `Instruction` picks the newest
state whose diff fits, as `instruction()` does. A queue is `[base, messages]`, a
grid a sequence of rows; the byte sizes are bounds on the number of messages or
changed rows (`MaxDiff`, `MaxChanged`).

### QueueLink and ReliableQueue

Two `Channel<MessageQueue>` over a network that is a *set* of instructions:
nothing is ever removed from it, and any of it may be received at any time, any
number of times or never. This is loss, duplication, reordering and delay at
once. `log` and `taken` are histories of what was queued and taken.

`ReliableQueue` says what the applications may rely on, without datagrams:
`Put`, `Exchange` (more of the peer's messages have arrived, more of the own
ones, which the peer has, are let go of), `Take`. `QueueLink` maps `arrived` to
`received_num` and `released` to the base of the current queue.

### ScreenLink

Channel 1 with the same network, and tasks that send frames: `send_screen`
takes a lock, and sets a longer and longer prefix of a frame too large for one
datagram, waiting while the history of sent states is full. A frame can be given up after any step
(an error, or the task is dropped). `shown` is what the owner's application is
shown: `complete_screen_frame` on each new grid.

### LinkSession

Both channels, acknowledgements that wait for a datagram to ride on, epochs,
`retired`, `reset_peer` with the renumbering of the queue and the rebase steps
of the grid, sends that fail after the channel has noted them, and restarts.
Here the network is a sequence per direction: which datagrams are lost is
always a choice, and the constants say whether they may also be reordered and
repeated (`Reorder`) and whether they may outlive a restart (`Linger`). The
several datagrams of one `outgoing()` are separate deliveries. Timers are
choices: which channel's retransmission timeout has passed and whether a
heartbeat is due.

The rest is there for the properties only. A datagram in flight has `heard`, the
epoch its sender had heard, and `outlived`, that it was in flight when a process
restarted; neither is on the wire. `crossed` says that the owner's present life
took a grid sent to a former one; `met`, which ends have taken a datagram that
was not meant for a former life of theirs. A datagram is `Timely` unless it
outlived a restart, or is meant for a former life of a receiver that has `met`
its peer: the numbering it belongs to is over, and its receiver has seen the
new one. `disordered` says that one that was not `Timely` was taken, which no end
can tell from a good one (section 7).

### TaskDispatch

A call is an invocation of `run_inner`; its attempts have correlation ids
`<<call, attempt>>`. `call` holds the locals of `run_inner` and the cells its
waiter shares with the pump: the abort and activity permits (`Notify` keeps one
permit), the held flag and the oneshot. The selects are biased in the code, and
so are the guards: terminal frame, abort, activity, window. A window can run
out whenever its clock runs (`ClockRuns`: link live and session not held);
durations are left out, so each behaviour of the real windows is included.

On the worker, `handler[k]` is where `handle_task` of the frame with
correlation id `k` stands. A handler's sends wait for room on the link, which is
why an answer owed (`Owed`) is a stage of its own. `admitted` and `running` are
the two fields of `Inner`, and `Release` is the drop of the admission guard on
every path. `AbortGuard`, the interplay of several calls with one abort id, and
`abort_all` are modelled as they are. The worker can crash at any point, which
loses all of its tasks and any tail of the frames its link had not delivered.
The link in between is an ordered, reliable queue of bounded capacity, which is
what `ReliableQueue` promises while both processes live.

### LinkBridge

Each peer's `send` mints an id for a frame, holds the peer's lock and offers
its chunks one by one; it may be dropped half way. `outbox` is what the peer's
session has to get across, in order (`QueueLink`), and `read` how much of it the
receiver's session has handed to the driver. The driver takes a peer's messages
only when nothing of that peer waits in `pending_inbound` (`Arrive`), and
`FlushInbound` is `flush_inbound`: a round over the peers from `cursor`, until
the channel has no more room, with what did not fit put back in front. The pump
(`Recv`, `Offer`, `Await`, `Wake`) is `spawn_pump` with `reassemble`, the check
of the inbox under its lock, and the `Notify` it waits on (`space` is the
permit). `Drain` is `drain_inbox`. A sender's restart changes its epoch and
loses what it had not got across; the receiver's restart starts everything but
the senders afresh, and the sessions offer again what was not acknowledged.

### Sessions

One conversation, since records, bindings and chains are looked up by its key.
Every lock section of `SessionManager` and of the registry is a step, and a turn
(`turn[t].pc`) can be overtaken between any two. `sessions` has the records by
id, in the order they were made. An unbound turn first takes `chain`, the lock
the registry holds for the key; the lock's queue is a ticket drawn from `asked`
when a turn clones it (`turn[t].ticket`), and the holder is the oldest ticket
out. `close` prunes the lock by its reference count. `Plan` to `EndTurn` are
`run_turn`: the binding is read, the session found or made, the abort
registered, the child fetched or spawned, the prompt written, the answer or the
abort awaited, the binding recorded, the phase set. `Bounded` turns go through
`submit` and `spend_bounded`. The operator's `open`, `interrupt`, `reset`,
`close` and `forget` come at any time. A child answers its prompts in order, or
fails, or never answers.

What is written to a child's stdin waits for the child to take it. `Prompt`
begins the write of the prompt and `Prompted` ends it, outside the select and so
deaf to an abort; `Aborting` begins that of the interrupt, in the arm that saw
the abort, and only `Interrupted`, when it is written or has failed, arms the
timer of `Grace`. A child that `takes` no more (`Clog`) keeps either from ending
while it is `open`, and a close waits behind it for the lock on stdin.

### TaskRegistry

`entry` is the table of accepted tasks. A dispatch is several steps in the code
and here: the entry is made and the task spawned below the limits
(`spawn_below_limit`, with `evict`), the spawned task registers its abort and
reports that it has, the call answers. The work ends, settles its entry, signals
the waiters; or it is dropped or panics. A poll subscribes under the lock and
waits on the signal. `finished` is the date an entry was settled at, in the
order of `Clock`: two may have the same one. `Evictions` is what `evict` may
take: all that is older than its time to live, then as many of the oldest as are
over the table's bound; which of two with the same date is open. An entry that is
waited for is in neither (`Unwatched`).

### HarnessRuns

One harness session: its tokens in `grants`, its row in the interface, the table
of the runs it reported, and the runs with their forwarders in the subprocess
that executes them. The exit of the harness takes several lock sections
(`retire`, then restrict or revoke), and so does the operator's `forget`; a
report is redeemed, recorded and answered in three. The forwarder coalesces the
reports that wait behind the one under way.

### WorkflowRuns

One run and the processes that share its record. The store has no
compare-and-set, so each read and each write of `disk` is a step, what was read
is written back as it was, and any of them may fail. `leg[p]` is `run_workflow`
or `resume_workflow` in process `p`, with the record its `RunFinalizer` holds;
`op[p]` is `p`'s `cancel_run` or `reconcile_orphans` between two of its store
calls. The engine is external and ends a leg in every way it can. A killed
process runs no destructor; a dropped future does.

A run begins under a new id (`Start`, `LocalRun::start`, which writes an
admission record first) or inline, from a task frame, under the id of the task
(`StartInline`). The only thing in the way of the second is a run the *same
process* has claimed: a frame that is resent after the run has settled, or to a
worker that was started again, runs the same id anew, whatever the store says.

The last writes of a run are steps of their own. A refusal or an error lets go
of the claim first and leaves LocalRun's task to write `Failed` (`FailingLeg`,
`WriteFailed`); the finalizer writes `Interrupted` when the terminal write fails
(`FinishFails`) or the future is dropped (`Drop`). Each of these may fail too,
which the code only logs. A future dropped before the finalizer is armed writes
nothing (`DropUnarmed`). Three variables are there for the properties and the
bounds: `owners`, which processes have claimed the run to execute it afresh;
`frames`, how many frames named it; `faults`, whether a leg ended of which no
last write succeeded (`"unwritten"`) and whether a cancel whose second read failed
went on with its first (`"unread"`). `Readable` says whether a process finds
another in the process table: `is_alive` takes for dead what it cannot look up.

## 3. Runs

Distinct states and seconds are of a run on two workers.

| Run | Instance | States | s | Shows |
|---|---|---|---|---|
| `seq_reservation` | 2 processes, block 2, last sequence 6, 2 keys, both platforms | 12,245 | 2 | no sequence twice under one key (`NeverRewinds`), the disk counts what was issued as spent (`ReservedBeforeUse`), the identity survives on Unix (`IdentityKept`) |
| `queue_link` | queue of 2, 1 message per datagram, history of 3, 3 messages one way and 1 the other | 328,356 | 94 | `InOrderOnce`, `AlwaysSendable`, and channel 0 implements `ReliableQueue` |
| `screen_link` | 2 writers, frames of 1 and 2 rows, 1 row per datagram, history of 4 | 296,724 | 86 | `GridIsPeers`, `FramesWholeInOrder`, `StepAlwaysFits` |
| `session_restart` | host restarts and owner queues 2, or restarts twice and owner queues 1, or owner restarts and host sets 3 grids; reordering, repeating network, datagrams outlive processes | 317,632 | 167 | `SurvivorLosesNothing`, `TakenInOrderOnce`, `GridOfOneFrame`, and `AlwaysSendable` after every rebase |
| `session_live` | owner restarts once, host sends a message and 2 frames, network keeps order | 28,966 | 150 | under fairness `EventuallyTaken`, `ScreenCatchesUp` |
| `session_loss` | owner restarts once | - | 4 | **violated**: `NothingLost` |
| `task_dispatch` | 1 call, 1 resend, room for 2, 1 slot, link of 1 frame, 1 crash, 1 outage, 1 hold | 224,790 | 186 | `RunsReachable`, `NothingStranded`, `OutcomeIsItsOwn`; under fairness `AbortEnds`, `SilentReaped`, `AbortedRunStops` |
| `link_bridge` | 2 peers with frames of 2, 2 and 1 chunks, channel of 1, inbox of 2, 1 restart, 1 screen | 311,230 | 55 | `WholeFrames`, `InOrderOnce`, `CompleteDelivered`; under fairness `EverythingTaken` |
| `sessions` | 2 turns, 2 records opened, 1 close, both transports, children that stop reading | 329,755 | 70 | `TurnsSerialized`, `OneChild`, `AnswerIsOwn`, `ResetSticks`; under fairness `AbortedEnds` |
| `task_registry` | 3 tasks, 2 grants with ceilings 1 and 2, 2 in flight, 2 entries | 499,438 | 127 | `WorkReachable`, `NotMisled`; under fairness `WaiterWoken` |
| `harness_runs` | 2 runs, a table of 1, 1 pending progress report | 443,076 | 57 | `GrantIffRetiring`, `OutcomeShown`; under fairness `GrantReturned` |
| `workflow_runs` | 2 processes, 2 frames, and up to 2 cancels or up to 1 gate | 150,808 | 68 | `RunningHasRunner`, `LiveRunSpared`, `OutcomeKept`; under fairness `OrphanSettles` |

`TypeOK` of a module says what its variables hold; it is proved where the module
has proofs.

### Why these bounds are enough to be interesting

* *SeqReservation.* A block of 2 has a first and a last sequence; three blocks
  end exactly at `MaxSeq`, so the clamped reservation and exhaustion happen.
  Two processes are all a lock has to tell apart; two keys allow an identity to
  be minted after the first is lost. Deadlock is checked: an exhausted process
  can still die.
* *QueueLink.* The owner queues more messages than the queue holds, than one
  datagram carries and than the history keeps, so every bound refuses and every
  pruning happens; the other direction carries acknowledgements and one message.
  The theorems lift all of these bounds.
* *ScreenLink.* Frames of one and two rows with one changed row per datagram
  make a frame of two steps, a shrinking grid and a frame given up half way
  followed by one of either size. The history of four lets it fill up. The
  theorems are for any tasks, frames, rows per datagram and history.
* *LinkSession.* A message in flight and another held back need a rebased history
  of several states, and with two restarts one that is rebased again; with one
  retired epoch remembered, two make the oldest be forgotten. Two frames of two
  rows, three of the four grids set, let a rebased history and the one before it
  give the same number to different grids. A run with both sides restarting and
  both queueing is out of reach, so `session_restart` puts one load on the link or
  another (`Loads` of `MCLinkSession`); the theorems are about all of them
  together. Two datagrams in flight per direction can overtake and repeat each
  other, and outlive a process. What a datagram of a numbering that is over does
  when it is taken is exempted (`disordered`), see section 7. `session_live` is on a
  network that keeps the order and with no datagram outliving a process
  (`Reorder` and `Linger` false), since such a datagram can silence a link.
* *TaskDispatch.* One resend is enough for a late answer and for a duplicate
  task id; one slot makes runs queue; a link of one frame makes every send wait.
  With room for two tasks and two attempts the gate sheds nothing: that case,
  several calls and the second resend of the code (`MAX_RESETS`) are in the
  theorems, which cover any bounds.
* *LinkBridge.* A channel of one message is full after every step; an inbox of
  two lets the pump both pass and wait. One peer has frames of two chunks, so a
  frame can be cut by a restart or a dropped `send` with another after it; the
  other keeps the driver's cursor moving. One restart is of a sender or of the
  receiver. The driver's loop comes round for ever, so there is no state
  without a step; that the work gets done is `EverythingTaken`.
* *Sessions.* Two turns are enough for every race of the manager that involves
  a turn and what overtakes it, and for a turn behind one stuck in a write; two opened records make rivals under one key.
  The theorems lift these bounds, which matters: with three turns a closed
  bounded record can come back as a rival of an unbound one, see section 7.
* *TaskRegistry.* Two entries for three tasks makes the table full with a
  finished entry, with none, and with one that is waited for; the ceilings of 1
  and 2 are reached separately and by both grants together.
* *HarnessRuns.* A table of one with two runs evicts; one pending report makes
  the forwarder coalesce.
* *WorkflowRuns.* Two processes give an executor and one that cancels, sweeps or
  resumes, in every order; the code's decisions name only these two. Two frames
  make a run that is executed again, by the same process or by one started after
  it. One gate parks the run once, and two cancels race each other. A gate and a
  cancel together are too much for the run (`OneLoad` of `MCWorkflowRuns`), and
  are left to the theorems, as is a store whose processes cannot look each other
  up: `Readable` is true in the run.

Deadlock is not checked for the other modules: with bounded numbers of
messages, frames, lives, calls, turns, tasks and runs these systems stop when
the work is done.

## 4. Fairness

Liveness is checked under weak fairness of steps the runtime is bound to take
and, where another task can take the room again, strong fairness of the one that
waits in line.

`LinkSession` (`session_live`):

* weak fairness of `Outgoing` of an endpoint with a datagram of a channel that
  has something pending, or, when none has, of the acknowledgement owed or the
  heartbeat: the driver's timer wakes it, the heartbeat interval and the
  retransmission timeout pass again and again, and reserving sequence numbers
  succeeds in the end. `rotate` alternates the order of the channels, so it is
  not always the same one of two datagrams that a full network (`MaxNet`) loses;
* strong fairness of receiving datagrams of a channel: what keeps being sent
  keeps getting through. Without this no protocol delivers anything. Loss of any
  finite number of datagrams remains possible.

`OutgoingFails` and `Restart` have no fairness.

`TaskDispatch` (`task_dispatch`):

* weak fairness of the hub's steps, the pump, the worker's drain loop, and the
  handling of aborts: tasks the runtime has scheduled run on, and a window whose
  clock runs is over some day;
* weak fairness of `LinkUp`: an outage ends;
* strong fairness of a handler's own steps: its send is enabled only while the
  link has room, which other handlers may take again and again, but senders wait
  for it in a first-come queue (`bridge/link.rs`, `send_with_backpressure`);
* strong fairness of `Finish` of a run that was aborted: a harness heeds the
  abort.

Nothing is assumed of how long a harness works, of how long an operator holds a
session, of the turn a run waits for, of failing sends, or of the
acknowledgement of an abort.

`LinkBridge` (`link_bridge`): weak fairness of the driver's `Arrive` and
`FlushInbound` (its loop), of the pump's steps, and of `Drain` (the consumer
polls). Nothing of sends, restarts or screens.

`Sessions` (`sessions`): weak fairness of a turn's own steps, which includes the
end of the grace period after an interrupt, and that a write ends once the child
takes it or is gone. Nothing is assumed of the child: it need not answer, exit
or read.

`TaskRegistry` (`task_registry`): weak fairness of the spawned task's steps
(its dispatch ends, see `TaskDispatch`) and of a waiter that was signalled. The
poll's own timeout (`TimesOut`) may pass at any time and is not relied on: a
waiter has to be woken by the signal.

`HarnessRuns` (`harness_runs`): weak fairness of the steps that end a session
and forget a row once begun, of a forwarder with something to send, and of a run
ending. Nothing of the operator or of a process being killed.

`WorkflowRuns` (`workflow_runs`): weak fairness of a leg's steps (the engine ends
by `run_timeout_secs`, a store call returns), of the steps of a cancel or a
sweep under way, and of beginning a sweep: a process that stays up keeps
discovering its store. Strong fairness of a sweep's second read and of its
write: a store that is asked again and again works some time. Nothing of
resumes, cancels, drops, kills or resent frames.

## 5. Proofs

All proofs are for arbitrary constants under the named assumptions of the
modules they are about, which TLC evaluates in every run of the module:

* bounds are natural numbers, and limits are not zero (`BlockAssumption`,
  `MaxSeqAssumption`, `MaxKeysAssumption`, `LimitsAssumption`,
  `MaxChangedAssumption`, and in `SessionAssumption`, `BridgeAssumption`,
  `DispatchAssumption`, `TaskRegistryAssumption`,
  `HarnessRunsAssumption`, `SessionsAssumption`, `RunsAssumption`);
* "none" is not a process, a task, a call or a turn (`ProcAssumption`,
  `WriterAssumption`, and in those of the dispatch, the sessions and the runs);
* the two endpoints differ (`EndpointsAssumption`, `ScreenEndsAssumption`, and in
  `SessionAssumption`);
* a frame is a sequence of at least one chunk (`FramesAssumption`,
  `BridgeAssumption`: an empty body goes out as one row with an empty chunk);
* the tasks, turns and runs of a process are finitely many where the code counts
  them; the task table has at least the room of the global ceiling, as in the
  code (512 entries, 256 in flight).

No other assumption is made. Each invariant was checked with TLC before it was
proved.

### LinkNodeProofs: the reservation

`NonceNeverReused` (`NeverRewinds`), `DiskIsAhead` (`ReservedBeforeUse`),
`CrashIsCheap` (`CrashSkipsOneBlock`: a crash skips at most one block),
`ReservationTypeCorrect`, and `ReservationInductive` for the invariant they all
rest on. For every set
of processes, block size, last sequence and number of keys, on both platforms.
`IdentityNeverLost` (`IdentityKept`) is the one that holds on one platform only:
where a rename replaces its target, every file a crash or a power cut can leave
names an identity once one was created (lemmas `NamedStep`, `DiskNamed`).

That sequences of one key increase is not inductive: a process whose counter
stands at `next` might meet one that has handed out more. `ReservationIInv` (in
`SeqReservation`, and checked by TLC before it was proved) adds

* `Holder`: only the holder of the lock is past `locked`, and a renamed file is
  the one it wrote;
* `Counter`: everything issued under its key is below `next`, everything the
  disk may show under its key is at most one block ahead of `next`, and the
  block's limit is covered by it;
* `Seeded`, `KeysMinted`: a fresh key has been used nowhere;
* `DiskCovers`: *every* value a power cut may leave treats what was issued as
  spent, and of one key the visible file is the newest.

The last is what carries the argument over a crash: the next process opens at
whatever survived, and starts above all that was issued.

### LinkNodeProofs: the session

`SessionsSound` (`IInv`), `TypeCorrect` (`TypeOK`), `NeverTooLarge`
(`AlwaysSendable`), `InOrderAcrossRestarts` (`TakenInOrderOnce`),
`NothingLostBySurvivor` (`SurvivorLosesNothing`) and `RowsOfOneFrame`
(`GridOfOneFrame`): for any number of restarts of either end, of messages, grids
and retired epochs, and on every network, also one that loses, repeats and
reorders, and whose datagrams outlive the restart of a process. The last three
are about histories in which no datagram was taken that was not `Timely`
(`disordered`): one that was in flight when a process restarted, or one meant for
a former life of a receiver that has taken one for the present life. Within one
numbering every loss, repetition and reordering is covered, and so is whatever
is late in a way the receiver has not seen the end of.

* `Whole`, which gives `IInv`: at each end channel 0 is the chain of the states
  of its queue from the assumed one on, with `Origin` messages numbered before
  state 0, and each grid of channel 1 is a datagram away from the one before.
  What has to be shown is that `reset_peer` builds such a chain again.
  `Rebased` and `RebaseSteps` are loops; the lemmas about them (`RebasedChain`,
  `Steps`) say what the first `i` rounds have built, and hold for every
  length since the loop is a function on `0..n`.
* `OrderWhole`: every `Timely` datagram in flight from an endpoint is of its present
  life and carries the messages its numbers promise from the origin of its own
  numbering, which is an older one only while the peer has not `met` it. What was
  taken is below all that such a datagram can bring: one of the present numbering
  fits only at its old number, where it brings what comes next; one of an older
  numbering may fit the new by its number, and the invariant says that the
  messages it then brings are still new to the receiver. That they stay so is
  what fails once a datagram of the new numbering has been taken, and why
  `disordered` is where it is.
* `SurvivorWhole`: of an endpoint that has not restarted, all messages below what
  it assumes and below what its peer holds are taken by some life. Before it has
  heard of its peer's present life, all `Timely` datagrams start from what the
  former one acknowledged; if that was anything, the new life, which is at 0, can
  take none of it, and if the new life holds something, nothing was acknowledged.
  That is why the acknowledgements of two lives cannot be mixed up in this
  direction, while in the other they can (section 6).
* `GridWhole`: there is a numbering `st` of grids, from an empty grid 0 on, of
  which the host's history names those from the assumed one, and each is empty or
  the first rows of a frame that this life of the host set. `reset_peer` starts a
  new numbering, whose steps are the first rows of the grid it rebases
  (`RebaseSteps`). A `Timely` datagram to the owner's present life carries the
  difference of two grids of it; while those to a former life are `Timely`, the
  owner has `met` no other and is at 0. So it takes none but those that end in 0,
  and these bring an empty grid; where it is at 0 no longer, it `crossed` (section 6).
  What it holds is then `st[received_num]`, or of a former life of the host and
  was part of a frame when it ended. `st` is no state of the code: the invariant
  only says that there is one.

### QueueLinkProofs

`DeliveredInOrderOnce` (`InOrderOnce`), `ReleasedOnlyWhenHeld`
(`NothingReleasedEarly`), `HistoryChained` (`HistoryIsChain`), `NeverTooLarge`
(`AlwaysSendable`), `TypeCorrect`, and `Refinement`: `Spec` implements
`ReliableQueue`. For every set of messages, queue length, datagram size and
history length.

`InOrderOnce` alone is not inductive, since a diff says nothing of where its
messages belong. The invariant is

* `Sender`: the history is the chain of the states of the log from the assumed
  number to the current one;
* `Receiver`: what was taken and is held is the first `received_num` messages;
* `Agree`: an endpoint never believes its peer further than it is, and the peer
  never has more than was sent;
* `Wire`: every instruction ever sent carries exactly the slice of the log its
  two numbers promise, and acknowledges no more than its sender held.

`Wire` is preserved because logs only grow and numbers only rise (lemmas
`CarriesStays`, `CarriesGrows`), so the network may keep datagrams for ever.
One lemma for each operator of `Channel` says what it keeps; the refinement
maps a received instruction to `Exchange`, draining to `Take`, queueing to
`Put`, and sending to a stutter.

### TaskDispatchProofs

`RunsStayReachable` (`RunsReachable`), `NothingStaysTaken` (`NothingStranded`),
`WaitersAreReaped` (`NoWaiterLeaks`), `AnswersAreOwn` (`OutcomeIsItsOwn`) and
`TypeCorrect`: for any calls, any assignment of task and abort ids to them, and
any bounds, where TLC has one call.

The invariant has a part for the hub and one for the worker.

* `HubInv`, per call: a waiter is of the present attempt and its call is open;
  an answer in the oneshot is of the present attempt, and its waiter is gone; a
  call on its way out has none; a resend is possible only below the limit.
* `WorkInv`: the two properties themselves, that a task id leads to a run of
  that task (`OwnTask`), that the handlers with a guard are finitely many (so
  that the count means something; the set of calls need not be finite), and
  `SentOnce`: a correlation id's task frame is sent once, and its handler has
  not started while the frame is on its way. Without the last, draining a
  frame could put a running handler back to the start, and the count of guards
  would be wrong.

That `admitted` equals a cardinality is kept by `Counting`: a step that moves
one handler changes the number of handlers in a set of stages by the difference
of its membership before and after.

### ScreenLinkProofs

`GridsAgree` (`GridIsPeers`), `FramesShownWhole` (`FramesWholeInOrder`),
`StepsFit` (`StepAlwaysFits`) and `TypeCorrect`: for any tasks, frames, history
and datagram size.

A diff of two grids names only the rows that changed, so that it means nothing
but on the grid it starts from. `Channels` and `Wire` say, as in
`QueueLinkProofs`, that a history is that of the host's grids from the assumed
one on, and that every datagram ever sent is the diff of the two grids its
numbers name; `ApplyOfDiff` is the lemma that `apply_diff` undoes `diff_from`.
Unlike for the queue, nothing has to be known of acknowledgements: the owner
refuses a diff that does not start where it is, and the host's history is a
piece of its past whatever it is told. That the walk of `instruction()` through
the history has a furthest state is `Greatest`, from the well-foundedness of <.

For the frames there are two assignments, which the invariant says to exist:
from grids to the frames they were set for (`GridsOfFrames`), which never
decreases and increases behind a whole frame, and from what was shown to the
grids it was read from (`ShownOfGrids`), which increases. A grid that declares
itself whole is a whole frame (`CompletePrefix`), so the two together place what
is shown in what was begun. `OneSender` (the lock) is needed for both and for
`StepsFit`: the step of a task changes one row of the grid *it* set last.

### SessionsProofs

`TurnsDoNotOverlap` (`TurnsSerialized`), `OneChildServes` (`OneChild`),
`AnswersAreOwn` (`AnswerIsOwn`), `ResetsStick` (`ResetSticks`) and
`TypeCorrect`: for any set of turns and any number of records and closes.

None of the four is inductive. `IInv` adds

* `Lined`: whoever has a reference to a lock has one to the lock in the map,
  since it is pruned only when there is none, and a turn under way drew the
  lowest ticket of all that wait;
* `OldestServes`, `TurnServed`: a turn uses the oldest open unbound record
  (`Lowest`: there is one), so a child on a record means that all older ones are
  over, and while a turn is under way no other record has a child;
* `Silent`, `OneWaits`, `InFlight`, `OwnAnswer`: unless a turn gave up on it, a
  child has at most one prompt or result, and that of the turn that waits; a
  child that is gone has no prompt left to answer;
* `BoundIsOver`: what is or was bound is of a turn that is over, so a turn in
  progress cannot be what a reset dropped;
* `GivenOut`, `Stages`: ids, tickets and children go up, and what a turn holds at
  each stage.

The proof of `OneChild` did not go through as the property was first stated,
over the record of every unbound turn. A turn may run on a bounded record that
came back after it was closed, and spawn a child there while an unbound record
has one; if that record is then closed and forgotten under the turn, not even its
class is left to tell. TLC confirms both, with three turns and one close and with
three turns and two, which is more than the run's instance has. The second clause
is now of turns whose record is an unbound one in the registry, and section 7 has
the exception.

### ControlSocketProofs: the task registry

`WorkStaysReachable` (`WorkReachable`), `PollsAreTold` (`NotMisled`),
`CeilingsHold` (`WithinLimits`, a property no run checks by itself) and
`RegistryTypes`: for any number of tasks and grants and any ceilings.

`Consistent` is what makes them inductive: the dates are those of the settled
entries, so that eviction, which goes by dates, cannot take a running one; a task
not yet accepted has nothing, a written end stays written, and an entry that is
waited for is there. The ceilings are counted over the table in the code and over
the work in `WithinLimits`: `FewerInFlight` shows that eviction leaves everything
in flight in what is counted, so a dispatch admitted by the table's count is
within the limits of the work.

### ControlSocketProofs: the runs of a harness

`GrantsFollowRuns` (`GrantIffRetiring`), `OutcomesAreShown` (`OutcomeShown`) and
`TypeCorrect`: for any number of runs, rows and pending reports.

`GrantIffRetiring` is about states at rest, and is lost in the middle of an exit
or of a report. `RetiresOnce`, `FleetReports` and `NoneLeft` say for each stage
of the two which tokens work and that a session is retiring only until one
report, the last, gives the grant back. `SaidOnce`, `Drained` and `RowIsLast`
follow a run's outcome from the run into the inbox, to the report under way and
to the row: it is said once, no later report replaces it (a forwarder coalesces
progress, never an outcome: lemma `Coalesced`), and rows of other runs that are
evicted for it do not matter (`Evicted`, `RowsReported`).

### LinkBridgeProofs

`FramesInOrder` (`InOrderOnce`), `FramesWhole` (`WholeFrames`), `FramesComplete`
(`CompleteDelivered`) and `TypeCorrect`: for any peers, any frames of any number
of chunks, any bounds of the driver's channel and of the inbox, and any number
of restarts.

The properties are about what comes out of four buffers in a row, so `IInv`
says where each chunk of a peer is. There are two positions in the outbox: up to
the first everything is through the pump, from there to the second in the
driver's channel, and the rest of what was read in the backlog (`OnTheWay`).
`Queued` and `HalfWay` say that a frame's chunks are queued one behind the other,
also when a send is dropped half way. Then the partial under assembly can only
be of the last chunk's frame, and holds exactly what came through of it
(`Parts`), and what was handed on is what came through whole (`HandedOn`), that
is, everything of which a restart of the receiver cut off nothing.

### WorkflowRunsProofs

`RunningIsHonest` (`RunningHasRunner`), `LiveRunsAreSpared` (`LiveRunSpared`),
`OutcomesAreKept` (`OutcomeKept`, an action property) and `TypeCorrect`: for any
number of processes, gates, cancels, resent frames and kills, a store of which
any call may fail, and processes that can or cannot look each other up.

A store without compare-and-set is written from copies, so the invariant is about
the copies.

* `LegRecords` says what the executor's are, and `Recorded` that nobody reads
  what is not there.
* `OnlyItsRecords`: of a run that one process alone has executed (`Alone`: it has
  no gate, or has not reached one), every copy anybody holds, and the record
  itself, names that process as the executor.
* `LiveJudged`: while that process lives, a sweep does not get past its judgement,
  and a cancel past its own has found it alive, so that it writes a request at
  most. This is where `Readable` is needed.
* `OnlyRequests`: once its outcome is recorded, the only write under way is of a
  cancel's request, the exception both properties name.
* `RunningHeld`: behind a record that says Running of a live process is a leg that
  is past its first write, or LocalRun's task with its admission record, unless a
  cancel's request put it there or no last write of a leg succeeded.

### Only model-checked

* Everything under fairness, which is out of reach of the provers used here:
  `EventuallyTaken`, `ScreenCatchesUp`, `AbortEnds`, `SilentReaped`,
  `AbortedRunStops`, `EverythingTaken`, `AbortedEnds`, `WaiterWoken`,
  `GrantReturned`, `OrphanSettles`.

## 6. Disagreements between code and documentation

**`session_loss`.** Channel 0 is called reliable and ordered, and the protocol
document says that a restart preserves work awaiting delivery. An
acknowledgement does not say which life of its receiver it is for. An owner
restarts and queues a message; the host, not having heard of the new epoch,
acknowledges state 1 of the owner's former life; the owner takes it for its own
message and releases it unsent. No datagram is late or lost.

The screen suffers in the same way, which is why `GridOfOneFrame` and
`ScreenCatchesUp` exempt an owner that `crossed`: before the host has heard the
new epoch, the new owner can take a grid the host numbered for its former life.
The host then rebases from state 0, but the owner is at the old number: it
refuses every diff from 0, and its acknowledgements name a state that the
rebased history does not have, or that is another grid there. The protocol
document (6.4) says of the rebase that it prevents "the old state-n / state-0
mismatch from wedging the link".

## 7. Observations without a run

Met while modelling. Each follows from the code as modelled, and is an
assumption or an exception of a property above where one is concerned.

Link:

* On Windows `write_node_state` removes the target before it renames
  (`keys/store.rs:152`), though its comment calls it atomic (`store.rs:47`). A
  process that dies in between leaves no `node.json`: `acquire_or_create` then
  mints another identity. `IdentityKept` excepts that platform.
* The comment on `apply` (`channel.rs:289-292`) says that refusing a mismatched
  `old_num` is all that loss, reordering and duplication need. `reset_peer`
  renumbers the queue, but the epoch on the wire names only the life of the
  *sender*, which has not changed. A datagram that the survivor sent before it
  heard of the restart can arrive after one it sent later, fit the new numbering
  by its number, and its message is taken twice (TLC: `TakenInOrder` in place of
  `TakenInOrderOnce`). In the same way a datagram that was in flight when a
  process restarted, a late retransmission or an acknowledgement, is taken for
  one of the present session, and a message the survivor holds can be released
  unseen. Neither end can tell such a datagram from a good one. `TakenInOrderOnce`,
  `SurvivorLosesNothing` and `GridOfOneFrame` say nothing of a history after one
  was taken (`disordered`), and hold on any network until then.
* Epochs are not ordered. A late datagram of a former life, heard after one of
  the new, retires the *live* epoch (`transport/mod.rs:383`), and every further
  datagram of the peer is ignored until it restarts. No safety property is
  broken by it; liveness is checked on a network where it does not arise.
* After a restart a host at state 0 refuses a diff from state 1, and its
  acknowledgement of 0 is ignored (`channel.rs:317`); without the epoch change
  this would wedge, so everything rests on the epoch being heard.
* An acknowledgement of channel 1 does not ride on a datagram of channel 0
  (`mod.rs:268-269` against `525`). Heartbeats go out on channel 0 and carry its
  pending diff.
* The comments in `reset_peer` (`channel.rs:73-75`, `83-85`) describe an earlier
  behaviour.
* `flush_inbound` moves the cursor past the peer that did not fit
  (`link/mod.rs:373-375`). If one slot is freed per round and two peers are always
  backlogged, the same one can be served each time; it needs a load that never
  ends, so `EverythingTaken` does not see it.
* `wait_for_inbox` can miss an arrival between its look and its wait; its poll
  timeout is the floor.

Task dispatch:

* The comment on `live_sleep` (`hub/runner/mod.rs:118-120`) says that a worker
  that dies while an operator holds the session is still given up on. Only the
  worker can clear the held flag, so the window never runs again; `SilentReaped`
  excepts a held call.
* A resend after a silent window carries the same task id, and the worker is not
  told to stop the first attempt (`hub/runner/mod.rs:568-582`). If that one is
  running, the resend is refused as already running, and the first one's reply
  is dropped since nobody waits for it; or the task runs twice.
* An abort during a pending send drops the send and sends no abort frame
  (`mod.rs:499-502`), though the driver may already have the task frame.
* The handler of an abort frame may run before the task it names is registered
  (`daemon/runtime.rs:157`): the abort finds nothing, and the run goes on.
* Nodes of a workflow share an abort id, and a later one overwrites the signal
  of an earlier one (`mod.rs:434-437`).
* Waiting for a turn (`daemon/task_loop/run.rs:435-443`) holds a harness slot,
  sends nothing and heeds no abort: `AbortedRunStops` has to except it.
* Dropping the future of `run` leaves its waiter registered.

Sessions (`sessions/manager/turns.rs`, `sessions/registry/behavior.rs`):

* `end_turn` and a spawn that finishes set the phase whatever happened meanwhile,
  so a session closed during its turn is open again, and a `Failed` one `Live`.
* Two sessions of one key can exist side by side; the first match is the one
  that turns find.
* An unbound turn can lend its child to a bounded record, which `spend_bounded`
  then drops without ending the child: an exception of `OneChild`.
* A bounded session closed after `submit` looked it up is opened again by that
  turn's `begin_turn`. If an unbound turn made a record of its own meanwhile, the
  next one finds the bounded record first, as the older, and spawns a second child
  on it while the first is still open: the other exception of `OneChild`.
* `submit` looks at the phase and begins the turn in two lock sections, so two
  submits to a bounded session both pass, and the second's abort replaces the
  first's.
* A child that answers after the grace period of an interrupted turn is read by
  the next turn: the exception of `AnswerIsOwn`.
* `write_line` awaits the child's stdin (`interactive/session/mod.rs:263-275`). The
  interrupt is written in the arm of the abort, before the grace timer is armed
  (`209-210`), so a child that lives but does not read, with its pipe full, keeps
  the turn from ever ending: the write neither fails nor returns, and the select
  is not reached again. The comment there (`207-208`) considers only a write that
  fails, and a test (`sessions/interactive/tests.rs:451`) says that a swallowed
  interrupt must not hang the turn. The prompt is written in the same way before
  the select (`187`), deaf to the abort. A close waits behind either for the lock
  on stdin. A turn stuck in such a write is the exception of `AbortedEnds`.

Control socket:

* If the exiting session sees no unsettled run, and the first report of one
  comes in before its tokens are revoked (`mcp/attach.rs:545-551`), its row stays
  `Running`: no further report is accepted.
* A run parked at a gate keeps a report-only grant until its row is forgotten.
* More live runs than the table holds evict a live one.
* A report that straddles a forget makes the row again; a `grant.child` that
  straddles a revoke leaves a token behind (`straddled`).
* A dispatch task that panics after it started leaves its entry `Running`; one
  dropped before it starts settles it without a signal, so a waiter sleeps until
  its timeout. Both are the exception of `WaiterWoken`.
* A dispatch is checked against a copy of the grant taken before an await
  (`handle/tasks.rs:202`), so it may start just after a revocation.

Workflow runs:

* A resent task frame "must not start the graph twice", says
  `daemon/task_loop/workflow/handle.rs:151-153`. The check (`154`) and the claim in
  `run_workflow` know only the runs of this process that are under way; the record
  of the id is not looked at before `Running` is written over it
  (`run/mod.rs:299-322`). A resend that is handled after a short run has settled,
  or after the worker was started again, runs every node once more and replaces
  the outcome. A sweep that has judged the dead executor and read its record again
  can then write `Interrupted` over the new run. A run begun again is the
  exception of `OutcomeKept` and, by another process, of `LiveRunSpared`.
* The comment on `is_alive` (`reconcile.rs:18-22`) has every uncertain case, a process
  table that cannot be read among them, resolve to "leave it alone". A process that
  cannot be looked up reads as dead (`115-117`), and a sweep then settles what a
  live one executes: the properties are about `Readable` process tables.
* The last writes of a run may fail and are only logged (`run/mod.rs:139-141`,
  `local.rs:544-549`), and a future dropped between LocalRun's admission and the
  finalizer (`run/mod.rs:323`) writes nothing. The record then says Running under
  a live process that does not run it, and no sweep touches it until that process
  is gone: the exception of `RunningHasRunner` (`"unwritten"`).
* A cancel whose second read fails writes the copy of its first
  (`ops/runs/mod.rs:236` and after), over whatever was recorded since: an exception
  of `OutcomeKept` (`"unread"`).
* A sweep's second look passes over a run that has settled, not over one that has
  parked at a gate (`reconcile.rs:193-204`): that one is relabelled, though the
  comment (`135-141`) says such a run is left alone. The record of a gated run is the
  exception of `LiveRunSpared` and `OutcomeKept`.
* A cancel's write that comes after the run settled puts `Running` back, though
  `ops/runs/mod.rs:278-280` says it must never: the exception of
  `RunningHasRunner` and `OutcomeKept`.
* `resume_workflow` writes `Running` (`run/mod.rs:520`) without
  `preserve_cancel_request`, though the comment at `:156` has every write carry
  it: a cancel asked for meanwhile is lost.
* Two resumes that read the same parked record both run it if they are in
  different processes.
* A cancel of a parked run whose process lives is written as a request that
  nobody reads until the run is resumed.

## 8. What is not modelled

* Cryptography, headers and codecs: authentication is taken as sound, so that a
  datagram received is one that was sent. Key material is opaque.
* Timing: retransmission timeouts, the RTT estimate and the liveness windows are
  choices. This includes every real timing, and a bit more.
* Bytes: sizes are numbers of messages, chunks or rows. The queue's byte bound
  refuses as its message bound does.
* In `TaskDispatch`: the text of frames, transcripts, activity, preparation of
  attachments, resolution of directories; the check that a frame comes from the
  worker it was sent to (there is one worker); a restart of the hub, whose
  correlation counter starts again.
* In `LinkBridge`: the local and the routing bridge, which have no chunks and no
  pump; the link driver's commands and direct routes.
* In `Sessions`: transcripts, counters, workspaces, the eviction of bindings of
  other conversations.
* In `HarnessRuns` and `TaskRegistry`: the socket, framing and the text of
  requests; tools that change nothing here.
* In `WorkflowRuns`: authoring, skills, the engine itself, and the store's files.
* Most of the repository's lines are rendering, terminal emulation, parsers of
  harness output, configuration, accounts, installers and command lines. These
  are sequential, or I/O, and their state is text: the models would repeat the
  code. `components` lists them with the reason.

## 9. Plan

Done: the link's foundations (`SeqReservation`, `Channel`, `QueueLink`,
`ScreenLink`, `LinkSession`) with the bridge above it (`LinkBridge`), the
dispatch (`TaskDispatch`), the worker's conversations (`Sessions`), the control
socket (`TaskRegistry`, `HarnessRuns`), the workflow records (`WorkflowRuns`),
the abstract specification `ReliableQueue`, and the proofs of section 5, which
cover every module.

Modules that could be added: the screen store with the worker's stream (arm,
delta, evict, resynchronise; `hub/screens`), the executor's hold and checkout
(`tui/src/worker/executor/hold.rs`), the pooled app-server connection
(`codex_app_server/connection.rs`) and direct routes (`link/src/link/direct.rs`).
