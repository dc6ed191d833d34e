---------------------------- MODULE LinkSession ----------------------------
(***************************************************************************)
(* A whole Session (transport/mod.rs) at each end of a link: both          *)
(* channels, their acknowledgements, and the process epochs that tell a    *)
(* restarted peer from the one before.  Nothing of a session is kept on    *)
(* disk, so a restart starts a new one, and its peer has to rebase both    *)
(* channels (Channel::reset_peer) when it hears the new epoch.             *)
(*                                                                         *)
(* Time is left out: which channels' retransmission timeout has passed and *)
(* whether the heartbeat interval has are choices of Outgoing.  `rotate`   *)
(* only orders the datagrams of one call, and is a choice of that order.   *)
(* An epoch is a random number in the code, here the count of the starts.  *)
(***************************************************************************)
EXTENDS MessageQueue, ScreenGrid, SequencesExt

CONSTANTS
    Owner, Host,    \* the two endpoints (keys::Role)
    MaxSentStates,  \* Channel::max_sent_states
    MaxRetired,     \* peer epochs remembered as retired (8 in the code)
    Reorder,        \* the network may also reorder and repeat datagrams
    Linger,         \* datagrams may outlive the restart of a process
    MaxQueued,      \* bound: messages an endpoint queues in one life
    MaxScreens,     \* bound: grids the host sets in one life
    MaxStarts,      \* bound: lives of each endpoint
    MaxNet          \* bound: datagrams in flight, per direction

ASSUME SessionAssumption ==
    Owner # Host /\ MaxRetired \in Nat \ {0} /\ {MaxScreens, MaxNet} \subseteq Nat
    /\ {Reorder, Linger} \subseteq BOOLEAN

Endpoint == {Owner, Host}

Peer(e) == IF e = Owner THEN Host ELSE Owner

Messages == 0   \* CHANNEL_MESSAGES

Screen == 1     \* CHANNEL_SCREEN

M == INSTANCE Channel WITH
        DiffFrom <- QueueDiff, ApplyDiff <- QueueApply, Accepts <- QueueAccepts,
        ReleaseThrough <- PruneThrough, Fits <- QueueFits

S == INSTANCE Channel WITH
        DiffFrom <- GridDiff, ApplyDiff <- GridApply, Accepts <- GridAccepts,
        ReleaseThrough <- GridRelease, Fits <- GridFits

VARIABLES
    session,    \* each endpoint's Session
    net,        \* the datagrams each endpoint has in flight, oldest first:
                \* [epoch, channel, ins], and what is not on the wire: heard, the
                \* epoch its sender had heard, and whether it outlived a restart
    queued,     \* history: how many messages each endpoint's present life queued
    screens,    \* history: how many grids the host's present life set
    arrived,    \* history: the messages each endpoint's present life took
    delivered,  \* history: the messages some life of their receiver took
    crossed,    \* history: the owner's present life took a grid that the host
                \* sent when it had heard of a former life only
    met,        \* history: the endpoints whose present life took a datagram
                \* not meant for a former one
    disordered  \* history: an endpoint took a datagram from before a restart,
                \* or one meant for a former life after one that was not

vars == <<session, net, queued, screens, arrived, delivered, crossed, met, disordered>>

NoEpoch == 0    \* peer_epoch is None

NewSession(epoch) ==
    [epoch |-> epoch, messages |-> M!New(EmptyQueue), screen |-> S!New(EmptyGrid),
     ack_pending |-> [c \in {Messages, Screen} |-> FALSE],
     peer_epoch |-> NoEpoch, retired |-> <<>>]

Init ==
    /\ session = [e \in Endpoint |-> NewSession(1)]
    /\ net = [e \in Endpoint |-> <<>>]
    /\ queued = [e \in Endpoint |-> 0]
    /\ screens = 0
    /\ arrived = [e \in Endpoint |-> <<>>]
    /\ delivered = {} /\ crossed = FALSE /\ met = {} /\ disordered = FALSE

-----------------------------------------------------------------------------
(* The n-th message of e's present life. *)
MessageOf(e, n) == [by |-> e, life |-> session[e].epoch, n |-> n]

QueueMessage(e) ==
    LET c == session[e].messages
    IN  /\ queued[e] < MaxQueued[e]
        /\ ~M!HistoryFull(c) /\ HasRoom(c.current, 1)
        /\ queued' = [queued EXCEPT ![e] = @ + 1]
        /\ session' = [session EXCEPT ![e].messages =
                          M!Advance(c, Push(c.current, MessageOf(e, queued[e] + 1)))]
        /\ UNCHANGED <<net, screens, arrived, delivered, crossed, met, disordered>>

(* The n-th grid the host sets in a life: frames of two rows, set one row  *)
(* after the other (see ScreenLink).                                       *)
GridOf(life, n) ==
    [i \in 1..(2 - (n % 2)) |->
        [count |-> 2, index |-> i, body |-> <<life, (n + 1) \div 2, i>>]]

SetScreen ==
    LET c == session[Host].screen
        next == GridOf(session[Host].epoch, screens + 1)
    IN  /\ screens < MaxScreens
        /\ GridFits(GridDiff(next, c.current)) /\ ~S!HistoryFull(c)
        /\ screens' = screens + 1
        /\ session' = [session EXCEPT ![Host].screen = S!Advance(c, next)]
        /\ UNCHANGED <<net, queued, arrived, delivered, crossed, met, disordered>>

-----------------------------------------------------------------------------
(* channel_due: something is unacknowledged, and it was never sent or its  *)
(* retransmission timeout has passed (c \in late).                         *)
Pending(s) ==
    {c \in {Messages, Screen} :
        IF c = Messages THEN M!IsPending(s.messages) ELSE S!IsPending(s.screen)}

Unsent(s) ==
    {c \in {Messages, Screen} :
        IF c = Messages THEN M!HasUnsentChange(s.messages) ELSE S!HasUnsentChange(s.screen)}

Due(s, late) == Pending(s) \cap (Unsent(s) \cup late)

(* pending_ack_channel: the lowest channel owing an acknowledgement. *)
OwesAck(s) ==
    IF s.ack_pending[Messages] THEN {Messages}
    ELSE IF s.ack_pending[Screen] THEN {Screen} ELSE {}

(* The channels one call of outgoing sends on: the due ones, or else an    *)
(* acknowledgement, or else a heartbeat.                                   *)
Sending(s, late, idle) ==
    IF Due(s, late) # {} THEN Due(s, late)
    ELSE IF OwesAck(s) # {} THEN OwesAck(s)
    ELSE IF idle THEN {Messages} ELSE {}

(* Mutant of Calls: the timers never fire. *)
CallsWithoutTimers(s) == {Sending(s, {}, FALSE)} \ {{}}

(* Whatever the clock says. *)
Calls(s) ==
    {Sending(s, late, idle) : late \in SUBSET {Messages, Screen}, idle \in BOOLEAN} \ {{}}

CanBuild(s, c) ==
    IF c = Messages THEN M!HasInstruction(s.messages) ELSE S!HasInstruction(s.screen)

Instruction(s, c) ==
    IF c = Messages THEN M!Instruction(s.messages) ELSE S!Instruction(s.screen)

(* build *)
Datagram(s, c) ==
    [epoch |-> s.epoch, channel |-> c, ins |-> Instruction(s, c), heard |-> s.peer_epoch,
     outlived |-> FALSE]

(* What the build of these channels leaves behind. *)
Built(s, cs) ==
    [s EXCEPT
        !.messages = IF Messages \in cs THEN M!NoteSent(@, M!Instruction(@)) ELSE @,
        !.screen = IF Screen \in cs THEN S!NoteSent(@, S!Instruction(@)) ELSE @,
        !.ack_pending = [c \in {Messages, Screen} |-> @[c] /\ c \notin cs]]

(* The network takes more datagrams; the oldest in excess of MaxNet are    *)
(* lost.                                                                   *)
InFlight(flying, new) ==
    LET all == flying \o new
    IN  IF Len(all) <= MaxNet THEN all ELSE SubSeq(all, Len(all) - MaxNet + 1, Len(all))

(* A network that repeats datagrams has no use for a second copy. *)
Sent(e, cs) ==
    {c \in cs : Reorder => Datagram(session[e], c) \notin Range(net[e])}

(* outgoing, on the channels cs. *)
Outgoing(e, cs) ==
    /\ cs \in Calls(session[e])
    /\ \A c \in cs : CanBuild(session[e], c)
    /\ session' = [session EXCEPT ![e] = Built(@, cs)]
    /\ \E order \in SetToSeqs(Sent(e, cs)) :
          net' = [net EXCEPT ![e] = InFlight(@,
                     [i \in DOMAIN order |-> Datagram(session[e], order[i])])]
    /\ UNCHANGED <<queued, screens, arrived, delivered, crossed, met, disordered>>

(* A sequence number could not be reserved for the second of two channels: *)
(* the datagram already built is dropped with the error.                   *)
OutgoingFails(e, c) ==
    /\ {Messages, Screen} \in Calls(session[e])
    /\ CanBuild(session[e], c)
    /\ session' = [session EXCEPT ![e] = Built(@, {c})]
    /\ UNCHANGED <<net, queued, screens, arrived, delivered, crossed, met, disordered>>

-----------------------------------------------------------------------------
(* reset_peer's new history: q is appended unless it is empty or already   *)
(* the last.                                                               *)
WithState(states, q) ==
    IF Num(q) = 0 \/ Num(q) = Last(states).num THEN states
    ELSE Append(states, [num |-> Num(q), state |-> q])

InitialQueueState == [num |-> 0, state |-> EmptyQueue]

(* Mutant of ResetMessages: the queue starts empty, as the comment in      *)
(* reset_peer has it.                                                      *)
ResetMessagesEmpty(c) == M!New(EmptyQueue)

(* Mutant of ResetMessages: the intermediate states are dropped. *)
ResetMessagesCollapsed(c) ==
    LET current == ResetOrigin(c.current)
    IN  [M!New(EmptyQueue) EXCEPT
            !.current = current, !.current_num = Num(current),
            !.sent_states = WithState(<<InitialQueueState>>, current)]

(* The new history after the loop has seen the first i states of the old:  *)
(* what the peer has not acknowledged, counted from one again.             *)
Rebased(c) ==
    LET first[i \in 0..Len(c.sent_states)] ==
            IF i = 0 THEN <<InitialQueueState>>
            ELSE IF c.sent_states[i].num <= c.assumed THEN first[i - 1]
            ELSE WithState(first[i - 1],
                           ResetOrigin(PruneThrough(c.sent_states[i].state, c.assumed)))
    IN  first

(* reset_peer, channel 0. *)
ResetMessages(c) ==
    LET current == ResetOrigin(c.current)
    IN  [M!New(EmptyQueue) EXCEPT
            !.current = current,
            !.current_num = Num(current),
            !.sent_states = WithState(Rebased(c)[Len(c.sent_states)], current)]

(* Mutant of ResetScreen: state 0 is the current grid, not the empty one. *)
ResetScreenOnCurrent(c) ==
    [S!New(c.current) EXCEPT
        !.current_num = 1, !.received = EmptyGrid,
        !.sent_states = Append(@, [num |-> 1, state |-> c.current])]

(* Mutant of ResetScreen: channel 1 is not reset. *)
ResetScreenNot(c) == c

(* reset_peer, channel 1: the current grid, row by row. *)
ResetScreen(c) ==
    LET steps == IF c.current = EmptyGrid THEN <<EmptyGrid>> ELSE RebaseSteps(c.current)
    IN  [S!New(EmptyGrid) EXCEPT
            !.current = c.current,
            !.current_num = Len(steps),
            !.sent_states = @ \o [i \in DOMAIN steps |-> [num |-> i, state |-> steps[i]]]]

Retire(retired, epoch) ==
    LET all == Append(retired, epoch)
    IN  IF Len(all) > MaxRetired THEN Tail(all) ELSE all

(* handle_datagram, up to the Instruction: a new epoch of the peer resets  *)
(* the session.                                                            *)
Heard(s, epoch) ==
    IF s.peer_epoch \in {NoEpoch, epoch} THEN [s EXCEPT !.peer_epoch = epoch]
    ELSE [s EXCEPT !.peer_epoch = epoch,
                   !.retired = Retire(@, s.peer_epoch),
                   !.messages = ResetMessages(@),
                   !.screen = ResetScreen(@),
                   !.ack_pending = [c \in {Messages, Screen} |-> FALSE]]

(* The peer needs an acknowledgement: this end moved, or was to be moved. *)
AckFor(s, c, ins, advanced) ==
    [s.ack_pending EXCEPT ![c] = @ \/ advanced \/ ins.new # ins.old]

(* Driver::handle_datagram after the epoch: apply, then take the messages. *)
Applied(s, d) ==
    IF d.channel = Messages
      THEN LET c == M!Apply(s.messages, d.ins)
           IN  IF M!ApplyFails(s.messages, d.ins) THEN [s EXCEPT !.messages = c]
               ELSE [s EXCEPT
                       !.messages = [c EXCEPT !.received = Drained(c.received)],
                       !.ack_pending =
                          [AckFor(s, Messages, d.ins, M!Advanced(s.messages, d.ins))
                             EXCEPT ![Messages] = @ \/ c.received.messages # <<>>]]
      ELSE LET c == S!Apply(s.screen, d.ins)
           IN  IF S!ApplyFails(s.screen, d.ins) THEN [s EXCEPT !.screen = c]
               ELSE [s EXCEPT !.screen = c,
                        !.ack_pending = AckFor(s, Screen, d.ins,
                                               S!Advanced(s.screen, d.ins))]

(* The messages that datagram brings. *)
Taken(s, d) ==
    IF d.channel = Messages /\ ~M!ApplyFails(s.messages, d.ins)
      THEN M!Apply(s.messages, d.ins).received.messages ELSE <<>>

(* An epoch that is of a former life of the one that hears it. *)
Former(heard, life) == heard \notin {NoEpoch, life}

(* It brings the owner a grid of a session with a former life of its. *)
Crosses(s, d) ==
    d.channel = Screen /\ S!Advanced(s.screen, d.ins) /\ Former(d.heard, s.epoch)

(* What e has in flight that did not outlive a restart, and is not of a    *)
(* numbering its peer has seen the end of.                                 *)
Timely(e) ==
    LET life == session[Peer(e)].epoch
    IN  {d \in Range(net[e]) :
            ~d.outlived /\ (Peer(e) \in met => ~Former(d.heard, life))}

(* The i-th datagram in flight to e arrives.  Without Reorder the ones     *)
(* before it are lost; the driver's refusal while its application is       *)
(* behind (pending_inbound) is one more loss.                              *)
Receive(e, i) ==
    LET d == net[Peer(e)][i]
        s == Heard(session[e], d.epoch)
    IN  /\ net' = IF Reorder THEN net
                  ELSE [net EXCEPT ![Peer(e)] = SubSeq(@, i + 1, Len(@))]
        /\ IF d.epoch \in Range(session[e].retired)
             THEN UNCHANGED <<session, arrived, delivered, crossed, met, disordered>>
             ELSE /\ session' = [session EXCEPT ![e] = Applied(s, d)]
                  /\ arrived' = [arrived EXCEPT ![e] = @ \o Taken(s, d)]
                  /\ delivered' = delivered \cup Range(Taken(s, d))
                  /\ crossed' = (crossed \/ (e = Owner /\ Crosses(s, d)))
                  /\ met' = IF Former(d.heard, s.epoch) THEN met ELSE met \cup {e}
                  /\ disordered' = (disordered \/ d \notin Timely(Peer(e)))
        /\ UNCHANGED <<queued, screens>>

(* What is in flight when a process restarts. *)
Outlived(flying) == [i \in DOMAIN flying |-> [flying[i] EXCEPT !.outlived = TRUE]]

(* The process ends and a new one takes over the identity. *)
Restart(e) ==
    /\ session[e].epoch < MaxStarts[e]
    /\ session' = [session EXCEPT ![e] = NewSession(session[e].epoch + 1)]
    /\ net' = [f \in Endpoint |-> IF Linger THEN Outlived(net[f]) ELSE <<>>]
    /\ queued' = [queued EXCEPT ![e] = 0]
    /\ screens' = IF e = Host THEN 0 ELSE screens
    /\ arrived' = [arrived EXCEPT ![e] = <<>>]
    /\ crossed' = (crossed /\ e # Owner)
    /\ met' = met \ {e}
    /\ UNCHANGED <<delivered, disordered>>

Next ==
    \/ SetScreen
    \/ \E e \in Endpoint :
          \/ QueueMessage(e)
          \/ \E cs \in SUBSET {Messages, Screen} : Outgoing(e, cs)
          \/ \E c \in {Messages, Screen} : OutgoingFails(e, c)
          \/ \E i \in DOMAIN net[Peer(e)] : Receive(e, i)
          \/ Restart(e)

Spec == Init /\ [][Next]_vars

(* Time goes on: a channel with something pending is sent on again and    *)
(* again, and when none has, the acknowledgement owed or a heartbeat is;   *)
(* sequence numbers can in the end be reserved, and the order that rotates *)
(* keeps either channel from always being the one the network loses;       *)
(* datagrams of a channel that keep being sent keep getting through.       *)
Fairness ==
    \A e \in Endpoint : \A c \in {Messages, Screen} :
        /\ WF_vars(/\ Pending(session[e]) = {} \/ c \in Pending(session[e])
                   /\ \E cs \in Calls(session[e]) : Outgoing(e, cs)
                   /\ net'[e] # <<>> /\ Last(net'[e]).channel = c)
        /\ SF_vars(\E i \in DOMAIN net[Peer(e)] :
                      net[Peer(e)][i].channel = c /\ Receive(e, i))

FairSpec == Spec /\ Fairness

-----------------------------------------------------------------------------
MessageSet == [by : Endpoint, life : Nat, n : Nat]

QueueSet == [base : Nat, messages : Seq(MessageSet)]

RowSet == [count : Nat, index : Nat, body : Seq(Nat)]

ChannelSet(State) ==
    [current : State, current_num : Nat,
     sent_states : Seq([num : Nat, state : State]), assumed : Nat,
     received : State, received_num : Nat, sent_num : Nat]

SessionSet ==
    [epoch : Nat \ {NoEpoch}, messages : ChannelSet(QueueSet), screen : ChannelSet(Seq(RowSet)),
     ack_pending : [{Messages, Screen} -> BOOLEAN], peer_epoch : Nat, retired : Seq(Nat)]

IsGridDiff(diff) ==
    diff.rows \in Nat /\ \A i \in DOMAIN diff.updates : diff.updates[i] \in RowSet

IsDatagram(d) ==
    /\ DOMAIN d = {"epoch", "channel", "ins", "heard", "outlived"} /\ d.outlived \in BOOLEAN
    /\ {d.epoch, d.heard, d.ins.old, d.ins.new, d.ins.ack, d.ins.throwaway} \subseteq Nat
    /\ \/ d.channel = Messages /\ d.ins.diff \in Seq(MessageSet)
       \/ d.channel = Screen /\ IsGridDiff(d.ins.diff)

(* Sessions, wire and histories have their types; the retired epochs stay  *)
(* within their bound (transport/mod.rs:64).                               *)
TypeOK ==
    /\ session \in [Endpoint -> SessionSet]
    /\ DOMAIN net = Endpoint
    /\ \A e \in Endpoint :
          /\ session[e].peer_epoch <= session[Peer(e)].epoch
          /\ Len(session[e].retired) <= MaxRetired
          /\ net[e] \in Seq(Range(net[e])) /\ Len(net[e]) <= MaxNet
          /\ \A d \in Range(net[e]) : IsDatagram(d) /\ d.epoch <= session[e].epoch
    /\ queued \in [Endpoint -> Nat] /\ screens \in Nat
    /\ arrived \in [Endpoint -> Seq(MessageSet)] /\ delivered \subseteq MessageSet
    /\ {crossed, disordered} \subseteq BOOLEAN /\ met \subseteq Endpoint

Kept(e, n) ==
    \/ MessageOf(e, n) \in delivered
    \/ MessageOf(e, n) \in Range(session[e].messages.current.messages)

(* A message queued is never lost while its sender lives: the sender still *)
(* holds it, or some life of the peer has taken it (queue_message:         *)
(* "reliable, ordered").                                                   *)
NothingLost == \A e \in Endpoint : \A n \in 1..queued[e] : Kept(e, n)

(* The same for an endpoint that has not restarted itself, however often   *)
(* its peer has, and whatever the network loses, repeats and reorders:     *)
(* reset_peer and the acknowledgements of two lives of the peer between    *)
(* them drop nothing (Channel::reset_peer: "Unconsumed outbound state is   *)
(* preserved"), if none of a numbering that is over was taken.             *)
SurvivorLosesNothing ==
    disordered \/
    \A e \in Endpoint : session[e].epoch = 1 => \A n \in 1..queued[e] : Kept(e, n)

(* One life of an endpoint takes no message twice and none before an       *)
(* earlier one of the same sender life.  Channel::apply refuses a          *)
(* mismatched old_num, and "that single rule is why loss, reordering and   *)
(* duplication need no special handling" (channel.rs:291-292).             *)
TakenInOrder ==
    \A e \in Endpoint : \A i, j \in DOMAIN arrived[e] :
        i < j => \/ arrived[e][i].life < arrived[e][j].life
                 \/ /\ arrived[e][i].life = arrived[e][j].life
                    /\ arrived[e][i].n < arrived[e][j].n

(* That rule does suffice, although the sender renumbers what it sends     *)
(* when it hears of a restart, and whatever the network loses, repeats and *)
(* reorders within one numbering: it fails only where a datagram of a      *)
(* numbering that is over was taken (Channel::apply, reset_peer).          *)
TakenInOrderOnce == disordered \/ TakenInOrder

(* Both channels can always build a datagram that fits, also from a        *)
(* history rebased by reset_peer: the states kept "remain available        *)
(* instead of being collapsed into a single oversized state 1"             *)
(* (channel.rs:83-84).                                                     *)
AlwaysSendable ==
    \A e \in Endpoint :
        /\ M!HasInstruction(session[e].messages)
        /\ S!HasInstruction(session[e].screen)

(* The owner never holds rows of two frames of the host, nor a row that is *)
(* in none, while the host rebases what it sends (RowGrid::rebase_steps),  *)
(* if it did not take a grid of the session with its former life: to       *)
(* acknowledge that one is to acknowledge the rebased state of its number. *)
(* A grid it still holds of a former life of the host is whole too.  The   *)
(* network may lose, repeat and reorder within one numbering.              *)
GridOfOneFrame ==
    LET g == session[Owner].screen.received
        life == session[Owner].peer_epoch
    IN  \/ disordered \/ crossed \/ g = <<>>
        \/ \E n \in 1..(IF life = session[Host].epoch THEN screens ELSE MaxScreens) :
              IsPrefix(g, GridOf(life, n))

(* Every message of an endpoint that does not restart is in the end taken, *)
(* whatever restarts of the peer, losses and failed sends come between     *)
(* (docs/host-link-protocol.md 6.4).                                       *)
EventuallyTaken ==
    \A e \in Endpoint : \A n \in 1..MaxQueued[e] :
        []<>(queued[e] < n \/ session[e].epoch > 1 \/ MessageOf(e, n) \in delivered)

(* The owner's grid in the end is the host's, although the owner restarts: *)
(* the host rebases its "latest screen state", which "prevents the old     *)
(* state-n / state-0 mismatch from wedging the link" (protocol, 6.4), if    *)
(* the owner did not take a grid of the session with its former life.      *)
ScreenCatchesUp ==
    <>[](crossed \/ session[Owner].screen.received = session[Host].screen.current)

-----------------------------------------------------------------------------
(* Why these hold: where the messages of a life are.  Those of e are       *)
(* numbered anew by every reset; Origin(e) is how many were numbered       *)
(* before state 0.                                                         *)
Origin(e) == queued[e] - session[e].messages.current_num

(* The messages of a life of e after the k-th, up to the n-th. *)
Between(e, life, k, n) == [j \in 1..(n - k) |-> [by |-> e, life |-> life, n |-> k + j]]

(* The queue of that life at number n, when those up to b were released    *)
(* and the first `origin` of its messages came before state 0.             *)
QueueAt(e, life, origin, b, n) ==
    [base |-> b, messages |-> Between(e, life, origin + b, origin + n)]

(* Channel 0 is the chain of the queue's states from the assumed one on:   *)
(* what is released is what is assumed received.                           *)
Chained(c, e, life, origin) ==
    /\ c.assumed <= c.current_num
    /\ c.current = QueueAt(e, life, origin, c.assumed, c.current_num)
    /\ Len(c.sent_states) = c.current_num - c.assumed + 1
    /\ \A i \in DOMAIN c.sent_states :
          /\ c.sent_states[i].num = c.assumed + i - 1
          /\ \E b \in 0..c.assumed :
                c.sent_states[i].state = QueueAt(e, life, origin, b, c.assumed + i - 1)
    /\ c.received.messages = <<>>

MessagesChained ==
    \A e \in Endpoint :
        /\ session[e].messages.current_num <= queued[e]
        /\ Chained(session[e].messages, e, session[e].epoch, Origin(e))

(* Each grid of channel 1 is a datagram away from the one before. *)
StepsFit(c) ==
    LET n == Len(c.sent_states)
    IN  /\ n > 0 /\ c.current = c.sent_states[n].state
        /\ \A i \in 2..n :
              GridFits(GridDiff(c.sent_states[i].state, c.sent_states[i - 1].state))

ScreenChained == \A e \in Endpoint : StepsFit(session[e].screen)

(* Nothing but what is acknowledged is to be thrown away. *)
AcksRelease ==
    \A e \in Endpoint : \A d \in Range(net[e]) : d.ins.throwaway = d.ins.ack

IInv == TypeOK /\ MessagesChained /\ ScreenChained /\ AcksRelease

(* A datagram that carries messages, and how many were numbered before its *)
(* state 0.                                                                *)
Carrying(d) == d.channel = Messages /\ d.ins.diff # <<>>

OriginOf(d) == d.ins.diff[1].n - 1 - d.ins.old

(* What is in flight and may be taken: it is of the present lives, sent to *)
(* the present life of the peer from the present origin, or before that    *)
(* life was heard of from one no later.                                    *)
WireOrdered ==
    \A e \in Endpoint :
        LET life == session[Peer(e)].epoch
            heard == session[e].peer_epoch
        IN  \A d \in Timely(e) :
              /\ d.epoch = session[e].epoch
              /\ Former(heard, life) => Former(d.heard, life)
              /\ d.channel = Messages => d.ins.new = d.ins.old + Len(d.ins.diff)
              /\ Carrying(d) =>
                    /\ OriginOf(d) \in 0..Origin(e)
                    /\ d.ins.diff = Between(e, d.epoch, OriginOf(d) + d.ins.old,
                                            OriginOf(d) + d.ins.new)
                    /\ OriginOf(d) = Origin(e) \/ (Former(d.heard, life) /\ ~Former(heard, life))
                    /\ \A x \in Timely(e) :
                          Carrying(x) /\ (Former(x.heard, life) => Former(d.heard, life)) =>
                              OriginOf(d) <= OriginOf(x)

(* What was taken is of lives the taker has heard of; of the present one,  *)
(* it is below all that a datagram could still bring.                      *)
TakenBelow ==
    \A e \in Endpoint : \A k \in DOMAIN arrived[e] :
        LET m == arrived[e][k]
            num == session[e].messages.received_num
        IN  /\ m.life <= session[e].peer_epoch
            /\ m.life = session[Peer(e)].epoch =>
                  /\ m.n <= Origin(Peer(e)) + num
                  /\ \A d \in Timely(Peer(e)) : Carrying(d) => m.n <= OriginOf(d) + num

OrderInv == disordered \/ (WireOrdered /\ TakenBelow /\ TakenInOrder)
=============================================================================
