----------------------------- MODULE QueueLink -----------------------------
(***************************************************************************)
(* Channel 0 between the two endpoints of a link, over a network that may  *)
(* lose, duplicate and reorder every datagram.  Both processes stay up;    *)
(* LinkSession adds restarts.                                              *)
(***************************************************************************)
EXTENDS MessageQueue

CONSTANTS
    Owner, Host,    \* the two endpoints (keys::Role)
    Message,        \* message bodies
    MaxSentStates,  \* Channel::max_sent_states
    MaxQueued       \* bound: messages each endpoint queues

ASSUME EndpointsAssumption == Owner # Host

Endpoint == {Owner, Host}

Peer(e) == IF e = Owner THEN Host ELSE Owner

C == INSTANCE Channel WITH
        DiffFrom <- QueueDiff, ApplyDiff <- QueueApply, Accepts <- QueueAccepts,
        ReleaseThrough <- PruneThrough, Fits <- QueueFits

VARIABLES
    ch,     \* each endpoint's Channel<MessageQueue>
    net,    \* every datagram ever sent: [src, ins]; it may arrive at any
            \* time, any number of times, or never
    log,    \* history: the messages each endpoint has queued
    taken   \* history: the messages each endpoint's application took

vars == <<ch, net, log, taken>>

Init ==
    /\ ch = [e \in Endpoint |-> C!New(EmptyQueue)]
    /\ net = {}
    /\ log = [e \in Endpoint |-> <<>>]
    /\ taken = [e \in Endpoint |-> <<>>]

(* Session::queue_message; a full queue or history refuses the message. *)
QueueMessage(e, m) ==
    /\ Len(log[e]) < MaxQueued[e]
    /\ ~C!HistoryFull(ch[e])
    /\ HasRoom(ch[e].current, 1)
    /\ ch' = [ch EXCEPT ![e] = C!Advance(ch[e], Push(ch[e].current, m))]
    /\ log' = [log EXCEPT ![e] = Append(log[e], m)]
    /\ UNCHANGED <<net, taken>>

(* Session::build: a first send, a retransmission, an ack or a heartbeat. *)
Send(e) ==
    /\ C!HasInstruction(ch[e])
    /\ LET ins == C!Instruction(ch[e])
       IN  /\ net' = net \cup {[src |-> e, ins |-> ins]}
           /\ ch' = [ch EXCEPT ![e] = C!NoteSent(ch[e], ins)]
    /\ UNCHANGED <<log, taken>>

(* Session::handle_datagram, for channel 0. *)
Receive(e, d) ==
    /\ d.src = Peer(e)
    /\ ch' = [ch EXCEPT ![e] = C!Apply(ch[e], d.ins)]
    /\ UNCHANGED <<net, log, taken>>

(* Session::take_messages *)
TakeMessages(e) ==
    /\ ch[e].received.messages # <<>>
    /\ taken' = [taken EXCEPT ![e] = taken[e] \o ch[e].received.messages]
    /\ ch' = [ch EXCEPT ![e].received = Drained(ch[e].received)]
    /\ UNCHANGED <<net, log>>

Next ==
    \E e \in Endpoint :
        \/ \E m \in Message : QueueMessage(e, m)
        \/ Send(e)
        \/ \E d \in net : Receive(e, d)
        \/ TakeMessages(e)

Spec == Init /\ [][Next]_vars

-----------------------------------------------------------------------------
Queue == [base : Nat, messages : Seq(Message)]

SentState == [num : Nat, state : Queue]

ChannelState ==
    [current : Queue, current_num : Nat,
     sent_states : Seq(SentState), assumed : Nat,
     received : Queue, received_num : Nat, sent_num : Nat]

Instructions ==
    [old : Nat, new : Nat, ack : Nat, throwaway : Nat, diff : Seq(Message)]

(* Every variable has its type: the two Channel<MessageQueue> values, the  *)
(* Instructions on the wire and the two histories (channel.rs:25).         *)
TypeOK ==
    /\ ch \in [Endpoint -> ChannelState]
    /\ net \subseteq [src : Endpoint, ins : Instructions]
    /\ log \in [Endpoint -> Seq(Message)]
    /\ taken \in [Endpoint -> Seq(Message)]

(* Exactly once, in order: whatever the network loses, repeats or          *)
(* reorders, what an endpoint's application has taken and what its         *)
(* received queue holds are together the first received_num messages of    *)
(* the peer (Channel::apply and MessageQueue::apply_diff, whose diff does  *)
(* not say where its messages belong).                                     *)
InOrderOnce ==
    \A e \in Endpoint :
        /\ ch[e].received_num <= Len(log[Peer(e)])
        /\ taken[e] \o ch[e].received.messages
             = SubSeq(log[Peer(e)], 1, ch[e].received_num)

(* The sender forgets nothing the peer might lack: the messages released   *)
(* from the current queue, and the state every diff starts from, are       *)
(* within what the peer has received (Channel::apply, "Never release past  *)
(* what we believe the peer holds").                                       *)
NothingReleasedEarly ==
    \A e \in Endpoint :
        /\ ch[e].current.base <= ch[e].assumed
        /\ ch[e].assumed <= ch[Peer(e)].received_num
        /\ ch[Peer(e)].received_num <= ch[e].sent_num

(* "States assumed_receiver_num ..= current_num, oldest first.  The front  *)
(* is always the state we believe the peer holds" (channel.rs:30-32), and  *)
(* each is what the queue was when it had that number.                     *)
HistoryIsChain ==
    \A e \in Endpoint :
        LET c == ch[e]
        IN  /\ Len(c.sent_states) = c.current_num - c.assumed + 1
            /\ \A i \in DOMAIN c.sent_states :
                  /\ c.sent_states[i].num = c.assumed + i - 1
                  /\ Num(c.sent_states[i].state) = c.sent_states[i].num
            /\ Num(c.current) = c.current_num

(* A queued message can always be put on the wire: instruction() never     *)
(* ends in DiffTooLarge, since each history step adds one message          *)
(* (channel.rs:240-265).                                                   *)
AlwaysSendable == \A e \in Endpoint : C!HasInstruction(ch[e])

-----------------------------------------------------------------------------
Abstract ==
    INSTANCE ReliableQueue WITH
        arrived <- [e \in Endpoint |-> ch[e].received_num],
        released <- [e \in Endpoint |-> ch[e].current.base]

(* Two channels over a lossy, duplicating, reordering network are two      *)
(* reliable queues: every step of the protocol is a step of them or        *)
(* invisible to the applications (transport/channel.rs as a whole).        *)
ImplementsReliableQueue == Abstract!Spec
=============================================================================
