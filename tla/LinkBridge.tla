----------------------------- MODULE LinkBridge -----------------------------
(***************************************************************************)
(* How a frame of a peer reaches the consumer of a bridge: the peer's      *)
(* `LinkBridge::send` cuts it into chunks, the link hands the chunks of    *)
(* one session over in order (QueueLink shows that), the link driver keeps *)
(* them per peer and moves them into one bounded channel, and the bridge's *)
(* pump puts the frames together again and queues them for `drain_inbox`.  *)
(*                                                                         *)
(* Sources: src/sdk/src/bridge/link.rs and the inbound half of the driver  *)
(* in src/link/src/link/mod.rs.  A chunk is [epoch, id, index, count]; the *)
(* payload it carries is its id, so a frame made of chunks of two messages *)
(* is visible.  A sender's process may restart (a new epoch, what it had   *)
(* not got across is gone) and so may the receiver's (everything of this   *)
(* module but the senders starts afresh, and the sessions offer again what *)
(* they have no acknowledgement of).                                       *)
(***************************************************************************)
EXTENDS Integers, Sequences, FiniteSets, Functions

CONSTANTS
    N,                  \* number of enrolled peers
    InboundCapacity,    \* INBOUND_CAPACITY, the driver's channel
    InboxCapacity,      \* INBOX_CAPACITY, the bridge's queue
    Sizes,              \* bound, per peer: in how many chunks its frames go, by id
    MaxRestarts,        \* bound: restarts, of senders and receiver together
    MaxScreens          \* bound: screens that change

ASSUME BridgeAssumption ==
    /\ N \in Nat \ {0}
    /\ InboundCapacity \in Nat \ {0}
    /\ InboxCapacity \in Nat \ {0}
    /\ Sizes \in [0 .. N - 1 -> Seq(Nat \ {0})]
    /\ {MaxRestarts, MaxScreens} \subseteq Nat

VARIABLES
    minted,     \* per peer: how many frames it began; their ids are 1, 2, ...
    sending,    \* per peer: the frame a `send` holds the lock for, and its next chunk
    epoch,      \* per peer: the epoch of its process
    outbox,     \* per peer: the chunks its sessions have to get across
    from,       \* per peer: how many of them this receiver never gets
    read,       \* per peer: how many of them the receiver's session took
    pending,    \* the driver's pending_inbound
    cursor,     \* the driver's inbound_cursor
    inbound,    \* the channel from the driver to the pump
    partials,   \* the pump's Reassembly
    pump,       \* where the pump is, with which frame, and whether `space` fired
    queue,      \* the bridge's inbox
    taken,      \* history: what the consumer drained from this process
    restarts, screens

senders  == <<minted, sending, epoch, outbox>>
driver   == <<from, read, pending, cursor>>
bounds   == <<restarts, screens>>
vars == <<senders, driver, inbound, partials, pump, queue, taken, bounds>>

Peer == 0 .. N - 1

Idle == [id |-> 0, next |-> 0]

\* What the driver hands over for a screen that changed: a body without the
\* chunk header (`complete_screen_frame`).
Screen == [epoch |-> 0, id |-> 0, index |-> 0, count |-> 0]

Waiting == [pc |-> "recv", peer |-> 0, frame |-> <<>>, space |-> FALSE]

Init ==
    /\ minted = [p \in Peer |-> 0]
    /\ sending = [p \in Peer |-> Idle]
    /\ epoch = [p \in Peer |-> 1]
    /\ outbox = [p \in Peer |-> <<>>]
    /\ from = [p \in Peer |-> 0]
    /\ read = [p \in Peer |-> 0]
    /\ pending = [p \in Peer |-> <<>>]
    /\ cursor = 0
    /\ inbound = <<>>
    /\ partials = {}
    /\ pump = Waiting
    /\ queue = <<>>
    /\ taken = <<>>
    /\ restarts = 0
    /\ screens = 0

-----------------------------------------------------------------------------
(* The sending end.                                                        *)

\* `send` takes the peer's send lock and mints an id no earlier frame had.
Send(p) ==
    /\ sending[p] = Idle
    /\ minted[p] < Len(Sizes[p])
    /\ minted' = [minted EXCEPT ![p] = @ + 1]
    /\ sending' = [sending EXCEPT ![p] = [id |-> minted[p] + 1, next |-> 0]]
    /\ UNCHANGED <<epoch, outbox, driver, inbound, partials, pump, queue, taken, bounds>>

\* One chunk is queued, after as many retries as the session's history needs;
\* the lock is held until the last one.
SendChunk(p) ==
    LET s == sending[p]
        n == Sizes[p][s.id]
    IN  /\ s # Idle
        /\ outbox' = [outbox EXCEPT ![p] = Append(@,
               [epoch |-> epoch[p], id |-> s.id, index |-> s.next, count |-> n])]
        /\ sending' = [sending EXCEPT ![p] = IF s.next + 1 = n THEN Idle
                                             ELSE [s EXCEPT !.next = @ + 1]]
        /\ UNCHANGED <<minted, epoch, driver, inbound, partials, pump, queue, taken, bounds>>

\* The caller gives up between two chunks: the `send` is dropped with its lock,
\* and what it queued stays queued.
CancelSend(p) ==
    /\ sending[p] # Idle
    /\ sending' = [sending EXCEPT ![p] = Idle]
    /\ UNCHANGED <<minted, epoch, outbox, driver, inbound, partials, pump, queue, taken, bounds>>

\* The sending process restarts: a new epoch, and of what it had queued only
\* what the receiver has already, or what is on its way, still arrives.
SenderRestart(p) ==
    /\ restarts < MaxRestarts
    /\ restarts' = restarts + 1
    /\ sending' = [sending EXCEPT ![p] = Idle]
    /\ epoch' = [epoch EXCEPT ![p] = @ + 1]
    /\ \E k \in read[p] .. Len(outbox[p]) :
          outbox' = [outbox EXCEPT ![p] = SubSeq(@, 1, k)]
    /\ UNCHANGED <<minted, driver, inbound, partials, pump, queue, taken, screens>>

-----------------------------------------------------------------------------
(* The driver of the receiving end.                                        *)

\* `handle_datagram`: nothing is taken from a peer while it has a backlog;
\* otherwise one datagram may bring several messages, and a changed screen
\* follows them.
Arrive(p) ==
    /\ pending[p] = <<>>
    /\ \E k \in read[p] .. Len(outbox[p]), s \in 0 .. 1 :
          /\ k - read[p] + s > 0
          /\ screens + s <= MaxScreens
          /\ screens' = screens + s
          /\ read' = [read EXCEPT ![p] = k]
          /\ pending' = [pending EXCEPT ![p] =
                SubSeq(outbox[p], read[p] + 1, k) \o [i \in 1 .. s |-> Screen]]
    /\ UNCHANGED <<senders, from, cursor, inbound, partials, pump, queue, taken, restarts>>

\* The peers that have something pending.
Ready == {p \in Peer : pending[p] # <<>>}

\* How far a peer is from where the round begins.
Turn(p) == (p + N - cursor) % N

\* They are served in that order (there is one such sequence).
Rounds == {r \in [1 .. Cardinality(Ready) -> Ready] :
              \A i, j \in DOMAIN r : i < j => Turn(r[i]) < Turn(r[j])}

\* How many of them the channel has room for.
Accepted ==
    IF Cardinality(Ready) <= InboundCapacity - Len(inbound) THEN Cardinality(Ready)
    ELSE InboundCapacity - Len(inbound)

\* `flush_inbound`: one message of each peer in turn until the channel is full;
\* the message that did not fit goes back to the front, and the next round
\* begins after the peer it is of.
FlushInbound ==
    \E round \in Rounds :
        LET served == {round[i] : i \in 1 .. Accepted}
        IN  /\ inbound' = inbound \o [i \in 1 .. Accepted |->
                              [peer |-> round[i], body |-> Head(pending[round[i]])]]
            /\ pending' = [p \in Peer |-> IF p \in served THEN Tail(pending[p]) ELSE pending[p]]
            /\ cursor' = IF Accepted < Cardinality(Ready) THEN (round[Accepted + 1] + 1) % N
                         ELSE (cursor + 1) % N
            /\ UNCHANGED <<senders, from, read, partials, pump, queue, taken, bounds>>

-----------------------------------------------------------------------------
(* The pump of the receiving bridge.                                       *)

\* Mutant: partials are kept by peer alone.
OwnByPeer(p, c) == {x \in partials : x.peer = p}

\* The partial message a chunk is part of, as a set of at most one.
Own(p, c) == {x \in partials : x.peer = p /\ x.id = c.id}

\* Mutant: an unfinished frame is never given up for another of its epoch.
RefusedAlways(p, c) ==
    \E x \in partials : x.peer = p /\ x.epoch = c.epoch

\* A chunk that has no partial while its peer has one of the same epoch is
\* refused, unless it begins a frame.
Refused(p, c) ==
    \E x \in partials : x.peer = p /\ x.epoch = c.epoch /\ c.index # 0

\* What a chunk without a partial of its own opens.
Opened(p, c) ==
    [peer |-> p, id |-> c.id, epoch |-> c.epoch, chunks |-> [i \in 1 .. c.count |-> 0]]

Filled(x, c) == [x EXCEPT !.chunks[c.index + 1] = c.id]

Complete(x) == \A i \in DOMAIN x.chunks : x.chunks[i] # 0

\* What `reassemble` leaves in the table, and the frame it returns (none is
\* the empty set).  A partial that is opened replaces any other of its peer.
Reassemble(p, c) ==
    LET own  == Own(p, c)
        x    == IF own = {} THEN Opened(p, c) ELSE CHOOSE x \in own : TRUE
        y    == Filled(x, c)
        rest == IF own = {} THEN {z \in partials : z.peer # p} ELSE partials \ {x}
    IN  IF own = {} /\ Refused(p, c) THEN [left |-> partials, frame |-> {}]
        ELSE IF Len(x.chunks) # c.count THEN [left |-> rest, frame |-> {}]
        ELSE IF Complete(y) THEN [left |-> rest, frame |-> {y.chunks}]
        ELSE [left |-> rest \cup {y}, frame |-> {}]

\* `link.recv` and `reassemble`: a body without the chunk header is a frame.
\* With a frame in hand the pump makes its `space.notified()` before it asks for
\* the lock: from there on a `notify_waiters` reaches it.
Recv ==
    /\ pump.pc = "recv"
    /\ inbound # <<>>
    /\ inbound' = Tail(inbound)
    /\ LET p == Head(inbound).peer
           c == Head(inbound).body
           r == IF c = Screen THEN [left |-> partials, frame |-> {<<0>>}]
                ELSE Reassemble(p, c)
       IN  /\ partials' = r.left
           /\ \/ /\ r.frame = {}
                 /\ UNCHANGED pump
              \/ \E f \in r.frame :
                    pump' = [pc |-> "offer", peer |-> p, frame |-> f, space |-> FALSE]
    /\ UNCHANGED <<senders, driver, queue, taken, bounds>>

\* Mutant: the frame is queued in front.
OfferInFront ==
    /\ pump.pc = "offer"
    /\ \/ /\ Len(queue) < InboxCapacity
          /\ queue' = <<[peer |-> pump.peer, frame |-> pump.frame]>> \o queue
          /\ pump' = Waiting
       \/ /\ Len(queue) >= InboxCapacity
          /\ pump' = [pump EXCEPT !.pc = "full"]
          /\ UNCHANGED queue
    /\ UNCHANGED <<senders, driver, inbound, partials, taken, bounds>>

\* Under the lock: the frame is queued if there is room for it.
Offer ==
    /\ pump.pc = "offer"
    /\ \/ /\ Len(queue) < InboxCapacity
          /\ queue' = Append(queue, [peer |-> pump.peer, frame |-> pump.frame])
          /\ pump' = Waiting
       \/ /\ Len(queue) >= InboxCapacity
          /\ pump' = [pump EXCEPT !.pc = "full"]
          /\ UNCHANGED queue
    /\ UNCHANGED <<senders, driver, inbound, partials, taken, bounds>>

\* The lock is released and the pump goes to sleep on `space`.
Await ==
    /\ pump.pc = "full"
    /\ pump' = [pump EXCEPT !.pc = "wait"]
    /\ UNCHANGED <<senders, driver, inbound, partials, queue, taken, bounds>>

\* `space.await` returns: the pump makes a new `Notified` and looks again.
Wake ==
    /\ pump.pc = "wait"
    /\ pump.space
    /\ pump' = [pump EXCEPT !.pc = "offer", !.space = FALSE]
    /\ UNCHANGED <<senders, driver, inbound, partials, queue, taken, bounds>>

\* Mutant: the pump asks to be woken only once it has let go of the lock.
DrainWakesSleeper ==
    /\ \E k \in 1 .. Len(queue) :
          /\ queue' = SubSeq(queue, k + 1, Len(queue))
          /\ taken' = taken \o SubSeq(queue, 1, k)
    /\ pump' = [pump EXCEPT !.space = pump.pc = "wait"]
    /\ UNCHANGED <<senders, driver, inbound, partials, bounds>>

\* `drain_inbox`: the consumer takes the oldest frames and wakes the pump.
Drain ==
    /\ \E k \in 1 .. Len(queue) :
          /\ queue' = SubSeq(queue, k + 1, Len(queue))
          /\ taken' = taken \o SubSeq(queue, 1, k)
    /\ pump' = [pump EXCEPT !.space = pump.pc # "recv"]
    /\ UNCHANGED <<senders, driver, inbound, partials, bounds>>

-----------------------------------------------------------------------------
\* The receiving process restarts.  Its sessions are new ones: each peer offers
\* again from the last chunk it has an acknowledgement of.
ReceiverRestart ==
    /\ restarts < MaxRestarts
    /\ restarts' = restarts + 1
    /\ \E f \in [Peer -> UNION {0 .. read[p] : p \in Peer}] :
          /\ \A p \in Peer : f[p] <= read[p]
          /\ from' = f
          /\ read' = f
    /\ pending' = [p \in Peer |-> <<>>]
    /\ cursor' = 0
    /\ inbound' = <<>>
    /\ partials' = {}
    /\ pump' = Waiting
    /\ queue' = <<>>
    /\ taken' = <<>>
    /\ UNCHANGED <<senders, screens>>

PeerStep(p) ==
    \/ Send(p)
    \/ SendChunk(p)
    \/ CancelSend(p)
    \/ SenderRestart(p)
    \/ Arrive(p)

Next ==
    \/ \E p \in Peer : PeerStep(p)
    \/ FlushInbound
    \/ Recv
    \/ Offer
    \/ Await
    \/ Wake
    \/ Drain
    \/ ReceiverRestart

Spec == Init /\ [][Next]_vars

\* A session gets across what it has while its peer's backlog is empty, the
\* driver's loop comes round at least once a second, and the pump and the
\* consumer (whose poll runs out if no arrival wakes it) are tasks that are
\* scheduled.  Nobody has to go on sending.
FairSpec ==
    /\ Spec
    /\ \A p \in Peer : WF_vars(Arrive(p))
    /\ WF_vars(FlushInbound)
    /\ WF_vars(Recv)
    /\ WF_vars(Offer)
    /\ WF_vars(Await)
    /\ WF_vars(Wake)
    /\ WF_vars(Drain)

-----------------------------------------------------------------------------
Chunk == [epoch : Nat \ {0}, id : Nat \ {0},
          index : Nat, count : Nat \ {0}]

Frame == Seq(Nat)

Body == Chunk \cup {Screen}

InChannel == [peer : Peer, body : Body]

Message == [peer : Peer, frame : Frame]

Partial == [peer : Peer, id : Nat \ {0}, epoch : Nat \ {0}, chunks : Frame]

PumpState == [pc : {"recv", "offer", "full", "wait"}, peer : Peer, frame : Frame, space : BOOLEAN]

SendersOK ==
    /\ minted \in [Peer -> Nat]
    /\ sending \in [Peer -> [id : Nat, next : Nat]]
    /\ epoch \in [Peer -> Nat \ {0}]
    /\ outbox \in [Peer -> Seq(Chunk)]

DriverOK ==
    /\ from \in [Peer -> Nat]
    /\ read \in [Peer -> Nat]
    /\ \A p \in Peer : from[p] <= read[p] /\ read[p] <= Len(outbox[p])
    /\ pending \in [Peer -> Seq(Body)]
    /\ cursor \in Peer
    /\ inbound \in Seq(InChannel) /\ Len(inbound) <= InboundCapacity

PumpOK ==
    /\ partials \subseteq Partial
    /\ pump \in PumpState
    /\ queue \in Seq(Message) /\ Len(queue) <= InboxCapacity
    /\ taken \in Seq(Message)

\* The types of the variables, the two capacities, and that the cursor names a
\* peer.
TypeOK == SendersOK /\ DriverOK /\ PumpOK /\ restarts \in Nat /\ screens \in Nat

\* What the pump has a frame in hand for.
InHand == IF pump.pc = "recv" THEN <<>> ELSE <<[peer |-> pump.peer, frame |-> pump.frame]>>

\* All that this process put together, oldest first.
Delivered == taken \o queue \o InHand

\* The places in it of the frames of p, screens left out.
FramesOf(p) == {k \in DOMAIN Delivered : Delivered[k].peer = p /\ Delivered[k].frame # <<0>>}

\* Every frame handed on is one frame its peer sent, whole: never chunks of two
\* of them, though a `send` may be dropped half way and either process may
\* restart between two chunks (`reassemble`, keyed by the minted id).
WholeFrames ==
    \A p \in Peer : \A k \in FramesOf(p) : \E id \in 1 .. minted[p] :
        Delivered[k].frame = [i \in 1 .. Sizes[p][id] |-> id]

\* Frames of one peer are handed on in the order it sent them and at most once
\* by one process, whatever order the driver serves the peers in when the
\* channel is full (`flush_inbound` puts back in front what did not fit).
InOrderOnce ==
    \A p \in Peer : \A j, k \in FramesOf(p) :
        j < k => Delivered[j].frame[1] < Delivered[k].frame[1]

\* The chunks of p that its session took and the driver or its channel holds.
Held(p) ==
    Range(pending[p]) \cup {inbound[i].body : i \in {i \in DOMAIN inbound : inbound[i].peer = p}}

\* The chunks of p that went on to `reassemble`.
Pumped(p) == {outbox[p][n] : n \in from[p] + 1 .. read[p]} \ Held(p)

\* A frame all of whose chunks this process has seen has been handed on: what a
\* restart or a dropped `send` left in pieces never stands in the way of a
\* frame that comes after it, and no chunk is lost at a full channel.  The
\* session has acknowledged them and would not send them again.
CompleteDelivered ==
    \A p \in Peer : \A id \in 1 .. minted[p] :
        (\A i \in 0 .. Sizes[p][id] - 1 : \E c \in Pumped(p) : c.id = id /\ c.index = i)
            => \E k \in FramesOf(p) : Delivered[k].frame[1] = id

-----------------------------------------------------------------------------
(* Why these hold: where each chunk a session took is.                     *)

Before(c, d) == c.id < d.id \/ (c.id = d.id /\ c.index < d.index)

\* The chunks of one frame are queued one after the other, the frames in the
\* order of their ids: the lock is held until the last.
Queued(p) ==
    /\ \A n \in DOMAIN outbox[p] :
          LET c == outbox[p][n]
          IN  /\ c.id <= minted[p] /\ c.count = Sizes[p][c.id] /\ c.index < c.count
              /\ c.index > 0 => /\ n > 1 /\ outbox[p][n - 1].id = c.id
                                /\ outbox[p][n - 1].index = c.index - 1
    /\ \A k, n \in DOMAIN outbox[p] : k < n => Before(outbox[p][k], outbox[p][n])

\* A frame half way is the last one minted, and its chunks so far are the last
\* of the outbox.
HalfWay(p) ==
    /\ minted[p] <= Len(Sizes[p])
    /\ sending[p] # Idle =>
          LET s == sending[p]
              n == Len(outbox[p])
          IN  /\ s.id = minted[p] /\ s.id > 0 /\ s.next < Sizes[p][s.id]
              /\ s.next = 0 => \A k \in 1 .. n : outbox[p][k].id < s.id
              /\ s.next > 0 => n > 0 /\ outbox[p][n].id = s.id /\ outbox[p][n].index = s.next - 1

\* The places in the channel of the chunks of p.
ChunksOf(p) == {i \in DOMAIN inbound : inbound[i].peer = p /\ inbound[i].body # Screen}

\* Of what this process took, the chunks up to d are through, those from there
\* to m in the channel and the others in the backlog, which a screen may follow.
OnTheWay(p, d, m) ==
    /\ from[p] <= d /\ d <= m /\ m <= read[p]
    /\ pending[p] \in {SubSeq(outbox[p], m + 1, read[p]),
                       Append(SubSeq(outbox[p], m + 1, read[p]), Screen)}
    /\ \A i \in ChunksOf(p) : \E n \in d + 1 .. m : inbound[i].body = outbox[p][n]
    /\ \A n \in d + 1 .. m : \E i \in ChunksOf(p) : inbound[i].body = outbox[p][n]
    /\ \A i, j \in ChunksOf(p) : i < j => Before(inbound[i].body, inbound[j].body)

\* The parts of a frame among the first d chunks, from where this process began.
Got(p, d, id) == {i \in 0 .. Sizes[p][id] - 1 :
                     \E n \in from[p] + 1 .. d : outbox[p][n].id = id /\ outbox[p][n].index = i}

Whole(p, d, id) == Got(p, d, id) = 0 .. Sizes[p][id] - 1

FrameOf(p, id) == [i \in 1 .. Sizes[p][id] |-> id]

\* A partial is of the last frame that came through, as long as it is not whole,
\* and holds what came of it.
Parts(p, d) ==
    /\ \A x \in partials :
          x.peer = p =>
             /\ d > from[p] /\ x.id = outbox[p][d].id /\ ~Whole(p, d, x.id)
             /\ x.chunks = [i \in 1 .. Sizes[p][x.id] |->
                               IF i - 1 \in Got(p, d, x.id) THEN x.id ELSE 0]
    /\ d > from[p] /\ ~Whole(p, d, outbox[p][d].id) => \E x \in partials : x.peer = p
    /\ \A x, y \in partials : x.peer = p /\ y.peer = p => x = y

\* The frames handed on are those that came through whole.
HandedOn(p, d) ==
    /\ \A k \in FramesOf(p) : \E id \in 1 .. minted[p] :
          Whole(p, d, id) /\ Delivered[k].frame = FrameOf(p, id)
    /\ \A id \in 1 .. minted[p] :
          Whole(p, d, id) => \E k \in FramesOf(p) : Delivered[k].frame = FrameOf(p, id)

IInv ==
    /\ TypeOK
    /\ InOrderOnce
    /\ \A p \in Peer :
          /\ Queued(p)
          /\ HalfWay(p)
          /\ \E d, m \in from[p] .. read[p] : OnTheWay(p, d, m) /\ Parts(p, d) /\ HandedOn(p, d)

-----------------------------------------------------------------------------
Drained ==
    /\ \A p \in Peer : read[p] = Len(outbox[p]) /\ pending[p] = <<>>
    /\ inbound = <<>>
    /\ pump.pc = "recv"
    /\ queue = <<>>

\* Everything that is sent comes out: a full inbox holds up the pump, the pump
\* the channel, the channel the driver's backlog and the backlog the sessions,
\* and each is set going again.  A pump that went to sleep after the consumer
\* had made room would stop all of them.
EverythingTaken == []<>Drained
=============================================================================
