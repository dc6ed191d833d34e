----------------------------- MODULE ScreenLink -----------------------------
(***************************************************************************)
(* Channel 1: screen frames from the host to the owner, over a network     *)
(* that may lose, duplicate and reorder every datagram.                    *)
(*                                                                         *)
(* A frame too large for one datagram goes out as a chain of grid states,  *)
(* each the frame's rows up to one more (LinkHandle::send_screen_frame).   *)
(* Several tasks send frames; a lock per peer keeps a frame's states       *)
(* contiguous.  The owner's driver reassembles a frame when the grid it    *)
(* has received is a whole one.                                            *)
(***************************************************************************)
EXTENDS ScreenGrid, Functions

CONSTANTS
    Owner, Host,    \* the two endpoints (keys::Role)
    Writer,         \* the host's tasks that send frames
    Frames,         \* the frames sent: sequences of chunks
    MaxSentStates,  \* Channel::max_sent_states
    MaxFrames,      \* bound: frames begun
    None            \* no task

(* A chunk of a frame. *)
Chunk == UNION {Range(frame) : frame \in Frames}

ASSUME WriterAssumption == None \notin Writer

ASSUME ScreenEndsAssumption == Owner # Host

(* An empty body goes out as one row with an empty chunk. *)
ASSUME FramesAssumption == Frames \subseteq Seq(Chunk) \ {<<>>}

Endpoint == {Owner, Host}

Peer(e) == IF e = Owner THEN Host ELSE Owner

C == INSTANCE Channel WITH
        DiffFrom <- GridDiff, ApplyDiff <- GridApply, Accepts <- GridAccepts,
        ReleaseThrough <- GridRelease, Fits <- GridFits

VARIABLES
    ch,         \* each endpoint's Channel<RowGrid>
    net,        \* every datagram ever sent: [src, ins]
    lock,       \* the task holding screen_updates, or None
    sending,    \* per task, the frame being sent and how many rows are set:
                \* [frame, done]; an empty frame when there is none
    started,    \* history: the frames begun, in order
    grids,      \* history: the host's grids, by state number
    last,       \* the owner driver's last_screens
    shown       \* history: the frames the owner's application was given

vars == <<ch, net, lock, sending, started, grids, last, shown>>

Idle == [frame |-> <<>>, done |-> 0]

Init ==
    /\ ch = [e \in Endpoint |-> C!New(EmptyGrid)]
    /\ net = {}
    /\ lock = None
    /\ sending = [w \in Writer |-> Idle]
    /\ started = <<>>
    /\ grids = <<EmptyGrid>>
    /\ last = <<>>
    /\ shown = <<>>

-----------------------------------------------------------------------------
(* The rows of a frame, each with the header that says which it is. *)
Rows(frame) ==
    [i \in 1..Len(frame) |->
        [count |-> Len(frame), index |-> i, body |-> frame[i]]]

(* The grid w sets next. *)
NextGrid(w) == SubSeq(Rows(sending[w].frame), 1, sending[w].done + 1)

(* Mutant of LockFree: nothing keeps the states of a frame together. *)
NoLock == TRUE

(* screen_update.lock().await is granted. *)
LockFree == lock = None

(* send_screen_frame, up to the first chunk. *)
StartFrame(w, frame) ==
    /\ Len(started) < MaxFrames
    /\ LockFree
    /\ sending[w] = Idle
    /\ lock' = w
    /\ sending' = [sending EXCEPT ![w] = [frame |-> frame, done |-> 0]]
    /\ started' = Append(started, frame)
    /\ UNCHANGED <<ch, net, grids, last, shown>>

(* Session::set_screen refuses a step too large for a datagram. *)
StepFits(w) == GridFits(GridDiff(NextGrid(w), ch[Host].current))

(* One more row: Command::Screen and its answer. *)
SetScreen(w) ==
    /\ sending[w] # Idle
    /\ sending[w].done < Len(sending[w].frame)
    /\ StepFits(w) /\ ~C!HistoryFull(ch[Host])
    /\ ch' = [ch EXCEPT ![Host] = C!Advance(ch[Host], NextGrid(w))]
    /\ grids' = Append(grids, NextGrid(w))
    /\ sending' = [sending EXCEPT ![w].done = @ + 1]
    /\ UNCHANGED <<net, lock, started, last, shown>>

(* The frame is complete; or set_screen failed and the error is returned;  *)
(* or the task was dropped while it waited.  The guard goes with it.       *)
EndFrame(w) ==
    /\ sending[w] # Idle
    /\ sending' = [sending EXCEPT ![w] = Idle]
    /\ lock' = None
    /\ UNCHANGED <<ch, net, started, grids, last, shown>>

-----------------------------------------------------------------------------
(* Session::build *)
Send(e) ==
    /\ C!HasInstruction(ch[e])
    /\ LET ins == C!Instruction(ch[e])
       IN  /\ net' = net \cup {[src |-> e, ins |-> ins]}
           /\ ch' = [ch EXCEPT ![e] = C!NoteSent(ch[e], ins)]
    /\ UNCHANGED <<lock, sending, started, grids, last, shown>>

(* Mutant of Complete: the rows are in place, but the count they declare   *)
(* is not looked at.                                                       *)
CompleteByIndex(rows) ==
    rows # <<>> /\ \A i \in DOMAIN rows : rows[i].index = i

(* complete_screen_frame: every row says it is row i of as many. *)
Complete(rows) ==
    /\ rows # <<>>
    /\ \A i \in DOMAIN rows : rows[i].count = Len(rows) /\ rows[i].index = i

Body(rows) == [i \in DOMAIN rows |-> rows[i].body]

(* Driver::handle_datagram *)
Receive(e, d) ==
    LET c == C!Apply(ch[e], d.ins)
    IN  /\ d.src = Peer(e)
        /\ ch' = [ch EXCEPT ![e] = c]
        /\ IF e = Owner /\ ~C!ApplyFails(ch[e], d.ins) /\ last # c.received
             THEN /\ last' = c.received
                  /\ shown' = IF Complete(c.received)
                                THEN Append(shown, Body(c.received)) ELSE shown
             ELSE UNCHANGED <<last, shown>>
        /\ UNCHANGED <<net, lock, sending, started, grids>>

Next ==
    \/ \E w \in Writer :
          \/ \E frame \in Frames : StartFrame(w, frame)
          \/ SetScreen(w)
          \/ EndFrame(w)
    \/ \E e \in Endpoint :
          \/ Send(e)
          \/ \E d \in net : Receive(e, d)

Spec == Init /\ [][Next]_vars

-----------------------------------------------------------------------------
Row == [count : Nat, index : Nat, body : Chunk]

Grid == Seq(Row)

SentState == [num : Nat, state : Grid]

ChannelState ==
    [current : Grid, current_num : Nat, assumed : Nat, sent_num : Nat,
     sent_states : Seq(SentState),
     received : Grid, received_num : Nat]

IsDatagram(d) ==
    /\ d \in [src : Endpoint, ins : {d.ins}]
    /\ d.ins \in [old : Nat, new : Nat, ack : Nat, throwaway : Nat, diff : {d.ins.diff}]

(* Every variable has its type: the two Channel<RowGrid> values, the wire, *)
(* the lock and the frames (channel.rs:25, link/types.rs:222).             *)
TypeOK ==
    /\ ch \in [Endpoint -> ChannelState]
    /\ \A d \in net : IsDatagram(d)
    /\ lock \in Writer \cup {None}
    /\ sending \in [Writer -> [frame : Frames \cup {<<>>}, done : Nat]]
    /\ started \in Seq(Frames)
    /\ grids \in Seq(Grid)
    /\ last \in Grid
    /\ shown \in Seq(Frames)

(* The grid the owner holds is the grid the host had when its state had    *)
(* that number, although a diff names only the rows that changed and the   *)
(* datagrams come late, twice or not at all (Channel::apply with           *)
(* RowGrid::apply_diff).                                                   *)
GridIsPeers ==
    /\ ch[Owner].received_num < Len(grids)
    /\ ch[Owner].received = grids[ch[Owner].received_num + 1]

(* s is obtained from t by leaving elements out. *)
IsSubsequence(s, t) ==
    \E at \in [DOMAIN s -> DOMAIN t] :
        /\ \A i \in DOMAIN s : s[i] = t[at[i]]
        /\ \A i, j \in DOMAIN s : i < j => at[i] < at[j]

(* The application is only ever shown whole frames, each one some task     *)
(* began to send, in the order they were begun: never a prefix, a mix of   *)
(* two or an older frame after a newer one (complete_screen_frame).        *)
FramesWholeInOrder == IsSubsequence(shown, started)

(* The task holding the lock never has a step refused as too large:        *)
(* "interleaving another producer's prefixes could create a transition     *)
(* whose changed rows no longer fit one datagram" (link/types.rs:229-230). *)
StepAlwaysFits ==
    \A w \in Writer :
        sending[w].done < Len(sending[w].frame) => StepFits(w)

-----------------------------------------------------------------------------
(* The inductive invariant of ScreenLinkProofs. *)

(* The states e's channel has had, by number: only the host sets a grid. *)
History(e) == IF e = Host THEN grids ELSE <<EmptyGrid>>

(* The sending half of channel c, whose states were s: the history it      *)
(* keeps is theirs from the assumed one on.                                *)
SendsFrom(c, s) ==
    /\ c.current_num = Len(s) - 1
    /\ c.current = s[Len(s)]
    /\ c.assumed <= c.current_num
    /\ Len(c.sent_states) = Len(s) - c.assumed
    /\ \A i \in DOMAIN c.sent_states :
          c.sent_states[i] = [num |-> c.assumed + i - 1, state |-> s[c.assumed + i]]

(* The receiving half of a channel c, whose peer's states were s. *)
Holds(c, s) ==
    /\ c.received_num < Len(s)
    /\ c.received = s[c.received_num + 1]

(* An instruction sent at some time by a channel whose states were s. *)
Carries(ins, s) ==
    /\ ins.old <= ins.new
    /\ ins.new < Len(s)
    /\ ins.diff = GridDiff(s[ins.new + 1], s[ins.old + 1])

Channels == \A e \in Endpoint :
    SendsFrom(ch[e], History(e)) /\ Holds(ch[e], History(Peer(e)))

Wire == \A d \in net : Carries(d.ins, History(d.src))

(* A frame is under way only in the task that has the lock, and it is the  *)
(* one begun last.                                                         *)
OneSender == \A w \in Writer : sending[w] # Idle =>
    /\ lock = w
    /\ started # <<>>
    /\ sending[w].frame = started[Len(started)]
    /\ sending[w].done <= Len(sending[w].frame)

(* The first k rows of a frame. *)
Prefix(frame, k) == SubSeq(Rows(frame), 1, k)

(* Grid n was set for frame of[n] of those begun, in that order, and no    *)
(* further grid is set for a frame that is whole.                          *)
SetFor(of) ==
    /\ \A n \in DOMAIN grids : grids[n] # <<>> =>
          /\ of[n] > 0
          /\ Len(grids[n]) <= Len(started[of[n]])
          /\ grids[n] = Prefix(started[of[n]], Len(grids[n]))
    /\ \A n, m \in DOMAIN grids : n < m =>
          /\ of[n] <= of[m]
          /\ Complete(grids[n]) => of[n] < of[m]
    /\ \A w \in Writer : sending[w] # Idle =>
          IF sending[w].done = 0
            THEN of[Len(grids)] < Len(started)
            ELSE /\ of[Len(grids)] = Len(started)
                 /\ grids[Len(grids)] = Prefix(sending[w].frame, sending[w].done)

GridsOfFrames == \E of \in [DOMAIN grids -> 0..Len(started)] : SetFor(of)

(* Frame i shown was read from grid at[i]. *)
ReadFrom(at) ==
    /\ \A i \in DOMAIN shown :
          /\ at[i] <= ch[Owner].received_num + 1
          /\ Complete(grids[at[i]])
          /\ shown[i] = Body(grids[at[i]])
    /\ \A i, j \in DOMAIN shown : i < j => at[i] < at[j]

ShownOfGrids ==
    /\ last = ch[Owner].received
    /\ \E at \in [DOMAIN shown -> DOMAIN grids] : ReadFrom(at)

IInv ==
    /\ TypeOK
    /\ Channels
    /\ Wire
    /\ OneSender
    /\ GridsOfFrames
    /\ ShownOfGrids

=============================================================================
