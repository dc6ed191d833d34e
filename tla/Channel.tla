------------------------------ MODULE Channel ------------------------------
(***************************************************************************)
(* One channel of a medulla-link session, whatever it carries:             *)
(* transport/channel.rs.  The constant operators are the SspState trait    *)
(* (state/types.rs): MessageQueue and ScreenGrid supply them.              *)
(*                                                                         *)
(* Left out: last_sent_ms, which only times retransmissions.               *)
(***************************************************************************)
EXTENDS Integers, Sequences

CONSTANTS
    MaxSentStates,          \* bound on the retained history
    DiffFrom(_, _),         \* SspState::diff_from(self, prev)
    ApplyDiff(_, _),        \* SspState::apply_diff(self, diff) on success
    Accepts(_, _),          \* whether that apply_diff succeeds
    ReleaseThrough(_, _),   \* SspState::release_through(self, num)
    Fits(_)                 \* the diff is within packet::MAX_DIFF_LEN

New(initial) ==
    [current |-> initial, current_num |-> 0,
     sent_states |-> <<[num |-> 0, state |-> initial]>>,
     assumed |-> 0, received |-> initial, received_num |-> 0, sent_num |-> 0]

IsPending(c) == c.current_num > c.assumed

HasUnsentChange(c) == c.current_num > c.sent_num

HistoryFull(c) == Len(c.sent_states) >= MaxSentStates

(* advance: the change has already been made on a copy, next. *)
Advance(c, next) ==
    [c EXCEPT !.current = next,
              !.current_num = c.current_num + 1,
              !.sent_states = Append(c.sent_states,
                                [num |-> c.current_num + 1, state |-> next])]

-----------------------------------------------------------------------------
(* The diff from the state the peer is believed to hold. *)
DiffFromBase(c, state) == DiffFrom(state, c.sent_states[1].state)

WholeFits(c) == Fits(DiffFromBase(c, c.current))

(* The walk through the history reaches state i: nothing before it, nor    *)
(* itself, was too large.                                                  *)
Reaches(c, i) ==
    \A j \in 2..i : Fits(DiffFromBase(c, c.sent_states[j].state))

(* Mutant of Reachable: the walk skips the first step of the history too. *)
ReachableSkippingTwo(c) == {i \in 3..Len(c.sent_states) : Reaches(c, i)}

Reachable(c) == {i \in 2..Len(c.sent_states) : Reaches(c, i)}

(* instruction() does not fail with DiffTooLarge. *)
HasInstruction(c) == WholeFits(c) \/ Reachable(c) # {}

InstructionWith(c, num, diff) ==
    [old |-> c.assumed, new |-> num,
     ack |-> c.received_num, throwaway |-> c.received_num, diff |-> diff]

Instruction(c) ==
    IF WholeFits(c)
      THEN InstructionWith(c, c.current_num, DiffFromBase(c, c.current))
      ELSE LET furthest == CHOOSE i \in Reachable(c) : \A j \in Reachable(c) : j <= i
               chosen == c.sent_states[furthest]
           IN  InstructionWith(c, chosen.num, DiffFromBase(c, chosen.state))

NoteSent(c, instruction) ==
    [c EXCEPT !.sent_num =
        IF instruction.new > c.sent_num THEN instruction.new ELSE c.sent_num]

-----------------------------------------------------------------------------
(* Drop the states from the front while they are older than ack. *)
DropBefore(states, ack) ==
    LET front == CHOOSE i \in DOMAIN states :
                    /\ states[i].num >= ack
                    /\ \A j \in 1..(i - 1) : states[j].num < ack
    IN  SubSeq(states, front, Len(states))

Acknowledge(c, ack) ==
    IF \/ ack <= c.assumed
       \/ \A i \in DOMAIN c.sent_states : c.sent_states[i].num # ack
      THEN c
      ELSE [c EXCEPT !.assumed = ack,
                     !.sent_states = DropBefore(c.sent_states, ack)]

(* Mutant of Acknowledged: what was sent is released, not what was         *)
(* acknowledged.                                                           *)
ReleasingSent(c, instruction) ==
    LET a == Acknowledge(c, instruction.ack)
    IN  [a EXCEPT !.current = ReleaseThrough(a.current, a.sent_num)]

(* The sending half of apply: the ack, then the release it allows. *)
Acknowledged(c, instruction) ==
    LET a == Acknowledge(c, instruction.ack)
        upto == IF instruction.throwaway <= a.assumed
                  THEN instruction.throwaway ELSE a.assumed
    IN  [a EXCEPT !.current = ReleaseThrough(a.current, upto)]

(* Mutant of Matches: a diff from an older state is taken too. *)
MatchesOlder(c, instruction) == instruction.old <= c.received_num

(* The diff starts from the state held here; otherwise it is refused. *)
Matches(c, instruction) == instruction.old = c.received_num

(* apply returns an error: the diff does not fit the received state. *)
ApplyFails(c, instruction) ==
    Matches(c, instruction) /\ ~Accepts(c.received, instruction.diff)

Apply(c, instruction) ==
    LET a == Acknowledged(c, instruction)
    IN  IF Matches(c, instruction) /\ Accepts(c.received, instruction.diff)
          THEN [a EXCEPT !.received = ApplyDiff(c.received, instruction.diff),
                         !.received_num = instruction.new]
          ELSE a

(* What apply returns: the held state advanced. *)
Advanced(c, instruction) ==
    /\ Matches(c, instruction) /\ Accepts(c.received, instruction.diff)
    /\ instruction.new > c.received_num
=============================================================================
