-------------------------- MODULE ScreenLinkProofs --------------------------
(***************************************************************************)
(* Proofs about ScreenLink, for any tasks and frames and for every bound   *)
(* on histories and datagrams.                                             *)
(***************************************************************************)
EXTENDS ScreenLink, FiniteSetTheorems, SequenceTheorems, WellFoundedInduction, TLAPS

(* A set of naturals has a least element, < being well-founded. *)
LEMMA Least ==
    ASSUME NEW S \in SUBSET Nat, S # {}
    PROVE  \E k \in S : \A j \in S : k <= j
<1> DEFINE R == {ss \in Nat \X Nat : ss[1] < ss[2]}
<1>1. OpToRel(<, Nat) = R
  BY Zenon DEF OpToRel
<1>2. IsWellFoundedOn(R, Nat)
  BY <1>1, NatLessThanWellFounded, Zenon
<1> HIDE DEF R
<1>3. PICK k \in S : \A j \in S : <<j, k>> \notin R
  BY <1>2, WFMin
<1>4. ASSUME NEW j \in S
      PROVE  k <= j
  <2>1. j < k => <<j, k>> \in R
    BY Zenon DEF R
  <2>2. ~(j < k)
    BY <1>3, <2>1
  <2> QED
    BY <2>2
<1> QED
  BY <1>4

(* A set of indices has a greatest one. *)
LEMMA Greatest ==
    ASSUME NEW n \in Nat, NEW S \in SUBSET (1..n), S # {}
    PROVE  \E k \in S : \A j \in S : j <= k
<1> DEFINE D == {m \in Nat : \E i \in S : m = n - i}
<1>0. \A i \in S : i \in Nat /\ i <= n /\ n - i \in Nat
  OBVIOUS
<1>1. D \in SUBSET Nat /\ D # {}
  <2>1. PICK i \in S : TRUE
    OBVIOUS
  <2>2. n - i \in D
    BY <1>0
  <2> QED
    BY <2>2
<1> HIDE DEF D
<1>2. PICK d \in D : \A e \in D : d <= e
  BY <1>1, Least
<1>3. PICK k \in S : d = n - k
  BY <1>2 DEF D
<1>4. ASSUME NEW j \in S
      PROVE  j <= k
  <2>1. n - j \in D
    BY <1>0 DEF D
  <2>2. n - k <= n - j
    BY <1>2, <1>3, <2>1
  <2> QED
    BY <1>0, <2>2
<1> QED
  BY <1>4

-----------------------------------------------------------------------------
(* Grids and frames. *)

(* The fields of a channel have their types. *)
LEMMA ChannelFields ==
    ASSUME NEW c \in ChannelState
    PROVE  /\ c.current \in Grid /\ c.current_num \in Nat
           /\ c.sent_states \in Seq(SentState) /\ c.assumed \in Nat
           /\ c.received \in Grid /\ c.received_num \in Nat /\ c.sent_num \in Nat
           /\ Len(c.sent_states) \in Nat /\ DOMAIN c.sent_states = 1..Len(c.sent_states)
<1>1. c.sent_states \in Seq(SentState)
  BY DEF ChannelState
<1>2. Len(c.sent_states) \in Nat /\ DOMAIN c.sent_states = 1..Len(c.sent_states)
  BY <1>1
<1> QED
  BY <1>1, <1>2 DEF ChannelState

(* RowGrid::apply_diff undoes diff_from. *)
LEMMA ApplyOfDiff ==
    ASSUME NEW g \in Grid, NEW p \in Grid
    PROVE  /\ GridAccepts(p, GridDiff(g, p))
           /\ GridApply(p, GridDiff(g, p)) = g
<1> DEFINE diff == GridDiff(g, p)
           r == GridApply(p, diff)
<1>0. g \in Seq(Row) /\ p \in Seq(Row) /\ Len(g) \in Nat /\ DOMAIN g = 1..Len(g)
  BY DEF Grid
<1>1. diff.rows = Len(g) /\ DOMAIN diff.updates = ChangedRows(g, p)
      /\ \A i \in ChangedRows(g, p) : diff.updates[i] = g[i]
  BY DEF GridDiff
<1>2. ChangedRows(g, p) \subseteq 1..Len(g)
  BY <1>0 DEF ChangedRows
<1>3. GridAccepts(p, diff)
  BY <1>1, <1>2 DEF GridAccepts
<1> HIDE DEF diff
<1>4. ASSUME NEW i \in 1..Len(g)
      PROVE  (IF i \in DOMAIN diff.updates THEN diff.updates[i]
              ELSE IF i \in DOMAIN p THEN p[i] ELSE BlankRow) = g[i]
  BY <1>0, <1>1 DEF ChangedRows
<1>5. r = [i \in 1..Len(g) |-> g[i]]
  BY <1>1, <1>4 DEF GridApply
<1>6. g = [i \in 1..Len(g) |-> g[i]]
  BY <1>0
<1> QED
  BY <1>3, <1>5, <1>6 DEF diff

(* A frame is a sequence of chunks. *)
LEMMA FrameTyped ==
    ASSUME NEW frame \in Frames
    PROVE  frame \in Seq(Chunk) /\ frame # <<>> /\ Len(frame) \in Nat
  BY FramesAssumption

(* The first k rows of a frame. *)
LEMMA PrefixFacts ==
    ASSUME NEW frame \in Frames, NEW k \in Nat, k <= Len(frame)
    PROVE  /\ Prefix(frame, k) \in Grid
           /\ Len(Prefix(frame, k)) = k
           /\ DOMAIN Prefix(frame, k) = 1..k
           /\ \A i \in 1..k :
                Prefix(frame, k)[i] = [count |-> Len(frame), index |-> i, body |-> frame[i]]
<1>1. frame \in Seq(Chunk) /\ Len(frame) \in Nat
  BY FrameTyped
<1> DEFINE rows == Rows(frame)
<1>2. rows = [i \in 1..Len(frame) |->
                 [count |-> Len(frame), index |-> i, body |-> frame[i]]]
  BY DEF Rows
<1>3. \A i \in 1..Len(frame) : [count |-> Len(frame), index |-> i, body |-> frame[i]] \in Row
  BY <1>1 DEF Row
<1>4. rows \in Seq(Row) /\ Len(rows) = Len(frame)
      /\ \A i \in 1..Len(frame) : rows[i] = [count |-> Len(frame), index |-> i, body |-> frame[i]]
  <2>1. rows \in [1..Len(frame) -> Row]
    BY <1>2, <1>3
  <2> HIDE DEF rows
  <2>2. rows \in Seq(Row) /\ Len(rows) = Len(frame)
    BY <1>1, <2>1
  <2> QED
    BY <1>2, <2>2
<1> HIDE DEF rows
<1>5. /\ SubSeq(rows, 1, k) \in Seq(Row) /\ Len(SubSeq(rows, 1, k)) = k
      /\ DOMAIN SubSeq(rows, 1, k) = 1..k
      /\ \A i \in 1..k : SubSeq(rows, 1, k)[i] = rows[i]
  BY <1>1, <1>4
<1> QED
  BY <1>1, <1>4, <1>5 DEF Prefix, rows, Grid

(* A prefix is complete when it is the whole frame, whose chunks are then  *)
(* its rows.                                                               *)
LEMMA CompletePrefix ==
    ASSUME NEW frame \in Frames, NEW k \in Nat, k <= Len(frame),
           Complete(Prefix(frame, k))
    PROVE  k = Len(frame) /\ Body(Prefix(frame, k)) = frame
<1> DEFINE g == Prefix(frame, k)
<1>1. /\ g \in Grid /\ Len(g) = k /\ DOMAIN g = 1..k
      /\ \A i \in 1..k : g[i] = [count |-> Len(frame), index |-> i, body |-> frame[i]]
  BY PrefixFacts
<1>2. g # <<>> /\ \A i \in DOMAIN g : g[i].count = Len(g)
  BY DEF Complete
<1> HIDE DEF g
<1>3. 1 \in 1..k
  <2>1. k # 0
    BY <1>1, <1>2 DEF Grid
  <2> QED
    BY <2>1
<1>4. k = Len(frame)
  <2>1. g[1].count = Len(frame) /\ g[1].count = k
    BY <1>1, <1>2, <1>3
  <2> QED
    BY <2>1
<1>5. Body(g) = [i \in 1..k |-> frame[i]]
  BY <1>1 DEF Body
<1>6. frame = [i \in 1..k |-> frame[i]]
  BY <1>4, FrameTyped
<1> QED
  BY <1>4, <1>5, <1>6 DEF g

-----------------------------------------------------------------------------
(* What the operators of Channel keep. *)

(* Channel::advance to the grid g. *)
LEMMA AdvanceSends ==
    ASSUME NEW c \in ChannelState, NEW s \in Seq(Grid), NEW g \in Grid, SendsFrom(c, s)
    PROVE  LET d == C!Advance(c, g)
           IN  /\ d \in ChannelState
               /\ SendsFrom(d, Append(s, g))
               /\ d.received = c.received /\ d.received_num = c.received_num
<1> DEFINE n == c.current_num + 1
           new == [num |-> n, state |-> g]
           more == Append(c.sent_states, new)
           t == Append(s, g)
           d == C!Advance(c, g)
<1>0. /\ c.current_num \in Nat /\ c.assumed \in Nat /\ c.sent_states \in Seq(SentState)
      /\ Len(s) \in Nat /\ Len(c.sent_states) \in Nat
  BY ChannelFields
<1>1. /\ c.current_num = Len(s) - 1 /\ c.assumed <= c.current_num
      /\ Len(c.sent_states) = Len(s) - c.assumed
      /\ \A i \in DOMAIN c.sent_states :
            c.sent_states[i] = [num |-> c.assumed + i - 1, state |-> s[c.assumed + i]]
  BY DEF SendsFrom
<1>2. new \in SentState /\ n = Len(s)
  BY <1>0, <1>1 DEF SentState
<1>3. t \in Seq(Grid) /\ Len(t) = Len(s) + 1 /\ t[Len(s) + 1] = g
      /\ \A i \in 1..Len(s) : t[i] = s[i]
  OBVIOUS
<1>4. /\ more \in Seq(SentState) /\ Len(more) = Len(c.sent_states) + 1
      /\ DOMAIN more = 1..(Len(c.sent_states) + 1)
      /\ more[Len(c.sent_states) + 1] = new
      /\ \A i \in 1..Len(c.sent_states) : more[i] = c.sent_states[i]
  BY <1>0, <1>2
<1>5. d = [c EXCEPT !.current = g, !.current_num = n, !.sent_states = more]
  BY DEF C!Advance
<1>6. /\ d.current = g /\ d.current_num = n /\ d.sent_states = more /\ d.assumed = c.assumed
      /\ d.received = c.received /\ d.received_num = c.received_num
  BY <1>5 DEF ChannelState
<1> HIDE DEF d, t, more
<1>7. d \in ChannelState
  <2>1. n \in Nat
    BY <1>0
  <2> QED
    BY <1>4, <1>5, <2>1 DEF ChannelState
<1> HIDE DEF n, new
<1>8. ASSUME NEW i \in 1..(Len(c.sent_states) + 1)
      PROVE  more[i] = [num |-> c.assumed + i - 1, state |-> t[c.assumed + i]]
  <2>1. CASE i = Len(c.sent_states) + 1
    <3>1. c.assumed + i = Len(s) + 1
      BY <1>0, <1>1, <2>1
    <3>2. c.assumed + i - 1 = n
      BY <1>0, <1>2, <3>1
    <3> QED
      BY <1>3, <1>4, <2>1, <3>1, <3>2 DEF new
  <2>2. CASE i \in 1..Len(c.sent_states)
    <3>1. c.assumed + i \in 1..Len(s)
      BY <1>0, <1>1, <2>2
    <3>2. i \in DOMAIN c.sent_states
      BY <1>0, <2>2
    <3> QED
      BY <1>1, <1>3, <1>4, <2>2, <3>1, <3>2
  <2>3. i = Len(c.sent_states) + 1 \/ i \in 1..Len(c.sent_states)
    BY <1>0
  <2> QED
    BY <2>1, <2>2, <2>3
<1>9. SendsFrom(d, t)
  <2>1. d.current_num = Len(t) - 1 /\ d.current = t[Len(t)] /\ d.assumed <= d.current_num
        /\ Len(d.sent_states) = Len(t) - d.assumed
    BY <1>0, <1>1, <1>2, <1>3, <1>4, <1>6
  <2> QED
    BY <1>4, <1>6, <1>8, <2>1 DEF SendsFrom
<1> QED
  BY <1>6, <1>7, <1>9 DEF d, t

(* The states of the history, of which the first is the assumed one. *)
LEMMA HistoryEntry ==
    ASSUME NEW c \in ChannelState, NEW s \in Seq(Grid), SendsFrom(c, s)
    PROVE  /\ c.sent_states[1].state = s[c.assumed + 1]
           /\ c.assumed < Len(s)
           /\ \A i \in 1..Len(c.sent_states) :
                /\ c.sent_states[i].num = c.assumed + i - 1
                /\ c.sent_states[i].state = s[c.assumed + i]
                /\ c.assumed + i - 1 < Len(s)
<1>0. c.current_num \in Nat /\ c.assumed \in Nat /\ c.sent_states \in Seq(SentState)
      /\ Len(s) \in Nat /\ Len(c.sent_states) \in Nat
  BY ChannelFields
<1>1. /\ c.current_num = Len(s) - 1 /\ c.assumed <= c.current_num
      /\ Len(c.sent_states) = Len(s) - c.assumed
      /\ \A i \in DOMAIN c.sent_states :
            c.sent_states[i] = [num |-> c.assumed + i - 1, state |-> s[c.assumed + i]]
  BY DEF SendsFrom
<1>2. \A i \in 1..Len(c.sent_states) : i \in DOMAIN c.sent_states /\ c.assumed + i - 1 < Len(s)
  BY <1>0, <1>1
<1>3. 1 \in 1..Len(c.sent_states) /\ c.assumed < Len(s)
  BY <1>0, <1>1
<1>4. \A i \in 1..Len(c.sent_states) :
        c.sent_states[i].num = c.assumed + i - 1 /\ c.sent_states[i].state = s[c.assumed + i]
  <2> TAKE i \in 1..Len(c.sent_states)
  <2>1. c.sent_states[i] = [num |-> c.assumed + i - 1, state |-> s[c.assumed + i]]
    BY <1>1, <1>2
  <2> QED
    BY <1>0, <2>1
<1>5. c.sent_states[1].state = s[c.assumed + 1]
  BY <1>3, <1>4
<1> QED
  BY <1>2, <1>3, <1>4, <1>5

(* Channel::instruction: whichever state it settles on, the diff is from   *)
(* the assumed state to that one.                                          *)
LEMMA InstructionCarries ==
    ASSUME NEW c \in ChannelState, NEW s \in Seq(Grid), SendsFrom(c, s), C!HasInstruction(c)
    PROVE  LET ins == C!Instruction(c)
           IN  /\ ins \in [old : Nat, new : Nat, ack : Nat, throwaway : Nat, diff : {ins.diff}]
               /\ Carries(ins, s)
<1>0. c.current_num \in Nat /\ c.assumed \in Nat /\ c.received_num \in Nat /\ Len(s) \in Nat
      /\ c.sent_states \in Seq(SentState) /\ Len(c.sent_states) \in Nat
  BY ChannelFields
<1>1. c.current_num = Len(s) - 1 /\ c.assumed <= c.current_num /\ c.current = s[Len(s)]
  BY DEF SendsFrom
<1>2. c.sent_states[1].state = s[c.assumed + 1]
  BY HistoryEntry
<1>3. ASSUME NEW n \in Nat, c.assumed <= n, n < Len(s),
             C!Instruction(c) = C!InstructionWith(c, n, C!DiffFromBase(c, s[n + 1]))
      PROVE  LET ins == C!Instruction(c)
             IN  /\ ins \in [old : Nat, new : Nat, ack : Nat, throwaway : Nat, diff : {ins.diff}]
                 /\ Carries(ins, s)
  <2>1. C!DiffFromBase(c, s[n + 1]) = GridDiff(s[n + 1], s[c.assumed + 1])
    BY <1>2 DEF C!DiffFromBase
  <2> QED
    BY <1>0, <1>3, <2>1 DEF C!InstructionWith, Carries
<1>4. CASE C!WholeFits(c)
  <2>1. C!Instruction(c) = C!InstructionWith(c, c.current_num, C!DiffFromBase(c, c.current))
    BY <1>4 DEF C!Instruction
  <2>2. c.current_num < Len(s) /\ c.current_num + 1 = Len(s)
    BY <1>0, <1>1
  <2>3. c.current = s[c.current_num + 1]
    BY <1>1, <2>2
  <2> QED
    BY <1>0, <1>1, <1>3, <2>1, <2>2, <2>3
<1>5. CASE ~C!WholeFits(c)
  <2> DEFINE R == C!Reachable(c)
             furthest == CHOOSE i \in R : \A j \in R : j <= i
             num == c.assumed + furthest - 1
  <2>1. R # {}
    BY <1>5 DEF C!HasInstruction
  <2>2. R \in SUBSET (1..Len(c.sent_states))
    BY <1>0 DEF C!Reachable
  <2>3. \E i \in R : \A j \in R : j <= i
    <3> HIDE DEF R
    <3> QED
      BY <1>0, <2>1, <2>2, Greatest
  <2>4. furthest \in R
    BY <2>3, Zenon
  <2>5. C!Instruction(c) = C!InstructionWith(c, c.sent_states[furthest].num,
                              C!DiffFromBase(c, c.sent_states[furthest].state))
    BY <1>5 DEF C!Instruction
  <2>6. furthest \in 1..Len(c.sent_states)
    BY <2>2, <2>4
  <2> HIDE DEF furthest, R
  <2>7. /\ c.sent_states[furthest].num = num
        /\ c.sent_states[furthest].state = s[c.assumed + furthest]
        /\ num < Len(s)
    BY <2>6, HistoryEntry
  <2>8. num \in Nat /\ c.assumed <= num /\ c.assumed + furthest = num + 1
    BY <1>0, <2>6
  <2> HIDE DEF num
  <2> QED
    BY <1>3, <2>5, <2>7, <2>8
<1> QED
  BY <1>4, <1>5

(* Dropping the states older than one in the history makes it the front. *)
LEMMA DropIsChain ==
    ASSUME NEW c \in ChannelState, NEW s \in Seq(Grid), SendsFrom(c, s),
           NEW k \in 1..Len(c.sent_states)
    PROVE  C!DropBefore(c.sent_states, c.assumed + k - 1)
              = SubSeq(c.sent_states, k, Len(c.sent_states))
<1> DEFINE states == c.sent_states
           ack == c.assumed + k - 1
           IsFront(i) == states[i].num >= ack /\ \A j \in 1..(i - 1) : states[j].num < ack
           front == CHOOSE i \in DOMAIN states : IsFront(i)
<1>0. /\ c.assumed \in Nat /\ states \in Seq(SentState) /\ Len(states) \in Nat
      /\ DOMAIN states = 1..Len(states) /\ k \in Nat /\ 1 <= k /\ k <= Len(states)
  BY ChannelFields
<1>1. \A i \in 1..Len(states) : states[i].num = c.assumed + i - 1
  BY HistoryEntry
<1>2. C!DropBefore(states, ack) = SubSeq(states, front, Len(states))
  BY DEF C!DropBefore
<1> HIDE DEF states
<1>3. IsFront(k)
  <2>1. states[k].num = ack
    BY <1>0, <1>1
  <2>2. ASSUME NEW j \in 1..(k - 1)
        PROVE  states[j].num < ack
    <3>1. j \in 1..Len(states)
      BY <1>0
    <3>2. states[j].num = c.assumed + j - 1
      BY <1>1, <3>1
    <3> QED
      BY <1>0, <3>2
  <2> QED
    BY <1>0, <2>1, <2>2
<1>4. ASSUME NEW i \in DOMAIN states, IsFront(i)
      PROVE  i = k
  <2>1. ~(i < k)
    BY <1>0, <1>1, <1>4
  <2>2. ~(k < i)
    BY <1>0, <1>1, <1>4
  <2> QED
    BY <1>0, <2>1, <2>2
<1>5. front = k
  <2>1. \E i \in DOMAIN states : IsFront(i)
    BY <1>0, <1>3
  <2> HIDE DEF IsFront
  <2>2. front \in DOMAIN states /\ IsFront(front)
    BY <2>1, Zenon
  <2> QED
    BY <2>2, <1>4
<1> QED
  BY <1>2, <1>5 DEF states

(* Channel::acknowledge *)
LEMMA AcknowledgeSends ==
    ASSUME NEW c \in ChannelState, NEW s \in Seq(Grid), NEW ack \in Nat, SendsFrom(c, s)
    PROVE  LET a == C!Acknowledge(c, ack)
           IN  /\ a \in ChannelState
               /\ SendsFrom(a, s)
               /\ a.received = c.received /\ a.received_num = c.received_num
<1> DEFINE a == C!Acknowledge(c, ack)
<1>0. /\ c.assumed \in Nat /\ c.sent_states \in Seq(SentState) /\ c.current_num \in Nat
      /\ Len(c.sent_states) \in Nat /\ DOMAIN c.sent_states = 1..Len(c.sent_states)
      /\ Len(s) \in Nat
  BY ChannelFields
<1>1. /\ c.current_num = Len(s) - 1 /\ c.assumed <= c.current_num /\ c.current = s[Len(s)]
      /\ Len(c.sent_states) = Len(s) - c.assumed
      /\ \A i \in DOMAIN c.sent_states :
            c.sent_states[i] = [num |-> c.assumed + i - 1, state |-> s[c.assumed + i]]
  BY DEF SendsFrom
<1>2. CASE \/ ack <= c.assumed
           \/ \A i \in DOMAIN c.sent_states : c.sent_states[i].num # ack
  <2>1. a = c
    BY <1>2 DEF C!Acknowledge
  <2> QED
    BY <2>1
<1>3. CASE /\ ~(ack <= c.assumed)
           /\ ~ \A i \in DOMAIN c.sent_states : c.sent_states[i].num # ack
  <2> DEFINE rest == C!DropBefore(c.sent_states, ack)
  <2>1. a = [c EXCEPT !.assumed = ack, !.sent_states = rest]
    BY <1>3 DEF C!Acknowledge
  <2>2. PICK k \in 1..Len(c.sent_states) : c.sent_states[k].num = ack
    BY <1>0, <1>3
  <2>11. c.sent_states[k].num = c.assumed + k - 1 /\ c.assumed + k - 1 < Len(s)
    BY HistoryEntry
  <2>12. k \in Nat
    BY <1>0
  <2>3. ack = c.assumed + k - 1 /\ ack < Len(s) /\ k \in Nat
    BY <2>2, <2>11, <2>12
  <2>4. rest = SubSeq(c.sent_states, k, Len(c.sent_states))
    BY <2>3, DropIsChain
  <2>5. /\ rest \in Seq(SentState) /\ Len(rest) = Len(c.sent_states) - k + 1
        /\ DOMAIN rest = 1..(Len(c.sent_states) - k + 1)
        /\ \A i \in 1..(Len(c.sent_states) - k + 1) : rest[i] = c.sent_states[k + i - 1]
    BY <1>0, <2>4
  <2> HIDE DEF rest
  <2>6. /\ a.assumed = ack /\ a.sent_states = rest /\ a.current = c.current
        /\ a.current_num = c.current_num
        /\ a.received = c.received /\ a.received_num = c.received_num
    BY <2>1 DEF ChannelState
  <2>7. a \in ChannelState
    BY <2>1, <2>5 DEF ChannelState
  <2>8. ASSUME NEW i \in DOMAIN rest
        PROVE  rest[i] = [num |-> ack + i - 1, state |-> s[ack + i]]
    <3>1. i \in 1..(Len(c.sent_states) - k + 1)
      BY <2>5
    <3>2. k + i - 1 \in DOMAIN c.sent_states
      BY <1>0, <3>1
    <3>3. rest[i] = [num |-> c.assumed + (k + i - 1) - 1, state |-> s[c.assumed + (k + i - 1)]]
      BY <1>1, <2>5, <3>1, <3>2
    <3>4. i \in Nat
      BY <3>1
    <3>5. c.assumed + (k + i - 1) - 1 = ack + i - 1 /\ c.assumed + (k + i - 1) = ack + i
      BY <1>0, <2>3, <3>4
    <3> QED
      BY <3>3, <3>5
  <2>13. Len(rest) = Len(s) - c.assumed - k + 1
    BY <1>0, <1>1, <2>3, <2>5
  <2>9. ack <= c.current_num /\ Len(rest) = Len(s) - ack
    <3>1. c.current_num = Len(s) - 1 /\ c.assumed \in Nat /\ Len(s) \in Nat
      BY <1>0, <1>1
    <3>2. ack <= c.current_num
      BY <2>3, <3>1
    <3>3. Len(s) - c.assumed - k + 1 = Len(s) - (c.assumed + k - 1)
      BY <2>3, <3>1
    <3> QED
      BY <2>3, <2>13, <3>2, <3>3
  <2>10. SendsFrom(a, s)
    BY <1>1, <2>6, <2>8, <2>9 DEF SendsFrom
  <2> QED
    BY <2>6, <2>7, <2>10
<1> QED
  BY <1>2, <1>3

(* Channel::apply of an instruction the peer sent, whose states were t:    *)
(* whether it comes at its time, late or twice, the channel holds one of   *)
(* them and none older than before.                                        *)
LEMMA ApplyHolds ==
    ASSUME NEW c \in ChannelState, NEW s \in Seq(Grid), NEW t \in Seq(Grid), NEW ins,
           ins \in [old : Nat, new : Nat, ack : Nat, throwaway : Nat, diff : {ins.diff}],
           SendsFrom(c, s), Holds(c, t), Carries(ins, t)
    PROVE  LET d == C!Apply(c, ins)
           IN  /\ d \in ChannelState
               /\ SendsFrom(d, s)
               /\ Holds(d, t)
               /\ c.received_num <= d.received_num
               /\ ~C!ApplyFails(c, ins)
<1> DEFINE a == C!Acknowledge(c, ins.ack)
           b == C!Acknowledged(c, ins)
           d == C!Apply(c, ins)
<1>0. /\ ins.old \in Nat /\ ins.new \in Nat /\ ins.ack \in Nat
      /\ c.received_num \in Nat /\ Len(t) \in Nat
  BY ChannelFields
<1>1. /\ a \in ChannelState /\ SendsFrom(a, s)
      /\ a.received = c.received /\ a.received_num = c.received_num
  BY <1>0, AcknowledgeSends
<1> HIDE DEF a
<1>2. b = a
  <2>1. b = [a EXCEPT !.current = a.current]
    BY DEF C!Acknowledged, GridRelease, a
  <2> QED
    BY <1>1, <2>1 DEF ChannelState
<1>3. CASE C!Matches(c, ins)
  <2>1. ins.old = c.received_num /\ ins.old <= ins.new /\ ins.new < Len(t)
        /\ ins.diff = GridDiff(t[ins.new + 1], t[ins.old + 1])
        /\ c.received = t[ins.old + 1]
    BY <1>3 DEF C!Matches, Carries, Holds
  <2>2. ins.new + 1 \in 1..Len(t) /\ ins.old + 1 \in 1..Len(t)
    BY <1>0, <2>1
  <2>3. t[ins.new + 1] \in Grid /\ t[ins.old + 1] \in Grid
    BY <2>2, ElementOfSeq
  <2>4. GridAccepts(c.received, ins.diff) /\ GridApply(c.received, ins.diff) = t[ins.new + 1]
    BY <2>1, <2>3, ApplyOfDiff
  <2>5. d = [b EXCEPT !.received = t[ins.new + 1], !.received_num = ins.new]
    BY <1>3, <2>4 DEF C!Apply
  <2>6. /\ d.received = t[ins.new + 1] /\ d.received_num = ins.new /\ d \in ChannelState
        /\ d.current = a.current /\ d.current_num = a.current_num /\ d.assumed = a.assumed
        /\ d.sent_states = a.sent_states
    BY <1>0, <1>1, <1>2, <2>3, <2>5 DEF ChannelState
  <2>7. SendsFrom(d, s)
    BY <1>1, <2>6 DEF SendsFrom
  <2>8. Holds(d, t) /\ c.received_num <= d.received_num
    BY <2>1, <2>6 DEF Holds
  <2> QED
    BY <2>4, <2>6, <2>7, <2>8 DEF C!ApplyFails
<1>4. CASE ~C!Matches(c, ins)
  <2>1. d = a
    BY <1>2, <1>4 DEF C!Apply
  <2> QED
    BY <1>0, <1>1, <1>4, <2>1 DEF Holds, C!ApplyFails
<1> QED
  BY <1>3, <1>4

-----------------------------------------------------------------------------
(* The two endpoints, and the states their channels have had. *)
LEMMA Histories ==
    ASSUME TypeOK
    PROVE  /\ Owner \in Endpoint /\ Host \in Endpoint /\ Peer(Owner) = Host /\ Peer(Host) = Owner
           /\ History(Host) = grids /\ History(Owner) = <<EmptyGrid>>
           /\ EmptyGrid \in Grid
           /\ \A e \in Endpoint : History(e) \in Seq(Grid) /\ Peer(e) \in Endpoint
<1>1. EmptyGrid \in Grid
  BY DEF EmptyGrid, Grid
<1>2. <<EmptyGrid>> \in Seq(Grid) /\ grids \in Seq(Grid)
  BY <1>1 DEF TypeOK
<1> QED
  BY <1>1, <1>2, ScreenEndsAssumption DEF Endpoint, Peer, History

(* A channel holds what it held, whatever states its peer goes on to. *)
LEMMA HoldsStays ==
    ASSUME NEW c \in ChannelState, NEW s \in Seq(Grid), NEW g \in Grid, Holds(c, s)
    PROVE  Holds(c, Append(s, g))
<1>1. c.received_num \in Nat /\ Len(s) \in Nat /\ c.received_num < Len(s)
      /\ c.received = s[c.received_num + 1]
  BY ChannelFields DEF Holds
<1>2. c.received_num + 1 \in 1..Len(s) /\ Len(Append(s, g)) = Len(s) + 1
  BY <1>1
<1>3. Append(s, g)[c.received_num + 1] = s[c.received_num + 1]
  BY <1>2
<1> QED
  BY <1>1, <1>2, <1>3 DEF Holds

(* An instruction carries what it carried, so the network may keep it. *)
LEMMA CarriesStays ==
    ASSUME NEW ins, ins.old \in Nat, ins.new \in Nat, NEW s \in Seq(Grid), NEW g \in Grid,
           Carries(ins, s)
    PROVE  Carries(ins, Append(s, g))
<1>1. Len(s) \in Nat /\ ins.old <= ins.new /\ ins.new < Len(s)
      /\ ins.diff = GridDiff(s[ins.new + 1], s[ins.old + 1])
  BY DEF Carries
<1>2. ins.new + 1 \in 1..Len(s) /\ ins.old + 1 \in 1..Len(s) /\ Len(Append(s, g)) = Len(s) + 1
  BY <1>1
<1>3. Append(s, g)[ins.new + 1] = s[ins.new + 1] /\ Append(s, g)[ins.old + 1] = s[ins.old + 1]
  BY <1>2
<1> QED
  BY <1>1, <1>2, <1>3 DEF Carries

(* A task with a frame under way is alone, and the frame is one of those   *)
(* begun.                                                                  *)
LEMMA UnderWay ==
    ASSUME TypeOK, OneSender, NEW w \in Writer, sending[w] # Idle
    PROVE  /\ lock = w /\ \A u \in Writer : sending[u] # Idle => u = w
           /\ sending[w].frame \in Frames /\ sending[w].done \in Nat
           /\ sending[w].done <= Len(sending[w].frame)
           /\ Len(started) \in Nat /\ Len(started) \in DOMAIN started
           /\ sending[w].frame = started[Len(started)]
<1>1. /\ lock = w /\ started # <<>> /\ sending[w].frame = started[Len(started)]
      /\ sending[w].done <= Len(sending[w].frame)
  BY DEF OneSender
<1>2. \A u \in Writer : sending[u] # Idle => lock = u
  BY DEF OneSender
<1>3. started \in Seq(Frames) /\ sending[w].done \in Nat
  BY DEF TypeOK
<1>4. Len(started) \in Nat /\ Len(started) \in DOMAIN started /\ started[Len(started)] \in Frames
  BY <1>1, <1>3
<1> QED
  BY <1>1, <1>2, <1>3, <1>4

-----------------------------------------------------------------------------
(* Every action keeps the invariant. *)

(* Nothing was sent yet. *)
LEMMA InitIInv == Init => IInv
<1> SUFFICES ASSUME Init PROVE IInv
  OBVIOUS
<1> USE DEF Init
<1> DEFINE c == C!New(EmptyGrid)
<1>0. EmptyGrid \in Grid /\ EmptyGrid = <<>>
  BY DEF EmptyGrid, Grid
<1>1. c \in ChannelState
  <2>1. <<[num |-> 0, state |-> EmptyGrid]>> \in Seq(SentState)
    BY <1>0 DEF SentState
  <2> QED
    BY <1>0, <2>1 DEF C!New, ChannelState
<1>2. <<EmptyGrid>> \in Seq(Grid) /\ Len(<<EmptyGrid>>) = 1 /\ <<EmptyGrid>>[1] = EmptyGrid
  BY <1>0
<1>3. SendsFrom(c, <<EmptyGrid>>) /\ Holds(c, <<EmptyGrid>>)
  <2>1. c.sent_states = <<[num |-> 0, state |-> EmptyGrid]>> /\ c.assumed = 0
        /\ c.current_num = 0 /\ c.received_num = 0 /\ c.current = EmptyGrid /\ c.received = EmptyGrid
    BY DEF C!New
  <2>2. DOMAIN c.sent_states = {1} /\ Len(c.sent_states) = 1
        /\ c.sent_states[1] = [num |-> 0, state |-> EmptyGrid]
    BY <2>1
  <2> DEFINE s == <<EmptyGrid>>
  <2>3. Len(s) = 1 /\ s[1] = EmptyGrid
    BY <1>2
  <2> HIDE DEF c, s
  <2>6. ASSUME NEW i \in DOMAIN c.sent_states
        PROVE  c.sent_states[i] = [num |-> c.assumed + i - 1, state |-> s[c.assumed + i]]
    <3>1. i = 1 /\ c.assumed + i - 1 = 0 /\ c.assumed + i = 1
      BY <2>1, <2>2
    <3> QED
      BY <2>2, <2>3, <3>1
  <2>4. SendsFrom(c, s)
    BY <2>1, <2>2, <2>3, <2>6 DEF SendsFrom
  <2>5. Holds(c, s)
    BY <2>1, <2>3 DEF Holds
  <2> QED
    BY <2>4, <2>5 DEF s
<1> HIDE DEF c
<1>4. TypeOK
  <2>1. ch \in [Endpoint -> ChannelState]
    BY <1>1 DEF c
  <2>2. sending \in [Writer -> [frame : Frames \cup {<<>>}, done : Nat]]
    BY DEF Idle
  <2>3. <<>> \in Seq(Frames) /\ last \in Grid /\ grids \in Seq(Grid)
    BY <1>0, <1>2
  <2> QED
    BY <2>1, <2>2, <2>3 DEF TypeOK
<1>5. Channels
  <2>1. \A e \in Endpoint : History(e) = <<EmptyGrid>> /\ History(Peer(e)) = <<EmptyGrid>> /\ ch[e] = c
    BY DEF History, c
  <2> QED
    BY <1>3, <2>1 DEF Channels
<1>6. Wire /\ OneSender
  BY DEF Wire, OneSender
<1>7. GridsOfFrames
  <2> DEFINE of == [n \in {1} |-> 0]
  <2>1. DOMAIN grids = {1} /\ grids[1] = <<>> /\ Len(grids) = 1 /\ Len(started) = 0
    BY <1>0, <1>2
  <2>2. of \in [DOMAIN grids -> 0..Len(started)]
    BY <2>1
  <2>3. SetFor(of)
    BY <2>1 DEF SetFor
  <2> QED
    BY <2>2, <2>3 DEF GridsOfFrames
<1>8. ShownOfGrids
  <2> DEFINE at == [i \in {} |-> 1]
  <2>1. DOMAIN shown = {}
    OBVIOUS
  <2>2. at \in [DOMAIN shown -> DOMAIN grids] /\ ReadFrom(at)
    BY <2>1 DEF ReadFrom
  <2>3. last = ch[Owner].received
    BY <1>0 DEF C!New, Endpoint
  <2> QED
    BY <2>2, <2>3 DEF ShownOfGrids
<1> QED
  BY <1>4, <1>5, <1>6, <1>7, <1>8 DEF IInv

(* send_screen_frame takes the lock: the frame begun is a new one. *)
LEMMA StartFrameStep ==
    ASSUME IInv, NEW w \in Writer, NEW frame \in Frames, StartFrame(w, frame)
    PROVE  IInv'
<1> USE DEF StartFrame
<1>0. TypeOK /\ OneSender
  BY DEF IInv
<1>1. started \in Seq(Frames) /\ Len(started) \in Nat /\ DOMAIN started = 1..Len(started)
      /\ grids \in Seq(Grid) /\ sending \in [Writer -> [frame : Frames \cup {<<>>}, done : Nat]]
  BY <1>0 DEF TypeOK
<1>2. /\ started' \in Seq(Frames) /\ Len(started') = Len(started) + 1
      /\ started'[Len(started) + 1] = frame
      /\ \A k \in 1..Len(started) : started'[k] = started[k]
  BY <1>1
<1>3. sending' \in [Writer -> [frame : Frames \cup {<<>>}, done : Nat]]
      /\ sending'[w] = [frame |-> frame, done |-> 0]
      /\ \A u \in Writer : u # w => sending'[u] = sending[u]
  BY <1>1
<1>4. \A u \in Writer : sending[u] = Idle
  BY WriterAssumption DEF OneSender, LockFree, IInv
<1>5. TypeOK'
  BY <1>0, <1>2, <1>3 DEF TypeOK, IsDatagram
<1>6. Channels' /\ Wire' /\ ShownOfGrids'
  BY DEF IInv, Channels, Wire, ShownOfGrids, History, ReadFrom
<1>7. OneSender'
  <2>1. frame \in Seq(Chunk) /\ Len(frame) \in Nat
    BY FrameTyped
  <2> HIDE DEF StartFrame
  <2>2. started' # <<>>
    <3>1. Len(started') # 0
      BY <1>1, <1>2
    <3> QED
      BY <3>1
  <2>3. lock' = w
    BY DEF StartFrame
  <2>4. \A u \in Writer : sending'[u] # Idle => u = w
    BY <1>3, <1>4
  <2>5. sending'[w].frame = started'[Len(started')] /\ sending'[w].done <= Len(sending'[w].frame)
    BY <1>2, <1>3, <2>1
  <2> QED
    BY <2>2, <2>3, <2>4, <2>5 DEF OneSender
<1>8. GridsOfFrames'
  <2>1. PICK of \in [DOMAIN grids -> 0..Len(started)] : SetFor(of)
    BY DEF IInv, GridsOfFrames
  <2>2. of \in [DOMAIN grids' -> 0..Len(started')]
    BY <1>1, <1>2, <2>1
  <2>3. 1 <= Len(grids) /\ Len(grids) \in DOMAIN grids
    <3>1. SendsFrom(ch[Host], grids) /\ ch[Host] \in ChannelState
      BY <1>0, Histories DEF IInv, Channels, TypeOK
    <3>2. ch[Host].current_num \in Nat /\ Len(grids) \in Nat /\ ch[Host].current_num = Len(grids) - 1
      BY <1>1, <3>1, ChannelFields DEF SendsFrom
    <3> QED
      BY <1>1, <3>2
  <2>4. of[Len(grids)] < Len(started')
    BY <1>1, <1>2, <2>1, <2>3
  <2>5. \A n \in DOMAIN grids : grids[n] # <<>> =>
          /\ of[n] > 0
          /\ Len(grids[n]) <= Len(started'[of[n]])
          /\ grids[n] = Prefix(started'[of[n]], Len(grids[n]))
    <3> TAKE n \in DOMAIN grids
    <3> HAVE grids[n] # <<>>
    <3>1. /\ of[n] > 0 /\ Len(grids[n]) <= Len(started[of[n]])
          /\ grids[n] = Prefix(started[of[n]], Len(grids[n]))
      BY <2>1 DEF SetFor
    <3>2. of[n] \in 1..Len(started)
      BY <1>1, <2>1, <3>1
    <3> QED
      BY <1>2, <3>1, <3>2
  <2>6. \A n, m \in DOMAIN grids : n < m => of[n] <= of[m] /\ (Complete(grids[n]) => of[n] < of[m])
    BY <2>1 DEF SetFor
  <2>7. \A u \in Writer : sending'[u] # Idle => sending'[u].done = 0
    BY <1>3, <1>4
  <2>8. SetFor(of)'
    BY <2>4, <2>5, <2>6, <2>7 DEF SetFor
  <2> QED
    BY <2>2, <2>8 DEF GridsOfFrames
<1> QED
  BY <1>5, <1>6, <1>7, <1>8 DEF IInv

(* The lock is given back; the grids stay. *)
LEMMA EndFrameStep ==
    ASSUME IInv, NEW w \in Writer, EndFrame(w)
    PROVE  IInv'
<1> USE DEF EndFrame
<1>0. TypeOK /\ OneSender
  BY DEF IInv
<1>1. sending' \in [Writer -> [frame : Frames \cup {<<>>}, done : Nat]]
      /\ \A u \in Writer : sending'[u] = Idle
  <2>1. \A u \in Writer : sending[u] # Idle => u = w
    BY <1>0, UnderWay
  <2>2. sending \in [Writer -> [frame : Frames \cup {<<>>}, done : Nat]]
    BY <1>0 DEF TypeOK
  <2> QED
    BY <2>1, <2>2 DEF Idle
<1>2. TypeOK'
  BY <1>0, <1>1 DEF TypeOK, IsDatagram
<1>3. Channels' /\ Wire' /\ ShownOfGrids'
  BY DEF IInv, Channels, Wire, ShownOfGrids, History, ReadFrom
<1>4. OneSender'
  BY <1>1 DEF OneSender
<1>5. GridsOfFrames'
  <2>1. PICK of \in [DOMAIN grids -> 0..Len(started)] : SetFor(of)
    BY DEF IInv, GridsOfFrames
  <2>2. SetFor(of)'
    BY <1>1, <2>1 DEF SetFor
  <2> QED
    BY <2>1, <2>2 DEF GridsOfFrames
<1> QED
  BY <1>2, <1>3, <1>4, <1>5 DEF IInv

(* Session::build: what goes out carries the diff of two of the states. *)
LEMMA SendStep ==
    ASSUME IInv, NEW e \in Endpoint, Send(e)
    PROVE  IInv'
<1> DEFINE ins == C!Instruction(ch[e])
           c == C!NoteSent(ch[e], ins)
           d == [src |-> e, ins |-> ins]
<1>0. TypeOK /\ ch[e] \in ChannelState /\ ch \in [Endpoint -> ChannelState]
      /\ SendsFrom(ch[e], History(e)) /\ History(e) \in Seq(Grid)
  BY Histories DEF IInv, TypeOK, Channels
<1>1. /\ C!HasInstruction(ch[e]) /\ net' = net \cup {d} /\ ch' = [ch EXCEPT ![e] = c]
      /\ UNCHANGED <<lock, sending, started, grids, last, shown>>
  BY DEF Send
<1>2. /\ ins \in [old : Nat, new : Nat, ack : Nat, throwaway : Nat, diff : {ins.diff}]
      /\ Carries(ins, History(e))
  BY <1>0, <1>1, InstructionCarries
<1> HIDE DEF ins
<1>3. /\ c \in ChannelState
      /\ c.current = ch[e].current /\ c.current_num = ch[e].current_num
      /\ c.sent_states = ch[e].sent_states /\ c.assumed = ch[e].assumed
      /\ c.received = ch[e].received /\ c.received_num = ch[e].received_num
  <2>1. ins.new \in Nat /\ ch[e].sent_num \in Nat
    BY <1>0, <1>2, ChannelFields
  <2> QED
    BY <1>0, <2>1 DEF C!NoteSent, ChannelState
<1> HIDE DEF c
<1>4. /\ ch' \in [Endpoint -> ChannelState] /\ ch'[e] = c
      /\ \A f \in Endpoint : f # e => ch'[f] = ch[f]
  BY <1>0, <1>1, <1>3
<1>5. TypeOK'
  <2>1. IsDatagram(d)
    BY <1>2 DEF IsDatagram
  <2>2. \A x \in net' : IsDatagram(x)
    BY <1>0, <1>1, <2>1 DEF TypeOK
  <2> QED
    BY <1>0, <1>1, <1>4, <2>2 DEF TypeOK, IsDatagram
<1>6. \A f \in Endpoint : History(f)' = History(f)
  BY <1>1 DEF History
<1>7. Channels'
  <2>1. ASSUME NEW f \in Endpoint
        PROVE  SendsFrom(ch'[f], History(f)) /\ Holds(ch'[f], History(Peer(f)))
    <3>1. SendsFrom(ch[f], History(f)) /\ Holds(ch[f], History(Peer(f)))
      BY DEF IInv, Channels
    <3>2. CASE f = e
      BY <1>3, <1>4, <3>1, <3>2 DEF SendsFrom, Holds
    <3>3. CASE f # e
      BY <1>4, <3>1, <3>3
    <3> QED
      BY <3>2, <3>3
  <2> QED
    BY <1>0, <1>6, <2>1, Histories DEF Channels
<1>8. Wire'
  <2>1. \A x \in net' : Carries(x.ins, History(x.src)) /\ x.src \in Endpoint
    BY <1>0, <1>1, <1>2 DEF IInv, Wire, TypeOK, IsDatagram
  <2> QED
    BY <1>6, <2>1 DEF Wire
<1>9. OneSender' /\ GridsOfFrames'
  BY <1>1 DEF IInv, OneSender, GridsOfFrames, SetFor
<1>10. ShownOfGrids'
  <2>1. ch'[Owner].received = ch[Owner].received /\ ch'[Owner].received_num = ch[Owner].received_num
    BY <1>0, <1>3, <1>4, Histories
  <2>2. PICK at \in [DOMAIN shown -> DOMAIN grids] : ReadFrom(at)
    BY DEF IInv, ShownOfGrids
  <2>3. ReadFrom(at)'
    BY <1>1, <2>1, <2>2 DEF ReadFrom
  <2> QED
    BY <1>1, <2>1, <2>2, <2>3 DEF IInv, ShownOfGrids
<1> QED
  BY <1>5, <1>7, <1>8, <1>9, <1>10 DEF IInv

(* Receiving: the channel holds one of the peer's grids, and what is shown *)
(* is a later one than all shown before.                                   *)
LEMMA ReceiveStep ==
    ASSUME IInv, NEW e \in Endpoint, NEW d \in net, Receive(e, d)
    PROVE  IInv'
<1> DEFINE c == C!Apply(ch[e], d.ins)
<1>0. /\ TypeOK /\ ch[e] \in ChannelState /\ ch \in [Endpoint -> ChannelState]
      /\ SendsFrom(ch[e], History(e)) /\ Holds(ch[e], History(Peer(e)))
      /\ History(e) \in Seq(Grid) /\ History(Peer(e)) \in Seq(Grid)
  BY Histories DEF IInv, TypeOK, Channels
<1>1. /\ d.src = Peer(e) /\ ch' = [ch EXCEPT ![e] = c]
      /\ UNCHANGED <<net, lock, sending, started, grids>>
  BY DEF Receive
<1>2. /\ d.ins \in [old : Nat, new : Nat, ack : Nat, throwaway : Nat, diff : {d.ins.diff}]
      /\ Carries(d.ins, History(Peer(e)))
  BY <1>0, <1>1 DEF IInv, Wire, TypeOK, IsDatagram
<1>3. /\ c \in ChannelState /\ SendsFrom(c, History(e)) /\ Holds(c, History(Peer(e)))
      /\ ch[e].received_num <= c.received_num /\ ~C!ApplyFails(ch[e], d.ins)
  BY <1>0, <1>2, ApplyHolds
<1>4. IF e = Owner /\ last # c.received
        THEN /\ last' = c.received
             /\ shown' = IF Complete(c.received)
                           THEN Append(shown, Body(c.received)) ELSE shown
        ELSE UNCHANGED <<last, shown>>
  BY <1>3 DEF Receive
<1> HIDE DEF c
<1>5. /\ ch' \in [Endpoint -> ChannelState] /\ ch'[e] = c
      /\ \A f \in Endpoint : f # e => ch'[f] = ch[f]
  BY <1>0, <1>1, <1>3
<1>6. \A f \in Endpoint : History(f)' = History(f)
  BY <1>1 DEF History
<1>7. Channels'
  <2>1. ASSUME NEW f \in Endpoint
        PROVE  SendsFrom(ch'[f], History(f)) /\ Holds(ch'[f], History(Peer(f)))
    <3>1. SendsFrom(ch[f], History(f)) /\ Holds(ch[f], History(Peer(f)))
      BY DEF IInv, Channels
    <3>2. CASE f = e
      BY <1>3, <1>5, <3>2
    <3>3. CASE f # e
      BY <1>5, <3>1, <3>3
    <3> QED
      BY <3>2, <3>3
  <2> QED
    BY <1>0, <1>6, <2>1, Histories DEF Channels
<1>8. Wire' /\ OneSender' /\ GridsOfFrames'
  BY <1>1 DEF IInv, Wire, History, OneSender, GridsOfFrames, SetFor
<1>9. PICK of \in [DOMAIN grids -> 0..Len(started)] : SetFor(of)
  BY DEF IInv, GridsOfFrames
<1>10. PICK at \in [DOMAIN shown -> DOMAIN grids] : ReadFrom(at)
  BY DEF IInv, ShownOfGrids
<1>11. /\ grids \in Seq(Grid) /\ Len(grids) \in Nat /\ DOMAIN grids = 1..Len(grids)
       /\ started \in Seq(Frames) /\ shown \in Seq(Frames) /\ Len(shown) \in Nat
       /\ DOMAIN shown = 1..Len(shown) /\ last \in Grid
  BY <1>0 DEF TypeOK
<1>12. CASE e = Owner /\ last # c.received
  <2> DEFINE k == c.received_num + 1
             old == ch[Owner].received_num
  <2>1. /\ c.received_num \in Nat /\ c.received_num < Len(grids) /\ c.received = grids[k]
        /\ old \in Nat /\ old <= c.received_num /\ ch[Owner].received = grids[old + 1]
    BY <1>0, <1>3, <1>12, ChannelFields, Histories DEF Holds
  <2>2. old # c.received_num
    BY <1>12, <2>1 DEF IInv, ShownOfGrids
  <2>3. k \in DOMAIN grids /\ old + 1 < k
    BY <1>11, <2>1, <2>2
  <2>4. grids[k] \in Grid
    BY <1>11, <2>3, ElementOfSeq
  <2>5. last' = ch'[Owner].received /\ last' \in Grid /\ ch'[Owner].received_num = c.received_num
    BY <1>4, <1>5, <1>12, <2>1, <2>4
  <2>6. ASSUME NEW i \in DOMAIN shown
        PROVE  /\ at[i] \in DOMAIN grids /\ at[i] < k /\ at[i] <= c.received_num + 1
               /\ Complete(grids[at[i]]) /\ shown[i] = Body(grids[at[i]])
    <3>1. at[i] \in DOMAIN grids /\ at[i] <= old + 1
          /\ Complete(grids[at[i]]) /\ shown[i] = Body(grids[at[i]])
      BY <1>10 DEF ReadFrom
    <3> QED
      BY <1>11, <2>1, <2>3, <3>1
  <2>7. \A i, j \in DOMAIN shown : i < j => at[i] < at[j]
    BY <1>10 DEF ReadFrom
  <2>8. CASE ~Complete(grids[k])
    <3>1. shown' = shown
      BY <1>4, <1>12, <2>1, <2>8
    <3>2. ReadFrom(at)'
      BY <1>1, <2>5, <2>6, <2>7, <3>1 DEF ReadFrom
    <3>3. ShownOfGrids'
      BY <1>1, <1>10, <2>5, <3>1, <3>2 DEF ShownOfGrids
    <3>4. TypeOK'
      BY <1>0, <1>1, <1>5, <2>5, <3>1 DEF TypeOK, IsDatagram
    <3> QED
      BY <1>7, <1>8, <3>3, <3>4 DEF IInv
  <2>9. CASE Complete(grids[k])
    <3>1. shown' = Append(shown, Body(grids[k]))
      BY <1>4, <1>12, <2>1, <2>9
    <3>2. Body(grids[k]) \in Frames
      <4> DEFINE frame == started[of[k]]
      <4>1. grids[k] # <<>>
        BY <2>9 DEF Complete
      <4>2. of[k] > 0 /\ Len(grids[k]) <= Len(frame) /\ grids[k] = Prefix(frame, Len(grids[k]))
        BY <1>9, <2>3, <4>1 DEF SetFor
      <4>3. of[k] \in 1..Len(started)
        BY <1>9, <1>11, <2>3, <4>2
      <4>4. frame \in Frames /\ Len(grids[k]) \in Nat
        BY <1>11, <2>4, <4>3, ElementOfSeq DEF Grid
      <4> HIDE DEF frame
      <4>5. Complete(Prefix(frame, Len(grids[k]))) /\ Body(grids[k]) = Body(Prefix(frame, Len(grids[k])))
        BY <2>9, <4>2
      <4> QED
        BY <4>2, <4>4, <4>5, CompletePrefix
    <3>3. /\ shown' \in Seq(Frames) /\ DOMAIN shown' = 1..(Len(shown) + 1)
          /\ shown'[Len(shown) + 1] = Body(grids[k])
          /\ \A i \in 1..Len(shown) : shown'[i] = shown[i]
      BY <1>11, <3>1, <3>2
    <3>5. /\ Len(shown) + 1 \in 1..(Len(shown) + 1)
          /\ \A i \in 1..Len(shown) : i \in 1..(Len(shown) + 1) /\ i # Len(shown) + 1
          /\ \A i \in 1..(Len(shown) + 1) : i \in 1..Len(shown) \/ i = Len(shown) + 1
      <4>1. Len(shown) \in Nat
        BY <1>11
      <4> QED
        BY ONLY <4>1
    <3>6. PICK at2 \in [1..(Len(shown) + 1) -> DOMAIN grids] :
            at2[Len(shown) + 1] = k /\ \A i \in 1..Len(shown) : at2[i] = at[i]
      <4> DEFINE f == [i \in 1..(Len(shown) + 1) |-> IF i = Len(shown) + 1 THEN k ELSE at[i]]
      <4>1. f \in [1..(Len(shown) + 1) -> DOMAIN grids]
        BY <1>11, <2>3, <2>6, <3>5
      <4>2. f[Len(shown) + 1] = k /\ \A i \in 1..Len(shown) : f[i] = at[i]
        BY <3>5
      <4> HIDE DEF f
      <4> QED
        BY <4>1, <4>2
    <3>4. at2 \in [DOMAIN shown' -> DOMAIN grids']
      BY <1>1, <3>3, <3>6
    <3>7. ASSUME NEW i \in DOMAIN shown'
          PROVE  /\ at2[i] <= c.received_num + 1
                 /\ Complete(grids[at2[i]]) /\ shown'[i] = Body(grids[at2[i]])
      <4>1. CASE i \in 1..Len(shown)
        BY <1>11, <2>6, <3>3, <3>6, <4>1
      <4>2. CASE i = Len(shown) + 1
        BY <2>1, <2>9, <3>3, <3>6, <4>2
      <4> QED
        BY <3>3, <3>5, <4>1, <4>2
    <3>8. ASSUME NEW i \in DOMAIN shown', NEW j \in DOMAIN shown', i < j
          PROVE  at2[i] < at2[j]
      <4>1. i \in 1..Len(shown)
        BY <1>11, <3>3, <3>8
      <4>2. CASE j \in 1..Len(shown)
        BY <1>11, <2>7, <3>6, <3>8, <4>1, <4>2
      <4>3. CASE j = Len(shown) + 1
        BY <1>11, <2>6, <3>6, <4>1, <4>3
      <4> QED
        BY <3>3, <3>5, <4>2, <4>3
    <3>9. ReadFrom(at2)'
      BY <1>1, <2>5, <3>7, <3>8 DEF ReadFrom
    <3>10. ShownOfGrids'
      BY <2>5, <3>4, <3>9 DEF ShownOfGrids
    <3>11. TypeOK'
      BY <1>0, <1>1, <1>5, <2>5, <3>3 DEF TypeOK, IsDatagram
    <3> QED
      BY <1>7, <1>8, <3>10, <3>11 DEF IInv
  <2> QED
    BY <2>8, <2>9
<1>13. CASE ~(e = Owner /\ last # c.received)
  <2>1. last' = last /\ shown' = shown
    BY <1>4, <1>13
  <2>2. last = ch'[Owner].received /\ ch[Owner].received_num \in Nat
        /\ ch'[Owner].received_num \in Nat /\ ch[Owner].received_num <= ch'[Owner].received_num
    <3>0. ch[Owner] \in ChannelState /\ last = ch[Owner].received
      BY <1>0, Histories DEF IInv, ShownOfGrids
    <3>1. CASE e = Owner
      BY <1>3, <1>5, <1>13, <3>0, <3>1, ChannelFields
    <3>2. CASE e # Owner
      <4>1. ch'[Owner] = ch[Owner]
        BY <1>0, <1>5, <3>2, Histories
      <4> QED
        BY <3>0, <4>1, ChannelFields
    <3> QED
      BY <3>1, <3>2
  <2>3. ASSUME NEW i \in DOMAIN shown
        PROVE  /\ at[i] <= ch'[Owner].received_num + 1
               /\ Complete(grids[at[i]]) /\ shown[i] = Body(grids[at[i]])
    <3>1. at[i] \in 1..Len(grids) /\ at[i] <= ch[Owner].received_num + 1
          /\ Complete(grids[at[i]]) /\ shown[i] = Body(grids[at[i]])
      BY <1>10, <1>11 DEF ReadFrom
    <3> QED
      BY <1>11, <2>2, <3>1
  <2>4. \A i, j \in DOMAIN shown : i < j => at[i] < at[j]
    BY <1>10 DEF ReadFrom
  <2>5. ReadFrom(at)'
    BY <1>1, <2>1, <2>3, <2>4 DEF ReadFrom
  <2>6. ShownOfGrids'
    BY <1>1, <1>10, <2>1, <2>2, <2>5 DEF ShownOfGrids
  <2>7. TypeOK'
    BY <1>0, <1>1, <1>5, <2>1 DEF TypeOK, IsDatagram
  <2> QED
    BY <1>7, <1>8, <2>6, <2>7 DEF IInv
<1> QED
  BY <1>12, <1>13

(* set_screen: one more row of the frame begun last. *)
LEMMA SetScreenStep ==
    ASSUME IInv, NEW w \in Writer, SetScreen(w)
    PROVE  IInv'
<1> DEFINE frame == sending[w].frame
           k == sending[w].done + 1
           g == NextGrid(w)
           n == Len(grids)
<1>0. TypeOK /\ OneSender /\ grids \in Seq(Grid) /\ n \in Nat /\ DOMAIN grids = 1..n
      /\ ch \in [Endpoint -> ChannelState] /\ ch[Host] \in ChannelState
      /\ sending \in [Writer -> [frame : Frames \cup {<<>>}, done : Nat]]
  BY Histories DEF IInv, TypeOK
<1>1. /\ sending[w] # Idle /\ sending[w].done < Len(frame)
      /\ ch' = [ch EXCEPT ![Host] = C!Advance(ch[Host], g)]
      /\ grids' = Append(grids, g)
      /\ sending' = [sending EXCEPT ![w].done = @ + 1]
      /\ UNCHANGED <<net, lock, started, last, shown>>
  BY DEF SetScreen
<1>2. /\ lock = w /\ \A u \in Writer : sending[u] # Idle => u = w
      /\ frame \in Frames /\ sending[w].done \in Nat
      /\ Len(started) \in Nat /\ Len(started) \in DOMAIN started
      /\ frame = started[Len(started)]
  BY <1>0, <1>1, UnderWay
<1>3. k \in Nat /\ k <= Len(frame) /\ k # 0
  BY <1>1, <1>2, FrameTyped
<1>4. g = Prefix(frame, k)
  BY DEF NextGrid, Prefix
<1> HIDE DEF g
<1>5. g \in Grid /\ Len(g) = k
  BY <1>2, <1>3, <1>4, PrefixFacts
<1>6. /\ grids' \in Seq(Grid) /\ Len(grids') = n + 1 /\ DOMAIN grids' = 1..(n + 1)
      /\ grids'[n + 1] = g /\ \A i \in 1..n : grids'[i] = grids[i]
  BY <1>0, <1>1, <1>5
<1>7. /\ C!Advance(ch[Host], g) \in ChannelState
      /\ SendsFrom(C!Advance(ch[Host], g), Append(grids, g))
      /\ C!Advance(ch[Host], g).received = ch[Host].received
      /\ C!Advance(ch[Host], g).received_num = ch[Host].received_num
  BY <1>0, <1>5, AdvanceSends, Histories DEF IInv, Channels
<1>8. /\ ch' \in [Endpoint -> ChannelState] /\ ch'[Owner] = ch[Owner]
      /\ SendsFrom(ch'[Host], grids') /\ ch'[Host].received = ch[Host].received
      /\ ch'[Host].received_num = ch[Host].received_num
  BY <1>0, <1>1, <1>7, Histories, ScreenEndsAssumption
<1>9. /\ sending' \in [Writer -> [frame : Frames \cup {<<>>}, done : Nat]]
      /\ sending'[w] = [frame |-> frame, done |-> k]
      /\ \A u \in Writer : u # w => sending'[u] = sending[u]
  <2>1. sending[w] = [frame |-> frame, done |-> sending[w].done]
    BY <1>0
  <2>3. [sending[w] EXCEPT !.done = sending[w].done + 1] = [frame |-> frame, done |-> k]
    BY <2>1
  <2>2. sending' = [sending EXCEPT ![w] = [frame |-> frame, done |-> k]]
    BY <1>0, <1>1, <2>3
  <2> QED
    BY <1>0, <1>2, <1>3, <2>2
<1>10. TypeOK'
  BY <1>0, <1>1, <1>6, <1>8, <1>9 DEF TypeOK, IsDatagram
<1>11. Channels'
  <2>1. SendsFrom(ch[Owner], <<EmptyGrid>>) /\ Holds(ch[Host], <<EmptyGrid>>)
        /\ Holds(ch[Owner], grids) /\ ch[Owner] \in ChannelState
    BY <1>0, Histories DEF IInv, Channels
  <2>2. Holds(ch'[Owner], grids')
    BY <1>0, <1>1, <1>5, <1>8, <2>1, HoldsStays
  <2>3. Holds(ch'[Host], <<EmptyGrid>>)
    BY <1>8, <2>1 DEF Holds
  <2> QED
    BY <1>8, <2>1, <2>2, <2>3, ScreenEndsAssumption DEF Channels, History, Peer, Endpoint
<1>12. Wire'
  <2>1. ASSUME NEW d \in net
        PROVE  Carries(d.ins, History(d.src)')
    <3>1. d.src \in Endpoint /\ d.ins.old \in Nat /\ d.ins.new \in Nat /\ Carries(d.ins, History(d.src))
      BY <1>0 DEF IInv, Wire, TypeOK, IsDatagram
    <3>2. CASE d.src = Host
      <4>1. History(d.src) = grids /\ History(d.src)' = Append(grids, g)
        BY <1>1, <3>2 DEF History
      <4> QED
        BY <1>0, <1>5, <3>1, <4>1, CarriesStays
    <3>3. CASE d.src # Host
      BY <3>1, <3>3 DEF History
    <3> QED
      BY <3>2, <3>3
  <2> QED
    BY <1>1, <2>1 DEF Wire
<1>13. OneSender'
  <2>1. \A u \in Writer : sending'[u] # Idle => u = w
    BY <1>2, <1>9
  <2>2. started # <<>> /\ sending'[w].frame = frame /\ sending'[w].done <= Len(frame)
    BY <1>0, <1>1, <1>3, <1>9 DEF OneSender
  <2> QED
    BY <1>1, <1>2, <2>1, <2>2 DEF OneSender
<1>14. GridsOfFrames'
  <2>1. PICK of \in [DOMAIN grids -> 0..Len(started)] : SetFor(of)
    BY DEF IInv, GridsOfFrames
  <2>2. /\ n + 1 \in 1..(n + 1) /\ \A i \in 1..n : i \in 1..(n + 1) /\ i # n + 1
        /\ \A i \in 1..(n + 1) : i \in 1..n \/ i = n + 1
    <3>1. n \in Nat
      BY <1>0
    <3> HIDE DEF n
    <3> QED
      BY ONLY <3>1
  <2>3. PICK of2 \in [1..(n + 1) -> 0..Len(started)] :
          of2[n + 1] = Len(started) /\ \A i \in 1..n : of2[i] = of[i]
    <3> DEFINE f == [i \in 1..(n + 1) |-> IF i = n + 1 THEN Len(started) ELSE of[i]]
    <3>1. Len(started) \in 0..Len(started)
      BY <1>2
    <3>2. f \in [1..(n + 1) -> 0..Len(started)]
      BY <1>0, <2>1, <2>2, <3>1
    <3>3. f[n + 1] = Len(started) /\ \A i \in 1..n : f[i] = of[i]
      BY <2>2
    <3> HIDE DEF f
    <3> QED
      BY <3>2, <3>3
  <2>4. of2 \in [DOMAIN grids' -> 0..Len(started')]
    BY <1>1, <1>6, <2>3
  <2>13. IF sending[w].done = 0
           THEN of[n] < Len(started)
           ELSE of[n] = Len(started) /\ grids[n] = Prefix(frame, sending[w].done)
    BY <1>1, <2>1 DEF SetFor
  <2>5. n \in 1..n
    <3>1. SendsFrom(ch[Host], grids)
      BY <1>0, Histories DEF IInv, Channels
    <3>2. ch[Host].current_num \in Nat /\ ch[Host].current_num = n - 1
      BY <1>0, <3>1, ChannelFields DEF SendsFrom
    <3> QED
      BY <1>0, <3>2
  <2>6. \A i \in 1..n : of[i] \in Nat /\ of[i] <= Len(started)
    BY <1>0, <1>2, <2>1
  <2>7. \A i, j \in 1..n : i < j => of[i] <= of[j] /\ (Complete(grids[i]) => of[i] < of[j])
    BY <1>0, <2>1 DEF SetFor
  <2>8. ASSUME NEW i \in 1..n, Complete(grids[i])
        PROVE  of[i] < Len(started)
    <3>1. CASE sending[w].done = 0
      <4>1. of[n] < Len(started)
        BY <2>13, <3>1
      <4>2. i = n \/ i < n
        <5>1. n \in Nat /\ i \in 1..n
          BY <1>0
        <5> QED
          BY ONLY <5>1
      <4>3. of[i] <= of[n]
        BY <2>5, <2>6, <2>7, <4>2
      <4> QED
        BY <1>2, <2>5, <2>6, <4>1, <4>3
    <3>2. CASE sending[w].done # 0
      <4>1. of[n] = Len(started) /\ grids[n] = Prefix(frame, sending[w].done)
        BY <2>13, <3>2
      <4>2. ~Complete(grids[n])
        <5>1. sending[w].done <= Len(frame) /\ sending[w].done # Len(frame)
          BY <1>1, <1>2, FrameTyped
        <5> QED
          BY <1>2, <4>1, <5>1, CompletePrefix
      <4>3. i < n
        BY <1>0, <2>8, <4>2
      <4> QED
        BY <2>5, <2>7, <2>8, <4>1, <4>3
    <3> QED
      BY <3>1, <3>2
  <2>9. ASSUME NEW i \in DOMAIN grids', grids'[i] # <<>>
        PROVE  /\ of2[i] > 0
               /\ Len(grids'[i]) <= Len(started[of2[i]])
               /\ grids'[i] = Prefix(started[of2[i]], Len(grids'[i]))
    <3>1. CASE i \in 1..n
      BY <1>0, <1>6, <2>1, <2>3, <2>9, <3>1 DEF SetFor
    <3>2. CASE i = n + 1
      <4>1. Len(started) > 0
        BY <1>2, <1>0 DEF TypeOK
      <4> QED
        BY <1>2, <1>3, <1>4, <1>5, <1>6, <2>3, <3>2, <4>1
    <3> QED
      BY <1>6, <2>2, <3>1, <3>2
  <2>10. ASSUME NEW i \in DOMAIN grids', NEW j \in DOMAIN grids', i < j
         PROVE  of2[i] <= of2[j] /\ (Complete(grids'[i]) => of2[i] < of2[j])
    <3>1. i \in 1..n
      BY <1>0, <1>6, <2>10
    <3>2. CASE j \in 1..n
      BY <1>6, <2>3, <2>7, <2>10, <3>1, <3>2
    <3>3. CASE j = n + 1
      BY <1>6, <2>3, <2>6, <2>8, <3>1, <3>3
    <3> QED
      BY <1>6, <2>2, <3>2, <3>3
  <2>11. ASSUME NEW u \in Writer, sending'[u] # Idle
         PROVE  /\ sending'[u].done # 0
                /\ of2[Len(grids')] = Len(started)
                /\ grids'[Len(grids')] = Prefix(sending'[u].frame, sending'[u].done)
    <3>1. u = w
      BY <1>2, <1>9, <2>11
    <3>2. sending'[u].done = k /\ sending'[u].frame = frame
      BY <1>9, <3>1
    <3>3. of2[Len(grids')] = Len(started) /\ grids'[Len(grids')] = g
      BY <1>6, <2>3
    <3> HIDE DEF k, frame
    <3> QED
      BY <1>3, <1>4, <3>2, <3>3
  <2>12. SetFor(of2)'
    BY <1>1, <2>9, <2>10, <2>11 DEF SetFor
  <2> QED
    BY <2>4, <2>12 DEF GridsOfFrames
<1>15. ShownOfGrids'
  <2>1. PICK at \in [DOMAIN shown -> DOMAIN grids] : ReadFrom(at)
    BY DEF IInv, ShownOfGrids
  <2>2. at \in [DOMAIN shown -> DOMAIN grids']
    BY <1>0, <1>6, <2>1
  <2>3. \A i \in DOMAIN shown : grids'[at[i]] = grids[at[i]]
    BY <1>0, <1>6, <2>1
  <2>4. ReadFrom(at)'
    BY <1>1, <1>8, <2>1, <2>3 DEF ReadFrom
  <2> QED
    BY <1>1, <1>8, <2>2, <2>4 DEF IInv, ShownOfGrids
<1> QED
  BY <1>10, <1>11, <1>12, <1>13, <1>14, <1>15 DEF IInv

-----------------------------------------------------------------------------
(* A step that changes nothing keeps the invariant. *)
LEMMA StutterStep ==
    ASSUME IInv, UNCHANGED vars
    PROVE  IInv'
<1> USE DEF vars
<1>1. TypeOK' /\ Channels' /\ Wire'
  BY DEF IInv, TypeOK, IsDatagram, Channels, Wire, History
<1>2. OneSender' /\ GridsOfFrames' /\ ShownOfGrids'
  BY DEF IInv, OneSender, GridsOfFrames, SetFor, ShownOfGrids, ReadFrom
<1> QED
  BY <1>1, <1>2 DEF IInv

(* Channel 1 keeps the invariant in every step: send_screen_frame,         *)
(* set_screen, build and handle_datagram in any order.                     *)
THEOREM Inductive == Spec => []IInv
<1>1. IInv /\ [Next]_vars => IInv'
  <2> SUFFICES ASSUME IInv, [Next]_vars PROVE IInv'
    OBVIOUS
  <2>1. ASSUME NEW w \in Writer, NEW frame \in Frames, StartFrame(w, frame)
        PROVE  IInv'
    BY <2>1, StartFrameStep
  <2>2. ASSUME NEW w \in Writer, SetScreen(w)
        PROVE  IInv'
    BY <2>2, SetScreenStep
  <2>3. ASSUME NEW w \in Writer, EndFrame(w)
        PROVE  IInv'
    BY <2>3, EndFrameStep
  <2>4. ASSUME NEW e \in Endpoint, Send(e)
        PROVE  IInv'
    BY <2>4, SendStep
  <2>5. ASSUME NEW e \in Endpoint, NEW d \in net, Receive(e, d)
        PROVE  IInv'
    BY <2>5, ReceiveStep
  <2>6. CASE UNCHANGED vars
    BY <2>6, StutterStep
  <2> QED
    BY <2>1, <2>2, <2>3, <2>4, <2>5, <2>6 DEF Next
<1> QED
  BY <1>1, InitIInv, PTL DEF Spec

(* Channels, wire, lock, frames and histories keep their types (channel.rs, *)
(* link/types.rs).                                                          *)
THEOREM TypeCorrect == Spec => []TypeOK
<1>1. IInv => TypeOK
  BY DEF IInv
<1> QED
  BY <1>1, Inductive, PTL

(* The owner's grid is the host's of that number, for any grids, history    *)
(* and datagram size, whatever the network does (Channel::apply with        *)
(* RowGrid::apply_diff).                                                    *)
THEOREM GridsAgree == Spec => []GridIsPeers
<1>1. IInv => GridIsPeers
  BY Histories DEF IInv, Channels, Holds, GridIsPeers
<1> QED
  BY <1>1, Inductive, PTL

(* The owner is shown only whole frames, each one that was begun, in that   *)
(* order, however many tasks send them and wherever they give up            *)
(* (complete_screen_frame).                                                 *)
THEOREM FramesShownWhole == Spec => []FramesWholeInOrder
<1>1. IInv => FramesWholeInOrder
  <2> SUFFICES ASSUME IInv PROVE FramesWholeInOrder
    OBVIOUS
  <2>1. PICK of \in [DOMAIN grids -> 0..Len(started)] : SetFor(of)
    BY DEF IInv, GridsOfFrames
  <2>2. PICK at \in [DOMAIN shown -> DOMAIN grids] : ReadFrom(at)
    BY DEF IInv, ShownOfGrids
  <2>3. started \in Seq(Frames) /\ grids \in Seq(Grid) /\ Len(started) \in Nat
        /\ DOMAIN started = 1..Len(started)
    BY DEF IInv, TypeOK
  <2> DEFINE from == [i \in DOMAIN shown |-> of[at[i]]]
  <2>4. ASSUME NEW i \in DOMAIN shown
        PROVE  from[i] \in DOMAIN started /\ shown[i] = started[from[i]]
    <3> DEFINE m == at[i]
               frame == started[of[m]]
    <3>1. m \in DOMAIN grids /\ Complete(grids[m]) /\ shown[i] = Body(grids[m])
      BY <2>2 DEF ReadFrom
    <3>2. grids[m] # <<>>
      BY <3>1 DEF Complete
    <3>3. of[m] > 0 /\ Len(grids[m]) <= Len(frame) /\ grids[m] = Prefix(frame, Len(grids[m]))
      BY <2>1, <3>1, <3>2 DEF SetFor
    <3>4. of[m] \in 1..Len(started)
      BY <2>1, <2>3, <3>1, <3>3
    <3>5. frame \in Frames /\ Len(grids[m]) \in Nat
      <4>1. grids[m] \in Grid
        BY <2>3, <3>1
      <4> QED
        BY <2>3, <3>4, <4>1, ElementOfSeq DEF Grid
    <3>6. from[i] = of[m]
      OBVIOUS
    <3> HIDE DEF frame, m, from
    <3>7. Complete(Prefix(frame, Len(grids[m]))) /\ Body(grids[m]) = Body(Prefix(frame, Len(grids[m])))
      BY <3>1, <3>3
    <3>8. Body(grids[m]) = frame
      BY <3>3, <3>5, <3>7, CompletePrefix
    <3> QED
      BY <2>3, <3>1, <3>4, <3>6, <3>8 DEF frame
  <2>5. ASSUME NEW i \in DOMAIN shown, NEW j \in DOMAIN shown, i < j
        PROVE  from[i] < from[j]
    <3>1. at[i] \in DOMAIN grids /\ at[j] \in DOMAIN grids /\ at[i] < at[j] /\ Complete(grids[at[i]])
      BY <2>2, <2>5 DEF ReadFrom
    <3> QED
      BY <2>1, <3>1 DEF SetFor
  <2>6. from \in [DOMAIN shown -> DOMAIN started]
    BY <2>4
  <2> HIDE DEF from
  <2> QED
    BY <2>4, <2>5, <2>6 DEF FramesWholeInOrder, IsSubsequence
<1> QED
  BY <1>1, Inductive, PTL

(* However small a datagram, the task that has the lock never has a step    *)
(* refused as too large: it changes one row (LinkHandle::send_screen_frame, *)
(* Session::set_screen).                                                    *)
THEOREM StepsFit == Spec => []StepAlwaysFits
<1>1. IInv => StepAlwaysFits
  <2> SUFFICES ASSUME IInv, NEW w \in Writer, sending[w].done < Len(sending[w].frame)
               PROVE  StepFits(w)
    BY DEF StepAlwaysFits
  <2> DEFINE frame == sending[w].frame
             k == sending[w].done
             g == NextGrid(w)
             p == ch[Host].current
             changed == ChangedRows(g, p)
  <2>1. sending[w] # Idle
    BY DEF Idle
  <2>2. frame \in Frames /\ k \in Nat /\ Len(frame) \in Nat
    BY <2>1, UnderWay, FrameTyped DEF IInv
  <2>3. k + 1 <= Len(frame) /\ g = Prefix(frame, k + 1)
    BY <2>2 DEF NextGrid, Prefix
  <2>4. /\ DOMAIN g = 1..(k + 1)
        /\ \A i \in 1..(k + 1) : g[i] = [count |-> Len(frame), index |-> i, body |-> frame[i]]
    BY <2>2, <2>3, PrefixFacts
  <2> HIDE DEF g
  <2>5. changed \subseteq {k + 1}
    <3>1. CASE k = 0
      BY <2>4, <3>1 DEF ChangedRows
    <3>2. CASE k # 0
      <4>1. PICK of \in [DOMAIN grids -> 0..Len(started)] : SetFor(of)
        BY DEF IInv, GridsOfFrames
      <4>2. p = grids[Len(grids)]
        BY Histories DEF IInv, Channels, SendsFrom
      <4>3. p = Prefix(frame, k)
        BY <2>1, <3>2, <4>1, <4>2 DEF SetFor
      <4>4. /\ DOMAIN p = 1..k
            /\ \A i \in 1..k : p[i] = [count |-> Len(frame), index |-> i, body |-> frame[i]]
        BY <2>2, <2>3, <4>3, PrefixFacts
      <4> HIDE DEF p
      <4>5. \A i \in 1..(k + 1) : i = k + 1 \/ i \in 1..k
        BY <2>2
      <4> QED
        BY <2>4, <4>4, <4>5 DEF ChangedRows
    <3> QED
      BY <3>1, <3>2
  <2> HIDE DEF changed
  <2>6. Cardinality(changed) \in {0, 1}
    <3>1. changed = {} \/ changed = {k + 1}
      BY <2>5
    <3>2. CASE changed = {}
      BY <3>2, FS_EmptySet
    <3>3. CASE changed = {k + 1}
      <4>1. Cardinality({k + 1}) = 1
        BY FS_Singleton
      <4> QED
        BY <3>3, <4>1
    <3> QED
      BY <3>1, <3>2, <3>3
  <2>7. DOMAIN GridDiff(g, p).updates = changed
    BY DEF GridDiff, changed
  <2>8. Cardinality(changed) <= MaxChanged
    BY <2>6, MaxChangedAssumption
  <2> QED
    BY <2>7, <2>8 DEF StepFits, GridFits, g
<1> QED
  BY <1>1, Inductive, PTL
=============================================================================
