-------------------------- MODULE QueueLinkProofs --------------------------
(***************************************************************************)
(* Proofs about QueueLink, for every bound on queues, histories and        *)
(* datagrams.                                                              *)
(***************************************************************************)
EXTENDS QueueLink, SequenceTheorems, TLAPS

(* The messages of s numbered a + 1 to n.  Kept opaque outside the lemmas  *)
(* of this section.                                                        *)
Slice(s, a, n) == SubSeq(s, a + 1, n)

(* A slice is a sequence of the expected length. *)
LEMMA SliceFacts ==
    ASSUME NEW S, NEW s \in Seq(S), NEW a \in Nat, NEW n \in Nat, a <= n, n <= Len(s)
    PROVE  Slice(s, a, n) \in Seq(S) /\ Len(Slice(s, a, n)) = n - a
  BY DEF Slice

(* A slice of a slice is a slice. *)
LEMMA SliceOfSlice ==
    ASSUME NEW S, NEW s \in Seq(S), NEW b \in Nat, NEW k \in Nat, NEW n \in Nat,
           b <= k, k <= n, n <= Len(s)
    PROVE  Slice(Slice(s, b, n), k - b, n - b) = Slice(s, k, n)
  BY DEF Slice

(* Appending leaves the slices of what was there alone. *)
LEMMA SliceOfAppend ==
    ASSUME NEW S, NEW s \in Seq(S), NEW m \in S, NEW a \in Nat, NEW n \in Nat,
           n <= Len(s)
    PROVE  Slice(Append(s, m), a, n) = Slice(s, a, n)
  BY DEF Slice

(* Appending extends a slice that reaches the end. *)
LEMMA AppendToSlice ==
    ASSUME NEW S, NEW s \in Seq(S), NEW m \in S, NEW a \in Nat, a <= Len(s)
    PROVE  Slice(Append(s, m), a, Len(s) + 1) = Append(Slice(s, a, Len(s)), m)
<1> DEFINE t == SubSeq(s, a + 1, Len(s))
           u == SubSeq(Append(s, m), a + 1, Len(s) + 1)
<1>1. t \in Seq(S) /\ Len(t) = Len(s) - a
  OBVIOUS
<1>2. u \in Seq(S) /\ Len(u) = Len(s) - a + 1
  OBVIOUS
<1>3. \A i \in 1..(Len(s) - a) : t[i] = s[a + i] /\ u[i] = s[a + i]
  OBVIOUS
<1>4. u[Len(s) - a + 1] = m
  OBVIOUS
<1> HIDE DEF t, u
<1>5. Append(t, m) \in Seq(S) /\ Len(Append(t, m)) = Len(u)
  BY <1>1, <1>2
<1>6. \A i \in 1..Len(u) : u[i] = Append(t, m)[i]
  BY <1>1, <1>2, <1>3, <1>4
<1>7. u = Append(t, m)
  BY <1>2, <1>5, <1>6, SeqEqual
<1> QED
  BY <1>7 DEF t, u, Slice

(* x followed by y.  Opaque, like Slice. *)
Join(x, y) == x \o y

(* The length and the elements of two sequences joined. *)
LEMMA JoinFacts ==
    ASSUME NEW S, NEW x \in Seq(S), NEW y \in Seq(S)
    PROVE  /\ Join(x, y) \in Seq(S) /\ Len(Join(x, y)) = Len(x) + Len(y)
           /\ \A i \in 1..(Len(x) + Len(y)) :
                Join(x, y)[i] = IF i <= Len(x) THEN x[i] ELSE y[i - Len(x)]
  BY DEF Join

(* Joining is associative. *)
LEMMA Regroup ==
    ASSUME NEW S, NEW x \in Seq(S), NEW y \in Seq(S), NEW z \in Seq(S)
    PROVE  Join(x, Join(y, z)) = Join(Join(x, y), z)
<1> DEFINE a == Join(x, y)
           b == Join(y, z)
           l == Join(a, z)
           r == Join(x, b)
<1>0. Len(x) \in Nat /\ Len(y) \in Nat /\ Len(z) \in Nat
  OBVIOUS
<1>1. /\ a \in Seq(S) /\ Len(a) = Len(x) + Len(y)
      /\ \A i \in 1..(Len(x) + Len(y)) : a[i] = IF i <= Len(x) THEN x[i] ELSE y[i - Len(x)]
  BY JoinFacts
<1>2. /\ b \in Seq(S) /\ Len(b) = Len(y) + Len(z)
      /\ \A i \in 1..(Len(y) + Len(z)) : b[i] = IF i <= Len(y) THEN y[i] ELSE z[i - Len(y)]
  BY JoinFacts
<1> HIDE DEF a, b
<1>8. a \in Seq(S) /\ b \in Seq(S)
  BY <1>1, <1>2
<1>3. /\ l \in Seq(S) /\ Len(l) = Len(a) + Len(z)
      /\ \A i \in 1..(Len(a) + Len(z)) : l[i] = IF i <= Len(a) THEN a[i] ELSE z[i - Len(a)]
  BY <1>8, JoinFacts
<1>4. /\ r \in Seq(S) /\ Len(r) = Len(x) + Len(b)
      /\ \A i \in 1..(Len(x) + Len(b)) : r[i] = IF i <= Len(x) THEN x[i] ELSE b[i - Len(x)]
  BY <1>8, JoinFacts
<1> HIDE DEF l, r
<1>5. Len(l) = Len(x) + Len(y) + Len(z) /\ Len(r) = Len(x) + Len(y) + Len(z)
  BY <1>0, <1>1, <1>2, <1>3, <1>4
<1>6. ASSUME NEW i \in 1..Len(l)
      PROVE  l[i] = r[i]
  <2>0. i \in Nat /\ 1 <= i /\ i <= Len(x) + Len(y) + Len(z)
    BY <1>0, <1>5
  <2>1. CASE i <= Len(x)
    <3>1. l[i] = a[i] /\ a[i] = x[i]
      BY <1>0, <1>1, <1>3, <2>0, <2>1
    <3>2. r[i] = x[i]
      BY <1>0, <1>2, <1>4, <2>0, <2>1
    <3> QED
      BY <3>1, <3>2
  <2>2. CASE Len(x) < i /\ i <= Len(x) + Len(y)
    <3>1. l[i] = a[i] /\ a[i] = y[i - Len(x)]
      BY <1>0, <1>1, <1>3, <2>0, <2>2
    <3>2. r[i] = b[i - Len(x)]
      BY <1>0, <1>2, <1>4, <2>0, <2>2
    <3>3. i - Len(x) \in 1..(Len(y) + Len(z)) /\ i - Len(x) <= Len(y)
      BY <1>0, <2>0, <2>2
    <3>4. b[i - Len(x)] = y[i - Len(x)]
      BY <1>2, <3>3
    <3> QED
      BY <3>1, <3>2, <3>4
  <2>3. CASE Len(x) + Len(y) < i
    <3>1. l[i] = z[i - Len(a)] /\ i - Len(a) = i - Len(x) - Len(y)
      BY <1>0, <1>1, <1>3, <2>0, <2>3
    <3>2. r[i] = b[i - Len(x)]
      BY <1>0, <1>2, <1>4, <2>0, <2>3
    <3>3. i - Len(x) \in 1..(Len(y) + Len(z)) /\ ~(i - Len(x) <= Len(y))
      BY <1>0, <2>0, <2>3
    <3>4. b[i - Len(x)] = z[i - Len(x) - Len(y)]
      BY <1>2, <3>3
    <3> QED
      BY <3>1, <3>2, <3>4
  <2> QED
    BY <1>0, <2>0, <2>1, <2>2, <2>3
<1>7. l = r
  BY <1>3, <1>4, <1>5, <1>6, SeqEqual
<1> QED
  BY <1>7 DEF l, r, a, b

(* Two slices that meet join up. *)
LEMMA JoinSlices ==
    ASSUME NEW S, NEW s \in Seq(S), NEW k \in Nat, NEW n \in Nat,
           k <= n, n <= Len(s)
    PROVE  Join(Slice(s, 0, k), Slice(s, k, n)) = Slice(s, 0, n)
  BY DEF Slice, Join

-----------------------------------------------------------------------------
(* q is what the queue of messages s was when its number was n. *)
QueueAt(q, s, n) ==
    /\ Num(q) = n
    /\ n <= Len(s)
    /\ q.messages = Slice(s, q.base, n)

(* Pushing a message takes a queue to the next number of the longer log. *)
LEMMA PushAt ==
    ASSUME NEW q \in Queue, NEW s \in Seq(Message), NEW m \in Message,
           QueueAt(q, s, Len(s))
    PROVE  /\ Push(q, m) \in Queue
           /\ QueueAt(Push(q, m), Append(s, m), Len(s) + 1)
           /\ Push(q, m).base = q.base
<1>1. q.base \in Nat /\ q.messages \in Seq(Message) /\ q.base <= Len(s)
  BY DEF Queue, QueueAt, Num
<1>2. Slice(Append(s, m), q.base, Len(s) + 1) = Append(q.messages, m)
  BY <1>1, AppendToSlice DEF QueueAt
<1>3. Len(Append(q.messages, m)) = Len(q.messages) + 1 /\ Len(Append(s, m)) = Len(s) + 1
  BY <1>1
<1> QED
  BY <1>1, <1>2, <1>3 DEF Queue, Push, QueueAt, Num

(* A queue of a log is the same queue of the log grown longer. *)
LEMMA StaysAt ==
    ASSUME NEW q \in Queue, NEW s \in Seq(Message), NEW m \in Message,
           NEW n \in Nat, QueueAt(q, s, n)
    PROVE  QueueAt(q, Append(s, m), n)
<1>1. q.base \in Nat /\ n <= Len(s) /\ Len(Append(s, m)) = Len(s) + 1
  BY DEF Queue, QueueAt, Num
<1>2. Slice(Append(s, m), q.base, n) = Slice(s, q.base, n)
  BY <1>1, SliceOfAppend
<1> QED
  BY <1>1, <1>2 DEF QueueAt

(* The messages after k of a queue that holds them all. *)
LEMMA AfterAt ==
    ASSUME NEW q \in Queue, NEW s \in Seq(Message), NEW n \in Nat, NEW k \in Nat,
           QueueAt(q, s, n), q.base <= k, k <= n
    PROVE  MessagesAfter(q, k) = Slice(s, k, n)
<1>1. q.base \in Nat /\ q.messages = Slice(s, q.base, n) /\ n <= Len(s)
      /\ Len(q.messages) = n - q.base
  BY DEF Queue, QueueAt, Num
<1>2. Slice(Slice(s, q.base, n), k - q.base, n - q.base) = Slice(s, k, n)
  BY <1>1, SliceOfSlice
<1>3. MessagesAfter(q, k) = Slice(q.messages, k - q.base, n - q.base)
  BY <1>1 DEF MessagesAfter, Slice
<1> QED
  BY <1>1, <1>2, <1>3

(* Pruning frees messages up to k and leaves the number alone. *)
LEMMA PruneAt ==
    ASSUME NEW q \in Queue, NEW s \in Seq(Message), NEW n \in Nat, NEW k \in Nat,
           QueueAt(q, s, n)
    PROVE  /\ PruneThrough(q, k) \in Queue
           /\ QueueAt(PruneThrough(q, k), s, n)
           /\ q.base <= PruneThrough(q, k).base
           /\ PruneThrough(q, k).base <= q.base \/ PruneThrough(q, k).base <= k
<1>1. q.base \in Nat /\ Num(q) = n /\ n <= Len(s) /\ q.base <= n
  BY DEF Queue, QueueAt, Num
<1>2. CASE k <= q.base
  BY <1>1, <1>2 DEF PruneThrough
<1>3. CASE q.base < k
  <2> DEFINE last == IF k <= n THEN k ELSE n
  <2>1. last \in Nat /\ q.base <= last /\ last <= n /\ last <= k
    BY <1>1, <1>3
  <2>2. MessagesAfter(q, last) = Slice(s, last, n)
    BY <2>1, AfterAt
  <2>3. Slice(s, last, n) \in Seq(Message) /\ Len(Slice(s, last, n)) = n - last
    BY <1>1, <2>1, SliceFacts
  <2>4. PruneThrough(q, k) = [base |-> last, messages |-> Slice(s, last, n)]
    BY <1>1, <1>3, <2>2 DEF PruneThrough
  <2> HIDE DEF last
  <2> QED
    BY <1>1, <2>1, <2>3, <2>4 DEF Queue, QueueAt, Num
<1> QED
  BY <1>1, <1>2, <1>3

(* diff_from a state numbered k carries the messages after k. *)
LEMMA DiffAt ==
    ASSUME NEW q \in Queue, NEW s \in Seq(Message), NEW n \in Nat, NEW k \in Nat,
           NEW prev, Num(prev) = k,
           QueueAt(q, s, n), q.base <= k, k <= n
    PROVE  QueueDiff(q, prev) = Slice(s, k, n)
  BY AfterAt DEF QueueDiff

-----------------------------------------------------------------------------
(* states is the history of s from state a on. *)
ChainAt(states, a, s) ==
    \A i \in 1..Len(states) :
        /\ states[i].num = a + i - 1
        /\ states[i].state.base <= a
        /\ QueueAt(states[i].state, s, a + i - 1)

(* The sending half of channel c, whose application queued s. *)
SendsFrom(c, s) ==
    /\ c.current_num = Len(s)
    /\ QueueAt(c.current, s, c.current_num)
    /\ c.current.base <= c.assumed
    /\ c.assumed <= c.sent_num
    /\ c.sent_num <= c.current_num
    /\ Len(c.sent_states) = c.current_num - c.assumed + 1
    /\ ChainAt(c.sent_states, c.assumed, s)

(* The receiving half of channel c, whose peer queued s and whose          *)
(* application took t.                                                     *)
Holds(c, s, t) ==
    /\ c.received_num <= Len(s)
    /\ Num(c.received) = c.received_num
    /\ Join(t, c.received.messages) = Slice(s, 0, c.received_num)

(* An instruction sent at some time by channel c, which queued s. *)
Carries(ins, c, s) ==
    /\ ins.old <= c.assumed
    /\ ins.old <= ins.new /\ ins.new <= c.sent_num
    /\ ins.diff = Slice(s, ins.old, ins.new)
    /\ ins.ack <= c.received_num
    /\ ins.throwaway = ins.ack

(* The fields of a channel have their types. *)
LEMMA ChannelFields ==
    ASSUME NEW c \in ChannelState
    PROVE  /\ c.current \in Queue /\ c.current_num \in Nat
           /\ c.sent_states \in Seq(SentState) /\ c.assumed \in Nat
           /\ c.received \in Queue /\ c.received_num \in Nat /\ c.sent_num \in Nat
  BY DEF ChannelState

(* The fields of an instruction have their types. *)
LEMMA InstructionFields ==
    ASSUME NEW ins \in Instructions
    PROVE  /\ ins.old \in Nat /\ ins.new \in Nat /\ ins.ack \in Nat
           /\ ins.throwaway \in Nat /\ ins.diff \in Seq(Message)
  BY DEF Instructions

(* The fields of a queue have their types. *)
LEMMA QueueFields ==
    ASSUME NEW q \in Queue
    PROVE  q.base \in Nat /\ q.messages \in Seq(Message) /\ Num(q) \in Nat
  BY DEF Queue, Num

(* The history after one more message. *)
LEMMA ChainGrows ==
    ASSUME NEW states \in Seq(SentState), NEW a \in Nat, NEW s \in Seq(Message),
           NEW m \in Message, NEW q \in Queue, q.base <= a,
           Len(states) = Len(s) - a + 1, a <= Len(s),
           ChainAt(states, a, s), QueueAt(q, Append(s, m), Len(s) + 1)
    PROVE  LET more == Append(states, [num |-> Len(s) + 1, state |-> q])
           IN  /\ more \in Seq(SentState)
               /\ Len(more) = Len(states) + 1
               /\ ChainAt(more, a, Append(s, m))
<1> DEFINE last == [num |-> Len(s) + 1, state |-> q]
           more == Append(states, last)
<1>1. last \in SentState /\ last.num = Len(s) + 1 /\ last.state = q
  BY DEF SentState
<1> HIDE DEF last
<1>2. more \in Seq(SentState) /\ Len(more) = Len(states) + 1
      /\ more[Len(states) + 1] = last
      /\ \A i \in 1..Len(states) : more[i] = states[i]
  BY <1>1
<1> HIDE DEF more
<1>3. ASSUME NEW i \in 1..Len(more)
      PROVE  /\ more[i].num = a + i - 1
             /\ more[i].state.base <= a
             /\ QueueAt(more[i].state, Append(s, m), a + i - 1)
  <2>1. CASE i = Len(states) + 1
    BY <1>1, <1>2, <2>1
  <2>2. CASE i \in 1..Len(states)
    <3>0. states[i] \in SentState
      BY <2>2, ElementOfSeq
    <3>1. states[i].state \in Queue
      BY <3>0 DEF SentState
    <3>2. QueueAt(states[i].state, s, a + i - 1) /\ a + i - 1 \in Nat
          /\ states[i].num = a + i - 1 /\ states[i].state.base <= a
      BY <2>2 DEF ChainAt
    <3>3. QueueAt(states[i].state, Append(s, m), a + i - 1)
      BY <3>1, <3>2, StaysAt
    <3> QED
      BY <1>2, <2>2, <3>2, <3>3
  <2> QED
    BY <1>2, <2>1, <2>2
<1>4. ChainAt(more, a, Append(s, m))
  BY <1>3 DEF ChainAt
<1> QED
  BY <1>2, <1>4 DEF more, last

(* Channel::advance, queueing one message. *)
LEMMA AdvanceSends ==
    ASSUME NEW c \in ChannelState, NEW s \in Seq(Message), NEW m \in Message,
           SendsFrom(c, s)
    PROVE  LET d == C!Advance(c, Push(c.current, m))
           IN  /\ d \in ChannelState
               /\ SendsFrom(d, Append(s, m))
               /\ d.assumed = c.assumed /\ d.sent_num = c.sent_num
               /\ d.received = c.received /\ d.received_num = c.received_num
               /\ d.current.base = c.current.base
<1> DEFINE q == Push(c.current, m)
           more == Append(c.sent_states, [num |-> Len(s) + 1, state |-> q])
           d == C!Advance(c, q)
<1>0. /\ c.current \in Queue /\ c.assumed \in Nat /\ c.sent_num \in Nat
      /\ c.sent_states \in Seq(SentState) /\ c.current.base \in Nat
  BY ChannelFields, QueueFields
<1>1. c.current_num = Len(s) /\ QueueAt(c.current, s, Len(s)) /\ c.current.base <= c.assumed
      /\ c.assumed <= c.sent_num /\ c.sent_num <= Len(s)
      /\ Len(c.sent_states) = Len(s) - c.assumed + 1
      /\ ChainAt(c.sent_states, c.assumed, s)
  BY DEF SendsFrom
<1>2. q \in Queue /\ q.base = c.current.base /\ QueueAt(q, Append(s, m), Len(s) + 1)
  BY <1>0, <1>1, PushAt
<1> HIDE DEF q
<1>3. c.assumed <= Len(s) /\ q.base <= c.assumed
  BY <1>0, <1>1, <1>2
<1>4. more \in Seq(SentState) /\ Len(more) = Len(c.sent_states) + 1
      /\ ChainAt(more, c.assumed, Append(s, m))
  BY <1>0, <1>1, <1>2, <1>3, ChainGrows
<1>5. d = [c EXCEPT !.current = q, !.current_num = Len(s) + 1, !.sent_states = more]
  BY <1>1 DEF C!Advance
<1> HIDE DEF more, d
<1>6. d.current = q /\ d.current_num = Len(s) + 1 /\ d.sent_states = more
      /\ d.assumed = c.assumed /\ d.sent_num = c.sent_num
      /\ d.received = c.received /\ d.received_num = c.received_num
  BY <1>5 DEF ChannelState
<1>8. Len(Append(s, m)) = Len(s) + 1 /\ Len(s) + 1 \in Nat
  OBVIOUS
<1>7. d \in ChannelState
  BY <1>2, <1>4, <1>5, <1>8 DEF ChannelState
<1> DEFINE t == Append(s, m)
<1>10. t \in Seq(Message) /\ Len(t) = Len(s) + 1 /\ QueueAt(q, t, Len(s) + 1)
       /\ ChainAt(more, c.assumed, t)
  BY <1>2, <1>4, <1>8
<1> HIDE DEF t
<1>14. c.sent_num <= Len(t)
  BY <1>0, <1>1, <1>10
<1>15. Len(more) = Len(t) - c.assumed + 1
  <2>1. Len(more) = Len(c.sent_states) + 1
    BY <1>4
  <2>2. Len(c.sent_states) = Len(s) - c.assumed + 1
    BY <1>1
  <2>3. Len(t) = Len(s) + 1 /\ Len(s) \in Nat /\ c.assumed \in Nat
    BY <1>0, <1>10
  <2> QED
    BY <2>1, <2>2, <2>3
<1>11. d.current_num = Len(t)
  BY <1>6, <1>10
<1>13. QueueAt(q, t, d.current_num)
  BY <1>6, <1>10
<1>12. QueueAt(d.current, t, d.current_num) /\ ChainAt(d.sent_states, d.assumed, t)
  BY <1>6, <1>10, <1>13
<1>9. SendsFrom(d, t)
  BY <1>1, <1>3, <1>6, <1>11, <1>12, <1>14, <1>15 DEF SendsFrom
<1> QED
  BY <1>2, <1>6, <1>7, <1>9 DEF d, q, t

(* One state of the history. *)
LEMMA HistoryEntry ==
    ASSUME NEW c \in ChannelState, NEW s \in Seq(Message), SendsFrom(c, s),
           NEW i \in 1..Len(c.sent_states)
    PROVE  /\ c.sent_states[i].num = c.assumed + i - 1
           /\ c.sent_states[i].state \in Queue
           /\ c.sent_states[i].state.base <= c.assumed
           /\ QueueAt(c.sent_states[i].state, s, c.assumed + i - 1)
           /\ c.assumed + i - 1 \in Nat
           /\ c.assumed + i - 1 <= Len(s)
<1>1. c.sent_states \in Seq(SentState) /\ c.assumed \in Nat
  BY ChannelFields
<1>2. c.sent_states[i] \in SentState
  BY <1>1, ElementOfSeq
<1>3. c.sent_states[i].state \in Queue
  BY <1>2 DEF SentState
<1>4. /\ c.sent_states[i].num = c.assumed + i - 1
      /\ c.sent_states[i].state.base <= c.assumed
      /\ QueueAt(c.sent_states[i].state, s, c.assumed + i - 1)
  BY DEF SendsFrom, ChainAt
<1>5. c.assumed + i - 1 \in Nat
  BY <1>1
<1>6. c.assumed + i - 1 <= Len(s)
  BY <1>4 DEF QueueAt
<1> QED
  BY <1>3, <1>4, <1>5, <1>6

(* The state every diff starts from is numbered assumed. *)
LEMMA BaseNum ==
    ASSUME NEW c \in ChannelState, NEW s \in Seq(Message), SendsFrom(c, s)
    PROVE  Num(c.sent_states[1].state) = c.assumed /\ c.assumed <= Len(s)
<1>1. c.assumed \in Nat /\ c.sent_num \in Nat /\ Len(s) \in Nat
  BY ChannelFields
<1>2. c.assumed <= Len(s) /\ Len(c.sent_states) = Len(s) - c.assumed + 1
  BY <1>1 DEF SendsFrom
<1>3. 1 \in 1..Len(c.sent_states)
  BY <1>1, <1>2
<1>4. QueueAt(c.sent_states[1].state, s, c.assumed + 1 - 1)
  BY <1>3, HistoryEntry
<1> QED
  BY <1>1, <1>2, <1>4 DEF QueueAt

(* A diff up to state n of the history carries the messages after assumed. *)
LEMMA DiffCarries ==
    ASSUME NEW c \in ChannelState, NEW s \in Seq(Message), SendsFrom(c, s),
           NEW q \in Queue, NEW n \in Nat, c.assumed <= n, n <= Len(s),
           q.base <= c.assumed, QueueAt(q, s, n)
    PROVE  /\ C!DiffFromBase(c, q) = Slice(s, c.assumed, n)
           /\ C!InstructionWith(c, n, C!DiffFromBase(c, q)) \in Instructions
<1>1. c.assumed \in Nat /\ c.received_num \in Nat
  BY ChannelFields
<1>2. C!DiffFromBase(c, q) = Slice(s, c.assumed, n)
  BY <1>1, BaseNum, DiffAt DEF C!DiffFromBase
<1>3. Slice(s, c.assumed, n) \in Seq(Message)
  BY <1>1, SliceFacts
<1> QED
  BY <1>1, <1>2, <1>3 DEF C!InstructionWith, Instructions

(* The diff to state i of the history has i - 1 messages. *)
LEMMA DiffSize ==
    ASSUME NEW c \in ChannelState, NEW s \in Seq(Message), SendsFrom(c, s),
           NEW i \in 1..Len(c.sent_states)
    PROVE  QueueFits(C!DiffFromBase(c, c.sent_states[i].state)) <=> i - 1 <= MaxDiff
<1> DEFINE n == c.assumed + i - 1
           q == c.sent_states[i].state
<1>1. c.assumed \in Nat
  BY ChannelFields
<1>2. n \in Nat /\ n <= Len(s) /\ q \in Queue /\ q.base <= c.assumed /\ QueueAt(q, s, n)
  BY HistoryEntry
<1>3. c.assumed <= n /\ n - c.assumed = i - 1
  BY <1>1
<1> HIDE DEF n, q
<1>4. C!DiffFromBase(c, q) = Slice(s, c.assumed, n)
  BY <1>1, <1>2, <1>3, DiffCarries
<1>5. Len(Slice(s, c.assumed, n)) = i - 1
  BY <1>1, <1>2, <1>3, SliceFacts
<1>6. QueueFits(C!DiffFromBase(c, q)) <=> i - 1 <= MaxDiff
  BY <1>4, <1>5 DEF QueueFits
<1> QED
  BY <1>6 DEF q

(* When the whole backlog is too large, the walk through the history gets  *)
(* exactly MaxDiff messages far: at least one, so there is always          *)
(* something to send.                                                      *)
LEMMA ReachableStates ==
    ASSUME NEW c \in ChannelState, NEW s \in Seq(Message), SendsFrom(c, s),
           ~C!WholeFits(c)
    PROVE  C!Reachable(c) = 2..(MaxDiff + 1) /\ MaxDiff + 1 <= Len(c.sent_states)
<1>1. c.assumed \in Nat /\ c.current \in Queue /\ c.sent_num \in Nat
      /\ MaxDiff \in Nat /\ Len(s) \in Nat
  BY ChannelFields, LimitsAssumption
<1>2. QueueAt(c.current, s, Len(s)) /\ c.current.base <= c.assumed
      /\ Len(c.sent_states) = Len(s) - c.assumed + 1
  BY DEF SendsFrom
<1>3. c.assumed <= Len(s)
  BY BaseNum
<1>4. C!DiffFromBase(c, c.current) = Slice(s, c.assumed, Len(s))
  BY <1>1, <1>2, <1>3, DiffCarries
<1>5. Len(Slice(s, c.assumed, Len(s))) = Len(s) - c.assumed
  <2>1. Len(s) <= Len(s)
    BY <1>1
  <2> QED
    BY ONLY <1>1, <1>3, <2>1, s \in Seq(Message), SliceFacts
<1>6. Len(s) - c.assumed > MaxDiff
  BY <1>1, <1>4, <1>5 DEF C!WholeFits, QueueFits
<1>7. MaxDiff + 1 <= Len(c.sent_states) /\ Len(c.sent_states) \in Nat
  BY <1>1, <1>2, <1>6
<1>8. ASSUME NEW i \in 2..Len(c.sent_states)
      PROVE  C!Reaches(c, i) <=> i <= MaxDiff + 1
  <2>1. \A j \in 2..i : QueueFits(C!DiffFromBase(c, c.sent_states[j].state))
                          <=> j - 1 <= MaxDiff
    BY <1>7, DiffSize
  <2>2. C!Reaches(c, i) <=> \A j \in 2..i : j - 1 <= MaxDiff
    BY <2>1 DEF C!Reaches
  <2> QED
    BY <1>1, <1>7, <2>2
<1>9. C!Reachable(c) = 2..(MaxDiff + 1)
  BY <1>1, <1>7, <1>8 DEF C!Reachable
<1> QED
  BY <1>7, <1>9

(* instruction() never ends in DiffTooLarge. *)
LEMMA Sendable ==
    ASSUME NEW c \in ChannelState, NEW s \in Seq(Message), SendsFrom(c, s)
    PROVE  C!HasInstruction(c)
<1>1. CASE C!WholeFits(c)
  BY <1>1 DEF C!HasInstruction
<1>2. CASE ~C!WholeFits(c)
  <2>1. 2 \in 2..(MaxDiff + 1)
    BY LimitsAssumption
  <2> QED
    BY <1>2, <2>1, ReachableStates DEF C!HasInstruction
<1> QED
  BY <1>1, <1>2

(* Channel::instruction: whichever state it settles on, the diff is the    *)
(* messages from assumed up to it.                                         *)
LEMMA InstructionCarries ==
    ASSUME NEW c \in ChannelState, NEW s \in Seq(Message), SendsFrom(c, s)
    PROVE  LET ins == C!Instruction(c)
           IN  /\ ins \in Instructions
               /\ ins.old = c.assumed
               /\ c.assumed <= ins.new /\ ins.new <= c.current_num
               /\ ins.diff = Slice(s, c.assumed, ins.new)
               /\ ins.ack = c.received_num /\ ins.throwaway = c.received_num
<1>1. c.assumed \in Nat /\ c.current \in Queue /\ c.current_num = Len(s)
      /\ c.sent_states \in Seq(SentState) /\ c.sent_num \in Nat
  BY ChannelFields DEF SendsFrom
<1>2. QueueAt(c.current, s, Len(s)) /\ c.current.base <= c.assumed /\ c.assumed <= Len(s)
  BY <1>1, BaseNum DEF SendsFrom
<1>3. ASSUME NEW n \in Nat, NEW q \in Queue, c.assumed <= n, n <= Len(s),
             q.base <= c.assumed, QueueAt(q, s, n),
             C!Instruction(c) = C!InstructionWith(c, n, C!DiffFromBase(c, q))
      PROVE  LET ins == C!Instruction(c)
             IN  /\ ins \in Instructions
                 /\ ins.old = c.assumed
                 /\ c.assumed <= ins.new /\ ins.new <= c.current_num
                 /\ ins.diff = Slice(s, c.assumed, ins.new)
                 /\ ins.ack = c.received_num /\ ins.throwaway = c.received_num
  BY <1>1, <1>3, DiffCarries DEF C!InstructionWith
<1>4. CASE C!WholeFits(c)
  <2>1. C!Instruction(c) = C!InstructionWith(c, c.current_num, C!DiffFromBase(c, c.current))
    BY <1>4 DEF C!Instruction
  <2>2. Len(s) \in Nat
    OBVIOUS
  <2> QED
    BY <1>1, <1>2, <1>3, <2>1, <2>2
<1>5. CASE ~C!WholeFits(c)
  <2> DEFINE R == C!Reachable(c)
             furthest == CHOOSE i \in R : \A j \in R : j <= i
  <2>1. R = 2..(MaxDiff + 1) /\ MaxDiff + 1 <= Len(c.sent_states)
        /\ MaxDiff \in Nat \ {0} /\ Len(c.sent_states) \in Nat
    BY <1>1, <1>5, ReachableStates, LimitsAssumption
  <2>2. MaxDiff + 1 \in R /\ \A j \in R : j <= MaxDiff + 1
    BY <2>1
  <2>7. \E i \in R : \A j \in R : j <= i
    BY <2>2
  <2>8. furthest \in R
    BY <2>7, Zenon
  <2>3. furthest \in 1..Len(c.sent_states)
    BY <2>1, <2>8
  <2>4. C!Instruction(c) = C!InstructionWith(c, c.sent_states[furthest].num,
                              C!DiffFromBase(c, c.sent_states[furthest].state))
    BY <1>5 DEF C!Instruction
  <2> HIDE DEF furthest
  <2>5. c.assumed <= c.assumed + furthest - 1
    BY <1>1, <2>3
  <2>6. C!Instruction(c) = C!InstructionWith(c, c.assumed + furthest - 1,
                              C!DiffFromBase(c, c.sent_states[furthest].state))
    BY <2>3, <2>4, HistoryEntry
  <2> QED
    BY <1>3, <2>3, <2>5, <2>6, HistoryEntry
<1> QED
  BY <1>4, <1>5

-----------------------------------------------------------------------------
(* Dropping the states older than one in the history makes it the front. *)
LEMMA DropIsChain ==
    ASSUME NEW states \in Seq(SentState), NEW a \in Nat, NEW s \in Seq(Message),
           NEW k \in 1..Len(states), ChainAt(states, a, s)
    PROVE  LET rest == C!DropBefore(states, a + k - 1)
           IN  /\ rest \in Seq(SentState)
               /\ Len(rest) = Len(states) - k + 1
               /\ ChainAt(rest, a + k - 1, s)
<1> DEFINE ack == a + k - 1
           IsFront(i) == states[i].num >= ack /\ \A j \in 1..(i - 1) : states[j].num < ack
           rest == SubSeq(states, k, Len(states))
<1>1. \A i \in 1..Len(states) : states[i].num = a + i - 1
  BY DEF ChainAt
<1>2. k \in DOMAIN states /\ DOMAIN states = 1..Len(states)
  OBVIOUS
<1>11. k \in Nat /\ a \in Nat /\ Len(states) \in Nat /\ 1 <= k /\ k <= Len(states)
  OBVIOUS
<1>3. IsFront(k)
  <2>1. states[k].num = ack
    BY <1>1
  <2>2. ASSUME NEW j \in 1..(k - 1)
        PROVE  states[j].num < ack
    <3>1. j \in 1..Len(states)
      BY <1>11
    <3>2. states[j].num = a + j - 1
      BY <1>1, <3>1
    <3> QED
      BY <1>11, <3>2
  <2> QED
    BY <1>11, <2>1, <2>2
<1>4. ASSUME NEW i \in DOMAIN states, IsFront(i)
      PROVE  i = k
  <2>1. ~(i < k)
    BY <1>1, <1>2, <1>4
  <2>2. ~(k < i)
    BY <1>1, <1>2, <1>4
  <2> QED
    BY <1>2, <2>1, <2>2
<1> DEFINE front == CHOOSE i \in DOMAIN states : IsFront(i)
<1>5. front = k
  <2>1. \E i \in DOMAIN states : IsFront(i)
    BY <1>2, <1>3
  <2> HIDE DEF IsFront
  <2>2. front \in DOMAIN states /\ IsFront(front)
    BY <2>1, Zenon
  <2> QED
    BY <2>2, <1>4
<1>6. C!DropBefore(states, ack) = SubSeq(states, front, Len(states))
  BY DEF C!DropBefore
<1>7. C!DropBefore(states, ack) = rest
  BY <1>5, <1>6
<1>8. /\ rest \in Seq(SentState) /\ Len(rest) = Len(states) - k + 1
      /\ \A i \in 1..Len(rest) : rest[i] = states[k + i - 1] /\ k + i - 1 \in 1..Len(states)
  OBVIOUS
<1> HIDE DEF rest
<1>9. ASSUME NEW i \in 1..Len(rest)
      PROVE  /\ rest[i].num = ack + i - 1
             /\ rest[i].state.base <= ack
             /\ QueueAt(rest[i].state, s, ack + i - 1)
  <2> DEFINE j == k + i - 1
  <2>1. j \in 1..Len(states) /\ rest[i] = states[j]
    BY <1>8
  <2>2. a + j - 1 = ack + i - 1 /\ a <= ack
    BY <1>8
  <2>3. states[j] \in SentState
    BY <2>1, ElementOfSeq
  <2>4. states[j].state.base \in Nat
    BY <2>3, QueueFields DEF SentState
  <2>5. states[j].num = a + j - 1 /\ states[j].state.base <= a
        /\ QueueAt(states[j].state, s, a + j - 1)
    BY <2>1 DEF ChainAt
  <2>6. states[j].state.base <= ack
    BY <2>2, <2>4, <2>5
  <2>7. states[j].num = ack + i - 1 /\ QueueAt(states[j].state, s, ack + i - 1)
    BY ONLY <2>2, <2>5
  <2> HIDE DEF j, ack
  <2> QED
    BY <2>1, <2>6, <2>7
<1>10. ChainAt(rest, ack, s)
  BY <1>9 DEF ChainAt
<1> QED
  BY <1>7, <1>8, <1>10

(* Channel::acknowledge *)
LEMMA AcknowledgeSends ==
    ASSUME NEW c \in ChannelState, NEW s \in Seq(Message), NEW ack \in Nat,
           SendsFrom(c, s), ack <= c.sent_num
    PROVE  LET a == C!Acknowledge(c, ack)
           IN  /\ a \in ChannelState
               /\ SendsFrom(a, s)
               /\ c.assumed <= a.assumed
               /\ a.assumed = c.assumed \/ a.assumed = ack
               /\ a.current = c.current /\ a.current_num = c.current_num
               /\ a.sent_num = c.sent_num
               /\ a.received = c.received /\ a.received_num = c.received_num
<1> DEFINE a == C!Acknowledge(c, ack)
<1>1. /\ c.assumed \in Nat /\ c.sent_num \in Nat /\ Len(s) \in Nat
      /\ c.sent_states \in Seq(SentState) /\ c.current.base \in Nat
  BY ChannelFields, QueueFields
<1>2. CASE \/ ack <= c.assumed
           \/ \A i \in DOMAIN c.sent_states : c.sent_states[i].num # ack
  <2>1. a = c
    BY <1>2 DEF C!Acknowledge
  <2> QED
    BY <1>1, <2>1
<1>3. CASE /\ ack > c.assumed
           /\ ~ \A i \in DOMAIN c.sent_states : c.sent_states[i].num # ack
  <2> DEFINE rest == C!DropBefore(c.sent_states, ack)
             k == ack - c.assumed + 1
  <2>1. a = [c EXCEPT !.assumed = ack, !.sent_states = rest]
    BY <1>1, <1>3 DEF C!Acknowledge
  <2>2. /\ c.current_num = Len(s) /\ c.current.base <= c.assumed /\ c.sent_num <= Len(s)
        /\ Len(c.sent_states) = Len(s) - c.assumed + 1
        /\ ChainAt(c.sent_states, c.assumed, s) /\ QueueAt(c.current, s, c.current_num)
    BY DEF SendsFrom
  <2>3. k \in 1..Len(c.sent_states) /\ ack = c.assumed + k - 1
    <3>1. Len(c.sent_states) = Len(s) - c.assumed + 1 /\ c.sent_num <= Len(s)
      BY <2>2
    <3>2. c.assumed < ack /\ ack <= Len(s)
      BY <1>1, <1>3, <3>1
    <3>3. k \in Nat /\ 1 <= k /\ k <= Len(s) - c.assumed + 1 /\ ack = c.assumed + k - 1
      BY <1>1, <3>2
    <3> HIDE DEF k
    <3>4. Len(c.sent_states) \in Nat
      BY <1>1
    <3>5. k <= Len(c.sent_states)
      BY <3>1, <3>3
    <3> QED
      BY <3>3, <3>4, <3>5
  <2> HIDE DEF k
  <2>4. rest \in Seq(SentState) /\ Len(rest) = Len(c.sent_states) - k + 1
        /\ ChainAt(rest, ack, s)
    BY <1>1, <2>2, <2>3, DropIsChain
  <2>5. Len(rest) = Len(s) - ack + 1
    <3>1. Len(rest) = Len(c.sent_states) - k + 1
      BY <2>4
    <3>2. Len(c.sent_states) = Len(s) - c.assumed + 1
      BY <2>2
    <3> QED
      BY <1>1, <2>3, <3>1, <3>2
  <2> HIDE DEF rest, a
  <2>6. /\ a.assumed = ack /\ a.sent_states = rest
        /\ a.current = c.current /\ a.current_num = c.current_num
        /\ a.sent_num = c.sent_num
        /\ a.received = c.received /\ a.received_num = c.received_num
    BY <2>1 DEF ChannelState
  <2>7. a \in ChannelState
    BY <2>1, <2>4 DEF ChannelState
  <2>8. c.current.base <= ack
    BY <1>1, <1>3, <2>2
  <2>9. SendsFrom(a, s)
    BY <2>2, <2>4, <2>5, <2>6, <2>8 DEF SendsFrom
  <2> QED
    BY <1>1, <1>3, <2>6, <2>7, <2>9 DEF a
<1> QED
  BY <1>1, <1>2, <1>3

(* The sending half of Channel::apply. *)
LEMMA AcknowledgedSends ==
    ASSUME NEW c \in ChannelState, NEW s \in Seq(Message), NEW ins \in Instructions,
           SendsFrom(c, s), ins.ack <= c.sent_num, ins.throwaway = ins.ack
    PROVE  LET a == C!Acknowledged(c, ins)
           IN  /\ a \in ChannelState
               /\ SendsFrom(a, s)
               /\ c.assumed <= a.assumed
               /\ a.assumed = c.assumed \/ a.assumed = ins.ack
               /\ c.current.base <= a.current.base
               /\ a.sent_num = c.sent_num
               /\ a.received = c.received /\ a.received_num = c.received_num
<1> DEFINE b == C!Acknowledge(c, ins.ack)
           upto == IF ins.throwaway <= b.assumed THEN ins.throwaway ELSE b.assumed
           q == PruneThrough(b.current, upto)
           a == C!Acknowledged(c, ins)
<1>1. ins.ack \in Nat /\ ins.throwaway \in Nat
  BY InstructionFields
<1>2. /\ b \in ChannelState /\ SendsFrom(b, s) /\ c.assumed <= b.assumed
      /\ b.assumed = c.assumed \/ b.assumed = ins.ack
      /\ b.current = c.current /\ b.sent_num = c.sent_num
      /\ b.received = c.received /\ b.received_num = c.received_num
  BY <1>1, AcknowledgeSends
<1>3. a = [b EXCEPT !.current = q]
  BY DEF C!Acknowledged
<1> HIDE DEF b, a
<1>4. b.assumed \in Nat /\ b.current \in Queue /\ b.current_num \in Nat
  BY <1>2, ChannelFields
<1>5. upto \in Nat /\ upto <= b.assumed
  BY <1>1, <1>4
<1> HIDE DEF upto
<1>6. QueueAt(b.current, s, b.current_num) /\ b.current.base <= b.assumed
  BY <1>2 DEF SendsFrom
<1>7. q \in Queue /\ QueueAt(q, s, b.current_num) /\ b.current.base <= q.base
      /\ (q.base <= b.current.base \/ q.base <= upto)
  BY <1>4, <1>5, <1>6, PruneAt
<1> HIDE DEF q
<1>8. q.base <= b.assumed
  BY <1>4, <1>5, <1>6, <1>7, QueueFields
<1>9. /\ a.current = q /\ a.current_num = b.current_num /\ a.assumed = b.assumed
      /\ a.sent_num = b.sent_num /\ a.sent_states = b.sent_states
      /\ a.received = b.received /\ a.received_num = b.received_num
  BY <1>2, <1>3 DEF ChannelState
<1>10. a \in ChannelState
  BY <1>2, <1>3, <1>7 DEF ChannelState
<1>11. SendsFrom(a, s)
  BY <1>2, <1>7, <1>8, <1>9 DEF SendsFrom
<1> QED
  BY <1>2, <1>7, <1>9, <1>10, <1>11 DEF a

(* The receiving half of Channel::apply: the diff that matches is exactly  *)
(* what is missing, so the messages stay the peer's in order.              *)
LEMMA ApplyDiffHolds ==
    ASSUME NEW c \in ChannelState, NEW r \in Seq(Message), NEW t \in Seq(Message),
           NEW ins \in Instructions, Holds(c, r, t),
           ins.old <= ins.new, ins.new <= Len(r),
           ins.diff = Slice(r, ins.old, ins.new), C!Matches(c, ins)
    PROVE  LET q == QueueApply(c.received, ins.diff)
           IN  /\ q \in Queue
               /\ Num(q) = ins.new
               /\ Join(t, q.messages) = Slice(r, 0, ins.new)
               /\ c.received_num <= ins.new
<1> DEFINE old == c.received.messages
           q == QueueApply(c.received, ins.diff)
<1>1. /\ ins.old \in Nat /\ ins.new \in Nat /\ ins.diff \in Seq(Message)
      /\ c.received_num \in Nat /\ c.received \in Queue
      /\ old \in Seq(Message) /\ c.received.base \in Nat
  BY ChannelFields, InstructionFields, QueueFields
<1>2. ins.old = c.received_num
  BY DEF C!Matches
<1>3. Len(ins.diff) = ins.new - c.received_num
  BY <1>1, <1>2, SliceFacts
<1>4. c.received.base + Len(old) = c.received_num /\ Join(t, old) = Slice(r, 0, c.received_num)
  BY DEF Holds, Num
<1> HIDE DEF old
<1>5. Join(old, ins.diff) \in Seq(Message) /\ Len(Join(old, ins.diff)) = Len(old) + Len(ins.diff)
  BY <1>1, JoinFacts
<1>6. Join(t, Join(old, ins.diff)) = Join(Join(t, old), ins.diff)
  BY <1>1, Regroup
<1>7. Join(Slice(r, 0, c.received_num), Slice(r, c.received_num, ins.new)) = Slice(r, 0, ins.new)
  BY <1>1, <1>2, JoinSlices
<1>8. Join(t, Join(old, ins.diff)) = Slice(r, 0, ins.new)
  BY <1>2, <1>4, <1>6, <1>7
<1>9. q = [base |-> c.received.base, messages |-> Join(old, ins.diff)]
  BY DEF QueueApply, old, Join
<1> HIDE DEF q
<1>10. q \in Queue /\ q.messages = Join(old, ins.diff) /\ q.base = c.received.base
  BY <1>1, <1>5, <1>9 DEF Queue
<1>11. Num(q) = ins.new
  <2>1. Num(q) = c.received.base + (Len(old) + Len(ins.diff))
    BY <1>5, <1>10 DEF Num
  <2>2. Len(old) \in Nat /\ Len(ins.diff) \in Nat
    BY <1>1
  <2> QED
    BY <1>1, <1>3, <1>4, <2>1, <2>2
<1> QED
  BY <1>1, <1>2, <1>8, <1>10, <1>11 DEF q

(* Channel::apply, both halves. *)
LEMMA ApplyKeeps ==
    ASSUME NEW c \in ChannelState, NEW s \in Seq(Message), NEW r \in Seq(Message),
           NEW t \in Seq(Message), NEW ins \in Instructions,
           SendsFrom(c, s), Holds(c, r, t), ins.ack <= c.sent_num,
           ins.throwaway = ins.ack, ins.old <= ins.new, ins.new <= Len(r),
           ins.diff = Slice(r, ins.old, ins.new)
    PROVE  LET d == C!Apply(c, ins)
           IN  /\ d \in ChannelState
               /\ SendsFrom(d, s) /\ Holds(d, r, t)
               /\ c.assumed <= d.assumed
               /\ d.assumed = c.assumed \/ d.assumed = ins.ack
               /\ c.current.base <= d.current.base
               /\ d.sent_num = c.sent_num
               /\ c.received_num <= d.received_num
               /\ d.received_num = c.received_num \/ d.received_num = ins.new
<1> DEFINE a == C!Acknowledged(c, ins)
           q == QueueApply(c.received, ins.diff)
           d == C!Apply(c, ins)
<1>1. /\ a \in ChannelState /\ SendsFrom(a, s) /\ c.assumed <= a.assumed
      /\ a.assumed = c.assumed \/ a.assumed = ins.ack
      /\ c.current.base <= a.current.base /\ a.sent_num = c.sent_num
      /\ a.received = c.received /\ a.received_num = c.received_num
  BY AcknowledgedSends
<1>2. c.received_num \in Nat /\ ins.new \in Nat
  BY ChannelFields, InstructionFields
<1>3. CASE C!Matches(c, ins) /\ QueueAccepts(c.received, ins.diff)
  <2>1. d = [a EXCEPT !.received = q, !.received_num = ins.new]
    BY <1>3 DEF C!Apply
  <2>2. q \in Queue /\ Num(q) = ins.new /\ Join(t, q.messages) = Slice(r, 0, ins.new)
        /\ c.received_num <= ins.new
    BY <1>3, ApplyDiffHolds
  <2> HIDE DEF a, q, d
  <2>3. /\ d.received = q /\ d.received_num = ins.new
        /\ d.current = a.current /\ d.current_num = a.current_num
        /\ d.assumed = a.assumed /\ d.sent_num = a.sent_num
        /\ d.sent_states = a.sent_states
    BY <1>1, <2>1 DEF ChannelState
  <2>4. d \in ChannelState
    BY <1>1, <1>2, <2>1, <2>2 DEF ChannelState
  <2>5. SendsFrom(d, s)
    BY <1>1, <2>3 DEF SendsFrom
  <2>6. Holds(d, r, t)
    BY <2>2, <2>3 DEF Holds
  <2> QED
    BY <1>1, <2>2, <2>3, <2>4, <2>5, <2>6 DEF d
<1>4. CASE ~(C!Matches(c, ins) /\ QueueAccepts(c.received, ins.diff))
  <2>1. d = a
    BY <1>4 DEF C!Apply
  <2> HIDE DEF a, d
  <2>2. Holds(a, r, t)
    BY <1>1 DEF Holds
  <2> QED
    BY <1>1, <1>2, <2>1, <2>2 DEF d
<1> QED
  BY <1>3, <1>4

(* Session::build: sent_num after sending an instruction. *)
LEMMA NoteSentKeeps ==
    ASSUME NEW c \in ChannelState, NEW s \in Seq(Message), NEW ins \in Instructions,
           SendsFrom(c, s), ins.new <= c.current_num
    PROVE  LET d == C!NoteSent(c, ins)
           IN  /\ d \in ChannelState /\ SendsFrom(d, s)
               /\ c.sent_num <= d.sent_num /\ ins.new <= d.sent_num
               /\ d.assumed = c.assumed /\ d.current = c.current
               /\ d.received = c.received /\ d.received_num = c.received_num
<1> DEFINE n == IF ins.new > c.sent_num THEN ins.new ELSE c.sent_num
           d == C!NoteSent(c, ins)
<1>1. c.sent_num \in Nat /\ ins.new \in Nat /\ c.current_num \in Nat /\ c.assumed \in Nat
  BY ChannelFields, InstructionFields
<1>2. c.assumed <= c.sent_num /\ c.sent_num <= c.current_num
  BY DEF SendsFrom
<1>3. n \in Nat /\ c.sent_num <= n /\ ins.new <= n /\ n <= c.current_num /\ c.assumed <= n
  BY <1>1, <1>2
<1>4. d = [c EXCEPT !.sent_num = n]
  BY DEF C!NoteSent
<1> HIDE DEF n, d
<1>5. /\ d.sent_num = n /\ d.assumed = c.assumed /\ d.current = c.current
      /\ d.current_num = c.current_num /\ d.sent_states = c.sent_states
      /\ d.received = c.received /\ d.received_num = c.received_num
  BY <1>4 DEF ChannelState
<1>6. d \in ChannelState
  BY <1>3, <1>4 DEF ChannelState
<1>7. SendsFrom(d, s)
  BY <1>3, <1>5 DEF SendsFrom
<1> QED
  BY <1>3, <1>5, <1>6, <1>7 DEF d

-----------------------------------------------------------------------------
(* The inductive invariant.  InOrderOnce alone is not inductive: a diff    *)
(* says nothing of where its messages belong, so it must also be known     *)
(* that every instruction still in the network carries the slice its       *)
(* numbers promise (Wire), that the history a sender diffs from is the     *)
(* history of its log (Sender), and that an endpoint never believes its    *)
(* peer to be further than it is (Agree).                                  *)
Sender == \A e \in Endpoint : SendsFrom(ch[e], log[e])

Receiver == \A e \in Endpoint : Holds(ch[e], log[Peer(e)], taken[e])

Agree ==
    \A e \in Endpoint :
        /\ ch[e].assumed <= ch[Peer(e)].received_num
        /\ ch[Peer(e)].received_num <= ch[e].sent_num

Wire == \A d \in net : Carries(d.ins, ch[d.src], log[d.src])

IInv == TypeOK /\ Sender /\ Receiver /\ Agree /\ Wire

(* An instruction stays good as its sender moves on. *)
LEMMA CarriesStays ==
    ASSUME NEW ins \in Instructions, NEW c \in ChannelState, NEW d \in ChannelState,
           NEW s, Carries(ins, c, s), c.assumed <= d.assumed,
           c.sent_num <= d.sent_num, c.received_num <= d.received_num
    PROVE  Carries(ins, d, s)
  BY ChannelFields, InstructionFields DEF Carries

(* ... and as its application queues more. *)
LEMMA CarriesGrows ==
    ASSUME NEW ins \in Instructions, NEW c \in ChannelState,
           NEW s \in Seq(Message), NEW m \in Message,
           Carries(ins, c, s), SendsFrom(c, s)
    PROVE  Carries(ins, c, Append(s, m))
<1>1. ins.old \in Nat /\ ins.new \in Nat /\ ins.new <= Len(s)
  BY ChannelFields, InstructionFields DEF Carries, SendsFrom
<1>2. Slice(Append(s, m), ins.old, ins.new) = Slice(s, ins.old, ins.new)
  BY <1>1, SliceOfAppend
<1> QED
  BY <1>2 DEF Carries

(* What has been received stays right as the peer queues more. *)
LEMMA HoldsGrows ==
    ASSUME NEW c \in ChannelState, NEW s \in Seq(Message), NEW m \in Message,
           NEW t, Holds(c, s, t)
    PROVE  Holds(c, Append(s, m), t)
<1>1. c.received_num \in Nat /\ c.received_num <= Len(s) /\ Len(Append(s, m)) = Len(s) + 1
  BY ChannelFields DEF Holds
<1>2. Slice(Append(s, m), 0, c.received_num) = Slice(s, 0, c.received_num)
  BY <1>1, SliceOfAppend
<1>3. c.received_num <= Len(Append(s, m))
  BY <1>1
<1> QED
  BY <1>2, <1>3 DEF Holds

(* The two endpoints are each other's peer. *)
LEMMA Peers ==
    ASSUME NEW e \in Endpoint
    PROVE  /\ Peer(e) \in Endpoint /\ Peer(e) # e /\ Peer(Peer(e)) = e
           /\ Endpoint = {e, Peer(e)}
  BY EndpointsAssumption DEF Endpoint, Peer

(* A step of endpoint e: what has to hold of its new channel, of the       *)
(* unchanged channel of its peer and of the wire.                          *)
LEMMA StepOf ==
    ASSUME TypeOK, NEW e \in Endpoint, NEW c \in ChannelState,
           ch' = [ch EXCEPT ![e] = c],
           net' \subseteq [src : Endpoint, ins : Instructions],
           log' \in [Endpoint -> Seq(Message)], taken' \in [Endpoint -> Seq(Message)],
           SendsFrom(c, log'[e]), SendsFrom(ch[Peer(e)], log'[Peer(e)]),
           Holds(c, log'[Peer(e)], taken'[e]),
           Holds(ch[Peer(e)], log'[e], taken'[Peer(e)]),
           c.assumed <= ch[Peer(e)].received_num,
           ch[Peer(e)].received_num <= c.sent_num,
           ch[Peer(e)].assumed <= c.received_num,
           c.received_num <= ch[Peer(e)].sent_num,
           \A d \in net' : d.src = e => Carries(d.ins, c, log'[e]),
           \A d \in net' : d.src = Peer(e) => Carries(d.ins, ch[Peer(e)], log'[Peer(e)])
    PROVE  IInv'
<1> DEFINE p == Peer(e)
<1>0. p \in Endpoint /\ p # e /\ Peer(p) = e /\ Endpoint = {e, p}
  BY Peers
<1> HIDE DEF p
<1>1. ch \in [Endpoint -> ChannelState]
  BY DEF TypeOK
<1>2. ch' \in [Endpoint -> ChannelState] /\ ch'[e] = c /\ ch'[p] = ch[p]
  BY <1>0, <1>1
<1>3. TypeOK'
  BY <1>2 DEF TypeOK
<1>4. Sender'
  BY <1>0, <1>2 DEF Sender, p
<1>5. Receiver'
  BY <1>0, <1>2 DEF Receiver, p
<1>6. Agree'
  BY <1>0, <1>2 DEF Agree, p
<1>7. Wire'
  <2> SUFFICES ASSUME NEW d \in net'
               PROVE  Carries(d.ins, ch'[d.src], log'[d.src])
    BY DEF Wire
  <2>1. d.src = e \/ d.src = p
    BY <1>0
  <2> QED
    BY <1>2, <2>1 DEF p
<1> QED
  BY <1>3, <1>4, <1>5, <1>6, <1>7 DEF IInv

(* What the invariant says of endpoint e and its peer. *)
LEMMA Unpacked ==
    ASSUME IInv, NEW e \in Endpoint
    PROVE  /\ ch \in [Endpoint -> ChannelState]
           /\ log \in [Endpoint -> Seq(Message)] /\ taken \in [Endpoint -> Seq(Message)]
           /\ ch[e] \in ChannelState /\ log[e] \in Seq(Message)
           /\ taken[e] \in Seq(Message)
           /\ SendsFrom(ch[e], log[e])
           /\ Holds(ch[e], log[Peer(e)], taken[e])
           /\ ch[e].assumed <= ch[Peer(e)].received_num
           /\ ch[Peer(e)].received_num <= ch[e].sent_num
           /\ \A d \in net : d.src = e => Carries(d.ins, ch[e], log[e])
           /\ \A d \in net : d.ins \in Instructions /\ d.src \in Endpoint
<1>1. ch \in [Endpoint -> ChannelState] /\ log \in [Endpoint -> Seq(Message)]
      /\ taken \in [Endpoint -> Seq(Message)]
  BY DEF IInv, TypeOK
<1>2. \A d \in net : d.ins \in Instructions /\ d.src \in Endpoint
  BY DEF IInv, TypeOK
<1>3. SendsFrom(ch[e], log[e]) /\ Holds(ch[e], log[Peer(e)], taken[e])
      /\ ch[e].assumed <= ch[Peer(e)].received_num
      /\ ch[Peer(e)].received_num <= ch[e].sent_num
  BY DEF IInv, Sender, Receiver, Agree
<1>4. \A d \in net : d.src = e => Carries(d.ins, ch[e], log[e])
  BY DEF IInv, Wire
<1> QED
  BY <1>1, <1>2, <1>3, <1>4

(* Queueing a message preserves the invariant. *)
LEMMA QueueMessageKeeps ==
    ASSUME IInv, NEW e \in Endpoint, NEW m \in Message, QueueMessage(e, m)
    PROVE  IInv'
<1> DEFINE p == Peer(e)
           c == C!Advance(ch[e], Push(ch[e].current, m))
           s == Append(log[e], m)
<1>0. p \in Endpoint /\ p # e /\ Peer(p) = e
  BY Peers
<1>1. /\ ch' = [ch EXCEPT ![e] = c] /\ log' = [log EXCEPT ![e] = s]
      /\ net' = net /\ taken' = taken
  BY DEF QueueMessage
<1>2. /\ c \in ChannelState /\ SendsFrom(c, s)
      /\ c.assumed = ch[e].assumed /\ c.sent_num = ch[e].sent_num
      /\ c.received = ch[e].received /\ c.received_num = ch[e].received_num
  BY Unpacked, AdvanceSends
<1>3. s \in Seq(Message)
  BY Unpacked
<1>4. Holds(ch[p], s, taken[p])
  BY <1>0, Unpacked, HoldsGrows
<1>5. \A d \in net : d.src = e => Carries(d.ins, ch[e], s)
  BY Unpacked, CarriesGrows
<1> HIDE DEF c, s
<1>6. log' \in [Endpoint -> Seq(Message)] /\ log'[e] = s /\ log'[p] = log[p]
  BY <1>0, <1>1, <1>3, Unpacked
<1>7. \A d \in net' : d.src = e => Carries(d.ins, c, log'[e])
  <2> SUFFICES ASSUME NEW d \in net, d.src = e
               PROVE  Carries(d.ins, c, s)
    BY <1>1, <1>6
  <2>1. Carries(d.ins, ch[e], s)
    BY <1>5
  <2> QED
    BY <1>2, <2>1 DEF Carries
<1>8. Holds(c, log'[p], taken'[e])
  BY <1>1, <1>2, <1>6, Unpacked DEF Holds, p
<1>9. TypeOK /\ net' \subseteq [src : Endpoint, ins : Instructions]
  BY <1>1 DEF IInv, TypeOK
<1>10. SendsFrom(ch[p], log[p]) /\ ch[p].assumed <= ch[e].received_num
       /\ ch[e].received_num <= ch[p].sent_num
       /\ \A d \in net : d.src = p => Carries(d.ins, ch[p], log[p])
  BY <1>0, Unpacked
<1>11. ch[e].assumed <= ch[p].received_num /\ ch[p].received_num <= ch[e].sent_num
  BY Unpacked
<1>12. taken' \in [Endpoint -> Seq(Message)]
  BY <1>1, Unpacked
<1> QED
  BY <1>1, <1>2, <1>4, <1>6, <1>7, <1>8, <1>9, <1>10, <1>11, <1>12, StepOf DEF p

(* Sending preserves the invariant. *)
LEMMA SendKeeps ==
    ASSUME IInv, NEW e \in Endpoint, Send(e)
    PROVE  IInv'
<1> DEFINE p == Peer(e)
           ins == C!Instruction(ch[e])
           c == C!NoteSent(ch[e], ins)
           new == [src |-> e, ins |-> ins]
<1>0. p \in Endpoint /\ p # e /\ Peer(p) = e
  BY Peers
<1>1. /\ ch' = [ch EXCEPT ![e] = c] /\ net' = net \cup {new}
      /\ log' = log /\ taken' = taken
  BY DEF Send
<1>2. /\ ins \in Instructions /\ ins.old = ch[e].assumed
      /\ ch[e].assumed <= ins.new /\ ins.new <= ch[e].current_num
      /\ ins.diff = Slice(log[e], ch[e].assumed, ins.new)
      /\ ins.ack = ch[e].received_num /\ ins.throwaway = ch[e].received_num
  BY Unpacked, InstructionCarries
<1> HIDE DEF ins
<1>3. /\ c \in ChannelState /\ SendsFrom(c, log[e])
      /\ ch[e].sent_num <= c.sent_num /\ ins.new <= c.sent_num
      /\ c.assumed = ch[e].assumed /\ c.current = ch[e].current
      /\ c.received = ch[e].received /\ c.received_num = ch[e].received_num
  BY <1>2, Unpacked, NoteSentKeeps
<1> HIDE DEF c
<1>4. /\ ch[e] \in ChannelState
      /\ ch[e].assumed \in Nat /\ ch[e].received_num \in Nat /\ c.sent_num \in Nat
      /\ ch[e].sent_num \in Nat /\ ch[p].received_num \in Nat
  BY <1>0, <1>3, Unpacked, ChannelFields
<1>5. Carries(ins, c, log[e])
  BY <1>2, <1>3, <1>4 DEF Carries
<1>6. new.src = e /\ new.ins = ins /\ new \in [src : Endpoint, ins : Instructions]
  BY <1>2
<1> HIDE DEF new
<1>7. \A d \in net' : d.src = e => Carries(d.ins, c, log'[e])
  <2> SUFFICES ASSUME NEW d \in net', d.src = e
               PROVE  Carries(d.ins, c, log[e])
    BY <1>1
  <2>1. CASE d = new
    BY <1>5, <1>6, <2>1
  <2>2. CASE d \in net
    <3>1. Carries(d.ins, ch[e], log[e]) /\ d.ins \in Instructions
      BY <2>2, Unpacked
    <3>2. ch[e].assumed <= c.assumed /\ ch[e].received_num <= c.received_num
      BY <1>3, <1>4
    <3> QED
      BY <1>3, <1>4, <3>1, <3>2, CarriesStays
  <2> QED
    BY <1>1, <2>1, <2>2
<1>8. \A d \in net' : d.src = p => Carries(d.ins, ch[p], log'[p])
  BY <1>0, <1>1, <1>6, Unpacked
<1>9. TypeOK /\ net' \subseteq [src : Endpoint, ins : Instructions]
  BY <1>1, <1>6 DEF IInv, TypeOK
<1>10. /\ SendsFrom(ch[p], log[p]) /\ Holds(ch[p], log[e], taken[p])
       /\ ch[p].assumed <= ch[e].received_num /\ ch[e].received_num <= ch[p].sent_num
  BY <1>0, Unpacked
<1>11. ch[e].assumed <= ch[p].received_num /\ ch[p].received_num <= c.sent_num
  BY <1>3, <1>4, Unpacked
<1>12. taken' \in [Endpoint -> Seq(Message)] /\ log' \in [Endpoint -> Seq(Message)]
  BY <1>1, Unpacked
<1>13. Holds(c, log[p], taken[e])
  BY <1>3, Unpacked DEF Holds, p
<1> QED
  BY <1>1, <1>3, <1>7, <1>8, <1>9, <1>10, <1>11, <1>12, <1>13, StepOf DEF p

(* Receiving any datagram ever sent preserves the invariant. *)
LEMMA ReceiveKeeps ==
    ASSUME IInv, NEW e \in Endpoint, NEW d \in net, Receive(e, d)
    PROVE  /\ IInv'
           /\ ch[e].received_num <= ch'[e].received_num
           /\ ch[e].current.base <= ch'[e].current.base
<1> DEFINE p == Peer(e)
           ins == d.ins
           c == C!Apply(ch[e], ins)
<1>0. p \in Endpoint /\ p # e /\ Peer(p) = e
  BY Peers
<1>1. d.src = p /\ ch' = [ch EXCEPT ![e] = c] /\ UNCHANGED <<net, log, taken>>
  BY DEF Receive
<1>2. ins \in Instructions /\ Carries(ins, ch[p], log[p])
  BY <1>0, <1>1, Unpacked
<1>3. /\ ch[e] \in ChannelState /\ ch[p] \in ChannelState
      /\ log[e] \in Seq(Message) /\ log[p] \in Seq(Message) /\ taken[e] \in Seq(Message)
      /\ SendsFrom(ch[e], log[e]) /\ SendsFrom(ch[p], log[p])
      /\ Holds(ch[e], log[p], taken[e]) /\ Holds(ch[p], log[e], taken[p])
      /\ ch[e].assumed <= ch[p].received_num /\ ch[p].received_num <= ch[e].sent_num
      /\ ch[p].assumed <= ch[e].received_num /\ ch[e].received_num <= ch[p].sent_num
  BY <1>0, Unpacked
<1> HIDE DEF ins
<1>4. /\ ins.ack \in Nat /\ ins.new \in Nat /\ ins.old \in Nat
      /\ ch[e].sent_num \in Nat /\ ch[p].sent_num \in Nat
      /\ ch[e].received_num \in Nat /\ ch[p].received_num \in Nat
      /\ ch[p].assumed \in Nat /\ ch[p].current_num \in Nat
  BY <1>2, <1>3, ChannelFields, InstructionFields
<1>5. /\ ins.throwaway = ins.ack /\ ins.old <= ins.new /\ ins.new <= ch[p].sent_num
      /\ ins.diff = Slice(log[p], ins.old, ins.new) /\ ins.ack <= ch[p].received_num
  BY <1>2 DEF Carries
<1>6. ch[p].sent_num <= Len(log[p]) /\ Len(log[p]) \in Nat
  BY <1>3 DEF SendsFrom
<1>7. ins.ack <= ch[e].sent_num /\ ins.new <= Len(log[p])
  BY <1>3, <1>4, <1>5, <1>6
<1>8. /\ c \in ChannelState /\ SendsFrom(c, log[e]) /\ Holds(c, log[p], taken[e])
      /\ ch[e].assumed <= c.assumed
      /\ c.assumed = ch[e].assumed \/ c.assumed = ins.ack
      /\ ch[e].current.base <= c.current.base
      /\ c.sent_num = ch[e].sent_num
      /\ ch[e].received_num <= c.received_num
      /\ c.received_num = ch[e].received_num \/ c.received_num = ins.new
  BY <1>2, <1>3, <1>5, <1>7, ApplyKeeps
<1> HIDE DEF c
<1>9. c.assumed <= ch[p].received_num /\ ch[p].received_num <= c.sent_num
  BY <1>3, <1>5, <1>8
<1>10. ch[p].assumed <= c.received_num /\ c.received_num <= ch[p].sent_num
  BY <1>3, <1>4, <1>5, <1>8
<1>11. \A x \in net' : x.src = e => Carries(x.ins, c, log'[e])
  <2> SUFFICES ASSUME NEW x \in net, x.src = e
               PROVE  Carries(x.ins, c, log[e])
    BY <1>1
  <2>1. Carries(x.ins, ch[e], log[e]) /\ x.ins \in Instructions
    BY Unpacked
  <2>2. ch[e].sent_num <= c.sent_num
    BY <1>4, <1>8
  <2> QED
    BY <1>3, <1>8, <2>1, <2>2, CarriesStays
<1>12. \A x \in net' : x.src = p => Carries(x.ins, ch[p], log'[p])
  BY <1>0, <1>1, Unpacked
<1>13. /\ TypeOK /\ net' \subseteq [src : Endpoint, ins : Instructions]
       /\ log' \in [Endpoint -> Seq(Message)] /\ taken' \in [Endpoint -> Seq(Message)]
  BY <1>1 DEF IInv, TypeOK
<1>14. IInv'
  BY <1>1, <1>3, <1>8, <1>9, <1>10, <1>11, <1>12, <1>13, StepOf DEF p
<1>15. ch'[e] = c
  BY <1>1, Unpacked
<1> QED
  BY <1>8, <1>14, <1>15

(* MessageQueue::drain hands up everything held and keeps the count. *)
LEMMA DrainHolds ==
    ASSUME NEW c \in ChannelState, NEW r \in Seq(Message), NEW t \in Seq(Message),
           Holds(c, r, t)
    PROVE  LET d == [c EXCEPT !.received = Drained(c.received)]
               u == Join(t, c.received.messages)
           IN  /\ d \in ChannelState /\ u \in Seq(Message)
               /\ u = Slice(r, 0, c.received_num)
               /\ Holds(d, r, u)
               /\ d.current = c.current /\ d.current_num = c.current_num
               /\ d.sent_states = c.sent_states /\ d.assumed = c.assumed
               /\ d.sent_num = c.sent_num /\ d.received_num = c.received_num
<1> DEFINE q == Drained(c.received)
           d == [c EXCEPT !.received = q]
           u == Join(t, c.received.messages)
<1>1. c.received \in Queue /\ c.received.messages \in Seq(Message) /\ Num(c.received) \in Nat
  BY ChannelFields, QueueFields
<1>2. u \in Seq(Message)
  BY <1>1, JoinFacts
<1>3. u = Slice(r, 0, c.received_num) /\ Num(c.received) = c.received_num
      /\ c.received_num <= Len(r)
  BY DEF Holds
<1> HIDE DEF u
<1>4. q = [base |-> c.received_num, messages |-> <<>>]
  BY <1>3 DEF Drained
<1>5. q \in Queue /\ q.messages = <<>> /\ q.base = c.received_num
  BY <1>1, <1>3, <1>4 DEF Queue
<1>6. Num(q) = c.received_num
  BY <1>1, <1>3, <1>5 DEF Num
<1> HIDE DEF q
<1>7. /\ d \in ChannelState /\ d.received = q
      /\ d.current = c.current /\ d.current_num = c.current_num
      /\ d.sent_states = c.sent_states /\ d.assumed = c.assumed
      /\ d.sent_num = c.sent_num /\ d.received_num = c.received_num
  BY <1>5 DEF ChannelState
<1> HIDE DEF d
<1>8. Join(u, <<>>) = u
  BY <1>2 DEF Join
<1>9. Holds(d, r, u)
  BY <1>3, <1>5, <1>6, <1>7, <1>8 DEF Holds
<1> QED
  BY <1>2, <1>3, <1>7, <1>9 DEF d, q, u

(* Handing messages up preserves the invariant. *)
LEMMA TakeMessagesKeeps ==
    ASSUME IInv, NEW e \in Endpoint, TakeMessages(e)
    PROVE  /\ IInv'
           /\ taken' = [taken EXCEPT ![e] = Slice(log[Peer(e)], 0, ch[e].received_num)]
           /\ ch'[e].received_num = ch[e].received_num
           /\ ch'[e].current = ch[e].current
<1> DEFINE p == Peer(e)
           c == [ch[e] EXCEPT !.received = Drained(ch[e].received)]
           u == Join(taken[e], ch[e].received.messages)
<1>0. p \in Endpoint /\ p # e /\ Peer(p) = e
  BY Peers
<1>1. /\ ch' = [ch EXCEPT ![e] = c] /\ taken' = [taken EXCEPT ![e] = u]
      /\ net' = net /\ log' = log
  BY DEF TakeMessages, Join
<1>2. /\ ch[e] \in ChannelState /\ ch[p] \in ChannelState
      /\ log[e] \in Seq(Message) /\ log[p] \in Seq(Message) /\ taken[e] \in Seq(Message)
      /\ SendsFrom(ch[e], log[e]) /\ SendsFrom(ch[p], log[p])
      /\ Holds(ch[e], log[p], taken[e]) /\ Holds(ch[p], log[e], taken[p])
      /\ ch[e].assumed <= ch[p].received_num /\ ch[p].received_num <= ch[e].sent_num
      /\ ch[p].assumed <= ch[e].received_num /\ ch[e].received_num <= ch[p].sent_num
  BY <1>0, Unpacked
<1>3. /\ c \in ChannelState /\ u \in Seq(Message) /\ Holds(c, log[p], u)
      /\ u = Slice(log[p], 0, ch[e].received_num)
      /\ c.current = ch[e].current /\ c.current_num = ch[e].current_num
      /\ c.sent_states = ch[e].sent_states /\ c.assumed = ch[e].assumed
      /\ c.sent_num = ch[e].sent_num /\ c.received_num = ch[e].received_num
  BY <1>2, DrainHolds
<1> HIDE DEF c, u
<1>4. SendsFrom(c, log[e])
  BY <1>2, <1>3 DEF SendsFrom
<1>5. taken' \in [Endpoint -> Seq(Message)] /\ taken'[e] = u /\ taken'[p] = taken[p]
  BY <1>0, <1>1, <1>3, Unpacked
<1>6. \A d \in net' : d.src = e => Carries(d.ins, c, log'[e])
  <2> SUFFICES ASSUME NEW d \in net, d.src = e
               PROVE  Carries(d.ins, c, log[e])
    BY <1>1
  <2>1. Carries(d.ins, ch[e], log[e])
    BY Unpacked
  <2> QED
    BY <1>3, <2>1 DEF Carries
<1>7. \A d \in net' : d.src = p => Carries(d.ins, ch[p], log'[p])
  BY <1>0, <1>1, Unpacked
<1>8. /\ TypeOK /\ net' \subseteq [src : Endpoint, ins : Instructions]
      /\ log' \in [Endpoint -> Seq(Message)]
  BY <1>1 DEF IInv, TypeOK
<1>9. IInv'
  BY <1>1, <1>2, <1>3, <1>4, <1>5, <1>6, <1>7, <1>8, StepOf DEF p
<1>10. ch'[e] = c
  BY <1>1, Unpacked
<1> QED
  BY <1>1, <1>3, <1>9, <1>10 DEF p

-----------------------------------------------------------------------------
(* The invariant holds initially. *)
LEMMA InitHolds == Init => IInv
<1> SUFFICES ASSUME Init
             PROVE  IInv
  OBVIOUS
<1> DEFINE c == C!New(EmptyQueue)
           z == [num |-> 0, state |-> EmptyQueue]
<1>1. EmptyQueue \in Queue /\ EmptyQueue.base = 0 /\ EmptyQueue.messages = <<>>
  BY DEF EmptyQueue, Queue
<1>2. Num(EmptyQueue) = 0
  BY <1>1 DEF Num
<1>3. z \in SentState /\ z.num = 0 /\ z.state = EmptyQueue
  BY <1>1 DEF SentState
<1>4. c = [current |-> EmptyQueue, current_num |-> 0, sent_states |-> <<z>>,
           assumed |-> 0, received |-> EmptyQueue, received_num |-> 0, sent_num |-> 0]
  BY DEF C!New
<1> HIDE DEF z
<1>5. <<z>> \in Seq(SentState) /\ Len(<<z>>) = 1 /\ <<z>>[1] = z
  BY <1>3
<1>6. c \in ChannelState
  BY <1>1, <1>4, <1>5 DEF ChannelState
<1>7. /\ c.current = EmptyQueue /\ c.current_num = 0 /\ c.sent_states = <<z>>
      /\ c.assumed = 0 /\ c.received = EmptyQueue /\ c.received_num = 0 /\ c.sent_num = 0
  BY <1>4
<1> HIDE DEF c
<1>8. ch = [e \in Endpoint |-> c] /\ net = {} /\ log = [e \in Endpoint |-> <<>>]
      /\ taken = [e \in Endpoint |-> <<>>]
  BY DEF Init, c
<1>9. <<>> \in Seq(Message) /\ Len(<<>>) = 0 /\ Slice(<<>>, 0, 0) = <<>>
      /\ Join(<<>>, <<>>) = <<>>
  BY DEF Slice, Join
<1>10. QueueAt(EmptyQueue, <<>>, 0)
  BY <1>1, <1>2, <1>9 DEF QueueAt
<1>11. ChainAt(<<z>>, 0, <<>>)
  <2> SUFFICES ASSUME NEW i \in 1..Len(<<z>>)
               PROVE  /\ <<z>>[i].num = 0 + i - 1
                      /\ <<z>>[i].state.base <= 0
                      /\ QueueAt(<<z>>[i].state, <<>>, 0 + i - 1)
    BY DEF ChainAt
  <2>1. i = 1 /\ 0 + i - 1 = 0
    BY <1>5
  <2> QED
    BY <1>1, <1>3, <1>5, <1>10, <2>1
<1>12. SendsFrom(c, <<>>)
  BY <1>1, <1>5, <1>7, <1>9, <1>10, <1>11 DEF SendsFrom
<1>13. Holds(c, <<>>, <<>>)
  BY <1>1, <1>2, <1>7, <1>9 DEF Holds
<1>14. TypeOK
  BY <1>6, <1>8, <1>9 DEF TypeOK
<1>15. Sender
  BY <1>8, <1>12 DEF Sender
<1>16. Receiver
  BY <1>8, <1>13, Peers DEF Receiver
<1>17. Agree
  BY <1>7, <1>8, Peers DEF Agree
<1>18. Wire
  BY <1>8 DEF Wire
<1> QED
  BY <1>14, <1>15, <1>16, <1>17, <1>18 DEF IInv

(* Every step preserves the invariant. *)
LEMMA StepKeeps == IInv /\ [Next]_vars => IInv'
<1> SUFFICES ASSUME IInv, [Next]_vars
             PROVE  IInv'
  OBVIOUS
<1>1. ASSUME NEW e \in Endpoint, NEW m \in Message, QueueMessage(e, m)
      PROVE  IInv'
  BY <1>1, QueueMessageKeeps
<1>2. ASSUME NEW e \in Endpoint, Send(e)
      PROVE  IInv'
  BY <1>2, SendKeeps
<1>3. ASSUME NEW e \in Endpoint, NEW d \in net, Receive(e, d)
      PROVE  IInv'
  BY <1>3, ReceiveKeeps
<1>4. ASSUME NEW e \in Endpoint, TakeMessages(e)
      PROVE  IInv'
  BY <1>4, TakeMessagesKeeps
<1>5. CASE UNCHANGED vars
  BY <1>5 DEF vars, IInv, TypeOK, Sender, Receiver, Agree, Wire
<1> QED
  BY <1>1, <1>2, <1>3, <1>4, <1>5 DEF Next

(* The inductive invariant holds in every reachable state. *)
THEOREM Inductive == Spec => []IInv
  BY InitHolds, StepKeeps, PTL DEF Spec

(* The channels, the wire and the histories keep their types. *)
THEOREM TypeCorrect == Spec => []TypeOK
<1>1. IInv => TypeOK
  BY DEF IInv
<1> QED
  BY <1>1, Inductive, PTL

(* Exactly-once, in-order delivery over a network that loses, repeats and  *)
(* reorders, for every bound on queues, histories and datagrams.           *)
THEOREM DeliveredInOrderOnce == Spec => []InOrderOnce
<1>1. IInv => InOrderOnce
  <2> SUFFICES ASSUME IInv, NEW e \in Endpoint
               PROVE  /\ ch[e].received_num <= Len(log[Peer(e)])
                      /\ taken[e] \o ch[e].received.messages
                           = SubSeq(log[Peer(e)], 1, ch[e].received_num)
    BY DEF InOrderOnce
  <2>1. Holds(ch[e], log[Peer(e)], taken[e])
    BY Unpacked
  <2> QED
    BY <2>1 DEF Holds, Join, Slice
<1> QED
  BY <1>1, Inductive, PTL

(* No endpoint releases, or diffs from, a message its peer may lack. *)
THEOREM ReleasedOnlyWhenHeld == Spec => []NothingReleasedEarly
<1>1. IInv => NothingReleasedEarly
  BY Unpacked DEF NothingReleasedEarly, SendsFrom
<1> QED
  BY <1>1, Inductive, PTL

(* The sent-state history is the chain channel.rs:30-32 describes. *)
THEOREM HistoryChained == Spec => []HistoryIsChain
<1>1. IInv => HistoryIsChain
  <2> SUFFICES ASSUME IInv, NEW e \in Endpoint
               PROVE  /\ Len(ch[e].sent_states) = ch[e].current_num - ch[e].assumed + 1
                      /\ \A i \in DOMAIN ch[e].sent_states :
                            /\ ch[e].sent_states[i].num = ch[e].assumed + i - 1
                            /\ Num(ch[e].sent_states[i].state) = ch[e].sent_states[i].num
                      /\ Num(ch[e].current) = ch[e].current_num
    BY DEF HistoryIsChain
  <2>1. SendsFrom(ch[e], log[e]) /\ ch[e] \in ChannelState /\ log[e] \in Seq(Message)
    BY Unpacked
  <2>2. Num(ch[e].current) = ch[e].current_num
        /\ Len(ch[e].sent_states) = ch[e].current_num - ch[e].assumed + 1
    BY <2>1 DEF SendsFrom, QueueAt
  <2>3. ch[e].sent_states \in Seq(SentState)
    BY <2>1, ChannelFields
  <2>4. DOMAIN ch[e].sent_states = 1..Len(ch[e].sent_states)
    BY <2>3
  <2>5. \A i \in DOMAIN ch[e].sent_states :
            /\ ch[e].sent_states[i].num = ch[e].assumed + i - 1
            /\ Num(ch[e].sent_states[i].state) = ch[e].sent_states[i].num
    BY <2>1, <2>4, HistoryEntry DEF QueueAt
  <2> QED
    BY <2>2, <2>5
<1> QED
  BY <1>1, Inductive, PTL

(* There is always something instruction() can send, however large the     *)
(* backlog: state-layer fragmentation never gets stuck.                    *)
THEOREM NeverTooLarge == Spec => []AlwaysSendable
<1>1. IInv => AlwaysSendable
  BY Unpacked, Sendable DEF AlwaysSendable
<1> QED
  BY <1>1, Inductive, PTL

-----------------------------------------------------------------------------
(* The refinement mapping, named so that it can be kept opaque. *)
Arrived == [e \in Endpoint |-> ch[e].received_num]

Released == [e \in Endpoint |-> ch[e].current.base]

(* Fresh channels are empty queues. *)
LEMMA AbstractInit == Init => Abstract!Init
<1> SUFFICES ASSUME Init
             PROVE  Abstract!Init
  OBVIOUS
<1>1. \A e \in Endpoint : ch[e] = C!New(EmptyQueue)
  BY DEF Init
<1>2. \A e \in Endpoint : ch[e].received_num = 0 /\ ch[e].current.base = 0
  BY <1>1 DEF C!New, EmptyQueue
<1> QED
  BY <1>2 DEF Init, Abstract!Init, Abstract!Endpoint, Endpoint

(* Queueing a message puts it into the abstract queue. *)
LEMMA QueueMessageIsPut ==
    ASSUME IInv, NEW e \in Endpoint, NEW m \in Message, QueueMessage(e, m)
    PROVE  Abstract!Put(e, m)
<1> DEFINE c == C!Advance(ch[e], Push(ch[e].current, m))
<1>1. c.received_num = ch[e].received_num /\ c.current.base = ch[e].current.base
  BY Unpacked, AdvanceSends
<1>2. ch \in [Endpoint -> ChannelState]
  BY Unpacked
<1>3. ch' = [ch EXCEPT ![e] = c] /\ log' = [log EXCEPT ![e] = Append(log[e], m)]
      /\ taken' = taken
  BY DEF QueueMessage
<1> HIDE DEF c
<1>4. Arrived' = Arrived /\ Released' = Released
  BY <1>1, <1>2, <1>3 DEF Arrived, Released
<1> QED
  BY <1>3, <1>4 DEF Abstract!Put, Arrived, Released

(* Sending changes nothing the abstract queues show. *)
LEMMA SendIsInvisible ==
    ASSUME IInv, NEW e \in Endpoint, Send(e)
    PROVE  UNCHANGED <<log, taken, Arrived, Released>>
<1> DEFINE c == C!NoteSent(ch[e], C!Instruction(ch[e]))
<1>1. c.received_num = ch[e].received_num /\ c.current = ch[e].current
  BY Unpacked, InstructionCarries, NoteSentKeeps
<1>2. ch \in [Endpoint -> ChannelState]
  BY Unpacked
<1>3. ch' = [ch EXCEPT ![e] = c] /\ log' = log /\ taken' = taken
  BY DEF Send
<1> HIDE DEF c
<1>4. Arrived' = Arrived /\ Released' = Released
  BY <1>1, <1>2, <1>3 DEF Arrived, Released
<1> QED
  BY <1>3, <1>4

(* Receiving lets messages arrive and be released. *)
LEMMA ReceiveIsExchange ==
    ASSUME IInv, NEW e \in Endpoint, NEW d \in net, Receive(e, d)
    PROVE  \E a \in 0..Len(log[Peer(e)]), r \in 0..Len(log[e]) : Abstract!Exchange(e, a, r)
<1> DEFINE p == Peer(e)
           a == ch'[e].received_num
           r == ch'[e].current.base
<1>0. p \in Endpoint /\ p # e /\ Abstract!Peer(e) = p
  BY Peers DEF Abstract!Peer, Peer
<1>1. IInv' /\ ch[e].received_num <= a /\ ch[e].current.base <= r
  BY ReceiveKeeps
<1>2. /\ ch \in [Endpoint -> ChannelState]
      /\ ch' = [ch EXCEPT ![e] = C!Apply(ch[e], d.ins)]
      /\ UNCHANGED <<net, log, taken>>
  BY Unpacked DEF Receive
<1>3. ch'[p] = ch[p]
  BY <1>0, <1>2
<1>4. ch' \in [Endpoint -> ChannelState] /\ Sender' /\ Receiver' /\ Agree'
  BY <1>1 DEF IInv, TypeOK
<1>5. ch'[e] \in ChannelState /\ ch[p] \in ChannelState
  BY <1>0, <1>2, <1>4
<1>6. /\ ch'[e].received_num <= Len(log[p])
      /\ ch'[e].assumed <= ch[p].received_num /\ ch'[e].current.base <= ch'[e].assumed
  BY <1>0, <1>2, <1>3, <1>4 DEF Receiver, Agree, Sender, Holds, SendsFrom, p
<1>7. /\ ch'[e].received_num \in Nat /\ ch'[e].assumed \in Nat
      /\ ch'[e].current \in Queue /\ ch[p].received_num \in Nat
  BY <1>5, ChannelFields
<1>8. ch'[e].current.base \in Nat
  BY <1>7, QueueFields
<1>9. ch[p].received_num <= Len(log[e]) /\ log[e] \in Seq(Message) /\ log[p] \in Seq(Message)
  BY <1>0, Unpacked, Peers DEF Holds
<1>10. a \in 0..Len(log[p]) /\ r \in 0..Len(log[e]) /\ r <= ch[p].received_num
  BY <1>6, <1>7, <1>8, <1>9
<1>11. Arrived' = [Arrived EXCEPT ![e] = a] /\ Released' = [Released EXCEPT ![e] = r]
  BY <1>2 DEF Arrived, Released
<1>12. Arrived[e] = ch[e].received_num /\ Arrived[p] = ch[p].received_num
       /\ Released[e] = ch[e].current.base
  BY <1>0 DEF Arrived, Released
<1> HIDE DEF a, r
<1>13. a <= Len(log[p])
  BY <1>9, <1>10
<1>14. /\ Arrived[e] <= a /\ a <= Len(log[Abstract!Peer(e)])
       /\ Released[e] <= r /\ r <= Arrived[Abstract!Peer(e)]
  BY <1>0, <1>1, <1>10, <1>12, <1>13
<1>16. PICK x \in 0..Len(log[Peer(e)]), y \in 0..Len(log[e]) : x = a /\ y = r
  BY <1>10 DEF p
<1>17. Abstract!Exchange(e, x, y)
  BY <1>2, <1>11, <1>14, <1>16 DEF Abstract!Exchange, Arrived, Released
<1> QED
  BY <1>17

(* Handing messages up takes all that arrived. *)
LEMMA TakeMessagesIsTake ==
    ASSUME IInv, NEW e \in Endpoint, TakeMessages(e)
    PROVE  Abstract!Take(e)
<1>1. /\ taken' = [taken EXCEPT ![e] = Slice(log[Peer(e)], 0, ch[e].received_num)]
      /\ ch'[e].received_num = ch[e].received_num /\ ch'[e].current = ch[e].current
  BY TakeMessagesKeeps
<1>2. /\ ch \in [Endpoint -> ChannelState] /\ log' = log
      /\ ch' = [ch EXCEPT ![e].received = Drained(ch[e].received)]
  BY Unpacked DEF TakeMessages
<1>3. \A q \in Endpoint : q # e => ch'[q] = ch[q]
  BY <1>2
<1>4. Arrived' = Arrived /\ Released' = Released
  BY <1>1, <1>3 DEF Arrived, Released
<1>5. Abstract!Peer(e) = Peer(e) /\ Arrived[e] = ch[e].received_num
  BY DEF Abstract!Peer, Peer, Arrived
<1>6. taken' = [taken EXCEPT ![e] = SubSeq(log[Abstract!Peer(e)], 1, Arrived[e])]
  BY <1>1, <1>5 DEF Slice
<1> QED
  BY <1>2, <1>4, <1>6 DEF Abstract!Take, Arrived, Released

(* Every step of the protocol is a step of the two queues, or invisible. *)
LEMMA AbstractStep ==
    IInv /\ [Next]_vars => [Abstract!Next]_(Abstract!vars)
<1> SUFFICES ASSUME IInv, [Next]_vars
             PROVE  [Abstract!Next]_(Abstract!vars)
  OBVIOUS
<1>0. \A e \in Endpoint : e \in Abstract!Endpoint /\ Abstract!Peer(e) = Peer(e)
  BY DEF Endpoint, Abstract!Endpoint, Peer, Abstract!Peer
<1>1. ASSUME NEW e \in Endpoint, NEW m \in Message, QueueMessage(e, m)
      PROVE  Abstract!Next
  BY <1>0, <1>1, QueueMessageIsPut DEF Abstract!Next
<1>2. ASSUME NEW e \in Endpoint, Send(e)
      PROVE  UNCHANGED Abstract!vars
  BY <1>2, SendIsInvisible DEF Abstract!vars, Arrived, Released
<1>3. ASSUME NEW e \in Endpoint, NEW d \in net, Receive(e, d)
      PROVE  Abstract!Next
  BY <1>0, <1>3, ReceiveIsExchange DEF Abstract!Next
<1>4. ASSUME NEW e \in Endpoint, TakeMessages(e)
      PROVE  Abstract!Next
  BY <1>0, <1>4, TakeMessagesIsTake DEF Abstract!Next
<1>5. CASE UNCHANGED vars
  BY <1>5 DEF vars, Abstract!vars
<1> QED
  BY <1>1, <1>2, <1>3, <1>4, <1>5 DEF Next

(* Two channels over the lossy network implement two reliable queues. *)
THEOREM Refinement == Spec => ImplementsReliableQueue
<1>1. Init => Abstract!Init
  BY AbstractInit
<1>2. IInv /\ [Next]_vars => [Abstract!Next]_(Abstract!vars)
  BY AbstractStep
<1> QED
  BY <1>1, <1>2, Inductive, PTL DEF Spec, ImplementsReliableQueue, Abstract!Spec
=============================================================================
