--------------------------- MODULE LinkNodeProofs ---------------------------
(***************************************************************************)
(* Proofs about a node of a link: first its session, its peer's and their  *)
(* restarts (LinkSession), for any bounds on queues, histories, datagrams  *)
(* and lives; then, from "The sequence reservation" on, the store its      *)
(* sequence numbers come from (SeqReservation).                            *)
(***************************************************************************)
EXTENDS LinkSession, SeqReservation, WellFoundedInduction, FiniteSetTheorems, SequenceTheorems, TLAPS

-----------------------------------------------------------------------------
(* Runs of messages and queues of them. *)

(* The messages of a life. *)
Of(e, life) == [by : {e}, life : {life}, n : Int]

(* A run of messages is a sequence of the expected length. *)
LEMMA BetweenFacts ==
    ASSUME NEW e, NEW life, NEW k \in Int, NEW n \in Int, k <= n
    PROVE  /\ Between(e, life, k, n) \in Seq(Of(e, life))
           /\ Len(Between(e, life, k, n)) = n - k
           /\ \A j \in 1..(n - k) :
                Between(e, life, k, n)[j] = [by |-> e, life |-> life, n |-> k + j]
<1>1. Between(e, life, k, n) \in [1..(n - k) -> Of(e, life)]
  BY DEF Between, Of
<1> QED
  BY <1>1 DEF Between

LEMMA BetweenLen ==
    ASSUME NEW e, NEW life, NEW k \in Int, NEW n \in Int, k <= n
    PROVE  Len(Between(e, life, k, n)) = n - k
BY BetweenFacts

LEMMA BetweenMessages ==
    ASSUME NEW e, NEW life, NEW k \in Int, NEW n \in Int,
           e \in Endpoint, life \in Nat, 0 <= k, k <= n
    PROVE  Between(e, life, k, n) \in Seq(MessageSet)
<1>1. Between(e, life, k, n) \in [1..(n - k) -> MessageSet]
  BY DEF Between, MessageSet
<1> QED
  BY <1>1

(* A sequence that is a run. *)
LEMMA IsBetween ==
    ASSUME NEW e, NEW life, NEW k \in Int, NEW n \in Int, k <= n,
           NEW s \in Seq(Of(e, life)), Len(s) = n - k,
           \A j \in 1..(n - k) : s[j] = [by |-> e, life |-> life, n |-> k + j]
    PROVE  s = Between(e, life, k, n)
<1>1. s = [j \in 1..(n - k) |-> s[j]]
  OBVIOUS
<1> QED
  BY <1>1 DEF Between

(* A run and the message after it. *)
LEMMA BetweenAppend ==
    ASSUME NEW e, NEW life, NEW k \in Int, NEW n \in Int, k <= n
    PROVE  Append(Between(e, life, k, n), [by |-> e, life |-> life, n |-> n + 1])
             = Between(e, life, k, n + 1)
<1> DEFINE m == [by |-> e, life |-> life, n |-> n + 1]
           s == Between(e, life, k, n)
<1>1. m \in Of(e, life) /\ m = [by |-> e, life |-> life, n |-> k + (n + 1 - k)]
  BY DEF Of
<1>2. /\ s \in Seq(Of(e, life)) /\ Len(s) = n - k
      /\ \A j \in 1..(n - k) : s[j] = [by |-> e, life |-> life, n |-> k + j]
  BY BetweenFacts
<1> HIDE DEF m, s
<1>3. /\ Append(s, m) \in Seq(Of(e, life)) /\ Len(Append(s, m)) = n + 1 - k
      /\ \A j \in 1..(n + 1 - k) :
            Append(s, m)[j] = [by |-> e, life |-> life, n |-> k + j]
  BY <1>1, <1>2
<1> DEFINE u == Append(s, m)
           last == n + 1
<1>4. /\ u \in Seq(Of(e, life)) /\ last \in Int /\ k <= last /\ Len(u) = last - k
      /\ \A j \in 1..(last - k) : u[j] = [by |-> e, life |-> life, n |-> k + j]
  BY <1>3
<1> HIDE DEF u, last
<1>5. u = Between(e, life, k, last)
  BY <1>4, IsBetween
<1> QED
  BY <1>5 DEF m, s, u, last

(* Two runs, one after the other. *)
LEMMA BetweenConcat ==
    ASSUME NEW e, NEW life, NEW k \in Int, NEW i \in Int, NEW n \in Int, k <= i, i <= n
    PROVE  Between(e, life, k, i) \o Between(e, life, i, n) = Between(e, life, k, n)
<1> DEFINE s == Between(e, life, k, i)
           t == Between(e, life, i, n)
<1>1. /\ s \in Seq(Of(e, life)) /\ Len(s) = i - k
      /\ \A j \in 1..(i - k) : s[j] = [by |-> e, life |-> life, n |-> k + j]
  BY BetweenFacts
<1>2. /\ t \in Seq(Of(e, life)) /\ Len(t) = n - i
      /\ \A j \in 1..(n - i) : t[j] = [by |-> e, life |-> life, n |-> i + j]
  BY BetweenFacts
<1> DEFINE u == s \o t
<1> HIDE DEF s, t
<1>3. u \in Seq(Of(e, life)) /\ Len(u) = n - k
  <2>1. u \in Seq(Of(e, life)) /\ Len(u) = Len(s) + Len(t)
    BY <1>1, <1>2
  <2> QED
    BY <1>1, <1>2, <2>1
<1>4. ASSUME NEW j \in Int, 1 <= j, j <= i - k
      PROVE  u[j] = [by |-> e, life |-> life, n |-> k + j]
  BY <1>1, <1>2, <1>4
<1>5. ASSUME NEW j \in Int, j > i - k, j <= n - k
      PROVE  u[j] = [by |-> e, life |-> life, n |-> k + j]
  <2>1. u[j] = t[j - (i - k)]
    BY <1>1, <1>2, <1>5
  <2>2. j - (i - k) \in 1..(n - i) /\ i + (j - (i - k)) = k + j
    BY <1>5
  <2> QED
    BY <2>1, <2>2, <1>2
<1> HIDE DEF u
<1>6. k <= n /\ \A j \in 1..(n - k) : u[j] = [by |-> e, life |-> life, n |-> k + j]
  BY <1>4, <1>5
<1>7. u = Between(e, life, k, n)
  BY <1>3, <1>6, IsBetween
<1> QED
  BY <1>7 DEF s, t, u

(* The rest of a run is a run. *)
LEMMA BetweenSuffix ==
    ASSUME NEW e, NEW life, NEW k \in Int, NEW i \in Int, NEW n \in Int, k <= i, i <= n
    PROVE  SubSeq(Between(e, life, k, n), i - k + 1, n - k) = Between(e, life, i, n)
<1> DEFINE s == Between(e, life, k, n)
           u == SubSeq(s, i - k + 1, n - k)
<1>1. /\ s \in Seq(Of(e, life)) /\ Len(s) = n - k
      /\ \A j \in 1..(n - k) : s[j] = [by |-> e, life |-> life, n |-> k + j]
  BY BetweenFacts
<1> HIDE DEF s
<1>3. u \in Seq(Of(e, life)) /\ Len(u) = n - i
  BY <1>1
<1>4. \A j \in 1..(n - i) : u[j] = s[(i - k) + j]
  BY <1>1, <1>3
<1> HIDE DEF u
<1>5. \A j \in 1..(n - i) : u[j] = [by |-> e, life |-> life, n |-> i + j]
  <2> TAKE j \in 1..(n - i)
  <2>1. (i - k) + j \in 1..(n - k) /\ k + ((i - k) + j) = i + j
    OBVIOUS
  <2> QED
    BY <1>1, <1>4, <2>1
<1>6. u = Between(e, life, i, n)
  BY <1>3, <1>5, IsBetween
<1> QED
  BY <1>6 DEF s, u

(* The fields of a queue. *)
LEMMA QueueFacts ==
    ASSUME NEW e, NEW life, NEW origin \in Int, NEW b \in Int, NEW n \in Int, b <= n
    PROVE  LET q == QueueAt(e, life, origin, b, n)
           IN  /\ q = [base |-> b, messages |-> Between(e, life, origin + b, origin + n)]
               /\ q.base = b /\ Num(q) = n
               /\ q.messages = Between(e, life, origin + b, origin + n)
               /\ Len(q.messages) = n - b
<1> DEFINE first == origin + b
           last == origin + n
<1>0. first \in Int /\ last \in Int /\ first <= last /\ last - first = n - b
  OBVIOUS
<1> HIDE DEF first, last
<1>1. Len(Between(e, life, first, last)) = n - b
  BY <1>0, BetweenLen
<1> QED
  BY <1>1 DEF QueueAt, Num, first, last

LEMMA QueueInSet ==
    ASSUME NEW e, NEW life, NEW origin \in Int, NEW b \in Int, NEW n \in Int,
           e \in Endpoint, life \in Nat, 0 <= origin, 0 <= b, b <= n
    PROVE  QueueAt(e, life, origin, b, n) \in QueueSet
<1>1. Between(e, life, origin + b, origin + n) \in Seq(MessageSet)
  BY BetweenMessages
<1> QED
  BY <1>1 DEF QueueAt, QueueSet

(* push *)
LEMMA PushAt ==
    ASSUME NEW e, NEW life, NEW origin \in Int, NEW b \in Int, NEW n \in Int, b <= n
    PROVE  Push(QueueAt(e, life, origin, b, n), [by |-> e, life |-> life, n |-> origin + n + 1])
             = QueueAt(e, life, origin, b, n + 1)
<1>1. Append(Between(e, life, origin + b, origin + n),
             [by |-> e, life |-> life, n |-> origin + n + 1])
        = Between(e, life, origin + b, origin + n + 1)
  BY BetweenAppend
<1>2. origin + n + 1 = origin + (n + 1)
  OBVIOUS
<1> QED
  BY <1>1, <1>2 DEF Push, QueueAt

(* The messages after k of a queue that holds them all. *)
LEMMA AfterAt ==
    ASSUME NEW e, NEW life, NEW origin \in Int, NEW b \in Int, NEW n \in Int, NEW k \in Int,
           b <= k, k <= n
    PROVE  MessagesAfter(QueueAt(e, life, origin, b, n), k)
             = Between(e, life, origin + k, origin + n)
<1> DEFINE q == QueueAt(e, life, origin, b, n)
<1>1. /\ q.base = b /\ q.messages = Between(e, life, origin + b, origin + n)
      /\ Len(q.messages) = n - b
  BY QueueFacts
<1> DEFINE first == origin + b
           after == origin + k
           last == origin + n
<1>2. /\ {first, after, last} \subseteq Int /\ first <= after /\ after <= last
      /\ last - first = n - b /\ after - first + 1 = k - b + 1
  OBVIOUS
<1>3. q.base = b /\ q.messages = Between(e, life, first, last) /\ Len(q.messages) = n - b
  BY <1>1
<1> HIDE DEF first, after, last, q
<1>4. SubSeq(Between(e, life, first, last), after - first + 1, last - first)
        = Between(e, life, after, last)
  BY SMTT(30), <1>2, BetweenSuffix
<1>5. MessagesAfter(q, k) = Between(e, life, after, last)
  BY <1>2, <1>3, <1>4 DEF MessagesAfter
<1> QED
  BY <1>5 DEF q, after, last

(* prune_through *)
LEMMA PruneAt ==
    ASSUME NEW e, NEW life, NEW origin \in Int, NEW b \in Int, NEW n \in Int, NEW k \in Int, b <= n
    PROVE  PruneThrough(QueueAt(e, life, origin, b, n), k)
             = QueueAt(e, life, origin, IF k <= b THEN b ELSE IF k <= n THEN k ELSE n, n)
<1> DEFINE q == QueueAt(e, life, origin, b, n)
           last == IF k <= n THEN k ELSE n
<1>1. q.base = b /\ Num(q) = n
  BY QueueFacts
<1>2. CASE k <= b
  BY <1>1, <1>2 DEF PruneThrough
<1>3. CASE k > b
  <2>1. last \in Int /\ b <= last /\ last <= n
    BY <1>3
  <2> HIDE DEF last
  <2>2. MessagesAfter(q, last) = Between(e, life, origin + last, origin + n)
    BY <2>1, AfterAt
  <2> HIDE DEF q
  <2>3. PruneThrough(q, k) = [base |-> last, messages |-> MessagesAfter(q, last)]
    BY <1>1, <1>3 DEF PruneThrough, last
  <2>4. PruneThrough(q, k) = QueueAt(e, life, origin, last, n)
    BY <2>2, <2>3 DEF QueueAt
  <2> QED
    BY <1>3, <2>4 DEF q, last
<1> QED
  BY <1>2, <1>3

(* reset_origin *)
LEMMA ResetAt ==
    ASSUME NEW e, NEW life, NEW origin \in Int, NEW b \in Int, NEW n \in Int, b <= n
    PROVE  ResetOrigin(QueueAt(e, life, origin, b, n)) = QueueAt(e, life, origin + b, 0, n - b)
<1>1. origin + b + 0 = origin + b /\ origin + b + (n - b) = origin + n
  OBVIOUS
<1> QED
  BY <1>1, QueueFacts DEF ResetOrigin, QueueAt

(* diff_from *)
LEMMA DiffAt ==
    ASSUME NEW e, NEW life, NEW origin \in Int, NEW b \in Int, NEW n \in Int, NEW k \in Int,
           b <= k, k <= n, NEW prev, Num(prev) = k
    PROVE  QueueDiff(QueueAt(e, life, origin, b, n), prev)
             = Between(e, life, origin + k, origin + n)
BY AfterAt, QueueFacts DEF QueueDiff

-----------------------------------------------------------------------------
(* Channel 0: the chain of the queue's states. *)

MessageChannel == ChannelSet(QueueSet)

Entry(State) == [num : Nat, state : State]

(* The fields of a channel have their types. *)
LEMMA MessageFields ==
    ASSUME NEW c \in MessageChannel
    PROVE  /\ c.current \in QueueSet /\ c.received \in QueueSet
           /\ c.sent_states \in Seq(Entry(QueueSet))
           /\ c.current_num \in Nat /\ c.assumed \in Nat
           /\ c.received_num \in Nat /\ c.sent_num \in Nat
BY DEF MessageChannel, ChannelSet, Entry

(* One state of the history. *)
IsLink(link, e, life, origin, a, i) ==
    /\ link.num = a + i - 1
    /\ \E b \in 0..a : link.state = QueueAt(e, life, origin, b, a + i - 1)

LEMMA ChainedFacts ==
    ASSUME NEW c \in MessageChannel, NEW e, NEW life, NEW origin, Chained(c, e, life, origin)
    PROVE  /\ c.assumed <= c.current_num
           /\ c.current = QueueAt(e, life, origin, c.assumed, c.current_num)
           /\ Len(c.sent_states) = c.current_num - c.assumed + 1
           /\ \A i \in 1..Len(c.sent_states) :
                IsLink(c.sent_states[i], e, life, origin, c.assumed, i)
           /\ c.received.messages = <<>>
<1>1. DOMAIN c.sent_states = 1..Len(c.sent_states)
  BY MessageFields
<1> QED
  BY <1>1 DEF Chained, IsLink

LEMMA IsChained ==
    ASSUME NEW c \in MessageChannel, NEW e, NEW life, NEW origin,
           c.assumed <= c.current_num,
           c.current = QueueAt(e, life, origin, c.assumed, c.current_num),
           Len(c.sent_states) = c.current_num - c.assumed + 1,
           \A i \in 1..Len(c.sent_states) :
                IsLink(c.sent_states[i], e, life, origin, c.assumed, i),
           c.received.messages = <<>>
    PROVE  Chained(c, e, life, origin)
<1>1. DOMAIN c.sent_states = 1..Len(c.sent_states)
  BY MessageFields
<1> QED
  BY <1>1 DEF Chained, IsLink

(* Channel::advance, queueing the next message of the life. *)
LEMMA AdvanceChained ==
    ASSUME NEW c \in MessageChannel, NEW e \in Endpoint, NEW life \in Nat, NEW origin \in Nat,
           Chained(c, e, life, origin),
           NEW m, m = [by |-> e, life |-> life, n |-> origin + c.current_num + 1]
    PROVE  LET d == M!Advance(c, Push(c.current, m))
           IN  /\ d \in MessageChannel /\ Chained(d, e, life, origin)
               /\ d.current_num = c.current_num + 1 /\ d.assumed = c.assumed
               /\ d.received_num = c.received_num
<1> DEFINE q == Push(c.current, m)
           link == [num |-> c.current_num + 1, state |-> q]
           more == Append(c.sent_states, link)
           d == M!Advance(c, q)
           a == c.assumed
           num == c.current_num
           states == c.sent_states
<1>1. a \in Nat /\ num \in Nat /\ states \in Seq(Entry(QueueSet)) /\ a <= num
  BY MessageFields, ChainedFacts
<1>2. /\ c.current = QueueAt(e, life, origin, a, num)
      /\ Len(states) = num - a + 1 /\ c.received.messages = <<>>
      /\ \A i \in 1..Len(states) : IsLink(states[i], e, life, origin, a, i)
  BY ChainedFacts
<1>3. d = [c EXCEPT !.current = q, !.current_num = num + 1, !.sent_states = more]
  BY DEF M!Advance
<1>4. link = [num |-> num + 1, state |-> q] /\ more = Append(states, link)
  OBVIOUS
<1>5. m = [by |-> e, life |-> life, n |-> origin + num + 1] /\ q = Push(c.current, m)
  OBVIOUS
<1> HIDE DEF q, link, more, d, a, num, states
<1>6. q = QueueAt(e, life, origin, a, num + 1)
  BY <1>1, <1>2, <1>5, PushAt
<1>7. q \in QueueSet
  <2> DEFINE n == num + 1
  <2>1. n \in Int /\ a <= n
    BY <1>1
  <2> HIDE DEF n
  <2>2. QueueAt(e, life, origin, a, n) \in QueueSet
    BY <1>1, <2>1, QueueInSet
  <2> QED
    BY <1>6, <2>2 DEF n
<1>8. link \in Entry(QueueSet) /\ link.num = num + 1 /\ link.state = q
  BY <1>1, <1>4, <1>7 DEF Entry
<1>9. /\ more \in Seq(Entry(QueueSet)) /\ Len(more) = num - a + 2
      /\ more[num - a + 2] = link
      /\ \A i \in 1..Len(states) : more[i] = states[i]
  BY <1>1, <1>2, <1>4, <1>8
<1>10. d \in MessageChannel
  <2>1. num + 1 \in Nat /\ more \in Seq([num : Nat, state : QueueSet])
    BY <1>1, <1>9 DEF Entry
  <2> QED
    BY <1>3, <1>7, <2>1 DEF MessageChannel, ChannelSet
<1>11. /\ d.current = q /\ d.current_num = num + 1 /\ d.sent_states = more
       /\ d.assumed = a /\ d.received = c.received /\ d.received_num = c.received_num
  BY <1>3 DEF MessageChannel, ChannelSet, a
<1>12. ASSUME NEW i \in 1..Len(more)
       PROVE  IsLink(more[i], e, life, origin, a, i)
  <2>1. CASE i \in 1..Len(states)
    BY <1>2, <1>9, <2>1
  <2>2. CASE i = num - a + 2
    <3>1. a + i - 1 = num + 1 /\ a \in 0..a
      BY <1>1, <2>2
    <3> QED
      BY <1>6, <1>8, <1>9, <2>2, <3>1 DEF IsLink
  <2> QED
    BY <1>1, <1>2, <1>9, <2>1, <2>2
<1>13. Chained(d, e, life, origin)
  <2>1. a <= num + 1 /\ Len(more) = (num + 1) - a + 1
    BY <1>1, <1>9
  <2> QED
    BY <1>2, <1>6, <1>10, <1>11, <1>12, <2>1, IsChained
<1> QED
  BY <1>10, <1>11, <1>13 DEF d, q, a, num

(* The state every diff starts from is numbered assumed. *)
LEMMA BaseNum ==
    ASSUME NEW c \in MessageChannel, NEW e, NEW life, NEW origin \in Nat,
           Chained(c, e, life, origin)
    PROVE  Num(c.sent_states[1].state) = c.assumed
<1> DEFINE a == c.assumed
           q == c.sent_states[1].state
<1>1. a \in Nat /\ c.current_num \in Nat /\ a <= c.current_num
  BY MessageFields, ChainedFacts
<1>2. 1 \in 1..Len(c.sent_states)
  BY <1>1, ChainedFacts
<1>3. IsLink(c.sent_states[1], e, life, origin, c.assumed, 1)
  BY <1>2, ChainedFacts
<1>4. PICK b \in 0..a : q = QueueAt(e, life, origin, b, a + 1 - 1)
  BY <1>3 DEF IsLink
<1>5. a + 1 - 1 = a /\ b \in Int /\ b <= a
  BY <1>1
<1> HIDE DEF a, q
<1>6. Num(q) = a
  BY <1>1, <1>4, <1>5, QueueFacts
<1> QED
  BY <1>6 DEF a, q

(* A diff up to number n carries the messages after assumed. *)
LEMMA DiffCarries ==
    ASSUME NEW c \in MessageChannel, NEW e, NEW life, NEW origin \in Nat,
           Chained(c, e, life, origin),
           NEW b \in Int, NEW n \in Int, b <= c.assumed, c.assumed <= n
    PROVE  M!DiffFromBase(c, QueueAt(e, life, origin, b, n))
             = Between(e, life, origin + c.assumed, origin + n)
<1> DEFINE prev == c.sent_states[1].state
           a == c.assumed
<1>1. Num(prev) = a /\ a \in Int /\ b <= a /\ a <= n
  BY BaseNum, MessageFields
<1> HIDE DEF prev, a
<1>2. QueueDiff(QueueAt(e, life, origin, b, n), prev) = Between(e, life, origin + a, origin + n)
  BY <1>1, DiffAt
<1> QED
  BY <1>2 DEF M!DiffFromBase, prev, a

LEMMA DiffSize ==
    ASSUME NEW c \in MessageChannel, NEW e, NEW life, NEW origin \in Nat,
           Chained(c, e, life, origin),
           NEW b \in Int, NEW n \in Int, b <= c.assumed, c.assumed <= n
    PROVE  Len(M!DiffFromBase(c, QueueAt(e, life, origin, b, n))) = n - c.assumed
<1> DEFINE first == origin + c.assumed
           last == origin + n
<1>1. first \in Int /\ last \in Int /\ first <= last /\ last - first = n - c.assumed
  BY MessageFields
<1>2. M!DiffFromBase(c, QueueAt(e, life, origin, b, n)) = Between(e, life, first, last)
  BY DiffCarries
<1> HIDE DEF first, last
<1> QED
  BY <1>1, <1>2, BetweenLen

(* The diff to state i of the history has i - 1 messages. *)
LEMMA LinkDiff ==
    ASSUME NEW c \in MessageChannel, NEW e, NEW life, NEW origin \in Nat,
           Chained(c, e, life, origin), NEW i \in 1..Len(c.sent_states)
    PROVE  LET link == c.sent_states[i]
           IN  /\ link.num = c.assumed + i - 1
               /\ M!DiffFromBase(c, link.state)
                    = Between(e, life, origin + c.assumed, origin + link.num)
               /\ QueueFits(M!DiffFromBase(c, link.state)) <=> i - 1 <= MaxDiff
<1> DEFINE link == c.sent_states[i]
           a == c.assumed
           n == a + i - 1
<1>1. a \in Nat /\ n \in Int /\ a <= n /\ n - a = i - 1
  BY MessageFields
<1>2. IsLink(link, e, life, origin, a, i)
  BY ChainedFacts
<1>3. link.num = n
  BY <1>2 DEF IsLink
<1>4. PICK b \in 0..a : link.state = QueueAt(e, life, origin, b, n)
  BY <1>2 DEF IsLink
<1> HIDE DEF n
<1>5. b \in Int /\ b <= c.assumed /\ c.assumed <= n
  BY <1>1
<1>6. M!DiffFromBase(c, link.state) = Between(e, life, origin + a, origin + n)
  BY <1>1, <1>4, <1>5, DiffCarries
<1> DEFINE diff == M!DiffFromBase(c, QueueAt(e, life, origin, b, n))
<1>7. Len(diff) = n - c.assumed
  BY <1>1, <1>5, DiffSize
<1> HIDE DEF diff
<1>8. QueueFits(diff) <=> i - 1 <= MaxDiff
  BY <1>1, <1>7 DEF QueueFits
<1>9. diff = M!DiffFromBase(c, link.state)
  BY <1>4 DEF diff
<1> QED
  BY <1>3, <1>6, <1>8, <1>9 DEF n

(* When the whole backlog is too large, the walk through the history gets  *)
(* exactly MaxDiff messages far: at least one, so there is always          *)
(* something to send.                                                      *)
LEMMA ReachableStates ==
    ASSUME NEW c \in MessageChannel, NEW e, NEW life, NEW origin \in Nat,
           Chained(c, e, life, origin), ~M!WholeFits(c)
    PROVE  M!Reachable(c) = 2..(MaxDiff + 1) /\ MaxDiff + 1 <= Len(c.sent_states)
<1>1. /\ c.assumed \in Nat /\ c.current_num \in Nat /\ MaxDiff \in Nat
      /\ c.assumed <= c.current_num
      /\ Len(c.sent_states) = c.current_num - c.assumed + 1
  BY MessageFields, LimitsAssumption, ChainedFacts
<1>2. Len(M!DiffFromBase(c, c.current)) = c.current_num - c.assumed
  <2> DEFINE n == c.current_num
             a == c.assumed
  <2>1. n \in Int /\ a \in Int /\ a <= c.assumed /\ c.assumed <= n
    BY <1>1
  <2>2. c.current = QueueAt(e, life, origin, a, n)
    BY ChainedFacts
  <2> HIDE DEF n, a
  <2>3. Len(M!DiffFromBase(c, QueueAt(e, life, origin, a, n))) = n - c.assumed
    BY <2>1, DiffSize
  <2> QED
    BY <2>2, <2>3 DEF n
<1>3. c.current_num - c.assumed > MaxDiff
  BY <1>1, <1>2 DEF M!WholeFits, QueueFits
<1>4. MaxDiff + 1 <= Len(c.sent_states) /\ Len(c.sent_states) \in Nat
  BY <1>1, <1>3
<1>5. ASSUME NEW i \in 2..Len(c.sent_states)
      PROVE  M!Reaches(c, i) <=> i <= MaxDiff + 1
  <2>1. \A j \in 2..i : QueueFits(M!DiffFromBase(c, c.sent_states[j].state))
                          <=> j - 1 <= MaxDiff
    BY <1>4, LinkDiff
  <2>2. M!Reaches(c, i) <=> \A j \in 2..i : j - 1 <= MaxDiff
    BY <2>1 DEF M!Reaches
  <2> QED
    BY <1>1, <1>4, <2>2
<1>6. M!Reachable(c) = 2..(MaxDiff + 1)
  BY <1>1, <1>4, <1>5 DEF M!Reachable
<1> QED
  BY <1>4, <1>6

(* instruction() never ends in DiffTooLarge. *)
LEMMA MessagesSendable ==
    ASSUME NEW c \in MessageChannel, NEW e, NEW life, NEW origin \in Nat,
           Chained(c, e, life, origin)
    PROVE  M!HasInstruction(c)
<1>1. CASE M!WholeFits(c)
  BY <1>1 DEF M!HasInstruction
<1>2. CASE ~M!WholeFits(c)
  <2>1. 2 \in 2..(MaxDiff + 1)
    BY LimitsAssumption
  <2> QED
    BY <1>2, <2>1, ReachableStates DEF M!HasInstruction
<1> QED
  BY <1>1, <1>2

(* What an instruction of a channel in this state carries. *)
Carries(ins, c, e, life, origin) ==
    /\ ins.old = c.assumed
    /\ ins.new \in Nat /\ c.assumed <= ins.new /\ ins.new <= c.current_num
    /\ ins.diff = Between(e, life, origin + c.assumed, origin + ins.new)
    /\ ins.ack = c.received_num /\ ins.throwaway = c.received_num

(* Channel::instruction: whichever state it settles on, the diff is the    *)
(* messages from assumed up to it.                                         *)
LEMMA InstructionCarries ==
    ASSUME NEW c \in MessageChannel, NEW e, NEW life, NEW origin \in Nat,
           Chained(c, e, life, origin)
    PROVE  Carries(M!Instruction(c), c, e, life, origin)
<1>1. /\ c.assumed \in Nat /\ c.current_num \in Nat /\ c.assumed <= c.current_num
      /\ Len(c.sent_states) = c.current_num - c.assumed + 1
  BY MessageFields, ChainedFacts
<1>2. ASSUME NEW n, NEW q, n \in Nat, c.assumed <= n, n <= c.current_num,
             M!DiffFromBase(c, q) = Between(e, life, origin + c.assumed, origin + n),
             M!Instruction(c) = M!InstructionWith(c, n, M!DiffFromBase(c, q))
      PROVE  Carries(M!Instruction(c), c, e, life, origin)
  BY <1>2 DEF M!InstructionWith, Carries
<1>3. CASE M!WholeFits(c)
  <2>1. M!Instruction(c) = M!InstructionWith(c, c.current_num, M!DiffFromBase(c, c.current))
    BY <1>3 DEF M!Instruction
  <2> DEFINE n == c.current_num
             a == c.assumed
  <2>2. n \in Int /\ a \in Int /\ a <= c.assumed /\ c.assumed <= n
    BY <1>1
  <2>3. c.current = QueueAt(e, life, origin, a, n)
    BY ChainedFacts
  <2> HIDE DEF n, a
  <2>4. M!DiffFromBase(c, c.current) = Between(e, life, origin + c.assumed, origin + n)
    BY <2>2, <2>3, DiffCarries
  <2> QED
    BY <1>1, <1>2, <2>1, <2>4 DEF n
<1>4. CASE ~M!WholeFits(c)
  <2> DEFINE R == M!Reachable(c)
             furthest == CHOOSE i \in R : \A j \in R : j <= i
  <2>1. R = 2..(MaxDiff + 1) /\ MaxDiff + 1 <= Len(c.sent_states)
        /\ MaxDiff \in Nat \ {0} /\ Len(c.sent_states) \in Nat
    BY <1>1, <1>4, ReachableStates, LimitsAssumption
  <2>2. MaxDiff + 1 \in R /\ \A j \in R : j <= MaxDiff + 1
    BY <2>1
  <2>3. \E i \in R : \A j \in R : j <= i
    BY <2>2
  <2>4. furthest \in R
    BY <2>3, Zenon
  <2>5. furthest \in 1..Len(c.sent_states)
    BY <2>1, <2>4
  <2>6. M!Instruction(c) = M!InstructionWith(c, c.sent_states[furthest].num,
                              M!DiffFromBase(c, c.sent_states[furthest].state))
    BY <1>4 DEF M!Instruction
  <2> HIDE DEF furthest
  <2> DEFINE link == c.sent_states[furthest]
  <2>7. /\ link.num = c.assumed + furthest - 1
        /\ M!DiffFromBase(c, link.state)
             = Between(e, life, origin + c.assumed, origin + link.num)
    BY <2>5, LinkDiff
  <2> HIDE DEF link
  <2>9. furthest \in Nat /\ 1 <= furthest /\ furthest <= Len(c.sent_states)
    BY <2>1, <2>5
  <2>8. link.num \in Nat /\ c.assumed <= link.num /\ link.num <= c.current_num
    BY <1>1, <2>9, <2>7
  <2> QED
    BY <1>2, <2>6, <2>7, <2>8 DEF link
<1> QED
  BY <1>3, <1>4

-----------------------------------------------------------------------------
(* Acknowledgements, of either channel. *)

(* A set of numbers has a least one. *)
LEMMA Least ==
    ASSUME NEW T \in SUBSET Nat, T # {}
    PROVE  \E k \in T : \A j \in T : k <= j
<1> DEFINE R == {ss \in Nat \X Nat : ss[1] < ss[2]}
<1>1. OpToRel(<, Nat) = R
  BY Zenon DEF OpToRel
<1>2. IsWellFoundedOn(R, Nat)
  BY <1>1, NatLessThanWellFounded, Zenon
<1> HIDE DEF R
<1>3. PICK k \in T : \A j \in T : <<j, k>> \notin R
  BY <1>2, WFMin
<1>4. ASSUME NEW j \in T
      PROVE  k <= j
  <2>1. j < k => <<j, k>> \in R
    BY Zenon DEF R
  <2> QED
    BY <1>3, <2>1
<1> QED
  BY <1>4

(* A history in front of a state that it holds. *)
IsFront(states, ack, k) ==
    /\ k \in 1..Len(states) /\ states[k].num >= ack
    /\ \A j \in 1..(k - 1) : states[j].num < ack

(* Dropping the states older than one in the history leaves a rest of it. *)
LEMMA DropIsSuffix ==
    ASSUME NEW State, NEW states \in Seq(Entry(State)), NEW ack \in Nat,
           NEW i \in 1..Len(states), states[i].num = ack
    PROVE  \E k \in 1..Len(states) :
              /\ IsFront(states, ack, k)
              /\ M!DropBefore(states, ack) = SubSeq(states, k, Len(states))
              /\ S!DropBefore(states, ack) = SubSeq(states, k, Len(states))
<1> DEFINE T == {j \in 1..Len(states) : states[j].num >= ack}
           front == CHOOSE k \in 1..Len(states) :
                       states[k].num >= ack /\ \A j \in 1..(k - 1) : states[j].num < ack
<1>1. /\ Len(states) \in Nat /\ DOMAIN states = 1..Len(states)
      /\ \A j \in 1..Len(states) : states[j].num \in Nat
  <2>1. \A j \in 1..Len(states) : states[j] \in Entry(State)
    OBVIOUS
  <2>2. \A link \in Entry(State) : link.num \in Nat
    BY DEF Entry
  <2> QED
    BY <2>1, <2>2
<1>2. T \in SUBSET Nat /\ i \in T
  BY <1>1
<1>3. PICK k \in T : \A j \in T : k <= j
  BY <1>2, Least
<1>4. k \in 1..Len(states) /\ states[k].num >= ack
  OBVIOUS
<1>5. \A j \in 1..(k - 1) : states[j].num < ack
  <2> TAKE j \in 1..(k - 1)
  <2>1. j \in 1..Len(states) /\ ~(k <= j)
    BY <1>1, <1>4
  <2>2. j \notin T
    BY <1>3, <2>1
  <2>3. ~(states[j].num >= ack) /\ states[j].num \in Nat
    BY <1>1, <2>1, <2>2
  <2> QED
    BY <2>3
<1> HIDE DEF T
<1>6. /\ front \in 1..Len(states) /\ states[front].num >= ack
      /\ \A j \in 1..(front - 1) : states[j].num < ack
  BY <1>4, <1>5, Zenon
<1>7. /\ M!DropBefore(states, ack) = SubSeq(states, front, Len(states))
      /\ S!DropBefore(states, ack) = SubSeq(states, front, Len(states))
  BY <1>1 DEF M!DropBefore, S!DropBefore
<1> HIDE DEF front
<1>8. IsFront(states, ack, front)
  BY <1>6 DEF IsFront
<1> QED
  BY <1>6, <1>7, <1>8

(* What an acknowledgement does: it moves what is assumed received, but    *)
(* not back nor past what there is.                                        *)
AfterAck(b, c, ack) ==
    /\ b.current_num = c.current_num /\ b.sent_num = c.sent_num
    /\ b.assumed = IF c.assumed <= ack /\ ack <= c.current_num THEN ack ELSE c.assumed

(* Channel::acknowledge, channel 0: an acknowledgement of a state in the   *)
(* history makes that its front.                                           *)
LEMMA AcknowledgeChained ==
    ASSUME NEW c \in MessageChannel, NEW e, NEW life, NEW origin \in Nat,
           Chained(c, e, life, origin), NEW ack \in Nat
    PROVE  LET b == M!Acknowledge(c, ack)
           IN  /\ b \in MessageChannel /\ b.current = c.current
               /\ AfterAck(b, c, ack)
               /\ b.received = c.received /\ b.received_num = c.received_num
               /\ b.assumed <= b.current_num
               /\ Len(b.sent_states) = b.current_num - b.assumed + 1
               /\ \A i \in 1..Len(b.sent_states) :
                     IsLink(b.sent_states[i], e, life, origin, b.assumed, i)
<1> DEFINE b == M!Acknowledge(c, ack)
           a == c.assumed
           num == c.current_num
           states == c.sent_states
<1>1. a \in Nat /\ num \in Nat /\ states \in Seq(Entry(QueueSet)) /\ a <= num
  BY MessageFields, ChainedFacts
<1>2. /\ Len(states) = num - a + 1
      /\ \A i \in 1..Len(states) : IsLink(states[i], e, life, origin, a, i)
  BY ChainedFacts
<1>3. \A i \in 1..Len(states) : states[i].num = a + i - 1
  BY <1>2 DEF IsLink
<1>4. DOMAIN states = 1..Len(states)
  BY <1>1
<1>5. CASE \/ ack <= a
           \/ \A i \in DOMAIN states : states[i].num # ack
  <2>1. b = c
    BY <1>5 DEF M!Acknowledge
  <2>2. ~(a < ack /\ ack <= num)
    <3>1. SUFFICES ASSUME a < ack, ack <= num PROVE FALSE
      OBVIOUS
    <3> DEFINE i == ack - a + 1
    <3> HIDE DEF a, num, states
    <3>2. i \in 1..Len(states) /\ a + i - 1 = ack
      BY <1>1, <1>2, <3>1
    <3> HIDE DEF i
    <3>3. states[i].num = ack /\ i \in DOMAIN states
      BY <1>3, <1>4, <3>2
    <3>4. ~(ack <= a)
      BY <1>1, <3>1
    <3> QED
      BY <1>5, <3>3, <3>4
  <2> QED
    BY <1>1, <1>2, <2>1, <2>2 DEF AfterAck
<1>6. CASE ack > a /\ \E i \in DOMAIN states : states[i].num = ack
  <2>1. b = [c EXCEPT !.assumed = ack, !.sent_states = M!DropBefore(states, ack)]
    BY <1>1, <1>6 DEF M!Acknowledge
  <2>2. PICK i \in 1..Len(states) : states[i].num = ack
    BY <1>4, <1>6
  <2>3. PICK k \in 1..Len(states) :
           /\ IsFront(states, ack, k)
           /\ M!DropBefore(states, ack) = SubSeq(states, k, Len(states))
    BY <1>1, <2>2, DropIsSuffix
  <2> HIDE DEF states
  <2>4. ack = a + k - 1 /\ ack <= num
    <3>1. states[k].num = a + k - 1 /\ a + k - 1 >= ack
      BY <1>3, <2>3 DEF IsFront
    <3>2. ack = a + i - 1 /\ ack <= num
      BY <1>1, <1>2, <1>3, <2>2
    <3>3. ~(i < k)
      <4>1. i < k => i \in 1..(k - 1)
        OBVIOUS
      <4> QED
        BY <2>2, <2>3, <4>1 DEF IsFront
    <3> QED
      BY <1>1, <3>1, <3>2, <3>3
  <2> DEFINE rest == SubSeq(states, k, Len(states))
  <2>5. /\ rest \in Seq(Entry(QueueSet)) /\ Len(rest) = Len(states) - k + 1
        /\ \A j \in 1..Len(rest) : rest[j] = states[k + j - 1] /\ k + j - 1 \in 1..Len(states)
    BY <1>1
  <2> HIDE DEF rest
  <2>6. b \in MessageChannel
    <3>1. rest \in Seq([num : Nat, state : QueueSet])
      BY <2>5 DEF Entry
    <3> QED
      BY <2>1, <2>3, <3>1 DEF MessageChannel, ChannelSet, rest
  <2>7. /\ b.assumed = ack /\ b.sent_states = rest /\ b.current = c.current
        /\ b.current_num = c.current_num /\ b.sent_num = c.sent_num
        /\ b.received = c.received /\ b.received_num = c.received_num
    BY <2>1, <2>3 DEF MessageChannel, ChannelSet, rest
  <2>8. ASSUME NEW j \in 1..Len(rest)
        PROVE  IsLink(rest[j], e, life, origin, ack, j)
    <3> DEFINE l == k + j - 1
    <3>1. l \in 1..Len(states) /\ rest[j] = states[l] /\ a + l - 1 = ack + j - 1
      <4>1. l \in 1..Len(states) /\ rest[j] = states[l]
        BY <2>5
      <4>2. Len(rest) \in Nat /\ j \in Int
        BY <2>5
      <4> HIDE DEF a
      <4> QED
        BY <1>1, <2>4, <4>1, <4>2
    <3> HIDE DEF l
    <3>2. IsLink(states[l], e, life, origin, a, l)
      BY <1>2, <3>1
    <3>3. PICK q \in 0..a : states[l].state = QueueAt(e, life, origin, q, a + l - 1)
      BY <3>2 DEF IsLink
    <3>4. q \in 0..ack /\ states[l].num = a + l - 1
      BY <1>1, <1>6, <3>2 DEF IsLink
    <3> QED
      BY <3>1, <3>3, <3>4 DEF IsLink
  <2>9. Len(rest) = num - ack + 1
    BY SMTT(30), <1>1, <1>2, <2>4, <2>5
  <2> HIDE DEF b, a
  <2>10. a < ack
    BY <1>6
  <2>11. AfterAck(b, c, ack)
    BY <1>1, <2>4, <2>7, <2>10 DEF AfterAck, a
  <2> QED
    BY <1>1, <2>4, <2>6, <2>7, <2>8, <2>9, <2>10, <2>11 DEF b, a
<1> QED
  BY <1>1, <1>5, <1>6

(* The sending half of Channel::apply: what is acknowledged is released,   *)
(* and no more.                                                            *)
LEMMA AcknowledgedChained ==
    ASSUME NEW c \in MessageChannel, NEW e \in Endpoint, NEW life \in Nat, NEW origin \in Nat,
           Chained(c, e, life, origin), NEW ins, ins.ack \in Nat, ins.throwaway = ins.ack
    PROVE  LET d == M!Acknowledged(c, ins)
           IN  /\ d \in MessageChannel /\ Chained(d, e, life, origin)
               /\ AfterAck(d, c, ins.ack)
               /\ d.received = c.received /\ d.received_num = c.received_num
<1> DEFINE ack == ins.ack
           b == M!Acknowledge(c, ack)
           upto == IF ack <= b.assumed THEN ack ELSE b.assumed
           q == PruneThrough(b.current, upto)
           d == M!Acknowledged(c, ins)
<1>1. /\ b \in MessageChannel /\ b.current = c.current
      /\ AfterAck(b, c, ack)
      /\ b.received = c.received /\ b.received_num = c.received_num
      /\ b.assumed <= b.current_num
      /\ Len(b.sent_states) = b.current_num - b.assumed + 1
      /\ \A i \in 1..Len(b.sent_states) :
            IsLink(b.sent_states[i], e, life, origin, b.assumed, i)
  BY AcknowledgeChained
<1>2. d = [b EXCEPT !.current = q]
  BY DEF M!Acknowledged
<1>3. ack \in Nat
  OBVIOUS
<1> HIDE DEF b, d, ack
<1> DEFINE a == c.assumed
           num == c.current_num
           to == b.assumed
<1>4. /\ a \in Nat /\ num \in Nat /\ a <= num /\ to \in Nat
      /\ c.current = QueueAt(e, life, origin, a, num) /\ c.received.messages = <<>>
  BY <1>1, MessageFields, ChainedFacts
<1>5. to = IF a <= ack /\ ack <= num THEN ack ELSE a
  BY <1>1 DEF AfterAck
<1>6. b.current_num = num /\ to <= num
  BY <1>1 DEF AfterAck
<1> HIDE DEF a, num, to
<1>7. upto = IF ack <= to THEN ack ELSE to
  BY DEF to
<1> HIDE DEF upto
<1>8. upto \in Int /\ (IF upto <= a THEN a ELSE IF upto <= num THEN upto ELSE num) = to
  BY <1>3, <1>4, <1>5, <1>6, <1>7
<1>9. q = QueueAt(e, life, origin, to, num)
  BY <1>1, <1>4, <1>8, PruneAt
<1> HIDE DEF q
<1>10. q \in QueueSet
  <2>1. to \in Int /\ num \in Int /\ 0 <= to /\ to <= num /\ 0 <= origin
    BY <1>4, <1>6
  <2>2. QueueAt(e, life, origin, to, num) \in QueueSet
    BY <2>1, QueueInSet
  <2> QED
    BY <1>9, <2>2
<1>11. d \in MessageChannel
  BY <1>1, <1>2, <1>10 DEF MessageChannel, ChannelSet
<1>12. /\ d.current = q /\ d.current_num = b.current_num /\ d.assumed = b.assumed
       /\ d.sent_num = b.sent_num /\ d.sent_states = b.sent_states
       /\ d.received = b.received /\ d.received_num = b.received_num
  BY <1>1, <1>2 DEF MessageChannel, ChannelSet
<1>13. Chained(d, e, life, origin)
  BY <1>1, <1>4, <1>6, <1>9, <1>11, <1>12, IsChained DEF to
<1>14. AfterAck(d, c, ack)
  BY <1>1, <1>12 DEF AfterAck
<1> QED
  BY <1>1, <1>11, <1>12, <1>13, <1>14 DEF d, ack

(* An instruction on channel 0 as it arrives. *)
IsInstruction(ins) ==
    /\ {ins.old, ins.new, ins.ack, ins.throwaway} \subseteq Nat
    /\ ins.diff \in Seq(MessageSet)

(* Channel::apply, channel 0, and the drain of what it brings. *)
LEMMA ApplyChained ==
    ASSUME NEW c \in MessageChannel, NEW e \in Endpoint, NEW life \in Nat, NEW origin \in Nat,
           Chained(c, e, life, origin), NEW ins, IsInstruction(ins), ins.throwaway = ins.ack
    PROVE  LET b == M!Apply(c, ins)
               d == IF M!ApplyFails(c, ins) THEN b
                    ELSE [b EXCEPT !.received = Drained(b.received)]
           IN  /\ d \in MessageChannel /\ Chained(d, e, life, origin)
               /\ AfterAck(d, c, ins.ack)
               /\ \/ /\ ~M!ApplyFails(c, ins) /\ ins.old = c.received_num
                     /\ b.received.messages = ins.diff /\ d.received_num = ins.new
                  \/ /\ M!ApplyFails(c, ins) \/ b.received.messages = <<>>
                     /\ d.received_num = c.received_num
<1> DEFINE g == M!Acknowledged(c, ins)
           b == M!Apply(c, ins)
           r == QueueApply(c.received, ins.diff)
           d == IF M!ApplyFails(c, ins) THEN b
                ELSE [b EXCEPT !.received = Drained(b.received)]
<1>1. /\ g \in MessageChannel /\ Chained(g, e, life, origin) /\ AfterAck(g, c, ins.ack)
      /\ g.received = c.received /\ g.received_num = c.received_num
  BY AcknowledgedChained DEF IsInstruction
<1>2. /\ c.received \in QueueSet /\ c.received.messages = <<>> /\ g.received.messages = <<>>
      /\ ins.new \in Nat /\ ins.diff \in Seq(MessageSet)
  BY <1>1, MessageFields, ChainedFacts DEF IsInstruction
<1>3. ASSUME NEW h \in MessageChannel, NEW q \in QueueSet, NEW num \in Nat,
             h = [g EXCEPT !.received = q, !.received_num = num], q.messages = <<>>
      PROVE  Chained(h, e, life, origin) /\ AfterAck(h, c, ins.ack) /\ h.received_num = num
  <2>1. /\ h.current = g.current /\ h.current_num = g.current_num
        /\ h.sent_states = g.sent_states /\ h.assumed = g.assumed /\ h.sent_num = g.sent_num
        /\ h.received = q /\ h.received_num = num
    BY <1>1, <1>3 DEF MessageChannel, ChannelSet
  <2>2. Chained(h, e, life, origin)
    BY <1>1, <1>3, <2>1 DEF Chained
  <2> QED
    BY <1>1, <2>1, <2>2 DEF AfterAck
<1> HIDE DEF g
<1>4. CASE M!Matches(c, ins) /\ QueueAccepts(c.received, ins.diff)
  <2> DEFINE q == Drained(r)
  <2>1. b = [g EXCEPT !.received = r, !.received_num = ins.new] /\ ~M!ApplyFails(c, ins)
    BY <1>4 DEF M!Apply, M!ApplyFails, g
  <2>2. r \in QueueSet /\ r.messages = ins.diff
    BY <1>2 DEF QueueApply, QueueSet
  <2>3. q \in QueueSet /\ q.messages = <<>>
    BY <2>2 DEF Drained, QueueSet, Num
  <2> HIDE DEF r
  <2>4. b.received = r
    BY <1>1, <2>1 DEF MessageChannel, ChannelSet
  <2>5. d = [b EXCEPT !.received = q]
    BY <2>1, <2>4
  <2> HIDE DEF q, b, d
  <2>6. d = [g EXCEPT !.received = q, !.received_num = ins.new]
    BY <1>1, <2>1, <2>5 DEF MessageChannel, ChannelSet
  <2>7. d \in MessageChannel
    BY <1>1, <1>2, <2>3, <2>6 DEF MessageChannel, ChannelSet
  <2>8. Chained(d, e, life, origin) /\ AfterAck(d, c, ins.ack) /\ d.received_num = ins.new
    BY <1>2, <1>3, <2>3, <2>6, <2>7
  <2>9. ins.old = c.received_num
    BY <1>4 DEF M!Matches
  <2> QED
    BY <2>1, <2>2, <2>4, <2>7, <2>8, <2>9 DEF b, d
<1>5. CASE ~(M!Matches(c, ins) /\ QueueAccepts(c.received, ins.diff))
  <2>1. b = g
    BY <1>5 DEF M!Apply, g
  <2>2. CASE M!ApplyFails(c, ins)
    BY <1>1, <2>1, <2>2
  <2>3. CASE ~M!ApplyFails(c, ins)
    <3> DEFINE q == Drained(g.received)
    <3>1. d = [g EXCEPT !.received = q]
      BY <2>1, <2>3
    <3>2. q \in QueueSet /\ q.messages = <<>> /\ g.received_num \in Nat
      BY <1>1, <1>2, MessageFields DEF Drained, QueueSet, Num
    <3> HIDE DEF q, b, d
    <3>3. d = [g EXCEPT !.received = q, !.received_num = g.received_num]
      BY <1>1, <3>1 DEF MessageChannel, ChannelSet
    <3>4. d \in MessageChannel
      BY <1>1, <3>1, <3>2 DEF MessageChannel, ChannelSet
    <3>5. Chained(d, e, life, origin) /\ AfterAck(d, c, ins.ack)
          /\ d.received_num = g.received_num
      BY <1>3, <3>2, <3>3, <3>4
    <3> QED
      BY <1>1, <1>2, <2>1, <3>4, <3>5 DEF b, d
  <2> QED
    BY <2>2, <2>3
<1> QED
  BY <1>4, <1>5

-----------------------------------------------------------------------------
(* The reset of channel 0. *)

(* A history whose states are numbered from 0. *)
Link(e, life, o, n) == [num |-> n, state |-> QueueAt(e, life, o, 0, n)]

ChainOf(e, life, o, n) == [j \in 1..n |-> Link(e, life, o, j - 1)]

LEMMA LinkFacts ==
    ASSUME NEW e, NEW life, NEW o \in Int, NEW n \in Int,
           e \in Endpoint, life \in Nat, 0 <= o, 0 <= n
    PROVE  /\ Link(e, life, o, n) \in Entry(QueueSet)
           /\ Link(e, life, o, n).num = n /\ Num(Link(e, life, o, n).state) = n
           /\ Link(e, life, o, n).state = QueueAt(e, life, o, 0, n)
<1>1. QueueAt(e, life, o, 0, n) \in QueueSet /\ Num(QueueAt(e, life, o, 0, n)) = n
  <2> DEFINE b == 0
  <2>1. b \in Int /\ 0 <= b /\ b <= n
    OBVIOUS
  <2> HIDE DEF b
  <2>2. QueueAt(e, life, o, b, n) \in QueueSet /\ Num(QueueAt(e, life, o, b, n)) = n
    BY <2>1, QueueInSet, QueueFacts
  <2> QED
    BY <2>2 DEF b
<1> QED
  BY <1>1 DEF Link, Entry

LEMMA ChainFacts ==
    ASSUME NEW e, NEW life, NEW o \in Int, NEW n \in Int,
           e \in Endpoint, life \in Nat, 0 <= o, 0 <= n
    PROVE  /\ ChainOf(e, life, o, n) \in Seq(Entry(QueueSet))
           /\ Len(ChainOf(e, life, o, n)) = n
           /\ \A j \in 1..n : ChainOf(e, life, o, n)[j] = Link(e, life, o, j - 1)
<1>1. \A j \in 1..n : Link(e, life, o, j - 1) \in Entry(QueueSet)
  <2> TAKE j \in 1..n
  <2> DEFINE i == j - 1
  <2>1. i \in Int /\ 0 <= i
    OBVIOUS
  <2> HIDE DEF i
  <2>2. Link(e, life, o, i) \in Entry(QueueSet)
    BY <2>1, LinkFacts
  <2> QED
    BY <2>2 DEF i
<1>2. ChainOf(e, life, o, n) \in [1..n -> Entry(QueueSet)]
  BY <1>1 DEF ChainOf
<1> QED
  BY <1>2 DEF ChainOf

(* One state more. *)
LEMMA ChainGrows ==
    ASSUME NEW e, NEW life, NEW o \in Int, NEW n \in Int,
           e \in Endpoint, life \in Nat, 0 <= o, 1 <= n
    PROVE  WithState(ChainOf(e, life, o, n), QueueAt(e, life, o, 0, n))
             = ChainOf(e, life, o, n + 1)
<1> DEFINE states == ChainOf(e, life, o, n)
           last == n + 1
           more == ChainOf(e, life, o, last)
           q == QueueAt(e, life, o, 0, n)
           all == Append(states, [num |-> Num(q), state |-> q])
<1>1. /\ states \in Seq(Entry(QueueSet)) /\ Len(states) = n
      /\ \A j \in 1..n : states[j] = Link(e, life, o, j - 1)
  BY ChainFacts
<1>2. last \in Int /\ 0 <= last
  OBVIOUS
<1>3. last = n + 1
  OBVIOUS
<1> HIDE DEF last
<1>4. /\ more \in Seq(Entry(QueueSet)) /\ Len(more) = last
      /\ \A j \in 1..last : more[j] = Link(e, life, o, j - 1)
  BY <1>2, ChainFacts
<1>5. /\ Link(e, life, o, n) \in Entry(QueueSet)
      /\ Num(q) = n /\ Link(e, life, o, n) = [num |-> n, state |-> q]
  BY LinkFacts DEF Link
<1>6. Last(states).num = n - 1
  <2> DEFINE i == n - 1
  <2>1. Last(states) = Link(e, life, o, i)
    BY <1>1 DEF Last
  <2>2. i \in Int /\ 0 <= i
    OBVIOUS
  <2> HIDE DEF i
  <2>3. Link(e, life, o, i).num = i
    BY <2>2, LinkFacts
  <2> QED
    BY <2>1, <2>3 DEF i
<1> HIDE DEF states, more, q
<1>7. WithState(states, q) = Append(states, Link(e, life, o, n))
  BY <1>5, <1>6 DEF WithState
<1>8. Append(states, Link(e, life, o, n)) = more
  <2> DEFINE u == Append(states, Link(e, life, o, n))
  <2>1. u \in Seq(Entry(QueueSet)) /\ Len(u) = last /\ u[last] = Link(e, life, o, n)
        /\ \A j \in 1..n : u[j] = states[j]
    BY <1>1, <1>3, <1>5
  <2> HIDE DEF u
  <2>2. ASSUME NEW j \in 1..last
        PROVE  u[j] = more[j]
    <3>1. CASE j \in 1..n
      BY <1>1, <1>4, <2>1, <3>1
    <3>2. CASE j = last
      <4>1. j - 1 = n
        BY <1>3, <3>2
      <4> QED
        BY <1>4, <2>1, <3>2, <4>1
    <3> QED
      BY <1>3, <3>1, <3>2
  <2>3. u = more
    BY <1>4, <2>1, <2>2, SeqEqual
  <2> QED
    BY <2>3 DEF u
<1> QED
  BY <1>3, <1>7, <1>8 DEF states, more, q

LEMMA ChainStarts ==
    ASSUME NEW e, NEW life, NEW o \in Int
    PROVE  ChainOf(e, life, o, 1) = <<InitialQueueState>>
<1>1. Between(e, life, o, o) = <<>>
  BY DEF Between
<1>2. QueueAt(e, life, o, 0, 0) = EmptyQueue
  BY <1>1 DEF QueueAt, EmptyQueue
<1>3. Link(e, life, o, 0) = InitialQueueState
  BY <1>2 DEF Link, InitialQueueState
<1>4. ChainOf(e, life, o, 1) = [j \in 1..1 |-> InitialQueueState]
  BY <1>3 DEF ChainOf
<1> QED
  BY <1>4

(* A state of the history, rebased. *)
LEMMA LinkRebased ==
    ASSUME NEW e, NEW life, NEW origin \in Int, NEW a \in Int, NEW i \in Int, 0 <= a, 1 <= i,
           NEW link, IsLink(link, e, life, origin, a, i)
    PROVE  ResetOrigin(PruneThrough(link.state, a)) = QueueAt(e, life, origin + a, 0, i - 1)
<1> DEFINE n == a + i - 1
<1>1. PICK b \in 0..a : link.state = QueueAt(e, life, origin, b, n)
  BY DEF IsLink
<1>2. n \in Int /\ b \in Int /\ b <= n /\ n - a = i - 1 /\ a <= n
  OBVIOUS
<1> HIDE DEF n
<1>3. PruneThrough(QueueAt(e, life, origin, b, n), a)
        = QueueAt(e, life, origin, IF a <= b THEN b ELSE IF a <= n THEN a ELSE n, n)
  BY <1>2, PruneAt
<1>4. (IF a <= b THEN b ELSE IF a <= n THEN a ELSE n) = a
  BY <1>2
<1>5. ResetOrigin(QueueAt(e, life, origin, a, n)) = QueueAt(e, life, origin + a, 0, n - a)
  BY <1>2, ResetAt
<1> QED
  BY <1>1, <1>2, <1>3, <1>4, <1>5

(* Rebased keeps the states that are not acknowledged, numbered from one:  *)
(* the recursion has this solution, and no other.                          *)
LEMMA RebasedChain ==
    ASSUME NEW c \in MessageChannel, NEW e \in Endpoint, NEW life \in Nat, NEW origin \in Nat,
           Chained(c, e, life, origin)
    PROVE  Rebased(c)[Len(c.sent_states)]
             = ChainOf(e, life, origin + c.assumed, Len(c.sent_states))
<1> DEFINE a == c.assumed
           o == origin + a
           states == c.sent_states
           len == Len(states)
           Step(f, i) == IF i = 0 THEN <<InitialQueueState>>
                         ELSE IF states[i].num <= c.assumed THEN f[i - 1]
                         ELSE WithState(f[i - 1],
                                ResetOrigin(PruneThrough(states[i].state, c.assumed)))
           Solves(f) == f = [i \in 0..len |-> Step(f, i)]
           W == [i \in 0..len |-> ChainOf(e, life, o, IF i <= 1 THEN 1 ELSE i)]
<1>1. Rebased(c) = CHOOSE f : Solves(f)
  BY DEF Rebased
<1>2. /\ a \in Nat /\ o \in Int /\ 0 <= o /\ len \in Nat /\ len > 0
      /\ \A i \in 1..len : IsLink(states[i], e, life, origin, a, i)
  <2>1. /\ c.assumed \in Nat /\ c.current_num \in Nat
        /\ c.sent_states \in Seq(Entry(QueueSet))
    BY MessageFields
  <2>2. /\ c.assumed <= c.current_num
        /\ Len(c.sent_states) = c.current_num - c.assumed + 1
        /\ \A i \in 1..Len(c.sent_states) :
              IsLink(c.sent_states[i], e, life, origin, c.assumed, i)
    BY ChainedFacts
  <2> QED
    BY <2>1, <2>2
<1> HIDE DEF a, o, states, len
<1>3. \A i \in 1..len : states[i].num = a + i - 1
  BY <1>2 DEF IsLink
<1>4. ASSUME NEW i \in 0..len, NEW f, i > 0 => f[i - 1] = W[i - 1]
      PROVE  Step(f, i) = W[i]
  <2>1. CASE i = 0
    BY <1>2, <2>1, ChainStarts
  <2>2. CASE i = 1
    <3>1. states[i].num <= c.assumed
      BY <1>2, <1>3, <2>2 DEF a
    <3>2. Step(f, i) = f[i - 1] /\ f[i - 1] = W[0]
      BY <1>4, <2>2, <3>1
    <3>3. W[0] = W[i]
      BY <1>2, <2>2
    <3> QED
      BY <3>2, <3>3
  <2>3. CASE i > 1
    <3> DEFINE n == i - 1
    <3>1. n \in Int /\ 1 <= n /\ n + 1 = i /\ n \in 0..len /\ i \in 1..len
      BY <1>2, <2>3
    <3>2. ~(states[i].num <= c.assumed)
      BY <1>2, <1>3, <2>3, <3>1 DEF a
    <3>3. ResetOrigin(PruneThrough(states[i].state, a)) = QueueAt(e, life, o, 0, n)
      <4>1. IsLink(states[i], e, life, origin, a, i) /\ 0 <= a /\ 1 <= i
        BY <1>2, <3>1
      <4> QED
        BY <1>2, <4>1, LinkRebased DEF o
    <3>4. f[i - 1] = W[n] /\ i # 0
      BY <1>4, <2>3
    <3> HIDE DEF n
    <3>5. W[n] = ChainOf(e, life, o, n) /\ W[i] = ChainOf(e, life, o, i)
      BY <2>3, <3>1
    <3>6. Step(f, i) = WithState(ChainOf(e, life, o, n), QueueAt(e, life, o, 0, n))
      BY <3>2, <3>3, <3>4, <3>5 DEF a
    <3>7. WithState(ChainOf(e, life, o, n), QueueAt(e, life, o, 0, n)) = ChainOf(e, life, o, n + 1)
      BY <1>2, <3>1, ChainGrows
    <3> QED
      BY <3>1, <3>5, <3>6, <3>7
  <2> QED
    BY <2>1, <2>2, <2>3
<1>5. Solves(W)
  <2>1. \A i \in 0..len : i > 0 => W[i - 1] = W[i - 1]
    OBVIOUS
  <2>2. \A i \in 0..len : Step(W, i) = W[i]
    BY <1>4, <2>1
  <2> HIDE DEF Step
  <2> QED
    BY <2>2
<1>6. Solves(Rebased(c))
  <2> HIDE DEF Solves
  <2> QED
    BY <1>1, <1>5, Zenon
<1>7. ASSUME NEW f, Solves(f)
      PROVE  \A i \in 0..len : f[i] = W[i]
  <2> DEFINE bad == {i \in 0..len : f[i] # W[i]}
  <2>1. \A i \in 0..len : f[i] = Step(f, i)
    <3> HIDE DEF Step
    <3> QED
      BY <1>7
  <2> HIDE DEF Step, W
  <2>2. SUFFICES ASSUME bad # {}
                 PROVE  FALSE
    OBVIOUS
  <2>3. bad \in SUBSET Nat
    BY <1>2
  <2>4. PICK i \in bad : \A j \in bad : i <= j
    BY <2>2, <2>3, Least
  <2>5. i \in 0..len /\ f[i] # W[i]
    OBVIOUS
  <2>6. i > 0 => f[i - 1] = W[i - 1]
    <3>1. i > 0 => i - 1 \in 0..len /\ ~(i <= i - 1)
      BY <1>2, <2>5
    <3> QED
      BY <2>4, <3>1
  <2>7. Step(f, i) = W[i]
    BY <1>4, <2>5, <2>6
  <2> QED
    BY <2>1, <2>5, <2>7
<1>8. Rebased(c)[len] = W[len]
  <2>1. len \in 0..len
    BY <1>2
  <2> HIDE DEF Solves, W
  <2> QED
    BY <1>6, <1>7, <2>1
<1>9. W[len] = ChainOf(e, life, o, len)
  <2>1. len \in 0..len /\ (IF len <= 1 THEN 1 ELSE len) = len
    BY <1>2
  <2> QED
    BY <2>1
<1> QED
  BY <1>8, <1>9 DEF o, a, len, states

(* Channel::reset_peer, channel 0: what the peer did not acknowledge is    *)
(* numbered from one again, nothing of it is lost, and nothing is known of *)
(* the peer.                                                               *)
LEMMA ResetChained ==
    ASSUME NEW c \in MessageChannel, NEW e \in Endpoint, NEW life \in Nat, NEW origin \in Nat,
           Chained(c, e, life, origin)
    PROVE  LET d == ResetMessages(c)
           IN  /\ d \in MessageChannel /\ Chained(d, e, life, origin + c.assumed)
               /\ d.current_num = c.current_num - c.assumed
               /\ d.assumed = 0 /\ d.received_num = 0
<1> DEFINE a == c.assumed
           o == origin + a
           n == c.current_num - a
           q == ResetOrigin(c.current)
           states == ChainOf(e, life, o, n + 1)
           new == M!New(EmptyQueue)
           d == ResetMessages(c)
<1>1. /\ a \in Nat /\ c.current_num \in Nat /\ a <= c.current_num
      /\ c.current = QueueAt(e, life, origin, a, c.current_num)
      /\ Len(c.sent_states) = n + 1
  BY MessageFields, ChainedFacts
<1>2. o \in Int /\ n \in Int /\ 0 <= o /\ 0 <= n /\ n \in Nat
  BY <1>1
<1>3. q = QueueAt(e, life, o, 0, n)
  BY <1>1, ResetAt
<1>4. Rebased(c)[Len(c.sent_states)] = states
  BY <1>1, RebasedChain
<1> DEFINE last == n + 1
           zero == 0
<1>5. last \in Int /\ 0 <= last /\ zero \in Int /\ 0 <= zero /\ zero <= n /\ zero \in 0..zero
  BY <1>2
<1>6. states = ChainOf(e, life, o, last) /\ q = QueueAt(e, life, o, zero, n)
  BY <1>3
<1> HIDE DEF zero, last, a, n, o
<1>7. /\ states \in Seq(Entry(QueueSet)) /\ Len(states) = last
      /\ \A j \in 1..last : states[j] = Link(e, life, o, j - 1)
  BY <1>2, <1>5, <1>6, ChainFacts
<1>8. q \in QueueSet /\ Num(q) = n
  BY <1>2, <1>5, <1>6, QueueInSet, QueueFacts
<1> HIDE DEF states, q
<1>9. Last(states) = Link(e, life, o, n)
  <2>1. last - 1 = n /\ last \in 1..last
    BY <1>2, <1>5 DEF last
  <2> QED
    BY <1>7, <2>1 DEF Last
<1>10. Last(states).num = n
  BY <1>2, <1>9, LinkFacts
<1>11. WithState(states, q) = states
  BY <1>8, <1>10 DEF WithState
<1>12. d = [new EXCEPT !.current = q, !.current_num = n, !.sent_states = states]
  <2>1. q = ResetOrigin(c.current)
    BY DEF q
  <2> QED
    BY <1>4, <1>8, <1>11, <2>1 DEF ResetMessages
<1>13. /\ EmptyQueue \in QueueSet /\ EmptyQueue.messages = <<>>
  BY DEF EmptyQueue, QueueSet
<1>14. d = [current |-> q, current_num |-> n, sent_states |-> states, assumed |-> 0,
            received |-> EmptyQueue, received_num |-> 0, sent_num |-> 0]
  BY <1>12 DEF M!New
<1> HIDE DEF d
<1>15. d \in MessageChannel
  <2>1. states \in Seq([num : Nat, state : QueueSet])
    BY <1>7 DEF Entry
  <2> QED
    BY <1>2, <1>8, <1>13, <1>14, <2>1 DEF MessageChannel, ChannelSet
<1>16. /\ d.current = q /\ d.current_num = n /\ d.sent_states = states /\ d.assumed = zero
       /\ d.received = EmptyQueue /\ d.received_num = 0
  BY <1>14 DEF zero
<1>17. ASSUME NEW i \in 1..Len(d.sent_states)
       PROVE  IsLink(d.sent_states[i], e, life, o, d.assumed, i)
  <2> DEFINE k == i - 1
  <2>1. i \in 1..last /\ k \in Int /\ 0 <= k /\ zero + i - 1 = k
    BY <1>7, <1>16 DEF zero
  <2>2. d.sent_states[i] = Link(e, life, o, k)
    BY <1>7, <1>16, <2>1
  <2> HIDE DEF k
  <2>3. /\ Link(e, life, o, k).num = k
        /\ Link(e, life, o, k).state = QueueAt(e, life, o, zero, k)
    BY <1>2, <2>1, LinkFacts DEF zero
  <2> QED
    BY <1>5, <1>16, <2>1, <2>2, <2>3 DEF IsLink
<1>18. Len(d.sent_states) = n - zero + 1 /\ zero <= n
  BY <1>2, <1>7, <1>16 DEF last, zero
<1>19. Chained(d, e, life, o)
  BY <1>6, <1>13, <1>15, <1>16, <1>17, <1>18, IsChained
<1> QED
  BY <1>15, <1>16, <1>19 DEF d, o, a, n, zero

(* A new session's channel 0. *)
LEMMA NewChained ==
    ASSUME NEW e \in Endpoint, NEW life \in Nat
    PROVE  LET d == M!New(EmptyQueue)
           IN  /\ d \in MessageChannel /\ Chained(d, e, life, 0)
               /\ d.current_num = 0 /\ d.assumed = 0 /\ d.received_num = 0
<1> DEFINE d == M!New(EmptyQueue)
           zero == 0
           link == [num |-> 0, state |-> EmptyQueue]
<1>1. Between(e, life, 0, 0) = <<>>
  BY DEF Between
<1>2. QueueAt(e, life, 0, 0, 0) = EmptyQueue
  BY <1>1 DEF QueueAt, EmptyQueue
<1>3. EmptyQueue \in QueueSet /\ EmptyQueue.messages = <<>>
  BY DEF EmptyQueue, QueueSet
<1>4. d = [current |-> EmptyQueue, current_num |-> 0, sent_states |-> <<link>>,
           assumed |-> 0, received |-> EmptyQueue, received_num |-> 0, sent_num |-> 0]
  BY DEF M!New
<1>5. link \in [num : Nat, state : QueueSet] /\ link.num = 0 /\ link.state = EmptyQueue
  BY <1>3
<1> HIDE DEF link, d
<1>6. <<link>> \in Seq([num : Nat, state : QueueSet]) /\ Len(<<link>>) = 1 /\ <<link>>[1] = link
  BY <1>5
<1>7. d \in MessageChannel
  BY <1>3, <1>4, <1>6 DEF MessageChannel, ChannelSet
<1>8. /\ d.current = EmptyQueue /\ d.current_num = 0 /\ d.sent_states = <<link>>
      /\ d.assumed = 0 /\ d.received = EmptyQueue /\ d.received_num = 0
  BY <1>4
<1>9. IsLink(link, e, life, 0, 0, 1)
  <2>1. 0 \in 0..0 /\ 0 + 1 - 1 = 0
    OBVIOUS
  <2> QED
    BY <1>2, <1>5, <2>1 DEF IsLink
<1>10. Chained(d, e, life, 0)
  <2>1. \A i \in 1..Len(d.sent_states) : IsLink(d.sent_states[i], e, life, 0, d.assumed, i)
    <3> TAKE i \in 1..Len(d.sent_states)
    <3>1. i = 1
      BY <1>6, <1>8
    <3> QED
      BY <1>6, <1>8, <1>9, <3>1
  <2>2. d.assumed <= d.current_num /\ Len(d.sent_states) = d.current_num - d.assumed + 1
    BY <1>6, <1>8
  <2>3. d.current = QueueAt(e, life, 0, d.assumed, d.current_num)
    BY <1>2, <1>8
  <2>4. d.received.messages = <<>>
    BY <1>3, <1>8
  <2> QED
    BY <1>7, <2>1, <2>2, <2>3, <2>4, IsChained
<1> QED
  BY <1>7, <1>8, <1>10 DEF d

-----------------------------------------------------------------------------
(* Channel 1: the grids, each a datagram away from the one before. *)

Grid == Seq(RowSet)

ScreenChannel == ChannelSet(Grid)

LEMMA ScreenFields ==
    ASSUME NEW c \in ScreenChannel
    PROVE  /\ c.current \in Grid /\ c.received \in Grid
           /\ c.sent_states \in Seq(Entry(Grid))
           /\ c.current_num \in Nat /\ c.assumed \in Nat
           /\ c.received_num \in Nat /\ c.sent_num \in Nat
BY DEF ScreenChannel, ChannelSet, Entry

(* Two states of a history that follow each other. *)
StepFits(states, i) == GridFits(GridDiff(states[i].state, states[i - 1].state))

LEMMA FitsFacts ==
    ASSUME NEW c \in ScreenChannel, StepsFit(c)
    PROVE  /\ Len(c.sent_states) \in Nat /\ Len(c.sent_states) > 0
           /\ c.current = c.sent_states[Len(c.sent_states)].state
           /\ \A i \in 2..Len(c.sent_states) : StepFits(c.sent_states, i)
BY ScreenFields DEF StepsFit, StepFits

LEMMA IsFitting ==
    ASSUME NEW c \in ScreenChannel, Len(c.sent_states) > 0,
           c.current = c.sent_states[Len(c.sent_states)].state,
           \A i \in 2..Len(c.sent_states) : StepFits(c.sent_states, i)
    PROVE  StepsFit(c)
BY ScreenFields DEF StepsFit, StepFits

(* Channel::advance to a grid that is a datagram away. *)
LEMMA AdvanceFits ==
    ASSUME NEW c \in ScreenChannel, StepsFit(c), NEW g \in Grid,
           GridFits(GridDiff(g, c.current))
    PROVE  S!Advance(c, g) \in ScreenChannel /\ StepsFit(S!Advance(c, g))
<1> DEFINE d == S!Advance(c, g)
           states == c.sent_states
           n == Len(states)
           link == [num |-> c.current_num + 1, state |-> g]
           more == Append(states, link)
<1>1. /\ states \in Seq(Entry(Grid)) /\ n \in Nat /\ n > 0 /\ c.current_num \in Nat
      /\ c.current = states[n].state
      /\ \A i \in 2..n : StepFits(states, i)
  BY ScreenFields, FitsFacts
<1>2. d = [c EXCEPT !.current = g, !.current_num = c.current_num + 1, !.sent_states = more]
  BY DEF S!Advance
<1>3. link \in Entry(Grid) /\ link.state = g
  BY <1>1 DEF Entry
<1> HIDE DEF link, d, states
<1>4. /\ more \in Seq(Entry(Grid)) /\ Len(more) = n + 1 /\ more[n + 1] = link
      /\ \A i \in 1..n : more[i] = states[i]
  BY <1>1, <1>3
<1> HIDE DEF more, n
<1>5. d \in ScreenChannel
  <2>1. more \in Seq([num : Nat, state : Grid]) /\ c.current_num + 1 \in Nat
    BY <1>1, <1>4 DEF Entry
  <2> QED
    BY <1>2, <2>1 DEF ScreenChannel, ChannelSet
<1>6. d.current = g /\ d.sent_states = more
  BY <1>2 DEF ScreenChannel, ChannelSet
<1>7. ASSUME NEW i \in 2..Len(more)
      PROVE  StepFits(more, i)
  <2>1. CASE i \in 2..n
    <3>1. more[i] = states[i] /\ more[i - 1] = states[i - 1]
      BY <1>1, <1>4, <2>1
    <3> QED
      BY <1>1, <2>1, <3>1 DEF StepFits
  <2>2. CASE i = n + 1
    <3>1. more[i] = link /\ more[i - 1] = states[n]
      BY <1>1, <1>4, <2>2
    <3> QED
      BY <1>1, <1>3, <3>1 DEF StepFits
  <2> QED
    BY <1>1, <1>4, <2>1, <2>2
<1>8. StepsFit(d)
  BY <1>1, <1>3, <1>4, <1>5, <1>6, <1>7, IsFitting
<1> QED
  BY <1>5, <1>8 DEF d

(* Nothing differs from itself. *)
LEMMA SameGrid ==
    ASSUME NEW g
    PROVE  GridFits(GridDiff(g, g))
<1>1. ChangedRows(g, g) = {}
  BY DEF ChangedRows
<1>2. DOMAIN GridDiff(g, g).updates = {}
  BY <1>1 DEF GridDiff
<1>3. Cardinality({}) = 0
  BY FS_EmptySet
<1> QED
  BY <1>2, <1>3, MaxChangedAssumption DEF GridFits

(* instruction() never ends in DiffTooLarge. *)
LEMMA ScreenSendable ==
    ASSUME NEW c \in ScreenChannel, StepsFit(c)
    PROVE  S!HasInstruction(c)
<1> DEFINE n == Len(c.sent_states)
<1>1. n \in Nat /\ n > 0 /\ c.current = c.sent_states[n].state
  BY FitsFacts
<1>2. CASE n = 1
  <2>1. S!DiffFromBase(c, c.current) = GridDiff(c.current, c.current)
    BY <1>1, <1>2 DEF S!DiffFromBase
  <2>2. S!WholeFits(c)
    BY <2>1, SameGrid DEF S!WholeFits
  <2> QED
    BY <2>2 DEF S!HasInstruction
<1>3. CASE n > 1
  <2>1. StepFits(c.sent_states, 2)
    BY <1>1, <1>3, FitsFacts
  <2>2. GridFits(S!DiffFromBase(c, c.sent_states[2].state))
    BY <2>1 DEF StepFits, S!DiffFromBase
  <2>3. S!Reaches(c, 2)
    BY <2>2 DEF S!Reaches
  <2>4. 2 \in S!Reachable(c)
    BY <1>1, <1>3, <2>3 DEF S!Reachable
  <2> QED
    BY <2>4 DEF S!HasInstruction
<1> HIDE DEF n
<1> QED
  BY <1>1, <1>2, <1>3

(* A set of numbers with a bound has a greatest one. *)
LEMMA Greatest ==
    ASSUME NEW n \in Nat, NEW T \in SUBSET (0..n), T # {}
    PROVE  \E k \in T : \A j \in T : j <= k
<1> DEFINE R == {n - k : k \in T}
<1>1. R \in SUBSET Nat /\ R # {}
  <2>1. \A k \in T : k \in 0..n /\ n - k \in Nat
    OBVIOUS
  <2> QED
    BY <2>1
<1>2. PICK i \in R : \A j \in R : i <= j
  BY <1>1, Least
<1>3. PICK k \in T : i = n - k
  OBVIOUS
<1>4. ASSUME NEW j \in T
      PROVE  j <= k
  <2>1. n - j \in R
    OBVIOUS
  <2>2. n - k <= n - j
    BY <1>2, <1>3, <2>1
  <2> QED
    BY <2>2
<1> QED
  BY <1>4

LEMMA DiffTyped ==
    ASSUME NEW g \in Grid, NEW prev
    PROVE  IsGridDiff(GridDiff(g, prev))
<1>1. \A i \in ChangedRows(g, prev) : i \in 1..Len(g) /\ g[i] \in RowSet
  BY DEF Grid, ChangedRows
<1> QED
  BY <1>1 DEF GridDiff, IsGridDiff, Grid

(* Channel::instruction, channel 1. *)
LEMMA ScreenInstruction ==
    ASSUME NEW c \in ScreenChannel, StepsFit(c)
    PROVE  LET ins == S!Instruction(c)
           IN  /\ {ins.old, ins.new, ins.ack, ins.throwaway} \subseteq Nat
               /\ ins.throwaway = ins.ack /\ IsGridDiff(ins.diff)
<1> DEFINE ins == S!Instruction(c)
<1>1. /\ c.assumed \in Nat /\ c.current_num \in Nat /\ c.received_num \in Nat
      /\ c.current \in Grid /\ c.sent_states \in Seq(Entry(Grid))
  BY ScreenFields
<1>2. ASSUME NEW num, NEW g, num \in Nat, g \in Grid,
             ins = S!InstructionWith(c, num, S!DiffFromBase(c, g))
      PROVE  /\ {ins.old, ins.new, ins.ack, ins.throwaway} \subseteq Nat
             /\ ins.throwaway = ins.ack /\ IsGridDiff(ins.diff)
  <2>1. IsGridDiff(S!DiffFromBase(c, g))
    BY <1>2, DiffTyped DEF S!DiffFromBase
  <2> QED
    BY <1>1, <1>2, <2>1 DEF S!InstructionWith
<1>3. CASE S!WholeFits(c)
  <2>1. ins = S!InstructionWith(c, c.current_num, S!DiffFromBase(c, c.current))
    BY <1>3 DEF S!Instruction
  <2> HIDE DEF ins
  <2> QED
    BY <1>1, <1>2, <2>1 DEF ins
<1>4. CASE ~S!WholeFits(c)
  <2> DEFINE R == S!Reachable(c)
             furthest == CHOOSE i \in R : \A j \in R : j <= i
             n == Len(c.sent_states)
  <2>1. R # {} /\ n \in Nat
    BY <1>1, <1>4, ScreenSendable DEF S!HasInstruction
  <2>2. R \in SUBSET (2..n) /\ R \in SUBSET (0..n)
    BY <2>1 DEF S!Reachable
  <2> HIDE DEF R, n
  <2>3. \E i \in R : \A j \in R : j <= i
    BY <2>1, <2>2, Greatest
  <2>4. furthest \in R
    BY <2>3, Zenon
  <2>5. ins = S!InstructionWith(c, c.sent_states[furthest].num,
                                S!DiffFromBase(c, c.sent_states[furthest].state))
    BY <1>4 DEF S!Instruction, R
  <2> HIDE DEF furthest, ins
  <2> DEFINE link == c.sent_states[furthest]
  <2>6. link \in Entry(Grid)
    BY <1>1, <2>1, <2>2, <2>4, ElementOfSeq DEF n
  <2>7. link.num \in Nat /\ link.state \in Grid
    BY <2>6 DEF Entry
  <2> QED
    BY <1>2, <2>5, <2>7 DEF ins
<1> QED
  BY <1>3, <1>4

(* Channel::acknowledge and apply, channel 1: the history loses states at  *)
(* its front only.                                                         *)
LEMMA ScreenAcknowledged ==
    ASSUME NEW c \in ScreenChannel, StepsFit(c), NEW ins, ins.ack \in Nat
    PROVE  /\ S!Acknowledged(c, ins) \in ScreenChannel
           /\ StepsFit(S!Acknowledged(c, ins))
<1> DEFINE ack == ins.ack
           b == S!Acknowledge(c, ack)
           states == c.sent_states
<1>1. /\ states \in Seq(Entry(Grid)) /\ Len(states) \in Nat /\ Len(states) > 0
      /\ c.current = states[Len(states)].state
      /\ \A i \in 2..Len(states) : StepFits(states, i)
      /\ DOMAIN states = 1..Len(states)
  BY ScreenFields, FitsFacts
<1>2. b \in ScreenChannel /\ StepsFit(b)
  <2>1. CASE \/ ack <= c.assumed
             \/ \A i \in DOMAIN states : states[i].num # ack
    BY <2>1 DEF S!Acknowledge
  <2>2. CASE ~(\/ ack <= c.assumed
               \/ \A i \in DOMAIN states : states[i].num # ack)
    <3>1. b = [c EXCEPT !.assumed = ack, !.sent_states = S!DropBefore(states, ack)]
      BY <2>2 DEF S!Acknowledge
    <3>2. PICK i \in 1..Len(states) : states[i].num = ack
      BY <1>1, <2>2
    <3>3. PICK k \in 1..Len(states) :
             S!DropBefore(states, ack) = SubSeq(states, k, Len(states))
      BY <1>1, <3>2, DropIsSuffix
    <3> HIDE DEF states, b
    <3> DEFINE rest == SubSeq(states, k, Len(states))
    <3>4. /\ rest \in Seq(Entry(Grid)) /\ Len(rest) = Len(states) - k + 1
          /\ \A j \in 1..Len(rest) : rest[j] = states[k + j - 1]
      BY <1>1
    <3> HIDE DEF rest
    <3>5. b = [c EXCEPT !.assumed = ack, !.sent_states = rest]
      BY <3>1, <3>3 DEF rest
    <3>6. rest \in Seq([num : Nat, state : Grid])
      BY <3>4 DEF Entry
    <3>7. b \in ScreenChannel
      BY <3>5, <3>6 DEF ScreenChannel, ChannelSet
    <3>8. b.sent_states = rest /\ b.current = c.current
      BY <3>5 DEF ScreenChannel, ChannelSet
    <3>9. ASSUME NEW j \in 2..Len(rest)
          PROVE  StepFits(rest, j)
      <4> DEFINE l == k + j - 1
      <4>1. l \in 2..Len(states) /\ l - 1 = k + (j - 1) - 1 /\ j \in 1..Len(rest)
            /\ j - 1 \in 1..Len(rest)
        BY <1>1, <3>4
      <4>2. rest[j] = states[l] /\ rest[j - 1] = states[l - 1]
        BY <3>4, <4>1
      <4> HIDE DEF l
      <4> QED
        BY <1>1, <4>1, <4>2 DEF StepFits
    <3>10. Len(rest) \in 1..Len(rest) /\ Len(rest) > 0 /\ k + Len(rest) - 1 = Len(states)
      BY <1>1, <3>4
    <3>11. rest[Len(rest)] = states[Len(states)]
      BY <3>4, <3>10
    <3> QED
      BY <1>1, <3>7, <3>8, <3>9, <3>10, <3>11, IsFitting
  <2> QED
    BY <2>1, <2>2
<1>3. S!Acknowledged(c, ins) = [b EXCEPT !.current = b.current]
  BY DEF S!Acknowledged, GridRelease
<1> HIDE DEF b
<1>4. S!Acknowledged(c, ins) = b
  BY <1>2, <1>3 DEF ScreenChannel, ChannelSet
<1> QED
  BY <1>2, <1>4

LEMMA ApplyTyped ==
    ASSUME NEW g \in Grid, NEW diff, IsGridDiff(diff)
    PROVE  GridApply(g, diff) \in Grid
<1>1. BlankRow \in RowSet
  BY DEF BlankRow, RowSet
<1>2. diff.rows \in Nat /\ \A i \in DOMAIN diff.updates : diff.updates[i] \in RowSet
  BY DEF IsGridDiff
<1>3. \A i \in DOMAIN g : g[i] \in RowSet
  BY DEF Grid
<1>4. GridApply(g, diff) \in [1..diff.rows -> RowSet]
  BY <1>1, <1>2, <1>3 DEF GridApply
<1> QED
  BY <1>2, <1>4 DEF Grid

LEMMA ScreenApply ==
    ASSUME NEW c \in ScreenChannel, StepsFit(c), NEW ins, ins.ack \in Nat, ins.new \in Nat,
           IsGridDiff(ins.diff)
    PROVE  S!Apply(c, ins) \in ScreenChannel /\ StepsFit(S!Apply(c, ins))
<1> DEFINE b == S!Acknowledged(c, ins)
           d == S!Apply(c, ins)
           g == GridApply(c.received, ins.diff)
<1>1. b \in ScreenChannel /\ StepsFit(b)
  BY ScreenAcknowledged
<1>2. g \in Grid
  BY ScreenFields, ApplyTyped
<1>3. \/ d = b
      \/ d = [b EXCEPT !.received = g, !.received_num = ins.new]
  BY DEF S!Apply
<1> HIDE DEF b, d, g
<1>4. CASE d = b
  BY <1>1, <1>4 DEF d
<1>5. CASE d = [b EXCEPT !.received = g, !.received_num = ins.new]
  <2>1. d \in ScreenChannel
    BY <1>1, <1>2, <1>5 DEF ScreenChannel, ChannelSet
  <2>2. d.current = b.current /\ d.sent_states = b.sent_states
    BY <1>1, <1>5 DEF ScreenChannel, ChannelSet
  <2>3. StepsFit(d)
    BY <1>1, <2>2 DEF StepsFit
  <2> QED
    BY <2>1, <2>3 DEF d
<1> QED
  BY <1>3, <1>4, <1>5

(* A grid and its first row more. *)
LEMMA RowMore ==
    ASSUME NEW g \in Grid, NEW i \in 1..Len(g)
    PROVE  GridFits(GridDiff(SubSeq(g, 1, i), SubSeq(g, 1, i - 1)))
<1> DEFINE s == SubSeq(g, 1, i)
           t == SubSeq(g, 1, i - 1)
           diff == GridDiff(s, t)
<1>1. /\ DOMAIN s = 1..i /\ DOMAIN t = 1..(i - 1)
      /\ \A j \in 1..(i - 1) : s[j] = g[j] /\ t[j] = g[j]
  BY DEF Grid
<1> HIDE DEF s, t
<1>2. ChangedRows(s, t) = {i}
  <2>1. i \in Nat /\ i > 0 /\ i \notin 1..(i - 1)
    BY DEF Grid
  <2>2. \A j \in 1..i : j \in 1..(i - 1) \/ j = i
    BY <2>1
  <2> QED
    BY <1>1, <2>1, <2>2 DEF ChangedRows
<1>3. DOMAIN diff.updates = {i}
  BY <1>2 DEF GridDiff
<1>4. Cardinality({i}) = 1
  BY FS_Singleton
<1>5. GridFits(diff)
  BY <1>3, <1>4, MaxChangedAssumption DEF GridFits
<1> QED
  BY <1>5 DEF s, t

LEMMA NewFits ==
    /\ S!New(EmptyGrid) \in ScreenChannel /\ StepsFit(S!New(EmptyGrid))
    /\ EmptyGrid \in Grid
<1> DEFINE d == S!New(EmptyGrid)
           link == [num |-> 0, state |-> EmptyGrid]
<1>1. EmptyGrid \in Grid
  BY DEF EmptyGrid, Grid
<1>2. d = [current |-> EmptyGrid, current_num |-> 0, sent_states |-> <<link>>,
           assumed |-> 0, received |-> EmptyGrid, received_num |-> 0, sent_num |-> 0]
  BY DEF S!New
<1>3. link \in [num : Nat, state : Grid] /\ link.state = EmptyGrid
  BY <1>1
<1> HIDE DEF link, d
<1>4. <<link>> \in Seq([num : Nat, state : Grid]) /\ Len(<<link>>) = 1 /\ <<link>>[1] = link
  BY <1>3
<1>5. d \in ScreenChannel
  BY <1>1, <1>2, <1>4 DEF ScreenChannel, ChannelSet
<1>6. d.current = EmptyGrid /\ d.sent_states = <<link>>
  BY <1>2
<1>7. StepsFit(d)
  <2>1. \A i \in 2..Len(d.sent_states) : StepFits(d.sent_states, i)
    BY <1>4, <1>6
  <2>2. Len(d.sent_states) = 1 /\ d.sent_states[Len(d.sent_states)].state = EmptyGrid
    BY <1>3, <1>4, <1>6
  <2> QED
    BY <1>6, <2>1, <2>2 DEF StepsFit, StepFits
<1> QED
  BY <1>1, <1>5, <1>7 DEF d

(* The steps a reset grows the grid by. *)
LEMMA Steps ==
    ASSUME NEW g \in Grid
    PROVE  LET steps == IF g = EmptyGrid THEN <<EmptyGrid>> ELSE RebaseSteps(g)
           IN  /\ steps \in Seq(Grid) /\ Len(steps) > 0 /\ steps[Len(steps)] = g
               /\ GridFits(GridDiff(steps[1], EmptyGrid))
               /\ \A i \in 2..Len(steps) : GridFits(GridDiff(steps[i], steps[i - 1]))
<1> DEFINE steps == IF g = EmptyGrid THEN <<EmptyGrid>> ELSE RebaseSteps(g)
<1>1. CASE g = EmptyGrid
  <2>1. steps = <<EmptyGrid>> /\ EmptyGrid \in Grid
    BY <1>1
  <2> HIDE DEF steps
  <2>2. /\ steps \in Seq(Grid) /\ Len(steps) = 1 /\ steps[1] = EmptyGrid
    BY <2>1
  <2>3. \A i \in 2..Len(steps) : FALSE
    BY <2>2
  <2>4. /\ steps \in Seq(Grid) /\ Len(steps) > 0 /\ steps[Len(steps)] = g
        /\ GridFits(GridDiff(steps[1], EmptyGrid))
        /\ \A i \in 2..Len(steps) : GridFits(GridDiff(steps[i], steps[i - 1]))
    BY <1>1, <2>2, <2>3, SameGrid
  <2> QED
    BY <2>4 DEF steps
<1>2. CASE g # EmptyGrid
  <2> DEFINE n == Len(g)
  <2>1. n \in Nat /\ n > 0
    BY <1>2 DEF Grid, EmptyGrid
  <2>2. steps = [i \in 1..n |-> SubSeq(g, 1, i)]
    BY <1>2 DEF RebaseSteps
  <2> HIDE DEF steps
  <2>3. \A i \in 1..n : SubSeq(g, 1, i) \in Grid
    BY DEF Grid
  <2>4. steps \in Seq(Grid) /\ Len(steps) = n /\ \A i \in 1..n : steps[i] = SubSeq(g, 1, i)
    <3>1. steps \in [1..n -> Grid]
      BY <2>2, <2>3
    <3> QED
      BY <2>1, <2>2, <3>1
  <2>5. SubSeq(g, 1, n) = g
    BY DEF Grid
  <2>6. SubSeq(g, 1, 0) = EmptyGrid
    BY DEF Grid, EmptyGrid
  <2>7. GridFits(GridDiff(SubSeq(g, 1, 1), SubSeq(g, 1, 1 - 1)))
    BY <2>1, RowMore
  <2>8. ASSUME NEW i \in 2..n
        PROVE  GridFits(GridDiff(steps[i], steps[i - 1]))
    <3>1. i \in 1..n /\ i - 1 \in 1..n
      BY <2>1
    <3>2. GridFits(GridDiff(SubSeq(g, 1, i), SubSeq(g, 1, i - 1)))
      BY <3>1, RowMore
    <3> QED
      BY <2>4, <3>1, <3>2
  <2>9. 1 \in 1..n /\ n \in 1..n /\ 1 - 1 = 0
    BY <2>1
  <2> HIDE DEF n
  <2>10. steps[n] = g /\ GridFits(GridDiff(steps[1], EmptyGrid))
    BY <2>4, <2>5, <2>6, <2>7, <2>9
  <2> QED
    BY <2>1, <2>4, <2>8, <2>10 DEF steps
<1> QED
  BY <1>1, <1>2

(* A history that grows g row by row from state 0. *)
IsRebased(d, g) ==
    LET steps == IF g = EmptyGrid THEN <<EmptyGrid>> ELSE RebaseSteps(g)
    IN  /\ d.assumed = 0 /\ d.current_num = Len(steps)
        /\ Len(d.sent_states) = Len(steps) + 1 /\ d.sent_states[1] = [num |-> 0, state |-> EmptyGrid]
        /\ \A i \in 1..Len(steps) : d.sent_states[i + 1] = [num |-> i, state |-> steps[i]]

(* Channel::reset_peer, channel 1. *)
LEMMA ResetFits ==
    ASSUME NEW c \in ScreenChannel
    PROVE  /\ ResetScreen(c) \in ScreenChannel /\ StepsFit(ResetScreen(c))
           /\ ResetScreen(c).received = EmptyGrid /\ ResetScreen(c).current = c.current
           /\ IsRebased(ResetScreen(c), c.current)
<1> DEFINE g == c.current
           steps == IF g = EmptyGrid THEN <<EmptyGrid>> ELSE RebaseSteps(g)
           n == Len(steps)
           new == S!New(EmptyGrid)
           rest == [i \in DOMAIN steps |-> [num |-> i, state |-> steps[i]]]
           states == new.sent_states \o rest
           d == ResetScreen(c)
           T == [num : Nat, state : Grid]
           base == [num |-> 0, state |-> EmptyGrid]
<1>1. g \in Grid
  BY ScreenFields
<1>2. d = [new EXCEPT !.current = g, !.current_num = n, !.sent_states = states]
  BY DEF ResetScreen
<1> HIDE DEF g
<1>3. /\ steps \in Seq(Grid) /\ n > 0 /\ n \in Nat /\ steps[n] = g
      /\ GridFits(GridDiff(steps[1], EmptyGrid))
      /\ \A i \in 2..n : GridFits(GridDiff(steps[i], steps[i - 1]))
  BY <1>1, Steps
<1> HIDE DEF steps
<1>4. rest = [i \in 1..n |-> [num |-> i, state |-> steps[i]]]
  BY <1>3
<1> HIDE DEF rest
<1>5. rest \in [1..n -> T]
  <2>1. \A i \in 1..n : steps[i] \in Grid /\ i \in Nat
    BY <1>3
  <2>2. \A i \in 1..n : [num |-> i, state |-> steps[i]] \in T
    BY <2>1
  <2> HIDE DEF T
  <2> QED
    BY <1>4, <2>2
<1>6. rest \in Seq(T) /\ Len(rest) = n
  <2> HIDE DEF T, n
  <2> QED
    BY <1>3, <1>5
<1>7. /\ new.sent_states \in Seq(T) /\ Len(new.sent_states) = 1
      /\ new.sent_states[1] = base /\ base.state = EmptyGrid
  BY NewFits DEF S!New
<1> HIDE DEF new, n, T, base
<1>8. /\ states \in Seq(T) /\ Len(states) = n + 1
      /\ states[1] = base /\ states[1].state = EmptyGrid
      /\ \A i \in 2..(n + 1) : states[i] = rest[i - 1]
  <2> DEFINE one == new.sent_states
  <2>1. one \in Seq(T) /\ Len(one) = 1 /\ states = one \o rest
    BY <1>7
  <2> HIDE DEF one
  <2>4. /\ one \o rest \in Seq(T) /\ Len(one \o rest) = 1 + n
        /\ \A i \in 1 .. (1 + n) :
              (one \o rest)[i] = IF i <= 1 THEN one[i] ELSE rest[i - 1]
    <3>1. /\ one \o rest \in Seq(T) /\ Len(one \o rest) = Len(one) + Len(rest)
          /\ \A i \in 1 .. Len(one) + Len(rest) : (one \o rest)[i] =
                IF i <= Len(one) THEN one[i] ELSE rest[i - Len(one)]
      <4>1. one \in Seq(T) /\ rest \in Seq(T)
        BY <1>6, <2>1
      <4> QED
        BY ONLY <4>1, ConcatProperties
    <3> QED
      BY <1>6, <2>1, <3>1
  <2> HIDE DEF states
  <2>2. states \in Seq(T) /\ Len(states) = n + 1 /\ states[1] = one[1]
    BY <1>3, <2>1, <2>4
  <2>3. \A i \in 2..(n + 1) : states[i] = rest[i - 1]
    BY <1>3, <2>1, <2>4
  <2> QED
    BY <1>7, <2>2, <2>3 DEF one
<1> HIDE DEF states
<1>9. \A i \in 2..(n + 1) : states[i].state = steps[i - 1]
  <2> TAKE i \in 2..(n + 1)
  <2>1. i - 1 \in 1..n
    BY <1>3
  <2>2. rest[i - 1].state = steps[i - 1]
    BY <1>4, <2>1
  <2> QED
    BY <1>8, <2>2
<1>10. new \in ScreenChannel /\ new.received = EmptyGrid
  BY NewFits DEF new, S!New
<1> HIDE DEF d
<1>11. d \in ScreenChannel
  BY <1>1, <1>2, <1>3, <1>8, <1>10 DEF ScreenChannel, ChannelSet, T
<1>12. d.current = g /\ d.sent_states = states /\ d.received = EmptyGrid
  BY <1>2, <1>10 DEF ScreenChannel, ChannelSet
<1>13. ASSUME NEW i \in 2..(n + 1)
       PROVE  StepFits(states, i)
  <2>1. CASE i = 2
    <3>1. states[2].state = steps[1] /\ states[2 - 1].state = EmptyGrid
      BY <1>3, <1>8, <1>9
    <3> QED
      BY <1>3, <2>1, <3>1 DEF StepFits
  <2>2. CASE i > 2
    <3> DEFINE j == i - 1
    <3>1. j \in 2..n /\ j \in 2..(n + 1) /\ j = i - 1
      BY <1>3, <2>2
    <3> HIDE DEF j
    <3>2. states[i].state = steps[j] /\ states[j].state = steps[j - 1]
      BY <1>9, <3>1
    <3> QED
      BY <1>3, <3>1, <3>2 DEF StepFits
  <2> QED
    BY <1>3, <2>1, <2>2
<1>14. states[n + 1].state = g
  <2>1. n + 1 \in 2..(n + 1) /\ (n + 1) - 1 = n
    BY <1>3
  <2> QED
    BY <1>3, <1>9, <2>1
<1>15. StepsFit(d)
  <2>1. Len(states) = n + 1 /\ n + 1 > 0 /\ g = states[Len(states)].state
    BY <1>3, <1>8, <1>14
  <2>2. \A i \in 2..Len(states) : StepFits(states, i)
    BY <1>13, <2>1
  <2> QED
    BY <1>11, <1>12, <2>1, <2>2, IsFitting
<1>16. IsRebased(d, g)
  <2>1. d.assumed = 0 /\ d.current_num = n
    BY <1>2, <1>10 DEF ScreenChannel, ChannelSet, new, S!New
  <2>2. ASSUME NEW i \in 1..n
        PROVE  states[i + 1] = [num |-> i, state |-> steps[i]]
    <3>1. i + 1 \in 2..(n + 1) /\ (i + 1) - 1 = i
      BY <1>3
    <3> QED
      BY <1>4, <1>8, <3>1
  <2>3. /\ Len(states) = n + 1 /\ states[1] = [num |-> 0, state |-> EmptyGrid]
    BY <1>8 DEF base
  <2> QED
    BY <1>12, <2>1, <2>2, <2>3 DEF IsRebased, n, steps
<1> QED
  BY <1>11, <1>12, <1>15, <1>16 DEF d, g

-----------------------------------------------------------------------------
(* A session: both channels. *)

(* A session of e whose present life queued q messages. *)
Sound(s, e, q) ==
    /\ s \in SessionSet /\ Len(s.retired) <= MaxRetired
    /\ q \in Nat /\ s.messages.current_num <= q
    /\ Chained(s.messages, e, s.epoch, q - s.messages.current_num)
    /\ StepsFit(s.screen)

LEMMA SessionFields ==
    ASSUME NEW s \in SessionSet
    PROVE  /\ s.epoch \in Nat /\ s.epoch # NoEpoch
           /\ s.messages \in MessageChannel /\ s.screen \in ScreenChannel
           /\ s.ack_pending \in [{Messages, Screen} -> BOOLEAN]
           /\ s.peer_epoch \in Nat /\ s.retired \in Seq(Nat)
BY DEF SessionSet, MessageChannel, ScreenChannel, Grid

LEMMA IsSession ==
    ASSUME NEW s, NEW epoch \in Nat, epoch # NoEpoch, NEW c \in MessageChannel,
           NEW g \in ScreenChannel, NEW acks \in [{Messages, Screen} -> BOOLEAN],
           NEW peer \in Nat, NEW retired \in Seq(Nat),
           s = [epoch |-> epoch, messages |-> c, screen |-> g, ack_pending |-> acks,
                peer_epoch |-> peer, retired |-> retired]
    PROVE  s \in SessionSet
BY DEF SessionSet, MessageChannel, ScreenChannel, Grid

(* A new session. *)
LEMMA SoundNew ==
    ASSUME NEW e \in Endpoint, NEW life \in Nat \ {0}
    PROVE  /\ Sound(NewSession(life), e, 0)
           /\ NewSession(life).epoch = life /\ NewSession(life).peer_epoch = NoEpoch
           /\ NewSession(life).messages.current_num = 0
           /\ NewSession(life).messages.assumed = 0
           /\ NewSession(life).messages.received_num = 0
<1> DEFINE s == NewSession(life)
           c == M!New(EmptyQueue)
           g == S!New(EmptyGrid)
           acks == [i \in {Messages, Screen} |-> FALSE]
<1>1. /\ c \in MessageChannel /\ Chained(c, e, life, 0)
      /\ c.current_num = 0 /\ c.assumed = 0 /\ c.received_num = 0
  BY NewChained
<1>2. g \in ScreenChannel /\ StepsFit(g)
  BY NewFits
<1>3. s = [epoch |-> life, messages |-> c, screen |-> g, ack_pending |-> acks,
           peer_epoch |-> NoEpoch, retired |-> <<>>]
  BY DEF NewSession
<1>4. /\ acks \in [{Messages, Screen} -> BOOLEAN] /\ NoEpoch \in Nat /\ life # NoEpoch
      /\ <<>> \in Seq(Nat) /\ Len(<<>>) <= MaxRetired /\ life \in Nat
  BY SessionAssumption DEF NoEpoch
<1> HIDE DEF s, c, g, acks
<1>5. s \in SessionSet
  BY <1>1, <1>2, <1>3, <1>4, IsSession
<1>6. Sound(s, e, 0)
  <2>1. 0 - c.current_num = 0 /\ c.current_num <= 0
    BY <1>1
  <2> QED
    BY <1>1, <1>2, <1>3, <1>4, <1>5, <2>1 DEF Sound
<1>7. /\ s.epoch = life /\ s.peer_epoch = NoEpoch /\ s.messages = c
  BY <1>3
<1> QED
  BY <1>1, <1>6, <1>7 DEF s

(* Session::queue_message *)
LEMMA SoundQueue ==
    ASSUME NEW e \in Endpoint, NEW s, NEW q, Sound(s, e, q),
           NEW m, m = [by |-> e, life |-> s.epoch, n |-> q + 1]
    PROVE  LET t == [s EXCEPT !.messages = M!Advance(@, Push(@.current, m))]
           IN  /\ Sound(t, e, q + 1)
               /\ t.epoch = s.epoch /\ t.peer_epoch = s.peer_epoch
               /\ t.messages.current_num = s.messages.current_num + 1
               /\ t.messages.assumed = s.messages.assumed
               /\ t.messages.received_num = s.messages.received_num
<1> DEFINE t == [s EXCEPT !.messages = M!Advance(@, Push(@.current, m))]
           c == s.messages
           life == s.epoch
           origin == q - c.current_num
           d == M!Advance(c, Push(c.current, m))
<1>1. /\ s \in SessionSet /\ c \in MessageChannel /\ life \in Nat /\ q \in Nat
      /\ c.current_num \in Nat /\ c.current_num <= q /\ Chained(c, e, life, origin)
      /\ StepsFit(s.screen) /\ Len(s.retired) <= MaxRetired
  BY SessionFields, MessageFields DEF Sound
<1>2. origin \in Nat /\ origin + c.current_num + 1 = q + 1 /\ origin = (q + 1) - (c.current_num + 1)
  BY <1>1
<1>3. t = [s EXCEPT !.messages = d]
  OBVIOUS
<1>4. m = [by |-> e, life |-> life, n |-> origin + c.current_num + 1]
  BY <1>2
<1> HIDE DEF c, life, origin
<1>5. /\ d \in MessageChannel /\ Chained(d, e, life, origin)
      /\ d.current_num = c.current_num + 1 /\ d.assumed = c.assumed
      /\ d.received_num = c.received_num
  BY <1>1, <1>2, <1>4, AdvanceChained
<1> HIDE DEF d, t
<1>6. /\ t \in SessionSet /\ t.messages = d /\ t.screen = s.screen /\ t.epoch = life
      /\ t.retired = s.retired /\ t.peer_epoch = s.peer_epoch
  BY <1>1, <1>3, <1>5 DEF SessionSet, MessageChannel, life
<1>7. Sound(t, e, q + 1)
  BY <1>1, <1>2, <1>5, <1>6 DEF Sound
<1> QED
  BY <1>5, <1>6, <1>7 DEF c, life, t

(* Session::set_screen *)
LEMMA SoundScreen ==
    ASSUME NEW e \in Endpoint, NEW s, NEW q, Sound(s, e, q),
           NEW g \in Grid, GridFits(GridDiff(g, s.screen.current)),
           NEW t, t = [s EXCEPT !.screen = S!Advance(@, g)]
    PROVE  /\ Sound(t, e, q)
           /\ t.epoch = s.epoch /\ t.peer_epoch = s.peer_epoch /\ t.messages = s.messages
<1> DEFINE d == S!Advance(s.screen, g)
<1>1. s \in SessionSet /\ s.screen \in ScreenChannel /\ StepsFit(s.screen)
  BY SessionFields DEF Sound
<1>2. d \in ScreenChannel /\ StepsFit(d)
  BY <1>1, AdvanceFits
<1>3. t = [s EXCEPT !.screen = d]
  OBVIOUS
<1> HIDE DEF d
<1>4. /\ t \in SessionSet /\ t.messages = s.messages /\ t.screen = d /\ t.epoch = s.epoch
      /\ t.retired = s.retired /\ t.peer_epoch = s.peer_epoch
  BY <1>1, <1>2, <1>3 DEF SessionSet, ScreenChannel, Grid
<1> QED
  BY <1>2, <1>4 DEF Sound

(* build: only what was sent, and what is owed, changes. *)
LEMMA SoundBuilt ==
    ASSUME NEW e \in Endpoint, NEW s, NEW q, Sound(s, e, q), NEW cs
    PROVE  LET t == Built(s, cs)
           IN  /\ Sound(t, e, q)
               /\ t.epoch = s.epoch /\ t.peer_epoch = s.peer_epoch
               /\ t.messages.current_num = s.messages.current_num
               /\ t.messages.assumed = s.messages.assumed
               /\ t.messages.received_num = s.messages.received_num
<1> DEFINE t == Built(s, cs)
           c == s.messages
           g == s.screen
           life == s.epoch
           origin == q - c.current_num
           d == IF Messages \in cs THEN M!NoteSent(c, M!Instruction(c)) ELSE c
           h == IF Screen \in cs THEN S!NoteSent(g, S!Instruction(g)) ELSE g
           acks == [i \in {Messages, Screen} |-> s.ack_pending[i] /\ i \notin cs]
<1>1. /\ s \in SessionSet /\ c \in MessageChannel /\ g \in ScreenChannel
      /\ q \in Nat /\ c.current_num \in Nat /\ c.current_num <= q
      /\ Chained(c, e, life, origin) /\ StepsFit(g) /\ Len(s.retired) <= MaxRetired
  BY SessionFields, MessageFields DEF Sound
<1>2. t = [s EXCEPT !.messages = d, !.screen = h, !.ack_pending = acks]
  BY DEF Built
<1>3. acks \in [{Messages, Screen} -> BOOLEAN]
  OBVIOUS
<1>4. ASSUME NEW n \in Nat
      PROVE  /\ [c EXCEPT !.sent_num = n] \in MessageChannel
             /\ Chained([c EXCEPT !.sent_num = n], e, life, origin)
             /\ [c EXCEPT !.sent_num = n].current_num = c.current_num
             /\ [c EXCEPT !.sent_num = n].assumed = c.assumed
             /\ [c EXCEPT !.sent_num = n].received_num = c.received_num
  <2> DEFINE b == [c EXCEPT !.sent_num = n]
  <2> HIDE DEF c
  <2>1. b \in MessageChannel
    BY <1>1 DEF MessageChannel, ChannelSet
  <2>2. /\ b.current = c.current /\ b.current_num = c.current_num
        /\ b.sent_states = c.sent_states /\ b.assumed = c.assumed
        /\ b.received = c.received /\ b.received_num = c.received_num
    BY <1>1 DEF MessageChannel, ChannelSet
  <2> HIDE DEF b
  <2>3. Chained(b, e, life, origin)
    BY <1>1, <2>2 DEF Chained
  <2> QED
    BY <2>1, <2>2, <2>3 DEF b
<1>5. /\ d \in MessageChannel /\ Chained(d, e, life, origin)
      /\ d.current_num = c.current_num /\ d.assumed = c.assumed
      /\ d.received_num = c.received_num
  <2>1. M!Instruction(c).new \in Nat
    <3>1. life \in Nat /\ origin \in Nat
      BY <1>1, SessionFields
    <3> HIDE DEF c, life, origin
    <3>2. Carries(M!Instruction(c), c, e, life, origin)
      BY <1>1, <3>1, InstructionCarries
    <3> QED
      BY <3>2 DEF Carries
  <2> DEFINE n == IF M!Instruction(c).new > c.sent_num THEN M!Instruction(c).new ELSE c.sent_num
  <2>2. n \in Nat
    BY <1>1, <2>1, MessageFields
  <2>3. M!NoteSent(c, M!Instruction(c)) = [c EXCEPT !.sent_num = n]
    BY DEF M!NoteSent
  <2> HIDE DEF c, n, life, origin
  <2> QED
    BY <1>1, <1>4, <2>2, <2>3
<1>6. h \in ScreenChannel /\ StepsFit(h)
  <2> DEFINE n == IF S!Instruction(g).new > g.sent_num THEN S!Instruction(g).new ELSE g.sent_num
             b == [g EXCEPT !.sent_num = n]
  <2>1. S!Instruction(g).new \in Nat
    BY <1>1, ScreenInstruction
  <2>2. n \in Nat
    BY <1>1, <2>1, ScreenFields
  <2>3. S!NoteSent(g, S!Instruction(g)) = b
    BY DEF S!NoteSent
  <2> HIDE DEF g, n
  <2>4. b \in ScreenChannel
    BY <1>1, <2>2 DEF ScreenChannel, ChannelSet
  <2>5. b.current = g.current /\ b.sent_states = g.sent_states
    BY <1>1 DEF ScreenChannel, ChannelSet
  <2> HIDE DEF b
  <2>6. StepsFit(b)
    BY <1>1, <2>5 DEF StepsFit
  <2> QED
    BY <1>1, <2>3, <2>4, <2>6
<1> HIDE DEF t, d, h, acks
<1>7. /\ t \in SessionSet /\ t.messages = d /\ t.screen = h /\ t.epoch = life
      /\ t.retired = s.retired /\ t.peer_epoch = s.peer_epoch
  <2>1. s \in SessionSet
    BY <1>1
  <2> HIDE DEF c, g
  <2> QED
    BY <2>1, <1>2, <1>3, <1>5, <1>6 DEF SessionSet, MessageChannel, ScreenChannel, Grid
<1>8. Sound(t, e, q)
  BY <1>1, <1>5, <1>6, <1>7 DEF Sound
<1> QED
  BY <1>5, <1>7, <1>8 DEF t

(* What hearing an epoch does to channel 0: nothing, or a reset. *)
HeardAs(t, s, epoch) ==
    /\ t.epoch = s.epoch /\ t.peer_epoch = epoch
    /\ IF s.peer_epoch \in {NoEpoch, epoch}
         THEN t.messages = s.messages
         ELSE /\ t.messages.current_num = s.messages.current_num - s.messages.assumed
              /\ t.messages.assumed = 0 /\ t.messages.received_num = 0

(* Session::handle_datagram *)
LEMMA SoundHeard ==
    ASSUME NEW e \in Endpoint, NEW s, NEW q, Sound(s, e, q), NEW epoch \in Nat
    PROVE  Sound(Heard(s, epoch), e, q) /\ HeardAs(Heard(s, epoch), s, epoch)
<1> DEFINE t == Heard(s, epoch)
           c == s.messages
           g == s.screen
           life == s.epoch
           origin == q - c.current_num
<1>1. /\ s \in SessionSet /\ c \in MessageChannel /\ g \in ScreenChannel /\ life \in Nat
      /\ q \in Nat /\ c.current_num \in Nat /\ c.current_num <= q
      /\ Chained(c, e, life, origin) /\ StepsFit(g)
      /\ s.retired \in Seq(Nat) /\ Len(s.retired) <= MaxRetired /\ s.peer_epoch \in Nat
  BY SessionFields, MessageFields DEF Sound
<1>2. CASE s.peer_epoch \in {NoEpoch, epoch}
  <2>1. t = [s EXCEPT !.peer_epoch = epoch]
    BY <1>2 DEF Heard
  <2> HIDE DEF t
  <2>2. /\ t \in SessionSet /\ t.messages = c /\ t.screen = g /\ t.epoch = life
        /\ t.retired = s.retired /\ t.peer_epoch = epoch
    BY <1>1, <2>1 DEF SessionSet
  <2>3. Sound(t, e, q)
    BY <1>1, <2>2 DEF Sound
  <2> QED
    BY <1>2, <2>2, <2>3 DEF t, HeardAs
<1>3. CASE ~(s.peer_epoch \in {NoEpoch, epoch})
  <2> DEFINE d == ResetMessages(c)
             h == ResetScreen(g)
             retired == Retire(s.retired, s.peer_epoch)
             acks == [i \in {Messages, Screen} |-> FALSE]
  <2>1. t = [s EXCEPT !.peer_epoch = epoch, !.retired = retired, !.messages = d,
                      !.screen = h, !.ack_pending = acks]
    BY <1>3 DEF Heard
  <2>2. /\ d \in MessageChannel /\ Chained(d, e, life, origin + c.assumed)
        /\ d.current_num = c.current_num - c.assumed
        /\ d.assumed = 0 /\ d.received_num = 0
    <3>1. origin \in Nat
      BY <1>1
    <3> HIDE DEF c, origin, life
    <3> QED
      BY <1>1, <3>1, ResetChained
  <2>3. h \in ScreenChannel /\ StepsFit(h)
    BY <1>1, ResetFits
  <2>4. retired \in Seq(Nat) /\ Len(retired) <= MaxRetired
    <3> DEFINE all == Append(s.retired, s.peer_epoch)
    <3>1. all \in Seq(Nat) /\ Len(all) = Len(s.retired) + 1 /\ Len(s.retired) \in Nat
      BY <1>1
    <3> HIDE DEF all
    <3>2. all # <<>>
      BY <3>1
    <3>3. Tail(all) \in Seq(Nat) /\ Len(Tail(all)) = Len(all) - 1
      BY <3>1, <3>2
    <3> QED
      BY <1>1, <3>1, <3>3, SessionAssumption DEF Retire, all
  <2>5. acks \in [{Messages, Screen} -> BOOLEAN]
    OBVIOUS
  <2> HIDE DEF t, d, h, retired, acks
  <2>6. /\ t \in SessionSet /\ t.messages = d /\ t.screen = h /\ t.epoch = life
        /\ t.retired = retired /\ t.peer_epoch = epoch
    <3>1. s \in SessionSet
      BY <1>1
    <3> HIDE DEF c, g
    <3> QED
      BY <3>1, <2>1, <2>2, <2>3, <2>4, <2>5
         DEF SessionSet, MessageChannel, ScreenChannel, Grid
  <2>7. /\ d.current_num \in Nat /\ d.current_num <= q
        /\ origin + c.assumed = q - d.current_num
    <3>1. c.assumed \in Nat /\ c.assumed <= c.current_num
      BY <1>1, MessageFields, ChainedFacts
    <3> QED
      BY SMTT(30), <1>1, <2>2, <3>1
  <2>8. Sound(t, e, q)
    BY <1>1, <2>2, <2>3, <2>4, <2>6, <2>7 DEF Sound
  <2> QED
    BY <1>3, <2>2, <2>6, <2>8 DEF t, HeardAs
<1> QED
  BY <1>2, <1>3

(* What a datagram does to channel 0, and the messages it brings. *)
AppliedAs(t, s, d) ==
    /\ t.epoch = s.epoch /\ t.peer_epoch = s.peer_epoch
    /\ IF d.channel = Messages
         THEN /\ AfterAck(t.messages, s.messages, d.ins.ack)
              /\ \/ /\ d.ins.old = s.messages.received_num
                    /\ Taken(s, d) = d.ins.diff /\ t.messages.received_num = d.ins.new
                 \/ Taken(s, d) = <<>> /\ t.messages.received_num = s.messages.received_num
         ELSE t.messages = s.messages /\ Taken(s, d) = <<>>

(* Driver::handle_datagram from the epoch on. *)
LEMMA SoundApplied ==
    ASSUME NEW e \in Endpoint, NEW s, NEW q, Sound(s, e, q),
           NEW d, IsDatagram(d), d.ins.throwaway = d.ins.ack
    PROVE  Sound(Applied(s, d), e, q) /\ AppliedAs(Applied(s, d), s, d)
<1> DEFINE t == Applied(s, d)
           c == s.messages
           g == s.screen
           life == s.epoch
           origin == q - c.current_num
           ins == d.ins
<1>1. /\ s \in SessionSet /\ c \in MessageChannel /\ g \in ScreenChannel /\ life \in Nat
      /\ q \in Nat /\ c.current_num \in Nat /\ c.current_num <= q
      /\ Chained(c, e, life, origin) /\ StepsFit(g) /\ Len(s.retired) <= MaxRetired
      /\ s.ack_pending \in [{Messages, Screen} -> BOOLEAN]
  BY SessionFields, MessageFields DEF Sound
<1>2. CASE d.channel = Messages
  <2> DEFINE b == M!Apply(c, ins)
             fails == M!ApplyFails(c, ins)
             h == IF fails THEN b ELSE [b EXCEPT !.received = Drained(b.received)]
             acks == IF fails THEN s.ack_pending
                     ELSE [AckFor(s, Messages, ins, M!Advanced(c, ins))
                             EXCEPT ![Messages] = @ \/ b.received.messages # <<>>]
  <2>1. IsInstruction(ins) /\ ins.throwaway = ins.ack
    BY <1>2 DEF IsDatagram, IsInstruction, Messages, Screen
  <2>2. /\ h \in MessageChannel /\ Chained(h, e, life, origin)
        /\ AfterAck(h, c, ins.ack)
        /\ \/ /\ ~fails /\ ins.old = c.received_num
              /\ b.received.messages = ins.diff /\ h.received_num = ins.new
           \/ /\ fails \/ b.received.messages = <<>>
              /\ h.received_num = c.received_num
    <3>1. origin \in Nat
      BY <1>1
    <3> HIDE DEF c, origin, life, ins
    <3> QED
      BY <1>1, <2>1, <3>1, ApplyChained
  <2>3. Taken(s, d) = IF fails THEN <<>> ELSE b.received.messages
    BY <1>2 DEF Taken
  <2>4. acks \in [{Messages, Screen} -> BOOLEAN]
    BY <1>1 DEF AckFor
  <2>5. t = [s EXCEPT !.messages = h, !.ack_pending = acks]
    <3>1. CASE fails
      <4>1. t = [s EXCEPT !.messages = b]
        BY <1>2, <3>1 DEF Applied
      <4>2. s = [s EXCEPT !.ack_pending = s.ack_pending]
        BY <1>1 DEF SessionSet
      <4>3. [s EXCEPT !.messages = b] = [s EXCEPT !.messages = b, !.ack_pending = s.ack_pending]
        <5> HIDE DEF b
        <5> QED
          BY <1>1 DEF SessionSet
      <4> QED
        BY <3>1, <4>1, <4>3
    <3>2. CASE ~fails
      BY <1>2, <3>2 DEF Applied
    <3> QED
      BY <3>1, <3>2
  <2> HIDE DEF t, h, acks, fails, b
  <2>6. /\ t \in SessionSet /\ t.messages = h /\ t.screen = g /\ t.epoch = life
        /\ t.retired = s.retired /\ t.peer_epoch = s.peer_epoch
    <3>1. s \in SessionSet
      BY <1>1
    <3> HIDE DEF c
    <3> QED
      BY <3>1, <2>2, <2>4, <2>5 DEF SessionSet, MessageChannel
  <2>7. h.current_num = c.current_num
    BY <2>2 DEF AfterAck
  <2>8. Sound(t, e, q)
    BY <1>1, <2>2, <2>6, <2>7 DEF Sound
  <2>9. AppliedAs(t, s, d)
    BY <1>2, <2>2, <2>3, <2>6 DEF AppliedAs
  <2> QED
    BY <2>8, <2>9 DEF t
<1>3. CASE d.channel # Messages
  <2> DEFINE h == S!Apply(g, ins)
             acks == IF S!ApplyFails(g, ins) THEN s.ack_pending
                     ELSE AckFor(s, Screen, ins, S!Advanced(g, ins))
  <2>1. ins.ack \in Nat /\ ins.new \in Nat /\ IsGridDiff(ins.diff)
    BY <1>3 DEF IsDatagram
  <2>2. h \in ScreenChannel /\ StepsFit(h)
    BY <1>1, <2>1, ScreenApply
  <2>3. acks \in [{Messages, Screen} -> BOOLEAN]
    BY <1>1 DEF AckFor
  <2>4. t = [s EXCEPT !.screen = h, !.ack_pending = acks]
    <3>1. CASE S!ApplyFails(g, ins)
      <4>1. t = [s EXCEPT !.screen = h]
        BY <1>3, <3>1 DEF Applied
      <4>2. [s EXCEPT !.screen = h] = [s EXCEPT !.screen = h, !.ack_pending = s.ack_pending]
        <5> HIDE DEF h
        <5> QED
          BY <1>1 DEF SessionSet
      <4> QED
        BY <3>1, <4>1, <4>2
    <3>2. CASE ~S!ApplyFails(g, ins)
      BY <1>3, <3>2 DEF Applied
    <3> QED
      BY <3>1, <3>2
  <2>5. Taken(s, d) = <<>>
    BY <1>3 DEF Taken
  <2> HIDE DEF t, h, acks
  <2>6. /\ t \in SessionSet /\ t.messages = c /\ t.screen = h /\ t.epoch = life
        /\ t.retired = s.retired /\ t.peer_epoch = s.peer_epoch
    <3>1. s \in SessionSet
      BY <1>1
    <3> HIDE DEF g
    <3> QED
      BY <3>1, <2>2, <2>3, <2>4 DEF SessionSet, ScreenChannel, Grid
  <2>7. Sound(t, e, q)
    BY <1>1, <2>2, <2>6 DEF Sound
  <2>8. AppliedAs(t, s, d)
    BY <1>3, <2>5, <2>6 DEF AppliedAs
  <2> QED
    BY <2>7, <2>8 DEF t
<1> QED
  BY <1>2, <1>3

-----------------------------------------------------------------------------
(* The wire. *)

(* What is in flight from an endpoint in its life `epoch`. *)
Wire(flying, epoch) ==
    /\ flying \in Seq(Range(flying)) /\ Len(flying) <= MaxNet
    /\ \A d \in Range(flying) :
          IsDatagram(d) /\ d.epoch <= epoch /\ d.ins.throwaway = d.ins.ack

LEMMA RangeFacts ==
    ASSUME NEW T, NEW s \in Seq(T)
    PROVE  /\ Range(s) = {s[i] : i \in 1..Len(s)} /\ Range(s) \subseteq T
           /\ s \in Seq(Range(s))
<1>1. DOMAIN s = 1..Len(s) /\ \A i \in 1..Len(s) : s[i] \in T
  OBVIOUS
<1>2. Range(s) = {s[i] : i \in 1..Len(s)}
  BY <1>1 DEF Range
<1>3. Range(s) \subseteq T
  BY <1>1, <1>2
<1>4. s \in [1..Len(s) -> Range(s)] /\ Len(s) \in Nat
  BY <1>2
<1>5. s \in Seq(Range(s))
  BY <1>4
<1> QED
  BY <1>2, <1>3, <1>5

(* now is the end of all, from some place on. *)
IsEnd(now, all) ==
    \E k \in Nat : /\ Len(now) + k = Len(all)
                   /\ \A i \in 1..Len(now) : now[i] = all[k + i]

(* Of what is sent the oldest may be lost. *)
LEMMA InFlightFacts ==
    ASSUME NEW T, NEW flying \in Seq(T), NEW new \in Seq(T),
           NEW all, all = flying \o new, NEW now, now = InFlight(flying, new)
    PROVE  /\ now \in Seq(T) /\ Len(now) <= MaxNet
           /\ Len(all) = Len(flying) + Len(new) /\ IsEnd(now, all)
<1>1. all \in Seq(T) /\ Len(all) = Len(flying) + Len(new)
  BY ConcatProperties
<1>2. CASE Len(all) <= MaxNet
  <2>1. now = all
    BY <1>2 DEF InFlight
  <2>2. /\ now \in Seq(T) /\ Len(now) <= MaxNet /\ Len(now) + 0 = Len(all)
        /\ \A i \in 1..Len(now) : now[i] = all[0 + i]
    BY ONLY <1>1, <1>2, <2>1
  <2> QED
    BY <1>1, <2>2 DEF IsEnd
<1>3. CASE ~(Len(all) <= MaxNet)
  <2> DEFINE k == Len(all) - MaxNet
  <2>1. k \in Nat /\ MaxNet \in Nat /\ k + MaxNet = Len(all) /\ Len(all) \in Nat
    BY <1>1, <1>3, SessionAssumption
  <2>2. now = SubSeq(all, k + 1, Len(all))
    BY <1>3 DEF InFlight
  <2> HIDE DEF k
  <2>3. /\ now \in Seq(T) /\ Len(now) = MaxNet
        /\ \A i \in 1..Len(now) : now[i] = all[k + i]
    BY ONLY <1>1, <2>1, <2>2
  <2>4. Len(now) <= MaxNet /\ Len(now) + k = Len(all)
    BY ONLY <1>1, <2>1, <2>3
  <2> QED
    BY <1>1, <2>1, <2>3, <2>4 DEF IsEnd
<1> QED
  BY <1>2, <1>3

(* A datagram of a session. *)
LEMMA DatagramFacts ==
    ASSUME NEW e \in Endpoint, NEW s, NEW q, Sound(s, e, q), NEW c \in {Messages, Screen}
    PROVE  LET d == Datagram(s, c)
           IN  /\ IsDatagram(d) /\ d.ins.throwaway = d.ins.ack
               /\ d.epoch = s.epoch /\ d.channel = c /\ d.heard = s.peer_epoch
               /\ ~d.outlived
               /\ c = Messages => Carries(d.ins, s.messages, e, s.epoch,
                                          q - s.messages.current_num)
<1> DEFINE d == Datagram(s, c)
           m == s.messages
           life == s.epoch
           origin == q - m.current_num
<1>1. /\ s \in SessionSet /\ m \in MessageChannel /\ s.screen \in ScreenChannel
      /\ life \in Nat /\ q \in Nat /\ m.current_num \in Nat /\ m.current_num <= q
      /\ Chained(m, e, life, origin) /\ StepsFit(s.screen) /\ s.peer_epoch \in Nat
  BY SessionFields, MessageFields DEF Sound
<1>2. /\ d.epoch = s.epoch /\ d.channel = c /\ d.heard = s.peer_epoch /\ d.outlived = FALSE
      /\ DOMAIN d = {"epoch", "channel", "ins", "heard", "outlived"}
      /\ d.ins = IF c = Messages THEN M!Instruction(m) ELSE S!Instruction(s.screen)
  BY DEF Datagram, Instruction
<1>3. origin \in Nat /\ m.assumed \in Nat /\ m.received_num \in Nat
  BY <1>1, MessageFields
<1> HIDE DEF d, m, life, origin
<1>4. CASE c = Messages
  <2>1. Carries(d.ins, m, e, life, origin)
    BY <1>1, <1>2, <1>3, <1>4, InstructionCarries
  <2>2. /\ d.ins.old \in Nat /\ d.ins.new \in Nat /\ d.ins.ack \in Nat
        /\ d.ins.throwaway = d.ins.ack /\ m.assumed <= d.ins.new
        /\ d.ins.diff = Between(e, life, origin + m.assumed, origin + d.ins.new)
    BY <1>3, <2>1 DEF Carries
  <2>3. d.ins.diff \in Seq(MessageSet)
    <3> DEFINE first == origin + m.assumed
               last == origin + d.ins.new
    <3>1. first \in Int /\ last \in Int /\ 0 <= first /\ first <= last
      BY <1>3, <2>2
    <3> HIDE DEF first, last
    <3>2. Between(e, life, first, last) \in Seq(MessageSet)
      BY <1>1, <3>1, BetweenMessages
    <3> QED
      BY <2>2, <3>2 DEF first, last
  <2>4. IsDatagram(d)
    BY <1>1, <1>2, <1>4, <2>2, <2>3 DEF IsDatagram, life
  <2> QED
    BY <1>2, <1>4, <2>1, <2>2, <2>4 DEF d, m, life, origin
<1>5. CASE c = Screen
  <2>1. /\ {d.ins.old, d.ins.new, d.ins.ack, d.ins.throwaway} \subseteq Nat
        /\ d.ins.throwaway = d.ins.ack /\ IsGridDiff(d.ins.diff)
    <3>1. d.ins = S!Instruction(s.screen)
      BY <1>2, <1>5 DEF Messages, Screen
    <3> QED
      BY <1>1, <3>1, ScreenInstruction
  <2>2. IsDatagram(d)
    BY <1>1, <1>2, <1>5, <2>1 DEF IsDatagram, life
  <2>3. c # Messages
    BY <1>5 DEF Messages, Screen
  <2> QED
    BY <1>2, <1>5, <2>1, <2>2, <2>3 DEF d
<1> QED
  BY <1>4, <1>5

(* What the network takes of one call: datagrams of the session. *)
DatagramsOf(s) == {Datagram(s, c) : c \in {Messages, Screen}}

LEMMA OrderFacts ==
    ASSUME NEW e \in Endpoint, NEW cs \in SUBSET {Messages, Screen},
           NEW order \in SetToSeqs(Sent(e, cs))
    PROVE  [i \in DOMAIN order |-> Datagram(session[e], order[i])]
             \in Seq(DatagramsOf(session[e]))
<1> DEFINE T == Sent(e, cs)
           n == Cardinality(T)
           new == [i \in DOMAIN order |-> Datagram(session[e], order[i])]
<1>1. T \in SUBSET {Messages, Screen}
  BY DEF Sent
<1>2. IsFiniteSet({Messages, Screen})
  <2>1. IsFiniteSet({Messages}) /\ {Messages} \cup {Screen} = {Messages, Screen}
    BY FS_Singleton
  <2> QED
    BY <2>1, FS_AddElement
<1>3. n \in Nat
  BY <1>1, <1>2, FS_Subset, FS_CardinalityType
<1>4. order \in [1..n -> T]
  BY DEF SetToSeqs
<1> HIDE DEF n, T
<1>5. DOMAIN order = 1..n /\ \A i \in 1..n : order[i] \in {Messages, Screen}
  BY <1>1, <1>4
<1>6. new \in [1..n -> DatagramsOf(session[e])]
  <2>1. \A i \in 1..n : Datagram(session[e], order[i]) \in DatagramsOf(session[e])
    BY <1>5 DEF DatagramsOf
  <2> QED
    BY <1>5, <2>1
<1> HIDE DEF new
<1>7. new \in Seq(DatagramsOf(session[e]))
  BY <1>3, <1>6
<1> QED
  BY <1>7 DEF new

(* The wire after a call. *)
LEMMA WireSent ==
    ASSUME NEW epoch, NEW flying, Wire(flying, epoch), NEW T, NEW new \in Seq(T),
           \A d \in T : IsDatagram(d) /\ d.epoch <= epoch /\ d.ins.throwaway = d.ins.ack
    PROVE  /\ Wire(InFlight(flying, new), epoch)
           /\ Range(InFlight(flying, new)) \subseteq Range(flying) \cup T
<1> DEFINE U == Range(flying) \cup T
           now == InFlight(flying, new)
           all == flying \o new
<1>1. flying \in Seq(Range(flying)) /\ Range(flying) \subseteq U /\ T \subseteq U
  BY DEF Wire
<1> HIDE DEF U
<1>2. flying \in Seq(U) /\ new \in Seq(U)
  BY <1>1, SeqMonotonic
<1>a. all = flying \o new /\ now = InFlight(flying, new)
  OBVIOUS
<1> HIDE DEF now, all
<1>3. now \in Seq(U) /\ Len(now) <= MaxNet
  BY <1>2, <1>a, InFlightFacts
<1>4. Range(now) \subseteq U /\ now \in Seq(Range(now))
  BY <1>3, RangeFacts
<1>5. \A d \in U : IsDatagram(d) /\ d.epoch <= epoch /\ d.ins.throwaway = d.ins.ack
  BY DEF Wire, U
<1>6. Wire(now, epoch)
  BY <1>3, <1>4, <1>5 DEF Wire
<1> QED
  BY <1>4, <1>6 DEF now, U

(* What is left behind a datagram that arrived. *)
LEMMA RestFacts ==
    ASSUME NEW T, NEW flying \in Seq(T), NEW i \in 1..Len(flying)
    PROVE  LET rest == SubSeq(flying, i + 1, Len(flying))
           IN  /\ rest \in Seq(T) /\ Len(rest) = Len(flying) - i
               /\ \A j \in 1..Len(rest) : rest[j] = flying[i + j]
<1> DEFINE rest == SubSeq(flying, i + 1, Len(flying))
<1>1. rest \in Seq(T) /\ Len(rest) = Len(flying) - i
  OBVIOUS
<1>2. \A j \in 1..Len(rest) : rest[j] = flying[i + j]
  BY <1>1
<1> QED
  BY <1>1, <1>2

LEMMA WireRest ==
    ASSUME NEW epoch, NEW flying, Wire(flying, epoch), NEW i \in 1..Len(flying)
    PROVE  LET rest == SubSeq(flying, i + 1, Len(flying))
           IN  Wire(rest, epoch) /\ Range(rest) \subseteq Range(flying)
<1> DEFINE rest == SubSeq(flying, i + 1, Len(flying))
<1>1. flying \in Seq(Range(flying)) /\ Len(flying) <= MaxNet
  BY DEF Wire
<1>2. rest \in Seq(Range(flying)) /\ Len(rest) = Len(flying) - i
  BY <1>1, RestFacts
<1> HIDE DEF rest
<1>3. Range(rest) \subseteq Range(flying) /\ rest \in Seq(Range(rest))
  BY <1>2, RangeFacts
<1>4. Len(rest) <= MaxNet
  BY <1>1, <1>2, SessionAssumption
<1>5. Wire(rest, epoch)
  BY <1>3, <1>4 DEF Wire
<1> QED
  BY <1>3, <1>5 DEF rest

LEMMA WireLater ==
    ASSUME NEW flying, NEW epoch \in Nat, NEW later \in Nat, Wire(flying, epoch), epoch <= later
    PROVE  Wire(flying, later)
<1>1. \A d \in Range(flying) : d.epoch \in Nat
  BY DEF Wire, IsDatagram
<1> QED
  BY <1>1 DEF Wire

LEMMA WireEmpty ==
    ASSUME NEW epoch
    PROVE  Wire(<<>>, epoch) /\ Range(<<>>) = {}
<1>1. Range(<<>>) = {}
  BY DEF Range
<1> QED
  BY <1>1, SessionAssumption DEF Wire

(* What is still in flight when a process has restarted. *)
LEMMA WireOutlived ==
    ASSUME NEW epoch, NEW flying, Wire(flying, epoch)
    PROVE  /\ Wire(Outlived(flying), epoch)
           /\ \A d \in Range(Outlived(flying)) : d.outlived
<1> DEFINE now == Outlived(flying)
           n == Len(flying)
<1>1. /\ flying \in Seq(Range(flying)) /\ n <= MaxNet
      /\ \A d \in Range(flying) : IsDatagram(d) /\ d.epoch <= epoch /\ d.ins.throwaway = d.ins.ack
  BY DEF Wire
<1>2. n \in Nat /\ DOMAIN flying = 1..n
  BY <1>1
<1>3. now = [i \in 1..n |-> [flying[i] EXCEPT !.outlived = TRUE]]
  BY <1>2 DEF Outlived
<1> HIDE DEF now, n
<1>4. now \in [1..n -> Range(now)] /\ Range(now) = {now[i] : i \in 1..n}
  BY <1>3 DEF Range
<1>5. now \in Seq(Range(now)) /\ Len(now) = n
  BY <1>2, <1>4
<1>6. ASSUME NEW i \in 1..n
      PROVE  /\ IsDatagram(now[i]) /\ now[i].epoch <= epoch
             /\ now[i].ins.throwaway = now[i].ins.ack /\ now[i].outlived
  <2> DEFINE d == flying[i]
             x == [d EXCEPT !.outlived = TRUE]
  <2>1. IsDatagram(d) /\ d.epoch <= epoch /\ d.ins.throwaway = d.ins.ack
    BY <1>1, <1>2, RangeFacts
  <2>2. DOMAIN d = {"epoch", "channel", "ins", "heard", "outlived"}
    BY <2>1 DEF IsDatagram
  <2> HIDE DEF d
  <2>3. /\ DOMAIN x = DOMAIN d /\ x.outlived = TRUE /\ x.epoch = d.epoch
        /\ x.channel = d.channel /\ x.ins = d.ins /\ x.heard = d.heard
    BY <2>2
  <2>4. now[i] = x
    BY <1>3 DEF d
  <2> HIDE DEF x
  <2> QED
    BY <2>1, <2>3, <2>4 DEF IsDatagram
<1>7. \A d \in Range(now) : /\ IsDatagram(d) /\ d.epoch <= epoch
                           /\ d.ins.throwaway = d.ins.ack /\ d.outlived
  BY <1>4, <1>6
<1>8. Wire(now, epoch)
  BY <1>1, <1>5, <1>7 DEF Wire, n
<1> QED
  BY <1>7, <1>8 DEF now

-----------------------------------------------------------------------------
(* The invariant, endpoint by endpoint. *)
Whole ==
    /\ session \in [Endpoint -> SessionSet] /\ DOMAIN net = Endpoint
    /\ queued \in [Endpoint -> Nat] /\ screens \in Nat
    /\ arrived \in [Endpoint -> Seq(MessageSet)] /\ delivered \subseteq MessageSet
    /\ {crossed, disordered} \subseteq BOOLEAN /\ met \subseteq Endpoint
    /\ \A e \in Endpoint :
          /\ Sound(session[e], e, queued[e])
          /\ session[e].peer_epoch <= session[Peer(e)].epoch
          /\ Wire(net[e], session[e].epoch)

LEMMA WholeIsIInv ==
    ASSUME Whole
    PROVE  IInv
<1>1. TypeOK
  BY DEF Whole, TypeOK, Sound, Wire
<1>2. MessagesChained
  BY DEF Whole, MessagesChained, Sound, Origin
<1>3. ScreenChained
  BY DEF Whole, ScreenChained, Sound
<1>4. AcksRelease
  BY DEF Whole, AcksRelease, Wire
<1> QED
  BY <1>1, <1>2, <1>3, <1>4 DEF IInv

LEMMA Peers ==
    ASSUME NEW e \in Endpoint
    PROVE  Peer(e) \in Endpoint /\ Peer(Peer(e)) = e /\ Peer(e) # e
           /\ \A f \in Endpoint : f = e \/ f = Peer(e)
BY SessionAssumption DEF Endpoint, Peer

(* A step that gives one endpoint another session. *)
LEMMA WholeStep ==
    ASSUME Whole, NEW e \in Endpoint, NEW t, NEW q, Sound(t, e, q),
           session' = [session EXCEPT ![e] = t], queued' = [queued EXCEPT ![e] = q],
           session[e].epoch <= t.epoch, t.peer_epoch <= session[Peer(e)].epoch,
           screens' \in Nat, arrived' \in [Endpoint -> Seq(MessageSet)],
           delivered' \subseteq MessageSet, {crossed, disordered}' \subseteq BOOLEAN,
           met' \subseteq Endpoint, DOMAIN net' = Endpoint,
           \A f \in Endpoint : Wire(net'[f], session[f].epoch)
    PROVE  Whole'
<1>1. session' \in [Endpoint -> SessionSet] /\ queued' \in [Endpoint -> Nat]
  BY DEF Whole, Sound
<1>2. ASSUME NEW f \in Endpoint
      PROVE  /\ session[f].epoch \in Nat /\ session'[f].epoch \in Nat
             /\ session[f].epoch <= session'[f].epoch
             /\ Sound(session'[f], f, queued'[f])
             /\ session'[f].peer_epoch \in Nat
             /\ session'[f].peer_epoch <= session[Peer(f)].epoch
  <2>1. session[f] \in SessionSet /\ session'[f] \in SessionSet
    BY <1>1 DEF Whole
  <2>2. session[f].epoch \in Nat /\ session'[f].epoch \in Nat /\ session'[f].peer_epoch \in Nat
    BY <2>1, SessionFields
  <2>3. CASE f = e
    BY <2>2, <2>3 DEF Whole
  <2>4. CASE f # e
    BY <2>2, <2>4 DEF Whole
  <2> QED
    BY <2>3, <2>4
<1>3. ASSUME NEW f \in Endpoint
      PROVE  /\ session'[f].peer_epoch <= session'[Peer(f)].epoch
             /\ Wire(net'[f], session'[f].epoch)
  <2>1. Peer(f) \in Endpoint
    BY Peers
  <2>2. session'[f].peer_epoch <= session'[Peer(f)].epoch
    <3>1. /\ session[Peer(f)].epoch \in Nat /\ session'[Peer(f)].epoch \in Nat
          /\ session[Peer(f)].epoch <= session'[Peer(f)].epoch
      BY <1>2, <2>1
    <3>2. session'[f].peer_epoch \in Nat /\ session'[f].peer_epoch <= session[Peer(f)].epoch
      BY <1>2
    <3> QED
      BY <3>1, <3>2
  <2>3. Wire(net'[f], session'[f].epoch)
    BY <1>2, WireLater
  <2> QED
    BY <2>2, <2>3
<1> QED
  BY <1>1, <1>2, <1>3 DEF Whole

LEMMA InitWhole ==
    ASSUME Init
    PROVE  Whole
<1>1. ASSUME NEW e \in Endpoint
      PROVE  /\ Sound(session[e], e, queued[e]) /\ session[e] \in SessionSet
             /\ session[e].epoch = 1 /\ session[e].peer_epoch = 0
             /\ Wire(net[e], session[e].epoch)
  <2>1. session[e] = NewSession(1) /\ queued[e] = 0 /\ net[e] = <<>>
    BY DEF Init
  <2>2. /\ Sound(NewSession(1), e, 0)
        /\ NewSession(1).epoch = 1 /\ NewSession(1).peer_epoch = NoEpoch
    BY SoundNew
  <2>3. Wire(<<>>, 1)
    BY WireEmpty
  <2> QED
    BY <2>1, <2>2, <2>3 DEF Sound, NoEpoch
<1>2. ASSUME NEW e \in Endpoint
      PROVE  session[e].peer_epoch <= session[Peer(e)].epoch
  <2>1. Peer(e) \in Endpoint
    BY Peers
  <2> QED
    BY <1>1, <2>1
<1>3. /\ session \in [Endpoint -> SessionSet] /\ DOMAIN net = Endpoint
      /\ queued \in [Endpoint -> Nat] /\ screens \in Nat
      /\ arrived \in [Endpoint -> Seq(MessageSet)] /\ delivered \subseteq MessageSet
      /\ {crossed, disordered} \subseteq BOOLEAN /\ met \subseteq Endpoint
  <2>1. session \in [Endpoint -> SessionSet]
    <3>1. session = [e \in Endpoint |-> session[e]]
      BY DEF Init
    <3> QED
      BY <1>1, <3>1
  <2>2. arrived \in [Endpoint -> Seq(MessageSet)]
    <3>1. <<>> \in Seq(MessageSet)
      OBVIOUS
    <3> QED
      BY <3>1 DEF Init
  <2> QED
    BY <2>1, <2>2 DEF Init
<1> QED
  BY <1>1, <1>2, <1>3 DEF Whole

(* What the invariant says of one endpoint. *)
LEMMA EndFacts ==
    ASSUME Whole, NEW e \in Endpoint
    PROVE  /\ Sound(session[e], e, queued[e]) /\ session[e] \in SessionSet
           /\ session[e].epoch \in Nat /\ session[e].epoch # NoEpoch
           /\ session[e].peer_epoch \in Nat
           /\ session[e].peer_epoch <= session[Peer(e)].epoch
           /\ Wire(net[e], session[e].epoch) /\ Peer(e) \in Endpoint
           /\ queued[e] \in Nat /\ arrived[e] \in Seq(MessageSet)
           /\ session[e].messages \in MessageChannel
           /\ session[e].messages.current_num \in Nat
           /\ session[e].messages.assumed \in Nat
           /\ session[e].messages.assumed <= session[e].messages.current_num
           /\ session[e].messages.received_num \in Nat
           /\ Origin(e) \in Nat /\ Origin(e) + session[e].messages.current_num = queued[e]
<1>1. /\ Sound(session[e], e, queued[e]) /\ session[e] \in SessionSet
      /\ session[e].peer_epoch <= session[Peer(e)].epoch
      /\ Wire(net[e], session[e].epoch)
      /\ queued[e] \in Nat /\ arrived[e] \in Seq(MessageSet)
  BY DEF Whole
<1>2. /\ session[e].epoch \in Nat /\ session[e].epoch # NoEpoch
      /\ session[e].peer_epoch \in Nat /\ session[e].messages \in MessageChannel
  BY <1>1, SessionFields
<1>3. /\ session[e].messages.current_num \in Nat
      /\ session[e].messages.assumed \in Nat
      /\ session[e].messages.received_num \in Nat
  BY <1>2, MessageFields
<1>4. /\ session[e].messages.current_num <= queued[e]
      /\ Chained(session[e].messages, e, session[e].epoch,
                 queued[e] - session[e].messages.current_num)
  BY <1>1 DEF Sound
<1>5. session[e].messages.assumed <= session[e].messages.current_num
  BY <1>2, <1>4, ChainedFacts
<1>6. Origin(e) \in Nat /\ Origin(e) + session[e].messages.current_num = queued[e]
  BY <1>1, <1>3, <1>4 DEF Origin
<1>7. Peer(e) \in Endpoint
  BY Peers
<1> QED
  BY <1>1, <1>2, <1>3, <1>5, <1>6, <1>7

LEMMA GridOfRows ==
    ASSUME NEW life \in Nat, NEW n \in Nat
    PROVE  GridOf(life, n) \in Grid
<1> DEFINE m == 2 - (n % 2)
           k == (n + 1) \div 2
<1>1. m \in Nat /\ k \in Nat
  OBVIOUS
<1>2. GridOf(life, n) = [i \in 1..m |-> [count |-> 2, index |-> i, body |-> <<life, k, i>>]]
  BY DEF GridOf
<1> HIDE DEF m, k
<1>3. ASSUME NEW i \in 1..m
      PROVE  [count |-> 2, index |-> i, body |-> <<life, k, i>>] \in RowSet
  <2>1. <<life, k, i>> \in Seq(Nat) /\ i \in Nat
    BY <1>1
  <2> QED
    BY <2>1 DEF RowSet
<1>4. GridOf(life, n) \in [1..m -> RowSet]
  BY <1>2, <1>3
<1> QED
  BY <1>1, <1>4 DEF Grid

(* A step that leaves the wire and the histories of deliveries alone. *)
LEMMA WholeLocal ==
    ASSUME Whole, NEW e \in Endpoint, NEW t, NEW q, Sound(t, e, q),
           session' = [session EXCEPT ![e] = t], queued' = [queued EXCEPT ![e] = q],
           session[e].epoch = t.epoch, t.peer_epoch = session[e].peer_epoch,
           screens' \in Nat, UNCHANGED <<net, arrived, delivered, crossed, met, disordered>>
    PROVE  Whole'
<1>1. /\ session[e].epoch \in Nat /\ session[e].epoch <= t.epoch
      /\ t.peer_epoch <= session[Peer(e)].epoch
  BY EndFacts
<1>2. /\ arrived' \in [Endpoint -> Seq(MessageSet)] /\ delivered' \subseteq MessageSet
      /\ {crossed, disordered}' \subseteq BOOLEAN /\ met' \subseteq Endpoint
      /\ DOMAIN net' = Endpoint
      /\ \A f \in Endpoint : Wire(net'[f], session[f].epoch)
  BY DEF Whole
<1> QED
  BY <1>1, <1>2, WholeStep

LEMMA WholeSetScreen ==
    ASSUME Whole, SetScreen
    PROVE  Whole'
<1> DEFINE s == session[Host]
           g == GridOf(s.epoch, screens + 1)
           t == [s EXCEPT !.screen = S!Advance(@, g)]
<1>1. Host \in Endpoint /\ screens \in Nat
  BY DEF Endpoint, Whole
<1>2. Sound(s, Host, queued[Host]) /\ s.epoch \in Nat
  BY <1>1, EndFacts
<1>3. g \in Grid
  BY <1>1, <1>2, GridOfRows
<1>4. GridFits(GridDiff(g, s.screen.current)) /\ screens' = screens + 1
      /\ session' = [session EXCEPT ![Host] = t]
      /\ UNCHANGED <<net, queued, arrived, delivered, crossed, met, disordered>>
  <2>1. session' = [session EXCEPT ![Host].screen = S!Advance(s.screen, g)]
    BY DEF SetScreen
  <2>2. session' = [session EXCEPT ![Host] = [s EXCEPT !.screen = S!Advance(s.screen, g)]]
    BY <2>1
  <2> QED
    BY <2>2 DEF SetScreen
<1> HIDE DEF g
<1>5. /\ Sound(t, Host, queued[Host])
      /\ t.epoch = s.epoch /\ t.peer_epoch = s.peer_epoch
  BY <1>1, <1>2, <1>3, <1>4, SoundScreen
<1> HIDE DEF t
<1>6. queued' = [queued EXCEPT ![Host] = queued[Host]] /\ screens' \in Nat
  BY <1>1, <1>4 DEF Whole
<1> QED
  BY <1>1, <1>4, <1>5, <1>6, WholeLocal

(* Session::queue_message *)
LEMMA WholeQueueMessage ==
    ASSUME Whole, NEW e \in Endpoint, QueueMessage(e)
    PROVE  /\ Whole'
           /\ \E t : /\ session' = [session EXCEPT ![e] = t]
                     /\ t.epoch = session[e].epoch /\ t.peer_epoch = session[e].peer_epoch
                     /\ t.messages.current_num = session[e].messages.current_num + 1
                     /\ t.messages.assumed = session[e].messages.assumed
                     /\ t.messages.received_num = session[e].messages.received_num
<1> DEFINE s == session[e]
           q == queued[e]
           m == MessageOf(e, q + 1)
           t == [s EXCEPT !.messages = M!Advance(@, Push(@.current, m))]
<1>1. Sound(s, e, q)
  BY EndFacts
<1>2. m = [by |-> e, life |-> s.epoch, n |-> q + 1]
  BY DEF MessageOf
<1>3. /\ session' = [session EXCEPT ![e] = t] /\ queued' = [queued EXCEPT ![e] = q + 1]
      /\ UNCHANGED <<net, screens, arrived, delivered, crossed, met, disordered>>
  <2>1. session' = [session EXCEPT ![e].messages = M!Advance(s.messages, Push(s.messages.current, m))]
    BY DEF QueueMessage
  <2>2. session' = [session EXCEPT ![e] =
                       [s EXCEPT !.messages = M!Advance(s.messages, Push(s.messages.current, m))]]
    BY <2>1
  <2> QED
    BY <2>2 DEF QueueMessage
<1> HIDE DEF m, s, q
<1>4. /\ Sound(t, e, q + 1)
      /\ t.epoch = s.epoch /\ t.peer_epoch = s.peer_epoch
      /\ t.messages.current_num = s.messages.current_num + 1
      /\ t.messages.assumed = s.messages.assumed
      /\ t.messages.received_num = s.messages.received_num
  BY <1>1, <1>2, SoundQueue DEF t
<1> HIDE DEF t
<1> USE DEF s, q
<1>5. screens' \in Nat
  BY <1>3 DEF Whole
<1>6. Whole'
  BY <1>3, <1>4, <1>5, WholeLocal
<1> QED
  BY <1>3, <1>4, <1>6

(* What a step does that changes no numbers of channel 0. *)
SameNumbers(t, s) ==
    /\ t.epoch = s.epoch /\ t.peer_epoch = s.peer_epoch
    /\ t.messages.current_num = s.messages.current_num
    /\ t.messages.assumed = s.messages.assumed
    /\ t.messages.received_num = s.messages.received_num

(* Driver::poll, when a sequence number could not be reserved. *)
LEMMA WholeOutgoingFails ==
    ASSUME Whole, NEW e \in Endpoint, NEW c \in {Messages, Screen}, OutgoingFails(e, c)
    PROVE  /\ Whole'
           /\ \E t : session' = [session EXCEPT ![e] = t] /\ SameNumbers(t, session[e])
<1> DEFINE s == session[e]
           q == queued[e]
           t == Built(s, {c})
<1>1. Sound(s, e, q)
  BY EndFacts
<1>2. Sound(t, e, q) /\ SameNumbers(t, s)
  BY <1>1, SoundBuilt DEF SameNumbers
<1>3. /\ session' = [session EXCEPT ![e] = t]
      /\ UNCHANGED <<net, queued, screens, arrived, delivered, crossed, met, disordered>>
  BY DEF OutgoingFails
<1> HIDE DEF t
<1>4. queued' = [queued EXCEPT ![e] = q] /\ screens' \in Nat
  BY <1>3 DEF Whole
<1>5. Whole'
  BY <1>2, <1>3, <1>4, WholeLocal DEF SameNumbers
<1> QED
  BY <1>2, <1>3, <1>5

(* Session::outgoing: datagrams of the session go onto the wire. *)
LEMMA WholeOutgoing ==
    ASSUME Whole, NEW e \in Endpoint, NEW cs \in SUBSET {Messages, Screen}, Outgoing(e, cs)
    PROVE  /\ Whole'
           /\ \E t : session' = [session EXCEPT ![e] = t] /\ SameNumbers(t, session[e])
           /\ \E new \in Seq(DatagramsOf(session[e])) :
                 net' = [net EXCEPT ![e] = InFlight(net[e], new)]
<1> DEFINE s == session[e]
           q == queued[e]
           t == Built(s, cs)
           T == DatagramsOf(s)
<1>1. Sound(s, e, q) /\ Wire(net[e], s.epoch) /\ DOMAIN net = Endpoint
  BY EndFacts DEF Whole
<1>2. Sound(t, e, q) /\ SameNumbers(t, s)
  BY <1>1, SoundBuilt DEF SameNumbers
<1>3. /\ session' = [session EXCEPT ![e] = t]
      /\ UNCHANGED <<queued, screens, arrived, delivered, crossed, met, disordered>>
  BY DEF Outgoing
<1>4. PICK order \in SetToSeqs(Sent(e, cs)) :
         net' = [net EXCEPT ![e] = InFlight(@, [i \in DOMAIN order |-> Datagram(session[e], order[i])])]
  BY DEF Outgoing
<1> DEFINE new == [i \in DOMAIN order |-> Datagram(session[e], order[i])]
<1>5. new \in Seq(T)
  BY OrderFacts
<1>6. net' = [net EXCEPT ![e] = InFlight(net[e], new)]
  BY <1>4
<1>7. \A d \in T : IsDatagram(d) /\ d.epoch <= s.epoch /\ d.ins.throwaway = d.ins.ack
  <2>1. ASSUME NEW c \in {Messages, Screen}
        PROVE  LET d == Datagram(s, c)
               IN  IsDatagram(d) /\ d.ins.throwaway = d.ins.ack /\ d.epoch = s.epoch
    BY <1>1, DatagramFacts
  <2>2. s.epoch \in Nat
    BY EndFacts
  <2> QED
    BY <2>1, <2>2 DEF DatagramsOf
<1> HIDE DEF new, t, T
<1>8. Wire(InFlight(net[e], new), s.epoch)
  BY <1>1, <1>5, <1>7, WireSent
<1>9. \A f \in Endpoint : Wire(net'[f], session[f].epoch)
  BY <1>1, <1>6, <1>8 DEF Whole
<1>10. /\ queued' = [queued EXCEPT ![e] = q] /\ screens' \in Nat
       /\ arrived' \in [Endpoint -> Seq(MessageSet)] /\ delivered' \subseteq MessageSet
       /\ {crossed, disordered}' \subseteq BOOLEAN /\ met' \subseteq Endpoint
       /\ DOMAIN net' = Endpoint
  BY <1>1, <1>3, <1>6 DEF Whole
<1>11. /\ s.epoch \in Nat /\ s.epoch <= t.epoch
       /\ t.peer_epoch <= session[Peer(e)].epoch
  BY <1>2, EndFacts DEF SameNumbers
<1>12. Whole'
  BY <1>2, <1>3, <1>9, <1>10, <1>11, WholeStep
<1> QED
  BY <1>2, <1>3, <1>5, <1>6, <1>12 DEF T

(* Driver::handle_datagram: an epoch of a former life changes nothing, any *)
(* other datagram is heard and applied.                                    *)
Handled(e, d) ==
    IF d.epoch \in Range(session[e].retired)
      THEN UNCHANGED <<session, arrived, delivered, met, disordered>>
      ELSE /\ met' = IF Former(d.heard, session[e].epoch) THEN met ELSE met \cup {e}
           /\ disordered' = (disordered \/ d \notin Timely(Peer(e)))
           /\ \E s, t :
                 /\ HeardAs(s, session[e], d.epoch) /\ AppliedAs(t, s, d)
                 /\ session' = [session EXCEPT ![e] = t]
                 /\ arrived' = [arrived EXCEPT ![e] = @ \o Taken(s, d)]
                 /\ delivered' = delivered \cup Range(Taken(s, d))
                 /\ Taken(s, d) \in Seq(MessageSet)

LEMMA WholeReceive ==
    ASSUME Whole, NEW e \in Endpoint, NEW i \in DOMAIN net[Peer(e)], Receive(e, i)
    PROVE  /\ Whole' /\ Handled(e, net[Peer(e)][i])
           /\ queued' = queued
           /\ net' = IF Reorder THEN net
                     ELSE [net EXCEPT ![Peer(e)] = SubSeq(@, i + 1, Len(@))]
<1> DEFINE f == Peer(e)
           d == net[f][i]
           s == Heard(session[e], d.epoch)
           t == Applied(s, d)
           q == queued[e]
<1>1. /\ f \in Endpoint /\ DOMAIN net = Endpoint
      /\ Sound(session[e], e, q) /\ session[e].epoch \in Nat
      /\ session[e].peer_epoch <= session[f].epoch
  BY EndFacts DEF Whole
<1>2. Wire(net[f], session[f].epoch) /\ session[f].epoch \in Nat
  BY <1>1, EndFacts
<1>3. i \in 1..Len(net[f]) /\ net[f] \in Seq(Range(net[f]))
  BY <1>2 DEF Wire
<1>4. d \in Range(net[f])
  BY <1>3, RangeFacts
<1>5. /\ IsDatagram(d) /\ d.epoch <= session[f].epoch /\ d.ins.throwaway = d.ins.ack
      /\ d.epoch \in Nat
  BY <1>2, <1>4 DEF Wire, IsDatagram
<1>6. Sound(s, e, q) /\ HeardAs(s, session[e], d.epoch)
  <2> HIDE DEF d
  <2> QED
    BY <1>1, <1>5, SoundHeard
<1>7. Sound(t, e, q) /\ AppliedAs(t, s, d)
  <2> HIDE DEF d, s
  <2> QED
    BY <1>5, <1>6, SoundApplied
<1>8. t.epoch = session[e].epoch /\ t.peer_epoch = d.epoch
  BY <1>6, <1>7 DEF HeardAs, AppliedAs
<1>9. Taken(s, d) \in Seq(MessageSet)
  <2>1. <<>> \in Seq(MessageSet)
    OBVIOUS
  <2> HIDE DEF d, s, t
  <2>2. CASE d.channel = Messages
    <3>1. d.ins.diff \in Seq(MessageSet)
      BY <1>5, <2>2 DEF IsDatagram, Messages, Screen
    <3>2. Taken(s, d) = d.ins.diff \/ Taken(s, d) = <<>>
      BY <1>7, <2>2 DEF AppliedAs
    <3> QED
      BY <2>1, <3>1, <3>2
  <2>3. CASE d.channel # Messages
    BY <1>7, <2>1, <2>3 DEF AppliedAs
  <2> QED
    BY <2>2, <2>3
<1>10. /\ net' = IF Reorder THEN net ELSE [net EXCEPT ![f] = SubSeq(@, i + 1, Len(@))]
       /\ queued' = queued /\ screens' = screens
  BY DEF Receive
<1>11. /\ \A g \in Endpoint : Wire(net'[g], session[g].epoch)
       /\ DOMAIN net' = Endpoint
  <2>1. Wire(SubSeq(net[f], i + 1, Len(net[f])), session[f].epoch)
    BY <1>2, <1>3, WireRest
  <2> QED
    BY <1>1, <1>10, <2>1 DEF Whole
<1>12. queued' = [queued EXCEPT ![e] = q] /\ screens' \in Nat
  BY <1>10 DEF Whole
<1>13. CASE d.epoch \in Range(session[e].retired)
  <2>1. UNCHANGED <<session, arrived, delivered, crossed, met, disordered>>
    BY <1>13 DEF Receive
  <2>2. /\ session' = [session EXCEPT ![e] = session[e]]
        /\ arrived' \in [Endpoint -> Seq(MessageSet)] /\ delivered' \subseteq MessageSet
        /\ {crossed, disordered}' \subseteq BOOLEAN /\ met' \subseteq Endpoint
        /\ session[e].epoch <= session[e].epoch
    BY <1>1, <2>1 DEF Whole
  <2> HIDE DEF d, s, t, q, f
  <2>3. Whole'
    BY <1>1, <1>11, <1>12, <2>2, WholeStep DEF f
  <2> QED
    BY <1>10, <1>13, <2>1, <2>3 DEF Handled, f, d
<1>14. CASE ~(d.epoch \in Range(session[e].retired))
  <2>1. /\ session' = [session EXCEPT ![e] = t]
        /\ arrived' = [arrived EXCEPT ![e] = @ \o Taken(s, d)]
        /\ delivered' = delivered \cup Range(Taken(s, d))
        /\ crossed' = (crossed \/ (e = Owner /\ Crosses(s, d)))
        /\ met' = IF Former(d.heard, s.epoch) THEN met ELSE met \cup {e}
        /\ disordered' = (disordered \/ d \notin Timely(f))
    BY <1>14 DEF Receive
  <2> HIDE DEF d, s, t, q
  <2>2. arrived' \in [Endpoint -> Seq(MessageSet)]
    <3>1. arrived \in [Endpoint -> Seq(MessageSet)]
      BY DEF Whole
    <3>2. arrived[e] \o Taken(s, d) \in Seq(MessageSet)
      BY <1>9, <3>1, ConcatProperties
    <3> QED
      BY <2>1, <3>1, <3>2
  <2>3. delivered' \subseteq MessageSet
    <3>1. Range(Taken(s, d)) \subseteq MessageSet
      BY <1>9, RangeFacts
    <3> QED
      BY <2>1, <3>1 DEF Whole
  <2>4. {crossed, disordered}' \subseteq BOOLEAN /\ met' \subseteq Endpoint
    <3>1. Crosses(s, d) \in BOOLEAN
      BY DEF Crosses, S!Advanced
    <3> QED
      BY <2>1, <3>1 DEF Whole
  <2>5. session[e].epoch <= t.epoch /\ t.peer_epoch <= session[f].epoch
    BY <1>1, <1>5, <1>8
  <2> HIDE DEF f
  <2>6. Whole'
    BY <1>7, <1>11, <1>12, <2>1, <2>2, <2>3, <2>4, <2>5, WholeStep DEF f
  <2>7. Handled(e, d)
    <3>1. s.epoch = session[e].epoch
      BY <1>6 DEF HeardAs
    <3> QED
      BY <1>6, <1>7, <1>9, <1>14, <2>1, <3>1 DEF Handled, f
  <2> QED
    BY <1>10, <2>6, <2>7 DEF f, d
<1> QED
  BY <1>13, <1>14

LEMMA WholeRestart ==
    ASSUME Whole, NEW e \in Endpoint, Restart(e)
    PROVE  Whole'
<1> DEFINE life == session[e].epoch + 1
           t == NewSession(life)
<1>1. session[e].epoch \in Nat /\ life \in Nat \ {0} /\ session[e].epoch <= life
  BY EndFacts
<1>2. /\ session' = [session EXCEPT ![e] = t]
      /\ net' = [f \in Endpoint |-> IF Linger THEN Outlived(net[f]) ELSE <<>>]
      /\ queued' = [queued EXCEPT ![e] = 0]
      /\ screens' = IF e = Host THEN 0 ELSE screens
      /\ arrived' = [arrived EXCEPT ![e] = <<>>]
      /\ crossed' = (crossed /\ e # Owner) /\ met' = met \ {e}
      /\ UNCHANGED <<delivered, disordered>>
  BY DEF Restart
<1> HIDE DEF life
<1>3. Sound(t, e, 0) /\ t.epoch = life /\ t.peer_epoch = NoEpoch
  BY <1>1, SoundNew
<1> HIDE DEF t
<1>4. session[e].epoch <= t.epoch /\ t.peer_epoch <= session[Peer(e)].epoch
  <2>1. Peer(e) \in Endpoint
    BY Peers
  <2>2. session[Peer(e)].epoch \in Nat
    BY <2>1, EndFacts
  <2> QED
    BY <1>1, <1>3, <2>2 DEF NoEpoch
<1>5. /\ \A f \in Endpoint : Wire(net'[f], session[f].epoch)
      /\ DOMAIN net' = Endpoint
  <2>1. DOMAIN net' = Endpoint
    BY <1>2
  <2>2. ASSUME NEW f \in Endpoint
        PROVE  Wire(net'[f], session[f].epoch)
    <3>1. net'[f] = IF Linger THEN Outlived(net[f]) ELSE <<>>
      BY <1>2
    <3>2. Wire(Outlived(net[f]), session[f].epoch) /\ Wire(<<>>, session[f].epoch)
      BY EndFacts, WireOutlived, WireEmpty
    <3> QED
      BY <3>1, <3>2
  <2> QED
    BY <2>1, <2>2
<1>6. /\ screens' \in Nat /\ arrived' \in [Endpoint -> Seq(MessageSet)]
      /\ delivered' \subseteq MessageSet /\ {crossed, disordered}' \subseteq BOOLEAN
      /\ met' \subseteq Endpoint
  <2>1. <<>> \in Seq(MessageSet)
    OBVIOUS
  <2> QED
    BY <1>2, <2>1 DEF Whole
<1> QED
  BY <1>2, <1>3, <1>4, <1>5, <1>6, WholeStep

LEMMA WholeNext ==
    ASSUME Whole, [Next]_vars
    PROVE  Whole'
<1>1. CASE UNCHANGED vars
  BY <1>1 DEF Whole, vars
<1>2. CASE SetScreen
  BY <1>2, WholeSetScreen
<1>3. ASSUME NEW e \in Endpoint, QueueMessage(e)
      PROVE  Whole'
  BY <1>3, WholeQueueMessage
<1>4. ASSUME NEW e \in Endpoint, NEW cs \in SUBSET {Messages, Screen}, Outgoing(e, cs)
      PROVE  Whole'
  BY <1>4, WholeOutgoing
<1>5. ASSUME NEW e \in Endpoint, NEW c \in {Messages, Screen}, OutgoingFails(e, c)
      PROVE  Whole'
  BY <1>5, WholeOutgoingFails
<1>6. ASSUME NEW e \in Endpoint, NEW i \in DOMAIN net[Peer(e)], Receive(e, i)
      PROVE  Whole'
  BY <1>6, WholeReceive
<1>7. ASSUME NEW e \in Endpoint, Restart(e)
      PROVE  Whole'
  BY <1>7, WholeRestart
<1> QED
  BY <1>1, <1>2, <1>3, <1>4, <1>5, <1>6, <1>7 DEF Next

(* Sessions, wire and histories are what the code's types make them, both  *)
(* channels are the chains that reset_peer, apply and instruction take     *)
(* them for, and no datagram asks to release more than it acknowledges.    *)
THEOREM SessionsSound == Spec => []IInv
<1>1. Init => Whole
  BY InitWhole
<1>2. Whole /\ [Next]_vars => Whole'
  BY WholeNext
<1>3. Whole => IInv
  BY WholeIsIInv
<1> QED
  BY <1>1, <1>2, <1>3, PTL DEF Spec

(* TypeOK in every reachable state; the retired epochs stay within their   *)
(* bound (Session::handle_datagram).                                       *)
THEOREM TypeCorrect == Spec => []TypeOK
<1>1. IInv => TypeOK
  BY DEF IInv
<1> QED
  BY <1>1, SessionsSound, PTL

LEMMA WholeSendable ==
    ASSUME Whole
    PROVE  AlwaysSendable
<1>1. ASSUME NEW e \in Endpoint
      PROVE  M!HasInstruction(session[e].messages) /\ S!HasInstruction(session[e].screen)
  <2> DEFINE c == session[e].messages
             g == session[e].screen
             origin == queued[e] - c.current_num
  <2>1. /\ c \in MessageChannel /\ g \in ScreenChannel /\ StepsFit(g)
        /\ origin \in Nat /\ Chained(c, e, session[e].epoch, origin)
    BY EndFacts, SessionFields DEF Sound
  <2> HIDE DEF c, g, origin
  <2>2. M!HasInstruction(c)
    BY <2>1, MessagesSendable
  <2>3. S!HasInstruction(g)
    BY <2>1, ScreenSendable
  <2> QED
    BY <2>2, <2>3 DEF c, g
<1> QED
  BY <1>1 DEF AlwaysSendable

(* Neither channel can ever be stuck with a diff too large for a datagram, *)
(* however long its history, and also when reset_peer has just rebased it  *)
(* (Channel::instruction's DiffTooLarge).                                  *)
THEOREM NeverTooLarge == Spec => []AlwaysSendable
<1>1. Init => Whole
  BY InitWhole
<1>2. Whole /\ [Next]_vars => Whole'
  BY WholeNext
<1>3. Whole => AlwaysSendable
  BY WholeSendable
<1> QED
  BY <1>1, <1>2, <1>3, PTL DEF Spec

-----------------------------------------------------------------------------
(* What is in flight of the present numberings, and what was taken, is in  *)
(* order, whatever the network loses, repeats and reorders.                *)

LEMMA TimelyIs ==
    ASSUME NEW g \in Endpoint
    PROVE  /\ Timely(g) \subseteq Range(net[g])
           /\ \A d : d \in Timely(g) <=>
                /\ d \in Range(net[g]) /\ ~d.outlived
                /\ Peer(g) \in met => ~Former(d.heard, session[Peer(g)].epoch)
           /\ \A d : d \in Timely(g)' <=>
                /\ d \in Range(net'[g]) /\ ~d.outlived
                /\ Peer(g) \in met' => ~Former(d.heard, session'[Peer(g)].epoch)
<1>1. Peer(g)' = Peer(g)
  BY DEF Peer
<1> QED
  BY <1>1 DEF Timely

(* The lives and what was met stay, and nothing new is in flight. *)
LEMMA TimelySame ==
    ASSUME \A g \in Endpoint : session'[g].epoch = session[g].epoch, UNCHANGED <<net, met>>
    PROVE  \A g \in Endpoint : Timely(g)' = Timely(g)
<1>1. ASSUME NEW g \in Endpoint
      PROVE  Timely(g)' = Timely(g)
  <2>1. session'[Peer(g)].epoch = session[Peer(g)].epoch
    BY Peers
  <2>2. \A d : d \in Timely(g)' <=> d \in Timely(g)
    BY <2>1, TimelyIs
  <2> QED
    BY <2>2
<1> QED
  BY <1>1

(* What is sent is timely as well. *)
LEMMA TimelySent ==
    ASSUME Whole, NEW e \in Endpoint,
           \A g \in Endpoint : session'[g].epoch = session[g].epoch, met' = met,
           NEW new \in Seq(DatagramsOf(session[e])),
           net' = [net EXCEPT ![e] = InFlight(net[e], new)]
    PROVE  /\ Timely(e)' \subseteq Timely(e) \cup DatagramsOf(session[e])
           /\ \A g \in Endpoint : g # e => Timely(g)' = Timely(g)
<1> DEFINE T == DatagramsOf(session[e])
<1>1. /\ Sound(session[e], e, queued[e]) /\ Wire(net[e], session[e].epoch)
      /\ DOMAIN net = Endpoint
  BY EndFacts DEF Whole
<1>2. \A d \in T : IsDatagram(d) /\ d.epoch <= session[e].epoch /\ d.ins.throwaway = d.ins.ack
  <2>1. ASSUME NEW c \in {Messages, Screen}
        PROVE  LET d == Datagram(session[e], c)
               IN  IsDatagram(d) /\ d.ins.throwaway = d.ins.ack /\ d.epoch = session[e].epoch
    BY <1>1, DatagramFacts
  <2>2. session[e].epoch \in Nat
    BY EndFacts
  <2> QED
    BY <2>1, <2>2 DEF DatagramsOf
<1> HIDE DEF T
<1>3. Range(InFlight(net[e], new)) \subseteq Range(net[e]) \cup T
  BY <1>1, <1>2, WireSent DEF T
<1>4. Range(net'[e]) \subseteq Range(net[e]) \cup T
  BY <1>1, <1>3
<1>5. session'[Peer(e)].epoch = session[Peer(e)].epoch
  BY Peers
<1>6. ASSUME NEW d \in Timely(e)'
      PROVE  d \in Timely(e) \cup T
  BY <1>4, <1>5, TimelyIs
<1>7. ASSUME NEW g \in Endpoint, g # e
      PROVE  Timely(g)' = Timely(g)
  <2>1. session'[Peer(g)].epoch = session[Peer(g)].epoch /\ net'[g] = net[g]
    BY <1>1, <1>7, Peers
  <2>2. \A d : d \in Timely(g)' <=> d \in Timely(g)
    BY <2>1, TimelyIs
  <2> QED
    BY <2>2
<1> QED
  BY <1>6, <1>7 DEF T

(* A datagram arrives: what remains timely was so before, and is meant for *)
(* the present life if that datagram was.                                  *)
LEMMA TimelyReceive ==
    ASSUME Whole, NEW e \in Endpoint, NEW i \in DOMAIN net[Peer(e)], Receive(e, i)
    PROVE  LET f == Peer(e)
               d == net[f][i]
           IN  /\ d \in Range(net[f])
               /\ Timely(f)' \subseteq Timely(f) /\ Timely(e)' = Timely(e)
               /\ d.epoch \notin Range(session[e].retired) =>
                     \A x \in Timely(f)' :
                        ~Former(d.heard, session[e].epoch) => ~Former(x.heard, session[e].epoch)
<1> DEFINE f == Peer(e)
           d == net[f][i]
           rest == SubSeq(net[f], i + 1, Len(net[f]))
<1>1. f \in Endpoint /\ f # e /\ Peer(f) = e
  BY Peers
<1>2. /\ Handled(e, d) /\ DOMAIN net = Endpoint /\ session \in [Endpoint -> SessionSet]
      /\ net' = IF Reorder THEN net ELSE [net EXCEPT ![f] = rest]
      /\ met \subseteq Endpoint
  BY WholeReceive DEF Whole
<1>3. Wire(net[f], session[f].epoch)
  BY <1>1, EndFacts
<1>4. i \in 1..Len(net[f]) /\ d \in Range(net[f])
  <2>1. net[f] \in Seq(Range(net[f]))
    BY <1>3 DEF Wire
  <2>2. i \in 1..Len(net[f])
    BY <2>1
  <2> QED
    BY <2>1, <2>2, RangeFacts
<1>5. /\ d.epoch \in Nat /\ IsDatagram(d)
  BY <1>3, <1>4 DEF Wire, IsDatagram
<1>6. Range(net'[f]) \subseteq Range(net[f]) /\ net'[e] = net[e]
  <2>1. Range(rest) \subseteq Range(net[f])
    BY <1>3, <1>4, WireRest
  <2> HIDE DEF rest, d
  <2> QED
    BY <1>1, <1>2, <2>1
<1> HIDE DEF d, rest
<1>7. /\ \A g \in Endpoint : session'[g].epoch = session[g].epoch
      /\ met \subseteq met' /\ met' \subseteq met \cup {e}
      /\ d.epoch \notin Range(session[e].retired) /\ ~Former(d.heard, session[e].epoch) =>
            e \in met'
  <2>1. CASE d.epoch \in Range(session[e].retired)
    BY <1>2, <2>1 DEF Handled
  <2>2. CASE d.epoch \notin Range(session[e].retired)
    <3>1. PICK s, t : /\ HeardAs(s, session[e], d.epoch) /\ AppliedAs(t, s, d)
                      /\ session' = [session EXCEPT ![e] = t]
      BY <1>2, <2>2 DEF Handled
    <3>2. t.epoch = session[e].epoch
      BY <3>1 DEF HeardAs, AppliedAs
    <3>3. met' = IF Former(d.heard, session[e].epoch) THEN met ELSE met \cup {e}
      BY <1>2, <2>2 DEF Handled
    <3> QED
      BY <1>2, <3>1, <3>2, <3>3
  <2> QED
    BY <2>1, <2>2
<1>8. session'[e].epoch = session[e].epoch /\ session'[f].epoch = session[f].epoch
  BY <1>1, <1>7
<1> HIDE DEF f
<1>9. ASSUME NEW x \in Timely(f)'
      PROVE  /\ x \in Timely(f)
             /\ d.epoch \notin Range(session[e].retired) /\ ~Former(d.heard, session[e].epoch) =>
                   ~Former(x.heard, session[e].epoch)
  <2>1. /\ x \in Range(net'[f]) /\ ~x.outlived
        /\ e \in met' => ~Former(x.heard, session'[e].epoch)
    BY <1>1, TimelyIs
  <2>2. x \in Timely(f)
    BY <1>1, <1>6, <1>7, <1>8, <2>1, TimelyIs
  <2> QED
    BY <1>7, <1>8, <2>1, <2>2
<1>10. Timely(e)' = Timely(e)
  <2>1. f \in met' <=> f \in met
    BY <1>1, <1>7
  <2>2. \A x : x \in Timely(e)' <=> x \in Timely(e)
    BY <1>6, <1>8, <2>1, TimelyIs DEF f
  <2> QED
    BY <2>2
<1> QED
  BY <1>4, <1>9, <1>10 DEF f, d

(* Nothing in flight at a restart is timely. *)
LEMMA TimelyRestart ==
    ASSUME Whole, NEW e \in Endpoint, Restart(e)
    PROVE  \A g \in Endpoint : Timely(g)' = {}
<1>1. ASSUME NEW g \in Endpoint, NEW d \in Timely(g)'
      PROVE  FALSE
  <2>1. net'[g] = IF Linger THEN Outlived(net[g]) ELSE <<>>
    BY DEF Restart
  <2>2. d \in Range(net'[g]) /\ ~d.outlived
    BY TimelyIs
  <2>3. Wire(net[g], session[g].epoch)
    BY EndFacts
  <2>4. \A x \in Range(Outlived(net[g])) : x.outlived
    BY <2>3, WireOutlived
  <2>5. Range(<<>>) = {}
    BY WireEmpty
  <2> QED
    BY <2>1, <2>2, <2>4, <2>5
<1> QED
  BY <1>1

Fresh(d, e, life, origin) ==
    /\ d.epoch = life
    /\ d.channel = Messages => d.ins.new = d.ins.old + Len(d.ins.diff)
    /\ Carrying(d) =>
          /\ OriginOf(d) \in 0..origin
          /\ d.ins.diff = Between(e, life, OriginOf(d) + d.ins.old, OriginOf(d) + d.ins.new)

(* Of the wire of e, which has heard of the life `heard` of its peer, and  *)
(* whose peer is in the life `peer`.                                       *)
Ordered(wire, e, life, origin, heard, peer) ==
    \A d \in wire :
        /\ Fresh(d, e, life, origin)
        /\ Former(heard, peer) => Former(d.heard, peer)
        /\ Carrying(d) =>
              /\ OriginOf(d) = origin \/ (Former(d.heard, peer) /\ ~Former(heard, peer))
              /\ \A x \in wire :
                    Carrying(x) /\ (Former(x.heard, peer) => Former(d.heard, peer)) =>
                        OriginOf(d) <= OriginOf(x)

Below(taken, heard, num, life, origin, wire) ==
    \A k \in 1..Len(taken) :
        /\ taken[k].life <= heard
        /\ taken[k].life = life =>
              /\ taken[k].n <= origin + num
              /\ \A d \in wire : Carrying(d) => taken[k].n <= OriginOf(d) + num

InOrder(taken) ==
    \A i, j \in 1..Len(taken) :
        i < j => \/ taken[i].life < taken[j].life
                 \/ taken[i].life = taken[j].life /\ taken[i].n < taken[j].n

(* A datagram that carries messages carries them from old to new. *)
LEMMA FreshFacts ==
    ASSUME NEW d, IsDatagram(d), Carrying(d), NEW e, NEW life, NEW origin \in Int,
           Fresh(d, e, life, origin)
    PROVE  /\ d.channel = Messages /\ d.ins.old \in Nat /\ d.ins.new \in Nat
           /\ d.ins.old < d.ins.new
           /\ OriginOf(d) \in Nat /\ OriginOf(d) <= origin
           /\ d.ins.diff = Between(e, life, OriginOf(d) + d.ins.old, OriginOf(d) + d.ins.new)
<1>1. d.channel = Messages /\ d.ins.diff # <<>> /\ d.ins.diff \in Seq(MessageSet)
  BY DEF Carrying, IsDatagram, Messages, Screen
<1>2. d.ins.old \in Nat /\ d.ins.new \in Nat
  BY DEF IsDatagram
<1>3. Len(d.ins.diff) \in Nat /\ Len(d.ins.diff) > 0
  BY <1>1
<1>4. d.ins.new = d.ins.old + Len(d.ins.diff)
  BY <1>1 DEF Fresh
<1>5. OriginOf(d) \in Nat /\ OriginOf(d) <= origin
  BY DEF Fresh
<1> QED
  BY <1>1, <1>2, <1>3, <1>4, <1>5 DEF Fresh

(* The datagrams of a session are fresh, and start from its origin. *)
LEMMA DatagramFresh ==
    ASSUME NEW e \in Endpoint, NEW s, NEW q, Sound(s, e, q), NEW d \in DatagramsOf(s)
    PROVE  /\ IsDatagram(d) /\ Fresh(d, e, s.epoch, q - s.messages.current_num)
           /\ d.heard = s.peer_epoch
           /\ d.channel = Messages => d.ins.ack = s.messages.received_num
           /\ Carrying(d) => /\ OriginOf(d) = q - s.messages.current_num
                             /\ d.ins.old = s.messages.assumed
<1> DEFINE m == s.messages
           life == s.epoch
           origin == q - m.current_num
<1>1. PICK c \in {Messages, Screen} : d = Datagram(s, c)
  BY DEF DatagramsOf
<1>2. /\ IsDatagram(d) /\ d.epoch = life /\ d.channel = c /\ d.heard = s.peer_epoch
      /\ c = Messages => Carries(d.ins, m, e, life, origin)
  BY <1>1, DatagramFacts
<1>3. m \in MessageChannel /\ life \in Nat /\ q \in Nat /\ m.current_num <= q
  BY SessionFields DEF Sound
<1>4. m.current_num \in Nat /\ m.assumed \in Nat
  BY <1>3, MessageFields
<1>5. origin \in Nat
  BY <1>3, <1>4
<1> HIDE DEF m, life, origin
<1>6. CASE d.channel = Messages
  <2> DEFINE first == origin + m.assumed
             last == origin + d.ins.new
  <2>1. /\ d.ins.old = m.assumed /\ d.ins.new \in Nat /\ m.assumed <= d.ins.new
        /\ d.ins.diff = Between(e, life, first, last) /\ d.ins.ack = m.received_num
    BY <1>2, <1>6 DEF Carries
  <2>2. first \in Int /\ last \in Int /\ first <= last
    BY <1>4, <1>5, <2>1
  <2> HIDE DEF first, last
  <2>3. /\ Len(d.ins.diff) = last - first
        /\ \A j \in 1..(last - first) :
              d.ins.diff[j] = [by |-> e, life |-> life, n |-> first + j]
        /\ d.ins.diff \in Seq(Of(e, life))
    <3>1. /\ Len(Between(e, life, first, last)) = last - first
          /\ \A j \in 1..(last - first) :
                Between(e, life, first, last)[j] = [by |-> e, life |-> life, n |-> first + j]
          /\ Between(e, life, first, last) \in Seq(Of(e, life))
      BY <2>2, BetweenFacts
    <3> QED
      BY <2>1, <3>1
  <2>4. d.ins.new = d.ins.old + Len(d.ins.diff)
    BY <1>4, <1>5, <2>1, <2>3 DEF first, last
  <2>5. ASSUME Carrying(d)
        PROVE  OriginOf(d) = origin
    <3>1. 1 \in 1..(last - first)
      <4>1. Len(d.ins.diff) # 0
        BY <2>3, <2>5 DEF Carrying
      <4> QED
        BY <2>2, <2>3, <4>1
    <3>2. d.ins.diff[1] = [by |-> e, life |-> life, n |-> first + 1]
      BY <2>3, <3>1
    <3>3. d.ins.diff[1].n = first + 1
      BY <3>2
    <3> QED
      BY <1>4, <1>5, <2>1, <3>3 DEF OriginOf, first
  <2>6. Fresh(d, e, life, origin)
    BY <1>2, <1>5, <2>1, <2>4, <2>5 DEF Fresh, first, last
  <2> QED
    BY <1>2, <2>1, <2>5, <2>6 DEF m, life, origin
<1>7. CASE d.channel # Messages
  BY <1>2, <1>7 DEF Fresh, Carrying, life
<1> QED
  BY <1>6, <1>7

LEMMA OrderedLess ==
    ASSUME NEW wire, NEW e, NEW life, NEW origin, NEW heard, NEW peer,
           Ordered(wire, e, life, origin, heard, peer), NEW less, less \subseteq wire
    PROVE  Ordered(less, e, life, origin, heard, peer)
BY DEF Ordered

(* The peer's life is heard of: what was numbered before state 0 grows, if *)
(* all in flight is meant for a former one.                                *)
LEMMA OrderedHeard ==
    ASSUME NEW wire, NEW e, NEW life, NEW origin \in Nat, NEW more \in Nat, origin <= more,
           NEW heard, NEW peer, Ordered(wire, e, life, origin, heard, peer),
           ~Former(heard, peer) => more = origin
    PROVE  Ordered(wire, e, life, more, peer, peer)
<1>1. ~Former(peer, peer)
  BY DEF Former
<1>2. ASSUME NEW d \in wire
      PROVE  /\ Fresh(d, e, life, more)
             /\ Carrying(d) =>
                   /\ OriginOf(d) = more \/ Former(d.heard, peer)
                   /\ \A x \in wire :
                         Carrying(x) /\ (Former(x.heard, peer) => Former(d.heard, peer)) =>
                             OriginOf(d) <= OriginOf(x)
  <2>1. /\ Fresh(d, e, life, origin)
        /\ Former(heard, peer) => Former(d.heard, peer)
        /\ Carrying(d) =>
              /\ OriginOf(d) = origin \/ Former(d.heard, peer)
              /\ \A x \in wire :
                    Carrying(x) /\ (Former(x.heard, peer) => Former(d.heard, peer)) =>
                        OriginOf(d) <= OriginOf(x)
    BY DEF Ordered
  <2>2. Fresh(d, e, life, more)
    BY <2>1 DEF Fresh
  <2> QED
    BY <2>1, <2>2
<1> QED
  BY <1>1, <1>2 DEF Ordered

(* What is sent starts from the present origin. *)
LEMMA OrderedSent ==
    ASSUME NEW e, NEW life, NEW origin \in Nat, NEW heard, NEW peer, NEW wire,
           Ordered(wire, e, life, origin, heard, peer), NEW T, NEW now, now \subseteq wire \cup T,
           \A d \in T : /\ Fresh(d, e, life, origin) /\ d.heard = heard
                        /\ (Carrying(d) => OriginOf(d) = origin)
    PROVE  Ordered(now, e, life, origin, heard, peer)
<1>1. ASSUME NEW d \in wire \cup T
      PROVE  /\ Fresh(d, e, life, origin)
             /\ Former(heard, peer) => Former(d.heard, peer)
             /\ Carrying(d) => /\ OriginOf(d) \in 0..origin
                               /\ OriginOf(d) = origin
                                    \/ (Former(d.heard, peer) /\ ~Former(heard, peer))
  <2>1. /\ Fresh(d, e, life, origin)
        /\ Former(heard, peer) => Former(d.heard, peer)
        /\ Carrying(d) => OriginOf(d) = origin
                              \/ (Former(d.heard, peer) /\ ~Former(heard, peer))
    BY DEF Ordered
  <2> QED
    BY <2>1 DEF Fresh
<1>2. ASSUME NEW d \in wire \cup T, NEW x \in wire \cup T, Carrying(d), Carrying(x),
             Former(x.heard, peer) => Former(d.heard, peer)
      PROVE  OriginOf(d) <= OriginOf(x)
  <2>1. CASE d \in wire /\ x \in wire
    BY <1>2, <2>1 DEF Ordered
  <2>2. CASE x \in T
    <3>1. OriginOf(x) = origin /\ OriginOf(d) \in 0..origin
      BY <1>1, <1>2, <2>2
    <3> QED
      BY <3>1
  <2>3. CASE d \in T /\ x \in wire
    <3>1. d.heard = heard /\ OriginOf(d) = origin
      BY <1>2, <2>3
    <3>2. OriginOf(x) = origin
      BY <1>1, <1>2, <3>1
    <3> QED
      BY <3>1, <3>2
  <2> QED
    BY <2>1, <2>2, <2>3
<1> QED
  BY <1>1, <1>2 DEF Ordered

(* The same of the state, endpoint by endpoint. *)
OrderAt(e) ==
    /\ Ordered(Timely(e), e, session[e].epoch, Origin(e), session[e].peer_epoch,
               session[Peer(e)].epoch)
    /\ Below(arrived[e], session[e].peer_epoch, session[e].messages.received_num,
             session[Peer(e)].epoch, Origin(Peer(e)), Timely(Peer(e)))
    /\ InOrder(arrived[e])

OrderWhole == \A e \in Endpoint : OrderAt(e)

(* A step that changes neither the lives, nor what was heard and taken,    *)
(* nor the origins, and puts at most datagrams of the origin on the wire.  *)
LEMMA OrderKept ==
    ASSUME Whole, OrderWhole,
           \A e \in Endpoint :
              /\ session'[e].epoch = session[e].epoch
              /\ session'[e].peer_epoch = session[e].peer_epoch
              /\ session'[e].messages.received_num = session[e].messages.received_num
              /\ arrived'[e] = arrived[e] /\ Origin(e)' = Origin(e)
              /\ Ordered(Timely(e)', e, session[e].epoch, Origin(e), session[e].peer_epoch,
                         session[Peer(e)].epoch)
              /\ \A d \in Timely(e)' : d \in Timely(e) \/ (Carrying(d) => OriginOf(d) = Origin(e))
    PROVE  OrderWhole'
<1>1. ASSUME NEW e \in Endpoint
      PROVE  OrderAt(e)'
  <2> DEFINE f == Peer(e)
             num == session[e].messages.received_num
             wire == Timely(f)'
  <2>1. f \in Endpoint /\ Peer(e)' = f
    BY Peers DEF Peer
  <2>2. /\ session'[e].peer_epoch = session[e].peer_epoch
        /\ session'[e].messages.received_num = num
        /\ session'[e].epoch = session[e].epoch
        /\ session'[f].epoch = session[f].epoch
        /\ arrived'[e] = arrived[e] /\ Origin(f)' = Origin(f) /\ Origin(e)' = Origin(e)
        /\ \A d \in wire : d \in Timely(f) \/ (Carrying(d) => OriginOf(d) = Origin(f))
    BY <2>1
  <2>3. OrderAt(e)
    BY DEF OrderWhole
  <2>4. Ordered(Timely(e)', e, session[e].epoch, Origin(e), session[e].peer_epoch,
                session[f].epoch)
    OBVIOUS
  <2> HIDE DEF f, num, wire
  <2>5. Below(arrived[e], session[e].peer_epoch, num, session[f].epoch, Origin(f), wire)
    BY <2>2, <2>3 DEF OrderAt, Below, f, num
  <2>6. InOrder(arrived[e])
    BY <2>3 DEF OrderAt
  <2>7. Ordered(Timely(e)', e, session'[e].epoch, Origin(e)', session'[e].peer_epoch,
                session'[f].epoch)
    BY <2>2, <2>4
  <2>8. Below(arrived'[e], session'[e].peer_epoch, session'[e].messages.received_num,
              session'[f].epoch, Origin(f)', Timely(f)')
    BY <2>2, <2>5 DEF wire
  <2>9. InOrder(arrived'[e])
    BY <2>2, <2>6
  <2> QED
    BY <2>1, <2>7, <2>8, <2>9 DEF OrderAt, f
<1> QED
  BY <1>1 DEF OrderWhole

LEMMA OrderQuiet ==
    ASSUME Whole, OrderWhole, NEW e \in Endpoint, NEW t,
           session' = [session EXCEPT ![e] = t],
           t.epoch = session[e].epoch, t.peer_epoch = session[e].peer_epoch,
           t.messages.received_num = session[e].messages.received_num,
           queued'[e] - t.messages.current_num = Origin(e),
           \A f \in Endpoint : f # e => queued'[f] = queued[f],
           UNCHANGED <<net, arrived, met>>
    PROVE  OrderWhole'
<1>1. session \in [Endpoint -> SessionSet]
  BY DEF Whole
<1>2. \A f \in Endpoint : session'[f].epoch = session[f].epoch
  BY <1>1
<1>3. \A f \in Endpoint : Timely(f)' = Timely(f)
  BY <1>2, TimelySame
<1>4. ASSUME NEW f \in Endpoint
      PROVE  /\ session'[f].epoch = session[f].epoch
             /\ session'[f].peer_epoch = session[f].peer_epoch
             /\ session'[f].messages.received_num = session[f].messages.received_num
             /\ Origin(f)' = Origin(f) /\ arrived'[f] = arrived[f]
             /\ Ordered(Timely(f)', f, session[f].epoch, Origin(f), session[f].peer_epoch,
                        session[Peer(f)].epoch)
             /\ \A d \in Timely(f)' : d \in Timely(f) \/ (Carrying(d) => OriginOf(d) = Origin(f))
  <2>1. Ordered(Timely(f)', f, session[f].epoch, Origin(f), session[f].peer_epoch,
                session[Peer(f)].epoch)
    BY <1>3 DEF OrderWhole, OrderAt
  <2>2. CASE f = e
    BY <1>1, <1>3, <2>1, <2>2 DEF Origin
  <2>3. CASE f # e
    BY <1>1, <1>3, <2>1, <2>3 DEF Origin
  <2> QED
    BY <2>2, <2>3
<1> QED
  BY <1>4, OrderKept

LEMMA OrderSetScreen ==
    ASSUME Whole, OrderWhole, SetScreen
    PROVE  OrderWhole'
<1> DEFINE t == [session[Host] EXCEPT !.screen =
                    S!Advance(session[Host].screen, GridOf(session[Host].epoch, screens + 1))]
<1>1. /\ session' = [session EXCEPT ![Host] = t] /\ UNCHANGED <<queued, net, arrived, met>>
      /\ Host \in Endpoint
  BY DEF SetScreen, Endpoint
<1>2. /\ t.epoch = session[Host].epoch /\ t.peer_epoch = session[Host].peer_epoch
      /\ t.messages = session[Host].messages
  <2>1. session[Host] \in SessionSet
    BY <1>1 DEF Whole
  <2> QED
    BY <2>1 DEF SessionSet
<1> HIDE DEF t
<1> QED
  BY <1>1, <1>2, OrderQuiet DEF Origin

LEMMA OrderQueueMessage ==
    ASSUME Whole, OrderWhole, NEW e \in Endpoint, QueueMessage(e)
    PROVE  OrderWhole'
<1>1. PICK t : /\ session' = [session EXCEPT ![e] = t]
               /\ t.epoch = session[e].epoch /\ t.peer_epoch = session[e].peer_epoch
               /\ t.messages.current_num = session[e].messages.current_num + 1
               /\ t.messages.assumed = session[e].messages.assumed
               /\ t.messages.received_num = session[e].messages.received_num
  BY WholeQueueMessage
<1>2. /\ queued' = [queued EXCEPT ![e] = @ + 1] /\ UNCHANGED <<net, arrived, met>>
      /\ queued \in [Endpoint -> Nat]
  BY DEF QueueMessage, Whole
<1>3. queued[e] \in Nat /\ session[e].messages.current_num \in Nat
  BY EndFacts
<1>4. queued'[e] - t.messages.current_num = Origin(e)
  BY <1>1, <1>2, <1>3 DEF Origin
<1>5. \A f \in Endpoint : f # e => queued'[f] = queued[f]
  BY <1>2
<1> QED
  BY <1>1, <1>2, <1>4, <1>5, OrderQuiet

LEMMA OrderOutgoingFails ==
    ASSUME Whole, OrderWhole, NEW e \in Endpoint, NEW c \in {Messages, Screen}, OutgoingFails(e, c)
    PROVE  OrderWhole'
<1>1. PICK t : session' = [session EXCEPT ![e] = t] /\ SameNumbers(t, session[e])
  BY WholeOutgoingFails
<1>2. UNCHANGED <<queued, net, arrived, met>>
  BY DEF OutgoingFails
<1> QED
  BY <1>1, <1>2, OrderQuiet DEF SameNumbers, Origin

LEMMA OrderOutgoing ==
    ASSUME Whole, OrderWhole, NEW e \in Endpoint, NEW cs \in SUBSET {Messages, Screen},
           Outgoing(e, cs)
    PROVE  OrderWhole'
<1>1. PICK t : session' = [session EXCEPT ![e] = t] /\ SameNumbers(t, session[e])
  BY WholeOutgoing
<1> DEFINE T == DatagramsOf(session[e])
<1>2. PICK new \in Seq(T) : net' = [net EXCEPT ![e] = InFlight(net[e], new)]
  BY WholeOutgoing
<1>3. UNCHANGED <<queued, arrived, met>> /\ session \in [Endpoint -> SessionSet]
  BY DEF Outgoing, Whole
<1>4. /\ Sound(session[e], e, queued[e]) /\ Origin(e) \in Nat
      /\ Ordered(Timely(e), e, session[e].epoch, Origin(e), session[e].peer_epoch,
                 session[Peer(e)].epoch)
  BY EndFacts DEF OrderWhole, OrderAt
<1>5. ASSUME NEW d \in T
      PROVE  /\ Fresh(d, e, session[e].epoch, Origin(e)) /\ d.heard = session[e].peer_epoch
             /\ Carrying(d) => OriginOf(d) = Origin(e)
  BY <1>4, DatagramFresh DEF Origin
<1>6. \A g \in Endpoint : session'[g].epoch = session[g].epoch
  BY <1>1, <1>3 DEF SameNumbers
<1>7. /\ Timely(e)' \subseteq Timely(e) \cup T
      /\ \A g \in Endpoint : g # e => Timely(g)' = Timely(g)
  BY <1>2, <1>3, <1>6, TimelySent
<1> HIDE DEF T
<1>8. Ordered(Timely(e)', e, session[e].epoch, Origin(e), session[e].peer_epoch,
              session[Peer(e)].epoch)
  BY <1>4, <1>5, <1>7, OrderedSent
<1>9. ASSUME NEW f \in Endpoint
      PROVE  /\ session'[f].epoch = session[f].epoch
             /\ session'[f].peer_epoch = session[f].peer_epoch
             /\ session'[f].messages.received_num = session[f].messages.received_num
             /\ Origin(f)' = Origin(f) /\ arrived'[f] = arrived[f]
             /\ Ordered(Timely(f)', f, session[f].epoch, Origin(f), session[f].peer_epoch,
                        session[Peer(f)].epoch)
             /\ \A d \in Timely(f)' : d \in Timely(f) \/ (Carrying(d) => OriginOf(d) = Origin(f))
  <2>1. CASE f = e
    <3>1. \A d \in Timely(f)' : d \in Timely(f) \/ (Carrying(d) => OriginOf(d) = Origin(f))
      BY <1>5, <1>7, <2>1
    <3> QED
      BY <1>1, <1>3, <1>8, <2>1, <3>1 DEF SameNumbers, Origin
  <2>2. CASE f # e
    <3>1. Ordered(Timely(f)', f, session[f].epoch, Origin(f), session[f].peer_epoch,
                  session[Peer(f)].epoch)
      BY <1>7, <2>2 DEF OrderWhole, OrderAt
    <3> QED
      BY <1>1, <1>3, <1>7, <2>2, <3>1 DEF Origin
  <2> QED
    BY <2>1, <2>2
<1> QED
  BY <1>9, OrderKept

(* A datagram that brings no messages: the number held is the one before,  *)
(* or a new life was heard of which nothing was taken.                     *)
LEMMA TakeNothing ==
    ASSUME NEW taken, taken \in Seq(MessageSet), NEW heard \in Nat, NEW num \in Nat,
           NEW life \in Nat, NEW origin \in Nat, NEW wire,
           Below(taken, heard, num, life, origin, wire), heard <= life,
           NEW now \in Nat, now = num \/ heard < life, NEW rest, rest \subseteq wire
    PROVE  Below(taken, life, now, life, origin, rest)
<1>1. ASSUME NEW k \in 1..Len(taken)
      PROVE  /\ taken[k].life <= life
             /\ taken[k].life = life =>
                   /\ taken[k].n <= origin + now
                   /\ \A d \in rest : Carrying(d) => taken[k].n <= OriginOf(d) + now
  <2>1. taken[k] \in MessageSet
    OBVIOUS
  <2>2. taken[k].life \in Nat /\ taken[k].n \in Nat
    BY <2>1 DEF MessageSet
  <2>3. taken[k].life <= heard
    BY DEF Below
  <2>4. taken[k].life <= life
    BY <2>2, <2>3
  <2>5. ASSUME taken[k].life = life
        PROVE  now = num
    BY <2>2, <2>3, <2>5
  <2> QED
    BY <2>4, <2>5 DEF Below
<1> QED
  BY <1>1 DEF Below

(* A datagram that brings messages: they come after all taken before, and  *)
(* not after what is still in flight.                                      *)
LEMMA TakeInOrder ==
    ASSUME NEW taken, taken \in Seq(MessageSet), NEW life \in Nat, NEW origin \in Nat,
           NEW wire, NEW now \in Nat, Below(taken, life, now, life, origin, wire),
           InOrder(taken), NEW f,
           NEW d \in wire, IsDatagram(d), Carrying(d), Fresh(d, f, life, origin),
           d.ins.old = now, NEW rest, rest \subseteq wire,
           \A x \in rest : Carrying(x) => OriginOf(d) <= OriginOf(x) /\ OriginOf(x) \in Nat,
           NEW all, all = taken \o d.ins.diff
    PROVE  InOrder(all) /\ Below(all, life, d.ins.new, life, origin, rest)
<1> DEFINE o == OriginOf(d)
           first == o + d.ins.old
           last == o + d.ins.new
           n == Len(taken)
           m == last - first
<1>1. /\ d.ins.old \in Nat /\ d.ins.new \in Nat /\ d.ins.old < d.ins.new
      /\ o \in Nat /\ o <= origin
      /\ d.ins.diff = Between(f, life, first, last)
  BY FreshFacts
<1> HIDE DEF o
<1>2. first \in Nat /\ last \in Nat /\ first < last /\ n \in Nat /\ m \in Nat
  <2>1. first \in Nat /\ last \in Nat /\ first < last
    BY ONLY <1>1
  <2>2. n \in Nat
    OBVIOUS
  <2> HIDE DEF first, last, n
  <2> QED
    BY ONLY <2>1, <2>2
<1> HIDE DEF first, last
<1>3. /\ d.ins.diff \in Seq(MessageSet) /\ Len(d.ins.diff) = m
      /\ \A j \in 1..m : d.ins.diff[j].life = life /\ d.ins.diff[j].n = first + j
  <2>1. /\ Len(Between(f, life, first, last)) = m
        /\ \A j \in 1..m : Between(f, life, first, last)[j] = [by |-> f, life |-> life, n |-> first + j]
    BY <1>2, BetweenFacts
  <2>2. d.ins.diff \in Seq(MessageSet)
    BY DEF IsDatagram, Carrying, Messages, Screen
  <2> QED
    BY <1>1, <2>1, <2>2
<1> HIDE DEF n, m
<1>4. /\ all \in Seq(MessageSet) /\ Len(all) = n + m
      /\ \A k \in 1..(n + m) : all[k] = IF k <= n THEN taken[k] ELSE d.ins.diff[k - n]
  BY <1>2, <1>3, ConcatProperties DEF n
<1>5. ASSUME NEW k \in 1..Len(all), k <= n
      PROVE  /\ all[k] = taken[k] /\ k \in 1..Len(taken) /\ all[k].life \in Nat /\ all[k].n \in Nat
             /\ all[k].life <= life
             /\ all[k].life = life => all[k].n <= first
  <2>1. all[k] = taken[k] /\ k \in 1..Len(taken)
    BY <1>2, <1>4, <1>5 DEF n
  <2>2. taken[k] \in MessageSet
    BY <2>1
  <2>3. taken[k].life \in Nat /\ taken[k].n \in Nat
    BY <2>2 DEF MessageSet
  <2>4. /\ taken[k].life <= life
        /\ taken[k].life = life => taken[k].n <= o + now
    BY <2>1 DEF Below, o
  <2> QED
    BY <2>1, <2>3, <2>4 DEF first
<1>6. ASSUME NEW k \in 1..Len(all), ~(k <= n)
      PROVE  /\ all[k].life = life /\ all[k].n = first + (k - n)
             /\ first < all[k].n /\ all[k].n <= last /\ all[k].n \in Nat
  <2> DEFINE j == k - n
  <2>1. j \in 1..m /\ all[k] = d.ins.diff[j]
    <3>1. k \in 1..(n + m)
      BY <1>4
    <3> QED
      BY ONLY <1>2, <1>4, <1>6, <3>1
  <2> HIDE DEF j
  <2>2. all[k].life = life /\ all[k].n = first + j
    BY <1>3, <2>1
  <2> QED
    BY <1>2, <2>1, <2>2 DEF j, m
<1>7. InOrder(all)
  <2>1. ASSUME NEW i \in 1..Len(all), NEW j \in 1..Len(all), i < j
        PROVE  \/ all[i].life < all[j].life
               \/ all[i].life = all[j].life /\ all[i].n < all[j].n
    <3>1. CASE j <= n
      <4>1. i <= n
        BY <1>2, <2>1, <3>1
      <4> QED
        BY <1>5, <2>1, <3>1, <4>1 DEF InOrder
    <3>2. CASE ~(j <= n) /\ i <= n
      <4>1. /\ all[i].life \in Nat /\ all[i].n \in Nat /\ all[i].life <= life
            /\ all[i].life = life => all[i].n <= first
        BY <1>5, <3>2
      <4>2. all[j].life = life /\ first < all[j].n /\ all[j].n \in Nat
        BY <1>6, <3>2
      <4>3. first \in Nat /\ life \in Nat
        BY <1>2
      <4>4. CASE all[i].life = life
        BY ONLY <4>1, <4>2, <4>3, <4>4
      <4>5. CASE all[i].life # life
        BY ONLY <4>1, <4>2, <4>3, <4>5
      <4> QED
        BY <4>4, <4>5
    <3>3. CASE ~(j <= n) /\ ~(i <= n)
      <4>1. all[i].life = life /\ all[i].n = first + (i - n)
        BY <1>6, <3>3
      <4>2. all[j].life = life /\ all[j].n = first + (j - n)
        BY <1>6, <3>3
      <4> QED
        BY <1>2, <2>1, <4>1, <4>2
    <3> QED
      BY <3>1, <3>2, <3>3
  <2> QED
    BY <2>1 DEF InOrder
<1>8. ASSUME NEW k \in 1..Len(all)
      PROVE  /\ all[k].life <= life
             /\ all[k].life = life => all[k].n <= last /\ all[k].n \in Nat
  <2>1. CASE k <= n
    BY <1>2, <1>5, <2>1
  <2>2. CASE ~(k <= n)
    BY SMTT(30), <1>6, <2>2
  <2> QED
    BY <2>1, <2>2
<1>9. last <= origin + d.ins.new
  BY <1>1 DEF last
<1>10. ASSUME NEW x \in rest, Carrying(x)
       PROVE  last <= OriginOf(x) + d.ins.new /\ OriginOf(x) \in Nat
  <2>1. o <= OriginOf(x) /\ OriginOf(x) \in Nat
    BY <1>10 DEF o
  <2> QED
    BY <1>1, <2>1 DEF last
<1>11. ASSUME NEW k \in 1..Len(all), all[k].life = life
       PROVE  /\ all[k].n <= origin + d.ins.new
              /\ \A x \in rest : Carrying(x) => all[k].n <= OriginOf(x) + d.ins.new
  <2>1. all[k].n <= last /\ all[k].n \in Nat
    BY <1>8, <1>11
  <2>2. all[k].n <= origin + d.ins.new
    BY SMTT(30), <1>1, <1>2, <1>9, <2>1
  <2>3. ASSUME NEW x \in rest, Carrying(x)
        PROVE  all[k].n <= OriginOf(x) + d.ins.new
    <3>1. last <= OriginOf(x) + d.ins.new /\ OriginOf(x) \in Nat
      BY <1>10, <2>3
    <3> QED
      BY ONLY <1>1, <1>2, <2>1, <3>1
  <2> QED
    BY <2>2, <2>3
<1>12. Below(all, life, d.ins.new, life, origin, rest)
  BY <1>8, <1>11 DEF Below
<1> QED
  BY <1>7, <1>12

(* What is taken stays below what a peer with a later origin could bring.  *)
LEMMA BelowMore ==
    ASSUME NEW taken, taken \in Seq(MessageSet), NEW heard, NEW num \in Nat, NEW life,
           NEW origin \in Nat, NEW more \in Nat, origin <= more, NEW wire,
           Below(taken, heard, num, life, origin, wire)
    PROVE  Below(taken, heard, num, life, more, wire)
<1>1. ASSUME NEW k \in 1..Len(taken), taken[k].life = life
      PROVE  taken[k].n <= more + num
  <2>1. taken[k] \in MessageSet
    OBVIOUS
  <2>2. taken[k].n \in Nat /\ taken[k].n <= origin + num
    BY <1>1, <2>1 DEF MessageSet, Below
  <2> QED
    BY <2>2
<1> QED
  BY <1>1 DEF Below

(* What a datagram does to the numbers of channel 0. *)
LEMMA HandledNumbers ==
    ASSUME Whole, NEW e \in Endpoint, NEW d, NEW s, NEW t, d.epoch \in Nat, IsDatagram(d),
           HeardAs(s, session[e], d.epoch), AppliedAs(t, s, d)
    PROVE  /\ t.epoch = session[e].epoch /\ t.peer_epoch = d.epoch
           /\ s.messages.received_num \in Nat
           /\ s.messages.current_num \in Nat /\ s.messages.assumed \in Nat
           /\ s.messages.assumed <= s.messages.current_num
           /\ t.messages.current_num = s.messages.current_num
           /\ t.messages.assumed =
                 IF /\ d.channel = Messages /\ s.messages.assumed <= d.ins.ack
                    /\ d.ins.ack <= s.messages.current_num
                   THEN d.ins.ack ELSE s.messages.assumed
           /\ IF session[e].peer_epoch \in {NoEpoch, d.epoch}
                THEN s.messages = session[e].messages
                ELSE /\ s.messages.current_num =
                           session[e].messages.current_num - session[e].messages.assumed
                     /\ s.messages.assumed = 0 /\ s.messages.received_num = 0
<1> DEFINE c == session[e].messages
<1>1. /\ c.current_num \in Nat /\ c.assumed \in Nat /\ c.assumed <= c.current_num
      /\ c.received_num \in Nat
  BY EndFacts
<1>2. /\ s.epoch = session[e].epoch /\ s.peer_epoch = d.epoch
      /\ t.epoch = s.epoch /\ t.peer_epoch = s.peer_epoch
  BY DEF HeardAs, AppliedAs
<1>3. IF session[e].peer_epoch \in {NoEpoch, d.epoch}
        THEN s.messages = c
        ELSE /\ s.messages.current_num = c.current_num - c.assumed
             /\ s.messages.assumed = 0 /\ s.messages.received_num = 0
  BY DEF HeardAs
<1> HIDE DEF c
<1>4. /\ s.messages.received_num \in Nat
      /\ s.messages.current_num \in Nat /\ s.messages.assumed \in Nat
      /\ s.messages.assumed <= s.messages.current_num
  BY <1>1, <1>3
<1>5. /\ t.messages.current_num = s.messages.current_num
      /\ t.messages.assumed =
            IF /\ d.channel = Messages /\ s.messages.assumed <= d.ins.ack
               /\ d.ins.ack <= s.messages.current_num
              THEN d.ins.ack ELSE s.messages.assumed
  BY DEF AppliedAs, AfterAck
<1> QED
  BY <1>2, <1>3, <1>4, <1>5 DEF c

(* A reset counts what was assumed received to what came before state 0.   *)
LEMMA OriginHandled ==
    ASSUME Whole, NEW e \in Endpoint, NEW d, NEW s, NEW t, d.epoch \in Nat, IsDatagram(d),
           HeardAs(s, session[e], d.epoch), AppliedAs(t, s, d),
           session' = [session EXCEPT ![e] = t], queued' = queued
    PROVE  /\ Origin(e)' \in Nat
           /\ Origin(e)' = IF session[e].peer_epoch \in {NoEpoch, d.epoch} THEN Origin(e)
                           ELSE Origin(e) + session[e].messages.assumed
<1> DEFINE c == session[e].messages
<1>1. /\ c.current_num \in Nat /\ c.assumed \in Nat
      /\ Origin(e) \in Nat /\ Origin(e) + c.current_num = queued[e]
      /\ session \in [Endpoint -> SessionSet]
  BY EndFacts DEF Whole
<1>2. t.messages.current_num =
         IF session[e].peer_epoch \in {NoEpoch, d.epoch} THEN c.current_num
         ELSE c.current_num - c.assumed
  BY HandledNumbers
<1>3. Origin(e)' = queued[e] - t.messages.current_num
  BY <1>1 DEF Origin
<1> HIDE DEF c
<1>4. Origin(e)' = IF session[e].peer_epoch \in {NoEpoch, d.epoch} THEN Origin(e)
                   ELSE Origin(e) + c.assumed
  BY <1>1, <1>2, <1>3
<1>5. Origin(e)' \in Nat
  BY <1>1, <1>4
<1> QED
  BY <1>4, <1>5 DEF c

LEMMA OrderReceive ==
    ASSUME Whole, OrderWhole, NEW e \in Endpoint, NEW i \in DOMAIN net[Peer(e)],
           Receive(e, i), ~disordered'
    PROVE  OrderWhole'
<1> DEFINE f == Peer(e)
           d == net[f][i]
           wire == Timely(f)
           rest == Timely(f)'
           life == session[f].epoch
           mine == session[e].epoch
           heard == session[f].peer_epoch
<1>1. /\ f \in Endpoint /\ f # e /\ Peer(f) = e /\ \A g \in Endpoint : g = e \/ g = f
      /\ \A g \in Endpoint : Peer(g)' = Peer(g)
  BY Peers DEF Peer
<1>2. /\ Handled(e, d) /\ queued' = queued
      /\ session \in [Endpoint -> SessionSet] /\ arrived \in [Endpoint -> Seq(MessageSet)]
  BY WholeReceive DEF Whole
<1>3. /\ d \in Range(net[f]) /\ rest \subseteq wire /\ Timely(e)' = Timely(e)
      /\ d.epoch \notin Range(session[e].retired) =>
            \A x \in rest : ~Former(d.heard, mine) => ~Former(x.heard, mine)
  BY TimelyReceive
<1>4. /\ Wire(net[f], life) /\ life \in Nat /\ Origin(f) \in Nat
      /\ session[f].messages.received_num \in Nat
  BY <1>1, EndFacts
<1>5. OrderAt(e) /\ OrderAt(f)
  BY <1>1 DEF OrderWhole
<1>6. IsDatagram(d) /\ d.epoch \in Nat
  BY <1>3, <1>4 DEF Wire, IsDatagram
<1>7. Ordered(wire, f, life, Origin(f), heard, mine)
  BY <1>1, <1>5 DEF OrderAt
<1>8. /\ session[e].peer_epoch \in Nat /\ session[e].peer_epoch <= life
      /\ session[e].messages.received_num \in Nat /\ Origin(e) \in Nat
      /\ arrived[e] \in Seq(MessageSet) /\ arrived[f] \in Seq(MessageSet)
      /\ session[e].messages.assumed \in Nat /\ session[e].messages.current_num \in Nat
  BY <1>1, EndFacts
<1> HIDE DEF d, wire, rest, life, mine, heard
<1>9. Ordered(rest, f, life, Origin(f), heard, mine)
  BY <1>3, <1>7, OrderedLess
<1>10. CASE d.epoch \in Range(session[e].retired)
  <2>1. session' = session /\ arrived' = arrived
    BY <1>2, <1>10 DEF Handled
  <2>2. ASSUME NEW g \in Endpoint
        PROVE  /\ session'[g].epoch = session[g].epoch
               /\ session'[g].peer_epoch = session[g].peer_epoch
               /\ session'[g].messages.received_num = session[g].messages.received_num
               /\ arrived'[g] = arrived[g] /\ Origin(g)' = Origin(g)
               /\ Ordered(Timely(g)', g, session[g].epoch, Origin(g), session[g].peer_epoch,
                          session[Peer(g)].epoch)
               /\ \A x \in Timely(g)' :
                     x \in Timely(g) \/ (Carrying(x) => OriginOf(x) = Origin(g))
    <3>1. Origin(g)' = Origin(g)
      BY <1>2, <2>1 DEF Origin
    <3>2. CASE g = e
      BY <1>3, <1>5, <2>1, <3>1, <3>2 DEF OrderAt
    <3>3. CASE g = f
      BY <1>1, <1>3, <1>9, <2>1, <3>1, <3>3 DEF life, mine, heard, rest, wire
    <3> QED
      BY <1>1, <3>2, <3>3
  <2> QED
    BY <2>2, OrderKept
<1>11. CASE ~(d.epoch \in Range(session[e].retired))
  <2>1. PICK s, t :
           /\ HeardAs(s, session[e], d.epoch) /\ AppliedAs(t, s, d)
           /\ session' = [session EXCEPT ![e] = t]
           /\ arrived' = [arrived EXCEPT ![e] = @ \o Taken(s, d)]
    BY <1>2, <1>11 DEF Handled
  <2>a. d \in wire
    BY <1>2, <1>11 DEF Handled, wire
  <2>b. Fresh(d, f, life, Origin(f)) /\ d.epoch = life
    BY <1>7, <2>a DEF Ordered, Fresh
  <2>c. ASSUME NEW x \in rest, Carrying(d), Carrying(x)
        PROVE  OriginOf(d) <= OriginOf(x) /\ OriginOf(x) \in Nat
    <3>1. Former(x.heard, mine) => Former(d.heard, mine)
      BY <1>3, <1>11
    <3>2. x \in wire /\ Fresh(x, f, life, Origin(f))
      BY <1>3, <1>7 DEF Ordered
    <3>3. OriginOf(d) <= OriginOf(x)
      BY <1>7, <2>a, <2>c, <3>1, <3>2 DEF Ordered
    <3> QED
      BY <2>c, <3>2, <3>3 DEF Fresh
  <2> DEFINE old == session[e].messages.received_num
             now == s.messages.received_num
             num == t.messages.received_num
             all == arrived[e] \o Taken(s, d)
             more == Origin(e)'
  <2>2. /\ session'[e] = t /\ session'[f] = session[f]
        /\ arrived'[e] = all /\ arrived'[f] = arrived[f]
    BY <1>1, <1>2, <2>1
  <2>3. t.epoch = mine /\ t.peer_epoch = life /\ now \in Nat
    BY <1>6, <2>b, <2>1, HandledNumbers DEF mine
  <2>4. now = old \/ session[e].peer_epoch < life
    <3>1. CASE session[e].peer_epoch \in {NoEpoch, life}
      BY <1>6, <2>b, <2>1, <3>1, HandledNumbers
    <3>2. CASE ~(session[e].peer_epoch \in {NoEpoch, life})
      BY <1>4, <1>8, <3>2
    <3> QED
      BY <3>1, <3>2
  <2>5. /\ more \in Nat /\ Origin(e) <= more
        /\ ~Former(session[e].peer_epoch, life) => more = Origin(e)
    <3>1. /\ Origin(e)' \in Nat
          /\ Origin(e)' = IF session[e].peer_epoch \in {NoEpoch, d.epoch} THEN Origin(e)
                          ELSE Origin(e) + session[e].messages.assumed
      BY <1>2, <1>6, <2>1, OriginHandled
    <3> QED
      BY <1>8, <2>b, <3>1 DEF Former
  <2>6. Origin(f)' = Origin(f)
    BY <1>2, <2>2 DEF Origin
  <2> HIDE DEF all, more, now, num, old
  <2>7. OrderAt(f)'
    <3>1. Below(arrived[f], heard, session[f].messages.received_num, mine, Origin(e), Timely(e))
      BY <1>1, <1>5 DEF OrderAt, heard, mine
    <3>2. Below(arrived[f], heard, session[f].messages.received_num, mine, more, Timely(e))
      BY <1>4, <1>8, <2>5, <3>1, BelowMore
    <3>3. InOrder(arrived[f])
      BY <1>5 DEF OrderAt
    <3>4. Below(arrived'[f], session'[f].peer_epoch, session'[f].messages.received_num,
                session'[e].epoch, Origin(e)', Timely(e)')
      BY <1>3, <2>2, <2>3, <3>2 DEF heard, more
    <3>5. /\ Ordered(Timely(f)', f, session'[f].epoch, Origin(f)', session'[f].peer_epoch,
                     session'[e].epoch)
          /\ InOrder(arrived'[f])
      BY <1>9, <2>2, <2>3, <2>6, <3>3 DEF life, heard, rest
    <3>6. Peer(f)' = e
      BY <1>1
    <3> HIDE DEF f
    <3> QED
      BY <3>4, <3>5, <3>6 DEF OrderAt
  <2>8. Ordered(Timely(e)', e, session'[e].epoch, Origin(e)', session'[e].peer_epoch,
                session'[f].epoch)
    <3>1. Ordered(Timely(e), e, mine, Origin(e), session[e].peer_epoch, life)
      BY <1>5 DEF OrderAt, mine, life
    <3>2. Ordered(Timely(e), e, mine, more, life, life)
      BY <1>8, <2>5, <3>1, OrderedHeard
    <3> QED
      BY <1>3, <2>2, <2>3, <3>2 DEF more, life
  <2>9. Below(arrived[e], session[e].peer_epoch, old, life, Origin(f), wire)
    BY <1>5 DEF OrderAt, old, life, wire
  <2>10. Below(arrived[e], life, now, life, Origin(f), wire)
    BY <1>4, <1>8, <2>3, <2>4, <2>9, TakeNothing DEF old
  <2>11. InOrder(arrived[e])
    BY <1>5 DEF OrderAt
  <2>12. Below(all, life, num, life, Origin(f), rest) /\ InOrder(all)
    <3>1. CASE Taken(s, d) = <<>> /\ num = now
      <4>1. all = arrived[e]
        <5>1. arrived[e] \o <<>> = arrived[e]
          BY <1>8, ConcatEmptySeq
        <5> QED
          BY <3>1, <5>1 DEF all
      <4>2. Below(arrived[e], life, now, life, Origin(f), rest)
        BY <1>3, <2>10 DEF Below
      <4> QED
        BY <2>11, <3>1, <4>1, <4>2
    <3>2. CASE ~(Taken(s, d) = <<>> /\ num = now)
      <4>1. /\ d.channel = Messages /\ d.ins.old = now /\ Taken(s, d) = d.ins.diff
            /\ num = d.ins.new
        BY <2>1, <3>2 DEF AppliedAs, num, now
      <4>2. Carrying(d)
        <5>1. CASE d.ins.diff = <<>>
          <6>1. d.ins.new = d.ins.old + 0
            BY <2>b, <4>1, <5>1 DEF Fresh
          <6>2. d.ins.new = now
            BY <2>3, <4>1, <6>1
          <6> QED
            BY <3>2, <4>1, <5>1, <6>2
        <5>2. CASE d.ins.diff # <<>>
          BY <4>1, <5>2 DEF Carrying
        <5> QED
          BY <5>1, <5>2
      <4>3. \A x \in rest : Carrying(x) => OriginOf(d) <= OriginOf(x) /\ OriginOf(x) \in Nat
        BY <2>c, <4>2
      <4>4. all = arrived[e] \o d.ins.diff
        BY <4>1 DEF all
      <4> HIDE DEF f
      <4>5. InOrder(all) /\ Below(all, life, d.ins.new, life, Origin(f), rest)
        BY <1>3, <1>4, <1>6, <1>8, <2>3, <2>10, <2>11, <2>a, <2>b, <4>1, <4>2, <4>3, <4>4,
           TakeInOrder
      <4> QED
        BY <4>1, <4>5
    <3> QED
      BY <3>1, <3>2
  <2>13. OrderAt(e)'
    <3>1. Below(arrived'[e], session'[e].peer_epoch, session'[e].messages.received_num,
                session'[f].epoch, Origin(f)', Timely(f)')
      BY <2>2, <2>3, <2>6, <2>12 DEF num, life, rest
    <3>2. InOrder(arrived'[e])
      BY <2>2, <2>12
    <3>3. Peer(e)' = f
      BY <1>1
    <3> HIDE DEF f
    <3> QED
      BY <2>8, <3>1, <3>2, <3>3 DEF OrderAt
  <2> QED
    BY <1>1, <2>7, <2>13 DEF OrderWhole
<1> QED
  BY <1>10, <1>11

LEMMA OrderRestart ==
    ASSUME Whole, OrderWhole, NEW e \in Endpoint, Restart(e)
    PROVE  OrderWhole'
<1> DEFINE f == Peer(e)
           t == NewSession(session[e].epoch + 1)
<1>1. /\ f \in Endpoint /\ f # e /\ Peer(f) = e /\ \A g \in Endpoint : g = e \/ g = f
      /\ \A g \in Endpoint : Peer(g)' = Peer(g)
  BY Peers DEF Peer
<1>2. /\ session' = [session EXCEPT ![e] = t]
      /\ arrived' = [arrived EXCEPT ![e] = <<>>]
      /\ session \in [Endpoint -> SessionSet] /\ arrived \in [Endpoint -> Seq(MessageSet)]
  BY DEF Restart, Whole
<1>3. /\ session[e].epoch \in Nat /\ session[f].peer_epoch <= session[e].epoch
      /\ session[f].peer_epoch \in Nat /\ arrived[f] \in Seq(MessageSet)
  BY <1>1, EndFacts
<1>4. t.epoch = session[e].epoch + 1
  BY <1>3, SoundNew
<1> HIDE DEF t
<1>5. /\ session'[e] = t /\ session'[f] = session[f]
      /\ arrived'[e] = <<>> /\ arrived'[f] = arrived[f]
  BY <1>1, <1>2
<1>6. \A g \in Endpoint : Timely(g)' = {}
  BY TimelyRestart
<1>7. ASSUME NEW g \in Endpoint
      PROVE  Ordered(Timely(g)', g, session'[g].epoch, Origin(g)', session'[g].peer_epoch,
                     session'[Peer(g)].epoch)
  BY <1>6 DEF Ordered
<1>8. OrderAt(f)
  BY <1>1 DEF OrderWhole
<1>9. OrderAt(e)'
  <2>1. 1..Len(arrived'[e]) = {}
    BY <1>5
  <2> QED
    BY <1>1, <1>7, <2>1 DEF OrderAt, Below, InOrder
<1>10. OrderAt(f)'
  <2>1. Below(arrived[f], session[f].peer_epoch, session[f].messages.received_num,
              session'[e].epoch, Origin(e)', {})
    <3>1. ASSUME NEW k \in 1..Len(arrived[f])
          PROVE  arrived[f][k].life <= session[f].peer_epoch /\ arrived[f][k].life # session'[e].epoch
      <4>1. arrived[f][k] \in MessageSet
        BY <1>3
      <4>2. arrived[f][k].life \in Nat
        BY <4>1 DEF MessageSet
      <4>3. arrived[f][k].life <= session[f].peer_epoch
        BY <1>8 DEF OrderAt, Below
      <4> QED
        BY <1>3, <1>4, <1>5, <4>2, <4>3
    <3> QED
      BY <3>1 DEF Below
  <2>2. InOrder(arrived[f])
    BY <1>8 DEF OrderAt
  <2> HIDE DEF f
  <2>3. Ordered(Timely(f)', f, session'[f].epoch, Origin(f)', session'[f].peer_epoch,
                session'[e].epoch)
    BY <1>1, <1>7
  <2>4. Below(arrived'[f], session'[f].peer_epoch, session'[f].messages.received_num,
              session'[e].epoch, Origin(e)', Timely(e)')
    BY <1>5, <1>6, <2>1
  <2> QED
    BY <1>1, <1>5, <2>2, <2>3, <2>4 DEF OrderAt
<1> QED
  BY <1>1, <1>9, <1>10 DEF OrderWhole

LEMMA InitOrder ==
    ASSUME Init
    PROVE  OrderWhole
<1>1. ASSUME NEW e \in Endpoint
      PROVE  OrderAt(e)
  <2>1. Peer(e) \in Endpoint
    BY Peers
  <2>2. ASSUME NEW g \in Endpoint
        PROVE  Timely(g) = {} /\ 1..Len(arrived[g]) = {}
    <3>1. net[g] = <<>> /\ arrived[g] = <<>> /\ Range(<<>>) = {}
      BY WireEmpty DEF Init
    <3> QED
      BY <3>1, TimelyIs
  <2> QED
    BY <2>1, <2>2 DEF OrderAt, Ordered, Below, InOrder
<1> QED
  BY <1>1 DEF OrderWhole

LEMMA OrderNext ==
    ASSUME Whole, OrderWhole, [Next]_vars, ~disordered'
    PROVE  OrderWhole'
<1>1. CASE UNCHANGED vars
  <2>1. \A e \in Endpoint : Timely(e)' = Timely(e)
    BY <1>1, TimelySame DEF vars
  <2>2. ASSUME NEW e \in Endpoint
        PROVE  /\ session'[e].epoch = session[e].epoch
               /\ session'[e].peer_epoch = session[e].peer_epoch
               /\ session'[e].messages.received_num = session[e].messages.received_num
               /\ arrived'[e] = arrived[e] /\ Origin(e)' = Origin(e)
               /\ Ordered(Timely(e)', e, session[e].epoch, Origin(e), session[e].peer_epoch,
                          session[Peer(e)].epoch)
               /\ \A d \in Timely(e)' :
                     d \in Timely(e) \/ (Carrying(d) => OriginOf(d) = Origin(e))
    BY <1>1, <2>1 DEF vars, Origin, OrderWhole, OrderAt
  <2> QED
    BY <2>2, OrderKept
<1>2. CASE SetScreen
  BY <1>2, OrderSetScreen
<1>3. ASSUME NEW e \in Endpoint, QueueMessage(e)
      PROVE  OrderWhole'
  BY <1>3, OrderQueueMessage
<1>4. ASSUME NEW e \in Endpoint, NEW cs \in SUBSET {Messages, Screen}, Outgoing(e, cs)
      PROVE  OrderWhole'
  BY <1>4, OrderOutgoing
<1>5. ASSUME NEW e \in Endpoint, NEW c \in {Messages, Screen}, OutgoingFails(e, c)
      PROVE  OrderWhole'
  BY <1>5, OrderOutgoingFails
<1>6. ASSUME NEW e \in Endpoint, NEW i \in DOMAIN net[Peer(e)], Receive(e, i)
      PROVE  OrderWhole'
  BY <1>6, OrderReceive
<1>7. ASSUME NEW e \in Endpoint, Restart(e)
      PROVE  OrderWhole'
  BY <1>7, OrderRestart
<1> QED
  BY <1>1, <1>2, <1>3, <1>4, <1>5, <1>6, <1>7 DEF Next

(* A datagram of a numbering that is over stays taken. *)
LEMMA DisorderedStays ==
    ASSUME Whole, [Next]_vars, disordered
    PROVE  disordered'
<1>1. CASE UNCHANGED vars
  BY <1>1 DEF vars
<1>2. CASE SetScreen
  BY <1>2 DEF SetScreen
<1>3. ASSUME NEW e \in Endpoint, QueueMessage(e)
      PROVE  disordered'
  BY <1>3 DEF QueueMessage
<1>4. ASSUME NEW e \in Endpoint, NEW cs \in SUBSET {Messages, Screen}, Outgoing(e, cs)
      PROVE  disordered'
  BY <1>4 DEF Outgoing
<1>5. ASSUME NEW e \in Endpoint, NEW c \in {Messages, Screen}, OutgoingFails(e, c)
      PROVE  disordered'
  BY <1>5 DEF OutgoingFails
<1>6. ASSUME NEW e \in Endpoint, NEW i \in DOMAIN net[Peer(e)], Receive(e, i)
      PROVE  disordered'
  <2>1. Handled(e, net[Peer(e)][i])
    BY <1>6, WholeReceive
  <2> QED
    BY <2>1 DEF Handled
<1>7. ASSUME NEW e \in Endpoint, Restart(e)
      PROVE  disordered'
  BY <1>7 DEF Restart
<1> QED
  BY <1>1, <1>2, <1>3, <1>4, <1>5, <1>6, <1>7 DEF Next

LEMMA OrderIsOrderInv ==
    ASSUME Whole, OrderWhole
    PROVE  OrderInv
<1>1. ASSUME NEW e \in Endpoint
      PROVE  /\ DOMAIN arrived[e] = 1..Len(arrived[e])
             /\ Peer(e) \in Endpoint /\ OrderAt(e)
  <2>1. arrived[e] \in Seq(MessageSet)
    BY EndFacts
  <2>2. DOMAIN arrived[e] = 1..Len(arrived[e])
    BY <2>1
  <2> QED
    BY <2>2, Peers DEF OrderWhole
<1>2. WireOrdered
  <2>1. ASSUME NEW e \in Endpoint, NEW d \in Timely(e)
        PROVE  LET life == session[Peer(e)].epoch
                   heard == session[e].peer_epoch
               IN  /\ Fresh(d, e, session[e].epoch, Origin(e))
                   /\ Former(heard, life) => Former(d.heard, life)
                   /\ Carrying(d) =>
                         /\ OriginOf(d) = Origin(e)
                              \/ (Former(d.heard, life) /\ ~Former(heard, life))
                         /\ \A x \in Timely(e) :
                               Carrying(x) /\ (Former(x.heard, life) => Former(d.heard, life)) =>
                                   OriginOf(d) <= OriginOf(x)
    BY <1>1 DEF OrderAt, Ordered
  <2>2. ASSUME NEW e \in Endpoint, NEW d \in Timely(e)
        PROVE  /\ d.epoch = session[e].epoch
               /\ d.channel = Messages => d.ins.new = d.ins.old + Len(d.ins.diff)
               /\ Carrying(d) =>
                    /\ OriginOf(d) \in 0..Origin(e)
                    /\ d.ins.diff = Between(e, d.epoch, OriginOf(d) + d.ins.old,
                                            OriginOf(d) + d.ins.new)
    BY <2>1 DEF Fresh
  <2> QED
    BY <2>1, <2>2 DEF WireOrdered
<1>3. TakenBelow
  <2>1. ASSUME NEW e \in Endpoint
        PROVE  Below(arrived[e], session[e].peer_epoch, session[e].messages.received_num,
                     session[Peer(e)].epoch, Origin(Peer(e)), Timely(Peer(e)))
    BY <1>1 DEF OrderAt
  <2> QED
    BY <1>1, <2>1 DEF TakenBelow, Below
<1>4. TakenInOrder
  <2>1. ASSUME NEW e \in Endpoint
        PROVE  InOrder(arrived[e])
    BY <1>1 DEF OrderAt
  <2> QED
    BY <1>1, <2>1 DEF TakenInOrder, InOrder
<1> QED
  BY <1>2, <1>3, <1>4 DEF OrderInv

(* Whatever the network loses, repeats and reorders, and whatever either   *)
(* renumbers when it hears of a restart, no life of an endpoint takes a    *)
(* message twice, nor one before an earlier one of the same life of its    *)
(* peer (Channel::apply, Channel::reset_peer), as long as it has taken no  *)
(* datagram of a numbering whose end it has seen.                          *)
THEOREM InOrderAcrossRestarts == Spec => []TakenInOrderOnce
<1>1. Init => Whole /\ (disordered \/ OrderWhole)
  BY InitWhole, InitOrder
<1>2. Whole /\ (disordered \/ OrderWhole) /\ [Next]_vars
        => Whole' /\ (disordered' \/ OrderWhole')
  BY WholeNext, OrderNext, DisorderedStays
<1>3. Whole /\ (disordered \/ OrderWhole) => TakenInOrderOnce
  BY OrderIsOrderInv DEF OrderInv, TakenInOrderOnce
<1> QED
  BY <1>1, <1>2, <1>3, PTL DEF Spec

-----------------------------------------------------------------------------
(* What an endpoint that has not restarted has queued.                     *)

UpTo(done, e, n) == \A k \in 1..n : [by |-> e, life |-> 1, n |-> k] \in done

(* The messages of the first life of an endpoint e whose channel 0 starts  *)
(* from `origin`, is assumed received up to `assumed`, and that has heard  *)
(* of the life `heard` of a peer which is in its life `life` and holds     *)
(* `num`; `mine` and `theirs` are in flight.  Before e has heard of that   *)
(* life, all that it has in flight starts from what the former one had     *)
(* acknowledged, so that if that was anything the peer takes none of it;   *)
(* afterwards what is left of it comes before the rest.                    *)
Survives(done, e, origin, assumed, heard, life, num, mine, theirs) ==
    /\ UpTo(done, e, origin + assumed) /\ UpTo(done, e, origin + num)
    /\ heard = NoEpoch => assumed = 0
    /\ \A d \in mine : Carrying(d) => UpTo(done, e, OriginOf(d) + d.ins.old)
    /\ \A d \in theirs : d.channel = Messages => d.ins.ack <= num
    /\ IF heard = life
         THEN \A d \in mine : Carrying(d) /\ OriginOf(d) < origin => d.ins.old > 0 /\ num = 0
         ELSE /\ num > 0 => assumed = 0
              /\ \A d \in mine : Carrying(d) => OriginOf(d) = origin /\ d.ins.old = assumed

LEMMA UpToLess ==
    ASSUME NEW done, NEW e, NEW n \in Int, UpTo(done, e, n), NEW m \in Int, m <= n
    PROVE  UpTo(done, e, m)
<1>1. \A k \in 1..m : k \in 1..n
  OBVIOUS
<1> QED
  BY <1>1 DEF UpTo

(* Datagrams are sent, lost, and other messages taken. *)
LEMMA SurvivesSent ==
    ASSUME NEW done, NEW e, NEW origin \in Nat, NEW assumed \in Nat, NEW heard, NEW life,
           NEW num \in Nat, NEW mine, NEW theirs,
           Survives(done, e, origin, assumed, heard, life, num, mine, theirs),
           NEW more, done \subseteq more, NEW mine1, NEW theirs1,
           \A d \in mine1 : d \in mine \/
              (Carrying(d) => OriginOf(d) = origin /\ d.ins.old = assumed),
           \A d \in theirs1 : d \in theirs \/ (d.channel = Messages => d.ins.ack = num)
    PROVE  Survives(more, e, origin, assumed, heard, life, num, mine1, theirs1)
<1>1. ASSUME NEW n, UpTo(done, e, n)
      PROVE  UpTo(more, e, n)
  BY <1>1 DEF UpTo
<1>2. UpTo(more, e, origin + assumed) /\ UpTo(more, e, origin + num)
  BY <1>1 DEF Survives
<1>3. ASSUME NEW d \in mine1, Carrying(d)
      PROVE  /\ UpTo(more, e, OriginOf(d) + d.ins.old)
             /\ d \in mine \/ (OriginOf(d) = origin /\ d.ins.old = assumed)
  <2>1. CASE d \in mine
    <3>1. UpTo(done, e, OriginOf(d) + d.ins.old)
      BY <1>3, <2>1 DEF Survives
    <3> QED
      BY <1>1, <2>1, <3>1
  <2>2. CASE OriginOf(d) = origin /\ d.ins.old = assumed
    <3>1. UpTo(more, e, OriginOf(d) + d.ins.old)
      BY <1>2, <2>2
    <3> QED
      BY <2>2, <3>1
  <2> QED
    BY <1>3, <2>1, <2>2
<1>4. ASSUME NEW d \in theirs1, d.channel = Messages
      PROVE  d.ins.ack <= num
  BY <1>4 DEF Survives
<1>5. IF heard = life
        THEN \A d \in mine1 : Carrying(d) /\ OriginOf(d) < origin => d.ins.old > 0 /\ num = 0
        ELSE /\ num > 0 => assumed = 0
             /\ \A d \in mine1 : Carrying(d) => OriginOf(d) = origin /\ d.ins.old = assumed
  BY <1>3 DEF Survives
<1>6. heard = NoEpoch => assumed = 0
  BY DEF Survives
<1> QED
  BY <1>2, <1>3, <1>4, <1>5, <1>6 DEF Survives

(* The peer takes messages: those of a former numbering do not match.      *)
LEMMA SurvivesTaken ==
    ASSUME NEW done, NEW e, NEW origin \in Nat, NEW assumed \in Nat, NEW heard, NEW life,
           NEW num \in Nat, NEW mine, NEW theirs,
           Survives(done, e, origin, assumed, heard, life, num, mine, theirs),
           NEW d \in mine, IsDatagram(d), Carrying(d), Fresh(d, e, 1, origin), d.ins.old = num,
           NEW rest, rest \subseteq mine,
           \A x \in rest : Carrying(x) => OriginOf(d) <= OriginOf(x) /\ OriginOf(x) \in Nat,
           \A x \in theirs : x.channel = Messages => x.ins.ack \in Nat,
           NEW more, more = done \cup Range(d.ins.diff)
    PROVE  Survives(more, e, origin, assumed, heard, life, d.ins.new, rest, theirs)
<1> DEFINE o == OriginOf(d)
           new == d.ins.new
           first == o + num
           last == o + new
<1>1. /\ new \in Nat /\ num < new /\ o \in Nat /\ o <= origin /\ d.channel = Messages
      /\ d.ins.diff = Between(e, 1, first, last)
  BY FreshFacts
<1>2. ASSUME NEW n, UpTo(done, e, n)
      PROVE  UpTo(more, e, n)
  BY <1>2 DEF UpTo
<1>3. o = origin /\ (heard # life => assumed = 0)
  <2>1. CASE heard = life
    <3>1. o < origin => num > 0 /\ num = 0
      BY <2>1 DEF Survives
    <3> HIDE DEF o
    <3> QED
      BY <1>1, <2>1, <3>1
  <2>2. CASE heard # life
    <3>1. o = origin /\ num = assumed /\ (num > 0 => assumed = 0)
      BY <2>2 DEF Survives
    <3> QED
      BY <2>2, <3>1
  <2> QED
    BY <2>1, <2>2
<1> HIDE DEF o, new
<1>4. first \in Int /\ last \in Int /\ first <= last /\ last = origin + new /\ first = origin + num
  BY <1>1, <1>3
<1> HIDE DEF first, last
<1>5. UpTo(more, e, last)
  <2>1. UpTo(done, e, first)
    BY <1>4 DEF Survives
  <2>2. ASSUME NEW k \in 1..last
        PROVE  [by |-> e, life |-> 1, n |-> k] \in more
    <3>1. CASE k <= first
      BY <1>4, <2>1, <3>1 DEF UpTo
    <3>2. CASE ~(k <= first)
      <4> DEFINE j == k - first
                 m == last - first
      <4>1. j \in 1..m /\ first + j = k /\ m \in Nat
        BY <1>4, <3>2
      <4> HIDE DEF j, m
      <4>2. /\ Between(e, 1, first, last) \in Seq(Of(e, 1))
            /\ Len(Between(e, 1, first, last)) = m
            /\ \A l \in 1..m : Between(e, 1, first, last)[l] = [by |-> e, life |-> 1, n |-> first + l]
        BY ONLY SMTT(30), <1>4, BetweenFacts DEF m
      <4>3. d.ins.diff[j] = [by |-> e, life |-> 1, n |-> k]
        BY <1>1, <4>1, <4>2
      <4>a. Range(Between(e, 1, first, last)) = {Between(e, 1, first, last)[l] : l \in 1..m}
        BY ONLY <4>2, RangeFacts
      <4>b. d.ins.diff = Between(e, 1, first, last)
        BY <1>1
      <4>4. d.ins.diff[j] \in Range(d.ins.diff)
        BY <4>1, <4>a, <4>b
      <4> QED
        BY <4>3, <4>4
    <3> QED
      BY <3>1, <3>2
  <2> QED
    BY <2>2 DEF UpTo
<1>6. UpTo(more, e, origin + assumed) /\ UpTo(more, e, origin + new)
  BY <1>2, <1>4, <1>5 DEF Survives
<1>7. ASSUME NEW x \in rest, Carrying(x)
      PROVE  /\ UpTo(more, e, OriginOf(x) + x.ins.old)
             /\ ~(OriginOf(x) < origin)
  <2>1. UpTo(done, e, OriginOf(x) + x.ins.old)
    BY <1>7 DEF Survives
  <2>2. o <= OriginOf(x) /\ OriginOf(x) \in Nat
    BY <1>7 DEF o
  <2>3. UpTo(more, e, OriginOf(x) + x.ins.old)
    BY <1>2, <2>1
  <2>4. ~(OriginOf(x) < origin)
    BY <1>3, <2>2
  <2> QED
    BY <2>3, <2>4
<1>8. ASSUME NEW x \in theirs, x.channel = Messages
      PROVE  x.ins.ack <= new
  <2>1. x.ins.ack <= num /\ x.ins.ack \in Nat
    BY <1>1, <1>8 DEF Survives
  <2> QED
    BY <1>1, <2>1
<1>9. IF heard = life
        THEN \A x \in rest : Carrying(x) /\ OriginOf(x) < origin => x.ins.old > 0 /\ new = 0
        ELSE /\ new > 0 => assumed = 0
             /\ \A x \in rest : Carrying(x) => OriginOf(x) = origin /\ x.ins.old = assumed
  BY <1>3, <1>7 DEF Survives
<1>10. heard = NoEpoch => assumed = 0
  BY DEF Survives
<1> QED
  BY <1>6, <1>7, <1>8, <1>9, <1>10 DEF Survives, new

(* What is the origin, and assumed, when the life `life` is heard of. *)
Renumbered(origin1, base, origin, assumed, heard, life) ==
    IF heard \in {NoEpoch, life} THEN origin1 = origin /\ base = assumed
    ELSE origin1 = origin + assumed /\ base = 0

(* An acknowledgement arrives, perhaps with the news of another life of    *)
(* the peer: what it assumes received is taken, or was assumed before.     *)
LEMMA SurvivesHeard ==
    ASSUME NEW done, NEW e, NEW origin \in Nat, NEW assumed \in Nat, NEW heard \in Nat,
           NEW life \in Nat, life # NoEpoch, NEW num \in Nat, NEW mine, NEW theirs,
           Survives(done, e, origin, assumed, heard, life, num, mine, theirs),
           \A x \in mine : Carrying(x) => OriginOf(x) \in Nat /\ x.ins.old \in Nat,
           NEW origin1 \in Nat, NEW base \in Nat, NEW assumed1 \in Nat,
           Renumbered(origin1, base, origin, assumed, heard, life),
           assumed1 = base \/ assumed1 <= num,
           NEW rest, rest \subseteq theirs
    PROVE  Survives(done, e, origin1, assumed1, life, life, num, mine, rest)
<1>0. IF heard \in {NoEpoch, life} THEN origin1 = origin /\ base = assumed
      ELSE origin1 = origin + assumed /\ base = 0
  BY DEF Renumbered
<1>1. /\ UpTo(done, e, origin + assumed) /\ UpTo(done, e, origin + num)
      /\ heard = NoEpoch => assumed = 0
      /\ heard # life /\ num > 0 => assumed = 0
  BY DEF Survives
<1>2. \E n \in Nat : UpTo(done, e, n) /\ origin1 + assumed1 <= n /\ origin1 + num <= n
  <2> DEFINE a == origin + assumed
             b == origin + num
  <2>1. a \in Nat /\ b \in Nat /\ UpTo(done, e, a) /\ UpTo(done, e, b)
    BY <1>1
  <2>2. \/ origin1 + assumed1 <= a /\ origin1 + num <= a
        \/ origin1 + assumed1 <= b /\ origin1 + num <= b
        \/ heard = life /\ origin1 = origin
    <3>1. CASE heard = NoEpoch
      <4>1. origin1 = origin /\ base = 0 /\ assumed = 0
        BY <1>1, <1>0, <3>1
      <4> QED
        BY ONLY <4>1, base \in Nat, num \in Nat, origin \in Nat, assumed1 \in Nat,
                assumed1 = base \/ assumed1 <= num
    <3>2. CASE heard = life
      BY <1>0, <3>2
    <3>3. CASE heard # NoEpoch /\ heard # life
      <4>1. origin1 = origin + assumed /\ base = 0 /\ (num > 0 => assumed = 0)
        BY <1>1, <1>0, <3>3
      <4> QED
        BY ONLY <4>1, num \in Nat, origin \in Nat, assumed \in Nat, assumed1 \in Nat,
                assumed1 = base \/ assumed1 <= num
    <3> QED
      BY <3>1, <3>2, <3>3
  <2>3. ASSUME heard = life, origin1 = origin
        PROVE  \/ origin1 + assumed1 <= a /\ origin1 + num <= a
               \/ origin1 + assumed1 <= b /\ origin1 + num <= b
    <3>1. base = assumed
      BY <1>0, <2>3
    <3> QED
      BY ONLY <2>3, <3>1, num \in Nat, origin \in Nat, assumed \in Nat, assumed1 \in Nat,
              assumed1 = base \/ assumed1 <= num
  <2> HIDE DEF a, b
  <2> QED
    BY <2>1, <2>2, <2>3
<1>3. UpTo(done, e, origin1 + assumed1) /\ UpTo(done, e, origin1 + num)
  <2>1. PICK n \in Nat : UpTo(done, e, n) /\ origin1 + assumed1 <= n /\ origin1 + num <= n
    BY <1>2
  <2> DEFINE a == origin1 + assumed1
             b == origin1 + num
  <2>2. a \in Int /\ b \in Int /\ a <= n /\ b <= n
    BY <2>1
  <2> HIDE DEF a, b
  <2>3. UpTo(done, e, a) /\ UpTo(done, e, b)
    BY <2>1, <2>2, UpToLess
  <2> QED
    BY <2>3 DEF a, b
<1>4. ASSUME NEW d \in mine, Carrying(d), OriginOf(d) < origin1
      PROVE  d.ins.old > 0 /\ num = 0
  <2>1. CASE heard = life
    <3>1. origin1 = origin
      BY <1>0, <2>1
    <3> QED
      BY <1>4, <2>1, <3>1 DEF Survives
  <2>2. CASE heard # life
    <3>1. OriginOf(d) = origin /\ d.ins.old = assumed /\ (num > 0 => assumed = 0)
      BY <1>4, <2>2 DEF Survives
    <3>2. origin1 = origin + assumed \/ origin1 = origin
      BY <1>0
    <3>3. assumed > 0
      BY ONLY <1>4, <3>1, <3>2, origin \in Nat, assumed \in Nat
    <3> QED
      BY <3>1, <3>3
  <2> QED
    BY <2>1, <2>2
<1>5. \A d \in mine : Carrying(d) => UpTo(done, e, OriginOf(d) + d.ins.old)
  BY DEF Survives
<1>6. \A d \in rest : d.channel = Messages => d.ins.ack <= num
  BY DEF Survives
<1> QED
  BY <1>3, <1>4, <1>5, <1>6 DEF Survives

(* The peer restarts, and what was in flight is lost. *)
LEMMA SurvivesRestart ==
    ASSUME NEW done, NEW e, NEW origin \in Nat, NEW assumed \in Nat, NEW heard \in Nat,
           NEW life \in Nat, NEW num, NEW mine, NEW theirs,
           Survives(done, e, origin, assumed, heard, life, num, mine, theirs),
           NEW later \in Nat, heard < later
    PROVE  Survives(done, e, origin, assumed, heard, later, 0, {}, {})
<1>1. UpTo(done, e, origin + assumed) /\ (heard = NoEpoch => assumed = 0)
  BY DEF Survives
<1>2. UpTo(done, e, origin + 0)
  <2> DEFINE n == origin + assumed
             m == origin + 0
  <2>1. n \in Int /\ m \in Int /\ m <= n
    OBVIOUS
  <2> HIDE DEF n, m
  <2>2. UpTo(done, e, n)
    BY <1>1 DEF n
  <2>3. UpTo(done, e, m)
    BY <2>1, <2>2, UpToLess
  <2> QED
    BY <2>3 DEF m
<1>3. heard # later
  OBVIOUS
<1> QED
  BY <1>1, <1>2, <1>3 DEF Survives

SurvivorAt(e) ==
    session[e].epoch = 1 =>
        Survives(delivered, e, Origin(e), session[e].messages.assumed, session[e].peer_epoch,
                 session[Peer(e)].epoch, session[Peer(e)].messages.received_num,
                 Timely(e), Timely(Peer(e)))

SurvivorWhole == \A e \in Endpoint : SurvivorAt(e)

(* A step that changes no number of channel 0, and puts at most datagrams  *)
(* with these numbers on the wire.                                         *)
LEMMA SurvivorKept ==
    ASSUME Whole, SurvivorWhole, delivered \subseteq delivered',
           \A e \in Endpoint :
              /\ session'[e].epoch = session[e].epoch
              /\ session'[e].peer_epoch = session[e].peer_epoch
              /\ session'[e].messages.assumed = session[e].messages.assumed
              /\ session'[e].messages.received_num = session[e].messages.received_num
              /\ Origin(e)' = Origin(e)
              /\ \A d \in Timely(e)' : d \in Timely(e) \/
                    /\ Carrying(d) => /\ OriginOf(d) = Origin(e)
                                      /\ d.ins.old = session[e].messages.assumed
                    /\ d.channel = Messages => d.ins.ack = session[e].messages.received_num
    PROVE  SurvivorWhole'
<1>1. \A e \in Endpoint : Peer(e)' = Peer(e)
  BY DEF Peer
<1>2. ASSUME NEW e \in Endpoint, session[e].epoch = 1
      PROVE  Survives(delivered', e, Origin(e)', session'[e].messages.assumed,
                      session'[e].peer_epoch, session'[Peer(e)].epoch,
                      session'[Peer(e)].messages.received_num,
                      Timely(e)', Timely(Peer(e))')
  <2> DEFINE f == Peer(e)
             assumed == session[e].messages.assumed
             num == session[f].messages.received_num
             mine == Timely(e)'
             theirs == Timely(f)'
  <2>1. /\ f \in Endpoint /\ Origin(e) \in Nat /\ assumed \in Nat
    BY EndFacts
  <2>2. num \in Nat
    BY <2>1, EndFacts
  <2>3. Survives(delivered, e, Origin(e), assumed, session[e].peer_epoch,
                 session[f].epoch, num, Timely(e), Timely(f))
    BY <1>2 DEF SurvivorWhole, SurvivorAt
  <2>4. /\ session'[e].peer_epoch = session[e].peer_epoch
        /\ session'[e].messages.assumed = assumed
        /\ session'[f].epoch = session[f].epoch
        /\ session'[f].messages.received_num = num
        /\ Origin(e)' = Origin(e)
        /\ \A d \in mine : d \in Timely(e) \/
              (Carrying(d) => OriginOf(d) = Origin(e) /\ d.ins.old = assumed)
        /\ \A d \in theirs : d \in Timely(f) \/
              (d.channel = Messages => d.ins.ack = num)
    BY <2>1
  <2> HIDE DEF f, assumed, num, mine, theirs
  <2>5. Survives(delivered', e, Origin(e), assumed, session[e].peer_epoch,
                 session[f].epoch, num, mine, theirs)
    BY <2>1, <2>2, <2>3, <2>4, SurvivesSent
  <2>6. Survives(delivered', e, Origin(e)', session'[e].messages.assumed,
                 session'[e].peer_epoch, session'[f].epoch, session'[f].messages.received_num,
                 mine, theirs)
    BY <2>4, <2>5
  <2> QED
    BY <2>6 DEF f, mine, theirs
<1>3. ASSUME NEW e \in Endpoint
      PROVE  SurvivorAt(e)'
  BY <1>1, <1>2 DEF SurvivorAt
<1> QED
  BY <1>3 DEF SurvivorWhole

LEMMA SurvivorQuiet ==
    ASSUME Whole, SurvivorWhole, NEW e \in Endpoint, NEW t,
           session' = [session EXCEPT ![e] = t],
           t.epoch = session[e].epoch, t.peer_epoch = session[e].peer_epoch,
           t.messages.assumed = session[e].messages.assumed,
           t.messages.received_num = session[e].messages.received_num,
           queued'[e] - t.messages.current_num = Origin(e),
           \A f \in Endpoint : f # e => queued'[f] = queued[f],
           UNCHANGED <<net, delivered, met>>
    PROVE  SurvivorWhole'
<1>1. ASSUME NEW f \in Endpoint
      PROVE  /\ session'[f].epoch = session[f].epoch
             /\ session'[f].peer_epoch = session[f].peer_epoch
             /\ session'[f].messages.assumed = session[f].messages.assumed
             /\ session'[f].messages.received_num = session[f].messages.received_num
             /\ Origin(f)' = Origin(f)
  <2>1. session \in [Endpoint -> SessionSet]
    BY DEF Whole
  <2>2. CASE f = e
    BY <2>1, <2>2 DEF Origin
  <2>3. CASE f # e
    BY <2>1, <2>3 DEF Origin
  <2> QED
    BY <2>2, <2>3
<1>2. \A f \in Endpoint : Timely(f)' = Timely(f)
  BY <1>1, TimelySame
<1> QED
  BY <1>1, <1>2, SurvivorKept

LEMMA SurvivorSetScreen ==
    ASSUME Whole, SurvivorWhole, SetScreen
    PROVE  SurvivorWhole'
<1> DEFINE t == [session[Host] EXCEPT !.screen =
                    S!Advance(session[Host].screen, GridOf(session[Host].epoch, screens + 1))]
<1>1. /\ session' = [session EXCEPT ![Host] = t] /\ UNCHANGED <<queued, net, delivered, met>>
      /\ Host \in Endpoint
  BY DEF SetScreen, Endpoint
<1>2. /\ t.epoch = session[Host].epoch /\ t.peer_epoch = session[Host].peer_epoch
      /\ t.messages = session[Host].messages
  <2>1. session[Host] \in SessionSet
    BY <1>1 DEF Whole
  <2> QED
    BY <2>1 DEF SessionSet
<1> HIDE DEF t
<1> QED
  BY <1>1, <1>2, SurvivorQuiet DEF Origin

LEMMA SurvivorQueueMessage ==
    ASSUME Whole, SurvivorWhole, NEW e \in Endpoint, QueueMessage(e)
    PROVE  SurvivorWhole'
<1>1. PICK t : /\ session' = [session EXCEPT ![e] = t]
               /\ t.epoch = session[e].epoch /\ t.peer_epoch = session[e].peer_epoch
               /\ t.messages.current_num = session[e].messages.current_num + 1
               /\ t.messages.assumed = session[e].messages.assumed
               /\ t.messages.received_num = session[e].messages.received_num
  BY WholeQueueMessage
<1>2. /\ queued' = [queued EXCEPT ![e] = @ + 1] /\ UNCHANGED <<net, delivered, met>>
      /\ queued \in [Endpoint -> Nat]
  BY DEF QueueMessage, Whole
<1>3. queued[e] \in Nat /\ session[e].messages.current_num \in Nat
  BY EndFacts
<1>4. queued'[e] - t.messages.current_num = Origin(e)
  BY <1>1, <1>2, <1>3 DEF Origin
<1>5. \A f \in Endpoint : f # e => queued'[f] = queued[f]
  BY <1>2
<1> QED
  BY <1>1, <1>2, <1>4, <1>5, SurvivorQuiet

LEMMA SurvivorOutgoingFails ==
    ASSUME Whole, SurvivorWhole, NEW e \in Endpoint, NEW c \in {Messages, Screen},
           OutgoingFails(e, c)
    PROVE  SurvivorWhole'
<1>1. PICK t : session' = [session EXCEPT ![e] = t] /\ SameNumbers(t, session[e])
  BY WholeOutgoingFails
<1>2. UNCHANGED <<queued, net, delivered, met>>
  BY DEF OutgoingFails
<1> QED
  BY <1>1, <1>2, SurvivorQuiet DEF SameNumbers, Origin

LEMMA SurvivorOutgoing ==
    ASSUME Whole, SurvivorWhole, NEW e \in Endpoint, NEW cs \in SUBSET {Messages, Screen},
           Outgoing(e, cs)
    PROVE  SurvivorWhole'
<1>1. PICK t : session' = [session EXCEPT ![e] = t] /\ SameNumbers(t, session[e])
  BY WholeOutgoing
<1> DEFINE T == DatagramsOf(session[e])
<1>2. PICK new \in Seq(T) : net' = [net EXCEPT ![e] = InFlight(net[e], new)]
  BY WholeOutgoing
<1>3. UNCHANGED <<queued, delivered, met>> /\ session \in [Endpoint -> SessionSet]
  BY DEF Outgoing, Whole
<1>4. Sound(session[e], e, queued[e])
  BY EndFacts
<1>5. ASSUME NEW d \in T
      PROVE  /\ Carrying(d) => /\ OriginOf(d) = Origin(e)
                               /\ d.ins.old = session[e].messages.assumed
             /\ d.channel = Messages => d.ins.ack = session[e].messages.received_num
  BY <1>4, DatagramFresh DEF Origin
<1>6. \A g \in Endpoint : session'[g].epoch = session[g].epoch
  BY <1>1, <1>3 DEF SameNumbers
<1>7. /\ Timely(e)' \subseteq Timely(e) \cup T
      /\ \A g \in Endpoint : g # e => Timely(g)' = Timely(g)
  BY <1>2, <1>3, <1>6, TimelySent
<1> HIDE DEF T
<1>8. ASSUME NEW f \in Endpoint
      PROVE  /\ session'[f].epoch = session[f].epoch
             /\ session'[f].peer_epoch = session[f].peer_epoch
             /\ session'[f].messages.assumed = session[f].messages.assumed
             /\ session'[f].messages.received_num = session[f].messages.received_num
             /\ Origin(f)' = Origin(f)
             /\ \A d \in Timely(f)' : d \in Timely(f) \/
                   /\ Carrying(d) => /\ OriginOf(d) = Origin(f)
                                     /\ d.ins.old = session[f].messages.assumed
                   /\ d.channel = Messages => d.ins.ack = session[f].messages.received_num
  <2>1. CASE f = e
    <3>1. \A d \in Timely(f)' : d \in Timely(f) \/ d \in T
      BY <1>7, <2>1
    <3>2. session'[f] = t
      BY <1>1, <1>3, <2>1
    <3>3. Origin(f)' = Origin(f)
      BY <1>1, <1>3, <2>1, <3>2 DEF SameNumbers, Origin
    <3> QED
      BY <1>1, <1>5, <2>1, <3>1, <3>2, <3>3 DEF SameNumbers
  <2>2. CASE f # e
    <3>1. Timely(f)' = Timely(f) /\ session'[f] = session[f]
      BY <1>1, <1>3, <1>7, <2>2
    <3> QED
      BY <1>3, <3>1 DEF Origin
  <2> QED
    BY <2>1, <2>2
<1> QED
  BY <1>3, <1>8, SurvivorKept

(* A datagram arrives: for the peer whose messages it brings... *)
LEMMA SurvivorGives ==
    ASSUME Whole, OrderWhole, SurvivorWhole, NEW e \in Endpoint, NEW f, f = Peer(e),
           NEW d \in Timely(f), NEW rest, rest \subseteq Timely(f),
           \A x \in rest : Carrying(d) /\ Carrying(x) => OriginOf(d) <= OriginOf(x),
           NEW s, NEW t, HeardAs(s, session[e], d.epoch), AppliedAs(t, s, d),
           session[f].epoch = 1
    PROVE  Survives(delivered \cup Range(Taken(s, d)), f, Origin(f),
                    session[f].messages.assumed, session[f].peer_epoch,
                    session[e].epoch, t.messages.received_num, rest, Timely(e))
<1> DEFINE num == session[e].messages.received_num
           more == delivered \cup Range(Taken(s, d))
           assumed == session[f].messages.assumed
           wire == Timely(f)
           back == Timely(e)
<1>1. f \in Endpoint /\ Peer(f) = e
  BY Peers
<1>2. /\ Wire(net[f], 1) /\ Origin(f) \in Nat /\ assumed \in Nat
      /\ num \in Nat /\ session[e].peer_epoch \in Nat /\ session[e].peer_epoch <= 1
      /\ Wire(net[e], session[e].epoch)
      /\ wire \subseteq Range(net[f]) /\ back \subseteq Range(net[e])
  BY <1>1, EndFacts, TimelyIs
<1>3. Survives(delivered, f, Origin(f), assumed, session[f].peer_epoch,
               session[e].epoch, num, wire, back)
  BY <1>1 DEF SurvivorWhole, SurvivorAt
<1>4. \A x \in wire : Fresh(x, f, 1, Origin(f))
  BY <1>1 DEF OrderWhole, OrderAt, Ordered
<1>5. IsDatagram(d) /\ Fresh(d, f, 1, Origin(f)) /\ d.epoch = 1
  BY <1>2, <1>4 DEF Wire, Fresh
<1>6. rest \subseteq wire /\ d \in wire
  OBVIOUS
<1>7. s.messages = session[e].messages
  <2>1. session[e].peer_epoch \in {NoEpoch, d.epoch}
    BY <1>2, <1>5 DEF NoEpoch
  <2> QED
    BY <2>1 DEF HeardAs
<1>8. \A x \in back : x.channel = Messages => x.ins.ack \in Nat
  BY <1>2 DEF Wire, IsDatagram
<1> HIDE DEF wire, back
<1> HIDE DEF num, more, assumed
<1>9. CASE Taken(s, d) = <<>> /\ t.messages.received_num = num
  <2>1. delivered \subseteq more /\ \A x \in rest : x \in wire
    BY <1>6 DEF more
  <2>2. Survives(more, f, Origin(f), assumed, session[f].peer_epoch,
                 session[e].epoch, num, rest, back)
    BY <1>2, <1>3, <2>1, SurvivesSent
  <2> QED
    BY <1>9, <2>2 DEF more, assumed, back
<1>10. CASE ~(Taken(s, d) = <<>> /\ t.messages.received_num = num)
  <2>1. /\ d.channel = Messages /\ d.ins.old = num /\ Taken(s, d) = d.ins.diff
        /\ t.messages.received_num = d.ins.new
    BY <1>7, <1>10 DEF AppliedAs, num
  <2>2. Carrying(d)
    <3>1. CASE d.ins.diff = <<>>
      <4>1. d.ins.new = d.ins.old + 0
        BY <1>5, <2>1, <3>1 DEF Fresh
      <4>2. d.ins.new = num
        BY <1>2, <2>1, <4>1
      <4> QED
        BY <1>10, <2>1, <3>1, <4>2
    <3>2. CASE d.ins.diff # <<>>
      BY <2>1, <3>2 DEF Carrying
    <3> QED
      BY <3>1, <3>2
  <2>3. ASSUME NEW x \in rest, Carrying(x)
        PROVE  OriginOf(d) <= OriginOf(x) /\ OriginOf(x) \in Nat
    <3>1. Fresh(x, f, 1, Origin(f))
      BY <1>4, <1>6
    <3> QED
      BY <1>6, <2>2, <2>3, <3>1 DEF Fresh
  <2>4. more = delivered \cup Range(d.ins.diff)
    BY <2>1 DEF more
  <2>5. Survives(more, f, Origin(f), assumed, session[f].peer_epoch,
                 session[e].epoch, d.ins.new, rest, back)
    BY <1>2, <1>3, <1>5, <1>6, <1>8, <2>1, <2>2, <2>3, <2>4, SurvivesTaken
  <2> QED
    BY <2>1, <2>5 DEF more, assumed, back
<1> QED
  BY <1>9, <1>10

(* ... and for the one it acknowledges. *)
LEMMA SurvivorLearns ==
    ASSUME Whole, OrderWhole, SurvivorWhole, NEW e \in Endpoint, NEW f, f = Peer(e),
           NEW d \in Timely(f), NEW rest, rest \subseteq Timely(f),
           NEW s, NEW t, HeardAs(s, session[e], d.epoch), AppliedAs(t, s, d),
           session' = [session EXCEPT ![e] = t], queued' = queued,
           session[e].epoch = 1, NEW more, delivered \subseteq more
    PROVE  Survives(more, e, Origin(e)', t.messages.assumed, t.peer_epoch,
                    session[f].epoch, session[f].messages.received_num, Timely(e), rest)
<1> DEFINE c == session[e].messages
           num == session[f].messages.received_num
           life == session[f].epoch
           heard == session[e].peer_epoch
           base == s.messages.assumed
           origin == Origin(e)'
           mine == Timely(e)
           wire == Timely(f)
<1>1. f \in Endpoint /\ Peer(f) = e
  BY Peers
<1>2. /\ Wire(net[f], life) /\ num \in Nat /\ life \in Nat /\ life # NoEpoch
      /\ Origin(e) \in Nat /\ c.assumed \in Nat /\ c.current_num \in Nat /\ heard \in Nat
      /\ Wire(net[e], session[e].epoch)
      /\ wire \subseteq Range(net[f]) /\ mine \subseteq Range(net[e])
  BY <1>1, EndFacts, TimelyIs
<1>3. Survives(delivered, e, Origin(e), c.assumed, heard, life, num, mine, wire)
  BY DEF SurvivorWhole, SurvivorAt
<1>4. IsDatagram(d) /\ d.epoch = life /\ d.epoch \in Nat /\ d.ins.ack \in Nat
  <2>1. d.epoch = life
    BY <1>1 DEF OrderWhole, OrderAt, Ordered, Fresh
  <2>2. d \in Range(net[f])
    BY <1>2
  <2> QED
    BY <1>2, <2>1, <2>2 DEF Wire, IsDatagram
<1>5. /\ t.peer_epoch = life /\ base \in Nat
      /\ t.messages.assumed = base \/ (t.messages.assumed = d.ins.ack /\ d.channel = Messages)
      /\ IF heard \in {NoEpoch, life} THEN base = c.assumed ELSE base = 0
  BY <1>4, HandledNumbers
<1>6. /\ origin \in Nat
      /\ IF heard \in {NoEpoch, life} THEN origin = Origin(e) ELSE origin = Origin(e) + c.assumed
  BY <1>4, OriginHandled
<1>7. t.messages.assumed \in Nat /\ (t.messages.assumed = base \/ t.messages.assumed <= num)
  <2>1. d.channel = Messages => d.ins.ack <= num
    BY <1>3 DEF Survives
  <2> QED
    BY <1>4, <1>5, <2>1
<1>8. \A x \in mine : Carrying(x) => OriginOf(x) \in Nat /\ x.ins.old \in Nat
  <2>1. ASSUME NEW x \in mine, Carrying(x)
        PROVE  OriginOf(x) \in Nat /\ x.ins.old \in Nat
    <3>1. Fresh(x, e, session[e].epoch, Origin(e)) /\ IsDatagram(x)
      BY <1>2 DEF OrderWhole, OrderAt, Ordered, Wire
    <3> QED
      BY <2>1, <3>1 DEF Fresh, IsDatagram
  <2> QED
    BY <2>1
<1> HIDE DEF c, num, life, heard, base, origin, mine, wire
<1>9. Survives(delivered, e, origin, t.messages.assumed, life, life, num, mine, rest)
  <2> DEFINE assumed == t.messages.assumed
  <2>1. assumed \in Nat /\ (assumed = base \/ assumed <= num)
    BY <1>7
  <2> HIDE DEF assumed
  <2>a. rest \subseteq wire
    BY DEF wire
  <2>2. Renumbered(origin, base, Origin(e), c.assumed, heard, life)
    BY <1>5, <1>6 DEF Renumbered
  <2>3. Survives(delivered, e, origin, assumed, life, life, num, mine, rest)
    BY <1>2, <1>3, <1>5, <1>6, <1>8, <2>1, <2>2, <2>a, SurvivesHeard
  <2> QED
    BY <2>3 DEF assumed
<1>10. Survives(more, e, origin, t.messages.assumed, life, life, num, mine, rest)
  <2> DEFINE assumed == t.messages.assumed
  <2>1. /\ assumed \in Nat
        /\ Survives(delivered, e, origin, assumed, life, life, num, mine, rest)
    BY <1>7, <1>9
  <2> HIDE DEF assumed
  <2>2. Survives(more, e, origin, assumed, life, life, num, mine, rest)
    BY <1>2, <1>6, <2>1, SurvivesSent
  <2> QED
    BY <2>2 DEF assumed
<1> QED
  BY <1>5, <1>10 DEF num, life, origin, mine

LEMMA SurvivorReceive ==
    ASSUME Whole, OrderWhole, SurvivorWhole, NEW e \in Endpoint,
           NEW i \in DOMAIN net[Peer(e)], Receive(e, i), ~disordered'
    PROVE  SurvivorWhole'
<1> DEFINE f == Peer(e)
           d == net[f][i]
           wire == Timely(f)
           rest == Timely(f)'
           mine == session[e].epoch
<1>1. /\ f \in Endpoint /\ f # e /\ Peer(f) = e /\ \A g \in Endpoint : g = e \/ g = f
      /\ \A g \in Endpoint : Peer(g)' = Peer(g)
  BY Peers DEF Peer
<1>2. Handled(e, d) /\ queued' = queued /\ session \in [Endpoint -> SessionSet]
  BY WholeReceive DEF Whole
<1>3. /\ d \in Range(net[f]) /\ rest \subseteq wire /\ Timely(e)' = Timely(e)
      /\ d.epoch \notin Range(session[e].retired) =>
            \A x \in rest : ~Former(d.heard, mine) => ~Former(x.heard, mine)
  BY TimelyReceive
<1>4. Wire(net[f], session[f].epoch)
  BY <1>1, EndFacts
<1>5. IsDatagram(d) /\ d.epoch \in Nat
  BY <1>3, <1>4 DEF Wire, IsDatagram
<1>6. Ordered(wire, f, session[f].epoch, Origin(f), session[f].peer_epoch, mine)
  BY <1>1 DEF OrderWhole, OrderAt
<1> HIDE DEF d, rest, wire, mine
<1>7. CASE d.epoch \in Range(session[e].retired)
  <2>1. session' = session /\ delivered' = delivered
    BY <1>2, <1>7 DEF Handled
  <2>2. ASSUME NEW g \in Endpoint
        PROVE  Origin(g)' = Origin(g) /\ \A x \in Timely(g)' : x \in Timely(g)
    <3>1. CASE g = e
      BY <1>2, <1>3, <2>1, <3>1 DEF Origin
    <3>2. CASE g = f
      BY <1>2, <1>3, <2>1, <3>2 DEF Origin, rest, wire
    <3> QED
      BY <1>1, <3>1, <3>2
  <2> HIDE DEF f
  <2> QED
    BY <2>1, <2>2, SurvivorKept
<1>8. CASE ~(d.epoch \in Range(session[e].retired))
  <2>1. PICK s, t :
           /\ HeardAs(s, session[e], d.epoch) /\ AppliedAs(t, s, d)
           /\ session' = [session EXCEPT ![e] = t]
           /\ delivered' = delivered \cup Range(Taken(s, d))
    BY <1>2, <1>8 DEF Handled
  <2>2. d \in wire
    BY <1>2, <1>8 DEF Handled, wire
  <2>3. ASSUME NEW x \in rest, Carrying(d), Carrying(x)
        PROVE  OriginOf(d) <= OriginOf(x)
    <3>1. (Former(x.heard, mine) => Former(d.heard, mine)) /\ x \in wire
      BY <1>3, <1>8
    <3> QED
      BY <1>6, <2>2, <2>3, <3>1 DEF Ordered
  <2>4. f = Peer(e) /\ wire = Timely(f) /\ rest = Timely(f)'
    BY DEF wire, rest
  <2> HIDE DEF f
  <2>5. /\ session'[e] = t /\ session'[f] = session[f] /\ Origin(f)' = Origin(f)
        /\ t.epoch = session[e].epoch
    <3>1. session'[e] = t /\ session'[f] = session[f]
      BY <1>1, <1>2, <2>1
    <3>2. t.epoch = session[e].epoch
      BY <1>5, <2>1, HandledNumbers
    <3> QED
      BY <1>2, <3>1, <3>2 DEF Origin
  <2>6. SurvivorAt(f)'
    <3>1. ASSUME session[f].epoch = 1
          PROVE  Survives(delivered', f, Origin(f)', session'[f].messages.assumed,
                          session'[f].peer_epoch, session'[e].epoch,
                          session'[e].messages.received_num, Timely(f)', Timely(e)')
      <4>1. Survives(delivered \cup Range(Taken(s, d)), f, Origin(f),
                     session[f].messages.assumed, session[f].peer_epoch,
                     session[e].epoch, t.messages.received_num, rest, Timely(e))
        BY <1>3, <2>1, <2>2, <2>3, <2>4, <3>1, SurvivorGives
      <4> QED
        BY <1>3, <2>1, <2>4, <2>5, <4>1
    <3>2. Peer(f)' = e
      BY <1>1
    <3> QED
      BY <2>5, <3>1, <3>2 DEF SurvivorAt
  <2>7. SurvivorAt(e)'
    <3>1. ASSUME session[e].epoch = 1
          PROVE  Survives(delivered', e, Origin(e)', session'[e].messages.assumed,
                          session'[e].peer_epoch, session'[f].epoch,
                          session'[f].messages.received_num, Timely(e)', Timely(f)')
      <4>1. delivered \subseteq delivered' /\ rest \subseteq Timely(f) /\ d \in Timely(f)
        BY <1>3, <2>1, <2>2, <2>4
      <4>2. Survives(delivered', e, Origin(e)', t.messages.assumed, t.peer_epoch,
                     session[f].epoch, session[f].messages.received_num, Timely(e), rest)
        BY <1>2, <2>1, <2>4, <3>1, <4>1, SurvivorLearns
      <4> QED
        BY <1>3, <2>4, <2>5, <4>2
    <3>2. Peer(e)' = f
      BY <1>1 DEF f
    <3> QED
      BY <2>5, <3>1, <3>2 DEF SurvivorAt
  <2> QED
    BY <1>1, <2>6, <2>7 DEF SurvivorWhole
<1> QED
  BY <1>7, <1>8

LEMMA SurvivorRestart ==
    ASSUME Whole, SurvivorWhole, NEW e \in Endpoint, Restart(e)
    PROVE  SurvivorWhole'
<1> DEFINE f == Peer(e)
           later == session[e].epoch + 1
           t == NewSession(later)
<1>1. /\ f \in Endpoint /\ f # e /\ Peer(f) = e /\ \A g \in Endpoint : g = e \/ g = f
      /\ \A g \in Endpoint : Peer(g)' = Peer(g)
  BY Peers DEF Peer
<1>2. /\ session' = [session EXCEPT ![e] = t]
      /\ queued' = [queued EXCEPT ![e] = 0] /\ delivered' = delivered
      /\ session \in [Endpoint -> SessionSet] /\ queued \in [Endpoint -> Nat]
  BY DEF Restart, Whole
<1>3. /\ session[e].epoch \in Nat /\ session[e].epoch # NoEpoch
      /\ session[f].peer_epoch <= session[e].epoch
      /\ session[f].peer_epoch \in Nat /\ Origin(f) \in Nat
      /\ session[f].messages.assumed \in Nat
  BY <1>1, EndFacts
<1>4. later \in Nat /\ later # 1 /\ session[f].peer_epoch < later
  BY <1>3 DEF NoEpoch
<1>5. t.epoch = later /\ t.messages.received_num = 0
  BY <1>3, SoundNew
<1> HIDE DEF t, later, f
<1>6. /\ session'[e] = t /\ session'[f] = session[f] /\ Origin(f)' = Origin(f)
      /\ \A g \in Endpoint : Timely(g)' = {}
  <2>1. session'[e] = t /\ session'[f] = session[f] /\ queued'[f] = queued[f]
    BY <1>1, <1>2
  <2>2. \A g \in Endpoint : Timely(g)' = {}
    BY TimelyRestart
  <2> QED
    BY <2>1, <2>2 DEF Origin
<1>7. SurvivorAt(e)'
  BY <1>4, <1>5, <1>6 DEF SurvivorAt
<1>8. SurvivorAt(f)'
  <2>1. ASSUME session[f].epoch = 1
        PROVE  Survives(delivered', f, Origin(f)', session'[f].messages.assumed,
                        session'[f].peer_epoch, session'[e].epoch,
                        session'[e].messages.received_num, Timely(f)', Timely(e)')
    <3>1. Survives(delivered, f, Origin(f), session[f].messages.assumed, session[f].peer_epoch,
                   session[e].epoch, session[e].messages.received_num, Timely(f), Timely(e))
      BY <1>1, <2>1 DEF SurvivorWhole, SurvivorAt
    <3>2. Survives(delivered, f, Origin(f), session[f].messages.assumed, session[f].peer_epoch,
                   later, 0, {}, {})
      BY <1>3, <1>4, <3>1, SurvivesRestart
    <3> QED
      BY <1>1, <1>2, <1>5, <1>6, <3>2
  <2>2. Peer(f)' = e
    BY <1>1
  <2> QED
    BY <1>6, <2>1, <2>2 DEF SurvivorAt
<1> QED
  BY <1>1, <1>7, <1>8 DEF SurvivorWhole

LEMMA InitSurvivor ==
    ASSUME Init
    PROVE  SurvivorWhole
<1>1. ASSUME NEW e \in Endpoint
      PROVE  /\ session[e].epoch = 1 /\ session[e].peer_epoch = NoEpoch
             /\ session[e].messages.assumed = 0 /\ session[e].messages.received_num = 0
             /\ Origin(e) = 0 /\ Timely(e) = {}
  <2>1. session[e] = NewSession(1) /\ queued[e] = 0 /\ net[e] = <<>>
    BY DEF Init
  <2>2. /\ NewSession(1).epoch = 1 /\ NewSession(1).peer_epoch = NoEpoch
        /\ NewSession(1).messages.current_num = 0
        /\ NewSession(1).messages.assumed = 0
        /\ NewSession(1).messages.received_num = 0
    BY SoundNew
  <2>3. Timely(e) = {}
    BY <2>1, WireEmpty, TimelyIs
  <2> QED
    BY <2>1, <2>2, <2>3 DEF Origin
<1>2. ASSUME NEW e \in Endpoint
      PROVE  SurvivorAt(e)
  <2>1. Peer(e) \in Endpoint
    BY Peers
  <2>2. UpTo(delivered, e, 0 + 0)
    BY DEF UpTo
  <2>3. Survives(delivered, e, 0, 0, NoEpoch, 1, 0, {}, {})
    BY <2>2 DEF Survives, NoEpoch
  <2> QED
    BY <1>1, <2>1, <2>3 DEF SurvivorAt
<1> QED
  BY <1>2 DEF SurvivorWhole

LEMMA SurvivorNext ==
    ASSUME Whole, OrderWhole, SurvivorWhole, [Next]_vars, ~disordered'
    PROVE  SurvivorWhole'
<1>1. CASE UNCHANGED vars
  <2>1. /\ session' = session /\ delivered' = delivered
        /\ \A e \in Endpoint : Origin(e)' = Origin(e)
    BY <1>1 DEF vars, Origin
  <2>2. \A e \in Endpoint : Timely(e)' = Timely(e)
    BY <1>1, TimelySame DEF vars
  <2> QED
    BY <2>1, <2>2, SurvivorKept
<1>2. CASE SetScreen
  BY <1>2, SurvivorSetScreen
<1>3. ASSUME NEW e \in Endpoint, QueueMessage(e)
      PROVE  SurvivorWhole'
  BY <1>3, SurvivorQueueMessage
<1>4. ASSUME NEW e \in Endpoint, NEW cs \in SUBSET {Messages, Screen}, Outgoing(e, cs)
      PROVE  SurvivorWhole'
  BY <1>4, SurvivorOutgoing
<1>5. ASSUME NEW e \in Endpoint, NEW c \in {Messages, Screen}, OutgoingFails(e, c)
      PROVE  SurvivorWhole'
  BY <1>5, SurvivorOutgoingFails
<1>6. ASSUME NEW e \in Endpoint, NEW i \in DOMAIN net[Peer(e)], Receive(e, i)
      PROVE  SurvivorWhole'
  BY <1>6, SurvivorReceive
<1>7. ASSUME NEW e \in Endpoint, Restart(e)
      PROVE  SurvivorWhole'
  BY <1>7, SurvivorRestart
<1> QED
  BY <1>1, <1>2, <1>3, <1>4, <1>5, <1>6, <1>7 DEF Next

(* What was assumed received was taken, and the rest is still queued. *)
LEMMA SurvivorKeeps ==
    ASSUME Whole, SurvivorWhole
    PROVE  SurvivorLosesNothing
<1>1. ASSUME NEW e \in Endpoint, session[e].epoch = 1, NEW n \in 1..queued[e]
      PROVE  Kept(e, n)
  <2> DEFINE c == session[e].messages
             first == Origin(e) + c.assumed
             last == Origin(e) + c.current_num
             m == last - first
  <2>1. /\ c \in MessageChannel /\ c.current_num \in Nat /\ c.assumed \in Nat
        /\ c.assumed <= c.current_num /\ Origin(e) \in Nat
        /\ Origin(e) + c.current_num = queued[e] /\ queued[e] \in Nat
    BY EndFacts
  <2>2. Chained(c, e, 1, Origin(e))
    <3>1. Sound(session[e], e, queued[e])
      BY EndFacts
    <3> QED
      BY <1>1, <3>1 DEF Sound, Origin
  <2>3. UpTo(delivered, e, first)
    BY <1>1 DEF SurvivorWhole, SurvivorAt, Survives
  <2>4. c.current.messages = Between(e, 1, first, last)
    <3>1. c.current = QueueAt(e, 1, Origin(e), c.assumed, c.current_num)
      <4> HIDE DEF c
      <4> QED
        BY <2>1, <2>2, ChainedFacts
    <3> QED
      BY <3>1 DEF QueueAt
  <2>5. first \in Int /\ last \in Int /\ first <= last /\ m \in Nat /\ n \in 1..last
    BY <2>1
  <2>6. MessageOf(e, n) = [by |-> e, life |-> 1, n |-> n]
    BY <1>1 DEF MessageOf
  <2> HIDE DEF c, first, last, m
  <2>7. CASE n <= first
    <3>1. n \in 1..first
      BY <2>5, <2>7
    <3> QED
      BY <2>3, <2>6, <3>1 DEF Kept, UpTo
  <2>8. CASE ~(n <= first)
    <3> DEFINE j == n - first
    <3>1. j \in 1..m /\ first + j = n
      BY <2>5, <2>8 DEF m
    <3> HIDE DEF j
    <3>2. /\ Between(e, 1, first, last) \in Seq(Of(e, 1))
          /\ Len(Between(e, 1, first, last)) = m
          /\ \A l \in 1..m : Between(e, 1, first, last)[l] = [by |-> e, life |-> 1, n |-> first + l]
      BY <2>5, BetweenFacts DEF m
    <3>3. c.current.messages[j] = MessageOf(e, n)
      BY <2>4, <2>6, <3>1, <3>2
    <3>4. c.current.messages[j] \in Range(c.current.messages)
      BY <2>4, <3>1, <3>2, RangeFacts
    <3> QED
      BY <3>3, <3>4 DEF Kept, c
  <2> QED
    BY <2>7, <2>8
<1> QED
  BY <1>1 DEF SurvivorLosesNothing

(* Whatever the network loses, repeats and reorders, an endpoint that has  *)
(* not restarted loses nothing, however often its peer does: each message  *)
(* it queued is still in its queue, or some life of the peer took it       *)
(* (Channel::reset_peer), as long as neither took a datagram of a          *)
(* numbering whose end it has seen.                                        *)
THEOREM NothingLostBySurvivor == Spec => []SurvivorLosesNothing
<1>1. Init => Whole /\ OrderWhole /\ SurvivorWhole
  BY InitWhole, InitOrder, InitSurvivor
<1>2. Whole /\ (disordered \/ (OrderWhole /\ SurvivorWhole)) /\ [Next]_vars
         => Whole' /\ (disordered' \/ (OrderWhole' /\ SurvivorWhole'))
  BY WholeNext, OrderNext, SurvivorNext, DisorderedStays
<1>3. Whole /\ (disordered \/ (OrderWhole /\ SurvivorWhole)) => SurvivorLosesNothing
  BY SurvivorKeeps DEF SurvivorLosesNothing
<1> QED
  BY <1>1, <1>2, <1>3, PTL DEF Spec

-----------------------------------------------------------------------------
(* What the owner holds of the host's screen.  The grids of channel 1 have *)
(* numbers, which start again with each life of the host and when it hears *)
(* of another life of the owner (Channel::reset_peer): `st` below is that  *)
(* numbering.                                                              *)

(* A grid of no frame yet, or the first rows of one that a life of the     *)
(* host set among its first n grids.                                       *)
IsPart(g, life, n) ==
    g = EmptyGrid \/ \E k \in 1..n : IsPrefix(g, GridOf(life, k))

LEMMA PartMore ==
    ASSUME NEW g, NEW life, NEW n \in Int, IsPart(g, life, n), NEW m \in Int, n <= m
    PROVE  IsPart(g, life, m)
<1>1. \A k \in 1..n : k \in 1..m
  OBVIOUS
<1> QED
  BY <1>1 DEF IsPart

LEMMA PrefixSelf ==
    ASSUME NEW g \in Grid
    PROVE  IsPrefix(g, g)
BY DEF IsPrefix, Grid

LEMMA PartWhole ==
    ASSUME NEW life \in Nat, NEW n \in Nat \ {0}
    PROVE  IsPart(GridOf(life, n), life, n)
<1>1. GridOf(life, n) \in Grid /\ n \in 1..n
  BY GridOfRows
<1> QED
  BY <1>1, PrefixSelf DEF IsPart

(* The first rows of the first rows. *)
LEMMA PrefixOfPrefix ==
    ASSUME NEW g \in Grid, NEW t \in Grid, IsPrefix(g, t), NEW i \in 1..Len(g)
    PROVE  IsPrefix(SubSeq(g, 1, i), t)
<1> DEFINE s == SubSeq(g, 1, i)
           u == SubSeq(t, 1, i)
           n == Len(g)
<1>1. /\ n \in Nat /\ Len(t) \in Nat /\ n <= Len(t)
      /\ g \in Seq(RowSet) /\ t \in Seq(RowSet)
      /\ SubSeq(g, 1, n) = SubSeq(t, 1, n)
  BY DEF IsPrefix, Grid
<1>2. \A j \in 1..n : g[j] = t[j]
  <2> TAKE j \in 1..n
  <2>1. SubSeq(g, 1, n)[j] = g[j] /\ SubSeq(t, 1, n)[j] = t[j]
    BY <1>1
  <2> QED
    BY <1>1, <2>1
<1>3. s \in Seq(RowSet) /\ Len(s) = i /\ \A j \in 1..i : s[j] = g[j]
  BY <1>1
<1>4. u \in Seq(RowSet) /\ Len(u) = i /\ \A j \in 1..i : u[j] = t[j]
  BY <1>1
<1> HIDE DEF s, u
<1>5. SubSeq(s, 1, i) = s
  BY <1>3
<1>6. s = u
  <2>1. \A j \in 1..i : j \in 1..n
    BY <1>1
  <2>2. \A j \in 1..i : s[j] = u[j]
    BY <1>2, <1>3, <1>4, <2>1
  <2>3. s = [j \in 1..i |-> s[j]] /\ u = [j \in 1..i |-> u[j]]
    BY ONLY <1>3, <1>4
  <2> QED
    BY ONLY <2>2, <2>3
<1>7. i <= Len(t)
  BY <1>1
<1> QED
  BY <1>3, <1>5, <1>6, <1>7 DEF IsPrefix, s, u

LEMMA PartPrefix ==
    ASSUME NEW g \in Grid, NEW life \in Nat, NEW n \in Int, IsPart(g, life, n),
           NEW i \in 1..Len(g)
    PROVE  IsPart(SubSeq(g, 1, i), life, n)
<1>1. CASE g = EmptyGrid
  <2>1. 1..Len(g) = {}
    BY <1>1 DEF EmptyGrid
  <2> QED
    BY <2>1
<1>2. CASE g # EmptyGrid
  <2>1. PICK k \in 1..n : IsPrefix(g, GridOf(life, k))
    BY <1>2 DEF IsPart
  <2>2. GridOf(life, k) \in Grid
    BY GridOfRows
  <2> QED
    BY <2>1, <2>2, PrefixOfPrefix DEF IsPart
<1> QED
  BY <1>1, <1>2

(* RowGrid::apply_diff undoes diff_from. *)
LEMMA ApplyUndoes ==
    ASSUME NEW t \in Grid, NEW g \in Grid
    PROVE  GridApply(g, GridDiff(t, g)) = t
<1> DEFINE diff == GridDiff(t, g)
<1>1. Len(t) \in Nat /\ t = [i \in 1..Len(t) |-> t[i]] /\ DOMAIN t = 1..Len(t)
  BY DEF Grid
<1>2. /\ diff.rows = Len(t) /\ DOMAIN diff.updates = ChangedRows(t, g)
      /\ \A i \in ChangedRows(t, g) : diff.updates[i] = t[i]
  BY DEF GridDiff
<1> HIDE DEF diff
<1>3. ASSUME NEW i \in 1..Len(t)
      PROVE  (IF i \in DOMAIN diff.updates THEN diff.updates[i]
              ELSE IF i \in DOMAIN g THEN g[i] ELSE BlankRow) = t[i]
  BY <1>1, <1>2 DEF ChangedRows
<1>4. GridApply(g, diff) = [i \in 1..Len(t) |-> t[i]]
  BY <1>2, <1>3 DEF GridApply
<1> QED
  BY <1>1, <1>4 DEF diff

(* A numbering of the grids of channel 1: the history names those from the *)
(* assumed one on, each is part of a frame that this life of the host set. *)
GridsAt(c, st, life, n) ==
    /\ c.assumed <= c.current_num /\ Len(c.sent_states) = c.current_num - c.assumed + 1
    /\ \A i \in 1..Len(c.sent_states) :
          /\ c.sent_states[i].num = c.assumed + i - 1
          /\ c.sent_states[i].state = st[c.assumed + i - 1]
    /\ st[0] = EmptyGrid
    /\ \A k \in 0..c.current_num : IsPart(st[k], life, n)

LEMMA GridsNew ==
    ASSUME NEW life
    PROVE  GridsAt(S!New(EmptyGrid), [k \in Nat |-> EmptyGrid], life, 0)
<1> DEFINE c == S!New(EmptyGrid)
           link == [num |-> 0, state |-> EmptyGrid]
<1>1. c.assumed = 0 /\ c.current_num = 0 /\ c.sent_states = <<link>>
  BY DEF S!New
<1>2. link.num = 0 /\ link.state = EmptyGrid
  OBVIOUS
<1> HIDE DEF link, c
<1>3. Len(<<link>>) = 1 /\ \A i \in 1..1 : i = 1 /\ <<link>>[i] = link
  OBVIOUS
<1> QED
  BY <1>1, <1>2, <1>3 DEF GridsAt, IsPart, c

(* more is st with g at num. *)
Longer(more, st, num, g) ==
    /\ more \in [Nat -> Grid] /\ more[num] = g
    /\ \A k \in Nat : k # num => more[k] = st[k]

(* Session::set_screen. *)
LEMMA GridsAdvance ==
    ASSUME NEW c \in ScreenChannel, NEW st \in [Nat -> Grid], NEW life \in Nat, NEW n \in Nat,
           GridsAt(c, st, life, n), NEW m \in Nat, m = n + 1, NEW g, g = GridOf(life, m),
           NEW num \in Nat, num = c.current_num + 1, NEW more, Longer(more, st, num, g),
           NEW d, d = S!Advance(c, g)
    PROVE  /\ GridsAt(d, more, life, m) /\ d.current_num = num
           /\ \A k \in 0..c.current_num : more[k] = st[k]
<1> DEFINE link == [num |-> num, state |-> g]
           states == c.sent_states
           all == Append(states, link)
           len == Len(states)
<1>1. /\ c.current_num \in Nat /\ c.assumed \in Nat
      /\ states \in Seq(Entry(Grid)) /\ len \in Nat
  BY ScreenFields
<1>2. c.assumed <= c.current_num /\ len = num - c.assumed /\ c.assumed + len = num
  BY <1>1 DEF GridsAt
<1>3. g \in Grid
  BY GridOfRows
<1>4. d.assumed = c.assumed /\ d.current_num = num /\ d.sent_states = all
  BY DEF S!Advance, ScreenChannel, ChannelSet
<1>5. link \in Entry(Grid) /\ link.num = num /\ link.state = g
  BY <1>1, <1>3 DEF Entry
<1>6. /\ more \in [Nat -> Grid] /\ more[num] = g
      /\ \A k \in Nat : k # num => more[k] = st[k]
  BY DEF Longer
<1> HIDE DEF link
<1>7. /\ Len(all) = len + 1 /\ all[len + 1] = link
      /\ \A i \in 1..len : all[i] = states[i]
  BY <1>1, <1>5
<1> HIDE DEF all, len, states
<1>8. ASSUME NEW i \in 1..Len(all)
      PROVE  all[i].num = c.assumed + i - 1 /\ all[i].state = more[c.assumed + i - 1]
  <2>1. CASE i = len + 1
    <3>1. c.assumed + i - 1 = num
      BY <1>1, <1>2, <2>1
    <3> QED
      BY <1>5, <1>6, <1>7, <2>1, <3>1
  <2>2. CASE i # len + 1
    <3>1. i \in 1..len /\ c.assumed + i - 1 \in Nat /\ c.assumed + i - 1 # num
      <4>1. i \in 1..(len + 1) /\ i # len + 1 /\ len \in Nat /\ c.assumed \in Nat
            /\ c.assumed + len = num
        BY <1>1, <1>2, <1>7, <2>2
      <4> QED
        BY ONLY <4>1
    <3>2. states[i].num = c.assumed + i - 1 /\ states[i].state = st[c.assumed + i - 1]
      BY <3>1 DEF GridsAt, len, states
    <3> QED
      BY <1>6, <1>7, <3>1, <3>2
  <2> QED
    BY <2>1, <2>2
<1>9. ASSUME NEW k \in 0..num
      PROVE  IsPart(more[k], life, m)
  <2>1. CASE k = num
    BY <1>6, <2>1, PartWhole
  <2>2. CASE k # num
    <3>1. k \in 0..c.current_num /\ more[k] = st[k]
      BY <1>1, <1>6, <2>2
    <3>2. IsPart(st[k], life, n)
      BY <3>1 DEF GridsAt
    <3> QED
      BY <3>1, <3>2, PartMore
  <2> QED
    BY <2>1, <2>2
<1>10. more[0] = EmptyGrid
  BY <1>1, <1>6 DEF GridsAt
<1>11. c.assumed <= num /\ Len(all) = num - c.assumed + 1
  BY <1>1, <1>2, <1>7
<1>12. GridsAt(d, more, life, m)
  BY <1>4, <1>8, <1>9, <1>10, <1>11 DEF GridsAt
<1>13. \A k \in 0..c.current_num : more[k] = st[k]
  BY <1>1, <1>6
<1> QED
  BY <1>4, <1>6, <1>12, <1>13

(* Only the history and what is assumed matter. *)
LEMMA GridsSame ==
    ASSUME NEW c, NEW d, NEW st, NEW life, NEW n, GridsAt(c, st, life, n),
           d.assumed = c.assumed, d.current_num = c.current_num, d.sent_states = c.sent_states
    PROVE  GridsAt(d, st, life, n)
BY DEF GridsAt

(* Channel::acknowledge. *)
LEMMA GridsAcknowledge ==
    ASSUME NEW c \in ScreenChannel, NEW st, NEW life, NEW n, GridsAt(c, st, life, n),
           NEW ack \in Nat
    PROVE  /\ S!Acknowledge(c, ack) \in ScreenChannel
           /\ GridsAt(S!Acknowledge(c, ack), st, life, n)
           /\ S!Acknowledge(c, ack).current_num = c.current_num
<1> DEFINE b == S!Acknowledge(c, ack)
           states == c.sent_states
           len == Len(states)
<1>1. /\ c.current_num \in Nat /\ c.assumed \in Nat
      /\ states \in Seq(Entry(Grid)) /\ len \in Nat /\ DOMAIN states = 1..len
      /\ c.assumed <= c.current_num /\ len = c.current_num - c.assumed + 1
      /\ \A i \in 1..len : /\ states[i].num = c.assumed + i - 1
                           /\ states[i].state = st[c.assumed + i - 1]
  BY ScreenFields DEF GridsAt
<1>2. CASE \/ ack <= c.assumed
           \/ \A i \in DOMAIN states : states[i].num # ack
  BY <1>2 DEF S!Acknowledge
<1>3. CASE ~(\/ ack <= c.assumed
             \/ \A i \in DOMAIN states : states[i].num # ack)
  <2>1. b = [c EXCEPT !.assumed = ack, !.sent_states = S!DropBefore(states, ack)]
    BY <1>3 DEF S!Acknowledge
  <2>2. PICK i \in 1..len : states[i].num = ack
    BY <1>1, <1>3
  <2>3. PICK k \in 1..len :
           IsFront(states, ack, k) /\ S!DropBefore(states, ack) = SubSeq(states, k, len)
    BY <1>1, <2>2, DropIsSuffix
  <2> HIDE DEF states, b, len
  <2>4. c.assumed + i - 1 = ack
    BY <1>1, <2>2
  <2>5. k = i
    <3>1. c.assumed + k - 1 >= ack
      BY <1>1, <2>3 DEF IsFront
    <3>2. ASSUME NEW j \in 1..(k - 1)
          PROVE  c.assumed + j - 1 < ack
      <4>1. j \in 1..len
        BY <1>1
      <4>2. states[j].num < ack
        BY <2>3 DEF IsFront
      <4> QED
        BY <1>1, <4>1, <4>2
    <3>3. ~(i < k)
      BY <1>1, <2>4, <3>2
    <3> QED
      BY <1>1, <2>4, <3>1, <3>3
  <2> DEFINE rest == SubSeq(states, k, len)
  <2>6. /\ rest \in Seq(Entry(Grid)) /\ Len(rest) = len - k + 1
        /\ \A j \in 1..Len(rest) : rest[j] = states[k + j - 1] /\ k + j - 1 \in 1..len
    <3>1. states \in Seq(Entry(Grid)) /\ len = Len(states) /\ len \in Nat /\ k \in 1..len
      BY <1>1 DEF len
    <3>2. rest \in Seq(Entry(Grid)) /\ Len(rest) = len - k + 1
      BY ONLY <3>1
    <3>3. \A j \in 1..Len(rest) : rest[j] = states[k + j - 1]
      BY ONLY <3>1
    <3>4. \A j \in 1..Len(rest) : k + j - 1 \in 1..len
      BY <3>1, <3>2
    <3> QED
      BY <3>2, <3>3, <3>4
  <2> HIDE DEF rest
  <2>7. b = [c EXCEPT !.assumed = ack, !.sent_states = rest]
    BY <2>1, <2>3 DEF rest
  <2>8. rest \in Seq([num : Nat, state : Grid])
    BY <2>6 DEF Entry
  <2>9. b \in ScreenChannel
    BY <2>7, <2>8 DEF ScreenChannel, ChannelSet
  <2>10. b.assumed = ack /\ b.current_num = c.current_num /\ b.sent_states = rest
    BY <2>7 DEF ScreenChannel, ChannelSet
  <2>11. ASSUME NEW j \in 1..Len(rest)
         PROVE  rest[j].num = ack + j - 1 /\ rest[j].state = st[ack + j - 1]
    <3> DEFINE l == k + j - 1
    <3>1. l \in 1..len /\ rest[j] = states[l]
      BY <2>6
    <3>2. c.assumed + l - 1 = ack + j - 1
      <4>1. j \in Int /\ c.assumed \in Int /\ k \in Int /\ c.assumed + k - 1 = ack
        BY <1>1, <2>4, <2>5
      <4> QED
        BY ONLY <4>1
    <3> HIDE DEF l
    <3> QED
      BY <1>1, <3>1, <3>2
  <2>12. ack <= c.current_num /\ Len(rest) = c.current_num - ack + 1
    BY SMTT(30), <1>1, <2>4, <2>5, <2>6
  <2>13. GridsAt(b, st, life, n)
    BY <2>10, <2>11, <2>12 DEF GridsAt
  <2> QED
    BY <2>9, <2>10, <2>13 DEF b
<1> QED
  BY <1>2, <1>3

(* Channel::apply leaves the numbering as it is. *)
LEMMA GridsApply ==
    ASSUME NEW c \in ScreenChannel, NEW st, NEW life, NEW n, GridsAt(c, st, life, n),
           NEW ins, ins.ack \in Nat
    PROVE  /\ GridsAt(S!Apply(c, ins), st, life, n)
           /\ S!Apply(c, ins).current_num = c.current_num
<1> DEFINE b == S!Acknowledge(c, ins.ack)
           a == S!Acknowledged(c, ins)
           d == S!Apply(c, ins)
<1>1. /\ b \in ScreenChannel /\ GridsAt(b, st, life, n) /\ b.current_num = c.current_num
  BY GridsAcknowledge
<1>2. a = [b EXCEPT !.current = b.current]
  BY DEF S!Acknowledged, GridRelease
<1> HIDE DEF b
<1>3. a = b
  BY <1>1, <1>2 DEF ScreenChannel, ChannelSet
<1>4. d = a \/ \E g : d = [a EXCEPT !.received = g, !.received_num = ins.new]
  BY DEF S!Apply
<1> HIDE DEF a, d
<1>5. d.assumed = b.assumed /\ d.current_num = b.current_num /\ d.sent_states = b.sent_states
  BY <1>1, <1>3, <1>4 DEF ScreenChannel, ChannelSet
<1>6. GridsAt(d, st, life, n)
  BY <1>1, <1>5, GridsSame
<1> QED
  BY <1>1, <1>5, <1>6 DEF d

(* The present grid is the last of them. *)
LEMMA GridsCurrent ==
    ASSUME NEW c \in ScreenChannel, StepsFit(c), NEW st, NEW life, NEW n, GridsAt(c, st, life, n)
    PROVE  /\ c.current_num \in Nat /\ c.assumed \in Nat /\ Len(c.sent_states) \in Nat
           /\ c.current = st[c.current_num] /\ c.sent_states[1].state = st[c.assumed]
           /\ IsPart(c.current, life, n)
<1> DEFINE len == Len(c.sent_states)
<1>1. /\ c.current_num \in Nat /\ c.assumed \in Nat /\ len \in Nat /\ len > 0
      /\ c.current = c.sent_states[len].state
  BY ScreenFields, FitsFacts
<1>2. len = c.current_num - c.assumed + 1
  BY DEF GridsAt
<1>3. 1 \in 1..len /\ len \in 1..len /\ c.assumed + 1 - 1 = c.assumed
      /\ c.assumed + len - 1 = c.current_num
  BY <1>1, <1>2
<1>4. \A i \in 1..len : c.sent_states[i].state = st[c.assumed + i - 1]
  BY DEF GridsAt
<1> HIDE DEF len
<1>5. c.current = st[c.current_num] /\ c.sent_states[1].state = st[c.assumed]
  <2>1. c.sent_states[len].state = st[c.assumed + len - 1]
    BY <1>3, <1>4
  <2>2. c.sent_states[1].state = st[c.assumed + 1 - 1]
    BY <1>3, <1>4
  <2> QED
    BY <1>1, <1>3, <2>1, <2>2
<1>6. IsPart(st[c.current_num], life, n)
  <2>1. c.current_num \in 0..c.current_num
    BY <1>1
  <2> QED
    BY <2>1 DEF GridsAt
<1> QED
  BY <1>1, <1>5, <1>6 DEF len

(* Channel::reset_peer numbers the rows of the present grid anew. *)
LEMMA GridsReset ==
    ASSUME NEW c \in ScreenChannel, StepsFit(c), NEW st, NEW life \in Nat, NEW n \in Nat,
           GridsAt(c, st, life, n)
    PROVE  \E more \in [Nat -> Grid] : GridsAt(ResetScreen(c), more, life, n)
<1> DEFINE g == c.current
           d == ResetScreen(c)
           steps == IF g = EmptyGrid THEN <<EmptyGrid>> ELSE RebaseSteps(g)
           m == Len(steps)
           more == [k \in Nat |-> IF k \in 1..m THEN steps[k] ELSE EmptyGrid]
           base == [num |-> 0, state |-> EmptyGrid]
<1>1. g \in Grid /\ IsPart(g, life, n) /\ IsRebased(d, g) /\ EmptyGrid \in Grid
  BY ScreenFields, GridsCurrent, ResetFits, NewFits
<1>2. steps \in Seq(Grid) /\ m \in Nat
  BY <1>1, Steps
<1>3. \A k \in 1..m : IsPart(steps[k], life, n)
  <2>1. CASE g = EmptyGrid
    <3>1. steps = <<EmptyGrid>>
      BY <2>1
    <3>2. \A k \in 1..m : steps[k] = EmptyGrid
      BY <3>1
    <3> QED
      BY <3>2 DEF IsPart
  <2>2. CASE g # EmptyGrid
    <3>1. steps = [i \in 1..Len(g) |-> SubSeq(g, 1, i)] /\ Len(g) \in Nat
      BY <1>1, <2>2 DEF RebaseSteps, Grid
    <3> HIDE DEF g, steps
    <3>2. m = Len(g)
      BY <3>1
    <3> HIDE DEF m
    <3>3. ASSUME NEW k \in 1..m
          PROVE  IsPart(steps[k], life, n)
      <4>1. IsPart(SubSeq(g, 1, k), life, n)
        BY <1>1, <3>2, PartPrefix
      <4> QED
        BY <3>1, <3>2, <4>1
    <3> QED
      BY <3>3
  <2> QED
    BY <2>1, <2>2
<1>4. /\ d.assumed = 0 /\ d.current_num = m /\ Len(d.sent_states) = m + 1
      /\ d.sent_states[1] = base /\ base.num = 0 /\ base.state = EmptyGrid
      /\ \A i \in 1..m : d.sent_states[i + 1] = [num |-> i, state |-> steps[i]]
  BY <1>1 DEF IsRebased
<1> HIDE DEF g, steps, d, base, m
<1>5. more \in [Nat -> Grid]
  <2>1. \A k \in 1..m : steps[k] \in Grid
    BY <1>2 DEF m
  <2> QED
    BY <1>1, <2>1
<1>6. more[0] = EmptyGrid /\ \A k \in 1..m : more[k] = steps[k]
  BY <1>2
<1> HIDE DEF more
<1>7. ASSUME NEW i \in 1..(m + 1)
      PROVE  d.sent_states[i].num = 0 + i - 1 /\ d.sent_states[i].state = more[0 + i - 1]
  <2>1. CASE i = 1
    <3>1. 0 + i - 1 = 0
      BY <2>1
    <3> QED
      BY <1>4, <1>6, <2>1, <3>1
  <2>2. CASE i # 1
    <3> DEFINE k == i - 1
    <3>1. k \in 1..m /\ k + 1 = i /\ 0 + i - 1 = k
      BY <1>2, <2>2
    <3> HIDE DEF k
    <3>2. d.sent_states[i] = [num |-> k, state |-> steps[k]]
      BY <1>4, <3>1
    <3>3. d.sent_states[i].num = k /\ d.sent_states[i].state = steps[k]
      BY <3>2
    <3> QED
      BY <1>6, <3>1, <3>3
  <2> QED
    BY <2>1, <2>2
<1>8. ASSUME NEW k \in 0..m
      PROVE  IsPart(more[k], life, n)
  <2>1. CASE k = 0
    BY <1>6, <2>1 DEF IsPart
  <2>2. CASE k # 0
    <3>1. k \in 1..m
      BY <1>2, <2>2
    <3> QED
      BY <1>3, <1>6, <3>1
  <2> QED
    BY <2>1, <2>2
<1>9. 0 <= m /\ m - 0 + 1 = m + 1
  BY <1>2
<1>10. GridsAt(d, more, life, n)
  BY <1>4, <1>6, <1>7, <1>8, <1>9 DEF GridsAt
<1> QED
  BY <1>5, <1>10 DEF d

(* What Channel::instruction carries: the diff of two of the grids, from   *)
(* the assumed one.                                                        *)
LEMMA GridsInstruction ==
    ASSUME NEW c \in ScreenChannel, StepsFit(c), NEW st, NEW life, NEW n, GridsAt(c, st, life, n)
    PROVE  LET ins == S!Instruction(c)
           IN  /\ ins.old \in Nat /\ ins.new \in Nat
               /\ ins.old <= ins.new /\ ins.new <= c.current_num
               /\ ins.diff = GridDiff(st[ins.new], st[ins.old])
<1> DEFINE ins == S!Instruction(c)
           len == Len(c.sent_states)
<1>1. /\ c.current_num \in Nat /\ c.assumed \in Nat /\ len \in Nat
      /\ c.current = st[c.current_num] /\ c.sent_states[1].state = st[c.assumed]
      /\ c.assumed <= c.current_num /\ len = c.current_num - c.assumed + 1
      /\ \A i \in 1..len : /\ c.sent_states[i].num = c.assumed + i - 1
                           /\ c.sent_states[i].state = st[c.assumed + i - 1]
  BY GridsCurrent DEF GridsAt
<1> DEFINE Sends(num) == /\ num \in Nat /\ c.assumed <= num /\ num <= c.current_num
                         /\ ins = S!InstructionWith(c, num, S!DiffFromBase(c, st[num]))
<1>2. ASSUME S!WholeFits(c)
      PROVE  \E num : Sends(num)
  <2>1. ins = S!InstructionWith(c, c.current_num, S!DiffFromBase(c, c.current))
    BY <1>2 DEF S!Instruction
  <2> HIDE DEF ins
  <2>2. Sends(c.current_num)
    BY <1>1, <2>1
  <2> QED
    BY <2>2
<1>3. ASSUME ~S!WholeFits(c)
      PROVE  \E num : Sends(num)
  <2> DEFINE R == S!Reachable(c)
             furthest == CHOOSE i \in R : \A j \in R : j <= i
             num == c.assumed + furthest - 1
  <2>1. R # {}
    BY <1>3, ScreenSendable DEF S!HasInstruction
  <2>2. R \in SUBSET (2..len) /\ R \in SUBSET (0..len)
    BY <1>1 DEF S!Reachable
  <2> HIDE DEF R
  <2>3. \E i \in R : \A j \in R : j <= i
    BY <1>1, <2>1, <2>2, Greatest
  <2>4. furthest \in R
    BY <2>3, Zenon
  <2>5. ins = S!InstructionWith(c, c.sent_states[furthest].num,
                                S!DiffFromBase(c, c.sent_states[furthest].state))
    BY <1>3 DEF S!Instruction, R
  <2> HIDE DEF furthest, ins
  <2>6. furthest \in 2..len
    BY <2>2, <2>4
  <2> HIDE DEF len
  <2>7. furthest \in 1..len /\ num \in Nat /\ c.assumed <= num /\ num <= c.current_num
    BY <1>1, <2>6
  <2>8. c.sent_states[furthest].num = num /\ c.sent_states[furthest].state = st[num]
    BY <1>1, <2>7
  <2> HIDE DEF num
  <2>9. Sends(num)
    BY <2>5, <2>7, <2>8
  <2> QED
    BY <2>9
<1> HIDE DEF ins
<1>4. PICK num : Sends(num)
  BY <1>2, <1>3
<1>5. ins.old = c.assumed /\ ins.new = num /\ ins.diff = GridDiff(st[num], st[c.assumed])
  BY <1>1, <1>4 DEF S!InstructionWith, S!DiffFromBase
<1>6. /\ ins.old \in Nat /\ ins.new \in Nat
      /\ ins.old <= ins.new /\ ins.new <= c.current_num
  <2>1. c.assumed \in Nat /\ num \in Nat /\ c.assumed <= num /\ num <= c.current_num
    BY <1>1, <1>4
  <2> QED
    BY ONLY <1>5, <2>1
<1>7. ins.diff = GridDiff(st[ins.new], st[ins.old])
  BY ONLY <1>5
<1> QED
  BY <1>6, <1>7 DEF ins

(* What becomes of channel 1 when a datagram is heard, applied or built. *)
LEMMA ScreenHeard ==
    ASSUME NEW s \in SessionSet, NEW epoch
    PROVE  /\ Heard(s, epoch).epoch = s.epoch /\ Heard(s, epoch).peer_epoch = epoch
           /\ Heard(s, epoch).screen = IF s.peer_epoch \in {NoEpoch, epoch} THEN s.screen
                                       ELSE ResetScreen(s.screen)
BY DEF Heard, SessionSet

LEMMA ScreenApplied ==
    ASSUME NEW s \in SessionSet, NEW d
    PROVE  /\ Applied(s, d).epoch = s.epoch /\ Applied(s, d).peer_epoch = s.peer_epoch
           /\ Applied(s, d).screen = IF d.channel = Messages THEN s.screen
                                     ELSE S!Apply(s.screen, d.ins)
BY DEF Applied, SessionSet

LEMMA ScreenBuilt ==
    ASSUME NEW s \in SessionSet, NEW cs
    PROVE  LET c == Built(s, cs).screen
           IN  /\ c.assumed = s.screen.assumed /\ c.current_num = s.screen.current_num
               /\ c.sent_states = s.screen.sent_states
               /\ c.received = s.screen.received /\ c.received_num = s.screen.received_num
<1> DEFINE c == Built(s, cs).screen
<1>1. s.screen \in ScreenChannel
  BY SessionFields
<1>2. c = IF Screen \in cs THEN S!NoteSent(s.screen, S!Instruction(s.screen)) ELSE s.screen
  BY DEF Built, SessionSet
<1>3. c = s.screen \/ \E k : c = [s.screen EXCEPT !.sent_num = k]
  BY <1>2 DEF S!NoteSent
<1> HIDE DEF c
<1>4. /\ c.assumed = s.screen.assumed /\ c.current_num = s.screen.current_num
      /\ c.sent_states = s.screen.sent_states
      /\ c.received = s.screen.received /\ c.received_num = s.screen.received_num
  BY <1>1, <1>3 DEF ScreenChannel, ChannelSet
<1> QED
  BY <1>4 DEF c

(* What Channel::apply makes of what is held. *)
LEMMA ScreenTakes ==
    ASSUME NEW c \in ScreenChannel, StepsFit(c), NEW ins, ins.ack \in Nat
    PROVE  LET d == S!Apply(c, ins)
           IN  IF ins.old = c.received_num /\ GridAccepts(c.received, ins.diff)
                 THEN d.received = GridApply(c.received, ins.diff) /\ d.received_num = ins.new
                 ELSE d.received = c.received /\ d.received_num = c.received_num
<1> DEFINE b == S!Acknowledge(c, ins.ack)
           a == S!Acknowledged(c, ins)
           d == S!Apply(c, ins)
           g == GridApply(c.received, ins.diff)
<1>1. a \in ScreenChannel
  BY ScreenAcknowledged
<1>2. a.received = c.received /\ a.received_num = c.received_num
  <2>1. b = c \/ \E states : b = [c EXCEPT !.assumed = ins.ack, !.sent_states = states]
    BY DEF S!Acknowledge
  <2>2. a = [b EXCEPT !.current = b.current]
    BY DEF S!Acknowledged, GridRelease
  <2> HIDE DEF a, b
  <2>3. b.received = c.received /\ b.received_num = c.received_num
    BY <2>1 DEF ScreenChannel, ChannelSet
  <2>4. a.received = b.received /\ a.received_num = b.received_num
    BY <2>2
  <2> QED
    BY <2>3, <2>4
<1>3. d = IF ins.old = c.received_num /\ GridAccepts(c.received, ins.diff)
            THEN [a EXCEPT !.received = g, !.received_num = ins.new] ELSE a
  BY DEF S!Apply, S!Matches
<1> HIDE DEF a, d, g
<1>4. IF ins.old = c.received_num /\ GridAccepts(c.received, ins.diff)
        THEN d.received = g /\ d.received_num = ins.new
        ELSE d.received = c.received /\ d.received_num = c.received_num
  BY <1>1, <1>2, <1>3 DEF ScreenChannel, ChannelSet
<1> QED
  BY <1>4 DEF d, g

(* A datagram of channel 1, if of the present numbering, carries the diff  *)
(* of two of its grids, and otherwise nothing for who holds the empty one  *)
(* but what Crosses tells.                                                 *)
Numbered(d, st, num, life) ==
    d.channel = Screen =>
        /\ d.ins.new = 0 => d.ins.diff = GridDiff(EmptyGrid, EmptyGrid)
        /\ ~Former(d.heard, life) =>
              /\ d.ins.old \in 0..num /\ d.ins.new \in 0..num
              /\ d.ins.diff = GridDiff(st[d.ins.new], st[d.ins.old])

FormerFlying(wire, life) == \E d \in wire : Former(d.heard, life)

(* Of what the host has in flight. *)
NumberedWire(wire, st, num, heard, life) ==
    \A d \in wire :
        Numbered(d, st, num, life) /\ (Former(heard, life) => Former(d.heard, life))

LEMMA NumberedLess ==
    ASSUME NEW st, NEW num, NEW heard, NEW life, NEW all, NEW now, now \subseteq all,
           NumberedWire(all, st, num, heard, life)
    PROVE  /\ NumberedWire(now, st, num, heard, life)
           /\ FormerFlying(now, life) => FormerFlying(all, life)
BY DEF NumberedWire, FormerFlying

(* What is sent is of the present numbering. *)
LEMMA NumberedMore ==
    ASSUME NEW st, NEW num, NEW heard, NEW life, NEW flying, NEW T,
           NEW now, now \subseteq flying \cup T,
           NumberedWire(flying, st, num, heard, life),
           \A d \in T : Numbered(d, st, num, life) /\ d.heard = heard
    PROVE  /\ NumberedWire(now, st, num, heard, life)
           /\ FormerFlying(now, life) => Former(heard, life) \/ FormerFlying(flying, life)
BY DEF NumberedWire, FormerFlying

(* A datagram of channel 1 that the session would send. *)
LEMMA SentNumbered ==
    ASSUME NEW s \in SessionSet, StepsFit(s.screen), NEW st, NEW n, NEW life,
           GridsAt(s.screen, st, s.epoch, n), NEW d \in DatagramsOf(s)
    PROVE  Numbered(d, st, s.screen.current_num, life) /\ d.heard = s.peer_epoch
<1> DEFINE ins == S!Instruction(s.screen)
<1>1. PICK c \in {Messages, Screen} : d = Datagram(s, c)
  BY DEF DatagramsOf
<1>2. /\ d.channel = c /\ d.heard = s.peer_epoch
      /\ c = Screen => d.ins = ins
  BY <1>1 DEF Datagram, Instruction, Messages, Screen
<1>3. s.screen \in ScreenChannel
  BY SessionFields
<1>4. /\ ins.old \in Nat /\ ins.new \in Nat
      /\ ins.old <= ins.new /\ ins.new <= s.screen.current_num
      /\ ins.diff = GridDiff(st[ins.new], st[ins.old])
  <2> DEFINE g == s.screen
             epoch == s.epoch
  <2>1. g \in ScreenChannel /\ StepsFit(g) /\ GridsAt(g, st, epoch, n)
    BY <1>3
  <2> HIDE DEF g, epoch
  <2>2. LET i == S!Instruction(g)
        IN  /\ i.old \in Nat /\ i.new \in Nat
            /\ i.old <= i.new /\ i.new <= g.current_num
            /\ i.diff = GridDiff(st[i.new], st[i.old])
    BY <2>1, GridsInstruction
  <2> QED
    BY <2>2 DEF g
<1> HIDE DEF ins
<1>5. ins.new = 0 => ins.diff = GridDiff(EmptyGrid, EmptyGrid)
  <2>1. ins.new = 0 => ins.old = 0
    BY <1>4
  <2>2. st[0] = EmptyGrid
    BY DEF GridsAt
  <2> QED
    BY <1>4, <2>1, <2>2
<1>6. ins.old \in 0..s.screen.current_num /\ ins.new \in 0..s.screen.current_num
  <2>1. s.screen.current_num \in Nat
    BY <1>3, ScreenFields
  <2> QED
    BY <1>4, <2>1
<1> QED
  BY <1>2, <1>4, <1>5, <1>6 DEF Numbered

(* The grid held of a peer: one of the present numbering of its present    *)
(* life, and the empty one while anything told to a former life is to      *)
(* come; or part of one that a former life of the peer set.                *)
HeldAs(g, num, peer, epoch, st, top, former) ==
    IF peer \in {NoEpoch, epoch}
      THEN num <= top /\ g = st[num] /\ (peer = NoEpoch => num = 0) /\ (former => num = 0)
      ELSE IsPart(g, peer, MaxScreens)

GridsInv(s, t, flying, n, over, st) ==
    /\ n <= MaxScreens /\ GridsAt(s.screen, st, s.epoch, n)
    /\ NumberedWire(flying, st, s.screen.current_num, s.peer_epoch, t.epoch)
    /\ over \/ HeldAs(t.screen.received, t.screen.received_num, t.peer_epoch, s.epoch, st,
                      s.screen.current_num,
                      Former(s.peer_epoch, t.epoch) \/ FormerFlying(flying, t.epoch))

(* What a step does that changes no grid and no number of channel 1. *)
SameGrids(t, s) ==
    /\ t.epoch = s.epoch /\ t.peer_epoch = s.peer_epoch
    /\ t.screen.assumed = s.screen.assumed /\ t.screen.current_num = s.screen.current_num
    /\ t.screen.sent_states = s.screen.sent_states
    /\ t.screen.received = s.screen.received /\ t.screen.received_num = s.screen.received_num

LEMMA InvSame ==
    ASSUME NEW s, NEW t, NEW flying, NEW n, NEW over, NEW st, GridsInv(s, t, flying, n, over, st),
           NEW s1, SameGrids(s1, s), NEW t1, SameGrids(t1, t)
    PROVE  GridsInv(s1, t1, flying, n, over, st)
<1>1. GridsAt(s1.screen, st, s.epoch, n)
  BY GridsSame DEF GridsInv, SameGrids
<1> QED
  BY <1>1 DEF GridsInv, SameGrids

(* A former life of the host is over: the numbering starts again. *)
LEMMA InvNew ==
    ASSUME NEW life, NEW t, NEW over,
           \/ over
           \/ IF t.peer_epoch \in {NoEpoch, life}
                THEN t.screen.received_num = 0 /\ t.screen.received = EmptyGrid
                ELSE IsPart(t.screen.received, t.peer_epoch, MaxScreens)
    PROVE  /\ [k \in Nat |-> EmptyGrid] \in [Nat -> Grid]
           /\ GridsInv(NewSession(life), t, {}, 0, over, [k \in Nat |-> EmptyGrid])
<1> DEFINE st == [k \in Nat |-> EmptyGrid]
           s == NewSession(life)
           c == S!New(EmptyGrid)
<1>1. s.epoch = life /\ s.screen = c /\ s.peer_epoch = NoEpoch
  BY DEF NewSession
<1>2. GridsAt(c, st, life, 0)
  BY GridsNew
<1>3. c.current_num = 0 /\ st[0] = EmptyGrid /\ st \in [Nat -> Grid]
  BY NewFits DEF S!New, Grid, EmptyGrid
<1> HIDE DEF s, c, st
<1>5. NumberedWire({}, st, s.screen.current_num, s.peer_epoch, t.epoch)
  BY DEF NumberedWire
<1>6. over \/ HeldAs(t.screen.received, t.screen.received_num, t.peer_epoch, s.epoch, st,
                    s.screen.current_num,
                    Former(s.peer_epoch, t.epoch) \/ FormerFlying({}, t.epoch))
  BY <1>1, <1>3 DEF HeldAs
<1>7. 0 <= MaxScreens
  BY SessionAssumption
<1> QED
  BY <1>1, <1>2, <1>3, <1>5, <1>6, <1>7 DEF GridsInv, s, st

(* Session::set_screen *)
LEMMA InvSetScreen ==
    ASSUME NEW s \in SessionSet, NEW t \in SessionSet, NEW flying, NEW n \in Nat, NEW over,
           NEW st \in [Nat -> Grid], GridsInv(s, t, flying, n, over, st), n < MaxScreens,
           NEW s1, s1 = [s EXCEPT !.screen = S!Advance(@, GridOf(s.epoch, n + 1))]
    PROVE  \E more \in [Nat -> Grid] : GridsInv(s1, t, flying, n + 1, over, more)
<1> DEFINE c == s.screen
           g == GridOf(s.epoch, n + 1)
           num == c.current_num
           more == [st EXCEPT ![num + 1] = g]
           life == s.epoch
           r == t.screen.received_num
           former == Former(s.peer_epoch, t.epoch) \/ FormerFlying(flying, t.epoch)
<1>1. c \in ScreenChannel /\ life \in Nat /\ num \in Nat /\ r \in Nat
  BY SessionFields, ScreenFields
<1>2. GridsAt(c, st, life, n) /\ g = GridOf(life, n + 1)
  BY DEF GridsInv
<1>3. /\ more \in [Nat -> Grid] /\ GridsAt(S!Advance(c, g), more, life, n + 1)
      /\ S!Advance(c, g).current_num = num + 1 /\ \A k \in 0..num : more[k] = st[k]
  <2> DEFINE d == S!Advance(c, g)
  <2>1. d = S!Advance(c, g)
    OBVIOUS
  <2> DEFINE m == n + 1
             k1 == num + 1
  <2>2. m \in Nat /\ k1 \in Nat /\ k1 = c.current_num + 1 /\ g = GridOf(life, m)
        /\ m = n + 1
    BY <1>1, <1>2
  <2>a. Longer(more, st, k1, g)
    <3>1. g \in Grid
      BY <1>1, <2>2, GridOfRows
    <3>2. more = [st EXCEPT ![k1] = g]
      OBVIOUS
    <3> HIDE DEF more, g, k1
    <3> QED
      BY <2>2, <3>1, <3>2 DEF Longer
  <2>b. c \in ScreenChannel /\ life \in Nat /\ GridsAt(c, st, life, n)
    BY <1>1, <1>2
  <2> HIDE DEF c, g, life, more, d, m, k1
  <2>3. /\ GridsAt(d, more, life, m) /\ d.current_num = k1
        /\ \A k \in 0..c.current_num : more[k] = st[k]
    BY <2>1, <2>2, <2>a, <2>b, GridsAdvance
  <2> QED
    BY <2>3, <2>a DEF d, m, k1, Longer
<1>4. s1.screen = S!Advance(c, g) /\ s1.epoch = life /\ s1.peer_epoch = s.peer_epoch
  BY DEF SessionSet
<1>5. n + 1 <= MaxScreens
  BY SessionAssumption
<1> HIDE DEF g, more, c
<1>6. GridsAt(s1.screen, more, s1.epoch, n + 1) /\ s1.screen.current_num = num + 1
  BY <1>3, <1>4
<1>a. NumberedWire(flying, st, num, s.peer_epoch, t.epoch)
  BY DEF GridsInv, c
<1>b. over \/ HeldAs(t.screen.received, r, t.peer_epoch, life, st, num, former)
  BY DEF GridsInv, c
<1> HIDE DEF num, r, life, former
<1>7. NumberedWire(flying, more, num + 1, s.peer_epoch, t.epoch)
  <2>1. ASSUME NEW d, Numbered(d, st, num, t.epoch)
        PROVE  Numbered(d, more, num + 1, t.epoch)
    <3>1. \A k \in 0..num : k \in 0..(num + 1) /\ more[k] = st[k]
      BY <1>1, <1>3
    <3> QED
      BY <2>1, <3>1 DEF Numbered
  <2> QED
    BY <1>a, <2>1 DEF NumberedWire
<1>8. over \/ HeldAs(t.screen.received, r, t.peer_epoch, life, more, num + 1, former)
  <2>1. r <= num => r <= num + 1 /\ more[r] = st[r]
    BY <1>1, <1>3
  <2> QED
    BY <1>b, <2>1 DEF HeldAs
<1> QED
  BY <1>3, <1>4, <1>5, <1>6, <1>7, <1>8 DEF GridsInv, life, r, former

(* A wire that grows by what the host sends, or that loses some of it. *)
LEMMA InvWire ==
    ASSUME NEW s, NEW t, NEW flying, NEW n, NEW over, NEW st, GridsInv(s, t, flying, n, over, st),
           NEW now, NumberedWire(now, st, s.screen.current_num, s.peer_epoch, t.epoch),
           FormerFlying(now, t.epoch)
             => Former(s.peer_epoch, t.epoch) \/ FormerFlying(flying, t.epoch)
    PROVE  GridsInv(s, t, now, n, over, st)
BY DEF GridsInv, HeldAs

(* Session::outgoing of the host *)
LEMMA InvSent ==
    ASSUME NEW s \in SessionSet, StepsFit(s.screen), NEW t, NEW flying,
           NEW n, NEW over, NEW st, GridsInv(s, t, flying, n, over, st),
           NEW now, now \subseteq flying \cup DatagramsOf(s)
    PROVE  GridsInv(s, t, now, n, over, st)
<1> DEFINE num == s.screen.current_num
           heard == s.peer_epoch
           life == t.epoch
           T == DatagramsOf(s)
<1>1. NumberedWire(flying, st, num, heard, life) /\ GridsAt(s.screen, st, s.epoch, n)
  BY DEF GridsInv
<1>2. \A d \in T : Numbered(d, st, num, life) /\ d.heard = heard
  BY <1>1, SentNumbered
<1>3. now \subseteq flying \cup T
  OBVIOUS
<1> HIDE DEF T, num, heard, life
<1>4. /\ NumberedWire(now, st, num, heard, life)
      /\ FormerFlying(now, life) => Former(heard, life) \/ FormerFlying(flying, life)
  BY <1>1, <1>2, <1>3, NumberedMore
<1> QED
  BY <1>4, InvWire DEF num, heard, life

(* A part of what was in flight is lost. *)
LEMMA InvLost ==
    ASSUME NEW s, NEW t, NEW flying, NEW n, NEW over, NEW st,
           GridsInv(s, t, flying, n, over, st), NEW rest, rest \subseteq flying
    PROVE  GridsInv(s, t, rest, n, over, st)
<1> DEFINE num == s.screen.current_num
           heard == s.peer_epoch
           life == t.epoch
<1>1. NumberedWire(flying, st, num, heard, life)
  BY DEF GridsInv
<1> HIDE DEF num, heard, life
<1>2. /\ NumberedWire(rest, st, num, heard, life)
      /\ FormerFlying(rest, life) => FormerFlying(flying, life)
  BY <1>1, NumberedLess
<1> QED
  BY <1>2, InvWire DEF num, heard, life

(* The owner's process starts again: it holds the empty grid. *)
LEMMA InvOwnerRestart ==
    ASSUME NEW s \in SessionSet, NEW t, NEW flying, NEW n, NEW over, NEW st,
           GridsInv(s, t, flying, n, over, st), NEW life
    PROVE  GridsInv(s, NewSession(life), {}, n, FALSE, st)
<1> DEFINE u == NewSession(life)
           num == s.screen.current_num
<1>1. /\ u.epoch = life /\ u.peer_epoch = NoEpoch
      /\ u.screen.received = EmptyGrid /\ u.screen.received_num = 0
  BY DEF NewSession, S!New
<1>2. num \in Nat /\ st[0] = EmptyGrid
  BY SessionFields, ScreenFields DEF GridsInv, GridsAt
<1> HIDE DEF u
<1>4. NumberedWire({}, st, num, s.peer_epoch, u.epoch)
  BY DEF NumberedWire
<1>5. HeldAs(u.screen.received, u.screen.received_num, u.peer_epoch, s.epoch, st, num,
             Former(s.peer_epoch, u.epoch) \/ FormerFlying({}, u.epoch))
  BY <1>1, <1>2 DEF HeldAs
<1> QED
  BY <1>4, <1>5 DEF GridsInv, u

(* The host hears the owner, of its present life or of a new one. *)
LEMMA InvHostReceives ==
    ASSUME NEW s \in SessionSet, StepsFit(s.screen), NEW t \in SessionSet, NEW flying,
           NEW n \in Nat, NEW over, NEW st \in [Nat -> Grid], GridsInv(s, t, flying, n, over, st),
           NEW d, IsDatagram(d), d.epoch = t.epoch,
           NEW s1, s1 = Applied(Heard(s, d.epoch), d), Heard(s, d.epoch) \in SessionSet
    PROVE  \E more \in [Nat -> Grid] : GridsInv(s1, t, flying, n, over, more)
<1> DEFINE u == Heard(s, d.epoch)
           life == t.epoch
           g == t.screen.received
           r == t.screen.received_num
<1>1. /\ s.screen \in ScreenChannel /\ s.epoch \in Nat /\ u.screen \in ScreenChannel
      /\ u.screen.current_num \in Nat
  BY SessionFields, ScreenFields
<1>2. /\ u.epoch = s.epoch /\ u.peer_epoch = life
      /\ u.screen = IF s.peer_epoch \in {NoEpoch, life} THEN s.screen ELSE ResetScreen(s.screen)
  BY ScreenHeard
<1>3. /\ GridsAt(s.screen, st, s.epoch, n) /\ st[0] = EmptyGrid /\ n <= MaxScreens
      /\ NumberedWire(flying, st, s.screen.current_num, s.peer_epoch, life)
      /\ over \/ HeldAs(g, r, t.peer_epoch, s.epoch, st, s.screen.current_num,
                        Former(s.peer_epoch, life) \/ FormerFlying(flying, life))
  BY DEF GridsInv, GridsAt
<1> HIDE DEF u, g, r
<1>4. ~Former(life, life)
  BY DEF Former
<1>5. \E more \in [Nat -> Grid] : GridsInv(u, t, flying, n, over, more)
  <2>1. CASE s.peer_epoch \in {NoEpoch, life}
    <3>1. ~Former(s.peer_epoch, life) /\ u.screen = s.screen
      BY <1>2, <2>1 DEF Former
    <3>2. NumberedWire(flying, st, u.screen.current_num, life, life)
      BY <1>3, <1>4, <3>1 DEF NumberedWire
    <3>3. over \/ HeldAs(g, r, t.peer_epoch, s.epoch, st, u.screen.current_num,
                        Former(life, life) \/ FormerFlying(flying, life))
      BY <1>3, <1>4, <3>1
    <3>4. GridsInv(u, t, flying, n, over, st)
      BY <1>2, <1>3, <3>1, <3>2, <3>3 DEF GridsInv, g, r
    <3> QED
      BY <3>4
  <2>2. CASE s.peer_epoch \notin {NoEpoch, life}
    <3>1. Former(s.peer_epoch, life) /\ u.screen = ResetScreen(s.screen)
      BY <1>2, <2>2 DEF Former
    <3>2. PICK more \in [Nat -> Grid] : GridsAt(u.screen, more, s.epoch, n)
      BY <1>1, <1>3, <3>1, GridsReset
    <3>3. more[0] = EmptyGrid
      BY <3>2 DEF GridsAt
    <3>4. NumberedWire(flying, more, u.screen.current_num, life, life)
      <4>1. \A x \in flying : /\ Former(x.heard, life)
                              /\ Numbered(x, st, s.screen.current_num, life)
        BY <1>3, <3>1 DEF NumberedWire
      <4>2. \A x \in flying : Numbered(x, more, u.screen.current_num, life)
        BY <4>1 DEF Numbered
      <4> QED
        BY <4>1, <4>2 DEF NumberedWire
    <3>5. over \/ HeldAs(g, r, t.peer_epoch, s.epoch, more, u.screen.current_num,
                        Former(life, life) \/ FormerFlying(flying, life))
      BY <1>1, <1>3, <3>1, <3>3 DEF HeldAs
    <3>6. GridsInv(u, t, flying, n, over, more)
      BY <1>2, <1>3, <3>2, <3>4, <3>5 DEF GridsInv, g, r
    <3> QED
      BY <3>6
  <2> QED
    BY <2>1, <2>2
<1>6. PICK more \in [Nat -> Grid] : GridsInv(u, t, flying, n, over, more)
  BY <1>5
<1>7. /\ s1.epoch = u.epoch /\ s1.peer_epoch = u.peer_epoch
      /\ s1.screen = IF d.channel = Messages THEN u.screen ELSE S!Apply(u.screen, d.ins)
  BY ScreenApplied DEF u
<1>8. d.ins.ack \in Nat /\ GridsAt(u.screen, more, u.epoch, n)
  BY <1>6 DEF IsDatagram, GridsInv
<1>9. GridsAt(s1.screen, more, u.epoch, n) /\ s1.screen.current_num = u.screen.current_num
  BY <1>1, <1>7, <1>8, GridsApply
<1>10. GridsInv(s1, t, flying, n, over, more)
  BY <1>6, <1>7, <1>9 DEF GridsInv
<1> QED
  BY <1>10

(* The owner hears the host: it takes a grid of the present numbering, or  *)
(* one sent to a former life of its own, which is what Crosses says.       *)
LEMMA InvOwnerReceives ==
    ASSUME NEW s \in SessionSet, NEW t \in SessionSet, NEW flying,
           NEW n, NEW over \in BOOLEAN, NEW st \in [Nat -> Grid],
           GridsInv(s, t, flying, n, over, st),
           NEW d \in flying, IsDatagram(d), d.epoch = s.epoch,
           NEW rest, rest \subseteq flying,
           \A x \in rest : ~Former(d.heard, t.epoch) => ~Former(x.heard, t.epoch),
           NEW u, u = Heard(t, d.epoch), u \in SessionSet, StepsFit(u.screen),
           NEW t1, t1 = Applied(u, d)
    PROVE  GridsInv(s, t1, rest, n, over \/ Crosses(u, d), st)
<1> DEFINE num == s.screen.current_num
           life == t.epoch
           epoch == s.epoch
           heard == s.peer_epoch
           g == u.screen.received
           r == u.screen.received_num
           g1 == t1.screen.received
           r1 == t1.screen.received_num
           former == Former(heard, life) \/ FormerFlying(flying, life)
           left == Former(heard, life) \/ FormerFlying(rest, life)
<1>1. /\ s.screen \in ScreenChannel /\ t.screen \in ScreenChannel /\ u.screen \in ScreenChannel
      /\ num \in Nat /\ r \in Nat /\ g \in Grid
  BY SessionFields, ScreenFields
<1>2. /\ u.epoch = life /\ u.peer_epoch = epoch
      /\ u.screen = IF t.peer_epoch \in {NoEpoch, epoch} THEN t.screen ELSE ResetScreen(t.screen)
  BY ScreenHeard
<1>3. /\ n <= MaxScreens /\ GridsAt(s.screen, st, epoch, n) /\ st[0] = EmptyGrid
      /\ NumberedWire(flying, st, num, heard, life)
      /\ over \/ HeldAs(t.screen.received, t.screen.received_num, t.peer_epoch, epoch, st, num, former)
  BY DEF GridsInv, GridsAt
<1>4. /\ t1.epoch = life /\ t1.peer_epoch = epoch
      /\ t1.screen = IF d.channel = Messages THEN u.screen ELSE S!Apply(u.screen, d.ins)
  BY <1>2, ScreenApplied
<1>5. /\ d.ins.old \in Nat /\ d.ins.new \in Nat /\ d.ins.ack \in Nat
      /\ d.channel \in {Messages, Screen}
  BY DEF IsDatagram
\* What it holds once it has heard the epoch.
<1>6. over \/ (r <= num /\ g = st[r] /\ (former => r = 0))
  <2>1. CASE t.peer_epoch \in {NoEpoch, epoch}
    BY <1>2, <1>3, <2>1 DEF HeldAs
  <2>2. CASE t.peer_epoch \notin {NoEpoch, epoch}
    <3>1. u.screen = ResetScreen(t.screen)
      BY <1>2, <2>2
    <3>2. u.screen.received = EmptyGrid
      BY <1>1, <3>1, ResetFits
    <3>3. u.screen.received_num = 0
      BY <3>1 DEF ResetScreen, S!New
    <3> QED
      BY <1>1, <1>3, <3>2, <3>3
  <2> QED
    BY <2>1, <2>2
<1>7. GridsInv(s, t, rest, n, over, st)
  BY InvLost
<1>8. NumberedWire(rest, st, num, heard, life)
  BY <1>7 DEF GridsInv
<1>9. left => former
  BY DEF FormerFlying
<1>10. Former(d.heard, life) => former
  BY DEF FormerFlying
<1>11. ~Former(d.heard, life) => ~left
  <2>1. FormerFlying(rest, life) => Former(d.heard, life)
    BY DEF FormerFlying
  <2>2. Former(heard, life) => Former(d.heard, life)
    BY <1>3 DEF NumberedWire
  <2> QED
    BY <2>1, <2>2
<1>12. Numbered(d, st, num, life)
  BY <1>3 DEF NumberedWire
<1> HIDE DEF num, life, epoch, heard, g, r, g1, r1, former, left
\* What it holds afterwards.
<1>13. \/ over \/ Crosses(u, d)
       \/ r1 <= num /\ g1 = st[r1] /\ (left => r1 = 0)
  <2>1. CASE over
    BY <2>1
  <2>2. CASE ~over /\ g1 = g /\ r1 = r
    BY <1>6, <1>9, <2>2
  <2>3. CASE /\ ~over /\ d.channel = Screen /\ d.ins.old = r /\ GridAccepts(g, d.ins.diff)
             /\ g1 = GridApply(g, d.ins.diff) /\ r1 = d.ins.new
    <3>1. r <= num /\ g = st[r] /\ (former => r = 0)
      BY <1>6, <2>3
    <3>2. CASE Former(d.heard, life)
      <4>1. r = 0 /\ g = EmptyGrid
        BY <1>3, <1>10, <3>1, <3>2
      <4>2. CASE d.ins.new = 0
        <5>1. d.ins.diff = GridDiff(EmptyGrid, EmptyGrid)
          BY <1>12, <2>3, <4>2 DEF Numbered
        <5>2. g1 = EmptyGrid
          <6>1. EmptyGrid \in Grid
            BY NewFits
          <6> QED
            BY <2>3, <4>1, <5>1, <6>1, ApplyUndoes
        <5> QED
          BY <1>1, <1>3, <2>3, <4>2, <5>2
      <4>3. CASE d.ins.new # 0
        <5>1. d.ins.new > 0
          BY <1>5, <4>3
        <5>2. S!Advanced(u.screen, d.ins)
          BY <2>3, <4>1, <5>1 DEF S!Advanced, S!Matches, g, r
        <5>3. Crosses(u, d)
          BY <1>2, <2>3, <3>2, <5>2 DEF Crosses, Former
        <5> QED
          BY <5>3
      <4> QED
        BY <4>2, <4>3
    <3>3. CASE ~Former(d.heard, life)
      <4>1. /\ d.ins.new \in 0..num
            /\ d.ins.diff = GridDiff(st[d.ins.new], st[r])
        BY <1>12, <2>3, <3>3 DEF Numbered
      <4>2. d.ins.new \in Nat /\ st[d.ins.new] \in Grid /\ st[r] \in Grid
        BY <1>1, <1>5
      <4>3. g1 = st[d.ins.new]
        BY <2>3, <3>1, <4>1, <4>2, ApplyUndoes
      <4> QED
        BY <1>11, <2>3, <3>3, <4>1, <4>3
    <3> QED
      BY <3>2, <3>3
  <2>4. CASE d.channel = Messages
    BY <1>4, <2>1, <2>2, <2>4 DEF g, g1, r, r1
  <2>5. CASE d.channel # Messages
    <3>1. t1.screen = S!Apply(u.screen, d.ins)
      BY <1>4, <2>5
    <3>2. IF d.ins.old = r /\ GridAccepts(g, d.ins.diff)
            THEN g1 = GridApply(g, d.ins.diff) /\ r1 = d.ins.new
            ELSE g1 = g /\ r1 = r
      BY <1>1, <1>5, <3>1, ScreenTakes DEF g, g1, r, r1
    <3>3. d.channel = Screen
      BY <1>5, <2>5
    <3> QED
      BY <2>1, <2>2, <2>3, <3>2, <3>3
  <2> QED
    BY <2>4, <2>5
<1>14. over \/ Crosses(u, d) \/ HeldAs(g1, r1, epoch, epoch, st, num, left)
  <2>1. s.epoch # NoEpoch
    BY SessionFields
  <2> QED
    BY <1>13, <2>1 DEF HeldAs, epoch
<1>15. GridsInv(s, t1, rest, n, over \/ Crosses(u, d), st)
  BY <1>3, <1>4, <1>8, <1>14 DEF GridsInv, num, epoch, heard, g1, r1, left
<1> QED
  BY <1>15

(* The same of the state. *)
GridWhole ==
    \E st \in [Nat -> Grid] :
        GridsInv(session[Host], session[Owner], Timely(Host), screens, crossed, st)

LEMMA Ends == /\ Host \in Endpoint /\ Owner \in Endpoint /\ Owner # Host
              /\ Peer(Owner) = Host /\ Peer(Host) = Owner
              /\ \A e \in Endpoint : e = Owner \/ e = Host
BY SessionAssumption DEF Endpoint, Peer

LEMMA SameGridsSelf ==
    ASSUME NEW s
    PROVE  SameGrids(s, s)
BY DEF SameGrids

(* A step that changes no grid, no number of channel 1, and not what the   *)
(* host has in flight in time.                                             *)
LEMMA GridKept ==
    ASSUME Whole, GridWhole, NEW e \in Endpoint, NEW t, SameGrids(t, session[e]),
           session' = [session EXCEPT ![e] = t], Timely(Host)' = Timely(Host),
           screens' = screens, crossed' = crossed
    PROVE  GridWhole'
<1>1. PICK st \in [Nat -> Grid] :
         GridsInv(session[Host], session[Owner], Timely(Host), screens, crossed, st)
  BY DEF GridWhole
<1>2. session \in [Endpoint -> SessionSet]
  BY DEF Whole
<1>3. SameGrids(session'[Host], session[Host])
  <2>1. CASE e = Host
    BY <1>2, <2>1, Ends
  <2>2. CASE e # Host
    BY <1>2, <2>2, Ends, SameGridsSelf
  <2> QED
    BY <2>1, <2>2
<1>4. SameGrids(session'[Owner], session[Owner])
  <2>1. CASE e = Owner
    BY <1>2, <2>1, Ends
  <2>2. CASE e # Owner
    BY <1>2, <2>2, Ends, SameGridsSelf
  <2> QED
    BY <2>1, <2>2
<1>5. GridsInv(session'[Host], session'[Owner], Timely(Host), screens, crossed, st)
  BY <1>1, <1>3, <1>4, InvSame
<1> QED
  BY <1>5 DEF GridWhole

(* A step of an end that changes no grid, no life, and neither what is in  *)
(* flight nor what was met.                                                *)
LEMMA GridQuiet ==
    ASSUME Whole, GridWhole, NEW e \in Endpoint, NEW t, SameGrids(t, session[e]),
           session' = [session EXCEPT ![e] = t], UNCHANGED <<net, met>>,
           screens' = screens, crossed' = crossed
    PROVE  GridWhole'
<1>1. session \in [Endpoint -> SessionSet]
  BY DEF Whole
<1>2. \A g \in Endpoint : session'[g].epoch = session[g].epoch
  BY <1>1 DEF SameGrids
<1>3. Timely(Host)' = Timely(Host)
  BY <1>2, TimelySame, Ends
<1> QED
  BY <1>3, GridKept

LEMMA InitGrid ==
    ASSUME Init
    PROVE  GridWhole
<1> DEFINE st == [k \in Nat |-> EmptyGrid]
           t == NewSession(1)
<1>1. session[Host] = t /\ session[Owner] = t /\ screens = 0 /\ crossed = FALSE
  BY Ends DEF Init
<1>4. Timely(Host) = {}
  <2>1. net[Host] = <<>>
    BY Ends DEF Init
  <2> QED
    BY <2>1, WireEmpty, TimelyIs, Ends
<1>2. t.peer_epoch = NoEpoch /\ t.screen.received_num = 0 /\ t.screen.received = EmptyGrid
  BY DEF NewSession, S!New
<1> HIDE DEF t
<1>3. st \in [Nat -> Grid] /\ GridsInv(NewSession(1), t, {}, 0, FALSE, st)
  BY <1>2, InvNew
<1> QED
  BY <1>1, <1>3, <1>4 DEF GridWhole, t

LEMMA GridSetScreen ==
    ASSUME Whole, GridWhole, SetScreen
    PROVE  GridWhole'
<1> DEFINE s == session[Host]
           g == GridOf(s.epoch, screens + 1)
           t == [s EXCEPT !.screen = S!Advance(@, g)]
<1>1. s \in SessionSet /\ session[Owner] \in SessionSet /\ screens \in Nat
  BY Ends, EndFacts DEF Whole
<1>2. /\ screens < MaxScreens /\ screens' = screens + 1
      /\ session' = [session EXCEPT ![Host] = t] /\ UNCHANGED <<net, met>>
      /\ crossed' = crossed
  <2>1. session' = [session EXCEPT ![Host].screen = S!Advance(s.screen, g)]
    BY DEF SetScreen
  <2>2. session' = [session EXCEPT ![Host] = [s EXCEPT !.screen = S!Advance(s.screen, g)]]
    BY <2>1
  <2> QED
    BY <2>2 DEF SetScreen
<1>3. PICK st \in [Nat -> Grid] :
         GridsInv(s, session[Owner], Timely(Host), screens, crossed, st)
  BY DEF GridWhole
<1>4. t = [s EXCEPT !.screen = S!Advance(@, GridOf(s.epoch, screens + 1))]
  OBVIOUS
<1>7. t.epoch = s.epoch
  BY <1>1 DEF SessionSet
<1> HIDE DEF s, g, t
<1>5. \E more \in [Nat -> Grid] :
         GridsInv(t, session[Owner], Timely(Host), screens + 1, crossed, more)
  BY <1>1, <1>2, <1>3, <1>4, InvSetScreen
<1>6. session'[Host] = t /\ session'[Owner] = session[Owner]
  BY <1>2, Ends DEF Whole
<1>8. Timely(Host)' = Timely(Host)
  <2>1. \A e \in Endpoint : session'[e].epoch = session[e].epoch
    BY <1>6, <1>7, Ends DEF s
  <2> QED
    BY <1>2, <2>1, TimelySame, Ends
<1> QED
  BY <1>2, <1>5, <1>6, <1>8 DEF GridWhole

LEMMA GridQueueMessage ==
    ASSUME Whole, GridWhole, NEW e \in Endpoint, QueueMessage(e)
    PROVE  GridWhole'
<1> DEFINE s == session[e]
           c == M!Advance(s.messages, Push(s.messages.current, MessageOf(e, queued[e] + 1)))
           t == [s EXCEPT !.messages = c]
<1>1. /\ session' = [session EXCEPT ![e] = t] /\ UNCHANGED <<net, met>>
      /\ screens' = screens /\ crossed' = crossed
  <2>1. session' = [session EXCEPT ![e].messages = c]
    BY DEF QueueMessage
  <2> HIDE DEF c
  <2>2. session' = [session EXCEPT ![e] = [s EXCEPT !.messages = c]]
    BY <2>1
  <2> QED
    BY <2>2 DEF QueueMessage
<1>2. s \in SessionSet
  BY EndFacts
<1> HIDE DEF c
<1>3. SameGrids(t, s)
  <2>1. t.epoch = s.epoch /\ t.peer_epoch = s.peer_epoch /\ t.screen = s.screen
    BY <1>2 DEF SessionSet
  <2> QED
    BY <2>1 DEF SameGrids
<1> HIDE DEF t
<1> QED
  BY <1>1, <1>3, GridQuiet

LEMMA BuiltSame ==
    ASSUME NEW s \in SessionSet, NEW cs
    PROVE  SameGrids(Built(s, cs), s)
<1>1. Built(s, cs).epoch = s.epoch /\ Built(s, cs).peer_epoch = s.peer_epoch
  BY DEF Built, SessionSet
<1> QED
  BY <1>1, ScreenBuilt DEF SameGrids

LEMMA GridOutgoingFails ==
    ASSUME Whole, GridWhole, NEW e \in Endpoint, NEW c \in {Messages, Screen}, OutgoingFails(e, c)
    PROVE  GridWhole'
<1> DEFINE t == Built(session[e], {c})
<1>1. /\ session' = [session EXCEPT ![e] = t] /\ UNCHANGED <<net, met>>
      /\ screens' = screens /\ crossed' = crossed
  BY DEF OutgoingFails
<1>2. SameGrids(t, session[e])
  BY EndFacts, BuiltSame
<1> HIDE DEF t
<1> QED
  BY <1>1, <1>2, GridQuiet

LEMMA GridOutgoing ==
    ASSUME Whole, GridWhole, NEW e \in Endpoint, NEW cs \in SUBSET {Messages, Screen},
           Outgoing(e, cs)
    PROVE  GridWhole'
<1> DEFINE s == session[e]
           t == Built(s, cs)
<1>1. /\ session' = [session EXCEPT ![e] = t]
      /\ screens' = screens /\ crossed' = crossed /\ met' = met
  BY DEF Outgoing
<1>2. SameGrids(t, s) /\ s \in SessionSet
  BY EndFacts, BuiltSame
<1>3. PICK new \in Seq(DatagramsOf(s)) : net' = [net EXCEPT ![e] = InFlight(net[e], new)]
  BY WholeOutgoing
<1>4. session \in [Endpoint -> SessionSet]
  BY DEF Whole
<1> HIDE DEF t
<1>7. \A g \in Endpoint : session'[g].epoch = session[g].epoch
  BY <1>1, <1>2, <1>4 DEF SameGrids
<1>8. /\ Timely(e)' \subseteq Timely(e) \cup DatagramsOf(s)
      /\ \A g \in Endpoint : g # e => Timely(g)' = Timely(g)
  BY <1>1, <1>3, <1>7, TimelySent
<1>5. CASE e = Owner
  <2>1. Timely(Host)' = Timely(Host)
    BY <1>5, <1>8, Ends
  <2> QED
    BY <1>1, <1>2, <2>1, GridKept
<1>6. CASE e = Host
  <2> DEFINE flying == Timely(Host)
             now == Timely(Host)'
  <2>1. PICK st \in [Nat -> Grid] :
           GridsInv(s, session[Owner], flying, screens, crossed, st)
    BY <1>6 DEF GridWhole
  <2>2. StepsFit(s.screen)
    BY EndFacts DEF Sound
  <2>3. now \subseteq flying \cup DatagramsOf(s)
    BY <1>6, <1>8
  <2>4. session'[Host] = t /\ session'[Owner] = session[Owner]
    BY <1>1, <1>4, <1>6, Ends
  <2> HIDE DEF flying, now, s
  <2>5. GridsInv(s, session[Owner], now, screens, crossed, st)
    BY <1>2, <2>1, <2>2, <2>3, InvSent
  <2>6. GridsInv(t, session[Owner], now, screens, crossed, st)
    BY <1>2, <2>5, SameGridsSelf, InvSame
  <2> QED
    BY <1>1, <2>4, <2>6 DEF GridWhole, now
<1> QED
  BY <1>5, <1>6, Ends

LEMMA GridReceive ==
    ASSUME Whole, OrderWhole, GridWhole, NEW e \in Endpoint, NEW i \in DOMAIN net[Peer(e)],
           Receive(e, i), ~disordered'
    PROVE  GridWhole'
<1> DEFINE f == Peer(e)
           d == net[f][i]
           u == Heard(session[e], d.epoch)
           t == Applied(u, d)
           mine == session[e].epoch
           rest == Timely(f)'
<1>1. /\ f \in Endpoint /\ f # e /\ Peer(f) = e
      /\ session \in [Endpoint -> SessionSet] /\ crossed \in BOOLEAN
      /\ screens \in Nat /\ session[e] \in SessionSet /\ session[f] \in SessionSet
  BY Peers DEF Whole
<1>2. /\ d \in Range(net[f]) /\ rest \subseteq Timely(f) /\ Timely(e)' = Timely(e)
      /\ d.epoch \notin Range(session[e].retired) =>
            \A x \in rest : ~Former(d.heard, mine) => ~Former(x.heard, mine)
  BY TimelyReceive
<1>3. screens' = screens
  BY DEF Receive
<1>4. IsDatagram(d) /\ d.epoch \in Nat
  <2>1. Wire(net[f], session[f].epoch)
    BY <1>1, EndFacts
  <2> QED
    BY <1>2, <2>1 DEF Wire, IsDatagram
<1>5. u \in SessionSet /\ StepsFit(u.screen) /\ StepsFit(session[e].screen)
  <2>1. Sound(session[e], e, queued[e])
    BY EndFacts
  <2> DEFINE epoch == d.epoch
             was == session[e]
             q == queued[e]
  <2>2. epoch \in Nat /\ Sound(was, e, q)
    BY <1>4, <2>1
  <2> HIDE DEF epoch, was, q
  <2>3. Sound(Heard(was, epoch), e, q)
    BY <2>2, SoundHeard
  <2> QED
    BY <2>2, <2>3 DEF Sound, epoch, was
<1>6. PICK st \in [Nat -> Grid] :
         GridsInv(session[Host], session[Owner], Timely(Host), screens, crossed, st)
  BY DEF GridWhole
<1>7. Ordered(Timely(f), f, session[f].epoch, Origin(f), session[f].peer_epoch, mine)
  BY <1>1 DEF OrderWhole, OrderAt
<1>8. Handled(e, d)
  BY WholeReceive
<1>9. CASE d.epoch \in Range(session[e].retired)
  <2>1. session' = session /\ crossed' = crossed
    BY <1>9 DEF Receive
  <2>2. Timely(Host)' \subseteq Timely(Host)
    BY <1>2, Ends
  <2> DEFINE now == Timely(Host)'
             flying == Timely(Host)
  <2>3. now \subseteq flying
    BY <2>2
  <2>4. GridsInv(session[Host], session[Owner], flying, screens, crossed, st)
    BY <1>6
  <2> HIDE DEF now, flying
  <2>5. GridsInv(session[Host], session[Owner], now, screens, crossed, st)
    BY <2>3, <2>4, InvLost
  <2> QED
    BY <1>3, <2>1, <2>5 DEF GridWhole, now
<1>10. CASE d.epoch \notin Range(session[e].retired)
  <2>1. /\ session' = [session EXCEPT ![e] = t]
        /\ crossed' = (crossed \/ (e = Owner /\ Crosses(u, d)))
    BY <1>10 DEF Receive
  <2>2. /\ u = Heard(session[e], d.epoch) /\ t = Applied(u, d)
        /\ \A x \in rest : ~Former(d.heard, mine) => ~Former(x.heard, mine)
    BY <1>2, <1>10
  <2>3. d \in Timely(f) /\ d.epoch = session[f].epoch
    <3>1. d \in Timely(f)
      BY <1>8, <1>10 DEF Handled
    <3> QED
      BY <1>7, <3>1 DEF Ordered, Fresh
  <2> HIDE DEF d, u, t
  <2>4. CASE e = Owner
    <3>1. f = Host
      BY <2>4, Ends
    <3>2. session'[Owner] = t /\ session'[Host] = session[Host]
      BY <1>1, <2>1, <2>4, <3>1
    <3> DEFINE s == session[Host]
               o == session[Owner]
               flying == Timely(Host)
               now == Timely(Host)'
    <3>3. /\ s \in SessionSet /\ o \in SessionSet
          /\ d \in flying /\ d.epoch = s.epoch /\ u = Heard(o, d.epoch)
          /\ GridsInv(s, o, flying, screens, crossed, st) /\ now \subseteq flying
      BY <1>1, <1>2, <1>6, <2>2, <2>3, <2>4, <3>1
    <3>4. \A x \in now : ~Former(d.heard, o.epoch) => ~Former(x.heard, o.epoch)
      BY <2>2, <2>4, <3>1
    <3> HIDE DEF s, o, flying, now, f
    <3>5. GridsInv(s, t, now, screens, crossed \/ Crosses(u, d), st)
      BY <1>1, <1>4, <1>5, <2>2, <3>3, <3>4, InvOwnerReceives
    <3> QED
      BY <1>3, <2>1, <2>4, <3>2, <3>5 DEF GridWhole, s, now
  <2>5. CASE e = Host
    <3>1. f = Owner
      BY <2>5, Ends
    <3>2. /\ session'[Host] = t /\ session'[Owner] = session[Owner]
          /\ Timely(Host)' = Timely(Host)
      BY <1>1, <1>2, <2>1, <2>5, <3>1
    <3> DEFINE s == session[Host]
               o == session[Owner]
               flying == Timely(Host)
    <3>3. /\ s \in SessionSet /\ StepsFit(s.screen) /\ o \in SessionSet
          /\ d.epoch = o.epoch /\ t = Applied(Heard(s, d.epoch), d)
          /\ Heard(s, d.epoch) \in SessionSet
          /\ GridsInv(s, o, flying, screens, crossed, st)
      BY <1>1, <1>5, <1>6, <2>2, <2>3, <2>5, <3>1
    <3> HIDE DEF s, o, flying, f
    <3>4. \E more \in [Nat -> Grid] : GridsInv(t, o, flying, screens, crossed, more)
      BY <1>1, <1>4, <3>3, InvHostReceives
    <3>5. crossed' = crossed
      BY <1>1, <2>1, <2>5, Ends
    <3> QED
      BY <1>3, <3>2, <3>4, <3>5 DEF GridWhole, o, flying
  <2> QED
    BY <2>4, <2>5, Ends
<1> QED
  BY <1>9, <1>10

LEMMA GridRestart ==
    ASSUME Whole, GridWhole, NEW e \in Endpoint, Restart(e)
    PROVE  GridWhole'
<1> DEFINE life == session[e].epoch + 1
           t == NewSession(life)
           s == session[Host]
           o == session[Owner]
           r == o.screen.received_num
           g == o.screen.received
<1>1. /\ session' = [session EXCEPT ![e] = t]
      /\ screens' = IF e = Host THEN 0 ELSE screens
      /\ crossed' = (crossed /\ e # Owner)
  BY Ends DEF Restart
<1>7. Timely(Host)' = {}
  BY TimelyRestart, Ends
<1>2. /\ session \in [Endpoint -> SessionSet] /\ crossed \in BOOLEAN /\ screens \in Nat
      /\ s \in SessionSet /\ o \in SessionSet
      /\ s.epoch \in Nat /\ o.peer_epoch \in Nat /\ o.peer_epoch <= s.epoch
  BY Ends, EndFacts DEF Whole
<1>3. PICK st \in [Nat -> Grid] : GridsInv(s, o, Timely(Host), screens, crossed, st)
  BY DEF GridWhole
<1>4. r \in Nat /\ s.screen.current_num \in Nat
  BY <1>2, SessionFields, ScreenFields
<1>5. CASE e = Owner
  <2>1. session'[Owner] = t /\ session'[Host] = s /\ screens' = screens /\ crossed' = FALSE
    BY <1>1, <1>2, <1>5, Ends
  <2> HIDE DEF s, o
  <2>2. GridsInv(s, t, {}, screens, FALSE, st)
    BY ZenonT(60), <1>2, <1>3, InvOwnerRestart
  <2> QED
    BY <1>1, <1>7, <2>1, <2>2 DEF GridWhole
<1>6. CASE e = Host
  <2>1. session'[Host] = t /\ session'[Owner] = o /\ screens' = 0 /\ crossed' = crossed
    BY <1>1, <1>2, <1>6, Ends
  <2>2. life = s.epoch + 1
    BY <1>6
  <2>3. \/ crossed
        \/ HeldAs(g, r, o.peer_epoch, s.epoch, st, s.screen.current_num,
                  Former(s.peer_epoch, o.epoch) \/ FormerFlying(Timely(Host), o.epoch))
    BY <1>3 DEF GridsInv
  <2>4. /\ GridsAt(s.screen, st, s.epoch, screens) /\ st[0] = EmptyGrid
        /\ screens <= MaxScreens
    BY <1>3 DEF GridsInv, GridsAt
  <2>5. ASSUME ~crossed, o.peer_epoch \in {NoEpoch, life}
        PROVE  r = 0 /\ g = EmptyGrid
    <3>1. o.peer_epoch = NoEpoch
      BY <1>2, <2>2, <2>5
    <3> QED
      BY <2>3, <2>4, <2>5, <3>1 DEF HeldAs
  <2>6. ASSUME ~crossed, o.peer_epoch \notin {NoEpoch, life}
        PROVE  IsPart(g, o.peer_epoch, MaxScreens)
    <3>1. CASE o.peer_epoch = s.epoch
      <4>1. r <= s.screen.current_num /\ g = st[r]
        BY <2>3, <2>6, <3>1 DEF HeldAs
      <4>2. r \in 0..s.screen.current_num
        BY <1>4, <4>1
      <4>3. IsPart(g, s.epoch, screens)
        BY <2>4, <4>1, <4>2 DEF GridsAt
      <4> QED
        BY <1>2, <2>4, <3>1, <4>3, PartMore, SessionAssumption
    <3>2. CASE o.peer_epoch # s.epoch
      BY <2>3, <2>6, <3>2 DEF HeldAs
    <3> QED
      BY <3>1, <3>2
  <2> DEFINE none == [k \in Nat |-> EmptyGrid]
  <2> HIDE DEF s, life
  <2>7. none \in [Nat -> Grid] /\ GridsInv(t, o, {}, 0, crossed, none)
    BY <2>5, <2>6, InvNew
  <2> HIDE DEF none, t, o
  <2> QED
    BY <1>1, <1>7, <2>1, <2>7 DEF GridWhole
<1> QED
  BY <1>5, <1>6, Ends

LEMMA GridNext ==
    ASSUME Whole, OrderWhole, GridWhole, [Next]_vars, ~disordered'
    PROVE  GridWhole'
<1>1. CASE UNCHANGED vars
  <2>1. Timely(Host)' = Timely(Host)
    BY <1>1, TimelySame, Ends DEF vars
  <2> QED
    BY <1>1, <2>1 DEF GridWhole, vars
<1>2. CASE SetScreen
  BY <1>2, GridSetScreen
<1>3. ASSUME NEW e \in Endpoint, QueueMessage(e)
      PROVE  GridWhole'
  BY <1>3, GridQueueMessage
<1>4. ASSUME NEW e \in Endpoint, NEW cs \in SUBSET {Messages, Screen}, Outgoing(e, cs)
      PROVE  GridWhole'
  BY <1>4, GridOutgoing
<1>5. ASSUME NEW e \in Endpoint, NEW c \in {Messages, Screen}, OutgoingFails(e, c)
      PROVE  GridWhole'
  BY <1>5, GridOutgoingFails
<1>6. ASSUME NEW e \in Endpoint, NEW i \in DOMAIN net[Peer(e)], Receive(e, i)
      PROVE  GridWhole'
  BY <1>6, GridReceive
<1>7. ASSUME NEW e \in Endpoint, Restart(e)
      PROVE  GridWhole'
  BY <1>7, GridRestart
<1> QED
  BY <1>1, <1>2, <1>3, <1>4, <1>5, <1>6, <1>7 DEF Next

LEMMA GridIsPart ==
    ASSUME Whole, GridWhole
    PROVE  GridOfOneFrame
<1> DEFINE s == session[Host]
           o == session[Owner]
           r == o.screen.received_num
           g == o.screen.received
           n == IF o.peer_epoch = s.epoch THEN screens ELSE MaxScreens
<1>1. PICK st \in [Nat -> Grid] : GridsInv(s, o, Timely(Host), screens, crossed, st)
  BY DEF GridWhole
<1>2. r \in Nat
  BY Ends, SessionFields, ScreenFields DEF Whole
<1>3. \/ crossed
      \/ HeldAs(g, r, o.peer_epoch, s.epoch, st, s.screen.current_num,
                Former(s.peer_epoch, o.epoch) \/ FormerFlying(Timely(Host), o.epoch))
  BY <1>1 DEF GridsInv
<1>4. /\ st[0] = EmptyGrid
      /\ \A k \in 0..s.screen.current_num : IsPart(st[k], s.epoch, screens)
  BY <1>1 DEF GridsInv, GridsAt
<1>5. s.screen.current_num \in Nat
  BY Ends, SessionFields, ScreenFields DEF Whole
<1>6. crossed \/ IsPart(g, o.peer_epoch, n)
  <2>1. CASE o.peer_epoch = s.epoch
    <3>1. crossed \/ (r \in 0..s.screen.current_num /\ g = st[r])
      BY <1>2, <1>3, <1>5, <2>1 DEF HeldAs
    <3> QED
      BY <1>4, <2>1, <3>1
  <2>2. CASE o.peer_epoch # s.epoch /\ o.peer_epoch = NoEpoch
    BY <1>3, <1>4, <2>2 DEF HeldAs, IsPart
  <2>3. CASE o.peer_epoch # s.epoch /\ o.peer_epoch # NoEpoch
    BY <1>3, <2>3 DEF HeldAs
  <2> QED
    BY <2>1, <2>2, <2>3
<1> QED
  BY <1>6 DEF IsPart, GridOfOneFrame, EmptyGrid

(* Whatever the network loses, repeats and reorders, and whatever the two  *)
(* ends renumber when they hear of a restart, the owner's grid is empty or *)
(* the first rows of one frame of the host, if it did not take a grid sent *)
(* to its former life, and neither end took a datagram of a numbering      *)
(* whose end it has seen (RowGrid::rebase_steps, Channel::reset_peer and   *)
(* apply).                                                                 *)
THEOREM RowsOfOneFrame == Spec => []GridOfOneFrame
<1>1. Init => Whole /\ OrderWhole /\ GridWhole
  BY InitWhole, InitOrder, InitGrid
<1>2. Whole /\ (disordered \/ (OrderWhole /\ GridWhole)) /\ [Next]_vars
         => Whole' /\ (disordered' \/ (OrderWhole' /\ GridWhole'))
  BY WholeNext, OrderNext, GridNext, DisorderedStays
<1>3. Whole /\ (disordered \/ (OrderWhole /\ GridWhole)) => GridOfOneFrame
  BY GridIsPart DEF GridOfOneFrame
<1> QED
  BY <1>1, <1>2, <1>3, PTL DEF Spec

-----------------------------------------------------------------------------
(* The sequence reservation, for every set of processes, block size and    *)
(* sequence space, on both builds of replace().                            *)
(*                                                                         *)
(* NeverRewinds is not inductive: it needs to know that the live counter   *)
(* is ahead of everything issued (Counter), that whatever is on disk is    *)
(* too (DiskCovers), so that a restart is, that fresh keys are fresh       *)
(* (KeysMinted, Seeded), and that only the holder of the lock does any of  *)
(* it (Holder).                                                            *)

USE ProcAssumption, BlockAssumption, MaxSeqAssumption, MaxKeysAssumption

(* A reservation covers the counter, by at most a block (reserve()). *)
LEMMA ReservationFacts ==
    ASSUME NEW n \in Nat
    PROVE  /\ Reservation(n) \in Nat
           /\ Reservation(n) <= n + ReservationBlock
           /\ Reservation(n) <= MaxSeq
           /\ n <= MaxSeq => n <= Reservation(n)
           /\ \A m \in Nat : m <= n + ReservationBlock /\ m <= MaxSeq
                                => m <= Reservation(n)
  BY DEF Reservation, Smaller

(* Every step of the identity store keeps the types of its state. *)
LEMMA ReservationTypeStep == ReservationTypeOK /\ [ReservationNext]_reservationVars => ReservationTypeOK'
<1> SUFFICES ASSUME ReservationTypeOK, [ReservationNext]_reservationVars PROVE ReservationTypeOK'
  OBVIOUS
<1>w. windows' = windows
  BY DEF ReservationNext, reservationVars
<1>0. NoFile \in NodeState /\ file.key \in Nat /\ file.res \in Nat
  BY DEF ReservationTypeOK, NodeState, NoFile
<1> USE <1>0, <1>w DEF ReservationTypeOK, source
<1>1. ASSUME NEW p \in Proc, LockNodeDir(p) PROVE ReservationTypeOK'
  BY <1>1 DEF LockNodeDir
<1>2. ASSUME NEW p \in Proc, NEW k \in Nat, NEW r \in Nat, Open(p, k, r)
      PROVE  /\ key' \in [Proc -> Nat] /\ res' \in [Proc -> Nat]
             /\ next' \in [Proc -> Nat] /\ limit' \in [Proc -> Nat]
  BY SMTT(30), <1>2 DEF Open, OpenAt, Larger, Reservation, Smaller
<1>3. ASSUME NEW p \in Proc, Acquire(p) PROVE ReservationTypeOK'
  BY <1>3, <1>2 DEF Acquire
<1>4. ASSUME NEW p \in Proc, NotEnrolled(p) PROVE ReservationTypeOK'
  BY <1>4 DEF NotEnrolled, Release
<1>5. ASSUME NEW p \in Proc, Create(p) PROVE ReservationTypeOK'
  BY <1>5 DEF Create
<1>6. ASSUME NEW p \in Proc, RemoveTarget(p) PROVE ReservationTypeOK'
  BY <1>6 DEF RemoveTarget
<1>7. ASSUME NEW p \in Proc, Rename(p) PROVE ReservationTypeOK'
  <2>1. file' \in NodeState
    BY <1>7 DEF Rename, NodeState
  <2> QED
    BY <1>7, <2>1 DEF Rename
<1>8. ASSUME NEW p \in Proc, SyncParent(p) PROVE ReservationTypeOK'
  <2>1. CASE pc[p] = "seed"
    <3>1. Open(p, key[p], res[p])
      BY <1>8, <2>1 DEF SyncParent, WriteDone
    <3> QED
      BY <1>2, <1>8, <2>1, <3>1 DEF SyncParent, WriteDone
  <2>2. CASE pc[p] # "seed"
    BY <1>8, <2>2 DEF SyncParent, WriteDone
  <2> QED
    BY <2>1, <2>2
<1>9. ASSUME NEW p \in Proc, WriteFails(p) PROVE ReservationTypeOK'
  <2>1. CASE pc[p] = "reserve"
    BY <1>9, <2>1 DEF WriteFails
  <2>2. CASE pc[p] # "reserve"
    <3>1. Release(p)
      BY <1>9, <2>2 DEF WriteFails
    <3> QED
      BY <1>9, <3>1 DEF WriteFails, Release
  <2> QED
    BY <2>1, <2>2
<1>10. ASSUME NEW p \in Proc, Reserve(p) PROVE ReservationTypeOK'
  BY <1>10, ReservationFacts DEF Reserve
<1>11. ASSUME NEW p \in Proc, NextSeq(p) PROVE ReservationTypeOK'
  <2>1. <<key[p], next[p]>> \in Nat \X Nat
    OBVIOUS
  <2>2. issued' \in Seq(Nat \X Nat)
    BY <1>11, <2>1 DEF NextSeq
  <2>3. next' \in [Proc -> Nat]
    BY SMTT(30), <1>11 DEF NextSeq
  <2> QED
    BY <1>11, <2>2, <2>3 DEF NextSeq
<1>12. ASSUME NEW p \in Proc, Crash(p) PROVE ReservationTypeOK'
  BY <1>12 DEF Crash, Release
<1>13. CASE PowerLoss
  BY <1>13 DEF PowerLoss
<1>14. CASE UNCHANGED reservationVars
  BY <1>14 DEF reservationVars
<1> QED
  BY <1>1, <1>3, <1>4, <1>5, <1>6, <1>7, <1>8, <1>9, <1>10, <1>11, <1>12,
     <1>13, <1>14 DEF ReservationNext, NodeStep

(* The types of the identity store's state hold in every behaviour. *)
THEOREM ReservationTypeCorrect == ReservationSpec => []ReservationTypeOK
<1>1. ReservationInit => ReservationTypeOK
  BY DEF ReservationInit, ReservationTypeOK, NodeState, NoFile
<1> QED
  BY <1>1, ReservationTypeStep, PTL DEF ReservationSpec

-----------------------------------------------------------------------------
(* The history of issued sequences. *)
IssuedLog == Seq(Nat \X Nat)

(* Raising the bound keeps a key spent below it. *)
LEMMA SpentMonotone ==
    ASSUME NEW log \in IssuedLog, NEW k \in Nat, NEW m \in Nat, NEW n \in Nat,
           m <= n, SpentBelow(log, k, m)
    PROVE  SpentBelow(log, k, n)
<1> SUFFICES ASSUME NEW i \in 1..Len(log), log[i][1] = k PROVE log[i][2] < n
  BY DEF SpentBelow
<1>1. log[i] \in Nat \X Nat
  BY DEF IssuedLog
<1>2. log[i][2] \in Nat /\ log[i][2] < m
  BY <1>1 DEF SpentBelow
<1> QED
  BY <1>2

(* Issuing m under j keeps k spent below n, if m itself is below n. *)
LEMMA SpentAppend ==
    ASSUME NEW log \in IssuedLog, NEW j \in Nat, NEW m \in Nat,
           NEW k \in Nat, NEW n \in Nat,
           SpentBelow(log, k, n), j = k => m < n
    PROVE  SpentBelow(Append(log, <<j, m>>), k, n)
<1> DEFINE new == Append(log, <<j, m>>)
<1>1. /\ Len(new) = Len(log) + 1 /\ new[Len(log) + 1] = <<j, m>>
      /\ \A i \in 1..Len(log) : new[i] = log[i]
      /\ Len(log) \in Nat
  BY DEF IssuedLog
<1> HIDE DEF new
<1> SUFFICES ASSUME NEW i \in 1..Len(new), new[i][1] = k PROVE new[i][2] < n
  BY DEF SpentBelow, new
<1>2. CASE i = Len(log) + 1
  BY <1>1, <1>2
<1>3. CASE i \in 1..Len(log)
  BY <1>1, <1>3 DEF SpentBelow
<1> QED
  BY <1>1, <1>2, <1>3

(* Issuing a sequence above all those of its key keeps the log increasing. *)
LEMMA IncreasingAppend ==
    ASSUME NEW log \in IssuedLog, NEW j \in Nat, NEW m \in Nat,
           Increasing(log), SpentBelow(log, j, m)
    PROVE  Increasing(Append(log, <<j, m>>))
<1> DEFINE new == Append(log, <<j, m>>)
<1>1. /\ Len(new) = Len(log) + 1 /\ new[Len(log) + 1] = <<j, m>>
      /\ \A i \in 1..Len(log) : new[i] = log[i]
      /\ Len(log) \in Nat
  BY DEF IssuedLog
<1> HIDE DEF new
<1> SUFFICES ASSUME NEW a \in 1..Len(new), NEW b \in 1..Len(new),
                    a < b, new[a][1] = new[b][1]
             PROVE  new[a][2] < new[b][2]
  BY DEF Increasing, new
<1>2. a \in 1..Len(log)
  BY <1>1
<1>3. CASE b = Len(log) + 1
  BY <1>1, <1>2, <1>3 DEF SpentBelow
<1>4. CASE b \in 1..Len(log)
  BY <1>1, <1>2, <1>4 DEF Increasing
<1> QED
  BY <1>1, <1>3, <1>4

(* A key that was not minted was not used. *)
LEMMA MintedFresh ==
    ASSUME NEW log \in IssuedLog, NEW m \in Nat, NEW k \in Nat, NEW n \in Nat,
           MintedBelow(log, m), k = 0 \/ k >= m
    PROVE  SpentBelow(log, k, n)
<1> SUFFICES ASSUME NEW i \in 1..Len(log) PROVE log[i][1] # k
  BY DEF SpentBelow
<1>1. log[i][1] \in 1..(m - 1)
  BY DEF MintedBelow
<1> QED
  BY <1>1

(* Minting one more key keeps the used ones minted. *)
LEMMA MintedNext ==
    ASSUME NEW log \in IssuedLog, NEW m \in Nat, MintedBelow(log, m)
    PROVE  MintedBelow(log, m + 1)
<1> SUFFICES ASSUME NEW i \in 1..Len(log) PROVE log[i][1] \in 1..m
  BY DEF MintedBelow
<1>1. log[i][1] \in 1..(m - 1)
  BY DEF MintedBelow
<1> QED
  BY <1>1

(* Issuing under a minted key keeps the used ones minted. *)
LEMMA MintedAppend ==
    ASSUME NEW log \in IssuedLog, NEW m \in Nat, NEW j \in Nat, NEW n \in Nat,
           MintedBelow(log, m), j # 0, j < m
    PROVE  MintedBelow(Append(log, <<j, n>>), m)
<1> DEFINE new == Append(log, <<j, n>>)
<1>1. /\ Len(new) = Len(log) + 1 /\ new[Len(log) + 1] = <<j, n>>
      /\ \A i \in 1..Len(log) : new[i] = log[i]
      /\ Len(log) \in Nat
  BY DEF IssuedLog
<1> HIDE DEF new
<1> SUFFICES ASSUME NEW i \in 1..Len(new) PROVE new[i][1] \in 1..(m - 1)
  BY DEF MintedBelow, new
<1>2. CASE i = Len(log) + 1
  BY <1>1, <1>2
<1>3. CASE i \in 1..Len(log)
  BY <1>1, <1>3 DEF MintedBelow
<1> QED
  BY <1>1, <1>2, <1>3

-----------------------------------------------------------------------------
(* The lock makes the acting process the only one inside: its step need    *)
(* only keep the invariant for itself.                                     *)
LEMMA OnlyTheHolder ==
    ASSUME ReservationTypeOK, ReservationTypeOK', NEW p \in Proc, pc[p] # "idle",
           \A q \in Proc : Holder(q),
           \A q \in Proc \ {p} : pc'[q] = pc[q] /\ stage'[q] = stage[q],
           Holder(p)', Seeded(p)', Counter(p)'
    PROVE  \A q \in Proc : Holder(q)' /\ Seeded(q)' /\ Counter(q)'
<1> SUFFICES ASSUME NEW q \in Proc, q # p
             PROVE  Holder(q)' /\ Seeded(q)' /\ Counter(q)'
  OBVIOUS
<1>1. pc[q] = "idle" /\ stage[q] = "none"
  BY DEF Holder, ReservationTypeOK
<1>2. pc'[q] = "idle" /\ stage'[q] = "none"
  BY <1>1
<1> QED
  BY <1>2 DEF Holder, Seeded, Counter

(* A process that leaves keeps the invariant: it holds nothing. *)
LEMMA ReleaseStep ==
    ASSUME ReservationIInv, ReservationTypeOK', NEW p \in Proc, pc[p] # "idle", Release(p),
           UNCHANGED <<file, survivors, nextKey, issued>>
    PROVE  ReservationIInv'
<1>1. pc'[p] = "idle" /\ stage'[p] = "none"
  BY DEF ReservationIInv, ReservationTypeOK, Release
<1>2. Holder(p)' /\ Seeded(p)' /\ Counter(p)'
  BY <1>1 DEF Holder, Seeded, Counter
<1>3. \A q \in Proc \ {p} : pc'[q] = pc[q] /\ stage'[q] = stage[q]
  BY DEF ReservationIInv, ReservationTypeOK, Release
<1>4. \A q \in Proc : Holder(q)' /\ Seeded(q)' /\ Counter(q)'
  BY <1>2, <1>3, OnlyTheHolder DEF ReservationIInv
<1>5. KeysMinted' /\ DiskCovers' /\ NeverRewinds'
  BY DEF ReservationIInv, KeysMinted, DiskCovers, NeverRewinds, OnDisk
<1> QED
  BY <1>4, <1>5 DEF ReservationIInv

(* What ReservedSeq::open makes of a stored reservation r. *)
LEMMA OpenFacts ==
    ASSUME ReservationTypeOK, NEW p \in Proc, NEW k \in Nat, NEW r \in Nat, Open(p, k, r)
    PROVE  /\ key'[p] = k
           /\ next'[p] \in Nat /\ r <= next'[p] /\ 1 <= next'[p]
           /\ r <= MaxSeq => next'[p] <= MaxSeq
           /\ res'[p] = Reservation(next'[p])
  BY DEF Open, OpenAt, Larger, ReservationTypeOK

(* Each step of the identity store keeps the invariant. *)
LEMMA ReservationStep == ReservationIInv /\ [ReservationNext]_reservationVars => ReservationIInv'
<1> SUFFICES ASSUME ReservationIInv, [ReservationNext]_reservationVars PROVE ReservationIInv'
  OBVIOUS
<1>0. ReservationTypeOK /\ ReservationTypeOK'
  BY ReservationTypeStep DEF ReservationIInv
<1>a. /\ issued \in IssuedLog /\ nextKey \in Nat
      /\ \A left \in OnDisk : left.key \in Nat /\ left.res \in Nat
      /\ file \in OnDisk
      /\ file.key \in Nat /\ file.res \in Nat
      /\ \A p \in Proc : /\ key[p] \in Nat /\ res[p] \in Nat
                         /\ next[p] \in Nat /\ limit[p] \in Nat
  BY <1>0 DEF ReservationTypeOK, NodeState, OnDisk, IssuedLog
<1>b. /\ \A p \in Proc : Holder(p) /\ Seeded(p) /\ Counter(p)
      /\ KeysMinted /\ DiskCovers /\ NeverRewinds
  BY DEF ReservationIInv
<1>1. ASSUME NEW p \in Proc, LockNodeDir(p) PROVE ReservationIInv'
  <2>1. ASSUME NEW q \in Proc PROVE Holder(q)' /\ Seeded(q)' /\ Counter(q)'
    <3>1. pc[q] = "idle" /\ stage[q] = "none"
      BY <1>0, <1>1, <1>b DEF LockNodeDir, Holder, ReservationTypeOK
    <3>2. /\ pc'[q] \in {"idle", "locked"} /\ stage'[q] = "none"
          /\ pc'[q] = "locked" => lock' = q
      BY <1>0, <1>1, <3>1 DEF LockNodeDir, ReservationTypeOK
    <3> QED
      BY <3>2 DEF Holder, Seeded, Counter
  <2>2. KeysMinted' /\ DiskCovers' /\ NeverRewinds'
    BY <1>1, <1>b DEF LockNodeDir, KeysMinted, DiskCovers, NeverRewinds, OnDisk
  <2> QED
    BY <1>0, <2>1, <2>2 DEF ReservationIInv
<1>2. ASSUME NEW p \in Proc, Acquire(p) PROVE ReservationIInv'
  <2>0. /\ pc'[p] = "open" /\ stage'[p] = "temp" /\ lock' = p
        /\ key'[p] = file.key
        /\ next'[p] \in Nat /\ file.res <= next'[p] /\ 1 <= next'[p]
        /\ file.res <= MaxSeq => next'[p] <= MaxSeq
        /\ res'[p] = Reservation(next'[p])
        /\ issued' = issued
    BY <1>0, <1>a, <1>b, <1>2, OpenFacts DEF Acquire, ReservationTypeOK, Holder
  <2>1. pc[p] # "idle" /\ \A q \in Proc \ {p} : pc'[q] = pc[q] /\ stage'[q] = stage[q]
    BY <1>0, <1>2, <1>b DEF Acquire, ReservationTypeOK, Holder
  <2>2. Holder(p)'
    BY <1>0, <1>a, <1>b, <1>2, <2>0 DEF Acquire, ReservationTypeOK, Holder, KeysMinted
  <2>3. Seeded(p)'
    BY <2>0 DEF Seeded
  <2>4. Counter(p)'
    <3>1. SpentBelow(issued', key'[p], next'[p])
      BY <1>a, <1>b, <2>0, SpentMonotone DEF DiskCovers
    <3>2. \A left \in OnDisk' : left.key = key'[p] =>
             left.res <= next'[p] + ReservationBlock
      BY <1>a, <1>b, <1>2, <2>0 DEF DiskCovers, Acquire, OnDisk
    <3>3. key'[p] # 0
      BY <1>2, <1>0, <2>0 DEF Acquire, Enrolled
    <3> QED
      BY <1>a, <1>b, <2>0, <3>1, <3>2, <3>3 DEF Counter, DiskCovers
  <2>5. KeysMinted'
    BY <1>2, <1>b DEF Acquire, KeysMinted, OnDisk
  <2>6. DiskCovers'
    BY <1>2, <1>b DEF Acquire, DiskCovers, OnDisk
  <2>7. NeverRewinds'
    BY <1>2, <1>b DEF Acquire, NeverRewinds
  <2>8. \A q \in Proc : Holder(q)' /\ Seeded(q)' /\ Counter(q)'
    BY <1>0, <1>b, <2>1, <2>2, <2>3, <2>4, OnlyTheHolder
  <2> QED
    BY <1>0, <2>5, <2>6, <2>7, <2>8 DEF ReservationIInv
<1>3. ASSUME NEW p \in Proc, NotEnrolled(p) PROVE ReservationIInv'
  BY <1>0, <1>3, ReleaseStep DEF NotEnrolled
<1>4. ASSUME NEW p \in Proc, Create(p) PROVE ReservationIInv'
  <2>0. /\ pc'[p] = "seed" /\ stage'[p] = "temp" /\ lock' = p
        /\ key'[p] = nextKey /\ res'[p] = 1 /\ nextKey' = nextKey + 1
        /\ issued' = issued
    BY <1>0, <1>b, <1>4 DEF Create, ReservationTypeOK, Holder
  <2>1. pc[p] # "idle" /\ \A q \in Proc \ {p} : pc'[q] = pc[q] /\ stage'[q] = stage[q]
    BY <1>0, <1>4, <1>b DEF Create, ReservationTypeOK, Holder
  <2>2. Holder(p)'
    BY <1>0, <1>a, <1>b, <2>0 DEF Holder
  <2>3. Seeded(p)'
    <3>0. MintedBelow(issued, nextKey)
      BY <1>b DEF KeysMinted
    <3>a. SpentBelow(issued, nextKey, 0)
      BY ONLY <1>a, <3>0, MintedFresh
    <3>1. SpentBelow(issued', key'[p], 0)
      BY <2>0, <3>a
    <3>2. \A left \in OnDisk' : left.key # key'[p]
      BY <1>4, <1>a, <1>b, <2>0 DEF Create, KeysMinted, OnDisk
    <3> QED
      BY <1>a, <1>b, <2>0, <3>1, <3>2 DEF Seeded, KeysMinted
  <2>4. Counter(p)'
    BY <2>0 DEF Counter
  <2>5. KeysMinted'
    <3>1. MintedBelow(issued', nextKey')
      BY <1>a, <1>b, <2>0, MintedNext DEF KeysMinted
    <3>2. \A left \in OnDisk' : left.key < nextKey'
      BY <1>4, <1>a, <1>b, <2>0 DEF Create, KeysMinted, OnDisk
    <3> QED
      BY <1>a, <1>b, <2>0, <3>1, <3>2 DEF KeysMinted
  <2>6. DiskCovers'
    BY <1>4, <1>b DEF Create, DiskCovers, OnDisk
  <2>7. NeverRewinds'
    BY <1>4, <1>b DEF Create, NeverRewinds
  <2>8. \A q \in Proc : Holder(q)' /\ Seeded(q)' /\ Counter(q)'
    BY <1>0, <1>b, <2>1, <2>2, <2>3, <2>4, OnlyTheHolder
  <2> QED
    BY <1>0, <2>5, <2>6, <2>7, <2>8 DEF ReservationIInv
<1>5. ASSUME NEW p \in Proc, RemoveTarget(p) PROVE ReservationIInv'
  <2>0. /\ stage'[p] = "removed" /\ pc[p] \in {"seed", "open", "reserve"} /\ lock = p
        /\ UNCHANGED <<survivors, lock, pc, key, res, next, limit, nextKey, issued>>
    BY <1>0, <1>b, <1>5 DEF RemoveTarget, ReservationTypeOK, Holder, source
  <2>1. pc[p] # "idle" /\ \A q \in Proc \ {p} : pc'[q] = pc[q] /\ stage'[q] = stage[q]
    BY <1>0, <1>5, <1>b DEF RemoveTarget, ReservationTypeOK, Holder
  <2>2. Holder(p)'
    BY <1>b, <2>0 DEF Holder
  <2>3. Seeded(p)'
    <3>1. \A left \in OnDisk' : left \in OnDisk \/ left.key = 0
      BY <1>5 DEF RemoveTarget, OnDisk, NoFile
    <3> QED
      BY <1>b, <2>0, <3>1 DEF Seeded
  <2>4. Counter(p)'
    <3>1. \A left \in OnDisk' : left \in OnDisk \/ left.key = 0
      BY <1>5 DEF RemoveTarget, OnDisk, NoFile
    <3> QED
      BY <1>b, <2>0, <3>1 DEF Counter
  <2>5. KeysMinted'
    <3>1. \A left \in OnDisk' : left \in OnDisk \/ left.key = 0
      BY <1>5 DEF RemoveTarget, OnDisk, NoFile
    <3> QED
      BY <1>a, <1>b, <2>0, <3>1 DEF KeysMinted
  <2>6. DiskCovers'
    <3>1. /\ file'.key = 0 /\ file'.res = 0 /\ survivors' = survivors
          /\ OnDisk' = survivors \cup {file'}
      BY <1>5 DEF RemoveTarget, OnDisk, NoFile
    <3>2. SpentBelow(issued, 0, 0)
      BY <1>a, <1>b, MintedFresh DEF KeysMinted
    <3>3. \A left \in survivors : /\ left.res <= MaxSeq
                                  /\ left.key = 0 => left.res = 0
                                  /\ SpentBelow(issued, left.key, left.res)
      BY <1>b DEF DiskCovers, OnDisk
    <3>4. \A left \in OnDisk' : left \in survivors \/ left = file'
      BY <3>1
    <3>5. /\ file'.res <= MaxSeq /\ file'.key = 0 /\ file'.res = 0
          /\ SpentBelow(issued', file'.key, file'.res)
      BY <2>0, <3>1, <3>2
    <3>6. \A left \in OnDisk' : /\ left.res <= MaxSeq
                                /\ left.key = 0 => left.res = 0
                                /\ SpentBelow(issued', left.key, left.res)
      BY <2>0, <3>3, <3>4, <3>5
    <3>7. \A left \in survivors' : left.key = file'.key => left.res <= file'.res
      BY <3>1, <3>3
    <3> QED
      BY <3>6, <3>7 DEF DiskCovers
  <2>7. NeverRewinds'
    BY <1>5, <1>b DEF RemoveTarget, NeverRewinds
  <2>8. \A q \in Proc : Holder(q)' /\ Seeded(q)' /\ Counter(q)'
    BY <1>0, <1>b, <2>1, <2>2, <2>3, <2>4, OnlyTheHolder
  <2> QED
    BY <1>0, <2>5, <2>6, <2>7, <2>8 DEF ReservationIInv
<1>6. ASSUME NEW p \in Proc, Rename(p) PROVE ReservationIInv'
  <2>0. /\ stage'[p] = "renamed" /\ pc[p] \in {"seed", "open", "reserve"} /\ lock = p
        /\ UNCHANGED <<lock, pc, key, res, next, limit, nextKey, issued>>
        /\ file'.key = key[p] /\ file'.res = res[p]
        /\ survivors' = survivors \cup {file'}
    BY <1>0, <1>b, <1>6 DEF Rename, ReservationTypeOK, Holder, source
  <2>1. /\ pc[p] # "idle"
        /\ \A q \in Proc \ {p} : pc'[q] = pc[q] /\ stage'[q] = stage[q]
    BY <1>0, <1>6, <2>0 DEF Rename, ReservationTypeOK
  <2>2. \A left \in OnDisk' : left \in OnDisk \/ left = file'
    BY <2>0 DEF OnDisk
  <2>3. /\ res[p] <= MaxSeq /\ key[p] # 0 /\ key[p] < nextKey
        /\ SpentBelow(issued, key[p], res[p])
        /\ \A left \in OnDisk : left.key = key[p] => left.res <= res[p]
    <3>1. CASE pc[p] = "seed"
      BY <1>a, <1>b, <3>1, SpentMonotone DEF Seeded, Holder
    <3>2. CASE pc[p] \in {"open", "reserve"}
      <4>1. /\ next[p] <= res[p] /\ res[p] <= MaxSeq
            /\ \A m \in Nat : m <= next[p] + ReservationBlock /\ m <= MaxSeq
                                => m <= res[p]
        BY <1>a, <1>b, <3>2, ReservationFacts DEF Counter
      <4>2. SpentBelow(issued, key[p], res[p])
        BY <1>a, <1>b, <3>2, <4>1, SpentMonotone DEF Counter
      <4>3. key[p] # 0 /\ key[p] < nextKey
        BY <1>b, <3>2 DEF Counter, Holder
      <4>4. \A left \in OnDisk : left.key = key[p] => left.res <= res[p]
        BY <1>a, <1>b, <3>2, <4>1 DEF Counter, DiskCovers
      <4> QED
        BY <4>1, <4>2, <4>3, <4>4
    <3> QED
      BY <2>0, <3>1, <3>2
  <2>4. Holder(p)' /\ Seeded(p)'
    BY <1>b, <2>0, <2>2 DEF Holder, Seeded
  <2>5. Counter(p)'
    <3>1. CASE pc[p] = "seed"
      BY <2>0, <3>1 DEF Counter
    <3>2. CASE pc[p] \in {"open", "reserve"}
      <4>1. /\ res[p] = Reservation(next[p])
            /\ pc[p] = "reserve" => limit[p] <= next[p]
            /\ next[p] <= MaxSeq
        BY <1>b, <3>2 DEF Counter
      <4>2. res[p] <= next[p] + ReservationBlock /\ next[p] <= res[p]
        BY <1>a, <4>1, ReservationFacts
      <4>3. pc[p] # "open" => limit[p] <= res[p]
        BY <1>a, <3>2, <4>1, <4>2
      <4> QED
        BY <1>b, <2>0, <2>2, <3>2, <4>2, <4>3 DEF Counter
    <3> QED
      BY <2>0, <3>1, <3>2
  <2>6. KeysMinted'
    BY <1>b, <2>0, <2>2, <2>3 DEF KeysMinted
  <2>7. DiskCovers'
    <3>1. \A left \in OnDisk' : /\ left.res <= MaxSeq
                                /\ left.key = 0 => left.res = 0
                                /\ SpentBelow(issued', left.key, left.res)
      BY <1>b, <2>0, <2>2, <2>3 DEF DiskCovers
    <3>2. \A left \in survivors' : left.key = file'.key => left.res <= file'.res
      BY <1>a, <2>0, <2>3 DEF OnDisk
    <3> QED
      BY <3>1, <3>2 DEF DiskCovers
  <2>8. NeverRewinds'
    BY <1>b, <2>0 DEF NeverRewinds
  <2>9. \A q \in Proc : Holder(q)' /\ Seeded(q)' /\ Counter(q)'
    BY <1>0, <1>b, <2>1, <2>4, <2>5, OnlyTheHolder
  <2> QED
    BY <1>0, <2>6, <2>7, <2>8, <2>9 DEF ReservationIInv
<1>7. ASSUME NEW p \in Proc, SyncParent(p) PROVE ReservationIInv'
  <2>0. /\ stage[p] = "renamed" /\ pc[p] \in {"seed", "open", "reserve"} /\ lock = p
        /\ file.key = key[p] /\ file.res = res[p]
        /\ survivors' = {file} /\ OnDisk' = {file}
        /\ UNCHANGED <<file, lock, nextKey, issued>>
    BY <1>0, <1>b, <1>7 DEF SyncParent, ReservationTypeOK, Holder, OnDisk
  <2>1. /\ pc[p] # "idle"
        /\ \A q \in Proc \ {p} : pc'[q] = pc[q] /\ stage'[q] = stage[q]
    BY ZenonT(60), <1>0, <1>7, <2>0 DEF SyncParent, WriteDone, ReservationTypeOK
  <2>2. Holder(p)' /\ Seeded(p)' /\ Counter(p)'
    <3>1. CASE pc[p] = "seed"
      <4>1. /\ pc'[p] = "open" /\ stage'[p] = "temp"
            /\ Open(p, key[p], res[p])
        BY <1>0, <1>7, <3>1 DEF SyncParent, WriteDone, ReservationTypeOK
      <4>2. /\ key'[p] = key[p]
            /\ next'[p] \in Nat /\ res[p] <= next'[p] /\ 1 <= next'[p]
            /\ res[p] <= MaxSeq => next'[p] <= MaxSeq
            /\ res'[p] = Reservation(next'[p])
        BY <1>0, <1>a, <4>1, OpenFacts
      <4>3. key[p] # 0 /\ res[p] = 1 /\ SpentBelow(issued, key[p], 0)
        BY <1>b, <3>1 DEF Seeded
      <4>4. SpentBelow(issued, key[p], next'[p])
        BY <1>a, <4>2, <4>3, SpentMonotone
      <4>5. key[p] < nextKey
        BY <1>b, <3>1 DEF Holder
      <4> QED
        BY <1>a, <2>0, <4>1, <4>2, <4>3, <4>4, <4>5 DEF Holder, Seeded, Counter
    <3>2. CASE pc[p] \in {"open", "reserve"}
      <4>1. /\ pc'[p] = "ready" /\ stage'[p] = "none"
            /\ limit'[p] = res[p]
            /\ UNCHANGED <<key, res, next>>
        BY <1>0, <1>7, <3>2 DEF SyncParent, WriteDone, ReservationTypeOK
      <4>2. key[p] < nextKey
        BY <1>b, <3>2 DEF Holder
      <4> QED
        BY <1>a, <1>b, <2>0, <3>2, <4>1, <4>2 DEF Holder, Seeded, Counter
    <3> QED
      BY <2>0, <3>1, <3>2
  <2>3. KeysMinted'
    BY <1>a, <1>b, <2>0 DEF KeysMinted
  <2>4. DiskCovers'
    BY <1>a, <1>b, <2>0 DEF DiskCovers
  <2>5. NeverRewinds'
    BY <1>b, <2>0 DEF NeverRewinds
  <2>6. \A q \in Proc : Holder(q)' /\ Seeded(q)' /\ Counter(q)'
    BY <1>0, <1>b, <2>1, <2>2, OnlyTheHolder
  <2> QED
    BY <1>0, <2>3, <2>4, <2>5, <2>6 DEF ReservationIInv
<1>8. ASSUME NEW p \in Proc, WriteFails(p) PROVE ReservationIInv'
  <2>0. pc[p] \in {"seed", "open", "reserve"}
    BY <1>8, <1>b DEF WriteFails, Holder
  <2>1. CASE pc[p] # "reserve"
    BY <1>0, <1>8, <2>0, <2>1, ReleaseStep DEF WriteFails
  <2>2. CASE pc[p] = "reserve"
    <3>1. /\ pc'[p] = "ready" /\ stage'[p] = "none"
          /\ UNCHANGED <<file, survivors, lock, key, res, next, limit, nextKey, issued>>
          /\ \A q \in Proc \ {p} : pc'[q] = pc[q] /\ stage'[q] = stage[q]
      BY <1>0, <1>8, <2>2 DEF WriteFails, ReservationTypeOK, source
    <3>2. OnDisk' = OnDisk
      BY <3>1 DEF OnDisk
    <3>3. Holder(p)' /\ Seeded(p)' /\ Counter(p)'
      BY <1>b, <2>2, <3>1, <3>2 DEF Holder, Seeded, Counter
    <3>4. KeysMinted' /\ DiskCovers' /\ NeverRewinds'
      BY <1>b, <3>1, <3>2 DEF KeysMinted, DiskCovers, NeverRewinds
    <3>5. \A q \in Proc : Holder(q)' /\ Seeded(q)' /\ Counter(q)'
      BY <1>0, <1>b, <2>2, <3>1, <3>3, OnlyTheHolder
    <3> QED
      BY <1>0, <3>4, <3>5 DEF ReservationIInv
  <2> QED
    BY <2>1, <2>2
<1>9. ASSUME NEW p \in Proc, Reserve(p) PROVE ReservationIInv'
  <2>1. /\ pc[p] = "ready" /\ pc'[p] = "reserve" /\ stage'[p] = "temp"
        /\ limit[p] <= next[p]
        /\ res'[p] = Reservation(next[p])
        /\ UNCHANGED <<file, survivors, lock, key, next, limit, nextKey, issued>>
        /\ \A q \in Proc \ {p} : pc'[q] = pc[q] /\ stage'[q] = stage[q]
    BY <1>0, <1>a, <1>9 DEF Reserve, ReservationTypeOK
  <2>2. OnDisk' = OnDisk
    BY <2>1 DEF OnDisk
  <2>3. Holder(p)' /\ Seeded(p)' /\ Counter(p)'
    BY <1>b, <2>1, <2>2 DEF Holder, Seeded, Counter
  <2>4. KeysMinted' /\ DiskCovers' /\ NeverRewinds'
    BY <1>b, <2>1, <2>2 DEF KeysMinted, DiskCovers, NeverRewinds
  <2>5. \A q \in Proc : Holder(q)' /\ Seeded(q)' /\ Counter(q)'
    BY <1>0, <1>b, <2>1, <2>3, OnlyTheHolder
  <2> QED
    BY <1>0, <2>4, <2>5 DEF ReservationIInv
<1>10. ASSUME NEW p \in Proc, NextSeq(p) PROVE ReservationIInv'
  <2>1. /\ pc[p] = "ready" /\ next[p] < limit[p] /\ next[p] < MaxSeq
        /\ next'[p] = next[p] + 1
        /\ issued' = Append(issued, <<key[p], next[p]>>)
        /\ UNCHANGED <<file, survivors, lock, pc, stage, key, res, limit, nextKey>>
    BY <1>0, <1>10 DEF NextSeq, ReservationTypeOK
  <2>2. OnDisk' = OnDisk
    BY <2>1 DEF OnDisk
  <2>3. /\ key[p] # 0 /\ key[p] < nextKey
        /\ SpentBelow(issued, key[p], next[p])
        /\ \A left \in OnDisk : left.key = key[p] =>
              /\ left.res <= next[p] + ReservationBlock
              /\ limit[p] <= left.res
    BY <1>b, <2>1 DEF Counter, Holder
  <2>4. SpentBelow(issued', key[p], next[p] + 1)
    BY <1>a, <2>1, <2>3, SpentMonotone, SpentAppend
  <2>5. Holder(p)' /\ Seeded(p)'
    BY <1>b, <2>1 DEF Holder, Seeded
  <2>6. Counter(p)'
    <3>1. \A left \in OnDisk' : left.key = key'[p] =>
              /\ left.res <= next'[p] + ReservationBlock
              /\ limit'[p] <= left.res
      BY <1>a, <2>1, <2>2, <2>3
    <3> QED
      BY <1>a, <2>1, <2>3, <2>4, <3>1 DEF Counter
  <2>7. KeysMinted'
    BY <1>a, <1>b, <2>1, <2>2, <2>3, MintedAppend DEF KeysMinted
  <2>8. DiskCovers'
    <3>1. ASSUME NEW left \in OnDisk PROVE SpentBelow(issued', left.key, left.res)
      <4>1. SpentBelow(issued, left.key, left.res)
        BY <1>b DEF DiskCovers
      <4>2. key[p] = left.key => next[p] < left.res
        BY <1>a, <2>1, <2>3
      <4> QED
        BY <1>a, <2>1, <4>1, <4>2, SpentAppend
    <3> QED
      BY <1>b, <2>1, <2>2, <3>1 DEF DiskCovers
  <2>9. NeverRewinds'
    BY <1>a, <1>b, <2>1, <2>3, IncreasingAppend DEF NeverRewinds
  <2>10. \A q \in Proc : Holder(q)' /\ Seeded(q)' /\ Counter(q)'
    BY <1>0, <1>b, <2>1, <2>5, <2>6, OnlyTheHolder
  <2> QED
    BY <1>0, <2>7, <2>8, <2>9, <2>10 DEF ReservationIInv
<1>11. ASSUME NEW p \in Proc, Crash(p) PROVE ReservationIInv'
  BY <1>0, <1>11, ReleaseStep DEF Crash
<1>12. CASE PowerLoss
  <2>1. /\ \A q \in Proc : pc'[q] = "idle" /\ stage'[q] = "none"
        /\ UNCHANGED <<nextKey, issued>>
        /\ file' \in survivors /\ survivors' = {file'} /\ OnDisk' = {file'}
    BY <1>12 DEF PowerLoss, OnDisk
  <2>2. file' \in OnDisk
    BY <2>1 DEF OnDisk
  <2>3. \A q \in Proc : Holder(q)' /\ Seeded(q)' /\ Counter(q)'
    BY <2>1 DEF Holder, Seeded, Counter
  <2>4. KeysMinted' /\ DiskCovers' /\ NeverRewinds'
    BY <1>a, <1>b, <2>1, <2>2 DEF KeysMinted, DiskCovers, NeverRewinds
  <2> QED
    BY <1>0, <2>3, <2>4 DEF ReservationIInv
<1>13. CASE UNCHANGED reservationVars
  BY <1>0, <1>b, <1>13 DEF reservationVars, ReservationIInv, Holder, Seeded, Counter, KeysMinted,
     DiskCovers, NeverRewinds, OnDisk
<1> QED
  BY <1>1, <1>2, <1>3, <1>4, <1>5, <1>6, <1>7, <1>8, <1>9, <1>10, <1>11, <1>12,
     <1>13 DEF ReservationNext, NodeStep

-----------------------------------------------------------------------------
(* The inductive invariant holds in every behaviour. *)
THEOREM ReservationInductive == ReservationSpec => []ReservationIInv
<1>1. ReservationInit => ReservationIInv
  <2> SUFFICES ASSUME ReservationInit PROVE ReservationIInv
    OBVIOUS
  <2>1. ReservationTypeOK
    BY DEF ReservationInit, ReservationTypeOK, NodeState, NoFile
  <2>2. issued = <<>> /\ Len(issued) = 0
    BY DEF ReservationInit
  <2>3. NeverRewinds /\ KeysMinted /\ DiskCovers
    BY <2>2 DEF ReservationInit, NeverRewinds, Increasing, KeysMinted, DiskCovers, OnDisk, NoFile,
       SpentBelow, MintedBelow
  <2>4. \A p \in Proc : Holder(p) /\ Seeded(p) /\ Counter(p)
    BY DEF ReservationInit, Holder, Seeded, Counter
  <2> QED
    BY <2>1, <2>3, <2>4 DEF ReservationIInv
<1> QED
  BY <1>1, ReservationStep, PTL DEF ReservationSpec

(* ReservedSeq never rewinds: under one pair key the sequences handed out  *)
(* strictly increase, for any processes, block size and sequence space,    *)
(* through every crash, power cut and failed write.                        *)
THEOREM NonceNeverReused == ReservationSpec => []NeverRewinds
<1>1. ReservationIInv => NeverRewinds
  BY DEF ReservationIInv
<1> QED
  BY <1>1, ReservationInductive, PTL

(* reserve() writes before next_seq hands out: whatever is left on disk    *)
(* counts every issued sequence as spent.                                  *)
THEOREM DiskIsAhead == ReservationSpec => []ReservedBeforeUse
<1>1. ReservationIInv => ReservedBeforeUse
  BY DEF ReservationIInv, DiskCovers, ReservedBeforeUse
<1> QED
  BY <1>1, ReservationInductive, PTL

(* A crash skips at most one reservation block. *)
THEOREM CrashIsCheap == ReservationSpec => []CrashSkipsOneBlock
<1>1. ReservationIInv => CrashSkipsOneBlock
  BY DEF ReservationIInv, Counter, CrashSkipsOneBlock
<1> QED
  BY <1>1, ReservationInductive, PTL

(* Where rename replaces, once a block is reserved no content that a crash *)
(* or a power cut may leave is an empty directory.                         *)
DiskNamed ==
    ~windows /\ (issued # <<>> \/ \E p \in Proc : pc[p] \in {"ready", "reserve"})
        => \A left \in OnDisk : left.key # 0

(* Each step keeps node.json under its name once it has been used. *)
LEMMA NamedStep == ReservationIInv /\ DiskNamed /\ [ReservationNext]_reservationVars => DiskNamed'
<1> SUFFICES ASSUME ReservationIInv, DiskNamed, [ReservationNext]_reservationVars PROVE DiskNamed'
  OBVIOUS
<1>0. ReservationTypeOK /\ windows' = windows
  BY DEF ReservationIInv, ReservationNext, reservationVars
<1>1. \A p \in Proc : Holder(p) /\ Seeded(p) /\ Counter(p)
  BY DEF ReservationIInv
<1> USE <1>0 DEF DiskNamed, OnDisk
<1>2. ASSUME NEW p \in Proc, LockNodeDir(p) \/ Acquire(p) \/ Create(p) \/ Reserve(p)
      PROVE  DiskNamed'
  BY <1>2 DEF LockNodeDir, Acquire, Create, Reserve, ReservationTypeOK
<1>3. ASSUME NEW p \in Proc, NotEnrolled(p) \/ Crash(p) PROVE DiskNamed'
  BY <1>3 DEF NotEnrolled, Crash, Release, ReservationTypeOK
<1>4. ASSUME NEW p \in Proc, RemoveTarget(p) PROVE DiskNamed'
  BY <1>4 DEF RemoveTarget
<1>5. ASSUME NEW p \in Proc, Rename(p) PROVE DiskNamed'
  <2>1. pc[p] \in {"seed", "open", "reserve"}
    BY <1>1, <1>5 DEF Rename, Holder, ReservationTypeOK
  <2>2. key[p] # 0
    BY <1>1, <2>1 DEF Seeded, Counter
  <2>3. file'.key = key[p] /\ survivors' = survivors \cup {file'} /\ issued' = issued /\ pc' = pc
    BY <1>5 DEF Rename
  <2> QED
    BY <2>2, <2>3
<1>6. ASSUME NEW p \in Proc, SyncParent(p) PROVE DiskNamed'
  <2>1. file.key = key[p] /\ pc[p] \in {"seed", "open", "reserve"}
    BY <1>1, <1>6 DEF SyncParent, Holder
  <2>2. key[p] # 0
    BY <1>1, <2>1 DEF Seeded, Counter
  <2> QED
    BY <1>6, <2>1, <2>2 DEF SyncParent
<1>7. ASSUME NEW p \in Proc, WriteFails(p) PROVE DiskNamed'
  <2>1. CASE pc[p] = "reserve"
    BY <1>7, <2>1 DEF WriteFails, ReservationTypeOK
  <2>2. CASE pc[p] # "reserve"
    BY <1>7, <2>2 DEF WriteFails, Release, ReservationTypeOK
  <2> QED
    BY <2>1, <2>2
<1>8. ASSUME NEW p \in Proc, NextSeq(p) PROVE DiskNamed'
  BY <1>8 DEF NextSeq
<1>9. CASE PowerLoss
  BY <1>9 DEF PowerLoss
<1>10. CASE UNCHANGED reservationVars
  BY <1>10 DEF reservationVars
<1> QED
  BY <1>2, <1>3, <1>4, <1>5, <1>6, <1>7, <1>8, <1>9, <1>10 DEF ReservationNext, NodeStep

(* write_node_state is atomic where rename replaces: an identity that has  *)
(* handed out a sequence is never gone, for any processes and sizes.       *)
THEOREM IdentityNeverLost == ReservationSpec => []IdentityKept
<1>1. ReservationInit => DiskNamed
  BY DEF ReservationInit, DiskNamed
<1>2. DiskNamed => IdentityKept
  BY DEF DiskNamed, IdentityKept, Enrolled, OnDisk
<1> QED
  BY <1>1, <1>2, NamedStep, ReservationInductive, PTL DEF ReservationSpec
=============================================================================
