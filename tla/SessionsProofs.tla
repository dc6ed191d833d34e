--------------------------- MODULE SessionsProofs ---------------------------
(***************************************************************************)
(* The turns of a conversation never overlap, one child at most carries    *)
(* its context, a turn takes the answer to its own prompt and what a reset *)
(* dropped is not bound again: for any number of turns, records and close  *)
(* calls.                                                                  *)
(***************************************************************************)
EXTENDS Sessions, WellFoundedInduction, TLAPS

-----------------------------------------------------------------------------
(* What the type invariant says. *)

LEMMA TurnTyped ==
    ASSUME TypeOK
    PROVE  /\ \A t \in Turns : /\ turn[t].lock \in Nat /\ turn[t].ticket \in Nat
                               /\ turn[t].id \in Nat /\ turn[t].child \in Nat
                               /\ turn[t].class \in {"Unbound", "Bounded"}
           /\ asked \in Nat /\ chain \in Nat /\ nextLock \in Nat
BY DEF TypeOK, TurnState

(* The id given out next is greater than those in use. *)
LEMMA Fresh ==
    ASSUME TypeOK, GivenOut
    PROVE  /\ nextId \in Nat \ {0} /\ nextId \notin Ids
           /\ \A i \in Ids : i \in Nat /\ i < nextId
           /\ \A t \in Turns : turn[t].id \in Nat /\ turn[t].id < nextId
BY DEF TypeOK, GivenOut, TurnState, Ids

LEMMA RecordTyped ==
    ASSUME TypeOK
    PROVE  /\ \A i \in Ids : /\ sessions[i] \in Entry /\ sessions[i].live \in Nat
                             /\ sessions[i].abort \in Turns \union {NoTurn}
           /\ Len(child) \in Nat
BY DEF TypeOK, Entry, Ids

LEMMA ChildTyped ==
    ASSUME TypeOK, NEW c \in DOMAIN child
    PROVE  /\ child[c] \in ChildState /\ child[c].open \in BOOLEAN
           /\ child[c].prompts \in Seq(Turns) /\ child[c].results \in Seq(Turns)
           /\ child[c].prompts # <<>> => Head(child[c].prompts) \in Turns
           /\ child[c].results # <<>> => Head(child[c].results) \in Turns
<1>1. child[c] \in ChildState
  BY DEF TypeOK
<1>2. child[c].prompts \in Seq(Turns) /\ child[c].results \in Seq(Turns) /\ child[c].open \in BOOLEAN
  BY <1>1 DEF ChildState
<1>3. ASSUME NEW s \in Seq(Turns), s # <<>>
      PROVE  Head(s) \in Turns
  BY <1>3
<1> QED
  BY <1>1, <1>2, <1>3

LEMMA NoneIn == <<>> \in Seq(Turns)
OBVIOUS

LEMMA QueueTyped ==
    ASSUME NEW s \in Seq(Turns)
    PROVE  /\ s # <<>> => Tail(s) \in Seq(Turns) /\ Head(s) \in Turns
           /\ \A t \in Turns : Append(s, t) \in Seq(Turns)
OBVIOUS

LEMMA ChildChanged ==
    ASSUME NEW e \in ChildState, NEW p \in Seq(Turns), NEW r \in Seq(Turns)
    PROVE  /\ [e EXCEPT !.open = FALSE, !.prompts = p] \in ChildState
           /\ [e EXCEPT !.prompts = p, !.results = r] \in ChildState
           /\ [e EXCEPT !.prompts = p] \in ChildState /\ [e EXCEPT !.results = r] \in ChildState
           /\ [e EXCEPT !.takes = FALSE] \in ChildState
BY DEF ChildState

(* What a change to one child leaves alone. *)
LEMMA ChildSet ==
    ASSUME TypeOK, NEW k \in DOMAIN child, NEW e \in ChildState, child' = [child EXCEPT ![k] = e]
    PROVE  /\ child' \in Seq(ChildState) /\ DOMAIN child' = DOMAIN child /\ Len(child') = Len(child)
           /\ child'[k] = e /\ \A c \in DOMAIN child : c # k => child'[c] = child[c]
<1>1. child \in Seq(ChildState)
  BY DEF TypeOK
<1> QED
  BY <1>1

LEMMA ChildAdded ==
    ASSUME TypeOK, NEW e \in ChildState, child' = Append(child, e)
    PROVE  /\ child' \in Seq(ChildState) /\ Len(child') = Len(child) + 1
           /\ DOMAIN child' = DOMAIN child \union {Len(child')}
           /\ child'[Len(child')] = e /\ \A c \in DOMAIN child : c < Len(child') /\ child'[c] = child[c]
<1>1. child \in Seq(ChildState)
  BY DEF TypeOK
<1>2. child' \in Seq(ChildState) /\ Len(child') = Len(child) + 1
  BY <1>1
<1>3. DOMAIN child' = DOMAIN child \union {Len(child')}
  BY <1>1, <1>2
<1> QED
  BY <1>1, <1>2, <1>3

(* A set of naturals has a least element, < being well-founded. *)
LEMMA Lowest ==
    ASSUME NEW S \in SUBSET Nat, S # {}
    PROVE  Min(S) \in S /\ \A j \in S : Min(S) <= j
<1> DEFINE R == {ss \in Nat \X Nat : ss[1] < ss[2]}
<1>1. OpToRel(<, Nat) = R
  BY Zenon DEF OpToRel
<1>2. IsWellFoundedOn(R, Nat)
  BY <1>1, NatLessThanWellFounded, Zenon
<1> HIDE DEF R
<1>3. PICK k \in S : \A j \in S : <<j, k>> \notin R
  BY <1>2, WFMin
<1>4. ASSUME NEW j \in S
      PROVE  k <= j
  <2>1. j < k => <<j, k>> \in R
    BY Zenon DEF R
  <2>2. ~(j < k)
    BY <1>3, <2>1
  <2> QED
    BY <2>2
<1> QED
  BY <1>4 DEF Min

-----------------------------------------------------------------------------
(* What is given out stays within bounds: an id, a ticket or a child that is *)
(* new is the next one.                                                      *)
LEMMA GivenOutKept ==
    ASSUME TypeOK, GivenOut, closing' = closing,
           nextId' \in {nextId, nextId + 1}, asked' \in {asked, asked + 1},
           Len(child') \in {Len(child), Len(child) + 1},
           DOMAIN sessions' \subseteq Ids \union (nextId..(nextId' - 1)),
           \A i \in DOMAIN sessions' :
                sessions'[i].live \in {0, Len(child')} \/ (i \in Ids /\ sessions'[i].live = sessions[i].live),
           \A u \in Turns :
                /\ turn'[u].id = 0 \/ turn'[u].id = turn[u].id \/ (turn'[u].id = nextId /\ nextId' = nextId + 1)
                /\ turn'[u].ticket \in {0, turn[u].ticket, asked'}
                /\ turn'[u].child \in {0, turn[u].child, Len(child')}
    PROVE  GivenOut'
<1>1. Len(child) \in Nat /\ nextId \in Nat \ {0} /\ asked \in Nat
  BY RecordTyped, Fresh, TurnTyped
<1>2. nextId <= nextId' /\ nextId' \in Nat /\ asked <= asked' /\ asked' \in Nat
      /\ Len(child) <= Len(child') /\ Len(child') \in Nat
  BY <1>1
<1>3. Ids' \subseteq 1..(nextId' - 1)
  <2>1. Ids \subseteq 1..(nextId - 1)
    BY DEF GivenOut
  <2> QED
    BY <1>1, <1>2, <2>1 DEF Ids
<1>4. ASSUME NEW i \in DOMAIN sessions'
      PROVE  sessions'[i].live <= Len(child')
  <2>1. i \in Ids => sessions[i].live <= Len(child) /\ sessions[i].live \in Nat
    BY RecordTyped DEF GivenOut
  <2>2. sessions'[i].live \in {0, Len(child')} \/ (i \in Ids /\ sessions'[i].live = sessions[i].live)
    BY <1>4
  <2> QED
    BY <1>1, <1>2, <2>1, <2>2
<1>5. ASSUME NEW u \in Turns
      PROVE  turn'[u].id < nextId' /\ turn'[u].ticket <= asked' /\ turn'[u].child <= Len(child')
  <2>1. turn[u].id < nextId /\ turn[u].ticket <= asked /\ turn[u].child <= Len(child)
        /\ turn[u].id \in Nat /\ turn[u].ticket \in Nat /\ turn[u].child \in Nat
    BY TurnTyped DEF GivenOut
  <2>2. turn'[u].id < nextId'
    BY <1>1, <1>2, <2>1
  <2>3. turn'[u].ticket <= asked'
    BY <1>1, <1>2, <2>1
  <2>4. turn'[u].child <= Len(child')
    BY <1>1, <1>2, <2>1
  <2> QED
    BY <2>2, <2>3, <2>4
<1>6. ASSUME NEW c \in closing
      PROVE  c[2] <= Len(child')
  <2>1. c[2] <= Len(child) /\ c[2] \in Nat
    BY DEF GivenOut, TypeOK
  <2> QED
    BY <1>1, <1>2, <2>1
<1> QED
  BY <1>3, <1>4, <1>5, <1>6 DEF GivenOut, Ids

(* A child's prompt stays in flight while the turn that waits for it does. *)
LEMMA InFlightKept ==
    ASSUME TypeOK, InFlight, UNCHANGED <<child, graced>>,
           \A u \in Turns : \A c \in DOMAIN child :
               Awaits(u, c) /\ (child[c].prompts # <<>> \/ child[c].results # <<>>) => Awaits(u, c)'
    PROVE  InFlight'
<1> SUFFICES ASSUME ~graced, NEW c \in DOMAIN child
             PROVE  /\ Len(child[c].prompts) + Len(child[c].results) <= 1
                    /\ child[c].prompts # <<>> => Awaits(Head(child[c].prompts), c)'
                    /\ child[c].results # <<>> => Awaits(Head(child[c].results), c)'
  BY DEF InFlight, Awaits, Waits
<1>1. /\ Len(child[c].prompts) + Len(child[c].results) <= 1
      /\ child[c].prompts # <<>> => Awaits(Head(child[c].prompts), c)
      /\ child[c].results # <<>> => Awaits(Head(child[c].results), c)
  BY DEF InFlight
<1> QED
  BY <1>1, ChildTyped DEF Awaits, Waits

(* A turn under way is served by the oldest open record of its conversation. *)
LEMMA Serves ==
    ASSUME TypeOK, Stages, TurnServed, NEW t \in Turns, turn[t].pc \notin {"new", "queued", "done"},
           turn[t].id \in Unbounds
    PROVE  /\ turn[t].class = "Unbound" /\ InTurn(t)
           /\ \A j \in Unbounds : (j # turn[t].id => sessions[j].live = 0) /\ (j < turn[t].id => Over(j))
           /\ turn[t].pc = "spawning" => sessions[turn[t].id].live = 0
BY TurnTyped DEF TurnServed, Served, InTurn

(* One of two short queues moves to the other. *)
LEMMA OneMoved ==
    ASSUME NEW S, NEW p \in Seq(S), NEW r \in Seq(S), p # <<>>, Len(p) + Len(r) <= 1
    PROVE  Tail(p) = <<>> /\ r = <<>> /\ Append(r, Head(p)) = <<Head(p)>>
<1>1. Len(p) \in Nat /\ Len(r) \in Nat /\ Len(p) # 0
  OBVIOUS
<1>a. ASSUME NEW m \in Nat, NEW n \in Nat, m # 0, m + n <= 1
      PROVE  m = 1 /\ n = 0
  BY <1>a
<1>2. Len(p) = 1 /\ Len(r) = 0
  BY <1>1, <1>a
<1>3. r = <<>>
  BY <1>2
<1>4. Tail(p) \in Seq(S) /\ Len(Tail(p)) = 0
  BY <1>2
<1>5. Tail(p) = <<>>
  BY <1>4
<1>6. Append(<<>>, Head(p)) = <<Head(p)>>
  OBVIOUS
<1> QED
  BY <1>3, <1>5, <1>6

(* Who is under way asked for the lock before the others, so it is alone. *)
LEMMA Serialized ==
    ASSUME TypeOK, Stages, Lined
    PROVE  TurnsSerialized
<1> SUFFICES ASSUME NEW t \in Turns, NEW u \in Turns, InTurn(t), InTurn(u), t # u
             PROVE  FALSE
  BY DEF TurnsSerialized
<1>1. turn[t].lock # 0 /\ turn[u].lock # 0
  BY DEF Stages, Stage, InTurn
<1>2. turn[t].ticket < turn[u].ticket /\ turn[u].ticket < turn[t].ticket
  BY <1>1 DEF Lined
<1> QED
  BY <1>2, TurnTyped

-----------------------------------------------------------------------------
(* The steps. *)

(* A new record is younger than all and has no child. *)
LEMMA OpenStep ==
    ASSUME IInv, NEW class \in {"Unbound", "Bounded"}, Open(class)
    PROVE  IInv'
<1>1. /\ TypeOK /\ GivenOut /\ Stages /\ Lined /\ BoundIsOver
      /\ OldestServes /\ TurnServed /\ Silent /\ OneWaits /\ InFlight /\ OwnAnswer
  BY DEF IInv
<1>2. UNCHANGED <<interactive, chain, nextLock, asked, turn, fired, binding, child, closing, dropped,
                  graced, closes>>
  BY DEF Open, records, locks, history
<1>3. OpenOnes = {}
  BY DEF Open
<1>4. /\ DOMAIN sessions' = Ids \union {nextId} /\ nextId' = nextId + 1 /\ nextId \notin Ids
      /\ \A i \in Ids : sessions'[i] = sessions[i]
      /\ sessions'[nextId].class = class /\ sessions'[nextId].phase = "Idle"
      /\ sessions'[nextId].live = 0
  BY <1>1 DEF TypeOK, GivenOut, Entry, Ids, Open, WithNew
<1>5. sessions' \in [DOMAIN sessions' -> Entry]
  BY <1>1 DEF TypeOK, Entry, Ids, Phases, Terminal, Open, WithNew
<1>6. TypeOK'
  BY <1>1, <1>2, <1>5, SessionsAssumption DEF TypeOK, Ids, Open
<1>7. GivenOut'
  <2>1. Ids' \subseteq 1..(nextId' - 1) /\ \A i \in Ids' : sessions'[i].live <= Len(child')
    BY <1>1, <1>2, <1>4, Fresh, RecordTyped DEF GivenOut, Ids
  <2>2. \A c \in closing' : c[2] <= Len(child')
    BY <1>1, <1>2, <1>4, RecordTyped DEF GivenOut, TypeOK
  <2>3. \A u \in Turns : turn'[u].id < nextId' /\ turn'[u].ticket <= asked' /\ turn'[u].child <= Len(child')
    BY <1>1, <1>2, <1>4, Fresh, TurnTyped, RecordTyped DEF GivenOut
  <2> QED
    BY <2>1, <2>2, <2>3 DEF GivenOut, Ids
<1>8. Stages'
  BY <1>1, <1>2 DEF Stages, Stage, Attached
<1>9. Lined'
  BY <1>1, <1>2 DEF Lined, InTurn
<1>10. BoundIsOver'
  BY <1>1, <1>2 DEF BoundIsOver, ResetSticks
<1>11. OldestServes'
  BY <1>1, <1>2, <1>3, <1>4, Fresh DEF OldestServes, Unbounds, Ids, Over, Terminal
<1>12. TurnServed'
  BY <1>1, <1>2, <1>3, <1>4, Fresh DEF TurnServed, Served, Unbounds, Ids, Over, InTurn,
     Terminal
<1>13. Silent'
  BY <1>1, <1>2 DEF Silent
<1>14. OneWaits'
  BY <1>1, <1>2 DEF OneWaits, Waits
<1>15. InFlight'
  BY <1>1, <1>2 DEF InFlight, Awaits, Waits
<1>16. OwnAnswer'
  BY <1>1, <1>2 DEF OwnAnswer
<1> QED
  BY <1>6, <1>7, <1>8, <1>9, <1>10, <1>11, <1>12, <1>13, <1>14, <1>15, <1>16 DEF IInv

(* So is the row of an observation. *)
LEMMA ObserveStep ==
    ASSUME IInv, Observe
    PROVE  IInv'
<1>1. /\ TypeOK /\ GivenOut /\ Stages /\ Lined /\ BoundIsOver
      /\ OldestServes /\ TurnServed /\ Silent /\ OneWaits /\ InFlight /\ OwnAnswer
  BY DEF IInv
<1>2. UNCHANGED <<interactive, chain, nextLock, asked, turn, fired, binding, child, closing, dropped,
                  graced, closes>>
  BY DEF Observe, records, locks, history
<1>3. Ids = {}
  BY DEF Observe
<1>4. /\ DOMAIN sessions' = Ids \union {nextId} /\ nextId' = nextId + 1 /\ nextId \notin Ids
      /\ \A i \in Ids : sessions'[i] = sessions[i]
      /\ sessions'[nextId].class = "Unbound" /\ sessions'[nextId].phase = "Live"
      /\ sessions'[nextId].live = 0
  BY <1>1 DEF TypeOK, GivenOut, Entry, Ids, Observe, WithNew
<1>5. sessions' \in [DOMAIN sessions' -> Entry]
  BY <1>1 DEF TypeOK, Entry, Ids, Phases, Terminal, Observe, WithNew
<1>6. TypeOK'
  BY <1>1, <1>2, <1>5, SessionsAssumption DEF TypeOK, Ids, Observe
<1>7. GivenOut'
  <2>1. Ids' \subseteq 1..(nextId' - 1) /\ \A i \in Ids' : sessions'[i].live <= Len(child')
    BY <1>1, <1>2, <1>4, Fresh, RecordTyped DEF GivenOut, Ids
  <2>2. \A c \in closing' : c[2] <= Len(child')
    BY <1>1, <1>2, <1>4, RecordTyped DEF GivenOut, TypeOK
  <2>3. \A u \in Turns : turn'[u].id < nextId' /\ turn'[u].ticket <= asked' /\ turn'[u].child <= Len(child')
    BY <1>1, <1>2, <1>4, Fresh, TurnTyped, RecordTyped DEF GivenOut
  <2> QED
    BY <2>1, <2>2, <2>3 DEF GivenOut, Ids
<1>8. Stages'
  BY <1>1, <1>2 DEF Stages, Stage, Attached
<1>9. Lined'
  BY <1>1, <1>2 DEF Lined, InTurn
<1>10. BoundIsOver'
  BY <1>1, <1>2 DEF BoundIsOver, ResetSticks
<1>11. OldestServes'
  BY <1>1, <1>2, <1>3, <1>4, Fresh DEF OldestServes, Unbounds, Ids, Over, Terminal
<1>12. TurnServed'
  BY <1>1, <1>2, <1>3, <1>4, Fresh DEF TurnServed, Served, Unbounds, Ids, Over, InTurn,
     Terminal
<1>13. Silent'
  BY <1>1, <1>2 DEF Silent
<1>14. OneWaits'
  BY <1>1, <1>2 DEF OneWaits, Waits
<1>15. InFlight'
  BY <1>1, <1>2 DEF InFlight, Awaits, Waits
<1>16. OwnAnswer'
  BY <1>1, <1>2 DEF OwnAnswer
<1> QED
  BY <1>6, <1>7, <1>8, <1>9, <1>10, <1>11, <1>12, <1>13, <1>14, <1>15, <1>16 DEF IInv

(* A close only takes a record's child away and ends the record. *)
LEMMA CloseStep ==
    ASSUME IInv, NEW id \in Ids, Close(id)
    PROVE  IInv'
<1>1. /\ TypeOK /\ GivenOut /\ Stages /\ Lined /\ BoundIsOver
      /\ OldestServes /\ TurnServed /\ Silent /\ OneWaits /\ InFlight /\ OwnAnswer
  BY DEF IInv
<1>2. UNCHANGED <<interactive, nextId, chain, nextLock, asked, turn, binding, child, dropped,
                  graced>>
  BY DEF Close, records, locks, history
<1>3. id \in Ids
  BY DEF Close
<1>4. sessions' = Update(id, [sessions[id] EXCEPT !.phase = "Closed", !.live = 0])
  BY DEF Close
<1>5. /\ DOMAIN sessions' = Ids /\ \A i \in Ids : i # id => sessions'[i] = sessions[i]
      /\ sessions'[id].class = sessions[id].class /\ sessions'[id].phase = "Closed"
      /\ sessions'[id].live = 0
  BY <1>1, <1>4, <1>3 DEF TypeOK, Entry, Ids, Update
<1>6. sessions' \in [DOMAIN sessions' -> Entry]
  <2>1. id \in Ids => sessions[id] \in Entry
    BY <1>1 DEF TypeOK
  <2>2. id \in Ids => [sessions[id] EXCEPT !.phase = "Closed", !.live = 0] \in Entry
    BY <2>1 DEF Entry, Phases, Terminal
  <2> QED
    BY <1>1, <1>4, <1>5, <2>2 DEF TypeOK, Update
<1>7. fired' \subseteq Turns /\ closing' \subseteq Nat \X Nat /\ closes' \in Nat
  <2>1. sessions[id].abort \in Turns \union {NoTurn} /\ sessions[id].live \in Nat /\ id \in Nat
    BY <1>1, RecordTyped, Fresh
  <2>2. fired \subseteq Turns /\ closing \subseteq Nat \X Nat /\ closes \in Nat
    BY <1>1 DEF TypeOK
  <2> QED
    BY <2>1, <2>2 DEF Close
<1>8. TypeOK'
  BY <1>1, <1>2, <1>6, <1>7, SessionsAssumption DEF TypeOK, Ids, Close
<1>9. GivenOut'
  BY <1>1, <1>2, <1>3, <1>5, <1>7, TurnTyped, RecordTyped DEF Close, GivenOut, Ids
<1>10. Stages'
  BY <1>1, <1>2 DEF Stages, Stage, Attached
<1>11. Lined'
  BY <1>1, <1>2 DEF Lined, InTurn
<1>12. BoundIsOver'
  BY <1>1, <1>2 DEF BoundIsOver, ResetSticks
<1>13. OldestServes'
  BY <1>1, <1>2, <1>3, <1>5 DEF OldestServes, Unbounds, Ids, Over, Terminal
<1>14. TurnServed'
  BY <1>1, <1>2, <1>3, <1>5 DEF TurnServed, Served, Unbounds, Ids, Over, InTurn, Terminal
<1>15. Silent'
  BY <1>1, <1>2 DEF Silent
<1>16. OneWaits'
  BY <1>1, <1>2 DEF OneWaits, Waits
<1>17. InFlight'
  BY <1>1, <1>2 DEF InFlight, Awaits, Waits
<1>18. OwnAnswer'
  BY <1>1, <1>2 DEF OwnAnswer
<1> QED
  BY <1>8, <1>9, <1>10, <1>11, <1>12, <1>13, <1>14, <1>15, <1>16, <1>17, <1>18 DEF IInv

(* The child that a close took away dies; what it answered stays to be read. *)
LEMMA ReapStep ==
    ASSUME IInv, NEW c \in closing, Reap(c)
    PROVE  IInv'
<1>1. /\ TypeOK /\ GivenOut /\ Stages /\ Lined /\ BoundIsOver
      /\ OldestServes /\ TurnServed /\ Silent /\ OneWaits /\ InFlight /\ OwnAnswer
  BY DEF IInv
<1>2. UNCHANGED <<interactive, sessions, nextId, chain, nextLock, asked, turn, fired, binding,
                  dropped, graced, closes>>
  BY DEF Reap, records, locks, history
<1>3. c[2] # 0 /\ c[2] <= Len(child)
  BY <1>1 DEF Reap, GivenOut
<1>4. c[2] \in DOMAIN child
  BY <1>1, <1>3 DEF TypeOK
<1>5. /\ child' \in Seq(ChildState) /\ DOMAIN child' = DOMAIN child /\ Len(child') = Len(child)
      /\ \A d \in DOMAIN child : d # c[2] => child'[d] = child[d]
      /\ child'[c[2]].open = FALSE /\ child'[c[2]].prompts = <<>>
      /\ child'[c[2]].results = child[c[2]].results
  <2>1. c[2] \in DOMAIN child /\ child[c[2]] \in ChildState
    BY <1>1, <1>4, ChildTyped
  <2> DEFINE n == [child[c[2]] EXCEPT !.open = FALSE, !.prompts = <<>>]
  <2>2. child' = [child EXCEPT ![c[2]] = n]
    BY DEF Reap
  <2>3. n \in ChildState
    BY <1>1, <1>3, <2>1, ChildChanged, NoneIn, ChildTyped
  <2>4. /\ n.open = FALSE
        /\ n.prompts = <<>>
        /\ n.results = child[c[2]].results
    BY <1>3, <2>1 DEF ChildState
  <2> HIDE DEF n
  <2> QED
    BY <1>1, <2>1, <2>2, <2>3, <2>4, ChildSet
<1>6. closing' \subseteq Nat \X Nat
  BY <1>1 DEF Reap, TypeOK
<1>7. TypeOK'
  BY <1>1, <1>2, <1>5, <1>6, <1>4, SessionsAssumption DEF TypeOK, Ids, Reap
<1>8. GivenOut'
  BY <1>1, <1>2, <1>3, <1>5, <1>6, TurnTyped, RecordTyped DEF Reap, GivenOut, Ids
<1>9. Stages'
  BY <1>1, <1>2 DEF Stages, Stage, Attached
<1>10. Lined'
  BY <1>1, <1>2 DEF Lined, InTurn
<1>11. BoundIsOver'
  BY <1>1, <1>2 DEF BoundIsOver, ResetSticks
<1>12. OldestServes'
  BY <1>1, <1>2 DEF OldestServes, Unbounds, Ids, Over
<1>13. TurnServed'
  BY <1>1, <1>2 DEF TurnServed, Served, Unbounds, Ids, Over, InTurn
<1>14. Silent'
  BY <1>1, <1>2, <1>3, <1>5 DEF Silent
<1>15. OneWaits'
  BY <1>1, <1>2, <1>3, <1>5 DEF OneWaits, Waits
<1>16. InFlight'
  <2> SUFFICES ASSUME ~graced, NEW d \in DOMAIN child
               PROVE  /\ Len(child'[d].prompts) + Len(child'[d].results) <= 1
                      /\ child'[d].prompts # <<>> => Awaits(Head(child[d].prompts), d)'
                      /\ child'[d].results # <<>> => Awaits(Head(child[d].results), d)'
    BY <1>2, <1>5 DEF InFlight
  <2>1. d \in DOMAIN child =>
            /\ Len(child[d].prompts) + Len(child[d].results) <= 1
            /\ child[d].prompts # <<>> => Awaits(Head(child[d].prompts), d)
            /\ child[d].results # <<>> => Awaits(Head(child[d].results), d)
    BY <1>1 DEF InFlight
  <2>2. CASE d # c[2]
    BY <1>1, <1>2, <1>3, <1>5, <2>1, <2>2, ChildTyped DEF Awaits, Waits
  <2>3. CASE d = c[2]
    <3>1. child[d].prompts \in Seq(Turns) /\ child[d].results \in Seq(Turns) /\ d \in DOMAIN child
      BY <1>1, ChildTyped
    <3>2. /\ Len(child'[d].prompts) = 0 /\ Len(child[d].prompts) \in Nat
          /\ Len(child[d].results) \in Nat
             /\ child'[d].results = child[d].results /\ child'[d].prompts = <<>>
      BY <1>5, <2>3, <3>1
    <3>3. ASSUME NEW m \in Nat, NEW n \in Nat, m + n <= 1
          PROVE  0 + n <= 1
      BY <3>3
    <3> QED
      BY <1>2, <2>1, <3>1, <3>2, <3>3 DEF Awaits, Waits
  <2> QED
    BY <2>2, <2>3
<1>17. OwnAnswer'
  BY <1>1, <1>2 DEF OwnAnswer
<1> QED
  BY <1>7, <1>8, <1>9, <1>10, <1>11, <1>12, <1>13, <1>14, <1>15, <1>16, <1>17 DEF IInv

(* The lock goes only when no turn has a reference to it, so none is lined up. *)
LEMMA PruneStep ==
    ASSUME IInv, NEW c \in closing, Prune(c)
    PROVE  IInv'
<1>1. /\ TypeOK /\ GivenOut /\ Stages /\ Lined /\ BoundIsOver
      /\ OldestServes /\ TurnServed /\ Silent /\ OneWaits /\ InFlight /\ OwnAnswer
  BY DEF IInv
<1>2. UNCHANGED <<interactive, sessions, nextId, nextLock, asked, turn, fired, binding, child,
                  dropped, graced, closes>>
  BY DEF Prune, records, locks, history
<1>3. chain' = chain \/ (chain' = 0 /\ Unshared)
  BY DEF Prune
<1>4. TypeOK'
  BY <1>1, <1>2, SessionsAssumption DEF TypeOK, Ids, Prune
<1>5. GivenOut'
  BY <1>1, <1>2, <1>3, TurnTyped, RecordTyped DEF Prune, GivenOut, Ids
<1>6. Stages'
  BY <1>1, <1>2 DEF Stages, Stage, Attached
<1>7. Lined'
  BY <1>1, <1>2, <1>3 DEF Lined, InTurn, Unshared, TypeOK, TurnState
<1>8. BoundIsOver'
  BY <1>1, <1>2 DEF BoundIsOver, ResetSticks
<1>9. OldestServes'
  BY <1>1, <1>2 DEF OldestServes, Unbounds, Ids, Over
<1>10. TurnServed'
  BY <1>1, <1>2 DEF TurnServed, Served, Unbounds, Ids, Over, InTurn
<1>11. Silent'
  BY <1>1, <1>2 DEF Silent
<1>12. OneWaits'
  BY <1>1, <1>2 DEF OneWaits, Waits
<1>13. InFlight'
  BY <1>1, <1>2 DEF InFlight, Awaits, Waits
<1>14. OwnAnswer'
  BY <1>1, <1>2 DEF OwnAnswer
<1> QED
  BY <1>4, <1>5, <1>6, <1>7, <1>8, <1>9, <1>10, <1>11, <1>12, <1>13, <1>14 DEF IInv

(* A record that is over goes; a turn may still be on its way through it. *)
LEMMA ForgetStep ==
    ASSUME IInv, NEW id \in Ids, Forget(id)
    PROVE  IInv'
<1>1. /\ TypeOK /\ GivenOut /\ Stages /\ Lined /\ BoundIsOver
      /\ OldestServes /\ TurnServed /\ Silent /\ OneWaits /\ InFlight /\ OwnAnswer
  BY DEF IInv
<1>2. UNCHANGED <<interactive, nextId, chain, nextLock, asked, turn, fired, binding, child, closing,
                  dropped, graced, closes>>
  BY DEF Forget, records, locks, history
<1>3. id \in Ids /\ Over(id)
  BY DEF Forget, Over
<1>4. /\ DOMAIN sessions' = Ids \ {id} /\ \A i \in Ids : i # id => sessions'[i] = sessions[i]
  BY <1>1 DEF TypeOK, GivenOut, Entry, Ids, Forget
<1>5. sessions' \in [DOMAIN sessions' -> Entry]
  BY <1>1 DEF TypeOK, Entry, Ids, Phases, Terminal, Forget
<1>6. TypeOK'
  BY <1>1, <1>2, <1>5, SessionsAssumption DEF TypeOK, Ids
<1>7. GivenOut'
  BY <1>1, <1>2, <1>3, <1>4, TurnTyped, RecordTyped DEF GivenOut, Ids
<1>8. Stages'
  BY <1>1, <1>2 DEF Stages, Stage, Attached
<1>9. Lined'
  BY <1>1, <1>2 DEF Lined, InTurn
<1>10. BoundIsOver'
  BY <1>1, <1>2 DEF BoundIsOver, ResetSticks
<1>11. OldestServes'
  BY <1>1, <1>2, <1>3, <1>4 DEF OldestServes, Unbounds, Ids, Over, Terminal
<1>12. TurnServed'
  BY <1>1, <1>2, <1>3, <1>4 DEF TurnServed, Served, Unbounds, Ids, Over, InTurn, Terminal
<1>13. Silent'
  BY <1>1, <1>2 DEF Silent
<1>14. OneWaits'
  BY <1>1, <1>2 DEF OneWaits, Waits
<1>15. InFlight'
  BY <1>1, <1>2 DEF InFlight, Awaits, Waits
<1>16. OwnAnswer'
  BY <1>1, <1>2 DEF OwnAnswer
<1> QED
  BY <1>6, <1>7, <1>8, <1>9, <1>10, <1>11, <1>12, <1>13, <1>14, <1>15, <1>16 DEF IInv

(* An interrupt marks a record that is in a turn, so an open one. *)
LEMMA InterruptStep ==
    ASSUME IInv, NEW id \in Ids, Interrupt(id)
    PROVE  IInv'
<1>1. /\ TypeOK /\ GivenOut /\ Stages /\ Lined /\ BoundIsOver
      /\ OldestServes /\ TurnServed /\ Silent /\ OneWaits /\ InFlight /\ OwnAnswer
  BY DEF IInv
<1>2. UNCHANGED <<interactive, nextId, chain, nextLock, asked, turn, binding, child, closing,
                  dropped, graced, closes>>
  BY DEF Interrupt, records, locks, history
<1>3. id \in Ids /\ sessions[id].phase = "Turn"
  BY DEF Interrupt
<1>4. sessions' = Update(id, [sessions[id] EXCEPT !.phase = "Interrupting"])
  BY DEF Interrupt, SetPhase
<1>5. /\ DOMAIN sessions' = Ids /\ \A i \in Ids : i # id => sessions'[i] = sessions[i]
      /\ sessions'[id].class = sessions[id].class /\ sessions'[id].phase = "Interrupting"
      /\ sessions'[id].live = sessions[id].live
  BY <1>1, <1>4, <1>3 DEF TypeOK, Entry, Ids, Update
<1>6. sessions' \in [DOMAIN sessions' -> Entry]
  <2>1. id \in Ids => sessions[id] \in Entry
    BY <1>1 DEF TypeOK
  <2>2. id \in Ids => [sessions[id] EXCEPT !.phase = "Interrupting"] \in Entry
    BY <2>1 DEF Entry, Phases, Terminal
  <2> QED
    BY <1>1, <1>4, <1>5, <2>2 DEF TypeOK, Update
<1>7. fired' \subseteq Turns
  BY <1>1, RecordTyped DEF Interrupt, TypeOK
<1>8. TypeOK'
  BY <1>1, <1>2, <1>6, <1>7, SessionsAssumption DEF TypeOK, Ids, Interrupt
<1>9. GivenOut'
  BY <1>1, <1>2, <1>3, <1>5, <1>7, TurnTyped, RecordTyped DEF GivenOut, Ids
<1>10. Stages'
  BY <1>1, <1>2 DEF Stages, Stage, Attached
<1>11. Lined'
  BY <1>1, <1>2 DEF Lined, InTurn
<1>12. BoundIsOver'
  BY <1>1, <1>2 DEF BoundIsOver, ResetSticks
<1>13. OldestServes'
  BY <1>1, <1>2, <1>3, <1>5 DEF OldestServes, Unbounds, Ids, Over, Terminal
<1>14. TurnServed'
  BY <1>1, <1>2, <1>3, <1>5 DEF TurnServed, Served, Unbounds, Ids, Over, InTurn, Terminal
<1>15. Silent'
  BY <1>1, <1>2 DEF Silent
<1>16. OneWaits'
  BY <1>1, <1>2 DEF OneWaits, Waits
<1>17. InFlight'
  BY <1>1, <1>2 DEF InFlight, Awaits, Waits
<1>18. OwnAnswer'
  BY <1>1, <1>2 DEF OwnAnswer
<1> QED
  BY <1>8, <1>9, <1>10, <1>11, <1>12, <1>13, <1>14, <1>15, <1>16, <1>17, <1>18 DEF IInv

(* What was bound is dropped: it is the session of a turn that is over. *)
LEMMA ResetStep ==
    ASSUME IInv, Reset
    PROVE  IInv'
<1>1. /\ TypeOK /\ GivenOut /\ Stages /\ Lined /\ BoundIsOver
      /\ OldestServes /\ TurnServed /\ Silent /\ OneWaits /\ InFlight /\ OwnAnswer
  BY DEF IInv
<1>2. UNCHANGED <<interactive, sessions, nextId, chain, nextLock, asked, turn, fired, child, closing,
                  graced, closes>>
  BY DEF Reset, records, locks, history
<1>3. binding # NoTurn /\ dropped' = dropped \union {binding} /\ binding' = NoTurn
  BY DEF Reset
<1>4. TypeOK'
  BY <1>1, <1>2, <1>3 DEF TypeOK, Ids
<1>5. GivenOut'
  BY <1>1, <1>2 DEF GivenOut, Ids
<1>6. Stages'
  BY <1>1, <1>2 DEF Stages, Stage, Attached
<1>7. Lined'
  BY <1>1, <1>2 DEF Lined, InTurn
<1>8. BoundIsOver'
  BY <1>1, <1>2, <1>3, SessionsAssumption DEF BoundIsOver, ResetSticks, TypeOK
<1>9. OldestServes'
  BY <1>1, <1>2 DEF OldestServes, Unbounds, Ids, Over
<1>10. TurnServed'
  BY <1>1, <1>2 DEF TurnServed, Served, Unbounds, Ids, Over, InTurn
<1>11. Silent'
  BY <1>1, <1>2 DEF Silent
<1>12. OneWaits'
  BY <1>1, <1>2 DEF OneWaits, Waits
<1>13. InFlight'
  BY <1>1, <1>2 DEF InFlight, Awaits, Waits
<1>14. OwnAnswer'
  BY <1>1, <1>2 DEF OwnAnswer
<1> QED
  BY <1>4, <1>5, <1>6, <1>7, <1>8, <1>9, <1>10, <1>11, <1>12, <1>13, <1>14 DEF IInv

(* A bounded turn takes no lock and a record that is not unbound. *)
LEMMA SubmitBoundedStep ==
    ASSUME IInv, NEW t \in Turns, NEW id \in Ids, SubmitBounded(t, id)
    PROVE  IInv'
<1>1. /\ TypeOK /\ GivenOut /\ Stages /\ Lined /\ BoundIsOver
      /\ OldestServes /\ TurnServed /\ Silent /\ OneWaits /\ InFlight /\ OwnAnswer
  BY DEF IInv
<1>2. UNCHANGED <<interactive, sessions, nextId, chain, nextLock, asked, fired, binding, child,
                  closing, dropped, graced, closes>>
  BY DEF SubmitBounded, records, locks, history
<1>3. turn[t].pc = "new" /\ id \in Ids /\ sessions[id].class = "Bounded"
  BY DEF SubmitBounded
<1>4. turn' = [turn EXCEPT ![t] = [turn[t] EXCEPT !.pc = "ensured", !.class = "Bounded", !.id = id]]
  BY <1>1 DEF TypeOK, TurnState, SubmitBounded
<1>5. /\ \A u \in Turns : u # t => turn'[u] = turn[u]
      /\ turn'[t].pc = "ensured" /\ turn'[t].class = "Bounded" /\ turn'[t].id = id
      /\ turn'[t].lock = turn[t].lock /\ turn'[t].ticket = turn[t].ticket
      /\ turn'[t].resume = turn[t].resume
      /\ turn'[t].bind = turn[t].bind /\ turn'[t].child = turn[t].child
      /\ turn'[t].answer = turn[t].answer
  BY <1>1, <1>4 DEF TypeOK, TurnState
<1>6. turn' \in [Turns -> TurnState]
  <2>1. turn[t] \in TurnState
    BY <1>1 DEF TypeOK
  <2>2. [turn[t] EXCEPT !.pc = "ensured", !.class = "Bounded", !.id = id] \in TurnState
    BY <2>1, <1>1, <1>3, Fresh DEF TurnState, Pcs
  <2> QED
    BY <1>1, <1>4, <2>2 DEF TypeOK
<1>7. TypeOK'
  BY <1>1, <1>2, <1>6, SessionsAssumption DEF TypeOK, Ids
<1>8. GivenOut'
  <2>1. Ids' \subseteq 1..(nextId' - 1) /\ \A i \in Ids' : sessions'[i].live <= Len(child')
    BY <1>1, <1>2, <1>3, <1>5, Fresh, RecordTyped DEF GivenOut, Ids
  <2>2. \A c \in closing' : c[2] <= Len(child')
    BY <1>1, <1>2, <1>3, <1>5, RecordTyped DEF GivenOut, TypeOK
  <2>3. \A u \in Turns : turn'[u].id < nextId' /\ turn'[u].ticket <= asked' /\ turn'[u].child <= Len(child')
    BY <1>1, <1>2, <1>3, <1>5, Fresh, TurnTyped, RecordTyped DEF GivenOut
  <2> QED
    BY <2>1, <2>2, <2>3 DEF GivenOut, Ids
<1>9. Stages'
  <2>1. Stage(turn[t])
    BY <1>1 DEF Stages
  <2>2. Stage(turn'[t])
    BY <1>2, <1>3, <1>5, <2>1 DEF Stage, Attached
  <2> QED
    BY <1>1, <1>5, <2>2 DEF Stages
<1>10. Lined'
  BY <1>1, <1>2, <1>3, <1>5 DEF Lined, InTurn
<1>11. BoundIsOver'
  BY <1>1, <1>2, <1>3, <1>5 DEF BoundIsOver, ResetSticks
<1>12. OldestServes'
  BY <1>1, <1>2 DEF OldestServes, Unbounds, Ids, Over
<1>13. TurnServed'
  BY <1>1, <1>2, <1>3, <1>5 DEF TurnServed, Served, Unbounds, Ids, Over, InTurn, Terminal
<1>14. Silent'
  BY <1>1, <1>2 DEF Silent
<1>15. OneWaits'
  BY <1>1, <1>2, <1>3, <1>5 DEF OneWaits, Waits
<1>16. InFlight'
  <2>1. ASSUME NEW u \in Turns, NEW c \in DOMAIN child, Awaits(u, c),
               child[c].prompts # <<>> \/ child[c].results # <<>>
        PROVE  Awaits(u, c)'
    BY <1>3, <1>5, <2>1 DEF Awaits, Waits
  <2> QED
    BY <1>1, <1>2, <2>1, InFlightKept
<1>17. OwnAnswer'
  BY <1>1, <1>2, <1>3, <1>5 DEF OwnAnswer
<1> QED
  BY <1>7, <1>8, <1>9, <1>10, <1>11, <1>12, <1>13, <1>14, <1>15, <1>16, <1>17 DEF IInv

(* Whoever asks next gets the lock in the map and the greatest ticket. *)
LEMMA AcquireStep ==
    ASSUME IInv, NEW t \in Turns, Acquire(t)
    PROVE  IInv'
<1>1. /\ TypeOK /\ GivenOut /\ Stages /\ Lined /\ BoundIsOver
      /\ OldestServes /\ TurnServed /\ Silent /\ OneWaits /\ InFlight /\ OwnAnswer
  BY DEF IInv
<1>2. UNCHANGED <<interactive, sessions, nextId, fired, binding, child, closing, dropped, graced,
                  closes>>
  BY DEF Acquire, records, locks, history
<1>3. turn[t].pc = "new" /\ asked' = asked + 1
  BY DEF Acquire
<1>4. chain' \in Nat \ {0} /\ (chain # 0 => chain' = chain) /\ nextLock' \in Nat /\ asked' \in Nat
  BY <1>1, TurnTyped DEF Acquire
<1>5. turn' = [turn EXCEPT ![t] = [turn[t] EXCEPT !.pc = "queued", !.lock = chain',
                                                  !.ticket = asked + 1]]
  BY <1>1 DEF TypeOK, TurnState, Acquire
<1>6. /\ \A u \in Turns : u # t => turn'[u] = turn[u]
      /\ turn'[t].pc = "queued" /\ turn'[t].lock = chain' /\ turn'[t].ticket = asked + 1
      /\ turn'[t].class = turn[t].class /\ turn'[t].resume = turn[t].resume
      /\ turn'[t].bind = turn[t].bind
      /\ turn'[t].id = turn[t].id /\ turn'[t].child = turn[t].child
      /\ turn'[t].answer = turn[t].answer
  BY <1>1, <1>5 DEF TypeOK, TurnState
<1>7. turn' \in [Turns -> TurnState]
  <2>1. turn[t] \in TurnState
    BY <1>1 DEF TypeOK
  <2>2. [turn[t] EXCEPT !.pc = "queued", !.lock = chain', !.ticket = asked + 1] \in TurnState
    BY <2>1, <1>1, <1>3, <1>4, TurnTyped DEF TurnState, Pcs
  <2> QED
    BY <1>1, <1>5, <2>2 DEF TypeOK
<1>8. TypeOK'
  BY <1>1, <1>2, <1>7, <1>4, SessionsAssumption DEF TypeOK, Ids, Acquire
<1>9. GivenOut'
  <2>1. DOMAIN sessions' \subseteq Ids \union (nextId..(nextId' - 1))
    BY <1>1, <1>2, <1>3, <1>6, Fresh DEF Ids
  <2>2. \A i \in DOMAIN sessions' :
            sessions'[i].live \in {0, Len(child')} \/ (i \in Ids /\ sessions'[i].live = sessions[i].live)
    BY <1>2, <1>3, <1>6 DEF Ids
  <2>3. \A u \in Turns :
            /\ turn'[u].id = 0 \/ turn'[u].id = turn[u].id \/ (turn'[u].id = nextId /\ nextId' = nextId + 1)
            /\ turn'[u].ticket \in {0, turn[u].ticket, asked'}
            /\ turn'[u].child \in {0, turn[u].child, Len(child')}
    BY <1>2, <1>3, <1>6
  <2>4. /\ nextId' \in {nextId, nextId + 1} /\ asked' \in {asked, asked + 1}
        /\ Len(child') \in {Len(child), Len(child) + 1} /\ closing' = closing
    BY <1>2, <1>3, <1>6
  <2> QED
    BY <1>1, <2>1, <2>2, <2>3, <2>4, GivenOutKept
<1>10. Stages'
  <2>1. Stage(turn[t])
    BY <1>1 DEF Stages
  <2>2. Stage(turn'[t])
    BY <1>2, <1>3, <1>6, <2>1, <1>4 DEF Stage, Attached
  <2> QED
    BY <1>1, <1>6, <2>2 DEF Stages
<1>11. Lined'
  <2>1. \A u \in Turns : turn[u].ticket < asked + 1 /\ turn[u].ticket \in Nat
    BY <1>1, TurnTyped DEF GivenOut
  <2>2. ~InTurn(t)' /\ \A u \in Turns : u # t => InTurn(u)' = InTurn(u)
    BY <1>6 DEF InTurn
  <2> QED
    BY <1>1, <1>4, <1>6, <1>3, <2>1, <2>2 DEF Lined
<1>12. BoundIsOver'
  BY <1>1, <1>2, <1>3, <1>6 DEF BoundIsOver, ResetSticks
<1>13. OldestServes'
  BY <1>1, <1>2 DEF OldestServes, Unbounds, Ids, Over
<1>14. TurnServed'
  BY <1>1, <1>2, <1>3, <1>6, <1>4 DEF TurnServed, Served, Unbounds, Ids, Over, InTurn,
     Terminal
<1>15. Silent'
  BY <1>1, <1>2 DEF Silent
<1>16. OneWaits'
  BY <1>1, <1>2, <1>3, <1>6 DEF OneWaits, Waits
<1>17. InFlight'
  <2>1. ASSUME NEW u \in Turns, NEW c \in DOMAIN child, Awaits(u, c),
               child[c].prompts # <<>> \/ child[c].results # <<>>
        PROVE  Awaits(u, c)'
    BY <1>3, <1>6, <2>1 DEF Awaits, Waits
  <2> QED
    BY <1>1, <1>2, <2>1, InFlightKept
<1>18. OwnAnswer'
  BY <1>1, <1>2, <1>3, <1>6 DEF OwnAnswer
<1> QED
  BY <1>8, <1>9, <1>10, <1>11, <1>12, <1>13, <1>14, <1>15, <1>16, <1>17, <1>18 DEF IInv

(* The turn whose ticket is the least goes ahead, on the oldest open record:   *)
(* the older ones are over, and with a child the younger would make it so too. *)
LEMMA EnsureFoundStep ==
    ASSUME IInv, NEW t \in Turns, EnsureSession(t), OpenOnes # {}
    PROVE  IInv'
<1>1. /\ TypeOK /\ GivenOut /\ Stages /\ Lined /\ BoundIsOver
      /\ OldestServes /\ TurnServed /\ Silent /\ OneWaits /\ InFlight /\ OwnAnswer
  BY DEF IInv
<1>2. UNCHANGED <<interactive, sessions, nextId, chain, nextLock, asked, fired, binding, child,
                  closing, dropped, graced, closes>>
  BY DEF EnsureSession, Plan, records, locks, history
<1>3. turn[t].pc = "queued" /\ Holds(t)
  BY DEF EnsureSession
<1>4. Min(OpenOnes) \in OpenOnes /\ \A j \in OpenOnes : Min(OpenOnes) <= j
  <2>1. OpenOnes \in SUBSET Nat
    BY <1>1, Fresh DEF OpenOnes
  <2> QED
    BY <2>1, Lowest
<1>5. Min(OpenOnes) \in Nat /\ Min(OpenOnes) < nextId
  BY <1>1, <1>4, Fresh DEF OpenOnes
<1>6. turn' = [turn EXCEPT ![t] = [turn[t] EXCEPT !.pc = "ensured", !.resume = binding,
                                                  !.bind = (binding = NoTurn),
                                                  !.id = Min(OpenOnes)]]
  BY <1>1 DEF TypeOK, TurnState, EnsureSession, Plan
<1>7. /\ \A u \in Turns : u # t => turn'[u] = turn[u]
      /\ turn'[t].pc = "ensured" /\ turn'[t].resume = binding /\ turn'[t].bind = (binding = NoTurn) /\ turn'[t].id = Min(OpenOnes)
      /\ turn'[t].class = turn[t].class /\ turn'[t].lock = turn[t].lock
      /\ turn'[t].ticket = turn[t].ticket
      /\ turn'[t].child = turn[t].child /\ turn'[t].answer = turn[t].answer
  BY <1>1, <1>6 DEF TypeOK, TurnState
<1>8. turn' \in [Turns -> TurnState]
  <2>1. turn[t] \in TurnState
    BY <1>1 DEF TypeOK
  <2>2. [turn[t] EXCEPT !.pc = "ensured", !.resume = binding, !.bind = (binding = NoTurn),
                        !.id = Min(OpenOnes)] \in TurnState
    BY <2>1, <1>1, <1>5 DEF TurnState, Pcs, TypeOK
  <2> QED
    BY <1>1, <1>6, <2>2 DEF TypeOK
<1>9. TypeOK'
  BY <1>1, <1>2, <1>8, <1>4, SessionsAssumption DEF TypeOK, Ids
<1>10. GivenOut'
  BY <1>1, <1>2, <1>3, <1>7, <1>4, <1>5, TurnTyped, RecordTyped DEF GivenOut, Ids
<1>11. Stages'
  <2>1. Stage(turn[t])
    BY <1>1 DEF Stages
  <2>2. Stage(turn'[t])
    BY <1>2, <1>3, <1>7, <2>1 DEF Stage, Attached
  <2> QED
    BY <1>1, <1>7, <2>2 DEF Stages
<1>12. Lined'
  <2>1. turn[t].lock # 0 /\ ~InTurn(t)
    BY <1>1, <1>3 DEF Stages, Stage, InTurn
  <2>2. ASSUME NEW u \in Turns, u # t, turn[u].lock # 0
        PROVE  turn[t].ticket < turn[u].ticket /\ ~InTurn(u)
    BY <1>1, <1>3, <2>1, <2>2, TurnTyped DEF Lined, Holds
  <2>3. ASSUME NEW u \in Turns
        PROVE  turn'[u].lock = turn[u].lock /\ turn'[u].ticket = turn[u].ticket /\ (u # t => turn'[u] = turn[u])
    BY <1>7
  <2> QED
    BY <1>1, <1>2, <2>1, <2>2, <2>3 DEF Lined, InTurn
<1>13. BoundIsOver'
  BY <1>1, <1>2, <1>3, <1>7 DEF BoundIsOver, ResetSticks
<1>14. OldestServes'
  BY <1>1, <1>2 DEF OldestServes, Unbounds, Ids, Over
<1>15. TurnServed'
  <2> DEFINE m == Min(OpenOnes)
  <2>1. ASSUME m \in Unbounds, NEW j \in Unbounds
        PROVE  (j # m => sessions[j].live = 0) /\ (j < m => Over(j))
    <3>1. j \in Nat /\ m \in Nat /\ ~Over(m)
      BY <1>1, <1>4, <1>5, Fresh DEF OpenOnes, Over, Unbounds
    <3>2. ~Over(j) => m <= j
      BY <1>4 DEF OpenOnes, Over, Unbounds
    <3> HIDE DEF m
    <3> QED
      BY <1>1, <2>1, <3>1, <3>2 DEF OldestServes
  <2>2. turn[t].child = 0 /\ turn[t].class = "Unbound"
    BY <1>1, <1>3 DEF Stages, Stage, Attached
  <2> HIDE DEF m
  <2>3. turn'[t].id = m /\ turn'[t].pc = "ensured" /\ turn'[t].child = 0 /\ turn'[t].class = "Unbound"
    BY <1>7, <2>2 DEF m
  <2> QED
    BY <1>1, <1>2, <1>7, <2>1, <2>3 DEF TurnServed, Served, InTurn, Unbounds, Ids, Over
<1>16. Silent'
  BY <1>1, <1>2 DEF Silent
<1>17. OneWaits'
  BY <1>1, <1>2, <1>3, <1>7 DEF OneWaits, Waits
<1>18. InFlight'
  <2>1. ASSUME NEW u \in Turns, NEW c \in DOMAIN child, Awaits(u, c),
               child[c].prompts # <<>> \/ child[c].results # <<>>
        PROVE  Awaits(u, c)'
    BY <1>3, <1>7, <2>1 DEF Awaits, Waits
  <2> QED
    BY <1>1, <1>2, <2>1, InFlightKept
<1>19. OwnAnswer'
  BY <1>1, <1>2, <1>3, <1>7 DEF OwnAnswer
<1> QED
  BY <1>9, <1>10, <1>11, <1>12, <1>13, <1>14, <1>15, <1>16, <1>17, <1>18, <1>19 DEF IInv

(* With every record over none has a child, and the new one is the youngest. *)
LEMMA EnsureNewStep ==
    ASSUME IInv, NEW t \in Turns, EnsureSession(t), OpenOnes = {}
    PROVE  IInv'
<1>1. /\ TypeOK /\ GivenOut /\ Stages /\ Lined /\ BoundIsOver
      /\ OldestServes /\ TurnServed /\ Silent /\ OneWaits /\ InFlight /\ OwnAnswer
  BY DEF IInv
<1>2. UNCHANGED <<interactive, chain, nextLock, asked, fired, binding, child, closing, dropped,
                  graced, closes>>
  BY DEF EnsureSession, records, locks, history, Plan
<1>3. turn[t].pc = "queued" /\ Holds(t)
  BY DEF EnsureSession
<1>4. turn' = [turn EXCEPT ![t] = [turn[t] EXCEPT !.pc = "ensured", !.resume = binding,
                                                  !.bind = (binding = NoTurn), !.id = nextId]]
  BY <1>1 DEF TypeOK, TurnState, EnsureSession, Plan
<1>5. /\ \A u \in Turns : u # t => turn'[u] = turn[u]
      /\ turn'[t].pc = "ensured" /\ turn'[t].resume = binding /\ turn'[t].bind = (binding = NoTurn) /\ turn'[t].id = nextId
      /\ turn'[t].class = turn[t].class /\ turn'[t].lock = turn[t].lock
      /\ turn'[t].ticket = turn[t].ticket
      /\ turn'[t].child = turn[t].child /\ turn'[t].answer = turn[t].answer
  BY <1>1, <1>4 DEF TypeOK, TurnState
<1>6. turn' \in [Turns -> TurnState]
  <2>1. turn[t] \in TurnState
    BY <1>1 DEF TypeOK
  <2>2. [turn[t] EXCEPT !.pc = "ensured", !.resume = binding, !.bind = (binding = NoTurn),
                        !.id = nextId] \in TurnState
    BY <2>1, <1>1 DEF TurnState, Pcs, TypeOK
  <2> QED
    BY <1>1, <1>4, <2>2 DEF TypeOK
<1>7. /\ DOMAIN sessions' = Ids \union {nextId} /\ nextId' = nextId + 1 /\ nextId \notin Ids
      /\ \A i \in Ids : sessions'[i] = sessions[i]
      /\ sessions'[nextId].class = "Unbound" /\ sessions'[nextId].phase = "Idle"
      /\ sessions'[nextId].live = 0
  BY <1>1 DEF TypeOK, GivenOut, Entry, Ids, EnsureSession, WithNew
<1>8. sessions' \in [DOMAIN sessions' -> Entry]
  BY <1>1 DEF TypeOK, Entry, Ids, Phases, Terminal, EnsureSession, WithNew
<1>9. TypeOK'
  BY <1>1, <1>2, <1>6, <1>8, SessionsAssumption DEF TypeOK, Ids, EnsureSession
<1>10. GivenOut'
  <2>1. DOMAIN sessions' \subseteq Ids \union (nextId..(nextId' - 1))
    BY <1>1, <1>2, <1>5, <1>7, Fresh DEF Ids
  <2>2. \A i \in DOMAIN sessions' :
            sessions'[i].live \in {0, Len(child')} \/ (i \in Ids /\ sessions'[i].live = sessions[i].live)
    BY <1>2, <1>5, <1>7 DEF Ids
  <2>3. \A u \in Turns :
            /\ turn'[u].id = 0 \/ turn'[u].id = turn[u].id \/ (turn'[u].id = nextId /\ nextId' = nextId + 1)
            /\ turn'[u].ticket \in {0, turn[u].ticket, asked'}
            /\ turn'[u].child \in {0, turn[u].child, Len(child')}
    BY <1>2, <1>5, <1>7
  <2>4. /\ nextId' \in {nextId, nextId + 1} /\ asked' \in {asked, asked + 1}
        /\ Len(child') \in {Len(child), Len(child) + 1} /\ closing' = closing
    BY <1>2, <1>5, <1>7
  <2> QED
    BY <1>1, <2>1, <2>2, <2>3, <2>4, GivenOutKept
<1>11. Stages'
  <2>1. Stage(turn[t])
    BY <1>1 DEF Stages
  <2>2. Stage(turn'[t])
    BY <1>2, <1>3, <1>5, <2>1 DEF Stage, Attached
  <2> QED
    BY <1>1, <1>5, <2>2 DEF Stages
<1>12. Lined'
  <2>1. turn[t].lock # 0 /\ ~InTurn(t)
    BY <1>1, <1>3 DEF Stages, Stage, InTurn
  <2>2. ASSUME NEW u \in Turns, u # t, turn[u].lock # 0
        PROVE  turn[t].ticket < turn[u].ticket /\ ~InTurn(u)
    BY <1>1, <1>3, <2>1, <2>2, TurnTyped DEF Lined, Holds
  <2>3. ASSUME NEW u \in Turns
        PROVE  turn'[u].lock = turn[u].lock /\ turn'[u].ticket = turn[u].ticket /\ (u # t => turn'[u] = turn[u])
    BY <1>5
  <2> QED
    BY <1>1, <1>2, <2>1, <2>2, <2>3 DEF Lined, InTurn
<1>13. BoundIsOver'
  BY <1>1, <1>2, <1>3, <1>5 DEF BoundIsOver, ResetSticks
<1>14. OldestServes'
  BY <1>1, <1>2, <1>3, <1>7, Fresh DEF OldestServes, Unbounds, Ids, Over, Terminal
<1>15. TurnServed'
  <2>1. turn[t].child = 0 /\ turn[t].class = "Unbound"
    BY <1>1, <1>3 DEF Stages, Stage, Attached
  <2>2. \A j \in Ids : Over(j)
    BY DEF OpenOnes, Over
  <2>3. \A j \in Unbounds : sessions[j].live = 0
    BY <1>1, <2>2 DEF OldestServes, Unbounds
  <2>4. /\ Ids' = Ids \union {nextId} /\ \A j \in Ids : sessions'[j] = sessions[j] /\ j < nextId
        /\ sessions'[nextId].live = 0 /\ nextId \notin Ids /\ nextId \in Nat
    BY <1>1, <1>7, Fresh DEF Ids
  <2>5. \A j \in Unbounds' : sessions'[j].live = 0 /\ (j < nextId => Over(j)')
    BY <2>2, <2>3, <2>4 DEF Unbounds, Over
  <2>6. Served(t)'
    BY <1>5, <2>1, <2>5 DEF Served, InTurn
  <2>7. ASSUME NEW u \in Turns, u # t
        PROVE  Served(u)'
    <3>1. turn'[u] = turn[u] /\ turn[u].id < nextId /\ turn[u].id \in Nat
      BY <1>1, <1>5, <2>7, Fresh
    <3>2. turn[u].id \in Unbounds' => turn[u].id \in Unbounds
      BY <2>4, <3>1, Fresh, <1>1 DEF Unbounds
    <3>3. turn[u].class = "Bounded" => turn[u].id \notin Unbounds
      BY <1>1 DEF TurnServed, Served
    <3>4. \A j \in Unbounds' : j < turn[u].id => j < nextId
      BY <1>1, <2>4, <3>1, Fresh DEF Unbounds
    <3> QED
      BY <2>5, <3>1, <3>2, <3>3, <3>4 DEF Served, InTurn
  <2> QED
    BY <2>6, <2>7 DEF TurnServed, Served
<1>16. Silent'
  BY <1>1, <1>2 DEF Silent
<1>17. OneWaits'
  BY <1>1, <1>2, <1>3, <1>5 DEF OneWaits, Waits
<1>18. InFlight'
  <2>1. ASSUME NEW u \in Turns, NEW c \in DOMAIN child, Awaits(u, c),
               child[c].prompts # <<>> \/ child[c].results # <<>>
        PROVE  Awaits(u, c)'
    BY <1>3, <1>5, <2>1 DEF Awaits, Waits
  <2> QED
    BY <1>1, <1>2, <2>1, InFlightKept
<1>19. OwnAnswer'
  BY <1>1, <1>2, <1>3, <1>5 DEF OwnAnswer
<1> QED
  BY <1>9, <1>10, <1>11, <1>12, <1>13, <1>14, <1>15, <1>16, <1>17, <1>18, <1>19 DEF IInv

(* A turn may bring back a record that a close had ended.  No other turn is    *)
(* under way that counts on its being over.                                    *)
LEMMA BeginTurnStep ==
    ASSUME IInv, NEW t \in Turns, BeginTurn(t)
    PROVE  IInv'
<1>1. /\ TypeOK /\ GivenOut /\ Stages /\ Lined /\ BoundIsOver
      /\ OldestServes /\ TurnServed /\ Silent /\ OneWaits /\ InFlight /\ OwnAnswer
  BY DEF IInv
<1>2. UNCHANGED <<interactive, nextId, chain, nextLock, asked, fired, binding, child, closing,
                  dropped, graced, closes>>
  BY DEF BeginTurn, records, locks, history, Goto
<1>3. turn[t].pc = "ensured"
  BY DEF BeginTurn
<1>4. turn' = [turn EXCEPT ![t] = [turn[t] EXCEPT !.pc = (IF interactive /\ turn[t].class = "Unbound" THEN "begun" ELSE "running")]]
  BY <1>1 DEF TypeOK, TurnState, BeginTurn, Goto
<1>5. /\ \A u \in Turns : u # t => turn'[u] = turn[u]
      /\ turn'[t].pc = (IF interactive /\ turn[t].class = "Unbound" THEN "begun" ELSE "running")
      /\ turn'[t].class = turn[t].class /\ turn'[t].lock = turn[t].lock
      /\ turn'[t].ticket = turn[t].ticket
      /\ turn'[t].resume = turn[t].resume /\ turn'[t].bind = turn[t].bind
      /\ turn'[t].id = turn[t].id
      /\ turn'[t].child = turn[t].child /\ turn'[t].answer = turn[t].answer
  BY <1>1, <1>4 DEF TypeOK, TurnState
<1>6. turn' \in [Turns -> TurnState]
  <2>1. turn[t] \in TurnState
    BY <1>1 DEF TypeOK
  <2>2. [turn[t] EXCEPT !.pc = (IF interactive /\ turn[t].class = "Unbound" THEN "begun" ELSE "running")] \in TurnState
    BY <2>1 DEF TurnState, Pcs
  <2> QED
    BY <1>1, <1>4, <2>2 DEF TypeOK
<1>7. sessions' = Update(turn[t].id, [sessions[turn[t].id] EXCEPT !.phase = "Turn", !.abort = t])
  BY DEF BeginTurn
<1>8. /\ DOMAIN sessions' = Ids /\ \A i \in Ids : i # turn[t].id => sessions'[i] = sessions[i]
      /\ turn[t].id \in Ids => 
             /\ sessions'[turn[t].id].class = sessions[turn[t].id].class
             /\ sessions'[turn[t].id].phase = "Turn"
             /\ sessions'[turn[t].id].live = sessions[turn[t].id].live
  BY <1>1, <1>7, <1>3 DEF TypeOK, Entry, Ids, Update
<1>9. sessions' \in [DOMAIN sessions' -> Entry]
  <2>1. turn[t].id \in Ids => sessions[turn[t].id] \in Entry
    BY <1>1 DEF TypeOK
  <2>2. turn[t].id \in Ids => [sessions[turn[t].id] EXCEPT !.phase = "Turn", !.abort = t] \in Entry
    BY <2>1 DEF Entry, Phases, Terminal
  <2> QED
    BY <1>1, <1>7, <1>8, <2>2 DEF TypeOK, Update
<1>10. TypeOK'
  BY <1>1, <1>2, <1>6, <1>9, SessionsAssumption DEF TypeOK, Ids
<1>11. GivenOut'
  BY <1>1, <1>2, <1>3, <1>5, <1>8, TurnTyped, RecordTyped DEF GivenOut, Ids
<1>12. Stages'
  <2>1. Stage(turn[t])
    BY <1>1 DEF Stages
  <2>2. Stage(turn'[t])
    BY <1>2, <1>3, <1>5, <2>1 DEF Stage, Attached
  <2> QED
    BY <1>1, <1>5, <2>2 DEF Stages
<1>13. Lined'
  BY <1>1, <1>2, <1>3, <1>5 DEF Lined, InTurn
<1>14. BoundIsOver'
  BY <1>1, <1>2, <1>3, <1>5 DEF BoundIsOver, ResetSticks
<1>15. OldestServes'
  BY <1>1, <1>2, <1>3, <1>8, Serves DEF OldestServes, Unbounds, Ids, Over, Terminal
<1>16. TurnServed'
  <2>1. ASSUME NEW u \in Turns, u # t, InTurn(u)
        PROVE  turn[t].id \notin Unbounds
    BY <1>1, <1>3, <2>1, Serves, Serialized DEF TurnsSerialized
  <2>2. Unbounds' = Unbounds /\ \A j \in Unbounds : j # turn[t].id => sessions'[j] = sessions[j]
    BY <1>8 DEF Unbounds, Ids
  <2>3. ASSUME NEW u \in Turns, u # t
        PROVE  Served(u)'
    BY <1>1, <1>5, <2>1, <2>2, <2>3 DEF TurnServed, Served, InTurn, Over
  <2>4. Served(t)'
    <3>1. turn[t].id \in Unbounds =>
              \A j \in Unbounds : (j # turn[t].id => sessions[j].live = 0) /\ (j < turn[t].id => Over(j))
      BY <1>1, <1>3, Serves
    <3>2. turn[t].class = "Bounded" => turn[t].id \notin Unbounds
      BY <1>1 DEF TurnServed, Served
    <3>3. turn[t].id \in Nat /\ turn[t].child = 0 /\ (turn[t].id \in Unbounds => turn[t].id \in Ids)
      BY <1>1, <1>3, TurnTyped DEF Stages, Stage, Attached, Unbounds
    <3>4. turn'[t].id = turn[t].id /\ turn'[t].class = turn[t].class
      BY <1>5
    <3>5. \A j \in Unbounds : j # turn[t].id => Over(j)' = Over(j)
      BY <2>2 DEF Over
    <3> QED
      BY <1>3, <1>5, <1>8, <2>2, <3>1, <3>2, <3>3, <3>4, <3>5 DEF Served, InTurn
  <2> QED
    BY <2>3, <2>4 DEF TurnServed, Served
<1>17. Silent'
  BY <1>1, <1>2 DEF Silent
<1>18. OneWaits'
  BY <1>1, <1>2, <1>3, <1>5 DEF OneWaits, Waits
<1>19. InFlight'
  <2>1. ASSUME NEW u \in Turns, NEW c \in DOMAIN child, Awaits(u, c),
               child[c].prompts # <<>> \/ child[c].results # <<>>
        PROVE  Awaits(u, c)'
    BY <1>3, <1>5, <2>1 DEF Awaits, Waits
  <2> QED
    BY <1>1, <1>2, <2>1, InFlightKept
<1>20. OwnAnswer'
  BY <1>1, <1>2, <1>3, <1>5 DEF OwnAnswer
<1> QED
  BY <1>10, <1>11, <1>12, <1>13, <1>14, <1>15, <1>16, <1>17, <1>18, <1>19, <1>20 DEF IInv

(* The record was forgotten under the turn. *)
LEMMA AttachGoneStep ==
    ASSUME IInv, NEW t \in Turns, Attach(t), turn[t].id \notin Ids
    PROVE  IInv'
<1>1. /\ TypeOK /\ GivenOut /\ Stages /\ Lined /\ BoundIsOver
      /\ OldestServes /\ TurnServed /\ Silent /\ OneWaits /\ InFlight /\ OwnAnswer
  BY DEF IInv
<1>2. UNCHANGED <<interactive, sessions, nextId, chain, nextLock, asked, fired, binding, child,
                  closing, dropped, graced, closes>>
  BY DEF Attach, Goto, records, locks, history
<1>3. turn[t].pc = "begun"
  BY DEF Attach
<1>4. turn' = [turn EXCEPT ![t] = [turn[t] EXCEPT !.pc = "ended"]]
  BY <1>1 DEF TypeOK, TurnState, Attach, Goto
<1>5. /\ \A u \in Turns : u # t => turn'[u] = turn[u]
      /\ turn'[t].pc = "ended"
      /\ turn'[t].class = turn[t].class /\ turn'[t].lock = turn[t].lock
      /\ turn'[t].ticket = turn[t].ticket
      /\ turn'[t].resume = turn[t].resume /\ turn'[t].bind = turn[t].bind
      /\ turn'[t].id = turn[t].id
      /\ turn'[t].child = turn[t].child /\ turn'[t].answer = turn[t].answer
  BY <1>1, <1>4 DEF TypeOK, TurnState
<1>6. turn' \in [Turns -> TurnState]
  <2>1. turn[t] \in TurnState
    BY <1>1 DEF TypeOK
  <2>2. [turn[t] EXCEPT !.pc = "ended"] \in TurnState
    BY <2>1 DEF TurnState, Pcs
  <2> QED
    BY <1>1, <1>4, <2>2 DEF TypeOK
<1>7. TypeOK'
  BY <1>1, <1>2, <1>6, SessionsAssumption DEF TypeOK, Ids
<1>8. GivenOut'
  BY <1>1, <1>2, <1>3, <1>5, TurnTyped, RecordTyped DEF GivenOut, Ids
<1>9. Stages'
  <2>1. Stage(turn[t])
    BY <1>1 DEF Stages
  <2>2. Stage(turn'[t])
    BY <1>2, <1>3, <1>5, <2>1 DEF Stage, Attached
  <2> QED
    BY <1>1, <1>5, <2>2 DEF Stages
<1>10. Lined'
  BY <1>1, <1>2, <1>3, <1>5 DEF Lined, InTurn
<1>11. BoundIsOver'
  BY <1>1, <1>2, <1>3, <1>5 DEF BoundIsOver, ResetSticks
<1>12. OldestServes'
  BY <1>1, <1>2 DEF OldestServes, Unbounds, Ids, Over
<1>13. TurnServed'
  BY <1>1, <1>2, <1>3, <1>5 DEF TurnServed, Served, Unbounds, Ids, Over, InTurn, Terminal
<1>14. Silent'
  BY <1>1, <1>2 DEF Silent
<1>15. OneWaits'
  BY <1>1, <1>2, <1>3, <1>5 DEF OneWaits, Waits
<1>16. InFlight'
  <2>1. ASSUME NEW u \in Turns, NEW c \in DOMAIN child, Awaits(u, c),
               child[c].prompts # <<>> \/ child[c].results # <<>>
        PROVE  Awaits(u, c)'
    BY <1>3, <1>5, <2>1 DEF Awaits, Waits
  <2> QED
    BY <1>1, <1>2, <2>1, InFlightKept
<1>17. OwnAnswer'
  BY <1>1, <1>2, <1>3, <1>5 DEF OwnAnswer
<1> QED
  BY <1>7, <1>8, <1>9, <1>10, <1>11, <1>12, <1>13, <1>14, <1>15, <1>16, <1>17 DEF IInv

(* The child of the record is the turn's. *)
LEMMA AttachLiveStep ==
    ASSUME IInv, NEW t \in Turns, Attach(t), turn[t].id \in Ids, sessions[turn[t].id].live # 0
    PROVE  IInv'
<1>1. /\ TypeOK /\ GivenOut /\ Stages /\ Lined /\ BoundIsOver
      /\ OldestServes /\ TurnServed /\ Silent /\ OneWaits /\ InFlight /\ OwnAnswer
  BY DEF IInv
<1>2. UNCHANGED <<interactive, sessions, nextId, chain, nextLock, asked, fired, binding, child,
                  closing, dropped, graced, closes>>
  BY DEF Attach, records, locks, history, Goto
<1>3. turn[t].pc = "begun"
  BY DEF Attach
<1>4. turn' = [turn EXCEPT ![t] = [turn[t] EXCEPT !.pc = "prompting",
                                                  !.child = sessions[turn[t].id].live]]
  BY <1>1 DEF TypeOK, TurnState, Attach, Goto
<1>5. /\ \A u \in Turns : u # t => turn'[u] = turn[u]
      /\ turn'[t].pc = "prompting" /\ turn'[t].child = sessions[turn[t].id].live
      /\ turn'[t].class = turn[t].class /\ turn'[t].lock = turn[t].lock
      /\ turn'[t].ticket = turn[t].ticket
      /\ turn'[t].resume = turn[t].resume /\ turn'[t].bind = turn[t].bind
      /\ turn'[t].id = turn[t].id
      /\ turn'[t].answer = turn[t].answer
  BY <1>1, <1>4 DEF TypeOK, TurnState
<1>6. turn' \in [Turns -> TurnState]
  <2>1. turn[t] \in TurnState
    BY <1>1 DEF TypeOK
  <2>2. [turn[t] EXCEPT !.pc = "prompting", !.child = sessions[turn[t].id].live] \in TurnState
    BY <2>1, <1>1, RecordTyped DEF TurnState, Pcs
  <2> QED
    BY <1>1, <1>4, <2>2 DEF TypeOK
<1>7. TypeOK'
  BY <1>1, <1>2, <1>6, SessionsAssumption DEF TypeOK, Ids
<1>8. GivenOut'
  BY <1>1, <1>2, <1>3, <1>5, TurnTyped, RecordTyped DEF GivenOut, Ids
<1>9. Stages'
  <2>1. Stage(turn[t])
    BY <1>1 DEF Stages
  <2>2. Stage(turn'[t])
    BY <1>2, <1>3, <1>5, <2>1 DEF Stage, Attached
  <2> QED
    BY <1>1, <1>5, <2>2 DEF Stages
<1>10. Lined'
  BY <1>1, <1>2, <1>3, <1>5 DEF Lined, InTurn
<1>11. BoundIsOver'
  BY <1>1, <1>2, <1>3, <1>5 DEF BoundIsOver, ResetSticks
<1>12. OldestServes'
  BY <1>1, <1>2 DEF OldestServes, Unbounds, Ids, Over
<1>13. TurnServed'
  BY <1>1, <1>2, <1>3, <1>5 DEF TurnServed, Served, Unbounds, Ids, Over, InTurn, Terminal
<1>14. Silent'
  BY <1>1, <1>2 DEF Silent
<1>15. OneWaits'
  BY <1>1, <1>2, <1>3, <1>5 DEF OneWaits, Waits
<1>16. InFlight'
  <2>1. ASSUME NEW u \in Turns, NEW c \in DOMAIN child, Awaits(u, c),
               child[c].prompts # <<>> \/ child[c].results # <<>>
        PROVE  Awaits(u, c)'
    BY <1>3, <1>5, <2>1 DEF Awaits, Waits
  <2> QED
    BY <1>1, <1>2, <2>1, InFlightKept
<1>17. OwnAnswer'
  BY <1>1, <1>2, <1>3, <1>5 DEF OwnAnswer
<1> QED
  BY <1>7, <1>8, <1>9, <1>10, <1>11, <1>12, <1>13, <1>14, <1>15, <1>16, <1>17 DEF IInv

(* A record without a child waits for one. *)
LEMMA AttachSpawnStep ==
    ASSUME IInv, NEW t \in Turns, Attach(t), turn[t].id \in Ids, sessions[turn[t].id].live = 0
    PROVE  IInv'
<1>1. /\ TypeOK /\ GivenOut /\ Stages /\ Lined /\ BoundIsOver
      /\ OldestServes /\ TurnServed /\ Silent /\ OneWaits /\ InFlight /\ OwnAnswer
  BY DEF IInv
<1>2. UNCHANGED <<interactive, nextId, chain, nextLock, asked, fired, binding, child, closing,
                  dropped, graced, closes>>
  BY DEF Attach, records, locks, history, Goto
<1>3. turn[t].pc = "begun"
  BY DEF Attach
<1>4. turn' = [turn EXCEPT ![t] = [turn[t] EXCEPT !.pc = "spawning"]]
  BY <1>1 DEF TypeOK, TurnState, Attach, Goto
<1>5. /\ \A u \in Turns : u # t => turn'[u] = turn[u]
      /\ turn'[t].pc = "spawning"
      /\ turn'[t].class = turn[t].class /\ turn'[t].lock = turn[t].lock
      /\ turn'[t].ticket = turn[t].ticket
      /\ turn'[t].resume = turn[t].resume /\ turn'[t].bind = turn[t].bind
      /\ turn'[t].id = turn[t].id
      /\ turn'[t].child = turn[t].child /\ turn'[t].answer = turn[t].answer
  BY <1>1, <1>4 DEF TypeOK, TurnState
<1>6. turn' \in [Turns -> TurnState]
  <2>1. turn[t] \in TurnState
    BY <1>1 DEF TypeOK
  <2>2. [turn[t] EXCEPT !.pc = "spawning"] \in TurnState
    BY <2>1 DEF TurnState, Pcs
  <2> QED
    BY <1>1, <1>4, <2>2 DEF TypeOK
<1>7. sessions' = Update(turn[t].id, [sessions[turn[t].id] EXCEPT !.phase = "Starting"])
  BY DEF Attach, SetPhase
<1>8. /\ DOMAIN sessions' = Ids /\ \A i \in Ids : i # turn[t].id => sessions'[i] = sessions[i]
      /\ turn[t].id \in Ids => 
             /\ sessions'[turn[t].id].class = sessions[turn[t].id].class
             /\ sessions'[turn[t].id].phase = "Starting"
             /\ sessions'[turn[t].id].live = sessions[turn[t].id].live
  BY <1>1, <1>7, <1>3 DEF TypeOK, Entry, Ids, Update
<1>9. sessions' \in [DOMAIN sessions' -> Entry]
  <2>1. turn[t].id \in Ids => sessions[turn[t].id] \in Entry
    BY <1>1 DEF TypeOK
  <2>2. turn[t].id \in Ids => [sessions[turn[t].id] EXCEPT !.phase = "Starting"] \in Entry
    BY <2>1 DEF Entry, Phases, Terminal
  <2> QED
    BY <1>1, <1>7, <1>8, <2>2 DEF TypeOK, Update
<1>10. TypeOK'
  BY <1>1, <1>2, <1>6, <1>9, SessionsAssumption DEF TypeOK, Ids
<1>11. GivenOut'
  BY <1>1, <1>2, <1>3, <1>5, <1>8, TurnTyped, RecordTyped DEF GivenOut, Ids
<1>12. Stages'
  <2>1. Stage(turn[t])
    BY <1>1 DEF Stages
  <2>2. Stage(turn'[t])
    BY <1>2, <1>3, <1>5, <2>1 DEF Stage, Attached
  <2> QED
    BY <1>1, <1>5, <2>2 DEF Stages
<1>13. Lined'
  BY <1>1, <1>2, <1>3, <1>5 DEF Lined, InTurn
<1>14. BoundIsOver'
  BY <1>1, <1>2, <1>3, <1>5 DEF BoundIsOver, ResetSticks
<1>15. OldestServes'
  BY <1>1, <1>2, <1>3, <1>8, Serves DEF OldestServes, Unbounds, Ids, Over, Terminal
<1>16. TurnServed'
  <2>1. ASSUME NEW u \in Turns, u # t, InTurn(u)
        PROVE  turn[t].id \notin Unbounds
    BY <1>1, <1>3, <2>1, Serves, Serialized DEF TurnsSerialized
  <2>2. Unbounds' = Unbounds /\ \A j \in Unbounds : j # turn[t].id => sessions'[j] = sessions[j]
    BY <1>8 DEF Unbounds, Ids
  <2>3. ASSUME NEW u \in Turns, u # t
        PROVE  Served(u)'
    BY <1>1, <1>5, <2>1, <2>2, <2>3 DEF TurnServed, Served, InTurn, Over
  <2>4. Served(t)'
    <3>1. turn[t].id \in Unbounds =>
              \A j \in Unbounds : (j # turn[t].id => sessions[j].live = 0) /\ (j < turn[t].id => Over(j))
      BY <1>1, <1>3, Serves
    <3>2. turn[t].class = "Bounded" => turn[t].id \notin Unbounds
      BY <1>1 DEF TurnServed, Served
    <3>3. turn[t].id \in Nat /\ turn[t].child = 0 /\ (turn[t].id \in Unbounds => turn[t].id \in Ids)
      BY <1>1, <1>3, TurnTyped DEF Stages, Stage, Attached, Unbounds
    <3>4. turn'[t].id = turn[t].id /\ turn'[t].class = turn[t].class
      BY <1>5
    <3>5. \A j \in Unbounds : j # turn[t].id => Over(j)' = Over(j)
      BY <2>2 DEF Over
    <3> QED
      BY <1>3, <1>5, <1>8, <2>2, <3>1, <3>2, <3>3, <3>4, <3>5 DEF Served, InTurn
  <2> QED
    BY <2>3, <2>4 DEF TurnServed, Served
<1>17. Silent'
  BY <1>1, <1>2 DEF Silent
<1>18. OneWaits'
  BY <1>1, <1>2, <1>3, <1>5 DEF OneWaits, Waits
<1>19. InFlight'
  <2>1. ASSUME NEW u \in Turns, NEW c \in DOMAIN child, Awaits(u, c),
               child[c].prompts # <<>> \/ child[c].results # <<>>
        PROVE  Awaits(u, c)'
    BY <1>3, <1>5, <2>1 DEF Awaits, Waits
  <2> QED
    BY <1>1, <1>2, <2>1, InFlightKept
<1>20. OwnAnswer'
  BY <1>1, <1>2, <1>3, <1>5 DEF OwnAnswer
<1> QED
  BY <1>10, <1>11, <1>12, <1>13, <1>14, <1>15, <1>16, <1>17, <1>18, <1>19, <1>20 DEF IInv

(* The new child is the only one, as the turn's record is the only one served. *)
LEMMA SpawnedStep ==
    ASSUME IInv, NEW t \in Turns, Spawned(t)
    PROVE  IInv'
<1>1. /\ TypeOK /\ GivenOut /\ Stages /\ Lined /\ BoundIsOver
      /\ OldestServes /\ TurnServed /\ Silent /\ OneWaits /\ InFlight /\ OwnAnswer
  BY DEF IInv
<1>2. UNCHANGED <<interactive, nextId, chain, nextLock, asked, fired, binding, closing, dropped,
                  graced, closes>>
  BY DEF Spawned, records, locks, history
<1>3. turn[t].pc = "spawning"
  BY DEF Spawned
<1>4. /\ child' \in Seq(ChildState) /\ Len(child') = Len(child) + 1
      /\ DOMAIN child' = DOMAIN child \union {Len(child')}
      /\ child'[Len(child')] = [open |-> TRUE, takes |-> TRUE, prompts |-> <<>>, results |-> <<>>]
      /\ \A c \in DOMAIN child : c < Len(child') /\ child'[c] = child[c]
  <2>1. [open |-> TRUE, takes |-> TRUE, prompts |-> <<>>, results |-> <<>>] \in ChildState
    BY DEF ChildState
  <2> QED
    BY <1>1, <2>1, ChildAdded DEF Spawned
<1>5. Len(child') \in Nat \ {0} /\ Len(child) \in Nat
  BY <1>1, <1>4, RecordTyped
<1>6. turn' = [turn EXCEPT ![t] = [turn[t] EXCEPT !.pc = "prompting", !.child = Len(child')]]
  BY <1>1 DEF TypeOK, TurnState, Spawned
<1>7. /\ \A u \in Turns : u # t => turn'[u] = turn[u]
      /\ turn'[t].pc = "prompting" /\ turn'[t].child = Len(child')
      /\ turn'[t].class = turn[t].class /\ turn'[t].lock = turn[t].lock
      /\ turn'[t].ticket = turn[t].ticket
      /\ turn'[t].resume = turn[t].resume /\ turn'[t].bind = turn[t].bind
      /\ turn'[t].id = turn[t].id
      /\ turn'[t].answer = turn[t].answer
  BY <1>1, <1>6 DEF TypeOK, TurnState
<1>8. turn' \in [Turns -> TurnState]
  <2>1. turn[t] \in TurnState
    BY <1>1 DEF TypeOK
  <2>2. [turn[t] EXCEPT !.pc = "prompting", !.child = Len(child')] \in TurnState
    BY <2>1, <1>5 DEF TurnState, Pcs
  <2> QED
    BY <1>1, <1>6, <2>2 DEF TypeOK
<1>9. sessions' = Update(turn[t].id, [sessions[turn[t].id] EXCEPT !.live = Len(child'),
                                                                  !.phase = "Turn"])
  BY DEF Spawned
<1>10. /\ DOMAIN sessions' = Ids /\ \A i \in Ids : i # turn[t].id => sessions'[i] = sessions[i]
       /\ turn[t].id \in Ids => 
              /\ sessions'[turn[t].id].class = sessions[turn[t].id].class
              /\ sessions'[turn[t].id].phase = "Turn"
              /\ sessions'[turn[t].id].live = Len(child')
  BY <1>1, <1>9, <1>3 DEF TypeOK, Entry, Ids, Update
<1>11. sessions' \in [DOMAIN sessions' -> Entry]
  <2>1. turn[t].id \in Ids => sessions[turn[t].id] \in Entry
    BY <1>1 DEF TypeOK
  <2>2. turn[t].id \in Ids => [sessions[turn[t].id] EXCEPT !.live = Len(child'),
                                                           !.phase = "Turn"] \in Entry
    BY <2>1, <1>5 DEF Entry, Phases, Terminal
  <2> QED
    BY <1>1, <1>9, <1>10, <2>2 DEF TypeOK, Update
<1>12. TypeOK'
  BY <1>1, <1>2, <1>8, <1>11, <1>4, <1>5, SessionsAssumption DEF TypeOK, Ids, Spawned
<1>13. GivenOut'
  <2>1. DOMAIN sessions' \subseteq Ids \union (nextId..(nextId' - 1))
    BY <1>1, <1>2, <1>4, <1>7, <1>10, Fresh DEF Ids
  <2>2. \A i \in DOMAIN sessions' :
            sessions'[i].live \in {0, Len(child')} \/ (i \in Ids /\ sessions'[i].live = sessions[i].live)
    BY <1>2, <1>4, <1>7, <1>10 DEF Ids
  <2>3. \A u \in Turns :
            /\ turn'[u].id = 0 \/ turn'[u].id = turn[u].id \/ (turn'[u].id = nextId /\ nextId' = nextId + 1)
            /\ turn'[u].ticket \in {0, turn[u].ticket, asked'}
            /\ turn'[u].child \in {0, turn[u].child, Len(child')}
    BY <1>2, <1>4, <1>7, <1>10
  <2>4. /\ nextId' \in {nextId, nextId + 1} /\ asked' \in {asked, asked + 1}
        /\ Len(child') \in {Len(child), Len(child) + 1} /\ closing' = closing
    BY <1>2, <1>4, <1>7, <1>10
  <2> QED
    BY <1>1, <2>1, <2>2, <2>3, <2>4, GivenOutKept
<1>14. Stages'
  <2>1. Stage(turn[t])
    BY <1>1 DEF Stages
  <2>2. Stage(turn'[t])
    BY <1>2, <1>3, <1>7, <2>1, <1>5 DEF Stage, Attached
  <2> QED
    BY <1>1, <1>7, <2>2 DEF Stages
<1>15. Lined'
  BY <1>1, <1>2, <1>3, <1>7, <1>5 DEF Lined, InTurn
<1>16. BoundIsOver'
  BY <1>1, <1>2, <1>3, <1>7 DEF BoundIsOver, ResetSticks
<1>17. OldestServes'
  <2>1. Unbounds' = Unbounds /\ \A j \in Unbounds : j # turn[t].id => sessions'[j] = sessions[j]
    BY <1>10 DEF Unbounds, Ids
  <2>2. turn[t].id \in Unbounds => sessions'[turn[t].id].phase \notin Terminal
    <3>1. turn[t].id \in Unbounds => sessions'[turn[t].id].phase = "Turn"
      BY <1>10 DEF Unbounds
    <3> QED
      BY <3>1, <1>2 DEF Over, Terminal
  <2>3. turn[t].id \in Unbounds =>
            \A j \in Unbounds : (j # turn[t].id => sessions[j].live = 0) /\ (j < turn[t].id => Over(j))
    BY <1>1, <1>3, Serves
  <2>4. \A j \in Unbounds : j \in Nat
    BY <1>1, Fresh DEF Unbounds
  <2>5. \A j \in Unbounds : j # turn[t].id => Over(j)' = Over(j) /\ sessions'[j].live = sessions[j].live
    BY <2>1 DEF Over
  <2>6. turn[t].id \in Nat
    BY <1>1, TurnTyped
  <2> QED
    BY <1>1, <2>1, <2>2, <2>5, <2>6, <2>3, <2>4 DEF OldestServes, Over
<1>18. TurnServed'
  <2>1. ASSUME NEW u \in Turns, u # t, InTurn(u)
        PROVE  turn[t].id \notin Unbounds
    BY <1>1, <1>3, <2>1, Serves, Serialized DEF TurnsSerialized
  <2>2. Unbounds' = Unbounds /\ \A j \in Unbounds : j # turn[t].id => sessions'[j] = sessions[j]
    BY <1>10 DEF Unbounds, Ids
  <2>3. ASSUME NEW u \in Turns, u # t
        PROVE  Served(u)'
    BY <1>1, <1>7, <2>1, <2>2, <2>3 DEF TurnServed, Served, InTurn, Over
  <2>4. Served(t)'
    <3>1. turn[t].id \in Unbounds =>
              \A j \in Unbounds : (j # turn[t].id => sessions[j].live = 0) /\ (j < turn[t].id => Over(j))
      BY <1>1, <1>3, Serves
    <3>2. turn[t].class = "Bounded" => turn[t].id \notin Unbounds
      BY <1>1 DEF TurnServed, Served
    <3>3. turn[t].id \in Nat /\ turn[t].child = 0 /\ (turn[t].id \in Unbounds => turn[t].id \in Ids)
      BY <1>1, <1>3, TurnTyped DEF Stages, Stage, Attached, Unbounds
    <3>4. turn'[t].id = turn[t].id /\ turn'[t].class = turn[t].class
      BY <1>7
    <3>5. \A j \in Unbounds : j # turn[t].id => Over(j)' = Over(j)
      BY <2>2 DEF Over
    <3> QED
      BY <1>3, <1>7, <1>10, <1>5, <2>2, <3>1, <3>2, <3>3, <3>4, <3>5 DEF Served, InTurn
  <2> QED
    BY <2>3, <2>4 DEF TurnServed, Served
<1>19. Silent'
  BY <1>1, <1>2, <1>3, <1>4 DEF Silent
<1>20. OneWaits'
  <2>1. \A u \in Turns : \A c \in DOMAIN child' : Waits(u, c)' => c \in DOMAIN child /\ Waits(u, c)
    <3>1. ASSUME NEW u \in Turns, NEW c \in DOMAIN child', Waits(u, c)'
          PROVE  c \in DOMAIN child /\ Waits(u, c)
      <4>1. u # t
        BY <1>7, <3>1 DEF Waits
      <4>2. Waits(u, c)
        BY <1>7, <3>1, <4>1 DEF Waits
      <4>3. turn[u].child \in Nat /\ turn[u].child <= Len(child)
        BY <1>1, TurnTyped DEF GivenOut
      <4>4. c # Len(child')
        BY <1>4, <1>5, <4>2, <4>3 DEF Waits
      <4> QED
        BY <1>4, <4>2, <4>4
    <3> QED
      BY <3>1
  <2> QED
    BY <1>1, <2>1 DEF OneWaits
<1>21. InFlight'
  <2> SUFFICES ASSUME ~graced, NEW d \in DOMAIN child'
               PROVE  /\ Len(child'[d].prompts) + Len(child'[d].results) <= 1
                      /\ child'[d].prompts # <<>> => Awaits(Head(child[d].prompts), d)'
                      /\ child'[d].results # <<>> => Awaits(Head(child[d].results), d)'
    BY <1>2, <1>4 DEF InFlight
  <2>1. d \in DOMAIN child =>
            /\ Len(child[d].prompts) + Len(child[d].results) <= 1
            /\ child[d].prompts # <<>> => Awaits(Head(child[d].prompts), d)
            /\ child[d].results # <<>> => Awaits(Head(child[d].results), d)
    BY <1>1 DEF InFlight
  <2>2. CASE d # Len(child')
    <3>1. d \in DOMAIN child /\ child'[d] = child[d]
      BY <1>4, <2>2
    <3>2. \A u \in Turns : Awaits(u, d) => Awaits(u, d)'
      BY <1>3, <1>7 DEF Awaits, Waits
    <3>3. /\ child[d].prompts # <<>> => Head(child[d].prompts) \in Turns
          /\ child[d].results # <<>> => Head(child[d].results) \in Turns
      BY <1>1, <3>1, ChildTyped
    <3>4. /\ child[d].prompts # <<>> => Awaits(Head(child[d].prompts), d)'
          /\ child[d].results # <<>> => Awaits(Head(child[d].results), d)'
      BY <2>1, <3>1, <3>2, <3>3 DEF Awaits, Waits
    <3> QED
      BY <2>1, <3>1, <3>4
  <2>3. CASE d = Len(child')
    <3>1. child'[d].prompts = <<>> /\ child'[d].results = <<>>
      BY <1>4, <2>3
    <3> QED
      BY <3>1
  <2> QED
    BY <2>2, <2>3
<1>22. OwnAnswer'
  BY <1>1, <1>2, <1>3, <1>7 DEF OwnAnswer
<1> QED
  BY <1>12, <1>13, <1>14, <1>15, <1>16, <1>17, <1>18, <1>19, <1>20, <1>21, <1>22 DEF IInv

(* A record that waited for a child ends without one. *)
LEMMA SpawnFailsStep ==
    ASSUME IInv, NEW t \in Turns, SpawnFails(t)
    PROVE  IInv'
<1>1. /\ TypeOK /\ GivenOut /\ Stages /\ Lined /\ BoundIsOver
      /\ OldestServes /\ TurnServed /\ Silent /\ OneWaits /\ InFlight /\ OwnAnswer
  BY DEF IInv
<1>2. UNCHANGED <<interactive, nextId, chain, nextLock, asked, fired, binding, child, closing,
                  dropped, graced, closes>>
  BY DEF SpawnFails, records, locks, history, Goto
<1>3. turn[t].pc = "spawning"
  BY DEF SpawnFails
<1>4. turn' = [turn EXCEPT ![t] = [turn[t] EXCEPT !.pc = "ended"]]
  BY <1>1 DEF TypeOK, TurnState, SpawnFails, Goto
<1>5. /\ \A u \in Turns : u # t => turn'[u] = turn[u]
      /\ turn'[t].pc = "ended"
      /\ turn'[t].class = turn[t].class /\ turn'[t].lock = turn[t].lock
      /\ turn'[t].ticket = turn[t].ticket
      /\ turn'[t].resume = turn[t].resume /\ turn'[t].bind = turn[t].bind
      /\ turn'[t].id = turn[t].id
      /\ turn'[t].child = turn[t].child /\ turn'[t].answer = turn[t].answer
  BY <1>1, <1>4 DEF TypeOK, TurnState
<1>6. turn' \in [Turns -> TurnState]
  <2>1. turn[t] \in TurnState
    BY <1>1 DEF TypeOK
  <2>2. [turn[t] EXCEPT !.pc = "ended"] \in TurnState
    BY <2>1 DEF TurnState, Pcs
  <2> QED
    BY <1>1, <1>4, <2>2 DEF TypeOK
<1>7. sessions' = Update(turn[t].id, [sessions[turn[t].id] EXCEPT !.phase = "Failed"])
  BY DEF SpawnFails, SetPhase
<1>8. /\ DOMAIN sessions' = Ids /\ \A i \in Ids : i # turn[t].id => sessions'[i] = sessions[i]
      /\ turn[t].id \in Ids => 
             /\ sessions'[turn[t].id].class = sessions[turn[t].id].class
             /\ sessions'[turn[t].id].phase = "Failed"
             /\ sessions'[turn[t].id].live = sessions[turn[t].id].live
  BY <1>1, <1>7, <1>3 DEF TypeOK, Entry, Ids, Update
<1>9. sessions' \in [DOMAIN sessions' -> Entry]
  <2>1. turn[t].id \in Ids => sessions[turn[t].id] \in Entry
    BY <1>1 DEF TypeOK
  <2>2. turn[t].id \in Ids => [sessions[turn[t].id] EXCEPT !.phase = "Failed"] \in Entry
    BY <2>1 DEF Entry, Phases, Terminal
  <2> QED
    BY <1>1, <1>7, <1>8, <2>2 DEF TypeOK, Update
<1>10. TypeOK'
  BY <1>1, <1>2, <1>6, <1>9, SessionsAssumption DEF TypeOK, Ids
<1>11. GivenOut'
  BY <1>1, <1>2, <1>3, <1>5, <1>8, TurnTyped, RecordTyped DEF GivenOut, Ids
<1>12. Stages'
  <2>1. Stage(turn[t])
    BY <1>1 DEF Stages
  <2>2. Stage(turn'[t])
    BY <1>2, <1>3, <1>5, <2>1 DEF Stage, Attached
  <2> QED
    BY <1>1, <1>5, <2>2 DEF Stages
<1>13. Lined'
  BY <1>1, <1>2, <1>3, <1>5 DEF Lined, InTurn
<1>14. BoundIsOver'
  BY <1>1, <1>2, <1>3, <1>5 DEF BoundIsOver, ResetSticks
<1>15. OldestServes'
  BY <1>1, <1>2, <1>3, <1>8, Serves DEF OldestServes, Unbounds, Ids, Over, Terminal
<1>16. TurnServed'
  BY <1>1, <1>2, <1>3, <1>5, <1>8, Serves, Fresh DEF TurnServed, Served, Unbounds, Ids, Over,
     InTurn, Terminal
<1>17. Silent'
  BY <1>1, <1>2 DEF Silent
<1>18. OneWaits'
  BY <1>1, <1>2, <1>3, <1>5 DEF OneWaits, Waits
<1>19. InFlight'
  <2>1. ASSUME NEW u \in Turns, NEW c \in DOMAIN child, Awaits(u, c),
               child[c].prompts # <<>> \/ child[c].results # <<>>
        PROVE  Awaits(u, c)'
    BY <1>3, <1>5, <2>1 DEF Awaits, Waits
  <2> QED
    BY <1>1, <1>2, <2>1, InFlightKept
<1>20. OwnAnswer'
  BY <1>1, <1>2, <1>3, <1>5 DEF OwnAnswer
<1> QED
  BY <1>10, <1>11, <1>12, <1>13, <1>14, <1>15, <1>16, <1>17, <1>18, <1>19, <1>20 DEF IInv

(* Nobody waits for the child when a turn starts to write to it. *)
LEMMA PromptStep ==
    ASSUME IInv, NEW t \in Turns, Prompt(t)
    PROVE  IInv'
<1>1. /\ TypeOK /\ GivenOut /\ Stages /\ Lined /\ BoundIsOver
      /\ OldestServes /\ TurnServed /\ Silent /\ OneWaits /\ InFlight /\ OwnAnswer
  BY DEF IInv
<1>2. UNCHANGED <<interactive, sessions, nextId, chain, nextLock, asked, fired, binding, child,
                  closing, dropped, graced, closes>>
  BY DEF Prompt, records, locks, history, Goto
<1>3. turn[t].pc = "prompting"
  BY DEF Prompt
<1>4. turn' = [turn EXCEPT ![t] = [turn[t] EXCEPT !.pc = "writing"]]
  BY <1>1 DEF TypeOK, TurnState, Prompt, Goto
<1>5. /\ \A u \in Turns : u # t => turn'[u] = turn[u]
      /\ turn'[t].pc = "writing"
      /\ turn'[t].class = turn[t].class /\ turn'[t].lock = turn[t].lock
      /\ turn'[t].ticket = turn[t].ticket
      /\ turn'[t].resume = turn[t].resume /\ turn'[t].bind = turn[t].bind
      /\ turn'[t].id = turn[t].id
      /\ turn'[t].child = turn[t].child /\ turn'[t].answer = turn[t].answer
  BY <1>1, <1>4 DEF TypeOK, TurnState
<1>6. turn' \in [Turns -> TurnState]
  <2>1. turn[t] \in TurnState
    BY <1>1 DEF TypeOK
  <2>2. [turn[t] EXCEPT !.pc = "writing"] \in TurnState
    BY <2>1 DEF TurnState, Pcs
  <2> QED
    BY <1>1, <1>4, <2>2 DEF TypeOK
<1>7. TypeOK'
  BY <1>1, <1>2, <1>6, SessionsAssumption DEF TypeOK, Ids
<1>8. GivenOut'
  BY <1>1, <1>2, <1>3, <1>5, TurnTyped, RecordTyped DEF GivenOut, Ids
<1>9. Stages'
  <2>1. Stage(turn[t])
    BY <1>1 DEF Stages
  <2>2. Stage(turn'[t])
    BY <1>2, <1>3, <1>5, <2>1 DEF Stage, Attached
  <2> QED
    BY <1>1, <1>5, <2>2 DEF Stages
<1>10. Lined'
  BY <1>1, <1>2, <1>3, <1>5 DEF Lined, InTurn
<1>11. BoundIsOver'
  BY <1>1, <1>2, <1>3, <1>5 DEF BoundIsOver, ResetSticks
<1>12. OldestServes'
  BY <1>1, <1>2 DEF OldestServes, Unbounds, Ids, Over
<1>13. TurnServed'
  BY <1>1, <1>2, <1>3, <1>5 DEF TurnServed, Served, Unbounds, Ids, Over, InTurn, Terminal
<1>14. Silent'
  BY <1>1, <1>2 DEF Silent
<1>15. OneWaits'
  <2>1. \A u \in Turns : ~Waits(u, turn[t].child)
    BY DEF Prompt, Waits
  <2> QED
    BY <1>1, <1>2, <1>3, <1>5, <2>1 DEF OneWaits, Waits
<1>16. InFlight'
  <2>1. ASSUME NEW u \in Turns, NEW c \in DOMAIN child, Awaits(u, c),
               child[c].prompts # <<>> \/ child[c].results # <<>>
        PROVE  Awaits(u, c)'
    BY <1>3, <1>5, <2>1 DEF Awaits, Waits
  <2> QED
    BY <1>1, <1>2, <2>1, InFlightKept
<1>17. OwnAnswer'
  BY <1>1, <1>2, <1>3, <1>5 DEF OwnAnswer
<1> QED
  BY <1>7, <1>8, <1>9, <1>10, <1>11, <1>12, <1>13, <1>14, <1>15, <1>16, <1>17 DEF IInv

(* Nobody else waits for the child, so nothing of an earlier turn is in it. *)
LEMMA PromptedStep ==
    ASSUME IInv, NEW t \in Turns, Prompted(t), child[turn[t].child].open
    PROVE  IInv'
<1>1. /\ TypeOK /\ GivenOut /\ Stages /\ Lined /\ BoundIsOver
      /\ OldestServes /\ TurnServed /\ Silent /\ OneWaits /\ InFlight /\ OwnAnswer
  BY DEF IInv
<1>2. UNCHANGED <<interactive, sessions, nextId, chain, nextLock, asked, fired, binding, closing,
                  dropped, graced, closes>>
  BY DEF Prompted, records, locks, history, Goto
<1>3. turn[t].pc = "writing"
  BY DEF Prompted
<1>4. turn[t].child \in DOMAIN child
  <2>1. turn[t].child # 0 /\ turn[t].child \in Nat /\ turn[t].child <= Len(child)
    BY <1>1, <1>3, TurnTyped DEF Stages, Stage, Attached, GivenOut
  <2> QED
    BY <1>1, <2>1 DEF TypeOK
<1>5. turn' = [turn EXCEPT ![t] = [turn[t] EXCEPT !.pc = "reading"]]
  BY <1>1 DEF TypeOK, TurnState, Prompted, Goto
<1>6. /\ \A u \in Turns : u # t => turn'[u] = turn[u]
      /\ turn'[t].pc = "reading"
      /\ turn'[t].class = turn[t].class /\ turn'[t].lock = turn[t].lock
      /\ turn'[t].ticket = turn[t].ticket
      /\ turn'[t].resume = turn[t].resume /\ turn'[t].bind = turn[t].bind
      /\ turn'[t].id = turn[t].id
      /\ turn'[t].child = turn[t].child /\ turn'[t].answer = turn[t].answer
  BY <1>1, <1>5 DEF TypeOK, TurnState
<1>7. turn' \in [Turns -> TurnState]
  <2>1. turn[t] \in TurnState
    BY <1>1 DEF TypeOK
  <2>2. [turn[t] EXCEPT !.pc = "reading"] \in TurnState
    BY <2>1 DEF TurnState, Pcs
  <2> QED
    BY <1>1, <1>5, <2>2 DEF TypeOK
<1>8. /\ child' \in Seq(ChildState) /\ DOMAIN child' = DOMAIN child /\ Len(child') = Len(child)
      /\ \A d \in DOMAIN child : d # turn[t].child => child'[d] = child[d]
      /\ child'[turn[t].child].open = TRUE
      /\ child'[turn[t].child].prompts = Append(child[turn[t].child].prompts, t)
      /\ child'[turn[t].child].results = child[turn[t].child].results
  <2>1. turn[t].child \in DOMAIN child /\ child[turn[t].child] \in ChildState
    BY <1>1, <1>4, ChildTyped
  <2> DEFINE n == [child[turn[t].child] EXCEPT !.prompts = Append(@, t)]
  <2>2. child' = [child EXCEPT ![turn[t].child] = n]
    BY DEF Prompted
  <2>3. n \in ChildState
    BY <1>1, <1>3, <2>1, ChildChanged, QueueTyped, ChildTyped
  <2>4. /\ n.open = TRUE
        /\ n.prompts = Append(child[turn[t].child].prompts, t)
        /\ n.results = child[turn[t].child].results
    BY <1>3, <2>1 DEF ChildState
  <2> HIDE DEF n
  <2> QED
    BY <1>1, <2>1, <2>2, <2>3, <2>4, ChildSet
<1>9. TypeOK'
  BY <1>1, <1>2, <1>7, <1>8, <1>4, SessionsAssumption DEF TypeOK, Ids, Prompted
<1>10. GivenOut'
  BY <1>1, <1>2, <1>3, <1>6, <1>8, TurnTyped, RecordTyped DEF GivenOut, Ids
<1>11. Stages'
  <2>1. Stage(turn[t])
    BY <1>1 DEF Stages
  <2>2. Stage(turn'[t])
    BY <1>2, <1>3, <1>6, <2>1 DEF Stage, Attached
  <2> QED
    BY <1>1, <1>6, <2>2 DEF Stages
<1>12. Lined'
  BY <1>1, <1>2, <1>3, <1>6 DEF Lined, InTurn
<1>13. BoundIsOver'
  BY <1>1, <1>2, <1>3, <1>6 DEF BoundIsOver, ResetSticks
<1>14. OldestServes'
  BY <1>1, <1>2 DEF OldestServes, Unbounds, Ids, Over
<1>15. TurnServed'
  BY <1>1, <1>2, <1>3, <1>6 DEF TurnServed, Served, Unbounds, Ids, Over, InTurn, Terminal
<1>16. Silent'
  BY <1>1, <1>2, <1>3, <1>8 DEF Silent
<1>17. OneWaits'
  BY <1>1, <1>2, <1>3, <1>6, <1>8 DEF OneWaits, Waits
<1>18. InFlight'
  <2> SUFFICES ASSUME ~graced, NEW d \in DOMAIN child
               PROVE  /\ Len(child'[d].prompts) + Len(child'[d].results) <= 1
                      /\ child'[d].prompts # <<>> => Awaits(Head(child[d].prompts), d)'
                      /\ child'[d].results # <<>> => Awaits(Head(child[d].results), d)'
    BY <1>2, <1>8 DEF InFlight
  <2>1. d \in DOMAIN child =>
            /\ Len(child[d].prompts) + Len(child[d].results) <= 1
            /\ child[d].prompts # <<>> => Awaits(Head(child[d].prompts), d)
            /\ child[d].results # <<>> => Awaits(Head(child[d].results), d)
    BY <1>1 DEF InFlight
  <2>2. CASE d # turn[t].child
    <3>1. \A u \in Turns : Awaits(u, d) => Awaits(u, d)'
      BY <1>3, <1>6 DEF Awaits, Waits
    <3>2. child'[d] = child[d]
      BY <1>8, <2>2
    <3>3. /\ child[d].prompts # <<>> => Awaits(Head(child[d].prompts), d)'
          /\ child[d].results # <<>> => Awaits(Head(child[d].results), d)'
      <4>1. /\ child[d].prompts # <<>> => Head(child[d].prompts) \in Turns
            /\ child[d].results # <<>> => Head(child[d].results) \in Turns
        BY <1>1, ChildTyped
      <4> QED
        BY <2>1, <3>1, <3>2, <4>1 DEF Awaits, Waits
    <3> QED
      BY <2>1, <3>2, <3>3
  <2>3. CASE d = turn[t].child
    <3>a. ASSUME NEW u \in Turns
          PROVE  ~Awaits(u, d)
      BY <1>1, <1>3, <1>4, <2>3 DEF OneWaits, Awaits, Waits
    <3>1. child[d].prompts = <<>> /\ child[d].results = <<>>
      BY <1>1, <1>4, <2>1, <2>3, <3>a, ChildTyped
    <3>2. child'[d].prompts = <<t>> /\ child'[d].results = <<>>
      BY <1>8, <2>3, <3>1
    <3>3. Awaits(t, d)'
      BY <1>6, <2>3 DEF Awaits, Waits
    <3> QED
      BY <3>2, <3>3 DEF Awaits, Waits
  <2> QED
    BY <2>2, <2>3
<1>19. OwnAnswer'
  BY <1>1, <1>2, <1>3, <1>6 DEF OwnAnswer
<1> QED
  BY <1>9, <1>10, <1>11, <1>12, <1>13, <1>14, <1>15, <1>16, <1>17, <1>18, <1>19 DEF IInv

(* The child is gone before the prompt: its record loses it. *)
LEMMA PromptedGoneStep ==
    ASSUME IInv, NEW t \in Turns, Prompted(t), ~child[turn[t].child].open
    PROVE  IInv'
<1>1. /\ TypeOK /\ GivenOut /\ Stages /\ Lined /\ BoundIsOver
      /\ OldestServes /\ TurnServed /\ Silent /\ OneWaits /\ InFlight /\ OwnAnswer
  BY DEF IInv
<1>2. UNCHANGED <<interactive, nextId, chain, nextLock, asked, fired, binding, child, closing,
                  dropped, graced, closes>>
  BY DEF Prompted, records, locks, history, TransportGone
<1>3. turn[t].pc = "writing"
  BY DEF Prompted
<1>4. turn[t].child \in DOMAIN child
  <2>1. turn[t].child # 0 /\ turn[t].child \in Nat /\ turn[t].child <= Len(child)
    BY <1>1, <1>3, TurnTyped DEF Stages, Stage, Attached, GivenOut
  <2> QED
    BY <1>1, <2>1 DEF TypeOK
<1>5. turn' = [turn EXCEPT ![t] = [turn[t] EXCEPT !.pc = "ended", !.child = 0]]
  BY <1>1 DEF TypeOK, TurnState, Prompted, TransportGone
<1>6. /\ \A u \in Turns : u # t => turn'[u] = turn[u]
      /\ turn'[t].pc = "ended" /\ turn'[t].child = 0
      /\ turn'[t].class = turn[t].class /\ turn'[t].lock = turn[t].lock
      /\ turn'[t].ticket = turn[t].ticket
      /\ turn'[t].resume = turn[t].resume /\ turn'[t].bind = turn[t].bind
      /\ turn'[t].id = turn[t].id
      /\ turn'[t].answer = turn[t].answer
  BY <1>1, <1>5 DEF TypeOK, TurnState
<1>7. turn' \in [Turns -> TurnState]
  <2>1. turn[t] \in TurnState
    BY <1>1 DEF TypeOK
  <2>2. [turn[t] EXCEPT !.pc = "ended", !.child = 0] \in TurnState
    BY <2>1 DEF TurnState, Pcs
  <2> QED
    BY <1>1, <1>5, <2>2 DEF TypeOK
<1>8. sessions' = Update(turn[t].id, [sessions[turn[t].id] EXCEPT !.live = 0])
  BY DEF Prompted, TransportGone
<1>9. /\ DOMAIN sessions' = Ids /\ \A i \in Ids : i # turn[t].id => sessions'[i] = sessions[i]
      /\ turn[t].id \in Ids => 
             /\ sessions'[turn[t].id].class = sessions[turn[t].id].class
             /\ sessions'[turn[t].id].phase = sessions[turn[t].id].phase
             /\ sessions'[turn[t].id].live = 0
  BY <1>1, <1>8, <1>3 DEF TypeOK, Entry, Ids, Update
<1>10. sessions' \in [DOMAIN sessions' -> Entry]
  <2>1. turn[t].id \in Ids => sessions[turn[t].id] \in Entry
    BY <1>1 DEF TypeOK
  <2>2. turn[t].id \in Ids => [sessions[turn[t].id] EXCEPT !.live = 0] \in Entry
    BY <2>1 DEF Entry, Phases, Terminal
  <2> QED
    BY <1>1, <1>8, <1>9, <2>2 DEF TypeOK, Update
<1>11. TypeOK'
  BY <1>1, <1>2, <1>7, <1>10, <1>4, SessionsAssumption DEF TypeOK, Ids
<1>12. GivenOut'
  <2>1. DOMAIN sessions' \subseteq Ids \union (nextId..(nextId' - 1))
    BY <1>1, <1>2, <1>6, <1>9, Fresh DEF Ids
  <2>2. \A i \in DOMAIN sessions' :
            sessions'[i].live \in {0, Len(child')} \/ (i \in Ids /\ sessions'[i].live = sessions[i].live)
    BY <1>2, <1>6, <1>9 DEF Ids
  <2>3. \A u \in Turns :
            /\ turn'[u].id = 0 \/ turn'[u].id = turn[u].id \/ (turn'[u].id = nextId /\ nextId' = nextId + 1)
            /\ turn'[u].ticket \in {0, turn[u].ticket, asked'}
            /\ turn'[u].child \in {0, turn[u].child, Len(child')}
    BY <1>2, <1>6, <1>9
  <2>4. /\ nextId' \in {nextId, nextId + 1} /\ asked' \in {asked, asked + 1}
        /\ Len(child') \in {Len(child), Len(child) + 1} /\ closing' = closing
    BY <1>2, <1>6, <1>9
  <2> QED
    BY <1>1, <2>1, <2>2, <2>3, <2>4, GivenOutKept
<1>13. Stages'
  <2>1. Stage(turn[t])
    BY <1>1 DEF Stages
  <2>2. Stage(turn'[t])
    BY <1>2, <1>3, <1>6, <2>1 DEF Stage, Attached
  <2> QED
    BY <1>1, <1>6, <2>2 DEF Stages
<1>14. Lined'
  BY <1>1, <1>2, <1>3, <1>6 DEF Lined, InTurn
<1>15. BoundIsOver'
  BY <1>1, <1>2, <1>3, <1>6 DEF BoundIsOver, ResetSticks
<1>16. OldestServes'
  BY <1>1, <1>2, <1>3, <1>9 DEF OldestServes, Unbounds, Ids, Over, Terminal
<1>17. TurnServed'
  BY <1>1, <1>2, <1>3, <1>6, <1>9, Serves, Fresh DEF TurnServed, Served, Unbounds, Ids, Over,
     InTurn, Terminal
<1>18. Silent'
  BY <1>1, <1>2 DEF Silent
<1>19. OneWaits'
  BY <1>1, <1>2, <1>3, <1>6 DEF OneWaits, Waits
<1>20. InFlight'
  <2>1. ASSUME NEW u \in Turns, NEW c \in DOMAIN child, Awaits(u, c),
               child[c].prompts # <<>> \/ child[c].results # <<>>
        PROVE  Awaits(u, c)'
    BY <1>3, <1>6, <2>1 DEF Awaits, Waits
  <2> QED
    BY <1>1, <1>2, <2>1, InFlightKept
<1>21. OwnAnswer'
  BY <1>1, <1>2, <1>3, <1>6 DEF OwnAnswer
<1> QED
  BY <1>11, <1>12, <1>13, <1>14, <1>15, <1>16, <1>17, <1>18, <1>19, <1>20, <1>21 DEF IInv

(* The prompt becomes the result, of the same turn. *)
LEMMA ReplyStep ==
    ASSUME IInv, NEW c \in DOMAIN child, Reply(c)
    PROVE  IInv'
<1>1. /\ TypeOK /\ GivenOut /\ Stages /\ Lined /\ BoundIsOver
      /\ OldestServes /\ TurnServed /\ Silent /\ OneWaits /\ InFlight /\ OwnAnswer
  BY DEF IInv
<1>2. UNCHANGED <<interactive, sessions, nextId, chain, nextLock, asked, turn, fired, binding,
                  closing, dropped, graced, closes>>
  BY DEF Reply, records, locks, history
<1>3. child[c].open /\ child[c].prompts # <<>>
  BY DEF Reply
<1>4. /\ child' \in Seq(ChildState) /\ DOMAIN child' = DOMAIN child /\ Len(child') = Len(child)
      /\ \A d \in DOMAIN child : d # c => child'[d] = child[d]
      /\ child'[c].open = TRUE /\ child'[c].prompts = Tail(child[c].prompts)
      /\ child'[c].results = Append(child[c].results, Head(child[c].prompts))
  <2>1. c \in DOMAIN child /\ child[c] \in ChildState
    BY <1>1, ChildTyped
  <2> DEFINE n == [child[c] EXCEPT !.prompts = Tail(child[c].prompts),
                                   !.results = Append(child[c].results, Head(child[c].prompts))]
  <2>2. child' = [child EXCEPT ![c] = n]
    BY DEF Reply
  <2>3. n \in ChildState
    BY <1>1, <1>3, <2>1, ChildChanged, QueueTyped, ChildTyped
  <2>4. /\ n.open = TRUE
        /\ n.prompts = Tail(child[c].prompts)
        /\ n.results = Append(child[c].results, Head(child[c].prompts))
    BY <1>3, <2>1 DEF ChildState
  <2> HIDE DEF n
  <2> QED
    BY <1>1, <2>1, <2>2, <2>3, <2>4, ChildSet
<1>5. TypeOK'
  BY <1>1, <1>2, <1>4, SessionsAssumption DEF TypeOK, Ids, Reply
<1>6. GivenOut'
  BY <1>1, <1>2, <1>3, <1>4, TurnTyped, RecordTyped DEF GivenOut, Ids
<1>7. Stages'
  BY <1>1, <1>2 DEF Stages, Stage, Attached
<1>8. Lined'
  BY <1>1, <1>2 DEF Lined, InTurn
<1>9. BoundIsOver'
  BY <1>1, <1>2 DEF BoundIsOver, ResetSticks
<1>10. OldestServes'
  BY <1>1, <1>2 DEF OldestServes, Unbounds, Ids, Over
<1>11. TurnServed'
  BY <1>1, <1>2 DEF TurnServed, Served, Unbounds, Ids, Over, InTurn
<1>12. Silent'
  BY <1>1, <1>2, <1>3, <1>4 DEF Silent
<1>13. OneWaits'
  BY <1>1, <1>2, <1>3, <1>4 DEF OneWaits, Waits
<1>14. InFlight'
  <2> SUFFICES ASSUME ~graced, NEW d \in DOMAIN child
               PROVE  /\ Len(child'[d].prompts) + Len(child'[d].results) <= 1
                      /\ child'[d].prompts # <<>> => Awaits(Head(child[d].prompts), d)'
                      /\ child'[d].results # <<>> => Awaits(Head(child[d].results), d)'
    BY <1>2, <1>4 DEF InFlight
  <2>1. d \in DOMAIN child =>
            /\ Len(child[d].prompts) + Len(child[d].results) <= 1
            /\ child[d].prompts # <<>> => Awaits(Head(child[d].prompts), d)
            /\ child[d].results # <<>> => Awaits(Head(child[d].results), d)
    BY <1>1 DEF InFlight
  <2>2. CASE d # c
    BY <1>1, <1>2, <1>3, <1>4, <2>1, <2>2, ChildTyped DEF Awaits, Waits
  <2>3. CASE d = c
    <3>1. child[d].prompts \in Seq(Turns) /\ child[d].results \in Seq(Turns) /\ d \in DOMAIN child
      BY <1>1, <2>3, ChildTyped
    <3>2. child'[d].prompts = <<>> /\ child'[d].results = <<Head(child[d].prompts)>>
      BY <1>3, <1>4, <2>1, <2>3, <3>1, OneMoved
    <3>3. Awaits(Head(child[d].prompts), d)
      BY <1>3, <2>1, <2>3
    <3> QED
      BY <1>2, <3>2, <3>3 DEF Awaits, Waits
  <2> QED
    BY <2>2, <2>3
<1>15. OwnAnswer'
  BY <1>1, <1>2 DEF OwnAnswer
<1> QED
  BY <1>5, <1>6, <1>7, <1>8, <1>9, <1>10, <1>11, <1>12, <1>13, <1>14, <1>15 DEF IInv

(* A child that exits leaves what it answered. *)
LEMMA ExitStep ==
    ASSUME IInv, NEW c \in DOMAIN child, Exit(c)
    PROVE  IInv'
<1>1. /\ TypeOK /\ GivenOut /\ Stages /\ Lined /\ BoundIsOver
      /\ OldestServes /\ TurnServed /\ Silent /\ OneWaits /\ InFlight /\ OwnAnswer
  BY DEF IInv
<1>2. UNCHANGED <<interactive, sessions, nextId, chain, nextLock, asked, turn, fired, binding,
                  closing, dropped, graced, closes>>
  BY DEF Exit, records, locks, history
<1>3. child[c].open
  BY DEF Exit
<1>4. /\ child' \in Seq(ChildState) /\ DOMAIN child' = DOMAIN child /\ Len(child') = Len(child)
      /\ \A d \in DOMAIN child : d # c => child'[d] = child[d]
      /\ child'[c].open = FALSE /\ child'[c].prompts = <<>>
      /\ child'[c].results = child[c].results
  <2>1. c \in DOMAIN child /\ child[c] \in ChildState
    BY <1>1, ChildTyped
  <2> DEFINE n == [child[c] EXCEPT !.open = FALSE, !.prompts = <<>>]
  <2>2. child' = [child EXCEPT ![c] = n]
    BY DEF Exit
  <2>3. n \in ChildState
    BY <1>1, <1>3, <2>1, ChildChanged, NoneIn, ChildTyped
  <2>4. /\ n.open = FALSE
        /\ n.prompts = <<>>
        /\ n.results = child[c].results
    BY <1>3, <2>1 DEF ChildState
  <2> HIDE DEF n
  <2> QED
    BY <1>1, <2>1, <2>2, <2>3, <2>4, ChildSet
<1>5. TypeOK'
  BY <1>1, <1>2, <1>4, SessionsAssumption DEF TypeOK, Ids, Exit
<1>6. GivenOut'
  BY <1>1, <1>2, <1>3, <1>4, TurnTyped, RecordTyped DEF GivenOut, Ids
<1>7. Stages'
  BY <1>1, <1>2 DEF Stages, Stage, Attached
<1>8. Lined'
  BY <1>1, <1>2 DEF Lined, InTurn
<1>9. BoundIsOver'
  BY <1>1, <1>2 DEF BoundIsOver, ResetSticks
<1>10. OldestServes'
  BY <1>1, <1>2 DEF OldestServes, Unbounds, Ids, Over
<1>11. TurnServed'
  BY <1>1, <1>2 DEF TurnServed, Served, Unbounds, Ids, Over, InTurn
<1>12. Silent'
  BY <1>1, <1>2, <1>3, <1>4 DEF Silent
<1>13. OneWaits'
  BY <1>1, <1>2, <1>3, <1>4 DEF OneWaits, Waits
<1>14. InFlight'
  <2> SUFFICES ASSUME ~graced, NEW d \in DOMAIN child
               PROVE  /\ Len(child'[d].prompts) + Len(child'[d].results) <= 1
                      /\ child'[d].prompts # <<>> => Awaits(Head(child[d].prompts), d)'
                      /\ child'[d].results # <<>> => Awaits(Head(child[d].results), d)'
    BY <1>2, <1>4 DEF InFlight
  <2>1. d \in DOMAIN child =>
            /\ Len(child[d].prompts) + Len(child[d].results) <= 1
            /\ child[d].prompts # <<>> => Awaits(Head(child[d].prompts), d)
            /\ child[d].results # <<>> => Awaits(Head(child[d].results), d)
    BY <1>1 DEF InFlight
  <2>2. CASE d # c
    BY <1>1, <1>2, <1>3, <1>4, <2>1, <2>2, ChildTyped DEF Awaits, Waits
  <2>3. CASE d = c
    <3>1. child[d].prompts \in Seq(Turns) /\ child[d].results \in Seq(Turns) /\ d \in DOMAIN child
      BY <1>1, ChildTyped
    <3>2. /\ Len(child'[d].prompts) = 0 /\ Len(child[d].prompts) \in Nat
          /\ Len(child[d].results) \in Nat
             /\ child'[d].results = child[d].results /\ child'[d].prompts = <<>>
      BY <1>4, <2>3, <3>1
    <3>3. ASSUME NEW m \in Nat, NEW n \in Nat, m + n <= 1
          PROVE  0 + n <= 1
      BY <3>3
    <3> QED
      BY <1>2, <2>1, <3>1, <3>2, <3>3 DEF Awaits, Waits
  <2> QED
    BY <2>2, <2>3
<1>15. OwnAnswer'
  BY <1>1, <1>2 DEF OwnAnswer
<1> QED
  BY <1>5, <1>6, <1>7, <1>8, <1>9, <1>10, <1>11, <1>12, <1>13, <1>14, <1>15 DEF IInv

(* A child that reads no more keeps what it has. *)
LEMMA ClogStep ==
    ASSUME IInv, NEW c \in DOMAIN child, Clog(c)
    PROVE  IInv'
<1>1. /\ TypeOK /\ GivenOut /\ Stages /\ Lined /\ BoundIsOver
      /\ OldestServes /\ TurnServed /\ Silent /\ OneWaits /\ InFlight /\ OwnAnswer
  BY DEF IInv
<1>2. UNCHANGED <<interactive, sessions, nextId, chain, nextLock, asked, turn, fired, binding,
                  closing, dropped, graced, closes>>
  BY DEF Clog, records, locks, history
<1>3. child[c].open
  BY DEF Clog
<1>4. /\ child' \in Seq(ChildState) /\ DOMAIN child' = DOMAIN child /\ Len(child') = Len(child)
      /\ \A d \in DOMAIN child : d # c => child'[d] = child[d]
      /\ child'[c].open = TRUE /\ child'[c].prompts = child[c].prompts
      /\ child'[c].results = child[c].results
  <2>1. c \in DOMAIN child /\ child[c] \in ChildState
    BY <1>1, ChildTyped
  <2> DEFINE n == [child[c] EXCEPT !.takes = FALSE]
  <2>2. child' = [child EXCEPT ![c] = n]
    BY DEF Clog
  <2>3. n \in ChildState
    BY <1>1, <1>3, <2>1, ChildChanged, NoneIn, ChildTyped
  <2>4. /\ n.open = TRUE
        /\ n.prompts = child[c].prompts
        /\ n.results = child[c].results
    BY <1>3, <2>1 DEF ChildState
  <2> HIDE DEF n
  <2> QED
    BY <1>1, <2>1, <2>2, <2>3, <2>4, ChildSet
<1>5. TypeOK'
  BY <1>1, <1>2, <1>4, SessionsAssumption DEF TypeOK, Ids, Clog
<1>6. GivenOut'
  BY <1>1, <1>2, <1>3, <1>4, TurnTyped, RecordTyped DEF GivenOut, Ids
<1>7. Stages'
  BY <1>1, <1>2 DEF Stages, Stage, Attached
<1>8. Lined'
  BY <1>1, <1>2 DEF Lined, InTurn
<1>9. BoundIsOver'
  BY <1>1, <1>2 DEF BoundIsOver, ResetSticks
<1>10. OldestServes'
  BY <1>1, <1>2 DEF OldestServes, Unbounds, Ids, Over
<1>11. TurnServed'
  BY <1>1, <1>2 DEF TurnServed, Served, Unbounds, Ids, Over, InTurn
<1>12. Silent'
  BY <1>1, <1>2, <1>3, <1>4 DEF Silent
<1>13. OneWaits'
  BY <1>1, <1>2, <1>3, <1>4 DEF OneWaits, Waits
<1>14. InFlight'
  <2> SUFFICES ASSUME ~graced, NEW d \in DOMAIN child
               PROVE  /\ Len(child'[d].prompts) + Len(child'[d].results) <= 1
                      /\ child'[d].prompts # <<>> => Awaits(Head(child[d].prompts), d)'
                      /\ child'[d].results # <<>> => Awaits(Head(child[d].results), d)'
    BY <1>2, <1>4 DEF InFlight
  <2>1. d \in DOMAIN child =>
            /\ Len(child[d].prompts) + Len(child[d].results) <= 1
            /\ child[d].prompts # <<>> => Awaits(Head(child[d].prompts), d)
            /\ child[d].results # <<>> => Awaits(Head(child[d].results), d)
    BY <1>1 DEF InFlight
  <2>2. CASE d # c
    BY <1>1, <1>2, <1>3, <1>4, <2>1, <2>2, ChildTyped DEF Awaits, Waits
  <2>3. CASE d = c
    BY <1>2, <1>4, <2>1, <2>3, ChildTyped, <1>1 DEF Awaits, Waits
  <2> QED
    BY <2>2, <2>3
<1>15. OwnAnswer'
  BY <1>1, <1>2 DEF OwnAnswer
<1> QED
  BY <1>5, <1>6, <1>7, <1>8, <1>9, <1>10, <1>11, <1>12, <1>13, <1>14, <1>15 DEF IInv

(* A turn that is told to stop still waits for its child. *)
LEMMA AbortingStep ==
    ASSUME IInv, NEW t \in Turns, Aborting(t)
    PROVE  IInv'
<1>1. /\ TypeOK /\ GivenOut /\ Stages /\ Lined /\ BoundIsOver
      /\ OldestServes /\ TurnServed /\ Silent /\ OneWaits /\ InFlight /\ OwnAnswer
  BY DEF IInv
<1>2. UNCHANGED <<interactive, sessions, nextId, chain, nextLock, asked, fired, binding, child,
                  closing, dropped, graced, closes>>
  BY DEF Aborting, records, locks, history, Goto
<1>3. turn[t].pc = "reading"
  BY DEF Aborting
<1>4. turn' = [turn EXCEPT ![t] = [turn[t] EXCEPT !.pc = "interrupting"]]
  BY <1>1 DEF TypeOK, TurnState, Aborting, Goto
<1>5. /\ \A u \in Turns : u # t => turn'[u] = turn[u]
      /\ turn'[t].pc = "interrupting"
      /\ turn'[t].class = turn[t].class /\ turn'[t].lock = turn[t].lock
      /\ turn'[t].ticket = turn[t].ticket
      /\ turn'[t].resume = turn[t].resume /\ turn'[t].bind = turn[t].bind
      /\ turn'[t].id = turn[t].id
      /\ turn'[t].child = turn[t].child /\ turn'[t].answer = turn[t].answer
  BY <1>1, <1>4 DEF TypeOK, TurnState
<1>6. turn' \in [Turns -> TurnState]
  <2>1. turn[t] \in TurnState
    BY <1>1 DEF TypeOK
  <2>2. [turn[t] EXCEPT !.pc = "interrupting"] \in TurnState
    BY <2>1 DEF TurnState, Pcs
  <2> QED
    BY <1>1, <1>4, <2>2 DEF TypeOK
<1>7. TypeOK'
  BY <1>1, <1>2, <1>6, SessionsAssumption DEF TypeOK, Ids
<1>8. GivenOut'
  BY <1>1, <1>2, <1>3, <1>5, TurnTyped, RecordTyped DEF GivenOut, Ids
<1>9. Stages'
  <2>1. Stage(turn[t])
    BY <1>1 DEF Stages
  <2>2. Stage(turn'[t])
    BY <1>2, <1>3, <1>5, <2>1 DEF Stage, Attached
  <2> QED
    BY <1>1, <1>5, <2>2 DEF Stages
<1>10. Lined'
  BY <1>1, <1>2, <1>3, <1>5 DEF Lined, InTurn
<1>11. BoundIsOver'
  BY <1>1, <1>2, <1>3, <1>5 DEF BoundIsOver, ResetSticks
<1>12. OldestServes'
  BY <1>1, <1>2 DEF OldestServes, Unbounds, Ids, Over
<1>13. TurnServed'
  BY <1>1, <1>2, <1>3, <1>5 DEF TurnServed, Served, Unbounds, Ids, Over, InTurn, Terminal
<1>14. Silent'
  BY <1>1, <1>2 DEF Silent
<1>15. OneWaits'
  BY <1>1, <1>2, <1>3, <1>5 DEF OneWaits, Waits
<1>16. InFlight'
  <2>1. ASSUME NEW u \in Turns, NEW c \in DOMAIN child, Awaits(u, c),
               child[c].prompts # <<>> \/ child[c].results # <<>>
        PROVE  Awaits(u, c)'
    BY <1>3, <1>5, <2>1 DEF Awaits, Waits
  <2> QED
    BY <1>1, <1>2, <2>1, InFlightKept
<1>17. OwnAnswer'
  BY <1>1, <1>2, <1>3, <1>5 DEF OwnAnswer
<1> QED
  BY <1>7, <1>8, <1>9, <1>10, <1>11, <1>12, <1>13, <1>14, <1>15, <1>16, <1>17 DEF IInv

(* An interrupted turn still waits for its result. *)
LEMMA InterruptedStep ==
    ASSUME IInv, NEW t \in Turns, Interrupted(t)
    PROVE  IInv'
<1>1. /\ TypeOK /\ GivenOut /\ Stages /\ Lined /\ BoundIsOver
      /\ OldestServes /\ TurnServed /\ Silent /\ OneWaits /\ InFlight /\ OwnAnswer
  BY DEF IInv
<1>2. UNCHANGED <<interactive, sessions, nextId, chain, nextLock, asked, fired, binding, child,
                  closing, dropped, graced, closes>>
  BY DEF Interrupted, records, locks, history, Goto
<1>3. turn[t].pc = "interrupting"
  BY DEF Interrupted
<1>4. turn' = [turn EXCEPT ![t] = [turn[t] EXCEPT !.pc = "aborting"]]
  BY <1>1 DEF TypeOK, TurnState, Interrupted, Goto
<1>5. /\ \A u \in Turns : u # t => turn'[u] = turn[u]
      /\ turn'[t].pc = "aborting"
      /\ turn'[t].class = turn[t].class /\ turn'[t].lock = turn[t].lock
      /\ turn'[t].ticket = turn[t].ticket
      /\ turn'[t].resume = turn[t].resume /\ turn'[t].bind = turn[t].bind
      /\ turn'[t].id = turn[t].id
      /\ turn'[t].child = turn[t].child /\ turn'[t].answer = turn[t].answer
  BY <1>1, <1>4 DEF TypeOK, TurnState
<1>6. turn' \in [Turns -> TurnState]
  <2>1. turn[t] \in TurnState
    BY <1>1 DEF TypeOK
  <2>2. [turn[t] EXCEPT !.pc = "aborting"] \in TurnState
    BY <2>1 DEF TurnState, Pcs
  <2> QED
    BY <1>1, <1>4, <2>2 DEF TypeOK
<1>7. TypeOK'
  BY <1>1, <1>2, <1>6, SessionsAssumption DEF TypeOK, Ids
<1>8. GivenOut'
  BY <1>1, <1>2, <1>3, <1>5, TurnTyped, RecordTyped DEF GivenOut, Ids
<1>9. Stages'
  <2>1. Stage(turn[t])
    BY <1>1 DEF Stages
  <2>2. Stage(turn'[t])
    BY <1>2, <1>3, <1>5, <2>1 DEF Stage, Attached
  <2> QED
    BY <1>1, <1>5, <2>2 DEF Stages
<1>10. Lined'
  BY <1>1, <1>2, <1>3, <1>5 DEF Lined, InTurn
<1>11. BoundIsOver'
  BY <1>1, <1>2, <1>3, <1>5 DEF BoundIsOver, ResetSticks
<1>12. OldestServes'
  BY <1>1, <1>2 DEF OldestServes, Unbounds, Ids, Over
<1>13. TurnServed'
  BY <1>1, <1>2, <1>3, <1>5 DEF TurnServed, Served, Unbounds, Ids, Over, InTurn, Terminal
<1>14. Silent'
  BY <1>1, <1>2 DEF Silent
<1>15. OneWaits'
  BY <1>1, <1>2, <1>3, <1>5 DEF OneWaits, Waits
<1>16. InFlight'
  <2>1. ASSUME NEW u \in Turns, NEW c \in DOMAIN child, Awaits(u, c),
               child[c].prompts # <<>> \/ child[c].results # <<>>
        PROVE  Awaits(u, c)'
    BY <1>3, <1>5, <2>1 DEF Awaits, Waits
  <2> QED
    BY <1>1, <1>2, <2>1, InFlightKept
<1>17. OwnAnswer'
  BY <1>1, <1>2, <1>3, <1>5 DEF OwnAnswer
<1> QED
  BY <1>7, <1>8, <1>9, <1>10, <1>11, <1>12, <1>13, <1>14, <1>15, <1>16, <1>17 DEF IInv

(* A turn gives up; from here on results may be late. *)
LEMMA GraceStep ==
    ASSUME IInv, NEW t \in Turns, Grace(t)
    PROVE  IInv'
<1>1. /\ TypeOK /\ GivenOut /\ Stages /\ Lined /\ BoundIsOver
      /\ OldestServes /\ TurnServed /\ Silent /\ OneWaits /\ InFlight /\ OwnAnswer
  BY DEF IInv
<1>2. UNCHANGED <<interactive, sessions, nextId, chain, nextLock, asked, fired, binding, child,
                  closing, dropped, closes>>
  BY DEF Grace, records, locks, history
<1>3. turn[t].pc = "aborting" /\ graced' = TRUE
  BY DEF Grace
<1>4. turn' = [turn EXCEPT ![t] = [turn[t] EXCEPT !.pc = "ended", !.child = 0]]
  BY <1>1 DEF TypeOK, TurnState, Grace
<1>5. /\ \A u \in Turns : u # t => turn'[u] = turn[u]
      /\ turn'[t].pc = "ended" /\ turn'[t].child = 0
      /\ turn'[t].class = turn[t].class /\ turn'[t].lock = turn[t].lock
      /\ turn'[t].ticket = turn[t].ticket
      /\ turn'[t].resume = turn[t].resume /\ turn'[t].bind = turn[t].bind
      /\ turn'[t].id = turn[t].id
      /\ turn'[t].answer = turn[t].answer
  BY <1>1, <1>4 DEF TypeOK, TurnState
<1>6. turn' \in [Turns -> TurnState]
  <2>1. turn[t] \in TurnState
    BY <1>1 DEF TypeOK
  <2>2. [turn[t] EXCEPT !.pc = "ended", !.child = 0] \in TurnState
    BY <2>1 DEF TurnState, Pcs
  <2> QED
    BY <1>1, <1>4, <2>2 DEF TypeOK
<1>7. TypeOK'
  BY <1>1, <1>2, <1>6, SessionsAssumption DEF TypeOK, Ids, Grace
<1>8. GivenOut'
  BY <1>1, <1>2, <1>3, <1>5, TurnTyped, RecordTyped DEF GivenOut, Ids
<1>9. Stages'
  <2>1. Stage(turn[t])
    BY <1>1 DEF Stages
  <2>2. Stage(turn'[t])
    BY <1>2, <1>3, <1>5, <2>1 DEF Stage, Attached
  <2> QED
    BY <1>1, <1>5, <2>2 DEF Stages
<1>10. Lined'
  BY <1>1, <1>2, <1>3, <1>5 DEF Lined, InTurn
<1>11. BoundIsOver'
  BY <1>1, <1>2, <1>3, <1>5 DEF BoundIsOver, ResetSticks
<1>12. OldestServes'
  BY <1>1, <1>2 DEF OldestServes, Unbounds, Ids, Over
<1>13. TurnServed'
  BY <1>1, <1>2, <1>3, <1>5 DEF TurnServed, Served, Unbounds, Ids, Over, InTurn, Terminal
<1>14. Silent'
  BY <1>1, <1>2 DEF Silent
<1>15. OneWaits'
  BY <1>1, <1>2, <1>3, <1>5 DEF OneWaits, Waits
<1>16. InFlight'
  BY <1>1, <1>2, <1>3, <1>5 DEF InFlight, Awaits, Waits
<1>17. OwnAnswer'
  BY <1>1, <1>2, <1>3, <1>5 DEF OwnAnswer
<1> QED
  BY <1>7, <1>8, <1>9, <1>10, <1>11, <1>12, <1>13, <1>14, <1>15, <1>16, <1>17 DEF IInv

(* The result is that of the one turn that waits. *)
LEMMA ReadAnswerStep ==
    ASSUME IInv, NEW t \in Turns, Read(t), child[turn[t].child].results # <<>>
    PROVE  IInv'
<1>1. /\ TypeOK /\ GivenOut /\ Stages /\ Lined /\ BoundIsOver
      /\ OldestServes /\ TurnServed /\ Silent /\ OneWaits /\ InFlight /\ OwnAnswer
  BY DEF IInv
<1>2. UNCHANGED <<interactive, sessions, nextId, chain, nextLock, asked, fired, binding, closing,
                  dropped, graced, closes>>
  BY DEF Read, records, locks, history
<1>3. turn[t].pc \in {"reading", "aborting"}
  BY DEF Read
<1>4. turn[t].child \in DOMAIN child
  <2>1. turn[t].child # 0 /\ turn[t].child \in Nat /\ turn[t].child <= Len(child)
    BY <1>1, <1>3, TurnTyped DEF Stages, Stage, Attached, GivenOut
  <2> QED
    BY <1>1, <2>1 DEF TypeOK
<1>5. turn' = [turn EXCEPT ![t] = [turn[t] EXCEPT !.pc = "ended", !.child = 0,
                                                  !.answer = Head(child[turn[t].child].results)]]
  BY <1>1 DEF TypeOK, TurnState, Read
<1>6. /\ \A u \in Turns : u # t => turn'[u] = turn[u]
      /\ turn'[t].pc = "ended" /\ turn'[t].child = 0
      /\ turn'[t].answer = Head(child[turn[t].child].results)
      /\ turn'[t].class = turn[t].class /\ turn'[t].lock = turn[t].lock
      /\ turn'[t].ticket = turn[t].ticket
      /\ turn'[t].resume = turn[t].resume /\ turn'[t].bind = turn[t].bind
      /\ turn'[t].id = turn[t].id
  BY <1>1, <1>5 DEF TypeOK, TurnState
<1>7. turn' \in [Turns -> TurnState]
  <2>1. turn[t] \in TurnState
    BY <1>1 DEF TypeOK
  <2>2. [turn[t] EXCEPT !.pc = "ended", !.child = 0,
                        !.answer = Head(child[turn[t].child].results)] \in TurnState
    BY <2>1, <1>1, <1>4, ChildTyped DEF TurnState, Pcs
  <2> QED
    BY <1>1, <1>5, <2>2 DEF TypeOK
<1>8. /\ child' \in Seq(ChildState) /\ DOMAIN child' = DOMAIN child /\ Len(child') = Len(child)
      /\ \A d \in DOMAIN child : d # turn[t].child => child'[d] = child[d]
      /\ child'[turn[t].child].open = child[turn[t].child].open
      /\ child'[turn[t].child].prompts = child[turn[t].child].prompts
      /\ child'[turn[t].child].results = Tail(child[turn[t].child].results)
  <2>1. turn[t].child \in DOMAIN child /\ child[turn[t].child] \in ChildState
    BY <1>1, <1>4, ChildTyped
  <2> DEFINE n == [child[turn[t].child] EXCEPT !.results = Tail(@)]
  <2>2. child' = [child EXCEPT ![turn[t].child] = n]
    BY DEF Read
  <2>3. n \in ChildState
    BY <1>1, <1>3, <2>1, ChildChanged, QueueTyped, ChildTyped
  <2>4. /\ n.open = child[turn[t].child].open
        /\ n.prompts = child[turn[t].child].prompts
        /\ n.results = Tail(child[turn[t].child].results)
    BY <1>3, <2>1 DEF ChildState
  <2> HIDE DEF n
  <2> QED
    BY <1>1, <2>1, <2>2, <2>3, <2>4, ChildSet
<1>9. TypeOK'
  BY <1>1, <1>2, <1>7, <1>8, <1>4, SessionsAssumption DEF TypeOK, Ids, Read
<1>10. GivenOut'
  <2>1. DOMAIN sessions' \subseteq Ids \union (nextId..(nextId' - 1))
    BY <1>1, <1>2, <1>6, <1>8, Fresh DEF Ids
  <2>2. \A i \in DOMAIN sessions' :
            sessions'[i].live \in {0, Len(child')} \/ (i \in Ids /\ sessions'[i].live = sessions[i].live)
    BY <1>2, <1>6, <1>8 DEF Ids
  <2>3. \A u \in Turns :
            /\ turn'[u].id = 0 \/ turn'[u].id = turn[u].id \/ (turn'[u].id = nextId /\ nextId' = nextId + 1)
            /\ turn'[u].ticket \in {0, turn[u].ticket, asked'}
            /\ turn'[u].child \in {0, turn[u].child, Len(child')}
    BY <1>2, <1>6, <1>8
  <2>4. /\ nextId' \in {nextId, nextId + 1} /\ asked' \in {asked, asked + 1}
        /\ Len(child') \in {Len(child), Len(child) + 1} /\ closing' = closing
    BY <1>2, <1>6, <1>8
  <2> QED
    BY <1>1, <2>1, <2>2, <2>3, <2>4, GivenOutKept
<1>11. Stages'
  <2>1. Stage(turn[t])
    BY <1>1 DEF Stages
  <2>2. Stage(turn'[t])
    BY <1>2, <1>3, <1>6, <2>1 DEF Stage, Attached
  <2> QED
    BY <1>1, <1>6, <2>2 DEF Stages
<1>12. Lined'
  BY <1>1, <1>2, <1>3, <1>6 DEF Lined, InTurn
<1>13. BoundIsOver'
  BY <1>1, <1>2, <1>3, <1>6 DEF BoundIsOver, ResetSticks
<1>14. OldestServes'
  BY <1>1, <1>2 DEF OldestServes, Unbounds, Ids, Over
<1>15. TurnServed'
  BY <1>1, <1>2, <1>3, <1>6 DEF TurnServed, Served, Unbounds, Ids, Over, InTurn, Terminal
<1>16. Silent'
  BY <1>1, <1>2, <1>3, <1>8 DEF Silent
<1>17. OneWaits'
  BY <1>1, <1>2, <1>3, <1>6, <1>8 DEF OneWaits, Waits
<1>18. InFlight'
  <2> SUFFICES ASSUME ~graced, NEW d \in DOMAIN child
               PROVE  /\ Len(child'[d].prompts) + Len(child'[d].results) <= 1
                      /\ child'[d].prompts # <<>> => Awaits(Head(child[d].prompts), d)'
                      /\ child'[d].results # <<>> => Awaits(Head(child[d].results), d)'
    BY <1>2, <1>8 DEF InFlight
  <2>1. d \in DOMAIN child =>
            /\ Len(child[d].prompts) + Len(child[d].results) <= 1
            /\ child[d].prompts # <<>> => Awaits(Head(child[d].prompts), d)
            /\ child[d].results # <<>> => Awaits(Head(child[d].results), d)
    BY <1>1 DEF InFlight
  <2>2. CASE d # turn[t].child
    <3>1. \A u \in Turns : Awaits(u, d) => Awaits(u, d)'
      BY <1>6, <2>2 DEF Awaits, Waits
    <3>2. child'[d] = child[d]
      BY <1>8, <2>2
    <3>3. /\ child[d].prompts # <<>> => Head(child[d].prompts) \in Turns
          /\ child[d].results # <<>> => Head(child[d].results) \in Turns
      BY <1>1, ChildTyped
    <3>4. /\ child[d].prompts # <<>> => Awaits(Head(child[d].prompts), d)'
          /\ child[d].results # <<>> => Awaits(Head(child[d].results), d)'
      BY <2>1, <3>1, <3>2, <3>3 DEF Awaits, Waits
    <3> QED
      BY <2>1, <3>2, <3>4
  <2>3. CASE d = turn[t].child
    <3>1. child[d].prompts \in Seq(Turns) /\ child[d].results \in Seq(Turns) /\ d \in DOMAIN child
      BY <1>1, <1>4, <2>3, ChildTyped
    <3>a. ASSUME NEW m \in Nat, NEW n \in Nat, m + n <= 1
          PROVE  n + m <= 1
      BY <3>a
    <3>b. Len(child[d].results) \in Nat /\ Len(child[d].prompts) \in Nat
      BY <3>1
    <3>c. Len(child[d].results) + Len(child[d].prompts) <= 1
      BY <2>1, <3>1, <3>a, <3>b
    <3>2. child'[d].prompts = <<>> /\ child'[d].results = <<>>
      BY <1>8, <2>3, <3>1, <3>c, OneMoved
    <3> QED
      BY <3>2
  <2> QED
    BY <2>2, <2>3
<1>19. OwnAnswer'
  <2>1. ~graced => Awaits(Head(child[turn[t].child].results), turn[t].child)
    BY <1>1, <1>4 DEF InFlight
  <2>2. Waits(t, turn[t].child)
    BY <1>3 DEF Awaits, Waits
  <2>3. ~graced => Head(child[turn[t].child].results) = t
    BY <1>1, <1>4, <2>1, <2>2, ChildTyped DEF OneWaits, Awaits
  <2> QED
    BY <1>1, <1>2, <1>6, <2>3 DEF OwnAnswer
<1> QED
  BY <1>9, <1>10, <1>11, <1>12, <1>13, <1>14, <1>15, <1>16, <1>17, <1>18, <1>19 DEF IInv

(* The child died without a result, and without a prompt to answer. *)
LEMMA ReadGoneStep ==
    ASSUME IInv, NEW t \in Turns, Read(t), child[turn[t].child].results = <<>>
    PROVE  IInv'
<1>1. /\ TypeOK /\ GivenOut /\ Stages /\ Lined /\ BoundIsOver
      /\ OldestServes /\ TurnServed /\ Silent /\ OneWaits /\ InFlight /\ OwnAnswer
  BY DEF IInv
<1>2. UNCHANGED <<interactive, nextId, chain, nextLock, asked, fired, binding, child, closing,
                  dropped, graced, closes>>
  BY DEF Read, records, locks, history, TransportGone
<1>3. turn[t].pc \in {"reading", "aborting"}
  BY DEF Read
<1>4. turn[t].child \in DOMAIN child
  <2>1. turn[t].child # 0 /\ turn[t].child \in Nat /\ turn[t].child <= Len(child)
    BY <1>1, <1>3, TurnTyped DEF Stages, Stage, Attached, GivenOut
  <2> QED
    BY <1>1, <2>1 DEF TypeOK
<1>5. child[turn[t].child].results = <<>> /\ ~child[turn[t].child].open
  BY DEF Read
<1>6. turn' = [turn EXCEPT ![t] = [turn[t] EXCEPT !.pc = "ended", !.child = 0]]
  BY <1>1 DEF TypeOK, TurnState, Read, TransportGone
<1>7. /\ \A u \in Turns : u # t => turn'[u] = turn[u]
      /\ turn'[t].pc = "ended" /\ turn'[t].child = 0
      /\ turn'[t].class = turn[t].class /\ turn'[t].lock = turn[t].lock
      /\ turn'[t].ticket = turn[t].ticket
      /\ turn'[t].resume = turn[t].resume /\ turn'[t].bind = turn[t].bind
      /\ turn'[t].id = turn[t].id
      /\ turn'[t].answer = turn[t].answer
  BY <1>1, <1>6 DEF TypeOK, TurnState
<1>8. turn' \in [Turns -> TurnState]
  <2>1. turn[t] \in TurnState
    BY <1>1 DEF TypeOK
  <2>2. [turn[t] EXCEPT !.pc = "ended", !.child = 0] \in TurnState
    BY <2>1 DEF TurnState, Pcs
  <2> QED
    BY <1>1, <1>6, <2>2 DEF TypeOK
<1>9. sessions' = Update(turn[t].id, [sessions[turn[t].id] EXCEPT !.live = 0])
  BY DEF Read, TransportGone
<1>10. /\ DOMAIN sessions' = Ids /\ \A i \in Ids : i # turn[t].id => sessions'[i] = sessions[i]
       /\ turn[t].id \in Ids => 
              /\ sessions'[turn[t].id].class = sessions[turn[t].id].class
              /\ sessions'[turn[t].id].phase = sessions[turn[t].id].phase
              /\ sessions'[turn[t].id].live = 0
  BY <1>1, <1>9, <1>3 DEF TypeOK, Entry, Ids, Update
<1>11. sessions' \in [DOMAIN sessions' -> Entry]
  <2>1. turn[t].id \in Ids => sessions[turn[t].id] \in Entry
    BY <1>1 DEF TypeOK
  <2>2. turn[t].id \in Ids => [sessions[turn[t].id] EXCEPT !.live = 0] \in Entry
    BY <2>1 DEF Entry, Phases, Terminal
  <2> QED
    BY <1>1, <1>9, <1>10, <2>2 DEF TypeOK, Update
<1>12. TypeOK'
  BY <1>1, <1>2, <1>8, <1>11, <1>4, SessionsAssumption DEF TypeOK, Ids
<1>13. GivenOut'
  <2>1. DOMAIN sessions' \subseteq Ids \union (nextId..(nextId' - 1))
    BY <1>1, <1>2, <1>7, <1>10, Fresh DEF Ids
  <2>2. \A i \in DOMAIN sessions' :
            sessions'[i].live \in {0, Len(child')} \/ (i \in Ids /\ sessions'[i].live = sessions[i].live)
    BY <1>2, <1>7, <1>10 DEF Ids
  <2>3. \A u \in Turns :
            /\ turn'[u].id = 0 \/ turn'[u].id = turn[u].id \/ (turn'[u].id = nextId /\ nextId' = nextId + 1)
            /\ turn'[u].ticket \in {0, turn[u].ticket, asked'}
            /\ turn'[u].child \in {0, turn[u].child, Len(child')}
    BY <1>2, <1>7, <1>10
  <2>4. /\ nextId' \in {nextId, nextId + 1} /\ asked' \in {asked, asked + 1}
        /\ Len(child') \in {Len(child), Len(child) + 1} /\ closing' = closing
    BY <1>2, <1>7, <1>10
  <2> QED
    BY <1>1, <2>1, <2>2, <2>3, <2>4, GivenOutKept
<1>14. Stages'
  <2>1. Stage(turn[t])
    BY <1>1 DEF Stages
  <2>2. Stage(turn'[t])
    BY <1>2, <1>3, <1>7, <2>1 DEF Stage, Attached
  <2> QED
    BY <1>1, <1>7, <2>2 DEF Stages
<1>15. Lined'
  BY <1>1, <1>2, <1>3, <1>7 DEF Lined, InTurn
<1>16. BoundIsOver'
  BY <1>1, <1>2, <1>3, <1>7 DEF BoundIsOver, ResetSticks
<1>17. OldestServes'
  BY <1>1, <1>2, <1>3, <1>10 DEF OldestServes, Unbounds, Ids, Over, Terminal
<1>18. TurnServed'
  <2>1. ASSUME NEW u \in Turns, u # t, InTurn(u)
        PROVE  turn[t].id \notin Unbounds
    BY <1>1, <1>3, <2>1, Serves, Serialized DEF TurnsSerialized
  <2>2. Unbounds' = Unbounds /\ \A j \in Unbounds : j # turn[t].id => sessions'[j] = sessions[j]
    BY <1>10 DEF Unbounds, Ids
  <2>3. ASSUME NEW u \in Turns, u # t
        PROVE  Served(u)'
    BY <1>1, <1>7, <2>1, <2>2, <2>3 DEF TurnServed, Served, InTurn, Over
  <2>4. Served(t)'
    <3>1. turn[t].id \in Unbounds =>
              \A j \in Unbounds : (j # turn[t].id => sessions[j].live = 0) /\ (j < turn[t].id => Over(j))
      BY <1>1, <1>3, Serves
    <3>2. turn[t].class = "Bounded" => turn[t].id \notin Unbounds
      BY <1>1 DEF TurnServed, Served
    <3>3. turn[t].id \in Nat /\ (turn[t].id \in Unbounds => turn[t].id \in Ids)
      BY <1>1, <1>3, TurnTyped DEF Stages, Stage, Attached, Unbounds
    <3>4. turn'[t].id = turn[t].id /\ turn'[t].class = turn[t].class
      BY <1>7
    <3>5. \A j \in Unbounds : j # turn[t].id => Over(j)' = Over(j)
      BY <2>2 DEF Over
    <3> QED
      BY <1>3, <1>7, <1>10, <2>2, <3>1, <3>2, <3>3, <3>4, <3>5 DEF Served, InTurn
  <2> QED
    BY <2>3, <2>4 DEF TurnServed, Served
<1>19. Silent'
  BY <1>1, <1>2 DEF Silent
<1>20. OneWaits'
  BY <1>1, <1>2, <1>3, <1>7 DEF OneWaits, Waits
<1>21. InFlight'
  <2>1. ASSUME NEW u \in Turns, NEW c \in DOMAIN child, Awaits(u, c),
               child[c].prompts # <<>> \/ child[c].results # <<>>
        PROVE  Awaits(u, c)'
    <3>1. child[turn[t].child].prompts = <<>> /\ child[turn[t].child].results = <<>>
      BY <1>1, <1>4, <1>5 DEF Silent
    <3>2. u # t
      BY <2>1, <3>1 DEF Awaits, Waits
    <3> QED
      BY <1>7, <2>1, <3>2 DEF Awaits, Waits
  <2> QED
    BY <1>1, <1>2, <2>1, InFlightKept
<1>22. OwnAnswer'
  BY <1>1, <1>2, <1>3, <1>7 DEF OwnAnswer
<1> QED
  BY <1>12, <1>13, <1>14, <1>15, <1>16, <1>17, <1>18, <1>19, <1>20, <1>21, <1>22 DEF IInv

(* A turn binds only when it resumed nothing, so what it binds is its own. *)
LEMMA RunOneShotStep ==
    ASSUME IInv, NEW t \in Turns, RunOneShot(t)
    PROVE  IInv'
<1>1. /\ TypeOK /\ GivenOut /\ Stages /\ Lined /\ BoundIsOver
      /\ OldestServes /\ TurnServed /\ Silent /\ OneWaits /\ InFlight /\ OwnAnswer
  BY DEF IInv
<1>2. UNCHANGED <<interactive, sessions, nextId, chain, nextLock, asked, fired, child, closing,
                  dropped, graced, closes>>
  BY DEF RunOneShot, records, locks, history, Goto
<1>3. turn[t].pc = "running"
  BY DEF RunOneShot
<1>4. turn' = [turn EXCEPT ![t] = [turn[t] EXCEPT !.pc = "ended"]]
  BY <1>1 DEF TypeOK, TurnState, RunOneShot, Goto
<1>5. /\ \A u \in Turns : u # t => turn'[u] = turn[u]
      /\ turn'[t].pc = "ended"
      /\ turn'[t].class = turn[t].class /\ turn'[t].lock = turn[t].lock
      /\ turn'[t].ticket = turn[t].ticket
      /\ turn'[t].resume = turn[t].resume /\ turn'[t].bind = turn[t].bind
      /\ turn'[t].id = turn[t].id
      /\ turn'[t].child = turn[t].child /\ turn'[t].answer = turn[t].answer
  BY <1>1, <1>4 DEF TypeOK, TurnState
<1>6. turn' \in [Turns -> TurnState]
  <2>1. turn[t] \in TurnState
    BY <1>1 DEF TypeOK
  <2>2. [turn[t] EXCEPT !.pc = "ended"] \in TurnState
    BY <2>1 DEF TurnState, Pcs
  <2> QED
    BY <1>1, <1>4, <2>2 DEF TypeOK
<1>7. binding' \in {binding, t}
  <2>1. turn[t].bind => turn[t].resume = NoTurn
    BY <1>1 DEF Stages, Stage
  <2> QED
    BY <2>1 DEF RunOneShot
<1>8. TypeOK'
  BY <1>1, <1>2, <1>6, <1>7, SessionsAssumption DEF TypeOK, Ids, RunOneShot
<1>9. GivenOut'
  BY <1>1, <1>2, <1>3, <1>5, <1>7, TurnTyped, RecordTyped DEF GivenOut, Ids
<1>10. Stages'
  <2>1. Stage(turn[t])
    BY <1>1 DEF Stages
  <2>2. Stage(turn'[t])
    BY <1>2, <1>3, <1>5, <2>1 DEF Stage, Attached
  <2> QED
    BY <1>1, <1>5, <2>2 DEF Stages
<1>11. Lined'
  BY <1>1, <1>2, <1>3, <1>5 DEF Lined, InTurn
<1>12. BoundIsOver'
  BY <1>1, <1>2, <1>3, <1>5, <1>7 DEF RunOneShot, BoundIsOver, ResetSticks
<1>13. OldestServes'
  BY <1>1, <1>2 DEF OldestServes, Unbounds, Ids, Over
<1>14. TurnServed'
  BY <1>1, <1>2, <1>3, <1>5 DEF TurnServed, Served, Unbounds, Ids, Over, InTurn, Terminal
<1>15. Silent'
  BY <1>1, <1>2 DEF Silent
<1>16. OneWaits'
  BY <1>1, <1>2, <1>3, <1>5 DEF OneWaits, Waits
<1>17. InFlight'
  <2>1. ASSUME NEW u \in Turns, NEW c \in DOMAIN child, Awaits(u, c),
               child[c].prompts # <<>> \/ child[c].results # <<>>
        PROVE  Awaits(u, c)'
    BY <1>3, <1>5, <2>1 DEF Awaits, Waits
  <2> QED
    BY <1>1, <1>2, <2>1, InFlightKept
<1>18. OwnAnswer'
  BY <1>1, <1>2, <1>3, <1>5 DEF OwnAnswer
<1> QED
  BY <1>8, <1>9, <1>10, <1>11, <1>12, <1>13, <1>14, <1>15, <1>16, <1>17, <1>18 DEF IInv

(* The lock goes with the turn. *)
LEMMA EndUnboundStep ==
    ASSUME IInv, NEW t \in Turns, EndTurn(t), turn[t].class = "Unbound"
    PROVE  IInv'
<1>1. /\ TypeOK /\ GivenOut /\ Stages /\ Lined /\ BoundIsOver
      /\ OldestServes /\ TurnServed /\ Silent /\ OneWaits /\ InFlight /\ OwnAnswer
  BY DEF IInv
<1>2. UNCHANGED <<interactive, nextId, chain, nextLock, asked, binding, child, closing, dropped,
                  graced, closes>>
  BY DEF EndTurn, records, locks, history
<1>3. turn[t].pc = "ended"
  BY DEF EndTurn
<1>4. turn' = [turn EXCEPT ![t] = [NewTurn EXCEPT !.pc = "done"]]
  BY <1>1 DEF TypeOK, TurnState, EndTurn
<1>5. /\ \A u \in Turns : u # t => turn'[u] = turn[u]
      /\ turn'[t].pc = "done" /\ turn'[t].class = "Unbound" /\ turn'[t].lock = 0
      /\ turn'[t].ticket = 0 /\ turn'[t].resume = NoTurn /\ turn'[t].bind = FALSE /\ turn'[t].id = 0
      /\ turn'[t].child = 0 /\ turn'[t].answer = NoTurn
  BY <1>1, <1>4 DEF TypeOK, TurnState, NewTurn
<1>6. turn' \in [Turns -> TurnState]
  <2>1. turn[t] \in TurnState
    BY <1>1 DEF TypeOK
  <2>2. [NewTurn EXCEPT !.pc = "done"] \in TurnState
    BY <2>1 DEF TurnState, Pcs, NewTurn
  <2> QED
    BY <1>1, <1>4, <2>2 DEF TypeOK
<1>7. sessions' = Update(turn[t].id, [sessions[turn[t].id] EXCEPT !.phase = "Live",
                                                                  !.abort = NoTurn])
  BY DEF EndTurn
<1>8. /\ DOMAIN sessions' = Ids /\ \A i \in Ids : i # turn[t].id => sessions'[i] = sessions[i]
      /\ turn[t].id \in Ids => 
             /\ sessions'[turn[t].id].class = sessions[turn[t].id].class
             /\ sessions'[turn[t].id].phase = "Live"
             /\ sessions'[turn[t].id].live = sessions[turn[t].id].live
  BY <1>1, <1>7, <1>3 DEF TypeOK, Entry, Ids, Update
<1>9. sessions' \in [DOMAIN sessions' -> Entry]
  <2>1. turn[t].id \in Ids => sessions[turn[t].id] \in Entry
    BY <1>1 DEF TypeOK
  <2>2. turn[t].id \in Ids => [sessions[turn[t].id] EXCEPT !.phase = "Live",
                                                           !.abort = NoTurn] \in Entry
    BY <2>1 DEF Entry, Phases, Terminal
  <2> QED
    BY <1>1, <1>7, <1>8, <2>2 DEF TypeOK, Update
<1>10. TypeOK'
  BY <1>1, <1>2, <1>6, <1>9, SessionsAssumption DEF TypeOK, Ids, EndTurn
<1>11. GivenOut'
  <2>1. Ids' \subseteq 1..(nextId' - 1) /\ \A i \in Ids' : sessions'[i].live <= Len(child')
    BY <1>1, <1>2, <1>5, <1>8, Fresh, RecordTyped DEF GivenOut, Ids
  <2>2. \A c \in closing' : c[2] <= Len(child')
    BY <1>1, <1>2, <1>5, <1>8, RecordTyped DEF GivenOut, TypeOK
  <2>3. \A u \in Turns : turn'[u].id < nextId' /\ turn'[u].ticket <= asked' /\ turn'[u].child <= Len(child')
    BY <1>1, <1>2, <1>5, <1>8, Fresh, TurnTyped, RecordTyped DEF GivenOut
  <2> QED
    BY <2>1, <2>2, <2>3 DEF GivenOut, Ids
<1>12. Stages'
  <2>1. Stage(turn[t])
    BY <1>1 DEF Stages
  <2>2. Stage(turn'[t])
    BY <1>2, <1>3, <1>5, <2>1 DEF Stage, Attached
  <2> QED
    BY <1>1, <1>5, <2>2 DEF Stages
<1>13. Lined'
  BY <1>1, <1>2, <1>3, <1>5 DEF Lined, InTurn
<1>14. BoundIsOver'
  BY <1>1, <1>2, <1>3, <1>5 DEF BoundIsOver, ResetSticks
<1>15. OldestServes'
  BY <1>1, <1>2, <1>3, <1>8, Serves DEF OldestServes, Unbounds, Ids, Over, Terminal
<1>16. TurnServed'
  <2>1. ASSUME NEW u \in Turns, u # t, InTurn(u)
        PROVE  turn[t].id \notin Unbounds
    BY <1>1, <1>3, <2>1, Serves, Serialized DEF TurnsSerialized
  <2>2. Unbounds' = Unbounds /\ \A j \in Unbounds : j # turn[t].id => sessions'[j] = sessions[j]
    BY <1>8 DEF Unbounds, Ids
  <2>3. ASSUME NEW u \in Turns, u # t
        PROVE  Served(u)'
    BY <1>1, <1>5, <2>1, <2>2, <2>3 DEF TurnServed, Served, InTurn, Over
  <2>4. Served(t)'
    BY <1>5 DEF Served, InTurn
  <2> QED
    BY <2>3, <2>4 DEF TurnServed, Served
<1>17. Silent'
  BY <1>1, <1>2 DEF Silent
<1>18. OneWaits'
  BY <1>1, <1>2, <1>3, <1>5 DEF OneWaits, Waits
<1>19. InFlight'
  <2>1. ASSUME NEW u \in Turns, NEW c \in DOMAIN child, Awaits(u, c),
               child[c].prompts # <<>> \/ child[c].results # <<>>
        PROVE  Awaits(u, c)'
    BY <1>3, <1>5, <2>1 DEF Awaits, Waits
  <2> QED
    BY <1>1, <1>2, <2>1, InFlightKept
<1>20. OwnAnswer'
  BY <1>1, <1>2, <1>3, <1>5 DEF OwnAnswer
<1> QED
  BY <1>10, <1>11, <1>12, <1>13, <1>14, <1>15, <1>16, <1>17, <1>18, <1>19, <1>20 DEF IInv

(* A bounded turn has its record to spend. *)
LEMMA EndBoundedStep ==
    ASSUME IInv, NEW t \in Turns, EndTurn(t), turn[t].class = "Bounded"
    PROVE  IInv'
<1>1. /\ TypeOK /\ GivenOut /\ Stages /\ Lined /\ BoundIsOver
      /\ OldestServes /\ TurnServed /\ Silent /\ OneWaits /\ InFlight /\ OwnAnswer
  BY DEF IInv
<1>2. UNCHANGED <<interactive, nextId, chain, nextLock, asked, binding, child, closing, dropped,
                  graced, closes>>
  BY DEF EndTurn, records, locks, history
<1>3. turn[t].pc = "ended"
  BY DEF EndTurn
<1>4. turn' = [turn EXCEPT ![t] = [turn[t] EXCEPT !.pc = "spending"]]
  BY <1>1 DEF TypeOK, TurnState, EndTurn
<1>5. /\ \A u \in Turns : u # t => turn'[u] = turn[u]
      /\ turn'[t].pc = "spending"
      /\ turn'[t].class = turn[t].class /\ turn'[t].lock = turn[t].lock
      /\ turn'[t].ticket = turn[t].ticket
      /\ turn'[t].resume = turn[t].resume /\ turn'[t].bind = turn[t].bind
      /\ turn'[t].id = turn[t].id
      /\ turn'[t].child = turn[t].child /\ turn'[t].answer = turn[t].answer
  BY <1>1, <1>4 DEF TypeOK, TurnState
<1>6. turn' \in [Turns -> TurnState]
  <2>1. turn[t] \in TurnState
    BY <1>1 DEF TypeOK
  <2>2. [turn[t] EXCEPT !.pc = "spending"] \in TurnState
    BY <2>1 DEF TurnState, Pcs
  <2> QED
    BY <1>1, <1>4, <2>2 DEF TypeOK
<1>7. sessions' = Update(turn[t].id, [sessions[turn[t].id] EXCEPT !.phase = "Live",
                                                                  !.abort = NoTurn])
  BY DEF EndTurn
<1>8. /\ DOMAIN sessions' = Ids /\ \A i \in Ids : i # turn[t].id => sessions'[i] = sessions[i]
      /\ turn[t].id \in Ids => 
             /\ sessions'[turn[t].id].class = sessions[turn[t].id].class
             /\ sessions'[turn[t].id].phase = "Live"
             /\ sessions'[turn[t].id].live = sessions[turn[t].id].live
  BY <1>1, <1>7, <1>3 DEF TypeOK, Entry, Ids, Update
<1>9. sessions' \in [DOMAIN sessions' -> Entry]
  <2>1. turn[t].id \in Ids => sessions[turn[t].id] \in Entry
    BY <1>1 DEF TypeOK
  <2>2. turn[t].id \in Ids => [sessions[turn[t].id] EXCEPT !.phase = "Live",
                                                           !.abort = NoTurn] \in Entry
    BY <2>1 DEF Entry, Phases, Terminal
  <2> QED
    BY <1>1, <1>7, <1>8, <2>2 DEF TypeOK, Update
<1>10. TypeOK'
  BY <1>1, <1>2, <1>6, <1>9, SessionsAssumption DEF TypeOK, Ids, EndTurn
<1>11. GivenOut'
  BY <1>1, <1>2, <1>3, <1>5, <1>8, TurnTyped, RecordTyped DEF GivenOut, Ids
<1>12. Stages'
  <2>1. Stage(turn[t])
    BY <1>1 DEF Stages
  <2>2. Stage(turn'[t])
    BY <1>2, <1>3, <1>5, <2>1 DEF Stage, Attached
  <2> QED
    BY <1>1, <1>5, <2>2 DEF Stages
<1>13. Lined'
  BY <1>1, <1>2, <1>3, <1>5 DEF Lined, InTurn
<1>14. BoundIsOver'
  BY <1>1, <1>2, <1>3, <1>5 DEF BoundIsOver, ResetSticks
<1>15. OldestServes'
  BY <1>1, <1>2, <1>3, <1>8, Serves DEF OldestServes, Unbounds, Ids, Over, Terminal
<1>16. TurnServed'
  BY <1>1, <1>2, <1>3, <1>5, <1>8, Serves, Fresh DEF TurnServed, Served, Unbounds, Ids, Over,
     InTurn, Terminal
<1>17. Silent'
  BY <1>1, <1>2 DEF Silent
<1>18. OneWaits'
  BY <1>1, <1>2, <1>3, <1>5 DEF OneWaits, Waits
<1>19. InFlight'
  <2>1. ASSUME NEW u \in Turns, NEW c \in DOMAIN child, Awaits(u, c),
               child[c].prompts # <<>> \/ child[c].results # <<>>
        PROVE  Awaits(u, c)'
    BY <1>3, <1>5, <2>1 DEF Awaits, Waits
  <2> QED
    BY <1>1, <1>2, <2>1, InFlightKept
<1>20. OwnAnswer'
  BY <1>1, <1>2, <1>3, <1>5 DEF OwnAnswer
<1> QED
  BY <1>10, <1>11, <1>12, <1>13, <1>14, <1>15, <1>16, <1>17, <1>18, <1>19, <1>20 DEF IInv

(* The record spent is not an unbound one. *)
LEMMA SpendStep ==
    ASSUME IInv, NEW t \in Turns, Spend(t)
    PROVE  IInv'
<1>1. /\ TypeOK /\ GivenOut /\ Stages /\ Lined /\ BoundIsOver
      /\ OldestServes /\ TurnServed /\ Silent /\ OneWaits /\ InFlight /\ OwnAnswer
  BY DEF IInv
<1>2. UNCHANGED <<interactive, nextId, chain, nextLock, asked, fired, binding, child, closing,
                  dropped, graced, closes>>
  BY DEF Spend, records, locks, history
<1>3. turn[t].pc = "spending"
  BY DEF Spend
<1>4. turn' = [turn EXCEPT ![t] = [NewTurn EXCEPT !.pc = "done"]]
  BY <1>1 DEF TypeOK, TurnState, Spend
<1>5. /\ \A u \in Turns : u # t => turn'[u] = turn[u]
      /\ turn'[t].pc = "done" /\ turn'[t].class = "Unbound" /\ turn'[t].lock = 0
      /\ turn'[t].ticket = 0 /\ turn'[t].resume = NoTurn /\ turn'[t].bind = FALSE /\ turn'[t].id = 0
      /\ turn'[t].child = 0 /\ turn'[t].answer = NoTurn
  BY <1>1, <1>4 DEF TypeOK, TurnState, NewTurn
<1>6. turn' \in [Turns -> TurnState]
  <2>1. turn[t] \in TurnState
    BY <1>1 DEF TypeOK
  <2>2. [NewTurn EXCEPT !.pc = "done"] \in TurnState
    BY <2>1 DEF TurnState, Pcs, NewTurn
  <2> QED
    BY <1>1, <1>4, <2>2 DEF TypeOK
<1>7. sessions' = Update(turn[t].id, [sessions[turn[t].id] EXCEPT !.phase = "Closed"])
  BY DEF Spend, SetPhase
<1>8. /\ DOMAIN sessions' = Ids /\ \A i \in Ids : i # turn[t].id => sessions'[i] = sessions[i]
      /\ turn[t].id \in Ids => 
             /\ sessions'[turn[t].id].class = sessions[turn[t].id].class
             /\ sessions'[turn[t].id].phase = "Closed"
             /\ sessions'[turn[t].id].live = sessions[turn[t].id].live
  BY <1>1, <1>7, <1>3 DEF TypeOK, Entry, Ids, Update
<1>9. sessions' \in [DOMAIN sessions' -> Entry]
  <2>1. turn[t].id \in Ids => sessions[turn[t].id] \in Entry
    BY <1>1 DEF TypeOK
  <2>2. turn[t].id \in Ids => [sessions[turn[t].id] EXCEPT !.phase = "Closed"] \in Entry
    BY <2>1 DEF Entry, Phases, Terminal
  <2> QED
    BY <1>1, <1>7, <1>8, <2>2 DEF TypeOK, Update
<1>10. TypeOK'
  BY <1>1, <1>2, <1>6, <1>9, SessionsAssumption DEF TypeOK, Ids
<1>11. GivenOut'
  <2>1. Ids' \subseteq 1..(nextId' - 1) /\ \A i \in Ids' : sessions'[i].live <= Len(child')
    BY <1>1, <1>2, <1>5, <1>8, Fresh, RecordTyped DEF GivenOut, Ids
  <2>2. \A c \in closing' : c[2] <= Len(child')
    BY <1>1, <1>2, <1>5, <1>8, RecordTyped DEF GivenOut, TypeOK
  <2>3. \A u \in Turns : turn'[u].id < nextId' /\ turn'[u].ticket <= asked' /\ turn'[u].child <= Len(child')
    BY <1>1, <1>2, <1>5, <1>8, Fresh, TurnTyped, RecordTyped DEF GivenOut
  <2> QED
    BY <2>1, <2>2, <2>3 DEF GivenOut, Ids
<1>12. Stages'
  <2>1. Stage(turn[t])
    BY <1>1 DEF Stages
  <2>2. Stage(turn'[t])
    BY <1>2, <1>3, <1>5, <2>1 DEF Stage, Attached
  <2> QED
    BY <1>1, <1>5, <2>2 DEF Stages
<1>13. Lined'
  BY <1>1, <1>2, <1>3, <1>5 DEF Lined, InTurn
<1>14. BoundIsOver'
  BY <1>1, <1>2, <1>3, <1>5 DEF BoundIsOver, ResetSticks
<1>15. OldestServes'
  BY <1>1, <1>2, <1>3, <1>8 DEF OldestServes, Unbounds, Ids, Over, Terminal, Stages, Stage,
     TurnServed, Served
<1>16. TurnServed'
  BY <1>1, <1>2, <1>3, <1>5, <1>8, Serves, Fresh DEF TurnServed, Served, Unbounds, Ids, Over,
     InTurn, Terminal
<1>17. Silent'
  BY <1>1, <1>2 DEF Silent
<1>18. OneWaits'
  BY <1>1, <1>2, <1>3, <1>5 DEF OneWaits, Waits
<1>19. InFlight'
  <2>1. ASSUME NEW u \in Turns, NEW c \in DOMAIN child, Awaits(u, c),
               child[c].prompts # <<>> \/ child[c].results # <<>>
        PROVE  Awaits(u, c)'
    BY <1>3, <1>5, <2>1 DEF Awaits, Waits
  <2> QED
    BY <1>1, <1>2, <2>1, InFlightKept
<1>20. OwnAnswer'
  BY <1>1, <1>2, <1>3, <1>5 DEF OwnAnswer
<1> QED
  BY <1>10, <1>11, <1>12, <1>13, <1>14, <1>15, <1>16, <1>17, <1>18, <1>19, <1>20 DEF IInv

-----------------------------------------------------------------------------
LEMMA InitIInv == Init => IInv
<1> SUFFICES ASSUME Init
             PROVE  IInv
  OBVIOUS
<1>1. NewTurn \in TurnState
  BY SessionsAssumption DEF NewTurn, TurnState, Pcs
<1>2. \A t \in Turns : turn[t] = NewTurn
  BY DEF Init
<1>3. \A t \in Turns : /\ turn[t].pc = "new" /\ turn[t].class = "Unbound" /\ turn[t].lock = 0
                       /\ turn[t].ticket = 0 /\ turn[t].id = 0 /\ turn[t].child = 0
                       /\ turn[t].answer = NoTurn
                       /\ turn[t].bind = FALSE
  BY <1>2 DEF NewTurn
<1>4. Ids = {} /\ Unbounds = {} /\ Len(child) = 0 /\ DOMAIN child = {} /\ child \in Seq(ChildState)
  BY DEF Init, Ids, Unbounds
<1>5. TypeOK
  <2>1. <<>> \in [{} -> Entry]
    OBVIOUS
  <2>2. sessions \in [Ids -> Entry]
    BY <1>4, <2>1 DEF Init
  <2>3. turn \in [Turns -> TurnState]
    BY <1>1 DEF Init
  <2>4. /\ interactive \in BOOLEAN /\ nextId \in Nat \ {0} /\ chain \in Nat /\ nextLock \in Nat
        /\ asked \in Nat /\ closes \in Nat
    BY DEF Init
  <2>5. fired \subseteq Turns /\ closing \subseteq Nat \X Nat /\ dropped \subseteq Turns
    BY DEF Init
  <2>6. binding \in Turns \union {NoTurn} /\ graced \in BOOLEAN
    BY DEF Init
  <2> QED
    BY <1>4, <2>2, <2>3, <2>4, <2>5, <2>6 DEF TypeOK
<1>6. GivenOut
  BY <1>3, <1>4 DEF Init, GivenOut
<1>7. Stages /\ Lined
  BY <1>3 DEF Stages, Stage, Attached, Lined
<1>8. BoundIsOver
  BY SessionsAssumption DEF Init, BoundIsOver, ResetSticks
<1>9. OldestServes /\ TurnServed
  BY <1>3, <1>4 DEF OldestServes, TurnServed, Served
<1>10. Silent /\ OneWaits /\ InFlight /\ OwnAnswer
  BY <1>3, <1>4 DEF Silent, OneWaits, InFlight, OwnAnswer
<1> QED
  BY <1>5, <1>6, <1>7, <1>8, <1>9, <1>10 DEF IInv

LEMMA StutterStep ==
    ASSUME IInv, UNCHANGED vars
    PROVE  IInv'
<1>1. UNCHANGED <<interactive, sessions, nextId, chain, nextLock, asked, turn, fired, binding,
                  child,
                  closing, dropped, graced, closes>>
  BY DEF vars, records, locks, history
<1>2. TypeOK' /\ GivenOut' /\ Stages' /\ Lined'
  BY <1>1 DEF IInv, TypeOK, GivenOut, Ids, Stages, Lined, InTurn
<1>3. BoundIsOver' /\ OldestServes' /\ TurnServed'
  BY <1>1 DEF IInv, BoundIsOver, ResetSticks, OldestServes, TurnServed, Served, Unbounds, Ids,
     Over, InTurn
<1>4. Silent' /\ OwnAnswer'
  BY <1>1 DEF IInv, Silent, OwnAnswer
<1>5. OneWaits'
  BY <1>1 DEF IInv, OneWaits, Waits
<1>6. InFlight'
  BY <1>1 DEF IInv, InFlight, Awaits, Waits
<1> QED
  BY <1>2, <1>3, <1>4, <1>5, <1>6 DEF IInv

LEMMA TurnStepKeeps ==
    ASSUME IInv, NEW t \in Turns, TurnStep(t)
    PROVE  IInv'
<1>1. CASE EnsureSession(t)
  BY <1>1, EnsureFoundStep, EnsureNewStep
<1>2. CASE BeginTurn(t)
  BY <1>2, BeginTurnStep
<1>3. CASE Attach(t)
  BY <1>3, AttachGoneStep, AttachLiveStep, AttachSpawnStep
<1>4. CASE Spawned(t)
  BY <1>4, SpawnedStep
<1>5. CASE SpawnFails(t)
  BY <1>5, SpawnFailsStep
<1>6. CASE Prompt(t)
  BY <1>6, PromptStep
<1>7. CASE Prompted(t)
  BY <1>7, PromptedStep, PromptedGoneStep
<1>8. CASE Aborting(t)
  BY <1>8, AbortingStep
<1>9. CASE Interrupted(t)
  BY <1>9, InterruptedStep
<1>10. CASE Grace(t)
  BY <1>10, GraceStep
<1>11. CASE Read(t)
  BY <1>11, ReadAnswerStep, ReadGoneStep
<1>12. CASE RunOneShot(t)
  BY <1>12, RunOneShotStep
<1>13. CASE EndTurn(t)
  <2>1. turn[t].class \in {"Unbound", "Bounded"}
    BY TurnTyped DEF IInv
  <2> QED
    BY <1>13, <2>1, EndUnboundStep, EndBoundedStep
<1>14. CASE Spend(t)
  BY <1>14, SpendStep
<1> QED
  BY <1>1, <1>2, <1>3, <1>4, <1>5, <1>6, <1>7, <1>8, <1>9, <1>10, <1>11, <1>12, <1>13,
     <1>14 DEF TurnStep

LEMMA NextKeeps ==
    ASSUME IInv, Next
    PROVE  IInv'
<1>1. ASSUME NEW t \in Turns, Acquire(t) \/ TurnStep(t) \/ \E id \in Ids : SubmitBounded(t, id)
      PROVE  IInv'
  BY <1>1, AcquireStep, TurnStepKeeps, SubmitBoundedStep
<1>2. ASSUME NEW class \in {"Unbound", "Bounded"}, Open(class)
      PROVE  IInv'
  BY <1>2, OpenStep
<1>3. ASSUME NEW id \in Ids, Close(id) \/ Forget(id) \/ Interrupt(id)
      PROVE  IInv'
  BY <1>3, CloseStep, ForgetStep, InterruptStep
<1>4. ASSUME NEW c \in closing, Reap(c) \/ Prune(c)
      PROVE  IInv'
  BY <1>4, ReapStep, PruneStep
<1>5. ASSUME NEW c \in DOMAIN child, Reply(c) \/ Exit(c) \/ Clog(c)
      PROVE  IInv'
  BY <1>5, ReplyStep, ExitStep, ClogStep
<1>6. CASE Observe \/ Reset
  BY <1>6, ObserveStep, ResetStep
<1> QED
  BY <1>1, <1>2, <1>3, <1>4, <1>5, <1>6 DEF Next

(* The invariant parts together hold in every state of the manager, the      *)
(* registry and the children, for any turns, records and close calls.        *)
THEOREM Inductive == Spec => []IInv
<1>1. IInv /\ [Next]_vars => IInv'
  BY NextKeeps, StutterStep
<1> QED
  BY <1>1, InitIInv, PTL DEF Spec

(* The records, locks, turns and children keep their types through every     *)
(* step of run_turn, submit, close and the children.                         *)
THEOREM TypeCorrect == Spec => []TypeOK
<1>1. IInv => TypeOK
  BY DEF IInv
<1> QED
  BY <1>1, Inductive, PTL

(* acquire_turn serves the unbound turns of a conversation one at a time:    *)
(* prune_chain never takes away the lock that a turn holds or waits for.     *)
THEOREM TurnsDoNotOverlap == Spec => []TurnsSerialized
<1>1. IInv => TurnsSerialized
  BY Serialized DEF IInv
<1> QED
  BY <1>1, Inductive, PTL

(* spawn_interactive gives a conversation a second child only when none of   *)
(* its unbound records has one.                                              *)
THEOREM OneChildServes == Spec => []OneChild
<1>1. ASSUME IInv
      PROVE  OneChild
  <2>1. TypeOK /\ GivenOut /\ Stages /\ OldestServes /\ TurnServed
    BY <1>1 DEF IInv
  <2>2. ASSUME NEW i \in Unbounds, NEW j \in Unbounds, i # j
        PROVE  sessions[i].live = 0 \/ sessions[j].live = 0
    <3>1. i \in Nat /\ j \in Nat
      BY <2>1, Fresh DEF Unbounds
    <3> QED
      BY <2>1, <2>2, <3>1 DEF OldestServes
  <2>3. ASSUME NEW t \in Turns, NEW i \in Unbounds, turn[t].child # 0, turn[t].id \in Unbounds
        PROVE  sessions[i].live \in {0, turn[t].child}
    <3>1. InTurn(t)
      BY <2>1, <2>3 DEF Stages, Stage, Attached, InTurn
    <3> QED
      BY <2>1, <2>3, <3>1 DEF TurnServed, Served
  <2> QED
    BY <2>2, <2>3 DEF OneChild
<1> QED
  BY <1>1, Inductive, PTL

(* The result that run_interactive reads is that of its own prompt, as long  *)
(* as no turn before it ran out of INTERRUPT_GRACE.                          *)
THEOREM AnswersAreOwn == Spec => []AnswerIsOwn
<1>1. IInv => AnswerIsOwn
  BY DEF IInv, OwnAnswer, AnswerIsOwn
<1> QED
  BY <1>1, Inductive, PTL

(* A turn that was resuming what a reset dropped does not bind it again:     *)
(* plan lets it bind only what it began.                                     *)
THEOREM ResetsStick == Spec => []ResetSticks
<1>1. IInv => ResetSticks
  BY DEF IInv, BoundIsOver
<1> QED
  BY <1>1, Inductive, PTL
=============================================================================
