-------------------------- MODULE LinkBridgeProofs --------------------------
(***************************************************************************)
(* The frames a bridge hands to its consumer are those its peers sent:     *)
(* whole, in order, once, and none that came through is missing, for any   *)
(* number of peers and frames, any capacities and any number of restarts.  *)
(***************************************************************************)
EXTENDS LinkBridge, FiniteSetTheorems, SequenceTheorems, TLAPS

(* The cursor of the driver's round names a peer. *)
LEMMA InRound ==
    ASSUME NEW a \in Int
    PROVE  a % N \in Peer
BY BridgeAssumption DEF Peer

(* The peers with a backlog can be counted. *)
LEMMA ReadyCounted == IsFiniteSet(Ready) /\ Cardinality(Ready) \in Nat
<1>1. IsFiniteSet(Peer)
  BY FS_Interval, BridgeAssumption DEF Peer
<1> QED
  BY <1>1, FS_Subset, FS_CardinalityType DEF Ready

(* What is left of a sequence without its first element. *)
LEMMA TailOf ==
    ASSUME NEW S, NEW s \in Seq(S), s # <<>>
    PROVE  /\ Tail(s) \in Seq(S) /\ Len(Tail(s)) = Len(s) - 1
           /\ \A i \in 1..Len(Tail(s)) : Tail(s)[i] = s[i + 1]
           /\ Head(s) = s[1] /\ s[1] \in S /\ Len(s) \in Nat \ {0}
OBVIOUS

(* A piece of a sequence. *)
LEMMA PieceOf ==
    ASSUME NEW S, NEW s \in Seq(S), NEW a \in Nat \ {0}, NEW b \in Nat, b <= Len(s)
    PROVE  /\ SubSeq(s, a, b) \in Seq(S)
           /\ Len(SubSeq(s, a, b)) = IF a <= b THEN b - a + 1 ELSE 0
           /\ \A i \in 1..Len(SubSeq(s, a, b)) : SubSeq(s, a, b)[i] = s[a + i - 1]
<1>1. CASE a <= b
  <2>1. \A i \in a..b : s[i] \in S
    OBVIOUS
  <2> QED
    BY <1>1, <2>1, SubSeqProperties
<1>2. CASE ~(a <= b)
  <2>1. SubSeq(s, a, b) = <<>>
    BY <1>2, SubSeqProperties
  <2> QED
    BY <1>2, <2>1
<1> QED
  BY <1>1, <1>2

(* A round goes through the peers with a backlog, each of them once. *)
LEMMA RoundOf ==
    ASSUME cursor \in Peer, NEW round \in Rounds
    PROVE  /\ round \in [1 .. Cardinality(Ready) -> Ready]
           /\ \A i, j \in 1 .. Cardinality(Ready) : round[i] = round[j] => i = j
<1>1. \A p \in Ready : Turn(p) \in Int
  BY BridgeAssumption, InRound DEF Turn, Ready, Peer
<1>2. \A i, j \in 1 .. Cardinality(Ready) : i < j => round[i] # round[j]
  BY <1>1, ReadyCounted DEF Rounds
<1> QED
  BY <1>2, ReadyCounted DEF Rounds

-----------------------------------------------------------------------------
(* The sending end. *)

Places(p, d, m) == OnTheWay(p, d, m) /\ Parts(p, d) /\ HandedOn(p, d)

LEMMA TypesOf ==
    ASSUME TypeOK, NEW q \in Peer
    PROVE  /\ minted[q] \in Nat /\ outbox[q] \in Seq(Chunk) /\ Len(outbox[q]) \in Nat
           /\ sending[q] \in [id : Nat, next : Nat] /\ epoch[q] \in Nat \ {0}
           /\ \A n \in 1..Len(outbox[q]) : outbox[q][n] \in Chunk
           /\ from[q] \in Nat /\ read[q] \in Nat /\ from[q] <= read[q] /\ read[q] <= Len(outbox[q])
           /\ pending[q] \in Seq(Body)
<1>1. /\ minted[q] \in Nat /\ outbox[q] \in Seq(Chunk)
      /\ sending[q] \in [id : Nat, next : Nat] /\ epoch[q] \in Nat \ {0}
  BY DEF TypeOK, SendersOK
<1>2. /\ from[q] \in Nat /\ read[q] \in Nat /\ from[q] <= read[q] /\ read[q] <= Len(outbox[q])
      /\ pending[q] \in Seq(Body)
  BY DEF TypeOK, DriverOK
<1> QED
  BY <1>1, <1>2

LEMMA SizeOf ==
    ASSUME IInv, NEW q \in Peer, NEW id \in 1..minted[q]
    PROVE  id \in 1..Len(Sizes[q]) /\ Sizes[q][id] \in Nat \ {0}
<1>1. Sizes[q] \in Seq(Nat \ {0})
  BY BridgeAssumption DEF Peer
<1>2. minted[q] \in Nat /\ minted[q] <= Len(Sizes[q])
  BY TypesOf DEF IInv, HalfWay
<1> QED
  BY <1>1, <1>2

LEMMA ChunkOf ==
    ASSUME IInv, NEW q \in Peer, NEW n \in 1..Len(outbox[q])
    PROVE  LET c == outbox[q][n]
           IN  /\ c \in Chunk /\ c.id \in 1..minted[q] /\ c.index \in Nat /\ c.index < c.count
               /\ c.count = Sizes[q][c.id] /\ Sizes[q][c.id] \in Nat \ {0}
               /\ c.index > 0 => /\ n > 1 /\ outbox[q][n - 1].id = c.id
                                 /\ outbox[q][n - 1].index = c.index - 1
<1>1. outbox[q] \in Seq(Chunk) /\ Len(outbox[q]) \in Nat /\ minted[q] \in Nat /\ outbox[q][n] \in Chunk
  BY TypesOf DEF IInv
<1>2. /\ outbox[q][n].id \in Nat \ {0} /\ outbox[q][n].index \in Nat
  BY <1>1 DEF Chunk
<1>3. n \in DOMAIN outbox[q]
  BY <1>1
<1>4. LET c == outbox[q][n]
      IN  /\ c.id <= minted[q] /\ c.count = Sizes[q][c.id] /\ c.index < c.count
          /\ c.index > 0 => /\ n > 1 /\ outbox[q][n - 1].id = c.id
                            /\ outbox[q][n - 1].index = c.index - 1
  BY <1>3 DEF IInv, Queued
<1>5. outbox[q][n].id \in 1..minted[q]
  BY <1>1, <1>2, <1>4
<1> QED
  BY <1>1, <1>2, <1>4, <1>5, SizeOf

(* What a step of a sender leaves alone: the ids in use, and what its peer   *)
(* has read.                                                                 *)
SamePast(q) ==
    /\ minted[q] <= minted'[q]
    /\ read[q] <= Len(outbox'[q])
    /\ \A n \in 1..read[q] : outbox'[q][n] = outbox[q][n]

LEMMA PlacesStay ==
    ASSUME IInv, SendersOK', NEW q \in Peer, SamePast(q), HalfWay(q)',
           UNCHANGED <<driver, inbound, partials, pump, queue, taken>>,
           NEW d \in from[q]..read[q], NEW m \in from[q]..read[q], Places(q, d, m)
    PROVE  Places(q, d, m)'
<1>0. /\ from[q] \in Nat /\ read[q] \in Nat /\ read[q] <= Len(outbox[q]) /\ Len(outbox[q]) \in Nat
      /\ minted[q] \in Nat /\ minted'[q] \in Nat /\ d \in Nat /\ m \in Nat /\ d <= m
      /\ outbox[q] \in Seq(Chunk) /\ outbox'[q] \in Seq(Chunk)
  <2>1. minted'[q] \in Nat /\ outbox'[q] \in Seq(Chunk)
    BY DEF SendersOK
  <2>2. d <= m
    BY DEF Places, OnTheWay
  <2> QED
    BY <2>1, <2>2, TypesOf DEF IInv
<1>u. from' = from /\ read' = read /\ pending' = pending /\ inbound' = inbound /\ partials' = partials
  BY DEF driver
<1>v. /\ minted[q] <= minted'[q] /\ read[q] <= Len(outbox'[q])
      /\ \A n \in 1..read[q] : outbox'[q][n] = outbox[q][n]
  BY DEF SamePast
<1>1. SubSeq(outbox'[q], m + 1, read[q]) = SubSeq(outbox[q], m + 1, read[q])
  <2> DEFINE now == SubSeq(outbox'[q], m + 1, read[q])
             was == SubSeq(outbox[q], m + 1, read[q])
  <2>1. m + 1 \in Nat \ {0} /\ m + 1 - 1 = m
    BY <1>0
  <2>2. /\ now \in Seq(Chunk)
        /\ Len(now) = IF m + 1 <= read[q] THEN read[q] - (m + 1) + 1 ELSE 0
        /\ \A i \in 1..Len(now) : now[i] = outbox'[q][m + 1 + i - 1]
    BY <1>0, <1>v, <2>1, PieceOf
  <2>3. /\ was \in Seq(Chunk)
        /\ Len(was) = IF m + 1 <= read[q] THEN read[q] - (m + 1) + 1 ELSE 0
        /\ \A i \in 1..Len(was) : was[i] = outbox[q][m + 1 + i - 1]
    BY <1>0, <2>1, PieceOf
  <2> HIDE DEF now, was
  <2>4. Len(now) = Len(was)
    BY <2>2, <2>3
  <2>5. ASSUME NEW i \in 1..Len(now)
        PROVE  now[i] = was[i]
    <3>1. m + 1 + i - 1 \in 1..read[q]
      BY <1>0, <2>2
    <3> QED
      BY <1>v, <2>2, <2>3, <2>4, <3>1
  <2>6. now = was
    BY <2>2, <2>3, <2>4, <2>5, SeqEqual
  <2> QED
    BY <2>6 DEF now, was
<1>2. OnTheWay(q, d, m)'
  <2>1. \A n \in d + 1 .. m : outbox'[q][n] = outbox[q][n]
    BY <1>0, <1>v
  <2>2. ChunksOf(q)' = ChunksOf(q)
    BY <1>u DEF ChunksOf
  <2> QED
    BY <1>u, <1>1, <2>1, <2>2 DEF Places, OnTheWay
<1>3. \A id : Got(q, d, id)' = Got(q, d, id)
  <2>1. \A n \in from[q] + 1 .. d : outbox'[q][n] = outbox[q][n]
    BY <1>0, <1>v
  <2> QED
    BY <1>u, <2>1 DEF Got
<1>4. Parts(q, d)'
  <2>1. d > from[q] => outbox'[q][d] = outbox[q][d]
    BY <1>0, <1>v
  <2> QED
    BY <1>u, <1>3, <2>1 DEF Places, Parts, Whole
<1>5. HandedOn(q, d)'
  <2>1. FramesOf(q)' = FramesOf(q) /\ Delivered' = Delivered
    BY DEF FramesOf, Delivered, InHand
  <2>2. ASSUME NEW id \in 1..minted'[q], Whole(q, d, id)
        PROVE  id \in 1..minted[q]
    <3>1. Sizes[q][id] \in Nat \ {0}
      BY <1>0, BridgeAssumption DEF HalfWay, Peer
    <3>2. 0 \in Got(q, d, id)
      BY <2>2, <3>1 DEF Whole
    <3>3. PICK n \in from[q] + 1..d : outbox[q][n].id = id
      BY <3>2 DEF Got
    <3>4. n \in DOMAIN outbox[q]
      BY <1>0, <3>3
    <3>5. outbox[q][n].id <= minted[q]
      BY <3>4 DEF IInv, Queued
    <3> QED
      BY <1>0, <3>3, <3>5
  <2>3. \A id : Whole(q, d, id)' = Whole(q, d, id)
    BY <1>3 DEF Whole
  <2> QED
    BY <1>0, <1>v, <2>1, <2>2, <2>3 DEF Places, HandedOn, FrameOf
<1> QED
  BY <1>2, <1>4, <1>5 DEF Places

LEMMA SenderStep ==
    ASSUME IInv, SendersOK', (restarts \in Nat /\ screens \in Nat)',
           UNCHANGED <<driver, inbound, partials, pump, queue, taken>>,
           \A q \in Peer : SamePast(q) /\ Queued(q)' /\ HalfWay(q)'
    PROVE  IInv'
<1>1. TypeOK'
  <2>1. DriverOK'
    BY DEF IInv, TypeOK, DriverOK, driver, SamePast
  <2>2. PumpOK'
    BY DEF IInv, TypeOK, PumpOK
  <2> QED
    BY <2>1, <2>2 DEF TypeOK
<1>2. InOrderOnce'
  <2>1. Delivered' = Delivered
    BY DEF Delivered, InHand
  <2> QED
    BY <2>1 DEF IInv, InOrderOnce, FramesOf
<1>3. ASSUME NEW q \in Peer
      PROVE  \E d, m \in from'[q] .. read'[q] :
                OnTheWay(q, d, m)' /\ Parts(q, d)' /\ HandedOn(q, d)'
  <2>1. PICK d \in from[q]..read[q], m \in from[q]..read[q] : Places(q, d, m)
    BY DEF IInv, Places
  <2>2. Places(q, d, m)'
    BY <2>1, PlacesStay
  <2> QED
    BY <2>2 DEF Places, driver
<1> QED
  BY <1>1, <1>2, <1>3 DEF IInv

(* A sender whose outbox and ids stand still. *)
LEMMA Untouched ==
    ASSUME IInv, NEW q \in Peer,
           UNCHANGED <<minted[q], outbox[q]>>, sending'[q] \in {sending[q], Idle}
    PROVE  SamePast(q) /\ Queued(q)' /\ HalfWay(q)'
<1>1. SamePast(q)
  BY TypesOf DEF SamePast, IInv
<1>2. Queued(q)'
  BY DEF IInv, Queued
<1>3. HalfWay(q)'
  BY DEF IInv, HalfWay
<1> QED
  BY <1>1, <1>2, <1>3

LEMMA SendKeeps ==
    ASSUME IInv, NEW p \in Peer, Send(p)
    PROVE  IInv'
<1>1. /\ minted' = [minted EXCEPT ![p] = @ + 1]
      /\ sending' = [sending EXCEPT ![p] = [id |-> minted[p] + 1, next |-> 0]]
      /\ minted[p] < Len(Sizes[p]) /\ sending[p] = Idle
      /\ UNCHANGED <<epoch, outbox, driver, inbound, partials, pump, queue, taken, bounds>>
  BY DEF Send
<1>2. minted \in [Peer -> Nat] /\ sending \in [Peer -> [id : Nat, next : Nat]] /\ restarts \in Nat /\ screens \in Nat
  BY DEF IInv, TypeOK, SendersOK
<1>3. SendersOK'
  BY <1>1, <1>2 DEF IInv, TypeOK, SendersOK
<1>4. ASSUME NEW q \in Peer, q # p
      PROVE  SamePast(q) /\ Queued(q)' /\ HalfWay(q)'
  BY <1>1, <1>2, <1>4, Untouched
<1>5. SamePast(p)
  BY <1>1, <1>2, TypesOf DEF SamePast, IInv
<1>6. \A n \in DOMAIN outbox[p] : outbox[p][n].id <= minted[p] /\ outbox[p][n].id \in Nat
  BY ChunkOf, TypesOf DEF IInv
<1>7. Queued(p)'
  BY <1>1, <1>2, <1>6 DEF IInv, Queued
<1>8. HalfWay(p)'
  <2>1. Sizes[p] \in Seq(Nat \ {0})
    BY BridgeAssumption DEF Peer
  <2>2. sending'[p] = [id |-> minted[p] + 1, next |-> 0] /\ minted'[p] = minted[p] + 1 /\ outbox' = outbox
    BY <1>1, <1>2
  <2>3. minted[p] + 1 \in 1..Len(Sizes[p]) /\ Sizes[p][minted[p] + 1] > 0
    BY <1>1, <1>2, <2>1
  <2>4. \A k \in 1..Len(outbox[p]) : outbox[p][k].id < minted[p] + 1
    BY <1>2, <1>6, TypesOf DEF IInv
  <2> QED
    BY <2>2, <2>3, <2>4 DEF HalfWay
<1> QED
  BY <1>1, <1>2, <1>3, <1>4, <1>5, <1>7, <1>8, SenderStep DEF bounds

LEMMA SendChunkKeeps ==
    ASSUME IInv, NEW p \in Peer, SendChunk(p)
    PROVE  IInv'
<1> DEFINE s == sending[p]
           n == Len(outbox[p])
           c == [epoch |-> epoch[p], id |-> s.id, index |-> s.next, count |-> Sizes[p][s.id]]
<1>1. /\ s # Idle
      /\ outbox' = [outbox EXCEPT ![p] = Append(@, c)]
      /\ sending' = [sending EXCEPT ![p] = IF s.next + 1 = Sizes[p][s.id] THEN Idle
                                           ELSE [s EXCEPT !.next = @ + 1]]
      /\ UNCHANGED <<minted, epoch, driver, inbound, partials, pump, queue, taken, bounds>>
  BY DEF SendChunk
<1>2. /\ minted \in [Peer -> Nat] /\ sending \in [Peer -> [id : Nat, next : Nat]]
      /\ epoch \in [Peer -> Nat \ {0}] /\ outbox \in [Peer -> Seq(Chunk)]
      /\ restarts \in Nat /\ screens \in Nat
  BY DEF IInv, TypeOK, SendersOK
<1>3. /\ s \in [id : Nat, next : Nat] /\ s.id = minted[p] /\ s.id \in 1..minted[p]
      /\ s.next < Sizes[p][s.id]
      /\ s.next = 0 => \A k \in 1 .. n : outbox[p][k].id < s.id
      /\ s.next > 0 => n > 0 /\ outbox[p][n].id = s.id /\ outbox[p][n].index = s.next - 1
  BY <1>1, <1>2 DEF IInv, HalfWay
<1>4. Sizes[p][s.id] \in Nat \ {0} /\ s.id \in 1..Len(Sizes[p])
  BY <1>3, SizeOf
<1>5. c \in Chunk
  BY <1>2, <1>3, <1>4 DEF Chunk
<1>6. sending'[p] = (IF s.next + 1 = Sizes[p][s.id] THEN Idle ELSE [id |-> s.id, next |-> s.next + 1])
  BY <1>1, <1>2, <1>3
<1>7. outbox[p] \in Seq(Chunk) /\ n \in Nat /\ outbox'[p] = Append(outbox[p], c)
  BY <1>1, <1>2
<1>8. /\ outbox'[p] \in Seq(Chunk) /\ Len(outbox'[p]) = n + 1 /\ outbox'[p][n + 1] = c
      /\ \A k \in 1..n : outbox'[p][k] = outbox[p][k]
  BY <1>5, <1>7
<1>9. SendersOK'
  <2>1. sending'[p] \in [id : Nat, next : Nat]
    BY <1>3, <1>6 DEF Idle
  <2>2. sending' \in [Peer -> [id : Nat, next : Nat]]
    BY <1>1, <1>2, <2>1
  <2>3. outbox' \in [Peer -> Seq(Chunk)]
    BY <1>1, <1>2, <1>8
  <2> QED
    BY <1>1, <1>2, <2>2, <2>3 DEF SendersOK
<1>10. ASSUME NEW q \in Peer, q # p
       PROVE  SamePast(q) /\ Queued(q)' /\ HalfWay(q)'
  BY <1>1, <1>2, <1>10, Untouched
<1>11. SamePast(p)
  BY <1>1, <1>2, <1>7, <1>8, TypesOf DEF SamePast, IInv
<1>12. \A k \in 1..n : Before(outbox[p][k], c)
  <2> SUFFICES ASSUME NEW k \in 1..n PROVE Before(outbox[p][k], c)
    OBVIOUS
  <2>1. outbox[p][k].id \in Nat /\ outbox[p][k].index \in Nat
    BY ChunkOf
  <2>2. CASE s.next = 0
    BY <1>3, <2>1, <2>2 DEF Before
  <2>3. CASE s.next # 0
    <3>1. n > 0 /\ outbox[p][n].id = s.id /\ outbox[p][n].index = s.next - 1
      BY <1>3, <2>3
    <3>2. k = n \/ Before(outbox[p][k], outbox[p][n])
      BY <1>7 DEF IInv, Queued
    <3> QED
      BY <1>3, <2>1, <3>1, <3>2 DEF Before
  <2> QED
    BY <2>2, <2>3
<1>13. Queued(p)'
  <2>1. minted'[p] = minted[p]
    BY <1>1
  <2>2. ASSUME NEW k \in DOMAIN outbox'[p]
        PROVE  LET d == outbox'[p][k]
               IN  /\ d.id <= minted'[p] /\ d.count = Sizes[p][d.id] /\ d.index < d.count
                   /\ d.index > 0 => /\ k > 1 /\ outbox'[p][k - 1].id = d.id
                                     /\ outbox'[p][k - 1].index = d.index - 1
    <3>1. CASE k \in 1..n
      <4>1. k > 1 => k - 1 \in 1..n
        BY <1>7, <3>1
      <4>2. outbox'[p][k] = outbox[p][k]
        BY <1>8, <3>1
      <4>3. k > 1 => outbox'[p][k - 1] = outbox[p][k - 1]
        BY <1>8, <4>1
      <4>4. outbox[p][k].id <= minted[p]
        BY <1>2, <3>1, ChunkOf
      <4> QED
        BY <2>1, <3>1, <4>2, <4>3, <4>4, ChunkOf
    <3>2. CASE k = n + 1
      <4>1. s.next > 0 => n \in 1..n
        BY <1>3, <1>7
      <4> QED
        BY <1>2, <1>3, <1>7, <1>8, <2>1, <3>2, <4>1
    <3> QED
      BY <1>7, <1>8, <3>1, <3>2
  <2>3. ASSUME NEW k \in DOMAIN outbox'[p], NEW l \in DOMAIN outbox'[p], k < l
        PROVE  Before(outbox'[p][k], outbox'[p][l])
    <3>1. CASE l \in 1..n
      BY <1>7, <1>8, <2>3, <3>1 DEF IInv, Queued
    <3>2. CASE l = n + 1
      BY <1>7, <1>8, <1>12, <2>3, <3>2
    <3> QED
      BY <1>7, <1>8, <3>1, <3>2
  <2> QED
    BY <2>2, <2>3 DEF Queued
<1>14. HalfWay(p)'
  <2>1. CASE s.next + 1 = Sizes[p][s.id]
    BY <1>1, <1>6, <2>1 DEF IInv, HalfWay
  <2>2. CASE s.next + 1 # Sizes[p][s.id]
    <3>1. s.next + 1 < Sizes[p][s.id]
      BY <1>3, <1>4, <2>2
    <3> QED
      BY <1>1, <1>3, <1>6, <1>7, <1>8, <2>2, <3>1 DEF IInv, HalfWay
  <2> QED
    BY <2>1, <2>2
<1> QED
  BY <1>1, <1>2, <1>9, <1>10, <1>11, <1>13, <1>14, SenderStep DEF bounds

LEMMA CancelKeeps ==
    ASSUME IInv, NEW p \in Peer, CancelSend(p)
    PROVE  IInv'
<1>1. /\ sending' = [sending EXCEPT ![p] = Idle]
      /\ UNCHANGED <<minted, epoch, outbox, driver, inbound, partials, pump, queue, taken, bounds>>
  BY DEF CancelSend
<1>2. /\ sending \in [Peer -> [id : Nat, next : Nat]] /\ restarts \in Nat /\ screens \in Nat
  BY DEF IInv, TypeOK, SendersOK
<1>3. SendersOK'
  BY <1>1, <1>2 DEF IInv, TypeOK, SendersOK, Idle
<1>4. \A q \in Peer : SamePast(q) /\ Queued(q)' /\ HalfWay(q)'
  BY <1>1, <1>2, Untouched
<1> QED
  BY <1>1, <1>2, <1>3, <1>4, SenderStep DEF bounds

LEMMA SenderRestartKeeps ==
    ASSUME IInv, NEW p \in Peer, SenderRestart(p)
    PROVE  IInv'
<1>1. PICK k \in read[p] .. Len(outbox[p]) : outbox' = [outbox EXCEPT ![p] = SubSeq(@, 1, k)]
  BY DEF SenderRestart
<1>2. /\ sending' = [sending EXCEPT ![p] = Idle] /\ epoch' = [epoch EXCEPT ![p] = @ + 1]
      /\ restarts' = restarts + 1
      /\ UNCHANGED <<minted, driver, inbound, partials, pump, queue, taken, screens>>
  BY DEF SenderRestart
<1>3. /\ sending \in [Peer -> [id : Nat, next : Nat]] /\ epoch \in [Peer -> Nat \ {0}]
      /\ outbox \in [Peer -> Seq(Chunk)] /\ restarts \in Nat /\ screens \in Nat
  BY DEF IInv, TypeOK, SendersOK
<1>4. /\ outbox[p] \in Seq(Chunk) /\ read[p] \in Nat /\ k \in Nat /\ Len(outbox[p]) \in Nat
      /\ outbox'[p] = SubSeq(outbox[p], 1, k) /\ read[p] <= k /\ k <= Len(outbox[p])
  BY <1>1, <1>3, TypesOf DEF IInv
<1>5. /\ outbox'[p] \in Seq(Chunk) /\ Len(outbox'[p]) = k
      /\ \A i \in 1..k : outbox'[p][i] = outbox[p][i]
  BY <1>4, PieceOf
<1>6. SendersOK'
  <2>1. outbox' \in [Peer -> Seq(Chunk)]
    BY <1>1, <1>3, <1>5
  <2> QED
    BY <1>2, <1>3, <2>1 DEF IInv, TypeOK, SendersOK, Idle
<1>7. ASSUME NEW q \in Peer, q # p
      PROVE  SamePast(q) /\ Queued(q)' /\ HalfWay(q)'
  BY <1>1, <1>2, <1>3, <1>7, Untouched
<1>8. SamePast(p)
  BY <1>2, <1>4, <1>5, TypesOf DEF SamePast, IInv
<1>9. Queued(p)'
  <2>1. minted'[p] = minted[p]
    BY <1>2
  <2>2. ASSUME NEW i \in DOMAIN outbox'[p]
        PROVE  LET d == outbox'[p][i]
               IN  /\ d.id <= minted'[p] /\ d.count = Sizes[p][d.id] /\ d.index < d.count
                   /\ d.index > 0 => /\ i > 1 /\ outbox'[p][i - 1].id = d.id
                                     /\ outbox'[p][i - 1].index = d.index - 1
    <3>1. i \in 1..k /\ i \in DOMAIN outbox[p] /\ (i > 1 => i - 1 \in 1..k)
      BY <1>4, <1>5
    <3>2. outbox'[p][i] = outbox[p][i] /\ (i > 1 => outbox'[p][i - 1] = outbox[p][i - 1])
      BY <1>5, <3>1
    <3> QED
      BY <2>1, <3>1, <3>2 DEF IInv, Queued
  <2>3. ASSUME NEW i \in DOMAIN outbox'[p], NEW j \in DOMAIN outbox'[p], i < j
        PROVE  Before(outbox'[p][i], outbox'[p][j])
    <3>1. i \in DOMAIN outbox[p] /\ j \in DOMAIN outbox[p]
      BY <1>4, <1>5
    <3> QED
      BY <1>5, <2>3, <3>1 DEF IInv, Queued
  <2> QED
    BY <2>2, <2>3 DEF Queued
<1>10. HalfWay(p)'
  BY <1>2, <1>3 DEF IInv, HalfWay
<1> QED
  BY <1>2, <1>3, <1>6, <1>7, <1>8, <1>9, <1>10, SenderStep

-----------------------------------------------------------------------------
(* The driver. *)

(* Whatever the driver moves, what was put together stays. *)
LEMMA DriverStep ==
    ASSUME IInv, DriverOK', screens' \in Nat,
           UNCHANGED <<senders, from, partials, pump, queue, taken, restarts>>,
           \A q \in Peer : \E d, m \in from[q] .. read'[q] :
              OnTheWay(q, d, m)' /\ Parts(q, d) /\ HandedOn(q, d)
    PROVE  IInv'
<1>1. TypeOK'
  BY DEF IInv, TypeOK, SendersOK, PumpOK, senders
<1>2. Delivered' = Delivered
  BY DEF Delivered, InHand
<1>3. InOrderOnce'
  BY <1>2 DEF IInv, InOrderOnce, FramesOf
<1>4. ASSUME NEW q \in Peer
      PROVE  Queued(q)' /\ HalfWay(q)'
  BY DEF IInv, Queued, HalfWay, senders
<1>5. ASSUME NEW q \in Peer
      PROVE  \E d, m \in from'[q] .. read'[q] :
                OnTheWay(q, d, m)' /\ Parts(q, d)' /\ HandedOn(q, d)'
  <2>1. PICK d \in from[q] .. read'[q], m \in from[q] .. read'[q] :
           OnTheWay(q, d, m)' /\ Parts(q, d) /\ HandedOn(q, d)
    OBVIOUS
  <2>2. Parts(q, d)'
    BY <2>1 DEF Parts, Whole, Got, senders
  <2>3. HandedOn(q, d)'
    BY <1>2, <2>1 DEF HandedOn, FramesOf, Whole, Got, senders
  <2> QED
    BY <2>1, <2>2, <2>3
<1> QED
  BY <1>1, <1>3, <1>4, <1>5 DEF IInv

(* A screen may follow the chunks of a datagram. *)
LEMMA WithScreen ==
    ASSUME NEW t \in Seq(Chunk), NEW s \in 0 .. 1
    PROVE  /\ t \o [i \in 1 .. s |-> Screen] \in {t, Append(t, Screen)}
           /\ t \in Seq(Body) /\ Append(t, Screen) \in Seq(Body)
           /\ Append(t, Screen) # <<>>
           /\ t = <<>> => Len(t) = 0
<1>1. t \in Seq(Body) /\ Screen \in Body
  BY DEF Body
<1>2. t \o [i \in 1 .. s |-> Screen] \in {t, Append(t, Screen)}
  <2>1. CASE s = 0
    <3>1. [i \in 1 .. s |-> Screen] = <<>>
      BY <2>1
    <3> QED
      BY <1>1, <3>1
  <2>2. CASE s = 1
    <3>1. [i \in 1 .. s |-> Screen] = <<Screen>>
      BY <2>2
    <3>2. t \o <<Screen>> = Append(t, Screen)
      BY <1>1
    <3> QED
      BY <3>1, <3>2
  <2> QED
    BY <2>1, <2>2
<1>3. Append(t, Screen) \in Seq(Body) /\ Append(t, Screen) # <<>>
  BY <1>1
<1> QED
  BY <1>1, <1>2, <1>3

LEMMA ArriveKeeps ==
    ASSUME IInv, NEW p \in Peer, Arrive(p)
    PROVE  IInv'
<1>1. PICK k \in read[p] .. Len(outbox[p]), s \in 0 .. 1 :
        /\ screens' = screens + s
        /\ read' = [read EXCEPT ![p] = k]
        /\ pending' = [pending EXCEPT ![p] =
              SubSeq(outbox[p], read[p] + 1, k) \o [i \in 1 .. s |-> Screen]]
  BY DEF Arrive
<1>2. /\ pending[p] = <<>>
      /\ UNCHANGED <<senders, from, cursor, inbound, partials, pump, queue, taken, restarts>>
  BY DEF Arrive
<1>3. /\ read \in [Peer -> Nat] /\ pending \in [Peer -> Seq(Body)] /\ from \in [Peer -> Nat]
      /\ screens \in Nat /\ outbox' = outbox
  BY <1>2 DEF IInv, TypeOK, DriverOK, senders
<1>4. /\ outbox[p] \in Seq(Chunk) /\ read[p] \in Nat /\ k \in Nat /\ Len(outbox[p]) \in Nat
      /\ read[p] <= k /\ k <= Len(outbox[p]) /\ from[p] \in Nat /\ from[p] <= read[p]
      /\ read[p] + 1 \in Nat \ {0}
  <2>1. /\ outbox[p] \in Seq(Chunk) /\ read[p] \in Nat /\ Len(outbox[p]) \in Nat
        /\ from[p] \in Nat /\ from[p] <= read[p] /\ read[p] <= Len(outbox[p])
    BY TypesOf DEF IInv
  <2> QED
    BY <2>1
<1>r. /\ read'[p] = k /\ pending'[p] = SubSeq(outbox[p], read[p] + 1, k) \o [i \in 1 .. s |-> Screen]
      /\ screens' \in Nat
  <2>1. screens' \in Nat
    BY <1>1, <1>3
  <2>2. read'[p] = k
    BY <1>1, <1>3
  <2>3. pending'[p] = SubSeq(outbox[p], read[p] + 1, k) \o [i \in 1 .. s |-> Screen]
    BY <1>1, <1>3, Zenon
  <2> QED
    BY <2>1, <2>2, <2>3
<1>t. /\ SubSeq(outbox[p], read[p] + 1, k) \in Seq(Chunk)
      /\ Len(SubSeq(outbox[p], read[p] + 1, k)) = IF read[p] + 1 <= k THEN k - (read[p] + 1) + 1 ELSE 0
  BY <1>4, PieceOf
<1>5. /\ pending'[p] \in {SubSeq(outbox[p], read[p] + 1, k), Append(SubSeq(outbox[p], read[p] + 1, k), Screen)}
      /\ pending'[p] \in Seq(Body)
  BY <1>r, <1>t, WithScreen, Zenon
<1>7. DriverOK'
  <2>1. pending' \in [Peer -> Seq(Body)]
    BY <1>1, <1>3, <1>5
  <2>2. read' \in [Peer -> Nat]
    BY <1>1, <1>3, <1>4
  <2>3. ASSUME NEW q \in Peer
        PROVE  from[q] <= read'[q] /\ read'[q] <= Len(outbox[q])
    <3>1. CASE q = p
      <4>1. read'[q] = k
        BY <1>r, <3>1
      <4> QED
        BY <1>4, <3>1, <4>1
    <3>2. CASE q # p
      <4>1. read'[q] = read[q]
        BY <1>1, <1>3, <3>2
      <4> QED
        BY <4>1, TypesOf DEF IInv
    <3> QED
      BY <3>1, <3>2
  <2> QED
    BY <1>2, <1>3, <2>1, <2>2, <2>3 DEF IInv, TypeOK, DriverOK
<1>8. ASSUME NEW q \in Peer
      PROVE  \E d, m \in from[q] .. read'[q] : OnTheWay(q, d, m)' /\ Parts(q, d) /\ HandedOn(q, d)
  <2>1. PICK d \in from[q] .. read[q], m \in from[q] .. read[q] :
           OnTheWay(q, d, m) /\ Parts(q, d) /\ HandedOn(q, d)
    BY DEF IInv
  <2>2. ChunksOf(q)' = ChunksOf(q) /\ inbound' = inbound /\ outbox' = outbox /\ from' = from
    BY <1>2 DEF ChunksOf, senders
  <2>3. CASE q # p
    <3>1. pending'[q] = pending[q] /\ read'[q] = read[q]
      BY <1>1, <1>3, <2>3
    <3>2. OnTheWay(q, d, m)'
      BY <2>1, <2>2, <3>1 DEF OnTheWay
    <3> QED
      BY <2>1, <3>1, <3>2
  <2>4. CASE q = p
    <3>0. m \in Nat /\ d \in Nat /\ m <= read[p] /\ m + 1 \in Nat \ {0}
      BY <1>4, <2>1, <2>4
    <3>1. m = read[p]
      <4>1. /\ SubSeq(outbox[p], m + 1, read[p]) \in Seq(Chunk)
            /\ Len(SubSeq(outbox[p], m + 1, read[p])) = IF m + 1 <= read[p] THEN read[p] - (m + 1) + 1 ELSE 0
        BY <1>4, <3>0, PieceOf
      <4>2. pending[p] \in {SubSeq(outbox[p], m + 1, read[p]),
                            Append(SubSeq(outbox[p], m + 1, read[p]), Screen)}
        BY <2>1, <2>4 DEF OnTheWay
      <4>3. SubSeq(outbox[p], m + 1, read[p]) = <<>>
        BY <1>2, <4>1, <4>2, WithScreen, Zenon
      <4>4. Len(SubSeq(outbox[p], m + 1, read[p])) = 0
        BY <4>1, <4>3, WithScreen, Zenon
      <4>5. ~(m + 1 <= read[p])
        BY <1>4, <3>0, <4>1, <4>4
      <4> QED
        BY <1>4, <3>0, <4>5
    <3>2. OnTheWay(q, d, m)'
      <4>1. from'[p] <= d /\ d <= m /\ m <= read'[p]
        <5>1. from[p] <= d /\ d <= m
          BY <2>1, <2>4 DEF OnTheWay
        <5> QED
          BY <1>4, <1>r, <2>2, <3>1, <5>1
      <4>2. pending'[p] \in {SubSeq(outbox'[p], m + 1, read'[p]),
                             Append(SubSeq(outbox'[p], m + 1, read'[p]), Screen)}
        BY <1>5, <1>r, <2>2, <3>1, Zenon
      <4>3. /\ \A i \in ChunksOf(p) : \E n \in d + 1 .. m : inbound[i].body = outbox[p][n]
            /\ \A n \in d + 1 .. m : \E i \in ChunksOf(p) : inbound[i].body = outbox[p][n]
            /\ \A i, j \in ChunksOf(p) : i < j => Before(inbound[i].body, inbound[j].body)
        BY <2>1, <2>4, Zenon DEF OnTheWay
      <4>4. OnTheWay(p, d, m)'
        BY <2>2, <2>4, <4>1, <4>2, <4>3, Zenon DEF OnTheWay
      <4> QED
        BY <2>4, <4>4
    <3>3. d \in from[q] .. read'[q] /\ m \in from[q] .. read'[q]
      <4>1. d <= m
        BY <2>1 DEF OnTheWay
      <4>2. from[p] <= d
        BY <2>1, <2>4
      <4> QED
        BY <1>4, <2>4, <3>0, <3>1, <4>1, <4>2, <1>r
    <3> QED
      BY <2>1, <3>2, <3>3
  <2> QED
    BY <2>3, <2>4
<1> QED
  BY <1>2, <1>r, <1>7, <1>8, DriverStep

(* Two sequences one after the other. *)
LEMMA JoinOf ==
    ASSUME NEW S, NEW s \in Seq(S), NEW t \in Seq(S), NEW u, u = s \o t
    PROVE  /\ u \in Seq(S) /\ Len(u) = Len(s) + Len(t)
           /\ \A i \in 1 .. Len(s) : u[i] = s[i]
           /\ \A i \in 1 .. Len(t) : u[Len(s) + i] = t[i]
<1>1. u \in Seq(S) /\ Len(u) = Len(s) + Len(t)
  OBVIOUS
<1>2. \A i \in 1 .. Len(s) : u[i] = s[i]
  OBVIOUS
<1>3. \A i \in 1 .. Len(t) : u[Len(s) + i] = t[i]
  OBVIOUS
<1> QED
  BY <1>1, <1>2, <1>3

(* The head of a backlog, and what it leaves. *)
LEMMA FirstOf ==
    ASSUME NEW o \in Seq(Chunk), NEW m \in Nat, NEW r \in Nat, m <= r, r <= Len(o),
           NEW t \in {SubSeq(o, m + 1, r), Append(SubSeq(o, m + 1, r), Screen)}, t # <<>>
    PROVE  /\ m < r => /\ Head(t) = o[m + 1]
                       /\ Tail(t) \in {SubSeq(o, m + 2, r), Append(SubSeq(o, m + 2, r), Screen)}
           /\ m = r => /\ Head(t) = Screen
                       /\ Tail(t) \in {SubSeq(o, m + 1, r), Append(SubSeq(o, m + 1, r), Screen)}
<1> DEFINE u == SubSeq(o, m + 1, r)
           v == SubSeq(o, m + 2, r)
<1>1. /\ u \in Seq(Chunk) /\ Len(u) = (IF m + 1 <= r THEN r - (m + 1) + 1 ELSE 0)
      /\ \A i \in 1..Len(u) : u[i] = o[m + 1 + i - 1]
  BY PieceOf
<1>2. /\ v \in Seq(Chunk) /\ Len(v) = (IF m + 2 <= r THEN r - (m + 2) + 1 ELSE 0)
      /\ \A i \in 1..Len(v) : v[i] = o[m + 2 + i - 1]
  BY PieceOf
<1>t. t \in {u, Append(u, Screen)}
  OBVIOUS
<1> HIDE DEF u, v
<1>3. CASE m < r
  <2>1. Len(u) = r - m /\ Len(v) = r - m - 1
    BY <1>1, <1>2, <1>3
  <2>2. u # <<>> /\ Head(u) = o[m + 1]
    BY <1>1, <1>3, <2>1
  <2>3. Tail(u) = v
    <3>1. Tail(u) \in Seq(Chunk) /\ Len(Tail(u)) = Len(v)
      BY <1>1, <2>1, <2>2
    <3>2. \A i \in 1..Len(Tail(u)) : Tail(u)[i] = v[i]
      <4> SUFFICES ASSUME NEW i \in 1..Len(Tail(u)) PROVE Tail(u)[i] = v[i]
        OBVIOUS
      <4>1. Tail(u)[i] = u[i + 1] /\ i + 1 \in 1..Len(u) /\ i \in 1..Len(v)
        BY <1>1, <1>3, <2>1, <2>2, <3>1
      <4>2. u[i + 1] = o[m + 1 + (i + 1) - 1] /\ v[i] = o[m + 2 + i - 1]
        BY <1>1, <1>2, <4>1
      <4>3. m + 1 + (i + 1) - 1 = m + 2 + i - 1
        BY <4>1
      <4> QED
        BY <4>1, <4>2, <4>3
    <3> QED
      BY <1>2, <3>1, <3>2, SeqEqual
  <2>4. ASSUME t = u
        PROVE  Head(t) = o[m + 1] /\ Tail(t) = v
    BY <2>2, <2>3, <2>4
  <2>5. ASSUME t = Append(u, Screen)
        PROVE  Head(t) = o[m + 1] /\ Tail(t) = Append(v, Screen)
    <3>1. Head(t) = Head(u)
      BY <1>1, <2>2, <2>5
    <3>2. Tail(t) = Append(Tail(u), Screen)
      BY <1>1, <2>2, <2>5
    <3> QED
      BY <2>2, <2>3, <3>1, <3>2
  <2>6. Head(t) = o[m + 1] /\ Tail(t) \in {v, Append(v, Screen)}
    BY <1>t, <2>4, <2>5
  <2>7. Head(t) = o[m + 1] /\ Tail(t) \in {SubSeq(o, m + 2, r), Append(SubSeq(o, m + 2, r), Screen)}
    BY <2>6, Zenon DEF v
  <2>8. m # r
    BY <1>3
  <2> QED
    BY <2>7, <2>8
<1>4. CASE m = r
  <2>1. u = <<>>
    BY <1>1, <1>4
  <2>2. t = <<Screen>>
    BY <1>t, <2>1
  <2>3. Head(t) = Screen /\ Tail(t) = <<>>
    BY <2>2
  <2> QED
    BY <1>4, <2>1, <2>3 DEF u
<1> QED
  BY <1>3, <1>4

(* One step of the round: what comes into the channel, and from whom. *)
LEMMA FlushStep ==
    ASSUME TypeOK, FlushInbound
    PROVE  \E round \in Rounds :
             LET L == Len(inbound)
                 served == {round[i] : i \in 1 .. Accepted}
             IN  /\ Accepted \in Nat /\ Accepted <= Cardinality(Ready)
                 /\ L \in Nat /\ Len(inbound') = L + Accepted
                 /\ \A i \in 1 .. L : inbound'[i] = inbound[i]
                 /\ \A i \in 1 .. Accepted :
                       /\ round[i] \in Peer /\ pending[round[i]] # <<>>
                       /\ inbound'[L + i] = [peer |-> round[i], body |-> Head(pending[round[i]])]
                 /\ \A i, j \in 1 .. Accepted : round[i] = round[j] => i = j
                 /\ \A q \in Peer : pending'[q] = IF q \in served THEN Tail(pending[q]) ELSE pending[q]
                 /\ DriverOK'
                 /\ UNCHANGED <<senders, from, read, partials, pump, queue, taken, bounds>>
<1>1. PICK round \in Rounds :
        LET served == {round[i] : i \in 1 .. Accepted}
        IN  /\ inbound' = inbound \o [i \in 1 .. Accepted |->
                              [peer |-> round[i], body |-> Head(pending[round[i]])]]
            /\ pending' = [p \in Peer |-> IF p \in served THEN Tail(pending[p]) ELSE pending[p]]
            /\ cursor' = IF Accepted < Cardinality(Ready) THEN (round[Accepted + 1] + 1) % N
                         ELSE (cursor + 1) % N
            /\ UNCHANGED <<senders, from, read, partials, pump, queue, taken, bounds>>
  BY DEF FlushInbound
<1>0. /\ inbound \in Seq(InChannel) /\ Len(inbound) \in Nat /\ Len(inbound) <= InboundCapacity
      /\ pending \in [Peer -> Seq(Body)] /\ cursor \in Peer
  BY DEF TypeOK, DriverOK
<1>2. Accepted \in 0 .. Cardinality(Ready) /\ Accepted <= InboundCapacity - Len(inbound)
  BY <1>0, ReadyCounted, BridgeAssumption DEF Accepted
<1>3. \A i \in 1 .. Cardinality(Ready) : round[i] \in Peer /\ pending[round[i]] # <<>>
  BY <1>0, RoundOf DEF Ready
<1> DEFINE new == [i \in 1 .. Accepted |-> [peer |-> round[i], body |-> Head(pending[round[i]])]]
<1>4. new \in Seq(InChannel) /\ Len(new) = Accepted
  <2>1. \A i \in 1 .. Accepted : round[i] \in Peer /\ Head(pending[round[i]]) \in Body
    BY <1>0, <1>2, <1>3, ReadyCounted, TailOf
  <2>2. \A i \in 1 .. Accepted : [peer |-> round[i], body |-> Head(pending[round[i]])] \in InChannel
    BY <2>1 DEF InChannel
  <2>3. Accepted \in Nat
    BY <1>2
  <2> QED
    BY <2>2, <2>3
<1>5. \A i \in 1 .. Accepted : new[i] = [peer |-> round[i], body |-> Head(pending[round[i]])]
  OBVIOUS
<1> HIDE DEF new
<1>6. inbound' = inbound \o new
  BY <1>1 DEF new
<1>7. /\ inbound' \in Seq(InChannel) /\ Len(inbound') = Len(inbound) + Accepted
      /\ \A i \in 1 .. Len(inbound) : inbound'[i] = inbound[i]
      /\ \A i \in 1 .. Accepted : inbound'[Len(inbound) + i] = new[i]
  <2> DEFINE more == inbound'
             was == inbound
  <2>1. was \in Seq(InChannel) /\ new \in Seq(InChannel) /\ more = was \o new
    BY <1>0, <1>4, <1>6
  <2> HIDE DEF more, was
  <2>2. /\ more \in Seq(InChannel) /\ Len(more) = Len(was) + Len(new)
        /\ \A i \in 1 .. Len(was) : more[i] = was[i]
        /\ \A i \in 1 .. Len(new) : more[Len(was) + i] = new[i]
    BY <2>1, JoinOf
  <2> QED
    BY <1>4, <2>2 DEF more, was
<1>8. pending' \in [Peer -> Seq(Body)]
  <2>1. \A i \in 1 .. Accepted : pending[round[i]] # <<>>
    BY <1>2, <1>3, ReadyCounted
  <2>2. \A q \in Peer : pending[q] # <<>> => Tail(pending[q]) \in Seq(Body)
    BY <1>0, TailOf
  <2> QED
    BY <1>0, <1>1, <2>1, <2>2
<1>9. cursor' \in Peer
  <2>1. Accepted < Cardinality(Ready) => round[Accepted + 1] + 1 \in Int
    BY <1>2, <1>3, ReadyCounted DEF Peer
  <2>2. cursor + 1 \in Int
    BY <1>0 DEF Peer
  <2> QED
    BY <1>1, <2>1, <2>2, InRound
<1>10. DriverOK'
  <2>1. from \in [Peer -> Nat] /\ read \in [Peer -> Nat]
        /\ \A q \in Peer : from[q] <= read[q] /\ read[q] <= Len(outbox[q])
    BY DEF TypeOK, DriverOK
  <2>2. from' = from /\ read' = read /\ outbox' = outbox
    BY <1>1 DEF senders
  <2>3. Len(inbound') <= InboundCapacity
    BY <1>0, <1>2, <1>7, BridgeAssumption
  <2> QED
    BY <1>7, <1>8, <1>9, <2>1, <2>2, <2>3 DEF DriverOK
<1>11. \A i, j \in 1 .. Accepted : round[i] = round[j] => i = j
  BY <1>0, <1>2, ReadyCounted, RoundOf
<1>12. \A q \in Peer : pending'[q] = IF q \in {round[i] : i \in 1 .. Accepted} THEN Tail(pending[q]) ELSE pending[q]
  BY <1>1
<1>13. \A i \in 1 .. Accepted :
          /\ round[i] \in Peer /\ pending[round[i]] # <<>>
          /\ inbound'[Len(inbound) + i] = [peer |-> round[i], body |-> Head(pending[round[i]])]
  BY <1>2, <1>3, <1>5, <1>7, ReadyCounted
<1>14. Accepted \in Nat /\ Accepted <= Cardinality(Ready)
  BY <1>2, ReadyCounted
<1>15. UNCHANGED <<senders, from, read, partials, pump, queue, taken, bounds>>
  BY <1>1
<1> HIDE DEF Rounds
<1> QED
  BY <1>0, <1>7, <1>10, <1>11, <1>12, <1>13, <1>14, <1>15

(* A chunk is no screen, and the chunks of a peer come one before the other. *)
LEMMA ChunkOrder ==
    ASSUME IInv, NEW q \in Peer, NEW n \in 1 .. Len(outbox[q])
    PROVE  /\ outbox[q][n] # Screen
           /\ \A k \in 1 .. Len(outbox[q]) : k < n => Before(outbox[q][k], outbox[q][n])
           /\ \A k \in 1 .. Len(outbox[q]) : Before(outbox[q][k], outbox[q][n]) => k < n
<1>1. outbox[q][n].id \in Nat \ {0}
  BY ChunkOf DEF Chunk
<1>2. outbox[q][n] # Screen
  BY <1>1 DEF Screen
<1>3. \A k, l \in 1 .. Len(outbox[q]) : k < l => Before(outbox[q][k], outbox[q][l])
  BY TypesOf DEF IInv, Queued
<1>4. \A k \in 1 .. Len(outbox[q]) : outbox[q][k].id \in Nat /\ outbox[q][k].index \in Nat
  BY ChunkOf DEF Chunk
<1>5. ASSUME NEW k \in 1 .. Len(outbox[q]), Before(outbox[q][k], outbox[q][n])
      PROVE  k < n
  <2>1. k # n
    BY <1>4, <1>5 DEF Before
  <2>2. ~(n < k)
    BY <1>3, <1>4, <1>5 DEF Before
  <2>3. Len(outbox[q]) \in Nat
    BY TypesOf DEF IInv
  <2> QED
    BY <2>1, <2>2, <2>3
<1> QED
  BY <1>2, <1>3, <1>5

LEMMA FlushKeeps ==
    ASSUME IInv, FlushInbound
    PROVE  IInv'
<1> DEFINE L == Len(inbound)
<1>1. PICK round \in Rounds :
         LET served == {round[i] : i \in 1 .. Accepted}
         IN  /\ Accepted \in Nat /\ Accepted <= Cardinality(Ready)
             /\ L \in Nat /\ Len(inbound') = L + Accepted
             /\ \A i \in 1 .. L : inbound'[i] = inbound[i]
             /\ \A i \in 1 .. Accepted :
                   /\ round[i] \in Peer /\ pending[round[i]] # <<>>
                   /\ inbound'[L + i] = [peer |-> round[i], body |-> Head(pending[round[i]])]
             /\ \A i, j \in 1 .. Accepted : round[i] = round[j] => i = j
             /\ \A q \in Peer : pending'[q] = IF q \in served THEN Tail(pending[q]) ELSE pending[q]
             /\ DriverOK'
             /\ UNCHANGED <<senders, from, read, partials, pump, queue, taken, bounds>>
  BY FlushStep DEF IInv
<1>2. DOMAIN inbound = 1 .. L /\ DOMAIN inbound' = 1 .. L + Accepted
  <2>1. inbound \in Seq(InChannel) /\ inbound' \in Seq(InChannel)
    BY <1>1 DEF IInv, TypeOK, DriverOK
  <2> QED
    BY <1>1, <2>1
<1>3. from' = from /\ read' = read /\ outbox' = outbox /\ screens' = screens /\ restarts' = restarts
  BY <1>1 DEF senders, bounds
<1>4. ASSUME NEW q \in Peer
      PROVE  \E d, m \in from[q] .. read'[q] : OnTheWay(q, d, m)' /\ Parts(q, d) /\ HandedOn(q, d)
  <2>1. PICK d \in from[q] .. read[q], m \in from[q] .. read[q] :
           OnTheWay(q, d, m) /\ Parts(q, d) /\ HandedOn(q, d)
    BY DEF IInv
  <2>2. /\ from[q] \in Nat /\ read[q] \in Nat /\ d \in Nat /\ m \in Nat
        /\ m <= read[q] /\ read[q] <= Len(outbox[q]) /\ Len(outbox[q]) \in Nat /\ outbox[q] \in Seq(Chunk)
        /\ from[q] <= d
    BY <2>1, TypesOf DEF IInv
  <2>3. /\ d <= m
        /\ pending[q] \in {SubSeq(outbox[q], m + 1, read[q]),
                           Append(SubSeq(outbox[q], m + 1, read[q]), Screen)}
        /\ \A i \in ChunksOf(q) : \E n \in d + 1 .. m : inbound[i].body = outbox[q][n]
        /\ \A n \in d + 1 .. m : \E i \in ChunksOf(q) : inbound[i].body = outbox[q][n]
        /\ \A i, j \in ChunksOf(q) : i < j => Before(inbound[i].body, inbound[j].body)
    BY <2>1 DEF OnTheWay
  <2>4. /\ ChunksOf(q) = {i \in 1 .. L : inbound[i].peer = q /\ inbound[i].body # Screen}
        /\ ChunksOf(q)' = {i \in 1 .. L + Accepted : inbound'[i].peer = q /\ inbound'[i].body # Screen}
    BY <1>2 DEF ChunksOf
  \* No chunk of q comes into the channel.
  <2>5. ASSUME \A i \in 1 .. Accepted : round[i] = q => Head(pending[q]) = Screen,
               pending'[q] \in {SubSeq(outbox[q], m + 1, read[q]),
                                Append(SubSeq(outbox[q], m + 1, read[q]), Screen)}
        PROVE  OnTheWay(q, d, m)'
    <3>1. \A i \in 1 .. L + Accepted : i \in 1 .. L \/ i - L \in 1 .. Accepted
      BY <1>1
    <3>2. \A i \in 1 .. L + Accepted : i - L \in 1 .. Accepted => i \notin ChunksOf(q)'
      <4> SUFFICES ASSUME NEW i \in 1 .. L + Accepted, i - L \in 1 .. Accepted
                   PROVE  i \notin ChunksOf(q)'
        OBVIOUS
      <4>1. inbound'[L + (i - L)] = [peer |-> round[i - L], body |-> Head(pending[round[i - L]])]
        BY <1>1
      <4>2. L + (i - L) = i
        BY <1>1
      <4> QED
        BY <2>4, <2>5, <4>1, <4>2
    <3>3. ChunksOf(q)' = ChunksOf(q)
      <4>1. \A i \in ChunksOf(q)' : i \in ChunksOf(q)
        BY <1>1, <2>4, <3>1, <3>2
      <4>2. \A i \in ChunksOf(q) : i \in ChunksOf(q)'
        BY <1>1, <2>4
      <4> QED
        BY <4>1, <4>2
    <3>4. \A i \in ChunksOf(q) : inbound'[i] = inbound[i]
      BY <1>1, <2>4
    <3> QED
      <4>1. m <= read[q]
        BY <2>2
      <4>2. from'[q] <= d /\ d <= m /\ m <= read'[q]
        BY <1>3, <2>2, <2>3, <4>1
      <4>3. pending'[q] \in {SubSeq(outbox'[q], m + 1, read'[q]),
                             Append(SubSeq(outbox'[q], m + 1, read'[q]), Screen)}
        BY <1>3, <2>5, Zenon
      <4>4. ASSUME NEW i \in ChunksOf(q)'
            PROVE  \E n \in d + 1 .. m : inbound'[i].body = outbox'[q][n]
        <5>1. i \in ChunksOf(q) /\ inbound'[i] = inbound[i]
          BY <3>3, <3>4
        <5>2. PICK n \in d + 1 .. m : inbound[i].body = outbox[q][n]
          BY <2>3, <5>1
        <5> QED
          BY <1>3, <5>1, <5>2
      <4>5. ASSUME NEW n \in d + 1 .. m
            PROVE  \E i \in ChunksOf(q)' : inbound'[i].body = outbox'[q][n]
        <5>1. PICK i \in ChunksOf(q) : inbound[i].body = outbox[q][n]
          BY <2>3
        <5>2. i \in ChunksOf(q)' /\ inbound'[i] = inbound[i]
          BY <3>3, <3>4
        <5> QED
          BY <1>3, <5>1, <5>2
      <4>6. \A i, j \in ChunksOf(q)' : i < j => Before(inbound'[i].body, inbound'[j].body)
        BY <2>3, <3>3, <3>4, Zenon
      <4> QED
        BY <4>2, <4>3, <4>4, <4>5, <4>6 DEF OnTheWay
  <2>6. CASE q \notin {round[i] : i \in 1 .. Accepted}
    <3>1. pending'[q] = pending[q] /\ \A i \in 1 .. Accepted : round[i] # q
      BY <1>1, <2>6
    <3>2. OnTheWay(q, d, m)'
      BY <2>3, <2>5, <3>1, Zenon
    <3> QED
      BY <1>3, <2>1, <3>2
  <2>7. CASE q \in {round[i] : i \in 1 .. Accepted}
    <3>1. PICK s \in 1 .. Accepted : round[s] = q
      BY <2>7
    <3>2. /\ pending[q] # <<>> /\ pending'[q] = Tail(pending[q])
          /\ inbound'[L + s] = [peer |-> q, body |-> Head(pending[q])]
          /\ \A i \in 1 .. Accepted : round[i] = q => i = s
      BY <1>1, <2>7, <3>1
    <3>3. CASE m = read[q]
      <4>1. /\ Head(pending[q]) = Screen
            /\ Tail(pending[q]) \in {SubSeq(outbox[q], m + 1, read[q]),
                                     Append(SubSeq(outbox[q], m + 1, read[q]), Screen)}
        BY <2>2, <2>3, <3>2, <3>3, FirstOf
      <4>2. OnTheWay(q, d, m)'
        BY <2>5, <3>2, <4>1, Zenon
      <4> QED
        BY <1>3, <2>1, <4>2
    <3>4. CASE m < read[q]
      <4> DEFINE c == outbox[q][m + 1]
      <4>1. /\ Head(pending[q]) = c
            /\ Tail(pending[q]) \in {SubSeq(outbox[q], m + 2, read[q]),
                                     Append(SubSeq(outbox[q], m + 2, read[q]), Screen)}
        BY <2>2, <2>3, <3>2, <3>4, FirstOf
      <4>2. m + 1 \in 1 .. Len(outbox[q]) /\ m + 1 <= read[q] /\ m + 2 = (m + 1) + 1
        BY <2>2, <3>4
      <4>3. c # Screen /\ \A k \in 1 .. m : Before(outbox[q][k], c)
        BY <2>2, <4>2, ChunkOrder
      <4>4. /\ inbound'[L + s].peer = q /\ inbound'[L + s].body = c
            /\ L + s \in 1 .. L + Accepted /\ L + s > L
        BY <1>1, <3>1, <3>2, <4>1
      <4>5. ChunksOf(q)' = ChunksOf(q) \cup {L + s}
        <5>1. ASSUME NEW i \in ChunksOf(q)', i \notin 1 .. L
              PROVE  i = L + s
          <6>1. i \in 1 .. L + Accepted /\ i - L \in 1 .. Accepted /\ L + (i - L) = i
            BY <1>1, <2>4, <5>1
          <6>2. inbound'[L + (i - L)] = [peer |-> round[i - L], body |-> Head(pending[round[i - L]])]
            BY <1>1, <6>1
          <6>3. round[i - L] = q
            BY <2>4, <6>1, <6>2
          <6>4. i - L = s
            BY <3>2, <6>1, <6>3
          <6> QED
            BY <6>1, <6>4
        <5>2. ASSUME NEW i \in ChunksOf(q)', i \in 1 .. L
              PROVE  i \in ChunksOf(q)
          BY <1>1, <2>4, <5>2
        <5>3. \A i \in ChunksOf(q) : i \in ChunksOf(q)'
          BY <1>1, <2>4
        <5>4. L + s \in ChunksOf(q)'
          BY <2>4, <4>3, <4>4
        <5> QED
          BY <5>1, <5>2, <5>3, <5>4
      <4>6. \A i \in ChunksOf(q) : i \in 1 .. L /\ inbound'[i] = inbound[i]
        BY <1>1, <2>4
      <4>7. \A i \in ChunksOf(q)' : \E n \in d + 1 .. m + 1 : inbound'[i].body = outbox[q][n]
        <5> SUFFICES ASSUME NEW i \in ChunksOf(q)'
                     PROVE  \E n \in d + 1 .. m + 1 : inbound'[i].body = outbox[q][n]
          OBVIOUS
        <5>1. CASE i \in ChunksOf(q)
          <6>1. PICK n \in d + 1 .. m : inbound[i].body = outbox[q][n]
            BY <2>3, <5>1
          <6>2. n \in d + 1 .. m + 1
            BY <2>2, <6>1
          <6> QED
            BY <4>6, <5>1, <6>1, <6>2
        <5>2. CASE i = L + s
          <6>1. m + 1 \in d + 1 .. m + 1
            BY <2>2, <2>3
          <6> QED
            BY <4>4, <5>2, <6>1
        <5> QED
          BY <4>5, <5>1, <5>2
      <4>8. \A n \in d + 1 .. m + 1 : \E i \in ChunksOf(q)' : inbound'[i].body = outbox[q][n]
        <5> SUFFICES ASSUME NEW n \in d + 1 .. m + 1
                     PROVE  \E i \in ChunksOf(q)' : inbound'[i].body = outbox[q][n]
          OBVIOUS
        <5>1. CASE n = m + 1
          BY <4>4, <4>5, <5>1
        <5>2. CASE n # m + 1
          <6>1. n \in d + 1 .. m
            BY <2>2, <5>2
          <6> QED
            BY <2>3, <4>5, <4>6, <6>1
        <5> QED
          BY <5>1, <5>2
      <4>9. ASSUME NEW i \in ChunksOf(q)', NEW j \in ChunksOf(q)', i < j
            PROVE  Before(inbound'[i].body, inbound'[j].body)
        <5>1. i \in ChunksOf(q)
          BY <1>1, <4>4, <4>5, <4>6, <4>9
        <5>2. CASE j \in ChunksOf(q)
          BY <2>3, <4>6, <4>9, <5>1, <5>2
        <5>3. CASE j = L + s
          <6>1. PICK n \in d + 1 .. m : inbound[i].body = outbox[q][n]
            BY <2>3, <5>1
          <6>2. n \in 1 .. m
            BY <2>2, <6>1
          <6> QED
            BY <4>3, <4>4, <4>6, <5>1, <5>3, <6>1, <6>2
        <5> QED
          BY <4>5, <5>2, <5>3
      <4>10. from'[q] <= d /\ d <= m + 1 /\ m + 1 <= read'[q]
        BY <1>3, <2>2, <2>3, <4>2
      <4>11. pending'[q] \in {SubSeq(outbox'[q], (m + 1) + 1, read'[q]),
                              Append(SubSeq(outbox'[q], (m + 1) + 1, read'[q]), Screen)}
        <5>1. pending'[q] \in {SubSeq(outbox[q], (m + 1) + 1, read[q]),
                               Append(SubSeq(outbox[q], (m + 1) + 1, read[q]), Screen)}
          <6>1. m + 2 = (m + 1) + 1
            BY <4>2
          <6> QED
            BY <3>2, <4>1, <6>1, Zenon
        <5> QED
          BY <1>3, <5>1, Zenon
      <4>12. OnTheWay(q, d, m + 1)'
        BY <1>3, <4>7, <4>8, <4>9, <4>10, <4>11, Zenon DEF OnTheWay
      <4>13. d \in from[q] .. read'[q] /\ m + 1 \in from[q] .. read'[q]
        BY <1>3, <2>2, <2>3, <4>2
      <4> QED
        BY <2>1, <4>12, <4>13
    <3> QED
      BY <2>2, <3>3, <3>4
  <2> QED
    BY <2>6, <2>7
<1>5. screens' \in Nat
  BY <1>3 DEF IInv, TypeOK
<1> QED
  BY <1>1, <1>3, <1>4, <1>5, DriverStep

-----------------------------------------------------------------------------
(* The pump. *)

(* What was put together is a sequence of frames and who sent them. *)
LEMMA DeliveredOf ==
    ASSUME PumpOK
    PROVE  Delivered \in Seq(Message) /\ DOMAIN Delivered = 1 .. Len(Delivered) /\ Len(Delivered) \in Nat
<1>1. taken \in Seq(Message) /\ queue \in Seq(Message) /\ pump \in PumpState
  BY DEF PumpOK
<1>2. [peer |-> pump.peer, frame |-> pump.frame] \in Message
  BY <1>1 DEF PumpState, Message
<1>3. InHand \in Seq(Message)
  BY <1>2 DEF InHand
<1>4. Delivered \in Seq(Message)
  <2>1. taken \o queue \in Seq(Message)
    BY <1>1, JoinOf
  <2> QED
    BY <1>3, <2>1, JoinOf DEF Delivered
<1> QED
  BY <1>4

(* A step that moves a frame from one place to the next. *)
LEMMA FrameMoves ==
    ASSUME IInv, PumpOK', Delivered' = Delivered,
           UNCHANGED <<senders, driver, inbound, partials, bounds>>
    PROVE  IInv'
<1>1. TypeOK'
  BY DEF IInv, TypeOK, SendersOK, DriverOK, senders, driver, bounds
<1>2. InOrderOnce'
  BY DEF IInv, InOrderOnce, FramesOf
<1>3. ASSUME NEW q \in Peer
      PROVE  Queued(q)' /\ HalfWay(q)'
  BY DEF IInv, Queued, HalfWay, senders
<1>4. ASSUME NEW q \in Peer
      PROVE  \E d, m \in from'[q] .. read'[q] :
                OnTheWay(q, d, m)' /\ Parts(q, d)' /\ HandedOn(q, d)'
  <2>1. PICK d \in from[q] .. read[q], m \in from[q] .. read[q] :
           OnTheWay(q, d, m) /\ Parts(q, d) /\ HandedOn(q, d)
    BY DEF IInv
  <2>2. OnTheWay(q, d, m)'
    BY <2>1 DEF OnTheWay, ChunksOf, senders, driver
  <2>3. Parts(q, d)'
    BY <2>1 DEF Parts, Whole, Got, senders, driver
  <2>4. HandedOn(q, d)'
    BY <2>1 DEF HandedOn, FramesOf, Whole, Got, senders, driver
  <2> QED
    BY <2>1, <2>2, <2>3, <2>4 DEF driver
<1> QED
  BY <1>1, <1>2, <1>3, <1>4 DEF IInv

LEMMA OfferKeeps ==
    ASSUME IInv, Offer
    PROVE  IInv'
<1> DEFINE x == [peer |-> pump.peer, frame |-> pump.frame]
<1>1. /\ pump.pc = "offer"
      /\ UNCHANGED <<senders, driver, inbound, partials, taken, bounds>>
  BY DEF Offer
<1>2. /\ pump \in PumpState /\ queue \in Seq(Message) /\ taken \in Seq(Message)
      /\ Len(queue) <= InboxCapacity /\ partials \subseteq Partial
  BY DEF IInv, TypeOK, PumpOK
<1>3. x \in Message /\ InHand = <<x>>
  BY <1>1, <1>2 DEF PumpState, Message, InHand
<1>4. CASE Len(queue) < InboxCapacity /\ queue' = Append(queue, x) /\ pump' = Waiting
  <2>1. queue' \in Seq(Message) /\ Len(queue') <= InboxCapacity
    BY <1>2, <1>3, <1>4, BridgeAssumption
  <2>2. pump' \in PumpState
    BY <1>4, BridgeAssumption DEF Waiting, PumpState, Peer, Frame
  <2>3. Delivered' = Delivered
    <3>1. InHand' = <<>>
      BY <1>4 DEF InHand, Waiting
    <3>2. \A s, t \in Seq(Message) : s \o Append(t, x) \o <<>> = s \o t \o <<x>>
      BY <1>3
    <3> QED
      BY <1>1, <1>2, <1>3, <1>4, <3>1, <3>2 DEF Delivered
  <2>4. PumpOK'
    BY <1>1, <1>2, <2>1, <2>2 DEF PumpOK
  <2> QED
    BY <1>1, <2>3, <2>4, FrameMoves
<1>5. CASE pump' = [pump EXCEPT !.pc = "full"] /\ queue' = queue
  <2>1. pump' \in PumpState
    BY <1>2, <1>5 DEF PumpState
  <2>2. Delivered' = Delivered
    BY <1>1, <1>2, <1>5 DEF Delivered, InHand, PumpState
  <2>3. PumpOK'
    BY <1>1, <1>2, <1>5, <2>1 DEF PumpOK
  <2> QED
    BY <1>1, <2>2, <2>3, FrameMoves
<1> QED
  BY <1>4, <1>5 DEF Offer

LEMMA AwaitWakeKeep ==
    ASSUME IInv, Await \/ Wake
    PROVE  IInv'
<1>1. UNCHANGED <<senders, driver, inbound, partials, queue, taken, bounds>>
  BY DEF Await, Wake
<1>2. /\ pump \in PumpState /\ queue \in Seq(Message) /\ taken \in Seq(Message)
      /\ Len(queue) <= InboxCapacity /\ partials \subseteq Partial
  BY DEF IInv, TypeOK, PumpOK
<1>3. pump' \in PumpState /\ InHand' = InHand
  BY <1>2 DEF Await, Wake, PumpState, InHand
<1>4. PumpOK'
  BY <1>1, <1>2, <1>3 DEF PumpOK
<1>5. Delivered' = Delivered
  BY <1>1, <1>3 DEF Delivered
<1> QED
  BY <1>1, <1>4, <1>5, FrameMoves

LEMMA DrainKeeps ==
    ASSUME IInv, Drain
    PROVE  IInv'
<1>1. PICK k \in 1 .. Len(queue) : /\ queue' = SubSeq(queue, k + 1, Len(queue))
                                   /\ taken' = taken \o SubSeq(queue, 1, k)
  BY DEF Drain
<1>2. pump' = [pump EXCEPT !.space = pump.pc # "recv"]
      /\ UNCHANGED <<senders, driver, inbound, partials, bounds>>
  BY DEF Drain
<1>3. /\ pump \in PumpState /\ queue \in Seq(Message) /\ taken \in Seq(Message)
      /\ Len(queue) <= InboxCapacity /\ partials \subseteq Partial /\ Len(queue) \in Nat
  BY DEF IInv, TypeOK, PumpOK
<1>4. pump' \in PumpState /\ InHand' = InHand
  BY <1>2, <1>3 DEF PumpState, InHand
<1> DEFINE a == SubSeq(queue, 1, k)
           b == SubSeq(queue, k + 1, Len(queue))
<1>5. a \in Seq(Message) /\ b \in Seq(Message) /\ Len(a) = k /\ Len(b) = Len(queue) - k
      /\ (\A i \in 1 .. k : a[i] = queue[i])
      /\ (\A i \in 1 .. Len(b) : b[i] = queue[k + 1 + i - 1])
  BY <1>3, PieceOf
<1> HIDE DEF a, b
<1>6. a \o b = queue
  <2>1. 1 \in 1 .. Len(queue) + 1 /\ k \in 1 - 1 .. Len(queue) /\ Len(queue) \in k .. Len(queue)
    BY <1>3
  <2>2. a \o b = SubSeq(queue, 1, Len(queue))
    BY <1>3, <2>1, ConcatAdjacentSubSeq, Zenon DEF a, b
  <2> QED
    BY <1>3, <2>2, SubSeqFull, Zenon
<1>7. Delivered' = Delivered
  <2>1. taken' = taken \o a /\ queue' = b
    BY <1>1 DEF a, b
  <2>2. (taken \o a) \o b = taken \o (a \o b)
    <3>1. taken \in Seq(Message) /\ a \in Seq(Message) /\ b \in Seq(Message)
      BY <1>3, <1>5
    <3> QED
      BY <3>1, ConcatAssociative
  <2> QED
    BY <1>4, <1>6, <2>1, <2>2 DEF Delivered
<1>8. PumpOK'
  <2>1. queue' \in Seq(Message) /\ Len(queue') <= InboxCapacity
    BY <1>1, <1>3, <1>5, BridgeAssumption DEF b
  <2>2. taken' \in Seq(Message)
    BY <1>1, <1>3, <1>5, JoinOf DEF a
  <2> QED
    BY <1>2, <1>3, <1>4, <2>1, <2>2 DEF PumpOK
<1> QED
  BY <1>2, <1>7, <1>8, FrameMoves

(* The pump takes the head of the channel: of a chunk of q it is the first   *)
(* that q's session took and that is not through yet.                        *)
LEMMA PassOn ==
    ASSUME IInv, inbound # <<>>, inbound' = Tail(inbound), UNCHANGED <<senders, driver>>,
           NEW q \in Peer, NEW d \in from[q] .. read[q], NEW m \in from[q] .. read[q],
           OnTheWay(q, d, m)
    PROVE  /\ (Head(inbound).peer # q \/ Head(inbound).body = Screen) => OnTheWay(q, d, m)'
           /\ (Head(inbound).peer = q /\ Head(inbound).body # Screen) =>
                 /\ d < m /\ Head(inbound).body = outbox[q][d + 1] /\ OnTheWay(q, d + 1, m)'
<1> DEFINE L == Len(inbound)
<1>1. /\ L \in Nat \ {0} /\ Len(inbound') = L - 1 /\ Head(inbound) = inbound[1]
      /\ \A i \in 1 .. L - 1 : inbound'[i] = inbound[i + 1]
      /\ DOMAIN inbound = 1 .. L /\ DOMAIN inbound' = 1 .. L - 1
  <2>1. inbound \in Seq(InChannel)
    BY DEF IInv, TypeOK, DriverOK
  <2> QED
    BY <2>1, TailOf
<1>2. from' = from /\ read' = read /\ pending' = pending /\ outbox' = outbox
  BY DEF senders, driver
<1>3. /\ from[q] \in Nat /\ read[q] \in Nat /\ d \in Nat /\ m \in Nat /\ m <= read[q] /\ from[q] <= d
      /\ read[q] <= Len(outbox[q]) /\ Len(outbox[q]) \in Nat
  BY TypesOf DEF IInv
<1>4. /\ d <= m
      /\ pending[q] \in {SubSeq(outbox[q], m + 1, read[q]),
                         Append(SubSeq(outbox[q], m + 1, read[q]), Screen)}
  BY DEF OnTheWay
<1>5. /\ \A i \in ChunksOf(q) : \E n \in d + 1 .. m : inbound[i].body = outbox[q][n]
      /\ \A n \in d + 1 .. m : \E i \in ChunksOf(q) : inbound[i].body = outbox[q][n]
      /\ \A i, j \in ChunksOf(q) : i < j => Before(inbound[i].body, inbound[j].body)
  BY DEF OnTheWay
<1>6. /\ ChunksOf(q) = {i \in 1 .. L : inbound[i].peer = q /\ inbound[i].body # Screen}
      /\ ChunksOf(q)' = {i \in 1 .. L - 1 : inbound'[i].peer = q /\ inbound'[i].body # Screen}
  BY <1>1 DEF ChunksOf
<1>7. ASSUME NEW i \in ChunksOf(q)'
      PROVE  i \in Nat /\ i + 1 \in ChunksOf(q) /\ inbound'[i] = inbound[i + 1]
  BY <1>1, <1>6
<1>8. ASSUME NEW i \in ChunksOf(q), i # 1
      PROVE  i - 1 \in ChunksOf(q)' /\ inbound'[i - 1] = inbound[i]
  <2>1. i - 1 \in 1 .. L - 1 /\ (i - 1) + 1 = i
    BY <1>1, <1>6, <1>8
  <2> QED
    BY <1>1, <1>6, <2>1
<1>9. ASSUME NEW i \in ChunksOf(q)', NEW j \in ChunksOf(q)', i < j
      PROVE  Before(inbound'[i].body, inbound'[j].body)
  <2>1. i + 1 < j + 1
    BY <1>7, <1>9
  <2> QED
    BY <1>5, <1>7, <2>1
<1>10. CASE Head(inbound).peer # q \/ Head(inbound).body = Screen
  <2>1. 1 \notin ChunksOf(q)
    BY <1>1, <1>6, <1>10
  <2>2. ASSUME NEW i \in ChunksOf(q)'
        PROVE  \E n \in d + 1 .. m : inbound'[i].body = outbox[q][n]
    BY <1>5, <1>7, Zenon
  <2>3. \A n \in d + 1 .. m : \E i \in ChunksOf(q)' : inbound'[i].body = outbox[q][n]
    <3> SUFFICES ASSUME NEW n \in d + 1 .. m
                 PROVE  \E i \in ChunksOf(q)' : inbound'[i].body = outbox[q][n]
      OBVIOUS
    <3>1. PICK i \in ChunksOf(q) : inbound[i].body = outbox[q][n]
      BY <1>5
    <3> QED
      BY <1>8, <2>1, <3>1
  <2>4. OnTheWay(q, d, m)'
    BY <1>2, <1>3, <1>4, <1>9, <2>2, <2>3, Zenon DEF OnTheWay
  <2> QED
    BY <1>10, <2>4
<1>11. CASE Head(inbound).peer = q /\ Head(inbound).body # Screen
  <2>1. 1 \in ChunksOf(q) /\ \A i \in ChunksOf(q) : i \in Nat /\ i >= 1
    BY <1>1, <1>6, <1>11
  <2>2. PICK n \in d + 1 .. m : inbound[1].body = outbox[q][n]
    BY <1>5, <2>1
  <2>3. n \in 1 .. Len(outbox[q]) /\ d + 1 \in 1 .. Len(outbox[q]) /\ d < m
    BY <1>3, <2>2
  <2>4. n = d + 1
    <3> SUFFICES ASSUME n # d + 1 PROVE FALSE
      OBVIOUS
    <3>1. d + 1 \in d + 1 .. m /\ ~(n < d + 1)
      BY <1>3, <2>2, <2>3
    <3>2. PICK i \in ChunksOf(q) : inbound[i].body = outbox[q][d + 1]
      BY <1>5, <3>1
    <3>3. d + 1 < n
      BY <1>3, <2>2, <2>3
    <3>4. Before(outbox[q][d + 1], outbox[q][n])
      BY <2>3, <3>3, ChunkOrder
    <3>5. i # 1
      <4>1. i = 1 => Before(outbox[q][n], outbox[q][n])
        BY <2>2, <3>2, <3>4
      <4>2. Before(outbox[q][n], outbox[q][n]) => n < n
        BY <2>3, ChunkOrder
      <4> QED
        BY <2>3, <4>1, <4>2
    <3>6. Before(outbox[q][n], outbox[q][d + 1])
      <4>1. 1 < i
        BY <2>1, <3>5
      <4> QED
        BY <1>5, <2>1, <2>2, <3>2, <4>1
    <3> QED
      BY <2>3, <3>1, <3>6, ChunkOrder
  <2>5. Head(inbound).body = outbox[q][d + 1]
    BY <1>1, <2>2, <2>4
  <2>6. ASSUME NEW i \in ChunksOf(q)'
        PROVE  \E k \in (d + 1) + 1 .. m : inbound'[i].body = outbox[q][k]
    <3>1. i + 1 \in ChunksOf(q) /\ inbound'[i] = inbound[i + 1] /\ 1 < i + 1
      <4>1. i \in Nat /\ i >= 1
        BY <1>1, <1>6
      <4>2. 1 < i + 1
        BY <4>1
      <4> QED
        BY <1>7, <4>2, Zenon
    <3>2. PICK k \in d + 1 .. m : inbound[i + 1].body = outbox[q][k]
      BY <1>5, <3>1
    <3>3. Before(outbox[q][d + 1], outbox[q][k])
      BY <1>5, <2>1, <2>2, <2>4, <3>1, <3>2
    <3>4. k \in 1 .. Len(outbox[q])
      BY <1>3, <3>2
    <3>5. d + 1 < k
      BY <2>3, <3>3, <3>4, ChunkOrder
    <3>6. k \in (d + 1) + 1 .. m
      BY <1>3, <3>2, <3>5
    <3> QED
      BY <3>1, <3>2, <3>6
  <2>7. ASSUME NEW k \in (d + 1) + 1 .. m
        PROVE  \E i \in ChunksOf(q)' : inbound'[i].body = outbox[q][k]
    <3>1. k \in d + 1 .. m /\ d + 1 < k /\ k \in 1 .. Len(outbox[q])
      BY <1>3
    <3>2. PICK i \in ChunksOf(q) : inbound[i].body = outbox[q][k]
      BY <1>5, <3>1
    <3>3. i # 1
      <4>1. Before(outbox[q][d + 1], outbox[q][k])
        BY <2>3, <3>1, ChunkOrder
      <4>2. i = 1 => Before(outbox[q][k], outbox[q][k])
        BY <2>2, <2>4, <3>2, <4>1
      <4>3. Before(outbox[q][k], outbox[q][k]) => k < k
        BY <3>1, ChunkOrder
      <4> QED
        BY <3>1, <4>2, <4>3
    <3> QED
      BY <1>8, <3>2, <3>3
  <2>8. from'[q] <= d + 1 /\ d + 1 <= m /\ m <= read'[q]
    BY <1>2, <1>3, <2>3
  <2>9. OnTheWay(q, d + 1, m)'
    BY <1>2, <1>4, <1>9, <2>6, <2>7, <2>8, Zenon DEF OnTheWay
  <2> QED
    BY <1>11, <2>3, <2>5, <2>9
<1> QED
  BY <1>10, <1>11

(* The next chunk of a peer is new to what came through of its frame.        *)
LEMMA NextChunk ==
    ASSUME IInv, NEW q \in Peer, NEW d \in from[q] .. read[q], d < read[q]
    PROVE  LET c == outbox[q][d + 1]
           IN  /\ d + 1 \in 1 .. Len(outbox[q]) /\ d + 1 <= read[q]
               /\ c.index \in 0 .. Sizes[q][c.id] - 1
               /\ Got(q, d + 1, c.id) = Got(q, d, c.id) \cup {c.index}
               /\ \A id : id # c.id => Got(q, d + 1, id) = Got(q, d, id)
               /\ ~Whole(q, d, c.id)
               /\ \A id \in 1 .. minted[q] : Whole(q, d, id) => id < c.id
<1> DEFINE c == outbox[q][d + 1]
<1>1. /\ from[q] \in Nat /\ read[q] \in Nat /\ d \in Nat /\ from[q] <= d
      /\ read[q] <= Len(outbox[q]) /\ Len(outbox[q]) \in Nat /\ minted[q] \in Nat
  BY TypesOf DEF IInv
<1>2. /\ d + 1 \in 1 .. Len(outbox[q]) /\ d + 1 <= read[q] /\ d + 1 \in from[q] + 1 .. d + 1
      /\ \A n \in from[q] + 1 .. d + 1 : n \in 1 .. Len(outbox[q]) /\ (n = d + 1 \/ n \in from[q] + 1 .. d)
      /\ \A n \in from[q] + 1 .. d : n \in from[q] + 1 .. d + 1 /\ n < d + 1
  BY <1>1
<1>3. c.id \in 1 .. minted[q] /\ c.index \in Nat /\ Sizes[q][c.id] \in Nat \ {0} /\ c.index < Sizes[q][c.id]
  BY <1>2, ChunkOf
<1>4. c.index \in 0 .. Sizes[q][c.id] - 1
  BY <1>3
<1>5. ASSUME NEW id
      PROVE  Got(q, d + 1, id) = Got(q, d, id) \cup (IF id = c.id THEN {c.index} ELSE {})
  <2>1. ASSUME NEW i \in Got(q, d + 1, id)
        PROVE  i \in Got(q, d, id) \/ (id = c.id /\ i = c.index)
    <3>1. i \in 0 .. Sizes[q][id] - 1
      BY <2>1 DEF Got
    <3>2. PICK n \in from[q] + 1 .. d + 1 : outbox[q][n].id = id /\ outbox[q][n].index = i
      BY <2>1 DEF Got
    <3>3. CASE n = d + 1
      BY <3>2, <3>3
    <3>4. CASE n \in from[q] + 1 .. d
      BY <3>1, <3>2, <3>4 DEF Got
    <3> QED
      BY <1>2, <3>3, <3>4
  <2>2. Got(q, d, id) \subseteq Got(q, d + 1, id)
    BY <1>2 DEF Got
  <2>3. id = c.id => c.index \in Got(q, d + 1, id)
    BY <1>2, <1>4 DEF Got
  <2> QED
    BY <2>1, <2>2, <2>3
<1>6. ASSUME NEW n \in from[q] + 1 .. d
      PROVE  Before(outbox[q][n], c) /\ outbox[q][n].id \in Nat /\ outbox[q][n].index \in Nat
  <2>1. n \in 1 .. Len(outbox[q]) /\ n < d + 1
    BY <1>2
  <2> QED
    BY <1>2, <2>1, ChunkOrder, ChunkOf
<1>7. c.index \notin Got(q, d, c.id)
  <2> SUFFICES ASSUME c.index \in Got(q, d, c.id) PROVE FALSE
    OBVIOUS
  <2>1. PICK n \in from[q] + 1 .. d : outbox[q][n].id = c.id /\ outbox[q][n].index = c.index
    BY DEF Got
  <2> QED
    BY <1>3, <1>6, <2>1 DEF Before
<1>8. ~Whole(q, d, c.id)
  BY <1>4, <1>7 DEF Whole
<1>9. ASSUME NEW id \in 1 .. minted[q], Whole(q, d, id)
      PROVE  id < c.id
  <2>1. Sizes[q][id] \in Nat \ {0}
    BY SizeOf
  <2>2. 0 \in Got(q, d, id)
    BY <1>9, <2>1 DEF Whole
  <2>3. PICK n \in from[q] + 1 .. d : outbox[q][n].id = id
    BY <2>2 DEF Got
  <2>4. id <= c.id
    BY <1>3, <1>6, <2>3 DEF Before
  <2>5. id # c.id
    BY <1>8, <1>9
  <2> QED
    BY <1>3, <2>4, <2>5
<1>10. Got(q, d + 1, c.id) = Got(q, d, c.id) \cup {c.index}
  BY <1>5
<1>11. \A id : id # c.id => Got(q, d + 1, id) = Got(q, d, id)
  BY <1>5
<1> QED
  BY <1>2, <1>4, <1>8, <1>9, <1>10, <1>11

(* What came of a frame, as the partial of it keeps it. *)
Came(p, d, id) == [i \in 1 .. Sizes[p][id] |-> IF i - 1 \in Got(p, d, id) THEN id ELSE 0]

(* A chunk is never refused, and the partial it finds or opens holds what    *)
(* came of its frame before.                                                 *)
LEMMA OwnPartial ==
    ASSUME IInv, NEW p \in Peer, NEW d \in from[p] .. read[p], d < read[p], Parts(p, d)
    PROVE  LET c == outbox[p][d + 1]
           IN  /\ Own(p, c) = {} => Got(p, d, c.id) = {} /\ ~Refused(p, c)
               /\ Own(p, c) # {} => \E x \in partials :
                     /\ Own(p, c) = {x} /\ x.peer = p /\ x.id = c.id
                     /\ x.chunks = Came(p, d, c.id)
                     /\ partials \ {x} = {z \in partials : z.peer # p}
<1> DEFINE c == outbox[p][d + 1]
<1>1. /\ from[p] \in Nat /\ read[p] \in Nat /\ d \in Nat /\ from[p] <= d
      /\ read[p] <= Len(outbox[p]) /\ Len(outbox[p]) \in Nat
  BY TypesOf DEF IInv
<1>2. d + 1 \in 1 .. Len(outbox[p]) /\ (d > from[p] => d \in 1 .. Len(outbox[p]) /\ d < d + 1)
  BY <1>1
<1>3. /\ \A x \in partials : x.peer = p =>
             /\ d > from[p] /\ x.id = outbox[p][d].id /\ ~Whole(p, d, x.id)
             /\ x.chunks = Came(p, d, x.id)
      /\ d > from[p] /\ ~Whole(p, d, outbox[p][d].id) => \E x \in partials : x.peer = p
      /\ \A x, y \in partials : x.peer = p /\ y.peer = p => x = y
  BY DEF Parts, Came
<1>4. c.id \in Nat /\ c.index \in Nat /\ (c.index > 0 => outbox[p][d].id = c.id /\ d + 1 > 1)
  <2>1. (d + 1) - 1 = d
    BY <1>1
  <2> QED
    BY <1>2, <2>1, ChunkOf
<1>5. ASSUME Own(p, c) = {}
      PROVE  Got(p, d, c.id) = {} /\ ~Refused(p, c)
  <2>1. CASE ~(d > from[p])
    <3>1. from[p] + 1 .. d = {}
      BY <1>1, <2>1
    <3>2. Got(p, d, c.id) = {}
      BY <3>1 DEF Got
    <3>3. ~Refused(p, c)
      BY <1>3, <2>1 DEF Refused
    <3> QED
      BY <3>2, <3>3
  <2>2. CASE d > from[p]
    <3>1. outbox[p][d].id # c.id
      <4> SUFFICES ASSUME outbox[p][d].id = c.id PROVE FALSE
        OBVIOUS
      <4>1. ~Whole(p, d, outbox[p][d].id)
        BY NextChunk
      <4>2. PICK x \in partials : x.peer = p
        BY <1>3, <2>2, <4>1
      <4>3. x.id = c.id
        BY <1>3, <4>2
      <4> QED
        BY <1>5, <4>2, <4>3 DEF Own
    <3>2. ~(c.index > 0)
      BY <1>4, <3>1
    <3>3. ~Refused(p, c)
      BY <1>4, <3>2 DEF Refused
    <3>4. Got(p, d, c.id) = {}
      <4> SUFFICES ASSUME NEW n \in from[p] + 1 .. d, outbox[p][n].id = c.id PROVE FALSE
        BY DEF Got
      <4>1. n \in 1 .. Len(outbox[p]) /\ (n = d \/ n < d)
        BY <1>1
      <4>2. n # d
        BY <3>1
      <4>3. Before(outbox[p][n], outbox[p][d])
        BY <1>2, <2>2, <4>1, <4>2, ChunkOrder
      <4>4. Before(outbox[p][d], c)
        BY <1>2, <2>2, ChunkOrder
      <4>5. outbox[p][d].id \in Nat /\ outbox[p][n].id \in Nat
        BY <1>2, <2>2, <4>1, ChunkOf
      <4> QED
        BY <1>4, <3>1, <4>3, <4>4, <4>5 DEF Before
    <3> QED
      BY <3>3, <3>4
  <2> QED
    BY <2>1, <2>2
<1>6. ASSUME Own(p, c) # {}
      PROVE  \E x \in partials :
                /\ Own(p, c) = {x} /\ x.peer = p /\ x.id = c.id /\ x.chunks = Came(p, d, c.id)
                /\ partials \ {x} = {z \in partials : z.peer # p}
  <2>1. PICK x \in partials : x.peer = p /\ x.id = c.id
    BY <1>6 DEF Own
  <2>2. \A z \in partials : z.peer = p => z = x
    BY <1>3, <2>1
  <2>3. Own(p, c) = {x} /\ partials \ {x} = {z \in partials : z.peer # p}
    BY <2>1, <2>2 DEF Own
  <2>4. x.chunks = Came(p, d, c.id)
    BY <1>3, <2>1
  <2> QED
    BY <2>1, <2>3, <2>4
<1> QED
  BY <1>5, <1>6

(* What `reassemble` does with the next chunk: the frame comes out with its  *)
(* last chunk, and until then the peer has one partial, of that frame.       *)
LEMMA Reassembled ==
    ASSUME IInv, NEW p \in Peer, NEW d \in from[p] .. read[p], d < read[p], Parts(p, d)
    PROVE  LET c      == outbox[p][d + 1]
               r      == Reassemble(p, c)
               others == {z \in partials : z.peer # p}
           IN  /\ Whole(p, d + 1, c.id) =>
                     r.left = others /\ r.frame = {FrameOf(p, c.id)}
               /\ ~Whole(p, d + 1, c.id) => \E y \in Partial :
                     /\ y.peer = p /\ y.id = c.id /\ y.chunks = Came(p, d + 1, c.id)
                     /\ r.left = others \cup {y} /\ r.frame = {}
<1> DEFINE c      == outbox[p][d + 1]
           r      == Reassemble(p, c)
           others == {z \in partials : z.peer # p}
           size   == Sizes[p][c.id]
           own    == Own(p, c)
           x      == IF own = {} THEN Opened(p, c) ELSE CHOOSE z \in own : TRUE
           y      == Filled(x, c)
           rest   == IF own = {} THEN others ELSE partials \ {x}
<1>1. /\ c \in Chunk /\ c.id \in 1 .. minted[p] /\ c.count = size /\ size \in Nat \ {0}
      /\ c.index \in 0 .. size - 1
  BY NextChunk, ChunkOf
<1>2. c.id \in Nat \ {0} /\ c.epoch \in Nat \ {0} /\ c.index \in Nat
  BY <1>1 DEF Chunk
<1> HIDE DEF x, rest, own
<1>3. /\ x.peer = p /\ x.id = c.id /\ x.chunks = Came(p, d, c.id) /\ x \in Partial
      /\ rest = others /\ ~(own = {} /\ Refused(p, c))
  <2>1. CASE own = {}
    <3>1. x = [peer |-> p, id |-> c.id, epoch |-> c.epoch, chunks |-> [i \in 1 .. size |-> 0]]
      BY <1>1, <2>1 DEF Opened, x
    <3>2. Got(p, d, c.id) = {} /\ ~Refused(p, c)
      BY <2>1, OwnPartial DEF own
    <3>3. Came(p, d, c.id) = [i \in 1 .. size |-> 0]
      BY <3>2 DEF Came
    <3>4. [i \in 1 .. size |-> 0] \in Frame
      BY <1>1 DEF Frame
    <3>5. x \in Partial
      BY <1>2, <3>1, <3>4 DEF Partial
    <3> QED
      BY <2>1, <3>1, <3>2, <3>3, <3>5 DEF rest
  <2>2. CASE own # {}
    <3>1. PICK z \in partials :
             /\ own = {z} /\ z.peer = p /\ z.id = c.id /\ z.chunks = Came(p, d, c.id)
             /\ partials \ {z} = others
      BY <2>2, OwnPartial DEF own
    <3>2. x = z /\ rest = partials \ {z}
      BY <3>1 DEF x, rest
    <3>3. z \in Partial
      BY DEF IInv, TypeOK, PumpOK
    <3> QED
      BY <2>2, <3>1, <3>2, <3>3
  <2> QED
    BY <2>1, <2>2
<1>4. x = [peer |-> p, id |-> c.id, epoch |-> x.epoch, chunks |-> Came(p, d, c.id)] /\ x.epoch \in Nat \ {0}
  BY <1>3 DEF Partial
<1>5. y = [peer |-> p, id |-> c.id, epoch |-> x.epoch, chunks |-> Came(p, d + 1, c.id)]
  <2>1. [Came(p, d, c.id) EXCEPT ![c.index + 1] = c.id] = Came(p, d + 1, c.id)
    <3>1. Got(p, d + 1, c.id) = Got(p, d, c.id) \cup {c.index}
      BY NextChunk
    <3>2. \A i \in 1 .. size : i - 1 = c.index <=> i = c.index + 1
      BY <1>1
    <3> QED
      BY <3>1, <3>2 DEF Came
  <2>2. y = [x EXCEPT !.chunks = [@ EXCEPT ![c.index + 1] = c.id]]
    BY DEF Filled
  <2> QED
    BY <1>4, <2>1, <2>2
<1>6. Came(p, d + 1, c.id) \in Frame /\ DOMAIN Came(p, d + 1, c.id) = 1 .. size
  BY <1>1, <1>2 DEF Came, Frame
<1>7. y \in Partial
  BY <1>2, <1>4, <1>5, <1>6 DEF Partial
<1>8. Len(x.chunks) = c.count
  BY <1>1, <1>3 DEF Came
<1>9. Complete(y) <=> Whole(p, d + 1, c.id)
  <2>1. Complete(y) <=> \A i \in 1 .. size : i - 1 \in Got(p, d + 1, c.id)
    <3>1. y.chunks = Came(p, d + 1, c.id)
      BY <1>5
    <3>2. \A i \in 1 .. size : Came(p, d + 1, c.id)[i] # 0 <=> i - 1 \in Got(p, d + 1, c.id)
      BY <1>2 DEF Came
    <3> HIDE DEF y
    <3> QED
      BY <1>6, <3>1, <3>2 DEF Complete
  <2>2. Got(p, d + 1, c.id) \subseteq 0 .. size - 1
    BY DEF Got
  <2>3. \A i \in 0 .. size - 1 : i + 1 \in 1 .. size /\ (i + 1) - 1 = i
    BY <1>1
  <2>4. \A i \in 1 .. size : i - 1 \in 0 .. size - 1
    BY <1>1
  <2> QED
    BY <2>1, <2>2, <2>3, <2>4 DEF Whole
<1>10. r = IF Complete(y) THEN [left |-> rest, frame |-> {y.chunks}]
           ELSE [left |-> rest \cup {y}, frame |-> {}]
  BY <1>3, <1>8 DEF Reassemble, x, rest, own
<1>11. CASE Whole(p, d + 1, c.id)
  <2>1. Came(p, d + 1, c.id) = FrameOf(p, c.id)
    <3>1. \A i \in 1 .. size : i - 1 \in Got(p, d + 1, c.id)
      BY <1>1, <1>11 DEF Whole
    <3> QED
      BY <3>1 DEF Came, FrameOf
  <2> QED
    BY <1>3, <1>5, <1>9, <1>10, <1>11, <2>1
<1>12. CASE ~Whole(p, d + 1, c.id)
  BY <1>3, <1>5, <1>7, <1>9, <1>10, <1>12
<1> QED
  BY <1>11, <1>12

(* A frame the pump has put together is the newest of all. *)
LEMMA FrameAdded ==
    ASSUME PumpOK, PumpOK', pump.pc = "recv", pump'.pc = "offer", UNCHANGED <<queue, taken>>
    PROVE  LET n == Len(Delivered)
           IN  /\ n \in Nat
               /\ \A k \in 1 .. n : Delivered'[k] = Delivered[k]
               /\ Delivered'[n + 1] = [peer |-> pump'.peer, frame |-> pump'.frame]
               /\ \A q : FramesOf(q) \subseteq 1 .. n
               /\ \A q : FramesOf(q)' = FramesOf(q) \cup
                            (IF q = pump'.peer /\ pump'.frame # <<0>> THEN {n + 1} ELSE {})
<1> DEFINE n == Len(Delivered)
           z == [peer |-> pump'.peer, frame |-> pump'.frame]
<1>1. Delivered \in Seq(Message) /\ DOMAIN Delivered = 1 .. n /\ n \in Nat
  BY DeliveredOf
<1>2. z \in Message
  BY DEF PumpOK, PumpState, Message
<1>3. Delivered = taken \o queue /\ Delivered' = (taken \o queue) \o <<z>>
  <2>1. InHand = <<>> /\ InHand' = <<z>>
    BY DEF InHand
  <2>2. taken \in Seq(Message) /\ queue \in Seq(Message)
    BY DEF PumpOK
  <2>3. (taken \o queue) \o <<>> = taken \o queue
    BY <2>2
  <2> QED
    BY <2>1, <2>3 DEF Delivered
<1>4. /\ Len(Delivered') = n + 1 /\ DOMAIN Delivered' = 1 .. n + 1
      /\ \A k \in 1 .. n : Delivered'[k] = Delivered[k]
      /\ Delivered'[n + 1] = z
  <2>1. <<z>> \in Seq(Message) /\ Len(<<z>>) = 1 /\ <<z>>[1] = z
    BY <1>2
  <2>2. Delivered' = Delivered \o <<z>>
    BY <1>3
  <2> QED
    BY <1>1, <2>1, <2>2, JoinOf
<1>5. ASSUME NEW q
      PROVE  /\ FramesOf(q) \subseteq 1 .. n
             /\ FramesOf(q)' = FramesOf(q) \cup
                   (IF q = pump'.peer /\ pump'.frame # <<0>> THEN {n + 1} ELSE {})
  <2>1. FramesOf(q) = {k \in 1 .. n : Delivered[k].peer = q /\ Delivered[k].frame # <<0>>}
    BY <1>1 DEF FramesOf
  <2>2. FramesOf(q)' = {k \in 1 .. n + 1 : Delivered'[k].peer = q /\ Delivered'[k].frame # <<0>>}
    BY <1>1, <1>4 DEF FramesOf
  <2>3. \A k \in 1 .. n + 1 : k \in 1 .. n \/ k = n + 1
    BY <1>1
  <2>4. n + 1 \in 1 .. n + 1 /\ 1 .. n \subseteq 1 .. n + 1 /\ n + 1 \notin 1 .. n
    BY <1>1
  <2> HIDE DEF n
  <2>5. \A k : k \in FramesOf(q)' <=> k \in FramesOf(q) \/ (k = n + 1 /\ z.peer = q /\ z.frame # <<0>>)
    BY <1>4, <2>1, <2>2, <2>3, <2>4
  <2> QED
    BY <2>1, <2>5
<1> QED
  BY <1>1, <1>4, <1>5

LEMMA PartsStay ==
    ASSUME UNCHANGED <<senders, driver>>, NEW q, NEW d, Parts(q, d),
           \A z : (z \in partials' /\ z.peer = q) <=> (z \in partials /\ z.peer = q)
    PROVE  Parts(q, d)'
<1>1. from' = from /\ outbox' = outbox
  BY DEF senders, driver
<1>2. \A id : Got(q, d, id)' = Got(q, d, id)
  BY <1>1 DEF Got
<1>3. \A x \in partials' : x.peer = q => x \in partials
  OBVIOUS
<1>4. (\E x \in partials : x.peer = q) => \E x \in partials' : x.peer = q
  OBVIOUS
<1> QED
  BY <1>1, <1>2, <1>3, <1>4 DEF Parts, Whole

LEMMA HandedStay ==
    ASSUME UNCHANGED <<senders, driver>>, NEW q, NEW d, HandedOn(q, d), FramesOf(q)' = FramesOf(q),
           \A k \in FramesOf(q) : Delivered'[k] = Delivered[k]
    PROVE  HandedOn(q, d)'
<1>1. from' = from /\ outbox' = outbox /\ minted' = minted
  BY DEF senders, driver
<1>2. \A id : Whole(q, d, id)' = Whole(q, d, id)
  BY <1>1 DEF Whole, Got
<1> QED
  BY <1>1, <1>2 DEF HandedOn, FrameOf

(* What remains to be shown of a step of the pump that takes a chunk. *)
LEMMA RecvStep ==
    ASSUME IInv, Recv, PumpOK', InOrderOnce',
           \A q \in Peer : \E d, m \in from[q] .. read[q] :
              OnTheWay(q, d, m)' /\ Parts(q, d)' /\ HandedOn(q, d)'
    PROVE  IInv'
<1>1. inbound # <<>> /\ inbound' = Tail(inbound) /\ UNCHANGED <<senders, driver, bounds>>
  BY DEF Recv
<1>2. TypeOK'
  <2>1. inbound' \in Seq(InChannel) /\ Len(inbound') <= InboundCapacity
    <3>1. inbound \in Seq(InChannel) /\ Len(inbound) <= InboundCapacity
      BY DEF IInv, TypeOK, DriverOK
    <3> QED
      BY <1>1, <3>1, TailOf, BridgeAssumption
  <2>2. DriverOK'
    BY <1>1, <2>1 DEF IInv, TypeOK, DriverOK, senders, driver
  <2>3. SendersOK' /\ restarts' \in Nat /\ screens' \in Nat
    BY <1>1 DEF IInv, TypeOK, SendersOK, senders, bounds
  <2> QED
    BY <2>2, <2>3 DEF TypeOK
<1>3. ASSUME NEW q \in Peer
      PROVE  Queued(q)' /\ HalfWay(q)'
  BY <1>1 DEF IInv, Queued, HalfWay, senders
<1>4. from' = from /\ read' = read
  BY <1>1 DEF driver
<1> QED
  BY <1>2, <1>3, <1>4 DEF IInv

(* A screen is a frame of its own, which no property but the order of the    *)
(* queue is about.                                                           *)
LEMMA RecvScreenKeeps ==
    ASSUME IInv, Recv, Head(inbound).body = Screen
    PROVE  IInv'
<1>1. /\ pump.pc = "recv" /\ inbound # <<>> /\ inbound' = Tail(inbound)
      /\ UNCHANGED <<senders, driver, queue, taken, bounds>>
  BY DEF Recv
<1>2. /\ partials' = partials
      /\ pump' = [pc |-> "offer", peer |-> Head(inbound).peer, frame |-> <<0>>, space |-> FALSE]
  BY DEF Recv
<1>3. PumpOK'
  <2>1. Head(inbound) \in InChannel
    <3>1. inbound \in Seq(InChannel)
      BY DEF IInv, TypeOK, DriverOK
    <3> QED
      BY <1>1, <3>1, TailOf
  <2>2. <<0>> \in Frame
    BY DEF Frame
  <2>3. pump' \in PumpState
    BY <1>2, <2>1, <2>2 DEF PumpState, InChannel
  <2> QED
    BY <1>1, <1>2, <2>3 DEF IInv, TypeOK, PumpOK
<1>4. /\ \A k \in 1 .. Len(Delivered) : Delivered'[k] = Delivered[k]
      /\ \A q : FramesOf(q) \subseteq 1 .. Len(Delivered)
      /\ \A q : FramesOf(q)' = FramesOf(q)
  BY <1>1, <1>2, <1>3, FrameAdded DEF IInv, TypeOK
<1>5. InOrderOnce'
  BY <1>4 DEF IInv, InOrderOnce
<1>6. ASSUME NEW q \in Peer
      PROVE  \E d, m \in from[q] .. read[q] : OnTheWay(q, d, m)' /\ Parts(q, d)' /\ HandedOn(q, d)'
  <2>1. PICK d \in from[q] .. read[q], m \in from[q] .. read[q] :
           OnTheWay(q, d, m) /\ Parts(q, d) /\ HandedOn(q, d)
    BY DEF IInv
  <2>2. OnTheWay(q, d, m)'
    BY <1>1, <2>1, PassOn
  <2>3. Parts(q, d)'
    BY <1>1, <1>2, <2>1, PartsStay
  <2>4. HandedOn(q, d)'
    BY <1>1, <1>4, <2>1, HandedStay
  <2> QED
    BY <2>1, <2>2, <2>3, <2>4
<1> QED
  BY <1>3, <1>5, <1>6, RecvStep

(* A chunk that leaves its frame in pieces: nothing is handed on. *)
LEMMA RecvPartKeeps ==
    ASSUME IInv, Recv, NEW p \in Peer, Head(inbound).peer = p, Head(inbound).body # Screen,
           NEW d \in from[p] .. read[p], NEW m \in from[p] .. read[p],
           OnTheWay(p, d, m), Parts(p, d), HandedOn(p, d),
           ~Whole(p, d + 1, outbox[p][d + 1].id)
    PROVE  IInv'
<1> DEFINE c      == outbox[p][d + 1]
           others == {z \in partials : z.peer # p}
<1>1. /\ pump.pc = "recv" /\ inbound # <<>> /\ inbound' = Tail(inbound)
      /\ UNCHANGED <<senders, driver, queue, taken, bounds>>
  BY DEF Recv
<1>2. from' = from /\ outbox' = outbox /\ minted' = minted /\ read' = read
  BY <1>1 DEF senders, driver
<1>3. d < m /\ Head(inbound).body = c /\ OnTheWay(p, d + 1, m)'
  BY <1>1, PassOn
<1>4. d < read[p] /\ from[p] \in Nat /\ d \in Nat /\ d + 1 \in from[p] .. read[p] /\ d + 1 > from[p]
  BY <1>3, TypesOf DEF IInv
<1>5. PICK y \in Partial :
         /\ y.peer = p /\ y.id = c.id /\ y.chunks = Came(p, d + 1, c.id)
         /\ Reassemble(p, c).left = others \cup {y} /\ Reassemble(p, c).frame = {}
  BY <1>4, Reassembled
<1>6. partials' = others \cup {y} /\ pump' = pump
  BY <1>3, <1>5 DEF Recv
<1>7. PumpOK'
  BY <1>1, <1>5, <1>6 DEF IInv, TypeOK, PumpOK
<1>8. Delivered' = Delivered /\ \A q : FramesOf(q)' = FramesOf(q)
  BY <1>1, <1>6 DEF Delivered, InHand, FramesOf
<1>9. InOrderOnce'
  BY <1>8 DEF IInv, InOrderOnce
<1>10. \A id : Got(p, d + 1, id)' = Got(p, d + 1, id)
  BY <1>2 DEF Got
<1>11. Parts(p, d + 1)'
  <2>1. \A x \in partials' : x.peer = p => x = y
    BY <1>6
  <2>2. y \in partials'
    BY <1>6
  <2> QED
    <3>1. y.id = outbox'[p][d + 1].id /\ d + 1 > from'[p] /\ y.peer = p
      BY <1>2, <1>4, <1>5
    <3>2. ~Whole(p, d + 1, y.id)'
      BY <1>5, <1>10 DEF Whole
    <3>3. y.chunks = [i \in 1 .. Sizes[p][y.id] |-> IF i - 1 \in Got(p, d + 1, y.id)' THEN y.id ELSE 0]
      BY <1>5, <1>10 DEF Came
    <3> QED
      BY <2>1, <2>2, <3>1, <3>2, <3>3 DEF Parts
<1>12. HandedOn(p, d + 1)'
  <2>1. ASSUME NEW id \in 1 .. minted[p]
        PROVE  Whole(p, d + 1, id)' <=> Whole(p, d, id)
    <3>1. CASE id = c.id
      BY <1>4, <1>10, <3>1, NextChunk DEF Whole
    <3>2. CASE id # c.id
      <4>1. Got(p, d + 1, id) = Got(p, d, id)
        BY <1>4, <3>2, NextChunk
      <4> QED
        BY <1>10, <4>1 DEF Whole
    <3> QED
      BY <3>1, <3>2
  <2> QED
    BY <1>2, <1>8, <2>1 DEF HandedOn, FrameOf
<1>13. ASSUME NEW q \in Peer
       PROVE  \E e, l \in from[q] .. read[q] : OnTheWay(q, e, l)' /\ Parts(q, e)' /\ HandedOn(q, e)'
  <2>1. CASE q = p
    BY <1>3, <1>4, <1>11, <1>12, <2>1
  <2>2. CASE q # p
    <3>1. PICK e \in from[q] .. read[q], l \in from[q] .. read[q] :
             OnTheWay(q, e, l) /\ Parts(q, e) /\ HandedOn(q, e)
      BY DEF IInv
    <3>2. OnTheWay(q, e, l)'
      BY <1>1, <2>2, <3>1, PassOn
    <3>3. Parts(q, e)'
      BY <1>1, <1>5, <1>6, <2>2, <3>1, PartsStay
    <3>4. HandedOn(q, e)'
      BY <1>1, <1>8, <3>1, HandedStay
    <3> QED
      BY <3>1, <3>2, <3>3, <3>4
  <2> QED
    BY <2>1, <2>2
<1> QED
  BY <1>7, <1>9, <1>13, RecvStep

(* The last chunk of a frame: the frame is in hand, after every other of its *)
(* peer, and nothing is left of it in the table.                             *)
LEMMA RecvLastKeeps ==
    ASSUME IInv, Recv, NEW p \in Peer, Head(inbound).peer = p, Head(inbound).body # Screen,
           NEW d \in from[p] .. read[p], NEW m \in from[p] .. read[p],
           OnTheWay(p, d, m), Parts(p, d), HandedOn(p, d),
           Whole(p, d + 1, outbox[p][d + 1].id)
    PROVE  IInv'
<1> DEFINE c      == outbox[p][d + 1]
           others == {z \in partials : z.peer # p}
           n      == Len(Delivered)
<1>1. /\ pump.pc = "recv" /\ inbound # <<>> /\ inbound' = Tail(inbound)
      /\ UNCHANGED <<senders, driver, queue, taken, bounds>>
  BY DEF Recv
<1>2. from' = from /\ outbox' = outbox /\ minted' = minted /\ read' = read
  BY <1>1 DEF senders, driver
<1>3. d < m /\ Head(inbound).body = c /\ OnTheWay(p, d + 1, m)'
  BY <1>1, PassOn
<1>4. d < read[p] /\ from[p] \in Nat /\ d \in Nat /\ d + 1 \in from[p] .. read[p] /\ d + 1 > from[p]
  BY <1>3, TypesOf DEF IInv
<1>5. Reassemble(p, c).left = others /\ Reassemble(p, c).frame = {FrameOf(p, c.id)}
  BY <1>4, Reassembled
<1>6. /\ partials' = others
      /\ pump' = [pc |-> "offer", peer |-> p, frame |-> FrameOf(p, c.id), space |-> FALSE]
  BY <1>3, <1>5 DEF Recv
<1>7. c.id \in 1 .. minted[p] /\ Sizes[p][c.id] \in Nat \ {0} /\ c.id \in Nat \ {0} /\ minted[p] \in Nat
  <2>1. d + 1 \in 1 .. Len(outbox[p])
    BY <1>4, NextChunk
  <2> QED
    BY <2>1, ChunkOf, TypesOf DEF IInv, Chunk
<1>8. /\ FrameOf(p, c.id) \in Frame /\ FrameOf(p, c.id)[1] = c.id /\ FrameOf(p, c.id) # <<0>>
  <2>1. FrameOf(p, c.id) \in Frame /\ FrameOf(p, c.id)[1] = c.id
    BY <1>7 DEF FrameOf, Frame
  <2> QED
    BY <1>7, <2>1
<1>9. PumpOK'
  <2>1. pump' \in PumpState
    BY <1>6, <1>8 DEF PumpState
  <2> QED
    BY <1>1, <1>6, <2>1 DEF IInv, TypeOK, PumpOK
<1>10. /\ n \in Nat
       /\ \A k \in 1 .. n : Delivered'[k] = Delivered[k]
       /\ Delivered'[n + 1] = [peer |-> p, frame |-> FrameOf(p, c.id)]
       /\ \A q : FramesOf(q) \subseteq 1 .. n
       /\ \A q : FramesOf(q)' = FramesOf(q) \cup (IF q = p THEN {n + 1} ELSE {})
  BY <1>1, <1>6, <1>8, <1>9, FrameAdded DEF IInv, TypeOK
<1>11. ASSUME NEW j \in FramesOf(p)
       PROVE  Delivered'[j].frame[1] < c.id
  <2>1. PICK id \in 1 .. minted[p] : Whole(p, d, id) /\ Delivered[j].frame = FrameOf(p, id)
    BY DEF HandedOn
  <2>2. id < c.id /\ FrameOf(p, id)[1] = id
    BY <1>4, <2>1, NextChunk, SizeOf DEF FrameOf
  <2> QED
    BY <1>10, <2>1, <2>2
<1>12. InOrderOnce'
  <2> SUFFICES ASSUME NEW q \in Peer, NEW j \in FramesOf(q)', NEW k \in FramesOf(q)', j < k
               PROVE  Delivered'[j].frame[1] < Delivered'[k].frame[1]
    BY DEF InOrderOnce
  <2>1. j \in FramesOf(q)
    BY <1>10
  <2>2. CASE k \in FramesOf(q)
    BY <1>10, <2>1, <2>2 DEF IInv, InOrderOnce
  <2>3. CASE q = p /\ k = n + 1
    BY <1>8, <1>10, <1>11, <2>1, <2>3
  <2> QED
    BY <1>10, <2>2, <2>3
<1>13. \A id : Got(p, d + 1, id)' = Got(p, d + 1, id)
  BY <1>2 DEF Got
<1>14. Parts(p, d + 1)'
  <2>1. \A x \in partials' : x.peer # p
    BY <1>6
  <2>2. Whole(p, d + 1, c.id)'
    <3>1. outbox'[p][d + 1].id = c.id
      BY <1>2
    <3> QED
      BY <1>13, <3>1 DEF Whole
  <2> QED
    BY <1>2, <2>1, <2>2 DEF Parts
<1>15. HandedOn(p, d + 1)'
  <2>1. ASSUME NEW id \in 1 .. minted[p]
        PROVE  Whole(p, d + 1, id)' <=> (id = c.id \/ Whole(p, d, id))
    <3>1. CASE id = c.id
      BY <1>13, <3>1 DEF Whole
    <3>2. CASE id # c.id
      <4>1. Got(p, d + 1, id) = Got(p, d, id)
        BY <1>4, <3>2, NextChunk
      <4> QED
        BY <1>13, <3>2, <4>1 DEF Whole
    <3> QED
      BY <3>1, <3>2
  <2>2. ASSUME NEW k \in FramesOf(p)'
        PROVE  \E id \in 1 .. minted[p] : Whole(p, d + 1, id)' /\ Delivered'[k].frame = FrameOf(p, id)
    <3>1. CASE k \in FramesOf(p)
      <4>1. PICK id \in 1 .. minted[p] : Whole(p, d, id) /\ Delivered[k].frame = FrameOf(p, id)
        BY <3>1 DEF HandedOn
      <4> QED
        BY <1>10, <2>1, <3>1, <4>1
    <3>2. CASE k = n + 1
      BY <1>7, <1>10, <2>1, <3>2
    <3> QED
      BY <1>10, <3>1, <3>2
  <2>3. ASSUME NEW id \in 1 .. minted[p], Whole(p, d + 1, id)'
        PROVE  \E k \in FramesOf(p)' : Delivered'[k].frame = FrameOf(p, id)
    <3>1. CASE id = c.id
      BY <1>10, <3>1
    <3>2. CASE Whole(p, d, id)
      <4>1. PICK k \in FramesOf(p) : Delivered[k].frame = FrameOf(p, id)
        BY <3>2 DEF HandedOn
      <4> QED
        BY <1>10, <4>1
    <3> QED
      BY <2>1, <2>3, <3>1, <3>2
  <2> QED
    BY <1>2, <2>2, <2>3 DEF HandedOn, FrameOf
<1>16. ASSUME NEW q \in Peer
       PROVE  \E e, l \in from[q] .. read[q] : OnTheWay(q, e, l)' /\ Parts(q, e)' /\ HandedOn(q, e)'
  <2>1. CASE q = p
    BY <1>3, <1>4, <1>14, <1>15, <2>1
  <2>2. CASE q # p
    <3>1. PICK e \in from[q] .. read[q], l \in from[q] .. read[q] :
             OnTheWay(q, e, l) /\ Parts(q, e) /\ HandedOn(q, e)
      BY DEF IInv
    <3>2. OnTheWay(q, e, l)'
      BY <1>1, <2>2, <3>1, PassOn
    <3>3. Parts(q, e)'
      BY <1>1, <1>6, <2>2, <3>1, PartsStay
    <3>4. HandedOn(q, e)'
      BY <1>1, <1>10, <2>2, <3>1, HandedStay
    <3> QED
      BY <3>1, <3>2, <3>3, <3>4
  <2> QED
    BY <2>1, <2>2
<1> QED
  BY <1>9, <1>12, <1>16, RecvStep

LEMMA RecvKeeps ==
    ASSUME IInv, Recv
    PROVE  IInv'
<1>1. CASE Head(inbound).body = Screen
  BY <1>1, RecvScreenKeeps
<1>2. CASE Head(inbound).body # Screen
  <2>1. Head(inbound).peer \in Peer
    <3>1. inbound \in Seq(InChannel) /\ inbound # <<>>
      BY DEF IInv, TypeOK, DriverOK, Recv
    <3>2. Head(inbound) \in InChannel
      BY <3>1, TailOf
    <3> QED
      BY <3>2 DEF InChannel
  <2> DEFINE p == Head(inbound).peer
  <2>2. PICK d \in from[p] .. read[p], m \in from[p] .. read[p] :
           OnTheWay(p, d, m) /\ Parts(p, d) /\ HandedOn(p, d)
    BY <2>1 DEF IInv
  <2>3. CASE Whole(p, d + 1, outbox[p][d + 1].id)
    BY <1>2, <2>1, <2>2, <2>3, RecvLastKeeps
  <2>4. CASE ~Whole(p, d + 1, outbox[p][d + 1].id)
    BY <1>2, <2>1, <2>2, <2>4, RecvPartKeeps
  <2> QED
    BY <2>3, <2>4
<1> QED
  BY <1>1, <1>2

-----------------------------------------------------------------------------
(* A new receiver, and the whole. *)

(* A receiver that has taken nothing: what it may still get begins where it  *)
(* does.                                                                     *)
Fresh ==
    /\ SendersOK /\ restarts \in Nat /\ screens \in Nat
    /\ from \in [Peer -> Nat] /\ \A p \in Peer : read[p] <= Len(outbox[p])
    /\ \A p \in Peer : Queued(p) /\ HalfWay(p)
    /\ from = read
    /\ pending = [p \in Peer |-> <<>>] /\ cursor = 0 /\ inbound = <<>>
    /\ partials = {} /\ pump = Waiting /\ queue = <<>> /\ taken = <<>>

LEMMA FreshHolds == Fresh => IInv
<1> SUFFICES ASSUME Fresh PROVE IInv
  OBVIOUS
<1>0. /\ SendersOK /\ restarts \in Nat /\ screens \in Nat
      /\ from \in [Peer -> Nat] /\ \A p \in Peer : read[p] <= Len(outbox[p])
      /\ \A p \in Peer : Queued(p) /\ HalfWay(p)
  BY DEF Fresh
<1>1. 0 \in Peer /\ 0 \in Nat
  BY BridgeAssumption DEF Peer
<1>2. TypeOK
  <2>1. DriverOK
    <3>1. pending \in [Peer -> Seq(Body)]
      BY DEF Fresh
    <3>2. inbound \in Seq(InChannel) /\ Len(inbound) <= InboundCapacity
      BY BridgeAssumption DEF Fresh
    <3>3. \A p \in Peer : from[p] <= read[p]
      BY DEF Fresh
    <3> QED
      BY <1>0, <1>1, <3>1, <3>2, <3>3 DEF DriverOK, Fresh
  <2>2. PumpOK
    <3>1. Waiting \in PumpState
      BY <1>1 DEF Waiting, PumpState, Frame
    <3>2. queue \in Seq(Message) /\ Len(queue) <= InboxCapacity /\ taken \in Seq(Message)
      BY BridgeAssumption DEF Fresh
    <3> QED
      BY <3>1, <3>2 DEF PumpOK, Fresh
  <2> QED
    BY <1>0, <2>1, <2>2 DEF TypeOK
<1>3. Delivered = <<>>
  BY DEF Fresh, Delivered, InHand, Waiting
<1>4. \A p : FramesOf(p) = {}
  BY <1>3 DEF FramesOf
<1>5. InOrderOnce
  BY <1>4 DEF InOrderOnce
<1>6. ASSUME NEW p \in Peer
      PROVE  \E d, m \in from[p] .. read[p] : OnTheWay(p, d, m) /\ Parts(p, d) /\ HandedOn(p, d)
  <2> DEFINE d == from[p]
  <2>1. d \in Nat /\ read[p] = d /\ outbox[p] \in Seq(Chunk) /\ d <= Len(outbox[p])
    BY <1>0 DEF Fresh, SendersOK
  <2>2. d + 1 .. d = {} /\ d \in from[p] .. read[p]
    BY <2>1
  <2>3. OnTheWay(p, d, d)
    <3>1. /\ SubSeq(outbox[p], d + 1, d) \in Seq(Chunk)
          /\ Len(SubSeq(outbox[p], d + 1, d)) = IF d + 1 <= d THEN d - (d + 1) + 1 ELSE 0
      BY <2>1, PieceOf
    <3>2. SubSeq(outbox[p], d + 1, d) = <<>>
      BY <2>1, <3>1
    <3>3. pending[p] = <<>>
      BY DEF Fresh
    <3>4. ChunksOf(p) = {}
      BY DEF Fresh, ChunksOf
    <3>5. pending[p] \in {SubSeq(outbox[p], d + 1, read[p]),
                          Append(SubSeq(outbox[p], d + 1, read[p]), Screen)}
      BY <2>1, <3>2, <3>3
    <3>6. from[p] <= d /\ d <= d /\ d <= read[p]
      BY <2>1
    <3> QED
      BY <2>2, <3>4, <3>5, <3>6, Zenon DEF OnTheWay
  <2>4. Parts(p, d)
    <3>1. ~(d > from[p])
      BY <2>1
    <3> QED
      BY <3>1 DEF Fresh, Parts
  <2>5. HandedOn(p, d)
    <3>1. ASSUME NEW id \in 1 .. minted[p]
          PROVE  ~Whole(p, d, id)
      <4>1. Sizes[p] \in Seq(Nat \ {0}) /\ minted[p] \in Nat /\ minted[p] <= Len(Sizes[p])
        BY <1>0, BridgeAssumption DEF SendersOK, HalfWay, Peer
      <4>2. Sizes[p][id] \in Nat \ {0}
        BY <4>1
      <4>3. Got(p, d, id) = {} /\ 0 \in 0 .. Sizes[p][id] - 1
        BY <2>2, <4>2 DEF Got
      <4> QED
        BY <4>3 DEF Whole
    <3> QED
      BY <1>4, <3>1 DEF HandedOn
  <2> QED
    BY <2>2, <2>3, <2>4, <2>5
<1> QED
  BY <1>0, <1>2, <1>5, <1>6 DEF IInv

LEMMA InitHolds == Init => IInv
<1> SUFFICES ASSUME Init PROVE IInv
  OBVIOUS
<1>1. SendersOK /\ restarts \in Nat /\ screens \in Nat
  BY DEF Init, SendersOK, Idle
<1>2. from \in [Peer -> Nat] /\ \A p \in Peer : read[p] <= Len(outbox[p])
  BY DEF Init
<1>3. ASSUME NEW p \in Peer
      PROVE  Queued(p) /\ HalfWay(p)
  <2>1. Sizes[p] \in Seq(Nat \ {0}) /\ minted[p] = 0 /\ sending[p] = Idle /\ outbox[p] = <<>>
    BY BridgeAssumption DEF Init, Peer
  <2>2. Queued(p)
    BY <2>1 DEF Queued
  <2>3. HalfWay(p)
    BY <2>1 DEF HalfWay
  <2> QED
    BY <2>2, <2>3
<1>4. Fresh
  BY <1>1, <1>2, <1>3 DEF Init, Fresh
<1> QED
  BY <1>4, FreshHolds

LEMMA RestartFresh ==
    ASSUME IInv, ReceiverRestart
    PROVE  Fresh'
<1>1. PICK f \in [Peer -> UNION {0 .. read[p] : p \in Peer}] :
        /\ \A p \in Peer : f[p] <= read[p]
        /\ from' = f /\ read' = f
  BY DEF ReceiverRestart
<1>2. /\ pending' = [p \in Peer |-> <<>>] /\ cursor' = 0 /\ inbound' = <<>>
      /\ partials' = {} /\ pump' = Waiting /\ queue' = <<>> /\ taken' = <<>>
      /\ restarts' = restarts + 1 /\ UNCHANGED <<senders, screens>>
  BY DEF ReceiverRestart
<1>3. f \in [Peer -> Nat]
  <2>1. \A p \in Peer : read[p] \in Nat
    BY TypesOf DEF IInv
  <2>2. UNION {0 .. read[p] : p \in Peer} \subseteq Nat
    BY <2>1
  <2> QED
    BY <2>2
<1>4. ASSUME NEW p \in Peer
      PROVE  f[p] <= Len(outbox[p]) /\ Queued(p)' /\ HalfWay(p)'
  <2>1. f[p] <= Len(outbox[p])
    <3>1. read[p] \in Nat /\ read[p] <= Len(outbox[p]) /\ Len(outbox[p]) \in Nat
      BY TypesOf DEF IInv
    <3>2. f[p] <= read[p] /\ f[p] \in Nat
      BY <1>1, <1>3
    <3> QED
      BY <3>1, <3>2
  <2>2. Queued(p)' /\ HalfWay(p)'
    BY <1>2 DEF IInv, Queued, HalfWay, senders
  <2> QED
    BY <2>1, <2>2
<1>5. SendersOK' /\ restarts' \in Nat /\ screens' \in Nat /\ outbox' = outbox
  BY <1>2 DEF IInv, TypeOK, SendersOK, senders
<1> QED
  BY <1>1, <1>2, <1>3, <1>4, <1>5 DEF Fresh

LEMMA Inductive == IInv /\ [Next]_vars => IInv'
<1> SUFFICES ASSUME IInv, [Next]_vars PROVE IInv'
  OBVIOUS
<1>1. CASE ReceiverRestart
  <2>1. Fresh'
    BY <1>1, RestartFresh
  <2> QED
    BY <2>1, FreshHolds, PTL
<1>2. CASE UNCHANGED vars
  <2>1. PumpOK' /\ Delivered' = Delivered
    BY <1>2 DEF vars, IInv, TypeOK, PumpOK, Delivered, InHand
  <2>2. UNCHANGED <<senders, driver, inbound, partials, bounds>>
    BY <1>2 DEF vars
  <2> QED
    BY <2>1, <2>2, FrameMoves
<1>3. ASSUME NEW p \in Peer, PeerStep(p)
      PROVE  IInv'
  BY <1>3, SendKeeps, SendChunkKeeps, CancelKeeps, SenderRestartKeeps, ArriveKeeps DEF PeerStep
<1> QED
  BY <1>1, <1>2, <1>3, FlushKeeps, RecvKeeps, OfferKeeps, AwaitWakeKeep, DrainKeeps DEF Next

LEMMA Invariant == Spec => []IInv
  BY InitHolds, Inductive, PTL DEF Spec

(* The types of the variables, the bounds of the channel and of the inbox,   *)
(* and that the driver's cursor names a peer.                                *)
THEOREM TypeCorrect == Spec => []TypeOK
<1>1. IInv => TypeOK
  BY DEF IInv
<1> QED
  BY <1>1, Invariant, PTL

(* Frames of one peer come out in the order it sent them, each at most once  *)
(* (`flush_inbound`, `reassemble`).                                          *)
THEOREM FramesInOrder == Spec => []InOrderOnce
<1>1. IInv => InOrderOnce
  BY DEF IInv
<1> QED
  BY <1>1, Invariant, PTL

(* Every frame that comes out is one its peer sent, whole (`reassemble`).    *)
THEOREM FramesWhole == Spec => []WholeFrames
<1>1. IInv => WholeFrames
  <2> SUFFICES ASSUME IInv, NEW p \in Peer, NEW k \in FramesOf(p)
               PROVE  \E id \in 1 .. minted[p] : Delivered[k].frame = [i \in 1 .. Sizes[p][id] |-> id]
    BY DEF WholeFrames
  <2>1. PICK d \in from[p] .. read[p] : HandedOn(p, d)
    BY DEF IInv
  <2> QED
    BY <2>1 DEF HandedOn, FrameOf
<1> QED
  BY <1>1, Invariant, PTL

(* A frame whose every chunk went through has come out: neither a full       *)
(* channel nor what a restart left in pieces costs one.                      *)
THEOREM FramesComplete == Spec => []CompleteDelivered
<1>1. IInv => CompleteDelivered
  <2> SUFFICES ASSUME IInv, NEW p \in Peer, NEW id \in 1 .. minted[p],
                      \A i \in 0 .. Sizes[p][id] - 1 : \E c \in Pumped(p) : c.id = id /\ c.index = i
               PROVE  \E k \in FramesOf(p) : Delivered[k].frame[1] = id
    BY DEF CompleteDelivered
  <2>1. PICK d \in from[p] .. read[p], m \in from[p] .. read[p] : OnTheWay(p, d, m) /\ HandedOn(p, d)
    BY DEF IInv
  <2>2. /\ from[p] \in Nat /\ read[p] \in Nat /\ d \in Nat /\ m \in Nat /\ m <= read[p]
        /\ read[p] <= Len(outbox[p]) /\ outbox[p] \in Seq(Chunk) /\ Len(outbox[p]) \in Nat
    BY TypesOf DEF IInv
  \* What the channel and the backlog hold is not through.
  <2>3. ASSUME NEW n \in from[p] + 1 .. read[p], n > d
        PROVE  outbox[p][n] \in Held(p)
    <3>1. CASE n <= m
      <4>1. n \in d + 1 .. m
        BY <2>2, <2>3, <3>1
      <4>2. PICK i \in ChunksOf(p) : inbound[i].body = outbox[p][n]
        BY <2>1, <4>1 DEF OnTheWay
      <4> QED
        BY <4>2 DEF Held, ChunksOf
    <3>2. CASE n > m
      <4> DEFINE u == SubSeq(outbox[p], m + 1, read[p])
      <4>1. /\ u \in Seq(Chunk) /\ Len(u) = (IF m + 1 <= read[p] THEN read[p] - (m + 1) + 1 ELSE 0)
            /\ \A i \in 1 .. Len(u) : u[i] = outbox[p][m + 1 + i - 1]
        BY <2>2, PieceOf
      <4>2. pending[p] \in {u, Append(u, Screen)}
        BY <2>1, Zenon DEF OnTheWay
      <4> HIDE DEF u
      <4>3. n - m \in 1 .. Len(u) /\ m + 1 + (n - m) - 1 = n
        BY <2>2, <3>2, <4>1
      <4>4. u[n - m] = outbox[p][n]
        BY <4>1, <4>3
      <4>5. n - m \in DOMAIN pending[p] /\ pending[p][n - m] = u[n - m]
        <5>1. DOMAIN u = 1 .. Len(u) /\ n - m \in DOMAIN Append(u, Screen) /\ Append(u, Screen)[n - m] = u[n - m]
          BY <4>1, <4>3
        <5>2. pending[p] = u \/ pending[p] = Append(u, Screen)
          BY <4>2
        <5> QED
          BY <4>3, <5>1, <5>2, Zenon
      <4>6. outbox[p][n] \in Range(pending[p])
        BY <4>4, <4>5 DEF Range
      <4> QED
        BY <4>6 DEF Held
    <3> QED
      BY <2>2, <3>1, <3>2
  <2>4. ASSUME NEW i \in 0 .. Sizes[p][id] - 1
        PROVE  i \in Got(p, d, id)
    <3>1. PICK n \in from[p] + 1 .. read[p] :
             outbox[p][n] \notin Held(p) /\ outbox[p][n].id = id /\ outbox[p][n].index = i
      BY DEF Pumped
    <3>2. n \in from[p] + 1 .. d
      BY <2>2, <2>3, <3>1
    <3> QED
      BY <3>1, <3>2 DEF Got
  <2>5. Whole(p, d, id)
    BY <2>4 DEF Whole, Got
  <2>6. PICK k \in FramesOf(p) : Delivered[k].frame = FrameOf(p, id)
    BY <2>1, <2>5 DEF HandedOn
  <2>7. FrameOf(p, id)[1] = id
    BY SizeOf DEF FrameOf
  <2> QED
    BY <2>6, <2>7
<1> QED
  BY <1>1, Invariant, PTL
=============================================================================
