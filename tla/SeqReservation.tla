--------------------------- MODULE SeqReservation ---------------------------
(***************************************************************************)
(* The sequence counter of a medulla-link node: keys/seq.rs over           *)
(* keys/store.rs and the acquisition path of keys/mod.rs.                  *)
(*                                                                         *)
(* A datagram's sequence is also its AEAD nonce, so a node must never hand *)
(* out one sequence twice under one pair key, across processes, crashes    *)
(* and failed writes.  The code keeps a reservation in node.json, written  *)
(* before any sequence of the block is handed out.                         *)
(*                                                                         *)
(* What is kept: the identity lock, the read, every visible step of        *)
(* write_node_state (the temporary file is invisible until the rename, the *)
(* rename is not durable until the directory is synced), its failure at    *)
(* each step, process death and power loss.                                *)
(* What is left out: the other fields of node.json, file modes, and the    *)
(* direction bit, which Session::build ors in afterwards.                  *)
(*                                                                         *)
(* Init, Next, Spec and the like are called ReservationInit and so on:     *)
(* LinkNodeProofs extends this module together with LinkSession.           *)
(***************************************************************************)
EXTENDS Integers, Sequences, FiniteSets

CONSTANTS
    Proc,               \* processes that may open the identity directory
    NoProc,             \* nobody holds node.lock
    ReservationBlock,   \* sequences reserved by one write (10_000)
    MaxSeq,             \* highest sequence the 63 bits carry
    MaxKeys             \* bound: identities that may be minted

ASSUME ProcAssumption == NoProc \notin Proc
ASSUME BlockAssumption == ReservationBlock \in Nat \ {0}
ASSUME MaxSeqAssumption == MaxSeq \in Nat \ {0}
ASSUME MaxKeysAssumption == MaxKeys \in Nat

VARIABLES
    file,       \* node.json as a reader sees it
    survivors,  \* contents a power cut may leave under that name
    lock,       \* holder of node.lock
    pc,         \* where each process is in acquire / reserve / next_seq
    stage,      \* how far its write_node_state has come
    key,        \* its ReservedSeq: the pair key of the loaded NodeState,
    res,        \*   state.seq_reservation,
    next,       \*   the next sequence to hand out,
    limit,      \*   and the end of the block it may hand out from
    nextKey,    \* the next fresh pair key
    windows,    \* which replace() is compiled in
    issued      \* history: every <<key, seq>> handed out, in order

source == <<key, res, next, limit>>

reservationVars == <<file, survivors, lock, pc, stage, key, res, next, limit, nextKey, windows, issued>>

NodeState == [key : Nat, res : Nat]

(* A pair key is a positive number; key 0 stands for "no node.json".       *)
NoFile == [key |-> 0, res |-> 0]

(* node.json is there to be read. *)
Enrolled == file.key # 0

Larger(a, b) == IF a >= b THEN a ELSE b

Smaller(a, b) == IF a <= b THEN a ELSE b

ReservationInit ==
    /\ file = NoFile
    /\ survivors = {NoFile}
    /\ lock = NoProc
    /\ pc = [p \in Proc |-> "idle"]
    /\ stage = [p \in Proc |-> "none"]
    /\ key = [p \in Proc |-> 0]
    /\ res = [p \in Proc |-> 0]
    /\ next = [p \in Proc |-> 0]
    /\ limit = [p \in Proc |-> 0]
    /\ nextKey = 1
    /\ windows \in BOOLEAN
    /\ issued = <<>>

(* NodeLock::drop, or the kernel closing the file of a dead process.       *)
Release(p) ==
    /\ lock' = NoProc
    /\ pc' = [pc EXCEPT ![p] = "idle"]
    /\ stage' = [stage EXCEPT ![p] = "none"]
    /\ key' = [key EXCEPT ![p] = 0]
    /\ res' = [res EXCEPT ![p] = 0]
    /\ next' = [next EXCEPT ![p] = 0]
    /\ limit' = [limit EXCEPT ![p] = 0]

-----------------------------------------------------------------------------
(* Mutant of LockNodeDir: a contended lock is taken for success. *)
LockNodeDirContended(p) ==
    /\ pc[p] = "idle"
    /\ lock' = p
    /\ pc' = [pc EXCEPT ![p] = "locked"]
    /\ UNCHANGED <<file, survivors, stage, source, nextKey, issued>>

(* lock_node_dir: Busy, the other outcome, changes nothing. *)
LockNodeDir(p) ==
    /\ pc[p] = "idle"
    /\ lock = NoProc
    /\ lock' = p
    /\ pc' = [pc EXCEPT ![p] = "locked"]
    /\ UNCHANGED <<file, survivors, stage, source, nextKey, issued>>

(* The block ReservedSeq::reserve records for a counter standing at next. *)
Reservation(n) == Smaller(n + ReservationBlock, MaxSeq)

(* ReservedSeq from a counter standing at n, its first reserve() begun. *)
OpenAt(p, k, n) ==
    /\ key' = [key EXCEPT ![p] = k]
    /\ res' = [res EXCEPT ![p] = Reservation(n)]
    /\ next' = [next EXCEPT ![p] = n]
    /\ limit' = [limit EXCEPT ![p] = n]

(* Mutant of Open: the counter resumes at the start of the last block. *)
OpenRewound(p, k, r) == OpenAt(p, k, Larger(r - ReservationBlock, 1))

(* ReservedSeq::open: everything below the stored reservation is spent. *)
Open(p, k, r) == OpenAt(p, k, Larger(r, 1))

(* acquire: read_node_state finds the file, open starts the first reserve. *)
Acquire(p) ==
    /\ pc[p] = "locked"
    /\ Enrolled
    /\ pc' = [pc EXCEPT ![p] = "open"]
    /\ stage' = [stage EXCEPT ![p] = "temp"]
    /\ Open(p, file.key, file.res)
    /\ UNCHANGED <<file, survivors, lock, nextKey, issued>>

(* acquire on a directory without node.json: KeyError::NotEnrolled. *)
NotEnrolled(p) ==
    /\ pc[p] = "locked"
    /\ ~Enrolled
    /\ Release(p)
    /\ UNCHANGED <<file, survivors, nextKey, issued>>

(* acquire_or_create without node.json: seed() mints a key, reservation 1. *)
Create(p) ==
    /\ pc[p] = "locked"
    /\ ~Enrolled
    /\ nextKey <= MaxKeys
    /\ nextKey' = nextKey + 1
    /\ pc' = [pc EXCEPT ![p] = "seed"]
    /\ stage' = [stage EXCEPT ![p] = "temp"]
    /\ key' = [key EXCEPT ![p] = nextKey]
    /\ res' = [res EXCEPT ![p] = 1]
    /\ UNCHANGED <<file, survivors, lock, next, limit, issued>>

-----------------------------------------------------------------------------
(* The visible steps of write_node_state. *)

(* replace() on Windows removes the target before it renames. *)
RemoveTarget(p) ==
    /\ windows
    /\ stage[p] = "temp"
    /\ file' = NoFile
    /\ stage' = [stage EXCEPT ![p] = "removed"]
    /\ UNCHANGED <<survivors, lock, pc, source, nextKey, issued>>

Rename(p) ==
    /\ stage[p] = (IF windows THEN "removed" ELSE "temp")
    /\ file' = [key |-> key[p], res |-> res[p]]
    /\ survivors' = survivors \cup {file'}
    /\ stage' = [stage EXCEPT ![p] = "renamed"]
    /\ UNCHANGED <<lock, pc, source, nextKey, issued>>

(* What the caller does with a finished write: a seeded identity is opened *)
(* (finish), a reserve() records the limit it may now hand out below.      *)
WriteDone(p) ==
    IF pc[p] = "seed"
      THEN /\ pc' = [pc EXCEPT ![p] = "open"]
           /\ stage' = [stage EXCEPT ![p] = "temp"]
           /\ Open(p, key[p], res[p])
      ELSE /\ pc' = [pc EXCEPT ![p] = "ready"]
           /\ stage' = [stage EXCEPT ![p] = "none"]
           /\ limit' = [limit EXCEPT ![p] = res[p]]
           /\ UNCHANGED <<key, res, next>>

(* Mutant of SyncParent: the directory entry is never synced. *)
SyncParentSkipped(p) ==
    /\ stage[p] = "renamed"
    /\ WriteDone(p)
    /\ UNCHANGED <<file, survivors, lock, nextKey, issued>>

(* sync_parent: the directory entry is durable and the write succeeded.    *)
SyncParent(p) ==
    /\ stage[p] = "renamed"
    /\ survivors' = {file}
    /\ WriteDone(p)
    /\ UNCHANGED <<file, lock, nextKey, issued>>

(* An I/O error at any step.  While acquiring, the error drops the lock;   *)
(* inside next_seq the source survives with its old limit.                 *)
WriteFails(p) ==
    /\ stage[p] # "none"
    /\ IF pc[p] = "reserve"
         THEN /\ pc' = [pc EXCEPT ![p] = "ready"]
              /\ stage' = [stage EXCEPT ![p] = "none"]
              /\ UNCHANGED <<lock, source>>
         ELSE Release(p)
    /\ UNCHANGED <<file, survivors, nextKey, issued>>

-----------------------------------------------------------------------------
(* next_seq on an exhausted block: reserve() sets the state and writes it. *)
Reserve(p) ==
    /\ pc[p] = "ready"
    /\ next[p] >= limit[p]
    /\ pc' = [pc EXCEPT ![p] = "reserve"]
    /\ stage' = [stage EXCEPT ![p] = "temp"]
    /\ res' = [res EXCEPT ![p] = Reservation(next[p])]
    /\ UNCHANGED <<file, survivors, lock, key, next, limit, nextKey, issued>>

(* next_seq inside the block; at MaxSeq it fails instead of wrapping. *)
NextSeq(p) ==
    /\ pc[p] = "ready"
    /\ next[p] < limit[p]
    /\ next[p] < MaxSeq
    /\ issued' = Append(issued, <<key[p], next[p]>>)
    /\ next' = [next EXCEPT ![p] = next[p] + 1]
    /\ UNCHANGED <<file, survivors, lock, pc, stage, key, res, limit, nextKey>>

(* The process ends, orderly or not, at any point. *)
Crash(p) ==
    /\ pc[p] # "idle"
    /\ Release(p)
    /\ UNCHANGED <<file, survivors, nextKey, issued>>

(* Every process dies and unsynced directory entries may be lost.  The     *)
(* Windows build has no sync_parent; a power cut is not modelled there.    *)
PowerLoss ==
    /\ ~windows
    /\ \E left \in survivors : file' = left /\ survivors' = {left}
    /\ lock' = NoProc
    /\ pc' = [p \in Proc |-> "idle"]
    /\ stage' = [p \in Proc |-> "none"]
    /\ key' = [p \in Proc |-> 0]
    /\ res' = [p \in Proc |-> 0]
    /\ next' = [p \in Proc |-> 0]
    /\ limit' = [p \in Proc |-> 0]
    /\ UNCHANGED <<nextKey, issued>>

NodeStep(p) ==
    \/ LockNodeDir(p)
    \/ Acquire(p)
    \/ NotEnrolled(p)
    \/ Create(p)
    \/ RemoveTarget(p)
    \/ Rename(p)
    \/ SyncParent(p)
    \/ WriteFails(p)
    \/ Reserve(p)
    \/ NextSeq(p)
    \/ Crash(p)

ReservationNext ==
    /\ (\E p \in Proc : NodeStep(p)) \/ PowerLoss
    /\ UNCHANGED windows

ReservationSpec == ReservationInit /\ [][ReservationNext]_reservationVars

-----------------------------------------------------------------------------
ReservationTypeOK ==
    /\ file \in NodeState
    /\ survivors \in SUBSET NodeState
    /\ lock \in Proc \cup {NoProc}
    /\ pc \in [Proc -> {"idle", "locked", "seed", "open", "reserve", "ready"}]
    /\ stage \in [Proc -> {"none", "temp", "removed", "renamed"}]
    /\ key \in [Proc -> Nat]
    /\ res \in [Proc -> Nat]
    /\ next \in [Proc -> Nat]
    /\ limit \in [Proc -> Nat]
    /\ nextKey \in Nat
    /\ windows \in BOOLEAN
    /\ issued \in Seq(Nat \X Nat)

(* Every sequence issued under k is below n. *)
SpentBelow(log, k, n) ==
    \A i \in 1..Len(log) : log[i][1] = k => log[i][2] < n

(* Under one key the issued sequences strictly increase. *)
Increasing(log) ==
    \A i, j \in 1..Len(log) :
        i < j /\ log[i][1] = log[j][1] => log[i][2] < log[j][2]

(* Every key a sequence was issued under is a minted one. *)
MintedBelow(log, m) == \A i \in 1..Len(log) : log[i][1] \in 1..(m - 1)

(* What a reader may find under the name node.json, now or after a cut. *)
OnDisk == survivors \cup {file}

(* The counter never rewinds: under one pair key the sequences handed out, *)
(* by whatever processes, restarts and failed writes, strictly increase    *)
(* (ReservedSeq::open and next_seq; the AEAD nonce is never reused).       *)
NeverRewinds == Increasing(issued)

(* The reservation is on disk before the sequence is used: whatever a      *)
(* crash or a power cut leaves in node.json treats every sequence already  *)
(* handed out under its key as spent (reserve() before next_seq returns).  *)
ReservedBeforeUse ==
    \A left \in OnDisk : SpentBelow(issued, left.key, left.res)

(* A crash costs at most one skipped block: what is on disk is never more  *)
(* than one ReservationBlock ahead of the live counter (reserve()).        *)
CrashSkipsOneBlock ==
    \A p \in Proc : \A left \in OnDisk :
        pc[p] = "ready" /\ left.key = key[p]
            => left.res <= next[p] + ReservationBlock

(* write_node_state is atomic where rename replaces: once an identity has  *)
(* handed out a sequence, whoever takes the lock next finds a node.json,   *)
(* whatever crashed and wherever (replace(), sync_parent).  The Windows    *)
(* replace() removes the target first and can promise no such thing.       *)
IdentityKept == ~windows /\ issued # <<>> /\ lock = NoProc => Enrolled

-----------------------------------------------------------------------------
(* The inductive invariant of the proofs in LinkNodeProofs.                *)

(* Only the holder of the lock is inside, and it writes in these states. *)
Holder(p) ==
    /\ pc[p] # "idle" => lock = p
    /\ pc[p] \notin {"idle", "locked"} => key[p] < nextKey
    /\ stage[p] # "none" => pc[p] \in {"seed", "open", "reserve"}
    /\ stage[p] = "renamed" => file.key = key[p] /\ file.res = res[p]

(* A freshly seeded identity has been used nowhere. *)
Seeded(p) ==
    pc[p] = "seed" =>
        /\ key[p] # 0 /\ res[p] = 1
        /\ SpentBelow(issued, key[p], 0)
        /\ \A left \in OnDisk : left.key = key[p] => left.res <= 1

(* The live counter is ahead of what was issued and within one block of    *)
(* the disk, which covers its limit.                                       *)
Counter(p) ==
    pc[p] \in {"open", "reserve", "ready"} =>
        /\ key[p] # 0
        /\ next[p] <= MaxSeq
        /\ SpentBelow(issued, key[p], next[p])
        /\ pc[p] # "ready" => res[p] = Reservation(next[p])
        /\ pc[p] = "reserve" => limit[p] <= next[p]
        /\ \A left \in OnDisk : left.key = key[p] =>
             /\ left.res <= next[p] + ReservationBlock
             /\ pc[p] # "open" => limit[p] <= left.res

(* Keys are minted fresh: none is used or stored before its time. *)
KeysMinted ==
    /\ nextKey >= 1
    /\ \A left \in OnDisk : left.key < nextKey
    /\ MintedBelow(issued, nextKey)

(* The disk covers what was issued; of one key the file is the newest. *)
DiskCovers ==
    /\ \A left \in OnDisk : /\ left.res <= MaxSeq
                            /\ left.key = 0 => left.res = 0
                            /\ SpentBelow(issued, left.key, left.res)
    /\ \A left \in survivors : left.key = file.key => left.res <= file.res

ReservationIInv ==
    /\ ReservationTypeOK
    /\ \A p \in Proc : Holder(p) /\ Seeded(p) /\ Counter(p)
    /\ KeysMinted
    /\ DiskCovers
    /\ NeverRewinds
=============================================================================
