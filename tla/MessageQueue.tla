---------------------------- MODULE MessageQueue ----------------------------
(***************************************************************************)
(* The channel-0 state of medulla-link: state/queue.rs.                    *)
(*                                                                         *)
(* A queue is the messages it still holds and `base`, the number of        *)
(* messages that went before them.  A diff is the plain sequence of        *)
(* messages the wire carries; nothing in it says where they belong.        *)
(*                                                                         *)
(* Left out: the byte layout of a diff (decode_messages only rejects what  *)
(* no peer encodes) and the byte bound, which fails exactly as the message *)
(* bound does.                                                             *)
(***************************************************************************)
EXTENDS Integers, Sequences

CONSTANTS
    MaxMessages,    \* QueueLimits::max_messages
    MaxDiff         \* messages that fit one datagram (packet::MAX_DIFF_LEN)

ASSUME LimitsAssumption == MaxMessages \in Nat /\ MaxDiff \in Nat \ {0}

EmptyQueue == [base |-> 0, messages |-> <<>>]

Num(q) == q.base + Len(q.messages)

(* check_capacity *)
HasRoom(q, count) == Len(q.messages) + count <= MaxMessages

Push(q, m) == [base |-> q.base, messages |-> Append(q.messages, m)]

(* The messages of q numbered above n. *)
MessagesAfter(q, n) == SubSeq(q.messages, n - q.base + 1, Len(q.messages))

(* prune_through, which is also release_through *)
PruneThrough(q, n) ==
    LET last == IF n <= Num(q) THEN n ELSE Num(q)
    IN  IF n <= q.base THEN q
        ELSE [base |-> last, messages |-> MessagesAfter(q, last)]

(* What drain leaves: the count goes on, the messages are handed up. *)
Drained(q) == [base |-> Num(q), messages |-> <<>>]

ResetOrigin(q) == [base |-> 0, messages |-> q.messages]

(* diff_from *)
QueueDiff(q, prev) ==
    MessagesAfter(q, IF Num(prev) >= q.base THEN Num(prev) ELSE q.base)

(* apply_diff, when HasRoom *)
QueueApply(q, diff) == [base |-> q.base, messages |-> q.messages \o diff]

QueueAccepts(q, diff) == HasRoom(q, Len(diff))

QueueFits(diff) == Len(diff) <= MaxDiff
=============================================================================
