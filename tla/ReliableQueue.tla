--------------------------- MODULE ReliableQueue ---------------------------
(***************************************************************************)
(* What channel 0 promises its two applications: each direction is a       *)
(* reliable, ordered queue, and a sender lets go of a message only once it *)
(* has arrived.  There are no datagrams, states or acknowledgements here.  *)
(***************************************************************************)
EXTENDS Integers, Sequences

CONSTANTS Owner, Host, Message

Endpoint == {Owner, Host}

Peer(e) == IF e = Owner THEN Host ELSE Owner

VARIABLES
    log,        \* the messages each endpoint's application queued
    arrived,    \* how many of the peer's messages each endpoint holds or took
    taken,      \* the messages each endpoint's application took
    released    \* how many of its own messages each endpoint let go of

vars == <<log, arrived, taken, released>>

Init ==
    /\ log = [e \in Endpoint |-> <<>>]
    /\ arrived = [e \in Endpoint |-> 0]
    /\ taken = [e \in Endpoint |-> <<>>]
    /\ released = [e \in Endpoint |-> 0]

Put(e, m) ==
    /\ log' = [log EXCEPT ![e] = Append(log[e], m)]
    /\ UNCHANGED <<arrived, taken, released>>

(* More of the peer's messages arrive and more of the endpoint's own,      *)
(* which the peer has, are let go of; either may be none.                  *)
Exchange(e, a, r) ==
    /\ arrived[e] <= a /\ a <= Len(log[Peer(e)])
    /\ released[e] <= r /\ r <= arrived[Peer(e)]
    /\ arrived' = [arrived EXCEPT ![e] = a]
    /\ released' = [released EXCEPT ![e] = r]
    /\ UNCHANGED <<log, taken>>

(* The application takes everything that has arrived. *)
Take(e) ==
    /\ taken' = [taken EXCEPT ![e] = SubSeq(log[Peer(e)], 1, arrived[e])]
    /\ UNCHANGED <<log, arrived, released>>

Next ==
    \E e \in Endpoint :
        \/ \E m \in Message : Put(e, m)
        \/ \E a \in 0..Len(log[Peer(e)]), r \in 0..Len(log[e]) : Exchange(e, a, r)
        \/ Take(e)

Spec == Init /\ [][Next]_vars
=============================================================================
