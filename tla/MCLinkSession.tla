--------------------------- MODULE MCLinkSession ---------------------------
(***************************************************************************)
(* LinkSession for TLC: each endpoint's bounds, and the loads that a run   *)
(* puts on the link, one or the other.                                     *)
(***************************************************************************)
EXTENDS LinkSession

CONSTANTS OwnerQueues, HostQueues, OwnerStarts, HostStarts

Queues == [e \in {Owner, Host} |-> IF e = Owner THEN OwnerQueues ELSE HostQueues]

Starts == [e \in {Owner, Host} |-> IF e = Owner THEN OwnerStarts ELSE HostStarts]

(* The host restarts and the owner queues, or the owner restarts and the   *)
(* host shows frames.                                                      *)
Loads ==
    {[queues |-> OwnerQueues, screens |-> 0, owner |-> 1, host |-> HostStarts - 1],
     [queues |-> 1, screens |-> 0, owner |-> 1, host |-> HostStarts],
     [queues |-> 0, screens |-> MaxScreens, owner |-> OwnerStarts, host |-> 1]}

Within(load) ==
    /\ queued[Owner] <= load.queues /\ screens <= load.screens
    /\ session[Owner].epoch <= load.owner /\ session[Host].epoch <= load.host

OneLoad == Init /\ [][Next /\ \E load \in Loads : Within(load) /\ Within(load)']_vars
=============================================================================
