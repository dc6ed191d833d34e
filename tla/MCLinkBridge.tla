---------------------------- MODULE MCLinkBridge ----------------------------
(***************************************************************************)
(* The instance of LinkBridge that TLC explores: a peer that sends two     *)
(* frames, so that one may stand in the way of the other, beside one that  *)
(* sends a single frame and competes for the channel.                      *)
(***************************************************************************)
EXTENDS LinkBridge, TLC

TwoAndOne == (0 :> <<2, 2>>) @@ (1 :> <<1>>)
=============================================================================
