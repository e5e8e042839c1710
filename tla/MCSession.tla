------------------------------ MODULE MCSession ------------------------------
(***************************************************************************)
(* Session for TLC.  Sizes keep the order of the encoded ones: a pong or   *)
(* an identity (12 bytes) is smaller than a snapshot (37 bytes and 25 for  *)
(* each player).                                                           *)
(***************************************************************************)
EXTENDS Session

MCMessageSize ==
    [type \in MessageTypes |-> IF type = "WorldStateSnapshot" THEN 3 ELSE 1]

=============================================================================
