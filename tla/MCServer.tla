------------------------------ MODULE MCServer ------------------------------
(***************************************************************************)
(* Server for TLC: three connections for two seats, and a send limit that  *)
(* the second snapshot to a client that does not take the first exceeds.   *)
(***************************************************************************)
EXTENDS Server

MCMessageSize ==
    [type \in MessageTypes |-> IF type = "WorldStateSnapshot" THEN 3 ELSE 1]

=============================================================================
