------------------------------ MODULE MCStatus ------------------------------
(***************************************************************************)
(* Instances of StatusCache for TLC.                                       *)
(***************************************************************************)
EXTENDS StatusCache
==============================================================================
