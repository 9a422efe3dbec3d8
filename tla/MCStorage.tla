------------------------------ MODULE MCStorage ------------------------------
(***************************************************************************)
(* An instance of Storage for TLC.                                         *)
(***************************************************************************)
EXTENDS Storage

MCBuckets == {1}
MCLengths == {1, 2}
=============================================================================
