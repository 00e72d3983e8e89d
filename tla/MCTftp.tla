------------------------------- MODULE MCTftp -------------------------------
(***************************************************************************)
(* Instances of Tftp for TLC: their constants are in the .cfg files.       *)
(***************************************************************************)
EXTENDS Tftp

=============================================================================
