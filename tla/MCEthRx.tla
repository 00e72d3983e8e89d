------------------------------ MODULE MCEthRx ------------------------------
(* Instances of EthRx for TLC: a ring of three descriptors. *)
EXTENDS EthRx
=============================================================================
