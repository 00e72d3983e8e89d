------------------------------ MODULE MCEtharp ------------------------------
(***************************************************************************)
(* Instances of Etharp for TLC: one host may change its card.              *)
(***************************************************************************)
EXTENDS Etharp

MCCards == [a \in IPs |-> IF a = "a" THEN {"a1", "a2"} ELSE {a}]

=============================================================================
