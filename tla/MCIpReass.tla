------------------------------ MODULE MCIpReass ------------------------------
(***************************************************************************)
(* Instances of IpReass for TLC.  Datagrams of length 4: a hole may be     *)
(* left between the first fragment and the one before the last.            *)
(***************************************************************************)
EXTENDS IpReass

Frag(a, b) == [from |-> a, to |-> b]

\* Cut in one way, and its end in two.
OneCut  == {Frag(0, 1), Frag(1, 2), Frag(2, 3), Frag(3, 4)}
TwoCuts == {Frag(0, 1), Frag(1, 2), Frag(2, 4), Frag(2, 3), Frag(3, 4)}

Symmetry == Permutations(Datagrams) \cup Permutations(Struct)

=============================================================================
