---------------------------- MODULE MCEchoServer ----------------------------
(***************************************************************************)
(* Instances of EchoServer for TLC: pbufs of two lengths, of which the     *)
(* send buffer holds one or two and the window three at most.              *)
(***************************************************************************)
EXTENDS EchoServer

MCLens == <<1, 2, 1, 2>>

=============================================================================
