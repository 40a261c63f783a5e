------------------------------ MODULE MCClient ------------------------------
(***************************************************************************)
(* Instances of Client for TLC.                                            *)
(***************************************************************************)
EXTENDS Client, TLC

CONSTANTS r1, r2, A

\* Two requests of one shape.
MCShape == (r1 :> A) @@ (r2 :> A)

\* A read, tried once, and a command, tried twice.
MCTries == (r1 :> 1) @@ (r2 :> 2)

=============================================================================
