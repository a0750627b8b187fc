-------------------------- MODULE MCLifecycleLock --------------------------
(***************************************************************************)
(* One agent, a priority sender, an ordinary sender, a migration and an    *)
(* older build.                                                            *)
(***************************************************************************)
EXTENDS LifecycleLock

CONSTANTS p1, o1, m1, b1    \* processes
=============================================================================
