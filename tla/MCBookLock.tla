----------------------------- MODULE MCBookLock -----------------------------
(***************************************************************************)
(* Small instances of BookLock: daemons on two socket paths, one desktop   *)
(* on the same host and one elsewhere.                                     *)
(***************************************************************************)
EXTENDS BookLock, TLC

CONSTANTS d1, d2, d3, near, far, s1, s2, p1, p2, p3, here, there

MCHostOf == [g \in Desktops |-> IF g = near THEN here ELSE there]

\* Neither daemons nor PIDs are told apart, and no property is temporal.
MCSymmetry == Permutations(Daemons) \cup Permutations(Pids)
=============================================================================
