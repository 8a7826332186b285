------------------------------ MODULE MCWorker ------------------------------
(***************************************************************************)
(* Small instances of Worker: four calls compete for two places.           *)
(***************************************************************************)
EXTENDS Worker

CONSTANTS c1, c2, c3, c4
=============================================================================
