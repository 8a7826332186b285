---------------------------- MODULE MCLifecycle -----------------------------
(***************************************************************************)
(* An instance of Lifecycle: three calls from clients compete for a queue  *)
(* of two while the daemon starts and stops.                               *)
(***************************************************************************)
EXTENDS Lifecycle

MCHandlers == {"h1", "h2", "h3"}
MCTasks == MCHandlers \cup MainTasks
=============================================================================
