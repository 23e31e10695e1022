--------------------------- MODULE MCEventStream ---------------------------
(* Two tasks of one broker, one browser, a buffer and a queue that overflow. *)
EXTENDS EventStream

CONSTANTS listen, reconcile
=============================================================================
