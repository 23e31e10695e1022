---------------------------- MODULE MCRunClosure ----------------------------
(* RunClosure on a run of three jobs. *)
EXTENDS RunClosure
=============================================================================
