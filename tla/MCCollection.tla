---------------------------- MODULE MCCollection ----------------------------
(* Two executions of a job over shops of up to two products. *)
EXTENDS Collection
=============================================================================
