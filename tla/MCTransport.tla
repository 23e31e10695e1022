---------------------------- MODULE MCTransport ----------------------------
(* Two requests, one retry each, and the close, under every proxy policy. *)
EXTENDS Transport
=============================================================================
