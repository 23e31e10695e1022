--------------------------- MODULE MCProxyBudget ---------------------------
(* A job and a probe against a ceiling of three. *)
EXTENDS ProxyBudget
=============================================================================
