-------------------------- MODULE MCProxyProfiles --------------------------
(* Three requests and one reservation, for either kind of provider. *)
EXTENDS ProxyProfiles
=============================================================================
