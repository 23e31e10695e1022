---------------------------- MODULE MCHostLeases ----------------------------
\* Two sources on one shop's host, one of them behind a shared edge: its job may
\* be run by two executions in succession, or at once when a lease was lost.
EXTENDS HostLeases, TLC

CONSTANTS e1, e2, e3, j1, j2, shop, edge

MCJobOf  == e1 :> j1 @@ e2 :> j1 @@ e3 :> j2
MCShopOf == e1 :> shop @@ e2 :> shop @@ e3 :> shop
MCEdgeOf == e1 :> edge @@ e2 :> edge @@ e3 :> NoKey
=============================================================================
