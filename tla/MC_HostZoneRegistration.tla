--------------------- MODULE MC_HostZoneRegistration ---------------------
(* A small instance of HostZoneRegistration: two chains, one of them     *)
(* reachable over two connections, a connection GetChainID cannot        *)
(* resolve, and two epoch numbers.                                       *)
EXTENDS HostZoneRegistration, TLC

CONSTANTS c1, c2, conn0, conn1, conn2, connX

MC_ConnChain == (conn0 :> c1) @@ (conn1 :> c1) @@ (conn2 :> c2) @@ (connX :> Unknown)
=============================================================================
