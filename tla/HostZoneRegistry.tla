-------------------------- MODULE HostZoneRegistry --------------------------
(***************************************************************************)
(* What host-zone registration promises, without the handler's steps: a    *)
(* chain gets at most one host zone, created once on the connection it was *)
(* registered through and never changed afterwards; creating it asks the   *)
(* ICA controller for the first n account types in the fixed order, on     *)
(* that connection, and nothing else ever asks for an account.  n < 4 is   *)
(* the partial provisioning the spec accepts (section 4.3, step 4).        *)
(*                                                                         *)
(* Modelled from the spec's Registry contract (section 4.1) and the        *)
(* orchestrator's transition rules (section 4.3).                          *)
(***************************************************************************)
EXTENDS Naturals, Sequences

CONSTANTS
    ChainIds,       \* chain ids of possible host zones
    Connections,    \* connection ids
    ConnChain,      \* the chain behind each connection, or Unknown
    Unknown,        \* a connection whose chain cannot be resolved
    NoZone          \* Lookup finds nothing

VARIABLES
    zones,          \* chain id -> the connection of its zone, or NoZone
    requests        \* the account requests made, in order

vars == <<zones, requests>>

(* The account types in provisioning order (spec section 4.3, step 4).    *)
Roles == <<"DELEGATION", "FEE", "WITHDRAWAL", "REDEMPTION">>

(* Registering the chain behind conn: a chain with no zone gets one on     *)
(* conn, and the first n account types are asked for on conn.              *)
Register(conn, n) ==
    LET chainId == ConnChain[conn]
    IN  /\ chainId # Unknown
        /\ zones[chainId] = NoZone
        /\ zones' = [zones EXCEPT ![chainId] = conn]
        /\ requests' = requests \o [i \in 1..n |-> [conn |-> conn,
                                                    owner |-> <<chainId, Roles[i]>>]]

Init ==
    /\ zones = [c \in ChainIds |-> NoZone]
    /\ requests = <<>>

Next == \E conn \in Connections, n \in 0..4 : Register(conn, n)

Spec == Init /\ [][Next]_vars

=============================================================================
