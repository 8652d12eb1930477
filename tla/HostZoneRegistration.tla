------------------------ MODULE HostZoneRegistration ------------------------
(***************************************************************************)
(* The x/stakeibc RegisterHostZone message handler                         *)
(* (src/x/stakeibc/keeper/msg_server_register_host_zone.go) together with  *)
(* the state it reads and writes: the host-zone store of x/stakeibc, the   *)
(* interchain-account registrations it asks the ICA controller for, and    *)
(* the epoch unbonding records of x/records, as loaded by InitGenesis      *)
(* (src/x/app-router/genesis.go) and extended at every epoch start.        *)
(*                                                                         *)
(* Transactions run one at a time and a handler has no suspension point,   *)
(* so one call of the handler is one step.  Each early return of the       *)
(* handler is a disjunct of RegisterHostZone.  Whether the writes of a     *)
(* failed call survive is the constant DiscardOnError: FALSE is the model  *)
(* the spec describes (writes made before the error stay), TRUE is the     *)
(* Cosmos SDK's (a message that returns an error or panics is reverted).   *)
(***************************************************************************)
EXTENDS Naturals, Sequences, FiniteSets

CONSTANTS
    ChainIds,       \* chain ids of possible host zones
    Connections,    \* connection ids a MsgRegisterHostZone may name
    ConnChain,      \* GetChainID: the chain behind each connection, or Unknown
    Unknown,        \* GetChainID fails for this connection
    NoZone,         \* GetHostZone finds nothing for this chain id
    NoRecord,       \* no epoch unbonding record has this epoch number
    NoEntry,        \* the record has no HostZoneUnbonding for this chain
    EpochIds,       \* epoch numbers of epoch unbonding records
    Amounts,        \* amounts a genesis HostZoneUnbonding may hold
    Statuses,       \* HostZoneUnbonding statuses
    DiscardOnError  \* a failed message's writes are reverted

ASSUME ConstantsAssumption ==
    /\ Unknown \notin ChainIds
    /\ NoZone \notin [connectionId : Connections]
    /\ ConnChain \in [Connections -> ChainIds \cup {Unknown}]
    /\ EpochIds \subseteq Nat
    /\ 0 \in Amounts /\ Amounts \subseteq Nat
    /\ "BONDED" \in Statuses
    /\ DiscardOnError \in BOOLEAN

(* The four ICA account types, in the order the handler registers them.   *)
Roles == <<"DELEGATION", "FEE", "WITHDRAWAL", "REDEMPTION">>
RoleSet == {"DELEGATION", "FEE", "WITHDRAWAL", "REDEMPTION"}
Owners == ChainIds \X RoleSet

HostZone == [connectionId : Connections]
HostZoneUnbonding == [amount : Amounts, status : Statuses]
EpochUnbondingRecord == [ChainIds -> HostZoneUnbonding \cup {NoEntry}]
IcaRequest == [conn : Connections, owner : Owners]

Codes == {"NONE", "OK", "ChainResolutionError", "DuplicateHostZone",
          "AccountProvisioningError", "NoActiveEpoch", "Panic"}

VARIABLES
    zones,        \* host-zone store: chain id -> HostZone
    epochs,       \* epoch unbonding records: epoch number -> record
    icaRequests,  \* RegisterInterchainAccount calls accepted, in order
    lastResult    \* what the last RegisterHostZone call returned

vars == <<zones, epochs, icaRequests, lastResult>>

TypeOK ==
    /\ zones \in [ChainIds -> HostZone \cup {NoZone}]
    /\ epochs \in [EpochIds -> EpochUnbondingRecord \cup {NoRecord}]
    /\ icaRequests \in Seq(IcaRequest)
    /\ lastResult \in [code : Codes, chain : ChainIds \cup {Unknown},
                       role : RoleSet \cup {"NONE"}]

-----------------------------------------------------------------------------
(* Helpers the handler calls, outside src/ (modelled from the spec).       *)

(* types.FormatICAAccountOwner: one owner per (chain id, account type).    *)
FormatICAAccountOwner(chainId, role) == <<chainId, role>>

(* RecordsKeeper.GetLatestEpochUnbondingRecord: the highest epoch number.  *)
HasLatest == \E e \in EpochIds : epochs[e] # NoRecord
LatestId ==
    CHOOSE e \in EpochIds : /\ epochs[e] # NoRecord
                            /\ \A f \in EpochIds : epochs[f] # NoRecord => f <= e

(* RecordsKeeper.SetHostZoneEpochUnbondingRecord: reads the record from    *)
(* the store, adds the entry and writes the record back; refuses an epoch  *)
(* with no record and a chain that already has an entry in it.             *)
SetHostZoneEpochUnbondingRecord(eps, id, chainId, hzu) ==
    IF eps[id] = NoRecord \/ eps[id][chainId] # NoEntry
    THEN [didSet |-> FALSE, epochs |-> eps]
    ELSE [didSet |-> TRUE, epochs |-> [eps EXCEPT ![id][chainId] = hzu]]

(* RecordsKeeper.SetEpochUnbondingRecord: replaces the whole record.       *)
SetEpochUnbondingRecord(eps, id, rec) == [eps EXCEPT ![id] = rec]

-----------------------------------------------------------------------------
(* The handler.                                                            *)

(* Mutant: the found check dropped.                                        *)
IsRegisteredUnchecked(chainId) == FALSE

(* GetHostZone found a zone for the chain (lines 24-28).                   *)
IsRegistered(chainId) == zones[chainId] # NoZone

(* Mutant: the chain id stored where the connection id belongs.           *)
NewHostZoneSwapped(conn) == [connectionId |-> ConnChain[conn]]

(* The HostZone built from the message (lines 31-42).                      *)
NewHostZone(conn) == [connectionId |-> conn]

(* Mutant: the loop over account types stops one short.                   *)
ProvisionAccountsShort(reqs, conn, chainId, n) ==
    reqs \o [i \in 1..(n - 1) |-> [conn |-> conn,
                                   owner |-> <<chainId, Roles[i]>>]]

(* The first n account registrations, DELEGATION, FEE, WITHDRAWAL,         *)
(* REDEMPTION, each on the zone's connection (lines 46-73); each is one   *)
(* ICAControllerKeeper.RegisterInterchainAccount that succeeded.          *)
ProvisionAccounts(reqs, conn, chainId, n) ==
    reqs \o [i \in 1..n |-> [conn |-> conn,
                             owner |-> FormatICAAccountOwner(chainId, Roles[i])]]

(* The placeholder HostZoneUnbonding of a new zone (lines 92-97).          *)
UnbondingPlaceholder == [amount |-> 0, status |-> "BONDED"]

(* Lines 77-105: read the latest record, insert the placeholder through    *)
(* SetHostZoneEpochUnbondingRecord, then write back the record read at     *)
(* line 77 with the entries read at line 85.                               *)
UpdateLedger(chainId) ==
    LET id  == LatestId
        rec == epochs[id]
        ins == SetHostZoneEpochUnbondingRecord(epochs, id, chainId, UnbondingPlaceholder)
    IN  [didSet |-> ins.didSet,
         epochs |-> IF ins.didSet THEN SetEpochUnbondingRecord(ins.epochs, id, rec)
                                  ELSE ins.epochs]

(* The end of a call: the result it returns, and the writes it made, which *)
(* the SDK keeps only when the call succeeds if DiscardOnError.            *)
Return(code, chainId, role, z, e, r) ==
    /\ lastResult' = [code |-> code, chain |-> chainId, role |-> role]
    /\ IF code # "OK" /\ DiscardOnError
       THEN UNCHANGED <<zones, epochs, icaRequests>>
       ELSE /\ zones' = z
            /\ epochs' = e
            /\ icaRequests' = r

(* Mutant: the zone is written only after the accounts.                   *)
ProvisioningFailedZoneLast(conn, chainId, k) ==
    Return("AccountProvisioningError", chainId, Roles[k], zones, epochs,
           ProvisionAccounts(icaRequests, conn, chainId, k - 1))

(* Mutant: a failed account is logged and the loop goes on.                *)
ProvisioningFailedContinues(conn, chainId, k) ==
    Return("AccountProvisioningError", chainId, Roles[k],
           [zones EXCEPT ![chainId] = NewHostZone(conn)], epochs,
           ProvisionAccounts(icaRequests, conn, chainId, k - 1)
             \o [i \in 1..(4 - k) |-> [conn |-> conn,
                                       owner |-> <<chainId, Roles[k + i]>>]])

(* Mutant: a failed account is logged and the call reports success.        *)
ProvisioningFailedSwallowed(conn, chainId, k) ==
    Return("OK", chainId, "NONE",
           [zones EXCEPT ![chainId] = NewHostZone(conn)], epochs,
           ProvisionAccounts(icaRequests, conn, chainId, k - 1))

(* Lines 44-73 when the k-th RegisterInterchainAccount fails: the zone is  *)
(* stored, the k-1 accounts before it are asked for, and the error is      *)
(* returned.                                                               *)
ProvisioningFailed(conn, chainId, k) ==
    Return("AccountProvisioningError", chainId, Roles[k],
           [zones EXCEPT ![chainId] = NewHostZone(conn)], epochs,
           ProvisionAccounts(icaRequests, conn, chainId, k - 1))

(* MsgServer.RegisterHostZone (lines 15-132), one disjunct per way out.    *)
RegisterHostZone(conn) ==
    LET chainId == ConnChain[conn]
        zones1  == [zones EXCEPT ![chainId] = NewHostZone(conn)]
        reqs4   == ProvisionAccounts(icaRequests, conn, chainId, 4)
    IN
    \/ /\ chainId = Unknown
       /\ Return("ChainResolutionError", Unknown, "NONE", zones, epochs, icaRequests)
    \/ /\ chainId # Unknown
       /\ IsRegistered(chainId)
       /\ Return("DuplicateHostZone", chainId, "NONE", zones, epochs, icaRequests)
    \/ /\ chainId # Unknown
       /\ ~IsRegistered(chainId)
       /\ \E k \in 1..4 : ProvisioningFailed(conn, chainId, k)
    \/ /\ chainId # Unknown
       /\ ~IsRegistered(chainId)
       /\ ~HasLatest
       /\ Return("NoActiveEpoch", chainId, "NONE", zones1, epochs, reqs4)
    \/ /\ chainId # Unknown
       /\ ~IsRegistered(chainId)
       /\ HasLatest
       /\ LET u == UpdateLedger(chainId)
          IN  Return(IF u.didSet THEN "OK" ELSE "Panic", chainId, "NONE",
                     zones1, u.epochs, reqs4)

(* The epochs module starting an epoch: a new epoch unbonding record, one  *)
(* placeholder per registered host zone (x/records, outside src/).         *)
NewEpoch ==
    LET next == IF HasLatest THEN LatestId + 1 ELSE 0
    IN  /\ next \in EpochIds
        /\ epochs' = [epochs EXCEPT ![next] =
                        [c \in ChainIds |-> IF zones[c] # NoZone
                                            THEN UnbondingPlaceholder ELSE NoEntry]]
        /\ UNCHANGED <<zones, icaRequests, lastResult>>

(* InitGenesis of the records module (app-router/genesis.go lines 14-36):  *)
(* the epoch unbonding records of the genesis file, no host zone yet.      *)
Init ==
    /\ zones = [c \in ChainIds |-> NoZone]
    /\ epochs \in [EpochIds -> EpochUnbondingRecord \cup {NoRecord}]
    /\ icaRequests = <<>>
    /\ lastResult = [code |-> "NONE", chain |-> Unknown, role |-> "NONE"]

Next ==
    \/ \E conn \in Connections : RegisterHostZone(conn)
    \/ NewEpoch

Spec == Init /\ [][Next]_vars

(* The refinement mapping to HostZoneRegistry: a stored zone is its        *)
(* connection, and the ICA requests are the registry's requests.           *)
AbsZones == [c \in ChainIds |-> IF zones[c] = NoZone THEN NoZone ELSE zones[c].connectionId]
Registry == INSTANCE HostZoneRegistry WITH zones <- AbsZones, requests <- icaRequests

-----------------------------------------------------------------------------
(* Properties.                                                             *)

ChainOf(req) == req.owner[1]
RoleIndex(role) == CHOOSE i \in 1..4 : Roles[i] = role

(* Every interchain account the handler asked for belongs to a registered  *)
(* host zone and was asked for on that zone's connection: the zone is      *)
(* written (line 44) before any account is registered (lines 46-73), and   *)
(* no later call replaces it.                                              *)
AccountsBelongToZones ==
    \A i \in 1..Len(icaRequests) :
        /\ zones[ChainOf(icaRequests[i])] # NoZone
        /\ zones[ChainOf(icaRequests[i])].connectionId = icaRequests[i].conn

(* No ICA owner is registered twice: a second RegisterHostZone for a chain *)
(* that already has accounts is turned away before it reaches line 49.     *)
OwnerRequestedOnce ==
    \A i, j \in 1..Len(icaRequests) :
        i # j => icaRequests[i].owner # icaRequests[j].owner

(* Accounts of a zone are asked for in the fixed order, and a failed one   *)
(* ends the call: each role after DELEGATION is asked for only after the   *)
(* role before it was asked for, for the same chain.                       *)
ProvisioningFollowsRoleOrder ==
    \A i \in 1..Len(icaRequests) :
        LET o == icaRequests[i].owner
            k == RoleIndex(o[2])
        IN  k > 1 => \E j \in 1..(i - 1) :
                        icaRequests[j].owner = FormatICAAccountOwner(o[1], Roles[k - 1])

(* A call that returned success left its zone with all four accounts       *)
(* asked for.                                                              *)
SuccessMeansProvisioned ==
    lastResult.code = "OK" =>
        \A r \in RoleSet :
            \E i \in 1..Len(icaRequests) :
                icaRequests[i].owner = FormatICAAccountOwner(lastResult.chain, r)

(* Once a host zone is stored, no step replaces or deletes it.             *)
ZoneNeverRewritten ==
    [][\A c \in ChainIds : zones[c] # NoZone => zones'[c] = zones[c]]_vars

(* Under the SDK's revert of failed messages, registration is all or       *)
(* nothing: every stored zone has all four accounts asked for.             *)
RegistrationAllOrNothing ==
    \A c \in ChainIds : zones[c] # NoZone =>
        \A r \in RoleSet : \E i \in 1..Len(icaRequests) :
            icaRequests[i].owner = FormatICAAccountOwner(c, r)

(* RegisterHostZone implements the registry's contract: every call either  *)
(* changes nothing the registry sees (an error before line 44, a duplicate, *)
(* a reverted failure, an epoch start) or creates one zone together with a *)
(* prefix of its four account requests, and no call ever touches a zone    *)
(* or account that exists.                                                 *)
RegistrySpec == Registry!Spec

(* Spec section 8: after a successful registration the latest epoch        *)
(* unbonding record holds a placeholder entry for the new zone.            *)
RegisteredZoneInLatestEpoch ==
    lastResult.code = "OK" =>
        /\ HasLatest
        /\ epochs[LatestId][lastResult.chain] # NoEntry

(* Spec section 4.3, step 5: once the accounts are asked for and an epoch  *)
(* exists, a duplicate ledger entry is only logged, never a failure.       *)
LedgerConflictIsSoft ==
    lastResult.code # "Panic"

=============================================================================
