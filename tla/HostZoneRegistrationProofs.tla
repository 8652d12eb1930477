--------------------- MODULE HostZoneRegistrationProofs ---------------------
(***************************************************************************)
(* Proofs about HostZoneRegistration for every value of the constants.    *)
(***************************************************************************)
EXTENDS HostZoneRegistration, TLAPS

(* The account requests of one call are well-typed.                      *)
LEMMA ProvisionAccountsType ==
    ASSUME NEW reqs \in Seq(IcaRequest), NEW conn \in Connections,
           NEW chainId \in ChainIds, NEW n \in 0..4
    PROVE  ProvisionAccounts(reqs, conn, chainId, n) \in Seq(IcaRequest)
<1>1. [i \in 1..n |-> [conn |-> conn,
                       owner |-> FormatICAAccountOwner(chainId, Roles[i])]]
        \in Seq(IcaRequest)
    BY DEF FormatICAAccountOwner, Roles, RoleSet, Owners, IcaRequest
<1>2. QED
    BY <1>1 DEF ProvisionAccounts

(* Whatever a call returns, if the state it would leave is well-typed,    *)
(* the next state is.                                                     *)
LEMMA ReturnType ==
    ASSUME TypeOK,
           NEW code \in Codes, NEW chain \in ChainIds \cup {Unknown},
           NEW role \in RoleSet \cup {"NONE"},
           NEW z \in [ChainIds -> HostZone \cup {NoZone}],
           NEW e \in [EpochIds -> EpochUnbondingRecord \cup {NoRecord}],
           NEW r \in Seq(IcaRequest),
           Return(code, chain, role, z, e, r)
    PROVE  TypeOK'
BY DEF Return, TypeOK

(* The records written by UpdateLedger keep their type.                   *)
LEMMA UpdateLedgerType ==
    ASSUME TypeOK, NEW chainId \in ChainIds
    PROVE  UpdateLedger(chainId).epochs
             \in [EpochIds -> EpochUnbondingRecord \cup {NoRecord}]
<1> DEFINE id == LatestId
<1>1. UpdateLedger(chainId).epochs
        = IF SetHostZoneEpochUnbondingRecord(epochs, id, chainId, UnbondingPlaceholder).didSet
          THEN [epochs EXCEPT ![id] = epochs[id]]
          ELSE epochs
    BY DEF UpdateLedger, SetEpochUnbondingRecord, SetHostZoneEpochUnbondingRecord
<1>2. [epochs EXCEPT ![id] = epochs[id]] = epochs
    BY DEF TypeOK
<1>3. QED
    BY <1>1, <1>2 DEF TypeOK

(* Every step keeps the state well-typed.                                 *)
LEMMA TypeStep == TypeOK /\ [Next]_vars => TypeOK'
<1> SUFFICES ASSUME TypeOK, [Next]_vars PROVE TypeOK'
    OBVIOUS
<1>1. ASSUME NEW conn \in Connections, RegisterHostZone(conn)
      PROVE  TypeOK'
    <2> DEFINE chainId == ConnChain[conn]
               zones1  == [zones EXCEPT ![chainId] = NewHostZone(conn)]
               reqs4   == ProvisionAccounts(icaRequests, conn, chainId, 4)
    <2>1. chainId \in ChainIds \cup {Unknown}
        BY ConstantsAssumption
    <2>2. chainId \in ChainIds =>
            zones1 \in [ChainIds -> HostZone \cup {NoZone}]
        BY DEF TypeOK, NewHostZone, HostZone
    <2>3. chainId \in ChainIds => reqs4 \in Seq(IcaRequest)
        BY ProvisionAccountsType DEF TypeOK
    <2>4. CASE chainId = Unknown
        BY <2>4, ReturnType, <1>1, ConstantsAssumption DEF RegisterHostZone, Codes, TypeOK
    <2>5. CASE chainId # Unknown /\ IsRegistered(chainId)
        BY <2>1, <2>5, ReturnType, <1>1 DEF RegisterHostZone, Codes, TypeOK
    <2>6. CASE chainId # Unknown /\ ~IsRegistered(chainId)
        <3>1. chainId \in ChainIds
            BY <2>1, <2>6
        <3>2. CASE \E k \in 1..4 : ProvisioningFailed(conn, chainId, k)
            <4> PICK k \in 1..4 : ProvisioningFailed(conn, chainId, k)
                BY <3>2
            <4>0. k - 1 \in 0..4
                OBVIOUS
            <4>1. ProvisionAccounts(icaRequests, conn, chainId, k - 1) \in Seq(IcaRequest)
                BY <3>1, <4>0, ProvisionAccountsType DEF TypeOK
            <4>2. Roles[k] \in RoleSet
                BY DEF Roles, RoleSet
            <4>3. QED
                BY <3>1, <2>2, <4>1, <4>2, ReturnType DEF ProvisioningFailed, Codes, TypeOK
        <3>3. CASE ~HasLatest /\ Return("NoActiveEpoch", chainId, "NONE", zones1, epochs, reqs4)
            BY <3>1, <3>3, <2>2, <2>3, ReturnType DEF Codes, TypeOK
        <3>4. CASE HasLatest /\
                   LET u == UpdateLedger(chainId)
                   IN  Return(IF u.didSet THEN "OK" ELSE "Panic", chainId, "NONE",
                              zones1, u.epochs, reqs4)
            BY <3>1, <3>4, <2>2, <2>3, ReturnType, UpdateLedgerType DEF Codes
        <3>5. QED
            BY <2>6, <3>2, <3>3, <3>4, <1>1 DEF RegisterHostZone
    <2>7. QED
        BY <2>1, <2>4, <2>5, <2>6
<1>2. CASE NewEpoch
    <2>1. UnbondingPlaceholder \in HostZoneUnbonding
        BY ConstantsAssumption DEF UnbondingPlaceholder, HostZoneUnbonding
    <2>2. [c \in ChainIds |-> IF zones[c] # NoZone THEN UnbondingPlaceholder ELSE NoEntry]
            \in EpochUnbondingRecord
        BY <2>1 DEF EpochUnbondingRecord
    <2>3. QED
        BY <1>2, <2>2 DEF NewEpoch, TypeOK
<1>3. CASE UNCHANGED vars
    BY <1>3 DEF vars, TypeOK
<1>4. QED
    BY <1>1, <1>2, <1>3 DEF Next

(* Type correctness of the specification.                                 *)
THEOREM TypeCorrect == Spec => []TypeOK
<1>1. Init => TypeOK
    BY ConstantsAssumption DEF Init, TypeOK, Codes
<1>2. QED
    BY <1>1, TypeStep, PTL DEF Spec

-----------------------------------------------------------------------------
(* The account requests against the host-zone store.                      *)

(* AccountsBelongToZones and OwnerRequestedOnce for a store z and a       *)
(* request log r other than the current ones.                             *)
BelongTo(z, r) ==
    \A i \in 1..Len(r) : /\ z[ChainOf(r[i])] # NoZone
                         /\ z[ChainOf(r[i])].connectionId = r[i].conn
Distinct(r) ==
    \A i, j \in 1..Len(r) : i # j => r[i].owner # r[j].owner

(* The inductive invariant: the two properties hold together and need     *)
(* each other, since an owner is fresh only because its chain had no zone *)
(* and so, by BelongTo, no request.                                       *)
IInv == TypeOK /\ BelongTo(zones, icaRequests) /\ Distinct(icaRequests)

(* The four account types are four distinct owners.                      *)
LEMMA RolesDistinct == \A a, b \in 1..4 : a # b => Roles[a] # Roles[b]
BY DEF Roles

(* Registering the accounts of a chain that has no zone, on its new zone, *)
(* keeps both properties: old requests belong to other chains and new     *)
(* ones have distinct account types.                                     *)
LEMMA FreshZoneRequests ==
    ASSUME TypeOK, BelongTo(zones, icaRequests), Distinct(icaRequests),
           NEW conn \in Connections, NEW chainId \in ChainIds,
           zones[chainId] = NoZone, NEW n \in 0..4
    PROVE  LET z == [zones EXCEPT ![chainId] = NewHostZone(conn)]
               r == ProvisionAccounts(icaRequests, conn, chainId, n)
           IN  BelongTo(z, r) /\ Distinct(r)
<1> DEFINE L   == Len(icaRequests)
           new == [i \in 1..n |-> [conn |-> conn, owner |-> <<chainId, Roles[i]>>]]
           z   == [zones EXCEPT ![chainId] = NewHostZone(conn)]
           r   == icaRequests \o new
<1>1. ProvisionAccounts(icaRequests, conn, chainId, n) = r
    BY DEF ProvisionAccounts, FormatICAAccountOwner
<1>2. /\ Len(r) = L + n
      /\ \A i \in 1..L : r[i] = icaRequests[i]
      /\ \A i \in (L + 1)..(L + n) : r[i] = new[i - L]
    BY DEF TypeOK
<1>3. \A i \in 1..L : ChainOf(icaRequests[i]) # chainId
    BY DEF BelongTo
<1>4. \A i \in 1..L : ChainOf(icaRequests[i]) \in ChainIds
    <2>1. \A i \in 1..L : icaRequests[i] \in IcaRequest
        BY DEF TypeOK
    <2>2. QED
        BY <2>1 DEF IcaRequest, Owners, ChainOf
<1>5. BelongTo(z, r)
    <2> SUFFICES ASSUME NEW i \in 1..Len(r)
                 PROVE  /\ z[ChainOf(r[i])] # NoZone
                        /\ z[ChainOf(r[i])].connectionId = r[i].conn
        BY DEF BelongTo
    <2>1. CASE i \in 1..L
        BY <2>1, <1>2, <1>3, <1>4 DEF BelongTo
    <2>2. CASE i \in (L + 1)..(L + n)
        <3>1. i - L \in 1..n
            BY <2>2 DEF TypeOK
        <3>2. r[i] = [conn |-> conn, owner |-> <<chainId, Roles[i - L]>>]
            BY <2>2, <3>1, <1>2
        <3>3. z[chainId] = NewHostZone(conn)
            BY DEF TypeOK
        <3>4. QED
            BY <3>2, <3>3, ConstantsAssumption DEF ChainOf, NewHostZone
    <2>3. QED
        BY <2>1, <2>2, <1>2 DEF TypeOK
<1>6. Distinct(r)
    <2> SUFFICES ASSUME NEW i \in 1..Len(r), NEW j \in 1..Len(r), i # j
                 PROVE  r[i].owner # r[j].owner
        BY DEF Distinct
    <2>1. CASE i \in 1..L /\ j \in 1..L
        BY <2>1, <1>2 DEF Distinct
    <2>2. CASE i \in 1..L /\ j \in (L + 1)..(L + n)
        BY <2>2, <1>2, <1>3 DEF ChainOf
    <2>3. CASE i \in (L + 1)..(L + n) /\ j \in 1..L
        BY <2>3, <1>2, <1>3 DEF ChainOf
    <2>4. CASE i \in (L + 1)..(L + n) /\ j \in (L + 1)..(L + n)
        <3>1. /\ i - L \in 1..4 /\ j - L \in 1..4 /\ i - L # j - L
              /\ i - L \in 1..n /\ j - L \in 1..n
            BY <2>4 DEF TypeOK
        <3> HIDE DEF r, new
        <3>2. r[i] = new[i - L] /\ r[j] = new[j - L]
            BY <2>4, <1>2
        <3>3. /\ new[i - L].owner = <<chainId, Roles[i - L]>>
              /\ new[j - L].owner = <<chainId, Roles[j - L]>>
            BY <3>1 DEF new
        <3>4. Roles[i - L] # Roles[j - L]
            BY <3>1, RolesDistinct, SMTT(20)
        <3>5. QED
            BY <3>2, <3>3, <3>4
    <2>5. QED
        BY <2>1, <2>2, <2>3, <2>4, <1>2 DEF TypeOK
<1>7. QED
    BY <1>1, <1>5, <1>6

(* A call ends with the writes it made or, when the SDK discards them, with *)
(* none: either way both properties hold after it if they hold of the      *)
(* writes and before it.                                                   *)
LEMMA ReturnKeeps ==
    ASSUME BelongTo(zones, icaRequests), Distinct(icaRequests),
           NEW code, NEW chain, NEW role, NEW z, NEW e, NEW r,
           BelongTo(z, r), Distinct(r),
           Return(code, chain, role, z, e, r)
    PROVE  BelongTo(zones', icaRequests') /\ Distinct(icaRequests')
BY DEF Return

(* Every step keeps the inductive invariant.                              *)
LEMMA IInvStep == IInv /\ [Next]_vars => IInv'
<1> SUFFICES ASSUME IInv, [Next]_vars PROVE IInv'
    OBVIOUS
<1>1. TypeOK'
    BY TypeStep DEF IInv
<1>2. ASSUME NEW conn \in Connections, RegisterHostZone(conn)
      PROVE  BelongTo(zones', icaRequests') /\ Distinct(icaRequests')
    <2> DEFINE chainId == ConnChain[conn]
               zones1  == [zones EXCEPT ![chainId] = NewHostZone(conn)]
    <2>1. chainId \in ChainIds \cup {Unknown}
        BY ConstantsAssumption
    <2>2. CASE chainId = Unknown \/ IsRegistered(chainId)
        <3>1. Return("ChainResolutionError", Unknown, "NONE", zones, epochs, icaRequests)
              \/ Return("DuplicateHostZone", chainId, "NONE", zones, epochs, icaRequests)
            BY <2>2, <1>2 DEF RegisterHostZone, IsRegistered
        <3>2. QED
            BY <3>1, ReturnKeeps DEF IInv
    <2>3. CASE chainId # Unknown /\ ~IsRegistered(chainId)
        <3>1. chainId \in ChainIds /\ zones[chainId] = NoZone
            BY <2>1, <2>3 DEF IsRegistered
        <3>2. \A n \in 0..4 :
                LET r == ProvisionAccounts(icaRequests, conn, chainId, n)
                IN  BelongTo(zones1, r) /\ Distinct(r)
            BY <3>1, FreshZoneRequests DEF IInv
        <3>3. \E code, chain, role, e : \E n \in 0..4 :
                Return(code, chain, role, zones1, e,
                       ProvisionAccounts(icaRequests, conn, chainId, n))
            BY <2>3, <1>2 DEF RegisterHostZone, ProvisioningFailed
        <3>4. QED
            BY <3>2, <3>3, ReturnKeeps DEF IInv
    <2>4. QED
        BY <2>2, <2>3
<1>3. CASE NewEpoch
    BY <1>1, <1>3 DEF NewEpoch, IInv, BelongTo, Distinct
<1>4. CASE UNCHANGED vars
    BY <1>1, <1>4 DEF vars, IInv, BelongTo, Distinct
<1>5. QED
    BY <1>1, <1>2, <1>3, <1>4 DEF Next, IInv

(* Every interchain account asked for belongs to the registered zone of   *)
(* its chain, on that zone's connection, and no ICA owner is asked for    *)
(* twice, whatever the chains, connections and epochs, and whether or not *)
(* the SDK discards the writes of a failed RegisterHostZone.              *)
THEOREM RequestsMatchZones == Spec => [](AccountsBelongToZones /\ OwnerRequestedOnce)
<1>1. Init => IInv
    BY ConstantsAssumption DEF Init, IInv, TypeOK, Codes, BelongTo, Distinct
<1>2. IInv => AccountsBelongToZones /\ OwnerRequestedOnce
    BY DEF IInv, BelongTo, Distinct, AccountsBelongToZones, OwnerRequestedOnce
<1>3. QED
    BY <1>1, <1>2, IInvStep, PTL DEF Spec


-----------------------------------------------------------------------------
(* What one RegisterHostZone call can do, and the requests it appends.    *)

(* A chain the handler may register: resolved and without a zone.         *)
Fresh(chainId) == chainId \in ChainIds /\ zones[chainId] = NoZone

(* The three outcomes of a call, as far as the zones, the request log and *)
(* the result code go: nothing written; (writes kept only without the     *)
(* SDK's revert) the zone and the first n accounts with an error or a     *)
(* panic; the zone and all four accounts with success.                    *)
LEMMA RegisterOutcome ==
    ASSUME TypeOK, NEW conn \in Connections, RegisterHostZone(conn)
    PROVE  LET chainId == ConnChain[conn]
               zones1  == [zones EXCEPT ![chainId] = NewHostZone(conn)]
           IN  \/ /\ zones' = zones /\ icaRequests' = icaRequests
                  /\ lastResult'.code # "OK"
               \/ /\ ~DiscardOnError /\ Fresh(chainId) /\ zones' = zones1
                  /\ \E n \in 0..4 :
                       icaRequests' = ProvisionAccounts(icaRequests, conn, chainId, n)
                  /\ lastResult'.code # "OK"
               \/ /\ Fresh(chainId) /\ zones' = zones1
                  /\ icaRequests' = ProvisionAccounts(icaRequests, conn, chainId, 4)
                  /\ lastResult' = [code |-> "OK", chain |-> chainId, role |-> "NONE"]
<1> DEFINE chainId == ConnChain[conn]
           zones1  == [zones EXCEPT ![chainId] = NewHostZone(conn)]
           reqs4   == ProvisionAccounts(icaRequests, conn, chainId, 4)
<1>1. chainId \in ChainIds \cup {Unknown}
    BY ConstantsAssumption
<1>2. CASE chainId = Unknown \/ IsRegistered(chainId)
    BY <1>2 DEF RegisterHostZone, IsRegistered, Return
<1>3. CASE chainId # Unknown /\ ~IsRegistered(chainId)
    <2>1. Fresh(chainId)
        BY <1>1, <1>3 DEF IsRegistered, Fresh
    <2>2. CASE \E k \in 1..4 : ProvisioningFailed(conn, chainId, k)
        <3> PICK k \in 1..4 : ProvisioningFailed(conn, chainId, k)
            BY <2>2
        <3>1. k - 1 \in 0..4
            OBVIOUS
        <3>2. QED
            BY <2>1, <3>1 DEF ProvisioningFailed, Return
    <2>3. CASE ~HasLatest /\ Return("NoActiveEpoch", chainId, "NONE", zones1, epochs, reqs4)
        BY <2>1, <2>3 DEF Return
    <2>4. CASE HasLatest /\
               LET u == UpdateLedger(chainId)
               IN  Return(IF u.didSet THEN "OK" ELSE "Panic", chainId, "NONE",
                          zones1, u.epochs, reqs4)
        <3> DEFINE u == UpdateLedger(chainId)
        <3>1. CASE u.didSet
            BY <2>1, <2>4, <3>1 DEF Return
        <3>2. CASE ~u.didSet
            BY <2>1, <2>4, <3>2 DEF Return
        <3>3. QED
            BY <3>1, <3>2
    <2>5. QED
        BY <1>3, <2>2, <2>3, <2>4 DEF RegisterHostZone
<1>4. QED
    BY <1>1, <1>2, <1>3

(* The fixed order names each account type once: its index is its place.  *)
LEMMA RoleIndexOf == \A m \in 1..4 : RoleIndex(Roles[m]) = m
BY RolesDistinct DEF RoleIndex


-----------------------------------------------------------------------------
(* A call that reports success has asked for all four accounts.           *)

(* The four accounts of a chain are the last four requests of a call that *)
(* provisioned it completely.                                              *)
LEMMA FullProvisioning ==
    ASSUME NEW reqs \in Seq(IcaRequest), NEW conn \in Connections,
           NEW chainId \in ChainIds
    PROVE  \A r \in RoleSet : \E i \in 1..Len(ProvisionAccounts(reqs, conn, chainId, 4)) :
             ProvisionAccounts(reqs, conn, chainId, 4)[i].owner
               = FormatICAAccountOwner(chainId, r)
<1> SUFFICES ASSUME NEW r \in RoleSet
             PROVE  \E i \in 1..Len(ProvisionAccounts(reqs, conn, chainId, 4)) :
                      ProvisionAccounts(reqs, conn, chainId, 4)[i].owner
                        = FormatICAAccountOwner(chainId, r)
    OBVIOUS
<1>1. PICK m \in 1..4 : Roles[m] = r
    BY DEF RoleSet, Roles
<1>2. /\ Len(ProvisionAccounts(reqs, conn, chainId, 4)) = Len(reqs) + 4
      /\ ProvisionAccounts(reqs, conn, chainId, 4)[Len(reqs) + m]
           = [conn |-> conn, owner |-> <<chainId, Roles[m]>>]
    BY DEF ProvisionAccounts, FormatICAAccountOwner
<1>3. Len(reqs) + m \in 1..Len(ProvisionAccounts(reqs, conn, chainId, 4))
    BY <1>2
<1>4. QED
    BY <1>1, <1>2, <1>3 DEF FormatICAAccountOwner

(* SuccessMeansProvisioned with the type invariant is inductive: a call   *)
(* that returns "OK" took the last exit, after all four registrations, and *)
(* the next call replaces lastResult.                                     *)
THEOREM SuccessProvisioned == Spec => []SuccessMeansProvisioned
<1>1. Init => SuccessMeansProvisioned
    BY DEF Init, SuccessMeansProvisioned
<1>2. TypeOK /\ SuccessMeansProvisioned /\ [Next]_vars => SuccessMeansProvisioned'
    <2> SUFFICES ASSUME TypeOK, SuccessMeansProvisioned, [Next]_vars
                 PROVE  SuccessMeansProvisioned'
        OBVIOUS
    <2>1. ASSUME NEW conn \in Connections, RegisterHostZone(conn)
          PROVE  SuccessMeansProvisioned'
        <3> DEFINE chainId == ConnChain[conn]
        <3>1. CASE lastResult'.code # "OK"
            BY <3>1 DEF SuccessMeansProvisioned
        <3>2. CASE /\ Fresh(chainId)
                   /\ icaRequests' = ProvisionAccounts(icaRequests, conn, chainId, 4)
                   /\ lastResult' = [code |-> "OK", chain |-> chainId, role |-> "NONE"]
            <4>1. \A r \in RoleSet :
                    \E i \in 1..Len(ProvisionAccounts(icaRequests, conn, chainId, 4)) :
                      ProvisionAccounts(icaRequests, conn, chainId, 4)[i].owner
                        = FormatICAAccountOwner(chainId, r)
                BY <3>2, FullProvisioning DEF Fresh, TypeOK
            <4>2. QED
                BY <3>2, <4>1 DEF SuccessMeansProvisioned
        <3>3. QED
            BY <2>1, <3>1, <3>2, RegisterOutcome
    <2>2. CASE NewEpoch \/ UNCHANGED vars
        BY <2>2 DEF NewEpoch, vars, SuccessMeansProvisioned
    <2>3. QED
        BY <2>1, <2>2 DEF Next
<1>3. QED
    BY <1>1, <1>2, TypeCorrect, PTL DEF Spec

-----------------------------------------------------------------------------
(* Account types are asked for in the fixed order.                        *)

(* ProvisioningFollowsRoleOrder for a request log r other than the current *)
RoleOrdered(r) ==
    \A i \in 1..Len(r) :
        LET o == r[i].owner
            k == RoleIndex(o[2])
        IN  k > 1 => \E j \in 1..(i - 1) :
                        r[j].owner = FormatICAAccountOwner(o[1], Roles[k - 1])

(* Appending the first n account types of a chain keeps the log ordered:  *)
(* the m-th new request, for m > 1, follows the (m-1)-th.                  *)
LEMMA AppendKeepsRoleOrder ==
    ASSUME NEW reqs \in Seq(IcaRequest), RoleOrdered(reqs),
           NEW conn \in Connections, NEW chainId \in ChainIds, NEW n \in 0..4
    PROVE  RoleOrdered(ProvisionAccounts(reqs, conn, chainId, n))
<1> DEFINE L == Len(reqs)
           r == ProvisionAccounts(reqs, conn, chainId, n)
<1>1. /\ Len(r) = L + n
      /\ \A i \in 1..L : r[i] = reqs[i]
      /\ \A m \in 1..n : r[L + m] = [conn |-> conn, owner |-> <<chainId, Roles[m]>>]
    BY DEF ProvisionAccounts, FormatICAAccountOwner
<1> SUFFICES ASSUME NEW i \in 1..Len(r),
                    RoleIndex(r[i].owner[2]) > 1
             PROVE  \E j \in 1..(i - 1) :
                      r[j].owner = FormatICAAccountOwner(r[i].owner[1],
                                                         Roles[RoleIndex(r[i].owner[2]) - 1])
    BY DEF RoleOrdered
<1>2. CASE i \in 1..L
    <2>1. PICK j \in 1..(i - 1) :
            reqs[j].owner = FormatICAAccountOwner(reqs[i].owner[1],
                                                  Roles[RoleIndex(reqs[i].owner[2]) - 1])
        BY <1>1, <1>2 DEF RoleOrdered
    <2>2. j \in 1..L
        BY <1>2
    <2>3. QED
        BY <1>1, <1>2, <2>1, <2>2
<1>3. CASE i \in (L + 1)..(L + n)
    <2> DEFINE p == i - L
    <2>1. p \in 1..n /\ i = L + p
        BY <1>3
    <2>2. r[i].owner = <<chainId, Roles[p]>>
        BY <2>1 DEF ProvisionAccounts, FormatICAAccountOwner
    <2>3. RoleIndex(r[i].owner[2]) = p
        BY <2>1, <2>2, RoleIndexOf
    <2>4. p - 1 \in 1..n /\ i - 1 = L + (p - 1)
        BY <2>1, <2>3
    <2>5. r[i - 1].owner = <<chainId, Roles[p - 1]>>
        BY <2>4 DEF ProvisionAccounts, FormatICAAccountOwner
    <2>6. i - 1 \in 1..(i - 1)
        BY <2>4
    <2>7. QED
        BY <2>2, <2>3, <2>5, <2>6 DEF FormatICAAccountOwner
<1>4. QED
    BY <1>1, <1>2, <1>3

(* ProvisioningFollowsRoleOrder for every value of the constants and both *)
(* revert semantics: the loop of lines 46-73 asks for the account types in *)
(* the fixed order and stops at the first failure, so no account type is  *)
(* ever asked for before the one that precedes it, for the same chain.    *)
THEOREM RoleOrder == Spec => []ProvisioningFollowsRoleOrder
<1>1. Init => RoleOrdered(icaRequests)
    BY DEF Init, RoleOrdered
<1>2. TypeOK /\ RoleOrdered(icaRequests) /\ [Next]_vars => RoleOrdered(icaRequests)'
    <2> SUFFICES ASSUME TypeOK, RoleOrdered(icaRequests), [Next]_vars
                 PROVE  RoleOrdered(icaRequests')
        OBVIOUS
    <2>1. ASSUME NEW conn \in Connections, RegisterHostZone(conn)
          PROVE  RoleOrdered(icaRequests')
        <3> DEFINE chainId == ConnChain[conn]
        <3>1. CASE icaRequests' = icaRequests
            BY <3>1
        <3>2. CASE Fresh(chainId) /\ \E n \in 0..4 :
                     icaRequests' = ProvisionAccounts(icaRequests, conn, chainId, n)
            BY <3>2, AppendKeepsRoleOrder DEF Fresh, TypeOK
        <3>3. QED
            BY <2>1, <3>1, <3>2, RegisterOutcome
    <2>2. CASE NewEpoch \/ UNCHANGED vars
        BY <2>2 DEF NewEpoch, vars
    <2>3. QED
        BY <2>1, <2>2 DEF Next
<1>3. RoleOrdered(icaRequests) => ProvisioningFollowsRoleOrder
    BY DEF RoleOrdered, ProvisioningFollowsRoleOrder
<1>4. QED
    BY <1>1, <1>2, <1>3, TypeCorrect, PTL DEF Spec


-----------------------------------------------------------------------------
(* Under the SDK's revert, registration is all or nothing.                *)

(* ProvisionAccounts only appends: every earlier request keeps its place.  *)
LEMMA ProvisionKeepsPrefix ==
    ASSUME NEW reqs \in Seq(IcaRequest), NEW conn \in Connections,
           NEW chainId \in ChainIds, NEW n \in 0..4, NEW i \in 1..Len(reqs)
    PROVE  /\ i \in 1..Len(ProvisionAccounts(reqs, conn, chainId, n))
           /\ ProvisionAccounts(reqs, conn, chainId, n)[i] = reqs[i]
BY DEF ProvisionAccounts

(* RegistrationAllOrNothing for every value of the other constants when   *)
(* the SDK discards the writes of a failed message: a zone is stored only  *)
(* by a call that returned "OK", past all four registrations of lines     *)
(* 46-73, and later calls only append to the request log.                 *)
THEOREM RevertedRegistrationComplete ==
    ASSUME DiscardOnError
    PROVE  Spec => []RegistrationAllOrNothing
<1>1. Init => RegistrationAllOrNothing
    BY DEF Init, RegistrationAllOrNothing
<1>2. TypeOK /\ RegistrationAllOrNothing /\ [Next]_vars => RegistrationAllOrNothing'
    <2> SUFFICES ASSUME TypeOK, RegistrationAllOrNothing, [Next]_vars
                 PROVE  RegistrationAllOrNothing'
        OBVIOUS
    <2>1. ASSUME NEW conn \in Connections, RegisterHostZone(conn)
          PROVE  RegistrationAllOrNothing'
        <3> DEFINE chainId == ConnChain[conn]
                   reqs4   == ProvisionAccounts(icaRequests, conn, chainId, 4)
        <3>1. CASE zones' = zones /\ icaRequests' = icaRequests
            BY <3>1 DEF RegistrationAllOrNothing
        <3>2. CASE /\ Fresh(chainId)
                   /\ zones' = [zones EXCEPT ![chainId] = NewHostZone(conn)]
                   /\ icaRequests' = reqs4
            <4> SUFFICES ASSUME NEW c \in ChainIds, zones'[c] # NoZone,
                                NEW r \in RoleSet
                         PROVE  \E i \in 1..Len(reqs4) :
                                  reqs4[i].owner = FormatICAAccountOwner(c, r)
                BY <3>2 DEF RegistrationAllOrNothing
            <4>1. CASE c = chainId
                <5>1. \A r2 \in RoleSet : \E i \in 1..Len(reqs4) :
                        reqs4[i].owner = FormatICAAccountOwner(chainId, r2)
                    BY <3>2, FullProvisioning DEF Fresh, TypeOK
                <5>2. QED
                    BY <4>1, <5>1
            <4>2. CASE c # chainId
                <5>1. zones[c] # NoZone
                    BY <3>2, <4>2 DEF TypeOK
                <5>2. PICK i \in 1..Len(icaRequests) :
                        icaRequests[i].owner = FormatICAAccountOwner(c, r)
                    BY <5>1 DEF RegistrationAllOrNothing
                <5>3. i \in 1..Len(reqs4) /\ reqs4[i] = icaRequests[i]
                    BY <3>2, ProvisionKeepsPrefix, SMTT(20) DEF Fresh, TypeOK
                <5>4. QED
                    BY <5>2, <5>3
            <4>3. QED
                BY <4>1, <4>2
        <3>3. QED
            BY <2>1, <3>1, <3>2, RegisterOutcome
    <2>2. CASE NewEpoch \/ UNCHANGED vars
        BY <2>2 DEF NewEpoch, vars, RegistrationAllOrNothing
    <2>3. QED
        BY <2>1, <2>2 DEF Next
<1>3. QED
    BY <1>1, <1>2, TypeCorrect, PTL DEF Spec

(* OwnerRequestedOnce on its own, as a consequence of RequestsMatchZones.  *)
COROLLARY OwnerNeverRequestedTwice == Spec => []OwnerRequestedOnce
BY RequestsMatchZones, PTL


-----------------------------------------------------------------------------
(* RegisterHostZone implements the registry's contract.                   *)

(* Writing a fresh chain's zone and asking for its first n accounts is a   *)
(* Register step of the registry under the refinement mapping.            *)
LEMMA FreshZoneIsRegister ==
    ASSUME TypeOK, NEW conn \in Connections, NEW n \in 0..4,
           ConnChain[conn] \in ChainIds, zones[ConnChain[conn]] = NoZone,
           zones' = [zones EXCEPT ![ConnChain[conn]] = NewHostZone(conn)],
           icaRequests' = ProvisionAccounts(icaRequests, conn, ConnChain[conn], n)
    PROVE  Registry!Register(conn, n)
<1> DEFINE c == ConnChain[conn]
<1>1. c # Unknown
    BY ConstantsAssumption
<1>2. AbsZones[c] = NoZone
    BY DEF AbsZones
<1>3. AbsZones' = [AbsZones EXCEPT ![c] = conn]
    <2>1. NewHostZone(conn) # NoZone
        BY ConstantsAssumption DEF NewHostZone
    <2>2. QED
        BY <2>1 DEF AbsZones, NewHostZone, TypeOK
<1>4. icaRequests' = icaRequests \o [i \in 1..n |-> [conn |-> conn,
                                                     owner |-> <<c, Registry!Roles[i]>>]]
    BY DEF ProvisionAccounts, FormatICAAccountOwner, Roles, Registry!Roles
<1>5. QED
    BY <1>1, <1>2, <1>3, <1>4 DEF Registry!Register

(* A call that leaves zones and requests as they were is a registry stutter. *)
LEMMA KeepIsStutter ==
    ASSUME zones' = zones, icaRequests' = icaRequests
    PROVE  UNCHANGED Registry!vars
BY DEF Registry!vars, AbsZones

(* Every step of the handler is a Register step or a stutter of the        *)
(* registry, including the failed calls whose writes the SDK keeps.        *)
LEMMA RefinementStep == TypeOK /\ [Next]_vars => [Registry!Next]_Registry!vars
<1> SUFFICES ASSUME TypeOK, [Next]_vars PROVE [Registry!Next]_Registry!vars
    OBVIOUS
<1>1. ASSUME NEW conn \in Connections, RegisterHostZone(conn)
      PROVE  [Registry!Next]_Registry!vars
    <2> DEFINE chainId == ConnChain[conn]
               zones1  == [zones EXCEPT ![chainId] = NewHostZone(conn)]
    <2>1. chainId \in ChainIds \cup {Unknown}
        BY ConstantsAssumption
    <2>2. CASE chainId = Unknown \/ IsRegistered(chainId)
        <3>1. zones' = zones /\ icaRequests' = icaRequests
            BY <2>2, <1>1 DEF RegisterHostZone, IsRegistered, Return
        <3>2. QED
            BY <3>1, KeepIsStutter
    <2>3. CASE chainId # Unknown /\ ~IsRegistered(chainId)
        <3>1. chainId \in ChainIds /\ zones[chainId] = NoZone
            BY <2>1, <2>3 DEF IsRegistered
        <3>2. \/ zones' = zones /\ icaRequests' = icaRequests
              \/ \E n \in 0..4 :
                   /\ zones' = zones1
                   /\ icaRequests' = ProvisionAccounts(icaRequests, conn, chainId, n)
            BY <2>3, <1>1 DEF RegisterHostZone, ProvisioningFailed, Return
        <3>3. CASE zones' = zones /\ icaRequests' = icaRequests
            BY <3>3, KeepIsStutter
        <3>4. CASE \E n \in 0..4 :
                   /\ zones' = zones1
                   /\ icaRequests' = ProvisionAccounts(icaRequests, conn, chainId, n)
            <4> PICK n \in 0..4 :
                   /\ zones' = zones1
                   /\ icaRequests' = ProvisionAccounts(icaRequests, conn, chainId, n)
                BY <3>4
            <4>1. Registry!Register(conn, n)
                BY <3>1, FreshZoneIsRegister
            <4>2. QED
                BY <4>1 DEF Registry!Next
        <3>5. QED
            BY <3>2, <3>3, <3>4
    <2>4. QED
        BY <2>1, <2>2, <2>3
<1>2. CASE NewEpoch
    BY <1>2, KeepIsStutter DEF NewEpoch
<1>3. CASE UNCHANGED vars
    BY <1>3, KeepIsStutter DEF vars
<1>4. QED
    BY <1>1, <1>2, <1>3 DEF Next

(* RegistrySpec for every value of the constants, whether or not the SDK  *)
(* discards the writes of a failed RegisterHostZone: the handler's zones  *)
(* and ICA requests only ever change the way the registry contract allows. *)
THEOREM ImplementsRegistry == Spec => RegistrySpec
<1>1. Init => Registry!Init
    BY DEF Init, Registry!Init, AbsZones
<1>2. QED
    BY <1>1, RefinementStep, TypeCorrect, PTL DEF Spec, RegistrySpec, Registry!Spec


-----------------------------------------------------------------------------
(* Stored host zones are never rewritten.                                 *)

(* The step part of ZoneNeverRewritten: a step writes zones only through   *)
(* the EXCEPT on a chain that IsRegistered found without a zone.           *)
LEMMA ZoneStep ==
    TypeOK /\ [Next]_vars =>
        \A c \in ChainIds : zones[c] # NoZone => zones'[c] = zones[c]
<1> SUFFICES ASSUME TypeOK, [Next]_vars, NEW c \in ChainIds, zones[c] # NoZone
             PROVE  zones'[c] = zones[c]
    OBVIOUS
<1>1. ASSUME NEW conn \in Connections, RegisterHostZone(conn)
      PROVE  zones'[c] = zones[c]
    <2> DEFINE chainId == ConnChain[conn]
    <2>1. \/ zones' = zones
          \/ /\ chainId # Unknown /\ ~IsRegistered(chainId)
             /\ zones' = [zones EXCEPT ![chainId] = NewHostZone(conn)]
        BY <1>1 DEF RegisterHostZone, ProvisioningFailed, Return
    <2>2. CASE zones' = zones
        BY <2>2
    <2>3. CASE /\ chainId # Unknown /\ ~IsRegistered(chainId)
               /\ zones' = [zones EXCEPT ![chainId] = NewHostZone(conn)]
        <3>1. c # chainId
            BY <2>3 DEF IsRegistered
        <3>2. QED
            BY <2>3, <3>1 DEF TypeOK
    <2>4. QED
        BY <2>1, <2>2, <2>3
<1>2. CASE NewEpoch \/ UNCHANGED vars
    BY <1>2 DEF NewEpoch, vars
<1>3. QED
    BY <1>1, <1>2 DEF Next

(* ZoneNeverRewritten for every value of the constants and both revert    *)
(* semantics: once SetHostZone (line 44) has stored a chain's zone, no     *)
(* later RegisterHostZone or epoch start replaces or deletes it.           *)
THEOREM ZoneWrittenOnce == Spec => ZoneNeverRewritten
<1>1. [][TypeOK /\ [Next]_vars]_vars => ZoneNeverRewritten
    <2>1. TypeOK /\ [Next]_vars =>
            [\A c \in ChainIds : zones[c] # NoZone => zones'[c] = zones[c]]_vars
        BY ZoneStep
    <2>2. QED
        BY <2>1, PTL DEF ZoneNeverRewritten
<1>2. QED
    BY <1>1, TypeCorrect, PTL DEF Spec

=============================================================================
