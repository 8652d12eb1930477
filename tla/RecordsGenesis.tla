--------------------------- MODULE RecordsGenesis ---------------------------
(***************************************************************************)
(* The records genesis of the app-router module (src/x/app-router/         *)
(* genesis.go): InitGenesis writes the records of a genesis file into the  *)
(* records keeper's store, ExportGenesis reads the store back into a       *)
(* genesis file.                                                           *)
(*                                                                         *)
(* The keeper is outside src/ and modelled at the interface genesis.go     *)
(* uses: each record kind is a store from id to record, Set overwrites the *)
(* record of its id, and GetAll lists the stored records in key order.     *)
(* Deposit records and epoch numbers are keyed by big-endian uint64, so    *)
(* key order is numeric; user redemption ids are modelled as numbers too.  *)
(* A record is its id and a payload; only equality of payloads matters.    *)
(***************************************************************************)
EXTENDS Naturals, Sequences, SequencesExt

CONSTANTS
    Ids,            \* record ids, epoch numbers and deposit ids
    Payloads,       \* the rest of a record
    ParamValues,    \* values of the module's Params
    Counts,         \* values of DepositRecordCount
    MaxList,        \* longest record list of a genesis file
    None            \* no record stored under an id

Record == [id : Ids, payload : Payloads]
RecordList == UNION {[1..n -> Record] : n \in 0..MaxList}

(* types.GenesisState, with the three record lists in its field order.    *)
GenesisState == [userRedemptionRecordList : RecordList,
                 epochUnbondingRecordList : RecordList,
                 params : ParamValues,
                 depositRecordList : RecordList,
                 depositRecordCount : Counts]

Store == [Ids -> Payloads \cup {None}]

VARIABLES
    userRedemptionRecords,   \* the keeper's UserRedemptionRecord store
    epochUnbondingRecords,   \* the keeper's EpochUnbondingRecord store
    params,                  \* the keeper's Params, None before InitGenesis
    depositRecords,          \* the keeper's DepositRecord store
    depositRecordCount,      \* the keeper's DepositRecordCount
    imported,                \* the genesis InitGenesis was given, or None
    exported                 \* the last ExportGenesis result, or None

vars == <<userRedemptionRecords, epochUnbondingRecords, params, depositRecords,
          depositRecordCount, imported, exported>>

EmptyStore == [i \in Ids |-> None]

(* Keeper.Set<Kind>Record: store the record under its id, overwriting.    *)
SetRecord(store, rec) == [store EXCEPT ![rec.id] = rec.payload]

(* A `for _, elem := range list { k.Set...(ctx, elem) }` loop.            *)
SetAll(store, list) == FoldLeft(SetRecord, store, list)

(* Mutant: every id is listed, whether a record is stored under it or not. *)
GetAllUnfiltered(store) ==
    LET ids == SetToSortSeq(Ids, <)
    IN  [k \in 1..Len(ids) |-> [id |-> ids[k], payload |-> store[ids[k]]]]

(* Keeper.GetAll<Kind>Record: the stored records, iterated in key order.  *)
GetAll(store) ==
    LET ids == SetToSortSeq({i \in Ids : store[i] # None}, <)
    IN  [k \in 1..Len(ids) |-> [id |-> ids[k], payload |-> store[ids[k]]]]

(* Mutant: the deposit-record count is not set (line 34 dropped).         *)
InitGenesisNoCount(g) ==
    /\ imported = None
    /\ userRedemptionRecords' = SetAll(userRedemptionRecords, g.userRedemptionRecordList)
    /\ epochUnbondingRecords' = SetAll(epochUnbondingRecords, g.epochUnbondingRecordList)
    /\ params' = g.params
    /\ depositRecords' = SetAll(depositRecords, g.depositRecordList)
    /\ imported' = g
    /\ UNCHANGED <<depositRecordCount, exported>>

(* InitGenesis (lines 14-36), run once on the empty store of a new chain. *)
InitGenesis(g) ==
    /\ imported = None
    /\ userRedemptionRecords' = SetAll(userRedemptionRecords, g.userRedemptionRecordList)
    /\ epochUnbondingRecords' = SetAll(epochUnbondingRecords, g.epochUnbondingRecordList)
    /\ params' = g.params
    /\ depositRecords' = SetAll(depositRecords, g.depositRecordList)
    /\ depositRecordCount' = g.depositRecordCount
    /\ imported' = g
    /\ UNCHANGED exported

(* types.DefaultGenesis: no records, default params, count 0.             *)
DefaultGenesis(defaultParams) ==
    [userRedemptionRecordList |-> <<>>, epochUnbondingRecordList |-> <<>>,
     params |-> defaultParams, depositRecordList |-> <<>>, depositRecordCount |-> 0]

(* ExportGenesis (lines 39-50): DefaultGenesis with every field read back *)
(* from the keeper.  It only reads, and may be run any time after genesis.*)
ExportGenesis ==
    /\ imported # None
    /\ exported' = [DefaultGenesis(params) EXCEPT
                      !.depositRecordList = GetAll(depositRecords),
                      !.depositRecordCount = depositRecordCount,
                      !.userRedemptionRecordList = GetAll(userRedemptionRecords),
                      !.epochUnbondingRecordList = GetAll(epochUnbondingRecords)]
    /\ UNCHANGED <<userRedemptionRecords, epochUnbondingRecords, params,
                   depositRecords, depositRecordCount, imported>>

Init ==
    /\ userRedemptionRecords = EmptyStore
    /\ epochUnbondingRecords = EmptyStore
    /\ params = None
    /\ depositRecords = EmptyStore
    /\ depositRecordCount = 0
    /\ imported = None
    /\ exported = None

Next ==
    \/ \E g \in GenesisState : InitGenesis(g)
    \/ ExportGenesis

Spec == Init /\ [][Next]_vars

-----------------------------------------------------------------------------
(* Properties.                                                            *)

TypeOK ==
    /\ userRedemptionRecords \in Store
    /\ epochUnbondingRecords \in Store
    /\ depositRecords \in Store
    /\ params \in ParamValues \cup {None}
    /\ depositRecordCount \in Counts
    /\ imported \in GenesisState \cup {None}
    /\ exported \in GenesisState \cup {None}

(* A genesis file the records module can take back as it is: each list    *)
(* has its ids strictly increasing, so no id twice and in key order.       *)
Canonical(list) == \A k \in 1..(Len(list) - 1) : list[k].id < list[k + 1].id
CanonicalGenesis(g) ==
    /\ Canonical(g.userRedemptionRecordList)
    /\ Canonical(g.epochUnbondingRecordList)
    /\ Canonical(g.depositRecordList)

(* A genesis file whose lists are in key order without repeated ids comes *)
(* back from InitGenesis then ExportGenesis exactly as it went in: the     *)
(* import/export round trip of a chain upgrade.                            *)
ValidGenesisRoundTrips ==
    (exported # None /\ CanonicalGenesis(imported)) => exported = imported

=============================================================================
