------------------------- MODULE MC_RecordsGenesis -------------------------
(* RecordsGenesis on two ids and two payloads.  The deposit list holds up  *)
(* to two records: enough for a repeated id, with either payload last, and *)
(* both orders of two distinct ids.  The other two lists, written by the   *)
(* same loop, hold at most one.                                            *)
EXTENDS RecordsGenesis

CONSTANTS p1, p2

MCPayloads == {p1, p2}
MCParamValues == {"default", "custom"}
MCCounts == {0, 3}
ShortList == UNION {[1..n -> Record] : n \in 0..1}
MCGenesisState == [userRedemptionRecordList : ShortList,
                   epochUnbondingRecordList : ShortList,
                   params : ParamValues,
                   depositRecordList : RecordList,
                   depositRecordCount : Counts]
====
