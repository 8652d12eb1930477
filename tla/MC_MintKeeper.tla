--------------------------- MODULE MC_MintKeeper ---------------------------
(* A mint-keeper instance: proportions over 10, two hooks implementations, *)
(* the two submodules of the mint module.                                  *)
EXTENDS MintKeeper, TLC

CONSTANTS h1, h2

(* 30% staking, 30% strategic reserve, 30% growth, 10% security budget.   *)
MC_Proportions ==
    ("staking" :> 3) @@ ("strategicReserve" :> 3)
      @@ ("communityPoolGrowth" :> 3) @@ ("communityPoolSecurityBudget" :> 1)

MC_Submodules == {"communityGrowth", "securityBudget"}
=============================================================================
