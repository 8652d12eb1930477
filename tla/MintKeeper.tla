----------------------------- MODULE MintKeeper -----------------------------
(***************************************************************************)
(* The x/mint keeper (src/x/mint/keeper/keeper.go): minting coins into the *)
(* mint module account and DistributeMintedCoin, which splits a minted     *)
(* coin between the fee collector (staking), the strategic reserve and the *)
(* two community pools, and sweeps what truncation leaves to the growth    *)
(* pool; also its stored last-reduction epoch, its hooks and its submodule *)
(* accounts.                                                               *)
(*                                                                         *)
(* Amounts are integers of one denom.  A proportion is an sdk.Dec, here    *)
(* the integer numerator over Denominator: amount.ToDec().Mul(ratio) is    *)
(* exact at 18 decimals, so TruncateInt is integer division.  The bank     *)
(* refuses a send to a blocked address and a send above the sender's      *)
(* balance; Blocked, the addresses the app blocks, is fixed at start-up.   *)
(***************************************************************************)
EXTENDS Integers, FiniteSets

CONSTANTS
    Denominator,    \* 10^precision of the proportions
    Proportions,    \* DistributionProportions, numerators over Denominator
    MintAmounts,    \* amounts BeginBlocker may mint in one epoch
    MaxSupply,      \* bound on the total minted, to keep the model finite
    EpochNums,      \* epoch numbers passed to SetLastReductionEpochNum
    Hooks,          \* MintHooks implementations
    NoHooks,        \* k.hooks == nil
    Submodules      \* submodule names given to SetupNewModuleAccount

Shares == {"staking", "strategicReserve", "communityPoolGrowth",
           "communityPoolSecurityBudget"}

ASSUME ParamsAssumption ==
    /\ Denominator \in Nat \ {0}
    /\ Proportions \in [Shares -> Nat]
    /\ MintAmounts \subseteq Nat
    /\ MaxSupply \in Nat
    /\ EpochNums \subseteq Nat
    /\ NoHooks \notin Hooks

(* The accounts a distribution touches.                                    *)
Mint == "mint"
FeeCollector == "feeCollector"
StrategicReserve == "strategicReserve"
CommunityGrowth == "communityGrowth"
SecurityBudget == "securityBudget"
Accounts == {Mint, FeeCollector, StrategicReserve, CommunityGrowth, SecurityBudget}
(* Recipients reached through SendCoinsFromModuleToAccount.                 *)
AccountRecipients == {StrategicReserve, CommunityGrowth, SecurityBudget}

Codes == {"NONE", "OK", "Error", "Panic"}

VARIABLES
    balances,     \* bank balances of the accounts
    supply,       \* total supply of the denom
    blocked,      \* the bank's blocked addresses
    pending,      \* the coin minted this epoch, not yet distributed (-1: none)
    dist,         \* the last DistributeMintedCoin: coin, what each got, result
    lastReductionEpoch, \* the uint64 stored under LastReductionEpochKey
    hooks,        \* k.hooks
    moduleAccounts \* submodule accounts created by SetupNewModuleAccount

vars == <<balances, supply, blocked, pending, dist, lastReductionEpoch, hooks,
          moduleAccounts>>

TypeOK ==
    /\ balances \in [Accounts -> Nat]
    /\ supply \in Nat
    /\ blocked \subseteq AccountRecipients
    /\ pending \in MintAmounts \cup {-1}
    /\ dist \in [coin : Nat, paid : [Accounts -> Nat], code : Codes]
    /\ lastReductionEpoch \in Nat
    /\ hooks \in Hooks \cup {NoHooks}
    /\ moduleAccounts \subseteq Submodules

-----------------------------------------------------------------------------
(* Keeper operations.                                                      *)

(* Mutant: RoundInt (half up) where TruncateInt belongs.                   *)
GetProportionsRounded(amount, ratio) == (amount * ratio + Denominator \div 2) \div Denominator

(* GetProportions (lines 140-143): amount * ratio, truncated.              *)
GetProportions(amount, ratio) == (amount * ratio) \div Denominator

(* bankKeeper.SendCoinsFromModuleToModule / ...ToAccount from the mint     *)
(* module: refused above the balance or to a blocked address.              *)
SendFails(b, to, amt) == amt > b[Mint] \/ to \in blocked

(* Mutant: sender and recipient swapped.                                   *)
SendReversed(b, to, amt) == [b EXCEPT ![Mint] = @ + amt, ![to] = @ - amt]

Send(b, to, amt) == [b EXCEPT ![Mint] = @ - amt, ![to] = @ + amt]

(* The four sends of DistributeMintedCoin, in code order.                  *)
Order == <<[to |-> FeeCollector,     share |-> "staking"],
           [to |-> StrategicReserve, share |-> "strategicReserve"],
           [to |-> CommunityGrowth,  share |-> "communityPoolGrowth"],
           [to |-> SecurityBudget,   share |-> "communityPoolSecurityBudget"]>>

(* Mutant: the sweep of the remainder left out.                           *)
SweepOmitted(b, to, amt) == b

(* The sweep of the remainder to the community growth pool (line 197).     *)
Sweep(b, to, amt) == Send(b, to, amt)

(* The truncated share of the k-th send (lines 152, 161, 169, 177).       *)
Share(amount, k) == GetProportions(amount, Proportions[Order[k].share])

(* remainingCoins (lines 191-195): the coin minus the four shares.         *)
Remainder(amount) ==
    amount - (Share(amount, 1) + Share(amount, 2) + Share(amount, 3) + Share(amount, 4))

(* The recipient and the amount of the k-th send; the fifth is the sweep.  *)
SendTo(k) == IF k = 5 THEN CommunityGrowth ELSE Order[k].to
SendAmount(amount, k) == IF k = 5 THEN Remainder(amount) ELSE Share(amount, k)

(* The balances after the first k sends, for k in 0..5, in code order.    *)
AfterSends(b, amount) ==
    LET a1 == Send(b, SendTo(1), SendAmount(amount, 1))
        a2 == Send(a1, SendTo(2), SendAmount(amount, 2))
        a3 == Send(a2, SendTo(3), SendAmount(amount, 3))
        a4 == Send(a3, SendTo(4), SendAmount(amount, 4))
        a5 == Sweep(a4, SendTo(5), SendAmount(amount, 5))
    IN  [k \in 0..5 |-> CASE k = 0 -> b  [] k = 1 -> a1 [] k = 2 -> a2
                          [] k = 3 -> a3 [] k = 4 -> a4 [] k = 5 -> a5]

(* DistributeMintedCoin (lines 146-207) for a minted amount: four sends   *)
(* of the truncated shares, then the remainder mintedCoin - shares,        *)
(* computed with Coins.Sub (which panics below zero), swept to the growth  *)
(* pool as a fifth send.  The first refused send returns its error and     *)
(* leaves the earlier ones done.                                           *)
DistributeMintedCoin(amount) ==
    LET after == AfterSends(balances, amount)
        fails(k) == SendFails(after[k - 1], SendTo(k), SendAmount(amount, k))
        done(k) == \A j \in 1..(k - 1) : ~fails(j)
        result(k, code) ==
            /\ balances' = after[k]
            /\ dist' = [coin |-> amount,
                        paid |-> [a \in Accounts |->
                                    IF a = Mint THEN 0 ELSE after[k][a] - balances[a]],
                        code |-> code]
    IN
    \/ \E k \in 1..5 :
         /\ done(k) /\ fails(k)
         /\ k = 5 => Remainder(amount) >= 0
         /\ result(k - 1, "Error")
    \/ /\ done(5) /\ Remainder(amount) < 0
       /\ result(4, "Panic")
    \/ /\ done(5) /\ Remainder(amount) >= 0 /\ ~fails(5)
       /\ result(5, "OK")

(* MintCoins (lines 129-138): nothing for an empty coin, else the bank     *)
(* mints to the mint module.  The caller, BeginBlocker (outside src/),     *)
(* then distributes the same coin.                                         *)
MintCoins(amount) ==
    /\ pending = -1
    /\ supply + amount <= MaxSupply
    /\ IF amount = 0
       THEN UNCHANGED <<balances, supply>>
       ELSE /\ balances' = [balances EXCEPT ![Mint] = @ + amount]
            /\ supply' = supply + amount
    /\ pending' = amount
    /\ UNCHANGED <<blocked, dist, lastReductionEpoch, hooks, moduleAccounts>>

(* BeginBlocker's DistributeMintedCoin of the coin it just minted.          *)
Distribute ==
    /\ pending # -1
    /\ DistributeMintedCoin(pending)
    /\ pending' = -1
    /\ UNCHANGED <<supply, blocked, lastReductionEpoch, hooks, moduleAccounts>>

(* SetLastReductionEpochNum (lines 89-93): cast.ToUint64 of a              *)
(* non-negative epoch number is the number itself.                         *)
SetLastReductionEpochNum(epochNum) ==
    /\ lastReductionEpoch' = epochNum
    /\ UNCHANGED <<balances, supply, blocked, pending, dist, hooks, moduleAccounts>>

(* SetHooks (lines 67-76): panics when hooks are already set.              *)
SetHooks(h) ==
    /\ hooks = NoHooks
    /\ hooks' = h
    /\ UNCHANGED <<balances, supply, blocked, pending, dist, lastReductionEpoch,
                   moduleAccounts>>

(* SetupNewModuleAccount (lines 211-225) of a submodule, at the address    *)
(* GetSubmoduleAddress derives (lines 227-231).                            *)
SetupNewModuleAccount(name) ==
    /\ moduleAccounts' = moduleAccounts \cup {name}
    /\ UNCHANGED <<balances, supply, blocked, pending, dist, lastReductionEpoch, hooks>>

(* NewKeeper (lines 33-58) over a fresh chain: the mint module account     *)
(* exists, nothing is minted, no hooks; the app's blocked addresses.       *)
Init ==
    /\ balances = [a \in Accounts |-> 0]
    /\ supply = 0
    /\ blocked \in SUBSET AccountRecipients
    /\ pending = -1
    /\ dist = [coin |-> 0, paid |-> [a \in Accounts |-> 0], code |-> "NONE"]
    /\ lastReductionEpoch = 0
    /\ hooks = NoHooks
    /\ moduleAccounts = {}

Next ==
    \/ \E amount \in MintAmounts : MintCoins(amount)
    \/ Distribute
    \/ \E n \in EpochNums : SetLastReductionEpochNum(n)
    \/ \E h \in Hooks : SetHooks(h)
    \/ \E name \in Submodules : SetupNewModuleAccount(name)

Spec == Init /\ [][Next]_vars

-----------------------------------------------------------------------------
(* Properties.                                                             *)

PaidTotal(d) == d.paid[FeeCollector] + d.paid[StrategicReserve]
                  + d.paid[CommunityGrowth] + d.paid[SecurityBudget]

(* A distribution that succeeds pays out exactly the minted coin: the      *)
(* four truncated shares plus the swept remainder, no unit created or left *)
(* in the mint module.                                                     *)
DistributionExact ==
    dist.code = "OK" => PaidTotal(dist) = dist.coin

(* ProportionsValid: the DistributionProportions sum to one, as the params *)
(* validation outside src/ requires.                                       *)
ProportionsValid ==
    Proportions["staking"] + Proportions["strategicReserve"]
      + Proportions["communityPoolGrowth"]
      + Proportions["communityPoolSecurityBudget"] = Denominator

(* With valid proportions, the four truncated shares of the coin minted   *)
(* this epoch never add up to more than the coin, so when BeginBlocker     *)
(* distributes it the Coins.Sub chain of lines 191-195 never goes negative *)
(* and never panics.                                                       *)
SharesWithinAmount ==
    ProportionsValid /\ pending # -1 =>
        GetProportions(pending, Proportions["staking"])
          + GetProportions(pending, Proportions["strategicReserve"])
          + GetProportions(pending, Proportions["communityPoolGrowth"])
          + GetProportions(pending, Proportions["communityPoolSecurityBudget"])
          <= pending

=============================================================================
