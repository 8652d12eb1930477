-------------------------- MODULE MintKeeperProofs --------------------------
(* Proofs about the mint keeper's arithmetic: GetProportions truncates,    *)
(* so the shares of valid proportions never exceed the minted coin.        *)
EXTENDS MintKeeper, TLAPS

(* A truncated quotient times its divisor never exceeds the dividend.      *)
LEMMA TruncBelow ==
    ASSUME NEW x \in Nat, NEW d \in Nat \ {0}
    PROVE  d * (x \div d) <= x
BY SMT

(* Truncating four products a * p_i / D separately loses, never gains:   *)
(* their sum is at most a when the p_i sum to D.                           *)
LEMMA TruncatedSharesBounded ==
    ASSUME NEW a \in Nat, NEW d \in Nat \ {0},
           NEW p1 \in Nat, NEW p2 \in Nat, NEW p3 \in Nat, NEW p4 \in Nat,
           p1 + p2 + p3 + p4 = d
    PROVE  (a * p1) \div d + (a * p2) \div d + (a * p3) \div d + (a * p4) \div d <= a
<1> DEFINE q1 == (a * p1) \div d  q2 == (a * p2) \div d
           q3 == (a * p3) \div d  q4 == (a * p4) \div d
<1>1. /\ d * q1 <= a * p1 /\ d * q2 <= a * p2
      /\ d * q3 <= a * p3 /\ d * q4 <= a * p4
  BY TruncBelow
<1>2. q1 \in Nat /\ q2 \in Nat /\ q3 \in Nat /\ q4 \in Nat
  BY SMT
<1>3. d * (q1 + q2 + q3 + q4) <= a * d
  <2>1. a * d = a * p1 + a * p2 + a * p3 + a * p4
    BY SMT
  <2>2. d * (q1 + q2 + q3 + q4) = d * q1 + d * q2 + d * q3 + d * q4
    BY <1>2, SMT
  <2>. QED  BY <1>1, <2>1, <2>2, SMT
<1>. QED  BY <1>2, <1>3, SMT

(* The coin waiting for distribution is one of the amounts BeginBlocker   *)
(* mints, or none.                                                         *)
PendingOK == pending \in MintAmounts \cup {-1}

(* PendingOK is inductive: MintCoins sets pending to a mint amount,        *)
(* Distribute clears it, and the other operations leave it alone.          *)
LEMMA PendingInvariant == Spec => []PendingOK
<1>1. Init => PendingOK
  BY DEF Init, PendingOK
<1>2. PendingOK /\ [Next]_vars => PendingOK'
  <2>. SUFFICES ASSUME PendingOK, [Next]_vars PROVE PendingOK'
    OBVIOUS
  <2>1. CASE \E amount \in MintAmounts : MintCoins(amount)
    BY <2>1 DEF MintCoins, PendingOK
  <2>2. CASE Distribute
    BY <2>2 DEF Distribute, PendingOK
  <2>3. CASE \E n \in EpochNums : SetLastReductionEpochNum(n)
    BY <2>3 DEF SetLastReductionEpochNum, PendingOK
  <2>4. CASE \E h \in Hooks : SetHooks(h)
    BY <2>4 DEF SetHooks, PendingOK
  <2>5. CASE \E name \in Submodules : SetupNewModuleAccount(name)
    BY <2>5 DEF SetupNewModuleAccount, PendingOK
  <2>6. CASE UNCHANGED vars
    BY <2>6 DEF vars, PendingOK
  <2>. QED  BY <2>1, <2>2, <2>3, <2>4, <2>5, <2>6 DEF Next
<1>. QED  BY <1>1, <1>2, PTL DEF Spec

(* SharesWithinAmount holds in every state of every behaviour, whatever    *)
(* the denominator, the proportions and the amounts: with valid           *)
(* proportions the Coins.Sub chain of DistributeMintedCoin (lines 191-195) *)
(* never goes negative for the coin BeginBlocker is about to distribute.   *)
THEOREM SharesNeverExceedCoin == Spec => []SharesWithinAmount
<1>1. PendingOK => SharesWithinAmount
  <2>. SUFFICES ASSUME PendingOK, ProportionsValid, pending # -1
                PROVE  GetProportions(pending, Proportions["staking"])
                         + GetProportions(pending, Proportions["strategicReserve"])
                         + GetProportions(pending, Proportions["communityPoolGrowth"])
                         + GetProportions(pending, Proportions["communityPoolSecurityBudget"])
                         <= pending
    BY DEF SharesWithinAmount
  <2>1. /\ pending \in Nat
        /\ Proportions["staking"] \in Nat /\ Proportions["strategicReserve"] \in Nat
        /\ Proportions["communityPoolGrowth"] \in Nat
        /\ Proportions["communityPoolSecurityBudget"] \in Nat
    BY ParamsAssumption DEF Shares, PendingOK
  <2>. QED
    BY <2>1, ParamsAssumption, TruncatedSharesBounded DEF GetProportions, ProportionsValid
<1>. QED  BY <1>1, PendingInvariant, PTL

-----------------------------------------------------------------------------
(* The sends of DistributeMintedCoin.                                      *)

(* A truncated share of a natural amount is natural.                       *)
LEMMA ShareNat ==
    ASSUME NEW amount \in Nat, NEW k \in 1..4
    PROVE  Share(amount, k) \in Nat
<1>1. Order[k].share \in Shares
    BY DEF Order, Shares
<1>2. Proportions[Order[k].share] \in Nat
    BY <1>1, ParamsAssumption
<1>3. QED
    BY <1>2, ParamsAssumption DEF Share, GetProportions

(* A send the bank accepts keeps every balance natural, and credits its    *)
(* recipient and no other account but the mint module.                    *)
LEMMA SendStep ==
    ASSUME NEW b \in [Accounts -> Nat], NEW to \in Accounts \ {Mint},
           NEW amt \in Nat, ~SendFails(b, to, amt)
    PROVE  /\ Send(b, to, amt) \in [Accounts -> Nat]
           /\ \A a \in Accounts \ {Mint} :
                Send(b, to, amt)[a] = b[a] + (IF a = to THEN amt ELSE 0)
BY DEF Send, SendFails

(* What the first j sends have paid into account a.                       *)
Received(amount, j, a) ==
      (IF j >= 1 /\ a = FeeCollector     THEN Share(amount, 1) ELSE 0)
    + (IF j >= 2 /\ a = StrategicReserve THEN Share(amount, 2) ELSE 0)
    + (IF j >= 3 /\ a = CommunityGrowth  THEN Share(amount, 3) ELSE 0)
    + (IF j >= 4 /\ a = SecurityBudget   THEN Share(amount, 4) ELSE 0)
    + (IF j >= 5 /\ a = CommunityGrowth  THEN Remainder(amount) ELSE 0)

(* The first j sends were all accepted.                                    *)
Sent(b, amount, j) ==
    \A i \in 1..j : ~SendFails(AfterSends(b, amount)[i - 1], SendTo(i), SendAmount(amount, i))

(* After j accepted sends, balances are natural and each recipient holds   *)
(* what it held plus what it was sent.                                     *)
SendsOK(b, amount, j) ==
    /\ AfterSends(b, amount)[j] \in [Accounts -> Nat]
    /\ \A a \in Accounts \ {Mint} : AfterSends(b, amount)[j][a] = b[a] + Received(amount, j, a)

LEMMA SendsChain ==
    ASSUME NEW b \in [Accounts -> Nat], NEW amount \in Nat, NEW j \in 0..5,
           Sent(b, amount, j), j = 5 => Remainder(amount) >= 0
    PROVE  SendsOK(b, amount, j)
<1> DEFINE after == AfterSends(b, amount)
<1>0. /\ SendTo(1) = FeeCollector /\ SendTo(2) = StrategicReserve
      /\ SendTo(3) = CommunityGrowth /\ SendTo(4) = SecurityBudget
      /\ SendTo(5) = CommunityGrowth
    BY DEF SendTo, Order, FeeCollector, StrategicReserve, CommunityGrowth, SecurityBudget
<1>1. /\ \A k \in 1..4 : Share(amount, k) \in Nat
      /\ Remainder(amount) \in Int
    BY ShareNat DEF Remainder
<1>2. /\ after[0] = b
      /\ \A i \in 1..4 : after[i] = Send(after[i - 1], SendTo(i), SendAmount(amount, i))
      /\ after[5] = Send(after[4], SendTo(5), SendAmount(amount, 5))
    BY DEF AfterSends, Sweep
<1>3. \A i \in 1..5 : SendTo(i) \in Accounts \ {Mint}
    BY <1>0 DEF Accounts, Mint, FeeCollector, StrategicReserve, CommunityGrowth, SecurityBudget
<1>4. \A i \in 1..4 : SendAmount(amount, i) \in Nat
    BY ShareNat DEF SendAmount
<1> DEFINE P(i) == SendsOK(b, amount, i)
<1>5. P(0)
    BY <1>2 DEF SendsOK, Received
<1>6. ASSUME NEW i \in 1..j, P(i - 1)
      PROVE  P(i)
    <2>1. SendAmount(amount, i) \in Nat
        BY <1>4, <1>1 DEF SendAmount
    <2>2. ~SendFails(after[i - 1], SendTo(i), SendAmount(amount, i))
        BY DEF Sent
    <2>3. after[i] = Send(after[i - 1], SendTo(i), SendAmount(amount, i))
        BY <1>2
    <2>4. /\ Send(after[i - 1], SendTo(i), SendAmount(amount, i)) \in [Accounts -> Nat]
          /\ \A a \in Accounts \ {Mint} :
               Send(after[i - 1], SendTo(i), SendAmount(amount, i))[a]
                 = after[i - 1][a] + (IF a = SendTo(i) THEN SendAmount(amount, i) ELSE 0)
        <3>1. after[i - 1] \in [Accounts -> Nat]
            BY <1>6 DEF SendsOK
        <3>2. SendTo(i) \in Accounts \ {Mint}
            BY <1>3
        <3>3. QED
            BY <3>1, <3>2, <2>1, <2>2, SendStep
    <2>5. \A a \in Accounts \ {Mint} :
            Received(amount, i - 1, a) + (IF a = SendTo(i) THEN SendAmount(amount, i) ELSE 0)
              = Received(amount, i, a)
        BY <1>0, <1>1 DEF Received, SendAmount, Accounts, Mint, FeeCollector, StrategicReserve,
                    CommunityGrowth, SecurityBudget
    <2>6. \A a \in Accounts \ {Mint} : after[i - 1][a] = b[a] + Received(amount, i - 1, a)
        BY <1>6 DEF SendsOK
    <2>7. \A a \in Accounts \ {Mint} : after[i][a] = b[a] + Received(amount, i, a)
        <3> SUFFICES ASSUME NEW a \in Accounts \ {Mint}
                     PROVE  after[i][a] = b[a] + Received(amount, i, a)
            OBVIOUS
        <3>1. after[i][a] = after[i - 1][a] + (IF a = SendTo(i) THEN SendAmount(amount, i) ELSE 0)
            BY <2>3, <2>4
        <3>2. after[i - 1][a] = b[a] + Received(amount, i - 1, a)
            BY <2>6
        <3>3. Received(amount, i - 1, a) + (IF a = SendTo(i) THEN SendAmount(amount, i) ELSE 0)
                = Received(amount, i, a)
            BY <2>5
        <3>4. /\ b[a] \in Nat /\ SendAmount(amount, i) \in Nat
              /\ Received(amount, i - 1, a) \in Int
            BY <2>1, <1>1 DEF Received
        <3>5. QED
            BY <3>1, <3>2, <3>3, <3>4
    <2>8. QED
        BY <2>3, <2>4, <2>7 DEF SendsOK
<1>7. \A i \in 0..j : P(i)
    <2>1. P(0) /\ (0 < j => P(1)) /\ (1 < j => P(2))
        BY <1>5, <1>6
    <2>2. (2 < j => P(3)) /\ (3 < j => P(4)) /\ (4 < j => P(5))
        BY <2>1, <1>6
    <2>3. QED
        BY <2>1, <2>2
<1>8. QED
    BY <1>7

(* What the first j sends have paid into an account is natural.           *)
LEMMA ReceivedNat ==
    ASSUME NEW amount \in Nat, NEW j \in 0..5, j = 5 => Remainder(amount) >= 0,
           NEW a
    PROVE  Received(amount, j, a) \in Nat
<1>1. /\ \A k \in 1..4 : Share(amount, k) \in Nat
      /\ Remainder(amount) \in Int
    BY ShareNat DEF Remainder
<1>2. QED
    BY <1>1 DEF Received

(* DistributeMintedCoin stopped after k accepted sends with result code.   *)
Outcome(amount, k, code) ==
    /\ balances' = AfterSends(balances, amount)[k]
    /\ dist' = [coin |-> amount,
                paid |-> [a \in Accounts |->
                            IF a = Mint THEN 0
                            ELSE AfterSends(balances, amount)[k][a] - balances[a]],
                code |-> code]

(* Every exit of DistributeMintedCoin: after k accepted sends, an error    *)
(* (the (k+1)-th refused), a panic (Coins.Sub below zero, k = 4) or        *)
(* success (all five sent).                                                *)
LEMMA DistributeShape ==
    ASSUME Distribute
    PROVE  \E k \in 0..5, code \in {"Error", "Panic", "OK"} :
             /\ Sent(balances, pending, k)
             /\ k = 5 => Remainder(pending) >= 0
             /\ code = "OK" => k = 5
             /\ Outcome(pending, k, code)
<1> DEFINE after == AfterSends(balances, pending)
           fails(k) == SendFails(after[k - 1], SendTo(k), SendAmount(pending, k))
<1>0. \/ \E k \in 1..5 : /\ \A j \in 1..(k - 1) : ~fails(j)
                         /\ fails(k)
                         /\ k = 5 => Remainder(pending) >= 0
                         /\ Outcome(pending, k - 1, "Error")
      \/ /\ \A j \in 1..4 : ~fails(j)
         /\ Remainder(pending) < 0
         /\ Outcome(pending, 4, "Panic")
      \/ /\ \A j \in 1..4 : ~fails(j)
         /\ Remainder(pending) >= 0 /\ ~fails(5)
         /\ Outcome(pending, 5, "OK")
    <2>1. DistributeMintedCoin(pending)
        BY DEF Distribute
    <2>2. QED
        BY <2>1 DEF DistributeMintedCoin, Outcome
<1>1. CASE \E k \in 1..5 : /\ \A j \in 1..(k - 1) : ~fails(j)
                           /\ fails(k)
                           /\ k = 5 => Remainder(pending) >= 0
                           /\ Outcome(pending, k - 1, "Error")
    <2> PICK k \in 1..5 : /\ \A j \in 1..(k - 1) : ~fails(j)
                          /\ Outcome(pending, k - 1, "Error")
        BY <1>1
    <2>1. k - 1 \in 0..5 /\ k - 1 # 5
        OBVIOUS
    <2>2. QED
        BY <2>1 DEF Sent
<1>2. CASE /\ \A j \in 1..4 : ~fails(j)
           /\ Remainder(pending) < 0
           /\ Outcome(pending, 4, "Panic")
    BY <1>2 DEF Sent
<1>3. CASE /\ \A j \in 1..4 : ~fails(j)
           /\ Remainder(pending) >= 0 /\ ~fails(5)
           /\ Outcome(pending, 5, "OK")
    <2>1. Sent(balances, pending, 5)
        BY <1>3 DEF Sent
    <2>2. QED
        BY <1>3, <2>1
<1>4. QED
    BY <1>0, <1>1, <1>2, <1>3

(* Every operation of the keeper keeps the state well-typed: the bank      *)
(* accepts a send only up to the mint module's balance, so no balance goes *)
(* negative, and each recipient only gains.                                *)
THEOREM MintTypeCorrect == Spec => []TypeOK
<1>1. Init => TypeOK
    BY DEF Init, TypeOK, Accounts, Codes
<1>2. TypeOK /\ [Next]_vars => TypeOK'
    <2> SUFFICES ASSUME TypeOK, [Next]_vars PROVE TypeOK'
        OBVIOUS
    <2>1. CASE \E amount \in MintAmounts : MintCoins(amount)
        BY <2>1, ParamsAssumption DEF MintCoins, TypeOK
    <2>2. CASE Distribute
        <3>1. pending \in Nat
            BY <2>2, ParamsAssumption DEF Distribute, TypeOK
        <3>2. PICK k \in 0..5, code \in {"Error", "Panic", "OK"} :
                 /\ Sent(balances, pending, k)
                 /\ k = 5 => Remainder(pending) >= 0
                 /\ Outcome(pending, k, code)
            BY <2>2, DistributeShape
        <3>3. SendsOK(balances, pending, k)
            BY <3>1, <3>2, SendsChain DEF TypeOK
        <3>4. \A a \in Accounts \ {Mint} : Received(pending, k, a) \in Nat
            BY <3>1, <3>2, ReceivedNat
        <3>5. dist' \in [coin : Nat, paid : [Accounts -> Nat], code : Codes]
            BY <3>1, <3>2, <3>3, <3>4 DEF Outcome, SendsOK, TypeOK, Codes
        <3>6. QED
            BY <2>2, <3>2, <3>3, <3>5 DEF Distribute, Outcome, SendsOK, TypeOK
    <2>3. CASE \E n \in EpochNums : SetLastReductionEpochNum(n)
        BY <2>3, ParamsAssumption DEF SetLastReductionEpochNum, TypeOK
    <2>4. CASE \E h \in Hooks : SetHooks(h)
        BY <2>4 DEF SetHooks, TypeOK
    <2>5. CASE \E name \in Submodules : SetupNewModuleAccount(name)
        BY <2>5 DEF SetupNewModuleAccount, TypeOK
    <2>6. CASE UNCHANGED vars
        BY <2>6 DEF vars, TypeOK
    <2>7. QED
        BY <2>1, <2>2, <2>3, <2>4, <2>5, <2>6 DEF Next
<1>3. QED
    BY <1>1, <1>2, PTL DEF Spec

(* A distribution that reports success pays out exactly the minted coin:   *)
(* the four truncated shares and the sweep of remainingCoins to community  *)
(* growth add up to the amount DistributeMintedCoin was given, whatever    *)
(* the proportions and however the truncation falls.                       *)
THEOREM PaidExactly == Spec => []DistributionExact
<1> DEFINE Inv == TypeOK /\ DistributionExact
<1>1. Init => Inv
    BY DEF Init, TypeOK, DistributionExact, Codes
<1>2. Inv /\ [Next]_vars => DistributionExact'
    <2> SUFFICES ASSUME TypeOK, DistributionExact, [Next]_vars
                 PROVE  DistributionExact'
        OBVIOUS
    <2>1. CASE Distribute
        <3>1. pending \in Nat
            BY <2>1, ParamsAssumption DEF Distribute, TypeOK
        <3>2. PICK k \in 0..5, code \in {"Error", "Panic", "OK"} :
                 /\ Sent(balances, pending, k)
                 /\ k = 5 => Remainder(pending) >= 0
                 /\ code = "OK" => k = 5
                 /\ Outcome(pending, k, code)
            BY <2>1, DistributeShape
        <3>3. CASE code # "OK"
            BY <3>2, <3>3 DEF Outcome, DistributionExact
        <3>4. CASE code = "OK"
            <4>1. k = 5 /\ Remainder(pending) >= 0
                BY <3>2, <3>4
            <4>2. SendsOK(balances, pending, 5)
                BY <3>1, <3>2, <4>1, SendsChain DEF TypeOK
            <4>3. \A a \in Accounts \ {Mint} :
                     dist'.paid[a] = Received(pending, 5, a)
                <5> SUFFICES ASSUME NEW a \in Accounts \ {Mint}
                             PROVE  dist'.paid[a] = Received(pending, 5, a)
                    OBVIOUS
                <5>1. a # Mint
                    OBVIOUS
                <5>2. Received(pending, 5, a) \in Nat /\ balances[a] \in Nat
                    BY <3>1, <4>1, ReceivedNat DEF TypeOK
                <5>3. AfterSends(balances, pending)[5][a]
                        = balances[a] + Received(pending, 5, a)
                    BY <4>2 DEF SendsOK
                <5>4. QED
                    BY <3>2, <4>1, <5>1, <5>2, <5>3 DEF Outcome
            <4>4. /\ Received(pending, 5, FeeCollector) = Share(pending, 1)
                  /\ Received(pending, 5, StrategicReserve) = Share(pending, 2)
                  /\ Received(pending, 5, SecurityBudget) = Share(pending, 4)
                  /\ Received(pending, 5, CommunityGrowth)
                        = Share(pending, 3) + Remainder(pending)
                <5>1. \A j \in 1..4 : Share(pending, j) \in Nat
                    BY <3>1, ShareNat
                <5>2. QED
                    BY <5>1 DEF Received, Remainder, FeeCollector, StrategicReserve,
                                CommunityGrowth, SecurityBudget
            <4>5. /\ FeeCollector \in Accounts \ {Mint}
                  /\ StrategicReserve \in Accounts \ {Mint}
                  /\ CommunityGrowth \in Accounts \ {Mint}
                  /\ SecurityBudget \in Accounts \ {Mint}
                BY DEF Accounts, Mint, FeeCollector, StrategicReserve,
                       CommunityGrowth, SecurityBudget
            <4>6. dist'.coin = pending
                BY <3>2 DEF Outcome
            <4>7. \A j \in 1..4 : Share(pending, j) \in Nat
                BY <3>1, ShareNat
            <4>8. /\ dist'.paid[FeeCollector] = Share(pending, 1)
                  /\ dist'.paid[StrategicReserve] = Share(pending, 2)
                  /\ dist'.paid[SecurityBudget] = Share(pending, 4)
                  /\ dist'.paid[CommunityGrowth] = Share(pending, 3) + Remainder(pending)
                BY <4>3, <4>4, <4>5
            <4>9. Share(pending, 1) + Share(pending, 2) + (Share(pending, 3) + Remainder(pending))
                    + Share(pending, 4) = pending
                BY <3>1, <4>7 DEF Remainder
            <4>10. QED
                BY <4>6, <4>8, <4>9 DEF DistributionExact, PaidTotal
        <3>5. QED
            BY <3>3, <3>4
    <2>2. CASE ~Distribute
        BY <2>2 DEF Next, vars, MintCoins, SetLastReductionEpochNum, SetHooks,
                    SetupNewModuleAccount, DistributionExact
    <2>3. QED
        BY <2>1, <2>2
<1>3. QED
    BY <1>1, <1>2, MintTypeCorrect, PTL DEF Spec
=============================================================================
