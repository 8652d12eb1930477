------------------------------- MODULE Utils -------------------------------
(***************************************************************************)
(* The helpers of src/utils/utils.go, as operators, and a caller that      *)
(* invokes them with every input of a bounded domain and keeps the last    *)
(* call.  The properties compare what the code computes with a reference   *)
(* definition of what the helper promises.                                 *)
(*                                                                         *)
(* Data abstraction:                                                       *)
(*  - a string key is its rank in byte-wise order (a natural), so          *)
(*    sort.Strings is a sort on naturals;                                  *)
(*  - a Go slice is a backing array (a sequence as long as its capacity)   *)
(*    and a length, so that append's in-place writes are visible;          *)
(*  - an sdk.Dec is an integer scaled by Prec = 10^precision; Prec is 10^18 *)
(*    in the code and small in the runs;                                   *)
(*  - int64 arithmetic wraps at IntWidth bits;                             *)
(*  - a Bech32 string is what decoding it yields: empty or blank, whether  *)
(*    it decodes, its prefix and the length of its bytes.                  *)
(***************************************************************************)
EXTENDS Integers, Sequences, SequencesExt, TLC

CONSTANTS
    Keys,          \* string keys, as their ranks
    Values,        \* slice elements
    Nil,           \* the zero value of interface{}
    Amounts,       \* coin amounts
    Times,         \* vAt and vStart
    Lengths,       \* vLength
    Prec,          \* 10^precision of sdk.Dec
    IntWidth,      \* bits of int64
    Admins,        \* the ADMINS allow-list
    Addresses,     \* creator addresses given to ValidateAdminAddress
    Hrps,      \* Bech32 human-readable parts
    ByteLengths,   \* lengths of decoded address bytes
    MaxSliceLen    \* bound on the length of the slices given to Insert

ASSUME UtilsAssumption ==
    /\ Keys \subseteq Nat
    /\ Nil \notin Values
    /\ Prec \in Nat \ {0} /\ Prec % 2 = 0
    /\ IntWidth \in Nat \ {0}
    /\ MaxSliceLen \in Nat

-----------------------------------------------------------------------------
(* Integers and decimals.                                                  *)

(* Two's-complement wrap of an int64 result.                               *)
Int64(x) == ((x + 2^(IntWidth - 1)) % 2^IntWidth) - 2^(IntWidth - 1)

(* Min (lines 47-52), Max64 (176-181) and Min64 (184-189).               *)
MinInt(a, b) == IF a < b THEN a ELSE b
Max64(i, j) == IF i > j THEN i ELSE j
Min64(i, j) == IF i < j THEN i ELSE j

(* sdk.Dec's chopPrecisionAndRound: drop the Prec digits and round half to *)
(* even, on the magnitude.                                                 *)
ChopRound(x) ==
    LET m == IF x < 0 THEN -x ELSE x
        q == m \div Prec
        r == m % Prec
        c == IF r < Prec \div 2 \/ (r = Prec \div 2 /\ q % 2 = 0) THEN q ELSE q + 1
    IN  IF x < 0 THEN -c ELSE c
NewDec(i) == i * Prec
DecQuo(a, b) == ChopRound((a * Prec * Prec) \div b)   \* b > 0 where it is used
DecMul(a, b) == ChopRound(a * b)
RoundInt(d) == ChopRound(d)

(* Mutant: the portion computed in integers, before converting to Dec.   *)
GetVestedCoinsAtIntPortion(vAt, vStart, vLength, vCoins) ==
    LET vEnd == Int64(vStart + vLength)
        portion == NewDec(Int64(vAt - vStart) \div vLength)
    IN  IF vAt <= vStart THEN <<>>
        ELSE IF vAt >= vEnd THEN vCoins
        ELSE [i \in DOMAIN vCoins |-> RoundInt(DecMul(NewDec(vCoins[i]), portion))]

(* GetVestedCoinsAt (lines 203-222): nothing up to the start, everything   *)
(* from the end on, and in between each coin times the vested portion,    *)
(* rounded.  A coin list is a sequence of amounts, one per denom.          *)
GetVestedCoinsAt(vAt, vStart, vLength, vCoins) ==
    LET vEnd == Int64(vStart + vLength)
        portion == DecQuo(NewDec(Int64(vAt - vStart)), NewDec(vLength))
    IN  IF vAt <= vStart THEN <<>>
        ELSE IF vAt >= vEnd THEN vCoins
        ELSE [i \in DOMAIN vCoins |-> RoundInt(DecMul(NewDec(vCoins[i]), portion))]

-----------------------------------------------------------------------------
(* Slices.                                                                 *)

Slice == [arr : Seq(Values \cup {Nil}), len : Nat]
View(s) == SubSeq(s.arr, 1, s.len)

(* append(s, xs...): in place when the capacity allows, else into a new    *)
(* array of twice the capacity (or just enough); the elements of xs are    *)
(* read before anything is written, as Go's memmove does.                  *)
GoAppend(s, xs) ==
    LET need == s.len + Len(xs)
        cap == Len(s.arr)
        newCap == IF need > 2 * cap THEN need ELSE 2 * cap
    IN  IF need <= cap
        THEN [arr |-> [i \in 1..cap |->
                         IF s.len < i /\ i <= need THEN xs[i - s.len] ELSE s.arr[i]],
              len |-> need]
        ELSE [arr |-> View(s) \o xs \o [i \in 1..(newCap - need) |-> Nil],
              len |-> need]

(* Mutant: the shift appends to a[:index], one short.                      *)
InsertShort(a, index, value) ==
    IF a.len = index THEN GoAppend(a, <<value>>)
    ELSE LET b == GoAppend([arr |-> a.arr, len |-> index],
                         SubSeq(a.arr, index + 1, a.len))
         IN  [b EXCEPT !.arr[index + 1] = value]

(* Insert (lines 193-200), for 0 <= index <= len(a).                       *)
Insert(a, index, value) ==
    IF a.len = index THEN GoAppend(a, <<value>>)
    ELSE LET b == GoAppend([arr |-> a.arr, len |-> index + 1],
                         SubSeq(a.arr, index + 1, a.len))
         IN  [b EXCEPT !.arr[index + 1] = value]

(* FilterDepositRecords (lines 27-34): the loop appending each element     *)
(* that satisfies the condition, here membership in cond; ret[k] is ret    *)
(* after the first k iterations.                                           *)
FilterDepositRecords(arr, cond) ==
    LET ret[k \in 0..Len(arr)] ==
            IF k = 0 THEN <<>>
            ELSE IF arr[k] \in cond THEN Append(ret[k - 1], arr[k]) ELSE ret[k - 1]
    IN  ret[Len(arr)]

(* ContainsString (lines 165-172).                                         *)
ContainsString(s, e) == \E i \in 1..Len(s) : s[i] = e

-----------------------------------------------------------------------------
(* Map keys.                                                               *)

(* sort.Strings.                                                           *)
SortStrings(keys) == SortSeq(keys, <)

(* HostZoneUnbondingKeys, StringToIntMapKeys, StringToStringMapKeys and    *)
(* StringToStringSliceMapKeys (lines 54-88), which differ only in the      *)
(* value type: the keys in the map's iteration order, which Go randomises, *)
(* then sorted.  iter is that order.                                       *)
MapKeys(iter) ==
    LET collect[k \in 0..Len(iter)] ==
            IF k = 0 THEN <<>> ELSE Append(collect[k - 1], iter[k])
    IN  SortStrings(collect[Len(iter)])

-----------------------------------------------------------------------------
(* Addresses.                                                              *)

(* ValidateAdminAddress (lines 40-45).                                     *)
ValidateAdminAddress(address) ==
    IF address \in Admins THEN "nil" ELSE "ErrInvalidAddress"

Bech32 == [blank : BOOLEAN, empty : BOOLEAN, decodes : BOOLEAN,
           hrp : Hrps, bytes : ByteLengths]

(* GetFromBech32 (lines 96-111): the decoded bytes, or the first error.    *)
GetFromBech32(str, prefix) ==
    CASE str.empty        -> [err |-> "ErrBech32EmptyAddress"]
      [] ~str.decodes     -> [err |-> "ErrDecode"]
      [] str.hrp # prefix -> [err |-> "ErrPrefix"]
      [] OTHER            -> [err |-> "nil", bytes |-> str.bytes]

(* VerifyAddressFormat (lines 118-139): the verifier accepts exactly 20   *)
(* bytes, so the empty and too-long checks after it never fire.            *)
VerifyAddressFormat(n) ==
    CASE n # 20  -> "ErrLength"
      [] n = 0   -> "ErrUnknownAddressEmpty"
      [] n > 255 -> "ErrUnknownAddressTooLong"
      [] OTHER   -> "nil"

(* AccAddressFromBech32 (lines 146-162).                                   *)
AccAddressFromBech32(str, prefix) ==
    LET dec == GetFromBech32(str, prefix)
    IN  CASE str.blank                  -> "ErrEmptyAddressString"
          [] dec.err # "nil"            -> dec.err
          [] OTHER                      -> VerifyAddressFormat(dec.bytes)

-----------------------------------------------------------------------------
(* The caller: each step calls one helper on inputs from the bounded       *)
(* domains and records the call.                                           *)

VARIABLE last

(* Slices of length at most MaxSliceLen with up to one spare slot, whose   *)
(* unused slot may hold an old element.                                    *)
InputSlices ==
    {sl \in UNION {UNION {[arr : [1..c -> Values \cup {Nil}], len : {n}] :
                            c \in {n, n + 1}} : n \in 0..MaxSliceLen} :
        \A i \in 1..sl.len : sl.arr[i] \in Values}
CoinLists == UNION {[1..n -> Amounts] : n \in 1..2}
Bech32Inputs == {b \in Bech32 : b.empty => b.blank}

CallMapKeys ==
    \E m \in SUBSET Keys : \E iter \in SetToSeqs(m) :
        last' = [op |-> "MapKeys", in |-> iter, out |-> MapKeys(iter)]

CallInsert ==
    \E a \in InputSlices : \E index \in 0..a.len : \E v \in Values :
        last' = [op |-> "Insert", in |-> <<a, index, v>>, out |-> Insert(a, index, v)]

CallGetVestedCoinsAt ==
    \E vAt, vStart \in Times, vLength \in Lengths, coins \in CoinLists :
        last' = [op |-> "GetVestedCoinsAt", in |-> <<vAt, vStart, vLength, coins>>,
                 out |-> GetVestedCoinsAt(vAt, vStart, vLength, coins)]

CallFilterDepositRecords ==
    \E n \in 0..MaxSliceLen : \E arr \in [1..n -> Values] : \E cond \in SUBSET Values :
        last' = [op |-> "FilterDepositRecords", in |-> <<arr, cond>>,
                 out |-> FilterDepositRecords(arr, cond)]

CallContainsString ==
    \E n \in 0..MaxSliceLen : \E s \in [1..n -> Keys] : \E e \in Keys :
        last' = [op |-> "ContainsString", in |-> <<s, e>>, out |-> ContainsString(s, e)]

CallMinMax ==
    \E i, j \in Times :
        last' = [op |-> "MinMax", in |-> <<i, j>>,
                 out |-> <<MinInt(i, j), Max64(i, j), Min64(i, j)>>]

CallValidateAdminAddress ==
    \E a \in Addresses :
        last' = [op |-> "ValidateAdminAddress", in |-> a, out |-> ValidateAdminAddress(a)]

CallAccAddressFromBech32 ==
    \E str \in Bech32Inputs, prefix \in Hrps :
        last' = [op |-> "AccAddressFromBech32", in |-> <<str, prefix>>,
                 out |-> AccAddressFromBech32(str, prefix)]

Ready ==
    \/ CallMapKeys
    \/ CallInsert
    \/ CallGetVestedCoinsAt
    \/ CallFilterDepositRecords
    \/ CallContainsString
    \/ CallMinMax
    \/ CallValidateAdminAddress
    \/ CallAccAddressFromBech32

(* The caller returns, ready for the next call.                            *)
Return == last.op # "none" /\ last' = [op |-> "none"]

Init == last = [op |-> "none"]

Next ==
    \/ last.op = "none" /\ Ready
    \/ Return

Spec == Init /\ [][Next]_last

-----------------------------------------------------------------------------
(* Properties.                                                             *)

(* Insert returns a with value placed before the element at index: the    *)
(* in-place shift of append(a[:index+1], a[index:]...) loses nothing.      *)
InsertMatchesReference ==
    last.op = "Insert" =>
        LET a == last.in[1]  index == last.in[2]  v == last.in[3]
        IN  View(last.out) = InsertAt(View(a), index + 1, v)

(* GetVestedCoinsAt vests linearly: nothing up to the start, every coin    *)
(* from the end on, and in between each amount within one unit of         *)
(* amount * (vAt - vStart) / vLength and never above the amount.           *)
VestingLinear ==
    last.op = "GetVestedCoinsAt" =>
        LET vAt == last.in[1]  vStart == last.in[2]  vLength == last.in[3]
            coins == last.in[4]  out == last.out
        IN  CASE vAt <= vStart           -> out = <<>>
              [] vAt >= vStart + vLength -> out = coins
              [] OTHER ->
                   /\ DOMAIN out = DOMAIN coins
                   /\ \A i \in DOMAIN coins :
                        /\ 0 <= out[i] /\ out[i] <= coins[i]
                        /\ out[i] * vLength - coins[i] * (vAt - vStart) <= vLength
                        /\ coins[i] * (vAt - vStart) - out[i] * vLength <= vLength

=============================================================================
