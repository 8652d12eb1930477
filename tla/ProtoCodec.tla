----------------------------- MODULE ProtoCodec -----------------------------
(***************************************************************************)
(* The generated protobuf code of ICAAccount (ica_account.pb.go),          *)
(* Validator (validator.pb.go) and the gov proposals AddValidatorProposal  *)
(* and DeleteValidatorProposal (gov.pb.go).  The four files are one        *)
(* algorithm over different field lists, so the algorithm is written once  *)
(* over a field list and each message names its list.                      *)
(*                                                                         *)
(* Data abstraction:                                                       *)
(*  - a message is the tuple of its fields: a string is its bytes, an      *)
(*    int32 an integer, the repeated Delegations a sequence of Delegation  *)
(*    values;                                                              *)
(*  - uint64/int arithmetic is done at WireWidth bits (64 in the code) and *)
(*    int32 at Int32Width bits (32), so that the runs can use small        *)
(*    widths that keep the same structure: int32 sign-extended to the wire *)
(*    width, multi-byte varints, the overflow check of the decoder;        *)
(*  - Delegation (delegation.pb.go, not in src/) is opaque: it encodes to  *)
(*    DelegationEncoding[d] and decodes exactly those encodings.           *)
(***************************************************************************)
EXTENDS Integers, Sequences, SequencesExt, TLC

CONSTANTS
    WireWidth,          \* bits of uint64 and int
    Int32Width,         \* bits of int32
    Delegations,        \* Delegation values
    NilPtr,             \* a nil *AddValidatorProposal or *DeleteValidatorProposal
    DelegationEncoding  \* their wire bytes

ASSUME CodecAssumption ==
    /\ WireWidth \in Nat /\ Int32Width \in 1..WireWidth
    /\ DelegationEncoding \in [Delegations -> Seq(0..255)]
    /\ \A d1, d2 \in Delegations :
           DelegationEncoding[d1] = DelegationEncoding[d2] => d1 = d2

-----------------------------------------------------------------------------
(* Field lists; in all four messages field k is the k-th, and a message   *)
(* is the tuple of its field values.  Kinds: "string" (wire type 2),       *)
(* "int32" (wire type 0) and "msgs", a repeated message field (wire type   *)
(* 2).                                                                     *)

ICAAccountFields ==
    <<[num |-> 1, kind |-> "string"], [num |-> 2, kind |-> "int32"],
      [num |-> 3, kind |-> "int32"],  [num |-> 4, kind |-> "msgs"]>>
ValidatorFields ==
    <<[num |-> 1, kind |-> "string"], [num |-> 2, kind |-> "string"],
      [num |-> 3, kind |-> "string"], [num |-> 4, kind |-> "int32"],
      [num |-> 5, kind |-> "int32"]>>
AddValidatorProposalFields == [k \in 1..5 |-> [num |-> k, kind |-> "string"]]
DeleteValidatorProposalFields == [k \in 1..4 |-> [num |-> k, kind |-> "string"]]

WireType(kind) == IF kind = "int32" THEN 0 ELSE 2
Tag(f) == f.num * 8 + WireType(f.kind)
Zero(kind) == IF kind = "int32" THEN 0 ELSE <<>>
(* A field is written when it is not the zero value.                       *)
Present(f, m) == m[f.num] # Zero(f.kind)

-----------------------------------------------------------------------------
(* Integers.                                                               *)

(* uint64(x) of an int32 or int: sign-extend, then reduce.                 *)
Uint64(x) == x % 2^WireWidth
(* The signed value of w low bits.                                         *)
Signed(x, w) == IF x >= 2^(w - 1) THEN x - 2^w ELSE x

RECURSIVE BitLen(_)
BitLen(x) == IF x = 0 THEN 0 ELSE 1 + BitLen(x \div 2)

(* Mutant: math_bits.Len64(x) without the | 1, so that sov(0) = 0.         *)
SovNoOr(x) == (BitLen(x) + 6) \div 7

(* sovIcaAccount (ica_account.pb.go 212-214): bytes of x as a varint.      *)
Sov(x) == (BitLen(IF x % 2 = 0 THEN x + 1 ELSE x) + 6) \div 7

(* The bytes encodeVarint's loop emits: 7 bits at a time, low first, with  *)
(* the continuation bit on all but the last.                               *)
RECURSIVE VarintBytes(_)
VarintBytes(v) ==
    IF v >= 128 THEN <<(v % 128) + 128>> \o VarintBytes(v \div 128) ELSE <<v>>

-----------------------------------------------------------------------------
(* Marshalling: MarshalToSizedBuffer fills a buffer of Size bytes from its *)
(* end, field by field in reverse order.  A state is the buffer, the index *)
(* i and "panic" when an index leaves the buffer.                          *)

Write(buf, off, bs) ==
    [k \in 1..Len(buf) |-> IF off < k /\ k <= off + Len(bs) THEN bs[k - off] ELSE buf[k]]

(* encodeVarintIcaAccount (ica_account.pb.go 176-186): steps back by       *)
(* sov(v), then writes the varint forward from there.                      *)
EncodeVarint(st, v) ==
    LET base == st.i - Sov(v)
        bs == VarintBytes(v)
    IN  IF st.err # "nil" THEN st
        ELSE IF base < 0 \/ base + Len(bs) > Len(st.buf) THEN [st EXCEPT !.err = "panic"]
        ELSE [st EXCEPT !.buf = Write(@, base, bs), !.i = base]

(* i -= n; copy(dAtA[i:], bs) for a copy of n bytes, or a single          *)
(* i--; dAtA[i] = tag.                                                     *)
PutBack(st, bs) ==
    IF st.err # "nil" THEN st
    ELSE IF st.i - Len(bs) < 0 THEN [st EXCEPT !.err = "panic"]
    ELSE [st EXCEPT !.buf = Write(@, st.i - Len(bs), bs), !.i = @ - Len(bs)]

(* One field, as the generated if-block writes it.                         *)
RECURSIVE PutDelegations(_, _, _)
PutDelegations(st, f, ds) ==
    IF ds = <<>> THEN st
    ELSE LET enc == DelegationEncoding[ds[Len(ds)]]
             st1 == PutBack(EncodeVarint(PutBack(st, enc), Len(enc)), <<Tag(f)>>)
         IN  PutDelegations(st1, f, SubSeq(ds, 1, Len(ds) - 1))
PutField(st, f, m) ==
    IF ~Present(f, m) THEN st
    ELSE CASE f.kind = "string" ->
                PutBack(EncodeVarint(PutBack(st, m[f.num]), Len(m[f.num])), <<Tag(f)>>)
           [] f.kind = "int32" ->
                PutBack(EncodeVarint(st, Uint64(m[f.num])), <<Tag(f)>>)
           [] f.kind = "msgs" -> PutDelegations(st, f, m[f.num])

(* ICAAccount.Size (ica_account.pb.go 187-210).                          *)
Size(fields, m) ==
    LET sz(f) == IF ~Present(f, m) THEN 0
                 ELSE CASE f.kind = "string" ->
                             1 + Len(m[f.num]) + Sov(Len(m[f.num]))
                        [] f.kind = "int32" -> 1 + Sov(Uint64(m[f.num]))
                        [] f.kind = "msgs" ->
                             FoldLeft(LAMBDA acc, d :
                                        acc + 1 + Len(DelegationEncoding[d])
                                          + Sov(Len(DelegationEncoding[d])),
                                      0, m[f.num])
    IN  FoldLeft(LAMBDA acc, f : acc + sz(f), 0, fields)

(* ICAAccount.Marshal and MarshalToSizedBuffer (ica_account.pb.go         *)
(* 122-174): a buffer of Size bytes, filled from the last field back; the  *)
(* result is dAtA[:n] with n = len(dAtA) - i.                               *)
MarshalResult(size, st) ==
    IF st.err # "nil" THEN [err |-> st.err]
    ELSE [err |-> "nil", bytes |-> SubSeq(st.buf, 1, size - st.i)]
MarshalSized(fields, m, size) ==
    MarshalResult(size, FoldRight(LAMBDA f, acc : PutField(acc, f, m), fields,
                                  [buf |-> [k \in 1..size |-> 0], i |-> size, err |-> "nil"]))
Marshal(fields, m) == MarshalSized(fields, m, Size(fields, m))

-----------------------------------------------------------------------------
(* Unmarshalling.  idx is iNdEx, the number of bytes consumed.             *)

(* The varint loop of Unmarshal: 7 bits per byte into an accumulator of w  *)
(* bits (a Go shift past the width gives 0); error at shift >= 64 or at    *)
(* the end of the data.                                                    *)
RECURSIVE ReadVarintFrom(_, _, _, _, _)
ReadVarintFrom(d, idx, w, acc, shift) ==
    IF shift >= WireWidth THEN [err |-> "ErrIntOverflow"]
    ELSE IF idx >= Len(d) THEN [err |-> "ErrUnexpectedEOF"]
    ELSE LET b == d[idx + 1]
             part == IF shift < w THEN ((b % 128) * 2^shift) % 2^w ELSE 0
             acc1 == (acc + part) % 2^w
         IN  IF b < 128 THEN [err |-> "nil", v |-> acc1, idx |-> idx + 1]
             ELSE ReadVarintFrom(d, idx + 1, w, acc1, shift + 7)
ReadVarint(d, idx, w) == ReadVarintFrom(d, idx, w, 0, 0)

(* Mutant: an int32 field accumulated at the width of uint64.            *)
ReadInt32Wide(d, idx) == ReadVarint(d, idx, WireWidth)

(* The loop reading an int32 field, m.Balance |= int32(b&0x7F) << shift    *)
(* (ica_account.pb.go 283-297).                                            *)
ReadInt32(d, idx) == ReadVarint(d, idx, Int32Width)

(* Mutant: the postIndex > l check dropped.                                *)
LengthDelimitedUnchecked(l, idx, len) ==
    LET n == Signed(len, WireWidth)
        post == Signed((idx + n) % 2^WireWidth, WireWidth)
    IN  CASE n < 0    -> [err |-> "ErrInvalidLength"]
          [] post < 0 -> [err |-> "ErrInvalidLength"]
          [] OTHER    -> [err |-> "nil", post |-> post]

(* The checks on a length read from the wire (ica_account.pb.go 266-276):  *)
(* negative as an int, overflowing postIndex, or past the end.             *)
LengthDelimited(l, idx, len) ==
    LET n == Signed(len, WireWidth)
        post == Signed((idx + n) % 2^WireWidth, WireWidth)
    IN  CASE n < 0    -> [err |-> "ErrInvalidLength"]
          [] post < 0 -> [err |-> "ErrInvalidLength"]
          [] post > l -> [err |-> "ErrUnexpectedEOF"]
          [] OTHER    -> [err |-> "nil", post |-> post]

(* dAtA[lo:hi], which panics outside the slice.                            *)
Slice(d, lo, hi) ==
    IF lo < 0 \/ hi < lo \/ hi > Len(d) THEN [err |-> "panic"]
    ELSE [err |-> "nil", bytes |-> SubSeq(d, lo + 1, hi)]

(* A Go int computed from wire values, at WireWidth bits.                  *)
IntWrap(x) == Signed(x % 2^WireWidth, WireWidth)

(* skipIcaAccount (ica_account.pb.go 372-449): the length of the field at  *)
(* the start of d, groups included.  One key per round: read it, step over *)
(* its payload by wire type, then stop at depth 0 or go on.                *)
RECURSIVE SkipVarint(_, _, _)
SkipVarint(d, idx, shift) ==
    IF shift >= WireWidth THEN [err |-> "ErrIntOverflow"]
    ELSE IF idx >= Len(d) THEN [err |-> "ErrUnexpectedEOF"]
    ELSE IF d[idx + 1] < 128 THEN [err |-> "nil", idx |-> idx + 1]
    ELSE SkipVarint(d, idx + 1, shift + 7)

(* The wire-type switch of skipIcaAccount, after the key (lines 392-442). *)
SkipPayload(d, idx, wt, depth) ==
    LET ok(i, dp) == [err |-> "nil", idx |-> i, depth |-> dp]
        varint(r) == IF r.err # "nil" THEN r ELSE ok(r.idx, depth)
        bytes(len) == IF len.err # "nil" THEN len
                      ELSE IF Signed(len.v, WireWidth) < 0 THEN [err |-> "ErrInvalidLength"]
                      ELSE ok(IntWrap(len.idx + Signed(len.v, WireWidth)), depth)
    IN  CASE wt = 0 -> varint(SkipVarint(d, idx, 0))
          [] wt = 1 -> ok(IntWrap(idx + 8), depth)
          [] wt = 2 -> bytes(ReadVarint(d, idx, WireWidth))
          [] wt = 3 -> ok(idx, depth + 1)
          [] wt = 4 -> IF depth = 0 THEN [err |-> "ErrUnexpectedEndOfGroup"]
                       ELSE ok(idx, depth - 1)
          [] wt = 5 -> ok(IntWrap(idx + 4), depth)
          [] OTHER  -> [err |-> "ErrIllegalWireType"]

RECURSIVE SkipFrom(_, _, _)
RECURSIVE SkipKey(_, _, _)
RECURSIVE SkipNext(_, _)
SkipFrom(d, idx, depth) ==
    IF idx >= Len(d) THEN [err |-> "ErrUnexpectedEOF"]
    ELSE SkipKey(d, depth, ReadVarint(d, idx, WireWidth))
SkipKey(d, depth, key) ==
    IF key.err # "nil" THEN key
    ELSE SkipNext(d, SkipPayload(d, key.idx, key.v % 8, depth))
(* The checks after the switch (lines 443-448).                            *)
SkipNext(d, next) ==
    CASE next.err # "nil" -> [err |-> next.err]
      [] next.idx < 0     -> [err |-> "ErrInvalidLength"]
      [] next.depth = 0   -> [err |-> "nil", n |-> next.idx]
      [] OTHER            -> SkipFrom(d, next.idx, next.depth)
Skip(d) == SkipFrom(d, 0, 0)

(* Delegation.Unmarshal, outside src/: exactly the encodings decode.       *)
DelegationUnmarshal(bs) ==
    IF \E d \in Delegations : DelegationEncoding[d] = bs
    THEN [err |-> "nil", d |-> CHOOSE d \in Delegations : DelegationEncoding[d] = bs]
    ELSE [err |-> "ErrDelegation"]

(* The cases of the field switch of Unmarshal, each from the index after  *)
(* the key: the new message and index, or an error.                        *)

(* An int32 field (lines 279-316): the value wraps to 32 bits.             *)
Int32Field(m, f, num) ==
    IF num.err # "nil" THEN [err |-> num.err]
    ELSE [err |-> "nil", idx |-> num.idx,
          m |-> [m EXCEPT ![f.num] = Signed(num.v, Int32Width)]]

(* A string or Delegation field once its bytes are cut out (lines 277-278 *)
(* and 346-350): a Delegation that does not decode is an error.            *)
BodyField(m, f, post, body) ==
    LET dlg == DelegationUnmarshal(body.bytes)
    IN  CASE body.err # "nil"   -> [err |-> body.err]
          [] f.kind = "string"  -> [err |-> "nil", idx |-> post,
                                    m |-> [m EXCEPT ![f.num] = body.bytes]]
          [] OTHER -> IF dlg.err # "nil" THEN [err |-> dlg.err]
                      ELSE [err |-> "nil", idx |-> post,
                            m |-> [m EXCEPT ![f.num] = Append(@, dlg.d)]]

(* A length-delimited field (lines 247-278 and 317-350): the length, its   *)
(* checks, then the bytes dAtA[iNdEx:postIndex].                           *)
BoundedField(d, m, f, idx, ld) ==
    IF ld.err # "nil" THEN [err |-> ld.err]
    ELSE BodyField(m, f, ld.post, Slice(d, idx, ld.post))
LengthField(d, m, f, len) ==
    IF len.err # "nil" THEN [err |-> len.err]
    ELSE BoundedField(d, m, f, len.idx, LengthDelimited(Len(d), len.idx, len.v))

(* A field of the message: the wire type must match (lines 248-250).       *)
KnownField(d, idx, m, f, wt) ==
    CASE wt # WireType(f.kind) -> [err |-> "ErrWrongWireType"]
      [] f.kind = "int32"      -> Int32Field(m, f, ReadInt32(d, idx))
      [] OTHER                 -> LengthField(d, m, f, ReadVarint(d, idx, WireWidth))

(* The default case (lines 351-364): skip from preIndex, then check where  *)
(* the skip ends.                                                          *)
SkippedTo(d, m, n, post) ==
    CASE n < 0 \/ post < 0 -> [err |-> "ErrInvalidLength"]
      [] post > Len(d)     -> [err |-> "ErrUnexpectedEOF"]
      [] OTHER             -> [err |-> "nil", idx |-> post, m |-> m]
UnknownField(d, pre, m, skip) ==
    IF skip.err # "nil" THEN [err |-> skip.err]
    ELSE SkippedTo(d, m, skip.n, IntWrap(pre + skip.n))

(* The checks on the key (lines 238-245), then the switch on fieldNum.     *)
FieldByNumber(fields, d, pre, m, idx, fieldNum, wt) ==
    CASE wt = 4        -> [err |-> "ErrEndGroup"]
      [] fieldNum <= 0 -> [err |-> "ErrIllegalTag"]
      [] \E k \in DOMAIN fields : fields[k].num = fieldNum ->
           KnownField(d, idx, m, fields[CHOOSE k \in DOMAIN fields : fields[k].num = fieldNum], wt)
      [] OTHER -> UnknownField(d, pre, m, Skip(SubSeq(d, pre + 1, Len(d))))
FieldWithKey(fields, d, pre, m, key) ==
    IF key.err # "nil" THEN [err |-> key.err]
    ELSE FieldByNumber(fields, d, pre, m, key.idx,
                       Signed((key.v \div 8) % 2^Int32Width, Int32Width), key.v % 8)

(* One round of the Unmarshal loop, from the key at preIndex.              *)
UnmarshalField(fields, d, pre, m) == FieldWithKey(fields, d, pre, m, ReadVarint(d, pre, WireWidth))

(* ICAAccount.Unmarshal (ica_account.pb.go 218-371): fields until the     *)
(* data ends; later occurrences of a field replace (or, for a repeated     *)
(* field, extend) earlier ones.                                            *)
RECURSIVE UnmarshalFrom(_, _, _, _)
RECURSIVE UnmarshalNext(_, _, _)
UnmarshalFrom(fields, d, idx, m) ==
    IF idx >= Len(d)
    THEN IF idx > Len(d) THEN [err |-> "ErrUnexpectedEOF"] ELSE [err |-> "nil", m |-> m]
    ELSE UnmarshalNext(fields, d, UnmarshalField(fields, d, idx, m))
UnmarshalNext(fields, d, r) ==
    IF r.err # "nil" THEN [err |-> r.err] ELSE UnmarshalFrom(fields, d, r.idx, r.m)
EmptyMessage(fields) == [k \in DOMAIN fields |-> Zero(fields[k].kind)]
Unmarshal(fields, d) == UnmarshalFrom(fields, d, 0, EmptyMessage(fields))

-----------------------------------------------------------------------------
(* The four messages.                                                      *)

(* ica_account.pb.go 122-174, 187-210, 218-371.                            *)
ICAAccountMarshal(m) == Marshal(ICAAccountFields, m)
ICAAccountSize(m) == Size(ICAAccountFields, m)
ICAAccountUnmarshal(d) == Unmarshal(ICAAccountFields, d)
(* validator.pb.go 129-181, 194-220, 227-410.                              *)
ValidatorMarshal(m) == Marshal(ValidatorFields, m)
ValidatorSize(m) == Size(ValidatorFields, m)
ValidatorUnmarshal(d) == Unmarshal(ValidatorFields, d)
(* gov.pb.go 208-264, 328-355, 388-597.                                    *)
AddValidatorProposalMarshal(m) == Marshal(AddValidatorProposalFields, m)
AddValidatorProposalSize(m) == Size(AddValidatorProposalFields, m)
AddValidatorProposalUnmarshal(d) == Unmarshal(AddValidatorProposalFields, d)
(* gov.pb.go 266-315, 357-380, 598-775.                                    *)
DeleteValidatorProposalMarshal(m) == Marshal(DeleteValidatorProposalFields, m)
DeleteValidatorProposalSize(m) == Size(DeleteValidatorProposalFields, m)
DeleteValidatorProposalUnmarshal(d) == Unmarshal(DeleteValidatorProposalFields, d)

FieldsEqual(fields, this, that) ==
    CASE that.form = "nil"    -> this = NilPtr
      [] that.form = "other"  -> FALSE
      [] that.form = "nilptr" -> this = NilPtr
      [] this = NilPtr        -> FALSE
      [] OTHER -> \A k \in DOMAIN fields : this[k] = that.msg[k]

(* gov.pb.go 139-174 and 175-207.                                          *)
AddValidatorProposalEqual(this, that) == FieldsEqual(AddValidatorProposalFields, this, that)
DeleteValidatorProposalEqual(this, that) ==
    FieldsEqual(DeleteValidatorProposalFields, this, that)

-----------------------------------------------------------------------------
(* A caller marshalling and unmarshalling each message.                    *)

CONSTANTS
    Strings,       \* string field values, as bytes
    Int32s,        \* int32 field values
    WireBytes,     \* bytes of the arbitrary input given to Unmarshal
    MaxWireLen,    \* bound on its length
    LongInputs     \* longer inputs, each aimed at one check of the decoder

VARIABLE last

Messages == {"ICAAccount", "Validator", "AddValidatorProposal",
             "DeleteValidatorProposal"}
FieldsOf(t) ==
    CASE t = "ICAAccount" -> ICAAccountFields
      [] t = "Validator"  -> ValidatorFields
      [] t = "AddValidatorProposal" -> AddValidatorProposalFields
      [] OTHER -> DeleteValidatorProposalFields
MarshalOf(t, m) ==
    CASE t = "ICAAccount" -> ICAAccountMarshal(m)
      [] t = "Validator"  -> ValidatorMarshal(m)
      [] t = "AddValidatorProposal" -> AddValidatorProposalMarshal(m)
      [] OTHER -> DeleteValidatorProposalMarshal(m)
SizeOf(t, m) ==
    CASE t = "ICAAccount" -> ICAAccountSize(m)
      [] t = "Validator"  -> ValidatorSize(m)
      [] t = "AddValidatorProposal" -> AddValidatorProposalSize(m)
      [] OTHER -> DeleteValidatorProposalSize(m)
UnmarshalOf(t, d) ==
    CASE t = "ICAAccount" -> ICAAccountUnmarshal(d)
      [] t = "Validator"  -> ValidatorUnmarshal(d)
      [] t = "AddValidatorProposal" -> AddValidatorProposalUnmarshal(d)
      [] OTHER -> DeleteValidatorProposalUnmarshal(d)
EqualOf(t, this, that) ==
    IF t = "AddValidatorProposal" THEN AddValidatorProposalEqual(this, that)
    ELSE DeleteValidatorProposalEqual(this, that)

Values(kind) ==
    CASE kind = "string" -> Strings
      [] kind = "int32"  -> Int32s
      [] OTHER -> UNION {[1..n -> Delegations] : n \in 0..2}
RECURSIVE Tuples(_)
Tuples(fields) ==
    IF fields = <<>> THEN {<<>>}
    ELSE {<<x>> \o t : x \in Values(Head(fields).kind), t \in Tuples(Tail(fields))}
WireInputs == UNION {[1..n -> WireBytes] : n \in 0..MaxWireLen} \cup LongInputs

Marshalled(t, m, out) ==
    last' = [op |-> "Marshal", type |-> t, in |-> m, out |-> out, size |-> SizeOf(t, m),
             back |-> IF out.err = "nil" THEN UnmarshalOf(t, out.bytes) ELSE out]
CallMarshal ==
    \E t \in Messages : \E m \in Tuples(FieldsOf(t)) : Marshalled(t, m, MarshalOf(t, m))

CallUnmarshal ==
    \E t \in Messages, d \in WireInputs :
        last' = [op |-> "Unmarshal", type |-> t, in |-> d, out |-> UnmarshalOf(t, d)]

(* Equal on messages whose strings are at most one byte long.             *)
ShortTuples(t) == {m \in Tuples(FieldsOf(t)) : \A k \in DOMAIN m : Len(m[k]) <= 1}
CallEqual ==
    \E t \in {"AddValidatorProposal", "DeleteValidatorProposal"} :
    \E this \in ShortTuples(t) \cup {NilPtr} :
    \E form \in {"nil", "nilptr", "ptr", "value", "other"}, msg \in ShortTuples(t) :
        last' = [op |-> "Equal", type |-> t, in |-> <<this, [form |-> form, msg |-> msg]>>,
                 out |-> EqualOf(t, this, [form |-> form, msg |-> msg])]

(* The caller returns, ready for the next call.                            *)
Return == last.op # "none" /\ last' = [op |-> "none"]

Init == last = [op |-> "none"]
Next == (last.op = "none" /\ (CallMarshal \/ CallUnmarshal \/ CallEqual)) \/ Return
Spec == Init /\ [][Next]_last

-----------------------------------------------------------------------------
(* Properties.                                                             *)

(* The protobuf encoding, written forward from the wire format: for each   *)
(* non-default field in field order, its key, for a length-delimited field *)
(* the length, then the payload; varints little-endian base 128.           *)
RefVarint(v) ==
    LET n == CHOOSE k \in 1..((WireWidth + 6) \div 7) :
                 v < 128^k /\ (k = 1 \/ v >= 128^(k - 1))
    IN  [j \in 1..n |-> ((v \div 128^(j - 1)) % 128) + (IF j < n THEN 128 ELSE 0)]
RefField(f, x) ==
    CASE x = Zero(f.kind) -> <<>>
      [] f.kind = "string" -> <<Tag(f)>> \o RefVarint(Len(x)) \o x
      [] f.kind = "int32"  -> <<Tag(f)>> \o RefVarint(x % 2^WireWidth)
      [] OTHER -> FoldLeft(LAMBDA acc, d : acc \o <<Tag(f)>>
                             \o RefVarint(Len(DelegationEncoding[d])) \o DelegationEncoding[d],
                           <<>>, x)
RefEncode(fields, m) ==
    FoldLeft(LAMBDA acc, k : acc \o RefField(fields[k], m[k]), <<>>, [k \in DOMAIN fields |-> k])

(* Marshal writes backwards into a buffer that Size computed: it never     *)
(* panics, fills the buffer exactly, and yields the protobuf encoding      *)
(* (negative int32 values as ten-byte varints).                            *)
MarshalCanonical ==
    last.op = "Marshal" =>
        /\ last.out.err = "nil"
        /\ Len(last.out.bytes) = last.size
        /\ last.out.bytes = RefEncode(FieldsOf(last.type), last.in)

(* Unmarshal gives back every message Marshal encoded.                     *)
RoundTrip ==
    last.op = "Marshal" => last.back = [err |-> "nil", m |-> last.in]

(* Unmarshal of arbitrary bytes returns a message or an error and never    *)
(* indexes outside the data.                                               *)
UnmarshalNeverPanics ==
    last.op = "Unmarshal" => last.out.err # "panic"

=============================================================================
