---------------------------- MODULE MC_ProtoCodec ----------------------------
(* The codec at 16-bit wire integers and 10-bit int32s.                    *)
EXTENDS ProtoCodec

CONSTANTS d0, d1

(* A Delegation with every field at its default encodes to nothing.       *)
MC_DelegationEncoding == (d0 :> <<>>) @@ (d1 :> <<8, 1>>)
MC_Strings == {<<>>, <<97>>, <<97, 98>>}
(* Zero, one and two-byte varints, and negatives sign-extended to three.   *)
MC_Int32s == {0, 1, 127, 128, 511, -1, -512}
(* Keys of each wire type, continuation bytes and plain data.              *)
MC_WireBytes == {0, 1, 8, 10, 11, 12, 16, 34, 58, 128, 255}
(* Longer inputs, at 16-bit ints.  Field 1 (key 10) with a length that is *)
(* negative as an int, that overflows postIndex, or whose varint overflows; *)
(* unknown field 7 as groups (59 start, 60 end), nested, unterminated or a  *)
(* stray end, as fixed32 (61) and fixed64 (57), whole and cut short, as a   *)
(* length-delimited field with a negative or overflowing length, and with   *)
(* the illegal wire type 6 (62).                                           *)
MC_LongInputs ==
    { <<10, 128, 128, 2>>, <<10, 255, 255, 1>>, <<10, 128, 128, 128, 1>>,
      <<59, 60>>, <<59, 59, 60, 60>>, <<59, 58, 1, 0, 60>>, <<59, 8, 1>>,
      <<59, 60, 60>>, <<61, 1, 2, 3, 4>>, <<61, 1, 2>>,
      <<57, 1, 2, 3, 4, 5, 6, 7, 8>>, <<57, 1>>,
      <<58, 128, 128, 2>>, <<58, 255, 255, 1>>, <<62>> }
=============================================================================
