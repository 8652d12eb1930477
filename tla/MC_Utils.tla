------------------------------ MODULE MC_Utils ------------------------------
(* A bounded instance of the utils caller.                                 *)
EXTENDS Utils

CONSTANTS v1, v2, admin1, admin2, other, stride, cosmos

(* Times around a start of 0 or 1, a negative one included.               *)
MC_Times == -1..4
(* A negative, a zero and positive vesting lengths.                        *)
MC_Lengths == {-1, 0, 1, 3}
=============================================================================
