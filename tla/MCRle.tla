------------------------------- MODULE MCRle -------------------------------
(***************************************************************************)
(* All inputs of Rle up to a length, each a state: finger[] as it fills    *)
(* with the bytes of a template.                                           *)
(***************************************************************************)
EXTENDS Rle

CONSTANTS Bytes, MaxLen

ASSUME BytesAssumption == Bytes \subseteq Nat /\ MaxLen \in Nat

VARIABLE finger

Init == finger = <<>>
Next == Len(finger) < MaxLen /\ \E b \in Bytes : finger' = Append(finger, b)
Spec == Init /\ [][Next]_finger

(* What rle_decompress makes of the output of rle_compress is what it was  *)
(* given, at every length of a run or of its lack, the limits of the two   *)
(* forms of a command and of a count included.                             *)
RoundTrip == Decompress(Compress(finger)) = finger

(* The output fits into compressed[] (main.c:96) behind the four bytes of  *)
(* its header, at every length of a template: rle.h allows it four more.   *)
FitsBehindHeader ==
  Len(finger) > 1 => Len(Compress(finger)) <= Len(finger) + (Len(finger) \div 2)
=============================================================================
