-------------------------------- MODULE Rle --------------------------------
(***************************************************************************)
(* The run-length code of the templates (source/rle.c), as functions of a  *)
(* sequence of bytes.  A command is 0x80 for a repeat, 0x40 for a count of *)
(* 14 bits, and the count less one or its high bits in the lower six;      *)
(* here the powers of two 64 and 256 are Low and High, so that the limits  *)
(* they make can be reached by short inputs.                               *)
(***************************************************************************)
EXTENDS Naturals, Sequences, FiniteSetsExt

CONSTANTS Low,     \* counts a command holds: 64 in the code
          High     \* by how many counts a second byte extends them: 256

ASSUME RleAssumption == Low \in Nat \ {0, 1} /\ High \in Nat \ {0, 1}

MAX_14_BIT == Low * High
Repeat == 2 * Low
Literal == 0

(* Mutant: a long repeat loses the high bits of its count. *)
CommandLowBits(kind, count) ==
  IF count < Low - 1
  THEN <<kind + count - 1>>
  ELSE <<kind + Low + (IF kind = Repeat THEN 0 ELSE (count - 1) \div High),
         (count - 1) % High>>

(* The command for a count, of one byte or of two (42-50, 61-67). *)
Command(kind, count) ==
  IF count < Low - 1
  THEN <<kind + count - 1>>
  ELSE <<kind + Low + ((count - 1) \div High), (count - 1) % High>>

(* How often the byte at i is repeated (36-42). *)
RepeatsAt(in, i) ==
  Min({k \in 1 .. MAX_14_BIT :
         k = MAX_14_BIT \/ i + k > Len(in) \/ in[i + k] # in[i]})

(* Mutant: collects one literal for each command. *)
LiteralsAtOne(in, i) == 1

(* How many bytes from i to take as they are, up to the next repeat (55-61).*)
LiteralsAt(in, i) ==
  Min({k \in 0 .. MAX_14_BIT :
         \/ k = MAX_14_BIT \/ i + k > Len(in)
         \/ i + k < Len(in) /\ in[i + k + 1] = in[i + k]})

(* rle_compress *)
Compress(in) ==
  LET from[i \in 1 .. Len(in) + 1] ==
        IF i > Len(in) THEN <<>>
        ELSE IF RepeatsAt(in, i) > 1
             THEN Command(Repeat, RepeatsAt(in, i)) \o <<in[i]>>
                    \o from[i + RepeatsAt(in, i)]
             ELSE Command(Literal, LiteralsAt(in, i))
                    \o SubSeq(in, i, i + LiteralsAt(in, i) - 1)
                    \o from[i + LiteralsAt(in, i)]
  IN from[1]

(* The byte at i.  No code that Compress makes is cut short; behind the    *)
(* end of one that is, 0 stands for what the memory holds.                 *)
ByteAt(in, i) == IF i <= Len(in) THEN in[i] ELSE 0

(* The command at i (89-97): whether its count has a second byte, the      *)
(* count, and where what it is about begins.                               *)
Extended(byte) == (byte \div Low) % 2 = 1

CountAt(in, i) ==
  IF Extended(in[i]) THEN ((in[i] % Low) * High) + ByteAt(in, i + 1) + 1
                     ELSE (in[i] % Low) + 1

DataAt(in, i) == IF Extended(in[i]) THEN i + 2 ELSE i + 1

(* rle_decompress *)
Decompress(in) ==
  LET from[i \in Nat \ {0}] ==
        IF i > Len(in) THEN <<>>
        ELSE IF in[i] \div Repeat = 1
             THEN [k \in 1 .. CountAt(in, i) |-> ByteAt(in, DataAt(in, i))]
                    \o from[DataAt(in, i) + 1]
             ELSE SubSeq(in, DataAt(in, i), DataAt(in, i) + CountAt(in, i) - 1)
                    \o from[DataAt(in, i) + CountAt(in, i)]
  IN from[1]
=============================================================================
