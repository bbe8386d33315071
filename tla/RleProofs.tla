------------------------------ MODULE RleProofs ------------------------------
(***************************************************************************)
(* Theorems about Rle: what is decompressed is what was compressed, and the *)
(* code fits into its buffer, for inputs of every length.  Both functions   *)
(* are recursive; the induction is over the smallest counterexample.        *)
(***************************************************************************)
EXTENDS MCRle, SequenceTheorems, WellFoundedInduction, TLAPS

-----------------------------------------------------------------------------
(* Induction.                                                               *)

\* A set of numbers has a least one.
LEMMA Least ==
  ASSUME NEW T, T \subseteq Nat, T # {}
  PROVE  \E x \in T : \A y \in T : x <= y
<1>1. PICK R : R = OpToRel(<, Nat)
  OBVIOUS
<1>2. IsWellFoundedOn(R, Nat)
  BY <1>1, NatLessThanWellFounded
<1>3. PICK x \in T : \A y \in T : ~ (<<y, x>> \in R)
  BY <1>2, WFMin
<1>4. \A a, b \in Nat : b < a => <<b, a>> \in R
  BY <1>1 DEF OpToRel
<1>5. ASSUME NEW y \in T PROVE x <= y
  <2>1. x \in Nat /\ y \in Nat
    OBVIOUS
  <2>2. ~(y < x)
    BY <1>3, <1>4, <2>1
  <2> QED BY <2>1, <2>2
<1> QED BY <1>5

\* What holds of a number if it holds of all less holds of all.
LEMMA Induction ==
  ASSUME NEW S, NEW n \in Nat,
         \A m \in 0 .. n : (\A k \in 0 .. n : k < m => k \in S) => m \in S
  PROVE  \A m \in 0 .. n : m \in S
<1> DEFINE T == {m \in 0 .. n : m \notin S}
<1>1. CASE T = {}
  BY <1>1
<1>2. CASE T # {}
  <2>1. T \subseteq Nat
    OBVIOUS
  <2>2. PICK x \in T : \A y \in T : x <= y
    BY <1>2, <2>1, Least
  <2>3. \A k \in 0 .. n : k < x => k \in S
    BY <2>2
  <2> QED BY <2>2, <2>3
<1> QED BY <1>1, <1>2

\* The least of a set is in it, and less than the others.
LEMMA MinIs ==
  ASSUME NEW T, T \subseteq Nat, T # {}
  PROVE  Min(T) \in T /\ \A y \in T : Min(T) <= y
BY Least DEF Min

-----------------------------------------------------------------------------
(* Repeats and literals.                                                    *)
LEMMA Limits ==
  /\ Low \in Nat /\ High \in Nat /\ 2 <= Low /\ 2 <= High
  /\ MAX_14_BIT \in Nat /\ 4 <= MAX_14_BIT /\ 2 * Low <= MAX_14_BIT
<1>1. Low \in Nat /\ High \in Nat /\ 2 <= Low /\ 2 <= High
  BY RleAssumption
<1>2. Low * High \in Nat /\ 2 * Low <= Low * High
  BY <1>1
<1> QED BY <1>1, <1>2 DEF MAX_14_BIT

\* All that is taken as a repeat is the same, and nothing else.
LEMMA Repeats ==
  ASSUME NEW in \in Seq(Nat), NEW i \in 1 .. Len(in), NEW r, r = RepeatsAt(in, i)
  PROVE  /\ r \in 1 .. MAX_14_BIT /\ i + r <= Len(in) + 1
         /\ \A k \in 0 .. r - 1 : in[i + k] = in[i]
         /\ i < Len(in) /\ in[i + 1] = in[i] => r > 1
<1> DEFINE T == {k \in 1 .. MAX_14_BIT :
                   k = MAX_14_BIT \/ i + k > Len(in) \/ in[i + k] # in[i]}
<1>1. Len(in) \in Nat /\ i \in Nat
  BY LenProperties
<1>2. T \subseteq Nat /\ MAX_14_BIT \in T
  BY Limits
<1>3. r \in T /\ \A k \in T : r <= k
  BY <1>2, MinIs DEF RepeatsAt
<1>4. r \in 1 .. MAX_14_BIT
  BY <1>3
<1>5. ASSUME NEW k \in 1 .. r - 1
      PROVE  k < MAX_14_BIT /\ i + k <= Len(in) /\ in[i + k] = in[i]
  <2>1. k \in 1 .. MAX_14_BIT /\ k \notin T
    BY <1>3, <1>4, Limits
  <2>2. k # MAX_14_BIT /\ ~(i + k > Len(in)) /\ in[i + k] = in[i]
    BY <2>1
  <2> QED BY <1>1, <2>1, <2>2, Limits
<1>6. i + r <= Len(in) + 1
  <2>1. CASE r = 1
    BY <1>1, <2>1
  <2>2. CASE r # 1
    <3>1. r - 1 \in 1 .. r - 1
      BY <1>4, <2>2, Limits
    <3> QED BY <1>1, <1>4, <1>5, <3>1, Limits
  <2> QED BY <2>1, <2>2
<1>7. \A k \in 0 .. r - 1 : in[i + k] = in[i]
  <2> SUFFICES ASSUME NEW k \in 0 .. r - 1 PROVE in[i + k] = in[i]
    OBVIOUS
  <2>1. CASE k = 0
    BY <1>1, <2>1
  <2>2. CASE k # 0
    BY <1>4, <1>5, <2>2, Limits
  <2> QED BY <2>1, <2>2
<1>8. i < Len(in) /\ in[i + 1] = in[i] => r > 1
  BY <1>1, <1>3, <1>4, Limits
<1> QED BY <1>4, <1>6, <1>7, <1>8

\* Literals are taken up to the next repeat, the end, or the limit.
LEMMA Literals ==
  ASSUME NEW in \in Seq(Nat), NEW i \in 1 .. Len(in), ~(RepeatsAt(in, i) > 1),
         NEW l, l = LiteralsAt(in, i)
  PROVE  /\ l \in 1 .. MAX_14_BIT /\ i + l <= Len(in) + 1
         /\ \/ l = MAX_14_BIT
            \/ i + l = Len(in) + 1
            \/ i + l < Len(in) /\ RepeatsAt(in, i + l) > 1
<1> DEFINE T == {k \in 0 .. MAX_14_BIT :
                   \/ k = MAX_14_BIT \/ i + k > Len(in)
                   \/ i + k < Len(in) /\ in[i + k + 1] = in[i + k]}
<1>1. Len(in) \in Nat /\ i \in Nat /\ i <= Len(in)
  BY LenProperties
<1>2. T \subseteq Nat /\ MAX_14_BIT \in T
  BY Limits
<1>3. l \in T /\ \A k \in T : l <= k
  BY <1>2, MinIs DEF LiteralsAt
<1>4. l \in 1 .. MAX_14_BIT
  <2>1. l # 0
    <3>1. ~(i < Len(in) /\ in[i + 1] = in[i])
      BY Repeats
    <3> QED BY <1>1, <1>3, <3>1, Limits
  <2> QED BY <1>3, <2>1, Limits
<1>5. i + l <= Len(in) + 1
  <2>1. l - 1 \in 0 .. MAX_14_BIT /\ ~(l <= l - 1)
    BY <1>4, Limits
  <2>2. l - 1 \notin T
    BY <1>3, <2>1
  <2>3. ~(i + (l - 1) > Len(in))
    BY <2>1, <2>2
  <2> QED BY <1>1, <1>4, <2>3, Limits
<1>6. CASE i + l < Len(in) /\ in[i + l + 1] = in[i + l]
  <2>1. i + l \in 1 .. Len(in) /\ (i + l) + 1 = i + l + 1
    BY <1>1, <1>4, <1>6, Limits
  <2>2. RepeatsAt(in, i + l) > 1
    BY <1>6, <2>1, Repeats
  <2> QED BY <1>4, <1>5, <1>6, <2>2
<1>7. CASE l = MAX_14_BIT
  BY <1>4, <1>5, <1>7
<1>8. CASE i + l > Len(in)
  <2>1. i + l = Len(in) + 1
    BY <1>1, <1>4, <1>5, <1>8, Limits
  <2> QED BY <1>4, <1>5, <2>1
<1>9. l = MAX_14_BIT \/ i + l > Len(in) \/ (i + l < Len(in) /\ in[i + l + 1] = in[i + l])
  BY <1>3
<1> QED BY <1>6, <1>7, <1>8, <1>9

-----------------------------------------------------------------------------
(* What is compressed, block by block.                                      *)
Taken(in, i) == IF RepeatsAt(in, i) > 1 THEN RepeatsAt(in, i) ELSE LiteralsAt(in, i)

Block(in, i) ==
  IF RepeatsAt(in, i) > 1
  THEN Command(Repeat, RepeatsAt(in, i)) \o <<in[i]>>
  ELSE Command(Literal, LiteralsAt(in, i)) \o SubSeq(in, i, i + LiteralsAt(in, i) - 1)

\* f[i] is the code of the input from i on, for i from some j.
CodesFrom(in, f, j) ==
  \A i \in j .. Len(in) + 1 :
    f[i] = IF i > Len(in) THEN <<>> ELSE Block(in, i) \o f[i + Taken(in, i)]

\* Each block takes some of the input, and not more than there is.
LEMMA Progress ==
  ASSUME NEW in \in Seq(Nat), NEW i \in 1 .. Len(in)
  PROVE  Taken(in, i) \in 1 .. MAX_14_BIT /\ i + Taken(in, i) \in i + 1 .. Len(in) + 1
<1>1. Len(in) \in Nat /\ i \in Nat
  BY LenProperties
<1>2. CASE RepeatsAt(in, i) > 1
  BY <1>1, <1>2, Repeats, Limits DEF Taken
<1>3. CASE ~(RepeatsAt(in, i) > 1)
  BY <1>1, <1>3, Literals, Limits DEF Taken
<1> QED BY <1>2, <1>3

\* There is such an f, so that Compress, defined by recursion, is what it should be.
LEMMA CodesExist ==
  ASSUME NEW in \in Seq(Nat)
  PROVE  \E f : CodesFrom(in, f, 1)
<1>1. PICK n \in Nat : n = Len(in)
  BY LenProperties
<1> DEFINE S == {m \in 0 .. n : \E f : CodesFrom(in, f, n + 1 - m)}
<1>2. ASSUME NEW m \in 0 .. n, \A k \in 0 .. n : k < m => k \in S
      PROVE  m \in S
  <2>1. CASE m = 0
    <3> DEFINE f == [i \in 1 .. n + 1 |-> <<>>]
    <3>1. CodesFrom(in, f, n + 1 - m)
      BY <1>1, <2>1 DEF CodesFrom
    <3> QED BY <3>1
  <2>2. CASE m # 0
    <3>1. m - 1 \in S
      <4>1. m - 1 \in 0 .. n /\ m - 1 < m
        BY <2>2
      <4> HIDE DEF S
      <4> QED BY <1>2, <4>1
    <3>2. PICK g : CodesFrom(in, g, n + 1 - (m - 1))
      BY <3>1
    <3>3. PICK j \in 1 .. n : j = n + 1 - m /\ j + 1 = n + 1 - (m - 1)
      BY <2>2
    <3> DEFINE f == [i \in 1 .. n + 1 |->
                       IF i = j THEN Block(in, j) \o g[j + Taken(in, j)] ELSE g[i]]
    <3>4. ASSUME NEW i \in j .. n + 1
          PROVE  f[i] = IF i > n THEN <<>> ELSE Block(in, i) \o f[i + Taken(in, i)]
      <4>1. CASE i = j
        <5>1. j + Taken(in, j) \in j + 1 .. n + 1
          BY <1>1, Progress
        <5>2. f[j + Taken(in, j)] = g[j + Taken(in, j)]
          BY <5>1
        <5>3. f[j] = Block(in, j) \o g[j + Taken(in, j)] /\ ~(j > n)
          OBVIOUS
        <5> HIDE DEF f
        <5> QED BY <4>1, <5>2, <5>3
      <4>2. CASE i # j
        <5>1. i \in j + 1 .. n + 1 /\ f[i] = g[i]
          BY <4>2
        <5>2. g[i] = IF i > n THEN <<>> ELSE Block(in, i) \o g[i + Taken(in, i)]
          BY <1>1, <3>2, <3>3, <5>1 DEF CodesFrom
        <5>3. CASE i > n
          BY <5>1, <5>2, <5>3
        <5>4. CASE ~(i > n)
          <6>1. i + Taken(in, i) \in i + 1 .. n + 1
            BY <1>1, <5>4, Progress
          <6>2. f[i + Taken(in, i)] = g[i + Taken(in, i)]
            BY <6>1
          <6> QED BY <5>1, <5>2, <5>4, <6>2
        <5> QED BY <5>3, <5>4
      <4> QED BY <4>1, <4>2
    <3> HIDE DEF f
    <3>5. CodesFrom(in, f, n + 1 - m)
      BY <1>1, <3>3, <3>4 DEF CodesFrom
    <3> QED BY <3>5
  <2> QED BY <2>1, <2>2
<1> HIDE DEF S
<1>3. \A m \in 0 .. n : m \in S
  BY <1>2, Induction
<1>4. n \in S
  BY <1>3
<1> QED BY <1>4 DEF S

LEMMA CompressIs ==
  ASSUME NEW in \in Seq(Nat)
  PROVE  \E f : CodesFrom(in, f, 1) /\ Compress(in) = f[1]
<1> DEFINE D == 1 .. Len(in) + 1
           Body(f, i) ==
             IF i > Len(in) THEN <<>>
             ELSE IF RepeatsAt(in, i) > 1
                  THEN Command(Repeat, RepeatsAt(in, i)) \o <<in[i]>>
                         \o f[i + RepeatsAt(in, i)]
                  ELSE Command(Literal, LiteralsAt(in, i))
                         \o SubSeq(in, i, i + LiteralsAt(in, i) - 1)
                         \o f[i + LiteralsAt(in, i)]
           from == CHOOSE f : f = [i \in D |-> Body(f, i)]
<1>1. \A f, i : Body(f, i) = IF i > Len(in) THEN <<>> ELSE Block(in, i) \o f[i + Taken(in, i)]
  BY DEF Block, Taken
<1>2. Compress(in) = from[1]
  BY DEF Compress
<1> HIDE DEF Body
<1>3. PICK g : CodesFrom(in, g, 1)
  BY CodesExist
<1> DEFINE f == [i \in D |-> g[i]]
<1>4. f = [i \in D |-> Body(f, i)]
  <2>1. ASSUME NEW i \in D PROVE f[i] = Body(f, i)
    <3>1. Len(in) \in Nat
      BY LenProperties
    <3>2. g[i] = IF i > Len(in) THEN <<>> ELSE Block(in, i) \o g[i + Taken(in, i)]
      BY <1>3 DEF CodesFrom
    <3>3. CASE i > Len(in)
      BY <1>1, <3>2, <3>3
    <3>4. CASE ~(i > Len(in))
      <4>1. i + Taken(in, i) \in D
        BY <3>1, <3>4, Progress
      <4>2. f[i + Taken(in, i)] = g[i + Taken(in, i)]
        BY <4>1
      <4>3. f[i] = g[i]
        OBVIOUS
      <4> QED BY <1>1, <3>2, <3>4, <4>2, <4>3
    <3> QED BY <3>3, <3>4
  <2> QED BY <2>1
<1>5. from = [i \in D |-> Body(from, i)]
  <2> HIDE DEF f, D
  <2>1. \E h : h = [i \in D |-> Body(h, i)]
    BY <1>4
  <2> QED BY <2>1
<1>6. \A i \in D : from[i] = Body(from, i)
  <2> HIDE DEF from, D
  <2> QED BY <1>5
<1>7. CodesFrom(in, from, 1)
  <2> HIDE DEF from
  <2> QED BY <1>1, <1>6 DEF CodesFrom
<1> QED BY <1>2, <1>7

-----------------------------------------------------------------------------
(* A command.                                                               *)
CommandLen(count) == IF count < Low - 1 THEN 1 ELSE 2

LEMMA CommandIs ==
  ASSUME NEW kind \in {Repeat, Literal}, NEW count \in 1 .. MAX_14_BIT
  PROVE  Command(kind, count) \in Seq(Nat) /\ Len(Command(kind, count)) = CommandLen(count)
<1>1. kind \in Nat /\ count \in Nat /\ count - 1 \in Nat /\ Low \in Nat /\ High \in Nat /\ 2 <= High
  BY Limits DEF Repeat, Literal
<1>2. (count - 1) \div High \in Nat /\ (count - 1) % High \in Nat
  BY <1>1
<1>3. CASE count < Low - 1
  <2>1. Command(kind, count) = <<kind + count - 1>> /\ kind + count - 1 \in Nat
    BY <1>1, <1>3 DEF Command
  <2> QED BY <1>3, <2>1 DEF CommandLen
<1>4. CASE ~(count < Low - 1)
  <2>1. /\ Command(kind, count) = <<kind + Low + ((count - 1) \div High), (count - 1) % High>>
        /\ kind + Low + ((count - 1) \div High) \in Nat
    BY <1>1, <1>2, <1>4 DEF Command
  <2> QED BY <1>2, <1>4, <2>1 DEF CommandLen
<1> QED BY <1>3, <1>4

\* The digits of a count and the flags of a command do not overlap.
LEMMA LowBits ==
  ASSUME NEW b \in Nat, 2 <= b, NEW r \in Nat, r < b
  PROVE  /\ r \div b = 0 /\ (b + r) \div b = 1 /\ (2 * b + r) \div b = 2
         /\ (2 * b + b + r) \div b = 3
         /\ r % b = r /\ (b + r) % b = r /\ (2 * b + r) % b = r /\ (2 * b + b + r) % b = r
         /\ r \div (2 * b) = 0 /\ (b + r) \div (2 * b) = 0
         /\ (2 * b + r) \div (2 * b) = 1 /\ (2 * b + b + r) \div (2 * b) = 1
OBVIOUS

LEMMA HighBits ==
  ASSUME NEW n \in Nat, NEW b \in Nat, 2 <= b, NEW c \in Nat, 2 <= c, n < c * b
  PROVE  /\ n \div b \in Nat /\ n \div b < c /\ n % b \in Nat
         /\ n = ((n \div b) * b) + (n % b)
OBVIOUS

\* A command is read as it was written.
LEMMA CommandRead ==
  ASSUME NEW kind \in {Repeat, Literal}, NEW count \in 1 .. MAX_14_BIT,
         NEW out \in Seq(Nat), NEW p \in 1 .. Len(out),
         p + CommandLen(count) <= Len(out) + 1,
         \A k \in 1 .. CommandLen(count) : out[p + k - 1] = Command(kind, count)[k]
  PROVE  /\ CountAt(out, p) = count /\ DataAt(out, p) = p + CommandLen(count)
         /\ out[p] \div Repeat = 1 <=> kind = Repeat
<1>1. p \in Nat /\ Len(out) \in Nat /\ p <= Len(out)
  BY LenProperties
<1>2. PICK n \in Nat : n = count - 1 /\ n < Low * High
  BY Limits DEF MAX_14_BIT
<1>3. PICK byte \in Nat : byte = out[p]
  OBVIOUS
<1>4. Repeat # Literal /\ Repeat = 2 * Low /\ Literal = 0
  BY Limits DEF Repeat, Literal
<1>5. 0 % 2 # 1 /\ 1 % 2 = 1 /\ 2 % 2 # 1 /\ 3 % 2 = 1
  OBVIOUS
<1>6. CASE count < Low - 1
  <2>1. CommandLen(count) = 1 /\ byte = kind + n /\ n < Low /\ count = n + 1
    BY <1>1, <1>2, <1>3, <1>4, <1>6, Limits DEF CommandLen, Command
  <2>2. ~Extended(byte) /\ byte % Low = n /\ (byte \div Repeat = 1 <=> kind = Repeat)
    <3>1. CASE kind = Literal
      <4>1. byte = n
        BY <1>4, <2>1, <3>1
      <4>2. n \div Low = 0 /\ n % Low = n /\ n \div (2 * Low) = 0
        BY <2>1, LowBits, Limits
      <4> QED BY <1>4, <1>5, <3>1, <4>1, <4>2 DEF Extended
    <3>2. CASE kind = Repeat
      <4>1. /\ byte = 2 * Low + n /\ (2 * Low + n) \div Low = 2 /\ (2 * Low + n) % Low = n
            /\ (2 * Low + n) \div (2 * Low) = 1
        BY <1>4, <2>1, <3>2, LowBits, Limits
      <4> QED BY <1>4, <1>5, <3>2, <4>1 DEF Extended
    <3> QED BY <3>1, <3>2
  <2> QED BY <1>3, <2>1, <2>2 DEF CountAt, DataAt
<1>7. CASE ~(count < Low - 1)
  <2>1. n \div High \in Nat /\ n \div High < Low /\ n % High \in Nat
        /\ n = ((n \div High) * High) + (n % High)
    BY <1>2, HighBits, Limits
  <2>2. PICK q \in Nat, r \in Nat : q = n \div High /\ r = n % High
    BY <2>1
  <2>3. q < Low /\ n = (q * High) + r
    BY <2>1, <2>2
  <2>4. /\ CommandLen(count) = 2 /\ byte = kind + Low + q /\ out[p + 1] = r
        /\ p + 1 <= Len(out) /\ count = n + 1
    BY <1>1, <1>2, <1>3, <1>4, <1>7, <2>2, Limits DEF CommandLen, Command
  <2>5. ByteAt(out, p + 1) = r
    BY <2>4 DEF ByteAt
  <2>6. Extended(byte) /\ byte % Low = q /\ (byte \div Repeat = 1 <=> kind = Repeat)
    <3>1. CASE kind = Literal
      <4>1. byte = Low + q
        BY <1>4, <2>4, <3>1, Limits
      <4>2. /\ (Low + q) \div Low = 1 /\ (Low + q) % Low = q
            /\ (Low + q) \div (2 * Low) = 0
        BY <2>3, LowBits, Limits
      <4> QED BY <1>4, <1>5, <3>1, <4>1, <4>2 DEF Extended
    <3>2. CASE kind = Repeat
      <4>1. byte = 2 * Low + Low + q
        BY <1>4, <2>4, <3>2, Limits
      <4>2. /\ (2 * Low + Low + q) \div Low = 3 /\ (2 * Low + Low + q) % Low = q
            /\ (2 * Low + Low + q) \div (2 * Low) = 1
        BY <2>3, LowBits, Limits
      <4> QED BY <1>4, <1>5, <3>2, <4>1, <4>2 DEF Extended
    <3> QED BY <3>1, <3>2
  <2>7. CountAt(out, p) = (q * High) + r + 1
    BY <1>3, <2>5, <2>6 DEF CountAt
  <2>8. DataAt(out, p) = p + 2
    BY <1>3, <2>6 DEF DataAt
  <2> QED BY <1>3, <2>3, <2>4, <2>6, <2>7, <2>8
<1> QED BY <1>6, <1>7

-----------------------------------------------------------------------------
(* What is decompressed, command by command.                                *)
Said(out, i) ==
  IF out[i] \div Repeat = 1
  THEN [k \in 1 .. CountAt(out, i) |-> ByteAt(out, DataAt(out, i))]
  ELSE SubSeq(out, DataAt(out, i), DataAt(out, i) + CountAt(out, i) - 1)

NextAt(out, i) ==
  IF out[i] \div Repeat = 1 THEN DataAt(out, i) + 1 ELSE DataAt(out, i) + CountAt(out, i)

\* d[i] is what the code out says from i on, for i from some j.
SaysFrom(out, d, j) ==
  \A i \in Nat \ {0} :
    i >= j => d[i] = IF i > Len(out) THEN <<>> ELSE Said(out, i) \o d[NextAt(out, i)]

LEMMA Forward ==
  ASSUME NEW out \in Seq(Nat), NEW i \in 1 .. Len(out)
  PROVE  NextAt(out, i) \in Nat /\ NextAt(out, i) > i
<1>1. i \in Nat /\ out[i] \in Nat /\ Low \in Nat /\ 2 <= Low /\ High \in Nat /\ 2 <= High
  BY LenProperties, Limits
<1>2. ByteAt(out, i + 1) \in Nat
  BY <1>1, LenProperties DEF ByteAt
<1>3. DataAt(out, i) \in Nat /\ DataAt(out, i) > i
  BY <1>1 DEF DataAt
<1>4. CountAt(out, i) \in Nat
  <2>1. PICK low \in Nat : low = out[i] % Low
    BY <1>1
  <2>2. low * High \in Nat
    BY <1>1
  <2> QED BY <1>2, <2>1, <2>2 DEF CountAt
<1> QED BY <1>1, <1>3, <1>4 DEF NextAt

LEMMA SaysExist ==
  ASSUME NEW out \in Seq(Nat)
  PROVE  \E d : SaysFrom(out, d, 1)
<1>1. PICK n \in Nat : n = Len(out)
  BY LenProperties
<1> DEFINE S == {m \in 0 .. n : \E d : SaysFrom(out, d, n + 1 - m)}
<1>2. ASSUME NEW m \in 0 .. n, \A k \in 0 .. n : k < m => k \in S
      PROVE  m \in S
  <2>1. CASE m = 0
    <3> DEFINE d == [i \in Nat \ {0} |-> <<>>]
    <3>1. SaysFrom(out, d, n + 1 - m)
      BY <1>1, <2>1 DEF SaysFrom
    <3> QED BY <3>1
  <2>2. CASE m # 0
    <3>1. m - 1 \in S
      <4>1. m - 1 \in 0 .. n /\ m - 1 < m
        BY <2>2
      <4> HIDE DEF S
      <4> QED BY <1>2, <4>1
    <3>2. PICK g : SaysFrom(out, g, n + 1 - (m - 1))
      BY <3>1
    <3>3. PICK j \in 1 .. n : j = n + 1 - m /\ j + 1 = n + 1 - (m - 1)
      BY <2>2
    <3> DEFINE d == [i \in Nat \ {0} |->
                       IF i = j THEN Said(out, j) \o g[NextAt(out, j)] ELSE g[i]]
    <3>4. ASSUME NEW i \in Nat \ {0}, i >= j
          PROVE  d[i] = IF i > n THEN <<>> ELSE Said(out, i) \o d[NextAt(out, i)]
      <4>1. CASE i = j
        <5>1. NextAt(out, j) \in Nat \ {0} /\ NextAt(out, j) # j
          BY <1>1, Forward
        <5>2. d[NextAt(out, j)] = g[NextAt(out, j)]
          BY <5>1
        <5>3. d[j] = Said(out, j) \o g[NextAt(out, j)] /\ ~(j > n)
          OBVIOUS
        <5> HIDE DEF d
        <5> QED BY <4>1, <5>2, <5>3
      <4>2. CASE i # j
        <5>1. i >= j + 1 /\ d[i] = g[i]
          BY <3>4, <4>2
        <5>2. g[i] = IF i > n THEN <<>> ELSE Said(out, i) \o g[NextAt(out, i)]
          BY <1>1, <3>2, <3>3, <5>1 DEF SaysFrom
        <5>3. CASE i > n
          BY <5>1, <5>2, <5>3
        <5>4. CASE ~(i > n)
          <6>1. i \in 1 .. Len(out)
            BY <1>1, <5>4
          <6>2. NextAt(out, i) \in Nat \ {0} /\ NextAt(out, i) # j
            BY <5>1, <6>1, Forward
          <6>3. d[NextAt(out, i)] = g[NextAt(out, i)]
            BY <6>2
          <6> HIDE DEF d
          <6> QED BY <5>1, <5>2, <5>4, <6>3
        <5> QED BY <5>3, <5>4
      <4> QED BY <4>1, <4>2
    <3> HIDE DEF d
    <3>5. SaysFrom(out, d, n + 1 - m)
      BY <1>1, <3>3, <3>4 DEF SaysFrom
    <3> QED BY <3>5
  <2> QED BY <2>1, <2>2
<1> HIDE DEF S
<1>3. \A m \in 0 .. n : m \in S
  BY <1>2, Induction
<1>4. n \in S
  BY <1>3
<1> QED BY <1>4 DEF S

LEMMA DecompressIs ==
  ASSUME NEW out \in Seq(Nat)
  PROVE  \E d : SaysFrom(out, d, 1) /\ Decompress(out) = d[1]
<1> DEFINE D == Nat \ {0}
           Body(d, i) ==
             IF i > Len(out) THEN <<>>
             ELSE IF out[i] \div Repeat = 1
                  THEN [k \in 1 .. CountAt(out, i) |-> ByteAt(out, DataAt(out, i))]
                         \o d[DataAt(out, i) + 1]
                  ELSE SubSeq(out, DataAt(out, i), DataAt(out, i) + CountAt(out, i) - 1)
                         \o d[DataAt(out, i) + CountAt(out, i)]
           from == CHOOSE d : d = [i \in D |-> Body(d, i)]
<1>1. \A d, i : Body(d, i) = IF i > Len(out) THEN <<>> ELSE Said(out, i) \o d[NextAt(out, i)]
  BY DEF Said, NextAt
<1>2. Decompress(out) = from[1]
  BY DEF Decompress
<1> HIDE DEF Body
<1>3. PICK g : SaysFrom(out, g, 1)
  BY SaysExist
<1> DEFINE d == [i \in D |-> g[i]]
<1>4. d = [i \in D |-> Body(d, i)]
  <2>1. ASSUME NEW i \in D PROVE d[i] = Body(d, i)
    <3>1. Len(out) \in Nat
      BY LenProperties
    <3>2. g[i] = IF i > Len(out) THEN <<>> ELSE Said(out, i) \o g[NextAt(out, i)]
      BY <1>3 DEF SaysFrom
    <3>3. CASE i > Len(out)
      BY <1>1, <3>2, <3>3
    <3>4. CASE ~(i > Len(out))
      <4>1. i \in 1 .. Len(out)
        BY <3>1, <3>4
      <4>2. NextAt(out, i) \in D
        BY <4>1, Forward
      <4>3. d[NextAt(out, i)] = g[NextAt(out, i)]
        BY <4>2
      <4>4. d[i] = g[i]
        OBVIOUS
      <4> QED BY <1>1, <3>2, <3>4, <4>3, <4>4
    <3> QED BY <3>3, <3>4
  <2> QED BY <2>1
<1>5. from = [i \in D |-> Body(from, i)]
  <2> HIDE DEF d, D
  <2>1. \E h : h = [i \in D |-> Body(h, i)]
    BY <1>4
  <2> QED BY <2>1
<1>6. \A i \in D : from[i] = Body(from, i)
  <2> HIDE DEF from, D
  <2> QED BY <1>5
<1>7. SaysFrom(out, from, 1)
  <2> HIDE DEF from
  <2> QED BY <1>1, <1>6 DEF SaysFrom
<1> QED BY <1>2, <1>7

-----------------------------------------------------------------------------
(* What is read is what was written.                                        *)

\* s is what is left of the code out from p on.
IsRest(out, p, s) ==
  /\ p \in Nat \ {0} /\ Len(out) + 1 = p + Len(s)
  /\ \A k \in 1 .. Len(s) : out[p + k - 1] = s[k]

\* The rest of a code is the rest of its first part, and then the other.
LEMMA AtRest ==
  ASSUME NEW out \in Seq(Nat), NEW p, NEW s \in Seq(Nat), NEW t \in Seq(Nat),
         IsRest(out, p, s \o t), NEW k \in 1 .. Len(s)
  PROVE  out[p + k - 1] = s[k]
<1>1. Len(s \o t) = Len(s) + Len(t) /\ Len(s) \in Nat /\ Len(t) \in Nat
  BY LenProperties, ConcatProperties
<1>2. k \in 1 .. Len(s) + Len(t) /\ k <= Len(s)
  BY <1>1
<1>3. (s \o t)[k] = s[k]
  BY <1>2, ConcatProperties
<1> QED BY <1>1, <1>2, <1>3 DEF IsRest

LEMMA RestOfConcat ==
  ASSUME NEW out \in Seq(Nat), NEW p, NEW s \in Seq(Nat), NEW t \in Seq(Nat),
         IsRest(out, p, s \o t)
  PROVE  /\ p + Len(s) <= Len(out) + 1 /\ \A k \in 1 .. Len(s) : out[p + k - 1] = s[k]
         /\ IsRest(out, p + Len(s), t)
<1>1. /\ Len(s) \in Nat /\ Len(t) \in Nat /\ Len(out) \in Nat
      /\ Len(s \o t) = Len(s) + Len(t)
      /\ \A i \in 1 .. Len(s) + Len(t) :
           (s \o t)[i] = IF i <= Len(s) THEN s[i] ELSE t[i - Len(s)]
  BY LenProperties, ConcatProperties
<1>2. /\ p \in Nat \ {0} /\ Len(out) + 1 = p + (Len(s) + Len(t))
      /\ \A k \in 1 .. Len(s) + Len(t) : out[p + k - 1] = (s \o t)[k]
  BY <1>1 DEF IsRest
<1>3. ASSUME NEW k \in 1 .. Len(s) PROVE out[p + k - 1] = s[k]
  BY AtRest
<1>4. ASSUME NEW k \in 1 .. Len(t) PROVE out[(p + Len(s)) + k - 1] = t[k]
  <2>1. PICK i \in 1 .. Len(s) + Len(t) : i = Len(s) + k
    BY <1>1
  <2>2. ~(i <= Len(s)) /\ i - Len(s) = k /\ (p + Len(s)) + k - 1 = p + i - 1
    BY <1>1, <1>2, <2>1
  <2> QED BY <1>1, <1>2, <2>2
<1> QED BY <1>1, <1>2, <1>3, <1>4 DEF IsRest

\* Part of a sequence.
LEMMA Slice ==
  ASSUME NEW s \in Seq(Nat), NEW a \in Nat \ {0}, NEW t \in Nat \ {0}, a + t <= Len(s) + 1
  PROVE  /\ SubSeq(s, a, a + t - 1) \in Seq(Nat) /\ Len(SubSeq(s, a, a + t - 1)) = t
         /\ \A k \in 1 .. t : SubSeq(s, a, a + t - 1)[k] = s[a + k - 1]
<1>1. PICK b \in Int : b = a + t - 1 /\ b <= Len(s) /\ a <= b /\ b - a + 1 = t
  BY LenProperties
<1>2. ASSUME NEW k \in a .. b PROVE s[k] \in Nat
  <2>1. k \in 1 .. Len(s)
    BY <1>1, LenProperties
  <2> QED BY <2>1, ElementOfSeq
<1>3. /\ SubSeq(s, a, b) \in Seq(Nat)
      /\ Len(SubSeq(s, a, b)) = IF a <= b THEN b - a + 1 ELSE 0
      /\ \A k \in 1 .. b - a + 1 : SubSeq(s, a, b)[k] = s[a + k - 1]
  BY <1>1, <1>2, SubSeqProperties
<1> QED BY <1>1, <1>3

\* A block is a command and what it is about.
LEMMA BlockIs ==
  ASSUME NEW in \in Seq(Nat), NEW i \in 1 .. Len(in)
  PROVE  \E kind \in {Repeat, Literal}, data \in Seq(Nat) :
           /\ Block(in, i) = Command(kind, Taken(in, i)) \o data
           /\ kind = Repeat => data = <<in[i]>> /\ RepeatsAt(in, i) = Taken(in, i)
                               /\ Taken(in, i) > 1
           /\ kind = Literal => /\ data = SubSeq(in, i, i + Taken(in, i) - 1)
                                /\ Len(data) = Taken(in, i)
                                /\ ~(RepeatsAt(in, i) > 1) /\ LiteralsAt(in, i) = Taken(in, i)
<1>1. Repeat # Literal /\ Len(in) \in Nat /\ i \in Nat /\ in[i] \in Nat
  BY Limits, LenProperties DEF Repeat, Literal
<1>2. CASE RepeatsAt(in, i) > 1
  <2>1. <<in[i]>> \in Seq(Nat)
    BY <1>1
  <2> QED BY <1>1, <1>2, <2>1 DEF Block, Taken
<1>3. CASE ~(RepeatsAt(in, i) > 1)
  <2>1. PICK l \in Nat \ {0} : l = LiteralsAt(in, i) /\ i + l <= Len(in) + 1
    BY <1>3, Literals, Limits
  <2>2. i \in Nat \ {0}
    BY <1>1
  <2>3. /\ SubSeq(in, i, i + l - 1) \in Seq(Nat) /\ Len(SubSeq(in, i, i + l - 1)) = l
    BY <2>1, <2>2, Slice
  <2> QED BY <1>1, <1>3, <2>1, <2>3 DEF Block, Taken
<1> QED BY <1>2, <1>3

LEMMA BlockIsSeq ==
  ASSUME NEW in \in Seq(Nat), NEW i \in 1 .. Len(in)
  PROVE  Block(in, i) \in Seq(Nat)
<1>1. PICK kind \in {Repeat, Literal}, data \in Seq(Nat) :
        Block(in, i) = Command(kind, Taken(in, i)) \o data
  BY BlockIs
<1>2. Command(kind, Taken(in, i)) \in Seq(Nat)
  BY CommandIs, Progress
<1> QED BY <1>1, <1>2, ConcatProperties

LEMMA CodesAreSeq ==
  ASSUME NEW in \in Seq(Nat), NEW f, CodesFrom(in, f, 1), NEW i \in 1 .. Len(in) + 1
  PROVE  f[i] \in Seq(Nat)
<1>1. PICK n \in Nat : n = Len(in)
  BY LenProperties
<1> DEFINE S == {m \in 0 .. n : f[n + 1 - m] \in Seq(Nat)}
<1>2. ASSUME NEW m \in 0 .. n, \A k \in 0 .. n : k < m => k \in S
      PROVE  m \in S
  <2>1. PICK j \in 1 .. n + 1 : j = n + 1 - m
    OBVIOUS
  <2>2. f[j] = IF j > n THEN <<>> ELSE Block(in, j) \o f[j + Taken(in, j)]
    BY <1>1 DEF CodesFrom
  <2>3. CASE j > n
    BY <2>1, <2>2, <2>3, EmptySeq
  <2>4. CASE ~(j > n)
    <3>6. Taken(in, j) \in 1 .. MAX_14_BIT /\ j + Taken(in, j) \in j + 1 .. n + 1
      BY <1>1, <2>4, Progress
    <3>7. Taken(in, j) \in Nat \ {0}
      BY <3>6, Limits
    <3>1. PICK t \in Nat \ {0} : t = Taken(in, j) /\ j + t <= n + 1
      BY <3>6, <3>7
    <3>2. m - t \in 0 .. n /\ m - t < m /\ n + 1 - (m - t) = j + t
      BY <2>1, <3>1
    <3>3. f[j + t] \in Seq(Nat)
      BY <1>2, <3>2
    <3>4. Block(in, j) \in Seq(Nat)
      BY <1>1, <2>4, BlockIsSeq
    <3>5. Block(in, j) \o f[j + t] \in Seq(Nat)
      BY <3>3, <3>4, ConcatProperties
    <3> QED BY <2>1, <2>2, <2>4, <3>1, <3>5
  <2> QED BY <2>3, <2>4
<1> HIDE DEF S
<1>3. \A m \in 0 .. n : m \in S
  BY <1>2, Induction
<1>4. n + 1 - i \in 0 .. n /\ n + 1 - (n + 1 - i) = i
  BY <1>1
<1>5. n + 1 - i \in S
  BY <1>3, <1>4
<1> QED BY <1>4, <1>5 DEF S

LEMMA Associative ==
  \A r, s, t \in Seq(Nat) : (r \o s) \o t = r \o (s \o t)
<1> SUFFICES ASSUME NEW r \in Seq(Nat), NEW s \in Seq(Nat), NEW t \in Seq(Nat)
             PROVE  (r \o s) \o t = r \o (s \o t)
  OBVIOUS
<1> QED BY ConcatAssociative

\* A block that is next says what it was made of, and leads to the one after it.
LEMMA BlockRead ==
  ASSUME NEW in \in Seq(Nat), NEW i \in 1 .. Len(in),
         NEW out \in Seq(Nat), NEW p, NEW rest \in Seq(Nat),
         IsRest(out, p, Block(in, i) \o rest)
  PROVE  /\ p \in 1 .. Len(out)
         /\ Said(out, p) = SubSeq(in, i, i + Taken(in, i) - 1)
         /\ NextAt(out, p) \in Nat \ {0} /\ IsRest(out, NextAt(out, p), rest)
<1>1. PICK t \in Nat \ {0} : t = Taken(in, i) /\ t \in 1 .. MAX_14_BIT /\ i + t <= Len(in) + 1
  <2>1. Taken(in, i) \in 1 .. MAX_14_BIT /\ i + Taken(in, i) \in i + 1 .. Len(in) + 1
    BY Progress
  <2>2. Taken(in, i) \in Nat \ {0} /\ i \in Nat /\ Len(in) \in Nat
    BY <2>1, Limits, LenProperties
  <2> QED BY <2>1, <2>2
<1>2. PICK kind \in {Repeat, Literal}, data \in Seq(Nat) :
        /\ Block(in, i) = Command(kind, Taken(in, i)) \o data
        /\ kind = Repeat => data = <<in[i]>> /\ RepeatsAt(in, i) = Taken(in, i)
                            /\ Taken(in, i) > 1
        /\ kind = Literal => /\ data = SubSeq(in, i, i + Taken(in, i) - 1)
                             /\ Len(data) = Taken(in, i)
                             /\ ~(RepeatsAt(in, i) > 1) /\ LiteralsAt(in, i) = Taken(in, i)
  BY BlockIs
<1>3. Command(kind, t) \in Seq(Nat) /\ Len(Command(kind, t)) = CommandLen(t)
  BY <1>1, CommandIs
<1>4. PICK c \in Seq(Nat) : c = Command(kind, t)
  BY <1>3
<1>5. PICK l \in Nat \ {0} : l = CommandLen(t) /\ l = Len(c)
  <2>1. CommandLen(t) \in Nat \ {0}
    BY DEF CommandLen
  <2> QED BY <1>3, <1>4, <2>1
<1>6. (c \o data) \o rest = c \o (data \o rest)
  BY Associative
<1>7. data \o rest \in Seq(Nat)
  BY ConcatProperties
<1>8. IsRest(out, p, c \o (data \o rest))
  BY <1>1, <1>2, <1>4, <1>6
<1>9. /\ p + Len(c) <= Len(out) + 1 /\ \A k \in 1 .. Len(c) : out[p + k - 1] = c[k]
      /\ IsRest(out, p + Len(c), data \o rest)
  BY <1>7, <1>8, RestOfConcat
<1>10. PICK q \in Nat \ {0} : q = p + l /\ IsRest(out, q, data \o rest)
  BY <1>5, <1>8, <1>9 DEF IsRest
<1>11. /\ q + Len(data) <= Len(out) + 1
       /\ \A k \in 1 .. Len(data) : out[q + k - 1] = data[k]
       /\ IsRest(out, q + Len(data), rest)
  <2>1. IsRest(out, q, data \o rest)
    BY <1>10
  <2>2. q + Len(data) <= Len(out) + 1
    BY <2>1, RestOfConcat
  <2>3. ASSUME NEW k \in 1 .. Len(data) PROVE out[q + k - 1] = data[k]
    BY <2>1, AtRest
  <2>4. IsRest(out, q + Len(data), rest)
    BY <2>1, RestOfConcat
  <2> QED BY <2>2, <2>3, <2>4
<1>12. p \in 1 .. Len(out) /\ Len(data) \in Nat /\ Len(in) \in Nat /\ Len(out) \in Nat
  <2>1. p \in Nat \ {0} /\ Len(data) \in Nat /\ Len(in) \in Nat /\ Len(out) \in Nat
    BY <1>8, LenProperties DEF IsRest
  <2> QED BY <1>5, <1>9, <2>1
<1>13. /\ CountAt(out, p) = t /\ DataAt(out, p) = q
       /\ out[p] \div Repeat = 1 <=> kind = Repeat
  <2>1. /\ p + CommandLen(t) <= Len(out) + 1
        /\ \A k \in 1 .. CommandLen(t) : out[p + k - 1] = Command(kind, t)[k]
    BY <1>4, <1>5, <1>9
  <2>2. /\ CountAt(out, p) = t /\ DataAt(out, p) = p + CommandLen(t)
        /\ out[p] \div Repeat = 1 <=> kind = Repeat
    BY <1>1, <1>12, <2>1, CommandRead
  <2> QED BY <1>5, <1>10, <2>2
<1>14. /\ SubSeq(in, i, i + t - 1) \in Seq(Nat) /\ Len(SubSeq(in, i, i + t - 1)) = t
       /\ \A k \in 1 .. t : SubSeq(in, i, i + t - 1)[k] = in[i + k - 1]
  <2>1. i \in Nat \ {0} /\ t \in Nat \ {0} /\ i + t <= Len(in) + 1
    BY <1>1, <1>12
  <2> QED BY <2>1, Slice, Zenon
<1>15. ASSUME NextAt(out, p) = q + Len(data), Said(out, p) = SubSeq(in, i, i + t - 1)
       PROVE  /\ p \in 1 .. Len(out)
              /\ Said(out, p) = SubSeq(in, i, i + Taken(in, i) - 1)
              /\ NextAt(out, p) \in Nat \ {0} /\ IsRest(out, NextAt(out, p), rest)
  <2>1. NextAt(out, p) \in Nat \ {0}
    BY <1>12, <1>15
  <2>2. IsRest(out, NextAt(out, p), rest)
    BY <1>11, <1>15
  <2>3. Said(out, p) = SubSeq(in, i, i + Taken(in, i) - 1)
    BY <1>1, <1>15
  <2> QED BY <1>12, <2>1, <2>2, <2>3
<1>16. CASE kind = Repeat
  <2>1. Len(data) = 1 /\ data[1] = in[i] /\ RepeatsAt(in, i) = t
    BY <1>1, <1>2, <1>16
  <2>2. q <= Len(out) /\ out[q] = in[i]
    BY <1>11, <1>12, <2>1
  <2>3. ByteAt(out, DataAt(out, p)) = in[i]
    BY <1>13, <2>2 DEF ByteAt
  <2>4. Said(out, p) = [k \in 1 .. t |-> in[i]]
    BY <1>13, <1>16, <2>3 DEF Said
  <2>5. \A k \in 0 .. t - 1 : in[i + k] = in[i]
    <3>1. PICK r : r = RepeatsAt(in, i)
      OBVIOUS
    <3>2. \A k \in 0 .. r - 1 : in[i + k] = in[i]
      BY <3>1, Repeats
    <3> QED BY <2>1, <3>1, <3>2
  <2>6. ASSUME NEW k \in 1 .. t PROVE SubSeq(in, i, i + t - 1)[k] = in[i]
    <3>1. PICK h \in 0 .. t - 1 : h = k - 1 /\ i + k - 1 = i + h
      BY <1>12
    <3>2. in[i + h] = in[i]
      BY <2>5
    <3> QED BY <1>14, <3>1, <3>2
  <2>7. SubSeq(in, i, i + t - 1) = [k \in 1 .. t |-> in[i]]
    <3>1. SubSeq(in, i, i + t - 1) \in [1 .. t -> Nat]
      BY <1>14, LenProperties
    <3> QED BY <2>6, <3>1
  <2>8. NextAt(out, p) = q + Len(data)
    BY <1>13, <1>16, <2>1 DEF NextAt
  <2>9. Said(out, p) = SubSeq(in, i, i + t - 1)
    BY <2>4, <2>7
  <2> QED BY <1>15, <2>8, <2>9
<1>17. CASE kind = Literal
  <2>1. Repeat # Literal
    BY Limits DEF Repeat, Literal
  <2>2. Len(data) = t /\ data = SubSeq(in, i, i + t - 1)
    BY <1>1, <1>2, <1>17
  <2>3. Said(out, p) = SubSeq(out, q, q + t - 1)
    BY <1>13, <1>17, <2>1 DEF Said
  <2>4. NextAt(out, p) = q + Len(data)
    BY <1>13, <1>17, <2>1, <2>2 DEF NextAt
  <2>5. SubSeq(out, q, q + t - 1) = data
    <3>1. /\ SubSeq(out, q, q + t - 1) \in Seq(Nat) /\ Len(SubSeq(out, q, q + t - 1)) = t
          /\ \A k \in 1 .. t : SubSeq(out, q, q + t - 1)[k] = out[q + k - 1]
      BY <1>1, <1>11, <2>2, Slice
    <3>2. \A k \in 1 .. t : SubSeq(out, q, q + t - 1)[k] = data[k]
      BY <1>11, <2>2, <3>1
    <3> QED BY <2>2, <3>1, <3>2, SeqEqual
  <2>6. Said(out, p) = SubSeq(in, i, i + t - 1)
    BY <2>2, <2>3, <2>5
  <2> QED BY <1>15, <2>4, <2>6
<1> QED BY <1>16, <1>17

-----------------------------------------------------------------------------
(* There and back.                                                          *)
LEMMA DecompressCompress ==
  ASSUME NEW in \in Seq(Nat)
  PROVE  Decompress(Compress(in)) = in
<1>1. PICK n \in Nat : n = Len(in)
  BY LenProperties
<1>2. PICK f : CodesFrom(in, f, 1) /\ Compress(in) = f[1]
  BY CompressIs
<1>3. f[1] \in Seq(Nat)
  <2>1. 1 \in 1 .. Len(in) + 1
    BY <1>1
  <2> QED BY <1>2, <2>1, CodesAreSeq
<1>4. PICK out \in Seq(Nat) : out = f[1]
  BY <1>3
<1>5. PICK d : SaysFrom(out, d, 1) /\ Decompress(out) = d[1]
  BY DecompressIs
<1> DEFINE S == {m \in 0 .. n : \A p \in Nat \ {0} :
                   IsRest(out, p, f[n + 1 - m]) => d[p] = SubSeq(in, n + 1 - m, n)}
<1>6. ASSUME NEW m \in 0 .. n, \A k \in 0 .. n : k < m => k \in S
      PROVE  m \in S
  <2>1. PICK j \in 1 .. n + 1 : j = n + 1 - m
    OBVIOUS
  <2>2. f[j] = IF j > n THEN <<>> ELSE Block(in, j) \o f[j + Taken(in, j)]
    BY <1>1, <1>2 DEF CodesFrom
  <2>3. ASSUME NEW p \in Nat \ {0}, IsRest(out, p, f[j])
        PROVE  d[p] = SubSeq(in, j, n)
    <3>1. d[p] = IF p > Len(out) THEN <<>> ELSE Said(out, p) \o d[NextAt(out, p)]
      BY <1>5 DEF SaysFrom
    <3>2. CASE j > n
      <4>1. f[j] = <<>> /\ Len(<<>>) = 0
        BY <2>2, <3>2, EmptySeq
      <4>2. p > Len(out)
        BY <2>3, <4>1, LenProperties DEF IsRest
      <4>3. SubSeq(in, j, n) = <<>>
        BY <3>2, SubSeqEmpty
      <4> QED BY <3>1, <4>2, <4>3
    <3>3. CASE ~(j > n)
      <4>1. j \in 1 .. Len(in)
        BY <1>1, <3>3
      <4>2. Taken(in, j) \in 1 .. MAX_14_BIT /\ j + Taken(in, j) \in j + 1 .. n + 1
        BY <1>1, <4>1, Progress
      <4>3. PICK t \in Nat \ {0} : t = Taken(in, j) /\ j + t <= n + 1
        BY <4>2, Limits
      <4>4. j + t \in 1 .. Len(in) + 1
        BY <1>1, <4>3
      <4>5. PICK rest \in Seq(Nat) : rest = f[j + t]
        BY <1>2, <4>4, CodesAreSeq
      <4>6. IsRest(out, p, Block(in, j) \o rest)
        BY <2>2, <2>3, <3>3, <4>3, <4>5
      <4>7. /\ p \in 1 .. Len(out)
            /\ Said(out, p) = SubSeq(in, j, j + Taken(in, j) - 1)
            /\ NextAt(out, p) \in Nat \ {0} /\ IsRest(out, NextAt(out, p), rest)
        BY <4>1, <4>6, BlockRead
      <4>8. d[NextAt(out, p)] = SubSeq(in, j + t, n)
        <5>1. m - t \in 0 .. n /\ m - t < m /\ n + 1 - (m - t) = j + t
          BY <2>1, <4>3
        <5>2. m - t \in S
          <6> HIDE DEF S
          <6> QED BY <1>6, <5>1
        <5>3. \A q \in Nat \ {0} : IsRest(out, q, f[j + t]) => d[q] = SubSeq(in, j + t, n)
          BY <5>1, <5>2
        <5> QED BY <4>5, <4>7, <5>3
      <4>9. d[p] = SubSeq(in, j, j + t - 1) \o SubSeq(in, j + t, n)
        <5>1. ~(p > Len(out))
          BY <4>7, LenProperties
        <5> QED BY <3>1, <4>3, <4>7, <4>8, <5>1
      <4>10. SubSeq(in, j, j + t - 1) \o SubSeq(in, j + t, n) = SubSeq(in, j, n)
        <5>1. PICK k \in Nat : k = j + t - 1
          BY <4>3
        <5>2. k + 1 = j + t /\ k \in j - 1 .. Len(in) /\ n \in k .. Len(in)
              /\ j \in 1 .. Len(in) + 1
          BY <1>1, <4>3, <5>1
        <5>3. SubSeq(in, j, k) \o SubSeq(in, k + 1, n) = SubSeq(in, j, n)
          BY <5>2, ConcatAdjacentSubSeq
        <5> QED BY <5>1, <5>2, <5>3
      <4> QED BY <4>9, <4>10
    <3> QED BY <3>2, <3>3
  <2> QED BY <2>1, <2>3
<1>7. \A m \in 0 .. n : m \in S
  <2> HIDE DEF S
  <2> QED BY <1>6, Induction
<1>8. n \in S /\ n + 1 - n = 1
  <2> HIDE DEF S
  <2> QED BY <1>7
<1>9. IsRest(out, 1, out)
  <2>1. Len(out) \in Nat
    BY LenProperties
  <2> QED BY <2>1 DEF IsRest
<1>10. d[1] = SubSeq(in, 1, n)
  <2>1. \A p \in Nat \ {0} : IsRest(out, p, f[1]) => d[p] = SubSeq(in, 1, n)
    BY <1>8
  <2> QED BY <1>4, <1>9, <2>1
<1>11. SubSeq(in, 1, n) = in
  BY <1>1, SubSeqFull
<1> QED BY <1>2, <1>4, <1>5, <1>10, <1>11

-----------------------------------------------------------------------------
(* How long it gets.                                                        *)
LEMMA BlockLen ==
  ASSUME NEW in \in Seq(Nat), NEW i \in 1 .. Len(in)
  PROVE  Len(Block(in, i)) = CommandLen(Taken(in, i))
                              + (IF RepeatsAt(in, i) > 1 THEN 1 ELSE Taken(in, i))
<1>1. PICK kind \in {Repeat, Literal}, data \in Seq(Nat) :
        /\ Block(in, i) = Command(kind, Taken(in, i)) \o data
        /\ kind = Repeat => data = <<in[i]>> /\ RepeatsAt(in, i) = Taken(in, i)
                            /\ Taken(in, i) > 1
        /\ kind = Literal => /\ data = SubSeq(in, i, i + Taken(in, i) - 1)
                             /\ Len(data) = Taken(in, i)
                             /\ ~(RepeatsAt(in, i) > 1) /\ LiteralsAt(in, i) = Taken(in, i)
  BY BlockIs
<1>2. /\ Command(kind, Taken(in, i)) \in Seq(Nat)
      /\ Len(Command(kind, Taken(in, i))) = CommandLen(Taken(in, i))
  BY CommandIs, Progress
<1>3. Len(Block(in, i)) = CommandLen(Taken(in, i)) + Len(data)
  <2>1. PICK c \in Seq(Nat) : c = Command(kind, Taken(in, i))
    BY <1>2
  <2>2. Len(c \o data) = Len(c) + Len(data)
    BY ConcatProperties
  <2> QED BY <1>1, <1>2, <2>1, <2>2
<1>4. CASE kind = Repeat
  <2>1. Len(data) = 1 /\ RepeatsAt(in, i) > 1
    BY <1>1, <1>4
  <2> QED BY <1>3, <2>1
<1>5. CASE kind = Literal
  <2>1. Len(data) = Taken(in, i) /\ ~(RepeatsAt(in, i) > 1)
    BY <1>1, <1>5
  <2> QED BY <1>3, <2>1
<1> QED BY <1>4, <1>5

\* How long the code of the n bytes from i on is at most.
Fits(in, f, i, n) ==
  /\ n # 1 => 2 * Len(f[i]) <= 3 * n
  /\ n = 1 => Len(f[i]) = 2
  /\ n > 0 /\ RepeatsAt(in, i) > 1 => 2 * Len(f[i]) < 3 * n

\* A block of t bytes, and its effect on the bound: all the arithmetic there is.
LEMMA RepeatFits ==
  ASSUME Low > 4, NEW n \in Nat, NEW t \in 2 .. n, NEW rest \in Nat,
         n - t # 1 => 2 * rest <= 3 * (n - t),
         n - t = 1 => rest = 2
  PROVE  2 * (CommandLen(t) + 1 + rest) < 3 * n
BY Limits DEF CommandLen

LEMMA LiteralFits ==
  ASSUME Low > 4, NEW n \in Nat, NEW t \in 1 .. n, NEW rest \in Nat,
         n - t # 1 => 2 * rest <= 3 * (n - t),
         n - t = 1 => rest = 2,
         t = n \/ t > 8 \/ 2 * rest < 3 * (n - t)
  PROVE  /\ n # 1 => 2 * (CommandLen(t) + t + rest) <= 3 * n
         /\ n = 1 /\ rest = 0 => CommandLen(t) + t + rest = 2
BY Limits DEF CommandLen

LEMMA CodesFit ==
  ASSUME Low > 4, NEW in \in Seq(Nat), NEW f, CodesFrom(in, f, 1)
  PROVE  Fits(in, f, 1, Len(in))
<1>1. PICK n \in Nat : n = Len(in)
  BY LenProperties
<1> DEFINE S == {m \in 0 .. n : Fits(in, f, n + 1 - m, m)}
<1>2. ASSUME NEW m \in 0 .. n, \A k \in 0 .. n : k < m => k \in S
      PROVE  m \in S
  <2>1. PICK j \in 1 .. n + 1 : j = n + 1 - m
    OBVIOUS
  <2>2. f[j] = IF j > n THEN <<>> ELSE Block(in, j) \o f[j + Taken(in, j)]
    BY <1>1 DEF CodesFrom
  <2>3. CASE m = 0
    <3>1. Len(f[j]) = 0
      <4>1. f[j] = <<>>
        BY <2>1, <2>2, <2>3
      <4>2. Len(<<>>) = 0
        BY EmptySeq
      <4> QED BY <4>1, <4>2
    <3> QED BY <2>1, <2>3, <3>1 DEF Fits
  <2>4. CASE m # 0
    <3>1. j \in 1 .. Len(in) /\ ~(j > n)
      BY <1>1, <2>1, <2>4
    <3>2. Taken(in, j) \in 1 .. MAX_14_BIT /\ j + Taken(in, j) \in j + 1 .. n + 1
      BY <1>1, <3>1, Progress
    <3>3. PICK t \in 1 .. m : t = Taken(in, j) /\ j + t \in 1 .. n + 1
      BY <2>1, <3>2, Limits
    <3>4. PICK rest \in Seq(Nat) : rest = f[j + t]
      BY <1>1, <3>3, CodesAreSeq
    <3>5. PICK k \in Nat : k = Len(rest)
      BY LenProperties
    <3>6. Len(f[j]) = Len(Block(in, j)) + k
      BY <2>2, <3>1, <3>3, <3>4, <3>5, BlockIsSeq, ConcatProperties
    <3>7. /\ m - t # 1 => 2 * k <= 3 * (m - t)
          /\ m - t = 1 => k = 2
          /\ m - t > 0 /\ RepeatsAt(in, j + t) > 1 => 2 * k < 3 * (m - t)
      <4>1. m - t \in 0 .. n /\ m - t < m /\ n + 1 - (m - t) = j + t
        BY <2>1
      <4>2. m - t \in S
        <5> HIDE DEF S
        <5> QED BY <1>2, <4>1
      <4>3. Fits(in, f, j + t, m - t)
        BY <4>1, <4>2
      <4> QED BY <3>4, <3>5, <4>3 DEF Fits
    <3>8. CASE RepeatsAt(in, j) > 1
      <4>1. t \in 2 .. m
        BY <3>3, <3>8 DEF Taken
      <4>2. Len(f[j]) = CommandLen(t) + 1 + k
        BY <3>1, <3>3, <3>6, <3>8, BlockLen
      <4>3. 2 * (CommandLen(t) + 1 + k) < 3 * m
        BY <3>7, <4>1, RepeatFits
      <4>4. m # 1
        BY <4>1
      <4>5. Fits(in, f, j, m)
        BY <4>2, <4>3, <4>4 DEF Fits
      <4> QED BY <2>1, <4>5
    <3>9. CASE ~(RepeatsAt(in, j) > 1)
      <4>1. Len(f[j]) = CommandLen(t) + t + k
        BY <3>1, <3>3, <3>6, <3>9, BlockLen
      <4>2. t = m \/ t > 8 \/ 2 * k < 3 * (m - t)
        <5>1. \/ t = MAX_14_BIT
              \/ j + t = n + 1
              \/ j + t < n /\ RepeatsAt(in, j + t) > 1
          BY <1>1, <3>1, <3>3, <3>9, Literals DEF Taken
        <5>2. CASE t = MAX_14_BIT
          <6>1. MAX_14_BIT > 8
            BY Limits
          <6> QED BY <5>2, <6>1
        <5>3. CASE j + t = n + 1
          BY <2>1, <5>3
        <5>4. CASE j + t < n /\ RepeatsAt(in, j + t) > 1
          BY <2>1, <3>7, <5>4
        <5> QED BY <5>1, <5>2, <5>3, <5>4
      <4>3. m = 1 => k = 0
        BY <3>7
      <4>4. /\ m # 1 => 2 * (CommandLen(t) + t + k) <= 3 * m
            /\ m = 1 /\ k = 0 => CommandLen(t) + t + k = 2
        BY <3>7, <4>2, LiteralFits
      <4>5. Fits(in, f, j, m)
        BY <3>9, <4>1, <4>3, <4>4 DEF Fits
      <4> QED BY <2>1, <4>5
    <3> QED BY <3>8, <3>9
  <2> QED BY <2>3, <2>4
<1>3. \A m \in 0 .. n : m \in S
  <2> HIDE DEF S
  <2> QED BY <1>2, Induction
<1>4. n \in S /\ n + 1 - n = 1
  <2> HIDE DEF S
  <2> QED BY <1>3
<1> QED BY <1>1, <1>4

-----------------------------------------------------------------------------
(* What the runs of MCRle state.                                            *)

\* finger[] holds bytes.
IsBytes == finger \in Seq(Bytes)
IsNumbers == finger \in Seq(Nat)

LEMMA AlwaysNumbers == Spec => []IsNumbers
<1> USE DEF IsBytes, IsNumbers
<1>1. Init => IsBytes
  BY EmptySeq DEF Init
<1>2. IsBytes /\ [Next]_finger => IsBytes'
  <2> SUFFICES ASSUME finger \in Seq(Bytes), [Next]_finger PROVE finger' \in Seq(Bytes)
    OBVIOUS
  <2>1. CASE Next
    <3>1. PICK b \in Bytes : finger' = Append(finger, b)
      BY <2>1 DEF Next
    <3> QED BY <3>1, AppendProperties
  <2>2. CASE UNCHANGED finger
    BY <2>2
  <2> QED BY <2>1, <2>2
<1>3. IsBytes => IsNumbers
  <2> SUFFICES ASSUME finger \in Seq(Bytes) PROVE finger \in Seq(Nat)
    OBVIOUS
  <2>1. finger \in [1 .. Len(finger) -> Nat] /\ Len(finger) \in Nat
    BY BytesAssumption, LenProperties
  <2> QED BY <2>1, SeqDef
<1> HIDE DEF IsBytes, IsNumbers
<1> QED BY <1>1, <1>2, <1>3, PTL DEF Spec

(* rle_decompress returns what rle_compress was given (rle.c:31-111), for   *)
(* every input of every length and every number of bits in a count.         *)
THEOREM AlwaysRoundTrip == Spec => []RoundTrip
<1>1. IsNumbers => RoundTrip
  BY DecompressCompress DEF RoundTrip, IsNumbers
<1> QED BY <1>1, AlwaysNumbers, PTL

(* The compressed template fits into compressed[] behind its header         *)
(* (rle.c:31-74, main.c:96), however long it is.  Low is 64; with Low = 4   *)
(* three literals would need five bytes.                                    *)
THEOREM AlwaysFits == ASSUME Low > 4 PROVE Spec => []FitsBehindHeader
<1>1. IsNumbers => FitsBehindHeader
  <2> SUFFICES ASSUME finger \in Seq(Nat), Len(finger) > 1
               PROVE  Len(Compress(finger)) <= Len(finger) + (Len(finger) \div 2)
    BY DEF IsNumbers, FitsBehindHeader
  <2>1. PICK f : CodesFrom(finger, f, 1) /\ Compress(finger) = f[1]
    BY CompressIs
  <2>2. PICK n \in Nat : n = Len(finger) /\ n > 1
    BY LenProperties
  <2>3. PICK c \in Nat : c = Len(Compress(finger))
    <3>1. 1 \in 1 .. Len(finger) + 1
      BY <2>2
    <3>2. f[1] \in Seq(Nat)
      BY <2>1, <3>1, CodesAreSeq
    <3> QED BY <2>1, <3>2, LenProperties
  <2>4. Fits(finger, f, 1, Len(finger))
    BY <2>1, CodesFit
  <2>5. 2 * c <= 3 * n
    BY <2>1, <2>2, <2>3, <2>4 DEF Fits
  <2>6. c <= n + (n \div 2)
    BY <2>5
  <2> QED BY <2>2, <2>3, <2>6
<1> QED BY <1>1, AlwaysNumbers, PTL
=============================================================================
