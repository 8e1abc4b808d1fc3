----------------------------- MODULE AluProofs -----------------------------
(***************************************************************************)
(* The adder is exact at every operand size: result and carry together     *)
(* are the sum or the difference, OF says whether the signed one fits, and *)
(* so a comparison, of one word or of two, branches the right way.         *)
(***************************************************************************)
EXTENDS Alu, TLAPS

\* An operand read as a signed number, and whether a number is one.
Signed(x, h) == IF x >= h THEN x - 2 * h ELSE x
Fits(y, h) == -h <= y /\ y < h

\* The weight of a top bit, and a carry as a number.
Weights == Nat \ {0}
Carries == {0, 1}

----------------------------------------------------------------------------
LEMMA MaskedSum ==
  ASSUME NEW h \in Weights, NEW x \in Int, -(2 * h) <= x, x < 4 * h
  PROVE  Masked(x, h) = IF x < 0 THEN x + 2 * h ELSE IF x < 2 * h THEN x ELSE x - 2 * h
BY SMT DEF Masked, Weights

LEMMA MaskedOperand ==
  ASSUME NEW h \in Weights, NEW x \in Operands(h)
  PROVE  Masked(x, h) = x
BY SMT DEF Masked, Operands, Weights

\* What the four operations compute, of operands that are in range.
SumValue(h, d, e, c, s) ==
  /\ s \in Operands(h)
  /\ s = IF d + e + c < 2 * h THEN d + e + c ELSE d + e + c - 2 * h
  /\ d + e + c >= 2 * h <=> s < d \/ (c = 1 /\ s = d)
  /\ AddOverflows(d, e, s, h) <=> ~Fits(Signed(d, h) + Signed(e, h) + c, h)

LEMMA AddValue ==
  ASSUME NEW h \in Weights, NEW e \in Operands(h), NEW d \in Operands(h), NEW c \in Carries
  PROVE  SumValue(h, d, e, c, Masked(e + d + c, h))
<1> DEFINE x == e + d + c
           s == Masked(x, h)
<1>1. /\ x \in Int /\ -(2 * h) <= x /\ x < 4 * h /\ x >= 0 /\ x = d + e + c
      /\ d \in Nat /\ e \in Nat /\ c \in Nat /\ d < 2 * h /\ e < 2 * h
  BY DEF Operands, Weights, Carries
<1>2. s = IF x < 2 * h THEN x ELSE x - 2 * h
  <2> HIDE DEF x
  <2> QED
    BY <1>1, MaskedSum
<1> HIDE DEF s
<1>3. s \in Operands(h)
  BY <1>1, <1>2, SMT DEF Operands, Weights
<1>4. d + e + c >= 2 * h <=> s < d \/ (c = 1 /\ s = d)
  BY <1>1, <1>2, SMT DEF Weights, Carries
<1>5. AddOverflows(d, e, s, h) <=> ~Fits(Signed(d, h) + Signed(e, h) + c, h)
  BY <1>1, <1>2, SMT DEF AddOverflows, Top, Fits, Signed, Weights, Carries
<1>v. s = IF d + e + c < 2 * h THEN d + e + c ELSE d + e + c - 2 * h
  BY <1>1, <1>2, SMT DEF Weights
<1>6. SumValue(h, d, e, c, s)
  BY ONLY <1>v, <1>3, <1>4, <1>5 DEF SumValue
<1> QED
  BY <1>6 DEF s

DifferenceValue(h, d, e, c, s) ==
  /\ s \in Operands(h)
  /\ s = IF d < e + c THEN d - e - c + 2 * h ELSE d - e - c
  /\ d < e + c <=> d < e \/ (c = 1 /\ d = e)
  /\ SubOverflows(d, e, s, h) <=> ~Fits(Signed(d, h) - Signed(e, h) - c, h)

LEMMA SubValue ==
  ASSUME NEW h \in Weights, NEW e \in Operands(h), NEW d \in Operands(h), NEW c \in Carries
  PROVE  DifferenceValue(h, d, e, c, Masked(d - e - c, h))
<1> DEFINE x == d - e - c
           s == Masked(x, h)
<1>1. /\ x \in Int /\ -(2 * h) <= x /\ x < 2 * h /\ x < 4 * h
      /\ d \in Nat /\ e \in Nat /\ c \in Nat /\ d < 2 * h /\ e < 2 * h
      /\ x < 0 <=> d < e + c
  BY DEF Operands, Weights, Carries
<1>2. s = IF x < 0 THEN x + 2 * h ELSE x
  <2> HIDE DEF x
  <2> QED
    BY <1>1, MaskedSum
<1> HIDE DEF s
<1>3. s \in Operands(h)
  BY <1>1, <1>2, SMT DEF Operands, Weights
<1>4. d < e + c <=> d < e \/ (c = 1 /\ d = e)
  BY <1>1, SMT DEF Weights, Carries
<1>5. SubOverflows(d, e, s, h) <=> ~Fits(Signed(d, h) - Signed(e, h) - c, h)
  BY <1>1, <1>2, SMT DEF SubOverflows, Top, Fits, Signed, Weights, Carries
<1>6. DifferenceValue(h, d, e, c, s)
  BY ONLY <1>1, <1>2, <1>3, <1>4, <1>5 DEF DifferenceValue
<1> QED
  BY <1>6 DEF s

----------------------------------------------------------------------------
\* The flags that an operation sets.
LEMMA FlagsSet ==
  ASSUME NEW s, NEW h, NEW cf \in BOOLEAN, NEW of \in BOOLEAN,
         NEW r, r = [val |-> s, eflags |-> SetFlags(s, h, cf, of)]
  PROVE  /\ r.val = s /\ r.eflags.CF = cf /\ r.eflags.OF = of
         /\ r.eflags.ZF = (s = 0) /\ r.eflags.SF = (s >= h)
BY DEF SetFlags, Top

\* What the adder promises: with its carry the result is the sum, and OF says
\* that the sum of the signed operands is no signed number of this size.
IsSum(r, h, d, e, c) ==
  /\ r.val \in Operands(h) /\ r.eflags.CF \in BOOLEAN
  /\ d + e + c = IF r.eflags.CF THEN r.val + 2 * h ELSE r.val
  /\ r.eflags.OF <=> ~Fits(Signed(d, h) + Signed(e, h) + c, h)
  /\ r.eflags.ZF <=> r.val = 0
  /\ r.eflags.SF <=> r.val >= h

IsDifference(r, h, d, e, c) ==
  /\ r.val \in Operands(h) /\ r.eflags.CF \in BOOLEAN
  /\ d - e - c = IF r.eflags.CF THEN r.val - 2 * h ELSE r.val
  /\ r.eflags.OF <=> ~Fits(Signed(d, h) - Signed(e, h) - c, h)
  /\ r.eflags.ZF <=> r.val = 0
  /\ r.eflags.SF <=> r.val >= h

LEMMA SumOfValue ==
  ASSUME NEW h \in Weights, NEW e \in Operands(h), NEW d \in Operands(h), NEW c \in Carries,
         NEW cf \in BOOLEAN, NEW r, NEW s, SumValue(h, d, e, c, s),
         cf <=> s < d \/ (c = 1 /\ s = d),
         r = [val |-> s, eflags |-> SetFlags(s, h, cf, AddOverflows(d, e, s, h))]
  PROVE  IsSum(r, h, d, e, c)
<1> DEFINE of == AddOverflows(d, e, s, h)
<1>1. of \in BOOLEAN
  BY DEF AddOverflows
<1>2. /\ s \in Operands(h)
      /\ s = IF d + e + c < 2 * h THEN d + e + c ELSE d + e + c - 2 * h
      /\ cf <=> d + e + c >= 2 * h
      /\ of <=> ~Fits(Signed(d, h) + Signed(e, h) + c, h)
  BY DEF SumValue
<1> HIDE DEF of
<1>3. /\ r.val = s /\ r.eflags.CF = cf /\ r.eflags.OF = of
      /\ r.eflags.ZF = (s = 0) /\ r.eflags.SF = (s >= h)
  BY <1>1, FlagsSet DEF of
<1>4. d + e + c = IF cf THEN s + 2 * h ELSE s
  BY <1>2, SMT DEF Operands, Weights, Carries
<1> QED
  BY ONLY <1>2, <1>3, <1>4 DEF IsSum

LEMMA DifferenceOfValue ==
  ASSUME NEW h \in Weights, NEW e \in Operands(h), NEW d \in Operands(h), NEW c \in Carries,
         NEW cf \in BOOLEAN, NEW r, NEW s, DifferenceValue(h, d, e, c, s),
         cf <=> d < e \/ (c = 1 /\ d = e),
         r = [val |-> s, eflags |-> SetFlags(s, h, cf, SubOverflows(d, e, s, h))]
  PROVE  IsDifference(r, h, d, e, c)
<1> DEFINE of == SubOverflows(d, e, s, h)
<1>1. of \in BOOLEAN
  BY DEF SubOverflows
<1>2. /\ s \in Operands(h)
      /\ s = IF d < e + c THEN d - e - c + 2 * h ELSE d - e - c
      /\ cf <=> d < e + c
      /\ of <=> ~Fits(Signed(d, h) - Signed(e, h) - c, h)
  BY DEF DifferenceValue
<1> HIDE DEF of
<1>3. /\ r.val = s /\ r.eflags.CF = cf /\ r.eflags.OF = of
      /\ r.eflags.ZF = (s = 0) /\ r.eflags.SF = (s >= h)
  BY <1>1, FlagsSet DEF of
<1>4. d - e - c = IF cf THEN s - 2 * h ELSE s
  BY <1>2, SMT DEF Operands, Weights, Carries
<1> QED
  BY ONLY <1>2, <1>3, <1>4 DEF IsDifference

LEMMA Bits ==
  ASSUME NEW flag \in BOOLEAN
  PROVE  Bit(flag) \in Carries /\ (Bit(flag) = 1 <=> flag)
BY DEF Bit, Carries

\* alu_add and alu_adc, at any operand size and for operands that fit it, give
\* the exact sum: the result and CF together are the sum of the unsigned
\* operands, and OF tells whether the sum of the signed ones overflows.
THEOREM AdditionIsExact ==
  ASSUME NEW h \in Weights, NEW e \in Operands(h), NEW d \in Operands(h),
         NEW eflags, eflags.CF \in BOOLEAN
  PROVE  /\ IsSum(alu_add(e, d, h), h, d, e, 0)
         /\ IsSum(alu_adc(eflags, e, d, h), h, d, e, Bit(eflags.CF))
<1>1. IsSum(alu_add(e, d, h), h, d, e, 0)
  <2> DEFINE s == Masked(e + d, h)
             cf == s < d
             r == alu_add(e, d, h)
  <2>1. e + d + 0 = e + d /\ 0 \in Carries
    BY DEF Operands, Weights, Carries
  <2>2. SumValue(h, d, e, 0, s)
    <3>1. SumValue(h, d, e, 0, Masked(e + d + 0, h))
      BY <2>1, AddValue
    <3> QED
      BY <2>1, <3>1
  <2>3. r = [val |-> s, eflags |-> SetFlags(s, h, cf, AddOverflows(d, e, s, h))]
    BY MaskedOperand DEF alu_add
  <2>4. cf \in BOOLEAN /\ (cf <=> s < d \/ (0 = 1 /\ s = d))
    OBVIOUS
  <2> HIDE DEF s, cf, r
  <2>5. IsSum(r, h, d, e, 0)
    BY <2>1, <2>2, <2>3, <2>4, SumOfValue
  <2> QED
    BY <2>5 DEF r
<1>2. IsSum(alu_adc(eflags, e, d, h), h, d, e, Bit(eflags.CF))
  <2> DEFINE c == Bit(eflags.CF)
             s == Masked(e + d + c, h)
             cf == s < d \/ (eflags.CF /\ s = d)
             r == alu_adc(eflags, e, d, h)
  <2>1. c \in Carries /\ (c = 1 <=> eflags.CF)
    BY Bits
  <2>2. r = [val |-> s, eflags |-> SetFlags(s, h, cf, AddOverflows(d, e, s, h))]
    BY MaskedOperand DEF alu_adc
  <2> HIDE DEF c, r
  <2>3. SumValue(h, d, e, c, s)
    BY <2>1, AddValue
  <2> HIDE DEF s
  <2>4. cf \in BOOLEAN /\ (cf <=> s < d \/ (c = 1 /\ s = d))
    BY <2>1
  <2> HIDE DEF cf
  <2>5. IsSum(r, h, d, e, c)
    BY <2>1, <2>2, <2>3, <2>4, SumOfValue
  <2> QED
    BY <2>5 DEF r, c
<1> QED
  BY <1>1, <1>2

\* The same of alu_sub and alu_sbb: CF is the borrow.
THEOREM SubtractionIsExact ==
  ASSUME NEW h \in Weights, NEW e \in Operands(h), NEW d \in Operands(h),
         NEW eflags, eflags.CF \in BOOLEAN
  PROVE  /\ IsDifference(alu_sub(e, d, h), h, d, e, 0)
         /\ IsDifference(alu_sbb(eflags, e, d, h), h, d, e, Bit(eflags.CF))
<1>1. IsDifference(alu_sub(e, d, h), h, d, e, 0)
  <2> DEFINE s == Masked(d - e, h)
             cf == d < e
             r == alu_sub(e, d, h)
  <2>1. d - e - 0 = d - e /\ 0 \in Carries
    BY DEF Operands, Weights, Carries
  <2>2. DifferenceValue(h, d, e, 0, s)
    <3>1. DifferenceValue(h, d, e, 0, Masked(d - e - 0, h))
      BY <2>1, SubValue
    <3> QED
      BY <2>1, <3>1
  <2>3. r = [val |-> s, eflags |-> SetFlags(s, h, cf, SubOverflows(d, e, s, h))]
    BY MaskedOperand DEF alu_sub
  <2>4. cf \in BOOLEAN /\ (cf <=> d < e \/ (0 = 1 /\ d = e))
    OBVIOUS
  <2> HIDE DEF s, cf, r
  <2>5. IsDifference(r, h, d, e, 0)
    BY <2>1, <2>2, <2>3, <2>4, DifferenceOfValue
  <2> QED
    BY <2>5 DEF r
<1>2. IsDifference(alu_sbb(eflags, e, d, h), h, d, e, Bit(eflags.CF))
  <2> DEFINE c == Bit(eflags.CF)
             s == Masked(d - e - c, h)
             cf == d < e \/ (eflags.CF /\ d = e)
             r == alu_sbb(eflags, e, d, h)
  <2>1. c \in Carries /\ (c = 1 <=> eflags.CF)
    BY Bits
  <2>2. r = [val |-> s, eflags |-> SetFlags(s, h, cf, SubOverflows(d, e, s, h))]
    BY MaskedOperand DEF alu_sbb
  <2> HIDE DEF c, r
  <2>3. DifferenceValue(h, d, e, c, s)
    BY <2>1, SubValue
  <2> HIDE DEF s
  <2>4. cf \in BOOLEAN /\ (cf <=> d < e \/ (c = 1 /\ d = e))
    BY <2>1
  <2> HIDE DEF cf
  <2>5. IsDifference(r, h, d, e, c)
    BY <2>1, <2>2, <2>3, <2>4, DifferenceOfValue
  <2> QED
    BY <2>5 DEF r, c
<1> QED
  BY <1>1, <1>2

----------------------------------------------------------------------------
\* After cmp, the conditions compare the operands: b, a, be and ae as unsigned
\* numbers, l, g, le and ge as signed ones, and e says that they are equal.
THEOREM ComparisonsBranchRight ==
  ASSUME NEW h \in Weights, NEW e \in Operands(h), NEW d \in Operands(h)
  PROVE  LET flags == cmp(e, d, h)
         IN /\ condition_e(flags) <=> d = e
            /\ condition_b(flags) <=> d < e
            /\ condition_be(flags) <=> d <= e
            /\ condition_a(flags) <=> d > e
            /\ condition_ae(flags) <=> d >= e
            /\ condition_l(flags) <=> Signed(d, h) < Signed(e, h)
            /\ condition_le(flags) <=> Signed(d, h) <= Signed(e, h)
            /\ condition_g(flags) <=> Signed(d, h) > Signed(e, h)
            /\ condition_ge(flags) <=> Signed(d, h) >= Signed(e, h)
<1> DEFINE r == alu_sub(e, d, h)
           flags == cmp(e, d, h)
<1>1. r.eflags = flags
  BY DEF cmp
<1>2. IsDifference(r, h, d, e, 0)
  <2> DEFINE none == [CF |-> FALSE]
  <2>1. none.CF \in BOOLEAN
    OBVIOUS
  <2> HIDE DEF none, r
  <2> QED
    BY <2>1, SubtractionIsExact DEF r
<1> HIDE DEF r, flags
<1>3. PICK v \in Operands(h) : v = r.val
  BY <1>2 DEF IsDifference
<1>4. /\ h \in Nat /\ h > 0 /\ v \in Nat /\ v < 2 * h
      /\ d \in Nat /\ e \in Nat /\ d < 2 * h /\ e < 2 * h
  BY DEF Operands, Weights
<1>5. /\ d - e = IF flags.CF THEN v - 2 * h ELSE v
      /\ flags.OF <=> ~Fits(Signed(d, h) - Signed(e, h), h)
      /\ flags.ZF <=> v = 0
      /\ flags.SF <=> v >= h
  <2>1. d - e - 0 = d - e /\ Signed(d, h) - Signed(e, h) - 0 = Signed(d, h) - Signed(e, h)
    BY <1>4, SMT DEF Signed
  <2> QED
    BY <1>1, <1>2, <1>3, <2>1 DEF IsDifference
<1>6. /\ flags.CF <=> d < e
      /\ v = 0 <=> d = e
  BY <1>4, <1>5, SMT
<1>7. ~(flags.SF <=> flags.OF) <=> Signed(d, h) < Signed(e, h)
  BY <1>4, <1>5, <1>6, SMT DEF Fits, Signed
<1>8. Signed(d, h) = Signed(e, h) <=> d = e
  BY <1>4, SMT DEF Signed
<1>9. Signed(d, h) \in Int /\ Signed(e, h) \in Int
  BY <1>4, SMT DEF Signed
<1>a. /\ condition_e(flags) <=> d = e
      /\ condition_b(flags) <=> d < e
      /\ condition_be(flags) <=> d <= e
      /\ condition_a(flags) <=> d > e
      /\ condition_ae(flags) <=> d >= e
  BY <1>4, <1>5, <1>6
     DEF condition_e, condition_b, condition_be, condition_a, condition_ae
<1>b. /\ condition_l(flags) <=> Signed(d, h) < Signed(e, h)
      /\ condition_le(flags) <=> Signed(d, h) <= Signed(e, h)
      /\ condition_g(flags) <=> Signed(d, h) > Signed(e, h)
      /\ condition_ge(flags) <=> Signed(d, h) >= Signed(e, h)
  BY <1>5, <1>6, <1>7, <1>8, <1>9
     DEF condition_l, condition_le, condition_g, condition_ge
<1> QED
  BY ONLY <1>a, <1>b DEF flags

\* A comparison with an immediate byte (or, for g = 2 ^ 15, a word), which is
\* sign extended to the 32 bits of the other operand, is the signed comparison
\* with that byte.
THEOREM ShortImmediatesBranchRight ==
  ASSUME NEW h \in Weights, NEW g \in Weights, g <= h,
         NEW i \in Operands(g), NEW d \in Operands(h)
  PROVE  LET flags == cmp_imm8(i, d, g, h, h)
         IN /\ condition_e(flags) <=> Signed(d, h) = Signed(i, g)
            /\ condition_l(flags) <=> Signed(d, h) < Signed(i, g)
            /\ condition_g(flags) <=> Signed(d, h) > Signed(i, g)
<1> DEFINE e == sign_ext(i, g, h)
           flags == cmp(e, d, h)
<1>1. e \in Operands(h) /\ Signed(e, h) = Signed(i, g)
  BY SMT DEF sign_ext, Top, Operands, Weights, Signed
<1>2. cmp_imm8(i, d, g, h, h) = flags
  BY DEF cmp_imm8
<1> HIDE DEF e
<1>3. /\ condition_e(flags) <=> d = e
      /\ condition_l(flags) <=> Signed(d, h) < Signed(e, h)
      /\ condition_g(flags) <=> Signed(d, h) > Signed(e, h)
  BY <1>1, ComparisonsBranchRight
<1>4. d = e <=> Signed(d, h) = Signed(e, h)
  BY <1>1, SMT DEF Operands, Weights, Signed
<1> HIDE DEF flags
<1> QED
  BY ONLY <1>1, <1>2, <1>3, <1>4

----------------------------------------------------------------------------
\* add of the low words and then adc of the high words adds numbers of two
\* words: between the two, eflags.CF is all that is kept of the low sum.
THEOREM WideAdditionIsExact ==
  ASSUME NEW h \in Weights, NEW e0 \in Operands(h), NEW e1 \in Operands(h),
         NEW d0 \in Operands(h), NEW d1 \in Operands(h)
  PROVE  LET w == 2 * h
             low == alu_add(e0, d0, h)
             high == alu_adc(low.eflags, e1, d1, h)
         IN (d1 * w + d0) + (e1 * w + e0)
              = (high.val * w + low.val) + IF high.eflags.CF THEN w * w ELSE 0
<1> DEFINE w == 2 * h
           low == alu_add(e0, d0, h)
           c == Bit(low.eflags.CF)
           high == alu_adc(low.eflags, e1, d1, h)
<1>1. IsSum(low, h, d0, e0, 0)
  <2> DEFINE none == [CF |-> FALSE]
  <2>1. none.CF \in BOOLEAN
    OBVIOUS
  <2> HIDE DEF none, low
  <2> QED
    BY <2>1, AdditionIsExact DEF low
<1> HIDE DEF low
<1>0. low.eflags.CF \in BOOLEAN
  BY <1>1 DEF IsSum
<1>2. IsSum(high, h, d1, e1, c)
  BY <1>0, AdditionIsExact
<1> HIDE DEF high
<1>3. /\ d0 + e0 = low.val + w * c
      /\ low.val \in Nat /\ c \in Nat /\ w \in Nat
      /\ d0 \in Nat /\ e0 \in Nat /\ d1 \in Nat /\ e1 \in Nat
  <2>1. (c = 1 /\ low.eflags.CF) \/ (c = 0 /\ ~low.eflags.CF)
    BY <1>0 DEF Bit
  <2>2. low.val \in Nat /\ w \in Nat /\ d0 \in Nat /\ e0 \in Nat /\ d1 \in Nat /\ e1 \in Nat
    BY <1>1 DEF IsSum, Operands, Weights
  <2>3. d0 + e0 + 0 = IF low.eflags.CF THEN low.val + w ELSE low.val
    BY <1>1 DEF IsSum
  <2> HIDE DEF c, w
  <2> QED
    BY <2>1, <2>2, <2>3
<1>4. /\ d1 + e1 + c = IF high.eflags.CF THEN high.val + w ELSE high.val
      /\ high.val \in Nat
  BY <1>2 DEF IsSum, Operands, Weights
<1> HIDE DEF w, c
<1>5. (d1 * w + d0) + (e1 * w + e0) = (d1 + e1 + c) * w + low.val
  BY <1>3, SMT
<1>6. (d1 * w + d0) + (e1 * w + e0)
        = (high.val * w + low.val) + IF high.eflags.CF THEN w * w ELSE 0
  <2>1. high.val * w \in Int /\ w * w \in Int /\ (high.val + w) * w = high.val * w + w * w
    BY <1>3, <1>4, SMT
  <2>2. (d1 + e1 + c) * w = high.val * w + IF high.eflags.CF THEN w * w ELSE 0
    BY <1>4, <2>1
  <2> QED
    BY ONLY <1>3, <1>5, <2>1, <2>2
<1> QED
  BY ONLY <1>6 DEF w, high, low

\* cmp of the low words and then sbb of the high words compares numbers of two
\* words, unsigned with b and ae, signed with l and ge: the high words decide,
\* and the low ones when those are equal.
THEOREM WideComparisonBranchesRight ==
  ASSUME NEW h \in Weights, NEW e0 \in Operands(h), NEW e1 \in Operands(h),
         NEW d0 \in Operands(h), NEW d1 \in Operands(h)
  PROVE  LET flags == alu_sbb(cmp(e0, d0, h), e1, d1, h).eflags
         IN /\ condition_b(flags) <=> d1 < e1 \/ (d1 = e1 /\ d0 < e0)
            /\ condition_ae(flags) <=> d1 > e1 \/ (d1 = e1 /\ d0 >= e0)
            /\ condition_l(flags) <=>
                 Signed(d1, h) < Signed(e1, h) \/ (d1 = e1 /\ d0 < e0)
            /\ condition_ge(flags) <=>
                 Signed(d1, h) > Signed(e1, h) \/ (d1 = e1 /\ d0 >= e0)
<1> DEFINE low == cmp(e0, d0, h)
           c == Bit(low.CF)
           high == alu_sbb(low, e1, d1, h)
           flags == high.eflags
<1>0. low.CF \in BOOLEAN
  <2> DEFINE r == alu_sub(e0, d0, h)
             none == [CF |-> FALSE]
  <2>1. none.CF \in BOOLEAN /\ low = r.eflags
    BY DEF cmp
  <2> HIDE DEF none, r, low
  <2>2. IsDifference(r, h, d0, e0, 0)
    BY <2>1, SubtractionIsExact DEF r
  <2> QED
    BY <2>1, <2>2 DEF IsDifference
<1>1. low.CF <=> d0 < e0
  BY ComparisonsBranchRight DEF condition_b
<1> HIDE DEF low
<1>2. IsDifference(high, h, d1, e1, c)
  BY <1>0, SubtractionIsExact
<1>3. (c = 1 /\ d0 < e0) \/ (c = 0 /\ ~(d0 < e0))
  BY <1>0, <1>1 DEF Bit
<1>4. PICK v \in Operands(h) : v = high.val
  BY <1>2 DEF IsDifference
<1> HIDE DEF high, c
<1>5. /\ h \in Nat /\ h > 0 /\ v \in Nat /\ v < 2 * h /\ c \in 0 .. 1
      /\ d0 \in Nat /\ e0 \in Nat /\ d1 \in Nat /\ e1 \in Nat /\ d1 < 2 * h /\ e1 < 2 * h
  BY <1>3 DEF Operands, Weights
<1>6. /\ d1 - e1 - c = IF flags.CF THEN v - 2 * h ELSE v
      /\ flags.OF <=> ~Fits(Signed(d1, h) - Signed(e1, h) - c, h)
      /\ flags.SF <=> v >= h
  BY <1>2, <1>4 DEF IsDifference
<1> HIDE DEF flags
<1>7. flags.CF <=> d1 < e1 \/ (d1 = e1 /\ d0 < e0)
  BY <1>3, <1>5, <1>6, SMT
<1>8. ~(flags.SF <=> flags.OF) <=> Signed(d1, h) - Signed(e1, h) - c < 0
  BY <1>5, <1>6, SMT DEF Fits, Signed
<1>9. /\ Signed(d1, h) \in Int /\ Signed(e1, h) \in Int
      /\ Signed(d1, h) = Signed(e1, h) <=> d1 = e1
  BY <1>5, SMT DEF Signed
<1>a. /\ condition_b(flags) <=> d1 < e1 \/ (d1 = e1 /\ d0 < e0)
      /\ condition_ae(flags) <=> d1 > e1 \/ (d1 = e1 /\ d0 >= e0)
  BY <1>5, <1>7 DEF condition_b, condition_ae
<1>b. /\ ~(flags.SF <=> flags.OF) <=>
           Signed(d1, h) < Signed(e1, h) \/ (d1 = e1 /\ d0 < e0)
      /\ (flags.SF <=> flags.OF) <=>
           Signed(d1, h) > Signed(e1, h) \/ (d1 = e1 /\ d0 >= e0)
  <2> DEFINE x == Signed(d1, h)
             y == Signed(e1, h)
  <2>1. x \in Int /\ y \in Int /\ (x = y <=> d1 = e1) /\ (x - y - c < 0 <=> ~(flags.SF <=> flags.OF))
    BY <1>8, <1>9
  <2> HIDE DEF x, y
  <2>2. x - y - c < 0 <=> x < y \/ (d1 = e1 /\ d0 < e0)
    BY ONLY <1>3, <1>5, <2>1, SMT
  <2>3. ~(x - y - c < 0) <=> x > y \/ (d1 = e1 /\ d0 >= e0)
    BY ONLY <1>3, <1>5, <2>1, SMT
  <2> QED
    BY ONLY <2>1, <2>2, <2>3 DEF x, y
<1>c. /\ condition_l(flags) <=> Signed(d1, h) < Signed(e1, h) \/ (d1 = e1 /\ d0 < e0)
      /\ condition_ge(flags) <=> Signed(d1, h) > Signed(e1, h) \/ (d1 = e1 /\ d0 >= e0)
  BY ONLY <1>b DEF condition_l, condition_ge
<1> QED
  BY ONLY <1>a, <1>c DEF flags, high, low
=============================================================================
