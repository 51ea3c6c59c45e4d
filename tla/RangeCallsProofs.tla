-------------------------- MODULE RangeCallsProofs --------------------------
(***************************************************************************)
(* Proof that the parameters and the header of a range proof               *)
(* (rangeproof_impl.h) are what verification and the caller rely on, for   *)
(* every width of the numbers that leaves the room the code counts on.     *)
(* Most of it is about powers of two and of ten, the digits of a number in *)
(* base 4 and the bytes of the header.                                     *)
(***************************************************************************)
EXTENDS RangeCalls, DataLemmas

\* The powers of a base.
IsPower(pow, base) ==
    /\ pow \in [Nat -> Nat \ {0}] /\ pow[0] = 1
    /\ \A n \in Nat \ {0} : pow[n] = base * pow[n - 1]

\* How they are defined: by recursion.
PowerStep(base, f) == [n \in Nat |-> IF n = 0 THEN 1 ELSE base * f[n - 1]]

\* There are such powers.
LEMMA PowersExist ==
    ASSUME NEW base \in Nat \ {0}
    PROVE  \E f : IsPower(f, base) /\ f = PowerStep(base, f)
<1> DEFINE V == Nat \ {0}
           step == [p \in Nat \X V |-> base * p[2]]
<1>1. 1 \in V /\ \A x \in V : base * x \in V
  OBVIOUS
<1> HIDE DEF V
<1>2. step \in [Nat \X V -> V]
  BY <1>1
<1>3. PICK f \in [Nat -> V] :
        f[0] = 1 /\ \A i \in Nat \ {0} : f[i] = step[<<i, f[i - 1]>>]
  <2> HIDE DEF step
  <2>1. \E f : NatIterates(f, V, 1, step)
    BY <1>1, <1>2, NatRecursion
  <2> QED BY <2>1 DEF NatIterates
<1>4. ASSUME NEW i \in Nat \ {0} PROVE f[i] = base * f[i - 1]
  <2>1. f[i - 1] \in V
    BY <1>3
  <2> QED BY <2>1, <1>3
<1>5. f = PowerStep(base, f)
  BY <1>3, <1>4 DEF PowerStep
<1> QED BY <1>3, <1>4, <1>5 DEF V, IsPower

\* What is defined by that recursion are the powers.
LEMMA Powers ==
    ASSUME NEW base \in Nat \ {0}, NEW pow, pow = PowerStep(base, pow)
    PROVE  IsPower(pow, base)
<1>1. PICK f : IsPower(f, base) /\ f = PowerStep(base, f)
  BY PowersExist
<1>2. pow[0] = 1 /\ \A n \in Nat \ {0} : pow[n] = base * pow[n - 1]
  BY DEF PowerStep
<1>3. ASSUME NEW n \in Nat PROVE pow[n] = f[n]
  <2>1. Lockstep(pow, f, n)
    BY <1>1, <1>2 DEF Lockstep, IsPower
  <2> QED BY <2>1, SameSteps
<1>4. pow = [n \in Nat |-> pow[n]]
  BY DEF PowerStep
<1>5. pow \in [Nat -> Nat \ {0}]
  BY <1>1, <1>3, <1>4 DEF IsPower
<1> QED BY <1>2, <1>5 DEF IsPower

\* Powers of two.
LEMMA PowersOfTwo ==
    /\ Pow2 \in [Nat -> Nat \ {0}] /\ Pow2[0] = 1
    /\ \A n \in Nat \ {0} : Pow2[n] = 2 * Pow2[n - 1]
<1>1. PICK base \in Nat \ {0} : base = 2
  OBVIOUS
<1>2. Pow2 = CHOOSE f : f = PowerStep(2, f)
  BY Zenon DEF Pow2, PowerStep
<1>3. Pow2 = PowerStep(base, Pow2)
  BY <1>1, <1>2, PowersExist, Zenon
<1> QED BY <1>1, <1>3, Powers DEF IsPower

\* Powers of ten.
LEMMA PowersOfTen ==
    /\ Pow10 \in [Nat -> Nat \ {0}] /\ Pow10[0] = 1
    /\ \A n \in Nat \ {0} : Pow10[n] = 10 * Pow10[n - 1]
<1>1. PICK base \in Nat \ {0} : base = 10
  OBVIOUS
<1>2. Pow10 = CHOOSE f : f = PowerStep(10, f)
  BY Zenon DEF Pow10, PowerStep
<1>3. Pow10 = PowerStep(base, Pow10)
  BY <1>1, <1>2, PowersExist, Zenon
<1> QED BY <1>1, <1>3, Powers DEF IsPower

\* Powers of two grow.
LEMMA PowersGrow ==
    /\ \A m, n \in Nat : m <= n => Pow2[m] <= Pow2[n]
    /\ \A m, n \in Nat : m <= n => Pow10[m] <= Pow10[n]
<1>1. ASSUME NEW f \in [Nat -> Nat], \A n \in Nat \ {0} : f[n - 1] <= f[n], NEW m \in Nat
      PROVE  \A n \in Nat : m <= n => f[m] <= f[n]
  <2> DEFINE T == {n \in Nat : m <= n /\ f[m] > f[n]}
  <2> SUFFICES ASSUME T # {} PROVE FALSE
    OBVIOUS
  <2>1. PICK n \in T : \A k \in T : n <= k
    <3> T \in SUBSET Nat
      OBVIOUS
    <3> HIDE DEF T
    <3> QED BY LeastNumber
  <2>2. n # m /\ n - 1 \in Nat /\ m <= n - 1 /\ n - 1 \notin T
    BY <2>1
  <2> QED BY <2>1, <2>2, <1>1
<1>2. Pow2 \in [Nat -> Nat] /\ \A n \in Nat \ {0} : Pow2[n - 1] <= Pow2[n]
  BY PowersOfTwo
<1>3. Pow10 \in [Nat -> Nat] /\ \A n \in Nat \ {0} : Pow10[n - 1] <= Pow10[n]
  BY PowersOfTen
<1> QED BY <1>1, <1>2, <1>3

\* Bits above bits: the powers of a sum.
LEMMA PowersAdd == \A m, n \in Nat : Pow2[m + n] = Pow2[m] * Pow2[n]
<1> SUFFICES ASSUME NEW m \in Nat PROVE \A n \in Nat : Pow2[m + n] = Pow2[m] * Pow2[n]
  OBVIOUS
<1> DEFINE f == [n \in Nat |-> Pow2[m + n]]
           g == [n \in Nat |-> Pow2[m] * Pow2[n]]
<1>1. ASSUME NEW n \in Nat PROVE f[n] = g[n]
  <2>1. f[0] = g[0]
    BY PowersOfTwo
  <2>2. ASSUME NEW i \in 1 .. n, f[i - 1] = g[i - 1] PROVE f[i] = g[i]
    <3>1. Pow2[m + i] = 2 * Pow2[m + (i - 1)] /\ Pow2[i] = 2 * Pow2[i - 1]
      BY PowersOfTwo
    <3>2. Pow2[m + (i - 1)] = Pow2[m] * Pow2[i - 1]
      BY <2>2
    <3>3. Pow2[m] \in Nat /\ Pow2[i - 1] \in Nat
      BY PowersOfTwo
    <3>4. 2 * (Pow2[m] * Pow2[i - 1]) = Pow2[m] * (2 * Pow2[i - 1])
      BY <3>3
    <3> QED BY <3>1, <3>2, <3>4
  <2> HIDE DEF f, g
  <2>3. Lockstep(f, g, n)
    BY <2>1, <2>2 DEF Lockstep
  <2> QED BY <2>3, SameSteps
<1> QED BY <1>1

-----------------------------------------------------------------------------
\* The largest amounts, with and without a sign bit.
LEMMA Widths ==
    /\ W \in Nat /\ W >= 3 /\ W - 1 \in Nat
    /\ Pow2[W] = 2 * Pow2[W - 1] /\ Pow2[W - 1] >= 4
    /\ UINT_MAX \in Nat /\ INT_MAX \in Nat /\ UINT_MAX = 2 * INT_MAX + 1
    /\ UINT_MAX + 1 = Pow2[W] /\ INT_MAX + 1 = Pow2[W - 1]
    /\ MaxExp \in 0 .. 31
<1>1. W \in Nat /\ W >= 3 /\ W - 1 \in Nat /\ MaxExp \in 0 .. 31
  BY WidthAssumption DEF Roomy
<1>2. Pow2[W] = 2 * Pow2[W - 1] /\ Pow2[W - 1] \in Nat /\ Pow2[W] \in Nat
  BY <1>1, PowersOfTwo
<1>3. Pow2[2] = 4
  BY PowersOfTwo
<1>4. Pow2[2] <= Pow2[W - 1]
  BY <1>1, PowersGrow
<1> QED BY <1>1, <1>2, <1>3, <1>4 DEF UINT_MAX, INT_MAX

\* An amount of so many bits.
LEMMA BitLengths ==
    ASSUME NEW x \in 0 .. UINT_MAX
    PROVE  /\ BitLength(x) \in 0 .. W /\ x < Pow2[BitLength(x)]
           /\ BitLength(x) # 0 => Pow2[BitLength(x) - 1] <= x
<1> DEFINE T == {n \in Nat : x < Pow2[n]}
<1>1. W \in T
  BY Widths, PowersOfTwo DEF UINT_MAX
<1>2. PICK n \in T : \A m \in T : n <= m
  <2> T \in SUBSET Nat
    OBVIOUS
  <2> HIDE DEF T
  <2> QED BY <1>1, LeastNumber
<1>3. n \in 0 .. W /\ x < Pow2[n]
  BY <1>1, <1>2
<1>4. ASSUME n # 0 PROVE x >= Pow2[n - 1]
  <2>1. n - 1 \in Nat /\ n - 1 \notin T
    BY <1>2, <1>4
  <2> QED BY <2>1, PowersOfTwo
<1>5. \E k \in 0 .. W : x < Pow2[k] /\ (k = 0 \/ x >= Pow2[k - 1])
  BY <1>3, <1>4
<1>6. BitLength(x) \in 0 .. W /\ x < Pow2[BitLength(x)]
      /\ (BitLength(x) = 0 \/ x >= Pow2[BitLength(x) - 1])
  BY <1>5 DEF BitLength
<1>7. BitLength(x) # 0 => Pow2[BitLength(x) - 1] \in Nat
  BY <1>6, PowersOfTwo, Widths
<1> QED BY <1>6, <1>7

\* The exponent that is left: so many ones, scaled step by step, fit an amount.
LEMMA Exponents ==
    ASSUME NEW exp \in Nat, NEW bits \in Nat
    PROVE  /\ ExponentFor(exp, bits) \in 0 .. exp
           /\ \A j \in 0 .. ExponentFor(exp, bits) - 1 :
                LowOnes(bits) * Pow10[j] <= UINT_MAX \div 10
<1> DEFINE Fits(j) == LowOnes(bits) * Pow10[j] <= UINT_MAX \div 10
           T == {i \in Nat : i = exp \/ ~Fits(i)}
<1>1. PICK i \in T : \A m \in T : i <= m
  <2> T \in SUBSET Nat /\ exp \in T
    OBVIOUS
  <2> HIDE DEF T
  <2> QED BY LeastNumber
<1>2. i \in 0 .. exp
  BY <1>1
<1>3. \A j \in 0 .. i - 1 : Fits(j)
  BY <1>1
<1>4. LowOnes(bits) * Pow10[i] \in Int /\ UINT_MAX \div 10 \in Int
  BY <1>2, PowersOfTwo, PowersOfTen, Widths DEF LowOnes
<1>5. i < exp => LowOnes(bits) * Pow10[i] > UINT_MAX \div 10
  BY <1>1, <1>4
<1> DEFINE Is(k) == /\ \A j \in 0 .. k - 1 : Fits(j)
                    /\ k < exp => LowOnes(bits) * Pow10[k] > UINT_MAX \div 10
<1>6. ExponentFor(exp, bits) = CHOOSE k \in 0 .. exp : Is(k)
  BY Zenon DEF ExponentFor
<1>7. Is(i)
  BY <1>3, <1>5
<1> HIDE DEF Is
<1>8. ExponentFor(exp, bits) \in 0 .. exp /\ Is(ExponentFor(exp, bits))
  BY <1>2, <1>6, <1>7
<1> QED BY <1>8 DEF Is

\* So many ones are a number below that power of two.
LEMMA Ones ==
    ASSUME NEW b \in Nat
    PROVE  LowOnes(b) \in Nat /\ LowOnes(b) = Pow2[b] - 1 /\ Pow2[b] \in Nat \ {0}
  BY PowersOfTwo DEF LowOnes

\* Ones that fit one step before the last fit after it.
LEMMA ExponentFits ==
    ASSUME NEW exp \in Nat, NEW bits \in Nat, ExponentFor(exp, bits) # 0
    PROVE  LowOnes(bits) * Pow10[ExponentFor(exp, bits)] <= UINT_MAX
<1> DEFINE e == ExponentFor(exp, bits)
           t == LowOnes(bits) * Pow10[e - 1]
<1>1. e \in Nat \ {0} /\ e - 1 \in 0 .. e - 1
  <2>1. e \in 0 .. exp
    BY Exponents
  <2> HIDE DEF e
  <2> QED BY <2>1 DEF e
<1>2. t <= UINT_MAX \div 10
  BY <1>1, Exponents
<1>3. Pow10[e] = 10 * Pow10[e - 1] /\ Pow10[e - 1] \in Nat /\ LowOnes(bits) \in Nat
  BY <1>1, PowersOfTen, Ones
<1>4. LowOnes(bits) * Pow10[e] = 10 * t /\ t \in Nat
  BY <1>3
<1> HIDE DEF t, e
<1>5. 10 * t <= UINT_MAX
  BY <1>2, <1>4, Widths
<1> QED BY <1>4, <1>5 DEF e

\* What a range has to be: its digits hold v, and its largest value fits an amount.
Fitting(value, min, e, v, M) ==
    /\ v \in Nat /\ M \in 1 .. W /\ v < Pow2[M]
    /\ value - v * Pow10[e] \in min .. value
    /\ LowOnes(M) * Pow10[e] + (value - v * Pow10[e]) <= UINT_MAX

\* The mantissa that was asked for, or one bit: then the minimum is what matters.
LEMMA AskedMantissaFits ==
    ASSUME NEW value \in 0 .. UINT_MAX, NEW min \in 0 .. value,
           NEW e \in 0 .. MaxExp, NEW bits \in 1 .. W, NEW rest \in min .. value,
           min # 0 => value <= INT_MAX /\ bits <= W - BitLength(min),
           rest < min + Pow10[e],
           e # 0 => /\ bits <= W - 3 /\ value <= INT_MAX
                    /\ LowOnes(bits) * Pow10[e] <= UINT_MAX
    PROVE  LowOnes(bits) * Pow10[e] + rest <= UINT_MAX
<1>1. LowOnes(bits) \in Nat /\ Pow10[e] \in Nat \ {0} /\ Pow10[0] = 1
  BY Ones, PowersOfTen
<1>2. LowOnes(bits) <= UINT_MAX
  <2>1. bits \in Nat /\ W \in Nat /\ bits <= W
    BY Widths
  <2>2. Pow2[bits] \in Nat /\ Pow2[W] \in Nat
    BY <2>1, PowersOfTwo
  <2> QED BY <2>1, <2>2, PowersGrow DEF LowOnes, UINT_MAX
<1> DEFINE L == LowOnes(bits) * Pow10[e]
<1>3. L \in Nat
  BY <1>1
\* a minimum has only the bits that the mantissa leaves
<1>4. min <= LowOnes(W - bits)
  <2>1. CASE min = 0
    BY <2>1, Ones, Widths
  <2>2. CASE min # 0
    <3>1. min \in 0 .. UINT_MAX
      BY Widths
    <3>2. min < Pow2[BitLength(min)] /\ BitLength(min) \in 0 .. W
      BY <3>1, BitLengths
    <3>3. BitLength(min) <= W - bits /\ W - bits \in Nat
      BY <2>2, <3>2, Widths
    <3>4. Pow2[BitLength(min)] <= Pow2[W - bits]
      BY <3>2, <3>3, PowersGrow
    <3> QED BY <3>2, <3>3, <3>4, Ones
  <2> QED BY <2>1, <2>2
<1>5. CASE e = 0
  <2>1. L = LowOnes(bits) /\ rest = min
    BY <1>1, <1>5
  <2>2. CASE bits = W
    <3>1. min = 0
      BY <1>4, <2>2, Ones, PowersOfTwo, Widths
    <3> QED BY <3>1, <2>1, <1>1, <1>2, Widths
  <2>3. CASE bits < W
    \* 2^a + 2^b <= 2^(a + b) + 1
    <3> DEFINE a == Pow2[bits]
               b == Pow2[W - bits]
    <3>1. a \in Nat \ {0} /\ b \in Nat \ {0}
      BY PowersOfTwo, Widths
    <3>2. Pow2[bits + (W - bits)] = a * b
      BY PowersAdd, Widths
    <3>3. bits + (W - bits) = W
      BY Widths
    <3>4. (a - 1) * (b - 1) >= 0 /\ (a - 1) * (b - 1) = a * b - a - b + 1 /\ a * b \in Nat
      <4> HIDE DEF a, b
      <4> QED BY <3>1
    <3>5. Pow2[W] = a * b
      BY <3>2, <3>3
    <3>6. LowOnes(bits) = a - 1 /\ LowOnes(W - bits) = b - 1 /\ UINT_MAX = Pow2[W] - 1
      BY Ones, Widths DEF UINT_MAX
    <3> HIDE DEF a, b
    <3>7. a - 1 + (b - 1) <= a * b - 1
      BY <3>1, <3>4
    <3> QED BY <3>1, <3>4, <3>5, <3>6, <3>7, <2>1, <1>4
  <2> QED BY <2>2, <2>3, Widths
<1>6. CASE e # 0
  <2>1. bits \in 1 .. W - 3 /\ value <= INT_MAX /\ L <= UINT_MAX
    BY <1>6, Widths
  <2>2. \/ L <= INT_MAX + 1
        \/ L > UINT_MAX
        \/ L + LowOnes(W - bits) + Pow10[e] - 1 <= UINT_MAX
    <3>1. \/ L <= Pow2[W - 1]
          \/ L >= Pow2[W]
          \/ L + LowOnes(W - bits) + Pow10[e] <= Pow2[W]
      BY <2>1, WidthAssumption DEF Roomy
    <3>2. LowOnes(W - bits) \in Nat
      BY Ones, Widths
    <3> HIDE DEF L
    <3>3. Pow2[W - 1] = INT_MAX + 1 /\ Pow2[W] = UINT_MAX + 1 /\ UINT_MAX \in Nat /\ INT_MAX \in Nat
      BY Widths, Zenon
    <3> QED BY <3>1, <3>2, <3>3, <1>1, <1>3
  <2> HIDE DEF L
  <2>3. CASE L <= INT_MAX + 1
    BY <2>1, <2>3, <1>3, Widths DEF L
  <2>4. CASE L + LowOnes(W - bits) + Pow10[e] - 1 <= UINT_MAX
    <3>1. LowOnes(W - bits) \in Nat
      BY Ones, Widths
    <3>2. rest <= min + Pow10[e] - 1
      BY <1>1
    <3>3. L + rest <= UINT_MAX
      BY <3>1, <3>2, <2>4, <1>1, <1>3, <1>4, Widths
    <3> QED BY <3>3 DEF L
  <2> QED BY <2>1, <2>2, <2>3, <2>4, <1>3, Widths
<1> QED BY <1>5, <1>6

\* The mantissa that the value needs: its ones are less than twice the value.
LEMMA OwnMantissaFits ==
    ASSUME NEW value \in 0 .. UINT_MAX, NEW min \in 0 .. value,
           NEW e \in 0 .. MaxExp, NEW v \in Nat \ {0},
           v * Pow10[e] <= value - min, value - min < v * Pow10[e] + Pow10[e],
           e # 0 \/ min # 0 => value <= INT_MAX
    PROVE  /\ BitLength(v) \in 1 .. W /\ v < Pow2[BitLength(v)]
           /\ LowOnes(BitLength(v)) * Pow10[e] + (value - v * Pow10[e]) <= UINT_MAX
<1> DEFINE M == BitLength(v)
           p == Pow10[e]
           x == v * p
           y == LowOnes(M) * p
<1>1. p \in Nat \ {0} /\ Pow10[0] = 1
  BY PowersOfTen
<1>2. x \in Nat /\ v <= x
  <2> HIDE DEF p
  <2>1. v * 1 <= v * p
    BY <1>1
  <2> QED BY <1>1, <2>1
<1>3. v \in 0 .. UINT_MAX
  BY <1>2, Widths
<1>4. M \in 0 .. W /\ v < Pow2[M] /\ (M # 0 => Pow2[M - 1] <= v)
  BY <1>3, BitLengths
<1> HIDE DEF M
<1>5. M \in 1 .. W
  BY <1>4, PowersOfTwo
<1>6. LowOnes(M) \in Nat /\ LowOnes(M) <= 2 * v - 1 /\ LowOnes(M) <= UINT_MAX
  <2>1. M \in Nat \ {0} /\ M <= W /\ W \in Nat
    BY <1>5, Widths
  <2>2. Pow2[M] = 2 * Pow2[M - 1] /\ Pow2[M - 1] \in Nat /\ Pow2[W] \in Nat /\ Pow2[M] <= Pow2[W]
    BY <2>1, PowersOfTwo, PowersGrow
  <2> QED BY <2>2, <1>4, <1>5, Ones DEF UINT_MAX, LowOnes
<1>7. y \in Nat /\ y <= 2 * x - p
  <2>1. LowOnes(M) * p <= (2 * v - 1) * p
    <3> HIDE DEF p
    <3> QED BY <1>1, <1>6, ProductsGrow
  <2>2. (2 * v - 1) * p = 2 * x - p
    <3> HIDE DEF p
    <3> QED BY <1>1
  <2>3. y \in Nat
    <3> HIDE DEF p
    <3> QED BY <1>1, <1>6
  <2> QED BY <2>1, <2>2, <2>3
<1>8. y + (value - x) <= UINT_MAX
  <2>1. CASE e # 0 \/ min # 0
    <3>1. value <= INT_MAX
      BY <2>1
    <3> HIDE DEF x, y, p
    <3>2. x <= value
      BY <1>2 DEF x, p
    <3> QED BY <3>1, <3>2, <1>1, <1>2, <1>7, Widths
  <2>2. CASE e = 0 /\ min = 0
    <3>1. p = 1 /\ x = v /\ y = LowOnes(M)
      BY <2>2, <1>1, <1>6
    <3>2. v = value
      BY <3>1, <2>2, <1>2, Widths
    <3> QED BY <3>1, <3>2, <1>6, Widths
  <2> QED BY <2>1, <2>2
<1> QED BY <1>4, <1>5, <1>8 DEF M

\* What the prover writes fits, whatever it was asked for.
LEMMA RangeFits ==
    ASSUME NEW value \in 0 .. UINT_MAX, NEW min \in 0 .. value,
           NEW e \in 0 .. MaxExp, NEW bits \in 0 .. W,
           min # 0 => value <= INT_MAX /\ bits <= W - BitLength(min) /\ min < INT_MAX,
           e # 0 => /\ bits <= W - 3 /\ value <= INT_MAX
                    /\ LowOnes(bits) * Pow10[e] <= UINT_MAX,
           NEW v, v = (value - min) \div Pow10[e]
    PROVE  Fitting(value, min, e, v, Larger(bits, IF v = 0 THEN 1 ELSE BitLength(v)))
<1> DEFINE p == Pow10[e]
           own == IF v = 0 THEN 1 ELSE BitLength(v)
           M == Larger(bits, own)
           x == v * p
           rest == value - x
<1>1. p \in Nat \ {0} /\ value - min \in Nat /\ value \in Nat /\ min \in Nat
  BY PowersOfTen, Widths
<1>2. v \in Nat /\ x \in Nat /\ x <= value - min /\ value - min < x + p
  <2>1. PICK d \in Nat \ {0} : d = p
    BY <1>1
  <2>2. PICK y \in Nat : y = value - min
    BY <1>1
  <2>3. v \in Int /\ y % d \in 0 .. d - 1 /\ y = d * v + (y % d)
    <3>1. v = y \div d
      BY <2>1, <2>2
    <3>2. y \div d \in Int /\ y % d \in 0 .. d - 1 /\ y = d * (y \div d) + (y % d)
      BY Division
    <3> QED BY <3>1, <3>2
  <2>4. d * v = v * d /\ d * v \in Int
    BY <2>3
  <2>5. v >= 0
    <3>1. CASE v <= -1
      <4>1. d * v <= d * (-1)
        BY <3>1, <2>3, ProductsGrow
      <4> QED BY <4>1, <2>3, <2>4
    <3> QED BY <3>1, <2>3
  <2>6. d * v >= 0
    BY <2>3, <2>5
  <2> QED BY <2>1, <2>2, <2>3, <2>4, <2>5, <2>6
<1> HIDE DEF x
<1>3. rest \in min .. value /\ rest < min + p
  <2> HIDE DEF p
  <2> QED BY <1>1, <1>2
<1>4. CASE v # 0
  <2>1. /\ own \in 1 .. W /\ v < Pow2[own]
        /\ LowOnes(own) * p + rest <= UINT_MAX
    BY <1>1, <1>2, <1>4, OwnMantissaFits DEF x
  <2>2. CASE ~(bits > own)
    <3>1. M = own
      BY <2>2 DEF Larger
    <3> HIDE DEF M, own
    <3> QED BY <3>1, <2>1, <1>2, <1>3 DEF Fitting, x, M, own
  <2>3. CASE bits > own
    <3>1. M = bits /\ bits \in 1 .. W
      BY <2>3, <2>1, Widths DEF Larger
    <3>2. LowOnes(bits) * p + rest <= UINT_MAX
      <4> HIDE DEF rest
      <4> QED BY <3>1, <1>3, AskedMantissaFits
    <3>3. Pow2[own] <= Pow2[bits] /\ Pow2[own] \in Nat /\ Pow2[bits] \in Nat
      <4> HIDE DEF own
      <4> QED BY <2>1, <2>3, PowersGrow, PowersOfTwo
    <3> HIDE DEF M, own
    <3> QED BY <3>1, <3>2, <3>3, <2>1, <1>2, <1>3 DEF Fitting, x, M, own
  <2> QED BY <2>2, <2>3
<1>5. CASE v = 0
  <2>1. x = 0 /\ rest = value /\ own = 1
    BY <1>1, <1>5 DEF x
  <2>2. CASE bits > 1
    <3>1. M = bits /\ bits \in 1 .. W
      BY <2>2, <2>1, Widths DEF Larger
    <3>2. LowOnes(bits) * p + rest <= UINT_MAX
      <4> HIDE DEF rest
      <4> QED BY <3>1, <1>3, AskedMantissaFits
    <3>3. Pow2[bits] \in Nat \ {0}
      BY PowersOfTwo
    <3> HIDE DEF M, own
    <3> QED BY <3>1, <3>2, <3>3, <1>2, <1>3, <1>5 DEF Fitting, x, M, own
  <2>3. CASE ~(bits > 1)
    <3>1. M = 1 /\ Pow2[1] = 2 /\ LowOnes(1) = 1
      BY <2>3, <2>1, PowersOfTwo DEF Larger, LowOnes
    <3>2. p + value <= UINT_MAX
      <4>1. CASE e = 0
        <5>1. p = 1 /\ value = min
          BY <4>1, <2>1, <1>1, <1>2, PowersOfTen
        <5> QED BY <5>1, <1>1, Widths
      <4>2. CASE e # 0
        <5>1. Pow10[e] <= Pow10[MaxExp] /\ Pow10[MaxExp] \in Nat
          <6>1. e \in Nat /\ MaxExp \in Nat /\ e <= MaxExp
            BY Widths
          <6> QED BY <6>1, PowersGrow, PowersOfTen
        <5>2. value <= INT_MAX
          BY <4>2
        <5>3. Pow10[MaxExp] <= INT_MAX + 1
          <6>1. Pow10[MaxExp] <= Pow2[W - 1]
            BY WidthAssumption, Zenon DEF Roomy
          <6> QED BY <6>1, Widths
        <5> QED BY <5>1, <5>2, <5>3, <1>1, Widths
      <4> QED BY <4>1, <4>2
    <3>3. LowOnes(M) * p + rest <= UINT_MAX
      BY <3>1, <3>2, <2>1, <1>1
    <3> HIDE DEF M, own
    <3> QED BY <3>1, <3>3, <1>2, <1>3, <1>5, Widths DEF Fitting, x, M, own
  <2> QED BY <2>2, <2>3
<1> QED BY <1>4, <1>5

-----------------------------------------------------------------------------
\* What the verifier makes of so many ones and an exponent.
LEMMA ScaledFits ==
    ASSUME NEW max \in Nat, NEW e \in Nat, max <= UINT_MAX, max * Pow10[e] <= UINT_MAX
    PROVE  ScaledMax(max, e) = max * Pow10[e]
<1> SUFFICES ASSUME NEW i \in 0 .. e - 1 PROVE ~(max * Pow10[i] > UINT_MAX \div 10)
  BY DEF ScaledMax
<1>1. e - 1 \in Nat /\ i \in Nat /\ i <= e - 1
  OBVIOUS
<1>2. Pow10[e] = 10 * Pow10[e - 1] /\ Pow10[e - 1] \in Nat /\ Pow10[i] \in Nat
      /\ Pow10[i] <= Pow10[e - 1]
  BY <1>1, PowersOfTen, PowersGrow
<1> DEFINE s == max * Pow10[i]
           t == max * Pow10[e - 1]
<1>3. s <= t /\ s \in Nat /\ t \in Nat
  BY <1>2, ProductsGrow
<1>4. max * Pow10[e] = 10 * t
  BY <1>2
<1> HIDE DEF s, t
<1>5. s <= UINT_MAX \div 10
  BY <1>3, <1>4, Widths
<1> QED BY <1>3, <1>5, Widths DEF s

\* The header as it is read, once its range and its minimum fit.
ReadAs(exp, mantissa, scale, min, max, parts) ==
    [ok |-> TRUE, exp |-> exp, mantissa |-> mantissa, scale |-> scale,
     min_value |-> min, max_value |-> max + min, parts |-> parts]

\* The minimum is read, if there is one.
LEMMA ReadsMinimum ==
    ASSUME NEW h, NEW exp, NEW mantissa, NEW max \in Nat, NEW parts \in 1 .. 2, NEW min \in Nat,
           min = IF has_min(h) THEN h[parts + 1] ELSE 0
    PROVE  WithMinimum(h, 73, exp, mantissa, max, parts) =
             IF max > UINT_MAX - min THEN Refusal
             ELSE ReadAs(exp, mantissa, IF exp < 0 THEN 1 ELSE Pow10[exp], min, max,
                         IF has_min(h) THEN parts + 1 ELSE parts)
<1>1. ~(has_min(h) /\ 73 - parts < 8)
  OBVIOUS
<1>2. WithMinimum(h, 73, exp, mantissa, max, parts) =
        With(min, LAMBDA m : IF max > UINT_MAX - m THEN Refusal
           ELSE [ok |-> TRUE, exp |-> exp, mantissa |-> mantissa,
                 scale |-> IF exp < 0 THEN 1 ELSE Pow10[exp],
                 min_value |-> m, max_value |-> max + m,
                 parts |-> IF has_min(h) THEN parts + 1 ELSE parts])
  BY <1>1, Zenon DEF WithMinimum
<1> QED BY <1>2 DEF With, ReadAs

\* A range and its minimum are read.
LEMMA ReadsRange ==
    ASSUME NEW h, NEW e \in 0 .. MaxExp, NEW M \in 1 .. W, NEW min \in Nat,
           h[1] = 64 + e + (IF min # 0 THEN 32 ELSE 0), h[2] = M - 1,
           min # 0 => h[3] = min,
           LowOnes(M) * Pow10[e] + min <= UINT_MAX
    PROVE  \E parts : rangeproof_getheader(h, 73) =
                        ReadAs(e, M, Pow10[e], min, LowOnes(M) * Pow10[e], parts)
<1> DEFINE max == LowOnes(M) * Pow10[e]
<1>1. e \in 0 .. 31 /\ e \in Nat /\ M \in Nat /\ M <= W
  BY Widths
<1>2. LowOnes(M) \in Nat /\ Pow10[e] \in Nat \ {0}
  BY <1>1, Ones, PowersOfTen
<1>3. max \in Nat /\ max <= UINT_MAX /\ ~(max > UINT_MAX - min)
  <2>1. max \in Nat
    BY <1>2
  <2> HIDE DEF max
  <2> QED BY <2>1, Widths DEF max
<1>4. LowOnes(M) <= UINT_MAX
  <2>1. Pow2[M] \in Nat /\ Pow2[W] \in Nat /\ Pow2[M] <= Pow2[W]
    BY <1>1, Widths, PowersOfTwo, PowersGrow
  <2> QED BY <2>1 DEF LowOnes, UINT_MAX
<1>5. ScaledMax(LowOnes(M), e) = max /\ max # -1
  BY <1>1, <1>2, <1>3, <1>4, ScaledFits
<1>6. /\ h[1] < 128 /\ ~(h[1] >= 128) /\ has_nz_range(h) /\ h[1] % 32 = e /\ h[2] + 1 = M
      /\ has_min(h) <=> min # 0
  BY <1>1 DEF has_nz_range, has_min, HasRange, HasMin
<1>7. rangeproof_getheader(h, 73) = WithRange(h, 73, e, M)
  BY <1>6 DEF rangeproof_getheader
<1>8. WithRange(h, 73, e, M) = WithMinimum(h, 73, e, M, max, 2)
  <2>1. ~(e > MaxExp \/ M > W)
    BY <1>1, Widths
  <2>2. WithRange(h, 73, e, M) =
          With(max, LAMBDA m : IF m = -1 THEN Refusal ELSE WithMinimum(h, 73, e, M, m, 2))
    BY <2>1, <1>5, Zenon DEF WithRange
  <2> HIDE DEF max
  <2> QED BY <2>2, <1>5 DEF With
<1>9. min = IF has_min(h) THEN h[2 + 1] ELSE 0
  BY <1>6
<1> HIDE DEF max
<1>10. WithMinimum(h, 73, e, M, max, 2) =
         ReadAs(e, M, IF e < 0 THEN 1 ELSE Pow10[e], min, max, IF has_min(h) THEN 2 + 1 ELSE 2)
  <2>1. PICK parts \in 1 .. 2 : parts = 2
    OBVIOUS
  <2> QED BY <2>1, <1>3, <1>9, ReadsMinimum
<1>11. ~(e < 0)
  BY <1>1
<1> QED BY <1>7, <1>8, <1>10, <1>11 DEF max

-----------------------------------------------------------------------------
\* Two bits of a number, above those that are counted already.
LEMMA TwoBits ==
    ASSUME NEW v \in Nat, NEW d \in Nat \ {0}
    PROVE  v % (4 * d) = (v % d) + ((v \div d) % 4) * d
<1> DEFINE q == v \div d
           r == v % d
           u == q \div 4
           t == q % 4
<1>1. q \in Int /\ r \in 0 .. d - 1 /\ v = d * q + r
  BY Division
<1> HIDE DEF q, r
<1>2. u \in Int /\ t \in 0 .. 3 /\ q = 4 * u + t
  BY <1>1
<1> HIDE DEF u, t
<1>3. v = (4 * d) * u + (t * d + r)
  <2>1. d * (4 * u + t) = (4 * d) * u + t * d
    BY <1>2
  <2>2. d * q \in Int /\ (4 * d) * u \in Int /\ t * d \in Int
    BY <1>1, <1>2
  <2> QED BY <1>1, <1>2, <2>1, <2>2
<1>4. t * d \in Nat /\ t * d <= 3 * d
  BY <1>2
<1> DEFINE D == 4 * d
           w == t * d
<1>5. D \in Nat \ {0} /\ w \in Nat /\ w + r < D /\ v = D * u + (w + r) /\ D * u \in Int
  BY <1>1, <1>2, <1>3, <1>4
<1> HIDE DEF D, w
<1>6. v % D = v - D * u
  <2>1. D * u <= v /\ v < D * u + D
    BY <1>1, <1>5
  <2>2. D \in Nat \ {0} /\ u \in Int /\ v \in Int
    BY <1>2, <1>5
  <2> QED BY <2>1, <2>2, Quotient, Zenon
<1>7. v % D = r + w
  BY <1>1, <1>5, <1>6
<1> QED BY <1>7 DEF D, w, q, r, t

\* The sum of digits, ring by ring.
DigitSum(f, rings, secidx) ==
    [i \in 0 .. rings |-> IF i = 0 THEN 0 ELSE f[i - 1] + secidx[i] * Pow2[2 * (i - 1)]]

\* The digits of a number of so many rings add up to it.
LEMMA DigitsAddUp ==
    ASSUME NEW v \in Nat, NEW rings \in Nat, v < Pow2[2 * rings], NEW secidx,
           \A i \in 1 .. rings : secidx[i] = (v \div Pow2[2 * (i - 1)]) % 4
    PROVE  /\ \E f : f = DigitSum(f, rings, secidx)
           /\ \A f : f = DigitSum(f, rings, secidx) => f[rings] = v
<1> DEFINE g == [i \in 0 .. rings |-> v % Pow2[2 * i]]
<1>1. g[0] = 0
  BY PowersOfTwo
<1>2. ASSUME NEW i \in 1 .. rings PROVE g[i] = g[i - 1] + secidx[i] * Pow2[2 * (i - 1)]
  <2> DEFINE d == Pow2[2 * (i - 1)]
  <2>1. 2 * (i - 1) \in Nat /\ 2 * i - 1 \in Nat \ {0} /\ 2 * i \in Nat \ {0}
        /\ (2 * i - 1) - 1 = 2 * (i - 1)
    OBVIOUS
  <2>2. d \in Nat \ {0} /\ Pow2[2 * i] = 2 * Pow2[2 * i - 1] /\ Pow2[2 * i - 1] = 2 * d
        /\ Pow2[2 * i - 1] \in Nat
    BY <2>1, PowersOfTwo
  <2> HIDE DEF d
  <2>3. Pow2[2 * i] = 4 * d
    BY <2>2
  <2>4. g[i] = v % (4 * d) /\ g[i - 1] = v % d
    BY <2>3 DEF d
  <2>5. secidx[i] = (v \div d) % 4
    BY DEF d
  <2>6. v % (4 * d) = (v % d) + ((v \div d) % 4) * d
    BY <2>2, TwoBits
  <2> HIDE DEF g
  <2> QED BY <2>4, <2>5, <2>6 DEF d
<1>3. g = DigitSum(g, rings, secidx)
  <2>1. \A i \in 0 .. rings : g[i] = DigitSum(g, rings, secidx)[i]
    <3> SUFFICES ASSUME NEW i \in 0 .. rings PROVE g[i] = DigitSum(g, rings, secidx)[i]
      OBVIOUS
    <3>1. CASE i = 0
      BY <3>1, <1>1 DEF DigitSum
    <3>2. CASE i # 0
      <4>1. i \in 1 .. rings
        BY <3>2
      <4>2. DigitSum(g, rings, secidx)[i] = g[i - 1] + secidx[i] * Pow2[2 * (i - 1)]
        <5> HIDE DEF g
        <5> QED BY <3>2 DEF DigitSum
      <4> QED BY <4>1, <4>2, <1>2
    <3> QED BY <3>1, <3>2
  <2> QED BY <2>1, Zenon DEF DigitSum
<1>4. v % Pow2[2 * rings] = v
  <2>1. PICK d \in Nat \ {0} : d = Pow2[2 * rings]
    BY PowersOfTwo
  <2>2. d * 0 = 0
    BY <2>1
  <2>3. v % d = v - d * 0
    BY <2>1, <2>2, Quotient
  <2> QED BY <2>1, <2>2, <2>3
<1>5. g[rings] = v
  BY <1>4
<1> HIDE DEF g
<1>6. ASSUME NEW f, f = DigitSum(f, rings, secidx) PROVE f[rings] = v
  <2>1. f[0] = 0
    BY <1>6 DEF DigitSum
  <2>2. \A i \in 1 .. rings : f[i] = f[i - 1] + secidx[i] * Pow2[2 * (i - 1)]
    BY <1>6 DEF DigitSum
  <2>3. Lockstep(f, g, rings)
    BY <1>1, <1>2, <2>1, <2>2 DEF Lockstep
  <2>4. \A i \in 0 .. rings : f[i] = g[i]
    BY <2>3, SameSteps
  <2> QED BY <2>4, <1>5
<1> QED BY <1>3, <1>6

\* The rings of a mantissa, as the prover and as the verifier count them.
LEMMA RingsCounted ==
    ASSUME NEW M \in Nat \ {0}
    PROVE  RingSizes(M) = [i \in 1 .. (M + 1) \div 2 |-> RingOf(M, i)]
<1> DEFINE r == M \div 2
           fours == [i \in 1 .. r |-> 4]
           R == (M + 1) \div 2
           sizes == [i \in 1 .. R |-> RingOf(M, i)]
<1>1. r \in Nat /\ R \in Nat
  OBVIOUS
<1>2. fours \in Seq({2, 4}) /\ Len(fours) = r /\ sizes \in Seq({2, 4}) /\ Len(sizes) = R
  BY <1>1 DEF RingOf
<1>3. RingSizes(M) = fours \o (IF M % 2 = 1 THEN <<2>> ELSE <<>>)
  BY DEF RingSizes
<1>4. CASE M % 2 = 1
  <2>1. R = r + 1 /\ M = 2 * r + 1
    BY <1>4
  <2>2. RingSizes(M) = Append(fours, 2)
    BY <1>2, <1>3, <1>4
  <2>3. \A i \in 1 .. R : sizes[i] = IF i <= r THEN 4 ELSE 2
    BY <1>1, <2>1 DEF RingOf
  <2>4. Append(fours, 2) \in Seq({2, 4}) /\ Len(Append(fours, 2)) = R
    BY <1>2, <2>1
  <2>5. \A i \in 1 .. R : Append(fours, 2)[i] = IF i <= r THEN 4 ELSE 2
    BY <1>1, <1>2, <2>1
  <2> HIDE DEF fours, sizes, R, r
  <2>6. Append(fours, 2) = sizes
    BY <1>2, <2>3, <2>4, <2>5
  <2> QED BY <2>2, <2>6 DEF sizes, R
<1>5. CASE M % 2 # 1
  <2>1. R = r /\ M = 2 * r
    BY <1>5
  <2>2. RingSizes(M) = fours
    BY <1>2, <1>3, <1>5
  <2>3. \A i \in 1 .. R : sizes[i] = 4
    BY <1>1, <2>1 DEF RingOf
  <2>4. sizes = fours
    BY <2>1, <2>3
  <2> QED BY <2>2, <2>4
<1> QED BY <1>4, <1>5

\* Each digit is in its ring.
LEMMA DigitsInRings ==
    ASSUME NEW M \in Nat \ {0}, NEW v \in Nat, v < Pow2[M],
           NEW i \in 1 .. (M + 1) \div 2
    PROVE  (v \div Pow2[2 * (i - 1)]) % 4 < RingOf(M, i)
<1> DEFINE d == Pow2[2 * (i - 1)]
           q == v \div d
<1>1. 2 * (i - 1) \in Nat /\ i \in Nat \ {0} /\ 2 * i - 1 \in Nat \ {0}
      /\ 2 * i - 1 <= M /\ (2 * i - 1) - 1 = 2 * (i - 1)
  OBVIOUS
<1>2. d \in Nat \ {0} /\ Pow2[2 * i - 1] = 2 * d
  BY <1>1, PowersOfTwo
<1> HIDE DEF d
<1>3. q \in Int /\ v % d \in 0 .. d - 1 /\ v = d * q + (v % d)
  <2>1. v \in Int /\ d \in Nat \ {0}
    BY <1>2
  <2> QED BY <2>1, Division, Zenon
<1> HIDE DEF q
<1>4. q % 4 \in 0 .. 3
  BY <1>3
<1>5. CASE 2 * i - 1 < M
  BY <1>4, <1>5 DEF RingOf, q, d
<1>6. CASE 2 * i - 1 = M
  <2>1. RingOf(M, i) = 2 /\ v < 2 * d
    BY <1>2, <1>6 DEF RingOf
  <2>2. q < 2
    <3>1. CASE q >= 2
      <4>1. d * 2 <= d * q
        BY <3>1, <1>2, <1>3
      <4>2. d * q \in Int
        BY <1>2, <1>3
      <4> QED BY <4>1, <4>2, <2>1, <1>2, <1>3
    <3> QED BY <3>1, <1>3
  <2>3. q >= 0
    <3>1. CASE q <= -1
      <4>1. d * q <= d * (-1)
        BY <3>1, <1>2, <1>3
      <4>2. d * q \in Int /\ d * (-1) = -d
        BY <1>2, <1>3
      <4> QED BY <4>1, <4>2, <1>2, <1>3
    <3> QED BY <3>1, <1>3
  <2>4. q % 4 < 2
    BY <2>2, <2>3, <1>3
  <2> QED BY <2>1, <2>4 DEF q, d
<1> QED BY <1>1, <1>5, <1>6

\* v has no more bits than its rings.
LEMMA RingsHold ==
    ASSUME NEW M \in Nat \ {0}, NEW v \in Nat, v < Pow2[M]
    PROVE  v < Pow2[2 * ((M + 1) \div 2)]
<1>1. 2 * ((M + 1) \div 2) \in Nat /\ M <= 2 * ((M + 1) \div 2)
  OBVIOUS
<1>2. PICK n \in Nat : n = 2 * ((M + 1) \div 2)
  BY <1>1
<1>3. Pow2[M] <= Pow2[n] /\ Pow2[M] \in Nat /\ Pow2[n] \in Nat
  BY <1>1, <1>2, PowersGrow, PowersOfTwo
<1> QED BY <1>2, <1>3

-----------------------------------------------------------------------------
\* The arguments that the prover accepts.
Accepted(a) ==
    /\ a.value \in 0 .. UINT_MAX /\ a.min_value \in 0 .. a.value
    /\ a.exp \in -1 .. MaxExp /\ a.min_bits \in 0 .. W

\* The parameters are those of an exact value, or a range that fits.
LEMMA ParamsFit ==
    ASSUME NEW a, Accepted(a),
           NEW p, p = range_proveparams(a.min_value, a.exp, a.min_bits, a.value), p.ok
    PROVE  \/ /\ p = [ok |-> TRUE, v |-> 0, rings |-> 1, rsizes |-> <<1>>, secidx |-> <<0>>,
                      npub |-> 2, min_value |-> a.value, mantissa |-> 0, scale |-> 1, exp |-> 0]
              /\ AsPrecise(a, 0)
           \/ \E e \in 0 .. MaxExp : \E v, M \in Nat :
                /\ Fitting(a.value, a.min_value, e, v, M) /\ p = Digits(a.value, v, e, M)
                /\ AsPrecise(a, M)
<1> DEFINE value == a.value
           min == a.min_value
           bits == Smaller(a.min_bits, IF min # 0 THEN clz_var(min) ELSE W)
           exp == IF bits > W - 3 \/ value > INT_MAX THEN 0 ELSE a.exp
           e == ExponentFor(exp, bits)
           v == (value - min) \div Pow10[e]
           M == Larger(bits, IF v = 0 THEN 1 ELSE BitLength(v))
<1>1. value \in 0 .. UINT_MAX /\ min \in 0 .. value /\ a.exp \in -1 .. MaxExp
      /\ a.min_bits \in 0 .. W /\ UINT_MAX \in Nat /\ INT_MAX \in Nat /\ W \in Nat /\ MaxExp \in Nat
  BY Widths DEF Accepted
<1>2. CASE a.exp < 0 \/ min = UINT_MAX
  <2>1. ~(a.exp >= 0 /\ a.min_value # UINT_MAX)
    BY <1>1, <1>2
  <2> QED BY <1>2, <2>1 DEF range_proveparams, AsPrecise
<1>3. CASE ~(a.exp < 0 \/ min = UINT_MAX)
  <2>1. ~(\/ min # 0 /\ value > INT_MAX
          \/ value # 0 /\ min >= INT_MAX)
    <3> SUFFICES ASSUME \/ min # 0 /\ value > INT_MAX
                        \/ value # 0 /\ min >= INT_MAX
                 PROVE  FALSE
      OBVIOUS
    <3>1. p = Refusal
      BY <1>3 DEF range_proveparams
    <3> QED BY <3>1 DEF Refusal
  <2>2. p = Digits(value, v, e, M)
    <3>1. p = With(bits, LAMBDA b :
         With(ExponentFor(IF b > W - 3 \/ value > INT_MAX THEN 0 ELSE a.exp, b), LAMBDA x :
         With((value - min) \div Pow10[x], LAMBDA y :
             Digits(value, y, x, Larger(b, IF y = 0 THEN 1 ELSE BitLength(y))))))
      BY <1>3, <2>1, Zenon DEF range_proveparams
    <3> HIDE DEF bits
    <3>2. p = With(e, LAMBDA x :
         With((value - min) \div Pow10[x], LAMBDA y :
             Digits(value, y, x, Larger(bits, IF y = 0 THEN 1 ELSE BitLength(y)))))
      BY <3>1, Zenon DEF With
    <3> HIDE DEF e
    <3>3. p = With(v, LAMBDA y :
             Digits(value, y, e, Larger(bits, IF y = 0 THEN 1 ELSE BitLength(y))))
      BY <3>2, Zenon DEF With
    <3> HIDE DEF v
    <3> QED BY <3>3, Zenon DEF With
  <2>3. bits \in 0 .. W /\ (min # 0 => bits <= W - BitLength(min))
    <3>1. min \in 0 .. UINT_MAX
      BY <1>1
    <3>2. BitLength(min) \in 0 .. W
      BY <3>1, BitLengths
    <3> HIDE DEF min
    <3> QED BY <1>1, <3>2 DEF Smaller, clz_var
  \* a minimum below 2^(W - b) has at least b leading zeros
  <2>10. ASSUME NEW b \in 0 .. a.min_bits, min < Pow2[W - b] PROVE b <= bits
    <3>1. min \in 0 .. UINT_MAX
      BY <1>1
    <3>2. BitLength(min) \in 0 .. W /\ (BitLength(min) # 0 => Pow2[BitLength(min) - 1] <= min)
      BY <3>1, BitLengths
    <3>3. PICK l \in 0 .. W : l = BitLength(min)
      BY <3>2
    <3>4. b \in Nat /\ b <= a.min_bits /\ W - b \in Nat /\ min \in Nat
      BY <1>1
    <3>5. ASSUME l > W - b PROVE FALSE
      <4>1. l - 1 \in Nat /\ W - b <= l - 1
        BY <1>1, <3>4, <3>5
      <4>2. Pow2[W - b] <= Pow2[l - 1] /\ Pow2[W - b] \in Nat /\ Pow2[l - 1] \in Nat
        BY <3>4, <4>1, PowersGrow, PowersOfTwo
      <4>3. Pow2[l - 1] <= min
        BY <3>2, <3>3, <4>1
      <4> HIDE DEF min
      <4> QED BY <2>10, <3>4, <4>2, <4>3
    <3>6. b <= W - l /\ b <= W
      BY <1>1, <3>4, <3>5
    <3>7. clz_var(min) = W - l
      BY <3>3 DEF clz_var
    <3> HIDE DEF min
    <3> QED BY <1>1, <3>4, <3>6, <3>7 DEF Smaller
  <2> HIDE DEF bits
  <2>4. exp \in 0 .. MaxExp /\ (exp # 0 => bits <= W - 3 /\ value <= INT_MAX)
    BY <1>1, <1>3, <2>3
  <2> HIDE DEF exp
  <2>5. e \in 0 .. MaxExp /\ (e # 0 => exp # 0)
    <3>1. exp \in Nat /\ bits \in Nat
      BY <2>3, <2>4
    <3>2. e \in 0 .. exp
      BY <3>1, Exponents
    <3> HIDE DEF e
    <3> QED BY <1>1, <2>4, <3>2
  <2>6. e # 0 => LowOnes(bits) * Pow10[e] <= UINT_MAX
    <3>1. exp \in Nat /\ bits \in Nat
      BY <2>3, <2>4
    <3> QED BY <3>1, ExponentFits
  <2> HIDE DEF e
  <2>7. min # 0 => value <= INT_MAX /\ min < INT_MAX
    BY <1>1, <2>1
  <2>8. Fitting(value, min, e, v, M)
    BY <1>1, <2>3, <2>4, <2>5, <2>6, <2>7, RangeFits
  <2>9. v \in Nat /\ M \in Nat
    BY <2>8 DEF Fitting
  <2>11. AsPrecise(a, M)
    <3>1. bits <= M
      <4>1. M \in 1 .. W
        BY <2>8 DEF Fitting
      <4>2. M = bits \/ bits <= M
        <5> DEFINE own == IF v = 0 THEN 1 ELSE BitLength(v)
        <5>1. M = Larger(bits, own)
          OBVIOUS
        <5> HIDE DEF own, M
        <5> QED BY <2>3, <4>1, <5>1 DEF Larger
      <4> HIDE DEF M
      <4> QED BY <2>3, <4>1, <4>2
    <3> HIDE DEF M
    <3>2. ASSUME NEW b \in 0 .. a.min_bits, a.min_value < Pow2[W - b] PROVE b <= M
      <4>1. b <= bits
        BY <2>10, <3>2
      <4> QED BY <1>1, <2>3, <2>9, <3>1, <4>1
    <3> QED BY <3>2 DEF AsPrecise
  <2> HIDE DEF v, M
  <2> QED BY <2>2, <2>5, <2>8, <2>9, <2>11
<1> QED BY <1>2, <1>3

-----------------------------------------------------------------------------
\* Two or three parts before the rest of a proof.
LEMMA PartsFirst ==
    ASSUME NEW a \in Nat, NEW b \in Nat, NEW c \in Nat, NEW body \in Seq(Nat)
    PROVE  /\ ((<<a>> \o <<b>> \o <<>>) \o body)[1] = a
           /\ ((<<a>> \o <<b>> \o <<>>) \o body)[2] = b
           /\ ((<<a>> \o <<b>> \o <<c>>) \o body)[1] = a
           /\ ((<<a>> \o <<b>> \o <<c>>) \o body)[2] = b
           /\ ((<<a>> \o <<b>> \o <<c>>) \o body)[3] = c
<1> DEFINE s == <<a>> \o <<b>>
           t == s \o <<>>
           u == s \o <<c>>
<1>1. s \in Seq(Nat) /\ Len(s) = 2 /\ s[1] = a /\ s[2] = b
  OBVIOUS
<1> HIDE DEF s
<1>2. t \in Seq(Nat) /\ Len(t) = 2 /\ t[1] = a /\ t[2] = b
  BY <1>1
<1>3. u \in Seq(Nat) /\ Len(u) = 3 /\ u[1] = a /\ u[2] = b /\ u[3] = c
  <2> DEFINE w == <<c>>
  <2>1. w \in Seq(Nat) /\ Len(w) = 1 /\ w[1] = c
    OBVIOUS
  <2> HIDE DEF w
  <2>2. /\ s \o w \in Seq(Nat) /\ Len(s \o w) = Len(s) + Len(w)
        /\ \A i \in 1 .. Len(s) : (s \o w)[i] = s[i]
        /\ \A i \in 1 .. Len(w) : (s \o w)[Len(s) + i] = w[i]
    BY <1>1, <2>1, Concatenation, Zenon
  <2>3. u = s \o w
    BY DEF w
  <2> HIDE DEF u
  <2> QED BY <1>1, <2>1, <2>2, <2>3
<1> HIDE DEF t, u
<1>4. (t \o body)[1] = a /\ (t \o body)[2] = b
  <2> DEFINE h == t \o body
  <2>1. \A i \in 1 .. Len(t) : h[i] = t[i]
    BY <1>2, Concatenation, Zenon
  <2> HIDE DEF h
  <2>2. h[1] = t[1] /\ h[2] = t[2]
    BY <1>2, <2>1
  <2> QED BY <1>2, <2>2, Zenon DEF h
<1>5. (u \o body)[1] = a /\ (u \o body)[2] = b /\ (u \o body)[3] = c
  <2> DEFINE h == u \o body
  <2>1. \A i \in 1 .. Len(u) : h[i] = u[i]
    BY <1>3, Concatenation, Zenon
  <2> HIDE DEF h
  <2>2. h[1] = u[1] /\ h[2] = u[2] /\ h[3] = u[3]
    BY <1>3, <2>1
  <2> QED BY <1>3, <2>2, Zenon DEF h
<1> QED BY <1>4, <1>5, Zenon DEF s, t, u

\* The header of a range, part by part.
LEMMA RangeHeader ==
    ASSUME NEW p, p.rsizes[1] > 1, p.exp \in 0 .. 31, p.mantissa \in Nat \ {0},
           p.min_value \in Nat
    PROVE  /\ (WriteHeader(p) \o Body)[1] = 64 + p.exp + (IF p.min_value # 0 THEN 32 ELSE 0)
           /\ (WriteHeader(p) \o Body)[2] = p.mantissa - 1
           /\ p.min_value # 0 => (WriteHeader(p) \o Body)[3] = p.min_value
<1>1. Body \in Seq(Nat)
  BY AskedAssumption
<1> DEFINE first == 64 + p.exp + (IF p.min_value # 0 THEN 32 ELSE 0)
           second == p.mantissa - 1
<1>2. first \in Nat /\ second \in Nat
  OBVIOUS
<1>3. WriteHeader(p) = <<first>> \o <<second>> \o (IF p.min_value # 0 THEN <<p.min_value>> ELSE <<>>)
  <2>1. first = BitOr(BitOr(HasRange, p.exp), IF p.min_value # 0 THEN HasMin ELSE 0)
    BY DEF BitOr, HasRange, HasMin
  <2> HIDE DEF first, second
  <2>2. WriteHeader(p) = <<BitOr(BitOr(HasRange, p.exp), IF p.min_value # 0 THEN HasMin ELSE 0)>>
             \o <<p.mantissa - 1>> \o (IF p.min_value # 0 THEN <<p.min_value>> ELSE <<>>)
    BY DEF WriteHeader
  <2> QED BY <2>1, <2>2 DEF second
<1> HIDE DEF first, second
<1>4. CASE p.min_value = 0
  <2>1. WriteHeader(p) = <<first>> \o <<second>> \o <<>>
    BY <1>3, <1>4
  <2>2. (WriteHeader(p) \o Body)[1] = first /\ (WriteHeader(p) \o Body)[2] = second
    BY <1>1, <1>2, <2>1, PartsFirst
  <2> QED BY <2>2, <1>4 DEF first, second
<1>5. CASE p.min_value # 0
  <2>1. WriteHeader(p) = <<first>> \o <<second>> \o <<p.min_value>>
    BY <1>3, <1>5
  <2>2. /\ (WriteHeader(p) \o Body)[1] = first /\ (WriteHeader(p) \o Body)[2] = second
        /\ (WriteHeader(p) \o Body)[3] = p.min_value
    BY <1>1, <1>2, <2>1, PartsFirst
  <2> QED BY <2>2, <1>5 DEF first, second
<1> QED BY <1>4, <1>5

\* The header of an exact value, part by part.
LEMMA ExactHeader ==
    ASSUME NEW p, p.rsizes[1] = 1, p.min_value \in Nat
    PROVE  /\ (WriteHeader(p) \o Body)[1] = IF p.min_value # 0 THEN 32 ELSE 0
           /\ p.min_value # 0 => (WriteHeader(p) \o Body)[2] = p.min_value
           /\ WriteHeader(p) \in Seq(Nat) /\ Len(WriteHeader(p)) >= 1
<1> DEFINE h == WriteHeader(p)
           k == h \o Body
<1>1. Body \in Seq(Nat)
  BY AskedAssumption
<1>2. ~(p.rsizes[1] > 1)
  OBVIOUS
<1>3. CASE p.min_value = 0
  <2>1. h = <<0>> \o <<>> \o <<>>
    BY <1>2, <1>3 DEF WriteHeader, BitOr
  <2>2. h \in Seq(Nat) /\ Len(h) = 1 /\ h[1] = 0
    BY <2>1
  <2> HIDE DEF h
  <2>3. \A i \in 1 .. Len(h) : k[i] = h[i]
    BY <1>1, <2>2, Concatenation, Zenon
  <2> HIDE DEF k
  <2>4. k[1] = 0
    BY <2>2, <2>3
  <2> QED BY <2>2, <2>4, <1>3 DEF k, h
<1>4. CASE p.min_value # 0
  <2>1. h = <<32>> \o <<>> \o <<p.min_value>>
    BY <1>2, <1>4 DEF WriteHeader, BitOr, HasMin
  <2>2. h \in Seq(Nat) /\ Len(h) = 2 /\ h[1] = 32 /\ h[2] = p.min_value
    <3>1. PICK m \in Nat : m = p.min_value
      OBVIOUS
    <3>2. h = <<32>> \o <<>> \o <<m>>
      BY <2>1, <3>1
    <3> HIDE DEF h
    <3> QED BY <3>1, <3>2
  <2> HIDE DEF h
  <2>3. \A i \in 1 .. Len(h) : k[i] = h[i]
    BY <1>1, <2>2, Concatenation, Zenon
  <2> HIDE DEF k
  <2>4. k[1] = 32 /\ k[2] = p.min_value
    BY <2>2, <2>3
  <2> QED BY <2>2, <2>4, <1>4 DEF k, h
<1> QED BY <1>3, <1>4

\* The header of a range is a sequence of numbers.
LEMMA RangeHeaderType ==
    ASSUME NEW p, p.rsizes[1] > 1, p.exp \in Nat, p.mantissa \in Nat \ {0},
           p.min_value \in Nat
    PROVE  WriteHeader(p) \in Seq(Nat) /\ Len(WriteHeader(p)) >= 1
<1> DEFINE a == BitOr(BitOr(HasRange, p.exp), IF p.min_value # 0 THEN HasMin ELSE 0)
           c == IF p.min_value # 0 THEN <<p.min_value>> ELSE <<>>
           b == p.mantissa - 1
<1>1. a \in Nat /\ b \in Nat
  BY DEF BitOr, HasRange, HasMin
<1>2. c \in Seq(Nat)
  OBVIOUS
<1>3. WriteHeader(p) = <<a>> \o <<b>> \o c
  BY DEF WriteHeader
<1> HIDE DEF a, b, c
<1> DEFINE s == <<a>> \o <<b>>
<1>4. s \in Seq(Nat) /\ Len(s) = 2
  BY <1>1
<1> HIDE DEF s
<1>5. s \o c \in Seq(Nat) /\ Len(s \o c) = Len(s) + Len(c)
  BY <1>2, <1>4, Concatenation, Zenon
<1>6. Len(c) \in Nat
  BY <1>2
<1> DEFINE h == s \o c
<1>7. h \in Seq(Nat) /\ Len(h) >= 1
  <2> HIDE DEF h
  <2> QED BY <1>4, <1>5, <1>6 DEF h
<1> QED BY <1>3, <1>7, Zenon DEF s, h

\* The arguments that a caller has.
AskedOk(a) ==
    /\ a.value \in -1 .. UINT_MAX /\ a.min_value \in 0 .. UINT_MAX
    /\ a.exp \in Int /\ a.min_bits \in Int

\* What the prover accepts, and the parameters of it.
LEMMA ParamsAre ==
    ASSUME NEW a, AskedOk(a), NEW p, p = Params(a), p.ok
    PROVE  /\ Accepted(a)
           /\ \/ /\ p = [ok |-> TRUE, v |-> 0, rings |-> 1, rsizes |-> <<1>>, secidx |-> <<0>>,
                         npub |-> 2, min_value |-> a.value, mantissa |-> 0, scale |-> 1, exp |-> 0]
                 /\ AsPrecise(a, 0)
              \/ \E e \in 0 .. MaxExp : \E v, M \in Nat :
                   /\ Fitting(a.value, a.min_value, e, v, M) /\ p = Digits(a.value, v, e, M)
                   /\ AsPrecise(a, M)
<1>1. ArgsOk(65, a.min_value, a.exp, a.min_bits, a.value)
  <2> SUFFICES ASSUME ~ArgsOk(65, a.min_value, a.exp, a.min_bits, a.value) PROVE FALSE
    OBVIOUS
  <2>1. p = Refusal
    BY DEF Params
  <2> QED BY <2>1 DEF Refusal
<1>2. Accepted(a)
  BY <1>1, Widths DEF ArgsOk, AskedOk, Accepted
<1>3. p = range_proveparams(a.min_value, a.exp, a.min_bits, a.value)
  BY <1>1 DEF Params
<1> QED BY <1>2, <1>3, ParamsFit

\* The fields of the parameters of a range.
HasDigits(p, value, min, e, v, M) ==
    /\ M \in 1 .. W
    /\ p.ok /\ p.v = v /\ p.rings = (M + 1) \div 2 /\ p.rings \in Nat \ {0}
    /\ p.rsizes = [i \in 1 .. p.rings |-> RingOf(M, i)] /\ p.rsizes[1] > 1
    /\ \A i \in 1 .. p.rings : p.secidx[i] = (v \div Pow2[2 * (i - 1)]) % 4
    /\ p.min_value = value - v * Pow10[e] /\ p.min_value \in min .. value
    /\ p.min_value \in Nat
    /\ p.mantissa = M /\ p.scale = Pow10[e] /\ p.exp = e

\* They are what the range has to be.
LEMMA DigitFields ==
    ASSUME NEW value \in 0 .. UINT_MAX, NEW min \in 0 .. value, NEW e \in 0 .. MaxExp,
           NEW v \in Nat, NEW M \in Nat, Fitting(value, min, e, v, M),
           NEW p, p = Digits(value, v, e, M)
    PROVE  HasDigits(p, value, min, e, v, M)
<1> DEFINE R == (M + 1) \div 2
<1>1. M \in 1 .. W /\ R \in Nat \ {0}
  BY Widths DEF Fitting
<1>2. /\ p.ok /\ p.v = v /\ p.rings = R
      /\ p.rsizes = [i \in 1 .. R |-> RingOf(M, i)]
      /\ p.secidx = [i \in 1 .. R |-> (v \div Pow2[2 * (i - 1)]) % 4]
      /\ p.min_value = (value - v * Pow10[e]) % Pow2[W]
      /\ p.mantissa = M /\ p.scale = Pow10[e] /\ p.exp = e
  BY DEF Digits, InRings
<1>3. (value - v * Pow10[e]) % Pow2[W] = value - v * Pow10[e]
  <2>1. PICK m \in Int : m = value - v * Pow10[e]
    BY Widths DEF Fitting
  <2>2. PICK d \in Nat \ {0} : d = Pow2[W]
    BY PowersOfTwo, Widths
  <2>3. m \in 0 .. d - 1
    BY <2>1, <2>2, Widths DEF Fitting, UINT_MAX
  <2>4. d * 0 = 0
    BY <2>2
  <2>5. m % d = m - d * 0
    <3>1. d * 0 <= m /\ m < d * 0 + d /\ 0 \in Int
      BY <2>3, <2>4
    <3> QED BY <3>1, Quotient, Zenon
  <2> QED BY <2>1, <2>2, <2>3, <2>4, <2>5
<1>4. p.min_value \in min .. value /\ p.min_value \in Nat
  BY <1>2, <1>3, Widths DEF Fitting
<1>5. p.rsizes[1] > 1
  BY <1>1, <1>2 DEF RingOf
<1>6. \A i \in 1 .. p.rings : p.secidx[i] = (v \div Pow2[2 * (i - 1)]) % 4
  BY <1>2
<1> QED BY <1>1, <1>2, <1>3, <1>4, <1>5, <1>6 DEF HasDigits

-----------------------------------------------------------------------------
\* The header of an exact value is read as that value.
LEMMA ReadsExact ==
    ASSUME NEW h, NEW min \in 0 .. UINT_MAX, h[1] = (IF min # 0 THEN 32 ELSE 0),
           min # 0 => h[2] = min
    PROVE  \E parts : rangeproof_getheader(h, 73) = ReadAs(-1, 0, 1, min, 0, parts)
<1>1. ~(h[1] >= 128) /\ ~has_nz_range(h) /\ (has_min(h) <=> min # 0)
  BY DEF has_nz_range, has_min, HasRange, HasMin
<1>2. rangeproof_getheader(h, 73) = WithMinimum(h, 73, -1, 0, 0, 1)
  BY <1>1 DEF rangeproof_getheader
<1>3. PICK minus \in Int, none \in Nat, one \in 1 .. 2 :
        minus = -1 /\ none = 0 /\ one = 1
  OBVIOUS
<1>4. min = (IF has_min(h) THEN h[one + 1] ELSE 0) /\ min \in Nat
  BY <1>1, <1>3, Widths
<1>5. WithMinimum(h, 73, minus, none, none, one) =
        IF none > UINT_MAX - min THEN Refusal
        ELSE ReadAs(minus, none, IF minus < 0 THEN 1 ELSE Pow10[minus], min, none,
                    IF has_min(h) THEN one + 1 ELSE one)
  BY <1>3, <1>4, ReadsMinimum
<1>6. ~(none > UINT_MAX - min) /\ minus < 0
  BY <1>3, Widths
<1>7. WithMinimum(h, 73, minus, none, none, one) =
        ReadAs(minus, none, 1, min, none, IF has_min(h) THEN one + 1 ELSE one)
  BY <1>5, <1>6
<1> QED BY <1>2, <1>3, <1>7

\* What is read as g holds what was asked for as a and computed as p.
Holds(a, p, g) ==
    /\ g.ok
    /\ p.v * p.scale + p.min_value = a.value
    /\ \E f : f = DigitSum(f, p.rings, p.secidx)
    /\ \A f : f = DigitSum(f, p.rings, p.secidx) => f[p.rings] = p.v
    /\ \A i \in 1 .. p.rings : p.secidx[i] < p.rsizes[i]
    /\ RingSizes(g.mantissa) = p.rsizes
    /\ g.scale = p.scale /\ g.min_value = p.min_value
    /\ a.min_value <= g.min_value
    /\ g.min_value <= a.value /\ a.value <= g.max_value
    /\ AsPrecise(a, g.mantissa)

\* A header that is the prover's own: the verifier reads the range that holds the value.
LEMMA OwnHeaderHolds ==
    ASSUME NEW a, AskedOk(a), NEW p, p = Params(a), p.ok,
           NEW g, g = rangeproof_info(WriteHeader(p))
    PROVE  Holds(a, p, g)
<1> SUFFICES /\ g.ok
             /\ p.v * p.scale + p.min_value = a.value
             /\ \E f : f = DigitSum(f, p.rings, p.secidx)
             /\ \A f : f = DigitSum(f, p.rings, p.secidx) => f[p.rings] = p.v
             /\ \A i \in 1 .. p.rings : p.secidx[i] < p.rsizes[i]
             /\ RingSizes(g.mantissa) = p.rsizes
             /\ g.scale = p.scale /\ g.min_value = p.min_value
             /\ a.min_value <= g.min_value
             /\ g.min_value <= a.value /\ a.value <= g.max_value
             /\ AsPrecise(a, g.mantissa)
  BY DEF Holds
<1> DEFINE h == WriteHeader(p) \o Body
<1>1. Accepted(a)
  BY ParamsAre
<1>2. a.value \in 0 .. UINT_MAX /\ a.min_value \in 0 .. a.value /\ UINT_MAX \in Nat
  BY <1>1, Widths DEF Accepted
<1>3. g = rangeproof_getheader(h, 73)
  BY DEF rangeproof_info
<1> HIDE DEF h
<1>4. ASSUME p = [ok |-> TRUE, v |-> 0, rings |-> 1, rsizes |-> << 1 >>, secidx |-> << 0 >>,
                  npub |-> 2, min_value |-> a.value, mantissa |-> 0, scale |-> 1, exp |-> 0],
             AsPrecise(a, 0)
      PROVE  /\ g.ok
             /\ p.v * p.scale + p.min_value = a.value
             /\ \E f : f = DigitSum(f, p.rings, p.secidx)
             /\ \A f : f = DigitSum(f, p.rings, p.secidx) => f[p.rings] = p.v
             /\ \A i \in 1 .. p.rings : p.secidx[i] < p.rsizes[i]
             /\ RingSizes(g.mantissa) = p.rsizes
             /\ g.scale = p.scale /\ g.min_value = p.min_value
             /\ a.min_value <= g.min_value
             /\ g.min_value <= a.value /\ a.value <= g.max_value
             /\ AsPrecise(a, g.mantissa)
  <2>1. /\ p.v = 0 /\ p.rings = 1 /\ p.rsizes = <<1>> /\ p.secidx = <<0>>
        /\ p.min_value = a.value /\ p.scale = 1 /\ p.rsizes[1] = 1 /\ p.secidx[1] = 0
    BY <1>4
  <2>2. p.min_value \in Nat
    BY <2>1, <1>2
  <2>3. h[1] = (IF p.min_value # 0 THEN 32 ELSE 0) /\ (p.min_value # 0 => h[2] = p.min_value)
    BY <2>1, <2>2, ExactHeader DEF h
  <2>4. PICK parts : g = ReadAs(-1, 0, 1, a.value, 0, parts)
    BY <2>1, <2>3, <1>2, <1>3, ReadsExact
  <2>5. g.ok /\ g.mantissa = 0 /\ g.scale = 1 /\ g.min_value = a.value /\ g.max_value = 0 + a.value
    BY <2>4 DEF ReadAs
  <2>6. RingSizes(0) = <<1>>
    BY DEF RingSizes
  <2>7. PICK v \in Nat, r \in Nat : v = 0 /\ r = 1
    OBVIOUS
  <2>8. v < Pow2[2 * r] /\ \A i \in 1 .. r : p.secidx[i] = (v \div Pow2[2 * (i - 1)]) % 4
    <3>1. Pow2[2 * r] \in Nat \ {0}
      BY <2>7, PowersOfTwo
    <3>2. ASSUME NEW i \in 1 .. r PROVE p.secidx[i] = (v \div Pow2[2 * (i - 1)]) % 4
      <4>1. i = 1 /\ 2 * (i - 1) = 0
        BY <2>7
      <4> QED BY <4>1, <2>1, <2>7, PowersOfTwo
    <3> QED BY <3>1, <3>2, <2>7
  <2>9. /\ \E f : f = DigitSum(f, r, p.secidx)
        /\ \A f : f = DigitSum(f, r, p.secidx) => f[r] = v
    BY <2>8, DigitsAddUp
  <2>10. \A i \in 1 .. p.rings : p.secidx[i] < p.rsizes[i]
    BY <2>1
  <2>11. p.v * p.scale + p.min_value = a.value
    BY <2>1, <1>2
  <2>12. p.rings = r /\ p.v = v
    BY <2>1, <2>7
  <2>13. a.min_value <= g.min_value /\ g.min_value <= a.value /\ a.value <= g.max_value
    BY <2>5, <1>2
  <2>14. AsPrecise(a, g.mantissa)
    BY <1>4, <2>5
  <2> QED BY <2>1, <2>5, <2>6, <2>9, <2>10, <2>11, <2>12, <2>13, <2>14
<1>5. ASSUME NEW e \in 0 .. MaxExp, NEW v \in Nat, NEW M \in Nat,
             Fitting(a.value, a.min_value, e, v, M), p = Digits(a.value, v, e, M),
             AsPrecise(a, M)
      PROVE  /\ g.ok
             /\ p.v * p.scale + p.min_value = a.value
             /\ \E f : f = DigitSum(f, p.rings, p.secidx)
             /\ \A f : f = DigitSum(f, p.rings, p.secidx) => f[p.rings] = p.v
             /\ \A i \in 1 .. p.rings : p.secidx[i] < p.rsizes[i]
             /\ RingSizes(g.mantissa) = p.rsizes
             /\ g.scale = p.scale /\ g.min_value = p.min_value
             /\ a.min_value <= g.min_value
             /\ g.min_value <= a.value /\ a.value <= g.max_value
             /\ AsPrecise(a, g.mantissa)
  <2> DEFINE min == a.value - v * Pow10[e]
             max == LowOnes(M) * Pow10[e]
             R == (M + 1) \div 2
  <2>1. /\ M \in 1 .. W
        /\ p.v = v /\ p.rings = R
        /\ p.rsizes = [i \in 1 .. p.rings |-> RingOf(M, i)] /\ p.rsizes[1] > 1
        /\ \A i \in 1 .. p.rings : p.secidx[i] = (v \div Pow2[2 * (i - 1)]) % 4
        /\ p.min_value = min /\ p.min_value \in a.min_value .. a.value
        /\ p.min_value \in Nat
        /\ p.mantissa = M /\ p.scale = Pow10[e] /\ p.exp = e
    <3>1. HasDigits(p, a.value, a.min_value, e, v, M)
      BY <1>2, <1>5, DigitFields
    <3> QED BY <3>1, Zenon DEF HasDigits
  <2>2. e \in 0 .. 31 /\ M \in Nat \ {0}
    <3>1. M \in 1 .. W
      BY <2>1, Zenon
    <3> QED BY <3>1, Widths
  <2>3. /\ h[1] = 64 + e + (IF min # 0 THEN 32 ELSE 0) /\ h[2] = M - 1
        /\ min # 0 => h[3] = min
    <3> HIDE DEF min
    <3> QED BY <2>1, <2>2, RangeHeader DEF h
  <2>4. max + min <= UINT_MAX /\ min \in Nat /\ v < Pow2[M]
    BY <1>5, <2>1 DEF Fitting
  <2> HIDE DEF min
  <2>5. PICK parts : g = ReadAs(e, M, Pow10[e], min, max, parts)
    <3>1. M \in 1 .. W
      BY <2>1, Zenon
    <3>2. LowOnes(M) * Pow10[e] + min <= UINT_MAX /\ min \in Nat
      BY <2>4
    <3>3. h[1] = 64 + e + (IF min # 0 THEN 32 ELSE 0) /\ h[2] = M - 1 /\ (min # 0 => h[3] = min)
      BY <2>3
    <3>4. \E parts : rangeproof_getheader(h, 73) = ReadAs(e, M, Pow10[e], min, max, parts)
      BY <3>1, <3>2, <3>3, ReadsRange
    <3> QED BY <1>3, <3>4, Zenon
  <2>6. g.ok /\ g.mantissa = M /\ g.scale = Pow10[e] /\ g.min_value = min /\ g.max_value = max + min
    BY <2>5 DEF ReadAs
  <2>7. RingSizes(g.mantissa) = p.rsizes
    BY <2>1, <2>2, <2>6, RingsCounted
  <2>8. \A i \in 1 .. p.rings : p.secidx[i] < p.rsizes[i]
    <3> SUFFICES ASSUME NEW i \in 1 .. R PROVE p.secidx[i] < p.rsizes[i]
      BY <2>1
    <3>1. (v \div Pow2[2 * (i - 1)]) % 4 < RingOf(M, i)
      BY <2>2, <2>4, DigitsInRings
    <3>2. p.rsizes[i] = RingOf(M, i)
      BY <2>1
    <3> QED BY <2>1, <3>1, <3>2
  <2>9. /\ \E f : f = DigitSum(f, p.rings, p.secidx)
        /\ \A f : f = DigitSum(f, p.rings, p.secidx) => f[p.rings] = p.v
    <3>1. v < Pow2[2 * R] /\ R \in Nat
      BY <2>2, <2>4, RingsHold
    <3> HIDE DEF R
    <3>2. \A i \in 1 .. R : p.secidx[i] = (v \div Pow2[2 * (i - 1)]) % 4
      BY <2>1
    <3>3. /\ \E f : f = DigitSum(f, R, p.secidx)
          /\ \A f : f = DigitSum(f, R, p.secidx) => f[R] = v
      BY <3>1, <3>2, DigitsAddUp
    <3> QED BY <2>1, <3>3
  <2>10. p.v * p.scale + p.min_value = a.value
    <3>1. Pow10[e] \in Nat
      BY <2>2, PowersOfTen
    <3>2. v * Pow10[e] \in Nat
      BY <3>1
    <3> QED BY <2>1, <3>2, <1>2 DEF min
  \* v needs no more than the ones of its mantissa
  <2>11. a.value <= max + min
    <3>1. Pow10[e] \in Nat /\ v <= LowOnes(M) /\ LowOnes(M) \in Nat
      BY <2>2, <2>4, PowersOfTen, Ones
    <3>2. v * Pow10[e] <= max /\ v * Pow10[e] \in Nat /\ max \in Nat
      BY <3>1, ProductsGrow
    <3> HIDE DEF max
    <3> QED BY <3>2, <1>2 DEF min
  <2>12. a.min_value <= g.min_value /\ g.min_value <= a.value /\ a.value <= g.max_value
    BY <2>1, <2>6, <2>11, <1>2
  <2>13. AsPrecise(a, g.mantissa)
    BY <1>5, <2>6
  <2> QED BY <2>1, <2>6, <2>7, <2>8, <2>9, <2>10, <2>12, <2>13
<1> QED BY <1>4, <1>5, ParamsAre

\* Whatever is read is a range of amounts.
LEMMA ReadInRange ==
    ASSUME NEW h, h[1] \in Nat, h[2] \in Nat, h[3] \in Nat,
           NEW g, g = rangeproof_getheader(h, 73), g.ok
    PROVE  /\ g.min_value <= g.max_value /\ g.max_value <= UINT_MAX
           /\ g.mantissa <= W
           /\ g.max_value - g.min_value = LowOnes(g.mantissa) * g.scale
<1>1. h[1] < 128
  <2> SUFFICES ASSUME h[1] >= 128 PROVE FALSE
    OBVIOUS
  <2>1. g = Refusal
    BY DEF rangeproof_getheader
  <2> QED BY <2>1 DEF Refusal
<1>2. ASSUME NEW exp \in Int, NEW mantissa \in 0 .. W, NEW max \in Nat, NEW parts \in 1 .. 2,
             max = LowOnes(mantissa) * (IF exp < 0 THEN 1 ELSE Pow10[exp]),
             g = WithMinimum(h, 73, exp, mantissa, max, parts)
      PROVE  /\ g.min_value <= g.max_value /\ g.max_value <= UINT_MAX
             /\ g.mantissa <= W
             /\ g.max_value - g.min_value = LowOnes(g.mantissa) * g.scale
  <2>1. PICK min \in Nat : min = IF has_min(h) THEN h[parts + 1] ELSE 0
    <3>1. parts + 1 = 2 \/ parts + 1 = 3
      OBVIOUS
    <3> QED BY <3>1
  <2>2. g = IF max > UINT_MAX - min THEN Refusal
            ELSE ReadAs(exp, mantissa, IF exp < 0 THEN 1 ELSE Pow10[exp], min, max,
                        IF has_min(h) THEN parts + 1 ELSE parts)
    BY <1>2, <2>1, ReadsMinimum
  <2>3. ~(max > UINT_MAX - min)
    BY <2>2 DEF Refusal
  <2>4. /\ g.min_value = min /\ g.max_value = max + min /\ g.mantissa = mantissa
        /\ g.scale = IF exp < 0 THEN 1 ELSE Pow10[exp]
    BY <2>2, <2>3 DEF ReadAs
  <2>5. g.max_value - g.min_value = max
    BY <2>4
  <2>6. max = LowOnes(g.mantissa) * g.scale
    BY <2>4, <1>2
  <2>7. max + min <= UINT_MAX
    BY <2>3, Widths
  <2> QED BY <2>4, <2>5, <2>6, <2>7, Widths
<1>3. CASE has_nz_range(h)
  <2> DEFINE exp == h[1] % 32
             M == h[2] + 1
             max == ScaledMax(LowOnes(M), exp)
  <2>1. exp \in Nat /\ M \in Nat
    OBVIOUS
  <2>2. g = WithRange(h, 73, exp, M)
    BY <1>1, <1>3 DEF rangeproof_getheader
  <2> HIDE DEF exp, M
  <2>3. ~(exp > MaxExp \/ M > W)
    <3> SUFFICES ASSUME exp > MaxExp \/ M > W PROVE FALSE
      OBVIOUS
    <3>1. g = Refusal
      BY <2>2 DEF WithRange
    <3> QED BY <3>1 DEF Refusal
  <2>4. g = IF max = -1 THEN Refusal ELSE WithMinimum(h, 73, exp, M, max, 2)
    <3>1. g = With(max, LAMBDA m : IF m = -1 THEN Refusal ELSE WithMinimum(h, 73, exp, M, m, 2))
      BY <2>2, <2>3, Zenon DEF WithRange
    <3> HIDE DEF max
    <3> QED BY <3>1, Zenon DEF With
  <2>5. max # -1
    BY <2>4 DEF Refusal
  <2>6. max = LowOnes(M) * Pow10[exp]
    BY <2>5 DEF ScaledMax
  <2>7. max \in Nat /\ M \in 0 .. W /\ exp \in Int /\ ~(exp < 0)
    BY <2>1, <2>3, <2>6, Ones, PowersOfTen, Widths
  <2>8. PICK two \in 1 .. 2 : two = 2
    OBVIOUS
  <2>9. g = WithMinimum(h, 73, exp, M, max, two)
    BY <2>4, <2>5, <2>8
  <2> HIDE DEF max
  <2> QED BY <2>6, <2>7, <2>9, <1>2
<1>4. CASE ~has_nz_range(h)
  <2>1. g = WithMinimum(h, 73, -1, 0, 0, 1)
    BY <1>1, <1>4 DEF rangeproof_getheader
  <2>2. LowOnes(0) = 0
    BY PowersOfTwo DEF LowOnes
  <2>3. PICK minus \in Int, zero \in 0 .. W, none \in Nat, one \in 1 .. 2 :
          minus = -1 /\ zero = 0 /\ none = 0 /\ one = 1
    BY Widths
  <2>4. g = WithMinimum(h, 73, minus, zero, none, one)
    BY <2>1, <2>3
  <2>5. none = LowOnes(zero) * (IF minus < 0 THEN 1 ELSE Pow10[minus])
    BY <2>2, <2>3
  <2> QED BY <2>4, <2>5, <1>2
<1> QED BY <1>3, <1>4

-----------------------------------------------------------------------------
\* The inductive invariant: the arguments are numbers of their widths, and a header is
\* one that was written for arguments that the prover accepts, or what became of it.
RangeInv ==
    /\ AskedOk(asked)
    /\ header \in Seq(Nat)
    /\ header # <<>> => Params(asked).ok

\* The header that is written is a sequence of numbers.
LEMMA HeaderType ==
    ASSUME NEW a, AskedOk(a), NEW p, p = Params(a), p.ok
    PROVE  WriteHeader(p) \in Seq(Nat)
<1>1. Accepted(a)
  BY ParamsAre
<1>2. a.value \in 0 .. UINT_MAX /\ a.min_value \in 0 .. a.value /\ UINT_MAX \in Nat
  BY <1>1, Widths DEF Accepted
<1>3. ASSUME p = [ok |-> TRUE, v |-> 0, rings |-> 1, rsizes |-> << 1 >>, secidx |-> << 0 >>,
                  npub |-> 2, min_value |-> a.value, mantissa |-> 0, scale |-> 1, exp |-> 0]
      PROVE  WriteHeader(p) \in Seq(Nat)
  <2>1. p.rsizes[1] = 1 /\ p.min_value \in Nat
    BY <1>2, <1>3
  <2> QED BY <2>1, ExactHeader
<1>4. ASSUME NEW e \in 0 .. MaxExp, NEW v \in Nat, NEW M \in Nat,
             Fitting(a.value, a.min_value, e, v, M), p = Digits(a.value, v, e, M)
      PROVE  WriteHeader(p) \in Seq(Nat)
  <2>1. M \in 1 .. W /\ p.rsizes[1] > 1 /\ p.min_value \in Nat /\ p.mantissa = M /\ p.exp = e
    <3>1. HasDigits(p, a.value, a.min_value, e, v, M)
      BY <1>2, <1>4, DigitFields
    <3> QED BY <3>1, Zenon DEF HasDigits
  <2>2. p.exp \in Nat /\ p.mantissa \in Nat \ {0}
    BY <2>1, Widths
  <2> QED BY <2>1, <2>2, RangeHeaderType, Zenon
<1> QED BY <1>3, <1>4, ParamsAre

\* Every step keeps it.
LEMMA RangeStep == RangeInv /\ [RangeNext]_rangeVars => RangeInv'
<1> SUFFICES ASSUME RangeInv, [RangeNext]_rangeVars PROVE RangeInv'
  OBVIOUS
<1>1. ASSUME NEW v \in Amounts, NEW m \in Minimums, NEW e \in -1 .. MaxExp, NEW b \in Precisions,
             Ask([value |-> v, min_value |-> m, exp |-> e, min_bits |-> b])
      PROVE  RangeInv'
  <2> DEFINE a == [value |-> v, min_value |-> m, exp |-> e, min_bits |-> b]
  <2>1. AskedOk(a)
    BY AskedAssumption, Widths DEF AskedOk
  <2>2. asked' = a /\ header' = (IF Params(a).ok THEN WriteHeader(Params(a)) ELSE <<>>)
    BY <1>1 DEF Ask
  <2> HIDE DEF a
  <2>3. Params(a).ok => WriteHeader(Params(a)) \in Seq(Nat)
    BY <2>1, HeaderType
  <2> QED BY <2>1, <2>2, <2>3 DEF RangeInv
<1>2. ASSUME NEW i \in 1 .. 2, NEW d \in HeaderEdits, Edit(i, d) PROVE RangeInv'
  <2>1. i \in 1 .. Len(header) /\ header \in Seq(Nat) /\ d \in Nat
    BY <1>2, AskedAssumption DEF RangeInv, Edit
  <2>2. header' = [header EXCEPT ![i] = (header[i] + d) % 256] /\ asked' = asked
    BY <1>2 DEF Edit
  <2>3. (header[i] + d) % 256 \in Nat
    BY <2>1
  <2>4. header' \in Seq(Nat)
    BY <2>1, <2>2, <2>3
  <2>5. header # <<>>
    BY <1>2 DEF Edit
  <2> QED BY <2>2, <2>4, <2>5 DEF RangeInv
<1>3. CASE UNCHANGED rangeVars
  BY <1>3 DEF RangeInv, rangeVars
<1> QED BY <1>1, <1>2, <1>3 DEF RangeNext

\* secp256k1_range_proveparams and secp256k1_rangeproof_getheader, for any amounts of
\* such a width: a value that the prover accepts is held by the range that the verifier
\* reads, which is as precise as asked for where the minimum leaves room, and no header,
\* however it was changed, is read as a range beyond the amounts.
THEOREM RangesAreHeld == RangeSpec => []RangesHold
<1>1. RangeInit => RangeInv
  <2> SUFFICES ASSUME RangeInit PROVE RangeInv
    OBVIOUS
  <2>1. AskedOk(Nothing)
    BY Widths DEF AskedOk, Nothing
  <2>2. <<>> \in Seq(Nat)
    OBVIOUS
  <2> QED BY <2>1, <2>2 DEF RangeInit, RangeInv
<1>2. RangeInv => RangeHoldsValue
  <2> SUFFICES ASSUME RangeInv, header # <<>>,
                      NEW p, p = Params(asked), NEW g, g = rangeproof_info(header),
                      header = WriteHeader(p)
               PROVE  LET digits[i \in 0 .. p.rings] ==
                            IF i = 0 THEN 0 ELSE digits[i - 1] + p.secidx[i] * Pow2[2 * (i - 1)]
                      IN  /\ g.ok
                          /\ p.v * p.scale + p.min_value = asked.value
                          /\ digits[p.rings] = p.v
                          /\ \A i \in 1 .. p.rings : p.secidx[i] < p.rsizes[i]
                          /\ RingSizes(g.mantissa) = p.rsizes
                          /\ g.scale = p.scale /\ g.min_value = p.min_value
                          /\ asked.min_value <= g.min_value
                          /\ g.min_value <= asked.value /\ asked.value <= g.max_value
                          /\ AsPrecise(asked, g.mantissa)
    BY Zenon DEF RangeHoldsValue
  <2> DEFINE digits == CHOOSE f : f = DigitSum(f, p.rings, p.secidx)
  <2>1. AskedOk(asked) /\ p.ok
    BY DEF RangeInv
  <2>2. g = rangeproof_info(WriteHeader(p))
    OBVIOUS
  <2>3. Holds(asked, p, g)
    BY <2>1, <2>2, OwnHeaderHolds, Zenon
  <2>4. digits[p.rings] = p.v
    BY <2>3, Zenon DEF Holds
  <2> QED BY <2>3, <2>4, Zenon DEF DigitSum, Holds
<1>3. RangeInv => HeaderInRange
  <2> SUFFICES ASSUME RangeInv, header # <<>>, NEW g, g = rangeproof_info(header), g.ok
               PROVE  /\ g.min_value <= g.max_value /\ g.max_value <= UINT_MAX
                      /\ g.mantissa <= W
                      /\ g.max_value - g.min_value = LowOnes(g.mantissa) * g.scale
    BY DEF HeaderInRange
  <2> DEFINE h == header \o Body
  <2>1. header \in Seq(Nat) /\ Len(header) >= 1
    BY DEF RangeInv
  <2>2. Body \in Seq(Nat) /\ Len(Body) >= 2
    BY AskedAssumption
  <2>3. h \in Seq(Nat) /\ Len(h) = Len(header) + Len(Body)
    BY <2>1, <2>2, Concatenation, Zenon
  <2>4. g = rangeproof_getheader(h, 73)
    BY DEF rangeproof_info
  <2> HIDE DEF h
  <2>5. Len(h) >= 3
    BY <2>1, <2>2, <2>3
  <2>6. h[1] \in Nat /\ h[2] \in Nat /\ h[3] \in Nat
    BY <2>3, <2>5
  <2> QED BY <2>4, <2>6, ReadInRange
<1> QED BY <1>1, <1>2, <1>3, RangeStep, PTL DEF RangeSpec, RangesHold

-----------------------------------------------------------------------------
(* The amounts of the code: 64 bits, and powers of ten up to the 18th.     *)

\* The powers of two up to 2^65.
LEMMA TwoTable ==
    /\ Pow2[0] = 1 /\ Pow2[1] = 2 /\ Pow2[2] = 4
    /\ Pow2[3] = 8 /\ Pow2[4] = 16 /\ Pow2[5] = 32
    /\ Pow2[6] = 64 /\ Pow2[7] = 128 /\ Pow2[8] = 256
    /\ Pow2[9] = 512 /\ Pow2[10] = 1024 /\ Pow2[11] = 2048
    /\ Pow2[12] = 4096 /\ Pow2[13] = 8192 /\ Pow2[14] = 16384
    /\ Pow2[15] = 32768 /\ Pow2[16] = 65536 /\ Pow2[17] = 131072
    /\ Pow2[18] = 262144 /\ Pow2[19] = 524288 /\ Pow2[20] = 1048576
    /\ Pow2[21] = 2097152 /\ Pow2[22] = 4194304 /\ Pow2[23] = 8388608
    /\ Pow2[24] = 16777216 /\ Pow2[25] = 33554432 /\ Pow2[26] = 67108864
    /\ Pow2[27] = 134217728 /\ Pow2[28] = 268435456 /\ Pow2[29] = 536870912
    /\ Pow2[30] = 1073741824 /\ Pow2[31] = 2147483648 /\ Pow2[32] = 4294967296
    /\ Pow2[33] = 8589934592 /\ Pow2[34] = 17179869184 /\ Pow2[35] = 34359738368
    /\ Pow2[36] = 68719476736 /\ Pow2[37] = 137438953472 /\ Pow2[38] = 274877906944
    /\ Pow2[39] = 549755813888 /\ Pow2[40] = 1099511627776 /\ Pow2[41] = 2199023255552
    /\ Pow2[42] = 4398046511104 /\ Pow2[43] = 8796093022208 /\ Pow2[44] = 17592186044416
    /\ Pow2[45] = 35184372088832 /\ Pow2[46] = 70368744177664 /\ Pow2[47] = 140737488355328
    /\ Pow2[48] = 281474976710656 /\ Pow2[49] = 562949953421312 /\ Pow2[50] = 1125899906842624
    /\ Pow2[51] = 2251799813685248 /\ Pow2[52] = 4503599627370496 /\ Pow2[53] = 9007199254740992
    /\ Pow2[54] = 18014398509481984 /\ Pow2[55] = 36028797018963968 /\ Pow2[56] = 72057594037927936
    /\ Pow2[57] = 144115188075855872 /\ Pow2[58] = 288230376151711744 /\ Pow2[59] = 576460752303423488
    /\ Pow2[60] = 1152921504606846976 /\ Pow2[61] = 2305843009213693952 /\ Pow2[62] = 4611686018427387904
    /\ Pow2[63] = 9223372036854775808 /\ Pow2[64] = 18446744073709551616 /\ Pow2[65] = 36893488147419103232
<1>1. Pow2[0] = 1 /\ Pow2[1] = 2 /\ Pow2[2] = 4
  BY PowersOfTwo
<1>2. Pow2[3] = 8 /\ Pow2[4] = 16 /\ Pow2[5] = 32
  BY <1>1, PowersOfTwo
<1>3. Pow2[6] = 64 /\ Pow2[7] = 128 /\ Pow2[8] = 256
  BY <1>2, PowersOfTwo
<1>4. Pow2[9] = 512 /\ Pow2[10] = 1024 /\ Pow2[11] = 2048
  BY <1>3, PowersOfTwo
<1>5. Pow2[12] = 4096 /\ Pow2[13] = 8192 /\ Pow2[14] = 16384
  BY <1>4, PowersOfTwo
<1>6. Pow2[15] = 32768 /\ Pow2[16] = 65536 /\ Pow2[17] = 131072
  BY <1>5, PowersOfTwo
<1>7. Pow2[18] = 262144 /\ Pow2[19] = 524288 /\ Pow2[20] = 1048576
  BY <1>6, PowersOfTwo
<1>8. Pow2[21] = 2097152 /\ Pow2[22] = 4194304 /\ Pow2[23] = 8388608
  BY <1>7, PowersOfTwo
<1>9. Pow2[24] = 16777216 /\ Pow2[25] = 33554432 /\ Pow2[26] = 67108864
  BY <1>8, PowersOfTwo
<1>10. Pow2[27] = 134217728 /\ Pow2[28] = 268435456 /\ Pow2[29] = 536870912
  BY <1>9, PowersOfTwo
<1>11. Pow2[30] = 1073741824 /\ Pow2[31] = 2147483648 /\ Pow2[32] = 4294967296
  BY <1>10, PowersOfTwo
<1>12. Pow2[33] = 8589934592 /\ Pow2[34] = 17179869184 /\ Pow2[35] = 34359738368
  BY <1>11, PowersOfTwo
<1>13. Pow2[36] = 68719476736 /\ Pow2[37] = 137438953472 /\ Pow2[38] = 274877906944
  BY <1>12, PowersOfTwo
<1>14. Pow2[39] = 549755813888 /\ Pow2[40] = 1099511627776 /\ Pow2[41] = 2199023255552
  BY <1>13, PowersOfTwo
<1>15. Pow2[42] = 4398046511104 /\ Pow2[43] = 8796093022208 /\ Pow2[44] = 17592186044416
  BY <1>14, PowersOfTwo
<1>16. Pow2[45] = 35184372088832 /\ Pow2[46] = 70368744177664 /\ Pow2[47] = 140737488355328
  BY <1>15, PowersOfTwo
<1>17. Pow2[48] = 281474976710656 /\ Pow2[49] = 562949953421312 /\ Pow2[50] = 1125899906842624
  BY <1>16, PowersOfTwo
<1>18. Pow2[51] = 2251799813685248 /\ Pow2[52] = 4503599627370496 /\ Pow2[53] = 9007199254740992
  BY <1>17, PowersOfTwo
<1>19. Pow2[54] = 18014398509481984 /\ Pow2[55] = 36028797018963968 /\ Pow2[56] = 72057594037927936
  BY <1>18, PowersOfTwo
<1>20. Pow2[57] = 144115188075855872 /\ Pow2[58] = 288230376151711744 /\ Pow2[59] = 576460752303423488
  BY <1>19, PowersOfTwo
<1>21. Pow2[60] = 1152921504606846976 /\ Pow2[61] = 2305843009213693952 /\ Pow2[62] = 4611686018427387904
  BY <1>20, PowersOfTwo
<1>22. Pow2[63] = 9223372036854775808 /\ Pow2[64] = 18446744073709551616 /\ Pow2[65] = 36893488147419103232
  BY <1>21, PowersOfTwo
<1> QED BY <1>1, <1>2, <1>3, <1>4, <1>5, <1>6, <1>7, <1>8, <1>9, <1>10, <1>11, <1>12, <1>13, <1>14, <1>15, <1>16, <1>17, <1>18, <1>19, <1>20, <1>21, <1>22

\* The powers of ten up to 10^18.
LEMMA TenTable ==
    /\ Pow10[0] = 1 /\ Pow10[1] = 10 /\ Pow10[2] = 100
    /\ Pow10[3] = 1000 /\ Pow10[4] = 10000 /\ Pow10[5] = 100000
    /\ Pow10[6] = 1000000 /\ Pow10[7] = 10000000 /\ Pow10[8] = 100000000
    /\ Pow10[9] = 1000000000 /\ Pow10[10] = 10000000000 /\ Pow10[11] = 100000000000
    /\ Pow10[12] = 1000000000000 /\ Pow10[13] = 10000000000000 /\ Pow10[14] = 100000000000000
    /\ Pow10[15] = 1000000000000000 /\ Pow10[16] = 10000000000000000 /\ Pow10[17] = 100000000000000000
    /\ Pow10[18] = 1000000000000000000
<1>1. Pow10[0] = 1 /\ Pow10[1] = 10 /\ Pow10[2] = 100
  BY PowersOfTen
<1>2. Pow10[3] = 1000 /\ Pow10[4] = 10000 /\ Pow10[5] = 100000
  BY <1>1, PowersOfTen
<1>3. Pow10[6] = 1000000 /\ Pow10[7] = 10000000 /\ Pow10[8] = 100000000
  BY <1>2, PowersOfTen
<1>4. Pow10[9] = 1000000000 /\ Pow10[10] = 10000000000 /\ Pow10[11] = 100000000000
  BY <1>3, PowersOfTen
<1>5. Pow10[12] = 1000000000000 /\ Pow10[13] = 10000000000000 /\ Pow10[14] = 100000000000000
  BY <1>4, PowersOfTen
<1>6. Pow10[15] = 1000000000000000 /\ Pow10[16] = 10000000000000000 /\ Pow10[17] = 100000000000000000
  BY <1>5, PowersOfTen
<1>7. Pow10[18] = 1000000000000000000
  BY <1>6, PowersOfTen
<1> QED BY <1>1, <1>2, <1>3, <1>4, <1>5, <1>6, <1>7

\* One power of ten: up to B ones, scaled, leave one half free, more than B + 1 ones
\* are too many, and B + 1 of them are too many or leave the room.
LEMMA RoomOf ==
    ASSUME NEW e \in Nat, NEW B \in 0 .. 63,
           LowOnes(B) * Pow10[e] <= Pow2[63], LowOnes(B + 2) * Pow10[e] >= Pow2[64],
           \/ LowOnes(B + 1) * Pow10[e] >= Pow2[64]
           \/ LowOnes(B + 1) * Pow10[e] + LowOnes(63 - B) + Pow10[e] <= Pow2[64],
           NEW b \in 1 .. 61
    PROVE  \/ LowOnes(b) * Pow10[e] <= Pow2[63]
           \/ LowOnes(b) * Pow10[e] >= Pow2[64]
           \/ LowOnes(b) * Pow10[e] + LowOnes(64 - b) + Pow10[e] <= Pow2[64]
<1>1. Pow10[e] \in Nat /\ LowOnes(b) \in Nat /\ LowOnes(B) \in Nat /\ LowOnes(B + 2) \in Nat
      /\ Pow2[63] \in Nat /\ Pow2[64] \in Nat
  <2>1. b \in Nat /\ B \in Nat /\ B + 2 \in Nat
    OBVIOUS
  <2> QED BY <2>1, PowersOfTen, PowersOfTwo, Ones
<1>2. CASE b <= B
  <2>1. LowOnes(b) <= LowOnes(B)
    <3>1. b \in Nat /\ B \in Nat
      OBVIOUS
    <3>2. Pow2[b] <= Pow2[B] /\ Pow2[b] \in Nat /\ Pow2[B] \in Nat
      BY <3>1, <1>2, PowersGrow, PowersOfTwo
    <3> QED BY <3>2 DEF LowOnes
  <2>2. LowOnes(b) * Pow10[e] <= LowOnes(B) * Pow10[e]
    BY <1>1, <2>1, ProductsGrow
  <2>3. LowOnes(b) * Pow10[e] \in Nat /\ LowOnes(B) * Pow10[e] \in Nat
    BY <1>1
  <2> QED BY <1>1, <2>2, <2>3
<1>3. CASE b >= B + 2
  <2>1. LowOnes(B + 2) <= LowOnes(b)
    <3>1. b \in Nat /\ B + 2 \in Nat
      OBVIOUS
    <3>2. Pow2[B + 2] <= Pow2[b] /\ Pow2[b] \in Nat /\ Pow2[B + 2] \in Nat
      BY <3>1, <1>3, PowersGrow, PowersOfTwo
    <3> QED BY <3>2 DEF LowOnes
  <2>2. LowOnes(B + 2) * Pow10[e] <= LowOnes(b) * Pow10[e]
    BY <1>1, <2>1, ProductsGrow
  <2>3. LowOnes(b) * Pow10[e] \in Nat /\ LowOnes(B + 2) * Pow10[e] \in Nat
    BY <1>1
  <2> QED BY <1>1, <2>2, <2>3
<1>4. CASE b = B + 1
  <2>1. 64 - b = 63 - B
    BY <1>4
  <2> QED BY <1>4, <2>1
<1> QED BY <1>2, <1>3, <1>4

\* The assumption on the width holds for the amounts of the code: 64 bits and the
\* exponents up to 18 that secp256k1_rangeproof_sign_impl and _getheader_impl accept.
THEOREM SixtyFourBitsAreRoomy == Roomy(64, 18)
<1>1. Pow10[18] <= Pow2[64 - 1]
  BY TwoTable, TenTable
<1> DEFINE Room(e, b) == \/ LowOnes(b) * Pow10[e] <= Pow2[63]
                         \/ LowOnes(b) * Pow10[e] >= Pow2[64]
                         \/ LowOnes(b) * Pow10[e] + LowOnes(64 - b) + Pow10[e] <= Pow2[64]
<1> HIDE DEF Room
<1>2. \A b \in 1 .. 61 : Room(0, b)
  <2>1. PICK e \in Nat, B \in 0 .. 63 : e = 0 /\ B = 63
    OBVIOUS
  <2>2. /\ LowOnes(B) * Pow10[e] <= Pow2[63] /\ LowOnes(B + 2) * Pow10[e] >= Pow2[64]
        /\ \/ LowOnes(B + 1) * Pow10[e] >= Pow2[64]
           \/ LowOnes(B + 1) * Pow10[e] + LowOnes(63 - B) + Pow10[e] <= Pow2[64]
    BY <2>1, TwoTable, TenTable DEF LowOnes
  <2> QED BY <2>1, <2>2, RoomOf DEF Room
<1>3. \A b \in 1 .. 61 : Room(1, b)
  <2>1. PICK e \in Nat, B \in 0 .. 63 : e = 1 /\ B = 59
    OBVIOUS
  <2>2. /\ LowOnes(B) * Pow10[e] <= Pow2[63] /\ LowOnes(B + 2) * Pow10[e] >= Pow2[64]
        /\ \/ LowOnes(B + 1) * Pow10[e] >= Pow2[64]
           \/ LowOnes(B + 1) * Pow10[e] + LowOnes(63 - B) + Pow10[e] <= Pow2[64]
    BY <2>1, TwoTable, TenTable DEF LowOnes
  <2> QED BY <2>1, <2>2, RoomOf DEF Room
<1>4. \A b \in 1 .. 61 : Room(2, b)
  <2>1. PICK e \in Nat, B \in 0 .. 63 : e = 2 /\ B = 56
    OBVIOUS
  <2>2. /\ LowOnes(B) * Pow10[e] <= Pow2[63] /\ LowOnes(B + 2) * Pow10[e] >= Pow2[64]
        /\ \/ LowOnes(B + 1) * Pow10[e] >= Pow2[64]
           \/ LowOnes(B + 1) * Pow10[e] + LowOnes(63 - B) + Pow10[e] <= Pow2[64]
    BY <2>1, TwoTable, TenTable DEF LowOnes
  <2> QED BY <2>1, <2>2, RoomOf DEF Room
<1>5. \A b \in 1 .. 61 : Room(3, b)
  <2>1. PICK e \in Nat, B \in 0 .. 63 : e = 3 /\ B = 53
    OBVIOUS
  <2>2. /\ LowOnes(B) * Pow10[e] <= Pow2[63] /\ LowOnes(B + 2) * Pow10[e] >= Pow2[64]
        /\ \/ LowOnes(B + 1) * Pow10[e] >= Pow2[64]
           \/ LowOnes(B + 1) * Pow10[e] + LowOnes(63 - B) + Pow10[e] <= Pow2[64]
    BY <2>1, TwoTable, TenTable DEF LowOnes
  <2> QED BY <2>1, <2>2, RoomOf DEF Room
<1>6. \A b \in 1 .. 61 : Room(4, b)
  <2>1. PICK e \in Nat, B \in 0 .. 63 : e = 4 /\ B = 49
    OBVIOUS
  <2>2. /\ LowOnes(B) * Pow10[e] <= Pow2[63] /\ LowOnes(B + 2) * Pow10[e] >= Pow2[64]
        /\ \/ LowOnes(B + 1) * Pow10[e] >= Pow2[64]
           \/ LowOnes(B + 1) * Pow10[e] + LowOnes(63 - B) + Pow10[e] <= Pow2[64]
    BY <2>1, TwoTable, TenTable DEF LowOnes
  <2> QED BY <2>1, <2>2, RoomOf DEF Room
<1>7. \A b \in 1 .. 61 : Room(5, b)
  <2>1. PICK e \in Nat, B \in 0 .. 63 : e = 5 /\ B = 46
    OBVIOUS
  <2>2. /\ LowOnes(B) * Pow10[e] <= Pow2[63] /\ LowOnes(B + 2) * Pow10[e] >= Pow2[64]
        /\ \/ LowOnes(B + 1) * Pow10[e] >= Pow2[64]
           \/ LowOnes(B + 1) * Pow10[e] + LowOnes(63 - B) + Pow10[e] <= Pow2[64]
    BY <2>1, TwoTable, TenTable DEF LowOnes
  <2> QED BY <2>1, <2>2, RoomOf DEF Room
<1>8. \A b \in 1 .. 61 : Room(6, b)
  <2>1. PICK e \in Nat, B \in 0 .. 63 : e = 6 /\ B = 43
    OBVIOUS
  <2>2. /\ LowOnes(B) * Pow10[e] <= Pow2[63] /\ LowOnes(B + 2) * Pow10[e] >= Pow2[64]
        /\ \/ LowOnes(B + 1) * Pow10[e] >= Pow2[64]
           \/ LowOnes(B + 1) * Pow10[e] + LowOnes(63 - B) + Pow10[e] <= Pow2[64]
    BY <2>1, TwoTable, TenTable DEF LowOnes
  <2> QED BY <2>1, <2>2, RoomOf DEF Room
<1>9. \A b \in 1 .. 61 : Room(7, b)
  <2>1. PICK e \in Nat, B \in 0 .. 63 : e = 7 /\ B = 39
    OBVIOUS
  <2>2. /\ LowOnes(B) * Pow10[e] <= Pow2[63] /\ LowOnes(B + 2) * Pow10[e] >= Pow2[64]
        /\ \/ LowOnes(B + 1) * Pow10[e] >= Pow2[64]
           \/ LowOnes(B + 1) * Pow10[e] + LowOnes(63 - B) + Pow10[e] <= Pow2[64]
    BY <2>1, TwoTable, TenTable DEF LowOnes
  <2> QED BY <2>1, <2>2, RoomOf DEF Room
<1>10. \A b \in 1 .. 61 : Room(8, b)
  <2>1. PICK e \in Nat, B \in 0 .. 63 : e = 8 /\ B = 36
    OBVIOUS
  <2>2. /\ LowOnes(B) * Pow10[e] <= Pow2[63] /\ LowOnes(B + 2) * Pow10[e] >= Pow2[64]
        /\ \/ LowOnes(B + 1) * Pow10[e] >= Pow2[64]
           \/ LowOnes(B + 1) * Pow10[e] + LowOnes(63 - B) + Pow10[e] <= Pow2[64]
    BY <2>1, TwoTable, TenTable DEF LowOnes
  <2> QED BY <2>1, <2>2, RoomOf DEF Room
<1>11. \A b \in 1 .. 61 : Room(9, b)
  <2>1. PICK e \in Nat, B \in 0 .. 63 : e = 9 /\ B = 33
    OBVIOUS
  <2>2. /\ LowOnes(B) * Pow10[e] <= Pow2[63] /\ LowOnes(B + 2) * Pow10[e] >= Pow2[64]
        /\ \/ LowOnes(B + 1) * Pow10[e] >= Pow2[64]
           \/ LowOnes(B + 1) * Pow10[e] + LowOnes(63 - B) + Pow10[e] <= Pow2[64]
    BY <2>1, TwoTable, TenTable DEF LowOnes
  <2> QED BY <2>1, <2>2, RoomOf DEF Room
<1>12. \A b \in 1 .. 61 : Room(10, b)
  <2>1. PICK e \in Nat, B \in 0 .. 63 : e = 10 /\ B = 29
    OBVIOUS
  <2>2. /\ LowOnes(B) * Pow10[e] <= Pow2[63] /\ LowOnes(B + 2) * Pow10[e] >= Pow2[64]
        /\ \/ LowOnes(B + 1) * Pow10[e] >= Pow2[64]
           \/ LowOnes(B + 1) * Pow10[e] + LowOnes(63 - B) + Pow10[e] <= Pow2[64]
    BY <2>1, TwoTable, TenTable DEF LowOnes
  <2> QED BY <2>1, <2>2, RoomOf DEF Room
<1>13. \A b \in 1 .. 61 : Room(11, b)
  <2>1. PICK e \in Nat, B \in 0 .. 63 : e = 11 /\ B = 26
    OBVIOUS
  <2>2. /\ LowOnes(B) * Pow10[e] <= Pow2[63] /\ LowOnes(B + 2) * Pow10[e] >= Pow2[64]
        /\ \/ LowOnes(B + 1) * Pow10[e] >= Pow2[64]
           \/ LowOnes(B + 1) * Pow10[e] + LowOnes(63 - B) + Pow10[e] <= Pow2[64]
    BY <2>1, TwoTable, TenTable DEF LowOnes
  <2> QED BY <2>1, <2>2, RoomOf DEF Room
<1>14. \A b \in 1 .. 61 : Room(12, b)
  <2>1. PICK e \in Nat, B \in 0 .. 63 : e = 12 /\ B = 23
    OBVIOUS
  <2>2. /\ LowOnes(B) * Pow10[e] <= Pow2[63] /\ LowOnes(B + 2) * Pow10[e] >= Pow2[64]
        /\ \/ LowOnes(B + 1) * Pow10[e] >= Pow2[64]
           \/ LowOnes(B + 1) * Pow10[e] + LowOnes(63 - B) + Pow10[e] <= Pow2[64]
    BY <2>1, TwoTable, TenTable DEF LowOnes
  <2> QED BY <2>1, <2>2, RoomOf DEF Room
<1>15. \A b \in 1 .. 61 : Room(13, b)
  <2>1. PICK e \in Nat, B \in 0 .. 63 : e = 13 /\ B = 19
    OBVIOUS
  <2>2. /\ LowOnes(B) * Pow10[e] <= Pow2[63] /\ LowOnes(B + 2) * Pow10[e] >= Pow2[64]
        /\ \/ LowOnes(B + 1) * Pow10[e] >= Pow2[64]
           \/ LowOnes(B + 1) * Pow10[e] + LowOnes(63 - B) + Pow10[e] <= Pow2[64]
    BY <2>1, TwoTable, TenTable DEF LowOnes
  <2> QED BY <2>1, <2>2, RoomOf DEF Room
<1>16. \A b \in 1 .. 61 : Room(14, b)
  <2>1. PICK e \in Nat, B \in 0 .. 63 : e = 14 /\ B = 16
    OBVIOUS
  <2>2. /\ LowOnes(B) * Pow10[e] <= Pow2[63] /\ LowOnes(B + 2) * Pow10[e] >= Pow2[64]
        /\ \/ LowOnes(B + 1) * Pow10[e] >= Pow2[64]
           \/ LowOnes(B + 1) * Pow10[e] + LowOnes(63 - B) + Pow10[e] <= Pow2[64]
    BY <2>1, TwoTable, TenTable DEF LowOnes
  <2> QED BY <2>1, <2>2, RoomOf DEF Room
<1>17. \A b \in 1 .. 61 : Room(15, b)
  <2>1. PICK e \in Nat, B \in 0 .. 63 : e = 15 /\ B = 13
    OBVIOUS
  <2>2. /\ LowOnes(B) * Pow10[e] <= Pow2[63] /\ LowOnes(B + 2) * Pow10[e] >= Pow2[64]
        /\ \/ LowOnes(B + 1) * Pow10[e] >= Pow2[64]
           \/ LowOnes(B + 1) * Pow10[e] + LowOnes(63 - B) + Pow10[e] <= Pow2[64]
    BY <2>1, TwoTable, TenTable DEF LowOnes
  <2> QED BY <2>1, <2>2, RoomOf DEF Room
<1>18. \A b \in 1 .. 61 : Room(16, b)
  <2>1. PICK e \in Nat, B \in 0 .. 63 : e = 16 /\ B = 9
    OBVIOUS
  <2>2. /\ LowOnes(B) * Pow10[e] <= Pow2[63] /\ LowOnes(B + 2) * Pow10[e] >= Pow2[64]
        /\ \/ LowOnes(B + 1) * Pow10[e] >= Pow2[64]
           \/ LowOnes(B + 1) * Pow10[e] + LowOnes(63 - B) + Pow10[e] <= Pow2[64]
    BY <2>1, TwoTable, TenTable DEF LowOnes
  <2> QED BY <2>1, <2>2, RoomOf DEF Room
<1>19. \A b \in 1 .. 61 : Room(17, b)
  <2>1. PICK e \in Nat, B \in 0 .. 63 : e = 17 /\ B = 6
    OBVIOUS
  <2>2. /\ LowOnes(B) * Pow10[e] <= Pow2[63] /\ LowOnes(B + 2) * Pow10[e] >= Pow2[64]
        /\ \/ LowOnes(B + 1) * Pow10[e] >= Pow2[64]
           \/ LowOnes(B + 1) * Pow10[e] + LowOnes(63 - B) + Pow10[e] <= Pow2[64]
    BY <2>1, TwoTable, TenTable DEF LowOnes
  <2> QED BY <2>1, <2>2, RoomOf DEF Room
<1>20. \A b \in 1 .. 61 : Room(18, b)
  <2>1. PICK e \in Nat, B \in 0 .. 63 : e = 18 /\ B = 3
    OBVIOUS
  <2>2. /\ LowOnes(B) * Pow10[e] <= Pow2[63] /\ LowOnes(B + 2) * Pow10[e] >= Pow2[64]
        /\ \/ LowOnes(B + 1) * Pow10[e] >= Pow2[64]
           \/ LowOnes(B + 1) * Pow10[e] + LowOnes(63 - B) + Pow10[e] <= Pow2[64]
    BY <2>1, TwoTable, TenTable DEF LowOnes
  <2> QED BY <2>1, <2>2, RoomOf DEF Room
<1>21. \A e \in 0 .. 18 : \A b \in 1 .. 61 : Room(e, b)
  BY <1>2, <1>3, <1>4, <1>5, <1>6, <1>7, <1>8, <1>9, <1>10, <1>11, <1>12, <1>13, <1>14, <1>15, <1>16, <1>17, <1>18, <1>19, <1>20
<1>22. 64 - 1 = 63 /\ 64 - 3 = 61 /\ 64 \in Nat /\ 64 >= 3 /\ 18 \in 0 .. 31
  OBVIOUS
<1> QED BY <1>1, <1>21, <1>22, Zenon DEF Roomy, Room
=============================================================================
