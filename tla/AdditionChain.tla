---------------------------- MODULE AdditionChain ----------------------------
(***************************************************************************)
(* The powers that secp256k1-zkp computes by addition chains, at their     *)
(* real size: the square root and the inverse of a field element           *)
(* (field_impl.h) and the inverse of a scalar (scalar_impl.h).  A variable *)
(* of the code that holds a power of the argument is modelled by the       *)
(* exponent, a set of bit positions: squaring shifts it, a product adds    *)
(* two of them.  Variable k is xk in the code, 1 the argument, 0 the       *)
(* result and t.                                                           *)
(***************************************************************************)
EXTENDS Integers, Sequences, FiniteSets

\* One statement group: `to' is `from' squared n times, then times `by', if any.
Nothing == -1
Step(to, from, n, by) == [to |-> to, from |-> from, sqr |-> n, by |-> by]

\* 1, 2, 3, 6, 9, 11, 22, 44, 88, 176, 220, 223
FeBlocks ==
    <<Step(2, 1, 1, 1), Step(3, 2, 1, 1), Step(6, 3, 3, 3), Step(9, 6, 3, 3),
      Step(11, 9, 2, 2), Step(22, 11, 11, 11), Step(44, 22, 22, 22),
      Step(88, 44, 44, 44), Step(176, 88, 88, 88), Step(220, 176, 44, 44),
      Step(223, 220, 3, 3)>>

fe_sqrt == FeBlocks \o <<Step(0, 223, 23, 22), Step(0, 0, 6, 2), Step(0, 0, 2, Nothing)>>

\* Mutant: one squaring too few in the last but one block.
fe_invShort == FeBlocks \o <<Step(0, 223, 23, 22), Step(0, 0, 5, 1), Step(0, 0, 2, 2),
                             Step(0, 0, 2, 1)>>

fe_inv == FeBlocks \o <<Step(0, 223, 23, 22), Step(0, 0, 5, 1), Step(0, 0, 3, 2),
                        Step(0, 0, 2, 1)>>

\* the blocks of scalar_inverse and, as <<squarings, factor>>, what follows them
ScalarBlocks ==
    <<Step(2, 1, 1, 1), Step(3, 2, 1, 1), Step(4, 3, 1, 1), Step(6, 4, 2, 2),
      Step(7, 6, 1, 1), Step(8, 7, 1, 1), Step(15, 8, 7, 7), Step(30, 15, 15, 15),
      Step(60, 30, 30, 30), Step(120, 60, 60, 60), Step(127, 120, 7, 7)>>

ScalarTail ==
    <<<<2, 1>>, <<4, 3>>, <<2, 1>>, <<2, 1>>, <<2, 1>>, <<4, 3>>, <<3, 2>>, <<4, 3>>,
      <<5, 3>>, <<4, 2>>, <<2, 1>>, <<2, 1>>, <<5, 4>>, <<2, 1>>, <<3, 1>>, <<4, 1>>,
      <<2, 1>>, <<10, 3>>, <<4, 3>>, <<9, 8>>, <<2, 1>>, <<3, 1>>, <<3, 1>>, <<5, 4>>,
      <<2, 1>>, <<5, 2>>, <<4, 2>>, <<2, 1>>, <<8, 2>>, <<3, 2>>, <<3, 1>>, <<6, 1>>,
      <<8, 6>>>>

scalar_inverse ==
    ScalarBlocks \o [i \in DOMAIN ScalarTail |->
                       Step(0, IF i = 1 THEN 127 ELSE 0,
                            ScalarTail[i][1], ScalarTail[i][2])]

Program(f) == CASE f = "fe_sqrt" -> fe_sqrt
                [] f = "fe_inv" -> fe_inv
                [] f = "scalar_inverse" -> scalar_inverse

Shifted(e, n) == {i + n : i \in e}

\* x + y: a carry starts where both have a bit and runs on where one has
Plus(x, y) ==
    LET any == x \union y
        carry(i) == \E j \in x \intersect y : j < i /\ j + 1 .. i - 1 \subseteq any
    IN  {i \in any \union Shifted(any, 1) : ((i \in x) # (i \in y)) # carry(i)}

VARIABLES func,    \* the function that runs
          pc,      \* its current statement group
          done,    \* squarings of it done so far
          power,   \* the exponent in every variable
          written  \* the variables that have a value

chainVars == <<func, pc, done, power, written>>

ChainInit ==
    /\ func \in {"fe_sqrt", "fe_inv", "scalar_inverse"}
    /\ pc = 1 /\ done = 0
    /\ power = [k \in 0 .. 223 |-> IF k = 1 THEN {0} ELSE {}]
    /\ written = {1}

Current == Program(func)[pc]
Running == pc <= Len(Program(func))

Squaring ==
    /\ Running /\ done < Current.sqr
    /\ power' = [power EXCEPT ![Current.to] =
                   Shifted(power[IF done = 0 THEN Current.from ELSE Current.to], 1)]
    /\ done' = done + 1
    /\ UNCHANGED <<func, pc, written>>

Product ==
    /\ Running /\ done = Current.sqr
    /\ power' = [power EXCEPT ![Current.to] =
                   IF Current.by = Nothing THEN @ ELSE Plus(@, power[Current.by])]
    /\ written' = written \union {Current.to}
    /\ pc' = pc + 1 /\ done' = 0
    /\ UNCHANGED func

Returned == ~Running /\ UNCHANGED chainVars

ChainNext == Squaring \/ Product \/ Returned

-----------------------------------------------------------------------------
(* Every finished block xk holds the exponent 2^k - 1 that its name and the *)
(* comments say, and no statement reads a block before it is finished.      *)
BlocksHold ==
    /\ \A k \in written \ {0} : power[k] = 0 .. k - 1
    /\ Running => {Current.from, Current.by} \ {Nothing} \subseteq written

\* the bits of a number, and of one given by its 16-bit words, lowest first
BitsOf(v)   == {i \in 0 .. 15 : (v \div 2^i) % 2 = 1}
BitsOf16(w) == UNION {Shifted(BitsOf(w[k]), 16 * (k - 1)) : k \in DOMAIN w}

\* 2^256 - p, and n: the constants of field_impl.h and scalar_impl.h
PC == BitsOf16(<<977, 0, 1>>)
GroupOrder == BitsOf16(<<16705, 53302, 24204, 49106, 41019, 44872, 56550, 47790,
                         65534, 65535, 65535, 65535, 65535, 65535, 65535, 65535>>)

(* At return the exponent is (p + 1) / 4, p - 2 or n - 2: with e for it,    *)
(* 4e + (2^256 - p) = 2^256 + 1, e + (2^256 - p) + 2 = 2^256 and e + 2 = n. *)
FinalExponent ==
    ~Running =>
      CASE func = "fe_sqrt" -> Plus(Shifted(power[0], 2), PC) = {0, 256}
        [] func = "fe_inv"  -> Plus(Plus(power[0], PC), {1}) = {256}
        [] func = "scalar_inverse" -> Plus(power[0], {1}) = GroupOrder
=============================================================================
