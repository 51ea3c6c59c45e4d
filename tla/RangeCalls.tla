------------------------------ MODULE RangeCalls ------------------------------
(***************************************************************************)
(* A caller of range_proveparams and of rangeproof_info: it asks for the   *)
(* parameters of a value, writes the header and has it read again, as it   *)
(* is or with its first bytes changed on the way.                          *)
(***************************************************************************)
EXTENDS RangeParams

CONSTANTS Amounts,    \* bound: values
          Minimums,   \* bound: minimum values
          Precisions, \* bound: min_bits
          HeaderEdits,\* bound: what the first or the second byte is changed by
          Body        \* bound: what the proof goes on with after its header

\* amounts are unsigned numbers of W bits, and something follows the header
ASSUME AskedAssumption ==
    /\ Amounts \subseteq 0 .. UINT_MAX /\ Minimums \subseteq 0 .. UINT_MAX
    /\ Precisions \subseteq Nat /\ HeaderEdits \subseteq Nat
    /\ Body \in Seq(Nat) /\ Len(Body) >= 2

VARIABLES asked,  \* the arguments: [min_value, exp, min_bits, value]
          header  \* the header, or <<>>

rangeVars == <<asked, header>>

Nothing == [value |-> -1, min_value |-> 0, exp |-> 0, min_bits |-> 0]
RangeInit == asked = Nothing /\ header = <<>>

Params(a) == IF ArgsOk(65, a.min_value, a.exp, a.min_bits, a.value)
             THEN range_proveparams(a.min_value, a.exp, a.min_bits, a.value)
             ELSE Refusal

Ask(a) ==
    /\ asked = Nothing
    /\ asked' = a
    /\ \E p \in {Params(a)} : header' = IF p.ok THEN WriteHeader(p) ELSE <<>>

rangeproof_info(h) == rangeproof_getheader(h \o Body, 65 + 8)

Edit(i, d) ==
    /\ header # <<>> /\ i <= Len(header) /\ header = WriteHeader(Params(asked))
    /\ header' = [header EXCEPT ![i] = (@ + d) % 256]
    /\ UNCHANGED asked

RangeNext ==
    \/ \E v \in Amounts, m \in Minimums, e \in -1 .. MaxExp, b \in Precisions :
          Ask([value |-> v, min_value |-> m, exp |-> e, min_bits |-> b])
    \/ \E i \in 1 .. 2, d \in HeaderEdits : Edit(i, d)
    \/ asked # Nothing /\ UNCHANGED rangeVars

RangeSpec == RangeInit /\ [][RangeNext]_rangeVars

-----------------------------------------------------------------------------
\* The mantissa has as many bits as the caller asks for, or as the minimum leaves
\* room for; an exact value has none.
AsPrecise(a, mantissa) ==
    a.exp >= 0 /\ a.min_value # UINT_MAX =>
        \A b \in 0 .. a.min_bits : a.min_value < Pow2[W - b] => b <= mantissa

(* Whatever value, minimum, precision and exponent the prover accepts, the *)
(* range it writes is one that a verifier accepts, that fits an amount and *)
(* that holds the value: the digits, scaled, and the public minimum are    *)
(* the value; the minimum is not below the one asked for and, of the       *)
(* precision asked for, the range has as much as that minimum leaves room  *)
(* for; each digit is in its ring, and the verifier counts the same rings. *)
RangeHoldsValue ==
    header # <<>> => \A p \in {Params(asked)}, g \in {rangeproof_info(header)} :
      LET digits[i \in 0 .. p.rings] == IF i = 0 THEN 0 ELSE digits[i - 1] + p.secidx[i] * Pow2[2 * (i - 1)]
      IN  header = WriteHeader(p) =>
          /\ g.ok
          /\ p.v * p.scale + p.min_value = asked.value
          /\ digits[p.rings] = p.v
          /\ \A i \in 1 .. p.rings : p.secidx[i] < p.rsizes[i]
          /\ RingSizes(g.mantissa) = p.rsizes
          /\ g.scale = p.scale /\ g.min_value = p.min_value
          /\ asked.min_value <= g.min_value
          /\ g.min_value <= asked.value /\ asked.value <= g.max_value
          /\ AsPrecise(asked, g.mantissa)

(* Whatever header arrives, the range that is read from it neither wraps   *)
(* nor exceeds an amount.                                                  *)
HeaderInRange ==
    header # <<>> =>
        \A g \in {rangeproof_info(header)} :
            g.ok => /\ g.min_value <= g.max_value /\ g.max_value <= UINT_MAX
                    /\ g.mantissa <= W
                    /\ g.max_value - g.min_value = LowOnes(g.mantissa) * g.scale

(* The range that secp256k1_range_proveparams writes holds the value, is   *)
(* as precise as asked for where the minimum allows it and is read by      *)
(* secp256k1_rangeproof_getheader as it was written; no header is read as  *)
(* a range that leaves the amounts.                                        *)
RangesHold == RangeHoldsValue /\ HeaderInRange
=============================================================================
