--------------------------- MODULE RecoveryShares ---------------------------
(***************************************************************************)
(* Shamir's scheme over GF(2^8), for one byte of the recovery key: what    *)
(* split_secret hands out and what combine_shares makes of any shares      *)
(* that are brought back, in any order, some of them twice.                *)
(*                                                                         *)
(* A byte is the set of its bits, each bit named by its weight; xor is     *)
(* then the symmetric difference.                                          *)
(***************************************************************************)
EXTENDS Integers, Sequences, FiniteSets, SequencesExt

Bit == {1, 2, 4, 8, 16, 32, 64, 128}
Byte == SUBSET Bit
Zero == {}
One == {1}

CONSTANTS Bytes,       \* secret bytes, and the coefficients that may be drawn
          ShareCounts, \* numbers of shares asked for
          Thresholds,  \* thresholds asked for
          Holders,     \* numbers of the shares that may be brought back
          MaxBrought   \* bound: shares brought back at once

ASSUME SharesAssumption ==
  /\ Bytes \subseteq Byte
  /\ ShareCounts \subseteq Nat /\ Thresholds \subseteq Nat /\ Holders \subseteq Nat
  /\ MaxBrought \in Nat

VARIABLES
  split,    \* what was split and how
  combined  \* what the shares brought back gave

sharesVars == <<split, combined>>

Nothing == [kind |-> "nothing"]
Refused == [kind |-> "refused"]

(***************************************************************************)
(* The field.                                                              *)
(***************************************************************************)
ToByte(x) == {w \in Bit : (x \div w) % 2 = 1}

Xor(a, b) == (a \ b) \cup (b \ a)

\* Shifted to the left, and reduced by 0x1b if the highest bit falls out.
Xtime(a) == Xor({2 * w : w \in a \ {128}}, IF 128 \in a THEN {1, 2, 8, 16} ELSE {})

\* By the generator 3.
TimesGenerator(a) == Xor(a, Xtime(a))

\* The tables computed when the module is loaded: the powers of the generator, from
\* the one of exponent 0 on, and the logarithms.
EXP == FoldLeft(LAMBDA t, i : Append(t, TimesGenerator(t[i])), <<One>>, [i \in 1..254 |-> i])
LOG == [a \in Byte |-> IF a = Zero THEN 0 ELSE (CHOOSE i \in 1..255 : EXP[i] = a) - 1]

\* What the two tables hold: 255 products, which come round to 1, and every byte but 0
\* among them once. Nothing here depends on a constant: it is evaluated, once and for
\* all, before every run.
ASSUME TablesAssumption ==
  /\ EXP[1] = One /\ TimesGenerator(EXP[255]) = One
  /\ \A i \in 1..254 : EXP[i + 1] = TimesGenerator(EXP[i])
  /\ \A i \in 1..255 : EXP[i] \in Byte \ {Zero} /\ LOG[EXP[i]] = i - 1
  /\ \A a \in Byte \ {Zero} : LOG[a] \in 0..254 /\ EXP[1 + LOG[a]] = a

Exp(i) == EXP[1 + (i % 255)]

Mul(a, b) == IF a = Zero \/ b = Zero THEN Zero ELSE Exp(LOG[a] + LOG[b])
Inv(a) == Exp(255 - LOG[a])

\* A loop of n turns, of which turn i takes the byte b to turn[i][b].
Loop(n, start, turn) ==
  LET b[i \in Nat] == IF i = 0 THEN start ELSE turn[i][b[i - 1]] IN b[n]

\* The polynomial with these coefficients, the constant one first, at x.
Eval(coeffs, x) ==
  LET n == Len(coeffs)
  IN  Loop(n, Zero, [i \in 1..n |-> [y \in Byte |-> Xor(Mul(y, x), coeffs[n + 1 - i])]])

(***************************************************************************)
(* The scheme.                                                             *)
(***************************************************************************)
SharesInit == split = Nothing /\ combined = Nothing

\* Slip: shares are numbered from 0.
NumbersFromZero(s) == 0..s.n - 1

\* The shares are the polynomial at 1, 2, ..., n.
Numbers(s) == 1..s.n
Shares(s) == [x \in Numbers(s) |-> Eval(s.coeffs, ToByte(x))]

Split(n, k, coeffs) ==
  /\ split = Nothing
  /\ split' = IF 1 <= k /\ k <= n /\ n <= 255
                THEN [kind |-> "split", n |-> n, k |-> k, coeffs |-> coeffs] ELSE Refused
  /\ UNCHANGED combined

\* The points of the shares that are brought back.
Points(xs) == [i \in 1..Len(xs) |-> ToByte(xs[i])]

\* Lagrange's basis polynomial of point i, at 0.
Basis(ps, i) ==
  Loop(Len(ps), One, [j \in 1..Len(ps) |-> [b \in Byte |->
    IF j = i THEN b ELSE Mul(b, Mul(ps[j], Inv(Xor(ps[j], ps[i]))))]])

Interpolated(ps, ys) ==
  Loop(Len(ps), Zero, [i \in 1..Len(ps) |-> [b \in Byte |-> Xor(b, Mul(ys[i], Basis(ps, i)))]])

\* Slip: the shares are combined without being weighted.
CombineUnweighted(shares, xs) ==
  [kind |-> "byte",
   byte |-> Loop(Len(xs), Zero, [i \in 1..Len(xs) |-> [b \in Byte |-> Xor(b, shares[xs[i]])]])]

CombineShares(shares, xs) ==
  IF IsInjective(xs)
  THEN [kind |-> "byte", byte |-> Interpolated(Points(xs), [i \in 1..Len(xs) |-> shares[xs[i]]])]
  ELSE Refused

\* Shares are brought back.
Combine(xs) ==
  /\ split.kind = "split" /\ combined = Nothing
  /\ ToSet(xs) \subseteq Numbers(split)
  /\ combined' = [by |-> xs, result |-> CombineShares(Shares(split), xs)]
  /\ UNCHANGED split

SharesNext ==
  \/ \E n \in ShareCounts, k \in Thresholds :
       \E coeffs \in [1..(IF k = 0 THEN 1 ELSE k) -> Bytes] : Split(n, k, coeffs)
  \/ \E m \in 1..MaxBrought : \E xs \in [1..m -> Holders] : Combine(xs)

SharesSpec == SharesInit /\ [][SharesNext]_sharesVars

(***************************************************************************)
(* Properties.                                                             *)
(***************************************************************************)
\* Any K shares, brought in any order, or more of them, give the secret; a share that is
\* brought twice is refused, never counted (shamir.py:67-87).
EnoughSharesRecover ==
  combined # Nothing /\ Cardinality(ToSet(combined.by)) >= split.k
    => combined.result = IF IsInjective(combined.by)
                           THEN [kind |-> "byte", byte |-> split.coeffs[1]] ELSE Refused

Power(x, n) == Loop(n, One, [i \in 1..n |-> [y \in Byte |-> Mul(y, x)]])

\* The coefficients but the first and the last of the polynomials of k coefficients
\* that are b at 0 and have these shares; the last is fixed by one of the shares.
Fitting(b, some, k) ==
  LET shares == Shares(split)
      first == CHOOSE x \in some : TRUE
  IN {cs \in [1..k - 2 -> Byte] :
        LET low == <<b>> \o cs
            last == Mul(Xor(shares[first], Eval(low, ToByte(first))), Inv(Power(ToByte(first), k - 1)))
        IN \A x \in some : Eval(Append(low, last), ToByte(x)) = shares[x]}

\* "Any K-1 reveal nothing": every byte is a secret that K-1 of the shares may come from,
\* by one draw of the coefficients, so that none is likelier than another
\* (shamir.py:1-2, 55-64).
FewerSharesTellNothing ==
  split.kind = "split" /\ split.k >= 2 /\ combined = Nothing =>
    \A some \in SUBSET (Holders \cap Numbers(split)) : Cardinality(some) = split.k - 1 =>
      \A b \in Bytes : Cardinality(Fitting(b, some, split.k)) = 1
=============================================================================
