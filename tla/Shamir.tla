------------------------------- MODULE Shamir -------------------------------
(***************************************************************************)
(* split and reconstruct of shamir.rs over GF(2^8), for one byte of the    *)
(* secret: the others are treated alike and independently.                 *)
(***************************************************************************)
EXTENDS Naturals, Sequences, FiniteSets, Bitwise

CONSTANTS
  SecretBytes,   \* bound: the secret bytes tried
  Coefficients,  \* bound: the random coefficients tried
  MaxShares      \* bound: n, at most 255 in the code

VARIABLES coeffs,   \* the polynomial: the secret byte first, then random ones
          held      \* the x of the shares reconstruct is given

shamirVars == <<coeffs, held>>

Byte == 0 .. 255

(* gf256: add, the doubling step of mul, mul, inv and div *)
GfAdd(a, b) == a ^^ b
Double(a) == IF a >= 128 THEN ((2 * a) % 256) ^^ 27 ELSE 2 * a

GfMul(a, b) ==
  LET times[x \in Byte, y \in Byte] ==
        IF y = 0 THEN 0
        ELSE LET rest == times[Double(x), y \div 2]
             IN IF y % 2 = 1 THEN GfAdd(x, rest) ELSE rest
  IN times[a, b]

(* Mutant: one round short of the exponent 254. *)
MutGfInv(a) ==
  LET power[i \in 0 .. 5] ==
        IF i = 0 THEN a ELSE GfMul(GfMul(power[i - 1], power[i - 1]), a)
  IN IF a = 0 THEN 0 ELSE GfMul(power[5], power[5])

GfInv(a) ==
  LET power[i \in 0 .. 6] ==
        IF i = 0 THEN a ELSE GfMul(GfMul(power[i - 1], power[i - 1]), a)
  IN IF a = 0 THEN 0 ELSE GfMul(power[6], power[6])

GfDiv(a, b) == GfMul(a, GfInv(b))

(* The share of x: the polynomial at x. *)
Share(x) ==
  LET sum[i \in 1 .. Len(coeffs)] ==
        IF i = 1 THEN [y |-> coeffs[1], x_pow |-> x]
        ELSE [y |-> GfAdd(sum[i - 1].y, GfMul(coeffs[i], sum[i - 1].x_pow)),
              x_pow |-> GfMul(sum[i - 1].x_pow, x)]
  IN sum[Len(coeffs)].y

(* reconstruct: Lagrange interpolation at 0 over a sequence of shares. *)
Basis(xs, i) ==
  LET product[j \in 0 .. Len(xs)] ==
        IF j = 0 THEN 1
        ELSE IF j = i THEN product[j - 1]
        ELSE GfMul(product[j - 1], GfDiv(xs[j], GfAdd(xs[i], xs[j])))
  IN product[Len(xs)]

Reconstruct(xs) ==
  LET value[i \in 0 .. Len(xs)] ==
        IF i = 0 THEN 0 ELSE GfAdd(value[i - 1], GfMul(Share(xs[i]), Basis(xs, i)))
  IN value[Len(xs)]

Init == coeffs \in {<<s>> : s \in SecretBytes} /\ held = <<>>

(* split: the coefficients are drawn one by one. *)
DrawCoefficient ==
  /\ held = <<>> /\ Len(coeffs) < MaxShares
  /\ \E c \in Coefficients : coeffs' = Append(coeffs, c)
  /\ UNCHANGED held

(* The shares are handed to reconstruct in some order. *)
TakeShare ==
  /\ Len(held) < MaxShares
  /\ \E x \in 1 .. MaxShares : (\A i \in 1 .. Len(held) : held[i] # x)
                               /\ held' = Append(held, x)
  /\ UNCHANGED coeffs

Next == DrawCoefficient \/ TakeShare
Spec == Init /\ [][Next]_shamirVars

-----------------------------------------------------------------------------
(* k or more distinct shares in any order give back the secret; fewer give *)
(* an answer too, never None, as if they were a polynomial of lower degree *)
(* (shamir.rs 76-159).                                                     *)
EnoughSharesReconstruct ==
  Len(held) >= Len(coeffs) => Reconstruct(held) = coeffs[1]
=============================================================================
