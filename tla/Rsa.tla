---------------------------------- MODULE Rsa -----------------------------------
(***************************************************************************)
(* The RSA operations of rsa.c, on limbs of LimbBits bits: a key of         *)
(* KeyLimbs limbs in numbers of MaxLimbs, as run_test of the demo's main    *)
(* uses them (the public operation, then the private one on its result).    *)
(* A step is one modular multiplication.  Numbers are little-endian         *)
(* functions from limb to value, as bn_t.                                   *)
(***************************************************************************)
EXTENDS Integers

CONSTANTS
  LimbBits,  \* bits of a limb (32)
  KeyLimbs,  \* limbs of the key (16, 32 or 64)
  MaxLimbs,  \* RSA_MAX_LIMBS (64)
  Keys,      \* the test vectors: records n, e, d
  Messages   \* bound: what is encrypted

VARIABLES
  k, msg,     \* the test vector, its message
  op,         \* "pub" or "priv": the operation
  input,      \* what it works on
  bit,        \* the exponent's bit bn_powmod is at
  turn,       \* what it does next: "mul", "square" or "done"
  res, sq,    \* its result and square
  enc, dec    \* the outputs; -1 before

vars == <<k, msg, op, input, bit, turn, res, sq, enc, dec>>

(* for (int i = 0; i < n; i++) s = Step(s, i)                               *)
Loop(Step(_, _), s, n) ==
  LET f[i \in 0..n] == IF i = 0 THEN s ELSE Step(f[i - 1], i - 1)
  IN  f[n]

Pow(x, n) == Loop(LAMBDA p, i : p * x, 1, n)

Base == Pow(2, LimbBits)

Number(a, limbs) == Loop(LAMBDA s, i : s + a[i] * Pow(Base, i), 0, limbs)
Limbs(v, limbs)  == [i \in 0..limbs - 1 |-> (v \div Pow(Base, i)) % Base]

(* bn_mul: the schoolbook product in 2 * KeyLimbs limbs, carries in double  *)
(* width                                                                    *)
Cell(a, b, i, s, j) ==
  LET p == a[i] * b[j] + s.r[i + j] + s.carry
  IN  [r |-> [s.r EXCEPT ![i + j] = p % Base], carry |-> p \div Base]

Row(a, b, r, i) ==
  LET s == Loop(LAMBDA t, j : Cell(a, b, i, t, j), [r |-> r, carry |-> 0], KeyLimbs)
  IN  [s.r EXCEPT ![i + KeyLimbs] = (@ + s.carry) % Base]

bn_mul(a, b) ==
  Loop(LAMBDA r, i : Row(a, b, r, i), [i \in 0 .. 2 * KeyLimbs - 1 |-> 0], KeyLimbs)

(* The highest bit set, -1 if none                                          *)
Msb(v) ==
  IF v = 0 THEN -1
  ELSE CHOOSE i \in 0 .. LimbBits * (2 * KeyLimbs) - 1 : Pow(2, i) <= v /\ v < Pow(2, i + 1)

(* Limb i of n << shift                                                     *)
Shifted(n, shift, i) ==
  LET j == i - shift \div LimbBits
      b == shift % LimbBits
  IN  (IF j \in 0..KeyLimbs - 1 THEN (n[j] * Pow(2, b)) % Base ELSE 0)
        + (IF j \in 1..KeyLimbs /\ b > 0 THEN n[j - 1] \div Pow(2, LimbBits - b) ELSE 0)

SubtractNoBorrow(acc, n, shift) ==   \* mutant: the borrow is dropped
  [i \in DOMAIN acc |->
     IF i < shift \div LimbBits THEN acc[i] ELSE (acc[i] - Shifted(n, shift, i)) % Base]

(* acc - (n << shift), as far as acc goes                                   *)
Minus(n, shift, s, i) ==
  LET sub == s.acc[i] - Shifted(n, shift, i) - s.borrow
  IN  [acc |-> [s.acc EXCEPT ![i] = sub % Base], borrow |-> IF sub < 0 THEN 1 ELSE 0]

Subtract(acc, n, shift) ==
  LET ws == shift \div LimbBits
      todo == IF ws + KeyLimbs + 2 <= 2 * MaxLimbs THEN KeyLimbs + 2 ELSE 2 * MaxLimbs - ws
  IN  Loop(LAMBDA s, h : Minus(n, shift, s, ws + h), [acc |-> acc, borrow |-> 0], todo).acc

(* acc < n << shift.  The comparison reads the limb above n << shift, which *)
(* may lie beyond acc: `beyond' is what is there.                           *)
Below(acc, n, shift, beyond) ==
  LET top == KeyLimbs + shift \div LimbBits
      Read(i) == IF i < 2 * MaxLimbs THEN acc[i] ELSE beyond
  IN  \E i \in shift \div LimbBits .. top :
        /\ Read(i) < Shifted(n, shift, i)
        /\ \A h \in i + 1 .. top : Read(h) = Shifted(n, shift, h)

bn_reduce(a, n, beyond) ==
  LET align == Msb(Number(a, 2 * KeyLimbs)) - Msb(Number(n, KeyLimbs))
      Step(acc, s) ==
        IF Below(acc, n, align - s, beyond) THEN acc ELSE Subtract(acc, n, align - s)
      wide == [i \in 0 .. 2 * MaxLimbs - 1 |-> IF i < 2 * KeyLimbs THEN a[i] ELSE 0]
  IN  IF align < 0 \/ Number(n, KeyLimbs) = 0 THEN wide ELSE Loop(Step, wide, align + 1)

(* bn_mulmod.  The comparison reaches limb 3 * KeyLimbs - 1 at most: if acc  *)
(* has that many nothing depends on `beyond'.                               *)
Products(a, b) ==
  LET p == bn_mul(Limbs(a, KeyLimbs), Limbs(b, KeyLimbs))
  IN  {Number(bn_reduce(p, Limbs(k.n, KeyLimbs), beyond), KeyLimbs) :
         beyond \in IF 3 * KeyLimbs <= 2 * MaxLimbs THEN {0} ELSE 0..Base - 1}

----------------------------------------------------------------------------
(* bn_powmod, one multiplication at a time *)

Exponent == IF op = "pub" THEN k.e ELSE k.d

BitSet(i) == (Exponent \div Pow(2, i)) % 2 = 1

Begin(o, v) ==
  /\ op' = o /\ input' = v
  /\ bit' = 0 /\ turn' = "mul"
  /\ res' = 1 /\ sq' = v

Multiply ==
  /\ turn = "mul" /\ bit <= Msb(Exponent)
  /\ IF BitSet(bit) THEN res' \in Products(res, sq) ELSE UNCHANGED res
  /\ turn' = "square"
  /\ UNCHANGED <<k, msg, op, input, bit, sq, enc, dec>>

Square ==
  /\ turn = "square"
  /\ IF bit < Msb(Exponent) THEN sq' \in Products(sq, sq) ELSE UNCHANGED sq
  /\ bit' = bit + 1
  /\ turn' = "mul"
  /\ UNCHANGED <<k, msg, op, input, res, enc, dec>>

(* The end of RSA_PubOp, and main's call of RSA_PrivOp                      *)
PubDone ==
  /\ op = "pub" /\ turn = "mul" /\ bit > Msb(Exponent)
  /\ enc' = res
  /\ Begin("priv", res)
  /\ UNCHANGED <<k, msg, dec>>

PrivDone ==
  /\ op = "priv" /\ turn = "mul" /\ bit > Msb(Exponent)
  /\ dec' = res
  /\ turn' = "done"
  /\ UNCHANGED <<k, msg, op, input, bit, res, sq, enc>>

----------------------------------------------------------------------------
Init ==
  /\ k \in Keys /\ msg \in Messages
  /\ op = "pub" /\ input = msg /\ bit = 0 /\ turn = "mul"
  /\ res = 1 /\ sq = msg /\ enc = -1 /\ dec = -1

Next == Multiply \/ Square \/ PubDone \/ PrivDone

Spec == Init /\ [][Next]_vars
----------------------------------------------------------------------------
Power(x, y, n) == Loop(LAMBDA p, i : (p * x) % n, 1 % n, y)

(* The sizes of bn_t; every test vector is an RSA key pair, d undoes e.      *)
RsaBounds ==
  /\ LimbBits \in Nat \ {0} /\ KeyLimbs \in Nat \ {0} /\ MaxLimbs \in Nat /\ KeyLimbs <= MaxLimbs
  /\ Messages \subseteq 0 .. Pow(Base, KeyLimbs) - 1
  /\ \A x \in Keys :
       /\ x.n \in 2 .. Pow(Base, KeyLimbs) - 1
       /\ x.e \in 0 .. Pow(Base, KeyLimbs) - 1 /\ x.d \in 0 .. Pow(Base, KeyLimbs) - 1
       /\ \A m \in Messages : m < x.n => Power(Power(m, x.e, x.n), x.d, x.n) = m

(* "Compute out = in^e mod n" and "out = in^d mod n", also for a message    *)
(* that is not below n; so the private operation undoes the public one.     *)
OpIsPower ==
  /\ enc # -1 => enc = Power(msg, k.e, k.n)
  /\ dec # -1 => dec = Power(enc, k.d, k.n) /\ (msg < k.n => dec = msg)
================================================================================
