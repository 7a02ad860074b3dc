--------------------------- MODULE RemainderLemmas ---------------------------
(***************************************************************************)
(* Remainders: the arithmetic of indices that wrap round, for the proofs   *)
(* about the ring buffer and the ring of recent trades.                    *)
(***************************************************************************)
EXTENDS Integers, TLAPS

(* Euclidean division, as the SMT solver knows it.                         *)
LEMMA DivMod ==
  ASSUME NEW x \in Int, NEW m \in Nat \ {0}
  PROVE  /\ x \div m \in Int
         /\ x % m \in 0 .. m - 1
         /\ x = m * (x \div m) + (x % m)
  OBVIOUS

(* Quotient and remainder are unique.                                      *)
LEMMA ModUnique ==
  ASSUME NEW q \in Int, NEW m \in Nat \ {0}, NEW r \in 0 .. m - 1
  PROVE  (m * q + r) % m = r
  OBVIOUS

(* Going round the counter changes nothing.                                *)
LEMMA ModAddMultiple ==
  ASSUME NEW x \in Int, NEW k \in Int, NEW m \in Nat \ {0}
  PROVE  (x + m * k) % m = x % m
<1> DEFINE q == x \div m
           r == x % m
<1>1. q \in Int /\ r \in 0 .. m - 1 /\ x = m * q + r
  BY DivMod
<1> HIDE DEF q, r
<1>2. m * q + m * k = m * (q + k)
  BY <1>1
<1>3. x + m * k = m * (q + k) + r
  BY <1>1, <1>2
<1>4. (m * (q + k) + r) % m = r
  BY <1>1, ModUnique
<1> QED
  BY <1>3, <1>4 DEF r

(* A remainder may take the place of its number in a sum.                  *)
LEMMA ModAdd ==
  ASSUME NEW x \in Int, NEW y \in Int, NEW m \in Nat \ {0}
  PROVE  ((x % m) + y) % m = (x + y) % m
<1> DEFINE q == x \div m
           r == x % m
<1>1. q \in Int /\ r \in 0 .. m - 1 /\ x = m * q + r
  BY DivMod
<1> HIDE DEF q, r
<1>2. r + y \in Int /\ x + y = (r + y) + m * q
  BY <1>1
<1>3. ((r + y) + m * q) % m = (r + y) % m
  BY <1>1, <1>2, ModAddMultiple
<1> QED
  BY <1>2, <1>3 DEF r

(* And in a difference.                                                    *)
LEMMA ModSub ==
  ASSUME NEW x \in Int, NEW y \in Int, NEW m \in Nat \ {0}
  PROVE  ((x % m) - (y % m)) % m = (x - y) % m
<1> DEFINE q == y \div m
           r == y % m
<1>1. q \in Int /\ r \in 0 .. m - 1 /\ y = m * q + r
  BY DivMod
<1> HIDE DEF q, r
<1>2. -q \in Int /\ m * (-q) = -(m * q)
  BY <1>1
<1>3. x - r \in Int /\ x - y = (x - r) + m * (-q)
  BY <1>1, <1>2
<1>4. ((x - r) + m * (-q)) % m = (x - r) % m
  BY <1>2, <1>3, ModAddMultiple
<1>5. ((x % m) + (-r)) % m = (x + (-r)) % m
  <2>1. -r \in Int
    BY <1>1
  <2> QED
    BY <2>1, ModAdd
<1>6. (x % m) - r = (x % m) + (-r) /\ x - r = x + (-r)
  BY <1>1, DivMod
<1> QED
  BY <1>3, <1>4, <1>5, <1>6 DEF r

(* Two integers less than m apart have different remainders.               *)
LEMMA ModDistinct ==
  ASSUME NEW x \in Int, NEW y \in Int, NEW m \in Nat \ {0},
         x < y, y - x < m
  PROVE  x % m # y % m
<1> SUFFICES ASSUME x % m = y % m
             PROVE  FALSE
  OBVIOUS
<1> DEFINE p == x \div m
           q == y \div m
           r == x % m
<1>1. /\ p \in Int /\ q \in Int /\ r \in 0 .. m - 1
      /\ x = m * p + r /\ y = m * q + r
  BY DivMod
<1> HIDE DEF p, q, r
<1>2. y - x = m * (q - p)
  BY <1>1
<1>3. q - p \in Int /\ m * (q - p) > 0 /\ m * (q - p) < m
  BY <1>1, <1>2
<1> QED
  BY <1>3
=============================================================================
