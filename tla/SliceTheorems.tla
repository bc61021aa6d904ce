---------------------------- MODULE SliceTheorems ---------------------------
(***************************************************************************)
(* The slices of thread_pool.c partition the rows of a task, for every     *)
(* number of threads and every number of rows.                             *)
(***************************************************************************)
EXTENDS Slices, TLAPS

(* Division with remainder, in the form the proofs below use.              *)
LEMMA DivMod ==
  ASSUME NEW n \in Nat \ {0}, NEW total \in Nat
  PROVE  /\ total \div n \in Nat
         /\ total % n \in 0 .. n - 1
         /\ total = n * (total \div n) + (total % n)
BY Z3

(* Multiplication is monotonic.                                            *)
LEMMA MulMono ==
  ASSUME NEW a \in Nat, NEW b \in Nat, NEW c \in Nat, a <= b
  PROVE  /\ a * c \in Nat
         /\ b * c \in Nat
         /\ a * c <= b * c
<1>1. b * c = a * c + (b - a) * c
  BY Z3
<1>2. b - a \in Nat
  BY SMT
<1>3. a * c \in Nat /\ b * c \in Nat /\ (b - a) * c \in Nat
  BY <1>2, Z3
<1>4. QED
  BY <1>1, <1>3, SMT

(* Where slice i begins, written without a case on the product: every      *)
(* slice has total \div n rows and the first total % n one more.           *)
Bound(i, n, total) ==
  i * (total \div n) + (IF i < total % n THEN i ELSE total % n)

(* A slice ends where the next one begins.                                 *)
LEMMA StartEndBound ==
  ASSUME NEW n \in Nat \ {0}, NEW total \in Nat, NEW i \in 0 .. n - 1
  PROVE  /\ SliceStart(i, n, total) = Bound(i, n, total)
         /\ SliceEnd(i, n, total) = Bound(i + 1, n, total)
<1> DEFINE q == total \div n
           m == total % n
<1>1. q \in Nat /\ m \in 0 .. n - 1
  BY DivMod
<1> HIDE DEF q, m
<1>2. /\ i * (q + 1) = i * q + i
      /\ (i + 1) * q = i * q + q
      /\ m * (q + 1) + (i - m) * q = i * q + m
  BY <1>1, Z3
<1>3. i * q \in Nat /\ (i + 1) * q \in Nat
  BY <1>1, MulMono
<1>4. (IF i < m THEN i * (q + 1) ELSE m * (q + 1) + (i - m) * q)
        = i * q + (IF i < m THEN i ELSE m)
  BY <1>1, <1>2, <1>3
<1>5. SliceStart(i, n, total) = Bound(i, n, total)
  BY <1>4 DEF SliceStart, Bound, q, m
<1>6. SliceEnd(i, n, total)
        = SliceStart(i, n, total) + (IF i < m THEN q + 1 ELSE q)
  BY DEF SliceEnd, q, m
<1>7. (i * q + (IF i < m THEN i ELSE m)) + (IF i < m THEN q + 1 ELSE q)
        = (i + 1) * q + (IF i + 1 < m THEN i + 1 ELSE m)
  BY <1>1, <1>2, <1>3
<1>8. SliceEnd(i, n, total) = Bound(i + 1, n, total)
  BY <1>5, <1>6, <1>7 DEF Bound, q, m
<1>9. QED
  BY <1>5, <1>8

LEMMA BoundMono ==
  ASSUME NEW n \in Nat \ {0}, NEW total \in Nat,
         NEW i \in 0 .. n, NEW j \in 0 .. n, i <= j
  PROVE  /\ Bound(i, n, total) \in Nat
         /\ Bound(j, n, total) \in Nat
         /\ Bound(i, n, total) <= Bound(j, n, total)
<1> DEFINE q == total \div n
           m == total % n
<1>1. q \in Nat /\ m \in 0 .. n - 1
  BY DivMod
<1> HIDE DEF q, m
<1>2. i * q \in Nat /\ j * q \in Nat /\ i * q <= j * q
  BY <1>1, MulMono
<1>3. QED
  BY <1>1, <1>2 DEF Bound, q, m

LEMMA BoundLast ==
  ASSUME NEW n \in Nat \ {0}, NEW total \in Nat
  PROVE  Bound(n, n, total) = total
<1>1. /\ total = n * (total \div n) + (total % n)
      /\ total % n \in 0 .. n - 1
  BY DivMod
<1>2. Bound(n, n, total) = n * (total \div n) + (total % n)
  BY <1>1 DEF Bound
<1>3. QED
  BY <1>1, <1>2

(* The guard `start < total` only ever skips an empty slice: slice i is    *)
(* exactly the rows between two neighbouring bounds.                       *)
LEMMA SliceIsInterval ==
  ASSUME NEW n \in Nat \ {0}, NEW total \in Nat, NEW i \in 0 .. n - 1
  PROVE  Slice(i, n, total) = Bound(i, n, total) .. Bound(i + 1, n, total) - 1
<1>1. /\ SliceStart(i, n, total) = Bound(i, n, total)
      /\ SliceEnd(i, n, total) = Bound(i + 1, n, total)
  BY StartEndBound
<1>2. /\ Bound(i, n, total) \in Nat
      /\ Bound(i + 1, n, total) \in Nat
      /\ Bound(i, n, total) <= Bound(i + 1, n, total)
  BY BoundMono
<1>3. Bound(i + 1, n, total) <= total
  <2>1. n \in 0 .. n /\ i + 1 \in 0 .. n /\ i + 1 <= n
    OBVIOUS
  <2>2. Bound(i + 1, n, total) <= Bound(n, n, total)
    BY <2>1, BoundMono
  <2>3. QED
    BY <2>2, BoundLast
<1>4. QED
  BY <1>1, <1>2, <1>3 DEF Slice

(* No two threads of a dispatch are handed a row in common.                *)
THEOREM SlicesDisjoint ==
  ASSUME NEW n \in Nat \ {0}, NEW total \in Nat,
         NEW i \in 0 .. n - 1, NEW j \in 0 .. n - 1, i # j
  PROVE  Slice(i, n, total) \cap Slice(j, n, total) = {}
<1>1. ASSUME NEW a \in 0 .. n - 1, NEW b \in 0 .. n - 1, a < b
      PROVE  Slice(a, n, total) \cap Slice(b, n, total) = {}
  <2>1. a + 1 \in 0 .. n /\ b \in 0 .. n /\ a + 1 <= b
    BY <1>1
  <2>2. /\ Bound(a + 1, n, total) \in Nat
        /\ Bound(b, n, total) \in Nat
        /\ Bound(a + 1, n, total) <= Bound(b, n, total)
    BY <2>1, BoundMono
  <2>3. /\ a \in 0 .. n /\ b + 1 \in 0 .. n
        /\ a <= a + 1 /\ b <= b + 1
    BY <1>1
  <2>4. Bound(a, n, total) \in Nat /\ Bound(b + 1, n, total) \in Nat
    BY <2>1, <2>3, BoundMono
  <2>5. QED
    BY <2>2, <2>4, SliceIsInterval
<1>2. CASE i < j
  BY <1>1, <1>2
<1>3. CASE j < i
  BY <1>1, <1>3
<1>4. QED
  BY <1>2, <1>3

(* A slice holds rows of the task only.                                    *)
THEOREM SliceInTask ==
  ASSUME NEW n \in Nat \ {0}, NEW total \in Nat, NEW i \in 0 .. n - 1
  PROVE  Slice(i, n, total) \subseteq 0 .. total - 1
<1>1. i \in 0 .. n /\ i + 1 \in 0 .. n /\ n \in 0 .. n /\ i + 1 <= n
  OBVIOUS
<1>2. /\ Bound(i, n, total) \in Nat
      /\ Bound(i + 1, n, total) \in Nat
      /\ Bound(i + 1, n, total) <= Bound(n, n, total)
  BY <1>1, BoundMono
<1>3. QED
  BY <1>2, BoundLast, SliceIsInterval

(* Every row of the task is handed to some thread.                         *)
THEOREM SlicesCover ==
  ASSUME NEW n \in Nat \ {0}, NEW total \in Nat, NEW r \in 0 .. total - 1
  PROVE  \E i \in 0 .. n - 1 : r \in Slice(i, n, total)
<1> DEFINE q == total \div n
           m == total % n
<1>1. q \in Nat /\ m \in 0 .. n - 1 /\ total = n * q + m
  BY DivMod
<1>2. \A i \in 0 .. n - 1 : Slice(i, n, total) =
        i * q + (IF i < m THEN i ELSE m) ..
        (i + 1) * q + (IF i + 1 < m THEN i + 1 ELSE m) - 1
  <2> TAKE i \in 0 .. n - 1
  <2>1. Slice(i, n, total) = Bound(i, n, total) .. Bound(i + 1, n, total) - 1
    BY SliceIsInterval
  <2>2. /\ Bound(i, n, total) = i * q + (IF i < m THEN i ELSE m)
        /\ Bound(i + 1, n, total)
             = (i + 1) * q + (IF i + 1 < m THEN i + 1 ELSE m)
    BY DEF Bound, q, m
  <2>3. QED
    BY <2>1, <2>2
<1> HIDE DEF q, m
<1>3. CASE r < m * (q + 1)
  <2> DEFINE i == r \div (q + 1)
             e == r % (q + 1)
  <2>1. q + 1 \in Nat \ {0} /\ r \in Nat
    BY <1>1
  <2>2. i \in Nat /\ e \in 0 .. (q + 1) - 1 /\ r = (q + 1) * i + e
    BY <2>1, DivMod
  <2> HIDE DEF i, e
  <2>3. i < m
    <3>1. ASSUME m <= i PROVE FALSE
      <4>1. m * (q + 1) <= i * (q + 1) /\ i * (q + 1) \in Nat
        BY <1>1, <2>1, <2>2, <3>1, MulMono
      <4>2. (q + 1) * i = i * (q + 1)
        BY <2>1, <2>2, Z3
      <4>3. QED
        BY <1>1, <1>3, <2>1, <2>2, <4>1, <4>2
    <3>2. QED
      BY <1>1, <2>2, <3>1
  <2>4. /\ (q + 1) * i = i * q + i
        /\ (i + 1) * q = i * q + q
        /\ i * q \in Nat
    BY <1>1, <2>2, Z3
  <2>5. i \in 0 .. n - 1
    BY <1>1, <2>2, <2>3
  <2>6. r \in i * q + (IF i < m THEN i ELSE m) ..
              (i + 1) * q + (IF i + 1 < m THEN i + 1 ELSE m) - 1
    BY <1>1, <2>1, <2>2, <2>3, <2>4
  <2>7. QED
    BY <1>2, <2>5, <2>6
<1>4. CASE ~(r < m * (q + 1))
  <2> DEFINE s == r - m * (q + 1)
             i == s \div q
             e == s % q
  <2>1. /\ m * (q + 1) = m * q + m
        /\ m * q \in Nat
        /\ n * q = m * q + (n - m) * q
        /\ n * q \in Nat
    BY <1>1, Z3
  <2>2. s \in Nat /\ s < (n - m) * q /\ r = s + m * q + m
    BY <1>1, <1>4, <2>1
  <2>3. q \in Nat \ {0}
    <3>1. q = 0 => (n - m) * q = 0
      BY <1>1, Z3
    <3>2. QED
      BY <1>1, <2>2, <3>1
  <2> HIDE DEF s
  <2>4. i \in Nat /\ e \in 0 .. q - 1 /\ s = q * i + e
    BY <2>2, <2>3, DivMod
  <2> HIDE DEF i, e
  <2>5. i < n - m
    <3>1. ASSUME n - m <= i PROVE FALSE
      <4>1. n - m \in Nat
        BY <1>1
      <4>2. (n - m) * q <= i * q /\ i * q \in Nat /\ (n - m) * q \in Nat
        BY <2>3, <2>4, <3>1, <4>1, MulMono
      <4>3. q * i = i * q
        BY <2>3, <2>4, Z3
      <4>4. QED
        BY <2>2, <2>3, <2>4, <4>2, <4>3
    <3>2. QED
      BY <1>1, <2>4, <3>1
  <2>6. /\ (m + i) * q = m * q + i * q
        /\ (m + i + 1) * q = m * q + i * q + q
        /\ q * i = i * q
        /\ i * q \in Nat
    BY <1>1, <2>3, <2>4, Z3
  <2>7. m + i \in 0 .. n - 1
    BY <1>1, <2>4, <2>5
  <2>8. r \in (m + i) * q + (IF m + i < m THEN m + i ELSE m) ..
              (m + i + 1) * q + (IF m + i + 1 < m THEN m + i + 1 ELSE m) - 1
    BY <1>1, <2>1, <2>2, <2>3, <2>4, <2>6
  <2>9. QED
    BY <1>2, <2>7, <2>8
<1>5. QED
  BY <1>3, <1>4
=============================================================================
