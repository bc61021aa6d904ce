--------------------------- MODULE TextTagsProofs ---------------------------
(***************************************************************************)
(* Facts about the scanners of TextTags, for every tag table, every text   *)
(* and every size of a buffer: where a delimiter is found, what the        *)
(* interceptor takes, and what the thought filter has printed.             *)
(***************************************************************************)
EXTENDS TextTags, WellFoundedInduction, SequenceTheorems, TLAPS

-----------------------------------------------------------------------------
(* Induction over data, from the well-foundedness of the naturals.         *)

LEMMA LeastNatural ==
  ASSUME NEW T \in SUBSET Nat, T # {}
  PROVE  \E i \in T : \A j \in T : i <= j
<1> DEFINE R == OpToRel(<, Nat)
<1>1. IsWellFoundedOn(R, Nat)
  BY NatLessThanWellFounded
<1>2. PICK i \in T : \A j \in T : ~ (<<j, i>> \in R)
  <2> HIDE DEF R
  <2> QED
    BY <1>1, WFMin
<1>3. ASSUME NEW j \in T, j < i
      PROVE  FALSE
  <2>1. <<j, i>> \in R
    BY <1>3 DEF OpToRel
  <2> QED
    BY <2>1, <1>2
<1> QED
  BY <1>3

\* A set that holds 0 and with a number the next one holds all of them.
LEMMA Induction ==
  ASSUME NEW T, 0 \in T, \A n \in Nat : n \in T => n + 1 \in T
  PROVE  Nat \subseteq T
<1> DEFINE U == {n \in Nat : n \notin T}
<1>1. CASE U = {}
  BY <1>1
<1>2. CASE U # {}
  <2>1. PICK i \in U : \A j \in U : i <= j
    BY <1>2, LeastNatural
  <2>2. i # 0 /\ i - 1 \in Nat
    BY <2>1
  <2>3. i - 1 \in T
    BY <2>1, <2>2
  <2> QED
    BY <2>1, <2>2, <2>3
<1> QED
  BY <1>1, <1>2

\* FirstOf() is what strstr() returns: the least position.
LEMMA FirstIsLeast ==
  ASSUME NEW T \in SUBSET Nat, T # {}
  PROVE  FirstOf(T) \in T /\ \A j \in T : FirstOf(T) <= j
<1>1. \E i \in T : \A j \in T : i <= j
  BY LeastNatural
<1> QED
  BY <1>1 DEF FirstOf

LEMMA LeastIsFirst ==
  ASSUME NEW T \in SUBSET Nat, NEW i \in T, \A k \in T : i <= k
  PROVE  FirstOf(T) = i
<1> DEFINE f == FirstOf(T)
<1>1. f \in T /\ \A k \in T : f <= k
  BY FirstIsLeast
<1> HIDE DEF f
<1>2. f <= i /\ i <= f /\ f \in Nat /\ i \in Nat
  BY <1>1
<1> QED
  BY <1>2 DEF f

-----------------------------------------------------------------------------
(* Delimiters, symbol by symbol.                                           *)

OpenAt(s, t, i) ==
  /\ i \in Nat /\ 1 <= i /\ i + 2 <= Len(s)
  /\ s[i] = "<" /\ s[i + 1] = t /\ s[i + 2] = ">"
CloseAt(s, t, i) ==
  /\ i \in Nat /\ 1 <= i /\ i + 3 <= Len(s)
  /\ s[i] = "<" /\ s[i + 1] = "/" /\ s[i + 2] = t /\ s[i + 3] = ">"

LEMMA SubSeqElements ==
  ASSUME NEW S, NEW s \in Seq(S), NEW a \in 1 .. Len(s) + 1,
         NEW b \in a - 1 .. Len(s)
  PROVE  /\ SubSeq(s, a, b) \in Seq(S)
         /\ Len(SubSeq(s, a, b)) = b - a + 1
         /\ \A k \in 1 .. b - a + 1 : SubSeq(s, a, b)[k] = s[a + k - 1]
<1>1. Len(s) \in Nat /\ a \in Int /\ b \in Int
  BY LenProperties
<1>2. \A i \in a .. b : s[i] \in S
  BY <1>1, ElementOfSeq
<1>3. /\ SubSeq(s, a, b) \in Seq(S)
      /\ Len(SubSeq(s, a, b)) = IF a <= b THEN b - a + 1 ELSE 0
      /\ \A k \in 1 .. b - a + 1 : SubSeq(s, a, b)[k] = s[a + k - 1]
  BY <1>1, <1>2, SubSeqProperties
<1> QED
  BY <1>1, <1>3

\* Two sequences are equal if their symbols are, whatever sets these are of.
LEMMA SameSymbols ==
  ASSUME NEW S, NEW D, NEW s \in Seq(S), NEW d \in Seq(D)
  PROVE  (Len(s) = Len(d) /\ \A k \in 1 .. Len(d) : s[k] = d[k]) => s = d
<1>1. s \in Seq(S \union D) /\ d \in Seq(S \union D)
  BY SeqMonotonic
<1> QED
  BY <1>1, SeqEqual

LEMMA AtSymbols ==
  ASSUME NEW S, NEW D, NEW s \in Seq(S), NEW d \in Seq(D),
         NEW i \in Nat, 1 <= i, i + Len(d) - 1 <= Len(s)
  PROVE  At(s, d, i) <=> \A k \in 1 .. Len(d) : s[i + k - 1] = d[k]
<1> DEFINE b == i + Len(d) - 1
           p == SubSeq(s, i, b)
<1>1. Len(s) \in Nat /\ Len(d) \in Nat
  BY LenProperties
<1>2. i \in 1 .. Len(s) + 1 /\ b \in i - 1 .. Len(s)
  BY <1>1
<1>3. b - i + 1 = Len(d)
  BY <1>1
<1>4. /\ p \in Seq(S) /\ Len(p) = Len(d)
      /\ \A k \in 1 .. Len(d) : p[k] = s[i + k - 1]
  <2> HIDE DEF b
  <2> QED
    BY <1>2, <1>3, SubSeqElements
<1>5. p = d <=> \A k \in 1 .. Len(d) : p[k] = d[k]
  <2> HIDE DEF p
  <2>1. p \in Seq(S) /\ Len(p) = Len(d)
    BY <1>4
  <2>2. ASSUME \A k \in 1 .. Len(d) : p[k] = d[k]
        PROVE  p = d
    <3>1. d \in Seq(D)
      OBVIOUS
    <3>2. Len(p) = Len(d) /\ \A k \in 1 .. Len(d) : p[k] = d[k]
      BY <2>1, <2>2
    <3> QED
      BY <2>1, <3>1, <3>2, SameSymbols
  <2> QED
    BY <2>2
<1>6. (\A k \in 1 .. Len(d) : p[k] = d[k])
        <=> \A k \in 1 .. Len(d) : s[i + k - 1] = d[k]
  <2> HIDE DEF p
  <2> QED
    BY <1>4
<1> QED
  BY <1>5, <1>6 DEF At

LEMMA FindsIs ==
  ASSUME NEW S, NEW D, NEW s \in Seq(S), NEW d \in Seq(D),
         NEW a \in Nat, 1 <= a, NEW i \in Nat
  PROVE  i \in Finds(s, d, a) <=>
           /\ a <= i /\ i + Len(d) - 1 <= Len(s)
           /\ \A k \in 1 .. Len(d) : s[i + k - 1] = d[k]
<1>1. Len(s) \in Nat /\ Len(d) \in Nat
  BY LenProperties
<1>2. i \in Finds(s, d, a) <=>
        /\ a <= i /\ i + Len(d) - 1 <= Len(s) /\ At(s, d, i)
  BY <1>1 DEF Finds
<1>3. ASSUME a <= i, i + Len(d) - 1 <= Len(s)
      PROVE  At(s, d, i) <=> \A k \in 1 .. Len(d) : s[i + k - 1] = d[k]
  <2>1. /\ 1 <= i /\ s \in Seq(S) /\ d \in Seq(D) /\ i \in Nat
        /\ i + Len(d) - 1 <= Len(s)
    BY <1>3
  <2> QED
    BY <2>1, AtSymbols
<1> QED
  BY <1>2, <1>3, Zenon

LEMMA FindsNaturals ==
  ASSUME NEW S, NEW D, NEW s \in Seq(S), NEW d \in Seq(D), NEW a \in Nat
  PROVE  Finds(s, d, a) \subseteq Nat
<1>1. Len(s) \in Nat /\ Len(d) \in Nat
  BY LenProperties
<1> QED
  BY <1>1 DEF Finds

LEMMA OpenIs ==
  ASSUME NEW t
  PROVE  /\ Open(t) \in Seq({"<", ">", t}) /\ Len(Open(t)) = 3
         /\ Open(t)[1] = "<" /\ Open(t)[2] = t /\ Open(t)[3] = ">"
BY DEF Open

LEMMA CloseIs ==
  ASSUME NEW t
  PROVE  /\ Close(t) \in Seq({"<", "/", ">", t}) /\ Len(Close(t)) = 4
         /\ Close(t)[1] = "<" /\ Close(t)[2] = "/"
         /\ Close(t)[3] = t /\ Close(t)[4] = ">"
BY DEF Close

LEMMA FindsOpen ==
  ASSUME NEW S, NEW s \in Seq(S), NEW t, NEW a \in Nat, 1 <= a
  PROVE  /\ Finds(s, Open(t), a) \subseteq Nat
         /\ \A i \in Nat :
              i \in Finds(s, Open(t), a) <=> OpenAt(s, t, i) /\ a <= i
<1> DEFINE d == Open(t)
           D == {"<", ">", t}
<1>1. /\ d \in Seq(D) /\ Len(d) = 3
      /\ d[1] = "<" /\ d[2] = t /\ d[3] = ">"
  BY OpenIs
<1> HIDE DEF d, D
<1>2. s \in Seq(S) /\ a \in Nat /\ 1 <= a
  OBVIOUS
<1>3. Finds(s, d, a) \subseteq Nat
  BY <1>1, <1>2, FindsNaturals
<1>4. ASSUME NEW i \in Nat
      PROVE  i \in Finds(s, d, a) <=> OpenAt(s, t, i) /\ a <= i
  <2>1. i \in Finds(s, d, a) <=>
          /\ a <= i /\ i + Len(d) - 1 <= Len(s)
          /\ \A k \in 1 .. Len(d) : s[i + k - 1] = d[k]
    <3>1. d \in Seq(D)
      BY <1>1
    <3> QED
      BY <1>2, <3>1, FindsIs, Z3
  <2>2. (\A k \in 1 .. 3 : s[i + k - 1] = d[k]) <=>
          s[i] = d[1] /\ s[i + 1] = d[2] /\ s[i + 2] = d[3]
    <3>1. i + 2 - 1 = i + 1 /\ i + 3 - 1 = i + 2
      OBVIOUS
    <3>2. 1 .. 3 = {1, 2, 3} /\ i + 1 - 1 = i
      OBVIOUS
    <3> QED
      BY <3>1, <3>2
  <2>3. i + 3 - 1 = i + 2 /\ (a <= i => 1 <= i)
    OBVIOUS
  <2> QED
    BY <1>1, <2>1, <2>2, <2>3 DEF OpenAt
<1> QED
  BY <1>3, <1>4 DEF d

LEMMA FindsClose ==
  ASSUME NEW S, NEW s \in Seq(S), NEW t, NEW a \in Nat, 1 <= a
  PROVE  /\ Finds(s, Close(t), a) \subseteq Nat
         /\ \A i \in Nat :
              i \in Finds(s, Close(t), a) <=> CloseAt(s, t, i) /\ a <= i
<1> DEFINE d == Close(t)
           D == {"<", "/", ">", t}
<1>1. /\ d \in Seq(D) /\ Len(d) = 4
      /\ d[1] = "<" /\ d[2] = "/" /\ d[3] = t /\ d[4] = ">"
  BY CloseIs
<1> HIDE DEF d, D
<1>2. s \in Seq(S) /\ a \in Nat /\ 1 <= a
  OBVIOUS
<1>3. Finds(s, d, a) \subseteq Nat
  BY <1>1, <1>2, FindsNaturals
<1>4. ASSUME NEW i \in Nat
      PROVE  i \in Finds(s, d, a) <=> CloseAt(s, t, i) /\ a <= i
  <2>1. i \in Finds(s, d, a) <=>
          /\ a <= i /\ i + Len(d) - 1 <= Len(s)
          /\ \A k \in 1 .. Len(d) : s[i + k - 1] = d[k]
    <3>1. d \in Seq(D)
      BY <1>1
    <3> QED
      BY <1>2, <3>1, FindsIs, Z3
  <2>2. (\A k \in 1 .. 4 : s[i + k - 1] = d[k]) <=>
          /\ s[i] = d[1] /\ s[i + 1] = d[2]
          /\ s[i + 2] = d[3] /\ s[i + 3] = d[4]
    <3>1. i + 2 - 1 = i + 1 /\ i + 3 - 1 = i + 2 /\ i + 4 - 1 = i + 3
      OBVIOUS
    <3>2. 1 .. 4 = {1, 2, 3, 4} /\ i + 1 - 1 = i
      OBVIOUS
    <3> QED
      BY <3>1, <3>2
  <2>3. i + 4 - 1 = i + 3 /\ (a <= i => 1 <= i)
    OBVIOUS
  <2> QED
    BY <1>1, <2>1, <2>2, <2>3 DEF CloseAt
<1> QED
  BY <1>3, <1>4 DEF d

-----------------------------------------------------------------------------
(* The interceptor.                                                        *)

LEMMA TableOfTags ==
  /\ DOMAIN Tags = 1 .. Len(Tags) /\ Len(Tags) \in Nat
  /\ Range(Tags) = {Tags[k] : k \in 1 .. Len(Tags)}
  /\ \A t \in Range(Tags) : t # "<" /\ t # "/" /\ t # ">"
<1>1. DOMAIN Tags = 1 .. Len(Tags) /\ Len(Tags) \in Nat
  BY TagsAssumption, LenProperties
<1>2. \A t \in Range(Tags) : t # "<" /\ t # "/" /\ t # ">"
  BY TagsAssumption
<1> QED
  BY <1>1, <1>2 DEF Range

\* The first opening delimiter, and the closing ones behind it.
LEMMA ClosesIs ==
  ASSUME NEW S, NEW b \in Seq(S), NEW t
  PROVE  /\ Closes(b, t) \subseteq Nat
         /\ (\A i \in Nat : ~OpenAt(b, t, i)) => Closes(b, t) = {}
         /\ \A i \in Nat :
              OpenAt(b, t, i) /\ (\A k \in Nat : OpenAt(b, t, k) => i <= k)
                => /\ Opens(b, t) # {} /\ Inside(b, t) = i + 3
                   /\ \A j \in Nat :
                        j \in Closes(b, t) <=> CloseAt(b, t, j) /\ i + 3 <= j
<1>0. b \in Seq(S)
  OBVIOUS
<1>1. /\ Opens(b, t) \subseteq Nat
      /\ \A i \in Nat : i \in Opens(b, t) <=> OpenAt(b, t, i)
  <2>1. /\ Finds(b, Open(t), 1) \subseteq Nat
        /\ \A i \in Nat :
             i \in Finds(b, Open(t), 1) <=> OpenAt(b, t, i) /\ 1 <= i
    <3>1. 1 \in Nat /\ 1 <= 1
      OBVIOUS
    <3> QED
      BY <1>0, <3>1, FindsOpen, Z3
  <2> QED
    BY <2>1 DEF Opens, OpenAt
<1>2. ASSUME \A i \in Nat : ~OpenAt(b, t, i)
      PROVE  Opens(b, t) = {}
  BY <1>1, <1>2
<1>3. ASSUME NEW i \in Nat, OpenAt(b, t, i),
             \A k \in Nat : OpenAt(b, t, k) => i <= k
      PROVE  Opens(b, t) # {} /\ Inside(b, t) = i + 3
  <2>1. i \in Opens(b, t)
    BY <1>1, <1>3
  <2>2. /\ FirstOf(Opens(b, t)) \in Opens(b, t)
        /\ \A k \in Opens(b, t) : FirstOf(Opens(b, t)) <= k
    BY <1>1, <2>1, FirstIsLeast
  <2>3. FirstOf(Opens(b, t)) = i
    BY <1>1, <1>3, <2>1, <2>2
  <2> QED
    BY <2>1, <2>3, OpenIs DEF Inside
<1>4. ASSUME NEW a \in Nat, 1 <= a
      PROVE  /\ Finds(b, Close(t), a) \subseteq Nat
             /\ \A j \in Nat :
                  j \in Finds(b, Close(t), a) <=> CloseAt(b, t, j) /\ a <= j
  BY <1>0, <1>4, FindsClose, Z3
<1>5. Closes(b, t) \subseteq Nat
  <2>1. CASE Opens(b, t) = {}
    BY <2>1 DEF Closes
  <2>2. CASE Opens(b, t) # {}
    <3>1. FirstOf(Opens(b, t)) \in Nat
      BY <1>1, <2>2, FirstIsLeast
    <3>2. Inside(b, t) \in Nat /\ 1 <= Inside(b, t)
      <4>1. Len(Open(t)) = 3
        BY OpenIs
      <4> QED
        BY <3>1, <4>1 DEF Inside
    <3>3. Finds(b, Close(t), Inside(b, t)) \subseteq Nat
      BY <1>4, <3>2
    <3> QED
      BY <2>2, <3>3 DEF Closes
  <2> QED
    BY <2>1, <2>2
<1>6. ASSUME NEW i \in Nat, OpenAt(b, t, i),
             \A k \in Nat : OpenAt(b, t, k) => i <= k, NEW j \in Nat
      PROVE  j \in Closes(b, t) <=> CloseAt(b, t, j) /\ i + 3 <= j
  <2>1. Opens(b, t) # {} /\ Inside(b, t) = i + 3
    BY <1>3, <1>6
  <2>2. i + 3 \in Nat /\ 1 <= i + 3
    OBVIOUS
  <2>3. j \in Finds(b, Close(t), i + 3) <=> CloseAt(b, t, j) /\ i + 3 <= j
    BY <1>4, <2>2
  <2> QED
    BY <2>1, <2>3 DEF Closes
<1> QED
  BY <1>2, <1>3, <1>5, <1>6 DEF Closes

\* A text with an opening delimiter has a first one.
LEMMA FirstOpen ==
  ASSUME NEW b, NEW t, NEW i \in Nat, OpenAt(b, t, i)
  PROVE  \E k \in Nat : /\ OpenAt(b, t, k) /\ k <= i
                        /\ \A l \in Nat : OpenAt(b, t, l) => k <= l
<1> DEFINE T == {k \in Nat : OpenAt(b, t, k)}
<1>1. T \in SUBSET Nat /\ T # {}
  OBVIOUS
<1>2. \E k \in T : \A l \in T : k <= l
  BY <1>1, LeastNatural
<1> QED
  BY <1>2

\* A buffer without a complete tag.
LEMMA NoneComplete ==
  ASSUME NEW S, NEW b \in Seq(S), Complete(b) = {},
         NEW t \in Range(Tags), NEW i \in Nat, NEW j \in Nat,
         OpenAt(b, t, i), CloseAt(b, t, j), i + 3 <= j
  PROVE  FALSE
<1>1. PICK k \in Nat : /\ OpenAt(b, t, k) /\ k <= i
                      /\ \A l \in Nat : OpenAt(b, t, l) => k <= l
  BY FirstOpen
<1>2. b \in Seq(S) /\ k + 3 <= j
  BY <1>1
<1>3. j \in Closes(b, t) <=> CloseAt(b, t, j) /\ k + 3 <= j
  BY <1>1, <1>2, ClosesIs, Z3
<1>4. PICK n \in 1 .. Len(Tags) : t = Tags[n]
  BY TableOfTags
<1>5. n \in Complete(b)
  BY <1>2, <1>3, <1>4 DEF Complete
<1> QED
  BY <1>5

\* What the interceptor takes: from the first opening delimiter of some tag
\* to the first closing one behind it.
LEMMA TakenIs ==
  ASSUME NEW S, NEW b \in Seq(S), Complete(b) # {}
  PROVE  \E t \in Range(Tags) : \E i, j \in Nat :
           /\ OpenAt(b, t, i) /\ CloseAt(b, t, j) /\ i + 3 <= j
           /\ \A k \in Nat : OpenAt(b, t, k) => i <= k
           /\ \A k \in Nat : CloseAt(b, t, k) /\ i + 3 <= k => j <= k
           /\ Taken(b) = [tag |-> t, text |-> Inner(SubSeq(b, i + 3, j - 1)),
                          rest |-> SubSeq(b, j + 4, Len(b))]
<1> DEFINE n == FirstOf(Complete(b))
           t == Tags[n]
           j == FirstOf(Closes(b, t))
<1>1. Complete(b) \in SUBSET Nat
  BY DEF Complete
<1>2. n \in Complete(b)
  BY <1>1, FirstIsLeast
<1>3. t \in Range(Tags) /\ Closes(b, t) # {}
  BY <1>2, TableOfTags DEF Complete
<1> HIDE DEF n
<1>4. b \in Seq(S)
  OBVIOUS
<1>5. \E i \in Nat : OpenAt(b, t, i)
  BY <1>3, <1>4, ClosesIs, Z3
<1>6. PICK i \in Nat :
        OpenAt(b, t, i) /\ \A k \in Nat : OpenAt(b, t, k) => i <= k
  BY <1>5, FirstOpen
<1>7. Closes(b, t) \in SUBSET Nat
  BY <1>4, ClosesIs, Z3
<1>8. j \in Closes(b, t) /\ \A k \in Closes(b, t) : j <= k
  BY <1>3, <1>7, FirstIsLeast
<1>9. /\ Inside(b, t) = i + 3
      /\ \A k \in Nat :
           k \in Closes(b, t) <=> CloseAt(b, t, k) /\ i + 3 <= k
  BY <1>4, <1>6, ClosesIs, Z3
<1>10. Len(Close(t)) = 4
  BY CloseIs
<1>11. Taken(b) = [tag |-> t, text |-> Inner(SubSeq(b, i + 3, j - 1)),
                   rest |-> SubSeq(b, j + 4, Len(b))]
  BY <1>9, <1>10 DEF Taken, n
<1>12. /\ j \in Nat /\ CloseAt(b, t, j) /\ i + 3 <= j
       /\ \A k \in Nat : CloseAt(b, t, k) /\ i + 3 <= k => j <= k
  BY <1>7, <1>8, <1>9
<1> HIDE DEF t, j
<1> QED
  BY <1>3, <1>6, <1>11, <1>12

-----------------------------------------------------------------------------
(* Heads and tails of a text.                                              *)

\* The symbols of b are the last ones of s.
IsTail(b, s) ==
  /\ Len(b) <= Len(s)
  /\ \A k \in 1 .. Len(b) : b[k] = s[Len(s) - Len(b) + k]

LEMMA Joined ==
  ASSUME NEW S, NEW s \in Seq(S), NEW p \in Seq(S)
  PROVE  /\ s \o p \in Seq(S) /\ Len(s \o p) = Len(s) + Len(p)
         /\ Len(s) \in Nat /\ Len(p) \in Nat
         /\ \A k \in 1 .. Len(s) : (s \o p)[k] = s[k]
         /\ \A k \in 1 .. Len(p) : (s \o p)[Len(s) + k] = p[k]
<1>1. s \in Seq(S) /\ p \in Seq(S) /\ Len(s) \in Nat /\ Len(p) \in Nat
  BY LenProperties
<1>2. /\ s \o p \in Seq(S) /\ Len(s \o p) = Len(s) + Len(p)
      /\ \A k \in 1 .. Len(s) + Len(p) :
           (s \o p)[k] = IF k <= Len(s) THEN s[k] ELSE p[k - Len(s)]
  BY ConcatProperties
<1>3. ASSUME NEW k \in 1 .. Len(s)
      PROVE  (s \o p)[k] = s[k]
  <2>1. k \in 1 .. Len(s) + Len(p) /\ k <= Len(s)
    BY <1>1
  <2> QED
    BY <1>2, <2>1
<1>4. ASSUME NEW k \in 1 .. Len(p)
      PROVE  (s \o p)[Len(s) + k] = p[k]
  <2>1. /\ Len(s) + k \in 1 .. Len(s) + Len(p) /\ ~(Len(s) + k <= Len(s))
        /\ Len(s) + k - Len(s) = k
    BY <1>1
  <2> QED
    BY <1>2, <2>1
<1> QED
  BY <1>1, <1>2, <1>3, <1>4

\* The text t is p with r behind it.
Joins(p, r, t) == t = p \o r

\* A symbol that follows two texts follows the second.
LEMMA SymbolBehind ==
  ASSUME NEW S, NEW p \in Seq(S), NEW r \in Seq(S), NEW c \in S,
         NEW t, Joins(p, r, t)
  PROVE  Joins(p, Append(r, c), Append(t, c))
<1> DEFINE y == <<c>>
<1>1. y \in Seq(S) /\ p \o r \in Seq(S) /\ t = p \o r
  BY ConcatProperties DEF Joins
<1>2. Append(r, c) = r \o y /\ Append(t, c) = t \o y
  BY <1>1, AppendIsConcat
<1>3. (p \o r) \o y = p \o (r \o y)
  <2> HIDE DEF y
  <2> QED
    BY <1>1, ConcatAssociative
<1> QED
  BY <1>1, <1>2, <1>3 DEF Joins

\* The prefixes of a piece behind a text.
LEMMA PrefixGrows ==
  ASSUME NEW S, NEW s \in Seq(S), NEW piece \in Seq(S),
         NEW n \in Nat, n + 1 <= Len(piece)
  PROVE  s \o SubSeq(piece, 1, n + 1)
           = Append(s \o SubSeq(piece, 1, n), piece[n + 1])
<1> DEFINE m == n + 1
           w == SubSeq(piece, 1, n)
<1>1. /\ 1 \in 1 .. Len(piece) /\ m \in 1 .. Len(piece) /\ m - 1 = n
      /\ 1 \in 1 .. Len(piece) + 1 /\ n \in 1 - 1 .. Len(piece)
  BY LenProperties
<1>2. w \in Seq(S) /\ piece[m] \in S
  BY <1>1, SubSeqElements, ElementOfSeq
<1>3. SubSeq(piece, 1, m) = SubSeq(piece, 1, m - 1) \o <<piece[m]>>
  <2> HIDE DEF m
  <2> QED
    BY <1>1, SubSeqRecursiveSecond
<1>4. SubSeq(piece, 1, m) = Append(w, piece[m])
  <2>1. Append(w, piece[m]) = w \o <<piece[m]>>
    <3> HIDE DEF w, m
    <3> QED
      BY <1>2, AppendIsConcat
  <2> QED
    BY <1>1, <1>3, <2>1
<1>5. s \o Append(w, piece[m]) = Append(s \o w, piece[m])
  <2> HIDE DEF w, m
  <2>1. Joins(s, w, s \o w)
    BY DEF Joins
  <2>2. Joins(s, Append(w, piece[m]), Append(s \o w, piece[m]))
    BY <1>2, <2>1, SymbolBehind
  <2> QED
    BY <2>2 DEF Joins
<1> QED
  BY <1>4, <1>5

LEMMA FittingIs ==
  ASSUME NEW S, NEW s \in Seq(S), NEW n \in Nat
  PROVE  /\ Fitting(s, n) \in Seq(S) /\ Len(Fitting(s, n)) <= n
         /\ Len(Fitting(s, n)) \in Nat
         /\ Len(s) <= n => Fitting(s, n) = s
<1> DEFINE m == IF Len(s) < n THEN Len(s) ELSE n
<1>1. Len(s) \in Nat /\ m \in 0 .. Len(s) /\ m <= n
  BY LenProperties
<1>2. Len(s) <= n => m = Len(s)
  BY <1>1
<1>3. Fitting(s, n) = SubSeq(s, 1, m)
  BY DEF Fitting
<1> HIDE DEF m
<1>4. 1 \in 1 .. Len(s) + 1 /\ m \in 1 - 1 .. Len(s) /\ m - 1 + 1 = m
  BY <1>1
<1>5. SubSeq(s, 1, m) \in Seq(S) /\ Len(SubSeq(s, 1, m)) = m - 1 + 1
  BY <1>4, SubSeqElements
<1>6. SubSeq(s, 1, Len(s)) = s
  BY SubSeqFull
<1>7. Len(SubSeq(s, 1, m)) = m /\ m \in Nat
  BY <1>1, <1>4, <1>5
<1>8. Fitting(s, n) \in Seq(S) /\ Len(Fitting(s, n)) = m
  BY <1>3, <1>5, <1>7, Zenon
<1>9. Len(s) <= n => Fitting(s, n) = s
  BY <1>2, <1>3, <1>6, Zenon
<1> QED
  BY <1>1, <1>7, <1>8, <1>9

LEMMA TailJoined ==
  ASSUME NEW S, NEW b \in Seq(S), NEW s \in Seq(S), NEW p \in Seq(S),
         IsTail(b, s)
  PROVE  IsTail(b \o p, s \o p)
<1>1. /\ Len(s \o p) = Len(s) + Len(p) /\ Len(s) \in Nat /\ Len(p) \in Nat
      /\ \A k \in 1 .. Len(s) : (s \o p)[k] = s[k]
      /\ \A k \in 1 .. Len(p) : (s \o p)[Len(s) + k] = p[k]
  BY Joined
<1>2. /\ Len(b \o p) = Len(b) + Len(p) /\ Len(b) \in Nat
      /\ \A k \in 1 .. Len(b) : (b \o p)[k] = b[k]
      /\ \A k \in 1 .. Len(p) : (b \o p)[Len(b) + k] = p[k]
  BY Joined
<1> DEFINE o == Len(s) - Len(b)
           sp == s \o p
           bp == b \o p
<1>3. o \in Nat /\ Len(sp) - Len(bp) = o /\ Len(bp) <= Len(sp)
  BY <1>1, <1>2 DEF IsTail
<1>4. ASSUME NEW k \in 1 .. Len(b)
      PROVE  bp[k] = sp[o + k]
  <2>1. b[k] = s[o + k] /\ o + k \in 1 .. Len(s)
    BY <1>1, <1>2, <1>3 DEF IsTail
  <2> QED
    BY <1>1, <1>2, <2>1
<1>5. ASSUME NEW k \in 1 .. Len(p)
      PROVE  bp[Len(b) + k] = sp[o + (Len(b) + k)]
  <2>1. o + (Len(b) + k) = Len(s) + k
    BY <1>1, <1>2
  <2> QED
    BY <1>1, <1>2, <2>1
<1>6. ASSUME NEW k \in 1 .. Len(bp)
      PROVE  bp[k] = sp[Len(sp) - Len(bp) + k]
  <2>1. CASE k <= Len(b)
    <3>1. k \in 1 .. Len(b)
      BY <1>2, <2>1
    <3> QED
      BY <1>3, <1>4, <3>1
  <2>2. CASE ~(k <= Len(b))
    <3>1. k - Len(b) \in 1 .. Len(p) /\ Len(b) + (k - Len(b)) = k
      BY <1>1, <1>2, <2>2
    <3>2. bp[Len(b) + (k - Len(b))] = sp[o + (Len(b) + (k - Len(b)))]
      BY <1>5, <3>1
    <3> QED
      BY <1>3, <3>1, <3>2
  <2> QED
    BY <2>1, <2>2
<1> QED
  BY <1>3, <1>6 DEF IsTail

LEMMA TailOfTail ==
  ASSUME NEW S, NEW b \in Seq(S), NEW s \in Seq(S), IsTail(b, s),
         NEW a \in 1 .. Len(b) + 1
  PROVE  /\ SubSeq(b, a, Len(b)) \in Seq(S)
         /\ Len(SubSeq(b, a, Len(b))) = Len(b) + 1 - a
         /\ IsTail(SubSeq(b, a, Len(b)), s)
<1> DEFINE r == SubSeq(b, a, Len(b))
<1>1. Len(b) \in Nat /\ Len(s) \in Nat /\ Len(b) \in a - 1 .. Len(b)
  BY LenProperties
<1>2. /\ r \in Seq(S) /\ Len(r) = Len(b) - a + 1
      /\ \A k \in 1 .. Len(b) - a + 1 : r[k] = b[a + k - 1]
  BY <1>1, SubSeqElements
<1> HIDE DEF r
<1>3. ASSUME NEW k \in 1 .. Len(r)
      PROVE  r[k] = s[Len(s) - Len(r) + k]
  <2>1. a + k - 1 \in 1 .. Len(b)
    BY <1>1, <1>2
  <2>2. b[a + k - 1] = s[Len(s) - Len(b) + (a + k - 1)]
    BY <2>1 DEF IsTail
  <2>3. Len(s) - Len(b) + (a + k - 1) = Len(s) - Len(r) + k
    BY <1>1, <1>2
  <2> QED
    BY <1>2, <2>2, <2>3
<1>4. Len(r) <= Len(s) /\ Len(r) = Len(b) + 1 - a
  BY <1>1, <1>2 DEF IsTail
<1> QED
  BY <1>2, <1>3, <1>4 DEF IsTail, r

\* Delimiters and texts of a tail are those of the whole.
LEMMA TailDelimiters ==
  ASSUME NEW S, NEW b \in Seq(S), NEW s \in Seq(S), IsTail(b, s), NEW t,
         NEW i \in Nat, 1 <= i
  PROVE  /\ OpenAt(b, t, i) <=> OpenAt(s, t, Len(s) - Len(b) + i)
         /\ CloseAt(b, t, i) <=> CloseAt(s, t, Len(s) - Len(b) + i)
<1> DEFINE o == Len(s) - Len(b)
<1>1. Len(b) \in Nat /\ Len(s) \in Nat /\ o \in Nat
  BY LenProperties DEF IsTail
<1>2. ASSUME NEW k \in 0 .. 3, i + k <= Len(b)
      PROVE  b[i + k] = s[o + i + k]
  <2>1. i + k \in 1 .. Len(b) /\ o + (i + k) = o + i + k
    BY <1>1, <1>2
  <2> QED
    BY <2>1 DEF IsTail
<1>3. /\ o + i \in Nat /\ 1 <= o + i
      /\ o + i + 2 <= Len(s) <=> i + 2 <= Len(b)
      /\ o + i + 3 <= Len(s) <=> i + 3 <= Len(b)
  BY <1>1
<1>4. /\ i <= Len(b) => b[i] = s[o + i]
      /\ i + 1 <= Len(b) => b[i + 1] = s[o + i + 1]
      /\ i + 2 <= Len(b) => b[i + 2] = s[o + i + 2]
      /\ i + 3 <= Len(b) => b[i + 3] = s[o + i + 3]
  <2>1. /\ 0 \in 0 .. 3 /\ 1 \in 0 .. 3 /\ 2 \in 0 .. 3 /\ 3 \in 0 .. 3
        /\ i + 0 = i /\ o + i + 0 = o + i
    BY <1>1
  <2> QED
    BY <1>2, <2>1
<1>5. /\ i + 2 <= Len(b) => i + 1 <= Len(b) /\ i <= Len(b)
      /\ i + 3 <= Len(b) => i + 2 <= Len(b) /\ i + 1 <= Len(b) /\ i <= Len(b)
  BY <1>1
<1> HIDE DEF o
<1>6. OpenAt(b, t, i) <=> OpenAt(s, t, o + i)
  BY <1>3, <1>4, <1>5 DEF OpenAt
<1>7. CloseAt(b, t, i) <=> CloseAt(s, t, o + i)
  BY <1>3, <1>4, <1>5 DEF CloseAt
<1> QED
  BY <1>6, <1>7 DEF o

LEMMA TailPart ==
  ASSUME NEW S, NEW b \in Seq(S), NEW s \in Seq(S), IsTail(b, s),
         NEW a \in 1 .. Len(b) + 1, NEW c \in a - 1 .. Len(b)
  PROVE  SubSeq(b, a, c)
           = SubSeq(s, Len(s) - Len(b) + a, Len(s) - Len(b) + c)
<1> DEFINE o == Len(s) - Len(b)
<1>1. Len(b) \in Nat /\ Len(s) \in Nat /\ o \in Nat /\ o + Len(b) = Len(s)
  BY LenProperties DEF IsTail
<1>2. /\ o + a \in 1 .. Len(s) + 1 /\ o + c \in (o + a) - 1 .. Len(s)
      /\ (o + c) - (o + a) + 1 = c - a + 1
  BY <1>1
<1>3. ASSUME NEW k \in 1 .. Len(b)
      PROVE  b[k] = s[o + k]
  BY DEF IsTail
<1> HIDE DEF o
<1> DEFINE x == SubSeq(b, a, c)
           y == SubSeq(s, o + a, o + c)
<1>4. /\ x \in Seq(S) /\ Len(x) = c - a + 1
      /\ \A k \in 1 .. c - a + 1 : x[k] = b[a + k - 1]
  BY SubSeqElements
<1>5. /\ y \in Seq(S) /\ Len(y) = (o + c) - (o + a) + 1
      /\ \A k \in 1 .. (o + c) - (o + a) + 1 : y[k] = s[(o + a) + k - 1]
  BY <1>2, SubSeqElements
<1>6. ASSUME NEW k \in 1 .. c - a + 1
      PROVE  x[k] = y[k]
  <2>1. a + k - 1 \in 1 .. Len(b) /\ o + (a + k - 1) = (o + a) + k - 1
    BY <1>1
  <2>2. b[a + k - 1] = s[o + (a + k - 1)]
    BY <1>3, <2>1
  <2> QED
    BY <1>2, <1>4, <1>5, <2>1, <2>2
<1>7. x = y
  <2> HIDE DEF x, y
  <2>1. Len(x) = Len(y) /\ \A k \in 1 .. Len(x) : x[k] = y[k]
    BY <1>2, <1>4, <1>5, <1>6
  <2> QED
    BY <1>4, <1>5, <2>1, SeqEqual
<1> QED
  BY <1>7 DEF o

\* What follows a text changes nothing in it.
LEMMA HeadDelimiters ==
  ASSUME NEW S, NEW s \in Seq(S), NEW p \in Seq(S), NEW t, NEW i \in Nat
  PROVE  /\ OpenAt(s, t, i) <=> OpenAt(s \o p, t, i) /\ i + 2 <= Len(s)
         /\ CloseAt(s, t, i) <=> CloseAt(s \o p, t, i) /\ i + 3 <= Len(s)
<1> DEFINE sp == s \o p
<1>1. /\ Len(sp) = Len(s) + Len(p) /\ Len(s) \in Nat /\ Len(p) \in Nat
      /\ \A k \in 1 .. Len(s) : sp[k] = s[k]
  BY Joined
<1> HIDE DEF sp
<1>2. ASSUME 1 <= i, i + 2 <= Len(s)
      PROVE  sp[i] = s[i] /\ sp[i + 1] = s[i + 1] /\ sp[i + 2] = s[i + 2]
  <2>1. i \in 1 .. Len(s) /\ i + 1 \in 1 .. Len(s) /\ i + 2 \in 1 .. Len(s)
    BY <1>1, <1>2
  <2> QED
    BY <1>1, <2>1
<1>3. ASSUME 1 <= i, i + 3 <= Len(s)
      PROVE  /\ sp[i] = s[i] /\ sp[i + 1] = s[i + 1]
             /\ sp[i + 2] = s[i + 2] /\ sp[i + 3] = s[i + 3]
  <2>1. i + 3 \in 1 .. Len(s) /\ i + 2 <= Len(s)
    BY <1>1, <1>3
  <2> QED
    BY <1>1, <1>2, <1>3, <2>1
<1>4. /\ i + 2 <= Len(s) => i + 2 <= Len(sp)
      /\ i + 3 <= Len(s) => i + 3 <= Len(sp)
  BY <1>1
<1>5. OpenAt(s, t, i) <=> OpenAt(sp, t, i) /\ i + 2 <= Len(s)
  BY <1>2, <1>4 DEF OpenAt
<1>6. CloseAt(s, t, i) <=> CloseAt(sp, t, i) /\ i + 3 <= Len(s)
  BY <1>3, <1>4 DEF CloseAt
<1> QED
  BY <1>5, <1>6 DEF sp

LEMMA HeadPart ==
  ASSUME NEW S, NEW s \in Seq(S), NEW p \in Seq(S),
         NEW a \in 1 .. Len(s) + 1, NEW c \in a - 1 .. Len(s)
  PROVE  SubSeq(s \o p, a, c) = SubSeq(s, a, c)
<1> DEFINE sp == s \o p
           x == SubSeq(s, a, c)
           y == SubSeq(sp, a, c)
<1>1. /\ sp \in Seq(S) /\ Len(sp) = Len(s) + Len(p)
      /\ Len(s) \in Nat /\ Len(p) \in Nat
      /\ \A k \in 1 .. Len(s) : sp[k] = s[k]
  BY Joined
<1> HIDE DEF sp
<1>2. a \in 1 .. Len(sp) + 1 /\ c \in a - 1 .. Len(sp)
  BY <1>1
<1>3. /\ x \in Seq(S) /\ Len(x) = c - a + 1
      /\ \A k \in 1 .. c - a + 1 : x[k] = s[a + k - 1]
  BY SubSeqElements
<1>4. /\ y \in Seq(S) /\ Len(y) = c - a + 1
      /\ \A k \in 1 .. c - a + 1 : y[k] = sp[a + k - 1]
  BY <1>1, <1>2, SubSeqElements
<1>5. ASSUME NEW k \in 1 .. c - a + 1
      PROVE  x[k] = y[k]
  <2>1. a + k - 1 \in 1 .. Len(s)
    BY <1>1
  <2> QED
    BY <1>1, <1>3, <1>4, <2>1
<1>6. x = y
  <2> HIDE DEF x, y
  <2>1. Len(x) = Len(y) /\ \A k \in 1 .. Len(x) : x[k] = y[k]
    BY <1>3, <1>4, <1>5
  <2> QED
    BY <1>3, <1>4, <2>1, SeqEqual
<1> QED
  BY <1>6 DEF sp

-----------------------------------------------------------------------------
(* The thought filter: what one symbol does.                               *)

\* The start of a delimiter.
Starts(h, d) ==
  /\ 1 <= Len(h) /\ Len(h) < Len(d)
  /\ \A k \in 1 .. Len(h) : h[k] = d[k]

\* The filter holds the start of the delimiter it waits for, and otherwise
\* nothing.
FilterOK(S, f) ==
  /\ f \in [state : {"passthrough", "buffering_open", "thinking",
                     "buffering_close", "output"},
            held : Seq(S), count : Nat, out : Seq(S)]
  /\ f.state = "buffering_open" => Starts(f.held, OPEN_TAG)
  /\ f.state = "buffering_close" => Starts(f.held, CLOSE_TAG)
  /\ f.state \notin {"buffering_open", "buffering_close"} => f.held = <<>>
  /\ Len(f.out) < OutputSize

LEMMA PrefixIs ==
  ASSUME NEW S, NEW D, NEW h \in Seq(S), NEW d \in Seq(D)
  PROVE  IsPrefix(h, d) <=>
           Len(h) <= Len(d) /\ \A k \in 1 .. Len(h) : h[k] = d[k]
<1>1. Len(h) \in Nat /\ Len(d) \in Nat /\ SubSeq(h, 1, Len(h)) = h
  BY LenProperties, SubSeqFull
<1>2. ASSUME Len(h) <= Len(d)
      PROVE  SubSeq(d, 1, Len(h)) = h <=>
               \A k \in 1 .. Len(h) : h[k] = d[k]
  <2> DEFINE p == SubSeq(d, 1, Len(h))
  <2>1. /\ 1 \in 1 .. Len(d) + 1 /\ Len(h) \in 1 - 1 .. Len(d)
        /\ Len(h) - 1 + 1 = Len(h)
    BY <1>1, <1>2
  <2>2. /\ p \in Seq(D) /\ Len(p) = Len(h)
        /\ \A k \in 1 .. Len(h) : p[k] = d[1 + k - 1]
    BY <2>1, SubSeqElements
  <2>3. \A k \in 1 .. Len(h) : 1 + k - 1 = k
    BY <1>1
  <2> HIDE DEF p
  <2>4. ASSUME \A k \in 1 .. Len(h) : h[k] = d[k]
        PROVE  h = p
    <3>1. /\ h \in Seq(S) /\ Len(h) = Len(p)
          /\ \A k \in 1 .. Len(p) : h[k] = p[k]
      BY <2>2, <2>3, <2>4
    <3> QED
      BY <2>2, <3>1, SameSymbols
  <2> QED
    BY <2>2, <2>3, <2>4 DEF p
<1> QED
  BY <1>1, <1>2 DEF IsPrefix

\* The start of a delimiter and the symbol that follows it.
LEMMA StartGoesOn ==
  ASSUME NEW S, NEW D, NEW h \in Seq(S), NEW d \in Seq(D), Starts(h, d),
         NEW c
  PROVE  /\ Append(h, c) = d <=> Len(h) + 1 = Len(d) /\ c = d[Len(h) + 1]
         /\ IsPrefix(Append(h, c), d) <=> c = d[Len(h) + 1]
         /\ c = d[Len(h) + 1] /\ Append(h, c) # d => Starts(Append(h, c), d)
<1> DEFINE g == Append(h, c)
           n == Len(h)
           T == S \union {c}
<1>1. Len(h) \in Nat /\ Len(d) \in Nat /\ 1 <= n /\ n + 1 <= Len(d)
  BY LenProperties DEF Starts
<1>2. h \in Seq(T) /\ c \in T
  BY SeqMonotonic
<1>3. /\ g \in Seq(T) /\ Len(g) = n + 1 /\ g[n + 1] = c
      /\ \A k \in 1 .. n : g[k] = h[k]
  <2> HIDE DEF T
  <2> QED
    BY <1>2, AppendProperties
<1> HIDE DEF g, T
<1>4. (\A k \in 1 .. n + 1 : g[k] = d[k]) <=> c = d[n + 1]
  <2>1. /\ n + 1 \in 1 .. n + 1
        /\ \A k \in 1 .. n + 1 : k = n + 1 \/ k \in 1 .. n
    BY <1>1
  <2>2. \A k \in 1 .. n : g[k] = d[k]
    BY <1>3 DEF Starts
  <2> HIDE DEF n
  <2> QED
    BY <1>3, <2>1, <2>2
<1>5. IsPrefix(g, d) <=> c = d[n + 1]
  <2>1. IsPrefix(g, d) <=>
          Len(g) <= Len(d) /\ \A k \in 1 .. Len(g) : g[k] = d[k]
    BY <1>3, PrefixIs, Z3
  <2> QED
    BY <1>1, <1>3, <1>4, <2>1
<1>6. g = d <=> n + 1 = Len(d) /\ c = d[n + 1]
  <2>1. ASSUME n + 1 = Len(d), c = d[n + 1]
        PROVE  g = d
    <3>1. Len(g) = Len(d) /\ \A k \in 1 .. Len(d) : g[k] = d[k]
      BY <1>3, <1>4, <2>1
    <3>2. d \in Seq(D)
      OBVIOUS
    <3> QED
      BY <1>3, <3>1, <3>2, SameSymbols
  <2>2. g = d => n + 1 = Len(d) /\ c = d[n + 1]
    BY <1>3
  <2> QED
    BY <2>1, <2>2
<1>7. ASSUME c = d[n + 1], g # d
      PROVE  Starts(g, d)
  <2>1. n + 1 < Len(d)
    BY <1>1, <1>6, <1>7
  <2> QED
    BY <1>1, <1>3, <1>4, <1>7, <2>1 DEF Starts
<1> QED
  BY <1>5, <1>6, <1>7 DEF g

LEMMA FilterParts ==
  ASSUME NEW S, NEW f, FilterOK(S, f)
  PROVE  /\ f.held \in Seq(S) /\ Len(f.held) \in Nat
         /\ f.out \in Seq(S) /\ Len(f.out) \in Nat /\ f.count \in Nat
         /\ f.state \in {"passthrough", "buffering_open", "thinking",
                         "buffering_close", "output"}
BY LenProperties DEF FilterOK

LEMMA Appends ==
  ASSUME NEW S, NEW h \in Seq(S), NEW c \in S
  PROVE  /\ Append(h, c) \in Seq(S) /\ Len(Append(h, c)) = Len(h) + 1
         /\ Append(h, c)[Len(h) + 1] = c
         /\ \A k \in 1 .. Len(h) : Append(h, c)[k] = h[k]
BY AppendProperties

LEMMA EmitKeeps ==
  ASSUME NEW S, NEW f, FilterOK(S, f), NEW x \in Seq(S)
  PROVE  /\ Emit(f, x).state = f.state /\ Emit(f, x).held = f.held
         /\ Emit(f, x).count = f.count /\ Emit(f, x).out \in Seq(S)
         /\ Len(Emit(f, x).out) < OutputSize
         /\ Len(f.out) + Len(x) < OutputSize => Emit(f, x).out = f.out \o x
         /\ FilterOK(S, Emit(f, x))
<1> DEFINE e == Emit(f, x)
           o == f.out
<1>1. o \in Seq(S) /\ Len(o) < OutputSize
  BY DEF FilterOK
<1>2. o \o x \in Seq(S) /\ Len(o \o x) = Len(o) + Len(x)
  <2> HIDE DEF o
  <2> QED
    BY <1>1, ConcatProperties
<1>3. CASE Len(o) + Len(x) < OutputSize
  <2>1. e = [f EXCEPT !.out = o \o x]
    BY <1>3 DEF Emit
  <2> HIDE DEF e, o
  <2>2. /\ e.state = f.state /\ e.held = f.held /\ e.count = f.count
        /\ e.out = o \o x
        /\ e \in [state : {"passthrough", "buffering_open", "thinking",
                           "buffering_close", "output"},
                  held : Seq(S), count : Nat, out : Seq(S)]
    BY <1>2, <2>1 DEF FilterOK
  <2> QED
    BY <1>2, <1>3, <2>2 DEF FilterOK, e, o
<1>4. CASE ~(Len(o) + Len(x) < OutputSize)
  <2>1. e = f
    BY <1>4 DEF Emit
  <2> QED
    BY <1>1, <1>4, <2>1
<1> QED
  BY <1>3, <1>4

LEMMA EnterKeeps ==
  ASSUME NEW S, NEW f, FilterOK(S, f),
         NEW state \in {"passthrough", "thinking", "output"}
  PROVE  /\ FilterOK(S, Enter(f, state)) /\ Enter(f, state).count = f.count
         /\ Enter(f, state).state = state /\ Enter(f, state).held = <<>>
         /\ Enter(f, state).out = f.out
<1> DEFINE e == Enter(f, state)
<1>0. <<>> \in Seq(S)
  BY EmptySeq
<1>1. /\ e.state = state /\ e.held = <<>> /\ e.count = f.count
      /\ e.out = f.out
      /\ e \in [state : {"passthrough", "buffering_open", "thinking",
                         "buffering_close", "output"},
                held : Seq(S), count : Nat, out : Seq(S)]
  BY <1>0 DEF FilterOK, Enter
<1> HIDE DEF e
<1>2. FilterOK(S, e)
  BY <1>1 DEF FilterOK
<1> QED
  BY <1>1, <1>2 DEF e

LEMMA HoldKeeps ==
  ASSUME NEW S, NEW f, FilterOK(S, f), NEW h \in Seq(S), NEW state,
         \/ state = "buffering_open" /\ Starts(h, OPEN_TAG)
         \/ state = "buffering_close" /\ Starts(h, CLOSE_TAG)
  PROVE  /\ FilterOK(S, Hold(f, state, h))
         /\ Hold(f, state, h).count = f.count
         /\ Hold(f, state, h).state = state /\ Hold(f, state, h).held = h
         /\ Hold(f, state, h).out = f.out
<1> DEFINE e == Hold(f, state, h)
<1>1. /\ e.state = state /\ e.held = h /\ e.count = f.count
      /\ e.out = f.out
      /\ e \in [state : {"passthrough", "buffering_open", "thinking",
                         "buffering_close", "output"},
                held : Seq(S), count : Nat, out : Seq(S)]
  BY DEF FilterOK, Hold
<1> HIDE DEF e
<1>2. FilterOK(S, e)
  BY <1>1 DEF FilterOK
<1> QED
  BY <1>1, <1>2 DEF e

\* The two tags of the filter.
LEMMA FilterTags ==
  ASSUME NEW d \in {OPEN_TAG, CLOSE_TAG}
  PROVE  d \in Seq(STRING) /\ Len(d) \in Nat /\ 2 <= Len(d) /\ d[1] = "<"
<1>1. d \in Seq(STRING) /\ Len(d) \in 2 .. 15 /\ d[1] = "<"
  BY ThinkAssumption, Zenon
<1>2. ASSUME NEW n, n \in 2 .. 15
      PROVE  n \in Nat /\ 2 <= n
  BY <1>2
<1> QED
  BY <1>1, <1>2, Zenon

LEMMA Bracket ==
  ASSUME NEW d \in {OPEN_TAG, CLOSE_TAG}
  PROVE  Starts(<<"<">>, d)
<1> DEFINE h == <<"<">>
<1>1. Len(h) = 1 /\ h[1] = "<" /\ 1 .. 1 = {1}
  OBVIOUS
<1>2. Len(d) \in Nat /\ 2 <= Len(d) /\ d[1] = "<"
  BY FilterTags
<1> HIDE DEF h
<1>3. Starts(h, d)
  BY <1>1, <1>2 DEF Starts
<1> QED
  BY <1>3 DEF h

LEMMA SymbolIs ==
  ASSUME NEW f, NEW c
  PROVE  /\ f.state = "passthrough" => Symbol(f, c) = Passthrough(f, c)
         /\ f.state = "buffering_open" => Symbol(f, c) = BufferingOpen(f, c)
         /\ f.state = "thinking" => Symbol(f, c) = Thinking(f, c)
         /\ f.state = "buffering_close" =>
              Symbol(f, c) = BufferingClose(f, c)
         /\ f.state = "output" => Symbol(f, c) = Emit(f, <<c>>)
BY DEF Symbol

\* One symbol, in each state of the filter.
LEMMA PassthroughIs ==
  ASSUME NEW S, NEW f, FilterOK(S, f), f.state = "passthrough", NEW c \in S
  PROVE  /\ c = "<" => Symbol(f, c) = Hold(f, "buffering_open", <<"<">>)
         /\ c # "<" => Symbol(f, c) = Emit(f, <<c>>)
         /\ FilterOK(S, Symbol(f, c)) /\ Symbol(f, c).count = f.count
<1> DEFINE x == <<c>>
           h == <<"<">>
<1>1. /\ c = "<" => x = h /\ Symbol(f, c) = Hold(f, "buffering_open", h)
      /\ c # "<" => Symbol(f, c) = Emit(f, x)
  BY SymbolIs DEF Passthrough
<1>2. x \in Seq(S) /\ Starts(h, OPEN_TAG)
  BY Bracket
<1> HIDE DEF x, h
<1>3. CASE c = "<"
  <2>1. h \in Seq(S)
    BY <1>1, <1>2, <1>3
  <2>2. /\ FilterOK(S, Hold(f, "buffering_open", h))
        /\ Hold(f, "buffering_open", h).count = f.count
    BY <1>2, <2>1, HoldKeeps, Z3
  <2> QED
    BY <1>1, <1>3, <2>2 DEF x, h
<1>4. CASE c # "<"
  <2>1. FilterOK(S, Emit(f, x)) /\ Emit(f, x).count = f.count
    BY <1>2, EmitKeeps, Z3
  <2> QED
    BY <1>1, <1>4, <2>1 DEF x, h
<1> QED
  BY <1>3, <1>4

LEMMA BufferingOpenIs ==
  ASSUME NEW S, NEW f, FilterOK(S, f), f.state = "buffering_open",
         NEW c \in S
  PROVE  /\ Append(f.held, c) \in Seq(S)
         /\ \/ /\ c = OPEN_TAG[Len(f.held) + 1]
               /\ Len(f.held) + 1 = Len(OPEN_TAG)
               /\ Symbol(f, c) = Enter(f, "thinking")
            \/ /\ c = OPEN_TAG[Len(f.held) + 1]
               /\ Len(f.held) + 1 < Len(OPEN_TAG)
               /\ Symbol(f, c)
                    = Hold(f, "buffering_open", Append(f.held, c))
               /\ Starts(Append(f.held, c), OPEN_TAG)
            \/ /\ c # OPEN_TAG[Len(f.held) + 1]
               /\ Symbol(f, c)
                    = Enter(Emit(f, Append(f.held, c)), "passthrough")
         /\ FilterOK(S, Symbol(f, c)) /\ Symbol(f, c).count = f.count
<1> DEFINE h == f.held
           d == OPEN_TAG
           g == Append(h, c)
<1>1. h \in Seq(S) /\ Starts(h, d) /\ g \in Seq(S) /\ Len(h) \in Nat
  <2>1. h \in Seq(S) /\ Len(h) \in Nat
    BY FilterParts
  <2>2. Starts(h, d)
    BY DEF FilterOK
  <2> HIDE DEF h
  <2> QED
    BY <2>1, <2>2, Appends
<1>2. d \in Seq(STRING) /\ Len(d) \in Nat
  BY FilterTags
<1>3. Symbol(f, c) = IF g = d THEN Enter(f, "thinking")
                     ELSE IF IsPrefix(g, d) THEN Hold(f, "buffering_open", g)
                     ELSE Enter(Emit(f, g), "passthrough")
  BY SymbolIs DEF BufferingOpen
<1> HIDE DEF h, d
<1>4. /\ g = d <=> Len(h) + 1 = Len(d) /\ c = d[Len(h) + 1]
      /\ IsPrefix(g, d) <=> c = d[Len(h) + 1]
      /\ c = d[Len(h) + 1] /\ g # d => Starts(g, d)
  <2>1. h \in Seq(S) /\ d \in Seq(STRING) /\ Starts(h, d)
    BY <1>1, <1>2
  <2> QED
    BY <2>1, StartGoesOn, Z3
<1> HIDE DEF g
<1>5. Len(h) + 1 = Len(d) \/ Len(h) + 1 < Len(d)
  BY <1>1, <1>2 DEF Starts
<1>6. \/ /\ c = d[Len(h) + 1] /\ Len(h) + 1 = Len(d)
         /\ Symbol(f, c) = Enter(f, "thinking")
      \/ /\ c = d[Len(h) + 1] /\ Len(h) + 1 < Len(d)
         /\ Symbol(f, c) = Hold(f, "buffering_open", g)
         /\ Starts(g, d)
      \/ /\ c # d[Len(h) + 1]
         /\ Symbol(f, c) = Enter(Emit(f, g), "passthrough")
  BY <1>3, <1>4, <1>5, Zenon
<1>7. FilterOK(S, Symbol(f, c)) /\ Symbol(f, c).count = f.count
  <2>1. CASE Symbol(f, c) = Enter(f, "thinking")
    BY <2>1, EnterKeeps
  <2>2. CASE /\ Symbol(f, c) = Hold(f, "buffering_open", g)
             /\ Starts(g, d)
    BY <1>1, <2>2, HoldKeeps DEF d
  <2>3. CASE Symbol(f, c) = Enter(Emit(f, g), "passthrough")
    <3>1. FilterOK(S, Emit(f, g)) /\ Emit(f, g).count = f.count
      BY <1>1, EmitKeeps
    <3> QED
      BY <2>3, <3>1, EnterKeeps
  <2> QED
    BY <1>6, <2>1, <2>2, <2>3
<1> QED
  BY <1>1, <1>6, <1>7 DEF g, h, d

LEMMA ThinkingIs ==
  ASSUME NEW S, NEW f, FilterOK(S, f), f.state = "thinking", NEW c \in S
  PROVE  /\ FilterOK(S, Symbol(f, c)) /\ Symbol(f, c).count = f.count + 1
         /\ Symbol(f, c).out = f.out
         /\ c = "<" => /\ Symbol(f, c).state = "buffering_close"
                       /\ Symbol(f, c).held = <<"<">>
         /\ c # "<" => Symbol(f, c).state = "thinking"
<1> DEFINE g == [f EXCEPT !.count = @ + 1]
<1>1. Symbol(f, c) = IF c = "<" THEN Hold(g, "buffering_close", <<"<">>)
                     ELSE g
  BY SymbolIs DEF Thinking
<1>2. /\ g.state = "thinking" /\ g.out = f.out /\ g.held = f.held
      /\ g.count = f.count + 1
      /\ g \in [state : {"passthrough", "buffering_open", "thinking",
                         "buffering_close", "output"},
                held : Seq(S), count : Nat, out : Seq(S)]
  BY DEF FilterOK
<1> HIDE DEF g
<1>3. FilterOK(S, g)
  BY <1>2 DEF FilterOK
<1>4. CASE c = "<"
  <2> DEFINE h == <<"<">>
  <2>1. h \in Seq(S) /\ Starts(h, CLOSE_TAG)
    BY <1>4, Bracket
  <2>2. Symbol(f, c) = Hold(g, "buffering_close", h)
    BY <1>1, <1>4
  <2> HIDE DEF h
  <2>3. /\ FilterOK(S, Hold(g, "buffering_close", h))
        /\ Hold(g, "buffering_close", h).count = g.count
        /\ Hold(g, "buffering_close", h).state = "buffering_close"
        /\ Hold(g, "buffering_close", h).held = h
        /\ Hold(g, "buffering_close", h).out = g.out
    BY <1>3, <2>1, HoldKeeps, Z3
  <2> QED
    BY <1>2, <1>4, <2>2, <2>3 DEF h
<1>5. CASE c # "<"
  BY <1>1, <1>2, <1>3, <1>5
<1> QED
  BY <1>4, <1>5

LEMMA BufferingCloseIs ==
  ASSUME NEW S, NEW f, FilterOK(S, f), f.state = "buffering_close",
         NEW c \in S
  PROVE  /\ \/ /\ c = CLOSE_TAG[Len(f.held) + 1]
               /\ Len(f.held) + 1 = Len(CLOSE_TAG)
               /\ Symbol(f, c) = Enter(f, "output")
            \/ /\ c = CLOSE_TAG[Len(f.held) + 1]
               /\ Len(f.held) + 1 < Len(CLOSE_TAG)
               /\ Symbol(f, c)
                    = Hold(f, "buffering_close", Append(f.held, c))
               /\ Starts(Append(f.held, c), CLOSE_TAG)
            \/ /\ c # CLOSE_TAG[Len(f.held) + 1]
               /\ Symbol(f, c) = Enter(f, "thinking")
         /\ FilterOK(S, Symbol(f, c)) /\ Symbol(f, c).count = f.count
         /\ Symbol(f, c).out = f.out
<1> DEFINE h == f.held
           d == CLOSE_TAG
           g == Append(h, c)
<1>1. h \in Seq(S) /\ Starts(h, d) /\ g \in Seq(S) /\ Len(h) \in Nat
  <2>1. h \in Seq(S) /\ Len(h) \in Nat
    BY FilterParts
  <2>2. Starts(h, d)
    BY DEF FilterOK
  <2> HIDE DEF h
  <2> QED
    BY <2>1, <2>2, Appends
<1>2. d \in Seq(STRING) /\ Len(d) \in Nat
  BY FilterTags
<1>3. Symbol(f, c) = IF g = d THEN Enter(f, "output")
                     ELSE IF IsPrefix(g, d)
                            THEN Hold(f, "buffering_close", g)
                     ELSE Enter(f, "thinking")
  BY SymbolIs DEF BufferingClose
<1> HIDE DEF h, d
<1>4. /\ g = d <=> Len(h) + 1 = Len(d) /\ c = d[Len(h) + 1]
      /\ IsPrefix(g, d) <=> c = d[Len(h) + 1]
      /\ c = d[Len(h) + 1] /\ g # d => Starts(g, d)
  <2>1. h \in Seq(S) /\ d \in Seq(STRING) /\ Starts(h, d)
    BY <1>1, <1>2
  <2> QED
    BY <2>1, StartGoesOn, Z3
<1> HIDE DEF g
<1>5. Len(h) + 1 = Len(d) \/ Len(h) + 1 < Len(d)
  BY <1>1, <1>2 DEF Starts
<1>6. \/ /\ c = d[Len(h) + 1] /\ Len(h) + 1 = Len(d)
         /\ Symbol(f, c) = Enter(f, "output")
      \/ /\ c = d[Len(h) + 1] /\ Len(h) + 1 < Len(d)
         /\ Symbol(f, c) = Hold(f, "buffering_close", g)
         /\ Starts(g, d)
      \/ /\ c # d[Len(h) + 1]
         /\ Symbol(f, c) = Enter(f, "thinking")
  BY <1>3, <1>4, <1>5, Zenon
<1>7. /\ FilterOK(S, Symbol(f, c)) /\ Symbol(f, c).count = f.count
      /\ Symbol(f, c).out = f.out
  <2>1. ASSUME NEW state \in {"thinking", "output"},
               Symbol(f, c) = Enter(f, state)
        PROVE  /\ FilterOK(S, Symbol(f, c)) /\ Symbol(f, c).count = f.count
               /\ Symbol(f, c).out = f.out
    BY <2>1, EnterKeeps
  <2>2. CASE /\ Symbol(f, c) = Hold(f, "buffering_close", g)
             /\ Starts(g, d)
    BY <1>1, <2>2, HoldKeeps DEF d
  <2> QED
    BY <1>6, <2>1, <2>2
<1> QED
  BY <1>6, <1>7 DEF g, h, d

LEMMA SymbolKeeps ==
  ASSUME NEW S, NEW f, FilterOK(S, f), NEW c \in S
  PROVE  /\ FilterOK(S, Symbol(f, c))
         /\ Symbol(f, c).count \in {f.count, f.count + 1}
<1>1. CASE f.state = "output"
  <2> DEFINE x == <<c>>
  <2>1. x \in Seq(S) /\ Symbol(f, c) = Emit(f, x)
    BY <1>1, SymbolIs
  <2> HIDE DEF x
  <2>2. FilterOK(S, Emit(f, x)) /\ Emit(f, x).count = f.count
    BY <2>1, EmitKeeps, Z3
  <2> QED
    BY <2>1, <2>2
<1>2. CASE f.state = "passthrough"
  <2>1. FilterOK(S, Symbol(f, c)) /\ Symbol(f, c).count = f.count
    BY <1>2, PassthroughIs, Zenon
  <2> QED
    BY <2>1
<1>3. CASE f.state = "buffering_open"
  BY <1>3, BufferingOpenIs, Z3
<1>4. CASE f.state = "thinking"
  BY <1>4, ThinkingIs, Z3
<1>5. CASE f.state = "buffering_close"
  BY <1>5, BufferingCloseIs, Z3
<1> QED
  BY <1>1, <1>2, <1>3, <1>4, <1>5, FilterParts

-----------------------------------------------------------------------------
(* The thought filter: what a piece does.                                  *)

Cleared(f) == [f EXCEPT !.out = <<>>]

\* h[n] is the filter after n symbols of the piece.
Scanned(h, f, piece, n) ==
  h = [m \in 0 .. n |-> IF m = 0 THEN Cleared(f)
                        ELSE Symbol(h[m - 1], piece[m])]

LEMMA ScannedExists ==
  ASSUME NEW f, NEW piece, NEW n \in Nat
  PROVE  \E h : Scanned(h, f, piece, n)
<1> DEFINE T == {m \in Nat : \E h : Scanned(h, f, piece, m)}
<1>1. 0 \in T
  <2> DEFINE h == [m \in 0 .. 0 |-> Cleared(f)]
  <2>1. h = [m \in 0 .. 0 |-> IF m = 0 THEN Cleared(f)
                              ELSE Symbol(h[m - 1], piece[m])]
    OBVIOUS
  <2> HIDE DEF h
  <2> QED
    BY <2>1 DEF Scanned
<1>2. ASSUME NEW m \in Nat, m \in T
      PROVE  m + 1 \in T
  <2>1. PICK h : Scanned(h, f, piece, m)
    BY <1>2
  <2> DEFINE g == [k \in 0 .. m + 1 |->
                     IF k = m + 1 THEN Symbol(h[m], piece[m + 1]) ELSE h[k]]
  <2>2. ASSUME NEW k \in 0 .. m + 1
        PROVE  g[k] = IF k = 0 THEN Cleared(f)
                      ELSE Symbol(g[k - 1], piece[k])
    <3>1. CASE k = m + 1
      <4>1. g[k] = Symbol(h[m], piece[m + 1]) /\ k # 0 /\ k - 1 = m
        BY <3>1
      <4>2. g[m] = h[m]
        OBVIOUS
      <4> HIDE DEF g
      <4> QED
        BY <3>1, <4>1, <4>2
    <3>2. CASE k # m + 1
      <4>1. g[k] = h[k] /\ k \in 0 .. m
        BY <3>2
      <4>2. h[k] = IF k = 0 THEN Cleared(f) ELSE Symbol(h[k - 1], piece[k])
        BY <2>1, <4>1 DEF Scanned
      <4>3. k # 0 => g[k - 1] = h[k - 1]
        BY <4>1
      <4> HIDE DEF g
      <4> QED
        BY <4>1, <4>2, <4>3
    <3> QED
      BY <3>1, <3>2
  <2>3. Scanned(g, f, piece, m + 1)
    <3> DEFINE e == [k \in 0 .. m + 1 |-> IF k = 0 THEN Cleared(f)
                                          ELSE Symbol(g[k - 1], piece[k])]
    <3>1. DOMAIN g = 0 .. m + 1 /\ g = [k \in DOMAIN g |-> g[k]]
      OBVIOUS
    <3>2. g = e
      <4> HIDE DEF g
      <4> QED
        BY <2>2, <3>1
    <3> HIDE DEF g
    <3> QED
      BY <3>2 DEF Scanned
  <2> QED
    BY <2>3
<1>3. Nat \subseteq T
  <2> HIDE DEF T
  <2> QED
    BY <1>1, <1>2, Induction
<1> QED
  BY <1>3

\* The recursion of Filtered(), symbol by symbol.
LEMMA FilteredIs ==
  ASSUME NEW f, NEW piece, Len(piece) \in Nat
  PROVE  \E h : /\ h[0] = Cleared(f)
                /\ \A n \in 1 .. Len(piece) :
                     h[n] = Symbol(h[n - 1], piece[n])
                /\ Filtered(f, piece) = h[Len(piece)]
<1> DEFINE after[n \in 0 .. Len(piece)] ==
             IF n = 0 THEN Cleared(f) ELSE Symbol(after[n - 1], piece[n])
<1>1. Filtered(f, piece) = after[Len(piece)]
  BY DEF Filtered, Cleared
<1>2. Scanned(after, f, piece, Len(piece))
  <2>1. \E h : Scanned(h, f, piece, Len(piece))
    BY ScannedExists
  <2>2. after = CHOOSE h : Scanned(h, f, piece, Len(piece))
    BY DEF Scanned
  <2> HIDE DEF after
  <2> QED
    BY <2>1, <2>2
<1> HIDE DEF after
<1>3. /\ after[0] = Cleared(f)
      /\ \A n \in 1 .. Len(piece) :
           after[n] = Symbol(after[n - 1], piece[n])
  <2>1. ASSUME NEW n \in 0 .. Len(piece)
        PROVE  after[n] = IF n = 0 THEN Cleared(f)
                          ELSE Symbol(after[n - 1], piece[n])
    BY <1>2 DEF Scanned
  <2> QED
    BY <2>1
<1> QED
  BY <1>1, <1>3

LEMMA ClearedKeeps ==
  ASSUME NEW S, NEW f, FilterOK(S, f)
  PROVE  /\ FilterOK(S, Cleared(f)) /\ Cleared(f).out = <<>>
         /\ Cleared(f).state = f.state /\ Cleared(f).held = f.held
         /\ Cleared(f).count = f.count
<1> DEFINE e == Cleared(f)
<1>1. <<>> \in Seq(S) /\ Len(<<>>) = 0
  BY EmptySeq
<1>2. /\ e.state = f.state /\ e.held = f.held /\ e.count = f.count
      /\ e.out = <<>>
      /\ e \in [state : {"passthrough", "buffering_open", "thinking",
                         "buffering_close", "output"},
                held : Seq(S), count : Nat, out : Seq(S)]
  BY <1>1 DEF FilterOK, Cleared
<1> HIDE DEF e
<1>3. Len(e.out) < OutputSize
  BY <1>1, <1>2, SizesAssumption
<1>4. FilterOK(S, e)
  BY <1>2, <1>3 DEF FilterOK
<1> QED
  BY <1>2, <1>4 DEF e

LEMMA FilteredKeeps ==
  ASSUME NEW S, NEW f, FilterOK(S, f), NEW piece \in Seq(S)
  PROVE  /\ FilterOK(S, Filtered(f, piece))
         /\ Filtered(f, piece).count <= f.count + Len(piece)
<1>1. Len(piece) \in Nat /\ \A n \in 1 .. Len(piece) : piece[n] \in S
  BY LenProperties, ElementOfSeq
<1>2. PICK h : /\ h[0] = Cleared(f)
               /\ \A n \in 1 .. Len(piece) : h[n] = Symbol(h[n - 1], piece[n])
               /\ Filtered(f, piece) = h[Len(piece)]
  BY <1>1, FilteredIs
<1> DEFINE OK(n) == FilterOK(S, h[n]) /\ h[n].count <= f.count + n
           T == {n \in Nat : n <= Len(piece) => OK(n)}
<1>3. 0 \in T
  <2>1. FilterOK(S, h[0]) /\ h[0].count = f.count /\ f.count \in Nat
    BY <1>2, ClearedKeeps, FilterParts
  <2> QED
    BY <2>1
<1>4. ASSUME NEW n \in Nat, n \in T
      PROVE  n + 1 \in T
  <2>1. SUFFICES ASSUME n + 1 <= Len(piece)
                 PROVE  OK(n + 1)
    OBVIOUS
  <2>2. OK(n) /\ n + 1 \in 1 .. Len(piece) /\ n + 1 - 1 = n
    BY <1>1, <1>4, <2>1
  <2>3. h[n + 1] = Symbol(h[n], piece[n + 1]) /\ piece[n + 1] \in S
    BY <1>1, <1>2, <2>2
  <2>4. /\ FilterOK(S, h[n + 1])
        /\ h[n + 1].count \in {h[n].count, h[n].count + 1}
    BY <2>2, <2>3, SymbolKeeps
  <2>5. h[n].count \in Nat /\ f.count \in Nat
    BY <2>2, FilterParts
  <2> QED
    BY <2>2, <2>4, <2>5
<1>5. Nat \subseteq T
  <2> HIDE DEF T
  <2> QED
    BY <1>3, <1>4, Induction
<1> QED
  BY <1>1, <1>2, <1>5

-----------------------------------------------------------------------------
(* What the interceptor keeps and takes is text of the buffer.             *)

LEMMA AppendedIs ==
  ASSUME NEW S, NEW b \in Seq(S), NEW p \in Seq(S), Len(b) <= BufferSize
  PROVE  /\ Appended(b, p) \in Seq(S) /\ Len(Appended(b, p)) <= BufferSize
         /\ ~IsCut(b, p) => Appended(b, p) = b \o p
<1> DEFINE n == BufferSize - Len(b)
           q == Fitting(p, n)
<1>1. Len(b) \in Nat /\ Len(p) \in Nat /\ n \in Nat
  BY LenProperties, SizesAssumption
<1>2. Len(b) + n = BufferSize /\ (~IsCut(b, p) => Len(p) <= n)
  BY <1>1, SizesAssumption DEF IsCut
<1> HIDE DEF n
<1>3. /\ q \in Seq(S) /\ Len(q) <= n /\ Len(q) \in Nat
      /\ Len(p) <= n => q = p
  BY <1>1, FittingIs
<1>4. Appended(b, p) = b \o q
  BY DEF Appended, n
<1> HIDE DEF q
<1>5. b \o q \in Seq(S) /\ Len(b \o q) = Len(b) + Len(q)
  BY <1>3, Joined
<1> QED
  BY <1>1, <1>2, <1>3, <1>4, <1>5

LEMMA InnerIs ==
  ASSUME NEW S, NEW s \in Seq(S)
  PROVE  Inner(s) \in Seq(S) /\ Len(Inner(s)) < TagSize
<1>1. TagSize - 1 \in Nat /\ TagSize \in Nat
  BY SizesAssumption
<1>2. /\ Fitting(s, TagSize - 1) \in Seq(S)
      /\ Len(Fitting(s, TagSize - 1)) <= TagSize - 1
      /\ Len(Fitting(s, TagSize - 1)) \in Nat
  BY <1>1, FittingIs
<1> QED
  BY <1>1, <1>2 DEF Inner

LEMMA TakenTyped ==
  ASSUME NEW S, NEW b \in Seq(S), Complete(b) # {}
  PROVE  /\ Taken(b).tag \in Range(Tags) /\ Taken(b).text \in Seq(S)
         /\ Len(Taken(b).text) < TagSize
         /\ Taken(b).rest \in Seq(S) /\ Len(Taken(b).rest) <= Len(b)
<1>1. PICK t \in Range(Tags), i \in Nat, j \in Nat :
        /\ OpenAt(b, t, i) /\ CloseAt(b, t, j) /\ i + 3 <= j
        /\ Taken(b) = [tag |-> t, text |-> Inner(SubSeq(b, i + 3, j - 1)),
                       rest |-> SubSeq(b, j + 4, Len(b))]
  BY TakenIs
<1>2. /\ Len(b) \in Nat /\ i + 3 \in 1 .. Len(b) + 1
      /\ j - 1 \in (i + 3) - 1 .. Len(b)
      /\ j + 4 \in 1 .. Len(b) + 1 /\ Len(b) \in (j + 4) - 1 .. Len(b)
  BY <1>1, LenProperties DEF CloseAt
<1>3. SubSeq(b, i + 3, j - 1) \in Seq(S)
  BY <1>2, SubSeqElements
<1>4. /\ SubSeq(b, j + 4, Len(b)) \in Seq(S)
      /\ Len(SubSeq(b, j + 4, Len(b))) = Len(b) - (j + 4) + 1
  BY <1>2, SubSeqElements
<1>5. /\ Inner(SubSeq(b, i + 3, j - 1)) \in Seq(S)
      /\ Len(Inner(SubSeq(b, i + 3, j - 1))) < TagSize
  BY <1>3, InnerIs
<1>6. Len(b) - (j + 4) + 1 <= Len(b)
  BY <1>1, <1>2
<1> QED
  BY <1>1, <1>4, <1>5, <1>6
=============================================================================
