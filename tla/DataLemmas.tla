------------------------------ MODULE DataLemmas ------------------------------
(***************************************************************************)
(* Facts that the proofs about several modules need: least and greatest    *)
(* elements of sets of natural numbers, division with remainder, and what  *)
(* putting an element into a sequence, or taking one out, gives.           *)
(***************************************************************************)
EXTENDS Integers, Sequences, SequencesExt, FiniteSetsExt, SequenceTheorems,
        WellFoundedInduction, TLAPS

LEMMA LeastNatural ==
  ASSUME NEW S \in SUBSET Nat, S # {}
  PROVE  Min(S) \in S /\ \A x \in S : Min(S) <= x
  <1>1. PICK x \in S : \A y \in S : ~(<<y, x>> \in OpToRel(<, Nat))
    BY WFMin, NatLessThanWellFounded, Zenon
  <1>2. ASSUME NEW y \in S PROVE ~(y < x)
    <2>1. y \in Nat /\ x \in Nat OBVIOUS
    <2>2. y < x => <<y, x>> \in OpToRel(<, Nat) BY <2>1, Zenon DEF OpToRel
    <2> QED BY <1>1, <2>2, Zenon
  <1>3. \A y \in S : ~(y < x) BY <1>2, Zenon
  <1>4. \A y \in S : x <= y BY <1>3, SMT
  <1> QED BY <1>4 DEF Min

LEMMA GreatestNatural ==
  ASSUME NEW S \in SUBSET Nat, S # {}, NEW m \in Nat, \A x \in S : x <= m
  PROVE  Max(S) \in S /\ \A x \in S : x <= Max(S)
  <1> DEFINE U == {n \in Nat : \A x \in S : x <= n}
  <1>1. U \in SUBSET Nat /\ m \in U OBVIOUS
  <1>2. PICK u \in U : \A n \in U : u <= n BY <1>1, LeastNatural
  <1>3. u \in Nat /\ \A x \in S : x \in Nat /\ x <= u BY <1>2
  <1>4. u \in S
    <2> SUFFICES ASSUME u \notin S PROVE FALSE OBVIOUS
    <2>1. PICK x0 \in S : TRUE OBVIOUS
    <2>2. \A x \in S : x <= u - 1 BY <1>3
    <2>3. u - 1 \in Nat BY <1>3, <2>1, <2>2
    <2>4. u - 1 \in U BY <2>2, <2>3
    <2>5. u <= u - 1 BY <1>2, <2>4
    <2> QED BY <2>5, <1>3
  <1>5. \A x \in S : u >= x BY <1>3
  <1> QED BY <1>3, <1>4, <1>5 DEF Max

LEMMA SmallMultiple ==
  ASSUME NEW d \in Nat \ {0}, NEW k \in Int, d * k < d, d * k > -d
  PROVE  k = 0
  OBVIOUS

LEMMA Quotient ==
  ASSUME NEW d \in Nat \ {0}, NEW x \in Int
  PROVE  x \div d \in Int
  OBVIOUS

LEMMA Division ==
  ASSUME NEW d \in Nat \ {0}, NEW x \in Int, NEW q \in Int, q = x \div d, NEW r \in Int, r = x % d
  PROVE  x = d * q + r
  OBVIOUS

(* Quotient and remainder are unique.                                      *)
LEMMA DivisionUnique ==
  ASSUME NEW d \in Nat \ {0}, NEW q \in Int, NEW r \in 0 .. d - 1
  PROVE  (d * q + r) \div d = q /\ (d * q + r) % d = r
  <1>1. d * q \in Int OBVIOUS
  <1>2. PICK x \in Int : x = d * q + r BY <1>1
  <1>3. PICK p \in Int : p = x \div d BY Quotient
  <1>4. PICK s \in Int : s = x % d OBVIOUS
  <1>5. s \in 0 .. d - 1 BY <1>4
  <1>6. x = d * p + s BY <1>3, <1>4, Division
  <1>7. d * (p - q) = r - s
    <2>1. d * (p - q) = d * p - d * q OBVIOUS
    <2>2. d * p \in Int OBVIOUS
    <2> QED BY <1>1, <1>2, <1>5, <1>6, <2>1, <2>2
  <1>8. p - q = 0
    <2>1. p - q \in Int /\ d * (p - q) < d /\ d * (p - q) > -d BY <1>5, <1>7
    <2> QED BY <2>1, SmallMultiple
  <1>9. p = q BY <1>8
  <1>10. s = r BY <1>1, <1>2, <1>5, <1>6, <1>9
  <1> QED BY <1>2, <1>3, <1>4, <1>9, <1>10

-----------------------------------------------------------------------------
(* A sequence is a function on the numbers up to its length.               *)
LEMMA SeqOfFunction ==
  ASSUME NEW T, NEW n \in Nat, NEW f \in [1 .. n -> T]
  PROVE  f \in Seq(T) /\ Len(f) = n
  OBVIOUS

(* An element is put in before the one at index i.                         *)
LEMMA InsertedAt ==
  ASSUME NEW S, NEW s \in Seq(S), NEW e \in S, NEW i \in 1 .. Len(s) + 1
  PROVE  /\ InsertAt(s, i, e) \in Seq(S)
         /\ Len(InsertAt(s, i, e)) = Len(s) + 1
         /\ \A k \in 1 .. Len(s) + 1 :
              InsertAt(s, i, e)[k] = IF k < i THEN s[k] ELSE IF k = i THEN e ELSE s[k - 1]
  <1> DEFINE a == SubSeq(s, 1, i - 1)
             c == SubSeq(s, i, Len(s))
  <1>1. Len(s) \in Nat BY LenProperties
  <1>2. a \in Seq(S) /\ Len(a) = i - 1 /\ \A k \in 1 .. i - 1 : a[k] = s[k]
    BY <1>1, SubSeqProperties
  <1>3. c \in Seq(S) /\ Len(c) = Len(s) - i + 1 /\ \A k \in 1 .. Len(s) - i + 1 : c[k] = s[i + k - 1]
    BY <1>1, SubSeqProperties
  <1>4. <<e>> \in Seq(S) /\ Len(<<e>>) = 1 /\ <<e>>[1] = e OBVIOUS
  <1> DEFINE d == a \o <<e>>
             r == d \o c
  <1> HIDE DEF a, c
  <1>5. d \in Seq(S) /\ Len(d) = i /\ \A k \in 1 .. i : d[k] = IF k <= i - 1 THEN a[k] ELSE e
    <2>1. /\ d \in Seq(S) /\ Len(d) = Len(a) + Len(<<e>>)
          /\ \A k \in 1 .. Len(a) + Len(<<e>>) : d[k] = IF k <= Len(a) THEN a[k] ELSE <<e>>[k - Len(a)]
      BY <1>2, <1>4, ConcatProperties
    <2> HIDE DEF d
    <2> QED BY <2>1, <1>1, <1>2, <1>4
  <1> HIDE DEF d
  <1>6. /\ r \in Seq(S) /\ Len(r) = Len(s) + 1
        /\ \A k \in 1 .. Len(s) + 1 : r[k] = IF k <= i THEN d[k] ELSE c[k - i]
    <2>1. /\ r \in Seq(S) /\ Len(r) = Len(d) + Len(c)
          /\ \A k \in 1 .. Len(d) + Len(c) : r[k] = IF k <= Len(d) THEN d[k] ELSE c[k - Len(d)]
      BY <1>3, <1>5, ConcatProperties
    <2>2. Len(d) = i /\ Len(d) + Len(c) = Len(s) + 1 BY <1>1, <1>3, <1>5
    <2> HIDE DEF r
    <2> QED BY <2>1, <2>2
  <1>7. InsertAt(s, i, e) = r BY Zenon DEF InsertAt, a, c, d
  <1> HIDE DEF r
  <1>8. ASSUME NEW k \in 1 .. Len(s) + 1
        PROVE  r[k] = IF k < i THEN s[k] ELSE IF k = i THEN e ELSE s[k - 1]
    <2>1. ASSUME k < i PROVE r[k] = s[k]
      BY <2>1, <1>1, <1>2, <1>5, <1>6
    <2>2. ASSUME k = i PROVE r[k] = e
      BY <2>2, <1>1, <1>5, <1>6
    <2>3. ASSUME k > i PROVE r[k] = s[k - 1]
      <3>1. k - i \in 1 .. Len(s) - i + 1 /\ i + (k - i) - 1 = k - 1 BY <2>3, <1>1
      <3>2. c[k - i] = s[k - 1] BY <3>1, <1>3
      <3>3. r[k] = c[k - i] BY <2>3, <1>1, <1>6
      <3> QED BY <3>2, <3>3
    <2> QED BY <2>1, <2>2, <2>3, <1>1
  <1> QED BY <1>6, <1>7, <1>8

(* The element at index i is taken out.                                    *)
LEMMA RemovedAt ==
  ASSUME NEW S, NEW s \in Seq(S), NEW i \in 1 .. Len(s)
  PROVE  /\ RemoveAt(s, i) \in Seq(S)
         /\ Len(RemoveAt(s, i)) = Len(s) - 1
         /\ \A k \in 1 .. Len(s) - 1 : RemoveAt(s, i)[k] = IF k < i THEN s[k] ELSE s[k + 1]
  <1> DEFINE a == SubSeq(s, 1, i - 1)
             c == SubSeq(s, i + 1, Len(s))
  <1>1. Len(s) \in Nat BY LenProperties
  <1>2. a \in Seq(S) /\ Len(a) = i - 1 /\ \A k \in 1 .. i - 1 : a[k] = s[k]
    BY <1>1, SubSeqProperties
  <1>3. c \in Seq(S) /\ Len(c) = Len(s) - i /\ \A k \in 1 .. Len(s) - i : c[k] = s[i + k]
    BY <1>1, SubSeqProperties
  <1> DEFINE r == a \o c
  <1> HIDE DEF a, c
  <1>4. /\ r \in Seq(S) /\ Len(r) = Len(s) - 1
        /\ \A k \in 1 .. Len(s) - 1 : r[k] = IF k <= i - 1 THEN a[k] ELSE c[k - (i - 1)]
    <2>1. /\ r \in Seq(S) /\ Len(r) = Len(a) + Len(c)
          /\ \A k \in 1 .. Len(a) + Len(c) : r[k] = IF k <= Len(a) THEN a[k] ELSE c[k - Len(a)]
      BY <1>2, <1>3, ConcatProperties
    <2>2. Len(a) = i - 1 /\ Len(a) + Len(c) = Len(s) - 1 BY <1>1, <1>2, <1>3
    <2> HIDE DEF r
    <2> QED BY <2>1, <2>2
  <1>5. RemoveAt(s, i) = r BY Zenon DEF RemoveAt, a, c
  <1> HIDE DEF r
  <1>6. ASSUME NEW k \in 1 .. Len(s) - 1 PROVE r[k] = IF k < i THEN s[k] ELSE s[k + 1]
    <2>1. ASSUME k < i PROVE r[k] = s[k] BY <2>1, <1>1, <1>2, <1>4
    <2>2. ASSUME k >= i PROVE r[k] = s[k + 1]
      <3>1. k - (i - 1) \in 1 .. Len(s) - i /\ i + (k - (i - 1)) = k + 1 BY <2>2, <1>1
      <3>2. c[k - (i - 1)] = s[k + 1] BY <3>1, <1>3
      <3>3. r[k] = c[k - (i - 1)] BY <2>2, <1>1, <1>4
      <3> QED BY <3>2, <3>3
    <2> QED BY <2>1, <2>2, <1>1
  <1> QED BY <1>4, <1>5, <1>6
=============================================================================
