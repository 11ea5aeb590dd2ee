--------------------------------- MODULE Ranks ---------------------------------
(***************************************************************************)
(* Ranks: tuples of natural numbers in lexicographic order.  The proofs of   *)
(* this project give every place of a call a rank which the call's own steps *)
(* lower, so that it takes finitely many of them.                          *)
(***************************************************************************)
EXTENDS WellFoundedInduction, TLAPS

\* Of two tuples of length n the one with less at the first difference.
Below(r, s, n) ==
  \E j \in 1..n : r[j] < s[j] /\ \A i \in 1..(j - 1) : r[i] = s[i]

\* Ranks cannot fall for ever.
LEMMA RanksEnd ==
  ASSUME NEW n \in Nat
  PROVE  ~ \E f \in [Nat -> [1..n -> Nat]] : \A k \in Nat : Below(f[k + 1], f[k], n)
<1> DEFINE R == OpToRel(<, Nat)
           L == LexProductOrdering(R, Nat, n)
<1>1. IsWellFoundedOn(L, [1..n -> Nat])
  BY NatLessThanWellFounded, WFLexProductOrdering
<1>2. ASSUME NEW r \in [1..n -> Nat], NEW s \in [1..n -> Nat], Below(r, s, n)
      PROVE  <<r, s>> \in L
  <2>1. \A a, b \in Nat : a < b => <<a, b>> \in R
    BY DEF OpToRel
  <2>2. PICK j \in 1..n : r[j] < s[j] /\ \A i \in 1..(j - 1) : r[i] = s[i]
    BY <1>2 DEF Below
  <2>3. <<r[j], s[j]>> \in R
    BY <2>1, <2>2
  <2> HIDE DEF R
  <2> QED BY <2>2, <2>3 DEF LexProductOrdering
<1> HIDE DEF L
<1>3. ASSUME NEW f \in [Nat -> [1..n -> Nat]], \A k \in Nat : Below(f[k + 1], f[k], n)
      PROVE  FALSE
  <2>1. \A k \in Nat : <<f[k + 1], f[k]>> \in L
    <3> SUFFICES ASSUME NEW k \in Nat PROVE <<f[k + 1], f[k]>> \in L
      OBVIOUS
    <3>1. f[k + 1] \in [1..n -> Nat] /\ f[k] \in [1..n -> Nat]
      OBVIOUS
    <3> QED BY <1>2, <1>3, <3>1
  <2> QED BY <1>1, <2>1 DEF IsWellFoundedOn
<1> QED BY <1>3

\* The order spelled out for the lengths in use.
LEMMA BelowOfThree ==
  ASSUME NEW r1, NEW r2, NEW r3, NEW s1, NEW s2, NEW s3,
         \/ r1 < s1
         \/ r1 = s1 /\ r2 < s2
         \/ r1 = s1 /\ r2 = s2 /\ r3 < s3
  PROVE  Below(<<r1, r2, r3>>, <<s1, s2, s3>>, 3)
<1>1. CASE r1 < s1
  <2>1. 1 \in 1..3 /\ 1..(1 - 1) = {}
    OBVIOUS
  <2> QED BY <1>1, <2>1 DEF Below
<1>2. CASE r1 = s1 /\ r2 < s2
  <2>1. 2 \in 1..3 /\ 1..(2 - 1) = {1}
    OBVIOUS
  <2> QED BY <1>2, <2>1 DEF Below
<1>3. CASE r1 = s1 /\ r2 = s2 /\ r3 < s3
  <2>1. 3 \in 1..3 /\ 1..(3 - 1) = {1, 2}
    OBVIOUS
  <2> QED BY <1>3, <2>1 DEF Below
<1> QED BY <1>1, <1>2, <1>3

LEMMA BelowOfFive ==
  ASSUME NEW r1, NEW r2, NEW r3, NEW r4, NEW r5,
         NEW s1, NEW s2, NEW s3, NEW s4, NEW s5,
         \/ r1 < s1
         \/ r1 = s1 /\ r2 < s2
         \/ r1 = s1 /\ r2 = s2 /\ r3 < s3
         \/ r1 = s1 /\ r2 = s2 /\ r3 = s3 /\ r4 < s4
         \/ r1 = s1 /\ r2 = s2 /\ r3 = s3 /\ r4 = s4 /\ r5 < s5
  PROVE  Below(<<r1, r2, r3, r4, r5>>, <<s1, s2, s3, s4, s5>>, 5)
<1> DEFINE r == <<r1, r2, r3, r4, r5>>
           s == <<s1, s2, s3, s4, s5>>
<1>1. PICK j \in 1..5 : r[j] < s[j] /\ \A i \in 1..5 : i < j => r[i] = s[i]
  <2>1. CASE r1 < s1
    BY <2>1
  <2>2. CASE r1 = s1 /\ r2 < s2
    BY <2>2
  <2>3. CASE r1 = s1 /\ r2 = s2 /\ r3 < s3
    BY <2>3
  <2>4. CASE r1 = s1 /\ r2 = s2 /\ r3 = s3 /\ r4 < s4
    BY <2>4
  <2>5. CASE r1 = s1 /\ r2 = s2 /\ r3 = s3 /\ r4 = s4 /\ r5 < s5
    BY <2>5
  <2> QED BY <2>1, <2>2, <2>3, <2>4, <2>5
<1> HIDE DEF r, s
<1>2. Below(r, s, 5)
  BY <1>1 DEF Below
<1> QED BY <1>2 DEF r, s

================================================================================
