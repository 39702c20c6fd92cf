---------------------------- MODULE SequenceFacts ----------------------------
(* Facts about sequences, place by place, that the proofs of the other     *)
(* modules share.                                                          *)
EXTENDS Naturals, Sequences, SequencesExt, SequenceTheorems, WellFoundedInduction, TLAPS

LEMMA AppendIs ==
  ASSUME NEW S, NEW s \in Seq(S), NEW e \in S
  PROVE  /\ Append(s, e) \in Seq(S) /\ Len(Append(s, e)) = Len(s) + 1 /\ Len(s) \in Nat
         /\ \A i \in 1 .. Len(s) : Append(s, e)[i] = s[i]
         /\ Append(s, e)[Len(s) + 1] = e
BY AppendProperties

LEMMA TailIs ==
  ASSUME NEW S, NEW s \in Seq(S), s # <<>>
  PROVE  /\ Head(s) = s[1] /\ Head(s) \in S /\ Tail(s) \in Seq(S)
         /\ Len(s) \in Nat \ {0} /\ Len(Tail(s)) = Len(s) - 1
         /\ \A i \in 1 .. Len(s) - 1 : Tail(s)[i] = s[i + 1]
OBVIOUS

(* A sequence in two parts.                                                *)
LEMMA PartsAre ==
  ASSUME NEW S, NEW s \in Seq(S), NEW k \in Nat, k <= Len(s)
  PROVE  /\ SubSeq(s, 1, k) \in Seq(S) /\ Len(SubSeq(s, 1, k)) = k
         /\ \A i \in 1 .. k : SubSeq(s, 1, k)[i] = s[i]
         /\ SubSeq(s, k + 1, Len(s)) \in Seq(S)
         /\ Len(SubSeq(s, k + 1, Len(s))) = Len(s) - k
         /\ \A i \in 1 .. Len(s) - k : SubSeq(s, k + 1, Len(s))[i] = s[k + i]
<1>1. Len(s) \in Nat
  OBVIOUS
<1>2. (\A i \in 1 .. k : s[i] \in S) /\ (\A i \in k + 1 .. Len(s) : s[i] \in S)
  <2>1. \A i \in 1 .. Len(s) : s[i] \in S
    BY ElementOfSeq
  <2>2. (\A i \in 1 .. k : i \in 1 .. Len(s)) /\ (\A i \in k + 1 .. Len(s) : i \in 1 .. Len(s))
    BY <1>1
  <2>. QED BY <2>1, <2>2
<1>3. /\ SubSeq(s, 1, k) \in Seq(S)
      /\ Len(SubSeq(s, 1, k)) = IF 1 <= k THEN k - 1 + 1 ELSE 0
      /\ \A i \in 1 .. k - 1 + 1 : SubSeq(s, 1, k)[i] = s[1 + i - 1]
  <2>1. 1 \in Int /\ k \in Int
    OBVIOUS
  <2>. QED BY <1>2, <2>1, SubSeqProperties
<1>4. /\ SubSeq(s, k + 1, Len(s)) \in Seq(S)
      /\ Len(SubSeq(s, k + 1, Len(s))) = IF k + 1 <= Len(s) THEN Len(s) - (k + 1) + 1 ELSE 0
      /\ \A i \in 1 .. Len(s) - (k + 1) + 1 : SubSeq(s, k + 1, Len(s))[i] = s[k + 1 + i - 1]
  <2>1. k + 1 \in Int /\ Len(s) \in Int
    BY <1>1
  <2>. QED BY <1>2, <2>1, SubSeqProperties
<1>5. k - 1 + 1 = k /\ Len(s) - (k + 1) + 1 = Len(s) - k
      /\ (~(1 <= k) => k = 0) /\ (~(k + 1 <= Len(s)) => Len(s) - k = 0)
  BY <1>1
<1>6. \A i \in Int : 1 + i - 1 = i /\ k + 1 + i - 1 = k + i
  OBVIOUS
<1>7. (\A i \in 1 .. k : i \in Int) /\ (\A i \in 1 .. Len(s) - k : i \in Int)
  OBVIOUS
<1>. QED BY <1>3, <1>4, <1>5, <1>6, <1>7

(* A sequence rewritten place by place.                                    *)
LEMMA RewriteIs ==
  ASSUME NEW S, NEW s \in Seq(S), NEW r, r = [i \in DOMAIN s |-> r[i]],
         \A i \in 1 .. Len(s) : r[i] \in S
  PROVE  r \in Seq(S) /\ Len(r) = Len(s) /\ DOMAIN r = 1 .. Len(r) /\ Len(s) \in Nat
<1>1. DOMAIN s = 1 .. Len(s) /\ Len(s) \in Nat
  OBVIOUS
<1>2. r = [i \in 1 .. Len(s) |-> r[i]]
  BY <1>1
<1>3. r \in [1 .. Len(s) -> S]
  BY <1>2
<1>4. r \in Seq(S)
  BY <1>1, <1>3
<1>5. Len(r) = Len(s)
  BY <1>1, <1>2, <1>4
<1>. QED BY <1>1, <1>2, <1>4, <1>5

(* Every non-empty set of naturals has a least element.                    *)
LEMMA LeastElement ==
  ASSUME NEW T \in SUBSET Nat, T # {}
  PROVE  Min(T) \in T /\ \A j \in T : Min(T) <= j
<1>1. PICK x \in T : \A y \in T : <<y, x>> \notin OpToRel(<, Nat)
  BY NatLessThanWellFounded, WFMin, Zenon
<1>2. \A y \in T : ~(y < x)
  BY <1>1 DEF OpToRel
<1>3. \A y \in T : x <= y
  BY <1>2
<1>. QED BY <1>3 DEF Min

(* A set of naturals with a bound has a greatest element.                  *)
LEMMA GreatestElement ==
  ASSUME NEW T \in SUBSET Nat, T # {}, NEW b \in Nat, \A t \in T : t <= b
  PROVE  Max(T) \in T /\ \A t \in T : t <= Max(T)
<1>. DEFINE U == {n \in Nat : \A t \in T : t <= n}
<1>1. U \in SUBSET Nat /\ U # {}
  OBVIOUS
<1>2. Min(U) \in U /\ \A n \in U : Min(U) <= n
  BY <1>1, LeastElement
<1>. DEFINE m == Min(U)
<1>3. m \in Nat /\ \A t \in T : t <= m
  BY <1>2
<1>4. \A n \in Nat : (\A t \in T : t <= n) => m <= n
  BY <1>2
<1>. HIDE DEF m, U
<1>5. m \in T
  <2>. SUFFICES ASSUME m \notin T PROVE FALSE
    OBVIOUS
  <2>1. \A t \in T : t <= m - 1 /\ t \in Nat
    BY <1>3
  <2>2. m - 1 \in Nat
    <3>1. PICK t \in T : TRUE
      OBVIOUS
    <3>2. t \in Nat /\ t <= m - 1
      BY <2>1
    <3>. QED BY <1>3, <3>2
  <2>. QED BY <1>3, <1>4, <2>1, <2>2
<1>6. \E x \in T : \A t \in T : x >= t
  BY <1>3, <1>5
<1>7. Max(T) \in T /\ \A t \in T : Max(T) >= t
  BY <1>6 DEF Max
<1>. QED BY <1>7

(* Finitely many naturals have a bound.                                    *)
LEMMA FinitelyManyAreBounded ==
  ASSUME NEW n \in Nat, NEW f, \A i \in 1 .. n : f[i] \in Nat
  PROVE  \E b \in Nat : \A i \in 1 .. n : f[i] <= b
<1>. DEFINE Bound(m) == \E b \in Nat : \A i \in 1 .. m : f[i] <= b
            U == {m \in 0 .. n : ~Bound(m)}
<1>1. CASE U # {}
  <2>1. U \in SUBSET Nat
    OBVIOUS
  <2>2. Min(U) \in U /\ \A j \in U : Min(U) <= j
    BY <1>1, <2>1, LeastElement
  <2>. DEFINE m == Min(U)
  <2>3. m \in 0 .. n /\ ~Bound(m) /\ \A j \in 0 .. n : ~Bound(j) => m <= j
    BY <2>2
  <2>. HIDE DEF m, U
  <2>4. m # 0
    <3>1. Bound(0)
      OBVIOUS
    <3>. QED BY <2>3, <3>1
  <2>5. m - 1 \in 0 .. n /\ Bound(m - 1)
    <3>1. m - 1 \in 0 .. n /\ ~(m <= m - 1)
      BY <2>3, <2>4
    <3>. QED BY <2>3, <3>1
  <2>6. PICK b \in Nat : \A i \in 1 .. m - 1 : f[i] <= b
    BY <2>5
  <2>7. f[m] \in Nat
    BY <2>3, <2>4
  <2>8. b + f[m] \in Nat /\ \A i \in 1 .. m : f[i] <= b + f[m]
    <3>1. b + f[m] \in Nat /\ b <= b + f[m] /\ f[m] <= b + f[m]
      BY <2>7
    <3>. SUFFICES ASSUME NEW i \in 1 .. m PROVE f[i] <= b + f[m]
      BY <3>1
    <3>2. CASE i = m
      BY <3>1, <3>2
    <3>3. CASE i \in 1 .. m - 1
      <4>1. f[i] <= b /\ f[i] \in Nat
        BY <2>3, <2>6, <3>3
      <4>. QED BY <2>7, <4>1
    <3>. QED BY <2>3, <3>2, <3>3
  <2>9. Bound(m)
    BY <2>8
  <2>. QED BY <2>3, <2>9
<1>2. CASE U = {}
  <2>. HIDE DEF Bound
  <2>1. n \in 0 .. n /\ n \notin U
    BY <1>2
  <2>2. Bound(n)
    BY <2>1
  <2>. QED BY <2>2 DEF Bound
<1>. QED BY <1>1, <1>2

(* What stands first is found first.                                       *)
LEMMA RemoveFirstIsTail ==
  ASSUME NEW S, NEW s \in Seq(S), s # <<>>
  PROVE  RemoveFirst(s, s[1]) = Tail(s)
<1>. DEFINE places == {i \in 1 .. Len(s) : s[i] = s[1]}
<1>1. 1 \in places /\ \A i \in places : 1 <= i
  BY TailIs
<1>2. Min(places) = 1
  BY <1>1 DEF Min
<1>3. SelectInSeq(s, LAMBDA v : v = s[1]) = 1
  BY <1>1, <1>2 DEF SelectInSeq
<1>4. RemoveFirst(s, s[1]) = RemoveAt(s, 1)
  BY <1>1, <1>3 DEF RemoveFirst
<1>5. SubSeq(s, 1, 0) = <<>> /\ SubSeq(s, 2, Len(s)) = Tail(s)
  BY SubSeqEmpty, TailIsSubSeq
<1>6. <<>> \o Tail(s) = Tail(s)
  BY TailIs, ConcatEmptySeq
<1>. QED BY <1>4, <1>5, <1>6 DEF RemoveAt

(* What is left when one place is removed, and where it stood.             *)
LEMMA RemoveAtPlaces ==
  ASSUME NEW S, NEW s \in Seq(S), NEW n \in 1 .. Len(s)
  PROVE  /\ RemoveAt(s, n) \in Seq(S) /\ Len(RemoveAt(s, n)) = Len(s) - 1
         /\ \A i \in 1 .. Len(s) - 1 : RemoveAt(s, n)[i] = IF i < n THEN s[i] ELSE s[i + 1]
<1>. DEFINE a == SubSeq(s, 1, n - 1)
            b == SubSeq(s, n + 1, Len(s))
<1>1. Len(s) \in Nat /\ n \in Nat /\ n >= 1 /\ n <= Len(s)
  OBVIOUS
<1>2. /\ a \in Seq(S) /\ Len(a) = n - 1 /\ \A i \in 1 .. n - 1 : a[i] = s[i]
  <2>1. /\ a \in Seq(S) /\ Len(a) = (IF 1 <= n - 1 THEN (n - 1) - 1 + 1 ELSE 0)
        /\ \A i \in 1 .. (n - 1) - 1 + 1 : a[i] = s[1 + i - 1]
    <3>1. \A i \in 1 .. n - 1 : s[i] \in S
      BY <1>1
    <3>. QED BY <1>1, <3>1, SubSeqProperties
  <2>. HIDE DEF a
  <2>2. Len(a) = n - 1
    BY <1>1, <2>1
  <2>3. \A i \in 1 .. n - 1 : i \in 1 .. (n - 1) - 1 + 1 /\ 1 + i - 1 = i
    BY <1>1
  <2>. QED BY <2>1, <2>2, <2>3
<1>3. /\ b \in Seq(S) /\ Len(b) = Len(s) - n /\ \A i \in 1 .. Len(s) - n : b[i] = s[n + i]
  <2>1. /\ b \in Seq(S) /\ Len(b) = (IF n + 1 <= Len(s) THEN Len(s) - (n + 1) + 1 ELSE 0)
        /\ \A i \in 1 .. Len(s) - (n + 1) + 1 : b[i] = s[(n + 1) + i - 1]
    <3>1. \A i \in n + 1 .. Len(s) : s[i] \in S
      BY <1>1
    <3>. QED BY <1>1, <3>1, SubSeqProperties
  <2>. HIDE DEF b
  <2>2. Len(b) = Len(s) - n
    BY <1>1, <2>1
  <2>3. \A i \in 1 .. Len(s) - n : i \in 1 .. Len(s) - (n + 1) + 1 /\ (n + 1) + i - 1 = n + i
    BY <1>1
  <2>. QED BY <2>1, <2>2, <2>3
<1>4. RemoveAt(s, n) = a \o b
  BY DEF RemoveAt
<1>. HIDE DEF a, b
<1>5. /\ a \o b \in Seq(S) /\ Len(a \o b) = Len(s) - 1
      /\ \A i \in 1 .. Len(s) - 1 : (a \o b)[i] = IF i <= n - 1 THEN a[i] ELSE b[i - (n - 1)]
  <2>1. Len(a) + Len(b) = Len(s) - 1
    BY <1>1, <1>2, <1>3
  <2>2. /\ a \o b \in Seq(S) /\ Len(a \o b) = Len(a) + Len(b)
        /\ \A i \in 1 .. Len(a) + Len(b) :
             (a \o b)[i] = IF i <= Len(a) THEN a[i] ELSE b[i - Len(a)]
    BY <1>2, <1>3, ConcatProperties
  <2>. QED BY <1>2, <2>1, <2>2
<1>6. ASSUME NEW i \in 1 .. Len(s) - 1
      PROVE  (a \o b)[i] = IF i < n THEN s[i] ELSE s[i + 1]
  <2>1. CASE i < n
    <3>1. i \in 1 .. n - 1 /\ i <= n - 1
      BY <1>1, <2>1
    <3>. QED BY <1>2, <1>5, <2>1, <3>1
  <2>2. CASE ~(i < n)
    <3>1. i - (n - 1) \in 1 .. Len(s) - n /\ n + (i - (n - 1)) = i + 1 /\ ~(i <= n - 1)
      BY <1>1, <2>2
    <3>2. (a \o b)[i] = b[i - (n - 1)]
      BY <1>5, <3>1
    <3>3. b[i - (n - 1)] = s[i + 1]
      BY <1>3, <3>1
    <3>. QED BY <2>2, <3>2, <3>3
  <2>. QED BY <2>1, <2>2
<1>. QED BY <1>4, <1>5, <1>6

LEMMA RemoveAtIs ==
  ASSUME NEW S, NEW s \in Seq(S), NEW n \in 1 .. Len(s)
  PROVE  /\ RemoveAt(s, n) \in Seq(S)
         /\ \A i \in 1 .. Len(RemoveAt(s, n)) :
              \E j \in 1 .. Len(s) \ {n} : /\ RemoveAt(s, n)[i] = s[j]
                                           /\ j = IF i < n THEN i ELSE i + 1
<1>1. /\ RemoveAt(s, n) \in Seq(S) /\ Len(RemoveAt(s, n)) = Len(s) - 1
      /\ \A i \in 1 .. Len(s) - 1 : RemoveAt(s, n)[i] = IF i < n THEN s[i] ELSE s[i + 1]
  BY RemoveAtPlaces
<1>2. Len(s) \in Nat
  OBVIOUS
<1>3. ASSUME NEW i \in 1 .. Len(s) - 1
      PROVE  \E j \in 1 .. Len(s) \ {n} : RemoveAt(s, n)[i] = s[j] /\ j = IF i < n THEN i ELSE i + 1
  <2>. DEFINE j == IF i < n THEN i ELSE i + 1
  <2>1. j \in 1 .. Len(s) \ {n}
    BY <1>2
  <2>2. RemoveAt(s, n)[i] = s[j]
    BY <1>1
  <2>. QED BY <2>1, <2>2
<1>. QED BY <1>1, <1>3

(* Every other place is left, and two places left stood at two.            *)
LEMMA RemoveAtKeeps ==
  ASSUME NEW S, NEW s \in Seq(S), NEW n \in 1 .. Len(s)
  PROVE  /\ \A j \in 1 .. Len(s) \ {n} :
              \E i \in 1 .. Len(RemoveAt(s, n)) : RemoveAt(s, n)[i] = s[j]
         /\ \A i, k \in 1 .. Len(RemoveAt(s, n)) : i # k =>
              \E j, l \in 1 .. Len(s) \ {n} :
                j # l /\ RemoveAt(s, n)[i] = s[j] /\ RemoveAt(s, n)[k] = s[l]
<1>. DEFINE r == RemoveAt(s, n)
<1>1. /\ Len(r) = Len(s) - 1 /\ Len(s) \in Nat
      /\ \A i \in 1 .. Len(s) - 1 : r[i] = IF i < n THEN s[i] ELSE s[i + 1]
  BY RemoveAtPlaces
<1>. HIDE DEF r
<1>2. ASSUME NEW j \in 1 .. Len(s) \ {n} PROVE \E i \in 1 .. Len(r) : r[i] = s[j]
  <2>. DEFINE i == IF j < n THEN j ELSE j - 1
  <2>1. i \in 1 .. Len(s) - 1 /\ j = IF i < n THEN i ELSE i + 1
    BY <1>1
  <2>2. r[i] = s[j]
    BY <1>1, <2>1
  <2>. QED BY <1>1, <2>1, <2>2
<1>3. ASSUME NEW i \in 1 .. Len(r), NEW k \in 1 .. Len(r), i # k
      PROVE  \E j, l \in 1 .. Len(s) \ {n} : j # l /\ r[i] = s[j] /\ r[k] = s[l]
  <2>. DEFINE j == IF i < n THEN i ELSE i + 1
              l == IF k < n THEN k ELSE k + 1
  <2>1. j \in 1 .. Len(s) \ {n} /\ l \in 1 .. Len(s) \ {n} /\ j # l
    BY <1>1, <1>3
  <2>2. r[i] = s[j] /\ r[k] = s[l]
    BY <1>1
  <2>. QED BY <2>1, <2>2
<1>. QED BY <1>2, <1>3 DEF r

(* The first element with an id is one of the sequence.                    *)
LEMMA FirstWithIdIs ==
  ASSUME NEW S, NEW s \in Seq(S), NEW id, \E i \in 1 .. Len(s) : s[i].id = id
  PROVE  Min({i \in 1 .. Len(s) : s[i].id = id}) \in 1 .. Len(s)
<1>. DEFINE T == {i \in 1 .. Len(s) : s[i].id = id}
<1>1. T # {} /\ T \in SUBSET Nat
  OBVIOUS
<1>. HIDE DEF T
<1>2. Min(T) \in T
  BY <1>1, LeastElement
<1>. QED BY <1>2 DEF T

-----------------------------------------------------------------------------
(* Sequences of things that are told apart by their ids                    *)

OwnIds(s) == \A i, j \in 1 .. Len(s) : s[i].id = s[j].id => i = j

LEMMA AppendKeepsIds ==
  ASSUME NEW S, NEW s \in Seq(S), NEW e \in S, OwnIds(s), \A i \in 1 .. Len(s) : s[i].id # e.id
  PROVE  OwnIds(Append(s, e))
<1>1. /\ Len(Append(s, e)) = Len(s) + 1 /\ Len(s) \in Nat /\ Append(s, e)[Len(s) + 1] = e
      /\ \A i \in 1 .. Len(s) : Append(s, e)[i] = s[i]
  BY AppendIs
<1>2. \A i \in 1 .. Len(Append(s, e)) : i \in 1 .. Len(s) \/ i = Len(s) + 1
  BY <1>1
<1>. QED BY <1>1, <1>2 DEF OwnIds

LEMMA RewriteKeepsIds ==
  ASSUME NEW s, NEW r, OwnIds(s), Len(r) = Len(s), \A i \in 1 .. Len(s) : r[i].id = s[i].id
  PROVE  OwnIds(r)
BY DEF OwnIds

LEMMA RemoveKeepsIds ==
  ASSUME NEW S, NEW s \in Seq(S), OwnIds(s), NEW n \in 1 .. Len(s)
  PROVE  OwnIds(RemoveAt(s, n))
<1>. DEFINE r == RemoveAt(s, n)
<1>. SUFFICES ASSUME NEW i \in 1 .. Len(r), NEW k \in 1 .. Len(r), r[i].id = r[k].id
              PROVE  i = k
  BY DEF OwnIds
<1>1. r \in Seq(S) /\ \A l \in 1 .. Len(r) : \E j \in 1 .. Len(s) \ {n} :
        r[l] = s[j] /\ j = IF l < n THEN l ELSE l + 1
  BY RemoveAtIs
<1>. HIDE DEF r
<1>2. PICK j \in 1 .. Len(s) \ {n} : r[i] = s[j] /\ j = IF i < n THEN i ELSE i + 1
  BY <1>1
<1>3. PICK l \in 1 .. Len(s) \ {n} : r[k] = s[l] /\ l = IF k < n THEN k ELSE k + 1
  BY <1>1
<1>4. j = l
  BY <1>2, <1>3 DEF OwnIds
<1>5. i \in Nat /\ k \in Nat /\ n \in Nat
  BY <1>1
<1>. QED BY <1>2, <1>3, <1>4, <1>5
=============================================================================
