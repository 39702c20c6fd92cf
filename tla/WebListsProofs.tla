--------------------------- MODULE WebListsProofs ---------------------------
(***************************************************************************)
(* Theorems about WebLists: its types, that no two entries of db.json have *)
(* one id, and that the page's copies agree with what is stored.           *)
(*                                                                         *)
(* CopiesAgree is about answers that have come.  It is inductive only with *)
(* what is on its way (IInv, below): an answer of the server is what is    *)
(* stored, a list that boot asked for is as stored but for what is         *)
(* tangled, the object a click was about still has the id it was asked     *)
(* with, and two requests about one id that is not tangled are never under *)
(* way together.                                                           *)
(***************************************************************************)
EXTENDS WebLists, SequenceFacts, FiniteSetTheorems, TLAPS

LEMMA Constants ==
  /\ MaxOpen \in Nat /\ MaxOpen >= 1 /\ MaxClicks \in Nat /\ MaxOthers \in Nat /\ MaxLosses \in Nat
  /\ Bare \in Rests /\ (\A n \in Names : Slug[n] \in Ids) /\ (\A i \in 1 .. MaxClicks : i \in Ids)
  /\ None \notin Ids /\ NoSlug # None
  /\ \A x \in Foreign : x[1] \in Kinds /\ x[2] \in Entry
<1>1. /\ MaxOpen \in Nat \ {0} /\ \A n \in {MaxClicks, MaxOthers, MaxLosses} : n \in Nat
  BY ListConstants
<1>2. (\A n \in Names : Slug[n] \in Ids) /\ (\A i \in 1 .. MaxClicks : i \in Ids)
  BY DEF Ids, Uuids
<1>. QED BY <1>1, <1>2, ListConstants

-----------------------------------------------------------------------------
(* What is in a list                                                       *)

LEMMA RangeIs ==
  ASSUME NEW S, NEW s \in Seq(S)
  PROVE  /\ \A i \in 1 .. Len(s) : s[i] \in Range(s)
         /\ \A e \in Range(s) : e \in S /\ \E i \in 1 .. Len(s) : s[i] = e
         /\ DOMAIN s = 1 .. Len(s) /\ Len(s) \in Nat
BY DEF Range

LEMMA AppendRange ==
  ASSUME NEW S, NEW s \in Seq(S), NEW e \in S
  PROVE  /\ Append(s, e) \in Seq(S) /\ Range(Append(s, e)) = Range(s) \cup {e}
         /\ \A id : Lookup(Append(s, e), id) = Lookup(s, id) \cup (IF e.id = id THEN {e} ELSE {})
<1>. DEFINE a == Append(s, e)
<1>1. /\ a \in Seq(S) /\ Len(a) = Len(s) + 1 /\ Len(s) \in Nat
      /\ (\A i \in 1 .. Len(s) : a[i] = s[i]) /\ a[Len(s) + 1] = e
  BY AppendIs
<1>. HIDE DEF a
<1>2. /\ \A i \in 1 .. Len(a) : i \in 1 .. Len(s) \/ i = Len(s) + 1
      /\ \A i \in 1 .. Len(s) : i \in 1 .. Len(a)
      /\ Len(s) + 1 \in 1 .. Len(a)
  BY <1>1
<1>3. DOMAIN a = 1 .. Len(a) /\ DOMAIN s = 1 .. Len(s)
  BY <1>1
<1>4. Range(a) = Range(s) \cup {e}
  <2>1. \A x \in Range(a) : x \in Range(s) \cup {e}
    BY <1>1, <1>2, <1>3 DEF Range
  <2>2. \A x \in Range(s) : x \in Range(a)
    <3>. SUFFICES ASSUME NEW i \in 1 .. Len(s) PROVE s[i] \in Range(a)
      BY <1>3 DEF Range
    <3>. QED BY <1>1, <1>2, <1>3 DEF Range
  <2>3. e \in Range(a)
    BY <1>1, <1>2, <1>3 DEF Range
  <2>. QED BY <2>1, <2>2, <2>3
<1>. QED BY <1>1, <1>4 DEF a, Lookup

LEMMA RemoveAtRange ==
  ASSUME NEW S, NEW s \in Seq(S), NEW n \in 1 .. Len(s)
  PROVE  /\ \A e \in Range(RemoveAt(s, n)) : e \in Range(s)
         /\ \A e \in Range(s) : e \in Range(RemoveAt(s, n)) \/ e = s[n]
<1>. DEFINE r == RemoveAt(s, n)
<1>1. /\ r \in Seq(S)
      /\ \A i \in 1 .. Len(r) : \E j \in 1 .. Len(s) \ {n} : r[i] = s[j]
  BY RemoveAtIs
<1>2. \A j \in 1 .. Len(s) \ {n} : \E i \in 1 .. Len(r) : r[i] = s[j]
  BY RemoveAtKeeps
<1>. HIDE DEF r
<1>3. DOMAIN r = 1 .. Len(r) /\ DOMAIN s = 1 .. Len(s)
  BY <1>1
<1>4. \A e \in Range(r) : e \in Range(s)
  BY <1>1, <1>3 DEF Range
<1>5. \A e \in Range(s) : e \in Range(r) \/ e = s[n]
  BY <1>2, <1>3 DEF Range
<1>. QED BY <1>4, <1>5 DEF r

(* A save replaces the entry that has its id, or adds one.                 *)
LEMMA StoredInIs ==
  ASSUME NEW s \in Seq(Entry), OwnIds(s), NEW e \in Entry
  PROVE  /\ StoredIn(s, e) \in Seq(Entry) /\ OwnIds(StoredIn(s, e))
         /\ Lookup(StoredIn(s, e), e.id) = {e}
         /\ \A id : id # e.id => Lookup(StoredIn(s, e), id) = Lookup(s, id)
<1>1. DOMAIN s = 1 .. Len(s) /\ Len(s) \in Nat
  OBVIOUS
<1>2. CASE Lookup(s, e.id) = {}
  <2>1. StoredIn(s, e) = Append(s, e)
    BY <1>2 DEF StoredIn
  <2>2. \A i \in 1 .. Len(s) : s[i].id # e.id
    BY <1>1, <1>2 DEF Lookup, Range
  <2>3. OwnIds(Append(s, e))
    BY <2>2, AppendKeepsIds
  <2>4. /\ Append(s, e) \in Seq(Entry)
        /\ \A id : Lookup(Append(s, e), id) = Lookup(s, id) \cup (IF e.id = id THEN {e} ELSE {})
    BY AppendRange
  <2>. QED BY <1>2, <2>1, <2>3, <2>4
<1>3. CASE Lookup(s, e.id) # {}
  <2>. DEFINE r == [i \in DOMAIN s |-> IF s[i].id = e.id THEN e ELSE s[i]]
  <2>1. StoredIn(s, e) = r
    BY <1>3 DEF StoredIn
  <2>2. r = [i \in DOMAIN s |-> r[i]]
    OBVIOUS
  <2>3. \A i \in 1 .. Len(s) : r[i] = IF s[i].id = e.id THEN e ELSE s[i]
    BY <1>1
  <2>4. \A i \in 1 .. Len(s) : r[i] \in Entry /\ r[i].id = s[i].id
    BY <1>1
  <2>. HIDE DEF r
  <2>5. r \in Seq(Entry) /\ Len(r) = Len(s)
    BY <2>2, <2>4, RewriteIs
  <2>6. OwnIds(r)
    BY <2>4, <2>5, RewriteKeepsIds
  <2>7. DOMAIN r = 1 .. Len(s)
    BY <2>5
  <2>8. PICK l \in 1 .. Len(s) : s[l].id = e.id
    BY <1>1, <1>3 DEF Lookup, Range
  <2>9. Lookup(r, e.id) = {e}
    <3>1. e \in Lookup(r, e.id)
      BY <2>3, <2>7, <2>8 DEF Lookup, Range
    <3>2. \A x \in Lookup(r, e.id) : x = e
      BY <2>3, <2>7 DEF Lookup, Range
    <3>. QED BY <3>1, <3>2
  <2>10. ASSUME NEW id, id # e.id PROVE Lookup(r, id) = Lookup(s, id)
    <3>1. ASSUME NEW x \in Lookup(r, id) PROVE x \in Lookup(s, id)
      <4>1. PICK i \in 1 .. Len(s) : x = r[i] /\ r[i].id = id
        BY <2>7 DEF Lookup, Range
      <4>. QED BY <1>1, <2>3, <2>10, <4>1 DEF Lookup, Range
    <3>2. ASSUME NEW x \in Lookup(s, id) PROVE x \in Lookup(r, id)
      <4>1. PICK i \in 1 .. Len(s) : x = s[i] /\ s[i].id = id
        BY <1>1 DEF Lookup, Range
      <4>2. r[i] = x
        BY <2>3, <2>10, <4>1
      <4>. QED BY <2>7, <4>1, <4>2 DEF Lookup, Range
    <3>. QED BY <3>1, <3>2
  <2>. QED BY <2>1, <2>5, <2>6, <2>9, <2>10
<1>. QED BY <1>2, <1>3

LEMMA DeletedIs ==
  ASSUME NEW s \in Seq(Entry), OwnIds(s), NEW id
  PROVE  /\ Deleted(s, id) \in Seq(Entry) /\ OwnIds(Deleted(s, id))
         /\ Lookup(Deleted(s, id), id) = {}
         /\ \A other : other # id => Lookup(Deleted(s, id), other) = Lookup(s, other)
<1>1. DOMAIN s = 1 .. Len(s) /\ Len(s) \in Nat
  OBVIOUS
<1>2. CASE \E i \in 1 .. Len(s) : s[i].id = id
  <2>. DEFINE n == Min({i \in 1 .. Len(s) : s[i].id = id})
  <2>1. n \in 1 .. Len(s) /\ s[n].id = id
    <3>. DEFINE T == {i \in 1 .. Len(s) : s[i].id = id}
    <3>1. T \in SUBSET Nat /\ T # {}
      BY <1>2
    <3>. HIDE DEF T
    <3>2. Min(T) \in T
      BY <3>1, LeastElement
    <3>. QED BY <3>2 DEF T
  <2>2. Deleted(s, id) = RemoveAt(s, n)
    BY <1>2 DEF Deleted, RemoveFirstMatch, SelectInSeq
  <2>. HIDE DEF n
  <2>. DEFINE r == RemoveAt(s, n)
  <2>3. /\ r \in Seq(Entry)
        /\ \A i \in 1 .. Len(r) : \E j \in 1 .. Len(s) \ {n} : r[i] = s[j]
    BY <2>1, RemoveAtIs
  <2>4. OwnIds(r)
    BY <2>1, RemoveKeepsIds
  <2>5. (\A e \in Range(r) : e \in Range(s)) /\ \A e \in Range(s) : e \in Range(r) \/ e = s[n]
    BY <2>1, RemoveAtRange
  <2>. HIDE DEF r
  <2>6. Lookup(r, id) = {}
    <3>1. DOMAIN r = 1 .. Len(r)
      BY <2>3
    <3>2. \A j \in 1 .. Len(s) \ {n} : s[j].id # id
      BY <2>1 DEF OwnIds
    <3>. QED BY <2>3, <3>1, <3>2 DEF Lookup, Range
  <2>7. \A other : other # id => Lookup(r, other) = Lookup(s, other)
    BY <2>1, <2>5 DEF Lookup
  <2>. QED BY <2>2, <2>3, <2>4, <2>6, <2>7 DEF r
<1>3. CASE ~(\E i \in 1 .. Len(s) : s[i].id = id)
  <2>1. Deleted(s, id) = s
    BY <1>3 DEF Deleted, RemoveFirstMatch
  <2>2. Lookup(s, id) = {}
    BY <1>1, <1>3 DEF Lookup, Range
  <2>. QED BY <2>1, <2>2
<1>. QED BY <1>2, <1>3

(* The kept places and their ranks are as many, so every rank is taken.    *)
LEMMA RanksAreTaken ==
  ASSUME NEW n \in Nat, NEW kept \in SUBSET (1 .. n)
  PROVE  /\ Cardinality(kept) \in Nat
         /\ \A i \in kept : Cardinality({l \in kept : l <= i}) \in 1 .. Cardinality(kept)
         /\ \A i, j \in kept :
              Cardinality({l \in kept : l <= i}) = Cardinality({l \in kept : l <= j}) => i = j
         /\ \A r \in 1 .. Cardinality(kept) :
              \E i \in kept : Cardinality({l \in kept : l <= i}) = r
<1>. DEFINE Below(i) == {l \in kept : l <= i}
            f == [i \in kept |-> Cardinality(Below(i))]
            m == Cardinality(kept)
<1>1. IsFiniteSet(kept)
  <2>1. IsFiniteSet(1 .. n)
    BY FS_Interval
  <2>. QED BY <2>1, FS_Subset
<1>2. m \in Nat
  BY <1>1, FS_CardinalityType
<1>3. ASSUME NEW i \in kept PROVE IsFiniteSet(Below(i)) /\ Cardinality(Below(i)) \in 1 .. m
  <2>1. Below(i) \in SUBSET kept /\ i \in Below(i)
    OBVIOUS
  <2>. HIDE DEF Below, m
  <2>2. IsFiniteSet(Below(i)) /\ Cardinality(Below(i)) <= m
    BY <1>1, <2>1, FS_Subset DEF m
  <2>3. Cardinality(Below(i)) \in Nat /\ Cardinality(Below(i)) # 0
    BY <2>1, <2>2, FS_CardinalityType, FS_EmptySet
  <2>. QED BY <1>2, <2>2, <2>3
<1>4. ASSUME NEW i \in kept, NEW j \in kept, i < j
      PROVE  Cardinality(Below(i)) # Cardinality(Below(j))
  <2>1. Below(i) \in SUBSET Below(j) /\ Below(i) # Below(j)
    <3>1. j \in Below(j) /\ j \notin Below(i)
      BY <1>4
    <3>2. \A l \in Below(i) : l \in Below(j)
      BY <1>4
    <3>. QED BY <3>1, <3>2
  <2>2. IsFiniteSet(Below(j))
    BY <1>3
  <2>. HIDE DEF Below
  <2>. QED BY <2>1, <2>2, FS_Subset
<1>5. \A i, j \in kept : Cardinality(Below(i)) = Cardinality(Below(j)) => i = j
  <2>. SUFFICES ASSUME NEW i \in kept, NEW j \in kept, i # j
                PROVE  Cardinality(Below(i)) # Cardinality(Below(j))
    OBVIOUS
  <2>. HIDE DEF Below
  <2>1. i < j \/ j < i
    OBVIOUS
  <2>. QED BY <1>4, <2>1
<1>. HIDE DEF m, Below
<1>6. f \in Injection(kept, 1 .. m)
  BY <1>3, <1>5 DEF Injection, IsInjective
<1>7. f \in Surjection(kept, 1 .. m)
  <2>1. IsFiniteSet(1 .. m) /\ Cardinality(1 .. m) = m
    BY <1>2, FS_Interval
  <2>. HIDE DEF f
  <2>2. Cardinality(kept) = Cardinality(1 .. m)
    BY <2>1 DEF m
  <2>. QED BY <1>6, <2>1, <2>2, FS_Injection
<1>8. \A r \in 1 .. m : \E i \in kept : Cardinality(Below(i)) = r
  BY <1>7 DEF Surjection
<1>. QED BY <1>2, <1>3, <1>5, <1>8 DEF m, Below

(* A filter keeps the others, each once.                                   *)
LEMMA WithoutIs ==
  ASSUME NEW S, NEW s \in Seq(S), NEW id
  PROVE  /\ Without(s, id) \in Seq(S)
         /\ \A e : e \in Range(Without(s, id)) <=> (e \in Range(s) /\ e.id # id)
         /\ \A a, b \in 1 .. Len(Without(s, id)) : a # b =>
              \E i, j \in 1 .. Len(s) : i # j /\ Without(s, id)[a] = s[i] /\ Without(s, id)[b] = s[j]
<1>. DEFINE kept  == {i \in DOMAIN s : s[i].id # id}
            m     == Cardinality(kept)
            At(j) == CHOOSE i \in kept : Cardinality({l \in kept : l <= i}) = j
            w     == [j \in 1 .. m |-> s[At(j)]]
<1>1. DOMAIN s = 1 .. Len(s) /\ Len(s) \in Nat
  OBVIOUS
<1>2. kept \in SUBSET (1 .. Len(s)) /\ \A i \in 1 .. Len(s) : i \in kept <=> s[i].id # id
  BY <1>1
<1>3. Without(s, id) = w
  BY DEF Without
<1>. HIDE DEF kept
<1>4. /\ m \in Nat
      /\ \A i \in kept : Cardinality({l \in kept : l <= i}) \in 1 .. m
      /\ \A i, j \in kept :
           Cardinality({l \in kept : l <= i}) = Cardinality({l \in kept : l <= j}) => i = j
      /\ \A r \in 1 .. m : \E i \in kept : Cardinality({l \in kept : l <= i}) = r
  BY <1>1, <1>2, RanksAreTaken
<1>. HIDE DEF m
<1>5. \A j \in 1 .. m : At(j) \in kept /\ Cardinality({l \in kept : l <= At(j)}) = j
  BY <1>4
<1>6. \A i \in kept : \E j \in 1 .. m : At(j) = i
  <2>. SUFFICES ASSUME NEW i \in kept PROVE \E j \in 1 .. m : At(j) = i
    OBVIOUS
  <2>. DEFINE j == Cardinality({l \in kept : l <= i})
  <2>1. j \in 1 .. m
    BY <1>4
  <2>2. At(j) \in kept /\ Cardinality({l \in kept : l <= At(j)}) = j
    BY <1>5, <2>1
  <2>. HIDE DEF At
  <2>3. At(j) = i
    BY <1>4, <2>2
  <2>. QED BY <2>1, <2>3
<1>. HIDE DEF At
<1>7. \A j \in 1 .. m : w[j] = s[At(j)] /\ At(j) \in 1 .. Len(s) /\ w[j] \in S
  <2>1. \A j \in 1 .. m : At(j) \in 1 .. Len(s)
    BY <1>2, <1>5
  <2>2. \A i \in 1 .. Len(s) : s[i] \in S
    OBVIOUS
  <2>. QED BY <2>1, <2>2
<1>8. w \in Seq(S) /\ Len(w) = m /\ DOMAIN w = 1 .. m
  BY <1>4, <1>7
<1>. HIDE DEF w
<1>9. \A e : e \in Range(w) <=> (e \in Range(s) /\ e.id # id)
  <2>1. ASSUME NEW e \in Range(w) PROVE e \in Range(s) /\ e.id # id
    <3>1. PICK j \in 1 .. m : e = w[j]
      BY <1>8 DEF Range
    <3>. QED BY <1>1, <1>2, <1>5, <1>7, <3>1 DEF Range
  <2>2. ASSUME NEW e \in Range(s), e.id # id PROVE e \in Range(w)
    <3>1. PICK i \in 1 .. Len(s) : e = s[i]
      BY <1>1 DEF Range
    <3>2. PICK j \in 1 .. m : At(j) = i
      BY <1>2, <1>6, <2>2, <3>1
    <3>. QED BY <1>7, <1>8, <3>1, <3>2 DEF Range
  <2>. QED BY <2>1, <2>2
<1>10. ASSUME NEW a \in 1 .. m, NEW b \in 1 .. m, a # b
      PROVE  \E i, j \in 1 .. Len(s) : i # j /\ w[a] = s[i] /\ w[b] = s[j]
  <2>1. At(a) # At(b)
    BY <1>5, <1>10
  <2>. QED BY <1>7, <2>1
<1>. QED BY <1>3, <1>8, <1>9, <1>10

-----------------------------------------------------------------------------
(* The requests under way                                                  *)

Objects == [tag : Nat \ {0}, id : Ids, name : Names, rest : Rests]
Answers == {None} \cup Entry \cup Seq(Entry) \cup [id : Ids]
Reqs    ==
  [kind : Kinds, op : {"get", "save", "delete"}, id : Ids \cup {None}, name : Names \cup {None},
   rest : Rests \cup {None}, tag : Nat, stage : {"asked", "served"}, answer : Answers]

(* What each operation is asked with and answered with.                    *)
Fits(r) ==
  /\ r.op = "get" => r.id = None /\ r.tag = 0 /\ (r.stage = "served" => r.answer \in Seq(Entry))
  /\ r.op = "delete" => r.id \in Ids /\ r.tag = 0 /\ (r.stage = "served" => r.answer = [id |-> r.id])
  /\ r.op = "save" =>
       /\ r.name \in Names /\ r.rest \in Rests
       /\ r.tag # 0 => r.id \in Ids
       /\ r.kind = "remotes" /\ r.tag = 0 => r.id = None
       /\ r.stage = "served" => r.answer \in Entry /\ (~Falsy(r.id) => r.answer.id = r.id)
ReqsFit(q) == q \in Seq(Reqs) /\ \A i \in 1 .. Len(q) : Fits(q[i])

(* Boot has one question at a time, for lists it has not loaded.           *)
Rank(k)     == IF k = "remotes" THEN 1 ELSE IF k = "routines" THEN 2 ELSE 3
OneGet(q)   == \A i, j \in 1 .. Len(q) : q[i].op = "get" /\ q[j].op = "get" => i = j
Ahead(q, l) == \A i \in 1 .. Len(q) : q[i].op = "get" => \A k \in l : Rank(k) < Rank(q[i].kind)

(* Two requests about one id tangle it, but for a question not served yet. *)
Unasked(r)  == r.op = "get" /\ r.stage = "asked"
Apart(q, t) ==
  \A k \in Kinds : \A id \in Ids \ t[k] : \A i, j \in 1 .. Len(q) :
    i # j /\ About(q[i], k, id) /\ About(q[j], k, id) => Unasked(q[i]) \/ Unasked(q[j])

(* An entry with the empty id was stored under another.                    *)
Moved(q, t) ==
  \A i \in 1 .. Len(q) : q[i].stage = "served" /\ q[i].op = "save" /\ q[i].id = NoSlug =>
    q[i].answer.id \in t[q[i].kind] /\ (NoSlug \in Ids => NoSlug \in t[q[i].kind])

(* The answers about an entry that are on their way.                       *)
Told(q, k, id) == {r \in Range(q) : r.stage = "served" /\ About(r, k, id)}

(* The requests that will use up a uuid.                                   *)
NeedsId(r) == r.stage = "asked" /\ r.op = "save" /\ r.kind # "remotes" /\ Falsy(r.id)
Unnamed(q) == {i \in 1 .. Len(q) : NeedsId(q[i])}

LEMMA UnnamedIs ==
  ASSUME NEW q, Len(q) \in Nat
  PROVE  IsFiniteSet(Unnamed(q)) /\ Cardinality(Unnamed(q)) \in Nat
<1>1. IsFiniteSet(1 .. Len(q))
  BY FS_Interval
<1>2. Unnamed(q) \in SUBSET (1 .. Len(q))
  BY DEF Unnamed
<1>. QED BY <1>1, <1>2, FS_Subset, FS_CardinalityType

LEMMA ReqIs ==
  ASSUME NEW q, ReqsFit(q), NEW i \in 1 .. Len(q)
  PROVE  /\ q[i] \in Reqs /\ Fits(q[i]) /\ q[i].kind \in Kinds /\ q[i] \in Range(q)
         /\ DOMAIN q = 1 .. Len(q) /\ Len(q) \in Nat
<1>1. q \in Seq(Reqs) /\ Fits(q[i])
  BY DEF ReqsFit
<1>2. q[i] \in Reqs /\ DOMAIN q = 1 .. Len(q) /\ Len(q) \in Nat
  BY <1>1
<1>3. q[i].kind \in Kinds
  BY <1>2 DEF Reqs
<1>. QED BY <1>1, <1>2, <1>3 DEF Range

LEMMA TypedRequest ==
  ASSUME NEW r \in Reqs
  PROVE  /\ r.kind \in Kinds /\ r.op \in {"get", "save", "delete"} /\ r.id \in Ids \cup {None}
         /\ r.name \in Names \cup {None} /\ r.rest \in Rests \cup {None} /\ r.tag \in Nat
         /\ r.stage \in {"asked", "served"}
BY DEF Reqs

LEMMA RemoveReq ==
  ASSUME NEW q, ReqsFit(q), NEW n \in 1 .. Len(q)
  PROVE  /\ ReqsFit(RemoveAt(q, n)) /\ Len(RemoveAt(q, n)) = Len(q) - 1
         /\ OneGet(q) => OneGet(RemoveAt(q, n))
         /\ \A l : Ahead(q, l) => Ahead(RemoveAt(q, n), l)
         /\ \A t : Apart(q, t) => Apart(RemoveAt(q, n), t)
         /\ \A t : Moved(q, t) => Moved(RemoveAt(q, n), t)
<1>. DEFINE r == RemoveAt(q, n)
<1>1. q \in Seq(Reqs) /\ \A i \in 1 .. Len(q) : Fits(q[i])
  BY DEF ReqsFit
<1>2. r \in Seq(Reqs) /\ Len(r) = Len(q) - 1
  BY <1>1, RemoveAtPlaces
<1>3. \A i \in 1 .. Len(r) : \E j \in 1 .. Len(q) \ {n} : r[i] = q[j]
  BY <1>1, RemoveAtIs
<1>4. \A i, k \in 1 .. Len(r) : i # k =>
        \E j, l \in 1 .. Len(q) \ {n} : j # l /\ r[i] = q[j] /\ r[k] = q[l]
  <2>1. q \in Seq(Reqs)
    BY <1>1
  <2>. QED BY <2>1, RemoveAtKeeps
<1>. HIDE DEF r
<1>5. ReqsFit(r)
  BY <1>1, <1>2, <1>3 DEF ReqsFit
<1>6. ASSUME OneGet(q) PROVE OneGet(r)
  <2>. SUFFICES ASSUME NEW i \in 1 .. Len(r), NEW j \in 1 .. Len(r), i # j
                PROVE  ~(r[i].op = "get" /\ r[j].op = "get")
    BY DEF OneGet
  <2>1. PICK a \in 1 .. Len(q) \ {n}, b \in 1 .. Len(q) \ {n} : a # b /\ r[i] = q[a] /\ r[j] = q[b]
    BY <1>4
  <2>. QED BY <1>6, <2>1 DEF OneGet
<1>7. \A l : Ahead(q, l) => Ahead(r, l)
  BY <1>3 DEF Ahead
<1>8. ASSUME NEW t, Apart(q, t) PROVE Apart(r, t)
  <2>. SUFFICES ASSUME NEW k \in Kinds, NEW id \in Ids \ t[k], NEW i \in 1 .. Len(r),
                       NEW j \in 1 .. Len(r), i # j, About(r[i], k, id), About(r[j], k, id)
                PROVE  Unasked(r[i]) \/ Unasked(r[j])
    BY DEF Apart
  <2>1. PICK a \in 1 .. Len(q) \ {n}, b \in 1 .. Len(q) \ {n} : a # b /\ r[i] = q[a] /\ r[j] = q[b]
    BY <1>4
  <2>. QED BY <1>8, <2>1 DEF Apart
<1>9. \A t : Moved(q, t) => Moved(r, t)
  BY <1>3 DEF Moved
<1>. QED BY <1>2, <1>5, <1>6, <1>7, <1>8, <1>9 DEF r

(* Who is told nothing by the request that is gone is told the same.       *)
LEMMA RemoveTold ==
  ASSUME NEW q, ReqsFit(q), NEW n \in 1 .. Len(q), NEW k, NEW id,
         ~(q[n].stage = "served" /\ About(q[n], k, id))
  PROVE  Told(RemoveAt(q, n), k, id) = Told(q, k, id)
<1>1. q \in Seq(Reqs)
  BY DEF ReqsFit
<1>2. /\ \A e \in Range(RemoveAt(q, n)) : e \in Range(q)
      /\ \A e \in Range(q) : e \in Range(RemoveAt(q, n)) \/ e = q[n]
  BY <1>1, RemoveAtRange
<1>. QED BY <1>2 DEF Told

(* An answer about an id that is not tangled is the only one about it.     *)
LEMMA AnswerIsAlone ==
  ASSUME NEW q, ReqsFit(q), NEW t, Apart(q, t), NEW n \in 1 .. Len(q),
         NEW k \in Kinds, NEW id \in Ids \ t[k], q[n].stage = "served", About(q[n], k, id)
  PROVE  Told(q, k, id) = {q[n]} /\ Told(RemoveAt(q, n), k, id) = {}
<1>1. q \in Seq(Reqs) /\ DOMAIN q = 1 .. Len(q)
  BY DEF ReqsFit
<1>2. \A j \in 1 .. Len(q) \ {n} : ~(q[j].stage = "served" /\ About(q[j], k, id))
  BY DEF Apart, Unasked
<1>3. Told(q, k, id) = {q[n]}
  BY <1>1, <1>2 DEF Told, Range
<1>4. RemoveAt(q, n) \in Seq(Reqs)
      /\ \A i \in 1 .. Len(RemoveAt(q, n)) : \E j \in 1 .. Len(q) \ {n} : RemoveAt(q, n)[i] = q[j]
  BY <1>1, RemoveAtIs
<1>5. Told(RemoveAt(q, n), k, id) = {}
  <2>1. DOMAIN RemoveAt(q, n) = 1 .. Len(RemoveAt(q, n))
    BY <1>4
  <2>. QED BY <1>2, <1>4, <2>1 DEF Told, Range
<1>. QED BY <1>3, <1>5

(* A write not served yet about an id that is not tangled is told nothing. *)
LEMMA WriteIsAlone ==
  ASSUME NEW q, ReqsFit(q), NEW t, Apart(q, t), NEW n \in 1 .. Len(q),
         NEW k \in Kinds, NEW id \in Ids \ t[k],
         q[n].stage = "asked", q[n].op # "get", About(q[n], k, id)
  PROVE  Told(q, k, id) = {}
<1>1. DOMAIN q = 1 .. Len(q)
  BY DEF ReqsFit
<1>2. \A j \in 1 .. Len(q) : ~(q[j].stage = "served" /\ About(q[j], k, id))
  BY DEF Apart, Unasked
<1>. QED BY <1>1, <1>2 DEF Told, Range

LEMMA RemoveUnnamed ==
  ASSUME NEW q, ReqsFit(q), NEW n \in 1 .. Len(q)
  PROVE  Cardinality(Unnamed(RemoveAt(q, n))) <= Cardinality(Unnamed(q))
<1>. DEFINE r == RemoveAt(q, n)
            f == [i \in Unnamed(r) |-> IF i < n THEN i ELSE i + 1]
<1>1. q \in Seq(Reqs) /\ Len(q) \in Nat
  BY DEF ReqsFit
<1>2. /\ Len(r) = Len(q) - 1
      /\ \A i \in 1 .. Len(q) - 1 : r[i] = IF i < n THEN q[i] ELSE q[i + 1]
  BY <1>1, RemoveAtPlaces
<1>. HIDE DEF r
<1>3. ASSUME NEW i \in Unnamed(r) PROVE f[i] \in Unnamed(q)
  <2>1. i \in 1 .. Len(q) - 1 /\ NeedsId(r[i])
    BY <1>2 DEF Unnamed
  <2>2. f[i] \in 1 .. Len(q)
    BY <1>1, <2>1
  <2>3. q[f[i]] = r[i]
    BY <1>2, <2>1
  <2>. QED BY <2>1, <2>2, <2>3 DEF Unnamed
<1>4. \A i, j \in Unnamed(r) : f[i] = f[j] => i = j
  BY <1>1, <1>2 DEF Unnamed
<1>5. f \in Injection(Unnamed(r), Unnamed(q))
  <2>1. f \in [Unnamed(r) -> Unnamed(q)]
    BY <1>3
  <2>. HIDE DEF f
  <2>. QED BY <1>4, <2>1 DEF Injection, IsInjective
<1>6. IsFiniteSet(Unnamed(q))
  BY <1>1, UnnamedIs
<1>. HIDE DEF f
<1>. QED BY <1>5, <1>6, FS_Injection DEF r

(* A request is asked: a click's, or boot's next question.                 *)
LEMMA AskReq ==
  ASSUME NEW q, ReqsFit(q), NEW r \in Reqs, Fits(r), r.stage = "asked"
  PROVE  /\ ReqsFit(Append(q, r)) /\ Len(Append(q, r)) = Len(q) + 1
         /\ r.op # "get" \/ (\A i \in 1 .. Len(q) : q[i].op # "get") =>
              (OneGet(q) => OneGet(Append(q, r)))
         /\ \A l : Ahead(q, l) /\ (r.op = "get" => \A k \in l : Rank(k) < Rank(r.kind)) =>
              Ahead(Append(q, r), l)
         /\ \A t : Moved(q, t) => Moved(Append(q, r), t)
         /\ \A k, id : Told(Append(q, r), k, id) = Told(q, k, id)
<1>. DEFINE a == Append(q, r)
<1>1. q \in Seq(Reqs) /\ \A i \in 1 .. Len(q) : Fits(q[i])
  BY DEF ReqsFit
<1>2. /\ a \in Seq(Reqs) /\ Len(a) = Len(q) + 1 /\ Len(q) \in Nat
      /\ (\A i \in 1 .. Len(q) : a[i] = q[i]) /\ a[Len(q) + 1] = r
  BY <1>1, AppendIs
<1>3. Range(a) = Range(q) \cup {r}
  BY <1>1, AppendRange
<1>. HIDE DEF a
<1>4. \A i \in 1 .. Len(a) : i \in 1 .. Len(q) \/ i = Len(q) + 1
  BY <1>2
<1>5. ReqsFit(a)
  BY <1>1, <1>2, <1>4 DEF ReqsFit
<1>6. ASSUME r.op # "get" \/ (\A i \in 1 .. Len(q) : q[i].op # "get"), OneGet(q) PROVE OneGet(a)
  BY <1>2, <1>4, <1>6 DEF OneGet
<1>7. ASSUME NEW l, Ahead(q, l), r.op = "get" => \A k \in l : Rank(k) < Rank(r.kind)
      PROVE  Ahead(a, l)
  <2>. SUFFICES ASSUME NEW i \in 1 .. Len(a), a[i].op = "get", NEW k \in l
                PROVE  Rank(k) < Rank(a[i].kind)
    BY DEF Ahead
  <2>1. CASE i \in 1 .. Len(q)
    BY <1>2, <1>7, <2>1 DEF Ahead
  <2>2. CASE i = Len(q) + 1
    BY <1>2, <1>7, <2>2
  <2>. QED BY <1>4, <2>1, <2>2
<1>8. \A t : Moved(q, t) => Moved(a, t)
  BY <1>2, <1>4 DEF Moved
<1>9. \A k, id : Told(a, k, id) = Told(q, k, id)
  BY <1>3 DEF Told
<1>. QED BY <1>2, <1>5, <1>6, <1>7, <1>8, <1>9 DEF a

LEMMA AskApart ==
  ASSUME NEW q, ReqsFit(q), NEW r \in Reqs, r.stage = "asked", NEW t, NEW u, Apart(q, t),
         \A k \in Kinds : \A id \in Ids \ u[k] : id \notin t[k],
         r.op # "get" => \A k \in Kinds : \A id \in Ids \ u[k] : \A i \in 1 .. Len(q) :
           About(r, k, id) => ~About(q[i], k, id)
  PROVE  Apart(Append(q, r), u)
<1>. DEFINE a == Append(q, r)
<1>1. q \in Seq(Reqs)
  BY DEF ReqsFit
<1>2. /\ Len(a) = Len(q) + 1 /\ Len(q) \in Nat
      /\ (\A i \in 1 .. Len(q) : a[i] = q[i]) /\ a[Len(q) + 1] = r
  BY <1>1, AppendIs
<1>. HIDE DEF a
<1>3. \A i \in 1 .. Len(a) : i \in 1 .. Len(q) \/ i = Len(q) + 1
  BY <1>2
<1>4. ASSUME NEW k \in Kinds, NEW id \in Ids \ u[k], NEW i \in 1 .. Len(a), NEW j \in 1 .. Len(a),
             i # j, About(a[i], k, id), About(a[j], k, id)
      PROVE  Unasked(a[i]) \/ Unasked(a[j])
  <2>1. CASE i \in 1 .. Len(q) /\ j \in 1 .. Len(q)
    BY <1>2, <1>4, <2>1 DEF Apart
  <2>2. CASE i = Len(q) + 1 /\ j \in 1 .. Len(q)
    BY <1>2, <1>4, <2>2 DEF Unasked
  <2>3. CASE j = Len(q) + 1 /\ i \in 1 .. Len(q)
    BY <1>2, <1>4, <2>3 DEF Unasked
  <2>. QED BY <1>3, <1>4, <2>1, <2>2, <2>3
<1>. QED BY <1>4 DEF Apart, a

LEMMA AskUnnamed ==
  ASSUME NEW q, ReqsFit(q), NEW r \in Reqs
  PROVE  /\ Cardinality(Unnamed(Append(q, r))) <= Cardinality(Unnamed(q)) + 1
         /\ r.op = "get" => Cardinality(Unnamed(Append(q, r))) <= Cardinality(Unnamed(q))
<1>. DEFINE a == Append(q, r)
<1>1. q \in Seq(Reqs)
  BY DEF ReqsFit
<1>2. /\ Len(a) = Len(q) + 1 /\ Len(q) \in Nat
      /\ (\A i \in 1 .. Len(q) : a[i] = q[i]) /\ a[Len(q) + 1] = r
  BY <1>1, AppendIs
<1>. HIDE DEF a
<1>3. IsFiniteSet(Unnamed(q)) /\ Cardinality(Unnamed(q)) \in Nat
  BY <1>2, UnnamedIs
<1>4. Unnamed(a) \in SUBSET (Unnamed(q) \cup {Len(q) + 1})
  BY <1>2 DEF Unnamed
<1>5. /\ IsFiniteSet(Unnamed(q) \cup {Len(q) + 1})
      /\ Cardinality(Unnamed(q) \cup {Len(q) + 1}) <= Cardinality(Unnamed(q)) + 1
  BY <1>3, FS_AddElement
<1>6. Cardinality(Unnamed(a)) <= Cardinality(Unnamed(q) \cup {Len(q) + 1})
  BY <1>4, <1>5, FS_Subset
<1>7. Len(a) \in Nat
  BY <1>2
<1>8. Cardinality(Unnamed(a)) \in Nat /\ Cardinality(Unnamed(q) \cup {Len(q) + 1}) \in Nat
  BY <1>5, <1>7, UnnamedIs, FS_CardinalityType
<1>9. ASSUME r.op = "get" PROVE Cardinality(Unnamed(a)) <= Cardinality(Unnamed(q))
  <2>1. Unnamed(a) \in SUBSET Unnamed(q)
    <3>1. ~NeedsId(r)
      BY <1>9 DEF NeedsId
    <3>. QED BY <1>2, <1>4, <3>1 DEF Unnamed
  <2>. QED BY <1>3, <2>1, FS_Subset
<1>. QED BY <1>3, <1>5, <1>6, <1>8, <1>9 DEF a

(* A request is served; what it was about stays, the answer may add to it. *)
ServedAs(r, a) == [r EXCEPT !.stage = "served", !.answer = a]

LEMMA ServedFields ==
  ASSUME NEW r \in Reqs, NEW a \in Answers
  PROVE  /\ ServedAs(r, a) \in Reqs /\ ServedAs(r, a).stage = "served" /\ ServedAs(r, a).answer = a
         /\ ServedAs(r, a).kind = r.kind /\ ServedAs(r, a).op = r.op /\ ServedAs(r, a).id = r.id
         /\ ServedAs(r, a).name = r.name /\ ServedAs(r, a).rest = r.rest /\ ServedAs(r, a).tag = r.tag
<1>. DEFINE u == ServedAs(r, a)
<1>1. /\ u.stage = "served" /\ u.answer = a /\ u.kind = r.kind /\ u.op = r.op /\ u.id = r.id
      /\ u.name = r.name /\ u.rest = r.rest /\ u.tag = r.tag
  BY DEF ServedAs, Reqs
<1>2. u \in Reqs
  BY DEF ServedAs, Reqs
<1>. QED BY <1>1, <1>2

LEMMA ServeReq ==
  ASSUME NEW q, ReqsFit(q), NEW n \in 1 .. Len(q), q[n].stage = "asked", NEW a \in Answers,
         Fits(ServedAs(q[n], a)), NEW p \in Seq(Reqs), Len(p) = Len(q), p[n] = ServedAs(q[n], a),
         \A i \in 1 .. Len(q) \ {n} : p[i] = q[i]
  PROVE  /\ ReqsFit(p)
         /\ OneGet(q) => OneGet(p)
         /\ \A l : Ahead(q, l) => Ahead(p, l)
         /\ \A k, id : Told(p, k, id) =
              Told(q, k, id) \cup (IF About(p[n], k, id) THEN {p[n]} ELSE {})
<1>1. q \in Seq(Reqs) /\ (\A i \in 1 .. Len(q) : Fits(q[i])) /\ DOMAIN q = 1 .. Len(q)
  BY DEF ReqsFit
<1>2. q[n] \in Reqs
  BY <1>1
<1>. DEFINE u == ServedAs(q[n], a)
<1>3. u \in Reqs /\ u.stage = "served" /\ u.kind = q[n].kind /\ u.op = q[n].op
  BY <1>2, ServedFields
<1>. HIDE DEF u
<1>4. p \in Seq(Reqs) /\ Len(p) = Len(q) /\ p[n] = u
  BY DEF u
<1>5. ReqsFit(p)
  BY <1>1, <1>4 DEF ReqsFit, u
<1>6. \A i \in 1 .. Len(q) : p[i].op = q[i].op /\ p[i].kind = q[i].kind
  BY <1>3, <1>4
<1>7. OneGet(q) => OneGet(p)
  BY <1>4, <1>6 DEF OneGet
<1>8. \A l : Ahead(q, l) => Ahead(p, l)
  BY <1>4, <1>6 DEF Ahead
<1>9. ASSUME NEW k, NEW id
       PROVE  Told(p, k, id) = Told(q, k, id) \cup (IF About(u, k, id) THEN {u} ELSE {})
  <2>0. DOMAIN p = 1 .. Len(q)
    BY <1>4
  <2>1. ASSUME NEW r \in Told(p, k, id)
        PROVE  r \in Told(q, k, id) \/ (r = u /\ About(u, k, id))
    <3>1. PICK i \in 1 .. Len(q) : r = p[i] /\ r.stage = "served" /\ About(r, k, id)
      BY <2>0 DEF Told, Range
    <3>. QED BY <1>1, <1>4, <3>1 DEF Told, Range
  <2>2. ASSUME NEW r \in Told(q, k, id) PROVE r \in Told(p, k, id)
    <3>1. PICK i \in 1 .. Len(q) : r = q[i] /\ r.stage = "served" /\ About(r, k, id)
      BY <1>1 DEF Told, Range
    <3>2. r = p[i]
      BY <1>4, <3>1
    <3>. QED BY <2>0, <3>1, <3>2 DEF Told, Range
  <2>3. About(u, k, id) => u \in Told(p, k, id)
    BY <1>3, <1>4, <2>0 DEF Told, Range
  <2>. QED BY <2>1, <2>2, <2>3
<1>10. \A k, id : Told(p, k, id) =
         Told(q, k, id) \cup (IF About(p[n], k, id) THEN {p[n]} ELSE {})
  BY <1>4, <1>9
<1>. QED BY <1>5, <1>7, <1>8, <1>10

LEMMA ServeUnnamed ==
  ASSUME NEW q, ReqsFit(q), NEW n \in 1 .. Len(q), NEW p, Len(p) = Len(q),
         p[n].stage = "served", \A i \in 1 .. Len(q) \ {n} : p[i] = q[i]
  PROVE  /\ Cardinality(Unnamed(p)) <= Cardinality(Unnamed(q))
         /\ NeedsId(q[n]) => Cardinality(Unnamed(p)) + 1 <= Cardinality(Unnamed(q))
<1>1. Len(q) \in Nat /\ Len(p) \in Nat
  BY DEF ReqsFit
<1>2. /\ IsFiniteSet(Unnamed(q)) /\ Cardinality(Unnamed(q)) \in Nat
      /\ Cardinality(Unnamed(p)) \in Nat
  BY <1>1, UnnamedIs
<1>3. Unnamed(p) \in SUBSET (Unnamed(q) \ {n})
  BY DEF Unnamed, NeedsId
<1>4. /\ IsFiniteSet(Unnamed(q) \ {n})
      /\ Cardinality(Unnamed(q) \ {n}) =
           IF n \in Unnamed(q) THEN Cardinality(Unnamed(q)) - 1 ELSE Cardinality(Unnamed(q))
  BY <1>2, FS_RemoveElement
<1>5. Cardinality(Unnamed(p)) <= Cardinality(Unnamed(q) \ {n})
  BY <1>3, <1>4, FS_Subset
<1>6. NeedsId(q[n]) => n \in Unnamed(q)
  BY DEF Unnamed
<1>. QED BY <1>2, <1>4, <1>5, <1>6

-----------------------------------------------------------------------------
(* The inductive invariant                                                 *)

TagsOwn(s) == \A i, j \in 1 .. Len(s) : s[i].tag = s[j].tag => i = j

(* The object that was clicked has the id that was asked about, unless the *)
(* two are tangled, and it is there if the id is not.                      *)
ClickFits(r, s, T) ==
  /\ \A o \in Range(s) : o.tag = r.tag => o.id = r.id \/ (o.id \in T /\ r.id \in T)
  /\ r.id \notin T => \E o \in Range(s) : o.tag = r.tag
ClicksFit(q, L, l, t) ==
  \A i \in 1 .. Len(q) : q[i].tag # 0 /\ q[i].kind \in l =>
    ClickFits(q[i], L[q[i].kind], t[q[i].kind])

(* A list on its way to the page is what is stored.                        *)
LoadFits(r, s, T) ==
  OwnIds(r.answer) /\ \A id \in Ids \ T : Lookup(r.answer, id) = Lookup(s, id)
LoadsFit(q, D, t) ==
  \A i \in 1 .. Len(q) : q[i].op = "get" /\ q[i].stage = "served" =>
    LoadFits(q[i], D[q[i].kind], t[q[i].kind])

(* What the page has under an id is what is stored, or will be when the    *)
(* answer comes.                                                           *)
Agrees(mine, theirs, told) ==
  /\ \A o, p \in mine : o = p
  /\ told = {} => {Plain(o) : o \in mine} = theirs
  /\ \A r \in told :
       /\ r.op = "save" => r.answer \in theirs /\ (r.kind = "remotes" /\ r.tag = 0 => mine = {})
       /\ r.op = "delete" => theirs = {}

DbInv    == db \in [Kinds -> Seq(Entry)] /\ \A k \in Kinds : OwnIds(db[k])
ListInv  == list \in [Kinds -> Seq(Objects)] /\ \A k \in Kinds : TagsOwn(list[k])
ReqInv   == /\ ReqsFit(reqs) /\ Len(reqs) <= MaxOpen /\ OneGet(reqs) /\ Ahead(reqs, loaded)
            /\ Apart(reqs, tangled) /\ Moved(reqs, tangled)
PageInv  == /\ active \in Ids \cup {None}
            /\ dialog = Closed \/ dialog \in [kind : Dialogs, id : Ids \cup {None}]
GhostInv == loaded \in SUBSET Kinds /\ tangled \in [Kinds -> SUBSET Ids]
CountInv == /\ counts \in [{"click", "other", "loss"} -> Nat] /\ made \in Nat
            /\ made + Cardinality(Unnamed(reqs)) <= counts["click"] /\ counts["click"] <= MaxClicks
AgreeInv == \A k \in loaded : \A id \in Ids \ tangled[k] :
              Agrees(Lookup(list[k], id), Lookup(db[k], id), Told(reqs, k, id))
CopyInv  == ClicksFit(reqs, list, loaded, tangled) /\ LoadsFit(reqs, db, tangled) /\ AgreeInv
IInv     == DbInv /\ ListInv /\ ReqInv /\ PageInv /\ GhostInv /\ CountInv /\ CopyInv

LEMMA InitIInv == Init => IInv
<1>. SUFFICES ASSUME Init PROVE IInv
  OBVIOUS
<1>1. DbInv
  <2>1. Stored \in [Kinds -> Seq(Entry)] /\ db = Stored
    BY ListConstants DEF Init
  <2>2. ASSUME NEW k \in Kinds PROVE OwnIds(db[k])
    <3>1. db[k] \in Seq(Entry) /\ DOMAIN db[k] = 1 .. Len(db[k])
      BY <2>1
    <3>2. \A i, j \in DOMAIN db[k] : db[k][i].id = db[k][j].id => i = j
      BY <2>1, ListConstants DEF IsInjective
    <3>. QED BY <3>1, <3>2 DEF OwnIds
  <2>. QED BY <2>1, <2>2 DEF DbInv
<1>2. ListInv
  BY DEF Init, ListInv, TagsOwn
<1>. DEFINE g == Get("remotes")
<1>3. /\ g \in Reqs /\ Fits(g) /\ g.stage = "asked" /\ g.op = "get" /\ g.tag = 0
  BY DEF Get, Request, Reqs, Answers, Fits, Kinds
<1>. HIDE DEF g
<1>4. /\ reqs = <<g>> /\ reqs \in Seq(Reqs) /\ Len(reqs) = 1
      /\ \A i \in 1 .. Len(reqs) : i = 1 /\ reqs[i] = g
  BY <1>3 DEF Init, g
<1>5. ReqInv
  <2>1. ReqsFit(reqs) /\ OneGet(reqs) /\ Ahead(reqs, loaded) /\ Moved(reqs, tangled)
    BY <1>3, <1>4 DEF ReqsFit, OneGet, Ahead, Moved, Init
  <2>2. Apart(reqs, tangled)
    BY <1>4 DEF Apart
  <2>. QED BY <1>4, <2>1, <2>2, Constants DEF ReqInv
<1>6. PageInv
  BY DEF Init, PageInv
<1>7. GhostInv
  BY DEF Init, GhostInv
<1>8. CountInv
  <2>1. Unnamed(reqs) = {}
    BY <1>3, <1>4 DEF Unnamed, NeedsId
  <2>2. Cardinality(Unnamed(reqs)) = 0
    BY <2>1, FS_EmptySet
  <2>. QED BY <2>2, Constants DEF Init, CountInv
<1>9. CopyInv
  BY <1>3, <1>4 DEF Init, CopyInv, ClicksFit, LoadsFit, AgreeInv
<1>. QED BY <1>1, <1>2, <1>5, <1>6, <1>7, <1>8, <1>9 DEF IInv

(* More is tangled, never less.                                            *)
Grown(t, u) == \A k \in Kinds : \A id \in t[k] : id \in u[k]

LEMMA GrownKeeps ==
  ASSUME NEW q, ReqsFit(q), NEW t, NEW u, Grown(t, u)
  PROVE  /\ Apart(q, t) => Apart(q, u)
         /\ Moved(q, t) => Moved(q, u)
         /\ \A L, l : ClicksFit(q, L, l, t) => ClicksFit(q, L, l, u)
         /\ \A D : LoadsFit(q, D, t) => LoadsFit(q, D, u)
<1>1. \A i \in 1 .. Len(q) : q[i].kind \in Kinds
  BY ReqIs
<1>2. Apart(q, t) => Apart(q, u)
  BY DEF Apart, Grown
<1>3. Moved(q, t) => Moved(q, u)
  BY <1>1 DEF Moved, Grown
<1>4. \A L, l : ClicksFit(q, L, l, t) => ClicksFit(q, L, l, u)
  BY <1>1 DEF ClicksFit, ClickFits, Grown
<1>5. \A D : LoadsFit(q, D, t) => LoadsFit(q, D, u)
  BY <1>1 DEF LoadsFit, LoadFits, Grown
<1>. QED BY <1>2, <1>3, <1>4, <1>5

(* The ids X of a kind are tangled.                                        *)
LEMMA TanglesMore ==
  ASSUME GhostInv, NEW k \in Kinds, NEW X, \A id \in X : id \in Ids,
         tangled' = [tangled EXCEPT ![k] = @ \cup X]
  PROVE  /\ tangled' \in [Kinds -> SUBSET Ids] /\ Grown(tangled, tangled')
         /\ \A id : id \in tangled'[k] <=> id \in tangled[k] \/ id \in X
         /\ \A l \in Kinds : l # k => tangled'[l] = tangled[l]
<1>1. tangled \in [Kinds -> SUBSET Ids]
  BY DEF GhostInv
<1>2. tangled' = [l \in Kinds |-> IF l = k THEN tangled[k] \cup X ELSE tangled[l]]
  BY <1>1
<1>3. \A l \in Kinds : tangled'[l] = IF l = k THEN tangled[k] \cup X ELSE tangled[l]
  BY <1>2
<1>4. \A l \in Kinds : tangled'[l] \in SUBSET Ids
  BY <1>1, <1>3
<1>5. tangled' \in [Kinds -> SUBSET Ids]
  BY <1>2, <1>3, <1>4
<1>. QED BY <1>3, <1>5 DEF Grown

(* One list is written at a time.                                          *)
LEMMA WriteList ==
  ASSUME NEW S, NEW f, f \in [Kinds -> S], NEW k \in Kinds, NEW s \in S, NEW g, g = [f EXCEPT ![k] = s]
  PROVE  g \in [Kinds -> S] /\ g[k] = s /\ \A l \in Kinds : l # k => g[l] = f[l]
OBVIOUS

LEMMA CountIs ==
  ASSUME CountInv, NEW k \in {"click", "other", "loss"}, NEW max, Count(k, max)
  PROVE  /\ counts' \in [{"click", "other", "loss"} -> Nat]
         /\ counts'["click"] = IF k = "click" THEN counts["click"] + 1 ELSE counts["click"]
         /\ counts[k] < max
BY DEF CountInv, Count

-----------------------------------------------------------------------------
(* Clicks                                                                  *)

(* What a click asks for.                                                  *)
Asks(r) ==
  /\ r \in Reqs /\ Fits(r) /\ r.stage = "asked" /\ r.op # "get"
  /\ r.tag # 0 => \E o \in Range(list[r.kind]) : o.tag = r.tag /\ o.id = r.id

LEMMA RequestIs ==
  ASSUME NEW k, NEW op, NEW id, NEW name, NEW rest, NEW tag, NEW r,
         r = Request(k, op, id, name, rest, tag)
  PROVE  /\ r.kind = k /\ r.op = op /\ r.id = id /\ r.name = name /\ r.rest = rest /\ r.tag = tag
         /\ r.stage = "asked" /\ r.answer = None
BY DEF Request

LEMMA SaveAsks ==
  ASSUME NEW k \in Kinds, NEW id \in Ids \cup {None}, NEW name \in Names, NEW rest \in Rests,
         k = "remotes" => id = None
  PROVE  Asks(Request(k, "save", id, name, rest, 0))
<1>. DEFINE r == Request(k, "save", id, name, rest, 0)
<1>1. /\ r.kind = k /\ r.op = "save" /\ r.id = id /\ r.name = name /\ r.rest = rest /\ r.tag = 0
      /\ r.stage = "asked"
  BY DEF Request
<1>2. r \in Reqs
  BY DEF Request, Reqs, Answers
<1>. HIDE DEF r
<1>. QED BY <1>1, <1>2 DEF Asks, Fits, r

LEMMA SaveObjectAsks ==
  ASSUME ListInv, NEW k \in Kinds, NEW o \in Range(list[k]), NEW name \in Names, NEW rest \in Rests
  PROVE  Asks(Request(k, "save", o.id, name, rest, o.tag))
<1>. DEFINE r == Request(k, "save", o.id, name, rest, o.tag)
<1>1. o \in Objects
  BY RangeIs DEF ListInv
<1>2. o.id \in Ids /\ o.tag \in Nat \ {0}
  BY <1>1 DEF Objects
<1>3. /\ r.kind = k /\ r.op = "save" /\ r.id = o.id /\ r.name = name /\ r.rest = rest
      /\ r.tag = o.tag /\ r.stage = "asked"
  BY DEF Request
<1>4. r \in Reqs
  BY <1>2 DEF Request, Reqs, Answers
<1>. HIDE DEF r
<1>. QED BY <1>2, <1>3, <1>4 DEF Asks, Fits, r

LEMMA DeleteAsks ==
  ASSUME NEW k \in Kinds, NEW id \in Ids
  PROVE  Asks(Request(k, "delete", id, None, None, 0))
<1>. DEFINE r == Request(k, "delete", id, None, None, 0)
<1>1. r.kind = k /\ r.op = "delete" /\ r.id = id /\ r.tag = 0 /\ r.stage = "asked"
  BY DEF Request
<1>2. r \in Reqs
  BY DEF Request, Reqs, Answers
<1>. HIDE DEF r
<1>. QED BY <1>1, <1>2 DEF Asks, Fits, r

LEMMA OnPageIs ==
  ASSUME ListInv, NEW k \in Kinds, NEW o \in Range(list[k])
  PROVE  o \in Objects /\ o.id \in Ids /\ o.name \in Names /\ o.rest \in Rests
<1>1. o \in Objects
  BY RangeIs DEF ListInv
<1>. QED BY <1>1 DEF Objects

LEMMA ClicksAsk ==
  ASSUME ListInv, PageInv,
         AddRemote \/ RenameRemote \/ AddButton \/ RemoveRemote \/ ToggleRule \/ SaveDialog \/ DeleteInDialog
  PROVE  \E r : Asks(r) /\ Click(r)
<1>1. "remotes" \in Kinds /\ "rules" \in Kinds /\ Dialogs \subseteq Kinds /\ "remotes" \notin Dialogs
  BY DEF Kinds, Dialogs
<1>2. \A e \in Active : e \in Range(list["remotes"])
  BY DEF Active, Lookup
<1>3. CASE AddRemote
  <2>1. PICK n \in Names : Click(Request("remotes", "save", None, n, Bare, 0))
    BY <1>3 DEF AddRemote
  <2>2. Asks(Request("remotes", "save", None, n, Bare, 0))
    BY <1>1, Constants, SaveAsks
  <2>. QED BY <2>1, <2>2
<1>4. CASE RenameRemote
  <2>1. PICK e \in Active, n \in Names : Click(Request("remotes", "save", e.id, n, e.rest, e.tag))
    BY <1>4 DEF RenameRemote
  <2>2. Asks(Request("remotes", "save", e.id, n, e.rest, e.tag))
    BY <1>1, <1>2, OnPageIs, SaveObjectAsks
  <2>. QED BY <2>1, <2>2
<1>5. CASE AddButton
  <2>1. PICK e \in Active, x \in Rests : Click(Request("remotes", "save", e.id, e.name, x, e.tag))
    BY <1>5 DEF AddButton
  <2>2. Asks(Request("remotes", "save", e.id, e.name, x, e.tag))
    BY <1>1, <1>2, OnPageIs, SaveObjectAsks
  <2>. QED BY <2>1, <2>2
<1>6. CASE RemoveRemote
  <2>1. PICK e \in Active : Click(Request("remotes", "delete", e.id, None, None, 0))
    BY <1>6 DEF RemoveRemote
  <2>2. Asks(Request("remotes", "delete", e.id, None, None, 0))
    BY <1>1, <1>2, OnPageIs, DeleteAsks
  <2>. QED BY <2>1, <2>2
<1>7. CASE ToggleRule
  <2>1. PICK e \in Range(list["rules"]), x \in Rests :
          Click(Request("rules", "save", e.id, e.name, x, e.tag))
    BY <1>7 DEF ToggleRule
  <2>2. Asks(Request("rules", "save", e.id, e.name, x, e.tag))
    BY <1>1, OnPageIs, SaveObjectAsks
  <2>. QED BY <2>1, <2>2
<1>8. CASE SaveDialog
  <2>1. PICK n \in Names, x \in Rests : Click(Request(dialog.kind, "save", dialog.id, n, x, 0))
    BY <1>8 DEF SaveDialog
  <2>2. dialog.kind \in Dialogs /\ dialog.id \in Ids \cup {None}
    BY <1>8 DEF SaveDialog, Free, PageInv
  <2>3. Asks(Request(dialog.kind, "save", dialog.id, n, x, 0))
    BY <1>1, <2>2, SaveAsks
  <2>. QED BY <2>1, <2>3
<1>9. CASE DeleteInDialog
  <2>1. dialog.id # None /\ Click(Request(dialog.kind, "delete", dialog.id, None, None, 0))
    BY <1>9 DEF DeleteInDialog
  <2>2. dialog.kind \in Dialogs /\ dialog.id \in Ids
    BY <2>1 DEF PageInv, Closed
  <2>3. Asks(Request(dialog.kind, "delete", dialog.id, None, None, 0))
    BY <1>1, <2>2, DeleteAsks
  <2>. QED BY <2>1, <2>3
<1>. QED BY <1>3, <1>4, <1>5, <1>6, <1>7, <1>8, <1>9

LEMMA ClickKeeps == ASSUME IInv, NEW r, Asks(r), Click(r) PROVE IInv'
<1>. USE DEF IInv
<1>1. /\ reqs' = Append(reqs, r) /\ Len(reqs) < MaxOpen /\ db' = db /\ made' = made
      /\ list' = list /\ active' = active /\ dialog' = dialog /\ loaded' = loaded
      /\ Count("click", MaxClicks)
  BY DEF Click, pageVars
<1>2. /\ r \in Reqs /\ Fits(r) /\ r.stage = "asked" /\ r.op # "get" /\ r.kind \in Kinds
      /\ r.id \in Ids \cup {None}
  BY TypedRequest DEF Asks
<1>. DEFINE X == IF r.id # None /\ Overlaps(r.kind, r.id, 0) THEN {r.id} ELSE {}
<1>3. tangled' = [tangled EXCEPT ![r.kind] = @ \cup X]
  <2>1. CASE r.id # None /\ Overlaps(r.kind, r.id, 0)
    BY <2>1 DEF Click
  <2>2. CASE ~(r.id # None /\ Overlaps(r.kind, r.id, 0))
    <3>1. tangled' = tangled
      BY <2>2 DEF Click
    <3>2. [tangled EXCEPT ![r.kind] = @ \cup {}] = tangled
      BY <1>2 DEF GhostInv
    <3>. QED BY <2>2, <3>1, <3>2
  <2>. QED BY <2>1, <2>2
<1>4. \A id \in X : id \in Ids
  BY <1>2
<1>. HIDE DEF X
<1>5. /\ tangled' \in [Kinds -> SUBSET Ids] /\ Grown(tangled, tangled')
      /\ \A id : id \in tangled'[r.kind] <=> id \in tangled[r.kind] \/ id \in X
  BY <1>2, <1>3, <1>4, TanglesMore
<1>6. ReqsFit(reqs) /\ DOMAIN reqs = 1 .. Len(reqs) /\ Len(reqs) \in Nat
  BY DEF ReqInv, ReqsFit
<1>7. ASSUME NEW k \in Kinds, NEW id \in Ids \ tangled'[k], NEW i \in 1 .. Len(reqs), About(r, k, id)
      PROVE  ~About(reqs[i], k, id)
  <2>1. r.kind = k /\ r.id = id /\ r.id # None
    BY <1>2, <1>7, Constants DEF About
  <2>2. ~Overlaps(r.kind, r.id, 0)
    BY <1>5, <2>1 DEF X
  <2>3. i \in DOMAIN reqs \ {0}
    BY <1>6
  <2>. QED BY <2>1, <2>2, <2>3 DEF Overlaps
<1>8. /\ ReqsFit(reqs') /\ Len(reqs') = Len(reqs) + 1 /\ OneGet(reqs') /\ Ahead(reqs', loaded)
      /\ Moved(reqs', tangled) /\ \A k, id : Told(reqs', k, id) = Told(reqs, k, id)
  <2>1. OneGet(reqs) /\ Ahead(reqs, loaded) /\ Moved(reqs, tangled)
    BY DEF ReqInv
  <2>. QED BY <1>1, <1>2, <1>6, <2>1, AskReq
<1>9. Apart(reqs', tangled')
  <2>1. \A k \in Kinds : \A id \in Ids \ tangled'[k] : id \notin tangled[k]
    BY <1>5 DEF Grown
  <2>2. Apart(reqs, tangled)
    BY DEF ReqInv
  <2>. QED BY <1>1, <1>2, <1>6, <1>7, <2>1, <2>2, AskApart
<1>10. ReqInv'
  <2>1. Moved(reqs', tangled')
    BY <1>5, <1>8, GrownKeeps
  <2>2. Len(reqs') <= MaxOpen
    BY <1>1, <1>6, <1>8, Constants
  <2>. QED BY <1>1, <1>8, <1>9, <2>1, <2>2 DEF ReqInv
<1>11. DbInv' /\ ListInv' /\ PageInv' /\ GhostInv'
  BY <1>1, <1>5 DEF DbInv, ListInv, PageInv, GhostInv
<1>12. CountInv'
  <2>1. /\ counts' \in [{"click", "other", "loss"} -> Nat]
        /\ counts'["click"] = counts["click"] + 1 /\ counts["click"] < MaxClicks
    BY <1>1, CountIs
  <2>2. Cardinality(Unnamed(reqs')) <= Cardinality(Unnamed(reqs)) + 1
    BY <1>1, <1>2, <1>6, AskUnnamed
  <2>3. Cardinality(Unnamed(reqs)) \in Nat /\ Cardinality(Unnamed(reqs')) \in Nat
    BY <1>6, <1>8, UnnamedIs
  <2>4. /\ made + Cardinality(Unnamed(reqs)) <= counts["click"] /\ counts["click"] \in Nat
        /\ made \in Nat
    BY DEF CountInv
  <2>5. made + Cardinality(Unnamed(reqs')) <= counts'["click"] /\ counts'["click"] <= MaxClicks
    BY <2>1, <2>2, <2>3, <2>4, Constants
  <2>. QED BY <1>1, <2>1, <2>4, <2>5 DEF CountInv
<1>13. \A i \in 1 .. Len(reqs') : (i \in 1 .. Len(reqs) /\ reqs'[i] = reqs[i]) \/ reqs'[i] = r
  <2>1. reqs \in Seq(Reqs)
    BY <1>6 DEF ReqsFit
  <2>2. /\ (\A i \in 1 .. Len(reqs) : reqs'[i] = reqs[i]) /\ reqs'[Len(reqs) + 1] = r
    BY <1>1, <1>2, <2>1, AppendIs
  <2>. QED BY <1>6, <1>8, <2>2
<1>14. ClicksFit(reqs', list', loaded', tangled')
  <2>1. ClicksFit(reqs, list, loaded, tangled')
    BY <1>5, <1>6, GrownKeeps DEF CopyInv
  <2>2. r.tag # 0 => ClickFits(r, list[r.kind], tangled'[r.kind])
    <3>. SUFFICES ASSUME r.tag # 0 PROVE ClickFits(r, list[r.kind], tangled'[r.kind])
      OBVIOUS
    <3>1. PICK o \in Range(list[r.kind]) : o.tag = r.tag /\ o.id = r.id
      BY DEF Asks
    <3>2. list[r.kind] \in Seq(Objects) /\ TagsOwn(list[r.kind])
      BY <1>2 DEF ListInv
    <3>3. \A p \in Range(list[r.kind]) : p.tag = r.tag => p = o
      BY <3>1, <3>2, RangeIs DEF TagsOwn
    <3>. QED BY <3>1, <3>3 DEF ClickFits
  <2>. QED BY <1>1, <1>13, <2>1, <2>2 DEF ClicksFit
<1>15. LoadsFit(reqs', db', tangled')
  <2>1. LoadsFit(reqs, db, tangled')
    BY <1>5, <1>6, GrownKeeps DEF CopyInv
  <2>. QED BY <1>1, <1>2, <1>13, <2>1 DEF LoadsFit
<1>16. AgreeInv'
  BY <1>1, <1>5, <1>8 DEF AgreeInv, CopyInv, GhostInv, Grown
<1>. QED BY <1>10, <1>11, <1>12, <1>14, <1>15, <1>16 DEF CopyInv

(* What changes nothing but the selection and the dialog.                  *)
LEMMA TurnKeeps ==
  ASSUME IInv, Select \/ (\E k \in Dialogs : OpenDialog(k)) \/ CloseDialog \/ UNCHANGED vars
  PROVE  IInv'
<1>. USE DEF IInv
<1>1. /\ db' = db /\ made' = made /\ list' = list /\ reqs' = reqs /\ counts' = counts
      /\ loaded' = loaded /\ tangled' = tangled
  BY DEF Select, OpenDialog, CloseDialog, Turn, vars, pageVars
<1>2. DbInv' /\ ListInv' /\ ReqInv' /\ GhostInv' /\ CountInv' /\ CopyInv'
  BY <1>1 DEF DbInv, ListInv, ReqInv, GhostInv, CountInv, CopyInv, AgreeInv
<1>3. PageInv'
  <2>1. CASE Select
    <3>1. PICK e \in Range(list["remotes"]) : active' = e.id
      BY <2>1 DEF Select
    <3>2. "remotes" \in Kinds /\ dialog' = dialog
      BY <2>1 DEF Kinds, Select
    <3>. QED BY <3>1, <3>2, OnPageIs DEF PageInv
  <2>2. ASSUME NEW k \in Dialogs, OpenDialog(k) PROVE PageInv'
    <3>1. k \in Kinds
      BY DEF Kinds, Dialogs
    <3>2. PICK id \in Ids \cup {None} : Turn([kind |-> k, id |-> id])
      BY <2>2, <3>1, OnPageIs DEF OpenDialog
    <3>. QED BY <3>2 DEF Turn, PageInv
  <2>3. CASE CloseDialog
    BY <2>3 DEF CloseDialog, Turn, PageInv
  <2>4. CASE UNCHANGED vars
    BY <2>4 DEF vars, pageVars, PageInv
  <2>. QED BY <2>1, <2>2, <2>3, <2>4
<1>. QED BY <1>2, <1>3

-----------------------------------------------------------------------------
(* The server                                                              *)

LEMMA ServedIs ==
  ASSUME ReqInv, NEW i \in 1 .. Len(reqs), reqs[i].stage = "asked", NEW a \in Answers,
         Fits(ServedAs(reqs[i], a)), Served(i, a)
  PROVE  /\ ReqsFit(reqs') /\ Len(reqs') = Len(reqs) /\ Len(reqs') <= MaxOpen /\ OneGet(reqs')
         /\ Ahead(reqs', loaded)
         /\ reqs'[i] = ServedAs(reqs[i], a) /\ \A j \in 1 .. Len(reqs) \ {i} : reqs'[j] = reqs[j]
         /\ \A k, id : Told(reqs', k, id) =
              Told(reqs, k, id) \cup (IF About(reqs'[i], k, id) THEN {reqs'[i]} ELSE {})
         /\ reqs'[i].stage = "served" /\ reqs'[i].answer = a /\ reqs'[i].kind = reqs[i].kind
         /\ reqs'[i].op = reqs[i].op /\ reqs'[i].id = reqs[i].id /\ reqs'[i].tag = reqs[i].tag
         /\ Cardinality(Unnamed(reqs')) <= Cardinality(Unnamed(reqs))
         /\ NeedsId(reqs[i]) => Cardinality(Unnamed(reqs')) + 1 <= Cardinality(Unnamed(reqs))
<1>1. /\ ReqsFit(reqs) /\ Len(reqs) <= MaxOpen /\ OneGet(reqs) /\ Ahead(reqs, loaded)
      /\ reqs[i] \in Reqs
  BY ReqIs DEF ReqInv
<1>. DEFINE u == ServedAs(reqs[i], a)
<1>2. reqs' = [reqs EXCEPT ![i] = u]
  <2>1. reqs' = [reqs EXCEPT ![i] = [[reqs[i] EXCEPT !.stage = "served"] EXCEPT !.answer = a]]
    BY DEF Served
  <2>2. u = [[reqs[i] EXCEPT !.stage = "served"] EXCEPT !.answer = a]
    BY DEF ServedAs
  <2>. QED BY <2>1, <2>2
<1>3. reqs' \in Seq(Reqs) /\ Len(reqs') = Len(reqs)
      /\ \A j \in 1 .. Len(reqs) : reqs'[j] = IF j = i THEN u ELSE reqs[j]
  <2>1. u \in Reqs /\ reqs \in Seq(Reqs)
    BY <1>1, ServedFields DEF ReqsFit
  <2>. HIDE DEF u
  <2>. DEFINE v == [reqs EXCEPT ![i] = u]
  <2>2. /\ v \in Seq(Reqs) /\ Len(v) = Len(reqs)
        /\ \A j \in 1 .. Len(reqs) : v[j] = IF j = i THEN u ELSE reqs[j]
    BY <2>1, ExceptSeq
  <2>. HIDE DEF v
  <2>3. reqs' = v
    BY <1>2 DEF v
  <2>. QED BY <2>2, <2>3, Zenon
<1>4. /\ reqs'[i] = ServedAs(reqs[i], a) /\ \A j \in 1 .. Len(reqs) \ {i} : reqs'[j] = reqs[j]
  BY <1>3
<1>5. /\ ReqsFit(reqs') /\ Len(reqs') = Len(reqs) /\ OneGet(reqs') /\ Ahead(reqs', loaded)
      /\ reqs'[i] = ServedAs(reqs[i], a) /\ \A j \in 1 .. Len(reqs) \ {i} : reqs'[j] = reqs[j]
  BY <1>1, <1>3, <1>4, ServeReq
<1>6. \A k, id : Told(reqs', k, id) =
        Told(reqs, k, id) \cup (IF About(reqs'[i], k, id) THEN {reqs'[i]} ELSE {})
  BY <1>1, <1>3, <1>4, ServeReq
<1>7. /\ reqs'[i].stage = "served" /\ reqs'[i].answer = a /\ reqs'[i].kind = reqs[i].kind
      /\ reqs'[i].op = reqs[i].op /\ reqs'[i].id = reqs[i].id /\ reqs'[i].tag = reqs[i].tag
  BY <1>1, <1>5, ServedFields
<1>8. /\ Cardinality(Unnamed(reqs')) <= Cardinality(Unnamed(reqs))
      /\ NeedsId(reqs[i]) => Cardinality(Unnamed(reqs')) + 1 <= Cardinality(Unnamed(reqs))
  BY <1>1, <1>5, <1>7, ServeUnnamed
<1>. QED BY <1>1, <1>5, <1>6, <1>7, <1>8

(* Neither the object that was clicked nor what others loaded is touched.  *)
LEMMA ServedClicks ==
  ASSUME NEW q, ReqsFit(q), NEW p, Len(p) = Len(q), NEW L, NEW l, NEW t, ClicksFit(q, L, l, t),
         \A i \in 1 .. Len(q) : p[i].kind = q[i].kind /\ p[i].tag = q[i].tag /\ p[i].id = q[i].id
  PROVE  ClicksFit(p, L, l, t)
BY DEF ClicksFit, ClickFits

(* A write is served: the answer is about nothing that another request is  *)
(* about, or about what the request was.                                   *)
NothingNew(q, n, r, u) ==
  \A k \in Kinds : \A id \in Ids \ u[k] : About(r, k, id) =>
    About(q[n], k, id) \/ \A i \in 1 .. Len(q) \ {n} : ~About(q[i], k, id)

LEMMA ServeApart ==
  ASSUME NEW q, ReqsFit(q), NEW n \in 1 .. Len(q), q[n].op # "get", NEW p, Len(p) = Len(q),
         \A i \in 1 .. Len(q) \ {n} : p[i] = q[i],
         NEW t, NEW u, Grown(t, u), Apart(q, t), NothingNew(q, n, p[n], u)
  PROVE  Apart(p, u)
<1>1. \A k \in Kinds : \A id \in Ids \ u[k] : About(p[n], k, id) =>
        About(q[n], k, id) \/ \A i \in 1 .. Len(q) \ {n} : ~About(q[i], k, id)
  BY DEF NothingNew
<1>. SUFFICES ASSUME NEW k \in Kinds, NEW id \in Ids \ u[k], NEW i \in 1 .. Len(q),
                     NEW j \in 1 .. Len(q), i # j, About(p[i], k, id), About(p[j], k, id)
              PROVE  Unasked(p[i]) \/ Unasked(p[j])
  BY DEF Apart
<1>2. id \in Ids \ t[k]
  BY DEF Grown
<1>3. CASE i # n /\ j # n
  BY <1>2, <1>3 DEF Apart
<1>4. CASE i = n
  <2>1. p[j] = q[j] /\ About(q[j], k, id)
    BY <1>4
  <2>2. About(q[n], k, id)
    BY <1>1, <1>4, <2>1
  <2>. QED BY <1>2, <1>4, <2>1, <2>2 DEF Apart, Unasked
<1>5. CASE j = n
  <2>1. p[i] = q[i] /\ About(q[i], k, id)
    BY <1>5
  <2>2. About(q[n], k, id)
    BY <1>1, <1>5, <2>1
  <2>. QED BY <1>2, <1>5, <2>1, <2>2 DEF Apart, Unasked
<1>. QED BY <1>3, <1>4, <1>5

LEMMA ServeGetKeeps == ASSUME IInv, NEW i \in DOMAIN reqs, ServeGet(i) PROVE IInv'
<1>. USE DEF IInv
<1>. DEFINE k == reqs[i].kind
<1>1. /\ ReqsFit(reqs) /\ i \in 1 .. Len(reqs) /\ k \in Kinds /\ reqs[i] \in Reqs
      /\ DOMAIN reqs = 1 .. Len(reqs) /\ Fits(reqs[i])
  BY ReqIs DEF ReqInv, ReqsFit
<1>2. /\ reqs[i].stage = "asked" /\ reqs[i].op = "get" /\ Served(i, db[k])
      /\ tangled' = [tangled EXCEPT ![k] = {id \in Ids : Overlaps(k, id, i)}]
      /\ db' = db /\ made' = made /\ list' = list /\ active' = active /\ dialog' = dialog
      /\ counts' = counts /\ loaded' = loaded
  BY DEF ServeGet, Asked, pageVars
<1>3. db[k] \in Seq(Entry) /\ OwnIds(db[k]) /\ db[k] \in Answers
  BY <1>1 DEF DbInv, Answers
<1>4. Fits(ServedAs(reqs[i], db[k]))
  <2>1. /\ ServedAs(reqs[i], db[k]).op = "get" /\ ServedAs(reqs[i], db[k]).answer = db[k]
        /\ ServedAs(reqs[i], db[k]).id = reqs[i].id /\ ServedAs(reqs[i], db[k]).tag = reqs[i].tag
    BY <1>1, <1>2, <1>3, ServedFields
  <2>. QED BY <1>1, <1>2, <1>3, <2>1 DEF Fits
<1>. HIDE DEF k
<1>5. /\ ReqsFit(reqs') /\ Len(reqs') = Len(reqs) /\ Len(reqs') <= MaxOpen /\ OneGet(reqs')
      /\ Ahead(reqs', loaded) /\ \A j \in 1 .. Len(reqs) \ {i} : reqs'[j] = reqs[j]
  BY <1>1, <1>2, <1>3, <1>4, ServedIs
<1>6. \A l, id : Told(reqs', l, id) =
        Told(reqs, l, id) \cup (IF About(reqs'[i], l, id) THEN {reqs'[i]} ELSE {})
  BY <1>1, <1>2, <1>3, <1>4, ServedIs
<1>7. /\ reqs'[i].stage = "served" /\ reqs'[i].answer = db[k] /\ reqs'[i].kind = k
      /\ reqs'[i].op = "get" /\ reqs'[i].id = reqs[i].id /\ reqs'[i].tag = reqs[i].tag
      /\ Cardinality(Unnamed(reqs')) <= Cardinality(Unnamed(reqs))
  BY <1>1, <1>2, <1>3, <1>4, ServedIs DEF k
<1>8. k \notin loaded
  <2>1. Ahead(reqs, loaded)
    BY DEF ReqInv
  <2>2. \A l \in loaded : Rank(l) < Rank(k)
    BY <1>1, <1>2, <2>1 DEF Ahead, k
  <2>3. ~(Rank(k) < Rank(k))
    BY DEF Rank
  <2>. QED BY <2>2, <2>3
<1>9. /\ tangled \in [Kinds -> SUBSET Ids] /\ tangled' \in [Kinds -> SUBSET Ids]
      /\ (\A id \in Ids : id \in tangled'[k] <=> Overlaps(k, id, i))
      /\ \A l \in Kinds : l # k => tangled'[l] = tangled[l]
  <2>1. tangled \in [Kinds -> SUBSET Ids]
    BY DEF GhostInv
  <2>2. tangled' = [l \in Kinds |-> IF l = k THEN {id \in Ids : Overlaps(k, id, i)} ELSE tangled[l]]
    BY <1>2, <2>1
  <2>3. \A l \in Kinds : tangled'[l] = IF l = k THEN {id \in Ids : Overlaps(k, id, i)} ELSE tangled[l]
    BY <2>2
  <2>4. \A l \in Kinds : tangled'[l] \in SUBSET Ids
    BY <2>1, <2>3
  <2>5. tangled' \in [Kinds -> SUBSET Ids]
    BY <2>2, <2>3, <2>4
  <2>. QED BY <1>1, <2>1, <2>3, <2>5
<1>10. ASSUME NEW id \in Ids, NEW j \in 1 .. Len(reqs) \ {i}, About(reqs[j], k, id)
       PROVE  id \in tangled'[k]
  BY <1>1, <1>9, <1>10 DEF Overlaps
<1>11. Apart(reqs', tangled')
  <2>. SUFFICES ASSUME NEW l \in Kinds, NEW id \in Ids \ tangled'[l], NEW a \in 1 .. Len(reqs),
                       NEW b \in 1 .. Len(reqs), a # b, About(reqs'[a], l, id), About(reqs'[b], l, id)
                PROVE  Unasked(reqs'[a]) \/ Unasked(reqs'[b])
    BY <1>5 DEF Apart
  <2>1. CASE l = k
    <3>1. PICK j \in {a, b} : j # i
      OBVIOUS
    <3>2. About(reqs[j], k, id)
      BY <1>5, <2>1, <3>1
    <3>. QED BY <1>10, <2>1, <3>1, <3>2
  <2>2. CASE l # k
    <3>1. ~About(reqs'[i], l, id)
      BY <1>7, <2>2 DEF About
    <3>2. a # i /\ b # i
      BY <3>1
    <3>3. id \in Ids \ tangled[l] /\ Apart(reqs, tangled)
      BY <1>9, <2>2 DEF ReqInv
    <3>. QED BY <1>5, <3>2, <3>3 DEF Apart
  <2>. QED BY <2>1, <2>2
<1>12. Moved(reqs', tangled')
  <2>. SUFFICES ASSUME NEW j \in 1 .. Len(reqs), reqs'[j].stage = "served", reqs'[j].op = "save",
                       reqs'[j].id = NoSlug
                PROVE  /\ reqs'[j].answer.id \in tangled'[reqs'[j].kind]
                       /\ NoSlug \in Ids => NoSlug \in tangled'[reqs'[j].kind]
    BY <1>5 DEF Moved
  <2>1. j # i /\ reqs'[j] = reqs[j] /\ reqs[j].kind \in Kinds /\ Fits(reqs[j])
    BY <1>1, <1>5, <1>7, ReqIs
  <2>2. Moved(reqs, tangled)
    BY DEF ReqInv
  <2>3. CASE reqs[j].kind = k
    <3>1. reqs[j].answer.id \in Ids
      BY <2>1 DEF Fits, Entry
    <3>2. About(reqs[j], k, reqs[j].answer.id) /\ About(reqs[j], k, NoSlug)
      BY <2>1, <2>3 DEF About
    <3>. QED BY <1>10, <2>1, <2>3, <3>1, <3>2
  <2>4. CASE reqs[j].kind # k
    BY <1>9, <2>1, <2>2, <2>4 DEF Moved
  <2>. QED BY <2>3, <2>4
<1>13. ReqInv'
  BY <1>2, <1>5, <1>11, <1>12 DEF ReqInv
<1>14. DbInv' /\ ListInv' /\ PageInv' /\ GhostInv'
  BY <1>2, <1>9 DEF DbInv, ListInv, PageInv, GhostInv
<1>15. CountInv'
  <2>1. Cardinality(Unnamed(reqs)) \in Nat /\ Cardinality(Unnamed(reqs')) \in Nat
    BY <1>1, <1>5, UnnamedIs, ReqIs
  <2>. QED BY <1>2, <1>7, <2>1 DEF CountInv
<1>16. ClicksFit(reqs', list', loaded', tangled')
  <2>1. \A j \in 1 .. Len(reqs) :
          reqs'[j].kind = reqs[j].kind /\ reqs'[j].tag = reqs[j].tag /\ reqs'[j].id = reqs[j].id
    BY <1>5, <1>7 DEF k
  <2>2. ClicksFit(reqs, list, loaded, tangled)
    BY DEF CopyInv
  <2>3. ClicksFit(reqs, list, loaded, tangled')
    <3>1. \A l \in loaded : tangled'[l] = tangled[l]
      BY <1>8, <1>9 DEF GhostInv
    <3>. QED BY <2>2, <3>1 DEF ClicksFit
  <2>4. ClicksFit(reqs', list, loaded, tangled')
    BY <1>1, <1>5, <2>1, <2>3, ServedClicks
  <2>. QED BY <1>2, <2>4
<1>17. LoadsFit(reqs', db', tangled')
  <2>. SUFFICES ASSUME NEW j \in 1 .. Len(reqs), reqs'[j].op = "get", reqs'[j].stage = "served"
                PROVE  LoadFits(reqs'[j], db[reqs'[j].kind], tangled'[reqs'[j].kind])
    BY <1>2, <1>5 DEF LoadsFit
  <2>1. j = i
    BY <1>1, <1>5, <1>7 DEF OneGet
  <2>. QED BY <1>3, <1>7, <2>1 DEF LoadFits
<1>18. AgreeInv'
  <2>. SUFFICES ASSUME NEW l \in loaded, NEW id \in Ids \ tangled'[l]
                PROVE  Agrees(Lookup(list[l], id), Lookup(db[l], id), Told(reqs', l, id))
    BY <1>2 DEF AgreeInv
  <2>1. l # k /\ l \in Kinds
    BY <1>8 DEF GhostInv
  <2>2. ~About(reqs'[i], l, id)
    BY <1>7, <2>1 DEF About
  <2>3. Told(reqs', l, id) = Told(reqs, l, id)
    BY <1>6, <2>2
  <2>4. id \in Ids \ tangled[l]
    BY <1>9, <2>1
  <2>. QED BY <2>3, <2>4 DEF AgreeInv, CopyInv
<1>. QED BY <1>13, <1>14, <1>15, <1>16, <1>17, <1>18 DEF CopyInv

(* A save or a deletion is served with a: s is the list with what it wrote *)
(* under the id of the answer, X what it tangles.                          *)
Wrote(i, k, a, s, X) ==
  /\ k = reqs[i].kind /\ reqs[i].stage = "asked" /\ reqs[i].op # "get"
  /\ Fits(ServedAs(reqs[i], a)) /\ Served(i, a)
  /\ OwnIds(s) /\ db' = [db EXCEPT ![k] = s]
  /\ (\A id \in X : id \in Ids) /\ tangled' = [tangled EXCEPT ![k] = @ \cup X]
  /\ \A id : id # a.id => Lookup(s, id) = Lookup(db[k], id)
  /\ \A id \in Ids \ tangled[k] : id \notin X /\ id \in {reqs[i].id, a.id} =>
       /\ id = a.id /\ Told(reqs, k, id) = {}
       /\ reqs[i].id = id \/ \A j \in 1 .. Len(reqs) \ {i} : ~About(reqs[j], k, id)
  /\ reqs[i].op = "save" =>
       /\ a \in Lookup(s, a.id)
       /\ k = "remotes" /\ reqs[i].tag = 0 /\ a.id \notin tangled[k] \cup X => Lookup(db[k], a.id) = {}
       /\ reqs[i].id = NoSlug => a.id \in X /\ (NoSlug \in Ids => NoSlug \in X)
  /\ reqs[i].op = "delete" => Lookup(s, a.id) = {}
  /\ made' \in Nat /\ made' + Cardinality(Unnamed(reqs')) <= counts["click"]
  /\ UNCHANGED <<pageVars, counts, loaded>>

LEMMA WriteKeeps ==
  ASSUME IInv, NEW i \in 1 .. Len(reqs), NEW k, NEW a \in Answers, NEW s \in Seq(Entry), NEW X,
         Wrote(i, k, a, s, X)
  PROVE  IInv'
<1>1. /\ k = reqs[i].kind /\ reqs[i].stage = "asked" /\ reqs[i].op # "get"
      /\ Fits(ServedAs(reqs[i], a)) /\ Served(i, a)
      /\ OwnIds(s) /\ db' = [db EXCEPT ![k] = s]
      /\ (\A id \in X : id \in Ids) /\ tangled' = [tangled EXCEPT ![k] = @ \cup X]
      /\ UNCHANGED <<pageVars, counts, loaded>>
  BY DEF Wrote
<1>2. \A id : id # a.id => Lookup(s, id) = Lookup(db[k], id)
  BY DEF Wrote
<1>3. \A id \in Ids \ tangled[k] : id \notin X /\ id \in {reqs[i].id, a.id} =>
        /\ id = a.id /\ Told(reqs, k, id) = {}
        /\ reqs[i].id = id \/ \A j \in 1 .. Len(reqs) \ {i} : ~About(reqs[j], k, id)
  BY DEF Wrote
<1>4. /\ reqs[i].op = "save" =>
           /\ a \in Lookup(s, a.id)
           /\ k = "remotes" /\ reqs[i].tag = 0 /\ a.id \notin tangled[k] \cup X => Lookup(db[k], a.id) = {}
           /\ reqs[i].id = NoSlug => a.id \in X /\ (NoSlug \in Ids => NoSlug \in X)
      /\ reqs[i].op = "delete" => Lookup(s, a.id) = {}
  BY DEF Wrote
<1>5. made' \in Nat /\ made' + Cardinality(Unnamed(reqs')) <= counts["click"]
  BY DEF Wrote
<1>. USE DEF IInv
<1>6. list' = list /\ active' = active /\ dialog' = dialog /\ counts' = counts /\ loaded' = loaded
  BY <1>1 DEF pageVars
<1>7. /\ ReqsFit(reqs) /\ k \in Kinds /\ reqs[i] \in Reqs /\ ReqInv
      /\ reqs[i].op \in {"save", "delete"}
  <2>1. ReqsFit(reqs) /\ reqs[i] \in Reqs /\ reqs[i].kind \in Kinds
    BY ReqIs DEF ReqInv
  <2>2. reqs[i].op \in {"get", "save", "delete"}
    BY <2>1, TypedRequest
  <2>. QED BY <1>1, <2>1, <2>2
<1>8. /\ ReqsFit(reqs') /\ Len(reqs') = Len(reqs) /\ Len(reqs') <= MaxOpen /\ OneGet(reqs')
      /\ Ahead(reqs', loaded) /\ \A j \in 1 .. Len(reqs) \ {i} : reqs'[j] = reqs[j]
  BY <1>1, <1>7, ServedIs
<1>9. \A l, id : Told(reqs', l, id) =
        Told(reqs, l, id) \cup (IF About(reqs'[i], l, id) THEN {reqs'[i]} ELSE {})
  BY <1>1, <1>7, ServedIs
<1>10. /\ reqs'[i].stage = "served" /\ reqs'[i].answer = a /\ reqs'[i].kind = k
      /\ reqs'[i].op = reqs[i].op /\ reqs'[i].id = reqs[i].id /\ reqs'[i].tag = reqs[i].tag
  BY <1>1, <1>7, ServedIs
<1>11. /\ tangled' \in [Kinds -> SUBSET Ids] /\ Grown(tangled, tangled')
      /\ (\A id : id \in tangled'[k] <=> id \in tangled[k] \/ id \in X)
      /\ \A l \in Kinds : l # k => tangled'[l] = tangled[l]
  BY <1>1, <1>7, TanglesMore
<1>12. /\ db \in [Kinds -> Seq(Entry)] /\ \A l \in Kinds : OwnIds(db[l])
  BY DEF DbInv
<1>13. db' \in [Kinds -> Seq(Entry)] /\ db'[k] = s /\ \A l \in Kinds : l # k => db'[l] = db[l]
  <2>1. s \in Seq(Entry)
    OBVIOUS
  <2>. QED BY <1>1, <1>7, <1>12, <2>1, WriteList
<1>14. DbInv'
  <2>1. \A l \in Kinds : OwnIds(db'[l])
    BY <1>1, <1>12, <1>13
  <2>. QED BY <1>13, <2>1 DEF DbInv
(* Whom the answer is about.                                               *)
<1>15. ASSUME NEW l \in Kinds, NEW id \in Ids \ tangled'[l], About(reqs'[i], l, id)
      PROVE  /\ l = k /\ id = a.id /\ Told(reqs, k, id) = {} /\ id \notin tangled[k] \cup X
             /\ reqs[i].id = id \/ \A j \in 1 .. Len(reqs) \ {i} : ~About(reqs[j], k, id)
  <2>1. l = k /\ id \in {reqs[i].id, a.id}
    BY <1>7, <1>10, <1>15 DEF About
  <2>2. id \in Ids \ tangled[k] /\ id \notin X
    BY <1>11, <2>1
  <2>. QED BY <1>3, <2>1, <2>2
<1>16. ReqInv'
  <2>1. Apart(reqs, tangled) /\ Moved(reqs, tangled)
    BY <1>7 DEF ReqInv
  <2>2. NothingNew(reqs, i, reqs'[i], tangled')
    BY <1>1, <1>15 DEF NothingNew, About
  <2>3. Apart(reqs', tangled')
    <3>1. reqs[i].op # "get" /\ Len(reqs') = Len(reqs)
      BY <1>1, <1>8
    <3>2. \A j \in 1 .. Len(reqs) \ {i} : reqs'[j] = reqs[j]
      BY <1>8
    <3>3. Grown(tangled, tangled')
      BY <1>11
    <3>. QED BY <1>7, <2>1, <2>2, <3>1, <3>2, <3>3, ServeApart, Zenon
  <2>4. Moved(reqs, tangled')
    BY <1>7, <1>11, <2>1, GrownKeeps
  <2>5. Moved(reqs', tangled')
    <3>. SUFFICES ASSUME NEW j \in 1 .. Len(reqs), reqs'[j].stage = "served", reqs'[j].op = "save",
                         reqs'[j].id = NoSlug
                  PROVE  /\ reqs'[j].answer.id \in tangled'[reqs'[j].kind]
                         /\ NoSlug \in Ids => NoSlug \in tangled'[reqs'[j].kind]
      BY <1>8 DEF Moved
    <3>1. CASE j = i
      <4>1. a.id \in X /\ (NoSlug \in Ids => NoSlug \in X)
        BY <1>4, <1>10, <3>1
      <4>. QED BY <1>10, <1>11, <3>1, <4>1
    <3>2. CASE j # i
      BY <1>8, <2>4, <3>2 DEF Moved
    <3>. QED BY <3>1, <3>2
  <2>. QED BY <1>6, <1>8, <2>3, <2>5 DEF ReqInv
<1>17. ListInv' /\ PageInv' /\ GhostInv'
  BY <1>6, <1>11 DEF ListInv, PageInv, GhostInv
<1>18. CountInv'
  BY <1>5, <1>6 DEF CountInv
<1>19. ClicksFit(reqs', list', loaded', tangled')
  <2>1. \A j \in 1 .. Len(reqs) :
          reqs'[j].kind = reqs[j].kind /\ reqs'[j].tag = reqs[j].tag /\ reqs'[j].id = reqs[j].id
    BY <1>1, <1>8, <1>10
  <2>2. ClicksFit(reqs, list, loaded, tangled')
    BY <1>7, <1>11, GrownKeeps DEF CopyInv
  <2>3. ClicksFit(reqs', list, loaded, tangled')
    BY <1>7, <1>8, <2>1, <2>2, ServedClicks
  <2>. QED BY <1>6, <2>3
<1>20. LoadsFit(reqs', db', tangled')
  <2>. SUFFICES ASSUME NEW j \in 1 .. Len(reqs), reqs'[j].op = "get", reqs'[j].stage = "served"
                PROVE  LoadFits(reqs'[j], db'[reqs'[j].kind], tangled'[reqs'[j].kind])
    BY <1>8 DEF LoadsFit
  <2>1. j # i /\ reqs'[j] = reqs[j] /\ reqs[j].kind \in Kinds
    BY <1>7, <1>8, <1>10, ReqIs
  <2>2. LoadsFit(reqs, db, tangled')
    BY <1>7, <1>11, GrownKeeps DEF CopyInv
  <2>3. LoadFits(reqs[j], db[reqs[j].kind], tangled'[reqs[j].kind])
    BY <2>1, <2>2 DEF LoadsFit
  <2>4. CASE reqs[j].kind = k
    <3>1. ASSUME NEW id \in Ids \ tangled'[k] PROVE Lookup(s, id) = Lookup(db[k], id)
      <4>1. reqs[j] \in Told(reqs, k, id)
        BY <1>7, <2>1, <2>4, ReqIs DEF Told, About
      <4>2. id # a.id
        <5>1. About(reqs'[i], k, a.id)
          BY <1>10 DEF About
        <5>. QED BY <1>7, <1>15, <4>1, <5>1
      <4>. QED BY <1>2, <4>2
    <3>. QED BY <1>13, <2>1, <2>3, <2>4, <3>1 DEF LoadFits
  <2>5. CASE reqs[j].kind # k
    BY <1>13, <2>1, <2>3, <2>5
  <2>. QED BY <2>4, <2>5
<1>21. AgreeInv'
  <2>. SUFFICES ASSUME NEW l \in loaded, NEW id \in Ids \ tangled'[l]
                PROVE  Agrees(Lookup(list[l], id), Lookup(db'[l], id), Told(reqs', l, id))
    BY <1>6 DEF AgreeInv
  <2>1. l \in Kinds
    BY DEF GhostInv
  <2>2. id \in Ids \ tangled[l]
    BY <1>11, <2>1 DEF Grown
  <2>3. Agrees(Lookup(list[l], id), Lookup(db[l], id), Told(reqs, l, id))
    BY <2>2 DEF AgreeInv, CopyInv
  <2>4. CASE About(reqs'[i], l, id)
    <3>1. l = k /\ id = a.id /\ Told(reqs, k, id) = {} /\ id \notin tangled[k] \cup X
      BY <1>15, <2>1, <2>4
    <3>2. Told(reqs', l, id) = {reqs'[i]}
      BY <1>9, <2>4, <3>1
    <3>3. {Plain(o) : o \in Lookup(list[l], id)} = Lookup(db[k], id)
      BY <2>3, <3>1 DEF Agrees
    <3>4. reqs[i].op = "save" /\ k = "remotes" /\ reqs[i].tag = 0 => Lookup(list[l], id) = {}
      <4>. SUFFICES ASSUME reqs[i].op = "save", k = "remotes", reqs[i].tag = 0
                    PROVE  Lookup(list[l], id) = {}
        OBVIOUS
      <4>1. Lookup(db[k], id) = {}
        BY <1>4, <3>1
      <4>. QED BY <3>3, <4>1
    <3>5. Lookup(db'[l], id) = Lookup(s, a.id)
      BY <1>13, <3>1
    <3>6. \A o, p \in Lookup(list[l], id) : o = p
      BY <2>3 DEF Agrees
    <3>7. /\ reqs[i].op = "save" => a \in Lookup(s, a.id)
          /\ reqs[i].op = "delete" => Lookup(s, a.id) = {}
      BY <1>4
    <3>8. ASSUME NEW r \in Told(reqs', l, id)
          PROVE  /\ r.op = "save" => /\ r.answer \in Lookup(db'[l], id)
                                     /\ r.kind = "remotes" /\ r.tag = 0 => Lookup(list[l], id) = {}
                 /\ r.op = "delete" => Lookup(db'[l], id) = {}
      <4>1. r = reqs'[i]
        BY <3>2
      <4>. QED BY <1>10, <3>4, <3>5, <3>7, <4>1
    <3>9. Told(reqs', l, id) # {}
      BY <3>2
    <3>. QED BY <3>6, <3>8, <3>9 DEF Agrees
  <2>5. CASE ~About(reqs'[i], l, id)
    <3>1. Told(reqs', l, id) = Told(reqs, l, id)
      <4>1. Told(reqs', l, id) = Told(reqs, l, id) \cup {}
        BY <1>9, <2>5, Zenon
      <4>. QED BY <4>1
    <3>2. Lookup(db'[l], id) = Lookup(db[l], id)
      <4>1. CASE l = k
        <5>1. id # a.id
          BY <1>10, <2>5, <4>1 DEF About
        <5>. QED BY <1>2, <1>13, <4>1, <5>1
      <4>2. CASE l # k
        BY <1>13, <2>1, <4>2
      <4>. QED BY <4>1, <4>2
    <3>. QED BY <2>3, <3>1, <3>2
  <2>. QED BY <2>4, <2>5
<1>. QED BY <1>14, <1>16, <1>17, <1>18, <1>19, <1>20, <1>21 DEF CopyInv

LEMMA ServeSaveKeeps == ASSUME IInv, NEW i \in DOMAIN reqs, ServeSave(i) PROVE IInv'
<1>. DEFINE r == reqs[i]
            k == r.kind
            e == [id |-> SaveId(r), name |-> r.name, rest |-> r.rest]
            surprise == Lookup(db[k], e.id) # {} \/ Overlaps(k, e.id, i)
            X == IF r.id = NoSlug THEN {NoSlug, e.id} ELSE IF r.id = None /\ surprise THEN {e.id} ELSE {}
            s == StoredIn(db[k], e)
<1>1. /\ ReqInv /\ ReqsFit(reqs) /\ i \in 1 .. Len(reqs) /\ k \in Kinds /\ r \in Reqs
      /\ DOMAIN reqs = 1 .. Len(reqs) /\ Fits(r)
  BY ReqIs DEF ReqInv, ReqsFit, IInv
<1>2. /\ r.stage = "asked" /\ r.op = "save" /\ Served(i, e)
      /\ db' = [db EXCEPT ![k] = s]
      /\ tangled' = [tangled EXCEPT ![k] = @ \cup X]
      /\ made' = IF k # "remotes" /\ Falsy(r.id) THEN made + 1 ELSE made
      /\ UNCHANGED <<pageVars, counts, loaded>>
  BY DEF ServeSave, Asked
<1>3. /\ counts["click"] \in Nat /\ made \in Nat /\ counts["click"] <= MaxClicks
      /\ made + Cardinality(Unnamed(reqs)) <= counts["click"] /\ Cardinality(Unnamed(reqs)) \in Nat
  BY <1>1, UnnamedIs, ReqIs DEF IInv, CountInv
<1>4. r.name \in Names /\ r.rest \in Rests /\ r.id \in Ids \cup {None}
  BY <1>1, <1>2, TypedRequest DEF Fits
<1>5. SaveId(r) \in Ids
  <2>1. CASE ~Falsy(r.id)
    BY <1>4, <2>1 DEF SaveId, Falsy
  <2>2. CASE Falsy(r.id) /\ k = "remotes"
    BY <1>4, <2>2, Constants DEF SaveId
  <2>3. CASE Falsy(r.id) /\ k # "remotes"
    <3>1. i \in Unnamed(reqs)
      BY <1>1, <1>2, <2>3 DEF Unnamed, NeedsId
    <3>2. IsFiniteSet(Unnamed(reqs))
      BY <1>1, UnnamedIs, ReqIs
    <3>3. Cardinality(Unnamed(reqs)) # 0
      BY <3>1, <3>2, FS_EmptySet
    <3>. HIDE DEF r, k
    <3>4. made + 1 \in 1 .. MaxClicks
      BY <1>3, <3>3, Constants
    <3>5. SaveId(r) = made + 1
      BY <2>3 DEF SaveId, k
    <3>. QED BY <3>4, <3>5, Constants
  <2>. QED BY <2>1, <2>2, <2>3
<1>6. e \in Entry /\ e \in Answers /\ e.id = SaveId(r)
  BY <1>4, <1>5 DEF Entry, Answers
<1>7. ~Falsy(r.id) => e.id = r.id
  BY DEF SaveId
<1>. HIDE DEF e
<1>8. Fits(ServedAs(r, e))
  <2>1. /\ ServedAs(r, e).stage = "served" /\ ServedAs(r, e).answer = e
        /\ ServedAs(r, e).kind = r.kind /\ ServedAs(r, e).op = r.op /\ ServedAs(r, e).id = r.id
        /\ ServedAs(r, e).name = r.name /\ ServedAs(r, e).rest = r.rest /\ ServedAs(r, e).tag = r.tag
    BY <1>1, <1>6, ServedFields
  <2>. QED BY <1>1, <1>2, <1>6, <1>7, <2>1 DEF Fits
<1>9. db[k] \in Seq(Entry) /\ OwnIds(db[k])
  BY <1>1 DEF IInv, DbInv
<1>10. /\ s \in Seq(Entry) /\ OwnIds(s) /\ Lookup(s, e.id) = {e}
       /\ \A id : id # e.id => Lookup(s, id) = Lookup(db[k], id)
  BY <1>6, <1>9, StoredInIs
<1>11. \A id \in X : id \in Ids
  <2>1. e.id \in Ids /\ (r.id = NoSlug => NoSlug \in Ids)
    BY <1>4, <1>6, Constants DEF Entry
  <2>2. \A id \in X : id = e.id \/ (id = NoSlug /\ r.id = NoSlug)
    OBVIOUS
  <2>. HIDE DEF X
  <2>. QED BY <2>1, <2>2
<1>12. r.id = NoSlug => e.id \in X /\ NoSlug \in X
  OBVIOUS
<1>13. r.id = None /\ e.id \notin X => ~surprise
  BY Constants
<1>. HIDE DEF s, X, surprise
<1>14. ASSUME NEW id \in Ids \ tangled[k], id \notin X, id \in {r.id, e.id}
       PROVE  /\ id = e.id /\ Told(reqs, k, id) = {}
              /\ r.id = id \/ \A j \in 1 .. Len(reqs) \ {i} : ~About(reqs[j], k, id)
  <2>1. id = e.id
    BY <1>7, <1>12, <1>14, Constants DEF Falsy
  <2>2. CASE r.id = id
    <3>1. About(reqs[i], k, id) /\ Apart(reqs, tangled)
      BY <1>1, <2>2 DEF About, ReqInv
    <3>2. Told(reqs, k, id) = {}
      BY <1>1, <1>2, <3>1, WriteIsAlone
    <3>. QED BY <2>1, <2>2, <3>2
  <2>3. CASE r.id # id
    <3>1. r.id = None
      BY <1>7, <1>12, <1>14, <2>1, <2>3 DEF Falsy
    <3>2. ~Overlaps(k, id, i)
      BY <1>13, <1>14, <2>1, <3>1 DEF surprise
    <3>3. \A j \in 1 .. Len(reqs) \ {i} : ~About(reqs[j], k, id)
      BY <1>1, <3>2 DEF Overlaps
    <3>4. Told(reqs, k, id) = {}
      BY <1>1, <1>2, <3>3 DEF Told, Range
    <3>. QED BY <2>1, <3>3, <3>4
  <2>. QED BY <2>2, <2>3
<1>15. ASSUME k = "remotes", r.tag = 0, e.id \notin tangled[k] \cup X PROVE Lookup(db[k], e.id) = {}
  <2>1. r.id = None
    BY <1>1, <1>2, <1>15 DEF Fits
  <2>. QED BY <1>13, <1>15, <2>1 DEF surprise
<1>16. made' \in Nat /\ made' + Cardinality(Unnamed(reqs')) <= counts["click"]
  <2>1. /\ ReqsFit(reqs') /\ Len(reqs') = Len(reqs)
        /\ Cardinality(Unnamed(reqs')) <= Cardinality(Unnamed(reqs))
        /\ NeedsId(reqs[i]) => Cardinality(Unnamed(reqs')) + 1 <= Cardinality(Unnamed(reqs))
    BY <1>1, <1>2, <1>6, <1>8, ServedIs
  <2>2. Cardinality(Unnamed(reqs')) \in Nat
    BY <1>1, <2>1, UnnamedIs, ReqIs
  <2>3. CASE k # "remotes" /\ Falsy(r.id)
    <3>1. NeedsId(reqs[i]) /\ made' = made + 1
      BY <1>2, <2>3 DEF NeedsId
    <3>. QED BY <1>3, <2>1, <2>2, <3>1
  <2>4. CASE ~(k # "remotes" /\ Falsy(r.id))
    <3>1. made' = made
      BY <1>2, <2>4
    <3>. QED BY <1>3, <2>1, <2>2, <3>1
  <2>. QED BY <2>3, <2>4
<1>17. /\ e \in Lookup(s, e.id)
       /\ k = "remotes" /\ r.tag = 0 /\ e.id \notin tangled[k] \cup X => Lookup(db[k], e.id) = {}
       /\ r.id = NoSlug => e.id \in X /\ (NoSlug \in Ids => NoSlug \in X)
  BY <1>10, <1>12, <1>15
<1>. HIDE DEF k
<1>18. Wrote(i, k, e, s, X)
  BY <1>2, <1>8, <1>10, <1>11, <1>14, <1>16, <1>17 DEF Wrote, k
<1>. QED BY <1>1, <1>6, <1>10, <1>18, WriteKeeps

LEMMA ServeDeleteKeeps == ASSUME IInv, NEW i \in DOMAIN reqs, ServeDelete(i) PROVE IInv'
<1>. DEFINE r == reqs[i]
            k == r.kind
            a == [id |-> r.id]
            s == Deleted(db[k], r.id)
<1>1. /\ ReqInv /\ ReqsFit(reqs) /\ i \in 1 .. Len(reqs) /\ k \in Kinds /\ r \in Reqs
      /\ DOMAIN reqs = 1 .. Len(reqs) /\ Fits(r)
  BY ReqIs DEF ReqInv, ReqsFit, IInv
<1>2. /\ r.stage = "asked" /\ r.op = "delete" /\ Served(i, a) /\ made' = made /\ tangled' = tangled
      /\ db' = [db EXCEPT ![k] = s] /\ UNCHANGED <<pageVars, counts, loaded>>
  BY DEF ServeDelete, Asked
<1>3. r.id \in Ids /\ r.tag = 0 /\ a \in Answers /\ a.id = r.id
  BY <1>1, <1>2 DEF Fits, Answers
<1>. HIDE DEF a
<1>4. Fits(ServedAs(r, a))
  <2>1. /\ ServedAs(r, a).answer = a /\ ServedAs(r, a).op = r.op /\ ServedAs(r, a).id = r.id
        /\ ServedAs(r, a).tag = r.tag
    BY <1>1, <1>3, ServedFields
  <2>. QED BY <1>2, <1>3, <2>1 DEF Fits, a
<1>5. db[k] \in Seq(Entry) /\ OwnIds(db[k])
  BY <1>1 DEF IInv, DbInv
<1>6. /\ s \in Seq(Entry) /\ OwnIds(s) /\ Lookup(s, a.id) = {}
      /\ \A id : id # a.id => Lookup(s, id) = Lookup(db[k], id)
  BY <1>3, <1>5, DeletedIs
<1>. HIDE DEF s
<1>7. tangled' = [tangled EXCEPT ![k] = @ \cup {}]
  BY <1>1, <1>2 DEF IInv, GhostInv
<1>8. ASSUME NEW id \in Ids \ tangled[k], id \in {r.id, a.id}
      PROVE  id = a.id /\ Told(reqs, k, id) = {} /\ r.id = id
  <2>1. id = r.id /\ About(reqs[i], k, id) /\ Apart(reqs, tangled)
    BY <1>1, <1>3, <1>8 DEF About, ReqInv
  <2>2. Told(reqs, k, id) = {}
    BY <1>1, <1>2, <2>1, WriteIsAlone
  <2>. QED BY <1>3, <2>1, <2>2
<1>9. made' \in Nat /\ made' + Cardinality(Unnamed(reqs')) <= counts["click"]
  <2>1. /\ ReqsFit(reqs') /\ Len(reqs') = Len(reqs)
        /\ Cardinality(Unnamed(reqs')) <= Cardinality(Unnamed(reqs))
    BY <1>1, <1>2, <1>3, <1>4, ServedIs
  <2>2. Cardinality(Unnamed(reqs')) \in Nat /\ Cardinality(Unnamed(reqs)) \in Nat
    BY <1>1, <2>1, UnnamedIs, ReqIs
  <2>. QED BY <1>2, <2>1, <2>2 DEF IInv, CountInv
<1>. HIDE DEF k
<1>10. Wrote(i, k, a, s, {})
  BY <1>2, <1>4, <1>6, <1>7, <1>8, <1>9 DEF Wrote, k
<1>. QED BY <1>1, <1>3, <1>6, <1>10, WriteKeeps

LEMMA OtherKeeps == ASSUME IInv, NEW x \in Foreign, Other(x[1], x[2]) PROVE IInv'
<1>. USE DEF IInv
<1>. DEFINE k == x[1]
            e == x[2]
<1>1. k \in Kinds /\ e \in Entry /\ e.id \in Ids
  BY Constants DEF Entry
<1>. HIDE DEF k, e
<1>2. PICK s \in {StoredIn(db[k], e), Deleted(db[k], e.id)} : db' = [db EXCEPT ![k] = s]
  BY DEF Other, k, e
<1>3. /\ Count("other", MaxOthers) /\ tangled' = [tangled EXCEPT ![k] = @ \cup {e.id}]
      /\ made' = made /\ list' = list /\ active' = active /\ dialog' = dialog /\ reqs' = reqs
      /\ loaded' = loaded
  BY DEF Other, k, e, pageVars
<1>4. /\ db \in [Kinds -> Seq(Entry)] /\ \A l \in Kinds : OwnIds(db[l])
  BY DEF DbInv
<1>5. /\ s \in Seq(Entry) /\ OwnIds(s) /\ \A id : id # e.id => Lookup(s, id) = Lookup(db[k], id)
  BY <1>1, <1>2, <1>4, StoredInIs, DeletedIs
<1>6. db' \in [Kinds -> Seq(Entry)] /\ db'[k] = s /\ \A l \in Kinds : l # k => db'[l] = db[l]
  BY <1>1, <1>2, <1>4, <1>5, WriteList
<1>7. /\ tangled' \in [Kinds -> SUBSET Ids] /\ Grown(tangled, tangled')
      /\ \A id : id \in tangled'[k] <=> id \in tangled[k] \/ id \in {e.id}
  <2>1. \A id \in {e.id} : id \in Ids
    BY <1>1
  <2>. QED BY <1>1, <1>3, <2>1, TanglesMore
<1>8. \A l \in Kinds : \A id \in Ids \ tangled'[l] :
        id \in Ids \ tangled[l] /\ Lookup(db'[l], id) = Lookup(db[l], id)
  <2>. SUFFICES ASSUME NEW l \in Kinds, NEW id \in Ids \ tangled'[l]
                PROVE  id \in Ids \ tangled[l] /\ Lookup(db'[l], id) = Lookup(db[l], id)
    OBVIOUS
  <2>1. id \in Ids \ tangled[l]
    BY <1>7 DEF Grown
  <2>2. CASE l = k
    BY <1>5, <1>6, <1>7, <2>1, <2>2
  <2>3. CASE l # k
    BY <1>6, <2>1, <2>3
  <2>. QED BY <2>2, <2>3
<1>9. ReqsFit(reqs) /\ \A i \in 1 .. Len(reqs) : reqs[i].kind \in Kinds
  BY ReqIs DEF ReqInv
<1>10. DbInv'
  <2>1. \A l \in Kinds : OwnIds(db'[l])
    BY <1>4, <1>5, <1>6
  <2>. QED BY <1>6, <2>1 DEF DbInv
<1>11. ReqInv'
  <2>1. Apart(reqs, tangled') /\ Moved(reqs, tangled')
    BY <1>7, <1>9, GrownKeeps DEF ReqInv
  <2>. QED BY <1>3, <2>1 DEF ReqInv
<1>12. ListInv' /\ PageInv' /\ GhostInv'
  BY <1>3, <1>7 DEF ListInv, PageInv, GhostInv
<1>13. CountInv'
  <2>1. /\ counts' \in [{"click", "other", "loss"} -> Nat] /\ counts'["click"] = counts["click"]
    BY <1>3, CountIs
  <2>. QED BY <1>3, <2>1 DEF CountInv
<1>14. ClicksFit(reqs', list', loaded', tangled')
  BY <1>3, <1>7, <1>9, GrownKeeps DEF CopyInv
<1>15. LoadsFit(reqs', db', tangled')
  <2>1. LoadsFit(reqs, db, tangled')
    BY <1>7, <1>9, GrownKeeps DEF CopyInv
  <2>. QED BY <1>3, <1>8, <1>9, <2>1 DEF LoadsFit, LoadFits
<1>16. AgreeInv'
  <2>. SUFFICES ASSUME NEW l \in loaded, NEW id \in Ids \ tangled'[l]
                PROVE  Agrees(Lookup(list[l], id), Lookup(db'[l], id), Told(reqs, l, id))
    BY <1>3 DEF AgreeInv
  <2>1. l \in Kinds
    BY DEF GhostInv
  <2>2. id \in Ids \ tangled[l] /\ Lookup(db'[l], id) = Lookup(db[l], id)
    BY <1>8, <2>1
  <2>3. Agrees(Lookup(list[l], id), Lookup(db[l], id), Told(reqs, l, id))
    BY <2>2 DEF AgreeInv, CopyInv
  <2>. QED BY <2>2, <2>3
<1>. QED BY <1>10, <1>11, <1>12, <1>13, <1>14, <1>15, <1>16 DEF CopyInv

-----------------------------------------------------------------------------
(* Answers                                                                 *)

LEMMA GetIs ==
  ASSUME NEW k \in Kinds
  PROVE  /\ Get(k) \in Reqs /\ Fits(Get(k)) /\ Get(k).kind = k /\ Get(k).op = "get"
         /\ Get(k).stage = "asked" /\ Get(k).tag = 0
<1>. DEFINE g == Get(k)
<1>1. /\ g.kind = k /\ g.op = "get" /\ g.id = None /\ g.stage = "asked" /\ g.tag = 0
  BY DEF Get, Request
<1>2. g \in Reqs
  BY DEF Get, Request, Reqs, Answers
<1>. HIDE DEF g
<1>3. Fits(g)
  BY <1>1 DEF Fits
<1>. QED BY <1>1, <1>2, <1>3 DEF g

(* A request is gone; boot may have asked for the next list.               *)
Gone(q, n, p) ==
  \/ p = RemoveAt(q, n)
  \/ /\ q[n].op = "get"
     /\ \E k \in Kinds : p = Append(RemoveAt(q, n), Get(k)) /\ Rank(q[n].kind) < Rank(k)

LEMMA GoneFits ==
  ASSUME NEW q, ReqsFit(q), NEW n \in 1 .. Len(q), NEW p, Gone(q, n, p), OneGet(q),
         NEW l, Ahead(q, l)
  PROVE  /\ ReqsFit(p) /\ Len(p) <= Len(q) /\ OneGet(p) /\ Ahead(p, l)
         /\ q[n].op = "get" => Ahead(p, l \cup {q[n].kind})
         /\ \A k, id : Told(p, k, id) = Told(RemoveAt(q, n), k, id)
         /\ Cardinality(Unnamed(p)) <= Cardinality(Unnamed(q))
<1>. DEFINE r == RemoveAt(q, n)
<1>1. ReqsFit(r) /\ Len(r) = Len(q) - 1 /\ OneGet(r) /\ Ahead(r, l)
  BY RemoveReq
<1>2. /\ q \in Seq(Reqs) /\ Len(q) \in Nat /\ Len(r) \in Nat
      /\ \A i \in 1 .. Len(r) : \E j \in 1 .. Len(q) \ {n} : r[i] = q[j]
  <2>1. q \in Seq(Reqs) /\ r \in Seq(Reqs)
    BY <1>1 DEF ReqsFit
  <2>2. \A i \in 1 .. Len(r) : \E j \in 1 .. Len(q) \ {n} :
          r[i] = q[j] /\ j = IF i < n THEN i ELSE i + 1
    BY <2>1, RemoveAtIs
  <2>. HIDE DEF r
  <2>3. \A i \in 1 .. Len(r) : \E j \in 1 .. Len(q) \ {n} : r[i] = q[j]
    <3>. TAKE i \in 1 .. Len(r)
    <3>1. PICK j \in 1 .. Len(q) \ {n} : r[i] = q[j] /\ j = IF i < n THEN i ELSE i + 1
      BY <2>2
    <3>. QED BY <3>1
  <2>. QED BY <2>1, <2>3
<1>3. Cardinality(Unnamed(r)) <= Cardinality(Unnamed(q))
  BY RemoveUnnamed
<1>4. /\ Cardinality(Unnamed(r)) \in Nat /\ Cardinality(Unnamed(q)) \in Nat
  BY <1>2, UnnamedIs
<1>5. ASSUME q[n].op = "get" PROVE \A i \in 1 .. Len(r) : r[i].op # "get"
  BY <1>2, <1>5 DEF OneGet
<1>. HIDE DEF r
<1>6. CASE p = r
  <2>1. q[n].op = "get" => Ahead(p, l \cup {q[n].kind})
    BY <1>5, <1>6 DEF Ahead
  <2>. QED BY <1>1, <1>2, <1>3, <1>6, <2>1 DEF r
<1>7. ASSUME q[n].op = "get", NEW k \in Kinds, p = Append(r, Get(k)), Rank(q[n].kind) < Rank(k)
      PROVE  /\ ReqsFit(p) /\ Len(p) <= Len(q) /\ OneGet(p) /\ Ahead(p, l)
             /\ Ahead(p, l \cup {q[n].kind})
             /\ \A m, id : Told(p, m, id) = Told(r, m, id)
             /\ Cardinality(Unnamed(p)) <= Cardinality(Unnamed(q))
  <2>1. /\ Get(k) \in Reqs /\ Fits(Get(k)) /\ Get(k).kind = k /\ Get(k).op = "get"
        /\ Get(k).stage = "asked"
    BY GetIs
  <2>2. \A m \in l \cup {q[n].kind} : Rank(m) < Rank(k)
    <3>1. \A m \in l : Rank(m) < Rank(q[n].kind)
      BY <1>7 DEF Ahead
    <3>. QED BY <1>7, <3>1 DEF Rank
  <2>3. Ahead(r, l \cup {q[n].kind})
    BY <1>5, <1>7 DEF Ahead
  <2>4. /\ ReqsFit(p) /\ Len(p) = Len(r) + 1 /\ OneGet(p) /\ Ahead(p, l \cup {q[n].kind})
        /\ \A m, id : Told(p, m, id) = Told(r, m, id)
    BY <1>1, <1>5, <1>7, <2>1, <2>2, <2>3, AskReq
  <2>5. Ahead(p, l)
    BY <2>4 DEF Ahead
  <2>6. Cardinality(Unnamed(p)) <= Cardinality(Unnamed(r))
    BY <1>1, <1>7, <2>1, AskUnnamed
  <2>7. Cardinality(Unnamed(p)) \in Nat
    BY <1>2, <2>4, UnnamedIs
  <2>. QED BY <1>1, <1>2, <1>3, <1>4, <2>4, <2>5, <2>6, <2>7
<1>. QED BY <1>6, <1>7 DEF Gone, r

LEMMA GoneTold ==
  ASSUME NEW q, ReqsFit(q), NEW n \in 1 .. Len(q), NEW p, Gone(q, n, p), NEW m, NEW id
  PROVE  Told(p, m, id) = Told(RemoveAt(q, n), m, id)
<1>1. ReqsFit(RemoveAt(q, n))
  BY RemoveReq
<1>2. ASSUME NEW k \in Kinds PROVE Told(Append(RemoveAt(q, n), Get(k)), m, id) = Told(RemoveAt(q, n), m, id)
  BY <1>1, GetIs, AskReq
<1>3. p = RemoveAt(q, n) \/ \E k \in Kinds : p = Append(RemoveAt(q, n), Get(k))
  BY Zenon DEF Gone
<1>4. CASE p = RemoveAt(q, n)
  BY <1>4
<1>5. CASE \E k \in Kinds : p = Append(RemoveAt(q, n), Get(k))
  BY <1>2, <1>5
<1>. QED BY <1>3, <1>4, <1>5

LEMMA GoneKeeps ==
  ASSUME NEW q, ReqsFit(q), NEW n \in 1 .. Len(q), NEW p, Gone(q, n, p)
  PROVE  /\ \A t : Apart(q, t) => Apart(p, t)
         /\ \A t : Moved(q, t) => Moved(p, t)
         /\ \A j \in 1 .. Len(p) :
              \/ p[j].op = "get" /\ p[j].stage = "asked" /\ p[j].tag = 0
              \/ \E c \in 1 .. Len(q) \ {n} : p[j] = q[c]
<1>. DEFINE r == RemoveAt(q, n)
<1>1. /\ ReqsFit(r) /\ (\A t : Apart(q, t) => Apart(r, t)) /\ (\A t : Moved(q, t) => Moved(r, t))
  BY RemoveReq
<1>2. /\ q \in Seq(Reqs) /\ r \in Seq(Reqs)
      /\ \A i \in 1 .. Len(r) : \E j \in 1 .. Len(q) \ {n} : r[i] = q[j]
  <2>1. q \in Seq(Reqs) /\ r \in Seq(Reqs)
    BY <1>1 DEF ReqsFit
  <2>. QED BY <2>1, RemoveAtIs
<1>. HIDE DEF r
<1>3. CASE p = r
  BY <1>1, <1>2, <1>3
<1>4. ASSUME NEW k \in Kinds, p = Append(r, Get(k))
      PROVE  /\ \A t : Apart(q, t) => Apart(p, t)
             /\ \A t : Moved(q, t) => Moved(p, t)
             /\ \A j \in 1 .. Len(p) :
                  \/ p[j].op = "get" /\ p[j].stage = "asked" /\ p[j].tag = 0
                  \/ \E c \in 1 .. Len(q) \ {n} : p[j] = q[c]
  <2>1. /\ Get(k) \in Reqs /\ Fits(Get(k)) /\ Get(k).op = "get" /\ Get(k).stage = "asked"
        /\ Get(k).tag = 0
    BY GetIs
  <2>2. ASSUME NEW t, Apart(q, t) PROVE Apart(p, t)
    <3>1. Apart(r, t)
      BY <1>1, <2>2
    <3>2. \A m \in Kinds : \A id \in Ids \ t[m] : id \notin t[m]
      OBVIOUS
    <3>. QED BY <1>1, <1>4, <2>1, <3>1, <3>2, AskApart
  <2>3. \A t : Moved(q, t) => Moved(p, t)
    BY <1>1, <1>4, <2>1, AskReq
  <2>4. /\ Len(p) = Len(r) + 1 /\ Len(r) \in Nat
        /\ (\A i \in 1 .. Len(r) : p[i] = r[i]) /\ p[Len(r) + 1] = Get(k)
    BY <1>2, <1>4, <2>1, AppendIs
  <2>5. \A j \in 1 .. Len(p) : j \in 1 .. Len(r) \/ j = Len(r) + 1
    BY <2>4
  <2>. QED BY <1>2, <2>1, <2>2, <2>3, <2>4, <2>5
<1>. QED BY <1>3, <1>4 DEF Gone, r

LEMMA AfterGetIs ==
  ASSUME ReqInv, NEW i \in 1 .. Len(reqs), reqs[i].op = "get", AfterGet(i)
  PROVE  Gone(reqs, i, reqs')
<1>1. "routines" \in Kinds /\ "rules" \in Kinds
  BY DEF Kinds
<1>2. CASE reqs[i].kind = "remotes"
  <2>1. reqs' = Append(RemoveAt(reqs, i), Get("routines")) /\ Rank(reqs[i].kind) < Rank("routines")
    BY <1>2 DEF AfterGet, Others, Rank
  <2>. QED BY <1>1, <2>1 DEF Gone
<1>3. CASE reqs[i].kind # "remotes" /\ reqs[i].kind = "routines" /\ reqs[i].stage = "served"
  <2>1. reqs' = Append(RemoveAt(reqs, i), Get("rules")) /\ Rank(reqs[i].kind) < Rank("rules")
    BY <1>3 DEF AfterGet, Others, Rank
  <2>. QED BY <1>1, <2>1 DEF Gone
<1>4. CASE reqs[i].kind # "remotes" /\ ~(reqs[i].kind = "routines" /\ reqs[i].stage = "served")
  BY <1>4 DEF AfterGet, Others, Gone
<1>. QED BY <1>2, <1>3, <1>4

(* A new tag is nobody's.                                                  *)
LEMMA NewTagIs ==
  ASSUME NEW k \in Kinds, ListInv, ReqInv
  PROVE  /\ NewTag(k) \in Nat \ {0}
         /\ \A o \in Range(list[k]) : o.tag < NewTag(k)
         /\ \A i \in 1 .. Len(reqs) : reqs[i].tag < NewTag(k)
<1>. DEFINE T == {0} \cup {e.tag : e \in Range(list[k])} \cup {reqs[i].tag : i \in DOMAIN reqs}
            s == list[k]
<1>1. s \in Seq(Objects) /\ DOMAIN s = 1 .. Len(s) /\ Len(s) \in Nat
  BY DEF ListInv
<1>2. \A i \in 1 .. Len(s) : s[i].tag \in Nat
  <2>1. \A i \in 1 .. Len(s) : s[i] \in Objects
    BY <1>1
  <2>. QED BY <2>1 DEF Objects
<1>3. reqs \in Seq(Reqs) /\ DOMAIN reqs = 1 .. Len(reqs) /\ Len(reqs) \in Nat
  BY DEF ReqInv, ReqsFit
<1>4. \A i \in 1 .. Len(reqs) : reqs[i].tag \in Nat
  <2>1. \A i \in 1 .. Len(reqs) : reqs[i] \in Reqs
    BY <1>3
  <2>. QED BY <2>1, TypedRequest
<1>5. PICK b \in Nat : \A i \in 1 .. Len(s) : s[i].tag <= b
  <2>. DEFINE f == [i \in 1 .. Len(s) |-> s[i].tag]
  <2>1. \A i \in 1 .. Len(s) : f[i] \in Nat /\ f[i] = s[i].tag
    BY <1>2
  <2>. HIDE DEF f
  <2>2. \E d \in Nat : \A i \in 1 .. Len(s) : f[i] <= d
    BY <1>1, <2>1, FinitelyManyAreBounded
  <2>. QED BY <2>1, <2>2
<1>6. PICK c \in Nat : \A i \in 1 .. Len(reqs) : reqs[i].tag <= c
  <2>. DEFINE f == [i \in 1 .. Len(reqs) |-> reqs[i].tag]
  <2>1. \A i \in 1 .. Len(reqs) : f[i] \in Nat /\ f[i] = reqs[i].tag
    BY <1>4
  <2>. HIDE DEF f
  <2>2. \E d \in Nat : \A i \in 1 .. Len(reqs) : f[i] <= d
    BY <1>3, <2>1, FinitelyManyAreBounded
  <2>. QED BY <2>1, <2>2
<1>7. \A x : x \in T <=> \/ x = 0
                         \/ \E i \in 1 .. Len(s) : x = s[i].tag
                         \/ \E i \in 1 .. Len(reqs) : x = reqs[i].tag
  BY <1>1, <1>3 DEF Range
<1>8. NewTag(k) = 1 + Max(T)
  BY DEF NewTag
<1>. HIDE DEF T, s
<1>9. T \in SUBSET Nat /\ T # {} /\ b + c \in Nat /\ \A t \in T : t <= b + c
  BY <1>2, <1>4, <1>5, <1>6, <1>7
<1>10. Max(T) \in T /\ \A t \in T : t <= Max(T)
  BY <1>9, GreatestElement
<1>11. /\ Max(T) \in Nat
       /\ \A i \in 1 .. Len(s) : s[i].tag <= Max(T)
       /\ \A i \in 1 .. Len(reqs) : reqs[i].tag <= Max(T)
  BY <1>7, <1>9, <1>10
<1>12. \A o \in Range(s) : o.tag < NewTag(k)
  BY <1>1, <1>2, <1>8, <1>11, RangeIs
<1>13. \A i \in 1 .. Len(reqs) : reqs[i].tag < NewTag(k)
  BY <1>4, <1>8, <1>11
<1>. QED BY <1>8, <1>11, <1>12, <1>13 DEF s

LEMMA ObjectIs ==
  ASSUME NEW e \in Entry, NEW t \in Nat \ {0}
  PROVE  /\ Object(t, e) \in Objects /\ Object(t, e).tag = t /\ Object(t, e).id = e.id
         /\ Plain(Object(t, e)) = e
BY DEF Object, Objects, Entry, Plain

(* An object of the list is rewritten with the answer.                     *)
Rewritten(s, t, e) == [j \in DOMAIN s |-> IF s[j].tag = t THEN Object(t, e) ELSE s[j]]

LEMMA RewrittenIs ==
  ASSUME NEW s \in Seq(Objects), TagsOwn(s), NEW t \in Nat \ {0}, NEW e \in Entry
  PROVE  /\ Rewritten(s, t, e) \in Seq(Objects) /\ TagsOwn(Rewritten(s, t, e))
         /\ \A o \in Range(Rewritten(s, t, e)) :
              \/ o \in Range(s) /\ o.tag # t
              \/ o = Object(t, e) /\ \E p \in Range(s) : p.tag = t
         /\ \A p \in Range(s) : IF p.tag = t THEN Object(t, e) \in Range(Rewritten(s, t, e))
                                ELSE p \in Range(Rewritten(s, t, e))
<1>. DEFINE w == Rewritten(s, t, e)
<1>1. DOMAIN s = 1 .. Len(s) /\ \A j \in 1 .. Len(s) : s[j] \in Objects
  OBVIOUS
<1>2. Object(t, e) \in Objects /\ Object(t, e).tag = t
  BY ObjectIs
<1>3. /\ w = [j \in DOMAIN s |-> w[j]]
      /\ \A j \in 1 .. Len(s) : w[j] = IF s[j].tag = t THEN Object(t, e) ELSE s[j]
  BY <1>1 DEF Rewritten
<1>4. \A j \in 1 .. Len(s) : w[j] \in Objects /\ w[j].tag = s[j].tag
  BY <1>1, <1>2, <1>3
<1>. HIDE DEF w
<1>5. w \in Seq(Objects) /\ Len(w) = Len(s) /\ DOMAIN w = 1 .. Len(s)
  BY <1>3, <1>4, RewriteIs
<1>6. TagsOwn(w)
  BY <1>4, <1>5 DEF TagsOwn
<1>7. ASSUME NEW o \in Range(w)
      PROVE  (o \in Range(s) /\ o.tag # t) \/ (o = Object(t, e) /\ \E p \in Range(s) : p.tag = t)
  <2>1. PICK j \in 1 .. Len(s) : o = w[j]
    BY <1>5 DEF Range
  <2>2. s[j] \in Range(s)
    BY <1>1 DEF Range
  <2>. QED BY <1>3, <2>1, <2>2
<1>8. ASSUME NEW p \in Range(s)
      PROVE  IF p.tag = t THEN Object(t, e) \in Range(w) ELSE p \in Range(w)
  <2>1. PICK j \in 1 .. Len(s) : p = s[j]
    BY <1>1 DEF Range
  <2>2. w[j] \in Range(w)
    BY <1>5 DEF Range
  <2>. QED BY <1>3, <2>1, <2>2
<1>. QED BY <1>5, <1>6, <1>7, <1>8 DEF w

(* What is found under an id after an object with that id is rewritten.    *)
LEMMA RewrittenFound ==
  ASSUME NEW s \in Seq(Objects), TagsOwn(s), NEW t \in Nat \ {0}, NEW e \in Entry, NEW id,
         id # e.id, \A p \in Range(s) : p.tag = t => p.id # id
  PROVE  Lookup(Rewritten(s, t, e), id) = Lookup(s, id)
<1>. DEFINE w == Rewritten(s, t, e)
<1>1. /\ \A o \in Range(w) : (o \in Range(s) /\ o.tag # t) \/ o = Object(t, e)
      /\ \A p \in Range(s) : IF p.tag = t THEN Object(t, e) \in Range(w) ELSE p \in Range(w)
  BY RewrittenIs
<1>2. Object(t, e).id = e.id
  BY ObjectIs
<1>. HIDE DEF w
<1>3. Lookup(w, id) = Lookup(s, id)
  BY <1>1, <1>2 DEF Lookup
<1>. QED BY <1>3 DEF w

(* What is found under the id of the answer, if one object alone has it.   *)
LEMMA RewrittenHit ==
  ASSUME NEW s \in Seq(Objects), TagsOwn(s), NEW t \in Nat \ {0}, NEW e \in Entry
  PROVE  \A p \in Range(s) :
           p.tag = t /\ p.id = e.id /\ (\A x, y \in Lookup(s, e.id) : x = y) =>
             Lookup(Rewritten(s, t, e), e.id) = {Object(t, e)}
<1>. DEFINE w == Rewritten(s, t, e)
<1>1. /\ \A o \in Range(w) : (o \in Range(s) /\ o.tag # t) \/ o = Object(t, e)
      /\ \A q \in Range(s) : IF q.tag = t THEN Object(t, e) \in Range(w) ELSE q \in Range(w)
  BY RewrittenIs
<1>2. Object(t, e).id = e.id
  BY ObjectIs
<1>. SUFFICES ASSUME NEW p \in Range(s), p.tag = t, p.id = e.id,
                     \A x, y \in Lookup(s, e.id) : x = y
              PROVE  Lookup(w, e.id) = {Object(t, e)}
  OBVIOUS
<1>. HIDE DEF w
<1>3. Object(t, e) \in Lookup(w, e.id)
  BY <1>1, <1>2 DEF Lookup
<1>4. ASSUME NEW o \in Lookup(w, e.id), o # Object(t, e) PROVE FALSE
  <2>1. o \in Range(s) /\ o.tag # t /\ o.id = e.id
    BY <1>1, <1>4 DEF Lookup
  <2>2. o = p
    BY <2>1 DEF Lookup
  <2>. QED BY <2>1, <2>2
<1>. QED BY <1>3, <1>4 DEF w

(* The page takes the answer of a save or a deletion: w is its list then.  *)
Answered(i, k, w) ==
  /\ reqs[i].stage = "served" /\ reqs[i].op # "get" /\ k = reqs[i].kind
  /\ reqs' = Others(i) /\ list' = [list EXCEPT ![k] = w] /\ TagsOwn(w)
  /\ k \in loaded =>
       /\ \A c \in 1 .. Len(reqs) \ {i} : reqs[c].tag # 0 /\ reqs[c].kind = k =>
            ClickFits(reqs[c], w, tangled[k])
       /\ \A id \in Ids \ tangled[k] :
            Agrees(Lookup(w, id), Lookup(db[k], id), Told(RemoveAt(reqs, i), k, id))
  /\ PageInv' /\ UNCHANGED <<db, made, counts, loaded, tangled>>

LEMMA AnsweredKeeps ==
  ASSUME IInv, NEW i \in 1 .. Len(reqs), NEW k, NEW w \in Seq(Objects), Answered(i, k, w)
  PROVE  IInv'
<1>. USE DEF IInv
<1>1. /\ reqs[i].op # "get" /\ k = reqs[i].kind /\ reqs' = Others(i)
      /\ list' = [list EXCEPT ![k] = w] /\ TagsOwn(w) /\ PageInv'
      /\ db' = db /\ made' = made /\ counts' = counts /\ loaded' = loaded /\ tangled' = tangled
  BY DEF Answered
<1>2. /\ k \in loaded => \A c \in 1 .. Len(reqs) \ {i} : reqs[c].tag # 0 /\ reqs[c].kind = k =>
           ClickFits(reqs[c], w, tangled[k])
      /\ k \in loaded => \A id \in Ids \ tangled[k] :
           Agrees(Lookup(w, id), Lookup(db[k], id), Told(RemoveAt(reqs, i), k, id))
  BY DEF Answered
<1>3. /\ ReqsFit(reqs) /\ OneGet(reqs) /\ Ahead(reqs, loaded) /\ Apart(reqs, tangled)
      /\ Moved(reqs, tangled) /\ Len(reqs) <= MaxOpen /\ k \in Kinds
      /\ Gone(reqs, i, reqs') /\ Len(reqs) \in Nat
  BY <1>1, ReqIs DEF ReqInv, Gone, Others
<1>4. /\ ReqsFit(reqs') /\ Len(reqs') <= Len(reqs) /\ OneGet(reqs') /\ Ahead(reqs', loaded)
      /\ \A l, id : Told(reqs', l, id) = Told(RemoveAt(reqs, i), l, id)
      /\ Cardinality(Unnamed(reqs')) <= Cardinality(Unnamed(reqs))
  <2>1. ReqsFit(reqs) /\ OneGet(reqs) /\ Ahead(reqs, loaded) /\ Gone(reqs, i, reqs')
    BY <1>3
  <2>2. ReqsFit(reqs') /\ OneGet(reqs')
    BY <2>1, GoneFits
  <2>3. Len(reqs') <= Len(reqs)
    BY <2>1, GoneFits
  <2>4. Ahead(reqs', loaded)
    BY <2>1, GoneFits
  <2>5. ASSUME NEW l, NEW id PROVE Told(reqs', l, id) = Told(RemoveAt(reqs, i), l, id)
    BY <2>1, GoneTold
  <2>6. Cardinality(Unnamed(reqs')) <= Cardinality(Unnamed(reqs))
    BY <2>1, GoneFits
  <2>. QED BY <2>2, <2>3, <2>4, <2>5, <2>6
<1>5. /\ Apart(reqs', tangled) /\ Moved(reqs', tangled)
      /\ \A j \in 1 .. Len(reqs') :
           \/ reqs'[j].op = "get" /\ reqs'[j].stage = "asked" /\ reqs'[j].tag = 0
           \/ \E c \in 1 .. Len(reqs) \ {i} : reqs'[j] = reqs[c]
  BY <1>3, GoneKeeps
<1>6. Len(reqs') \in Nat
  BY <1>4 DEF ReqsFit
<1>7. ReqInv'
  <2>1. Len(reqs') <= MaxOpen
    BY <1>3, <1>4, <1>6, Constants
  <2>. QED BY <1>1, <1>4, <1>5, <2>1 DEF ReqInv
<1>8. CountInv'
  <2>1. Cardinality(Unnamed(reqs')) \in Nat /\ Cardinality(Unnamed(reqs)) \in Nat
    BY <1>3, <1>6, UnnamedIs
  <2>. QED BY <1>1, <1>4, <2>1 DEF CountInv
<1>9. /\ list \in [Kinds -> Seq(Objects)] /\ \A l \in Kinds : TagsOwn(list[l])
  BY DEF ListInv
<1>10. /\ list' \in [Kinds -> Seq(Objects)] /\ list'[k] = w
       /\ \A l \in Kinds : l # k => list'[l] = list[l]
  <2>1. w \in Seq(Objects)
    OBVIOUS
  <2>. QED BY <1>1, <1>3, <1>9, <2>1, WriteList
<1>11. ListInv'
  <2>1. \A l \in Kinds : TagsOwn(list'[l])
    BY <1>1, <1>9, <1>10
  <2>. QED BY <1>10, <2>1 DEF ListInv
<1>12. DbInv' /\ GhostInv'
  BY <1>1 DEF DbInv, GhostInv
<1>13. ClicksFit(reqs', list', loaded', tangled')
  <2>. SUFFICES ASSUME NEW j \in 1 .. Len(reqs'), reqs'[j].tag # 0, reqs'[j].kind \in loaded
                PROVE  ClickFits(reqs'[j], list'[reqs'[j].kind], tangled[reqs'[j].kind])
    BY <1>1 DEF ClicksFit
  <2>1. PICK c \in 1 .. Len(reqs) \ {i} : reqs'[j] = reqs[c]
    BY <1>5
  <2>2. ClickFits(reqs[c], list[reqs[c].kind], tangled[reqs[c].kind]) /\ reqs[c].kind \in Kinds
    BY <1>3, <2>1, ReqIs DEF CopyInv, ClicksFit
  <2>3. CASE reqs[c].kind = k
    BY <1>2, <1>10, <2>1, <2>3
  <2>4. CASE reqs[c].kind # k
    BY <1>10, <2>1, <2>2, <2>4
  <2>. QED BY <2>3, <2>4
<1>14. LoadsFit(reqs', db', tangled')
  <2>1. LoadsFit(reqs, db, tangled)
    BY DEF CopyInv
  <2>. QED BY <1>1, <1>5, <2>1 DEF LoadsFit
<1>15. AgreeInv'
  <2>. SUFFICES ASSUME NEW l \in loaded, NEW id \in Ids \ tangled[l]
                PROVE  Agrees(Lookup(list'[l], id), Lookup(db[l], id), Told(reqs', l, id))
    BY <1>1 DEF AgreeInv
  <2>1. l \in Kinds
    BY DEF GhostInv
  <2>2. CASE l = k
    BY <1>2, <1>4, <1>10, <2>2
  <2>3. CASE l # k
    <3>1. ~About(reqs[i], l, id)
      BY <1>1, <2>3 DEF About
    <3>2. Told(reqs', l, id) = Told(reqs, l, id)
      BY <1>3, <1>4, <3>1, RemoveTold
    <3>3. Agrees(Lookup(list[l], id), Lookup(db[l], id), Told(reqs, l, id))
      BY DEF AgreeInv, CopyInv
    <3>. QED BY <1>10, <2>1, <2>3, <3>2, <3>3
  <2>. QED BY <2>2, <2>3
<1>. QED BY <1>1, <1>7, <1>8, <1>11, <1>12, <1>13, <1>14, <1>15 DEF CopyInv

(* The page has the entries of s, each once.                               *)
Mirrors(w, s) ==
  \A id : (\A o, p \in Lookup(w, id) : o = p) /\ {Plain(o) : o \in Lookup(w, id)} = Lookup(s, id)

(* A list is loaded as it was sent, with new objects.                      *)
LEMMA LoadedIs ==
  ASSUME NEW s \in Seq(Entry), OwnIds(s), NEW base \in Nat, NEW w,
         w = [j \in DOMAIN s |-> Object(base + j, s[j])]
  PROVE  /\ w \in Seq(Objects) /\ TagsOwn(w)
         /\ \A o \in Range(w) : o.tag > base
         /\ Mirrors(w, s)
<1>1. DOMAIN s = 1 .. Len(s) /\ Len(s) \in Nat /\ \A j \in 1 .. Len(s) : s[j] \in Entry
  OBVIOUS
<1>2. \A j \in 1 .. Len(s) : w[j] = Object(base + j, s[j]) /\ base + j \in Nat \ {0}
  BY <1>1
<1>3. \A j \in 1 .. Len(s) : /\ w[j] \in Objects /\ w[j].tag = base + j /\ w[j].id = s[j].id
                             /\ Plain(w[j]) = s[j]
  BY <1>1, <1>2, ObjectIs
<1>4. w \in Seq(Objects) /\ Len(w) = Len(s) /\ DOMAIN w = 1 .. Len(s)
  <2>1. w = [j \in DOMAIN s |-> w[j]]
    OBVIOUS
  <2>2. \A j \in 1 .. Len(s) : w[j] \in Objects
    BY <1>3
  <2>. QED BY <1>1, <2>1, <2>2
<1>5. TagsOwn(w)
  BY <1>1, <1>3, <1>4 DEF TagsOwn
<1>6. \A o \in Range(w) : o.tag > base
  BY <1>1, <1>3, <1>4 DEF Range
<1>7. ASSUME NEW id, NEW o \in Lookup(w, id), NEW p \in Lookup(w, id) PROVE o = p
  <2>1. PICK a \in 1 .. Len(s) : o = w[a] /\ o.id = id
    BY <1>4 DEF Lookup, Range
  <2>2. PICK b \in 1 .. Len(s) : p = w[b] /\ p.id = id
    BY <1>4 DEF Lookup, Range
  <2>3. s[a].id = s[b].id
    BY <1>3, <2>1, <2>2
  <2>4. a = b
    BY <2>3 DEF OwnIds
  <2>. QED BY <2>1, <2>2, <2>4
<1>8. ASSUME NEW id PROVE {Plain(o) : o \in Lookup(w, id)} = Lookup(s, id)
  <2>1. ASSUME NEW o \in Lookup(w, id) PROVE Plain(o) \in Lookup(s, id)
    <3>1. PICK a \in 1 .. Len(s) : o = w[a] /\ o.id = id
      BY <1>4 DEF Lookup, Range
    <3>2. Plain(o) = s[a] /\ s[a].id = id
      BY <1>3, <3>1
    <3>. QED BY <1>1, <3>2 DEF Lookup, Range
  <2>2. ASSUME NEW e \in Lookup(s, id) PROVE \E o \in Lookup(w, id) : Plain(o) = e
    <3>1. PICK a \in 1 .. Len(s) : e = s[a] /\ e.id = id
      BY <1>1 DEF Lookup, Range
    <3>2. Plain(w[a]) = e /\ w[a].id = id
      BY <1>3, <3>1
    <3>. QED BY <1>4, <3>2 DEF Lookup, Range
  <2>. QED BY <2>1, <2>2
<1>9. Mirrors(w, s)
  BY <1>7, <1>8 DEF Mirrors
<1>. QED BY <1>4, <1>5, <1>6, <1>9

LEMMA AnswerGetKeeps == ASSUME IInv, NEW i \in DOMAIN reqs, AnswerGet(i) PROVE IInv'
<1>. USE DEF IInv
<1>. DEFINE k == reqs[i].kind
            s == reqs[i].answer
            w == [j \in DOMAIN s |-> Object(NewTag(k) + j, s[j])]
<1>1. /\ ReqInv /\ ReqsFit(reqs) /\ i \in 1 .. Len(reqs) /\ k \in Kinds /\ reqs[i] \in Reqs
      /\ DOMAIN reqs = 1 .. Len(reqs) /\ Fits(reqs[i]) /\ Len(reqs) \in Nat
  BY ReqIs DEF ReqInv, ReqsFit
<1>2. /\ reqs[i].stage = "served" /\ reqs[i].op = "get"
      /\ list' = [list EXCEPT ![k] = w] /\ active' = (IF k = "remotes" THEN FirstId(s) ELSE active)
      /\ AfterGet(i) /\ loaded' = loaded \cup {k}
      /\ db' = db /\ made' = made /\ dialog' = dialog /\ counts' = counts /\ tangled' = tangled
  BY DEF AnswerGet
<1>3. s \in Seq(Entry) /\ OwnIds(s) /\ \A id \in Ids \ tangled[k] : Lookup(s, id) = Lookup(db[k], id)
  <2>1. LoadFits(reqs[i], db[k], tangled[k])
    BY <1>1, <1>2 DEF CopyInv, LoadsFit
  <2>. QED BY <1>1, <1>2, <2>1 DEF Fits, LoadFits
<1>4. /\ NewTag(k) \in Nat \ {0} /\ \A j \in 1 .. Len(reqs) : reqs[j].tag < NewTag(k)
  BY <1>1, NewTagIs
<1>. HIDE DEF k, s
<1>. DEFINE base == NewTag(k)
<1>5. base \in Nat /\ w = [j \in DOMAIN s |-> Object(base + j, s[j])]
  BY <1>4
<1>. HIDE DEF w, base
<1>6. /\ w \in Seq(Objects) /\ TagsOwn(w) /\ \A o \in Range(w) : o.tag > NewTag(k)
      /\ Mirrors(w, s)
  <2>1. w \in Seq(Objects) /\ TagsOwn(w)
    BY <1>3, <1>5, LoadedIs
  <2>2. \A o \in Range(w) : o.tag > base
    BY <1>3, <1>5, LoadedIs
  <2>3. Mirrors(w, s)
    BY <1>3, <1>5, LoadedIs
  <2>. QED BY <2>1, <2>2, <2>3 DEF base
<1>7. /\ OneGet(reqs) /\ Ahead(reqs, loaded) /\ Apart(reqs, tangled)
      /\ Moved(reqs, tangled) /\ Len(reqs) <= MaxOpen
  BY <1>1 DEF ReqInv
<1>8. Gone(reqs, i, reqs')
  BY <1>1, <1>2, AfterGetIs
<1>9. /\ ReqsFit(reqs') /\ Len(reqs') <= Len(reqs) /\ OneGet(reqs')
      /\ Cardinality(Unnamed(reqs')) <= Cardinality(Unnamed(reqs))
  BY <1>1, <1>7, <1>8, GoneFits
<1>10. Ahead(reqs', loaded')
  <2>1. Ahead(reqs', loaded \cup {reqs[i].kind})
    BY <1>1, <1>2, <1>7, <1>8, GoneFits
  <2>. QED BY <1>2, <2>1 DEF k
<1>11. /\ Apart(reqs', tangled) /\ Moved(reqs', tangled)
       /\ \A j \in 1 .. Len(reqs') :
            \/ reqs'[j].op = "get" /\ reqs'[j].stage = "asked" /\ reqs'[j].tag = 0
            \/ \E c \in 1 .. Len(reqs) \ {i} : reqs'[j] = reqs[c]
  BY <1>1, <1>7, <1>8, GoneKeeps
<1>12. Len(reqs') \in Nat
  BY <1>9 DEF ReqsFit
<1>13. ReqInv'
  <2>1. Len(reqs') <= MaxOpen
    BY <1>1, <1>7, <1>9, <1>12, Constants
  <2>. QED BY <1>2, <1>9, <1>10, <1>11, <2>1 DEF ReqInv
<1>14. CountInv'
  <2>1. Cardinality(Unnamed(reqs')) \in Nat /\ Cardinality(Unnamed(reqs)) \in Nat
    BY <1>1, <1>12, UnnamedIs
  <2>. QED BY <1>2, <1>9, <2>1 DEF CountInv
<1>15. /\ list' \in [Kinds -> Seq(Objects)] /\ list'[k] = w
       /\ \A l \in Kinds : l # k => list'[l] = list[l]
  BY <1>1, <1>2, <1>6, WriteList DEF ListInv
<1>16. ListInv'
  <2>1. \A l \in Kinds : TagsOwn(list'[l])
    BY <1>6, <1>15 DEF ListInv
  <2>. QED BY <1>15, <2>1 DEF ListInv
<1>17. DbInv' /\ GhostInv'
  BY <1>1, <1>2 DEF DbInv, GhostInv
<1>18. PageInv'
  <2>1. FirstId(s) \in Ids \cup {None}
    <3>1. CASE s = <<>>
      BY <3>1 DEF FirstId
    <3>2. CASE s # <<>>
      <4>1. s[1] \in Entry
        BY <1>3, <3>2
      <4>. QED BY <3>2, <4>1 DEF FirstId, Entry
    <3>. QED BY <3>1, <3>2
  <2>. QED BY <1>2, <2>1 DEF PageInv
<1>19. ClicksFit(reqs', list', loaded', tangled')
  <2>. SUFFICES ASSUME NEW j \in 1 .. Len(reqs'), reqs'[j].tag # 0, reqs'[j].kind \in loaded'
                PROVE  ClickFits(reqs'[j], list'[reqs'[j].kind], tangled[reqs'[j].kind])
    BY <1>2 DEF ClicksFit
  <2>1. PICK c \in 1 .. Len(reqs) \ {i} : reqs'[j] = reqs[c]
    BY <1>11
  <2>2. reqs[c].kind \in Kinds /\ Fits(reqs[c]) /\ reqs[c] \in Reqs
    BY <1>1, ReqIs
  <2>3. CASE reqs[c].kind = k
    <3>1. \A o \in Range(w) : o.tag # reqs[c].tag
      <4>1. \A o \in Range(w) : o.tag \in Nat
        <5>1. \A o \in Range(w) : o \in Objects
          BY <1>6, RangeIs
        <5>. QED BY <5>1 DEF Objects
      <4>2. reqs[c].tag \in Nat
        BY <2>2, TypedRequest
      <4>. QED BY <1>4, <1>6, <4>1, <4>2
    <3>2. reqs[c].op = "save" /\ reqs[c].id \in Ids
      BY <2>1, <2>2, TypedRequest DEF Fits
    <3>3. About(reqs[c], k, reqs[c].id) /\ About(reqs[i], k, reqs[c].id)
      BY <1>2, <2>3 DEF About, k
    <3>4. reqs[c].id \in tangled[k]
      BY <1>1, <1>2, <1>7, <3>2, <3>3 DEF Apart, Unasked
    <3>. QED BY <1>15, <2>1, <2>3, <3>1, <3>4 DEF ClickFits
  <2>4. CASE reqs[c].kind # k
    <3>1. ClickFits(reqs[c], list[reqs[c].kind], tangled[reqs[c].kind])
      BY <1>2, <2>1, <2>4 DEF CopyInv, ClicksFit
    <3>. QED BY <1>15, <2>1, <2>2, <2>4, <3>1
  <2>. QED BY <2>3, <2>4
<1>20. LoadsFit(reqs', db', tangled')
  <2>1. LoadsFit(reqs, db, tangled)
    BY DEF CopyInv
  <2>. QED BY <1>2, <1>11, <2>1 DEF LoadsFit
<1>21. AgreeInv'
  <2>. SUFFICES ASSUME NEW l \in loaded', NEW id \in Ids \ tangled[l]
                PROVE  Agrees(Lookup(list'[l], id), Lookup(db[l], id), Told(reqs', l, id))
    BY <1>2 DEF AgreeInv
  <2>1. l \in Kinds
    BY <1>17 DEF GhostInv
  <2>2. Told(reqs', l, id) = Told(RemoveAt(reqs, i), l, id)
    BY <1>1, <1>8, GoneTold
  <2>3. CASE l = k
    <3>1. About(reqs[i], k, id)
      BY <1>2 DEF About, k
    <3>2. Told(RemoveAt(reqs, i), l, id) = {}
      BY <1>1, <1>2, <1>7, <2>3, <3>1, AnswerIsAlone
    <3>3. Lookup(s, id) = Lookup(db[k], id)
      BY <1>3, <2>3
    <3>4. Told(reqs', l, id) = {}
      BY <2>2, <3>2
    <3>. QED BY <1>6, <1>15, <2>3, <3>3, <3>4 DEF Agrees, Mirrors
  <2>4. CASE l # k
    <3>1. ~About(reqs[i], l, id)
      BY <2>4 DEF About, k
    <3>2. Told(RemoveAt(reqs, i), l, id) = Told(reqs, l, id)
      BY <1>1, <3>1, RemoveTold
    <3>3. l \in loaded
      BY <1>2, <2>4
    <3>4. Agrees(Lookup(list[l], id), Lookup(db[l], id), Told(reqs, l, id))
      BY <3>3 DEF AgreeInv, CopyInv
    <3>. QED BY <1>15, <2>1, <2>2, <2>4, <3>2, <3>4
  <2>. QED BY <2>3, <2>4
<1>. QED BY <1>13, <1>14, <1>16, <1>17, <1>18, <1>19, <1>20, <1>21 DEF CopyInv

(* An answer to a save is about the entry it has, and about no other that  *)
(* is not tangled.                                                         *)
LEMMA SavedIs ==
  ASSUME IInv, NEW i \in 1 .. Len(reqs), reqs[i].stage = "served", reqs[i].op = "save"
  PROVE  LET k == reqs[i].kind e == reqs[i].answer
         IN  /\ e \in Entry /\ e.id \in Ids /\ k \in Kinds
             /\ e.id = reqs[i].id \/ reqs[i].id = None \/ (reqs[i].id \in tangled[k] /\ e.id \in tangled[k])
                                  \/ reqs[i].id \notin Ids
             /\ \A id \in Ids \ tangled[k] : About(reqs[i], k, id) <=> id = e.id
<1>. DEFINE k == reqs[i].kind
            e == reqs[i].answer
<1>1. reqs[i] \in Reqs /\ Fits(reqs[i]) /\ k \in Kinds
  BY ReqIs DEF IInv, ReqInv
<1>2. e \in Entry /\ (~Falsy(reqs[i].id) => e.id = reqs[i].id)
  BY <1>1 DEF Fits
<1>3. e.id \in Ids
  BY <1>2 DEF Entry
<1>4. reqs[i].id = NoSlug => e.id \in tangled[k] /\ (NoSlug \in Ids => NoSlug \in tangled[k])
  BY DEF IInv, ReqInv, Moved
<1>5. \/ e.id = reqs[i].id \/ reqs[i].id = None
      \/ (reqs[i].id \in tangled[k] /\ e.id \in tangled[k]) \/ reqs[i].id \notin Ids
  BY <1>2, <1>4 DEF Falsy
<1>6. ASSUME NEW id \in Ids \ tangled[k] PROVE About(reqs[i], k, id) <=> id = e.id
  <2>1. About(reqs[i], k, id) <=> reqs[i].id = id \/ e.id = id
    BY DEF About
  <2>. QED BY <1>5, <2>1, Constants
<1>. QED BY <1>1, <1>2, <1>3, <1>5, <1>6

(* The list has the entry e, and the others that are not tangled as before. *)
SavedIn(w, k, e) ==
  /\ \A id \in Ids \ tangled[k] : id # e.id => Lookup(w, id) = Lookup(list[k], id)
  /\ e.id \notin tangled[k] => \E t \in Nat \ {0} : Lookup(w, e.id) = {Object(t, e)}

LEMMA SavedAgrees ==
  ASSUME IInv, NEW i \in 1 .. Len(reqs), reqs[i].stage = "served", reqs[i].op = "save",
         NEW k, k = reqs[i].kind, k \in loaded, NEW w, SavedIn(w, k, reqs[i].answer)
  PROVE  \A id \in Ids \ tangled[k] :
           Agrees(Lookup(w, id), Lookup(db[k], id), Told(RemoveAt(reqs, i), k, id))
<1>. DEFINE e == reqs[i].answer
<1>1. /\ e \in Entry /\ e.id \in Ids /\ k \in Kinds
      /\ \A id \in Ids \ tangled[k] : About(reqs[i], k, id) <=> id = e.id
  BY SavedIs
<1>2. ReqsFit(reqs) /\ Apart(reqs, tangled)
  BY DEF IInv, ReqInv
<1>. HIDE DEF e
<1>. SUFFICES ASSUME NEW id \in Ids \ tangled[k]
              PROVE  Agrees(Lookup(w, id), Lookup(db[k], id), Told(RemoveAt(reqs, i), k, id))
  OBVIOUS
<1>3. Agrees(Lookup(list[k], id), Lookup(db[k], id), Told(reqs, k, id))
  BY DEF IInv, CopyInv, AgreeInv
<1>4. CASE id = e.id
  <2>1. Told(reqs, k, id) = {reqs[i]} /\ Told(RemoveAt(reqs, i), k, id) = {}
    BY <1>1, <1>2, <1>4, AnswerIsAlone
  <2>2. e \in Lookup(db[k], id)
    BY <1>3, <2>1 DEF Agrees, e
  <2>3. Lookup(db[k], id) = {e}
    <3>1. db[k] \in Seq(Entry) /\ OwnIds(db[k])
      BY <1>1 DEF IInv, DbInv
    <3>2. \A x \in Lookup(db[k], id) : x = e
      <4>. TAKE x \in Lookup(db[k], id)
      <4>1. x \in Range(db[k]) /\ x.id = id /\ e \in Range(db[k]) /\ e.id = id
        BY <2>2 DEF Lookup
      <4>2. PICK m, n \in 1 .. Len(db[k]) : db[k][m] = x /\ db[k][n] = e
        BY <3>1, <4>1, RangeIs
      <4>. QED BY <3>1, <4>1, <4>2 DEF OwnIds
    <3>. QED BY <2>2, <3>2
  <2>4. PICK t \in Nat \ {0} : Lookup(w, id) = {Object(t, e)}
    BY <1>4 DEF SavedIn, e
  <2>5. Plain(Object(t, e)) = e
    BY <1>1, ObjectIs
  <2>6. {Plain(o) : o \in Lookup(w, id)} = {e}
    BY <2>4, <2>5
  <2>. QED BY <2>1, <2>3, <2>4, <2>6 DEF Agrees
<1>5. CASE id # e.id
  <2>1. Told(RemoveAt(reqs, i), k, id) = Told(reqs, k, id)
    BY <1>1, <1>2, <1>5, RemoveTold
  <2>2. Lookup(w, id) = Lookup(list[k], id)
    BY <1>5 DEF SavedIn, e
  <2>. QED BY <1>3, <2>1, <2>2
<1>. QED BY <1>4, <1>5

(* The object that is rewritten has the id of the entry, unless the two    *)
(* are tangled.                                                            *)
Hits(s, t, e, T) ==
  /\ \A p \in Range(s) : p.tag = t => p.id = e.id \/ (p.id \in T /\ e.id \in T)
  /\ e.id \notin T => \E p \in Range(s) : p.tag = t

LEMMA RewriteSaves ==
  ASSUME IInv, NEW i \in 1 .. Len(reqs), NEW k \in Kinds, k \in loaded, NEW t \in Nat \ {0},
         NEW e \in Entry, Hits(list[k], t, e, tangled[k])
  PROVE  /\ SavedIn(Rewritten(list[k], t, e), k, e)
         /\ \A c \in 1 .. Len(reqs) : reqs[c].tag # 0 /\ reqs[c].kind = k =>
              ClickFits(reqs[c], Rewritten(list[k], t, e), tangled[k])
<1>. DEFINE s == list[k]
            w == Rewritten(s, t, e)
            T == tangled[k]
<1>1. s \in Seq(Objects) /\ TagsOwn(s)
  BY DEF IInv, ListInv
<1>2. /\ \A p \in Range(s) : p.tag = t => p.id = e.id \/ (p.id \in T /\ e.id \in T)
      /\ e.id \notin T => \E p \in Range(s) : p.tag = t
  BY DEF Hits
<1>3. /\ \A o \in Range(w) : \/ o \in Range(s) /\ o.tag # t
                             \/ o = Object(t, e) /\ \E p \in Range(s) : p.tag = t
      /\ \A p \in Range(s) : IF p.tag = t THEN Object(t, e) \in Range(w) ELSE p \in Range(w)
  BY <1>1, RewrittenIs
<1>4. Object(t, e).tag = t /\ Object(t, e).id = e.id
  BY ObjectIs
<1>. HIDE DEF w
<1>5. ASSUME NEW id \in Ids \ T, id # e.id PROVE Lookup(w, id) = Lookup(s, id)
  <2>1. \A p \in Range(s) : p.tag = t => p.id # id
    BY <1>2, <1>5
  <2>. QED BY <1>1, <1>5, <2>1, RewrittenFound DEF w
<1>6. ASSUME e.id \notin T PROVE Lookup(w, e.id) = {Object(t, e)}
  <2>1. PICK p \in Range(s) : p.tag = t /\ p.id = e.id
    BY <1>2, <1>6
  <2>2. Agrees(Lookup(s, e.id), Lookup(db[k], e.id), Told(reqs, k, e.id))
    BY <1>6 DEF IInv, CopyInv, AgreeInv, Entry
  <2>3. \A x, y \in Lookup(s, e.id) : x = y
    BY <2>2 DEF Agrees
  <2>. HIDE DEF s
  <2>4. \A q \in Range(s) :
          q.tag = t /\ q.id = e.id /\ (\A x, y \in Lookup(s, e.id) : x = y) =>
            Lookup(Rewritten(s, t, e), e.id) = {Object(t, e)}
    BY <1>1, RewrittenHit, ZenonT(40)
  <2>5. Lookup(Rewritten(s, t, e), e.id) = {Object(t, e)}
    BY <2>1, <2>3, <2>4
  <2>. QED BY <2>5 DEF w
<1>7. ASSUME NEW c \in 1 .. Len(reqs), reqs[c].tag # 0, reqs[c].kind = k
      PROVE  ClickFits(reqs[c], w, T)
  <2>1. /\ \A o \in Range(s) : o.tag = reqs[c].tag =>
             o.id = reqs[c].id \/ (o.id \in T /\ reqs[c].id \in T)
        /\ reqs[c].id \notin T => \E o \in Range(s) : o.tag = reqs[c].tag
    BY <1>7 DEF IInv, CopyInv, ClicksFit, ClickFits
  <2>2. ASSUME NEW o \in Range(w), o.tag = reqs[c].tag
        PROVE  o.id = reqs[c].id \/ (o.id \in T /\ reqs[c].id \in T)
    <3>1. CASE o \in Range(s)
      BY <2>1, <2>2, <3>1
    <3>2. CASE o = Object(t, e) /\ \E p \in Range(s) : p.tag = t
      <4>1. PICK p \in Range(s) : p.tag = t
        BY <3>2
      <4>. QED BY <1>2, <1>4, <2>1, <2>2, <3>2, <4>1
    <3>. QED BY <1>3, <3>1, <3>2
  <2>3. ASSUME reqs[c].id \notin T PROVE \E o \in Range(w) : o.tag = reqs[c].tag
    <3>1. PICK p \in Range(s) : p.tag = reqs[c].tag
      BY <2>1, <2>3
    <3>. QED BY <1>3, <1>4, <3>1
  <2>. QED BY <2>2, <2>3 DEF ClickFits
<1>8. SavedIn(w, k, e)
  BY <1>5, <1>6 DEF SavedIn
<1>. QED BY <1>7, <1>8 DEF w

LEMMA AppendSaves ==
  ASSUME IInv, NEW k \in Kinds, k \in loaded, NEW e \in Entry,
         e.id \notin tangled[k] => Lookup(list[k], e.id) = {}
  PROVE  LET w == Append(list[k], Object(NewTag(k), e))
         IN  /\ SavedIn(w, k, e)
             /\ \A c \in 1 .. Len(reqs) : reqs[c].tag # 0 /\ reqs[c].kind = k =>
                  ClickFits(reqs[c], w, tangled[k])
<1>. DEFINE s == list[k]
            t == NewTag(k)
            w == Append(s, Object(t, e))
<1>1. s \in Seq(Objects) /\ ReqInv /\ ListInv
  BY DEF IInv, ListInv
<1>2. t \in Nat \ {0} /\ \A c \in 1 .. Len(reqs) : reqs[c].tag < t
  BY <1>1, NewTagIs
<1>. HIDE DEF t
<1>3. Object(t, e) \in Objects /\ Object(t, e).tag = t /\ Object(t, e).id = e.id
  BY <1>2, ObjectIs
<1>4. /\ Range(w) = Range(s) \cup {Object(t, e)}
      /\ \A id : Lookup(w, id) = Lookup(s, id) \cup (IF Object(t, e).id = id THEN {Object(t, e)} ELSE {})
  BY <1>1, <1>3, AppendRange
<1>. HIDE DEF w
<1>5. SavedIn(w, k, e)
  <2>1. ASSUME NEW id \in Ids \ tangled[k], id # e.id PROVE Lookup(w, id) = Lookup(s, id)
    BY <1>3, <1>4, <2>1
  <2>2. ASSUME e.id \notin tangled[k] PROVE Lookup(w, e.id) = {Object(t, e)}
    BY <1>3, <1>4, <2>2
  <2>. QED BY <1>2, <2>1, <2>2 DEF SavedIn
<1>6. ASSUME NEW c \in 1 .. Len(reqs), reqs[c].tag # 0, reqs[c].kind = k
      PROVE  ClickFits(reqs[c], w, tangled[k])
  <2>1. ClickFits(reqs[c], s, tangled[k])
    BY <1>6 DEF IInv, CopyInv, ClicksFit
  <2>2. reqs[c].tag # t
    <3>1. reqs[c].tag < t /\ reqs[c].tag \in Nat
      BY <1>1, <1>2, ReqIs, TypedRequest DEF ReqInv
    <3>. QED BY <1>2, <3>1
  <2>. QED BY <1>3, <1>4, <2>1, <2>2 DEF ClickFits
<1>. QED BY <1>5, <1>6 DEF w, t

LEMMA AnswerSaveKeeps == ASSUME IInv, NEW i \in DOMAIN reqs, AnswerSave(i) PROVE IInv'
<1>. DEFINE r == reqs[i]
            k == r.kind
            e == r.answer
            s == list[k]
            W == IF r.tag = 0 /\ Target(r) = {} THEN Append(s, Object(NewTag(k), e))
                 ELSE [j \in DOMAIN s |-> IF j \in Target(r) THEN Object(s[j].tag, e) ELSE s[j]]
<1>1. /\ ReqInv /\ ReqsFit(reqs) /\ i \in 1 .. Len(reqs) /\ k \in Kinds /\ r \in Reqs /\ Fits(r)
      /\ Apart(reqs, tangled) /\ ListInv
  BY ReqIs DEF ReqInv, ReqsFit, IInv
<1>2. /\ r.stage = "served" /\ r.op = "save" /\ reqs' = Others(i) /\ list' = [list EXCEPT ![k] = W]
      /\ active' = (IF k = "remotes" /\ r.tag = 0 THEN e.id ELSE active)
      /\ dialog' = (IF dialog.kind = k /\ r.tag = 0 THEN Closed ELSE dialog)
      /\ db' = db /\ made' = made /\ counts' = counts /\ loaded' = loaded /\ tangled' = tangled
  BY <1>1 DEF AnswerSave, ListInv
<1>3. /\ e \in Entry /\ e.id \in Ids
      /\ \/ e.id = r.id \/ r.id = None \/ (r.id \in tangled[k] /\ e.id \in tangled[k]) \/ r.id \notin Ids
      /\ \A id \in Ids \ tangled[k] : About(r, k, id) <=> id = e.id
  BY <1>1, <1>2, SavedIs
<1>4. s \in Seq(Objects) /\ TagsOwn(s) /\ DOMAIN s = 1 .. Len(s) /\ \A j \in 1 .. Len(s) : s[j] \in Objects
  BY <1>1 DEF ListInv
<1>5. PageInv'
  BY <1>2, <1>3 DEF IInv, PageInv
<1>6. r.tag \in Nat /\ (r.tag # 0 => r.id \in Ids)
  BY <1>1, <1>2, TypedRequest DEF Fits
<1>. HIDE DEF W, e
<1>7. ASSUME NEW t \in Nat \ {0}, W = Rewritten(s, t, e), k \in loaded => Hits(s, t, e, tangled[k])
      PROVE  IInv'
  <2>. DEFINE w == Rewritten(s, t, e)
  <2>1. w \in Seq(Objects) /\ TagsOwn(w)
    BY <1>3, <1>4, RewrittenIs
  <2>2. ASSUME k \in loaded
        PROVE  /\ SavedIn(w, k, e)
               /\ \A c \in 1 .. Len(reqs) : reqs[c].tag # 0 /\ reqs[c].kind = k =>
                    ClickFits(reqs[c], w, tangled[k])
    BY <1>1, <1>3, <1>7, <2>2, RewriteSaves
  <2>. HIDE DEF w
  <2>3. ASSUME k \in loaded
        PROVE  \A id \in Ids \ tangled[k] :
                 Agrees(Lookup(w, id), Lookup(db[k], id), Told(RemoveAt(reqs, i), k, id))
    BY <1>1, <1>2, <2>2, <2>3, SavedAgrees DEF e
  <2>4. Answered(i, k, w)
    BY <1>2, <1>5, <1>7, <2>1, <2>2, <2>3 DEF Answered, w
  <2>. QED BY <1>1, <2>1, <2>4, AnsweredKeeps
<1>8. ASSUME W = Append(s, Object(NewTag(k), e)),
             k \in loaded => (e.id \notin tangled[k] => Lookup(s, e.id) = {})
      PROVE  IInv'
  <2>. DEFINE t == NewTag(k)
              o == Object(t, e)
              w == Append(s, o)
  <2>1. t \in Nat \ {0} /\ \A p \in Range(s) : p.tag < t
    BY <1>1, NewTagIs
  <2>. HIDE DEF t
  <2>2. o \in Objects /\ o.tag = t
    BY <1>3, <2>1, ObjectIs
  <2>3. w \in Seq(Objects) /\ TagsOwn(w)
    <3>1. /\ w \in Seq(Objects) /\ Len(w) = Len(s) + 1 /\ Len(s) \in Nat
          /\ (\A j \in 1 .. Len(s) : w[j] = s[j]) /\ w[Len(s) + 1] = o
      BY <1>4, <2>2, AppendIs
    <3>2. \A j \in 1 .. Len(s) : s[j].tag < t /\ s[j].tag \in Nat
      <4>1. \A j \in 1 .. Len(s) : s[j] \in Range(s)
        BY <1>4 DEF Range
      <4>. HIDE DEF s
      <4>. QED BY <1>4, <2>1, <4>1 DEF Objects
    <3>. HIDE DEF w, o
    <3>3. \A j \in 1 .. Len(w) : j \in 1 .. Len(s) \/ j = Len(s) + 1
      BY <3>1
    <3>4. \A j \in 1 .. Len(s) : s[j].tag # t
      BY <2>1, <3>2
    <3>. QED BY <1>4, <2>2, <3>1, <3>3, <3>4 DEF TagsOwn
  <2>4. ASSUME k \in loaded
        PROVE  /\ SavedIn(w, k, e)
               /\ \A c \in 1 .. Len(reqs) : reqs[c].tag # 0 /\ reqs[c].kind = k =>
                    ClickFits(reqs[c], w, tangled[k])
    BY <1>1, <1>3, <1>8, <2>4, AppendSaves DEF t
  <2>5. w = W
    BY <1>8 DEF t
  <2>. HIDE DEF w
  <2>6. ASSUME k \in loaded
        PROVE  \A id \in Ids \ tangled[k] :
                 Agrees(Lookup(w, id), Lookup(db[k], id), Told(RemoveAt(reqs, i), k, id))
    BY <1>1, <1>2, <2>4, <2>6, SavedAgrees DEF e
  <2>7. Answered(i, k, w)
    BY <1>2, <1>5, <2>3, <2>4, <2>5, <2>6 DEF Answered
  <2>. QED BY <1>1, <2>3, <2>7, AnsweredKeeps
(* The object that was clicked.                                            *)
<1>9. CASE r.tag # 0
  <2>1. Target(r) = {j \in DOMAIN s : s[j].tag = r.tag}
    BY <1>9 DEF Target
  <2>2. W = Rewritten(s, r.tag, e)
    <3>1. W = [j \in DOMAIN s |-> IF j \in Target(r) THEN Object(s[j].tag, e) ELSE s[j]]
      BY <1>9 DEF W
    <3>2. \A j \in DOMAIN s : (IF j \in Target(r) THEN Object(s[j].tag, e) ELSE s[j])
                              = IF s[j].tag = r.tag THEN Object(r.tag, e) ELSE s[j]
      BY <2>1
    <3>. QED BY <3>1, <3>2 DEF Rewritten
  <2>3. ASSUME k \in loaded PROVE Hits(s, r.tag, e, tangled[k])
    <3>1. ClickFits(r, s, tangled[k])
      BY <1>1, <1>9, <2>3 DEF IInv, CopyInv, ClicksFit
    <3>2. e.id = r.id \/ (r.id \in tangled[k] /\ e.id \in tangled[k])
      BY <1>3, <1>6, <1>9, Constants
    <3>. QED BY <3>1, <3>2 DEF ClickFits, Hits
  <2>. QED BY <1>6, <1>7, <1>9, <2>2, <2>3
<1>. DEFINE same == {j \in DOMAIN s : s[j].id = e.id}
(* A new object.                                                           *)
<1>10. CASE r.tag = 0 /\ (k = "remotes" \/ same = {})
  <2>1. Target(r) = {}
    BY <1>10 DEF Target, e
  <2>2. W = Append(s, Object(NewTag(k), e))
    BY <1>10, <2>1 DEF W
  <2>3. ASSUME k \in loaded, e.id \notin tangled[k] PROVE Lookup(s, e.id) = {}
    <3>1. CASE same = {}
      BY <1>4, <3>1 DEF Lookup, Range
    <3>2. CASE k = "remotes"
      <4>1. About(r, k, e.id)
        BY <1>3, <2>3
      <4>2. r \in Told(reqs, k, e.id)
        BY <1>1, <1>2, <4>1, ReqIs DEF Told
      <4>3. Agrees(Lookup(s, e.id), Lookup(db[k], e.id), Told(reqs, k, e.id))
        BY <1>3, <2>3 DEF IInv, CopyInv, AgreeInv
      <4>. QED BY <1>2, <1>10, <3>2, <4>2, <4>3 DEF Agrees
    <3>. QED BY <1>10, <3>1, <3>2
  <2>. QED BY <1>8, <2>2, <2>3
(* The first that has the id.                                              *)
<1>11. CASE r.tag = 0 /\ k # "remotes" /\ same # {}
  <2>. DEFINE m == Min(same)
  <2>1. Target(r) = {m}
    BY <1>11 DEF Target, e
  <2>2. m \in 1 .. Len(s) /\ s[m].id = e.id
    <3>1. same \in SUBSET Nat
      BY <1>4
    <3>2. \A j \in same : j \in 1 .. Len(s) /\ s[j].id = e.id
      BY <1>4
    <3>. HIDE DEF same
    <3>3. m \in same
      BY <1>11, <3>1, LeastElement
    <3>. QED BY <3>2, <3>3
  <2>. HIDE DEF m
  <2>3. s[m].tag \in Nat \ {0} /\ s[m] \in Range(s)
    BY <1>4, <2>2, RangeIs DEF Objects
  <2>4. \A j \in 1 .. Len(s) : s[j].tag = s[m].tag <=> j = m
    BY <1>4, <2>2 DEF TagsOwn
  <2>5. W = Rewritten(s, s[m].tag, e)
    <3>1. W = [j \in DOMAIN s |-> IF j \in {m} THEN Object(s[j].tag, e) ELSE s[j]]
      BY <2>1 DEF W
    <3>2. \A j \in DOMAIN s : (IF j \in {m} THEN Object(s[j].tag, e) ELSE s[j])
                              = IF s[j].tag = s[m].tag THEN Object(s[m].tag, e) ELSE s[j]
      BY <1>4, <2>4
    <3>. QED BY <3>1, <3>2 DEF Rewritten
  <2>6. Hits(s, s[m].tag, e, tangled[k])
    <3>1. \A p \in Range(s) : p.tag = s[m].tag => p = s[m]
      BY <1>4, <2>4, RangeIs
    <3>. QED BY <2>2, <2>3, <3>1 DEF Hits
  <2>. QED BY <1>7, <2>3, <2>5, <2>6
<1>. QED BY <1>9, <1>10, <1>11

LEMMA AnswerDeleteKeeps == ASSUME IInv, NEW i \in DOMAIN reqs, AnswerDelete(i) PROVE IInv'
<1>. DEFINE r == reqs[i]
            k == r.kind
            s == list[k]
            T == tangled[k]
            w == Without(s, r.id)
<1>1. /\ ReqsFit(reqs) /\ i \in 1 .. Len(reqs) /\ k \in Kinds /\ r \in Reqs /\ Fits(r)
      /\ Apart(reqs, tangled)
  BY ReqIs DEF ReqInv, ReqsFit, IInv
<1>2. /\ r.stage = "served" /\ r.op = "delete" /\ reqs' = Others(i) /\ list' = [list EXCEPT ![k] = w]
      /\ active' = (IF k = "remotes" THEN FirstId(w) ELSE active)
      /\ dialog' = (IF dialog.kind = k THEN Closed ELSE dialog)
      /\ db' = db /\ made' = made /\ counts' = counts /\ loaded' = loaded /\ tangled' = tangled
  BY DEF AnswerDelete
<1>3. r.id \in Ids /\ r.tag = 0 /\ r.answer.id = r.id
  BY <1>1, <1>2 DEF Fits
<1>4. s \in Seq(Objects) /\ TagsOwn(s)
  BY <1>1 DEF IInv, ListInv
<1>5. /\ w \in Seq(Objects)
      /\ \A o : o \in Range(w) <=> (o \in Range(s) /\ o.id # r.id)
      /\ \A a, b \in 1 .. Len(w) : a # b => \E x, y \in 1 .. Len(s) : x # y /\ w[a] = s[x] /\ w[b] = s[y]
  <2>. DEFINE id == r.id
              v == Without(s, id)
  <2>. HIDE DEF id, s
  <2>1. v \in Seq(Objects) /\ \A o : o \in Range(v) <=> (o \in Range(s) /\ o.id # id)
    BY <1>4, WithoutIs
  <2>2. \A a, b \in 1 .. Len(v) : a # b => \E x, y \in 1 .. Len(s) : x # y /\ v[a] = s[x] /\ v[b] = s[y]
    BY <1>4, WithoutIs
  <2>. QED BY <2>1, <2>2 DEF id
<1>. HIDE DEF w
<1>6. TagsOwn(w)
  <2>. SUFFICES ASSUME NEW a \in 1 .. Len(w), NEW b \in 1 .. Len(w), w[a].tag = w[b].tag, a # b
                PROVE  FALSE
    BY DEF TagsOwn
  <2>1. PICK x, y \in 1 .. Len(s) : x # y /\ w[a] = s[x] /\ w[b] = s[y]
    BY <1>5
  <2>. QED BY <1>4, <2>1 DEF TagsOwn
<1>7. /\ Lookup(w, r.id) = {} /\ \A id : id # r.id => Lookup(w, id) = Lookup(s, id)
  BY <1>5 DEF Lookup
<1>8. PageInv'
  <2>1. FirstId(w) \in Ids \cup {None}
    <3>1. CASE w = <<>>
      BY <3>1 DEF FirstId
    <3>2. CASE w # <<>>
      <4>1. w[1] \in Objects
        BY <1>5, <3>2
      <4>. QED BY <3>2, <4>1 DEF FirstId, Objects
    <3>. QED BY <3>1, <3>2
  <2>. QED BY <1>2, <2>1 DEF IInv, PageInv
<1>9. ASSUME k \in loaded, NEW c \in 1 .. Len(reqs) \ {i}, reqs[c].tag # 0, reqs[c].kind = k
      PROVE  ClickFits(reqs[c], w, T)
  <2>1. ClickFits(reqs[c], s, T)
    BY <1>9 DEF IInv, CopyInv, ClicksFit
  <2>2. ASSUME reqs[c].id \notin T PROVE \E o \in Range(w) : o.tag = reqs[c].tag
    <3>1. PICK o \in Range(s) : o.tag = reqs[c].tag /\ o.id = reqs[c].id
      BY <2>1, <2>2 DEF ClickFits
    <3>2. reqs[c].op = "save" /\ reqs[c].id \in Ids
      <4>1. reqs[c] \in Reqs /\ Fits(reqs[c])
        BY <1>1, ReqIs
      <4>2. reqs[c].op \in {"get", "save", "delete"}
        BY <4>1, TypedRequest
      <4>. QED BY <1>9, <4>1, <4>2 DEF Fits
    <3>3. reqs[c].id # r.id
      <4>. SUFFICES ASSUME reqs[c].id = r.id PROVE FALSE
        OBVIOUS
      <4>1. About(reqs[c], k, r.id) /\ About(reqs[i], k, r.id) /\ r.id \in Ids \ T
        BY <1>3, <1>9, <2>2 DEF About
      <4>. QED BY <1>1, <1>2, <1>9, <3>2, <4>1 DEF Apart, Unasked
    <3>. QED BY <1>5, <3>1, <3>3
  <2>. QED BY <1>5, <2>1, <2>2 DEF ClickFits
<1>10. ASSUME k \in loaded, NEW id \in Ids \ T
       PROVE  Agrees(Lookup(w, id), Lookup(db[k], id), Told(RemoveAt(reqs, i), k, id))
  <2>1. Agrees(Lookup(s, id), Lookup(db[k], id), Told(reqs, k, id))
    BY <1>10 DEF IInv, CopyInv, AgreeInv
  <2>2. CASE id = r.id
    <3>1. About(r, k, id)
      BY <2>2 DEF About
    <3>2. Told(reqs, k, id) = {r} /\ Told(RemoveAt(reqs, i), k, id) = {}
      BY <1>1, <1>2, <3>1, AnswerIsAlone
    <3>3. Lookup(db[k], id) = {}
      BY <1>2, <2>1, <3>2 DEF Agrees
    <3>4. Lookup(w, id) = {}
      BY <1>7, <2>2
    <3>. QED BY <3>2, <3>3, <3>4 DEF Agrees
  <2>3. CASE id # r.id
    <3>1. ~About(r, k, id)
      BY <1>2, <1>3, <2>3 DEF About
    <3>2. Told(RemoveAt(reqs, i), k, id) = Told(reqs, k, id)
      BY <1>1, <3>1, RemoveTold
    <3>. QED BY <1>7, <2>1, <2>3, <3>2
  <2>. QED BY <2>2, <2>3
<1>. HIDE DEF k
<1>11. Answered(i, k, w)
  BY <1>2, <1>6, <1>8, <1>9, <1>10 DEF Answered, k
<1>. QED BY <1>1, <1>5, <1>11, AnsweredKeeps

-----------------------------------------------------------------------------
(* A request, or its answer, is lost.                                      *)
LEMMA LoseKeeps == ASSUME IInv, NEW i \in DOMAIN reqs, Lose(i) PROVE IInv'
<1>. USE DEF IInv
<1>. DEFINE r == reqs[i]
            k == r.kind
            X == IF r.op # "get" /\ r.stage = "served" THEN {r.answer.id} ELSE {}
<1>1. /\ ReqInv /\ ReqsFit(reqs) /\ i \in 1 .. Len(reqs) /\ k \in Kinds /\ r \in Reqs /\ Fits(r)
      /\ DOMAIN reqs = 1 .. Len(reqs) /\ Len(reqs) \in Nat
  BY ReqIs DEF ReqInv, ReqsFit
<1>2. /\ db' = db /\ made' = made /\ list' = list /\ active' = active /\ dialog' = dialog
      /\ loaded' = loaded /\ (counts' = counts \/ Count("loss", MaxLosses))
  BY DEF Lose, pageVars
<1>3. /\ OneGet(reqs) /\ Ahead(reqs, loaded) /\ Apart(reqs, tangled)
      /\ Moved(reqs, tangled) /\ Len(reqs) <= MaxOpen
  BY <1>1 DEF ReqInv
<1>4. Gone(reqs, i, reqs')
  <2>1. CASE r.op = "get"
    BY <1>1, <2>1, AfterGetIs DEF Lose
  <2>2. CASE r.op # "get"
    BY <2>2 DEF Lose, Others, Gone
  <2>. QED BY <2>1, <2>2
<1>5. tangled' = [tangled EXCEPT ![k] = @ \cup X]
  <2>1. CASE r.op # "get" /\ r.stage = "served"
    BY <2>1 DEF Lose
  <2>2. CASE ~(r.op # "get" /\ r.stage = "served")
    <3>1. tangled' = tangled /\ X = {}
      BY <1>1, <2>2, TypedRequest DEF Lose
    <3>2. [tangled EXCEPT ![k] = @ \cup {}] = tangled
      BY <1>1 DEF GhostInv
    <3>. QED BY <3>1, <3>2
  <2>. QED BY <2>1, <2>2
<1>6. \A id \in X : id \in Ids
  <2>1. r.op # "get" /\ r.stage = "served" => r.answer.id \in Ids
    BY <1>1, TypedRequest DEF Fits, Entry
  <2>. QED BY <2>1
<1>7. r.op # "get" /\ r.stage = "served" => r.answer.id \in X
  OBVIOUS
<1>. HIDE DEF X
<1>8. /\ tangled' \in [Kinds -> SUBSET Ids] /\ Grown(tangled, tangled')
      /\ \A id : id \in tangled'[k] <=> id \in tangled[k] \/ id \in X
      /\ \A l \in Kinds : l # k => tangled'[l] = tangled[l]
  <2>. HIDE DEF k
  <2>1. k \in Kinds
    BY <1>1 DEF k
  <2>. QED BY <1>5, <1>6, <2>1, TanglesMore
<1>9. /\ ReqsFit(reqs') /\ Len(reqs') <= Len(reqs) /\ OneGet(reqs')
      /\ Cardinality(Unnamed(reqs')) <= Cardinality(Unnamed(reqs))
  BY <1>1, <1>3, <1>4, GoneFits
<1>10. Ahead(reqs', loaded)
  BY <1>1, <1>3, <1>4, GoneFits
<1>11. /\ Apart(reqs', tangled) /\ Moved(reqs', tangled)
       /\ \A j \in 1 .. Len(reqs') :
            \/ reqs'[j].op = "get" /\ reqs'[j].stage = "asked" /\ reqs'[j].tag = 0
            \/ \E c \in 1 .. Len(reqs) \ {i} : reqs'[j] = reqs[c]
  BY <1>1, <1>3, <1>4, GoneKeeps
<1>12. Len(reqs') \in Nat
  BY <1>9 DEF ReqsFit
<1>13. ReqInv'
  <2>1. Len(reqs') <= MaxOpen
    BY <1>1, <1>3, <1>9, <1>12, Constants
  <2>2. Apart(reqs', tangled') /\ Moved(reqs', tangled')
    BY <1>8, <1>9, <1>11, GrownKeeps
  <2>. QED BY <1>2, <1>9, <1>10, <2>1, <2>2 DEF ReqInv
<1>14. CountInv'
  <2>1. Cardinality(Unnamed(reqs')) \in Nat /\ Cardinality(Unnamed(reqs)) \in Nat
    BY <1>1, <1>12, UnnamedIs
  <2>2. counts' \in [{"click", "other", "loss"} -> Nat] /\ counts'["click"] = counts["click"]
    BY <1>2, CountIs DEF CountInv
  <2>. QED BY <1>2, <1>9, <2>1, <2>2 DEF CountInv
<1>15. DbInv' /\ ListInv' /\ PageInv' /\ GhostInv'
  BY <1>2, <1>8 DEF DbInv, ListInv, PageInv, GhostInv
<1>16. ClicksFit(reqs', list', loaded', tangled')
  <2>1. ClicksFit(reqs, list, loaded, tangled')
    BY <1>1, <1>8, GrownKeeps DEF CopyInv
  <2>. QED BY <1>2, <1>11, <2>1 DEF ClicksFit
<1>17. LoadsFit(reqs', db', tangled')
  <2>1. LoadsFit(reqs, db, tangled')
    BY <1>1, <1>8, GrownKeeps DEF CopyInv
  <2>. QED BY <1>2, <1>11, <2>1 DEF LoadsFit
<1>18. AgreeInv'
  <2>. SUFFICES ASSUME NEW l \in loaded, NEW id \in Ids \ tangled'[l]
                PROVE  Agrees(Lookup(list[l], id), Lookup(db[l], id), Told(reqs', l, id))
    BY <1>2 DEF AgreeInv
  <2>1. l \in Kinds
    BY DEF GhostInv
  <2>2. id \in Ids \ tangled[l]
    BY <1>8, <2>1 DEF Grown
  <2>3. Agrees(Lookup(list[l], id), Lookup(db[l], id), Told(reqs, l, id))
    BY <2>2 DEF CopyInv, AgreeInv
  <2>4. ~(r.stage = "served" /\ About(r, l, id))
    <3>. SUFFICES ASSUME r.stage = "served", About(r, l, id) PROVE FALSE
      OBVIOUS
    <3>1. l = k
      BY DEF About
    <3>2. CASE r.op = "get"
      <4>1. Rank(k) < Rank(k)
        BY <1>1, <1>3, <3>1, <3>2 DEF Ahead
      <4>. QED BY <4>1 DEF Rank
    <3>3. CASE r.op = "save"
      <4>1. id = r.answer.id
        BY <1>1, <2>2, <3>1, <3>3, SavedIs
      <4>. QED BY <1>7, <1>8, <3>1, <3>3, <4>1
    <3>4. CASE r.op = "delete"
      <4>1. id = r.answer.id
        BY <1>1, <3>4 DEF Fits, About
      <4>. QED BY <1>7, <1>8, <3>1, <3>4, <4>1
    <3>. QED BY <1>1, <3>2, <3>3, <3>4, TypedRequest
  <2>5. Told(RemoveAt(reqs, i), l, id) = Told(reqs, l, id)
    BY <1>1, <2>4, RemoveTold
  <2>6. Told(reqs', l, id) = Told(RemoveAt(reqs, i), l, id)
    BY <1>1, <1>4, GoneTold
  <2>. QED BY <2>3, <2>5, <2>6
<1>. QED BY <1>13, <1>14, <1>15, <1>16, <1>17, <1>18 DEF CopyInv

-----------------------------------------------------------------------------
LEMMA NextKeeps == ASSUME IInv, [Next]_vars PROVE IInv'
<1>1. CASE AddRemote \/ RenameRemote \/ AddButton \/ RemoveRemote \/ ToggleRule \/ SaveDialog \/ DeleteInDialog
  <2>1. PICK r : Asks(r) /\ Click(r)
    BY <1>1, ClicksAsk DEF IInv
  <2>. QED BY <2>1, ClickKeeps
<1>2. CASE Select \/ (\E k \in Dialogs : OpenDialog(k)) \/ CloseDialog \/ UNCHANGED vars
  BY <1>2, TurnKeeps
<1>3. CASE \E x \in Foreign : Other(x[1], x[2])
  BY <1>3, OtherKeeps
<1>4. ASSUME NEW i \in DOMAIN reqs,
             ServeGet(i) \/ ServeSave(i) \/ ServeDelete(i)
             \/ AnswerGet(i) \/ AnswerSave(i) \/ AnswerDelete(i) \/ Lose(i)
      PROVE  IInv'
  <2>1. CASE ServeGet(i)
    BY <2>1, ServeGetKeeps
  <2>2. CASE ServeSave(i)
    BY <2>2, ServeSaveKeeps
  <2>3. CASE ServeDelete(i)
    BY <2>3, ServeDeleteKeeps
  <2>4. CASE AnswerGet(i)
    BY <2>4, AnswerGetKeeps
  <2>5. CASE AnswerSave(i)
    BY <2>5, AnswerSaveKeeps
  <2>6. CASE AnswerDelete(i)
    BY <2>6, AnswerDeleteKeeps
  <2>7. CASE Lose(i)
    BY <2>7, LoseKeeps
  <2>. QED BY <1>4, <2>1, <2>2, <2>3, <2>4, <2>5, <2>6, <2>7
<1>. QED BY <1>1, <1>2, <1>3, <1>4 DEF Next

-----------------------------------------------------------------------------
(* Every entry of db.json and of the page's lists is one, whatever order   *)
(* requests are served and answered in: no save under a made-up id runs    *)
(* out of them, and the selection and the dialog name ids.                 *)
THEOREM TypeCorrect == Spec => []TypeOK
<1>1. IInv => TypeOK
  <2>. SUFFICES ASSUME IInv PROVE TypeOK
    OBVIOUS
  <2>1. ASSUME NEW k \in Kinds PROVE {Plain(e) : e \in Range(list[k])} \cup Range(db[k]) \subseteq Entry
    <3>1. list[k] \in Seq(Objects) /\ db[k] \in Seq(Entry)
      BY DEF IInv, ListInv, DbInv
    <3>2. \A e \in Range(list[k]) : Plain(e) \in Entry
      <4>1. \A e \in Range(list[k]) : e \in Objects
        BY <3>1, RangeIs
      <4>. QED BY <4>1 DEF Objects, Plain, Entry
    <3>3. \A e \in Range(db[k]) : e \in Entry
      BY <3>1, RangeIs
    <3>. QED BY <3>2, <3>3
  <2>2. active \in Ids \cup {None} /\ loaded \subseteq Kinds /\ Len(reqs) <= MaxOpen
    BY DEF IInv, PageInv, GhostInv, ReqInv
  <2>3. dialog.kind \in Dialogs \cup {None} /\ dialog.id \in Ids \cup {None}
    BY DEF IInv, PageInv, Closed
  <2>4. made \in 0 .. MaxClicks
    <3>1. Len(reqs) \in Nat
      BY DEF IInv, ReqInv, ReqsFit
    <3>2. Cardinality(Unnamed(reqs)) \in Nat
      BY <3>1, UnnamedIs
    <3>. QED BY <3>2, Constants DEF IInv, CountInv
  <2>. QED BY <2>1, <2>2, <2>3, <2>4 DEF TypeOK
<1>. QED BY <1>1, InitIInv, NextKeeps, PTL DEF Spec

(* No two entries of db.json have one id: saveRemote, the saves of         *)
(* routines and rules and their deletions find by id what they replace.    *)
THEOREM IdsStayUnique == Spec => []UniqueIds
<1>1. IInv => UniqueIds
  <2>. SUFFICES ASSUME IInv, NEW k \in Kinds, NEW i \in DOMAIN db[k], NEW j \in DOMAIN db[k],
                       db[k][i].id = db[k][j].id
                PROVE  i = j
    BY DEF UniqueIds
  <2>1. OwnIds(db[k]) /\ DOMAIN db[k] = 1 .. Len(db[k])
    BY DEF IInv, DbInv
  <2>. QED BY <2>1 DEF OwnIds
<1>. QED BY <1>1, InitIInv, NextKeeps, PTL DEF Spec

(* An entry that is not tangled, and that no answer is on its way about,   *)
(* is on the page exactly as the server has it, once or not at all: what   *)
(* loadRemotes and its like, the saves and the deletions of app.js do to   *)
(* the lists fits together, in whatever order the answers come.            *)
THEOREM CopiesStayRight == Spec => []CopiesAgree
<1>1. IInv => CopiesAgree
  <2>. SUFFICES ASSUME IInv, NEW k \in loaded, NEW id \in Ids \ tangled[k],
                       \A i \in DOMAIN reqs : reqs[i].stage = "served" => ~About(reqs[i], k, id)
                PROVE  \/ Places(list[k], id) = {} /\ Places(db[k], id) = {}
                       \/ \E i \in Places(list[k], id), j \in Places(db[k], id) :
                            /\ Places(list[k], id) = {i} /\ Places(db[k], id) = {j}
                            /\ Plain(list[k][i]) = db[k][j]
    BY DEF CopiesAgree
  <2>. DEFINE mine   == list[k]
              theirs == db[k]
  <2>1. /\ mine \in Seq(Objects) /\ TagsOwn(mine) /\ DOMAIN mine = 1 .. Len(mine)
        /\ theirs \in Seq(Entry) /\ OwnIds(theirs) /\ DOMAIN theirs = 1 .. Len(theirs)
    BY DEF IInv, GhostInv, ListInv, DbInv
  <2>2. Told(reqs, k, id) = {}
    BY DEF Told, Range
  <2>3. Agrees(Lookup(mine, id), Lookup(theirs, id), Told(reqs, k, id))
    BY DEF IInv, CopyInv, AgreeInv
  <2>. HIDE DEF mine, theirs
  <2>4. /\ \A o, p \in Lookup(mine, id) : o = p
        /\ {Plain(o) : o \in Lookup(mine, id)} = Lookup(theirs, id)
    BY <2>2, <2>3 DEF Agrees
  <2>5. /\ \A i \in 1 .. Len(mine) : mine[i] \in Lookup(mine, id) <=> mine[i].id = id
        /\ \A j \in 1 .. Len(theirs) : theirs[j] \in Lookup(theirs, id) <=> theirs[j].id = id
        /\ \A o \in Lookup(mine, id) : \E i \in 1 .. Len(mine) : o = mine[i] /\ mine[i].id = id
        /\ \A e \in Lookup(theirs, id) : \E j \in 1 .. Len(theirs) : e = theirs[j] /\ theirs[j].id = id
    BY <2>1 DEF Lookup, Range
  <2>6. CASE Lookup(mine, id) = {}
    <3>1. Lookup(theirs, id) = {}
      BY <2>4, <2>6
    <3>2. Places(mine, id) = {} /\ Places(theirs, id) = {}
      BY <2>1, <2>5, <2>6, <3>1 DEF Places
    <3>. QED BY <3>2 DEF mine, theirs
  <2>7. CASE Lookup(mine, id) # {}
    <3>1. PICK i \in 1 .. Len(mine) : mine[i].id = id /\ mine[i] \in Lookup(mine, id)
      BY <2>5, <2>7
    <3>2. Plain(mine[i]) \in Lookup(theirs, id)
      BY <2>4, <3>1
    <3>3. PICK j \in 1 .. Len(theirs) : Plain(mine[i]) = theirs[j] /\ theirs[j].id = id
      BY <2>5, <3>2
    <3>4. \A l \in 1 .. Len(mine) : mine[l].id = id => l = i
      BY <2>1, <2>4, <2>5, <3>1 DEF TagsOwn
    <3>5. \A l \in 1 .. Len(theirs) : theirs[l].id = id => l = j
      BY <2>1, <3>3 DEF OwnIds
    <3>6. Places(mine, id) = {i} /\ Places(theirs, id) = {j}
      BY <2>1, <3>1, <3>3, <3>4, <3>5 DEF Places
    <3>. QED BY <3>3, <3>6 DEF mine, theirs
  <2>. QED BY <2>6, <2>7
<1>. QED BY <1>1, InitIInv, NextKeeps, PTL DEF Spec
=============================================================================
