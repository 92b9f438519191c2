-------------------------- MODULE SyntaxTreeProofs --------------------------
(* Lemmas about the lists of module SyntaxTree: an induction over numbers,  *)
(* and what concatenating, sorting and filtering a list leaves of it.       *)
EXTENDS SyntaxTree, SequenceTheorems, FiniteSetTheorems, TLAPS

-----------------------------------------------------------------------------
(* Induction.  The induction theorems of the library take the property as an *)
(* operator; here it is a set of numbers, found from the least number that  *)
(* would not be in it.                                                      *)

LEMMA LeastNumber ==
  ASSUME NEW T, T \subseteq Nat, T # {}
  PROVE  \E m \in T : \A k \in T : m <= k
<1>. DEFINE U == {1 .. n : n \in T}
<1>1. U \subseteq FiniteSubsetsOf(Nat)
  <2>1. \A n \in T : IsFiniteSet(1 .. n) /\ 1 .. n \subseteq Nat
    BY FS_Interval
  <2>. QED BY <2>1 DEF FiniteSubsetsOf
<1>2. U # {}
  OBVIOUS
<1>3. PICK u \in U : \A y \in U : ~(<<y, u>> \in StrictSubsetOrdering(Nat))
  <2>. HIDE DEF U
  <2>1. IsWellFoundedOn(StrictSubsetOrdering(Nat), FiniteSubsetsOf(Nat))
    BY FS_StrictSubsetOrderingWellFounded
  <2>. QED BY <1>1, <1>2, <2>1, WFMin
<1>4. PICK m \in T : u = 1 .. m
  OBVIOUS
<1>5. ASSUME NEW k \in T PROVE m <= k
  <2>. SUFFICES ASSUME k < m PROVE FALSE
    OBVIOUS
  <2>1. 1 .. k \subseteq 1 .. m /\ m \in 1 .. m /\ m \notin 1 .. k
    OBVIOUS
  <2>2. <<1 .. k, 1 .. m>> \in StrictSubsetOrdering(Nat)
    BY <2>1 DEF StrictSubsetOrdering
  <2>. QED BY <1>3, <1>4, <2>2
<1>. QED BY <1>5

LEMMA Induction ==
  ASSUME NEW n \in Nat, NEW S, 0 \in S, \A i \in 0 .. n - 1 : i \in S => i + 1 \in S
  PROVE  0 .. n \subseteq S
<1>. SUFFICES ASSUME NEW x \in 0 .. n, x \notin S PROVE FALSE
  OBVIOUS
<1>. DEFINE T == (0 .. n) \ S
<1>1. PICK m \in T : \A k \in T : m <= k
  <2>1. T \subseteq Nat /\ T # {}
    OBVIOUS
  <2>. HIDE DEF T
  <2>. QED BY <2>1, LeastNumber
<1>2. m - 1 \in 0 .. n - 1 /\ m - 1 \in S
  BY <1>1
<1>. QED BY <1>1, <1>2

-----------------------------------------------------------------------------
(* Lists. *)

LEMMA ListFacts ==
  ASSUME NEW s, IsList(s)
  PROVE  /\ Len(s) \in Nat
         /\ DOMAIN s = 1 .. Len(s)
         /\ s = [i \in 1 .. Len(s) |-> s[i]]
<1>1. s \in Seq(ToSet(s)) BY DEF IsList
<1>. QED BY <1>1, LenProperties

LEMMA MappedList ==
  ASSUME NEW n \in Nat, NEW f, f = [i \in 1 .. n |-> f[i]]
  PROVE  IsList(f) /\ Len(f) = n /\ DOMAIN f = 1 .. n
<1>1. DOMAIN f = 1 .. n OBVIOUS
<1>2. f \in [1 .. n -> ToSet(f)] BY <1>1 DEF ToSet
<1>3. f \in Seq(ToSet(f)) BY <1>2, SeqDef
<1>4. Len(f) = n BY <1>1, <1>3, LenProperties
<1>. QED BY <1>1, <1>3, <1>4 DEF IsList

LEMMA ConcatList ==
  ASSUME NEW s, NEW t, IsList(s), IsList(t)
  PROVE  /\ IsList(s \o t)
         /\ Len(s \o t) = Len(s) + Len(t)
         /\ \A i \in DOMAIN (s \o t) : (s \o t)[i] \in ToSet(s) \/ (s \o t)[i] \in ToSet(t)
         /\ ToSet(s) \subseteq ToSet(s \o t)
         /\ ToSet(t) \subseteq ToSet(s \o t)
<1>. DEFINE S == ToSet(s) \union ToSet(t)
            u == s \o t
<1>1. s \in Seq(S) /\ t \in Seq(S)
  BY SeqMonotonic DEF IsList
<1>2. Len(s) \in Nat /\ Len(t) \in Nat /\ DOMAIN s = 1 .. Len(s) /\ DOMAIN t = 1 .. Len(t)
  BY ListFacts
<1>3. /\ u \in Seq(S)
      /\ Len(u) = Len(s) + Len(t)
      /\ \A i \in 1 .. Len(s) + Len(t) : u[i] = IF i <= Len(s) THEN s[i] ELSE t[i - Len(s)]
  BY <1>1, ConcatProperties
<1>4. DOMAIN u = 1 .. Len(u) /\ u = [i \in 1 .. Len(u) |-> u[i]]
  BY <1>3, LenProperties
<1>. HIDE DEF u
<1>5. IsList(u)
  BY <1>2, <1>3, <1>4, MappedList
<1>6. ASSUME NEW i \in DOMAIN u PROVE u[i] \in ToSet(s) \/ u[i] \in ToSet(t)
  <2>1. CASE i <= Len(s) BY <1>2, <1>3, <1>4, <2>1 DEF ToSet
  <2>2. CASE ~(i <= Len(s))
    <3>1. i - Len(s) \in DOMAIN t BY <1>2, <1>3, <1>4, <2>2
    <3>. QED BY <1>2, <1>3, <1>4, <2>2, <3>1 DEF ToSet
  <2>. QED BY <2>1, <2>2
<1>7. ToSet(s) \subseteq ToSet(u)
  <2>. SUFFICES ASSUME NEW i \in DOMAIN s PROVE s[i] \in ToSet(u)
    BY DEF ToSet
  <2>1. i \in DOMAIN u /\ u[i] = s[i] BY <1>2, <1>3, <1>4
  <2>. QED BY <2>1 DEF ToSet
<1>8. ToSet(t) \subseteq ToSet(u)
  <2>. SUFFICES ASSUME NEW i \in DOMAIN t PROVE t[i] \in ToSet(u)
    BY DEF ToSet
  <2>1. i + Len(s) \in DOMAIN u /\ u[i + Len(s)] = t[i] BY <1>2, <1>3, <1>4
  <2>. QED BY <2>1 DEF ToSet
<1>. QED BY <1>3, <1>5, <1>6, <1>7, <1>8 DEF u

LEMMA AppendedList ==
  ASSUME NEW s, NEW e, IsList(s)
  PROVE  /\ IsList(Append(s, e))
         /\ Len(Append(s, e)) = Len(s) + 1
         /\ DOMAIN Append(s, e) = 1 .. Len(s) + 1
         /\ \A i \in DOMAIN s : Append(s, e)[i] = s[i]
         /\ Append(s, e)[Len(s) + 1] = e
<1>. DEFINE S == ToSet(s) \union {e}
            u == Append(s, e)
<1>1. s \in Seq(S) /\ e \in S
  BY SeqMonotonic DEF IsList
<1>2. Len(s) \in Nat /\ DOMAIN s = 1 .. Len(s)
  BY ListFacts
<1>3. /\ u \in Seq(S)
      /\ Len(u) = Len(s) + 1
      /\ \A i \in 1 .. Len(s) : u[i] = s[i]
      /\ u[Len(s) + 1] = e
  BY <1>1, AppendProperties
<1>4. DOMAIN u = 1 .. Len(u) /\ u = [i \in 1 .. Len(u) |-> u[i]]
  BY <1>3, LenProperties
<1>. HIDE DEF u
<1>5. IsList(u)
  BY <1>2, <1>3, <1>4, MappedList
<1>. QED BY <1>2, <1>3, <1>4, <1>5 DEF u

(* In a strict order of a finite set the number of members before a member  *)
(* tells them apart, so every number below the size of the set is the number*)
(* of one of them.                                                          *)
LEMMA ListedFacts ==
  ASSUME NEW S, IsFiniteSet(S), NEW order,
         \A x \in S : <<x, x>> \notin order,
         \A x, y, z \in S : <<x, y>> \in order /\ <<y, z>> \in order => <<x, z>> \in order,
         \A x, y \in S : x # y => <<x, y>> \in order \/ <<y, x>> \in order
  PROVE  /\ Cardinality(S) \in Nat
         /\ \A k \in 1 .. Cardinality(S) : Listed(S, order)[k] \in S
         /\ \A x \in S : \E k \in 1 .. Cardinality(S) : Listed(S, order)[k] = x
<1>. DEFINE n        == Cardinality(S)
            Below(x) == Before(S, order, x)
            place    == [x \in S |-> Cardinality(Below(x)) + 1]
<1>1. n \in Nat
  BY FS_CardinalityType
<1>2. ASSUME NEW x \in S
      PROVE  IsFiniteSet(Below(x)) /\ Cardinality(Below(x)) \in 0 .. n - 1
  <2>1. Below(x) \in SUBSET S /\ Below(x) # S
    BY DEF Before
  <2>2. /\ IsFiniteSet(Below(x))
        /\ Cardinality(Below(x)) <= n
        /\ n = Cardinality(Below(x)) => S = Below(x)
    BY <2>1, FS_Subset
  <2>3. Cardinality(Below(x)) \in Nat
    BY <2>2, FS_CardinalityType
  <2>. QED BY <1>1, <2>1, <2>2, <2>3
<1>3. ASSUME NEW x \in S, NEW y \in S, <<x, y>> \in order
      PROVE  Cardinality(Below(x)) < Cardinality(Below(y))
  <2>1. Below(x) \in SUBSET Below(y) /\ Below(x) # Below(y)
    BY <1>3 DEF Before
  <2>2. /\ Cardinality(Below(x)) <= Cardinality(Below(y))
        /\ Cardinality(Below(y)) = Cardinality(Below(x)) => Below(y) = Below(x)
    BY <1>2, <2>1, FS_Subset
  <2>3. Cardinality(Below(x)) \in Nat /\ Cardinality(Below(y)) \in Nat
    BY <1>1, <1>2
  <2>. QED BY <2>1, <2>2, <2>3
<1>4. \A x, y \in S : Cardinality(Below(x)) = Cardinality(Below(y)) => x = y
  <2>. SUFFICES ASSUME NEW x \in S, NEW y \in S, x # y
                PROVE  Cardinality(Below(x)) # Cardinality(Below(y))
    OBVIOUS
  <2>1. Cardinality(Below(x)) \in Int /\ Cardinality(Below(y)) \in Int
    BY <1>1, <1>2
  <2>2. <<x, y>> \in order \/ <<y, x>> \in order
    OBVIOUS
  <2>3. CASE <<x, y>> \in order BY <1>3, <2>1, <2>3
  <2>4. CASE <<y, x>> \in order BY <1>3, <2>1, <2>4
  <2>. QED BY <2>2, <2>3, <2>4
<1>5. place \in Injection(S, 1 .. n)
  <2>1. \A x \in S : Cardinality(Below(x)) + 1 \in 1 .. n
    BY <1>1, <1>2
  <2>2. \A x, y \in S : place[x] = place[y] => x = y
    BY <1>1, <1>2, <1>4
  <2>. QED BY <2>1, <2>2 DEF Injection, IsInjective
<1>6. place \in Surjection(S, 1 .. n)
  <2>1. IsFiniteSet(1 .. n) /\ Cardinality(1 .. n) = n
    BY <1>1, FS_Interval
  <2>. QED BY <1>5, <2>1, FS_Injection
<1>7. ASSUME NEW k \in 1 .. n
      PROVE  /\ Listed(S, order)[k] \in S
             /\ Cardinality(Below(Listed(S, order)[k])) = k - 1
  <2>1. PICK x \in S : place[x] = k
    BY <1>6 DEF Surjection
  <2>2. Cardinality(Below(x)) = k - 1
    BY <1>1, <1>2, <2>1
  <2>. QED BY <2>2 DEF Listed
<1>8. ASSUME NEW x \in S PROVE \E k \in 1 .. n : Listed(S, order)[k] = x
  <2>1. Cardinality(Below(x)) + 1 \in 1 .. n
    BY <1>1, <1>2
  <2>2. PICK k \in 1 .. n : k = Cardinality(Below(x)) + 1
    BY <2>1
  <2>3. Cardinality(Below(x)) = k - 1
    BY <1>1, <1>2, <2>2
  <2>. QED BY <1>4, <1>7, <2>3
<1>. QED BY <1>1, <1>7, <1>8

(* Sorting by ranks permutes a list. *)
LEMMA SortedFacts ==
  ASSUME NEW s, IsList(s), NEW rank, \A i \in DOMAIN s : rank[i] \in Nat
  PROVE  /\ IsList(Sorted(s, rank))
         /\ Len(Sorted(s, rank)) = Len(s)
         /\ DOMAIN Sorted(s, rank) = DOMAIN s
         /\ \A k \in DOMAIN s : \E i \in DOMAIN s : Sorted(s, rank)[k] = s[i]
         /\ \A i \in DOMAIN s : \E k \in DOMAIN s : Sorted(s, rank)[k] = s[i]
<1>. DEFINE D     == DOMAIN s
            order == {p \in D \X D : \/ rank[p[1]] < rank[p[2]]
                                     \/ (rank[p[1]] = rank[p[2]] /\ p[1] < p[2])}
<1>1. Len(s) \in Nat /\ D = 1 .. Len(s)
  BY ListFacts
<1>2. IsFiniteSet(D) /\ Cardinality(D) = Len(s)
  <2>1. \A n \in Nat : IsFiniteSet(1 .. n) /\ Cardinality(1 .. n) = n
    <3>. TAKE n \in Nat
    <3>1. IsFiniteSet(1 .. n) /\ Cardinality(1 .. n) = IF 1 > n THEN 0 ELSE n - 1 + 1
      BY FS_Interval
    <3>. QED BY <3>1
  <2>. QED BY <1>1, <2>1
<1>3. /\ \A k \in 1 .. Len(s) : Listed(D, order)[k] \in D
      /\ \A x \in D : \E k \in 1 .. Len(s) : Listed(D, order)[k] = x
  <2>1. \A x \in D : <<x, x>> \notin order
    BY <1>1
  <2>2. \A x, y, z \in D : <<x, y>> \in order /\ <<y, z>> \in order => <<x, z>> \in order
    BY <1>1
  <2>3. \A x, y \in D : x # y => <<x, y>> \in order \/ <<y, x>> \in order
    BY <1>1
  <2>. HIDE DEF D, order
  <2>. QED BY <1>2, <2>1, <2>2, <2>3, ListedFacts
<1>4. Sorted(s, rank) = [k \in D |-> s[Listed(D, order)[k]]]
  BY DEF Sorted
<1>. HIDE DEF order
<1>5. IsList(Sorted(s, rank)) /\ Len(Sorted(s, rank)) = Len(s) /\ DOMAIN Sorted(s, rank) = D
  BY <1>1, <1>4, MappedList
<1>. QED BY <1>1, <1>3, <1>4, <1>5

LEMMA RankIsNat == \A n : Rank(n) \in Nat
<1>. SUFFICES ASSUME NEW n \in ToSet(Alphabet) PROVE Ranks[n] \in Nat
  BY DEF Rank, Ranks
<1>1. Len(Alphabet) \in Nat /\ DOMAIN Alphabet = 1 .. Len(Alphabet)
  BY AlphabetAssumption, LenProperties
<1>2. \E i \in DOMAIN Alphabet : Alphabet[i] = n
  BY DEF ToSet
<1>. QED BY <1>1, <1>2 DEF Ranks

LEMMA SortByNameFacts ==
  ASSUME NEW s, IsList(s)
  PROVE  /\ IsList(SortByName(s))
         /\ Len(SortByName(s)) = Len(s)
         /\ DOMAIN SortByName(s) = DOMAIN s
         /\ \A k \in DOMAIN s : \E i \in DOMAIN s : SortByName(s)[k] = s[i]
         /\ \A i \in DOMAIN s : \E k \in DOMAIN s : SortByName(s)[k] = s[i]
<1>. DEFINE rank == [i \in DOMAIN s |-> Rank(s[i].name)]
<1>1. \A i \in DOMAIN s : rank[i] \in Nat BY RankIsNat
<1>2. SortByName(s) = Sorted(s, rank) BY DEF SortByName
<1>. HIDE DEF rank
<1>. QED BY <1>1, <1>2, SortedFacts

LEMMA SortNamesFacts ==
  ASSUME NEW s, IsList(s)
  PROVE  IsList(SortNames(s))
<1>. DEFINE rank == [i \in DOMAIN s |-> Rank(s[i])]
<1>1. \A i \in DOMAIN s : rank[i] \in Nat BY RankIsNat
<1>2. SortNames(s) = Sorted(s, rank) BY DEF SortNames
<1>. HIDE DEF rank
<1>. QED BY <1>1, <1>2, SortedFacts

LEMMA KeptFacts ==
  ASSUME NEW s, IsList(s), NEW I, I \subseteq DOMAIN s
  PROVE  /\ IsList(Kept(s, I))
         /\ \A k \in DOMAIN Kept(s, I) : \E i \in I : Kept(s, I)[k] = s[i]
         /\ \A i \in I : \E k \in DOMAIN Kept(s, I) : Kept(s, I)[k] = s[i]
<1>. DEFINE order == {p \in I \X I : p[1] < p[2]}
            kept  == Listed(I, order)
<1>1. Len(s) \in Nat /\ DOMAIN s = 1 .. Len(s)
  BY ListFacts
<1>2. IsFiniteSet(I)
  <2>1. \A n \in Nat : IsFiniteSet(1 .. n)
    BY FS_Interval
  <2>2. IsFiniteSet(DOMAIN s) /\ I \in SUBSET DOMAIN s
    BY <1>1, <2>1
  <2>. QED BY <2>2, FS_Subset
<1>3. /\ Cardinality(I) \in Nat
      /\ \A k \in 1 .. Cardinality(I) : kept[k] \in I
      /\ \A i \in I : \E k \in 1 .. Cardinality(I) : kept[k] = i
  <2>1. \A x \in I : <<x, x>> \notin order
    BY <1>1
  <2>2. \A x, y, z \in I : <<x, y>> \in order /\ <<y, z>> \in order => <<x, z>> \in order
    BY <1>1
  <2>3. \A x, y \in I : x # y => <<x, y>> \in order \/ <<y, x>> \in order
    BY <1>1
  <2>. HIDE DEF order
  <2>. QED BY <1>2, <2>1, <2>2, <2>3, ListedFacts
<1>4. DOMAIN kept = 1 .. Cardinality(I)
  BY DEF Listed
<1>5. Kept(s, I) = [k \in DOMAIN kept |-> s[kept[k]]]
  BY DEF Kept
<1>. HIDE DEF kept
<1>6. IsList(Kept(s, I)) /\ DOMAIN Kept(s, I) = 1 .. Cardinality(I)
  BY <1>3, <1>4, <1>5, MappedList
<1>. QED BY <1>3, <1>4, <1>5, <1>6

(* Names are those of the members, wherever they stand. *)
LEMMA SortedNames ==
  ASSUME NEW s, IsList(s)
  PROVE  Names(SortByName(s)) = Names(s)
<1>. DEFINE S == SortByName(s)
<1>0. /\ DOMAIN S = DOMAIN s
      /\ \A k \in DOMAIN s : \E i \in DOMAIN s : S[k] = s[i]
      /\ \A i \in DOMAIN s : \E k \in DOMAIN s : S[k] = s[i]
  BY SortByNameFacts
<1>. HIDE DEF S
<1>1. ASSUME NEW n \in Names(S) PROVE n \in Names(s)
  <2>1. PICK k \in DOMAIN S : n = S[k].name
    BY DEF Names, ToSet
  <2>2. PICK i \in DOMAIN s : S[k] = s[i]
    BY <1>0, <2>1
  <2>. QED BY <2>1, <2>2 DEF Names, ToSet
<1>2. ASSUME NEW n \in Names(s) PROVE n \in Names(S)
  <2>1. PICK i \in DOMAIN s : n = s[i].name
    BY DEF Names, ToSet
  <2>2. PICK k \in DOMAIN S : S[k] = s[i]
    BY <1>0, <2>1
  <2>. QED BY <2>1, <2>2 DEF Names, ToSet
<1>. QED BY <1>1, <1>2 DEF S
=============================================================================
