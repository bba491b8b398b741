--------------------------- MODULE SpecGraphProofs ----------------------------
(***************************************************************************)
(* The graph of SpecGraph for every corpus: the keys its lists are sorted by  *)
(* are total orders that tell their members apart, a corpus is accepted as a   *)
(* whole exactly if the reader does not refuse it, every edge joins two        *)
(* nodes, and an error that was found is among the diagnostics, whatever the   *)
(* limit cuts off.                                                           *)
(*                                                                         *)
(* The functions that are recursive over a list of documents are shown to      *)
(* exist (Recursion), and what they return is proved from their values at      *)
(* each index.                                                               *)
(***************************************************************************)
EXTENDS SpecGraph, FiniteSetTheorems, WellFoundedInduction, TLAPS

\* Induction on 0 .. N, over a set of the numbers that are done.
LEMMA Upto ==
    ASSUME NEW N \in Nat, NEW P, 0 \in P, \A n \in 1 .. N : n - 1 \in P => n \in P
    PROVE  0 .. N \subseteq P
  <1> DEFINE T == {n \in 0 .. N : n \notin P}
  <1> SUFFICES ASSUME T # {} PROVE FALSE
    OBVIOUS
  <1>1. PICK x \in T : \A y \in T : ~ (<<y, x>> \in OpToRel(<, Nat))
    <2>1. T \subseteq Nat
      OBVIOUS
    <2>2. T # {}
      OBVIOUS
    <2> HIDE DEF T
    <2> QED BY <2>1, <2>2, WFMin, NatLessThanWellFounded, Zenon
  <1>2. \A y \in T : ~ (y < x)
    <2>1. T \subseteq Nat
      OBVIOUS
    <2> HIDE DEF T
    <2> QED BY <1>1, <2>1 DEF OpToRel
  <1>3. x # 0 /\ x - 1 \in 0 .. N /\ x - 1 < x /\ x \in 1 .. N
    BY <1>2
  <1>4. x - 1 \in P
    BY <1>2, <1>3
  <1> QED BY <1>2, <1>3, <1>4

\* A recursion over 0 .. N whose step is a function.
LEMMA Recursion ==
    ASSUME NEW S, NEW start \in S, NEW N \in Nat, NEW step \in [1 .. N -> [S -> S]]
    PROVE  \E g \in [0 .. N -> S] : g[0] = start /\ \A n \in 1 .. N : g[n] = step[n][g[n - 1]]
  <1> DEFINE Some(m) == \E g \in [0 .. m -> S] : g[0] = start /\ \A n \in 1 .. m : g[n] = step[n][g[n - 1]]
             P == {m \in 0 .. N : Some(m)}
  <1>1. 0 \in P
    <2> DEFINE h == [i \in 0 .. 0 |-> start]
    <2>1. h \in [0 .. 0 -> S] /\ h[0] = start /\ \A n \in 1 .. 0 : h[n] = step[n][h[n - 1]]
      OBVIOUS
    <2>2. Some(0)
      <3> HIDE DEF h
      <3> QED BY <2>1
    <2> QED BY <2>2
  <1>2. ASSUME NEW m \in 1 .. N, m - 1 \in P PROVE m \in P
    <2>1. PICK g \in [0 .. m - 1 -> S] : g[0] = start /\ \A n \in 1 .. m - 1 : g[n] = step[n][g[n - 1]]
      BY <1>2
    <2> DEFINE h == [i \in 0 .. m |-> IF i = m THEN step[m][g[m - 1]] ELSE g[i]]
    <2>2. g[m - 1] \in S
      BY <2>1
    <2>3. h \in [0 .. m -> S] /\ h[0] = start
      BY <2>1, <2>2
    <2>4. ASSUME NEW n \in 1 .. m PROVE h[n] = step[n][h[n - 1]]
      <3>1. h[n - 1] = g[n - 1]
        OBVIOUS
      <3>2. n # m => n \in 1 .. m - 1 /\ h[n] = g[n]
        OBVIOUS
      <3>3. n = m => h[n] = step[m][g[m - 1]]
        OBVIOUS
      <3> QED BY <2>1, <3>1, <3>2, <3>3
    <2>5. Some(m)
      <3> HIDE DEF h
      <3> QED BY <2>3, <2>4
    <2> QED BY <2>5
  <1>3. N \in P
    <2> HIDE DEF P
    <2>1. 0 .. N \subseteq P
      BY <1>1, <1>2, Upto
    <2> QED BY <2>1
  <1>4. Some(N)
    <2> HIDE DEF Some
    <2> QED BY <1>3
  <1> QED BY <1>4

-----------------------------------------------------------------------------
\* A set of numbers has a least member.
LEMMA Least == ASSUME NEW T \in SUBSET Nat, T # {} PROVE \E x \in T : \A y \in T : x <= y
  <1>1. PICK x \in T : \A y \in T : ~ (<<y, x>> \in OpToRel(<, Nat))
    BY WFMin, NatLessThanWellFounded, Zenon
  <1>2. \A y \in T : ~ (y < x)
    BY <1>1 DEF OpToRel
  <1> QED BY <1>2

Keys(n) == [1 .. n -> Int]

\* The order of keys of one length is total,
LEMMA PrecedesTotal ==
    ASSUME NEW n \in Nat, NEW k \in Keys(n), NEW l \in Keys(n), k # l
    PROVE  Precedes(k, l) \/ Precedes(l, k)
  <1> DEFINE T == {i \in 1 .. n : k[i] # l[i]}
  <1>1. T \in SUBSET Nat /\ T # {}
    BY DEF Keys
  <1>2. PICK i \in T : \A j \in T : i <= j
    <2> HIDE DEF T
    <2> QED BY <1>1, Least
  <1>3. \A j \in 1 .. i - 1 : k[j] = l[j]
    BY <1>2
  <1>4. k[i] < l[i] \/ l[i] < k[i]
    BY DEF Keys
  <1> QED BY <1>3, <1>4 DEF Precedes, Keys

\* strict
LEMMA PrecedesStrict ==
    ASSUME NEW n \in Nat, NEW k \in Keys(n), NEW l \in Keys(n), Precedes(k, l)
    PROVE  k # l /\ ~Precedes(l, k)
  <1>1. PICK i \in 1 .. n : k[i] < l[i] /\ \A j \in 1 .. i - 1 : k[j] = l[j]
    BY DEF Precedes, Keys
  <1>2. k # l
    BY <1>1 DEF Keys
  <1>3. ASSUME NEW h \in 1 .. n, l[h] < k[h], \A j \in 1 .. h - 1 : l[j] = k[j] PROVE FALSE
    <2>1. k[i] \in Int /\ l[i] \in Int /\ k[h] \in Int /\ l[h] \in Int
      BY DEF Keys
    <2>2. h = i \/ h \in 1 .. i - 1 \/ i \in 1 .. h - 1
      OBVIOUS
    <2> QED BY <1>1, <1>3, <2>1, <2>2
  <1> QED BY <1>2, <1>3 DEF Precedes, Keys

\* and transitive.
LEMMA PrecedesTransitive ==
    ASSUME NEW n \in Nat, NEW k \in Keys(n), NEW l \in Keys(n), NEW m \in Keys(n),
           Precedes(k, l), Precedes(l, m)
    PROVE  Precedes(k, m)
  <1>1. PICK i \in 1 .. n : k[i] < l[i] /\ \A j \in 1 .. i - 1 : k[j] = l[j]
    BY DEF Precedes, Keys
  <1>2. PICK h \in 1 .. n : l[h] < m[h] /\ \A j \in 1 .. h - 1 : l[j] = m[j]
    BY DEF Precedes, Keys
  <1>3. \A j \in 1 .. n : k[j] \in Int /\ l[j] \in Int /\ m[j] \in Int
    BY DEF Keys
  <1>4. CASE i <= h
    <2>1. k[i] < m[i] /\ \A j \in 1 .. i - 1 : k[j] = m[j]
      BY <1>1, <1>2, <1>3, <1>4
    <2> QED BY <2>1 DEF Precedes, Keys
  <1>5. CASE h < i
    <2>1. k[h] < m[h] /\ \A j \in 1 .. h - 1 : k[j] = m[j]
      BY <1>1, <1>2, <1>3, <1>5
    <2> QED BY <2>1 DEF Precedes, Keys
  <1> QED BY <1>4, <1>5

\* A finite set whose keys differ is sorted into a list of its members, each once, in
\* the order of the keys.
LEMMA SortedBy ==
    ASSUME NEW S, IsFiniteSet(S), NEW n \in Nat, NEW key \in [S -> Keys(n)], IsInjective(key)
    PROVE  /\ Sorted(S, key) \in Seq(S) /\ Len(Sorted(S, key)) = Cardinality(S)
           /\ Range(Sorted(S, key)) = S
           /\ \A i, j \in DOMAIN Sorted(S, key) :
                  i < j => Precedes(key[Sorted(S, key)[i]], key[Sorted(S, key)[j]])
  <1> DEFINE below(x) == {y \in S : Precedes(key[y], key[x])}
             place == [x \in S |-> 1 + Cardinality(below(x))]
             C == Cardinality(S)
             placed == {[at |-> 1 + Cardinality({y \in S : Precedes(key[y], key[x])}), member |-> x] : x \in S}
             s == [i \in 1 .. C |-> (CHOOSE p \in placed : p.at = i).member]
  <1>0. C \in Nat /\ Sorted(S, key) = s
    BY FS_CardinalityType DEF Sorted
  <1>b. ASSUME NEW x \in S PROVE [at |-> place[x], member |-> x] \in placed
    OBVIOUS
  <1>c. ASSUME NEW p \in placed PROVE p.member \in S /\ p.at = place[p.member]
    <2>1. PICK x \in S : p = [at |-> place[x], member |-> x]
      OBVIOUS
    <2> QED
      <3> HIDE DEF place, placed
      <3> QED BY <2>1
  <1>a. \A x \in S : key[x] \in Keys(n)
    OBVIOUS
  <1>1. ASSUME NEW x \in S PROVE place[x] \in 1 .. C
    <2>1. below(x) \subseteq S \ {x}
      BY <1>a, PrecedesStrict
    <2>2. IsFiniteSet(S \ {x}) /\ Cardinality(S \ {x}) = C - 1
      BY FS_RemoveElement
    <2>3. IsFiniteSet(below(x)) /\ Cardinality(below(x)) <= C - 1 /\ Cardinality(below(x)) \in Nat
      <3> HIDE DEF below
      <3> QED BY <2>1, <2>2, FS_Subset, FS_CardinalityType
    <2> QED BY <2>3, <1>0
  <1>2. ASSUME NEW x \in S, NEW y \in S, Precedes(key[x], key[y]) PROVE place[x] < place[y]
    <2>1. below(x) \cup {x} \subseteq below(y)
      BY <1>2, <1>a, PrecedesTransitive
    <2>2. x \notin below(x)
      BY <1>a, PrecedesStrict
    <2>3. IsFiniteSet(below(x)) /\ IsFiniteSet(below(y))
      <3>1. below(x) \subseteq S /\ below(y) \subseteq S
        OBVIOUS
      <3> HIDE DEF below
      <3> QED BY <3>1, FS_Subset
    <2>4. Cardinality(below(x)) + 1 <= Cardinality(below(y))
      <3> HIDE DEF below
      <3>1. IsFiniteSet(below(x) \cup {x}) /\ Cardinality(below(x) \cup {x}) = Cardinality(below(x)) + 1
        BY <2>2, <2>3, FS_AddElement
      <3> QED BY <2>1, <2>3, <3>1, FS_Subset
    <2>5. Cardinality(below(x)) \in Nat /\ Cardinality(below(y)) \in Nat
      <3> HIDE DEF below
      <3> QED BY <2>3, FS_CardinalityType
    <2> QED BY <2>4, <2>5
  <1>3. ASSUME NEW x \in S, NEW y \in S, place[x] = place[y] PROVE x = y
    <2> SUFFICES ASSUME x # y PROVE FALSE
      OBVIOUS
    <2>1. key[x] # key[y]
      BY DEF IsInjective
    <2>2. Precedes(key[x], key[y]) \/ Precedes(key[y], key[x])
      BY <1>a, <2>1, PrecedesTotal
    <2>3. place[x] \in 1 .. C /\ place[y] \in 1 .. C /\ place[x] = place[y]
      BY <1>1, <1>3
    <2> HIDE DEF place
    <2> QED BY <1>0, <1>2, <2>2, <2>3
  <1>4. \A i \in 1 .. C : \E x \in S : place[x] = i
    <2>1. place \in [S -> 1 .. C] /\ DOMAIN place = S
      BY <1>1
    <2>2. place \in Injection(S, 1 .. C)
      <3> HIDE DEF place
      <3> QED BY <1>3, <2>1 DEF Injection, IsInjective
    <2>3. IsFiniteSet(1 .. C) /\ Cardinality(1 .. C) = C
      BY <1>0, FS_Interval
    <2>4. place \in Surjection(S, 1 .. C)
      <3> HIDE DEF place
      <3> QED BY <2>2, <2>3, FS_Injection
    <2> HIDE DEF place
    <2> QED BY <2>4 DEF Surjection
  <1>5. ASSUME NEW i \in 1 .. C PROVE s[i] \in S /\ place[s[i]] = i
    <2>1. PICK x \in S : place[x] = i
      BY <1>4
    <2> HIDE DEF place, placed
    <2>2. \E p \in placed : p.at = i
      BY <1>b, <2>1
    <2>3. PICK p \in placed : p.at = i /\ s[i] = p.member
      BY <2>2
    <2> QED BY <1>c, <2>3
  <1>6. s \in Seq(S) /\ Len(s) = C /\ DOMAIN s = 1 .. C
    <2>1. s \in [1 .. C -> S]
      <3> HIDE DEF place, placed
      <3> QED BY <1>5
    <2> HIDE DEF s
    <2> QED BY <1>0, <2>1
  <1>7. \A x \in S : s[place[x]] = x /\ place[x] \in 1 .. C
    <2> HIDE DEF place, placed, s
    <2> QED BY <1>1, <1>3, <1>5
  <1>8. Range(s) = S
    <2> HIDE DEF place, placed, s
    <2> QED BY <1>5, <1>6, <1>7 DEF Range
  <1>9. ASSUME NEW i \in 1 .. C, NEW j \in 1 .. C, i < j PROVE Precedes(key[s[i]], key[s[j]])
    <2>1. s[i] \in S /\ s[j] \in S /\ place[s[i]] = i /\ place[s[j]] = j
      BY <1>5
    <2>2. key[s[i]] # key[s[j]]
      <3> HIDE DEF place, placed, s
      <3> QED BY <2>1, <1>9 DEF IsInjective
    <2>3. ~Precedes(key[s[j]], key[s[i]])
      <3> HIDE DEF place, placed, s
      <3> QED BY <1>2, <2>1, <1>9, <1>0
    <2> HIDE DEF place, placed, s
    <2> QED BY <1>a, <2>1, <2>2, <2>3, PrecedesTotal
  <1> HIDE DEF place, placed, s
  <1> QED BY <1>0, <1>6, <1>8, <1>9

-----------------------------------------------------------------------------
\* What is left of a list is in the list and in the set.
LEMMA WithinTypes == ASSUME NEW L, NEW list \in Seq(L), NEW S PROVE Within(list, S) \in Seq(L \cap S)
  <1>a. PICK D : D = Seq(L \cap S)
    OBVIOUS
  <1>b. <<>> \in D /\ \A x \in D : \A e \in L \cap S : Append(x, e) \in D
    BY <1>a
  <1>1. PICK N \in Nat : N = Len(list)
    OBVIOUS
  <1>2. \A n \in 1 .. N : list[n] \in L
    BY <1>1
  <1> DEFINE Good(F) == F = [n \in 0 .. N |->
                 IF n = 0 THEN <<>> ELSE IF list[n] \in S THEN Append(F[n - 1], list[n]) ELSE F[n - 1]]
             C == CHOOSE F : Good(F)
  <1>3. Within(list, S) = C[N]
    BY <1>1 DEF Within
  <1>4. PICK step \in [1 .. N -> [D -> D]] :
            \A n \in 1 .. N : \A x \in D : step[n][x] = IF list[n] \in S THEN Append(x, list[n]) ELSE x
    <2>1. [n \in 1 .. N |-> [x \in D |-> IF list[n] \in S THEN Append(x, list[n]) ELSE x]] \in [1 .. N -> [D -> D]]
      BY <1>2, <1>b
    <2> QED BY <2>1
  <1>5. PICK g \in [0 .. N -> D] : g[0] = <<>> /\ \A n \in 1 .. N : g[n] = step[n][g[n - 1]]
    <2>1. PICK e \in D : e = <<>>
      BY <1>b
    <2>2. \E g \in [0 .. N -> D] : g[0] = e /\ \A n \in 1 .. N : g[n] = step[n][g[n - 1]]
      BY Recursion
    <2> QED BY <2>1, <2>2
  <1>6. Good(g)
    <2>1. ASSUME NEW n \in 1 .. N PROVE g[n] = IF list[n] \in S THEN Append(g[n - 1], list[n]) ELSE g[n - 1]
      <3>1. g[n - 1] \in D
        OBVIOUS
      <3> QED BY <1>4, <1>5, <3>1
    <2>2. \A n \in 0 .. N : g[n] = IF n = 0 THEN <<>> ELSE IF list[n] \in S THEN Append(g[n - 1], list[n]) ELSE g[n - 1]
      <3> TAKE n \in 0 .. N
      <3>1. n = 0 \/ n \in 1 .. N
        OBVIOUS
      <3> QED BY <1>5, <2>1, <3>1
    <2> QED BY <2>2, Zenon
  <1>7. PICK F : F = C
    OBVIOUS
  <1>8. Good(F)
    <2> HIDE DEF Good
    <2> QED BY <1>6, <1>7
  <1>9. \A n \in 0 .. N : F[n] \in D
    <2> DEFINE P == {n \in 0 .. N : F[n] \in D}
    <2>1. 0 \in P
      BY <1>8, <1>b
    <2>2. ASSUME NEW n \in 1 .. N, n - 1 \in P PROVE n \in P
      <3>1. n \in 0 .. N /\ n # 0
        OBVIOUS
      <3>2. F[n] = IF list[n] \in S THEN Append(F[n - 1], list[n]) ELSE F[n - 1]
        BY <1>8, <3>1, Zenon
      <3> HIDE DEF Good
      <3> QED BY <1>2, <1>b, <2>2, <3>2
    <2>3. 0 .. N \subseteq P
      <3> HIDE DEF P
      <3> QED BY <2>1, <2>2, Upto
    <2> QED BY <2>3
  <1>10. N \in 0 .. N
    OBVIOUS
  <1> HIDE DEF C
  <1> QED BY <1>a, <1>3, <1>7, <1>9, <1>10, Zenon

-----------------------------------------------------------------------------
Sized(files) == \A d \in Docs : files[d].bytes \in Nat
Paths == Len(PathOrder)
Admissions ==
    [bytes : Nat, over : BOOLEAN, accepted : SUBSET Docs, large : SUBSET Docs, refused : SUBSET Docs]
NoAdmission == [bytes |-> 0, over |-> FALSE, accepted |-> {}, large |-> {}, refused |-> {}]
Admitted(files, state, d) == IF files[d] = Absent THEN state ELSE Admit(files, state, d)

\* The documents are numbered by their paths.
LEMMA PathsListed ==
    /\ Paths \in Nat /\ DOMAIN PathOrder = 1 .. Paths
    /\ \A n \in 1 .. Paths : PathOrder[n] \in Docs
    /\ \A d \in Docs : \E n \in 1 .. Paths : PathOrder[n] = d
  BY OrdersAssumption DEF Listed, Paths, Docs, Range

\* The running total of the bytes that were read.
Totals(files, t) ==
    /\ t \in [0 .. Paths -> Nat] /\ t[0] = 0
    /\ \A n \in 1 .. Paths : t[n] = t[n - 1] + files[PathOrder[n]].bytes
    /\ Readable(files) <=> (\A d \in Docs : files[d].bytes <= MaxBytes) /\ t[Paths] <= MaxAggregate

\* The total that Readable compares is the last of the running totals.
LEMMA TotalsExist == ASSUME NEW files, Sized(files) PROVE \E t : Totals(files, t)
  <1>1. PICK N \in Nat : N = Paths
    BY PathsListed
  <1>2. N \in Nat /\ \A n \in 1 .. N : files[PathOrder[n]].bytes \in Nat
    BY <1>1, PathsListed DEF Sized
  <1> DEFINE Good(F) == F = [n \in 0 .. N |-> IF n = 0 THEN 0 ELSE F[n - 1] + files[PathOrder[n]].bytes]
             C == CHOOSE F : Good(F)
  <1>3. Readable(files) <=> (\A d \in Docs : files[d].bytes <= MaxBytes) /\ C[N] <= MaxAggregate
    BY <1>1 DEF Readable, Paths
  <1>a. PICK D : D = Nat
    OBVIOUS
  <1>b. 0 \in D /\ \A n \in 1 .. N : \A x \in D : x + files[PathOrder[n]].bytes \in D
    BY <1>2, <1>a
  <1>4. PICK step \in [1 .. N -> [D -> D]] :
            \A n \in 1 .. N : \A x \in D : step[n][x] = x + files[PathOrder[n]].bytes
    <2>1. [n \in 1 .. N |-> [x \in D |-> x + files[PathOrder[n]].bytes]] \in [1 .. N -> [D -> D]]
      BY <1>b
    <2> QED BY <2>1
  <1>5. PICK g \in [0 .. N -> D] : g[0] = 0 /\ \A n \in 1 .. N : g[n] = step[n][g[n - 1]]
    <2>1. PICK e \in D : e = 0
      BY <1>b
    <2>2. \E g \in [0 .. N -> D] : g[0] = e /\ \A n \in 1 .. N : g[n] = step[n][g[n - 1]]
      BY Recursion
    <2> QED BY <2>1, <2>2
  <1>6. \A n \in 1 .. N : g[n] = g[n - 1] + files[PathOrder[n]].bytes
    <2> TAKE n \in 1 .. N
    <2>1. g[n - 1] \in D
      OBVIOUS
    <2> QED BY <1>4, <1>5, <2>1
  <1>7. Good(g)
    <2>1. \A n \in 0 .. N : g[n] = IF n = 0 THEN 0 ELSE g[n - 1] + files[PathOrder[n]].bytes
      <3> TAKE n \in 0 .. N
      <3>1. n = 0 \/ n \in 1 .. N
        BY <1>2
      <3> QED BY <1>5, <1>6, <3>1
    <2> QED BY <2>1, Zenon
  <1>8. PICK F : F = C
    OBVIOUS
  <1>9. Good(F)
    <2> HIDE DEF Good
    <2> QED BY <1>7, <1>8
  <1>10. \A n \in 1 .. N : F[n] = F[n - 1] + files[PathOrder[n]].bytes
    <2> TAKE n \in 1 .. N
    <2>1. n \in 0 .. N /\ n # 0
      BY <1>2
    <2> QED BY <1>9, <2>1, Zenon
  <1>11. F[0] = 0
    BY <1>2, <1>9
  <1>12. \A n \in 0 .. N : F[n] \in Nat
    <2> DEFINE P == {n \in 0 .. N : F[n] \in Nat}
    <2>1. 0 \in P
      BY <1>2, <1>11
    <2>2. ASSUME NEW n \in 1 .. N, n - 1 \in P PROVE n \in P
      <3>1. F[n - 1] \in Nat /\ F[n] = F[n - 1] + files[PathOrder[n]].bytes /\ files[PathOrder[n]].bytes \in Nat
        <4> HIDE DEF Good
        <4> QED BY <1>2, <1>10, <2>2
      <3>2. F[n] \in Nat
        BY <3>1
      <3> QED BY <3>2
    <2>3. 0 .. N \subseteq P
      <3> HIDE DEF P
      <3> QED BY <1>2, <2>1, <2>2, Upto
    <2> QED BY <2>3
  <1>13. F \in [0 .. N -> Nat]
    BY <1>9, <1>12, Zenon
  <1> HIDE DEF C, Good
  <1> QED BY <1>1, <1>3, <1>8, <1>10, <1>11, <1>13 DEF Totals

\* A document more, and the admission is still one.
LEMMA AdmitTypes ==
    ASSUME NEW files, Sized(files), NEW s \in Admissions, NEW d \in Docs
    PROVE  Admitted(files, s, d) \in Admissions
  <1>1. files[d].bytes \in Nat /\ s.bytes \in Nat
    BY DEF Sized, Admissions
  <1>2. CASE files[d] = Absent
    BY <1>2 DEF Admitted
  <1>3. CASE files[d] # Absent /\ files[d].bytes > MaxBytes
    <2>1. Admitted(files, s, d) = [s EXCEPT !.large = @ \cup {d}]
      BY <1>3 DEF Admitted, Admit
    <2> QED BY <2>1 DEF Admissions
  <1>4. CASE /\ files[d] # Absent /\ ~(files[d].bytes > MaxBytes)
             /\ s.over \/ s.bytes + files[d].bytes > MaxAggregate
    <2>1. Admitted(files, s, d) = [s EXCEPT !.over = TRUE, !.refused = @ \cup {d}]
      BY <1>4 DEF Admitted, Admit
    <2> QED BY <2>1 DEF Admissions
  <1>5. CASE /\ files[d] # Absent /\ ~(files[d].bytes > MaxBytes)
             /\ ~(s.over \/ s.bytes + files[d].bytes > MaxAggregate)
    <2>1. Admitted(files, s, d) = [s EXCEPT !.bytes = @ + files[d].bytes, !.accepted = @ \cup {d}]
      BY <1>5 DEF Admitted, Admit
    <2>2. s.bytes + files[d].bytes \in Nat
      BY <1>1
    <2> QED BY <2>1, <2>2 DEF Admissions
  <1> QED BY <1>2, <1>3, <1>4, <1>5

Entering(files, a) ==
    /\ a \in [0 .. Paths -> Admissions] /\ a[0] = NoAdmission
    /\ \A n \in 1 .. Paths : a[n] = Admitted(files, a[n - 1], PathOrder[n])
    /\ Entries(files) = a[Paths]

\* The entries are the last of the admissions, one document after the other.
LEMMA EnteringExists == ASSUME NEW files, Sized(files) PROVE \E a : Entering(files, a)
  <1>1. PICK N \in Nat : N = Paths
    BY PathsListed
  <1>2. N \in Nat /\ \A n \in 1 .. N : PathOrder[n] \in Docs
    BY <1>1, PathsListed
  <1> DEFINE Good(F) == F = [n \in 0 .. N |-> IF n = 0 THEN NoAdmission ELSE
                                 IF files[PathOrder[n]] = Absent THEN F[n - 1]
                                 ELSE Admit(files, F[n - 1], PathOrder[n])]
             C == CHOOSE F : Good(F)
  <1>3. Entries(files) = C[N]
    BY <1>1 DEF Entries, Paths, NoAdmission
  <1>a. PICK D : D = Admissions
    OBVIOUS
  <1>b. \A n \in 1 .. N : \A x \in D : Admitted(files, x, PathOrder[n]) \in D
    BY <1>2, <1>a, AdmitTypes
  <1>c. NoAdmission \in D
    BY <1>a DEF NoAdmission, Admissions
  <1>4. PICK step \in [1 .. N -> [D -> D]] :
            \A n \in 1 .. N : \A x \in D : step[n][x] = Admitted(files, x, PathOrder[n])
    <2>1. [n \in 1 .. N |-> [x \in D |-> Admitted(files, x, PathOrder[n])]] \in [1 .. N -> [D -> D]]
      BY <1>b
    <2> QED BY <2>1
  <1>5. PICK g \in [0 .. N -> D] : g[0] = NoAdmission /\ \A n \in 1 .. N : g[n] = step[n][g[n - 1]]
    <2>1. PICK e \in D : e = NoAdmission
      BY <1>c
    <2>2. \E g \in [0 .. N -> D] : g[0] = e /\ \A n \in 1 .. N : g[n] = step[n][g[n - 1]]
      BY Recursion
    <2> QED BY <2>1, <2>2
  <1>6. \A n \in 1 .. N : g[n] = Admitted(files, g[n - 1], PathOrder[n])
    BY <1>2, <1>4, <1>5
  <1>7. Good(g)
    <2>1. \A n \in 0 .. N : g[n] = IF n = 0 THEN NoAdmission ELSE
                                 IF files[PathOrder[n]] = Absent THEN g[n - 1]
                                 ELSE Admit(files, g[n - 1], PathOrder[n])
      <3> TAKE n \in 0 .. N
      <3>1. n = 0 \/ n \in 1 .. N
        BY <1>2
      <3> QED BY <1>5, <1>6, <3>1 DEF Admitted
    <2> QED BY <2>1, Zenon
  <1>8. PICK F : F = C
    OBVIOUS
  <1>9. Good(F)
    <2> HIDE DEF Good
    <2> QED BY <1>7, <1>8
  <1>10. \A n \in 1 .. N : F[n] = Admitted(files, F[n - 1], PathOrder[n])
    <2> TAKE n \in 1 .. N
    <2>1. n \in 0 .. N /\ n # 0
      BY <1>2
    <2> QED BY <1>9, <2>1, Zenon DEF Admitted
  <1>11. F[0] = NoAdmission
    BY <1>2, <1>9
  <1>12. \A n \in 0 .. N : F[n] \in D
    <2> DEFINE P == {n \in 0 .. N : F[n] \in D}
    <2>1. 0 \in P
      BY <1>2, <1>c, <1>11
    <2>2. ASSUME NEW n \in 1 .. N, n - 1 \in P PROVE n \in P
      BY <1>2, <1>b, <1>10, <2>2
    <2>3. 0 .. N \subseteq P
      <3> HIDE DEF P
      <3> QED BY <1>2, <2>1, <2>2, Upto
    <2> QED BY <2>3
  <1>13. F \in [0 .. N -> D]
    BY <1>9, <1>12, Zenon
  <1> HIDE DEF C, Good
  <1> QED BY <1>1, <1>3, <1>8, <1>a, <1>10, <1>11, <1>13 DEF Entering

-----------------------------------------------------------------------------
FirstPaths(n) == {PathOrder[i] : i \in 1 .. n}

\* A running total is at most the last one.
LEMMA TotalsGrow ==
    ASSUME NEW files, Sized(files), NEW t, Totals(files, t)
    PROVE  \A n \in 0 .. Paths : t[n] <= t[Paths]
  <1>1. PICK N \in Nat : N = Paths
    BY PathsListed
  <1>2. t \in [0 .. N -> Nat] /\ \A n \in 1 .. N : t[n - 1] <= t[n]
    <2>1. ASSUME NEW n \in 1 .. N PROVE t[n - 1] <= t[n]
      <3>1. files[PathOrder[n]].bytes \in Nat
        BY <1>1, PathsListed DEF Sized
      <3>2. t[n - 1] \in Nat /\ t[n] = t[n - 1] + files[PathOrder[n]].bytes
        BY <1>1 DEF Totals
      <3> QED BY <3>1, <3>2
    <2> QED BY <1>1, <2>1 DEF Totals
  <1> DEFINE P == {k \in 0 .. N : t[N - k] <= t[N]}
  <1>3. 0 .. N \subseteq P
    <2>1. 0 \in P
      BY <1>2
    <2>2. ASSUME NEW k \in 1 .. N, k - 1 \in P PROVE k \in P
      <3>1. N - k + 1 \in 1 .. N /\ N - (k - 1) = N - k + 1 /\ (N - k + 1) - 1 = N - k /\ N - k \in 0 .. N
        OBVIOUS
      <3>2. t[N - k] <= t[N - k + 1]
        BY <1>2, <3>1
      <3>3. t[N - k + 1] <= t[N]
        BY <2>2, <3>1
      <3>4. t[N - k] \in Nat /\ t[N - k + 1] \in Nat /\ t[N] \in Nat
        BY <1>2, <3>1
      <3> QED BY <3>2, <3>3, <3>4
    <2> HIDE DEF P
    <2> QED BY <2>1, <2>2, Upto
  <1>4. ASSUME NEW n \in 0 .. N PROVE t[n] <= t[N]
    <2>1. N - n \in 0 .. N /\ N - (N - n) = n
      OBVIOUS
    <2>2. N - n \in P
      <3> HIDE DEF P
      <3> QED BY <1>3, <2>1
    <2> QED BY <2>1, <2>2
  <1> QED BY <1>1, <1>4

\* A corpus that the reader does not refuse is accepted as a whole.
LEMMA ReadableEntered ==
    ASSUME NEW files, Sized(files), Readable(files)
    PROVE  /\ Entries(files).accepted = Present(files)
           /\ Entries(files).large = {} /\ Entries(files).refused = {}
  <1>1. PICK N \in Nat : N = Paths
    BY PathsListed
  <1>2. PICK t : Totals(files, t)
    BY TotalsExist
  <1>3. PICK a : Entering(files, a)
    BY EnteringExists
  <1>4. \A n \in 0 .. N : t[n] \in Nat /\ t[n] <= MaxAggregate
    <2>1. t[N] <= MaxAggregate /\ t \in [0 .. N -> Nat]
      BY <1>1, <1>2 DEF Totals
    <2>2. \A n \in 0 .. N : t[n] <= t[N]
      BY <1>1, <1>2, TotalsGrow
    <2> QED BY <2>1, <2>2, LimitsAssumption
  <1>5. \A n \in 1 .. N : /\ PathOrder[n] \in Docs
                          /\ files[PathOrder[n]].bytes \in Nat /\ files[PathOrder[n]].bytes <= MaxBytes
                          /\ t[n] = t[n - 1] + files[PathOrder[n]].bytes
                          /\ a[n] = Admitted(files, a[n - 1], PathOrder[n])
    BY <1>1, <1>2, <1>3, PathsListed DEF Totals, Entering, Sized
  <1> DEFINE Whole(n) == /\ a[n].bytes = t[n] /\ ~a[n].over
                         /\ a[n].accepted = Present(files) \cap FirstPaths(n)
                         /\ a[n].large = {} /\ a[n].refused = {}
             P == {n \in 0 .. N : Whole(n)}
  <1>6. 0 \in P
    <2>1. FirstPaths(0) = {} /\ t[0] = 0 /\ a[0] = NoAdmission
      BY <1>2, <1>3 DEF FirstPaths, Totals, Entering
    <2>2. Whole(0)
      BY <2>1 DEF NoAdmission
    <2> HIDE DEF Whole
    <2> QED BY <2>2
  <1>7. ASSUME NEW n \in 1 .. N, n - 1 \in P PROVE n \in P
    <2>1. Whole(n - 1)
      <3> HIDE DEF Whole
      <3> QED BY <1>7
    <2>2. FirstPaths(n) = FirstPaths(n - 1) \cup {PathOrder[n]}
      <3>1. 1 .. n = (1 .. n - 1) \cup {n}
        OBVIOUS
      <3> QED BY <3>1 DEF FirstPaths
    <2>3. ASSUME files[PathOrder[n]] = Absent PROVE Whole(n)
      <3>1. t[n] = t[n - 1] /\ a[n] = a[n - 1] /\ PathOrder[n] \notin Present(files)
        BY <1>4, <1>5, <2>3 DEF Absent, Admitted, Present
      <3> QED BY <2>1, <2>2, <3>1
    <2>4. ASSUME files[PathOrder[n]] # Absent PROVE Whole(n)
      <3>1. PathOrder[n] \in Present(files) /\ t[n] <= MaxAggregate /\ t[n] \in Nat /\ t[n - 1] \in Nat
        BY <1>4, <1>5, <2>4 DEF Present
      <3>2. a[n] = Admit(files, a[n - 1], PathOrder[n])
        BY <1>5, <2>4 DEF Admitted
      <3>3. a[n] = [a[n - 1] EXCEPT !.bytes = @ + files[PathOrder[n]].bytes, !.accepted = @ \cup {PathOrder[n]}]
        BY <1>5, <2>1, <3>1, <3>2, LimitsAssumption DEF Admit
      <3>4. Present(files) \cap FirstPaths(n) = (Present(files) \cap FirstPaths(n - 1)) \cup {PathOrder[n]}
        BY <2>2, <3>1
      <3>5. t[n] = t[n - 1] + files[PathOrder[n]].bytes
        BY <1>5
      <3>6. a[n - 1] \in Admissions
        BY <1>1, <1>3 DEF Entering
      <3>7. /\ a[n].bytes = a[n - 1].bytes + files[PathOrder[n]].bytes /\ a[n].over = a[n - 1].over
            /\ a[n].accepted = a[n - 1].accepted \cup {PathOrder[n]}
            /\ a[n].large = a[n - 1].large /\ a[n].refused = a[n - 1].refused
        BY <3>3, <3>6 DEF Admissions
      <3> QED BY <2>1, <3>4, <3>5, <3>7
    <2>5. Whole(n)
      BY <2>3, <2>4
    <2> HIDE DEF Whole
    <2> QED BY <2>5
  <1>8. Whole(N)
    <2>1. 0 .. N \subseteq P
      <3> HIDE DEF P
      <3> QED BY <1>6, <1>7, Upto
    <2> HIDE DEF Whole
    <2> QED BY <2>1
  <1>9. FirstPaths(N) = Docs
    BY <1>1, PathsListed DEF FirstPaths
  <1> QED BY <1>1, <1>3, <1>8, <1>9 DEF Entering, Present

\* If no document was too large and none was refused, the reader takes the corpus.
LEMMA EnteredReadable ==
    ASSUME NEW files, Sized(files), Entries(files).large = {}, Entries(files).refused = {}
    PROVE  Readable(files)
  <1>1. PICK N \in Nat : N = Paths
    BY PathsListed
  <1>2. PICK t : Totals(files, t)
    BY TotalsExist
  <1>3. PICK a : Entering(files, a)
    BY EnteringExists
  <1>4. \A n \in 0 .. N : t[n] \in Nat /\ a[n] \in Admissions
    BY <1>1, <1>2, <1>3 DEF Totals, Entering
  <1>5. \A n \in 1 .. N : /\ PathOrder[n] \in Docs
                          /\ files[PathOrder[n]].bytes \in Nat
                          /\ t[n] = t[n - 1] + files[PathOrder[n]].bytes
                          /\ a[n] = Admitted(files, a[n - 1], PathOrder[n])
    BY <1>1, <1>2, <1>3, PathsListed DEF Totals, Entering, Sized
  <1> DEFINE Sound(n) == /\ a[n].large = {} => \A i \in 1 .. n : files[PathOrder[i]].bytes <= MaxBytes
                         /\ a[n].over => a[n].refused # {}
                         /\ a[n].large = {} /\ a[n].refused = {} => a[n].bytes = t[n] /\ t[n] <= MaxAggregate
             P == {n \in 0 .. N : Sound(n)}
  <1>6. 0 \in P
    <2>1. t[0] = 0 /\ a[0] = NoAdmission
      BY <1>2, <1>3 DEF Totals, Entering
    <2>2. Sound(0)
      BY <2>1, LimitsAssumption DEF NoAdmission
    <2> HIDE DEF Sound
    <2> QED BY <2>2
  <1>7. ASSUME NEW n \in 1 .. N, n - 1 \in P PROVE n \in P
    <2>1. Sound(n - 1)
      <3> HIDE DEF Sound
      <3> QED BY <1>7
    <2> DEFINE d == PathOrder[n]
               s == a[n - 1]
    <2>a. /\ d \in Docs /\ files[d].bytes \in Nat /\ a[n] = Admitted(files, s, d) /\ s \in Admissions
          /\ t[n] = t[n - 1] + files[d].bytes /\ t[n - 1] \in Nat
      BY <1>4, <1>5
    <2>2. ASSUME files[d].bytes <= MaxBytes, \A i \in 1 .. n - 1 : files[PathOrder[i]].bytes <= MaxBytes
          PROVE  \A i \in 1 .. n : files[PathOrder[i]].bytes <= MaxBytes
      <3>1. 1 .. n = (1 .. n - 1) \cup {n}
        OBVIOUS
      <3> QED BY <2>2, <3>1
    <2> HIDE DEF d, s
    <2>3. CASE files[d] = Absent
      <3>1. a[n] = s /\ files[d].bytes = 0 /\ t[n] = t[n - 1]
        BY <2>a, <2>3 DEF Absent, Admitted
      <3>2. files[d].bytes <= MaxBytes
        BY <3>1, LimitsAssumption
      <3> QED BY <2>1, <2>2, <3>1, <3>2 DEF s
    <2>4. CASE files[d] # Absent /\ files[d].bytes > MaxBytes
      <3>1. a[n] = [s EXCEPT !.large = @ \cup {d}]
        BY <2>a, <2>4 DEF Admitted, Admit
      <3>2. a[n].large # {} /\ a[n].over = s.over /\ a[n].refused = s.refused
        BY <2>a, <3>1 DEF Admissions
      <3> QED BY <2>1, <3>2 DEF s
    <2>5. CASE /\ files[d] # Absent /\ ~(files[d].bytes > MaxBytes)
               /\ s.over \/ s.bytes + files[d].bytes > MaxAggregate
      <3>1. a[n] = [s EXCEPT !.over = TRUE, !.refused = @ \cup {d}]
        BY <2>a, <2>5 DEF Admitted, Admit
      <3>2. a[n].large = s.large /\ a[n].refused # {}
        BY <2>a, <3>1 DEF Admissions
      <3>3. files[d].bytes <= MaxBytes
        BY <2>a, <2>5, LimitsAssumption
      <3> QED BY <2>1, <2>2, <3>2, <3>3 DEF s
    <2>6. CASE /\ files[d] # Absent /\ ~(files[d].bytes > MaxBytes)
               /\ ~(s.over \/ s.bytes + files[d].bytes > MaxAggregate)
      <3>1. a[n] = [s EXCEPT !.bytes = @ + files[d].bytes, !.accepted = @ \cup {d}]
        BY <2>a, <2>6 DEF Admitted, Admit
      <3>2. /\ a[n].large = s.large /\ a[n].refused = s.refused /\ a[n].over = s.over
            /\ a[n].bytes = s.bytes + files[d].bytes /\ s.bytes \in Nat
        BY <2>a, <3>1 DEF Admissions
      <3>3. files[d].bytes <= MaxBytes /\ s.bytes + files[d].bytes <= MaxAggregate
        BY <2>a, <2>6, <3>2, LimitsAssumption
      <3>4. a[n].large = {} => \A i \in 1 .. n : files[PathOrder[i]].bytes <= MaxBytes
        BY <2>1, <2>2, <3>2, <3>3 DEF s
      <3>5. a[n].large = {} /\ a[n].refused = {} => a[n].bytes = t[n] /\ t[n] <= MaxAggregate
        BY <2>1, <2>a, <3>2, <3>3 DEF s
      <3> QED BY <2>1, <3>2, <3>4, <3>5 DEF s
    <2>7. Sound(n)
      BY <2>3, <2>4, <2>5, <2>6
    <2> HIDE DEF Sound
    <2> QED BY <2>7
  <1>8. Sound(N)
    <2>1. 0 .. N \subseteq P
      <3> HIDE DEF P
      <3> QED BY <1>6, <1>7, Upto
    <2> HIDE DEF Sound
    <2> QED BY <2>1
  <1>9. a[N].large = {} /\ a[N].refused = {}
    BY <1>1, <1>3 DEF Entering
  <1>10. \A d \in Docs : files[d].bytes <= MaxBytes
    BY <1>1, <1>8, <1>9, PathsListed
  <1> QED BY <1>1, <1>2, <1>8, <1>9, <1>10 DEF Totals

-----------------------------------------------------------------------------
Corpus(f) == \A d \in Docs : f[d] \in Documents

\* The sizes of documents are numbers.
LEMMA CorpusSized == ASSUME NEW f, Corpus(f) PROVE Sized(f)
  BY DEF Corpus, Sized, Documents

\* The entries of a corpus.
LEMMA EntriesTypes ==
    ASSUME NEW f, Corpus(f) PROVE Entries(f) \in Admissions
  <1>1. PICK a : Entering(f, a)
    BY CorpusSized, EnteringExists
  <1>2. Paths \in 0 .. Paths
    BY PathsListed
  <1> QED BY <1>1, <1>2 DEF Entering

\* The offsets of items are numbers.
LEMMA OffsetsListed == Len(Offset) \in Nat /\ DOMAIN Offset = 1 .. Len(Offset) /\ \A i \in DOMAIN Offset : Offset[i] \in Nat
  BY OrdersAssumption

\* A place is a document and the index of an item of the kind that was asked for.
LEMMA PlaceTypes ==
    ASSUME NEW f, Corpus(f), NEW docs \in SUBSET Docs, NEW is, NEW p \in Places(f, docs, is)
    PROVE  /\ p \in docs \X DOMAIN Offset /\ p[1] \in docs /\ p[2] \in DOMAIN Offset /\ p = <<p[1], p[2]>>
           /\ p[2] \in DOMAIN f[p[1]].items
           /\ Item(f, p) \in Items /\ Item(f, p).is = is
  <1>1. /\ p \in docs \X DOMAIN Offset /\ p[1] \in docs /\ p[2] \in DOMAIN Offset /\ p = <<p[1], p[2]>>
        /\ p[2] \in DOMAIN f[p[1]].items /\ Item(f, p).is = is
    BY DEF Places, Item
  <1>2. f[p[1]].items \in Seq(Items)
    BY <1>1 DEF Corpus, Documents
  <1>3. Item(f, p) \in Items
    BY <1>1, <1>2 DEF Item
  <1> QED BY <1>1, <1>3

\* What is defined at a place is an identity of the spec of its document.
LEMMA DefinedTypes ==
    ASSUME NEW f, Corpus(f), NEW docs \in SUBSET Docs, NEW p \in Places(f, docs, "def")
    PROVE  /\ Defined(f, p) \in Ids /\ Defined(f, p).spec = SpecOf[p[1]]
           /\ Defined(f, p).local = Item(f, p).local /\ Item(f, p).local \in Locals
  <1>1. p[1] \in Docs /\ Item(f, p) \in Items /\ Item(f, p).is = "def"
    BY PlaceTypes
  <1>2. Item(f, p).local \in Locals
    BY <1>1 DEF Items
  <1>3. SpecOf[p[1]] \in Specs
    BY <1>1, DocsAssumption
  <1> QED BY <1>2, <1>3 DEF Defined, Identity, Ids

\* The groups are those of the places where something is defined; none is empty.
LEMMA GroupTypes ==
    ASSUME NEW f, Corpus(f), NEW docs \in SUBSET Docs
    PROVE  /\ DOMAIN Groups(f, docs) \subseteq Ids
           /\ \A id \in DOMAIN Groups(f, docs) :
                  /\ Groups(f, docs)[id] = {p \in Places(f, docs, "def") : Defined(f, p) = id}
                  /\ Groups(f, docs)[id] # {} /\ Groups(f, docs)[id] \subseteq docs \X DOMAIN Offset
                  /\ id.local \in Locals
           /\ \A p \in Places(f, docs, "def") : Defined(f, p) \in DOMAIN Groups(f, docs)
  <1>1. \A p \in Places(f, docs, "def") :
            p \in docs \X DOMAIN Offset /\ Defined(f, p) \in Ids /\ Defined(f, p).local \in Locals
    <2> TAKE p \in Places(f, docs, "def")
    <2>1. p \in docs \X DOMAIN Offset
      BY PlaceTypes
    <2>2. Defined(f, p) \in Ids /\ Defined(f, p).local \in Locals
      BY DefinedTypes
    <2> QED BY <2>1, <2>2
  <1> QED BY <1>1 DEF Groups

\* The generated identities.
LEMMA DocNodeTypes == ASSUME NEW d \in Docs PROVE DocNode(d) \in Ids /\ RoadmapNode(d) \in Ids
  BY DocsAssumption DEF DocNode, RoadmapNode, Identity, Ids

\* The nodes are identities.
LEMMA NodeTypes ==
    ASSUME NEW f, Corpus(f), NEW docs \in SUBSET Docs
    PROVE  Nodes(Groups(f, docs), docs) \subseteq Ids
  BY GroupTypes, DocNodeTypes DEF Nodes, Elected, Roadmaps

\* The rank of a member of a list is its index
LEMMA RankOf ==
    ASSUME NEW order, NEW n \in Nat, DOMAIN order = 1 .. n, NEW x \in Range(order)
    PROVE  Rank(order, x) \in 1 .. n /\ order[Rank(order, x)] = x
  BY DEF Rank, Range

\* in a list that names its members once.
LEMMA RankOfListed ==
    ASSUME NEW order, Listed(order), NEW x \in Range(order)
    PROVE  Rank(order, x) \in Nat /\ order[Rank(order, x)] = x
  <1>1. PICK n \in Nat : n = Len(order)
    BY DEF Listed
  <1>2. DOMAIN order = 1 .. n
    BY <1>1 DEF Listed
  <1> QED BY <1>2, RankOf

\* Identities have keys of two numbers, and no two have the same.
LEMMA IdKeyTypes ==
    /\ \A id \in Ids : IdKey(id) \in Keys(2)
    /\ \A a, b \in Ids : IdKey(a) = IdKey(b) => a = b
  <1>1. \A id \in Ids : /\ Rank(SpecOrder, id.spec) \in Nat /\ SpecOrder[Rank(SpecOrder, id.spec)] = id.spec
                        /\ Rank(LocalOrder, id.local) \in Nat /\ LocalOrder[Rank(LocalOrder, id.local)] = id.local
    <2> TAKE id \in Ids
    <2>1. id.spec \in Range(SpecOrder) /\ id.local \in Range(LocalOrder)
      BY LocalsAssumption DEF Ids, Specs
    <2> QED BY <2>1, OrdersAssumption, RankOfListed
  <1>2. \A id \in Ids : IdKey(id) \in Keys(2)
    BY <1>1 DEF IdKey, Keys
  <1>3. ASSUME NEW a \in Ids, NEW b \in Ids, IdKey(a) = IdKey(b) PROVE a = b
    <2>1. Rank(SpecOrder, a.spec) = Rank(SpecOrder, b.spec) /\ Rank(LocalOrder, a.local) = Rank(LocalOrder, b.local)
      BY <1>3 DEF IdKey
    <2>2. a.spec = b.spec /\ a.local = b.local
      BY <1>1, <2>1
    <2> QED BY <2>2 DEF Ids
  <1> QED BY <1>2, <1>3

\* The image of a finite set is finite.
LEMMA FiniteImage ==
    ASSUME NEW S, IsFiniteSet(S), NEW f, S = DOMAIN f PROVE IsFiniteSet({f[x] : x \in S})
  <1>1. PICK T : T = {f[x] : x \in S}
    OBVIOUS
  <1>2. PICK g : g = [x \in S |-> f[x]]
    OBVIOUS
  <1>3. g \in Surjection(S, T)
    BY <1>1, <1>2 DEF Surjection
  <1> QED BY <1>1, <1>3, FS_Surjection

\* There are finitely many places.
LEMMA FiniteDocs == IsFiniteSet(Docs) /\ IsFiniteSet(DOMAIN Offset) /\ IsFiniteSet(Docs \X DOMAIN Offset)
  <1>1. IsFiniteSet(1 .. Paths) /\ DOMAIN PathOrder = 1 .. Paths
    BY PathsListed, FS_Interval
  <1>2. IsFiniteSet({PathOrder[i] : i \in 1 .. Paths})
    BY <1>1, FiniteImage
  <1>3. Docs = {PathOrder[i] : i \in 1 .. Paths}
    BY <1>1 DEF Docs, Range
  <1>4. IsFiniteSet(DOMAIN Offset)
    BY OffsetsListed, FS_Interval
  <1> QED BY <1>2, <1>3, <1>4, FS_Product

\* A group has a first place.
LEMMA PrimaryIn ==
    ASSUME NEW places \in SUBSET (Docs \X DOMAIN Offset), places # {} PROVE Primary(places) \in places
  <1>1. PICK key : key = [p \in places |-> <<Rank(PathOrder, p[1]), p[2]>>]
    OBVIOUS
  <1>2. \A p \in places : /\ p = <<p[1], p[2]>> /\ p[2] \in Nat
                          /\ Rank(PathOrder, p[1]) \in Nat /\ PathOrder[Rank(PathOrder, p[1])] = p[1]
    <2> TAKE p \in places
    <2>1. p = <<p[1], p[2]>> /\ p[1] \in Range(PathOrder) /\ p[2] \in Nat
      BY OffsetsListed DEF Docs
    <2> QED BY <2>1, OrdersAssumption, RankOfListed
  <1>3. key \in [places -> Keys(2)]
    BY <1>1, <1>2 DEF Keys
  <1>4. IsInjective(key)
    <2> SUFFICES ASSUME NEW a \in places, NEW b \in places, key[a] = key[b] PROVE a = b
      BY <1>1 DEF IsInjective
    <2>1. Rank(PathOrder, a[1]) = Rank(PathOrder, b[1]) /\ a[2] = b[2]
      BY <1>1
    <2>2. a[1] = b[1]
      BY <1>2, <2>1
    <2> QED BY <1>2, <2>1, <2>2
  <1>5. IsFiniteSet(places)
    BY FiniteDocs, FS_Subset
  <1>6. PICK s : s = Sorted(places, key)
    OBVIOUS
  <1>7. /\ s \in Seq(places) /\ Len(s) = Cardinality(places) /\ Range(s) = places
        /\ \A i, j \in DOMAIN s : i < j => Precedes(key[s[i]], key[s[j]])
    BY <1>3, <1>4, <1>5, <1>6, SortedBy
  <1>8. 1 \in DOMAIN s
    BY <1>7 DEF Range
  <1>9. s[1] \in places /\ \A q \in places : q = s[1] \/ Precedes(key[s[1]], key[q])
    <2>1. s[1] \in places
      BY <1>7, <1>8
    <2>2. \A j \in DOMAIN s : j = 1 \/ Precedes(key[s[1]], key[s[j]])
      <3> TAKE j \in DOMAIN s
      <3>1. j = 1 \/ 1 < j
        BY <1>7
      <3> QED BY <1>7, <1>8, <3>1
    <2>3. \A q \in places : \E j \in DOMAIN s : q = s[j]
      BY <1>7 DEF Range
    <2> QED BY <2>1, <2>2, <2>3
  <1>10. \A q \in places : q = s[1] \/ Precedes(<<Rank(PathOrder, s[1][1]), s[1][2]>>, <<Rank(PathOrder, q[1]), q[2]>>)
    BY <1>1, <1>9
  <1> QED BY <1>9, <1>10 DEF Primary

-----------------------------------------------------------------------------
\* Keys are sequences of numbers.
LEMMA KeysAreSequences == ASSUME NEW n \in Nat, NEW a \in Keys(n) PROVE a \in Seq(Int) /\ Len(a) = n /\ DOMAIN a = 1 .. n
  BY DEF Keys

\* A key after another is a key.
LEMMA ConcatKeys ==
    ASSUME NEW m \in Nat, NEW n \in Nat, NEW a \in Keys(m), NEW b \in Keys(n)
    PROVE  /\ a \o b \in Keys(m + n)
           /\ \A i \in 1 .. m : (a \o b)[i] = a[i]
           /\ \A i \in 1 .. n : (a \o b)[m + i] = b[i]
  <1>1. a \in Seq(Int) /\ Len(a) = m /\ b \in Seq(Int) /\ Len(b) = n
    BY KeysAreSequences
  <1>2. a \o b \in Seq(Int) /\ Len(a \o b) = m + n
    BY <1>1
  <1>3. a \o b \in Keys(m + n)
    <2>1. \A s \in Seq(Int) : s \in [1 .. Len(s) -> Int]
      OBVIOUS
    <2>2. a \o b \in [1 .. Len(a \o b) -> Int]
      BY <1>2, <2>1
    <2> QED BY <1>2, <2>2 DEF Keys
  <1> QED BY <1>1, <1>3

Joined(a, b) == a \o b

\* A key that was joined from two of given lengths tells them.
LEMMA JoinedInjective ==
    ASSUME NEW m \in Nat, NEW n \in Nat, NEW a \in Keys(m), NEW b \in Keys(n),
           NEW c \in Keys(m), NEW d \in Keys(n), Joined(a, b) = Joined(c, d)
    PROVE  a = c /\ b = d
  <1>1. \A i \in 1 .. m : a[i] = c[i]
    <2> TAKE i \in 1 .. m
    <2>1. (a \o b)[i] = a[i] /\ (c \o d)[i] = c[i]
      BY ConcatKeys
    <2> QED BY <2>1, Zenon DEF Joined
  <1>2. \A i \in 1 .. n : b[i] = d[i]
    <2> TAKE i \in 1 .. n
    <2>1. (a \o b)[m + i] = b[i] /\ (c \o d)[m + i] = d[i]
      BY ConcatKeys
    <2> QED BY <2>1, Zenon DEF Joined
  <1> QED BY <1>1, <1>2 DEF Keys

\* What is stated at a place, by the kind of the document.
RefAt(f, nodes, p, what) ==
    IF what = "declares" THEN Reference(p, "declares", DocNode(p[1]), Defined(f, p), "DECLARES")
    ELSE IF DocumentKind[p[1]] # "FEATURE"
    THEN Reference(p, "ref", SourceOf(f, nodes, p), Item(f, p).target, Item(f, p).type)
    ELSE Reference(p, "ref", Defined(f, <<p[1], ScenarioOf(f, p)>>), Item(f, p).target, Item(f, p).type)

StatedAt(f, docs, nodes, r, p, what) ==
    /\ r.id = <<p[1], p[2], what>> /\ r.id[1] = p[1] /\ r.id[2] = p[2] /\ r.id[3] = what
    /\ p[1] \in docs /\ p[2] \in DOMAIN Offset /\ p = <<p[1], p[2]>>
    /\ r = RefAt(f, nodes, p, what) /\ r.type \in Range(Types)
    /\ what = "declares" => r.type = "DECLARES" /\ TargetOf(r).local \in Locals

\* Every reference is one that is stated at a place.
LEMMA ReferencesAt ==
    ASSUME NEW f, Corpus(f), NEW docs \in SUBSET Docs, NEW nodes, NEW r \in References(f, docs, nodes)
    PROVE  \E what \in {"declares", "ref"} :
               \E p \in Places(f, docs, IF what = "declares" THEN "def" ELSE "ref") : r = RefAt(f, nodes, p, what)
  BY DEF References, RefAt

\* What is known of a reference.
LEMMA ReferenceTypes ==
    ASSUME NEW f, Corpus(f), NEW docs \in SUBSET Docs, NEW nodes, NEW r \in References(f, docs, nodes)
    PROVE  \E p \in docs \X DOMAIN Offset : \E what \in {"declares", "ref"} :
              StatedAt(f, docs, nodes, r, p, what)
  <1>a. PICK what \in {"declares", "ref"} :
            \E p \in Places(f, docs, IF what = "declares" THEN "def" ELSE "ref") : r = RefAt(f, nodes, p, what)
    BY ReferencesAt
  <1>1. PICK p \in Places(f, docs, IF what = "declares" THEN "def" ELSE "ref") : r = RefAt(f, nodes, p, what)
    BY <1>a
  <1>2. /\ p \in docs \X DOMAIN Offset /\ p[1] \in docs /\ p[2] \in DOMAIN Offset /\ p = <<p[1], p[2]>>
        /\ Item(f, p) \in Items /\ Item(f, p).is = (IF what = "declares" THEN "def" ELSE "ref")
    BY PlaceTypes
  <1>3. r.id = <<p[1], p[2], what>>
    BY <1>1 DEF RefAt, Reference
  <1>4. CASE what = "declares"
    <2>1. r.type = "DECLARES" /\ r.target = Defined(f, p)
      BY <1>1, <1>4 DEF RefAt, Reference
    <2>2. Defined(f, p).local \in Locals
      BY <1>4, DefinedTypes
    <2>3. TargetOf(r).local = Defined(f, p).local
      BY <2>1 DEF TargetOf, Identity
    <2>4. "DECLARES" \in Range(Types)
      BY DEF Range, Types
    <2> QED BY <1>1, <1>2, <1>3, <1>4, <2>1, <2>2, <2>3, <2>4 DEF StatedAt
  <1>5. CASE what # "declares"
    <2>1. r.type = Item(f, p).type
      BY <1>1, <1>5 DEF RefAt, Reference
    <2>2. Item(f, p).type \in Range(Types)
      BY <1>2, <1>5 DEF Items
    <2> QED BY <1>1, <1>2, <1>3, <1>5, <2>1, <2>2 DEF StatedAt
  <1> QED BY <1>4, <1>5

\* Every edge joins two nodes.
LEMMA ResolvedJoins ==
    ASSUME NEW groups, NEW nodes, Elected(groups) \subseteq nodes, NEW r,
           ResolveReference(r, groups, nodes) = "RESOLVED"
    PROVE  From(r) \in nodes /\ To(r) \in nodes
  <1>1. TargetOf(r) \in DOMAIN groups /\ TargetOf(r) \notin Ambiguous(groups) /\ r.source \in nodes
    BY DEF ResolveReference
  <1>2. TargetOf(r) \in nodes
    BY <1>1 DEF Elected
  <1> QED BY <1>1, <1>2 DEF From, To

EdgeShape(docs, nodes, e) ==
    /\ e = [id |-> e.id, from |-> e.from, to |-> e.to, type |-> e.type]
    /\ e.from \in nodes /\ e.to \in nodes /\ e.type \in Range(Types)
    /\ e.id = <<e.id[1], e.id[2], e.id[3]>> /\ e.id[1] \in docs
    /\ \/ e.id[3] = "ref" /\ e.id[2] \in DOMAIN Offset
       \/ e.id[3] = "declares" /\ e.id[2] \in DOMAIN Offset /\ e.to.local \in Locals
       \/ e.id[3] = "roadmap" /\ e.id[2] = 0 /\ e.to.local = "ROADMAP"

EdgesOf(f, docs, groups, nodes, refs) ==
    {Edge(r) : r \in {x \in refs : ResolveReference(x, groups, nodes) = "RESOLVED"}} \cup RoadmapEdges(docs)

\* What is known of an edge.
LEMMA EdgeTypes ==
    ASSUME NEW f, Corpus(f), NEW docs \in SUBSET Docs, NEW groups, NEW nodes, nodes = Nodes(groups, docs),
           NEW e \in EdgesOf(f, docs, groups, nodes, References(f, docs, nodes))
    PROVE  EdgeShape(docs, nodes, e)
  <1>1. CASE e \in RoadmapEdges(docs)
    <2>1. PICK d \in Roadmaps(docs) :
              e = [id |-> <<d, 0, "roadmap">>, from |-> DocNode(d), to |-> RoadmapNode(d), type |-> "DECLARES"]
      BY <1>1 DEF RoadmapEdges
    <2>2. d \in docs /\ DocNode(d) \in nodes /\ RoadmapNode(d) \in nodes
      BY DEF Roadmaps, Nodes
    <2>3. RoadmapNode(d).local = "ROADMAP"
      BY DEF RoadmapNode, Identity
    <2>4. "DECLARES" \in Range(Types)
      BY DEF Range, Types
    <2> QED BY <2>1, <2>2, <2>3, <2>4 DEF EdgeShape
  <1>2. CASE e \notin RoadmapEdges(docs)
    <2>1. PICK r \in References(f, docs, nodes) : ResolveReference(r, groups, nodes) = "RESOLVED" /\ e = Edge(r)
      BY <1>2 DEF EdgesOf
    <2>2. Elected(groups) \subseteq nodes
      BY DEF Nodes
    <2>3. From(r) \in nodes /\ To(r) \in nodes
      BY <2>1, <2>2, ResolvedJoins
    <2>a. PICK p \in docs \X DOMAIN Offset : \E what \in {"declares", "ref"} :
              StatedAt(f, docs, nodes, r, p, what)
      BY ReferenceTypes
    <2>4. PICK what \in {"declares", "ref"} :
              StatedAt(f, docs, nodes, r, p, what)
      BY <2>a
    <2>5. e.id = r.id /\ e.from = From(r) /\ e.to = To(r) /\ e.type = r.type
          /\ e = [id |-> e.id, from |-> e.from, to |-> e.to, type |-> e.type]
      BY <2>1 DEF Edge
    <2>6. r.type = "DECLARES" => To(r) = TargetOf(r)
      BY DEF To, Flipped
    <2>7. e.id = <<e.id[1], e.id[2], e.id[3]>> /\ e.id[1] \in docs /\ e.id[2] \in DOMAIN Offset /\ e.id[3] = what
      BY <2>4, <2>5 DEF StatedAt
    <2> QED BY <2>3, <2>4, <2>5, <2>6, <2>7 DEF EdgeShape, StatedAt
  <1> QED BY <1>1, <1>2

-----------------------------------------------------------------------------
\* References, places, groups, nodes and edges are finitely many.
LEMMA FiniteReferences ==
    ASSUME NEW f, Corpus(f), NEW docs \in SUBSET Docs, NEW nodes PROVE IsFiniteSet(References(f, docs, nodes))
  <1>1. PICK S : S = (Docs \X DOMAIN Offset) \X {"declares", "ref"}
    OBVIOUS
  <1>2. IsFiniteSet({"declares", "ref"})
    <2>1. IsFiniteSet({"declares"}) /\ IsFiniteSet({"ref"})
      BY FS_Singleton
    <2>2. IsFiniteSet({"declares"} \cup {"ref"})
      BY <2>1, FS_Union
    <2>3. {"declares"} \cup {"ref"} = {"declares", "ref"}
      OBVIOUS
    <2> QED BY <2>2, <2>3
  <1>3. IsFiniteSet(S)
    BY <1>1, <1>2, FiniteDocs, FS_Product
  <1>4. PICK h : h = [x \in S |-> RefAt(f, nodes, x[1], x[2])]
    OBVIOUS
  <1>5. IsFiniteSet({h[x] : x \in S})
    BY <1>3, <1>4, FiniteImage
  <1>6. References(f, docs, nodes) \subseteq {h[x] : x \in S}
    <2> SUFFICES ASSUME NEW r \in References(f, docs, nodes) PROVE \E x \in S : r = h[x]
      OBVIOUS
    <2>1. PICK p \in docs \X DOMAIN Offset : \E what \in {"declares", "ref"} : StatedAt(f, docs, nodes, r, p, what)
      BY ReferenceTypes
    <2>2. PICK what \in {"declares", "ref"} : StatedAt(f, docs, nodes, r, p, what)
      BY <2>1
    <2>3. r = RefAt(f, nodes, p, what)
      BY <2>2 DEF StatedAt
    <2>4. <<p, what>> \in S /\ <<p, what>>[1] = p /\ <<p, what>>[2] = what
      BY <1>1
    <2>5. h[<<p, what>>] = RefAt(f, nodes, p, what)
      BY <1>4, <2>4
    <2> QED BY <2>3, <2>4, <2>5
  <1> QED BY <1>5, <1>6, FS_Subset

LEMMA FinitePlaces == ASSUME NEW f, NEW docs \in SUBSET Docs, NEW is PROVE IsFiniteSet(Places(f, docs, is))
  <1>1. Places(f, docs, is) \subseteq Docs \X DOMAIN Offset
    BY DEF Places
  <1> QED BY <1>1, FiniteDocs, FS_Subset

LEMMA FiniteGroups ==
    ASSUME NEW f, NEW docs \in SUBSET Docs
    PROVE  /\ IsFiniteSet(DOMAIN Groups(f, docs))
           /\ \A id \in DOMAIN Groups(f, docs) : IsFiniteSet(Groups(f, docs)[id])
  <1>1. PICK S : S = Places(f, docs, "def")
    OBVIOUS
  <1>2. IsFiniteSet(S)
    BY <1>1, FinitePlaces
  <1>3. PICK h : h = [p \in S |-> Defined(f, p)]
    OBVIOUS
  <1>4. IsFiniteSet({h[p] : p \in S})
    BY <1>2, <1>3, FiniteImage
  <1>5. DOMAIN Groups(f, docs) = {h[p] : p \in S}
    BY <1>1, <1>3 DEF Groups
  <1>6. \A id \in DOMAIN Groups(f, docs) : Groups(f, docs)[id] \subseteq S
    BY <1>1 DEF Groups
  <1>7. \A id \in DOMAIN Groups(f, docs) : IsFiniteSet(Groups(f, docs)[id])
    BY <1>2, <1>6, FS_Subset
  <1> QED BY <1>4, <1>5, <1>7

LEMMA FiniteNodes == ASSUME NEW f, NEW docs \in SUBSET Docs PROVE IsFiniteSet(Nodes(Groups(f, docs), docs))
  <1>1. IsFiniteSet(docs) /\ IsFiniteSet(Roadmaps(docs))
    BY FiniteDocs, FS_Subset DEF Roadmaps
  <1>2. IsFiniteSet({DocNode(d) : d \in docs})
    <2>1. PICK h : h = [d \in docs |-> DocNode(d)]
      OBVIOUS
    <2>2. IsFiniteSet({h[d] : d \in docs})
      BY <1>1, <2>1, FiniteImage
    <2>3. {DocNode(d) : d \in docs} = {h[d] : d \in docs}
      BY <2>1
    <2> QED BY <2>2, <2>3
  <1>3. IsFiniteSet({RoadmapNode(d) : d \in Roadmaps(docs)})
    <2>1. PICK h : h = [d \in Roadmaps(docs) |-> RoadmapNode(d)]
      OBVIOUS
    <2>2. IsFiniteSet({h[d] : d \in Roadmaps(docs)})
      BY <1>1, <2>1, FiniteImage
    <2>3. {RoadmapNode(d) : d \in Roadmaps(docs)} = {h[d] : d \in Roadmaps(docs)}
      BY <2>1
    <2> QED BY <2>2, <2>3
  <1>4. IsFiniteSet(Elected(Groups(f, docs)))
    <2>1. Elected(Groups(f, docs)) \subseteq DOMAIN Groups(f, docs)
      BY DEF Elected
    <2> QED BY <2>1, FiniteGroups, FS_Subset
  <1> QED BY <1>2, <1>3, <1>4, FS_Union DEF Nodes

LEMMA FiniteEdges ==
    ASSUME NEW f, Corpus(f), NEW docs \in SUBSET Docs, NEW groups, NEW nodes
    PROVE  IsFiniteSet(EdgesOf(f, docs, groups, nodes, References(f, docs, nodes)))
  <1>1. PICK S : S = {x \in References(f, docs, nodes) : ResolveReference(x, groups, nodes) = "RESOLVED"}
    OBVIOUS
  <1>2. IsFiniteSet(S)
    BY <1>1, FiniteReferences, FS_Subset
  <1>3. IsFiniteSet({Edge(r) : r \in S})
    <2>1. PICK h : h = [r \in S |-> Edge(r)]
      OBVIOUS
    <2>2. IsFiniteSet({h[r] : r \in S})
      BY <1>2, <2>1, FiniteImage
    <2>3. {Edge(r) : r \in S} = {h[r] : r \in S}
      BY <2>1
    <2> QED BY <2>2, <2>3
  <1>4. IsFiniteSet(RoadmapEdges(docs))
    <2>1. IsFiniteSet(Roadmaps(docs))
      BY FiniteDocs, FS_Subset DEF Roadmaps
    <2>2. PICK h : h = [d \in Roadmaps(docs) |->
              [id |-> <<d, 0, "roadmap">>, from |-> DocNode(d), to |-> RoadmapNode(d), type |-> "DECLARES"]]
      OBVIOUS
    <2>3. IsFiniteSet({h[d] : d \in Roadmaps(docs)})
      BY <2>1, <2>2, FiniteImage
    <2>4. RoadmapEdges(docs) = {h[d] : d \in Roadmaps(docs)}
      BY <2>2 DEF RoadmapEdges
    <2> QED BY <2>3, <2>4
  <1>5. EdgesOf(f, docs, groups, nodes, References(f, docs, nodes)) = {Edge(r) : r \in S} \cup RoadmapEdges(docs)
    BY <1>1 DEF EdgesOf
  <1> QED BY <1>3, <1>4, <1>5, FS_Union

-----------------------------------------------------------------------------
LargeCodes == {"FILE_TOO_LARGE", "CORPUS_LIMIT_EXCEEDED"}
DiagnosticType ==
    {x \in [code : Range(Codes) \ {"DIAGNOSTIC_LIMIT_REACHED"}, doc : Docs, at : {0} \cup DOMAIN Offset] :
        x.at = 0 <=> x.code \in LargeCodes}

\* The codes of diagnostics, in their order.
LEMMA CodesListed ==
    /\ DOMAIN Codes = 1 .. 12
    /\ \A c \in {"AMBIGUOUS_REFERENCE", "BROKEN_REFERENCE", "CORPUS_LIMIT_EXCEEDED", "DIAGNOSTIC_LIMIT_REACHED",
           "DUPLICATE_DEFINITION", "FILE_TOO_LARGE", "FORBIDDEN_EDGE_ENDPOINT", "INVALID_AC_PARENT",
           "MALFORMED_HEADING", "MALFORMED_REFERENCE", "MISSING_SCENARIO_ID", "UNQUALIFIED_CROSS_SPEC_REFERENCE"} :
           c \in Range(Codes)
  <1>1. DOMAIN Codes = 1 .. 12
    BY DEF Codes
  <1>2. \A i \in 1 .. 12 : Codes[i] \in Range(Codes)
    BY <1>1 DEF Range
  <1>3. /\ Codes[1] = "AMBIGUOUS_REFERENCE" /\ Codes[2] = "BROKEN_REFERENCE" /\ Codes[3] = "CORPUS_LIMIT_EXCEEDED"
        /\ Codes[4] = "DIAGNOSTIC_LIMIT_REACHED" /\ Codes[5] = "DUPLICATE_DEFINITION" /\ Codes[6] = "FILE_TOO_LARGE"
        /\ Codes[7] = "FORBIDDEN_EDGE_ENDPOINT" /\ Codes[8] = "INVALID_AC_PARENT" /\ Codes[9] = "MALFORMED_HEADING"
        /\ Codes[10] = "MALFORMED_REFERENCE" /\ Codes[11] = "MISSING_SCENARIO_ID"
        /\ Codes[12] = "UNQUALIFIED_CROSS_SPEC_REFERENCE"
    BY DEF Codes
  <1>4. 1 \in 1 .. 12 /\ 2 \in 1 .. 12 /\ 3 \in 1 .. 12 /\ 4 \in 1 .. 12 /\ 5 \in 1 .. 12 /\ 6 \in 1 .. 12
        /\ 7 \in 1 .. 12 /\ 8 \in 1 .. 12 /\ 9 \in 1 .. 12 /\ 10 \in 1 .. 12 /\ 11 \in 1 .. 12 /\ 12 \in 1 .. 12
    OBVIOUS
  <1> HIDE DEF Codes
  <1> QED BY <1>1, <1>2, <1>3, <1>4

\* A diagnostic of a place, or of a document that is not accepted.
LEMMA DiagnosticIn ==
    ASSUME NEW code \in Range(Codes) \ {"DIAGNOSTIC_LIMIT_REACHED"}, NEW d \in Docs, NEW i \in {0} \cup DOMAIN Offset,
           i = 0 <=> code \in LargeCodes
    PROVE  Diagnostic(code, d, i) \in DiagnosticType
  BY DEF Diagnostic, DiagnosticType

\* The reasons why a reference stays unresolved have codes.
LEMMA ReasonCodes ==
    ASSUME NEW r, NEW groups, NEW nodes, ResolveReference(r, groups, nodes) # "RESOLVED"
    PROVE  CodeFor(ResolveReference(r, groups, nodes)) \in
               {"MALFORMED_REFERENCE", "UNQUALIFIED_CROSS_SPEC_REFERENCE", "BROKEN_REFERENCE",
                "AMBIGUOUS_REFERENCE", "FORBIDDEN_EDGE_ENDPOINT"}
  <1>1. ResolveReference(r, groups, nodes) \in
            {"MALFORMED_TARGET", "UNQUALIFIED_CROSS_SPEC", "MISSING_TARGET", "AMBIGUOUS_TARGET", "REJECTED_SOURCE",
             "FORBIDDEN_ENDPOINT"}
    BY DEF ResolveReference
  <1> QED BY <1>1 DEF CodeFor

\* What is known of a diagnostic that was found.
LEMMA DiagnosticTypes ==
    ASSUME NEW f, Corpus(f), NEW entries \in Admissions, NEW docs, docs = entries.accepted,
           NEW groups, groups = Groups(f, docs), NEW nodes,
           NEW x \in Diagnostics(f, entries, groups, nodes, References(f, docs, nodes))
    PROVE  x \in DiagnosticType
  <1>0. docs \in SUBSET Docs /\ entries.large \in SUBSET Docs /\ entries.refused \in SUBSET Docs
    BY DEF Admissions
  <1>a. \A i \in DOMAIN Offset : i # 0
    BY OffsetsListed
  <1>b. \A id \in DOMAIN groups : Primary(groups[id]) \in docs \X DOMAIN Offset
    <2> TAKE id \in DOMAIN groups
    <2>1. groups[id] # {} /\ groups[id] \subseteq docs \X DOMAIN Offset
      BY <1>0, GroupTypes
    <2>2. groups[id] \in SUBSET (Docs \X DOMAIN Offset)
      BY <2>1, <1>0
    <2> QED BY <2>1, <2>2, PrimaryIn
  <1>1. ASSUME NEW d \in entries.large, x = Diagnostic("FILE_TOO_LARGE", d, 0) PROVE x \in DiagnosticType
    BY <1>0, <1>1, CodesListed, DiagnosticIn DEF LargeCodes
  <1>2. ASSUME NEW d \in entries.refused, x = Diagnostic("CORPUS_LIMIT_EXCEEDED", d, 0) PROVE x \in DiagnosticType
    BY <1>0, <1>2, CodesListed, DiagnosticIn DEF LargeCodes
  <1>3. ASSUME NEW p \in Places(f, docs, "bad"),
               x = Diagnostic(IF DocumentKind[p[1]] = "FEATURE" THEN "MISSING_SCENARIO_ID" ELSE "MALFORMED_HEADING",
                              p[1], p[2])
        PROVE  x \in DiagnosticType
    <2>1. p[1] \in Docs /\ p[2] \in DOMAIN Offset /\ p[2] # 0
      BY <1>0, <1>a, PlaceTypes
    <2>2. PICK code : code = IF DocumentKind[p[1]] = "FEATURE" THEN "MISSING_SCENARIO_ID" ELSE "MALFORMED_HEADING"
      OBVIOUS
    <2>3. code \in Range(Codes) \ {"DIAGNOSTIC_LIMIT_REACHED"} /\ code \notin LargeCodes
      BY <2>2, CodesListed DEF LargeCodes
    <2> QED BY <1>3, <2>1, <2>2, <2>3, DiagnosticIn
  <1>4. ASSUME NEW id \in DOMAIN groups, NEW code \in {"DUPLICATE_DEFINITION", "INVALID_AC_PARENT"},
               x = Diagnostic(code, Primary(groups[id])[1], Primary(groups[id])[2])
        PROVE  x \in DiagnosticType
    <2>1. PICK p : p = Primary(groups[id])
      OBVIOUS
    <2>2. p[1] \in Docs /\ p[2] \in DOMAIN Offset /\ p[2] # 0
      BY <1>0, <1>a, <1>b, <2>1
    <2>3. code \in Range(Codes) \ {"DIAGNOSTIC_LIMIT_REACHED"} /\ code \notin LargeCodes
      BY CodesListed DEF LargeCodes
    <2> QED BY <1>4, <2>1, <2>2, <2>3, DiagnosticIn
  <1>5. ASSUME NEW r \in References(f, docs, nodes), ResolveReference(r, groups, nodes) # "RESOLVED",
               x = Diagnostic(CodeFor(ResolveReference(r, groups, nodes)), r.id[1], r.id[2])
        PROVE  x \in DiagnosticType
    <2>1. PICK p \in docs \X DOMAIN Offset : \E what \in {"declares", "ref"} : StatedAt(f, docs, nodes, r, p, what)
      BY <1>0, ReferenceTypes
    <2>2. r.id[1] \in Docs /\ r.id[2] \in DOMAIN Offset /\ r.id[2] # 0
      BY <1>0, <1>a, <2>1 DEF StatedAt
    <2>3. PICK code : code = CodeFor(ResolveReference(r, groups, nodes))
      OBVIOUS
    <2>4. code \in {"MALFORMED_REFERENCE", "UNQUALIFIED_CROSS_SPEC_REFERENCE", "BROKEN_REFERENCE",
                "AMBIGUOUS_REFERENCE", "FORBIDDEN_EDGE_ENDPOINT"}
      BY <1>5, <2>3, ReasonCodes
    <2>5. code \in Range(Codes) \ {"DIAGNOSTIC_LIMIT_REACHED"} /\ code \notin LargeCodes
      BY <2>4, CodesListed DEF LargeCodes
    <2> QED BY <1>5, <2>2, <2>3, <2>5, DiagnosticIn
  <1>6. \/ \E d \in entries.large : x = Diagnostic("FILE_TOO_LARGE", d, 0)
        \/ \E d \in entries.refused : x = Diagnostic("CORPUS_LIMIT_EXCEEDED", d, 0)
        \/ \E p \in Places(f, docs, "bad") :
               x = Diagnostic(IF DocumentKind[p[1]] = "FEATURE" THEN "MISSING_SCENARIO_ID" ELSE "MALFORMED_HEADING",
                              p[1], p[2])
        \/ \E id \in DOMAIN groups : \E code \in {"DUPLICATE_DEFINITION", "INVALID_AC_PARENT"} :
               x = Diagnostic(code, Primary(groups[id])[1], Primary(groups[id])[2])
        \/ \E r \in References(f, docs, nodes) :
               /\ ResolveReference(r, groups, nodes) # "RESOLVED"
               /\ x = Diagnostic(CodeFor(ResolveReference(r, groups, nodes)), r.id[1], r.id[2])
    BY DEF Diagnostics, Ambiguous, Elected
  <1> QED BY <1>1, <1>2, <1>3, <1>4, <1>5, <1>6

\* The notice of the overflow is no finding.
LEMMA OverflowApart == Overflow \notin DiagnosticType
  BY DEF Overflow, DiagnosticType

\* Two items of a document have different offsets.
LEMMA AtTypes ==
    /\ \A i \in {0} \cup DOMAIN Offset : At(i) \in Nat
    /\ \A i, j \in DOMAIN Offset : At(i) = At(j) => i = j
  BY OffsetsListed, OrdersAssumption DEF At, IsInjective

\* Two pairs make four numbers.
LEMMA PairsConcat ==
    ASSUME NEW a \in Int, NEW b \in Int, NEW c \in Int, NEW d \in Int
    PROVE  <<a, b>> \o <<c, d>> = <<a, b, c, d>>
  <1>1. PICK k : k = <<a, b>>
    OBVIOUS
  <1>2. PICK l : l = <<c, d>>
    OBVIOUS
  <1>3. k \in Keys(2) /\ l \in Keys(2) /\ k[1] = a /\ k[2] = b /\ l[1] = c /\ l[2] = d
    BY <1>1, <1>2 DEF Keys
  <1>4. PICK m : m = k \o l
    OBVIOUS
  <1>5. m \in Keys(2 + 2) /\ (\A i \in 1 .. 2 : m[i] = k[i]) /\ \A i \in 1 .. 2 : m[2 + i] = l[i]
    <2>1. 2 \in Nat /\ k \in Keys(2) /\ l \in Keys(2)
      BY <1>3
    <2>2. k \o l \in Keys(2 + 2) /\ (\A i \in 1 .. 2 : (k \o l)[i] = k[i]) /\ \A i \in 1 .. 2 : (k \o l)[2 + i] = l[i]
      BY <2>1, ConcatKeys, Zenon
    <2> QED BY <1>4, <2>2, Zenon
  <1>6. m \in [1 .. 4 -> Int] /\ m[1] = a /\ m[2] = b /\ m[3] = c /\ m[4] = d
    BY <1>3, <1>5 DEF Keys
  <1>7. m = <<a, b, c, d>>
    BY <1>6
  <1> QED BY <1>1, <1>2, <1>4, <1>7

\* Diagnostics have keys of four numbers, and no two have the same.
LEMMA DiagnosticKeyTypes ==
    /\ \A x \in DiagnosticType : DiagnosticKey(x) \in Keys(4)
    /\ \A x, y \in DiagnosticType : DiagnosticKey(x) = DiagnosticKey(y) => x = y
  <1> DEFINE sev(x) == IF Severity(x.code) = "ERROR" THEN 0 ELSE 1
  <1>1. \A x \in DiagnosticType : /\ Rank(Codes, x.code) \in Nat /\ Codes[Rank(Codes, x.code)] = x.code
                                  /\ Rank(PathOrder, x.doc) \in Nat /\ PathOrder[Rank(PathOrder, x.doc)] = x.doc
                                  /\ At(x.at) \in Nat
    <2> TAKE x \in DiagnosticType
    <2>1. x.code \in Range(Codes) /\ x.doc \in Range(PathOrder) /\ x.at \in {0} \cup DOMAIN Offset
      BY DEF DiagnosticType, Docs
    <2>2. Rank(Codes, x.code) \in 1 .. 12 /\ Codes[Rank(Codes, x.code)] = x.code
      BY <2>1, CodesListed, RankOf
    <2>3. Rank(PathOrder, x.doc) \in Nat /\ PathOrder[Rank(PathOrder, x.doc)] = x.doc
      BY <2>1, OrdersAssumption, RankOfListed
    <2>4. At(x.at) \in Nat
      BY <2>1, AtTypes
    <2>5. Rank(Codes, x.code) \in Nat
      BY <2>2
    <2> QED BY <2>2, <2>3, <2>4, <2>5
  <1>2. \A x \in DiagnosticType : DiagnosticKey(x) = <<sev(x), Rank(Codes, x.code), Rank(PathOrder, x.doc), At(x.at)>>
    <2> TAKE x \in DiagnosticType
    <2>1. x # Overflow
      BY OverflowApart
    <2>2. DiagnosticKey(x) = <<sev(x), Rank(Codes, x.code)>> \o <<Rank(PathOrder, x.doc), At(x.at)>>
      BY <2>1 DEF DiagnosticKey
    <2>3. PICK a : a = sev(x)
      OBVIOUS
    <2>4. PICK b : b = Rank(Codes, x.code)
      OBVIOUS
    <2>5. PICK c : c = Rank(PathOrder, x.doc)
      OBVIOUS
    <2>6. PICK d : d = At(x.at)
      OBVIOUS
    <2>7. a \in Int /\ b \in Int /\ c \in Int /\ d \in Int
      BY <1>1, <2>3, <2>4, <2>5, <2>6
    <2>8. <<a, b>> \o <<c, d>> = <<a, b, c, d>>
      BY <2>7, PairsConcat
    <2> QED BY <2>2, <2>3, <2>4, <2>5, <2>6, <2>8
  <1>3. \A x \in DiagnosticType : DiagnosticKey(x) \in Keys(4)
    BY <1>1, <1>2 DEF Keys
  <1>4. ASSUME NEW x \in DiagnosticType, NEW y \in DiagnosticType, DiagnosticKey(x) = DiagnosticKey(y) PROVE x = y
    <2>1. /\ Rank(Codes, x.code) = Rank(Codes, y.code) /\ Rank(PathOrder, x.doc) = Rank(PathOrder, y.doc)
          /\ At(x.at) = At(y.at)
      <3> HIDE DEF sev
      <3> QED BY <1>2, <1>4
    <2>2. x.code = y.code /\ x.doc = y.doc
      BY <1>1, <2>1
    <2>3. x.at = y.at
      <3>1. x.at \in {0} \cup DOMAIN Offset /\ y.at \in {0} \cup DOMAIN Offset /\ (x.at = 0 <=> y.at = 0)
        BY <2>2 DEF DiagnosticType
      <3> QED BY <2>1, <3>1, AtTypes
    <2> QED BY <2>2, <2>3 DEF DiagnosticType
  <1> QED BY <1>3, <1>4

\* Errors come before warnings.
LEMMA SeverityLeads ==
    ASSUME NEW x \in DiagnosticType
    PROVE  DiagnosticKey(x)[1] = IF Severity(x.code) = "ERROR" THEN 0 ELSE 1
  <1>1. PICK k : k = <<IF Severity(x.code) = "ERROR" THEN 0 ELSE 1, Rank(Codes, x.code)>>
    OBVIOUS
  <1>2. PICK l : l = <<Rank(PathOrder, x.doc), At(x.at)>>
    OBVIOUS
  <1>3. x # Overflow
    BY OverflowApart
  <1>4. DiagnosticKey(x) = k \o l
    BY <1>1, <1>2, <1>3 DEF DiagnosticKey
  <1>5. x.code \in Range(Codes) /\ x.doc \in Range(PathOrder) /\ x.at \in {0} \cup DOMAIN Offset
    BY DEF DiagnosticType, Docs
  <1>6. Rank(Codes, x.code) \in 1 .. 12
    BY <1>5, CodesListed, RankOf
  <1>7. Rank(PathOrder, x.doc) \in Nat
    BY <1>5, OrdersAssumption, RankOfListed
  <1>8. At(x.at) \in Nat
    BY <1>5, AtTypes
  <1>9. k \in Keys(2) /\ l \in Keys(2) /\ 2 \in Nat /\ 1 \in 1 .. 2
    BY <1>1, <1>2, <1>6, <1>7, <1>8 DEF Keys
  <1>10. (k \o l)[1] = k[1]
    BY <1>9, ConcatKeys, Zenon
  <1> QED BY <1>1, <1>4, <1>10

-----------------------------------------------------------------------------
\* The types of edges, in their order.
LEMMA TypesListed == DOMAIN Types = 1 .. 8
  BY DEF Types

\* The last four components of the key of an edge.
Stated(e) ==
    <<Rank(Types, e.type), Rank(PathOrder, e.id[1]), At(e.id[2]), IF e.id[3] = "ref" THEN 1 ELSE 0>>

\* These components are numbers, and tell the type and the place.
LEMMA StatedTypes ==
    ASSUME NEW docs \in SUBSET Docs, NEW nodes, NEW e, EdgeShape(docs, nodes, e)
    PROVE  /\ Stated(e) \in Keys(4)
           /\ Rank(Types, e.type) \in Nat /\ Types[Rank(Types, e.type)] = e.type
           /\ Rank(PathOrder, e.id[1]) \in Nat /\ PathOrder[Rank(PathOrder, e.id[1])] = e.id[1]
           /\ At(e.id[2]) \in Nat
  <1>1. e.type \in Range(Types) /\ e.id[1] \in Range(PathOrder) /\ e.id[2] \in {0} \cup DOMAIN Offset
    BY DEF EdgeShape, Docs
  <1>2. Rank(Types, e.type) \in 1 .. 8 /\ Types[Rank(Types, e.type)] = e.type
    BY <1>1, TypesListed, RankOf
  <1>3. Rank(PathOrder, e.id[1]) \in Nat /\ PathOrder[Rank(PathOrder, e.id[1])] = e.id[1]
    BY <1>1, OrdersAssumption, RankOfListed
  <1>4. At(e.id[2]) \in Nat
    BY <1>1, AtTypes
  <1>5. Rank(Types, e.type) \in Nat
    BY <1>2
  <1>6. Stated(e) \in Keys(4)
    BY <1>3, <1>4, <1>5 DEF Stated, Keys
  <1> QED BY <1>2, <1>3, <1>4, <1>5, <1>6

\* Edges have keys of eight numbers,
LEMMA EdgeKeyTypes ==
    ASSUME NEW docs \in SUBSET Docs, NEW nodes \in SUBSET Ids, NEW e, EdgeShape(docs, nodes, e)
    PROVE  /\ IdKey(e.from) \in Keys(2) /\ IdKey(e.to) \in Keys(2)
           /\ IdKey(e.from) \o IdKey(e.to) \in Keys(4)
           /\ EdgeKey(e) = (IdKey(e.from) \o IdKey(e.to)) \o Stated(e)
           /\ EdgeKey(e) \in Keys(8)
           /\ EdgeKey(e)[7] \in Nat
  <1>1. e.from \in Ids /\ e.to \in Ids
    BY DEF EdgeShape
  <1>2. IdKey(e.from) \in Keys(2) /\ IdKey(e.to) \in Keys(2)
    BY <1>1, IdKeyTypes
  <1>3. IdKey(e.from) \o IdKey(e.to) \in Keys(4)
    <2>1. PICK a \in Keys(2) : a = IdKey(e.from)
      BY <1>2
    <2>2. PICK b \in Keys(2) : b = IdKey(e.to)
      BY <1>2
    <2>3. a \o b \in Keys(2 + 2)
      BY ConcatKeys
    <2>4. 2 + 2 = 4
      OBVIOUS
    <2> QED BY <2>1, <2>2, <2>3, <2>4, Zenon
  <1>4. EdgeKey(e) = (IdKey(e.from) \o IdKey(e.to)) \o Stated(e)
    BY DEF EdgeKey, Stated
  <1>5. Stated(e) \in Keys(4) /\ At(e.id[2]) \in Nat
    BY StatedTypes
  <1>6. EdgeKey(e) \in Keys(8) /\ EdgeKey(e)[7] \in Nat
    <2>1. PICK a \in Keys(4) : a = IdKey(e.from) \o IdKey(e.to)
      BY <1>3
    <2>2. PICK b \in Keys(4) : b = Stated(e)
      BY <1>5
    <2>3. a \o b \in Keys(4 + 4) /\ \A i \in 1 .. 4 : (a \o b)[4 + i] = b[i]
      <3>1. 4 \in Nat
        OBVIOUS
      <3> QED BY <3>1, ConcatKeys, Zenon
    <2>4. b[3] = At(e.id[2])
      BY <2>2 DEF Stated
    <2>5. (a \o b)[4 + 3] = b[3] /\ 4 + 4 = 8 /\ 4 + 3 = 7
      <3>1. 3 \in 1 .. 4 /\ 4 + 4 = 8 /\ 4 + 3 = 7
        OBVIOUS
      <3> QED BY <2>3, <3>1, Zenon
    <2>6. (a \o b)[7] = b[3] /\ a \o b \in Keys(8)
      BY <2>3, <2>5, Zenon
    <2>7. EdgeKey(e) = a \o b
      BY <1>4, <2>1, <2>2, Zenon
    <2> QED BY <1>5, <2>4, <2>6, <2>7, Zenon
  <1> QED BY <1>2, <1>3, <1>4, <1>6

\* and no two have the same.
LEMMA EdgeKeyInjective ==
    ASSUME NEW docs \in SUBSET Docs, NEW nodes \in SUBSET Ids,
           NEW e, EdgeShape(docs, nodes, e), NEW d, EdgeShape(docs, nodes, d), EdgeKey(e) = EdgeKey(d)
    PROVE  e = d
  <1>1. IdKey(e.from) \o IdKey(e.to) = IdKey(d.from) \o IdKey(d.to) /\ Stated(e) = Stated(d)
    <2>1. PICK a \in Keys(4) : a = IdKey(e.from) \o IdKey(e.to)
      BY EdgeKeyTypes
    <2>2. PICK b \in Keys(4) : b = Stated(e)
      BY StatedTypes
    <2>3. PICK c \in Keys(4) : c = IdKey(d.from) \o IdKey(d.to)
      BY EdgeKeyTypes
    <2>4. PICK h \in Keys(4) : h = Stated(d)
      BY StatedTypes
    <2>5. a \o b = c \o h
      <3>1. EdgeKey(e) = (IdKey(e.from) \o IdKey(e.to)) \o Stated(e)
        BY EdgeKeyTypes
      <3>2. EdgeKey(d) = (IdKey(d.from) \o IdKey(d.to)) \o Stated(d)
        BY EdgeKeyTypes
      <3> QED BY <2>1, <2>2, <2>3, <2>4, <3>1, <3>2, Zenon
    <2>6. 2 \in Nat /\ 4 \in Nat /\ Joined(a, b) = Joined(c, h)
      BY <2>5, Zenon DEF Joined
    <2>7. a = c /\ b = h
      BY <2>6, JoinedInjective
    <2> QED BY <2>1, <2>2, <2>3, <2>4, <2>7, Zenon
  <1>2. IdKey(e.from) = IdKey(d.from) /\ IdKey(e.to) = IdKey(d.to)
    <2>1. PICK a \in Keys(2) : a = IdKey(e.from)
      BY EdgeKeyTypes
    <2>2. PICK b \in Keys(2) : b = IdKey(e.to)
      BY EdgeKeyTypes
    <2>3. PICK c \in Keys(2) : c = IdKey(d.from)
      BY EdgeKeyTypes
    <2>4. PICK h \in Keys(2) : h = IdKey(d.to)
      BY EdgeKeyTypes
    <2>5. a \o b = c \o h
      BY <1>1, <2>1, <2>2, <2>3, <2>4, Zenon
    <2>6. 2 \in Nat /\ 4 \in Nat /\ Joined(a, b) = Joined(c, h)
      BY <2>5, Zenon DEF Joined
    <2>7. a = c /\ b = h
      BY <2>6, JoinedInjective
    <2> QED BY <2>1, <2>2, <2>3, <2>4, <2>7, Zenon
  <1>3. e.from = d.from /\ e.to = d.to
    <2>1. e.from \in Ids /\ e.to \in Ids /\ d.from \in Ids /\ d.to \in Ids
      BY DEF EdgeShape
    <2> QED BY <1>2, <2>1, IdKeyTypes
  <1>4. /\ Rank(Types, e.type) = Rank(Types, d.type) /\ Rank(PathOrder, e.id[1]) = Rank(PathOrder, d.id[1])
        /\ At(e.id[2]) = At(d.id[2]) /\ (e.id[3] = "ref" <=> d.id[3] = "ref")
    BY <1>1 DEF Stated
  <1>5. e.type = d.type /\ e.id[1] = d.id[1]
    BY <1>4, StatedTypes
  <1>6. e.id[3] = d.id[3] /\ e.id[2] = d.id[2]
    <2>1. "ROADMAP" \notin Locals
      BY DocsAssumption
    <2>2. e.id[3] = d.id[3]
      BY <1>3, <1>4, <2>1 DEF EdgeShape
    <2>3. e.id[3] = "roadmap" => e.id[2] = 0 /\ d.id[2] = 0
      BY <2>2 DEF EdgeShape
    <2>4. e.id[3] # "roadmap" => e.id[2] \in DOMAIN Offset /\ d.id[2] \in DOMAIN Offset
      BY <2>2 DEF EdgeShape
    <2> QED BY <1>4, <2>2, <2>3, <2>4, AtTypes
  <1>7. e.id = d.id
    BY <1>5, <1>6 DEF EdgeShape
  <1> QED BY <1>3, <1>5, <1>7 DEF EdgeShape

-----------------------------------------------------------------------------
\* There are finitely many diagnostics.
LEMMA FiniteDiagnosticType == IsFiniteSet(DiagnosticType)
  <1>1. PICK C : C = Range(Codes)
    OBVIOUS
  <1>2. PICK I : I = {0} \cup DOMAIN Offset
    OBVIOUS
  <1>3. IsFiniteSet(C)
    <2>1. IsFiniteSet(1 .. 12) /\ DOMAIN Codes = 1 .. 12
      <3>1. 1 \in Int /\ 12 \in Int
        OBVIOUS
      <3> QED BY <3>1, CodesListed, FS_Interval, Zenon
    <2>2. PICK h : h = Codes
      OBVIOUS
    <2>3. IsFiniteSet({h[i] : i \in 1 .. 12})
      BY <2>1, <2>2, FiniteImage
    <2>4. C = {h[i] : i \in 1 .. 12}
      BY <1>1, <2>1, <2>2 DEF Range
    <2> QED BY <2>3, <2>4
  <1>4. IsFiniteSet(I)
    BY <1>2, FiniteDocs, FS_Singleton, FS_Union
  <1>5. IsFiniteSet((C \X Docs) \X I)
    BY <1>3, <1>4, FiniteDocs, FS_Product
  <1>6. PICK h : h = [x \in (C \X Docs) \X I |-> [code |-> x[1][1], doc |-> x[1][2], at |-> x[2]]]
    OBVIOUS
  <1>7. IsFiniteSet({h[x] : x \in (C \X Docs) \X I})
    BY <1>5, <1>6, FiniteImage
  <1>8. DiagnosticType \subseteq {h[x] : x \in (C \X Docs) \X I}
    <2> SUFFICES ASSUME NEW g \in DiagnosticType PROVE \E x \in (C \X Docs) \X I : g = h[x]
      OBVIOUS
    <2>1. g = [code |-> g.code, doc |-> g.doc, at |-> g.at] /\ g.code \in C /\ g.doc \in Docs /\ g.at \in I
      BY <1>1, <1>2 DEF DiagnosticType
    <2>2. <<<<g.code, g.doc>>, g.at>> \in (C \X Docs) \X I
      BY <2>1
    <2>3. h[<<<<g.code, g.doc>>, g.at>>] = g
      BY <1>6, <2>1, <2>2
    <2> QED BY <2>2, <2>3
  <1> QED BY <1>7, <1>8, FS_Subset

\* A set of diagnostics in the order of their keys.
LEMMA DiagnosticsSorted ==
    ASSUME NEW S \in SUBSET DiagnosticType
    PROVE  /\ ByDiagnosticKey(S) \in Seq(S) /\ Range(ByDiagnosticKey(S)) = S
           /\ \A i, j \in DOMAIN ByDiagnosticKey(S) :
                  i < j => Precedes(DiagnosticKey(ByDiagnosticKey(S)[i]), DiagnosticKey(ByDiagnosticKey(S)[j]))
  <1>1. PICK key : key = [x \in S |-> DiagnosticKey(x)]
    OBVIOUS
  <1>2. key \in [S -> Keys(4)]
    BY <1>1, DiagnosticKeyTypes
  <1>3. IsInjective(key)
    BY <1>1, DiagnosticKeyTypes DEF IsInjective
  <1>4. IsFiniteSet(S)
    BY FiniteDiagnosticType, FS_Subset
  <1>5. PICK s : s = Sorted(S, key)
    OBVIOUS
  <1>6. /\ s \in Seq(S) /\ Range(s) = S
        /\ \A i, j \in DOMAIN s : i < j => Precedes(key[s[i]], key[s[j]])
    BY <1>2, <1>3, <1>4, <1>5, SortedBy
  <1>7. ByDiagnosticKey(S) = s
    BY <1>1, <1>5 DEF ByDiagnosticKey
  <1>8. \A i, j \in DOMAIN s : i < j => Precedes(DiagnosticKey(s[i]), DiagnosticKey(s[j]))
    <2>1. \A i \in DOMAIN s : s[i] \in S
      BY <1>6
    <2>2. \A i \in DOMAIN s : key[s[i]] = DiagnosticKey(s[i])
      BY <1>1, <2>1
    <2> QED BY <1>6, <2>2
  <1> QED BY <1>6, <1>7, <1>8

\* What the limit leaves of a list of diagnostics.
LEMMA CappedTypes ==
    ASSUME NEW S \in SUBSET DiagnosticType, NEW list \in Seq(S)
    PROVE  /\ Capped(list) \in Seq(S \cup {Overflow}) /\ Len(Capped(list)) <= MaxDiagnostics
           /\ Overflow \notin Range(Capped(list)) => Capped(list) = list
           /\ Len(Capped(list)) < MaxDiagnostics => Capped(list) = list
           /\ \A i \in 1 .. Len(list) : i < MaxDiagnostics => i \in DOMAIN Capped(list) /\ Capped(list)[i] = list[i]
  <1>1. PICK N \in Nat : N = Len(list)
    OBVIOUS
  <1>2. PICK M \in Nat \ {0} : M = MaxDiagnostics
    BY LimitsAssumption
  <1>a. DOMAIN list = 1 .. N /\ list \in Seq(S \cup {Overflow})
    BY <1>1
  <1>3. CASE N <= M
    <2>1. Capped(list) = list
      BY <1>1, <1>2, <1>3 DEF Capped
    <2> QED BY <1>1, <1>2, <1>3, <1>a, <2>1
  <1>4. CASE N > M
    <2>1. PICK s : s = SubSeq(list, 1, M - 1)
      OBVIOUS
    <2>2. s \in Seq(S) /\ Len(s) = M - 1 /\ \A i \in 1 .. M - 1 : s[i] = list[i]
      BY <1>1, <1>2, <1>4, <2>1
    <2>3. Capped(list) = Append(s, Overflow)
      BY <1>1, <1>2, <1>4, <2>1 DEF Capped
    <2>4. PICK t : t = Append(s, Overflow)
      OBVIOUS
    <2>5. t \in Seq(S \cup {Overflow}) /\ Len(t) = M /\ t[M] = Overflow /\ DOMAIN t = 1 .. M
          /\ \A i \in 1 .. M - 1 : t[i] = list[i]
      <3>1. s \in Seq(S \cup {Overflow})
        BY <2>2
      <3> QED BY <1>2, <2>2, <2>4, <3>1
    <2>6. M \in DOMAIN t
      BY <2>5, <1>2
    <2>7. Overflow \in Range(t)
      BY <2>5, <2>6 DEF Range
    <2>8. Capped(list) = t
      BY <2>3, <2>4
    <2> QED BY <1>1, <1>2, <2>5, <2>7, <2>8
  <1> QED BY <1>1, <1>2, <1>3, <1>4

-----------------------------------------------------------------------------
Accepted(f) == Entries(f).accepted
GroupsOf(f) == Groups(f, Accepted(f))
NodesOf(f) == Nodes(GroupsOf(f), Accepted(f))
RefsOf(f) == References(f, Accepted(f), NodesOf(f))
BuiltEdges(f) == EdgesOf(f, Accepted(f), GroupsOf(f), NodesOf(f), RefsOf(f))
FoundIn(f) == Diagnostics(f, Entries(f), GroupsOf(f), NodesOf(f), RefsOf(f))

\* The graph of a corpus, by its parts.
LEMMA Built ==
    ASSUME NEW f
    PROVE  /\ BuildKernelGraph(f).fingerprint = f
           /\ BuildKernelGraph(f).documents = Present(f)
           /\ BuildKernelGraph(f).accepted = Accepted(f)
           /\ BuildKernelGraph(f).nodes = NodesOf(f)
           /\ BuildKernelGraph(f).edges = BuiltEdges(f)
           /\ BuildKernelGraph(f).diagnostics = Capped(ByDiagnosticKey(FoundIn(f)))
  <1>1. BuildKernelGraph(f) = GraphOf(f, Entries(f), GroupsOf(f), NodesOf(f), RefsOf(f))
    BY DEF BuildKernelGraph, GroupsOf, NodesOf, RefsOf, Accepted
  <1>2. BuildKernelGraph(f) =
            [fingerprint |-> f, documents |-> Present(f), accepted |-> Accepted(f), nodes |-> NodesOf(f),
             edges |-> BuiltEdges(f), diagnostics |-> Capped(ByDiagnosticKey(FoundIn(f)))]
    BY <1>1 DEF GraphOf, FoundIn, BuiltEdges, EdgesOf, Accepted
  <1> QED BY <1>2

\* The nodes of a graph are identities; what is accepted is there.
LEMMA BuiltNodes ==
    ASSUME NEW f, Corpus(f)
    PROVE  /\ Accepted(f) \in SUBSET Docs /\ NodesOf(f) \in SUBSET Ids /\ IsFiniteSet(NodesOf(f))
           /\ Accepted(f) \subseteq Present(f)
  <1>1. Accepted(f) \in SUBSET Docs
    BY EntriesTypes DEF Accepted, Admissions
  <1>2. NodesOf(f) \in SUBSET Ids /\ IsFiniteSet(NodesOf(f))
    BY <1>1, NodeTypes, FiniteNodes DEF NodesOf, GroupsOf
  <1>3. Accepted(f) \subseteq Present(f)
    <2>1. PICK a : Entering(f, a)
      BY CorpusSized, EnteringExists
    <2>2. PICK N \in Nat : N = Paths
      BY PathsListed
    <2> DEFINE P == {n \in 0 .. N : a[n].accepted \subseteq Present(f)}
    <2>3. 0 \in P
      BY <2>1 DEF Entering, NoAdmission
    <2>4. ASSUME NEW n \in 1 .. N, n - 1 \in P PROVE n \in P
      <3>1. a[n - 1] \in Admissions /\ a[n - 1].accepted \subseteq Present(f) /\ PathOrder[n] \in Docs
        BY <2>1, <2>2, <2>4, PathsListed DEF Entering
      <3>2. a[n] = Admitted(f, a[n - 1], PathOrder[n])
        BY <2>1, <2>2 DEF Entering
      <3>3. CASE f[PathOrder[n]] = Absent
        BY <3>1, <3>2, <3>3 DEF Admitted
      <3>4. CASE f[PathOrder[n]] # Absent
        <4>1. PathOrder[n] \in Present(f) /\ a[n] = Admit(f, a[n - 1], PathOrder[n])
          BY <3>1, <3>2, <3>4 DEF Admitted, Present
        <4>2. a[n].accepted = a[n - 1].accepted \/ a[n].accepted = a[n - 1].accepted \cup {PathOrder[n]}
          BY <3>1, <4>1 DEF Admit, Admissions
        <4> QED BY <3>1, <4>1, <4>2
      <3> QED BY <3>3, <3>4
    <2>5. 0 .. N \subseteq P
      <3> HIDE DEF P
      <3> QED BY <2>3, <2>4, Upto
    <2>6. N \in 0 .. N
      OBVIOUS
    <2>7. a[N].accepted \subseteq Present(f)
      BY <2>5, <2>6
    <2> QED BY <2>1, <2>2, <2>7 DEF Entering, Accepted
  <1> QED BY <1>1, <1>2, <1>3

\* The groups of a graph.
LEMMA BuiltGroups ==
    ASSUME NEW f, Corpus(f)
    PROVE  /\ DOMAIN GroupsOf(f) \subseteq Ids /\ IsFiniteSet(DOMAIN GroupsOf(f))
           /\ \A id \in DOMAIN GroupsOf(f) :
                  /\ GroupsOf(f)[id] = {p \in Places(f, Accepted(f), "def") : Defined(f, p) = id}
                  /\ GroupsOf(f)[id] # {} /\ IsFiniteSet(GroupsOf(f)[id])
                  /\ GroupsOf(f)[id] \in SUBSET (Docs \X DOMAIN Offset)
                  /\ id.local \in Locals
           /\ \A p \in Places(f, Accepted(f), "def") : Defined(f, p) \in DOMAIN GroupsOf(f)
  <1>1. PICK docs \in SUBSET Docs : docs = Accepted(f)
    BY BuiltNodes
  <1>2. DOMAIN Groups(f, docs) \subseteq Ids
    BY GroupTypes
  <1>3. IsFiniteSet(DOMAIN Groups(f, docs)) /\ \A id \in DOMAIN Groups(f, docs) : IsFiniteSet(Groups(f, docs)[id])
    BY FiniteGroups
  <1>4. \A id \in DOMAIN Groups(f, docs) :
                  /\ Groups(f, docs)[id] = {p \in Places(f, docs, "def") : Defined(f, p) = id}
                  /\ Groups(f, docs)[id] # {} /\ Groups(f, docs)[id] \subseteq docs \X DOMAIN Offset
                  /\ id.local \in Locals
    BY GroupTypes
  <1>5. \A p \in Places(f, docs, "def") : Defined(f, p) \in DOMAIN Groups(f, docs)
    BY GroupTypes
  <1>6. \A id \in DOMAIN Groups(f, docs) : Groups(f, docs)[id] \in SUBSET (Docs \X DOMAIN Offset)
    BY <1>4
  <1>7. GroupsOf(f) = Groups(f, docs)
    BY <1>1 DEF GroupsOf
  <1> QED BY <1>1, <1>2, <1>3, <1>4, <1>5, <1>6, <1>7

\* The edges of a graph.
LEMMA BuiltEdgeTypes ==
    ASSUME NEW f, Corpus(f)
    PROVE  /\ IsFiniteSet(BuiltEdges(f))
           /\ \A e \in BuiltEdges(f) : EdgeShape(Accepted(f), NodesOf(f), e)
  <1>1. Accepted(f) \in SUBSET Docs
    BY BuiltNodes
  <1>2. IsFiniteSet(BuiltEdges(f))
    BY <1>1, FiniteEdges DEF BuiltEdges, RefsOf
  <1>3. ASSUME NEW e \in BuiltEdges(f) PROVE EdgeShape(Accepted(f), NodesOf(f), e)
    <2>1. PICK docs \in SUBSET Docs : docs = Accepted(f)
      BY <1>1
    <2>2. PICK groups : groups = GroupsOf(f)
      OBVIOUS
    <2>3. PICK nodes : nodes = NodesOf(f)
      OBVIOUS
    <2>4. e \in EdgesOf(f, docs, groups, nodes, References(f, docs, nodes)) /\ nodes = Nodes(groups, docs)
      BY <2>1, <2>2, <2>3 DEF BuiltEdges, RefsOf, NodesOf
    <2>5. EdgeShape(docs, nodes, e)
      BY <2>4, EdgeTypes
    <2> QED BY <2>1, <2>3, <2>5
  <1> QED BY <1>2, <1>3

\* The findings of a graph.
LEMMA FoundTypes == ASSUME NEW f, Corpus(f) PROVE FoundIn(f) \in SUBSET DiagnosticType
  <1> SUFFICES ASSUME NEW x \in FoundIn(f) PROVE x \in DiagnosticType
    OBVIOUS
  <1>1. PICK entries \in Admissions : entries = Entries(f)
    BY EntriesTypes
  <1>2. PICK docs : docs = entries.accepted
    OBVIOUS
  <1>3. PICK groups : groups = Groups(f, docs)
    OBVIOUS
  <1>4. PICK nodes : nodes = NodesOf(f)
    OBVIOUS
  <1>5. x \in Diagnostics(f, entries, groups, nodes, References(f, docs, nodes))
    BY <1>1, <1>2, <1>3, <1>4 DEF FoundIn, GroupsOf, RefsOf, Accepted
  <1> QED BY <1>2, <1>3, <1>5, DiagnosticTypes

\* The diagnostics of a graph: all that were found, in order and each once, unless
\* their number ends in the notice; the errors are kept before everything else.
LEMMA BuiltDiagnostics ==
    ASSUME NEW f, Corpus(f), NEW list, list = BuildKernelGraph(f).diagnostics
    PROVE  /\ list \in Seq(FoundIn(f) \cup {Overflow}) /\ Len(list) <= MaxDiagnostics
           /\ Overflow \notin Range(list) \/ Len(list) < MaxDiagnostics =>
                 /\ Range(list) = FoundIn(f)
                 /\ \A i, j \in DOMAIN list : list[i] = list[j] => i = j
           /\ (\E x \in FoundIn(f) : Severity(x.code) = "ERROR") =>
                 \E i \in DOMAIN list : list[i] \in FoundIn(f) /\ Severity(list[i].code) = "ERROR"
  <1>1. PICK S \in SUBSET DiagnosticType : S = FoundIn(f)
    BY FoundTypes
  <1>2. PICK s : s = ByDiagnosticKey(S)
    OBVIOUS
  <1>3. /\ s \in Seq(S) /\ Range(s) = S
        /\ \A i, j \in DOMAIN s : i < j => Precedes(DiagnosticKey(s[i]), DiagnosticKey(s[j]))
    BY <1>2, DiagnosticsSorted
  <1>4. list = Capped(s)
    BY <1>1, <1>2, Built
  <1>5. /\ list \in Seq(S \cup {Overflow}) /\ Len(list) <= MaxDiagnostics
        /\ Overflow \notin Range(list) => list = s
        /\ Len(list) < MaxDiagnostics => list = s
        /\ \A i \in 1 .. Len(s) : i < MaxDiagnostics => i \in DOMAIN list /\ list[i] = s[i]
    BY <1>3, <1>4, CappedTypes
  <1>a. DOMAIN s = 1 .. Len(s) /\ Len(s) \in Nat /\ \A i \in DOMAIN s : s[i] \in S
    BY <1>3
  <1>b. \A i \in DOMAIN s : DiagnosticKey(s[i]) \in Keys(4)
    BY <1>a, DiagnosticKeyTypes
  <1>6. \A i, j \in DOMAIN s : s[i] = s[j] => i = j
    <2>1. \A i, j \in DOMAIN s : i < j => s[i] # s[j]
      <3> TAKE i, j \in DOMAIN s
      <3> HAVE i < j
      <3>1. PICK k \in Keys(4) : k = DiagnosticKey(s[i])
        BY <1>b
      <3>2. PICK l \in Keys(4) : l = DiagnosticKey(s[j])
        BY <1>b
      <3>3. Precedes(k, l) /\ 4 \in Nat
        BY <1>3, <3>1, <3>2
      <3>4. k # l
        BY <3>3, PrecedesStrict
      <3> QED BY <3>1, <3>2, <3>4
    <2> QED BY <1>a, <2>1
  <1>7. ASSUME NEW x \in S, Severity(x.code) = "ERROR"
        PROVE  \E i \in DOMAIN list : list[i] \in S /\ Severity(list[i].code) = "ERROR"
    <2>1. PICK h \in DOMAIN s : s[h] = x
      BY <1>3 DEF Range
    <2>2. 1 \in DOMAIN s /\ 1 \in 1 .. Len(s) /\ (h = 1 \/ 1 < h)
      BY <1>a, <2>1
    <2>3. 1 \in DOMAIN list /\ list[1] = s[1] /\ s[1] \in S
      BY <1>5, <1>a, <2>2, LimitsAssumption
    <2>4. Severity(s[1].code) = "ERROR"
      <3> SUFFICES ASSUME Severity(s[1].code) # "ERROR", h # 1 PROVE FALSE
        BY <1>7, <2>1
      <3>1. PICK k \in Keys(4) : k = DiagnosticKey(s[1])
        BY <1>b, <2>2
      <3>2. PICK l \in Keys(4) : l = DiagnosticKey(s[h])
        BY <1>b
      <3>3. Precedes(k, l) /\ 4 \in Nat
        BY <1>3, <2>2, <3>1, <3>2
      <3>4. k[1] = 1
        BY <2>3, <3>1, SeverityLeads
      <3>5. l[1] = 0
        BY <1>7, <2>1, <3>2, SeverityLeads
      <3>6. Precedes(l, k)
        <4>1. 1 \in DOMAIN l /\ l[1] < k[1]
          BY <3>4, <3>5 DEF Keys
        <4>2. \A j \in 1 .. 1 - 1 : l[j] = k[j]
          OBVIOUS
        <4> QED BY <4>1, <4>2 DEF Precedes
      <3> QED BY <3>3, <3>6, PrecedesStrict
    <2> QED BY <2>3, <2>4
  <1>8. Overflow \notin Range(list) \/ Len(list) < MaxDiagnostics =>
            Range(list) = S /\ \A i, j \in DOMAIN list : list[i] = list[j] => i = j
    BY <1>3, <1>5, <1>6
  <1> QED BY <1>1, <1>5, <1>7, <1>8

-----------------------------------------------------------------------------
\* What the service accepts and what the reader refuses agree: the entries of a corpus
\* reject no document exactly if the reader takes all of them, and then all that are
\* there are accepted.  (buildKernelGraph against readRepositorySpecs)
THEOREM AcceptedIfReadable ==
    ASSUME NEW f, Corpus(f)
    PROVE  /\ Readable(f) <=> Entries(f).large = {} /\ Entries(f).refused = {}
           /\ Readable(f) => Accepted(f) = Present(f)
  BY CorpusSized, ReadableEntered, EnteredReadable DEF Accepted

\* Every edge of a graph joins two of its nodes.  (resolveReference and the roadmap)
THEOREM EdgesJoinNodes ==
    ASSUME NEW f, Corpus(f)
    PROVE  \A e \in BuildKernelGraph(f).edges : {e.from, e.to} \subseteq BuildKernelGraph(f).nodes
  <1>1. \A e \in BuiltEdges(f) : e.from \in NodesOf(f) /\ e.to \in NodesOf(f)
    BY BuiltEdgeTypes DEF EdgeShape
  <1> QED BY <1>1, Built

\* The limit on diagnostics never hides that there is an error: of the findings that
\* are errors, one is in the list that the graph carries.
THEOREM ErrorsSurviveTheLimit ==
    ASSUME NEW f, Corpus(f), NEW x \in FoundIn(f), Severity(x.code) = "ERROR"
    PROVE  \E i \in DOMAIN BuildKernelGraph(f).diagnostics :
               Severity(BuildKernelGraph(f).diagnostics[i].code) = "ERROR"
  <1>1. PICK list : list = BuildKernelGraph(f).diagnostics
    OBVIOUS
  <1>2. \E i \in DOMAIN list : list[i] \in FoundIn(f) /\ Severity(list[i].code) = "ERROR"
    BY <1>1, BuiltDiagnostics
  <1> QED BY <1>1, <1>2
=============================================================================
