----------------------- MODULE EntryQueryPagingProofs -----------------------
(***************************************************************************)
(* Theorems about EntryQueryPaging, for every result, page size and batch. *)
(***************************************************************************)
EXTENDS EntryQueryPaging, FunctionTheorems, FiniteSetTheorems, SequenceTheorems, TLAPS

-----------------------------------------------------------------------------
(* Positions in order.                                                     *)

Below(S, i) == {j \in S : j < i}

LEMMA SmallerCount ==
    ASSUME NEW S, IsFiniteSet(S), NEW T \in SUBSET S
    PROVE  /\ IsFiniteSet(T) /\ Cardinality(T) \in Nat /\ Cardinality(S) \in Nat
           /\ Cardinality(T) <= Cardinality(S)
           /\ T # S => Cardinality(T) < Cardinality(S)
  <1>1. IsFiniteSet(T) /\ Cardinality(T) <= Cardinality(S) /\ (Cardinality(S) = Cardinality(T) => S = T)
    BY FS_Subset
  <1>2. Cardinality(T) \in Nat /\ Cardinality(S) \in Nat
    BY <1>1, FS_CardinalityType
  <1>3. QED
    BY <1>1, <1>2

\* The positions below one are fewer than all, and grow with it.
LEMMA BelowGrows ==
    ASSUME NEW S, S \subseteq Int, IsFiniteSet(S), NEW i \in S
    PROVE  /\ IsFiniteSet(Below(S, i)) /\ Cardinality(Below(S, i)) \in Nat /\ Cardinality(S) \in Nat
           /\ Cardinality(Below(S, i)) < Cardinality(S)
           /\ \A j \in S : i < j => Cardinality(Below(S, i)) < Cardinality(Below(S, j))
  <1>1. Below(S, i) \in SUBSET S /\ i \notin Below(S, i)
    BY DEF Below
  <1>2. Below(S, i) # S
    BY <1>1
  <1>3. ASSUME NEW j \in S, i < j
        PROVE  Cardinality(Below(S, i)) < Cardinality(Below(S, j))
    <2>i. \A x \in S : x \in Int
      OBVIOUS
    <2>t. \A x \in S : x < i => x < j
      BY <1>3, <2>i
    <2>1. Below(S, j) \in SUBSET S /\ i \in Below(S, j) /\ Below(S, i) \in SUBSET Below(S, j)
      BY <1>3, <2>t DEF Below
    <2>2. IsFiniteSet(Below(S, j)) /\ Below(S, i) # Below(S, j)
      BY <1>1, <2>1, SmallerCount
    <2>3. QED
      BY <2>1, <2>2, SmallerCount
  <1>4. QED
    BY <1>1, <1>2, <1>3, SmallerCount

\* Nth counts the positions.
LEMMA NthCounts ==
    ASSUME NEW S, S \subseteq Int, IsFiniteSet(S)
    PROVE  /\ Cardinality(S) \in Nat
           /\ \A k \in 1 .. Cardinality(S) :
                 Nth(S, k) \in S /\ Cardinality(Below(S, Nth(S, k))) = k - 1
           /\ \A i \in S : \E k \in 1 .. Cardinality(S) : i = Nth(S, k)
           /\ \A k, l \in 1 .. Cardinality(S) : k < l => Nth(S, k) < Nth(S, l)
  <1> DEFINE n    == Cardinality(S)
             Rank == [i \in S |-> Cardinality(Below(S, i)) + 1]
  <1>1. n \in Nat
    BY FS_CardinalityType
  <1>a. ASSUME NEW i \in S
        PROVE  Cardinality(Below(S, i)) \in Nat /\ Cardinality(Below(S, i)) < n
    BY BelowGrows
  <1>2. Rank \in [S -> 1 .. n]
    <2> HIDE DEF n
    <2>1. ASSUME NEW i \in S
          PROVE  Cardinality(Below(S, i)) + 1 \in 1 .. n
      BY <1>1, <1>a
    <2>2. QED
      BY <2>1
  <1>3. ASSUME NEW i \in S, NEW j \in S, i # j
        PROVE  Rank[i] # Rank[j]
    <2>i. i \in Int /\ j \in Int
      OBVIOUS
    <2>1. i < j \/ j < i
      BY <1>3, <2>i
    <2>n. Cardinality(Below(S, i)) \in Nat /\ Cardinality(Below(S, j)) \in Nat
      BY <1>a
    <2>2. Cardinality(Below(S, i)) # Cardinality(Below(S, j))
      <3>1. CASE i < j
        <4>1. Cardinality(Below(S, i)) < Cardinality(Below(S, j))
          BY <3>1, BelowGrows
        <4>2. QED
          BY <4>1, <2>n
      <3>2. CASE j < i
        <4>1. Cardinality(Below(S, j)) < Cardinality(Below(S, i))
          BY <3>2, BelowGrows
        <4>2. QED
          BY <4>1, <2>n
      <3>3. QED
        BY <2>1, <3>1, <3>2
    <2>3. QED
      BY <2>2, <1>a
  <1>4. Rank \in Injection(S, 1 .. n)
    BY <1>2, <1>3, Fun_IsInj
  <1>5. Cardinality(1 .. n) = n /\ IsFiniteSet(1 .. n)
    BY <1>1, FS_Interval
  <1>6. Rank \in Surjection(S, 1 .. n)
    BY <1>4, <1>5, FS_Injection
  <1>7. ASSUME NEW k \in 1 .. n
        PROVE  Nth(S, k) \in S /\ Cardinality(Below(S, Nth(S, k))) = k - 1
    <2>0. \A l \in 1 .. n : \E i \in S : Rank[i] = l
      <3> HIDE DEF n, Rank
      <3>1. QED
        BY <1>6, Fun_SurjectionProperties
    <2>1. PICK i \in S : Rank[i] = k
      BY <2>0
    <2>2. Cardinality(Below(S, i)) = k - 1
      BY <1>a, <2>1
    <2>3. QED
      BY <2>2 DEF Nth, Below
  <1>8. ASSUME NEW i \in S
        PROVE  \E k \in 1 .. n : i = Nth(S, k)
    <2>1. Rank[i] \in 1 .. n
      BY <1>2
    <2>2. Nth(S, Rank[i]) \in S /\ Cardinality(Below(S, Nth(S, Rank[i]))) = Rank[i] - 1
      BY <1>7, <2>1
    <2>3. Rank[Nth(S, Rank[i])] = Rank[i]
      BY <1>a, <2>1, <2>2
    <2>4. QED
      BY <1>3, <2>1, <2>2, <2>3
  <1>9. ASSUME NEW k \in 1 .. n, NEW l \in 1 .. n, k < l
        PROVE  Nth(S, k) < Nth(S, l)
    <2> HIDE DEF n
    <2>1. /\ Nth(S, k) \in S /\ Cardinality(Below(S, Nth(S, k))) = k - 1
          /\ Nth(S, l) \in S /\ Cardinality(Below(S, Nth(S, l))) = l - 1
      BY <1>7
    <2>2. k \in Int /\ l \in Int /\ ~(l - 1 < k - 1) /\ k - 1 # l - 1
      BY <1>1, <1>9
    <2>3. ~(Nth(S, l) < Nth(S, k)) /\ Nth(S, k) # Nth(S, l)
      BY <2>1, <2>2, BelowGrows
    <2>i. Nth(S, k) \in Int /\ Nth(S, l) \in Int
      BY <2>1
    <2>4. QED
      BY <2>i, <2>3
  <1>10. QED
    BY <1>1, <1>7, <1>8, <1>9

\* A position is the one with its number, and there is no other.
LEMMA NthOnly ==
    ASSUME NEW S, S \subseteq Int, IsFiniteSet(S), NEW i \in S, NEW k \in 1 .. Cardinality(S),
           Cardinality(Below(S, i)) = k - 1
    PROVE  i = Nth(S, k)
  <1>1. Nth(S, k) \in S /\ Cardinality(Below(S, Nth(S, k))) = k - 1 /\ Cardinality(S) \in Nat
    BY NthCounts
  <1>2. k - 1 \in Int
    BY <1>1
  <1>3. ~(k - 1 < k - 1)
    BY <1>2
  <1>4. ~(i < Nth(S, k)) /\ ~(Nth(S, k) < i)
    BY <1>1, <1>3, BelowGrows
  <1>5. i \in Int /\ Nth(S, k) \in Int
    BY <1>1
  <1>6. QED
    BY <1>4, <1>5

\* The positions up to m are the first ones.
LEMMA NthSame ==
    ASSUME NEW S, S \subseteq Int, IsFiniteSet(S), NEW m \in Int,
           NEW T \in SUBSET S, \A i \in S : i \in T <=> i <= m
    PROVE  \A k \in 1 .. Cardinality(T) : Nth(T, k) = Nth(S, k)
  <1>1. T \in SUBSET S /\ T \subseteq Int
    OBVIOUS
  <1>2. IsFiniteSet(T) /\ Cardinality(T) \in Nat /\ Cardinality(S) \in Nat
        /\ Cardinality(T) <= Cardinality(S)
    BY <1>1, SmallerCount
  <1>3. ASSUME NEW i \in T
        PROVE  Below(T, i) = Below(S, i)
    <2>i. \A x \in S : x \in Int
      OBVIOUS
    <2>1. \A x \in S : x < i => x <= m
      BY <2>i
    <2>2. \A x \in S : x < i => x \in T
      BY <2>1
    <2>3. QED
      BY <1>1, <2>2 DEF Below
  <1>4. ASSUME NEW k \in 1 .. Cardinality(T)
        PROVE  Nth(T, k) = Nth(S, k) /\ k \in 1 .. Cardinality(S) /\ Nth(T, k) \in T
    <2>1. Nth(T, k) \in T /\ Cardinality(Below(T, Nth(T, k))) = k - 1
      BY <1>1, <1>2, NthCounts
    <2>2. k \in 1 .. Cardinality(S)
      BY <1>2
    <2>3. Nth(T, k) \in S /\ Cardinality(Below(S, Nth(T, k))) = k - 1
      BY <1>1, <1>3, <2>1
    <2>4. QED
      BY <2>1, <2>2, <2>3, NthOnly
  <1>5. QED
    BY <1>4

LEMMA NthUpTo ==
    ASSUME NEW S, S \subseteq Int, IsFiniteSet(S), NEW m \in Int,
           NEW T \in SUBSET S, \A i \in S : i \in T <=> i <= m
    PROVE  /\ IsFiniteSet(T) /\ Cardinality(T) \in Nat /\ Cardinality(S) \in Nat
           /\ Cardinality(T) <= Cardinality(S)
           /\ \A k \in 1 .. Cardinality(S) : Nth(S, k) <= m <=> k <= Cardinality(T)
  <1>1. T \in SUBSET S /\ T \subseteq Int
    OBVIOUS
  <1>2. IsFiniteSet(T) /\ Cardinality(T) \in Nat /\ Cardinality(S) \in Nat
        /\ Cardinality(T) <= Cardinality(S)
    BY <1>1, SmallerCount
  <1>3. ASSUME NEW k \in 1 .. Cardinality(S), Nth(S, k) <= m
        PROVE  k <= Cardinality(T)
    <2>1. Nth(S, k) \in T
      BY <1>3, NthCounts
    <2>t. \A i \in T : \E l \in 1 .. Cardinality(T) : i = Nth(T, l)
      BY <1>1, <1>2, NthCounts
    <2>2. PICK l \in 1 .. Cardinality(T) : Nth(S, k) = Nth(T, l)
      BY <2>1, <2>t
    <2>l. l \in 1 .. Cardinality(T)
      BY <2>2
    <2>s. Nth(T, l) = Nth(S, l)
      BY <2>l, NthSame
    <2>3. Nth(S, k) = Nth(S, l) /\ l \in 1 .. Cardinality(S)
      BY <1>2, <2>2, <2>l, <2>s
    <2>i. Nth(S, k) \in Int
      BY <1>1, <2>1
    <2>4. Nth(S, k) \in Int /\ k \in Int /\ l \in Int /\ l <= Cardinality(T)
      BY <1>2, <2>i
    <2>5. ~(Nth(S, k) < Nth(S, l)) /\ ~(Nth(S, l) < Nth(S, k))
      BY <2>3, <2>4
    <2>6. ~(k < l) /\ ~(l < k)
      BY <2>3, <2>5, NthCounts
    <2>7. QED
      BY <2>4, <2>6
  <1>4. ASSUME NEW k \in 1 .. Cardinality(S), k <= Cardinality(T)
        PROVE  Nth(S, k) <= m
    <2>1. k \in 1 .. Cardinality(T)
      BY <1>2, <1>4
    <2>2. Nth(T, k) = Nth(S, k)
      BY <2>1, NthSame
    <2>3. Nth(T, k) \in T
      BY <1>1, <1>2, <2>1, NthCounts
    <2>4. QED
      BY <2>2, <2>3
  <1>5. QED
    BY <1>2, <1>3, <1>4

LEMMA LeastOf ==
    ASSUME NEW S, S \subseteq Int, IsFiniteSet(S), S # {}
    PROVE  \E x \in S : \A y \in S : x <= y
  <1>1. PICK s \in S : TRUE
    OBVIOUS
  <1>2. Cardinality(S) \in Nat /\ \E k \in 1 .. Cardinality(S) : s = Nth(S, k)
    BY NthCounts
  <1>3. 1 \in 1 .. Cardinality(S)
    BY <1>2
  <1>4. ASSUME NEW y \in S
        PROVE  Nth(S, 1) <= y
    <2>1. PICK l \in 1 .. Cardinality(S) : y = Nth(S, l)
      BY NthCounts
    <2>2. l = 1 \/ 1 < l
      BY <1>2
    <2>3. Nth(S, 1) = y \/ Nth(S, 1) < y
      BY <1>3, <2>1, <2>2, NthCounts
    <2>4. y \in Int /\ Nth(S, 1) \in Int
      BY <1>3, NthCounts
    <2>5. QED
      BY <2>3, <2>4
  <1>5. Nth(S, 1) \in S
    BY <1>3, NthCounts
  <1>6. QED
    BY <1>4, <1>5

-----------------------------------------------------------------------------
(* The entries of rows, in order.                                          *)

Met(rs) == Cardinality(Firsts(rs))

LEMMA FirstsFacts ==
    ASSUME NEW rs \in Seq(Row)
    PROVE  /\ DOMAIN rs = 1 .. Len(rs) /\ Len(rs) \in Nat
           /\ Firsts(rs) \subseteq 1 .. Len(rs) /\ Firsts(rs) \subseteq Int /\ IsFiniteSet(Firsts(rs))
           /\ \A i, j \in Firsts(rs) : rs[i].entry = rs[j].entry => i = j
           /\ \A i \in 1 .. Len(rs) : \E j \in Firsts(rs) : j <= i /\ rs[j].entry = rs[i].entry
  <1>1. DOMAIN rs = 1 .. Len(rs) /\ Len(rs) \in Nat
    BY LenProperties
  <1>2. Firsts(rs) \subseteq 1 .. Len(rs)
    BY <1>1 DEF Firsts
  <1>3. IsFiniteSet(1 .. Len(rs))
    BY <1>1, FS_Interval
  <1>4. IsFiniteSet(Firsts(rs)) /\ Firsts(rs) \subseteq Int
    BY <1>1, <1>2, <1>3, FS_Subset
  <1>5. ASSUME NEW i \in Firsts(rs), NEW j \in Firsts(rs), i < j
        PROVE  rs[i].entry # rs[j].entry
    <2>1. i \in 1 .. j - 1
      BY <1>1, <1>2, <1>5
    <2>2. QED
      BY <2>1 DEF Firsts
  <1>6. ASSUME NEW i \in Firsts(rs), NEW j \in Firsts(rs), rs[i].entry = rs[j].entry
        PROVE  i = j
    <2>1. ~(i < j) /\ ~(j < i)
      BY <1>5, <1>6
    <2>2. i \in Int /\ j \in Int
      BY <1>4
    <2>3. QED
      BY <2>1, <2>2
  <1>7. ASSUME NEW i \in 1 .. Len(rs)
        PROVE  \E j \in Firsts(rs) : j <= i /\ rs[j].entry = rs[i].entry
    <2> DEFINE T == {x \in 1 .. Len(rs) : x <= i /\ rs[x].entry = rs[i].entry}
    <2>1. i \in T /\ T \in SUBSET (1 .. Len(rs))
      BY <1>1
    <2>2. IsFiniteSet(T) /\ T \subseteq Int /\ T # {}
      BY <1>1, <1>3, <2>1, FS_Subset
    <2>3. PICK x \in T : \A y \in T : x <= y
      <3> HIDE DEF T
      <3>1. QED
        BY <2>2, LeastOf
    <2>4. ASSUME NEW y \in 1 .. x - 1
          PROVE  rs[y].entry # rs[x].entry
      <3>1. y \in 1 .. Len(rs) /\ y <= i /\ ~(x <= y)
        BY <1>1, <2>3
      <3>2. y \notin T
        BY <2>3, <3>1
      <3>3. QED
        BY <2>3, <3>1, <3>2
    <2>5. x \in Firsts(rs)
      BY <1>1, <2>3, <2>4 DEF Firsts
    <2>6. QED
      BY <2>3, <2>5
  <1>8. QED
    BY <1>1, <1>2, <1>4, <1>6, <1>7

LEMMA OrderFacts ==
    ASSUME NEW rs \in Seq(Row)
    PROVE  /\ Met(rs) \in Nat /\ Order(rs) \in Seq(Entry) /\ Len(Order(rs)) = Met(rs)
           /\ \A k \in 1 .. Met(rs) : /\ Nth(Firsts(rs), k) \in Firsts(rs)
                                      /\ Order(rs)[k] = rs[Nth(Firsts(rs), k)].entry
           /\ \A k, l \in 1 .. Met(rs) : Order(rs)[k] = Order(rs)[l] => k = l
           /\ \A i \in 1 .. Len(rs) : \E k \in 1 .. Met(rs) :
                 Order(rs)[k] = rs[i].entry /\ Nth(Firsts(rs), k) <= i
           /\ Size(rs) = Met(rs)
  <1> DEFINE F == Firsts(rs)
             n == Met(rs)
             e == [k \in 1 .. n |-> rs[Nth(F, k)].entry]
  <1>f. /\ DOMAIN rs = 1 .. Len(rs) /\ Len(rs) \in Nat
        /\ F \subseteq 1 .. Len(rs) /\ F \subseteq Int /\ IsFiniteSet(F)
        /\ \A i, j \in F : rs[i].entry = rs[j].entry => i = j
        /\ \A i \in 1 .. Len(rs) : \E j \in F : j <= i /\ rs[j].entry = rs[i].entry
    BY FirstsFacts
  <1>n. n \in Nat
    BY <1>f, NthCounts DEF Met
  <1>1. Order(rs) = e
    BY DEF Order, Pick, Met
  <1>2. ASSUME NEW i \in 1 .. Len(rs)
        PROVE  rs[i] \in Row /\ rs[i].entry \in Entry
    <2>1. rs[i] \in Row
      BY ElementOfSeq
    <2>2. QED
      BY <2>1 DEF Row
  <1>3. ASSUME NEW k \in 1 .. n
        PROVE  Nth(F, k) \in F /\ e[k] = rs[Nth(F, k)].entry /\ e[k] \in Entry
    <2>1. Nth(F, k) \in F
      BY <1>f, NthCounts DEF Met
    <2>2. QED
      BY <1>f, <1>2, <2>1
  <1>4. e \in [1 .. n -> Entry] /\ e \in Seq(Entry) /\ Len(e) = n
    <2> HIDE DEF n, F
    <2>1. e \in [1 .. n -> Entry]
      BY <1>3
    <2> HIDE DEF e
    <2>2. QED
      BY <1>n, <2>1
  <1>5. ASSUME NEW k \in 1 .. n, NEW l \in 1 .. n, e[k] = e[l]
        PROVE  k = l
    <2>1. Nth(F, k) = Nth(F, l)
      BY <1>f, <1>3, <1>5
    <2>2. Nth(F, k) \in Int /\ ~(Nth(F, k) < Nth(F, l)) /\ ~(Nth(F, l) < Nth(F, k))
      BY <1>f, <1>3, <2>1
    <2>3. ~(k < l) /\ ~(l < k)
      BY <1>f, <2>2, NthCounts DEF Met
    <2>4. QED
      BY <1>n, <2>3
  <1>6. ASSUME NEW i \in 1 .. Len(rs)
        PROVE  \E k \in 1 .. n : e[k] = rs[i].entry /\ Nth(F, k) <= i
    <2>1. PICK j \in F : j <= i /\ rs[j].entry = rs[i].entry
      BY <1>f
    <2>2. PICK k \in 1 .. n : j = Nth(F, k)
      BY <1>f, NthCounts DEF Met
    <2>3. QED
      BY <1>3, <2>1, <2>2
  <1>7. Size(rs) = n
    <2> DEFINE E == {r.entry : r \in ToSet(rs)}
    <2>1. ASSUME NEW k \in 1 .. n
          PROVE  e[k] \in E
      BY <1>f, <1>3 DEF ToSet
    <2>2. ASSUME NEW x \in E
          PROVE  \E k \in 1 .. n : e[k] = x
      <3>1. PICK i \in 1 .. Len(rs) : x = rs[i].entry
        BY <1>f DEF ToSet
      <3>2. QED
        BY <1>6, <3>1
    <2> HIDE DEF E, F, n
    <2>3. e \in [1 .. n -> E]
      BY <1>3, <2>1
    <2> HIDE DEF e
    <2>4. e \in Bijection(1 .. n, E)
      BY <1>5, <2>2, <2>3, Fun_IsBij
    <2>5. IsFiniteSet(1 .. n) /\ Cardinality(1 .. n) = n
      BY <1>n, FS_Interval
    <2>6. Cardinality(E) = Cardinality(1 .. n)
      BY <2>4, <2>5, FS_Bijection, Fun_ExistsBij
    <2>8. Cardinality(E) = n
      BY <2>5, <2>6
    <2>7. QED
      BY <2>8 DEF Size, E
  <1>8. QED
    BY <1>n, <1>1, <1>3, <1>4, <1>5, <1>6, <1>7

FirstRows(rd, rs, m) ==
    m \in 0 .. Len(rs) /\ rd \in Seq(Row) /\ Len(rd) = m /\ \A i \in 1 .. m : rd[i] = rs[i]

LEMMA SomeFirstRows ==
    ASSUME NEW rs \in Seq(Row), NEW m \in 0 .. Len(rs)
    PROVE  FirstRows(SubSeq(rs, 1, m), rs, m)
  <1>f. Len(rs) \in Nat
    BY FirstsFacts
  <1>m. m \in Int /\ 0 <= m /\ m <= Len(rs)
    BY <1>f
  <1>1. \A i \in 1 .. m : rs[i] \in Row
    BY <1>f, <1>m, ElementOfSeq
  <1> DEFINE rd == SubSeq(rs, 1, m)
  <1>2. /\ rd \in Seq(Row) /\ Len(rd) = m
        /\ \A i \in 1 .. m : rd[i] = rs[i]
    BY <1>1, <1>m, SubSeqProperties
  <1> HIDE DEF rd
  <1>3. FirstRows(rd, rs, m)
    BY <1>2 DEF FirstRows
  <1>4. QED
    BY <1>3 DEF rd

LEMMA AllFirstRows ==
    ASSUME NEW rs \in Seq(Row), NEW rd, FirstRows(rd, rs, Len(rs))
    PROVE  rd = rs
  BY SeqEqual DEF FirstRows

\* The entries of the first rows are the first entries.
LEMMA OrderPrefix ==
    ASSUME NEW rs \in Seq(Row), NEW rd, NEW m, FirstRows(rd, rs, m)
    PROVE  /\ Firsts(rd) = {i \in Firsts(rs) : i <= m}
           /\ Met(rd) <= Met(rs)
           /\ \A k \in 1 .. Met(rd) : Nth(Firsts(rd), k) = Nth(Firsts(rs), k)
           /\ \A k \in 1 .. Met(rs) : Nth(Firsts(rs), k) <= m <=> k <= Met(rd)
           /\ \A k \in 1 .. Met(rd) : Order(rd)[k] = Order(rs)[k]
  <1>f. /\ DOMAIN rs = 1 .. Len(rs) /\ Len(rs) \in Nat
        /\ Firsts(rs) \subseteq 1 .. Len(rs) /\ Firsts(rs) \subseteq Int /\ IsFiniteSet(Firsts(rs))
    BY FirstsFacts
  <1>2. /\ rd \in Seq(Row) /\ Len(rd) = m
        /\ \A i \in 1 .. m : rd[i] = rs[i]
    BY DEF FirstRows
  <1>m. m \in Int /\ 0 <= m /\ m <= Len(rs)
    BY <1>f DEF FirstRows
  <1>3. DOMAIN rd = 1 .. m
    BY <1>2, LenProperties
  <1>4. Firsts(rd) = {i \in Firsts(rs) : i <= m}
    <2>1. ASSUME NEW i \in 1 .. m
          PROVE  i \in Firsts(rd) <=> i \in Firsts(rs)
      <3>1. i \in 1 .. Len(rs) /\ \A j \in 1 .. i - 1 : j \in 1 .. m
        BY <1>f, <1>m
      <3>2. rd[i] = rs[i] /\ \A j \in 1 .. i - 1 : rd[j] = rs[j]
        BY <1>2, <3>1
      <3>3. QED
        BY <1>f, <1>3, <3>1, <3>2 DEF Firsts
    <2>2. Firsts(rd) \subseteq 1 .. m
      BY <1>3 DEF Firsts
    <2>3. \A i \in Firsts(rs) : i \in 1 .. m <=> i <= m
      BY <1>f, <1>m
    <2>4. QED
      BY <1>m, <2>1, <2>2, <2>3
  <1>5. /\ Met(rd) \in Nat /\ Met(rs) \in Nat /\ Met(rd) <= Met(rs)
        /\ \A k \in 1 .. Met(rd) : Nth(Firsts(rd), k) = Nth(Firsts(rs), k)
        /\ \A k \in 1 .. Met(rs) : Nth(Firsts(rs), k) <= m <=> k <= Met(rd)
    <2>1. Firsts(rd) \in SUBSET Firsts(rs) /\ \A i \in Firsts(rs) : i \in Firsts(rd) <=> i <= m
      BY <1>4
    <2> DEFINE S == Firsts(rs)
               T == Firsts(rd)
    <2>2. S \subseteq Int /\ IsFiniteSet(S) /\ T \in SUBSET S /\ \A i \in S : i \in T <=> i <= m
      BY <1>f, <2>1
    <2> HIDE DEF S, T
    <2>3. /\ Cardinality(T) \in Nat /\ Cardinality(S) \in Nat /\ Cardinality(T) <= Cardinality(S)
          /\ \A k \in 1 .. Cardinality(T) : Nth(T, k) = Nth(S, k)
          /\ \A k \in 1 .. Cardinality(S) : Nth(S, k) <= m <=> k <= Cardinality(T)
      <3>1. m \in Int
        BY <1>m
      <3>0. Cardinality(T) \in Nat /\ Cardinality(S) \in Nat /\ Cardinality(T) <= Cardinality(S)
        BY <2>2, <3>1, NthUpTo
      <3>2. \A k \in 1 .. Cardinality(T) : Nth(T, k) = Nth(S, k)
        BY <2>2, <3>1, NthSame
      <3>3. \A k \in 1 .. Cardinality(S) : Nth(S, k) <= m <=> k <= Cardinality(T)
        BY <2>2, <3>1, NthUpTo
      <3>4. QED
        BY <3>0, <3>2, <3>3
    <2>4. QED
      BY <2>3 DEF Met, S, T
  <1>6. ASSUME NEW k \in 1 .. Met(rd)
        PROVE  Order(rd)[k] = Order(rs)[k]
    <2>1. k \in 1 .. Met(rs)
      BY <1>5
    <2>2. Order(rd)[k] = rd[Nth(Firsts(rd), k)].entry /\ Nth(Firsts(rd), k) \in Firsts(rd)
      BY <1>2, OrderFacts
    <2>3. Order(rs)[k] = rs[Nth(Firsts(rs), k)].entry
      BY <2>1, OrderFacts
    <2>4. Nth(Firsts(rd), k) \in 1 .. m
      BY <1>3, <2>2 DEF Firsts
    <2>5. QED
      BY <1>2, <1>5, <2>2, <2>3, <2>4
  <1>7. QED
    BY <1>4, <1>5, <1>6

-----------------------------------------------------------------------------
(* Windows.                                                                *)

LEMMA WindowFacts ==
    ASSUME NEW S, NEW s \in Seq(S), NEW o \in Nat, NEW l \in Nat
    PROVE  /\ Window(s, o, l) \in Seq(S)
           /\ Len(Window(s, o, l)) = IF o + l <= Len(s) THEN l
                                     ELSE IF o <= Len(s) THEN Len(s) - o ELSE 0
           /\ \A k \in 1 .. Len(Window(s, o, l)) :
                 o + k \in 1 .. Len(s) /\ Window(s, o, l)[k] = s[o + k]
  <1> DEFINE n == IF l < Len(s) - o THEN o + l ELSE Len(s)
             w == SubSeq(s, o + 1, n)
  <1>1. Len(s) \in Nat /\ \A i \in 1 .. Len(s) : s[i] \in S
    BY LenProperties, ElementOfSeq
  <1>2. n \in Int /\ n <= Len(s)
    BY <1>1
  <1>3. \A i \in o + 1 .. n : s[i] \in S
    BY <1>1, <1>2
  <1>4. /\ w \in Seq(S)
        /\ Len(w) = IF o + 1 <= n THEN n - (o + 1) + 1 ELSE 0
        /\ \A i \in 1 .. n - (o + 1) + 1 : w[i] = s[(o + 1) + i - 1]
    <2> HIDE DEF n
    <2>1. QED
      BY <1>2, <1>3, SubSeqProperties
  <1>5. Len(w) = IF o + l <= Len(s) THEN l ELSE IF o <= Len(s) THEN Len(s) - o ELSE 0
    BY <1>1, <1>4
  <1>6. ASSUME NEW k \in 1 .. Len(w)
        PROVE  o + k \in 1 .. Len(s) /\ w[k] = s[o + k]
    <2>1. k \in 1 .. n - (o + 1) + 1 /\ (o + 1) + k - 1 = o + k
      BY <1>1, <1>4
    <2>2. w[k] = s[o + k]
      BY <1>4, <2>1
    <2>3. o + k \in 1 .. Len(s)
      <3> HIDE DEF n
      <3>1. QED
        BY <1>1, <1>2, <2>1
    <2>4. QED
      BY <2>2, <2>3
  <1>7. QED
    BY <1>4, <1>5, <1>6 DEF Window

Covers(S, s, o, l, w) ==
    /\ w \in Seq(S)
    /\ Len(w) = IF o + l <= Len(s) THEN l ELSE IF o <= Len(s) THEN Len(s) - o ELSE 0
    /\ \A k \in 1 .. Len(w) : o + k \in 1 .. Len(s) /\ w[k] = s[o + k]

LEMMA WindowCovers ==
    \A S : \A s \in Seq(S) : \A o, l \in Nat : Covers(S, s, o, l, Window(s, o, l))
  BY WindowFacts DEF Covers

\* A window of what was read is one of the whole.
LEMMA WindowOfPrefix ==
    ASSUME NEW S, NEW s \in Seq(S), NEW t \in Seq(S), NEW o \in Nat, NEW l \in Nat,
           Len(t) <= Len(s), \A k \in 1 .. Len(t) : t[k] = s[k],
           Len(t) = Len(s) \/ o + l <= Len(t)
    PROVE  Window(t, o, l) = Window(s, o, l)
  <1> DEFINE v == Window(t, o, l)
             w == Window(s, o, l)
  <1>1. Len(s) \in Nat /\ Len(t) \in Nat
    BY LenProperties
  <1>2. /\ v \in Seq(S) /\ Len(v) = IF o + l <= Len(t) THEN l ELSE IF o <= Len(t) THEN Len(t) - o ELSE 0
        /\ w \in Seq(S) /\ Len(w) = IF o + l <= Len(s) THEN l ELSE IF o <= Len(s) THEN Len(s) - o ELSE 0
        /\ \A k \in 1 .. Len(v) : o + k \in 1 .. Len(t) /\ v[k] = t[o + k]
        /\ \A k \in 1 .. Len(w) : o + k \in 1 .. Len(s) /\ w[k] = s[o + k]
    <2>1. Covers(S, t, o, l, v) /\ Covers(S, s, o, l, w)
      BY WindowCovers, Zenon
    <2> HIDE DEF v, w
    <2>2. QED
      BY <2>1 DEF Covers
  <1> HIDE DEF v, w
  <1>3. Len(v) = Len(w)
    BY <1>1, <1>2
  <1>4. \A k \in 1 .. Len(v) : v[k] = w[k]
    BY <1>2, <1>3
  <1>5. v = w
    BY <1>2, <1>3, <1>4, SeqEqual
  <1>6. QED
    BY <1>5 DEF v, w

LEMMA WindowToEnd ==
    ASSUME NEW S, NEW s \in Seq(S), NEW o \in Nat, NEW v, v = Window(s, o, Len(s))
    PROVE  /\ v \in Seq(S) /\ Len(v) = IF o <= Len(s) THEN Len(s) - o ELSE 0
           /\ \A k \in 1 .. Len(v) : o + k \in 1 .. Len(s) /\ v[k] = s[o + k]
           /\ v = <<>> <=> Len(s) <= o
  <1>1. Len(s) \in Nat
    BY LenProperties
  <1>2. /\ v \in Seq(S)
        /\ Len(v) = IF o + Len(s) <= Len(s) THEN Len(s) ELSE IF o <= Len(s) THEN Len(s) - o ELSE 0
        /\ \A k \in 1 .. Len(v) : o + k \in 1 .. Len(s) /\ v[k] = s[o + k]
    BY <1>1, WindowFacts
  <1>3. Len(v) = IF o <= Len(s) THEN Len(s) - o ELSE 0
    BY <1>1, <1>2
  <1>4. v = <<>> <=> Len(v) = 0
    BY <1>2, EmptySeq
  <1>5. Len(v) = 0 <=> Len(s) <= o
    BY <1>1, <1>3
  <1>6. QED
    BY <1>2, <1>3, <1>4, <1>5

\* A window for one entry.
LEMMA WindowOfOne ==
    ASSUME NEW s \in Seq(Entry), NEW o \in Nat
    PROVE  Len(Window(s, o, 1)) = IF o + 1 <= Len(s) THEN 1 ELSE IF o <= Len(s) THEN Len(s) - o ELSE 0
  <1>1. 1 \in Nat
    OBVIOUS
  <1>2. QED
    BY <1>1, WindowFacts, Zenon

\* A window, and what follows it, are what there was to read.
Splits(s, o, l, w) ==
    /\ w \in Seq(Entry) /\ Len(w) \in 0 .. l
    /\ Window(s, o, Len(s)) = w \o Window(s, o + Len(w), Len(s))
    /\ Len(s) <= o + l => Window(s, o + Len(w), Len(s)) = <<>>
    /\ Len(s) > o + l => Len(w) = l /\ Window(s, o + Len(w), Len(s)) # <<>>
    /\ Len(w) > 0 => o + Len(w) <= Len(s)

LEMMA WindowSplits ==
    ASSUME NEW s \in Seq(Entry), NEW o \in Nat, NEW l \in Nat, NEW w, w = Window(s, o, l)
    PROVE  Splits(s, o, l, w)
  <1>1. Len(s) \in Nat
    BY LenProperties
  <1>2. /\ w \in Seq(Entry) /\ Len(w) = IF o + l <= Len(s) THEN l ELSE IF o <= Len(s) THEN Len(s) - o ELSE 0
        /\ \A k \in 1 .. Len(w) : o + k \in 1 .. Len(s) /\ w[k] = s[o + k]
    BY WindowFacts
  <1> DEFINE n == Len(s)
             x == Len(w)
             v == Window(s, o + x, n)
             a == Window(s, o, n)
  <1>3. /\ n \in Nat /\ x \in 0 .. l /\ x \in Nat
        /\ o <= n => o + x <= n
        /\ o > n => x = 0
        /\ n <= o + l => n <= o + x
        /\ n > o + l => x = l /\ ~(n <= o + x)
        /\ x > 0 => o + x <= n
    BY <1>1, <1>2
  <1> HIDE DEF n, x
  <1>y. o + x \in Nat
    BY <1>3
  <1>4. /\ v \in Seq(Entry) /\ Len(v) = IF o + x <= n THEN n - (o + x) ELSE 0
        /\ \A k \in 1 .. Len(v) : v[k] = s[(o + x) + k]
        /\ v = <<>> <=> n <= o + x
    BY <1>y, WindowToEnd DEF n
  <1>5. /\ a \in Seq(Entry) /\ Len(a) = IF o <= n THEN n - o ELSE 0
        /\ \A k \in 1 .. Len(a) : a[k] = s[o + k]
        /\ a = <<>> <=> n <= o
    BY WindowToEnd DEF n
  <1> HIDE DEF a, v
  <1>6. /\ w \o v \in Seq(Entry) /\ Len(w \o v) = x + Len(v)
        /\ \A k \in 1 .. x + Len(v) : (w \o v)[k] = IF k <= x THEN w[k] ELSE v[k - x]
    <2>1. w \in Seq(Entry) /\ v \in Seq(Entry)
      BY <1>2, <1>4
    <2>2. /\ w \o v \in Seq(Entry) /\ Len(w \o v) = Len(w) + Len(v)
          /\ \A k \in 1 .. Len(w) + Len(v) :
                (w \o v)[k] = IF k <= Len(w) THEN w[k] ELSE v[k - Len(w)]
      BY <2>1, ConcatProperties
    <2>3. QED
      BY <2>2 DEF x
  <1>l. Len(a) = x + Len(v) /\ Len(a) \in Nat /\ Len(v) \in Nat
    BY <1>3, <1>4, <1>5
  <1>7. ASSUME NEW k \in 1 .. Len(a)
        PROVE  a[k] = (w \o v)[k]
    <2>0. k \in Nat /\ k >= 1 /\ k <= x + Len(v) /\ a[k] = s[o + k]
      BY <1>5, <1>l
    <2>1. CASE k <= x
      <3>1. k \in 1 .. x
        BY <1>3, <2>0, <2>1
      <3>2. w[k] = s[o + k]
        BY <1>2, <3>1 DEF x
      <3>3. (w \o v)[k] = w[k]
        BY <1>6, <1>l, <2>1
      <3>4. QED
        BY <2>0, <3>2, <3>3
    <2>2. CASE ~(k <= x)
      <3>1. k - x \in 1 .. Len(v) /\ (o + x) + (k - x) = o + k
        BY <1>3, <1>l, <2>0, <2>2
      <3>2. v[k - x] = s[o + k]
        BY <1>4, <3>1
      <3>3. (w \o v)[k] = v[k - x]
        BY <1>6, <1>l, <2>2
      <3>4. QED
        BY <2>0, <3>2, <3>3
    <2>3. QED
      BY <2>1, <2>2
  <1>8. a = w \o v
    BY <1>5, <1>6, <1>7, <1>l, SeqEqual
  <1>9. /\ n <= o + l => v = <<>>
        /\ n > o + l => x = l
        /\ a = <<>> <=> n <= o
    BY <1>3, <1>4, <1>5
  <1>v. n > o + l => v # <<>>
    BY <1>3, <1>4
  <1>10. w \in Seq(Entry) /\ x \in 0 .. l /\ (x > 0 => o + x <= n)
    BY <1>2, <1>3
  <1>11. QED
    BY <1>8, <1>9, <1>v, <1>10 DEF Splits, a, v, n, x

-----------------------------------------------------------------------------
(* What a scan reads, and tells.                                           *)

\* The first m rows: all, or all up to the entry that follows the page.
ReadsTo(rs, o, l, m) ==
    /\ m \in 0 .. Len(rs)
    /\ m < Len(rs) => o + l < Met(rs) /\ Nth(Firsts(rs), o + l + 1) <= m + 1

LEMMA CollectionRead ==
    ASSUME NEW rs \in Seq(Row), NEW o \in Nat, NEW l \in Nat
    PROVE  \E m \in 0 .. Len(rs) :
              /\ FirstRows(CollectionRows(rs, o, l), rs, m) /\ ReadsTo(rs, o, l, m)
              /\ m = Len(rs) <=> Met(rs) <= o + l
  <1> DEFINE F == Firsts(rs)
             beyond == {i \in F : Cardinality({j \in F : j < i}) >= o + l}
  <1>f. /\ DOMAIN rs = 1 .. Len(rs) /\ Len(rs) \in Nat
        /\ F \subseteq 1 .. Len(rs) /\ F \subseteq Int /\ IsFiniteSet(F)
    BY FirstsFacts
  <1>n. /\ Met(rs) \in Nat
        /\ \A k \in 1 .. Met(rs) : Nth(F, k) \in F /\ Cardinality(Below(F, Nth(F, k))) = k - 1
        /\ \A i \in F : \E k \in 1 .. Met(rs) : i = Nth(F, k)
        /\ \A k, l2 \in 1 .. Met(rs) : k < l2 => Nth(F, k) < Nth(F, l2)
    BY <1>f, NthCounts DEF Met
  <1> HIDE DEF F
  <1>b. \A k \in 1 .. Met(rs) : Nth(F, k) \in beyond <=> k - 1 >= o + l
    BY <1>n DEF Below
  <1>c. CollectionRows(rs, o, l) = IF beyond = {} THEN rs ELSE SubSeq(rs, 1, Min(beyond) - 1)
    BY DEF CollectionRows, F
  <1>1. CASE Met(rs) <= o + l
    <2>1. ASSUME NEW i \in beyond
          PROVE  FALSE
      <3>1. PICK k \in 1 .. Met(rs) : i = Nth(F, k)
        BY <1>n
      <3>2. k - 1 >= o + l
        BY <1>b, <3>1
      <3>3. QED
        BY <1>1, <1>n, <3>2
    <2>2. beyond = {}
      BY <2>1
    <2>3. CollectionRows(rs, o, l) = rs
      BY <1>c, <2>2
    <2>4. FirstRows(rs, rs, Len(rs))
      BY <1>f DEF FirstRows
    <2>5. Len(rs) \in 0 .. Len(rs) /\ ReadsTo(rs, o, l, Len(rs))
      BY <1>f DEF ReadsTo
    <2>6. QED
      BY <1>1, <2>3, <2>4, <2>5
  <1>2. CASE ~(Met(rs) <= o + l)
    <2> DEFINE k == o + l + 1
               p == Nth(F, k)
    <2>1. k \in 1 .. Met(rs) /\ k - 1 >= o + l
      BY <1>2, <1>n
    <2>2. p \in beyond /\ p \in F
      BY <1>b, <1>n, <2>1
    <2>3. ASSUME NEW y \in beyond
          PROVE  p <= y
      <3>1. PICK j \in 1 .. Met(rs) : y = Nth(F, j)
        BY <1>n
      <3>2. j - 1 >= o + l
        BY <1>b, <3>1
      <3>3. j = k \/ k < j
        BY <1>n, <3>2
      <3>4. p = y \/ p < y
        BY <1>n, <2>1, <3>1, <3>3
      <3>5. p \in Int /\ y \in Int
        BY <1>f, <2>2
      <3>6. QED
        BY <3>4, <3>5
    <2> HIDE DEF p, beyond
    <2>4. Min(beyond) = p
      <3>1. beyond \subseteq Int
        BY <1>f DEF beyond
      <3>2. Min(beyond) \in beyond /\ \A y \in beyond : Min(beyond) <= y
        BY <2>2, <2>3 DEF Min
      <3>3. Min(beyond) <= p /\ p <= Min(beyond) /\ Min(beyond) \in Int /\ p \in Int
        BY <2>2, <2>3, <3>1, <3>2
      <3>4. QED
        BY <3>3
    <2>5. CollectionRows(rs, o, l) = SubSeq(rs, 1, p - 1)
      BY <1>c, <2>2, <2>4
    <2>6. p \in 1 .. Len(rs)
      BY <1>f, <2>2
    <2>7. p - 1 \in 0 .. Len(rs) /\ p - 1 # Len(rs) /\ (p - 1) + 1 = p
      BY <1>f, <2>6
    <2>8. p <= p
      BY <1>f, <2>6
    <2>9. o + l < Met(rs)
      BY <1>2, <1>n
    <2>10. ReadsTo(rs, o, l, p - 1)
      BY <2>7, <2>8, <2>9 DEF ReadsTo, p, F
    <2>11. FirstRows(SubSeq(rs, 1, p - 1), rs, p - 1)
      BY <2>7, SomeFirstRows
    <2>12. QED
      BY <1>2, <2>5, <2>7, <2>10, <2>11
  <1>3. QED
    BY <1>1, <1>2

LEMMA ObjectRead ==
    ASSUME NEW rs \in Seq(Row), NEW o \in Nat, NEW l \in Nat, o + l <= MaxInt
    PROVE  \E m \in 0 .. Len(rs) :
              /\ FirstRows(ObjectRows(rs, o, l), rs, m) /\ ReadsTo(rs, o, l, m)
              /\ m < Len(rs) => Met(ObjectRows(rs, o, l)) > o + l
  <1>a. Batch \in Nat \ {0} /\ MaxInt \in Nat
    BY EntryQueryPagingAssumption
  <1>f. Len(rs) \in Nat
    BY FirstsFacts
  <1> DEFINE end(n)  == IF n * Batch < Len(rs) THEN n * Batch ELSE Len(rs)
             upto(n) == SubSeq(rs, 1, end(n))
             last(n) == n * Batch >= Len(rs) \/ Enough(upto(n), o, l)
             T == {n \in 1 .. Len(rs) + 1 : last(n)}
             N == CHOOSE n \in 1 .. Len(rs) + 1 : last(n) /\ \A m \in 1 .. n - 1 : ~last(m)
  <1>1. ObjectRows(rs, o, l) = upto(N)
    BY DEF ObjectRows
  <1>2. \A n \in Nat : n * Batch \in Nat /\ end(n) \in 0 .. Len(rs)
    BY <1>a, <1>f
  <1>3. (Len(rs) + 1) * Batch >= Len(rs)
    BY <1>a, <1>f
  <1>4. Len(rs) + 1 \in T /\ T \in SUBSET (1 .. Len(rs) + 1)
    BY <1>f, <1>3
  <1>5. IsFiniteSet(T) /\ T \subseteq Int /\ T # {}
    <2>1. IsFiniteSet(1 .. Len(rs) + 1)
      BY <1>f, FS_Interval
    <2> HIDE DEF T
    <2>2. T \subseteq Int
      BY <1>f, <1>4
    <2>3. QED
      BY <1>4, <2>1, <2>2, FS_Subset
  <1>6. PICK x \in T : \A y \in T : x <= y
    <2> HIDE DEF T
    <2>1. QED
      BY <1>5, LeastOf
  <1>7. x \in 1 .. Len(rs) + 1 /\ last(x) /\ \A m \in 1 .. x - 1 : ~last(m)
    <2> HIDE DEF last
    <2>1. x \in 1 .. Len(rs) + 1 /\ last(x)
      BY <1>6
    <2>2. ASSUME NEW m \in 1 .. x - 1
          PROVE  ~last(m)
      <3>1. m \in 1 .. Len(rs) + 1 /\ ~(x <= m)
        BY <1>f, <2>1
      <3>2. QED
        BY <1>6, <3>1
    <2>3. QED
      BY <2>1, <2>2
  <1>8. N \in 1 .. Len(rs) + 1 /\ last(N)
    <2> HIDE DEF last
    <2>1. QED
      BY <1>7
  <1> HIDE DEF N
  <1> DEFINE m == end(N)
  <1>9. N \in Nat /\ N * Batch \in Nat /\ m \in 0 .. Len(rs)
    BY <1>2, <1>8, <1>f
  <1> DEFINE rd == upto(N)
  <1>r. FirstRows(rd, rs, m)
    <2> HIDE DEF m
    <2>1. FirstRows(SubSeq(rs, 1, m), rs, m)
      BY <1>9, SomeFirstRows
    <2>2. QED
      BY <2>1 DEF m
  <1>s. rd \in Seq(Row) /\ Met(rd) \in Nat /\ Met(rs) \in Nat /\ Size(rd) = Met(rd)
    <2> HIDE DEF rd, m
    <2>1. rd \in Seq(Row)
      BY <1>r DEF FirstRows
    <2>2. QED
      BY <2>1, OrderFacts
  <1>10. m < Len(rs) => Met(rd) > o + l
    <2> SUFFICES ASSUME m < Len(rs) PROVE Met(rd) > o + l
      OBVIOUS
    <2>1. ~(N * Batch >= Len(rs))
      BY <1>9, <1>f
    <2>2. Enough(rd, o, l)
      BY <1>8, <2>1
    <2>3. Plus(o, l) = o + l
      BY <1>a DEF Plus
    <2> HIDE DEF rd, m
    <2>4. QED
      BY <1>s, <2>2, <2>3 DEF Enough
  <1>11. ReadsTo(rs, o, l, m)
    <2> HIDE DEF m, rd
    <2> SUFFICES ASSUME m < Len(rs)
                 PROVE  o + l < Met(rs) /\ Nth(Firsts(rs), o + l + 1) <= m + 1
      BY <1>9 DEF ReadsTo
    <2>1. /\ Met(rd) <= Met(rs)
          /\ \A k \in 1 .. Met(rs) : Nth(Firsts(rs), k) <= m <=> k <= Met(rd)
      BY <1>r, OrderPrefix
    <2>3. o + l + 1 \in 1 .. Met(rs) /\ o + l + 1 <= Met(rd)
      BY <1>10, <1>s, <2>1
    <2>4. Nth(Firsts(rs), o + l + 1) <= m
      BY <2>1, <2>3
    <2>5. Nth(Firsts(rs), o + l + 1) \in Int
      BY <2>3, OrderFacts, FirstsFacts
    <2>6. QED
      BY <1>9, <1>f, <1>s, <2>3, <2>4, <2>5
  <1> HIDE DEF m, rd
  <1>12. ObjectRows(rs, o, l) = rd
    BY <1>1 DEF rd
  <1>13. QED
    BY <1>9, <1>r, <1>10, <1>11, <1>12

LEMMA ReadFacts ==
    ASSUME NEW b \in Branch, NEW rs \in Seq(Row), NEW o \in Nat, NEW l \in Nat,
           b = "data_objects" => o + l <= MaxInt,
           NEW rd, rd = RowsRead(b, rs, o, l)
    PROVE  /\ \E m \in 0 .. Len(rs) : FirstRows(rd, rs, m) /\ ReadsTo(rs, o, l, m)
           /\ rd \in Seq(Row)
           /\ Window(Order(rd), o, l) = Window(Order(rs), o, l)
           /\ (IF b = "collections" THEN rd = rs
               ELSE (rs = <<>> \/ ~Enough(rd, o, l)) /\ Len(Order(rd)) <= o + l)
              <=> Len(Order(rs)) <= o + l
  <1>f. Len(rs) \in Nat
    BY FirstsFacts
  <1>1. PICK m \in 0 .. Len(rs) :
              /\ FirstRows(rd, rs, m) /\ ReadsTo(rs, o, l, m)
              /\ b = "collections" => (m = Len(rs) <=> Met(rs) <= o + l)
              /\ b = "data_objects" => (m < Len(rs) => Met(rd) > o + l)
    <2>1. CASE b = "collections"
      <3>1. rd = CollectionRows(rs, o, l)
        BY <2>1 DEF RowsRead
      <3>2. QED
        BY <2>1, <3>1, CollectionRead
    <2>2. CASE b = "data_objects"
      <3>1. rd = ObjectRows(rs, o, l)
        BY <2>2 DEF RowsRead
      <3>2. QED
        BY <2>2, <3>1, ObjectRead
    <2>3. QED
      BY <2>1, <2>2 DEF Branch
  <1>2. /\ rd \in Seq(Row) /\ Len(rd) = m /\ Met(rd) <= Met(rs)
        /\ \A k \in 1 .. Met(rd) : Order(rd)[k] = Order(rs)[k]
        /\ \A k \in 1 .. Met(rs) : Nth(Firsts(rs), k) <= m <=> k <= Met(rd)
    <2>1. FirstRows(rd, rs, m)
      BY <1>1
    <2>2. rd \in Seq(Row) /\ Len(rd) = m
      BY <2>1 DEF FirstRows
    <2>3. /\ Met(rd) <= Met(rs)
          /\ \A k \in 1 .. Met(rd) : Order(rd)[k] = Order(rs)[k]
          /\ \A k \in 1 .. Met(rs) : Nth(Firsts(rs), k) <= m <=> k <= Met(rd)
      BY <2>1, OrderPrefix
    <2>4. QED
      BY <2>2, <2>3
  <1>3. /\ Met(rs) \in Nat /\ Order(rs) \in Seq(Entry) /\ Len(Order(rs)) = Met(rs)
        /\ Met(rd) \in Nat /\ Order(rd) \in Seq(Entry) /\ Len(Order(rd)) = Met(rd)
        /\ Size(rd) = Met(rd)
    BY <1>2, OrderFacts
  <1>4. m = Len(rs) => rd = rs
    BY <1>1, AllFirstRows
  <1>5. m < Len(rs) => o + l <= Met(rd) /\ o + l < Met(rs)
    <2> SUFFICES ASSUME m < Len(rs) PROVE o + l <= Met(rd) /\ o + l < Met(rs)
      OBVIOUS
    <2>1. o + l < Met(rs) /\ Nth(Firsts(rs), o + l + 1) <= m + 1
      BY <1>1 DEF ReadsTo
    <2>2. CASE o + l = 0
      BY <1>3, <2>1, <2>2
    <2>3. CASE o + l > 0
      <3>1. o + l \in 1 .. Met(rs) /\ o + l + 1 \in 1 .. Met(rs) /\ o + l < o + l + 1
        BY <1>3, <2>1, <2>3
      <3>2. Nth(Firsts(rs), o + l) < Nth(Firsts(rs), o + l + 1)
        BY <3>1, FirstsFacts, NthCounts DEF Met
      <3>3. Nth(Firsts(rs), o + l) \in Int /\ Nth(Firsts(rs), o + l + 1) \in Int
        BY <3>1, OrderFacts, FirstsFacts
      <3>4. Nth(Firsts(rs), o + l) <= m
        BY <1>1, <1>f, <2>1, <3>2, <3>3
      <3>5. QED
        BY <1>2, <2>1, <3>1, <3>4
    <2>4. QED
      BY <2>2, <2>3
  <1>6. Window(Order(rd), o, l) = Window(Order(rs), o, l)
    <2>1. CASE m = Len(rs)
      BY <1>4, <2>1
    <2>2. CASE m < Len(rs)
      <3> DEFINE s == Order(rs)
                 t == Order(rd)
      <3>1. /\ s \in Seq(Entry) /\ t \in Seq(Entry) /\ Len(t) <= Len(s) /\ o + l <= Len(t)
            /\ \A k \in 1 .. Len(t) : t[k] = s[k]
        BY <1>2, <1>3, <1>5, <2>2
      <3> HIDE DEF s, t
      <3>2. Window(t, o, l) = Window(s, o, l)
        BY <3>1, WindowOfPrefix
      <3>3. QED
        BY <3>2 DEF s, t
    <2>3. QED
      BY <1>1, <1>f, <2>1, <2>2
  <1>7. ASSUME b = "collections"
        PROVE  rd = rs <=> Met(rs) <= o + l
    <2>1. rd = rs => m = Len(rs)
      BY <1>2
    <2>2. QED
      BY <1>1, <1>4, <1>7, <2>1
  <1>8. ASSUME b = "data_objects"
        PROVE  (rs = <<>> \/ ~Enough(rd, o, l)) /\ Met(rd) <= o + l <=> Met(rs) <= o + l
    <2>1. MaxInt \in Nat /\ Plus(o, l) = o + l
      BY <1>8, EntryQueryPagingAssumption DEF Plus
    <2>2. Enough(rd, o, l) <=> Met(rd) > o + l
      BY <1>3, <2>1 DEF Enough
    <2>3. CASE m = Len(rs)
      BY <1>3, <1>4, <2>2, <2>3
    <2>4. CASE m < Len(rs)
      BY <1>1, <1>3, <1>5, <1>8, <2>2, <2>4
    <2>5. QED
      BY <1>1, <1>f, <2>3, <2>4
  <1>9. b = "collections" \/ b = "data_objects"
    BY DEF Branch
  <1>10. QED
    BY <1>1, <1>2, <1>3, <1>6, <1>7, <1>8, <1>9

\* A scan returns a window of what there is, and says whether more follows.
LEMMA ScanFacts ==
    ASSUME NEW b \in Branch, rows[b] \in Seq(Row), NEW o \in Nat, NEW l \in Nat,
           b = "data_objects" => o + l <= MaxInt,
           NEW scan \in Scanned(b, o, l)
    PROVE  /\ \E m \in 0 .. Len(rows[b]), read \in Seq(Row) :
                 /\ FirstRows(read, rows[b], m) /\ ReadsTo(rows[b], o, l, m)
                 /\ scan = Scan(b, rows[b], read, Order(read), o, l)
           /\ scan.entries = Window(Order(rows[b]), o, l)
           /\ scan.exhausted <=> Len(Order(rows[b])) <= o + l
           /\ scan.exhausted \in BOOLEAN
  <1> DEFINE rd == RowsRead(b, rows[b], o, l)
  <1>1. scan = Scan(b, rows[b], rd, Order(rd), o, l)
    BY DEF Scanned
  <1>2. /\ \E m \in 0 .. Len(rows[b]) : FirstRows(rd, rows[b], m) /\ ReadsTo(rows[b], o, l, m)
        /\ rd \in Seq(Row)
        /\ Window(Order(rd), o, l) = Window(Order(rows[b]), o, l)
        /\ (IF b = "collections" THEN rd = rows[b]
            ELSE (rows[b] = <<>> \/ ~Enough(rd, o, l)) /\ Len(Order(rd)) <= o + l)
           <=> Len(Order(rows[b])) <= o + l
    BY ReadFacts
  <1> HIDE DEF rd
  <1>3. /\ scan.entries = Window(Order(rd), o, l)
        /\ scan.exhausted = IF b = "collections" THEN rd = rows[b]
                            ELSE (rows[b] = <<>> \/ ~Enough(rd, o, l)) /\ Len(Order(rd)) <= o + l
    BY <1>1 DEF Scan
  <1>4. QED
    BY <1>1, <1>2, <1>3

-----------------------------------------------------------------------------
(* How many entries there are.                                             *)

\* The rows that branch b may return.
RowsIn(b) == {rs \in Seq(Row) : \A i \in 1 .. Len(rs) : rs[i].entry \in Entries[b]}

LEMMA MetBound ==
    ASSUME NEW b \in Branch, NEW rs \in RowsIn(b)
    PROVE  /\ Cardinality(Entries[b]) \in Nat /\ Met(rs) <= Cardinality(Entries[b])
           /\ \A k \in 1 .. Len(Order(rs)) : Order(rs)[k] \in Entries[b]
           /\ Met(rs) <= MaxInt
  <1>1. rs \in Seq(Row) /\ \A i \in 1 .. Len(rs) : rs[i].entry \in Entries[b]
    BY DEF RowsIn
  <1>2. /\ Met(rs) \in Nat /\ Order(rs) \in Seq(Entry) /\ Len(Order(rs)) = Met(rs)
        /\ \A k \in 1 .. Met(rs) : /\ Nth(Firsts(rs), k) \in Firsts(rs)
                                   /\ Order(rs)[k] = rs[Nth(Firsts(rs), k)].entry
        /\ \A k, l \in 1 .. Met(rs) : Order(rs)[k] = Order(rs)[l] => k = l
        /\ Firsts(rs) \subseteq 1 .. Len(rs)
    BY <1>1, OrderFacts, FirstsFacts
  <1>3. \A k \in 1 .. Met(rs) : Order(rs)[k] \in Entries[b]
    BY <1>1, <1>2
  <1>4. Order(rs) \in [1 .. Met(rs) -> Entries[b]]
    <2>1. Order(rs) \in [1 .. Met(rs) -> Entry]
      BY <1>2, LenProperties
    <2>2. QED
      BY <1>3, <2>1
  <1>5. Order(rs) \in Injection(1 .. Met(rs), Entries[b])
    BY <1>2, <1>4, Fun_IsInj
  <1>6. \A c \in Branch : IsFiniteSet(Entries[c]) /\ Cardinality(Entries[c]) \in Nat
    BY CatalogAssumption, FS_CardinalityType
  <1>7. Cardinality(1 .. Met(rs)) <= Cardinality(Entries[b])
    BY <1>5, <1>6, FS_Injection
  <1>8. Cardinality(1 .. Met(rs)) = Met(rs)
    BY <1>2, FS_Interval
  <1>9. Cardinality(Entries[b]) <= MaxInt /\ MaxInt \in Nat
    BY <1>6, CatalogAssumption, EntryQueryPagingAssumption DEF Branch
  <1>10. QED
    BY <1>2, <1>3, <1>6, <1>7, <1>8, <1>9

\* A count is of all entries.
LEMMA CountFacts ==
    ASSUME NEW b \in Branch, NEW rs \in RowsIn(b)
    PROVE  Count(b, rs) = Cardinality({r.entry : r \in ToSet(rs)})
  <1>1. rs \in Seq(Row) /\ MaxInt \in Nat /\ 0 + MaxInt <= MaxInt
    BY EntryQueryPagingAssumption DEF RowsIn
  <1>2. PICK m \in 0 .. Len(rs) : /\ FirstRows(RowsRead(b, rs, 0, MaxInt), rs, m)
                                  /\ ReadsTo(rs, 0, MaxInt, m)
    <2> DEFINE rd == RowsRead(b, rs, 0, MaxInt)
    <2>1. rd = RowsRead(b, rs, 0, MaxInt) /\ 0 \in Nat /\ MaxInt \in Nat /\ 0 + MaxInt <= MaxInt
      BY <1>1
    <2> HIDE DEF rd
    <2>2. \E m \in 0 .. Len(rs) : FirstRows(rd, rs, m) /\ ReadsTo(rs, 0, MaxInt, m)
      BY <1>1, <2>1, ReadFacts
    <2>3. QED
      BY <2>2 DEF rd
  <1>3. Met(rs) <= MaxInt /\ Met(rs) \in Nat /\ Len(rs) \in Nat
    BY <1>1, MetBound, OrderFacts, LenProperties
  <1>4. m = Len(rs)
    BY <1>1, <1>2, <1>3 DEF ReadsTo
  <1>5. RowsRead(b, rs, 0, MaxInt) = rs
    BY <1>1, <1>2, <1>4, AllFirstRows
  <1>6. QED
    BY <1>5 DEF Count, Size

-----------------------------------------------------------------------------
(* What there is to read from a cursor on.                                 *)

On == [b \in Branch |-> Enabled(b)]

Open(on, b, c) ==
    /\ on[b] /\ ~c.exhausted[b] /\ c.phase # "done"
    /\ b = "collections" => c.phase # "data_objects"

Rest(rs, on, b, c) ==
    IF Open(on, b, c) /\ c.offset[b] >= 0
    THEN Window(Order(rs[b]), c.offset[b], Len(Order(rs[b]))) ELSE <<>>

RestAll(rs, on, c) == Rest(rs, on, "collections", c) \o Rest(rs, on, "data_objects", c)

-----------------------------------------------------------------------------
(* The invariant: where a page is in the making, its cursor tells what is  *)
(* left.                                                                   *)

Building == pc \in {"collections", "data_objects", "peek", "count", "count_objects", "return"}

\* A page has these fields.
Page(p) == p = [entries |-> p.entries, told |-> p.told, shown |-> p.shown, totals |-> p.totals,
                phase |-> p.phase, next |-> p.next, remaining |-> p.remaining, more |-> p.more]

Closed(c) == ~Open(On, "collections", c) /\ ~Open(On, "data_objects", c)

\* There is room in an int for the limit of a page that follows.
Room(c) == Limit <= MaxInt - c.offset["data_objects"]

AtCollections ==
    page.entries = <<>> /\ page.next = cursor /\ ~page.more /\ page.phase = FirstPhase

AtObjects ==
    /\ page.next.offset["data_objects"] = cursor.offset["data_objects"]
    /\ page.next.exhausted["data_objects"] = cursor.exhausted["data_objects"]
    /\ Len(page.entries) <= Cardinality(Entries["collections"])
    /\ page.next.phase # "done" /\ page.phase \in Branch
    /\ ~page.more => ~Open(On, "collections", page.next)
    /\ ~page.more /\ page.phase = "collections" =>
          Enabled("collections") /\ page.next.exhausted["collections"]

AtPeek ==
    /\ page.more \/ PeekDue \/ Closed(page.next)
    /\ PeekDue => ~Open(On, "collections", page.next) /\ Open(On, "data_objects", page.next)
    /\ page.more \/ PeekDue => Room(page.next)

AtEnd == /\ page.more \/ Closed(page.next)
         /\ page.more => Room(page.next)

BuildInv ==
    /\ rows \in [Branch -> Seq(Row)] /\ \A b \in Branch : rows[b] \in RowsIn(b)
    /\ Page(page) /\ Fits /\ Belongs
    /\ Building =>
         /\ \A b \in Branch : cursor.offset[b] \in Nat /\ page.next.offset[b] \in Nat
         /\ cursor.phase # "done"
         /\ page.next.phase = "collections" => Enabled("collections")
    /\ pc = "collections" => AtCollections
    /\ pc = "data_objects" => AtObjects
    /\ pc = "peek" => AtPeek
    /\ pc \in {"count", "count_objects", "return"} => AtEnd

PagingInv == TypeOK /\ BuildInv

\* What the pages so far and those to come are together, as it looks now.
Readings ==
    IF pc = "done" THEN {got}
    ELSE {got \o RestAll(rows, On, cursor)}
         \cup (IF Building THEN {got \o (page.entries \o RestAll(rows, On, page.next))} ELSE {})

TileInv == touched = {} => Readings \subseteq {whole}
SkipInv == touched \subseteq {"added"} => \A s \in Readings : ToSet(whole) \subseteq ToSet(s)
OnceInv == touched \subseteq {"removed"} => \A s \in Readings : IsInjective(s)

\* Another order of the same rows makes them no longer or shorter.
LengthInv == SameEntries => \A s \in Readings : Len(s) = Len(whole)

\* A page tells that there is more only if there is.
MoreInv == SameEntries /\ Building /\ page.more => RestAll(rows, On, page.next) # <<>>

TotalsInv ==
    /\ DOMAIN page.totals = Branch
    /\ \A b \in Branch :
          /\ SameEntries /\ query.totals
          /\ pc = "return" \/ (pc = "count_objects" /\ b = "collections")
          => page.totals[b] = IF Enabled(b) THEN Cardinality({r.entry : r \in ToSet(rows[b])}) ELSE 0

-----------------------------------------------------------------------------
(* What a scan leaves to be read.                                          *)

\* There is a rest of entries.
LEMMA RestFacts ==
    ASSUME NEW b \in Branch, NEW rs, rs[b] \in Seq(Row), NEW on, NEW c, c.offset[b] \in Int
    PROVE  /\ Rest(rs, on, b, c) \in Seq(Entry)
           /\ ~Open(on, b, c) => Rest(rs, on, b, c) = <<>>
           /\ Open(on, b, c) /\ c.offset[b] >= 0 =>
                 Rest(rs, on, b, c) = Window(Order(rs[b]), c.offset[b], Len(Order(rs[b])))
<1>1. ~Open(on, b, c) => Rest(rs, on, b, c) = <<>>
  BY DEF Rest
<1>2. Open(on, b, c) /\ c.offset[b] >= 0 =>
         Rest(rs, on, b, c) = Window(Order(rs[b]), c.offset[b], Len(Order(rs[b])))
  BY DEF Rest
<1>3. <<>> \in Seq(Entry)
  BY EmptySeq
<1>4. Order(rs[b]) \in Seq(Entry) /\ Len(Order(rs[b])) \in Nat
  BY OrderFacts, LenProperties
<1>5. c.offset[b] >= 0 => c.offset[b] \in Nat
  OBVIOUS
<1>6. c.offset[b] >= 0 => Window(Order(rs[b]), c.offset[b], Len(Order(rs[b]))) \in Seq(Entry)
  BY <1>4, <1>5, WindowFacts
<1>7. Rest(rs, on, b, c) \in Seq(Entry)
  BY <1>3, <1>6 DEF Rest
<1>8. QED
  BY <1>1, <1>2, <1>7

\* A scan of a branch and what is left after it are what there was to read.
Leads(rs, on, b, c, d, l, w) ==
    /\ Len(w) \in 0 .. l
    /\ Rest(rs, on, b, c) = w \o Rest(rs, on, b, d)
    /\ Open(on, b, d) => Len(w) = l /\ Rest(rs, on, b, d) # <<>>
    /\ Len(w) > 0 => c.offset[b] + Len(w) <= Len(Order(rs[b]))

LEMMA RestSplits ==
    ASSUME NEW b \in Branch, NEW rs, rs[b] \in Seq(Row), NEW on, NEW o \in Nat, NEW l \in Nat,
           NEW w, w = Window(Order(rs[b]), o, l),
           NEW c, Open(on, b, c), c.offset[b] = o,
           NEW d, d.offset[b] = o + Len(w),
           Open(on, b, d) <=> Len(Order(rs[b])) > o + l
    PROVE  Leads(rs, on, b, c, d, l, w)
  <1> DEFINE s == Order(rs[b])
  <1>1. s \in Seq(Entry) /\ Len(s) \in Nat
    BY OrderFacts, LenProperties
  <1>2. Splits(s, o, l, w)
    BY <1>1, WindowSplits
  <1>3. o + Len(w) \in Nat /\ o + Len(w) >= 0 /\ o >= 0 /\ o \in Int /\ o + Len(w) \in Int
    BY <1>2 DEF Splits
  <1>4. Rest(rs, on, b, c) = Window(s, o, Len(s))
    BY <1>3, RestFacts
  <1>5. CASE Open(on, b, d)
    <2>1. Rest(rs, on, b, d) = Window(s, o + Len(w), Len(s))
      BY <1>3, <1>5, RestFacts
    <2>2. Len(s) > o + l
      BY <1>5
    <2> HIDE DEF s
    <2>3. QED
      BY <1>2, <1>4, <2>1, <2>2 DEF Splits, Leads, s
  <1>6. CASE ~Open(on, b, d)
    <2>1. Rest(rs, on, b, d) = <<>>
      BY <1>3, <1>6, RestFacts
    <2>2. Len(s) <= o + l
      BY <1>1, <1>6
    <2> HIDE DEF s
    <2>3. QED
      BY <1>2, <1>4, <1>6, <2>1, <2>2 DEF Splits, Leads, s
  <1>7. QED
    BY <1>5, <1>6

-----------------------------------------------------------------------------
(* The fields of a page.                                                   *)

LEMMA ExtendFields ==
    ASSUME Page(page), NEW b \in Branch, NEW scan
    PROVE  /\ Page(Extend(b, scan))
           /\ Extend(b, scan).entries = page.entries \o scan.entries
           /\ Extend(b, scan).told = page.told \cup scan.told
           /\ Extend(b, scan).shown = page.shown \cup scan.shown
           /\ Extend(b, scan).totals = page.totals
           /\ Extend(b, scan).remaining = page.remaining - Len(scan.entries)
           /\ Extend(b, scan).more = ~scan.exhausted
  <1>1. Page(Extend(b, scan))
    <2>1. PICK p : p = Extend(b, scan)
      OBVIOUS
    <2>2. Page(p)
      BY <2>1 DEF Extend, Page
    <2>3. QED
      BY <2>1, <2>2
  <1>2. /\ Extend(b, scan).entries = page.entries \o scan.entries
        /\ Extend(b, scan).told = page.told \cup scan.told
        /\ Extend(b, scan).shown = page.shown \cup scan.shown
        /\ Extend(b, scan).totals = page.totals
        /\ Extend(b, scan).remaining = page.remaining - Len(scan.entries)
    BY DEF Extend, Page
  <1>3. Extend(b, scan).more = ~scan.exhausted
    BY DEF Extend, Page
  <1>4. QED
    BY <1>1, <1>2, <1>3

LEMMA ExtendPhase ==
    ASSUME Page(page), NEW b \in Branch, NEW scan
    PROVE  Extend(b, scan).phase = IF scan.exhausted /\ b = "collections" THEN "data_objects" ELSE page.phase
  BY DEF Extend, Page

LEMMA ExtendNext ==
    ASSUME Page(page), page.next \in Cursor, NEW b \in Branch, NEW scan
    PROVE  Extend(b, scan).next =
              [phase |-> IF scan.exhausted THEN Following(b) ELSE b,
               offset |-> [page.next.offset EXCEPT ![b] = @ + Len(scan.entries)],
               exhausted |-> [page.next.exhausted EXCEPT ![b] = @ \/ scan.exhausted]]
  <1> DEFINE p == Extend(b, scan)
             n1 == [page.next EXCEPT !.offset[b] = @ + Len(scan.entries)]
             n2 == [n1 EXCEPT !.exhausted[b] = page.next.exhausted[b] \/ scan.exhausted]
             n3 == [n2 EXCEPT !.phase = IF scan.exhausted THEN Following(b) ELSE b]
  <1>1. page.next = [phase |-> page.next.phase, offset |-> page.next.offset, exhausted |-> page.next.exhausted]
    BY DEF Cursor
  <1>2. p.next = n3
    BY DEF Extend, Page
  <1>3. n1 = [phase |-> n1.phase, offset |-> n1.offset, exhausted |-> n1.exhausted]
    BY <1>1
  <1>4. n1.offset = [page.next.offset EXCEPT ![b] = @ + Len(scan.entries)] /\ n1.exhausted = page.next.exhausted
    BY <1>1
  <1> HIDE DEF n1
  <1>5. n2 = [phase |-> n2.phase, offset |-> n2.offset, exhausted |-> n2.exhausted]
    BY <1>3
  <1>6. n2.offset = n1.offset /\ n2.exhausted = [n1.exhausted EXCEPT ![b] = @ \/ scan.exhausted]
    BY <1>3, <1>4
  <1> HIDE DEF n2
  <1>7. n3 = [phase |-> n3.phase, offset |-> n3.offset, exhausted |-> n3.exhausted]
    BY <1>5
  <1>8. /\ n3.phase = IF scan.exhausted THEN Following(b) ELSE b
        /\ n3.offset = n2.offset /\ n3.exhausted = n2.exhausted
    BY <1>5
  <1> HIDE DEF n3, p
  <1>9. p.next = [phase |-> p.next.phase, offset |-> p.next.offset, exhausted |-> p.next.exhausted]
    BY <1>2, <1>7
  <1>10. p.next = [phase |-> IF scan.exhausted THEN Following(b) ELSE b,
                   offset |-> [page.next.offset EXCEPT ![b] = @ + Len(scan.entries)],
                   exhausted |-> [page.next.exhausted EXCEPT ![b] = @ \/ scan.exhausted]]
    BY <1>2, <1>4, <1>6, <1>8, <1>9
  <1>11. QED
    BY <1>10 DEF p

LEMMA PeekedFields ==
    ASSUME Page(page), NEW scan
    PROVE  /\ Page(Peeked(scan))
           /\ Peeked(scan).entries = page.entries /\ Peeked(scan).told = page.told
           /\ Peeked(scan).shown = page.shown /\ Peeked(scan).totals = page.totals
           /\ Peeked(scan).remaining = page.remaining /\ Peeked(scan).phase = page.phase
           /\ Peeked(scan).more = (scan.entries # <<>> \/ ~scan.exhausted)
  <1>1. Page(Peeked(scan))
    <2>1. PICK p : p = Peeked(scan)
      OBVIOUS
    <2>2. Page(p)
      BY <2>1 DEF Peeked, Page
    <2>3. QED
      BY <2>1, <2>2
  <1>2. /\ Peeked(scan).entries = page.entries /\ Peeked(scan).told = page.told
        /\ Peeked(scan).shown = page.shown /\ Peeked(scan).totals = page.totals
        /\ Peeked(scan).remaining = page.remaining /\ Peeked(scan).phase = page.phase
    BY DEF Peeked, Page
  <1>3. Peeked(scan).more = (scan.entries # <<>> \/ ~scan.exhausted)
    BY DEF Peeked, Page
  <1>4. QED
    BY <1>1, <1>2, <1>3

LEMMA PeekedNext ==
    ASSUME Page(page), page.next \in Cursor, NEW scan,
           NEW more, more = (scan.entries # <<>> \/ ~scan.exhausted)
    PROVE  Peeked(scan).next =
              [phase |-> IF more THEN "data_objects" ELSE "done",
               offset |-> page.next.offset,
               exhausted |-> [page.next.exhausted EXCEPT !["data_objects"] = ~more]]
  <1>1. page.next = [phase |-> page.next.phase, offset |-> page.next.offset, exhausted |-> page.next.exhausted]
    BY DEF Cursor
  <1>2. QED
    BY <1>1 DEF Peeked, Page

-----------------------------------------------------------------------------
(* A scan that is due.                                                     *)

LEMMA OpenFacts ==
    ASSUME NEW c
    PROVE  /\ Open(On, "collections", c) <=>
                 /\ Enabled("collections") /\ ~c.exhausted["collections"]
                 /\ c.phase # "done" /\ c.phase # "data_objects"
           /\ Open(On, "data_objects", c) <=>
                 Enabled("data_objects") /\ ~c.exhausted["data_objects"] /\ c.phase # "done"
  BY DEF Open, On, Branch

LEMMA LimitFacts ==
    ASSUME query \in Query
    PROVE  Limit \in Nat /\ Limit > 0
  BY EntryQueryPagingAssumption DEF Limit, Query

\* It goes on where the cursor stands, and int has room for it.
LEMMA DueFacts ==
    ASSUME PagingInv, NEW b \in Branch, pc = b, Due(b)
    PROVE  /\ rows[b] \in Seq(Row) /\ cursor.offset[b] \in Nat /\ page.remaining \in Nat
           /\ page.remaining > 0
           /\ page.next.offset[b] = cursor.offset[b] /\ page.next.exhausted[b] = FALSE
           /\ Open(On, b, page.next) /\ page.next.phase # "done"
           /\ b = "data_objects" => /\ cursor.offset[b] + page.remaining <= MaxInt
                                    /\ ~Open(On, "collections", page.next)
  <1>1. TypeOK /\ BuildInv
    BY DEF PagingInv
  <1>2. rows[b] \in Seq(Row) /\ cursor.offset[b] \in Nat /\ cursor.phase # "done"
    BY <1>1 DEF BuildInv, Building, Branch
  <1>3. Limit \in Nat /\ Len(page.entries) \in Nat /\ page.remaining = Limit - Len(page.entries)
    BY <1>1, LimitFacts, LenProperties DEF TypeOK
  <1>4. ~page.more /\ page.phase = b /\ Enabled(b) /\ ~cursor.exhausted[b] /\ page.remaining > 0
    BY DEF Due
  <1>5. page.remaining \in Nat /\ page.remaining <= Limit
    BY <1>3, <1>4
  <1>6. cursor.exhausted[b] = FALSE
    BY <1>1, <1>4 DEF TypeOK, Cursor
  <1>7. CASE b = "collections"
    <2>1. page.next = cursor /\ FirstPhase = "collections"
      BY <1>1, <1>4, <1>7 DEF BuildInv, AtCollections
    <2>2. cursor.phase # "data_objects"
      BY <2>1 DEF FirstPhase
    <2>3. QED
      BY <1>2, <1>4, <1>5, <1>6, <1>7, <2>1, <2>2, OpenFacts
  <1>8. CASE b = "data_objects"
    <2>1. AtObjects /\ Fits
      BY <1>1, <1>8 DEF BuildInv
    <2>2. Limit <= MaxInt - cursor.offset[b] /\ MaxInt \in Nat
      BY <1>8, <2>1, EntryQueryPagingAssumption DEF Fits
    <2>3. cursor.offset[b] + page.remaining <= MaxInt
      BY <1>2, <1>3, <1>5, <2>2
    <2>4. /\ page.next.offset[b] = cursor.offset[b] /\ page.next.exhausted[b] = FALSE
          /\ page.next.phase # "done" /\ ~Open(On, "collections", page.next)
      BY <1>4, <1>6, <1>8, <2>1 DEF AtObjects
    <2>5. QED
      BY <1>2, <1>4, <1>5, <1>8, <2>3, <2>4, OpenFacts
  <1>9. QED
    BY <1>7, <1>8 DEF Branch

LEMMA EmptyOnly ==
    \A s \in Seq(Entry) : Len(s) \in Nat /\ (s = <<>> <=> Len(s) = 0)
  BY EmptySeq, LenProperties

LEMMA Joined ==
    \A s, t, u \in Seq(Entry) : (s \o t) \o u = s \o (t \o u)
  BY ConcatAssociative

LEMMA RestAllFacts ==
    ASSUME NEW rs \in [Branch -> Seq(Row)], NEW on, NEW c \in Cursor
    PROVE  /\ Rest(rs, on, "collections", c) \in Seq(Entry)
           /\ Rest(rs, on, "data_objects", c) \in Seq(Entry)
           /\ RestAll(rs, on, c) \in Seq(Entry)
           /\ ~Open(on, "collections", c) /\ ~Open(on, "data_objects", c) => RestAll(rs, on, c) = <<>>
  <1>1. \A b \in Branch : c.offset[b] \in Int /\ rs[b] \in Seq(Row)
    BY DEF Cursor
  <1>2. \A b \in Branch : Rest(rs, on, b, c) \in Seq(Entry)
    BY <1>1, RestFacts
  <1>3. \A b \in Branch : ~Open(on, b, c) => Rest(rs, on, b, c) = <<>>
    BY <1>1, RestFacts
  <1>4. Rest(rs, on, "collections", c) \in Seq(Entry) /\ Rest(rs, on, "data_objects", c) \in Seq(Entry)
    BY <1>2 DEF Branch
  <1>5. RestAll(rs, on, c) \in Seq(Entry)
    BY <1>4, ConcatProperties DEF RestAll
  <1>6. <<>> \o <<>> = <<>>
    OBVIOUS
  <1>7. ~Open(on, "collections", c) /\ ~Open(on, "data_objects", c) => RestAll(rs, on, c) = <<>>
    BY <1>3, <1>6 DEF RestAll, Branch
  <1>8. QED
    BY <1>4, <1>5, <1>7

\* A page with the scan, and what is left then, are what they were.
Extended(b, scan, p) ==
    /\ Page(p) /\ p.next \in Cursor /\ p.entries \in Seq(Entry) /\ scan.entries \in Seq(Entry)
    /\ scan.exhausted \in BOOLEAN /\ p.more = ~scan.exhausted
    /\ Len(p.entries) = Len(page.entries) + Len(scan.entries) /\ Len(scan.entries) \in Nat
    /\ p.remaining = Limit - Len(p.entries) /\ p.remaining >= 0
    /\ p.phase = IF scan.exhausted /\ b = "collections" THEN "data_objects" ELSE page.phase
    /\ p.next.phase = IF scan.exhausted THEN Following(b) ELSE b
    /\ p.next.offset[b] = cursor.offset[b] + Len(scan.entries)
    /\ p.next.exhausted[b] = scan.exhausted
    /\ \A x \in Branch : x # b => /\ p.next.offset[x] = page.next.offset[x]
                                  /\ p.next.exhausted[x] = page.next.exhausted[x]
    /\ Len(scan.entries) > 0 =>
          cursor.offset[b] + Len(scan.entries) <= Cardinality(Entries[b])
    /\ p.more => p.remaining = 0
    /\ p.entries \o RestAll(rows, On, p.next) = page.entries \o RestAll(rows, On, page.next)
    /\ p.more => RestAll(rows, On, p.next) # <<>>

LEMMA DueScan ==
    ASSUME PagingInv, NEW b \in Branch, pc = b, Due(b),
           NEW scan \in Scanned(b, cursor.offset[b], page.remaining), NEW p, p = Extend(b, scan)
    PROVE  Extended(b, scan, p)
  <1> DEFINE o == cursor.offset[b]
             l == page.remaining
             w == scan.entries
  <1>1. TypeOK /\ BuildInv /\ Page(page) /\ page.next \in Cursor /\ page.entries \in Seq(Entry)
    BY DEF PagingInv, TypeOK, BuildInv
  <1>2. /\ rows[b] \in Seq(Row) /\ o \in Nat /\ l \in Nat /\ l > 0
        /\ page.next.offset[b] = o /\ page.next.exhausted[b] = FALSE
        /\ Open(On, b, page.next) /\ page.next.phase # "done"
        /\ b = "data_objects" => o + l <= MaxInt /\ ~Open(On, "collections", page.next)
    BY DueFacts
  <1>3. /\ w = Window(Order(rows[b]), o, l)
        /\ scan.exhausted <=> Len(Order(rows[b])) <= o + l
        /\ scan.exhausted \in BOOLEAN
    BY <1>2, ScanFacts
  <1>4. /\ Page(p)
        /\ p.entries = page.entries \o w
        /\ p.remaining = l - Len(w)
        /\ p.more = ~scan.exhausted
        /\ p.next = [phase |-> IF scan.exhausted THEN Following(b) ELSE b,
                     offset |-> [page.next.offset EXCEPT ![b] = @ + Len(w)],
                     exhausted |-> [page.next.exhausted EXCEPT ![b] = @ \/ scan.exhausted]]
    <2>1. Page(p)
      BY <1>1, ExtendFields
    <2>2. p.entries = page.entries \o w
      BY <1>1, ExtendFields
    <2>3. p.remaining = l - Len(w)
      BY <1>1, ExtendFields
    <2>4. p.more = ~scan.exhausted
      BY <1>1, ExtendFields
    <2>5. p.next = [phase |-> IF scan.exhausted THEN Following(b) ELSE b,
                    offset |-> [page.next.offset EXCEPT ![b] = @ + Len(w)],
                    exhausted |-> [page.next.exhausted EXCEPT ![b] = @ \/ scan.exhausted]]
      BY <1>1, ExtendNext
    <2>6. QED
      BY <2>1, <2>2, <2>3, <2>4, <2>5
  <1>5. /\ page.next.offset \in [Branch -> Int] /\ page.next.exhausted \in [Branch -> BOOLEAN]
    BY <1>1 DEF Cursor
  <1>6. w \in Seq(Entry) /\ Len(w) \in Nat
    <2>1. Order(rows[b]) \in Seq(Entry)
      BY <1>2, OrderFacts
    <2>2. Window(Order(rows[b]), o, l) \in Seq(Entry)
      BY <1>2, <2>1, WindowFacts
    <2>3. QED
      BY <1>3, <2>2, LenProperties
  <1> HIDE DEF o, l, w
  <1>7. /\ p.next.offset[b] = o + Len(w)
        /\ p.next.exhausted[b] = scan.exhausted
        /\ p.next.phase = IF scan.exhausted THEN Following(b) ELSE b
        /\ \A x \in Branch : x # b => /\ p.next.offset[x] = page.next.offset[x]
                                      /\ p.next.exhausted[x] = page.next.exhausted[x]
    BY <1>2, <1>3, <1>4, <1>5
  <1>8. p.next \in Cursor
    <2>1. [page.next.offset EXCEPT ![b] = @ + Len(w)] \in [Branch -> Int]
      BY <1>5, <1>6
    <2>2. [page.next.exhausted EXCEPT ![b] = @ \/ scan.exhausted] \in [Branch -> BOOLEAN]
      BY <1>2, <1>3, <1>5
    <2>3. (IF scan.exhausted THEN Following(b) ELSE b) \in Phases
      BY DEF Following, Phases, Branch
    <2>4. QED
      BY <1>4, <2>1, <2>2, <2>3 DEF Cursor
  <1>9. Open(On, b, p.next) <=> ~scan.exhausted
    BY <1>2, <1>7 DEF Open, Following, Branch
  <1>10. Open(On, b, p.next) <=> Len(Order(rows[b])) > o + l
    <2>1. Len(Order(rows[b])) \in Nat
      BY <1>2, OrderFacts
    <2>2. QED
      BY <1>2, <1>3, <1>9, <2>1
  <1>11. /\ Len(w) \in 0 .. l
         /\ Rest(rows, On, b, page.next) = w \o Rest(rows, On, b, p.next)
         /\ Open(On, b, p.next) => Len(w) = l /\ Rest(rows, On, b, p.next) # <<>>
         /\ Len(w) > 0 => o + Len(w) <= Len(Order(rows[b]))
    <2>1. w = Window(Order(rows[b]), o, l)
      BY <1>3 DEF o, l, w
    <2>2. Leads(rows, On, b, page.next, p.next, l, w)
      BY <1>2, <1>7, <1>10, <2>1, RestSplits
    <2>3. QED
      BY <1>2, <2>2 DEF Leads
  <1>12. Len(p.entries) = Len(page.entries) + Len(w) /\ p.entries \in Seq(Entry) /\ Len(page.entries) \in Nat
    BY <1>1, <1>4, <1>6, ConcatProperties, LenProperties
  <1>13. p.remaining = Limit - Len(p.entries) /\ p.remaining >= 0
    <2>1. l = Limit - Len(page.entries) /\ Limit \in Nat
      BY <1>1, LimitFacts DEF TypeOK, l
    <2>2. QED
      BY <1>2, <1>4, <1>6, <1>11, <1>12, <2>1
  <1>14. p.more => p.remaining = 0
    <2>1. p.more => ~scan.exhausted
      BY <1>3, <1>4
    <2>2. p.more => Len(w) = l
      BY <1>9, <1>11, <2>1
    <2>3. QED
      BY <1>2, <1>4, <2>2
  <1>15. Len(w) > 0 => o + Len(w) <= Cardinality(Entries[b])
    <2>1. rows[b] \in RowsIn(b)
      BY <1>1 DEF BuildInv
    <2>2. Len(Order(rows[b])) = Met(rows[b]) /\ Met(rows[b]) \in Nat
      BY <1>2, OrderFacts
    <2>3. Met(rows[b]) <= Cardinality(Entries[b]) /\ Cardinality(Entries[b]) \in Nat
      BY <2>1, MetBound
    <2>4. QED
      BY <1>2, <1>6, <1>11, <2>2, <2>3
  <1>16. /\ p.entries \o RestAll(rows, On, p.next) = page.entries \o RestAll(rows, On, page.next)
         /\ p.more => RestAll(rows, On, p.next) # <<>>
    <2> DEFINE rc == Rest(rows, On, "collections", p.next)
               ro == Rest(rows, On, "data_objects", p.next)
               qc == Rest(rows, On, "collections", page.next)
               qo == Rest(rows, On, "data_objects", page.next)
    <2>1. rows \in [Branch -> Seq(Row)]
      BY <1>1 DEF BuildInv
    <2>2. rc \in Seq(Entry) /\ ro \in Seq(Entry) /\ qc \in Seq(Entry) /\ qo \in Seq(Entry)
      BY <1>1, <1>8, <2>1, RestAllFacts
    <2>3. CASE b = "collections"
      <3>1. p.next.phase # "done"
        BY <1>7, <2>3 DEF Following
      <3>2. ro = qo
        BY <1>2, <1>7, <2>3, <3>1 DEF Rest, Open, Branch
      <3>3. qc = w \o rc /\ (p.more => rc # <<>>)
        BY <1>3, <1>4, <1>9, <1>11, <2>3
      <3> HIDE DEF rc, ro, qc, qo
      <3>4. (page.entries \o w) \o (rc \o ro) = page.entries \o ((w \o rc) \o ro)
        <4>1. rc \o ro \in Seq(Entry)
          BY <2>2, ConcatProperties
        <4>2. (page.entries \o w) \o (rc \o ro) = page.entries \o (w \o (rc \o ro))
          BY <1>1, <1>6, <4>1, Joined
        <4>3. w \o (rc \o ro) = (w \o rc) \o ro
          BY <1>6, <2>2, Joined
        <4>4. QED
          BY <4>2, <4>3
      <3>5. p.more => rc \o ro # <<>>
        <4>1. p.more => Len(rc) > 0
          BY <2>2, <3>3
        <4>2. Len(rc \o ro) = Len(rc) + Len(ro) /\ Len(rc) \in Nat /\ Len(ro) \in Nat
          BY <2>2, ConcatProperties, LenProperties
        <4>3. Len(<<>>) = 0
          OBVIOUS
        <4>4. QED
          BY <4>1, <4>2, <4>3
      <3>6. QED
        BY <1>4, <3>2, <3>3, <3>4, <3>5 DEF RestAll, rc, ro, qc, qo
    <2>4. CASE b = "data_objects"
      <3>1. ~Open(On, "collections", p.next)
        BY <1>7, <2>4, OpenFacts DEF Following
      <3>2. rc = <<>> /\ qc = <<>>
        BY <1>2, <2>4, <3>1 DEF Rest
      <3>3. qo = w \o ro /\ (p.more => ro # <<>>)
        BY <1>3, <1>4, <1>9, <1>11, <2>4
      <3> HIDE DEF rc, ro, qc, qo
      <3>4. (page.entries \o w) \o ro = page.entries \o (w \o ro)
        BY <1>1, <1>6, <2>2, Joined
      <3>5. rc \o ro = ro /\ qc \o qo = qo
        BY <2>2, <3>2, ConcatEmptySeq
      <3>6. QED
        BY <1>4, <3>3, <3>4, <3>5 DEF RestAll, rc, ro, qc, qo
    <2>5. QED
      BY <2>3, <2>4 DEF Branch
  <1>17. p.phase = IF scan.exhausted /\ b = "collections" THEN "data_objects" ELSE page.phase
    BY <1>1, ExtendPhase
  <1>18. QED
    BY <1>3, <1>4, <1>6, <1>7, <1>8, <1>12, <1>13, <1>14, <1>15, <1>16, <1>17 DEF Extended, o, w

-----------------------------------------------------------------------------
(* The steps of a page.                                                    *)

\* Others do nothing, and the reader stays with its query and cursor.
Steady == /\ rows' = rows /\ query' = query /\ cursor' = cursor /\ got' = got
          /\ whole' = whole /\ touched' = touched /\ edits' = edits

LEMMA SameQuery ==
    ASSUME query' = query
    PROVE  /\ On' = On /\ Limit' = Limit
           /\ Enabled("collections")' = Enabled("collections")
           /\ Enabled("data_objects")' = Enabled("data_objects")
  <1>1. Enabled("collections")' = Enabled("collections")
    BY DEF Enabled, HasKind
  <1>2. Enabled("data_objects")' = Enabled("data_objects")
    BY DEF Enabled, HasKind
  <1>3. On' = On
    BY <1>1, <1>2 DEF On, Branch
  <1>4. Limit' = Limit
    BY DEF Limit
  <1>5. QED
    BY <1>1, <1>2, <1>3, <1>4

LEMMA SameReadings ==
    ASSUME Steady, Building, Building',
           page'.entries \o RestAll(rows, On, page'.next) = page.entries \o RestAll(rows, On, page.next)
    PROVE  Readings' \subseteq Readings
  <1>1. pc # "done" /\ pc' # "done"
    BY DEF Building
  <1>2. On' = On
    BY SameQuery DEF Steady
  <1>3. Readings = {got \o RestAll(rows, On, cursor)}
                   \cup {got \o (page.entries \o RestAll(rows, On, page.next))}
    BY <1>1 DEF Readings
  <1>4. Readings' = {got \o RestAll(rows, On, cursor)}
                    \cup {got \o (page'.entries \o RestAll(rows, On, page'.next))}
    BY <1>1, <1>2 DEF Readings, Steady
  <1>5. QED
    BY <1>3, <1>4

LEMMA NotDue ==
    ASSUME PagingInv, NEW b \in Branch, pc = b, ~Due(b)
    PROVE  \/ page.more \/ page.phase # b \/ ~Enabled(b) \/ cursor.exhausted[b] \/ page.remaining = 0
  <1>1. Limit \in Nat /\ Len(page.entries) \in Nat /\ page.remaining = Limit - Len(page.entries)
        /\ page.remaining >= 0
    BY LimitFacts, LenProperties DEF PagingInv, TypeOK
  <1>2. QED
    BY <1>1 DEF Due

LEMMA ScanCollectionsStep ==
    ASSUME PagingInv, ScanBranch("collections", "data_objects")
    PROVE  PagingInv' /\ Readings' \subseteq Readings /\ (MoreInv => MoreInv')
  <1> DEFINE b == "collections"
  <1>1. TypeOK /\ BuildInv /\ AtCollections /\ pc = b /\ b \in Branch
    BY DEF PagingInv, BuildInv, ScanBranch, Branch
  <1>2. Steady /\ pc' = "data_objects" /\ faults' = faults
    BY DEF ScanBranch, World, Reader, Steady, Goto
  <1>3. /\ On' = On /\ Limit' = Limit /\ Limit \in Nat /\ Limit > 0
        /\ Enabled("collections")' = Enabled("collections")
        /\ Enabled("data_objects")' = Enabled("data_objects")
    BY <1>1, <1>2, SameQuery, LimitFacts DEF Steady, TypeOK
  <1>4. /\ page.entries = <<>> /\ page.next = cursor /\ ~page.more /\ page.phase = FirstPhase
        /\ page.remaining = Limit
    <2>1. Len(<<>>) = 0
      OBVIOUS
    <2>2. QED
      BY <1>1, <1>3, <2>1 DEF AtCollections, TypeOK
  <1>5. /\ cursor \in Cursor /\ cursor.phase \in Branch \cup {""}
        /\ cursor.offset["collections"] \in Nat /\ cursor.offset["data_objects"] \in Nat
        /\ (cursor.phase = "collections" => Enabled("collections"))
        /\ Fits /\ Belongs /\ Page(page)
    BY <1>1 DEF BuildInv, TypeOK, Cursor, Phases, Building, Belongs, Branch
  <1>6. FirstPhase \in Branch /\ (FirstPhase = "collections" => Enabled("collections"))
    BY <1>5 DEF FirstPhase, Branch
  <1>7. Cardinality(Entries["collections"]) \in Nat
    BY CatalogAssumption, FS_CardinalityType DEF Branch
  <1>8. CASE Due(b)
    <2>1. PICK scan \in Scanned(b, cursor.offset[b], page.remaining) : page' = Extend(b, scan)
      BY <1>8 DEF ScanBranch
    <2>2. Extended(b, scan, page')
      BY <1>1, <1>8, <2>1, DueScan
    <2> DEFINE p == page'
    <2>3. /\ p.next.offset["data_objects"] = cursor.offset["data_objects"]
          /\ p.next.exhausted["data_objects"] = cursor.exhausted["data_objects"]
          /\ p.next.offset["collections"] \in Nat
          /\ p.next.exhausted["collections"] = scan.exhausted
          /\ p.next.phase = IF scan.exhausted THEN "data_objects" ELSE "collections"
          /\ p.phase = IF scan.exhausted THEN "data_objects" ELSE "collections"
      <3>1. p.next.offset["data_objects"] = cursor.offset["data_objects"]
        BY <1>4, <2>2 DEF Extended, Branch
      <3>2. p.next.exhausted["data_objects"] = cursor.exhausted["data_objects"]
        BY <1>4, <2>2 DEF Extended, Branch
      <3>3. p.next.offset["collections"] = cursor.offset["collections"] + Len(scan.entries)
        BY <2>2 DEF Extended
      <3>4. Len(scan.entries) \in Nat /\ p.next.exhausted["collections"] = scan.exhausted
        BY <2>2 DEF Extended
      <3>5. p.next.offset["collections"] \in Nat
        <4>1. cursor.offset["collections"] \in Nat
          BY <1>5
        <4>2. \A i, j \in Nat : i + j \in Nat
          OBVIOUS
        <4>3. QED
          BY <3>3, <3>4, <4>1, <4>2
      <3>6. p.next.phase = IF scan.exhausted THEN "data_objects" ELSE "collections"
        BY <2>2 DEF Extended, Following
      <3>7. p.phase = IF scan.exhausted THEN "data_objects" ELSE "collections"
        BY <1>8, <2>2 DEF Extended, Due
      <3>8. QED
        BY <3>1, <3>2, <3>4, <3>5, <3>6, <3>7
    <2>4. Len(p.entries) <= Cardinality(Entries["collections"])
      <3>1. Len(<<>>) = 0
        OBVIOUS
      <3>2. Len(p.entries) = Len(scan.entries) /\ Len(scan.entries) \in Nat
        BY <1>4, <2>2, <3>1 DEF Extended
      <3>3. Len(scan.entries) > 0 =>
               cursor.offset["collections"] + Len(scan.entries) <= Cardinality(Entries["collections"])
        BY <2>2 DEF Extended
      <3>4. cursor.offset["collections"] \in Nat
        BY <1>5
      <3> HIDE DEF p
      <3>5. Len(scan.entries) <= Cardinality(Entries["collections"])
        BY <1>7, <3>2, <3>3, <3>4
      <3>6. QED
        BY <3>2, <3>5
    <2>5. /\ p.more = ~scan.exhausted /\ scan.exhausted \in BOOLEAN
          /\ Page(p) /\ p.next \in Cursor /\ p.entries \in Seq(Entry)
          /\ p.remaining = Limit - Len(p.entries) /\ p.remaining >= 0
      BY <2>2 DEF Extended
    <2>6. Enabled("collections")
      BY <1>8 DEF Due
    <2> HIDE DEF p
    <2>7. ~p.more => /\ ~Open(On, "collections", p.next)
                     /\ p.phase # "collections"
      BY <2>3, <2>5, OpenFacts
    <2>8. AtObjects'
      BY <1>2, <1>3, <2>3, <2>4, <2>5, <2>6, <2>7 DEF AtObjects, Steady, Branch, p
    <2>9. TypeOK'
      BY <1>1, <1>2, <1>3, <2>3, <2>5 DEF TypeOK, Steady, Phases, Branch, p
    <2>10. BuildInv'
      BY <1>1, <1>2, <1>3, <1>5, <2>3, <2>5, <2>6, <2>8
         DEF BuildInv, Steady, Fits, Belongs, Building, Branch, p
    <2>11. Readings' \subseteq Readings
      <3>1. Building /\ Building'
        BY <1>1, <1>2 DEF Building
      <3>2. page'.entries \o RestAll(rows, On, page'.next) = page.entries \o RestAll(rows, On, page.next)
        BY <2>2 DEF Extended
      <3>3. QED
        BY <1>2, <3>1, <3>2, SameReadings
    <2>12. MoreInv'
      BY <1>2, <1>3, <2>2 DEF MoreInv, Extended, Steady
    <2>13. QED
      BY <2>9, <2>10, <2>11, <2>12 DEF PagingInv
  <1>9. CASE ~Due(b)
    <2>1. page' = page
      BY <1>9 DEF ScanBranch
    <2>2. page.phase # b \/ cursor.exhausted[b]
      BY <1>1, <1>3, <1>4, <1>6, <1>9, NotDue
    <2>3. ~Open(On, "collections", cursor)
      BY <1>4, <1>5, <2>2, OpenFacts DEF FirstPhase, Branch
    <2>4. page.phase = "collections" => Enabled("collections") /\ cursor.exhausted["collections"]
      BY <1>4, <1>6, <2>2
    <2>5. AtObjects'
      <3>1. Len(<<>>) = 0
        OBVIOUS
      <3>2. Len(page.entries) <= Cardinality(Entries["collections"])
        BY <1>4, <1>7, <3>1
      <3>3. cursor.phase # "done"
        BY <1>5 DEF Branch
      <3>4. QED
        BY <1>2, <1>3, <1>4, <1>6, <2>1, <2>3, <2>4, <3>2, <3>3 DEF AtObjects, Steady
    <2>6. TypeOK'
      BY <1>1, <1>2, <1>3, <2>1 DEF TypeOK, Steady, Branch
    <2>7. BuildInv'
      BY <1>1, <1>2, <1>3, <1>4, <1>5, <2>1, <2>5
         DEF BuildInv, Steady, Fits, Belongs, Building, Branch
    <2>8. Readings' \subseteq Readings
      BY <1>1, <1>2, <2>1, SameReadings DEF Building
    <2>9. MoreInv => MoreInv'
      BY <1>1, <1>2, <1>3, <2>1 DEF MoreInv, SameEntries, Steady, Building
    <2>10. QED
      BY <2>6, <2>7, <2>8, <2>9 DEF PagingInv
  <1>10. QED
    BY <1>8, <1>9

LEMMA CatalogFacts ==
    /\ Cardinality(Entries["collections"]) \in Nat /\ Cardinality(Entries["data_objects"]) \in Nat
    /\ MaxInt \in Nat
    /\ Cardinality(Entries["collections"]) + 2 * Cardinality(Entries["data_objects"]) <= MaxInt
  BY EntryQueryPagingAssumption, CatalogAssumption, FS_CardinalityType DEF Branch

LEMMA ScanObjectsStep ==
    ASSUME PagingInv, ScanBranch("data_objects", "peek")
    PROVE  PagingInv' /\ Readings' \subseteq Readings /\ (MoreInv => MoreInv')
  <1> DEFINE b == "data_objects"
  <1>1. TypeOK /\ BuildInv /\ AtObjects /\ pc = b /\ b \in Branch
    BY DEF PagingInv, BuildInv, ScanBranch, Branch
  <1>2. Steady /\ pc' = "peek" /\ faults' = faults
    BY DEF ScanBranch, World, Reader, Steady, Goto
  <1>3. /\ On' = On /\ Limit' = Limit /\ Limit \in Nat /\ Limit > 0
        /\ Enabled("collections")' = Enabled("collections")
        /\ Enabled("data_objects")' = Enabled("data_objects")
    BY <1>1, <1>2, SameQuery, LimitFacts DEF Steady, TypeOK
  <1>4. /\ cursor \in Cursor /\ page.next \in Cursor /\ page.entries \in Seq(Entry)
        /\ page.phase \in Branch /\ page.next.phase # "done" /\ page.more \in BOOLEAN
    BY <1>1 DEF TypeOK, AtObjects
  <1>5. /\ cursor.offset["collections"] \in Nat /\ cursor.offset["data_objects"] \in Nat
        /\ page.next.offset["collections"] \in Nat /\ page.next.offset["data_objects"] \in Nat
        /\ Fits /\ Belongs /\ Page(page) /\ cursor.phase # "done"
        /\ page.next.phase = "collections" => Enabled("collections")
    BY <1>1 DEF BuildInv, Building, Branch
  <1>6. /\ page.next.offset["data_objects"] = cursor.offset["data_objects"]
        /\ page.next.exhausted["data_objects"] = cursor.exhausted["data_objects"]
        /\ Len(page.entries) <= Cardinality(Entries["collections"])
        /\ ~page.more => ~Open(On, "collections", page.next)
        /\ ~page.more /\ page.phase = "collections" =>
              Enabled("collections") /\ page.next.exhausted["collections"]
    BY <1>1 DEF AtObjects
  <1>7. Limit <= MaxInt - cursor.offset["data_objects"]
    BY <1>5 DEF Fits
  <1>8. CASE Due(b)
    <2>1. PICK scan \in Scanned(b, cursor.offset[b], page.remaining) : page' = Extend(b, scan)
      BY <1>8 DEF ScanBranch
    <2>2. Extended(b, scan, page')
      BY <1>1, <1>8, <2>1, DueScan
    <2>3. page.phase = "data_objects" /\ ~page.more /\ Enabled("data_objects")
      BY <1>8 DEF Due
    <2> DEFINE p == page'
               k == Len(scan.entries)
    <2>4. /\ p.more = ~scan.exhausted /\ scan.exhausted \in BOOLEAN
          /\ Page(p) /\ p.next \in Cursor /\ p.entries \in Seq(Entry)
          /\ p.remaining = Limit - Len(p.entries) /\ p.remaining >= 0
      BY <2>2 DEF Extended
    <2>5. p.phase = "data_objects"
      BY <2>2, <2>3 DEF Extended
    <2>6. p.next.phase = IF scan.exhausted THEN "done" ELSE "data_objects"
      BY <2>2 DEF Extended, Following
    <2>7. k \in Nat /\ p.next.offset["data_objects"] = cursor.offset["data_objects"] + k
      BY <2>2 DEF Extended
    <2>8. p.next.exhausted["data_objects"] = scan.exhausted
      BY <2>2 DEF Extended
    <2>9. p.next.offset["collections"] = page.next.offset["collections"]
      BY <2>2 DEF Extended, Branch
    <2>10. /\ k > 0 => cursor.offset["data_objects"] + k <= Cardinality(Entries["data_objects"])
           /\ Len(p.entries) = Len(page.entries) + k
           /\ p.more => p.remaining = 0
      BY <2>2 DEF Extended
    <2> HIDE DEF p, k
    <2>11. p.next.offset["data_objects"] \in Nat
      BY <1>5, <2>7
    <2>12. p.more => Room(p.next)
      <3>1. Len(page.entries) \in Nat
        BY <1>4, LenProperties
      <3>2. p.more => Limit = Len(page.entries) + k
        BY <1>3, <2>4, <2>7, <2>10, <3>1
      <3>3. p.more => Limit <= MaxInt - (cursor.offset["data_objects"] + k)
        <4>1. CASE k = 0
          BY <1>3, <1>5, <1>7, <4>1
        <4>2. CASE k > 0
          <5> DEFINE C == Cardinality(Entries["collections"])
                     D == Cardinality(Entries["data_objects"])
                     c == cursor.offset["data_objects"]
                     n == Len(page.entries)
          <5>1. C \in Nat /\ D \in Nat /\ MaxInt \in Nat /\ C + 2 * D <= MaxInt
            BY CatalogFacts
          <5>2. c \in Nat /\ c + k <= D
            BY <1>5, <2>10, <4>2
          <5>3. n \in Nat /\ n <= C
            BY <1>6, <3>1
          <5>4. p.more => Limit = n + k
            BY <3>2
          <5> HIDE DEF C, D, c, n
          <5>5. n + k <= MaxInt - (c + k)
            BY <2>7, <5>1, <5>2, <5>3
          <5>6. p.more => Limit <= MaxInt - (c + k)
            BY <5>4, <5>5
          <5>7. QED
            BY <5>6 DEF c
        <4>3. QED
          BY <2>7, <4>1, <4>2
      <3>4. QED
        BY <2>7, <3>3 DEF Room
    <2>13. ~p.more => Closed(p.next)
      BY <2>4, <2>6, OpenFacts DEF Closed
    <2>14. ~PeekDue'
      BY <2>4, <2>8 DEF PeekDue, p
    <2>15. AtPeek'
      <3>1. (page.more \/ PeekDue \/ Closed(page.next))'
        BY <1>3, <2>13 DEF Closed, p
      <3>2. (page.more \/ PeekDue => Room(page.next))'
        BY <1>3, <2>12, <2>14 DEF Room, p
      <3>3. QED
        BY <2>14, <3>1, <3>2 DEF AtPeek
    <2>16. TypeOK'
      BY <1>1, <1>2, <1>3, <2>4, <2>5 DEF TypeOK, Steady, Phases, Branch, p
    <2>17. BuildInv'
      BY <1>1, <1>2, <1>3, <1>5, <2>4, <2>6, <2>9, <2>11, <2>15
         DEF BuildInv, Steady, Fits, Belongs, Building, Branch, p
    <2>18. Readings' \subseteq Readings
      <3>1. Building /\ Building'
        BY <1>1, <1>2 DEF Building
      <3>2. page'.entries \o RestAll(rows, On, page'.next) = page.entries \o RestAll(rows, On, page.next)
        BY <2>2 DEF Extended
      <3>3. QED
        BY <1>2, <3>1, <3>2, SameReadings
    <2>19. MoreInv'
      BY <1>2, <1>3, <2>2 DEF MoreInv, Extended, Steady
    <2>20. QED
      BY <2>16, <2>17, <2>18, <2>19 DEF PagingInv
  <1>9. CASE ~Due(b)
    <2>1. page' = page
      BY <1>9 DEF ScanBranch
    <2>2. page.more \/ page.phase # b \/ ~Enabled(b) \/ cursor.exhausted[b] \/ page.remaining = 0
      BY <1>1, <1>9, NotDue
    <2>3. PeekDue' <=> PeekDue
      BY <1>3, <2>1 DEF PeekDue
    <2>4. Room(page.next)
      BY <1>6, <1>7 DEF Room
    <2>5. page.more \/ PeekDue \/ Closed(page.next)
      <3>1. CASE page.more
        BY <3>1
      <3>2. CASE ~page.more /\ page.phase = "data_objects"
        BY <1>6, <2>2, <3>2, OpenFacts DEF PeekDue, Closed
      <3>3. CASE ~page.more /\ page.phase = "collections"
        BY <1>6, <3>3, OpenFacts DEF PeekDue, Closed
      <3>4. QED
        BY <1>4, <3>1, <3>2, <3>3 DEF Branch
    <2>6. PeekDue => ~Open(On, "collections", page.next) /\ Open(On, "data_objects", page.next)
      BY <1>4, <1>6, OpenFacts DEF PeekDue
    <2>7. AtPeek'
      <3>1. (page.more \/ PeekDue \/ Closed(page.next))'
        BY <1>3, <2>1, <2>3, <2>5 DEF Closed
      <3>2. (page.more \/ PeekDue => Room(page.next))'
        BY <1>2, <1>3, <2>1, <2>4 DEF Room
      <3>3. (PeekDue => ~Open(On, "collections", page.next) /\ Open(On, "data_objects", page.next))'
        BY <1>3, <2>1, <2>3, <2>6
      <3>4. QED
        BY <3>1, <3>2, <3>3 DEF AtPeek
    <2>8. TypeOK'
      BY <1>1, <1>2, <1>3, <2>1 DEF TypeOK, Steady, Branch
    <2>9. BuildInv'
      BY <1>1, <1>2, <1>3, <1>5, <2>1, <2>7
         DEF BuildInv, Steady, Fits, Belongs, Building, Branch
    <2>10. Readings' \subseteq Readings
      BY <1>1, <1>2, <2>1, SameReadings DEF Building
    <2>11. MoreInv => MoreInv'
      BY <1>1, <1>2, <1>3, <2>1 DEF MoreInv, SameEntries, Steady, Building
    <2>12. QED
      BY <2>8, <2>9, <2>10, <2>11 DEF PagingInv
  <1>10. QED
    BY <1>8, <1>9

\* A look at the data objects tells whether there is one to read.
LEMMA PeekFacts ==
    ASSUME PagingInv, pc = "peek", PeekDue,
           NEW scan \in Scanned("data_objects", page.next.offset["data_objects"], 1),
           NEW more, more = (scan.entries # <<>> \/ ~scan.exhausted)
    PROVE  /\ more \in BOOLEAN
           /\ more <=> Rest(rows, On, "data_objects", page.next) # <<>>
  <1> DEFINE b == "data_objects"
             o == page.next.offset[b]
             s == Order(rows[b])
             w == scan.entries
  <1>1. TypeOK /\ BuildInv /\ AtPeek /\ b \in Branch
    BY DEF PagingInv, BuildInv, Branch
  <1>2. rows[b] \in Seq(Row) /\ o \in Nat
    BY <1>1 DEF BuildInv, Building, Branch
  <1>3. o + 1 <= MaxInt
    <2>1. Limit <= MaxInt - o
      BY <1>1 DEF AtPeek, Room
    <2>2. Limit \in Nat /\ Limit > 0
      BY <1>1, LimitFacts DEF TypeOK
    <2>3. QED
      BY <1>2, <2>1, <2>2, CatalogFacts
  <1>4. w = Window(s, o, 1) /\ scan.exhausted \in BOOLEAN
    BY <1>1, <1>2, <1>3, ScanFacts
  <1>5. scan.exhausted <=> Len(s) <= o + 1
    BY <1>1, <1>2, <1>3, ScanFacts
  <1>6. s \in Seq(Entry) /\ Len(s) \in Nat
    BY <1>2, OrderFacts, LenProperties
  <1>7. Open(On, b, page.next) /\ page.next.offset[b] \in Int /\ page.next.offset[b] >= 0
    BY <1>1, <1>2 DEF AtPeek
  <1>8. Rest(rows, On, b, page.next) = Window(s, o, Len(s))
    BY <1>1, <1>2, <1>7, RestFacts
  <1> HIDE DEF o, s, w
  <1>9. w \in Seq(Entry) /\ Len(w) = IF o + 1 <= Len(s) THEN 1 ELSE IF o <= Len(s) THEN Len(s) - o ELSE 0
    <2>1. 1 \in Nat
      OBVIOUS
    <2>2. Splits(s, o, 1, w)
      BY <1>2, <1>4, <1>6, <2>1, WindowSplits
    <2>3. Window(s, o, 1) \in Seq(Entry)
      BY <1>4, <2>2 DEF Splits
    <2>4. Len(Window(s, o, 1)) = IF o + 1 <= Len(s) THEN 1 ELSE IF o <= Len(s) THEN Len(s) - o ELSE 0
      BY <1>2, <1>6, WindowOfOne, Zenon
    <2>5. QED
      BY <1>4, <2>3, <2>4
  <1>10. w # <<>> <=> Len(s) > o
    <2>1. w # <<>> <=> Len(w) > 0
      BY <1>9, EmptyOnly
    <2>2. Len(w) > 0 <=> Len(s) > o
      BY <1>2, <1>6, <1>9
    <2>3. QED
      BY <2>1, <2>2
  <1>11. Window(s, o, Len(s)) = <<>> <=> Len(s) <= o
    BY <1>2, <1>6, WindowToEnd
  <1>12. more <=> Len(s) > o
    <2>1. more <=> w # <<>> \/ ~scan.exhausted
      BY DEF w
    <2>2. ~scan.exhausted <=> Len(s) > o + 1
      BY <1>2, <1>5, <1>6
    <2>3. QED
      BY <1>2, <1>6, <1>10, <2>1, <2>2
  <1>13. more <=> Rest(rows, On, b, page.next) # <<>>
    BY <1>2, <1>6, <1>8, <1>11, <1>12
  <1>14. QED
    BY <1>13

LEMMA PeekStep ==
    ASSUME PagingInv, Peek
    PROVE  PagingInv' /\ Readings' \subseteq Readings /\ (MoreInv => MoreInv')
  <1> DEFINE b == "data_objects"
  <1>1. TypeOK /\ BuildInv /\ AtPeek /\ pc = "peek" /\ b \in Branch
    BY DEF PagingInv, BuildInv, Peek, Branch
  <1>2. Steady /\ pc' \in {"count", "return"} /\ faults' = faults
    BY DEF Peek, World, Reader, Steady, Goto
  <1>3. /\ On' = On /\ Limit' = Limit /\ Limit \in Nat /\ Limit > 0
        /\ Enabled("collections")' = Enabled("collections")
        /\ Enabled("data_objects")' = Enabled("data_objects")
    BY <1>1, <1>2, SameQuery, LimitFacts DEF Steady, TypeOK
  <1>4. /\ cursor \in Cursor /\ page.next \in Cursor /\ page.entries \in Seq(Entry)
        /\ page.phase \in Phases /\ page.more \in BOOLEAN
        /\ page.remaining = Limit - Len(page.entries) /\ page.remaining >= 0
    BY <1>1 DEF TypeOK
  <1>5. /\ cursor.offset["collections"] \in Nat /\ cursor.offset["data_objects"] \in Nat
        /\ page.next.offset["collections"] \in Nat /\ page.next.offset["data_objects"] \in Nat
        /\ Fits /\ Belongs /\ Page(page) /\ cursor.phase # "done"
        /\ page.next.phase = "collections" => Enabled("collections")
    BY <1>1 DEF BuildInv, Building, Branch
  <1>6. Building /\ Building'
    BY <1>1, <1>2 DEF Building
  <1>7. rows \in [Branch -> Seq(Row)]
    BY <1>1 DEF BuildInv
  <1>8. CASE PeekDue
    <2>1. PICK scan \in Scanned(b, page.next.offset[b], 1) : page' = Peeked(scan)
      BY <1>8 DEF Peek
    <2>2. PICK more : more = (scan.entries # <<>> \/ ~scan.exhausted)
      OBVIOUS
    <2>3. more \in BOOLEAN
      BY <1>1, <1>8, <2>2, PeekFacts
    <2>4. more <=> Rest(rows, On, b, page.next) # <<>>
      BY <1>1, <1>8, <2>2, PeekFacts
    <2> DEFINE p == page'
    <2>5. /\ Page(p) /\ p.entries = page.entries /\ p.remaining = page.remaining
          /\ p.phase = page.phase
      BY <1>5, <2>1, PeekedFields
    <2>6. p.more = more
      BY <1>5, <2>1, <2>2, PeekedFields
    <2>7. p.next = [phase |-> IF more THEN "data_objects" ELSE "done",
                    offset |-> page.next.offset,
                    exhausted |-> [page.next.exhausted EXCEPT !["data_objects"] = ~more]]
      BY <1>4, <1>5, <2>1, <2>2, PeekedNext
    <2> HIDE DEF p
    <2>8. page.next.offset \in [Branch -> Int] /\ page.next.exhausted \in [Branch -> BOOLEAN]
      BY <1>4 DEF Cursor
    <2>9. /\ p.next.offset = page.next.offset
          /\ p.next.phase = IF more THEN "data_objects" ELSE "done"
          /\ p.next.exhausted["data_objects"] = ~more
      BY <2>7, <2>8 DEF Branch
    <2>10. p.next \in Cursor
      <3>1. [page.next.exhausted EXCEPT !["data_objects"] = ~more] \in [Branch -> BOOLEAN]
        BY <2>3, <2>8
      <3>2. (IF more THEN "data_objects" ELSE "done") \in Phases
        BY DEF Phases, Branch
      <3>3. QED
        BY <2>7, <2>8, <3>1, <3>2 DEF Cursor
    <2>11. ~Open(On, "collections", page.next) /\ Open(On, "data_objects", page.next) /\ Room(page.next)
      BY <1>1, <1>8 DEF AtPeek
    <2>12. ~Open(On, "collections", p.next)
      BY <2>9, OpenFacts
    <2>13. more => Open(On, "data_objects", p.next)
      BY <2>9, <2>11, OpenFacts
    <2>14. ~more => ~Open(On, "data_objects", p.next)
      BY <2>9, OpenFacts
    <2>15. Rest(rows, On, "data_objects", p.next) = Rest(rows, On, "data_objects", page.next)
      <3>1. CASE more
        BY <2>9, <2>11, <2>13, <3>1 DEF Rest
      <3>2. CASE ~more
        BY <2>4, <2>14, <3>2 DEF Rest
      <3>3. QED
        BY <3>1, <3>2
    <2>16. Rest(rows, On, "collections", p.next) = Rest(rows, On, "collections", page.next)
      BY <2>11, <2>12 DEF Rest
    <2>17. RestAll(rows, On, p.next) = RestAll(rows, On, page.next)
      BY <2>15, <2>16 DEF RestAll
    <2>18. RestAll(rows, On, page.next) = Rest(rows, On, "data_objects", page.next)
      <3>1. Rest(rows, On, "collections", page.next) = <<>>
        BY <2>11 DEF Rest
      <3>2. Rest(rows, On, "data_objects", page.next) \in Seq(Entry)
        BY <1>4, <1>7, RestAllFacts
      <3>3. QED
        BY <3>1, <3>2, ConcatEmptySeq DEF RestAll
    <2>19. AtEnd'
      <3>1. p.more => Room(p.next)
        BY <2>9, <2>11 DEF Room
      <3>2. ~p.more => Closed(p.next)
        BY <2>6, <2>12, <2>14 DEF Closed
      <3>3. QED
        BY <1>2, <1>3, <3>1, <3>2 DEF AtEnd, Room, Closed, p
    <2>20. TypeOK'
      <3>1. pc' \in Branch \cup {"call", "peek", "count", "count_objects", "return", "done", "refused"}
        BY <1>2
      <3>2. page'.more \in BOOLEAN
        BY <2>3, <2>6 DEF p
      <3>3. QED
        BY <1>1, <1>2, <1>3, <1>4, <2>5, <2>10, <3>1, <3>2 DEF TypeOK, Steady, p
    <2>21. BuildInv'
      BY <1>1, <1>2, <1>3, <1>5, <2>5, <2>9, <2>19
         DEF BuildInv, Steady, Fits, Belongs, Building, Branch, p
    <2>22. Readings' \subseteq Readings
      BY <1>2, <1>6, <2>5, <2>17, SameReadings DEF p
    <2>23. MoreInv'
      BY <1>2, <1>3, <2>4, <2>6, <2>17, <2>18 DEF MoreInv, Steady, p
    <2>24. QED
      BY <2>20, <2>21, <2>22, <2>23 DEF PagingInv
  <1>9. CASE ~PeekDue
    <2>1. page' = page
      BY <1>9 DEF Peek
    <2>2. AtEnd'
      <3>1. page.more \/ Closed(page.next)
        BY <1>1, <1>9 DEF AtPeek
      <3>2. page.more => Room(page.next)
        BY <1>1 DEF AtPeek
      <3>3. QED
        BY <1>2, <1>3, <2>1, <3>1, <3>2 DEF AtEnd, Room, Closed
    <2>3. TypeOK'
      BY <1>1, <1>2, <1>3, <2>1 DEF TypeOK, Steady
    <2>4. BuildInv'
      BY <1>1, <1>2, <1>3, <1>5, <2>1, <2>2
         DEF BuildInv, Steady, Fits, Belongs, Building, Branch
    <2>5. Readings' \subseteq Readings
      BY <1>2, <1>6, <2>1, SameReadings
    <2>6. MoreInv => MoreInv'
      BY <1>2, <1>3, <1>6, <2>1 DEF MoreInv, SameEntries, Steady
    <2>7. QED
      BY <2>3, <2>4, <2>5, <2>6 DEF PagingInv
  <1>10. QED
    BY <1>8, <1>9

\* p is page with other totals.
Counted(p, b, n) ==
    /\ Page(p)
    /\ p.entries = page.entries /\ p.told = page.told /\ p.shown = page.shown
    /\ p.remaining = page.remaining /\ p.phase = page.phase
    /\ p.more = page.more /\ p.next = page.next
    /\ p.totals = [page.totals EXCEPT ![b] = n]

LEMMA CountFields ==
    ASSUME Page(page), NEW b, NEW n, NEW p, p = [page EXCEPT !.totals[b] = n]
    PROVE  Counted(p, b, n)
  BY DEF Page, Counted

LEMMA CountStep ==
    ASSUME PagingInv, NEW stage \in {"count", "count_objects"}, NEW b \in Branch,
           NEW next \in {"count_objects", "return"}, CountBranch(stage, b, next)
    PROVE  PagingInv' /\ Readings' \subseteq Readings /\ (MoreInv => MoreInv')
  <1>1. TypeOK /\ BuildInv /\ AtEnd /\ pc = stage /\ Building /\ Page(page)
    BY DEF PagingInv, BuildInv, CountBranch, Building
  <1>2. Steady /\ pc' = next /\ faults' = faults /\ Building'
    BY DEF CountBranch, World, Reader, Steady, Goto, Building
  <1>3. /\ On' = On /\ Limit' = Limit
        /\ Enabled("collections")' = Enabled("collections")
        /\ Enabled("data_objects")' = Enabled("data_objects")
    BY <1>2, SameQuery DEF Steady
  <1>4. /\ Page(page') /\ page'.entries = page.entries /\ page'.remaining = page.remaining
        /\ page'.phase = page.phase /\ page'.more = page.more /\ page'.next = page.next
    <2>1. PICK n : n = IF Enabled(b) THEN Count(b, rows[b]) ELSE 0
      OBVIOUS
    <2>2. page' = [page EXCEPT !.totals[b] = n]
      BY <2>1 DEF CountBranch
    <2>3. Counted(page', b, n)
      BY <1>1, <2>2, CountFields
    <2>4. QED
      BY <2>3 DEF Counted
  <1>5. AtEnd'
    BY <1>1, <1>2, <1>3, <1>4 DEF AtEnd, Room, Closed
  <1>6. TypeOK'
    BY <1>1, <1>2, <1>3, <1>4 DEF TypeOK, Steady
  <1>7. BuildInv'
    BY <1>1, <1>2, <1>3, <1>4, <1>5 DEF BuildInv, Steady, Fits, Belongs, Building, Branch
  <1>8. Readings' \subseteq Readings
    BY <1>1, <1>2, <1>4, SameReadings
  <1>9. MoreInv => MoreInv'
    BY <1>1, <1>2, <1>3, <1>4 DEF MoreInv, SameEntries, Steady
  <1>10. QED
    BY <1>6, <1>7, <1>8, <1>9 DEF PagingInv

LEMMA NewPageFields ==
    /\ Page(NewPage)
    /\ NewPage.entries = <<>> /\ NewPage.remaining = Limit /\ NewPage.phase = FirstPhase
    /\ NewPage.more = FALSE /\ NewPage.next = cursor /\ NewPage.totals = [b \in Branch |-> 0]
  BY DEF NewPage, Page

LEMMA CallStep ==
    ASSUME PagingInv, Call
    PROVE  PagingInv' /\ Readings' \subseteq Readings /\ (MoreInv => MoreInv')
  <1>1. TypeOK /\ BuildInv /\ pc = "call" /\ ~Building
    BY DEF PagingInv, Call, Building
  <1>2. Steady /\ faults' = faults
    BY DEF Call, World, Reader, Steady
  <1>3. /\ On' = On /\ Limit' = Limit /\ Limit \in Nat /\ Limit > 0
        /\ Enabled("collections")' = Enabled("collections")
        /\ Enabled("data_objects")' = Enabled("data_objects")
    BY <1>1, <1>2, SameQuery, LimitFacts DEF Steady, TypeOK
  <1>4. FirstPhase' = FirstPhase
    BY <1>2, <1>3 DEF FirstPhase, Steady
  <1>5. FirstPhase \in Phases
    BY <1>1 DEF FirstPhase, TypeOK, Cursor, Phases, Branch
  <1>6. cursor \in Cursor /\ rows \in [Branch -> Seq(Row)] /\ got \in Seq(Entry)
    BY <1>1 DEF TypeOK, BuildInv
  <1>7. RestAll(rows, On, cursor) \in Seq(Entry)
    BY <1>6, RestAllFacts
  <1>8. Readings = {got \o RestAll(rows, On, cursor)}
    BY <1>1 DEF Readings
  <1>9. CASE pc' = "refused" /\ page' = page
    <2>1. TypeOK'
      BY <1>1, <1>2, <1>3, <1>9 DEF TypeOK, Steady
    <2>2. BuildInv' /\ ~Building'
      BY <1>1, <1>2, <1>3, <1>9 DEF BuildInv, Steady, Fits, Belongs, Building
    <2>3. Readings' = {got \o RestAll(rows, On, cursor)}
      BY <1>2, <1>3, <1>9, <2>2 DEF Readings, Steady
    <2>4. QED
      BY <1>8, <2>1, <2>2, <2>3 DEF PagingInv, MoreInv
  <1>10. ASSUME page' = NewPage
         PROVE  /\ TypeOK' <=> pc' \in Branch \cup {"call", "peek", "count", "count_objects",
                                                    "return", "done", "refused"}
                /\ Page(page')
    <2>1. Len(<<>>) = 0 /\ <<>> \in Seq(Entry)
      OBVIOUS
    <2>2. /\ page'.next \in Cursor /\ page'.entries \in Seq(Entry) /\ page'.phase \in Phases
          /\ page'.more \in BOOLEAN
          /\ page'.remaining = Limit - Len(page'.entries) /\ page'.remaining >= 0
      <3>1. page'.next \in Cursor /\ page'.phase \in Phases /\ page'.more \in BOOLEAN
        BY <1>5, <1>6, <1>10, NewPageFields
      <3>2. page'.entries = <<>> /\ page'.remaining = Limit
        BY <1>10, NewPageFields
      <3>3. QED
        BY <1>3, <2>1, <3>1, <3>2
    <2>3. QED
      BY <1>1, <1>2, <1>3, <1>10, <2>2, NewPageFields DEF TypeOK, Steady
  <1>11. CASE pc' = "done" /\ page' = NewPage /\ cursor.phase = "done"
    <2>1. TypeOK'
      BY <1>10, <1>11
    <2>2. BuildInv' /\ ~Building'
      BY <1>1, <1>2, <1>3, <1>10, <1>11 DEF BuildInv, Steady, Fits, Belongs, Building
    <2>3. RestAll(rows, On, cursor) = <<>>
      BY <1>6, <1>11, OpenFacts, RestAllFacts
    <2>4. Readings' = {got}
      BY <1>2, <1>11 DEF Readings, Steady
    <2>5. got \o <<>> = got
      BY <1>6, ConcatEmptySeq
    <2>6. QED
      BY <1>8, <2>1, <2>2, <2>3, <2>4, <2>5 DEF PagingInv, MoreInv
  <1>12. CASE pc' = "collections" /\ page' = NewPage /\ cursor.phase # "done" /\ Accepted
    <2>1. TypeOK'
      BY <1>10, <1>12 DEF Branch
    <2>2. \A b \in Branch : cursor.offset[b] \in Nat
      BY <1>6, <1>12 DEF Accepted, Cursor
    <2>3. AtCollections'
      BY <1>2, <1>4, <1>12, NewPageFields DEF AtCollections, Steady
    <2>4. cursor.phase = "collections" => Enabled("collections")
      BY <1>1 DEF BuildInv, Belongs
    <2>5. BuildInv'
      <3>1. page'.next = cursor
        BY <1>12, NewPageFields
      <3>2. QED
        BY <1>1, <1>2, <1>3, <1>10, <1>12, <2>2, <2>3, <2>4, <3>1
           DEF BuildInv, Steady, Fits, Belongs, Building
    <2>6. Readings' = {got \o RestAll(rows, On, cursor)} \cup {got \o (<<>> \o RestAll(rows, On, cursor))}
      BY <1>2, <1>3, <1>12, NewPageFields DEF Readings, Steady, Building
    <2>7. <<>> \o RestAll(rows, On, cursor) = RestAll(rows, On, cursor)
      BY <1>7, ConcatEmptySeq
    <2>8. MoreInv'
      BY <1>12, NewPageFields DEF MoreInv
    <2>9. QED
      BY <1>8, <2>1, <2>5, <2>6, <2>7, <2>8 DEF PagingInv
  <1>13. QED
    BY <1>9, <1>11, <1>12 DEF Call, Goto

LEMMA ReturnStep ==
    ASSUME PagingInv, Return
    PROVE  PagingInv' /\ Readings' \subseteq Readings /\ (MoreInv => MoreInv')
  <1>1. TypeOK /\ BuildInv /\ AtEnd /\ pc = "return" /\ Building
    BY DEF PagingInv, BuildInv, Return, Building
  <1>2. /\ got' = got \o page.entries /\ page' = page /\ query' = query /\ rows' = rows
        /\ touched' = touched /\ edits' = edits /\ whole' = whole /\ faults' = faults
    BY DEF Return, World
  <1>3. /\ On' = On /\ Limit' = Limit
        /\ Enabled("collections")' = Enabled("collections")
        /\ Enabled("data_objects")' = Enabled("data_objects")
    BY <1>2, SameQuery
  <1>4. /\ cursor \in Cursor /\ page.next \in Cursor /\ rows \in [Branch -> Seq(Row)]
        /\ got \in Seq(Entry) /\ page.entries \in Seq(Entry)
    BY <1>1 DEF TypeOK, BuildInv
  <1>5. got' \in Seq(Entry)
    BY <1>2, <1>4, ConcatProperties
  <1>6. RestAll(rows, On, page.next) \in Seq(Entry)
    BY <1>4, RestAllFacts
  <1>7. got \o (page.entries \o RestAll(rows, On, page.next)) \in Readings
    BY <1>1 DEF Readings
  <1>8. CASE page.more
    <2>1. pc' = "call" /\ cursor' = page.next /\ ~Building'
      BY <1>8 DEF Return, Goto, Building
    <2>2. TypeOK'
      BY <1>1, <1>2, <1>3, <1>4, <1>5, <2>1 DEF TypeOK
    <2>3. Fits' /\ Belongs'
      <3>1. Room(page.next) /\ (page.next.phase = "collections" => Enabled("collections"))
        BY <1>1, <1>8 DEF AtEnd, BuildInv
      <3>2. QED
        BY <1>3, <2>1, <3>1 DEF Room, Fits, Belongs
    <2>4. BuildInv'
      BY <1>1, <1>2, <2>1, <2>3 DEF BuildInv
    <2>5. Readings' = {(got \o page.entries) \o RestAll(rows, On, page.next)}
      BY <1>2, <1>3, <2>1 DEF Readings
    <2>6. (got \o page.entries) \o RestAll(rows, On, page.next)
             = got \o (page.entries \o RestAll(rows, On, page.next))
      BY <1>4, <1>6, Joined
    <2>7. QED
      BY <1>7, <2>1, <2>2, <2>4, <2>5, <2>6 DEF PagingInv, MoreInv
  <1>9. CASE ~page.more
    <2>1. pc' = "done" /\ cursor' = cursor /\ ~Building'
      BY <1>9 DEF Return, Goto, Building
    <2>2. TypeOK'
      BY <1>1, <1>2, <1>3, <1>4, <1>5, <2>1 DEF TypeOK
    <2>3. BuildInv'
      BY <1>1, <1>2, <1>3, <2>1 DEF BuildInv, Fits, Belongs
    <2>4. Readings' = {got \o page.entries}
      BY <1>2, <2>1 DEF Readings
    <2>5. RestAll(rows, On, page.next) = <<>>
      BY <1>1, <1>4, <1>9, RestAllFacts DEF AtEnd, Closed
    <2>6. page.entries \o <<>> = page.entries
      BY <1>4, ConcatEmptySeq
    <2>7. QED
      BY <1>7, <2>1, <2>2, <2>3, <2>4, <2>5, <2>6 DEF PagingInv, MoreInv
  <1>10. QED
    BY <1>8, <1>9

LEMMA FailStep ==
    ASSUME PagingInv, Fail
    PROVE  PagingInv' /\ Readings' \subseteq Readings /\ (MoreInv => MoreInv')
  <1>1. TypeOK /\ BuildInv /\ pc \notin {"call", "return", "done", "refused"}
    BY DEF PagingInv, Fail
  <1>2. Steady /\ pc' = "call" /\ page' = page /\ faults > 0 /\ faults' = faults - 1 /\ ~Building'
    BY DEF Fail, World, Reader, Steady, Goto, Building
  <1>3. /\ On' = On /\ Limit' = Limit
        /\ Enabled("collections")' = Enabled("collections")
        /\ Enabled("data_objects")' = Enabled("data_objects")
    BY <1>2, SameQuery DEF Steady
  <1>4. faults' \in 0 .. MaxFaults
    BY <1>1, <1>2, EntryQueryPagingAssumption DEF TypeOK
  <1>5. TypeOK'
    BY <1>1, <1>2, <1>3, <1>4 DEF TypeOK, Steady
  <1>6. BuildInv'
    BY <1>1, <1>2, <1>3 DEF BuildInv, Steady, Fits, Belongs
  <1>7. Readings' = {got \o RestAll(rows, On, cursor)}
    BY <1>2, <1>3 DEF Readings, Steady
  <1>8. got \o RestAll(rows, On, cursor) \in Readings
    BY <1>1 DEF Readings
  <1>9. QED
    BY <1>2, <1>5, <1>6, <1>7, <1>8 DEF PagingInv, MoreInv

LEMMA RefuseStep ==
    ASSUME PagingInv, Refuse
    PROVE  PagingInv' /\ Readings' \subseteq Readings /\ (MoreInv => MoreInv')
  <1>1. TypeOK /\ BuildInv /\ pc # "done"
    BY DEF PagingInv, Refuse
  <1>2. Steady /\ pc' = "refused" /\ page' = page /\ faults' = faults /\ ~Building'
    BY DEF Refuse, World, Reader, Steady, Goto, Building
  <1>3. /\ On' = On /\ Limit' = Limit
        /\ Enabled("collections")' = Enabled("collections")
        /\ Enabled("data_objects")' = Enabled("data_objects")
    BY <1>2, SameQuery DEF Steady
  <1>4. TypeOK'
    BY <1>1, <1>2, <1>3 DEF TypeOK, Steady
  <1>5. BuildInv'
    BY <1>1, <1>2, <1>3 DEF BuildInv, Steady, Fits, Belongs
  <1>6. Readings' = {got \o RestAll(rows, On, cursor)}
    BY <1>2, <1>3 DEF Readings, Steady
  <1>7. got \o RestAll(rows, On, cursor) \in Readings
    BY <1>1 DEF Readings
  <1>8. QED
    BY <1>2, <1>4, <1>5, <1>6, <1>7 DEF PagingInv, MoreInv

-----------------------------------------------------------------------------
(* Entries that come and go.                                               *)

\* Where the k-th entry is met.
Place(rs, k) == Nth(Firsts(rs), k)

LEMMA PlaceFacts ==
    ASSUME NEW rs \in Seq(Row), NEW k \in 1 .. Met(rs)
    PROVE  /\ Place(rs, k) \in 1 .. Len(rs) /\ rs[Place(rs, k)].entry = Order(rs)[k]
           /\ \A i \in 1 .. Len(rs) : rs[i].entry = Order(rs)[k] => Place(rs, k) <= i
           /\ \A l \in 1 .. Met(rs) : Place(rs, l) < Place(rs, k) <=> l < k
  <1>1. /\ Firsts(rs) \subseteq 1 .. Len(rs) /\ Firsts(rs) \subseteq Int /\ IsFiniteSet(Firsts(rs))
        /\ Len(rs) \in Nat
    BY FirstsFacts
  <1>2. Met(rs) \in Nat
    BY OrderFacts
  <1>3. \A l \in 1 .. Met(rs) : Place(rs, l) \in Firsts(rs) /\ Order(rs)[l] = rs[Place(rs, l)].entry
    BY OrderFacts DEF Place
  <1>4. ASSUME NEW i \in 1 .. Len(rs), rs[i].entry = Order(rs)[k]
        PROVE  Place(rs, k) <= i
    <2>1. PICK m \in 1 .. Met(rs) : Order(rs)[m] = rs[i].entry /\ Nth(Firsts(rs), m) <= i
      BY OrderFacts
    <2>2. m = k
      BY <1>4, <2>1, OrderFacts
    <2>3. QED
      BY <2>1, <2>2 DEF Place
  <1>5. ASSUME NEW l \in 1 .. Met(rs)
        PROVE  Place(rs, l) < Place(rs, k) <=> l < k
    <2>1. /\ l < k => Place(rs, l) < Place(rs, k)
          /\ k < l => Place(rs, k) < Place(rs, l)
      BY <1>1, NthCounts DEF Met, Place
    <2>2. Place(rs, l) \in Int /\ Place(rs, k) \in Int /\ l \in Int /\ k \in Int
      BY <1>1, <1>2, <1>3
    <2>3. l = k => Place(rs, l) = Place(rs, k)
      OBVIOUS
    <2>4. QED
      BY <2>1, <2>2, <2>3
  <1>6. QED
    BY <1>1, <1>3, <1>4, <1>5

\* The rows of big are those of small, and rows of e between them.
Embeds(small, big, e, phi) ==
    /\ phi \in [1 .. Len(small) -> 1 .. Len(big)]
    /\ \A i, j \in 1 .. Len(small) : i < j => phi[i] < phi[j]
    /\ \A i \in 1 .. Len(small) : big[phi[i]] = small[i] /\ small[i].entry # e
    /\ \A x \in 1 .. Len(big) : big[x].entry # e => \E i \in 1 .. Len(small) : phi[i] = x

\* An entry of small comes no earlier in big, and with it those before.
LEMMA EmbedBefore ==
    ASSUME NEW small \in Seq(Row), NEW big \in Seq(Row), NEW e, NEW phi, Embeds(small, big, e, phi),
           NEW k \in 1 .. Met(small), NEW l \in 1 .. Met(small),
           NEW kk \in 1 .. Met(big), Order(big)[kk] = Order(small)[k],
           NEW ll \in 1 .. Met(big), Order(big)[ll] = Order(small)[l], l < k
    PROVE  ll < kk
  <1>1. /\ Place(small, k) \in 1 .. Len(small) /\ small[Place(small, k)].entry = Order(small)[k]
        /\ Place(small, l) \in 1 .. Len(small) /\ small[Place(small, l)].entry = Order(small)[l]
        /\ \A i \in 1 .. Len(small) : small[i].entry = Order(small)[k] => Place(small, k) <= i
        /\ Place(small, l) < Place(small, k)
    BY PlaceFacts
  <1>2. /\ Place(big, kk) \in 1 .. Len(big) /\ big[Place(big, kk)].entry = Order(small)[k]
        /\ \A i \in 1 .. Len(big) : big[i].entry = Order(small)[l] => Place(big, ll) <= i
        /\ Place(big, ll) < Place(big, kk) <=> ll < kk
        /\ Place(big, ll) \in 1 .. Len(big)
    BY PlaceFacts
  <1>3. Order(small)[k] # e
    BY <1>1 DEF Embeds
  <1>4. PICK y \in 1 .. Len(small) : phi[y] = Place(big, kk)
    BY <1>2, <1>3 DEF Embeds
  <1>5. small[y].entry = Order(small)[k]
    BY <1>2, <1>4 DEF Embeds
  <1>6. Place(small, l) < y
    <2>1. Place(small, k) <= y
      BY <1>1, <1>5
    <2>2. Place(small, k) \in Int /\ Place(small, l) \in Int /\ y \in Int
      BY <1>1, LenProperties
    <2>3. QED
      BY <1>1, <2>1, <2>2
  <1>7. phi[Place(small, l)] < Place(big, kk)
    BY <1>1, <1>4, <1>6 DEF Embeds
  <1>8. phi[Place(small, l)] \in 1 .. Len(big) /\ big[phi[Place(small, l)]].entry = Order(small)[l]
    BY <1>1 DEF Embeds
  <1>9. Place(big, ll) <= phi[Place(small, l)]
    BY <1>2, <1>8
  <1>10. Place(big, ll) \in Int /\ phi[Place(small, l)] \in Int /\ Place(big, kk) \in Int
    BY <1>2, <1>8, LenProperties
  <1>11. QED
    BY <1>2, <1>7, <1>9, <1>10

LEMMA EmbedLater ==
    ASSUME NEW small \in Seq(Row), NEW big \in Seq(Row), NEW e, NEW phi, Embeds(small, big, e, phi),
           NEW k \in 1 .. Met(small)
    PROVE  \E kk \in 1 .. Met(big) : k <= kk /\ Order(big)[kk] = Order(small)[k]
  <1>1. ASSUME NEW l \in 1 .. Met(small)
        PROVE  \E ll \in 1 .. Met(big) : Order(big)[ll] = Order(small)[l]
    <2>1. Place(small, l) \in 1 .. Len(small) /\ small[Place(small, l)].entry = Order(small)[l]
      BY PlaceFacts
    <2>2. phi[Place(small, l)] \in 1 .. Len(big) /\ big[phi[Place(small, l)]].entry = Order(small)[l]
      BY <2>1 DEF Embeds
    <2>3. PICK ll \in 1 .. Met(big) : Order(big)[ll] = big[phi[Place(small, l)]].entry
      BY <2>2, OrderFacts
    <2>4. QED
      BY <2>2, <2>3
  <1>2. PICK kk \in 1 .. Met(big) : Order(big)[kk] = Order(small)[k]
    BY <1>1
  <1>n. Met(small) \in Nat /\ Met(big) \in Nat /\ k \in Int /\ kk \in Int
    BY OrderFacts
  <1> DEFINE g == [l \in 1 .. k - 1 |-> CHOOSE ll \in 1 .. Met(big) : Order(big)[ll] = Order(small)[l]]
  <1>3. ASSUME NEW l \in 1 .. k - 1
        PROVE  /\ l \in 1 .. Met(small) /\ g[l] \in 1 .. Met(big)
               /\ Order(big)[g[l]] = Order(small)[l] /\ g[l] \in 1 .. kk - 1
    <2>1. l \in 1 .. Met(small) /\ l < k
      BY <1>n
    <2>2. g[l] \in 1 .. Met(big) /\ Order(big)[g[l]] = Order(small)[l]
      BY <1>1, <2>1
    <2> HIDE DEF g
    <2>3. g[l] < kk
      BY <1>2, <2>1, <2>2, EmbedBefore
    <2>4. QED
      BY <1>n, <2>1, <2>2, <2>3
  <1>4. g \in [1 .. k - 1 -> 1 .. kk - 1]
    BY <1>3
  <1>5. ASSUME NEW l \in 1 .. k - 1, NEW m \in 1 .. k - 1, g[l] = g[m]
        PROVE  l = m
    <2> HIDE DEF g
    <2>1. Order(small)[l] = Order(small)[m] /\ l \in 1 .. Met(small) /\ m \in 1 .. Met(small)
      BY <1>3, <1>5
    <2>2. QED
      BY <2>1, OrderFacts
  <1> HIDE DEF g
  <1>6. g \in Injection(1 .. k - 1, 1 .. kk - 1)
    BY <1>4, <1>5, Fun_IsInj
  <1>7. /\ IsFiniteSet(1 .. kk - 1)
        /\ Cardinality(1 .. kk - 1) = kk - 1 /\ Cardinality(1 .. k - 1) = k - 1
    <2>1. kk - 1 \in Int /\ k - 1 \in Int /\ kk >= 1 /\ k >= 1 /\ 1 \in Int
      BY <1>n
    <2>2. \A i \in Int : /\ IsFiniteSet(1 .. i)
                         /\ Cardinality(1 .. i) = IF 1 > i THEN 0 ELSE i - 1 + 1
      BY FS_Interval
    <2>3. \A i \in Int : i >= 0 => Cardinality(1 .. i) = i
      BY <2>2
    <2>4. kk - 1 >= 0 /\ k - 1 >= 0
      BY <2>1
    <2>5. QED
      BY <2>1, <2>2, <2>3, <2>4
  <1>8. Cardinality(1 .. k - 1) <= Cardinality(1 .. kk - 1)
    BY <1>6, <1>7, FS_Injection
  <1>9. k <= kk
    BY <1>n, <1>7, <1>8
  <1>10. QED
    BY <1>2, <1>9

\* What is left of small is left of big.
LEMMA EmbedRest ==
    ASSUME NEW small \in Seq(Row), NEW big \in Seq(Row), NEW e, NEW phi, Embeds(small, big, e, phi),
           NEW o \in Nat
    PROVE  ToSet(Window(Order(small), o, Len(Order(small)))) \subseteq
           ToSet(Window(Order(big), o, Len(Order(big))))
  <1> DEFINE v == Window(Order(small), o, Len(Order(small)))
             w == Window(Order(big), o, Len(Order(big)))
  <1>1. /\ Order(small) \in Seq(Entry) /\ Len(Order(small)) = Met(small) /\ Met(small) \in Nat
        /\ Order(big) \in Seq(Entry) /\ Len(Order(big)) = Met(big) /\ Met(big) \in Nat
    BY OrderFacts
  <1>2. /\ v \in Seq(Entry)
        /\ \A k \in 1 .. Len(v) : o + k \in 1 .. Len(Order(small)) /\ v[k] = Order(small)[o + k]
    BY <1>1, WindowToEnd
  <1>3. /\ w \in Seq(Entry) /\ Len(w) = IF o <= Len(Order(big)) THEN Len(Order(big)) - o ELSE 0
        /\ \A k \in 1 .. Len(w) : o + k \in 1 .. Len(Order(big)) /\ w[k] = Order(big)[o + k]
    BY <1>1, WindowToEnd
  <1> HIDE DEF v, w
  <1>4. DOMAIN v = 1 .. Len(v) /\ DOMAIN w = 1 .. Len(w) /\ Len(v) \in Nat /\ Len(w) \in Nat
    BY <1>2, <1>3, LenProperties
  <1>5. ASSUME NEW x \in ToSet(v)
        PROVE  x \in ToSet(w)
    <2>1. PICK i \in 1 .. Len(v) : x = v[i]
      BY <1>4 DEF ToSet
    <2>2. o + i \in 1 .. Met(small) /\ x = Order(small)[o + i]
      BY <1>1, <1>2, <2>1
    <2>3. PICK kk \in 1 .. Met(big) : o + i <= kk /\ Order(big)[kk] = Order(small)[o + i]
      BY <2>2, EmbedLater
    <2>4. i \in Int /\ kk \in Int /\ kk - o \in 1 .. Len(w) /\ o + (kk - o) = kk
      BY <1>1, <1>3, <1>4, <2>3
    <2>5. w[kk - o] = x
      BY <1>3, <2>2, <2>3, <2>4
    <2>6. QED
      BY <1>4, <2>4, <2>5 DEF ToSet
  <1>6. QED
    BY <1>5 DEF v, w

\* The rows of an entry, between those before position i + 1 and those after.
Inserted(rs, i, new, big) ==
    /\ big \in Seq(Row) /\ Len(new) \in Nat /\ Len(big) = Len(rs) + Len(new)
    /\ \A x \in 1 .. Len(big) :
          big[x] = IF x <= i THEN rs[x] ELSE IF x <= i + Len(new) THEN new[x - i] ELSE rs[x - Len(new)]

LEMMA InsertedRows ==
    ASSUME NEW rs \in Seq(Row), NEW new \in Seq(Row), NEW i \in 0 .. Len(rs), NEW big,
           big = SubSeq(rs, 1, i) \o new \o SubSeq(rs, i + 1, Len(rs))
    PROVE  Inserted(rs, i, new, big)
  <1> DEFINE n == Len(rs)
             m == Len(new)
             a == SubSeq(rs, 1, i)
             c == SubSeq(rs, i + 1, n)
             h == a \o new
  <1>1. n \in Nat /\ m \in Nat /\ i \in Nat /\ i <= n
    BY LenProperties
  <1>2. FirstRows(a, rs, i)
    BY SomeFirstRows
  <1>3. a \in Seq(Row) /\ Len(a) = i /\ \A x \in 1 .. i : a[x] = rs[x]
    BY <1>2 DEF FirstRows
  <1>4. c \in Seq(Row) /\ Len(c) = n - i /\ \A x \in 1 .. n - i : c[x] = rs[i + x]
    <2> HIDE DEF n
    <2>1. i + 1 \in Int /\ n \in Int
      BY <1>1
    <2>2. \A x \in (i + 1) .. n : rs[x] \in Row
      <3>1. \A x \in 1 .. n : rs[x] \in Row
        BY ElementOfSeq DEF n
      <3>2. QED
        BY <1>1, <3>1
    <2>3. /\ c \in Seq(Row) /\ Len(c) = IF i + 1 <= n THEN n - (i + 1) + 1 ELSE 0
          /\ \A x \in 1 .. n - (i + 1) + 1 : c[x] = rs[(i + 1) + x - 1]
      BY <2>1, <2>2, SubSeqProperties
    <2>4. (IF i + 1 <= n THEN n - (i + 1) + 1 ELSE 0) = n - i
      BY <1>1
    <2> HIDE DEF c
    <2>5. ASSUME NEW x \in 1 .. n - i
          PROVE  c[x] = rs[i + x]
      <3>1. x \in 1 .. n - (i + 1) + 1 /\ (i + 1) + x - 1 = i + x
        BY <1>1
      <3>2. c[x] = rs[(i + 1) + x - 1]
        BY <2>3, <3>1
      <3>3. QED
        BY <3>1, <3>2
    <2>6. Len(c) = n - i
      BY <2>3, <2>4
    <2>7. c \in Seq(Row)
      BY <2>3, Zenon
    <2>8. QED
      BY <2>5, <2>6, <2>7
  <1> HIDE DEF a, c, n, m
  <1>5. /\ h \in Seq(Row) /\ Len(h) = i + m
        /\ \A x \in 1 .. i + m : h[x] = IF x <= i THEN a[x] ELSE new[x - i]
    BY <1>3, ConcatProperties DEF m
  <1> HIDE DEF h
  <1>6. /\ h \o c \in Seq(Row) /\ Len(h \o c) = (i + m) + (n - i)
        /\ \A x \in 1 .. (i + m) + (n - i) : (h \o c)[x] = IF x <= i + m THEN h[x] ELSE c[x - (i + m)]
    <2>1. /\ h \o c \in Seq(Row) /\ Len(h \o c) = Len(h) + Len(c)
          /\ \A x \in 1 .. Len(h) + Len(c) : (h \o c)[x] = IF x <= Len(h) THEN h[x] ELSE c[x - Len(h)]
      BY <1>4, <1>5, ConcatProperties
    <2>2. QED
      BY <1>4, <1>5, <2>1
  <1>7. big = h \o c
    BY DEF h, a, c, n
  <1>8. (i + m) + (n - i) = n + m
    BY <1>1
  <1>9. ASSUME NEW x \in 1 .. n + m
        PROVE  big[x] = IF x <= i THEN rs[x] ELSE IF x <= i + m THEN new[x - i] ELSE rs[x - m]
    <2>0. big[x] = IF x <= i + m THEN h[x] ELSE c[x - (i + m)]
      BY <1>6, <1>7, <1>8
    <2>1. CASE x <= i
      <3>1. x \in 1 .. i /\ x \in 1 .. i + m /\ x <= i + m
        BY <1>1, <2>1
      <3>2. QED
        BY <1>3, <1>5, <2>0, <2>1, <3>1
    <2>2. CASE ~(x <= i) /\ x <= i + m
      <3>1. x \in 1 .. i + m
        BY <1>1, <2>2
      <3>2. QED
        BY <1>5, <2>0, <2>2, <3>1
    <2>3. CASE ~(x <= i + m)
      <3>1. x - (i + m) \in 1 .. n - i /\ i + (x - (i + m)) = x - m /\ ~(x <= i)
        BY <1>1, <2>3
      <3>2. c[x - (i + m)] = rs[x - m]
        BY <1>4, <3>1
      <3>3. QED
        BY <2>0, <2>3, <3>1, <3>2
    <2>4. QED
      BY <2>1, <2>2, <2>3
  <1>10. QED
    BY <1>1, <1>6, <1>7, <1>8, <1>9 DEF Inserted, n, m

LEMMA InsertEmbeds ==
    ASSUME NEW b \in Branch, NEW rs \in RowsIn(b), NEW e \in Entries[b] \ ToSet(Order(rs)),
           NEW i \in 0 .. Len(rs), NEW big,
           big = SubSeq(rs, 1, i) \o RowsOf[e] \o SubSeq(rs, i + 1, Len(rs))
    PROVE  big \in RowsIn(b) /\ \E phi : Embeds(rs, big, e, phi)
  <1> DEFINE new == RowsOf[e]
             n == Len(rs)
             m == Len(new)
             phi == [j \in 1 .. n |-> IF j <= i THEN j ELSE j + m]
  <1>1. e \in Entry
    BY DEF Entry
  <1>2. new \in Seq(Row) /\ \A k \in 1 .. m : new[k].entry = e
    BY <1>1, EntryQueryPagingAssumption, LenProperties
  <1>3. rs \in Seq(Row) /\ n \in Nat /\ m \in Nat /\ i \in Nat /\ i <= n
    BY <1>2, LenProperties DEF RowsIn
  <1>4. Inserted(rs, i, new, big)
    BY <1>2, <1>3, InsertedRows
  <1>5. \A j \in 1 .. n : rs[j].entry \in Entries[b]
    BY DEF RowsIn
  <1>6. ASSUME NEW j \in 1 .. n
        PROVE  rs[j].entry # e
    <2>1. PICK k \in 1 .. Met(rs) : Order(rs)[k] = rs[j].entry
      BY <1>3, OrderFacts
    <2>2. k \in DOMAIN Order(rs)
      BY <1>3, <2>1, OrderFacts, LenProperties
    <2>3. rs[j].entry \in ToSet(Order(rs))
      BY <2>1, <2>2 DEF ToSet
    <2>4. QED
      BY <2>3
  <1> HIDE DEF n, m, new
  <1>7. /\ big \in Seq(Row) /\ Len(big) = n + m
        /\ \A x \in 1 .. n + m :
              big[x] = IF x <= i THEN rs[x] ELSE IF x <= i + m THEN new[x - i] ELSE rs[x - m]
    BY <1>4 DEF Inserted, n, m
  <1>8. ASSUME NEW x \in 1 .. n + m
        PROVE  \/ x \in 1 .. n /\ x <= i /\ big[x] = rs[x]
               \/ big[x].entry = e /\ ~(x <= i) /\ x <= i + m
               \/ x - m \in 1 .. n /\ ~(x - m <= i) /\ (x - m) + m = x /\ big[x] = rs[x - m]
    <2>1. CASE x <= i
      <3>1. x \in 1 .. n
        BY <1>3, <2>1
      <3>2. big[x] = rs[x]
        BY <1>7, <2>1
      <3>3. QED
        BY <2>1, <3>1, <3>2
    <2>2. CASE ~(x <= i) /\ x <= i + m
      <3>1. x - i \in 1 .. m
        BY <1>3, <2>2
      <3>2. big[x] = new[x - i]
        BY <1>7, <2>2
      <3>3. QED
        BY <1>2, <2>2, <3>1, <3>2
    <2>3. CASE ~(x <= i + m)
      <3>1. x - m \in 1 .. n /\ ~(x - m <= i) /\ ~(x <= i) /\ (x - m) + m = x
        BY <1>3, <2>3
      <3>2. QED
        BY <1>7, <2>3, <3>1
    <2>4. QED
      BY <2>1, <2>2, <2>3
  <1>9. big \in RowsIn(b)
    <2>1. ASSUME NEW x \in 1 .. n + m
          PROVE  big[x].entry \in Entries[b]
      BY <1>5, <1>8
    <2>2. QED
      BY <1>7, <2>1 DEF RowsIn
  <1>10. phi \in [1 .. n -> 1 .. n + m]
    <2>1. \A j \in 1 .. n : j \in 1 .. n + m /\ j + m \in 1 .. n + m
      BY <1>3
    <2>2. QED
      BY <2>1
  <1>11. \A j \in 1 .. n : phi[j] = IF j <= i THEN j ELSE j + m
    OBVIOUS
  <1> HIDE DEF phi
  <1>12. ASSUME NEW j \in 1 .. n, NEW k \in 1 .. n, j < k
         PROVE  phi[j] < phi[k]
    <2>1. j \in Int /\ k \in Int
      BY <1>3
    <2>2. CASE k <= i
      <3>1. j <= i
        BY <1>3, <1>12, <2>1, <2>2
      <3>2. QED
        BY <1>11, <1>12, <2>2, <3>1
    <2>3. CASE ~(k <= i)
      <3>1. phi[k] = k + m /\ (phi[j] = j \/ phi[j] = j + m)
        BY <1>11, <2>3
      <3>2. QED
        BY <1>3, <1>12, <2>1, <3>1
    <2>4. QED
      BY <2>2, <2>3
  <1>13. ASSUME NEW j \in 1 .. n
         PROVE  big[phi[j]] = rs[j]
    <2>1. CASE j <= i
      <3>1. j \in 1 .. n + m /\ phi[j] = j
        BY <1>3, <1>11, <2>1
      <3>2. QED
        BY <1>7, <2>1, <3>1
    <2>2. CASE ~(j <= i)
      <3>1. phi[j] = j + m /\ j + m \in 1 .. n + m /\ ~(j + m <= i) /\ ~(j + m <= i + m) /\ (j + m) - m = j
        BY <1>3, <1>11, <2>2
      <3>2. QED
        BY <1>7, <3>1
    <2>3. QED
      BY <2>1, <2>2
  <1>14. ASSUME NEW x \in 1 .. n + m, big[x].entry # e
         PROVE  \E j \in 1 .. n : phi[j] = x
    BY <1>8, <1>11, <1>14
  <1>15. Embeds(rs, big, e, phi)
    BY <1>6, <1>7, <1>10, <1>12, <1>13, <1>14 DEF Embeds, n
  <1>16. QED
    BY <1>9, <1>15

LEMMA DeleteEmbeds ==
    ASSUME NEW b \in Branch, NEW rs \in RowsIn(b), NEW e, NEW small,
           small = Pick(rs, {i \in DOMAIN rs : rs[i].entry # e})
    PROVE  small \in RowsIn(b) /\ \E phi : Embeds(small, rs, e, phi)
  <1> DEFINE keep == {i \in DOMAIN rs : rs[i].entry # e}
             n == Cardinality(keep)
             phi == [k \in 1 .. n |-> Nth(keep, k)]
  <1>1. rs \in Seq(Row) /\ DOMAIN rs = 1 .. Len(rs) /\ Len(rs) \in Nat
    BY LenProperties DEF RowsIn
  <1>2. keep \subseteq 1 .. Len(rs) /\ keep \subseteq Int /\ IsFiniteSet(keep)
    <2>1. IsFiniteSet(1 .. Len(rs)) /\ 1 .. Len(rs) \subseteq Int
      BY <1>1, FS_Interval
    <2>2. keep \subseteq 1 .. Len(rs)
      BY <1>1
    <2> HIDE DEF keep
    <2>3. IsFiniteSet(keep)
      BY <2>1, <2>2, FS_Subset
    <2>4. QED
      BY <2>1, <2>2, <2>3
  <1>3. \A i \in 1 .. Len(rs) : i \in keep <=> rs[i].entry # e
    BY <1>1
  <1>4. small = [k \in 1 .. n |-> rs[Nth(keep, k)]]
    BY DEF Pick
  <1> HIDE DEF keep
  <1>5. /\ n \in Nat
        /\ \A k \in 1 .. n : Nth(keep, k) \in keep
        /\ \A i \in keep : \E k \in 1 .. n : i = Nth(keep, k)
        /\ \A k, l \in 1 .. n : k < l => Nth(keep, k) < Nth(keep, l)
    BY <1>2, NthCounts
  <1> HIDE DEF n
  <1>6. ASSUME NEW k \in 1 .. n
        PROVE  small[k] = rs[Nth(keep, k)] /\ small[k] \in Row
    <2>1. Nth(keep, k) \in 1 .. Len(rs)
      BY <1>2, <1>5
    <2>2. QED
      BY <1>1, <1>4, <2>1, ElementOfSeq
  <1>7. small \in Seq(Row) /\ Len(small) = n
    <2>1. small \in [1 .. n -> Row]
      BY <1>4, <1>6
    <2>2. QED
      BY <1>5, <2>1
  <1>8. small \in RowsIn(b)
    <2>1. \A i \in 1 .. Len(rs) : rs[i].entry \in Entries[b]
      BY DEF RowsIn
    <2>2. \A k \in 1 .. n : small[k].entry \in Entries[b]
      BY <1>2, <1>5, <1>6, <2>1
    <2>3. QED
      BY <1>7, <2>2 DEF RowsIn
  <1>9. phi \in [1 .. n -> 1 .. Len(rs)] /\ \A k \in 1 .. n : phi[k] = Nth(keep, k)
    BY <1>2, <1>5
  <1> HIDE DEF phi
  <1>10. Embeds(small, rs, e, phi)
    <2>1. \A i \in 1 .. n : rs[phi[i]] = small[i] /\ small[i].entry # e
      BY <1>2, <1>3, <1>5, <1>6, <1>9
    <2>2. \A x \in 1 .. Len(rs) : rs[x].entry # e => \E i \in 1 .. n : phi[i] = x
      BY <1>3, <1>5, <1>9
    <2>3. \A i, j \in 1 .. n : i < j => phi[i] < phi[j]
      BY <1>5, <1>9
    <2>4. QED
      BY <1>7, <1>9, <2>1, <2>2, <2>3 DEF Embeds
  <1>11. QED
    BY <1>8, <1>10

-----------------------------------------------------------------------------
(* What entries that come and go do to what there is to read.              *)

LEMMA ToSetOfConcat ==
    ASSUME NEW s \in Seq(Entry), NEW t \in Seq(Entry)
    PROVE  ToSet(s \o t) = ToSet(s) \cup ToSet(t)
  <1>1. /\ s \o t \in Seq(Entry) /\ Len(s \o t) = Len(s) + Len(t)
        /\ \A i \in 1 .. Len(s) + Len(t) : (s \o t)[i] = IF i <= Len(s) THEN s[i] ELSE t[i - Len(s)]
    BY ConcatProperties
  <1>2. /\ DOMAIN (s \o t) = 1 .. Len(s) + Len(t) /\ DOMAIN s = 1 .. Len(s) /\ DOMAIN t = 1 .. Len(t)
        /\ Len(s) \in Nat /\ Len(t) \in Nat
    BY <1>1, LenProperties
  <1>3. ASSUME NEW i \in 1 .. Len(s) + Len(t)
        PROVE  (s \o t)[i] \in ToSet(s) \cup ToSet(t)
    <2>1. CASE i <= Len(s)
      <3>1. i \in DOMAIN s /\ (s \o t)[i] = s[i]
        BY <1>1, <1>2, <2>1
      <3>2. QED
        BY <3>1 DEF ToSet
    <2>2. CASE ~(i <= Len(s))
      <3>1. i - Len(s) \in DOMAIN t
        BY <1>2, <2>2
      <3>2. (s \o t)[i] = t[i - Len(s)]
        BY <1>1, <2>2
      <3>3. QED
        BY <3>1, <3>2 DEF ToSet
    <2>3. QED
      BY <2>1, <2>2
  <1>4. ASSUME NEW i \in 1 .. Len(s)
        PROVE  s[i] \in ToSet(s \o t)
    <2>1. i \in 1 .. Len(s) + Len(t) /\ i <= Len(s)
      BY <1>2
    <2>2. (s \o t)[i] = s[i]
      BY <1>1, <2>1
    <2>3. QED
      BY <1>2, <2>1, <2>2 DEF ToSet
  <1>5. ASSUME NEW i \in 1 .. Len(t)
        PROVE  t[i] \in ToSet(s \o t)
    <2>1. Len(s) + i \in 1 .. Len(s) + Len(t) /\ ~(Len(s) + i <= Len(s)) /\ (Len(s) + i) - Len(s) = i
      BY <1>2
    <2>2. (s \o t)[Len(s) + i] = t[i]
      BY <1>1, <2>1
    <2>3. QED
      BY <1>2, <2>1, <2>2 DEF ToSet
  <1>6. ToSet(s \o t) \subseteq ToSet(s) \cup ToSet(t)
    BY <1>2, <1>3 DEF ToSet
  <1>7. ToSet(s) \subseteq ToSet(s \o t)
    BY <1>2, <1>4 DEF ToSet
  <1>8. ToSet(t) \subseteq ToSet(s \o t)
    BY <1>2, <1>5 DEF ToSet
  <1>9. QED
    BY <1>6, <1>7, <1>8

\* Two sequences have no entry twice.
Apart(s, t) == IsInjective(s) /\ IsInjective(t) /\ ToSet(s) \cap ToSet(t) = {}

LEMMA InjectiveConcat ==
    ASSUME NEW s \in Seq(Entry), NEW t \in Seq(Entry)
    PROVE  IsInjective(s \o t) <=> Apart(s, t)
  <1> DEFINE u == s \o t
             n == Len(s)
             m == Len(t)
  <1>1. u \in Seq(Entry) /\ Len(u) = n + m
    BY ConcatProperties
  <1>2. \A i \in 1 .. n + m : u[i] = IF i <= n THEN s[i] ELSE t[i - n]
    BY ConcatProperties
  <1>3. /\ DOMAIN u = 1 .. n + m /\ DOMAIN s = 1 .. n /\ DOMAIN t = 1 .. m
        /\ n \in Nat /\ m \in Nat
    BY <1>1, LenProperties
  <1> HIDE DEF u, n, m
  <1>4. ASSUME NEW i \in 1 .. n
        PROVE  i \in 1 .. n + m /\ u[i] = s[i]
    <2>1. i \in 1 .. n + m /\ i <= n
      BY <1>3
    <2>2. QED
      BY <1>2, <2>1
  <1>5. ASSUME NEW i \in 1 .. m
        PROVE  n + i \in 1 .. n + m /\ u[n + i] = t[i]
    <2>1. n + i \in 1 .. n + m /\ ~(n + i <= n) /\ (n + i) - n = i
      BY <1>3
    <2>2. QED
      BY <1>2, <2>1
  <1>6. ASSUME IsInjective(u)
        PROVE  Apart(s, t)
    <2>1. ASSUME NEW i \in 1 .. n, NEW j \in 1 .. n, s[i] = s[j]
          PROVE  i = j
      BY <1>3, <1>4, <1>6, <2>1 DEF IsInjective
    <2>2. ASSUME NEW i \in 1 .. m, NEW j \in 1 .. m, t[i] = t[j]
          PROVE  i = j
      <3>1. n + i = n + j
        BY <1>3, <1>5, <1>6, <2>2 DEF IsInjective
      <3>2. i \in Int /\ j \in Int
        BY <1>3
      <3>3. QED
        BY <1>3, <3>1, <3>2
    <2>3. ASSUME NEW i \in 1 .. n, NEW j \in 1 .. m, s[i] = t[j]
          PROVE  FALSE
      <3>1. i = n + j
        BY <1>3, <1>4, <1>5, <1>6, <2>3 DEF IsInjective
      <3>2. QED
        BY <1>3, <3>1
    <2>4. ToSet(s) \cap ToSet(t) = {}
      BY <1>3, <2>3 DEF ToSet
    <2>5. QED
      BY <1>3, <2>1, <2>2, <2>4 DEF Apart, IsInjective
  <1>7. ASSUME Apart(s, t)
        PROVE  IsInjective(u)
    <2>1. /\ \A i, j \in 1 .. n : s[i] = s[j] => i = j
          /\ \A i, j \in 1 .. m : t[i] = t[j] => i = j
      BY <1>3, <1>7 DEF Apart, IsInjective
    <2>2. \A i \in 1 .. n : \A j \in 1 .. m : s[i] # t[j]
      BY <1>3, <1>7 DEF Apart, ToSet
    <2>3. ASSUME NEW i \in 1 .. n + m
          PROVE  \/ i \in 1 .. n /\ u[i] = s[i]
                 \/ i - n \in 1 .. m /\ u[i] = t[i - n] /\ ~(i <= n)
      <3>1. CASE i <= n
        <4>1. i \in 1 .. n
          BY <1>3, <3>1
        <4>2. QED
          BY <1>4, <4>1
      <3>2. CASE ~(i <= n)
        <4>1. i - n \in 1 .. m
          BY <1>3, <3>2
        <4>2. QED
          BY <1>2, <3>2, <4>1
      <3>3. QED
        BY <3>1, <3>2
    <2>4. ASSUME NEW i \in 1 .. n + m, NEW j \in 1 .. n + m, u[i] = u[j]
          PROVE  i = j
      <3>1. i \in Int /\ j \in Int /\ n \in Int
        BY <1>3
      <3>2. \/ i \in 1 .. n /\ j \in 1 .. n /\ s[i] = s[j]
            \/ i - n \in 1 .. m /\ j - n \in 1 .. m /\ t[i - n] = t[j - n]
        BY <2>2, <2>3, <2>4
      <3>3. i = j \/ i - n = j - n
        BY <2>1, <3>2
      <3>4. QED
        BY <3>1, <3>3
    <2>5. QED
      BY <1>3, <2>4 DEF IsInjective
  <1>8. QED
    BY <1>6, <1>7 DEF u

\* What there is to read has no entry twice.
LEMMA RestInjective ==
    ASSUME NEW b \in Branch, NEW rs, rs[b] \in Seq(Row), NEW on, NEW c, c.offset[b] \in Int
    PROVE  IsInjective(Rest(rs, on, b, c))
  <1>1. CASE Open(on, b, c) /\ c.offset[b] >= 0
    <2> DEFINE s == Order(rs[b])
               o == c.offset[b]
               v == Window(s, o, Len(s))
    <2>1. /\ s \in Seq(Entry) /\ Len(s) = Met(rs[b]) /\ Met(rs[b]) \in Nat
          /\ \A k, l \in 1 .. Met(rs[b]) : s[k] = s[l] => k = l
      BY OrderFacts
    <2>2. o \in Nat
      BY <1>1
    <2>3. Rest(rs, on, b, c) = v
      BY <1>1 DEF Rest
    <2> HIDE DEF o, s
    <2>4. v \in Seq(Entry) /\ \A k \in 1 .. Len(v) : o + k \in 1 .. Len(s) /\ v[k] = s[o + k]
      BY <2>1, <2>2, WindowToEnd
    <2> HIDE DEF v
    <2>5. DOMAIN v = 1 .. Len(v) /\ Len(v) \in Nat
      BY <2>4, LenProperties
    <2>6. ASSUME NEW k \in 1 .. Len(v), NEW l \in 1 .. Len(v), v[k] = v[l]
          PROVE  k = l
      <3>1. o + k = o + l
        BY <2>1, <2>4, <2>6
      <3>2. k \in Int /\ l \in Int
        BY <2>5
      <3>3. QED
        BY <2>2, <3>1, <3>2
    <2>7. QED
      BY <2>3, <2>5, <2>6 DEF IsInjective
  <1>2. CASE ~(Open(on, b, c) /\ c.offset[b] >= 0)
    <2>1. Rest(rs, on, b, c) = <<>>
      BY <1>2 DEF Rest
    <2>2. DOMAIN <<>> = {}
      OBVIOUS
    <2>3. QED
      BY <2>1, <2>2 DEF IsInjective
  <1>3. QED
    BY <1>1, <1>2

\* From cursor c, what there is to read in rs is there in rt.
Within(rs, rt, on, c) ==
    \A x \in Branch : ToSet(Rest(rs, on, x, c)) \subseteq ToSet(Rest(rt, on, x, c))

LEMMA EmbedWithin ==
    ASSUME NEW rs \in [Branch -> Seq(Row)], NEW rt \in [Branch -> Seq(Row)], NEW b \in Branch,
           \A x \in Branch : x # b => rs[x] = rt[x],
           NEW e, NEW phi, Embeds(rs[b], rt[b], e, phi), NEW on, NEW c \in Cursor
    PROVE  Within(rs, rt, on, c)
  <1>1. c.offset[b] \in Int /\ rs[b] \in Seq(Row) /\ rt[b] \in Seq(Row)
    BY DEF Cursor
  <1>2. ToSet(Rest(rs, on, b, c)) \subseteq ToSet(Rest(rt, on, b, c))
    <2>1. CASE Open(on, b, c) /\ c.offset[b] >= 0
      <3>1. c.offset[b] \in Nat
        BY <1>1, <2>1
      <3>2. Rest(rs, on, b, c) = Window(Order(rs[b]), c.offset[b], Len(Order(rs[b])))
        BY <2>1 DEF Rest
      <3>3. Rest(rt, on, b, c) = Window(Order(rt[b]), c.offset[b], Len(Order(rt[b])))
        BY <2>1 DEF Rest
      <3>4. QED
        BY <1>1, <3>1, <3>2, <3>3, EmbedRest
    <2>2. CASE ~(Open(on, b, c) /\ c.offset[b] >= 0)
      BY <2>2 DEF Rest
    <2>3. QED
      BY <2>1, <2>2
  <1>3. ASSUME NEW x \in Branch, x # b
        PROVE  Rest(rs, on, x, c) = Rest(rt, on, x, c)
    BY <1>3 DEF Rest
  <1>4. QED
    BY <1>2, <1>3 DEF Within

LEMMA ReadingGrows ==
    ASSUME NEW rs \in [Branch -> Seq(Row)], NEW rt \in [Branch -> Seq(Row)], NEW on,
           NEW c \in Cursor, Within(rs, rt, on, c), NEW s \in Seq(Entry)
    PROVE  ToSet(s \o RestAll(rs, on, c)) \subseteq ToSet(s \o RestAll(rt, on, c))
  <1>1. \A r \in {rs, rt} :
           /\ Rest(r, on, "collections", c) \in Seq(Entry) /\ Rest(r, on, "data_objects", c) \in Seq(Entry)
           /\ RestAll(r, on, c) \in Seq(Entry)
    BY RestAllFacts
  <1>2. \A r \in {rs, rt} : ToSet(RestAll(r, on, c)) =
           ToSet(Rest(r, on, "collections", c)) \cup ToSet(Rest(r, on, "data_objects", c))
    BY <1>1, ToSetOfConcat DEF RestAll
  <1>3. ToSet(RestAll(rs, on, c)) \subseteq ToSet(RestAll(rt, on, c))
    BY <1>2 DEF Within, Branch
  <1>4. \A r \in {rs, rt} : ToSet(s \o RestAll(r, on, c)) = ToSet(s) \cup ToSet(RestAll(r, on, c))
    BY <1>1, ToSetOfConcat
  <1>5. QED
    BY <1>3, <1>4

LEMMA ReadingStaysOnce ==
    ASSUME NEW rs \in [Branch -> Seq(Row)], NEW rt \in [Branch -> Seq(Row)], NEW on,
           NEW c \in Cursor, Within(rs, rt, on, c), NEW s \in Seq(Entry),
           IsInjective(s \o RestAll(rt, on, c))
    PROVE  IsInjective(s \o RestAll(rs, on, c))
  <1> DEFINE rc == Rest(rs, on, "collections", c)
             ro == Rest(rs, on, "data_objects", c)
             tc == Rest(rt, on, "collections", c)
             to == Rest(rt, on, "data_objects", c)
  <1>1. /\ rc \in Seq(Entry) /\ ro \in Seq(Entry) /\ RestAll(rs, on, c) \in Seq(Entry)
        /\ tc \in Seq(Entry) /\ to \in Seq(Entry) /\ RestAll(rt, on, c) \in Seq(Entry)
    BY RestAllFacts
  <1>2. \A b \in Branch : rs[b] \in Seq(Row) /\ c.offset[b] \in Int
    BY DEF Cursor
  <1>3. IsInjective(rc) /\ IsInjective(ro)
    BY <1>2, RestInjective DEF Branch
  <1>4. ToSet(rc) \subseteq ToSet(tc) /\ ToSet(ro) \subseteq ToSet(to)
    BY DEF Within, Branch
  <1>5. RestAll(rs, on, c) = rc \o ro /\ RestAll(rt, on, c) = tc \o to
    BY DEF RestAll
  <1> HIDE DEF rc, ro, tc, to
  <1>6. Apart(s, RestAll(rt, on, c))
    BY <1>1, InjectiveConcat
  <1>7. Apart(tc, to)
    BY <1>1, <1>5, <1>6, InjectiveConcat DEF Apart
  <1>8. IsInjective(RestAll(rs, on, c))
    <2>1. Apart(rc, ro)
      BY <1>3, <1>4, <1>7 DEF Apart
    <2>2. QED
      BY <1>1, <1>5, <2>1, InjectiveConcat
  <1>9. ToSet(RestAll(rs, on, c)) \subseteq ToSet(RestAll(rt, on, c))
    BY <1>1, <1>4, <1>5, ToSetOfConcat
  <1>10. Apart(s, RestAll(rs, on, c))
    BY <1>6, <1>8, <1>9 DEF Apart
  <1>11. QED
    BY <1>1, <1>10, InjectiveConcat

LEMMA ChangeStep ==
    ASSUME PagingInv, NEW b \in Branch, NEW what \in {"added", "removed", "reordered"}, NEW rs \in RowsIn(b),
           Change(b, what, rs)
    PROVE  /\ PagingInv'
           /\ rows' \in [Branch -> Seq(Row)] /\ rows'[b] = rs
           /\ \A x \in Branch : x # b => rows'[x] = rows[x]
           /\ touched' = touched \cup {what} /\ pc' = pc /\ page' = page /\ got' = got
           /\ cursor' = cursor /\ whole' = whole /\ query' = query /\ pc # "done"
  <1>1. TypeOK /\ BuildInv /\ rows \in [Branch -> Seq(Row)]
    BY DEF PagingInv, BuildInv
  <1>2. /\ edits > 0 /\ edits' = edits - 1 /\ pc # "done"
        /\ rows' = [rows EXCEPT ![b] = rs] /\ touched' = touched \cup {what}
        /\ query' = query /\ cursor' = cursor /\ pc' = pc /\ page' = page
        /\ whole' = whole /\ got' = got /\ faults' = faults
    BY DEF Change
  <1>3. rs \in Seq(Row)
    BY DEF RowsIn
  <1>4. /\ rows' \in [Branch -> Seq(Row)] /\ rows'[b] = rs
        /\ \A x \in Branch : x # b => rows'[x] = rows[x]
    BY <1>1, <1>2, <1>3
  <1>5. \A x \in Branch : rows'[x] \in RowsIn(x)
    BY <1>1, <1>4 DEF BuildInv
  <1>6. /\ On' = On /\ Limit' = Limit
        /\ Enabled("collections")' = Enabled("collections")
        /\ Enabled("data_objects")' = Enabled("data_objects")
    BY <1>2, SameQuery
  <1>7. edits' \in 0 .. MaxEdits /\ touched' \subseteq {"added", "removed", "reordered"}
    BY <1>1, <1>2, EntryQueryPagingAssumption DEF TypeOK
  <1>8. TypeOK'
    BY <1>1, <1>2, <1>6, <1>7 DEF TypeOK
  <1>9. FirstPhase' = FirstPhase /\ (PeekDue' <=> PeekDue)
    BY <1>2, <1>6 DEF FirstPhase, PeekDue
  <1>10. /\ AtCollections' <=> AtCollections
         /\ AtObjects' <=> AtObjects
         /\ AtPeek' <=> AtPeek
         /\ AtEnd' <=> AtEnd
    <2>1. AtCollections' <=> AtCollections
      BY <1>2, <1>9 DEF AtCollections
    <2>2. AtObjects' <=> AtObjects
      BY <1>2, <1>6 DEF AtObjects
    <2>3. AtPeek' <=> AtPeek
      BY <1>2, <1>6, <1>9 DEF AtPeek, Closed, Room
    <2>4. AtEnd' <=> AtEnd
      BY <1>2, <1>6 DEF AtEnd, Closed, Room
    <2>5. QED
      BY <2>1, <2>2, <2>3, <2>4
  <1>11. BuildInv'
    BY <1>1, <1>2, <1>4, <1>5, <1>6, <1>10 DEF BuildInv, Fits, Belongs, Building
  <1>12. QED
    BY <1>2, <1>4, <1>8, <1>11 DEF PagingInv

ReadInv == TileInv /\ SkipInv /\ OnceInv /\ LengthInv /\ MoreInv

LEMMA InsertStep ==
    ASSUME PagingInv, ReadInv, NEW b \in Branch, Insert(b)
    PROVE  PagingInv' /\ ReadInv'
  <1>1. rows \in [Branch -> Seq(Row)] /\ rows[b] \in RowsIn(b)
    BY DEF PagingInv, BuildInv
  <1>2. PICK e \in Entries[b] \ ToSet(Order(rows[b])), i \in 0 .. Len(rows[b]) :
           Change(b, "added", SubSeq(rows[b], 1, i) \o RowsOf[e] \o SubSeq(rows[b], i + 1, Len(rows[b])))
    BY DEF Insert
  <1>3. PICK rs : rs = SubSeq(rows[b], 1, i) \o RowsOf[e] \o SubSeq(rows[b], i + 1, Len(rows[b]))
    OBVIOUS
  <1>4. rs \in RowsIn(b) /\ \E phi : Embeds(rows[b], rs, e, phi)
    BY <1>1, <1>3, InsertEmbeds
  <1>5. Change(b, "added", rs)
    BY <1>2, <1>3
  <1>6. /\ PagingInv' /\ rows' \in [Branch -> Seq(Row)] /\ rows'[b] = rs
        /\ \A x \in Branch : x # b => rows'[x] = rows[x]
        /\ touched' = touched \cup {"added"} /\ pc' = pc /\ page' = page /\ got' = got
        /\ cursor' = cursor /\ whole' = whole /\ query' = query /\ pc # "done"
    BY <1>4, <1>5, ChangeStep
  <1>7. On' = On
    BY <1>6, SameQuery
  <1>8. ASSUME NEW c \in Cursor
        PROVE  Within(rows, rows', On, c)
    <2>1. PICK phi : Embeds(rows[b], rows'[b], e, phi)
      BY <1>4, <1>6
    <2>2. QED
      BY <1>1, <1>6, <2>1, EmbedWithin
  <1>9. /\ got \in Seq(Entry) /\ page.entries \in Seq(Entry) /\ page.next \in Cursor /\ cursor \in Cursor
        /\ got \o page.entries \in Seq(Entry)
    BY ConcatProperties DEF PagingInv, TypeOK
  <1>10. SkipInv'
    <2> SUFFICES ASSUME touched' \subseteq {"added"}, NEW s \in Readings'
                 PROVE  ToSet(whole') \subseteq ToSet(s)
      BY DEF SkipInv
    <2>1. \A r \in Readings : ToSet(whole) \subseteq ToSet(r)
      BY <1>6 DEF ReadInv, SkipInv
    <2>2. \/ s = got \o RestAll(rows', On, cursor)
          \/ Building /\ s = (got \o page.entries) \o RestAll(rows', On, page.next)
      <3>1. \/ s = got \o RestAll(rows', On, cursor)
            \/ Building /\ s = got \o (page.entries \o RestAll(rows', On, page.next))
        BY <1>6, <1>7 DEF Readings, Building
      <3>2. RestAll(rows', On, page.next) \in Seq(Entry)
        BY <1>6, <1>9, RestAllFacts
      <3> DEFINE r == RestAll(rows', On, page.next)
      <3>3. r \in Seq(Entry)
        BY <3>2
      <3> HIDE DEF r
      <3>4. (got \o page.entries) \o r = got \o (page.entries \o r)
        BY <1>9, <3>3, Joined, Zenon
      <3>5. QED
        BY <3>1, <3>4 DEF r
    <2>3. CASE s = got \o RestAll(rows', On, cursor)
      <3>1. got \o RestAll(rows, On, cursor) \in Readings
        BY <1>6 DEF Readings
      <3>2. ToSet(got \o RestAll(rows, On, cursor)) \subseteq ToSet(s)
        BY <1>1, <1>6, <1>8, <1>9, <2>3, ReadingGrows
      <3>3. QED
        BY <1>6, <2>1, <3>1, <3>2
    <2>4. CASE Building /\ s = (got \o page.entries) \o RestAll(rows', On, page.next)
      <3>1. (got \o page.entries) \o RestAll(rows, On, page.next) \in Readings
        <4>1. RestAll(rows, On, page.next) \in Seq(Entry)
          BY <1>1, <1>9, RestAllFacts
        <4>2. (got \o page.entries) \o RestAll(rows, On, page.next)
                 = got \o (page.entries \o RestAll(rows, On, page.next))
          BY <1>9, <4>1, Joined
        <4>3. QED
          BY <1>6, <2>4, <4>2 DEF Readings
      <3>2. ToSet((got \o page.entries) \o RestAll(rows, On, page.next)) \subseteq ToSet(s)
        BY <1>1, <1>6, <1>8, <1>9, <2>4, ReadingGrows
      <3>3. QED
        BY <1>6, <2>1, <3>1, <3>2
    <2>5. QED
      BY <2>2, <2>3, <2>4
  <1>11. TileInv' /\ OnceInv' /\ LengthInv' /\ MoreInv'
    BY <1>6 DEF TileInv, OnceInv, LengthInv, MoreInv, SameEntries
  <1>12. QED
    BY <1>6, <1>10, <1>11 DEF ReadInv

LEMMA DeleteStep ==
    ASSUME PagingInv, ReadInv, NEW b \in Branch, Delete(b)
    PROVE  PagingInv' /\ ReadInv'
  <1>1. rows \in [Branch -> Seq(Row)] /\ rows[b] \in RowsIn(b)
    BY DEF PagingInv, BuildInv
  <1>2. PICK e \in ToSet(Order(rows[b])) :
           Change(b, "removed", Pick(rows[b], {i \in DOMAIN rows[b] : rows[b][i].entry # e}))
    BY DEF Delete
  <1>3. PICK rs : rs = Pick(rows[b], {i \in DOMAIN rows[b] : rows[b][i].entry # e})
    OBVIOUS
  <1>4. rs \in RowsIn(b) /\ \E phi : Embeds(rs, rows[b], e, phi)
    BY <1>1, <1>3, DeleteEmbeds
  <1>5. Change(b, "removed", rs)
    BY <1>2, <1>3
  <1>6. /\ PagingInv' /\ rows' \in [Branch -> Seq(Row)] /\ rows'[b] = rs
        /\ \A x \in Branch : x # b => rows'[x] = rows[x]
        /\ touched' = touched \cup {"removed"} /\ pc' = pc /\ page' = page /\ got' = got
        /\ cursor' = cursor /\ whole' = whole /\ query' = query /\ pc # "done"
    BY <1>4, <1>5, ChangeStep
  <1>7. On' = On
    BY <1>6, SameQuery
  <1>8. ASSUME NEW c \in Cursor
        PROVE  Within(rows', rows, On, c)
    <2>1. PICK phi : Embeds(rows'[b], rows[b], e, phi)
      BY <1>4, <1>6
    <2>2. QED
      BY <1>1, <1>6, <2>1, EmbedWithin
  <1>9. /\ got \in Seq(Entry) /\ page.entries \in Seq(Entry) /\ page.next \in Cursor /\ cursor \in Cursor
        /\ got \o page.entries \in Seq(Entry)
    BY ConcatProperties DEF PagingInv, TypeOK
  <1>10. OnceInv'
    <2> SUFFICES ASSUME touched' \subseteq {"removed"}, NEW s \in Readings'
                 PROVE  IsInjective(s)
      BY DEF OnceInv
    <2>1. \A r \in Readings : IsInjective(r)
      BY <1>6 DEF ReadInv, OnceInv
    <2>2. \/ s = got \o RestAll(rows', On, cursor)
          \/ Building /\ s = (got \o page.entries) \o RestAll(rows', On, page.next)
      <3>1. \/ s = got \o RestAll(rows', On, cursor)
            \/ Building /\ s = got \o (page.entries \o RestAll(rows', On, page.next))
        BY <1>6, <1>7 DEF Readings, Building
      <3>2. RestAll(rows', On, page.next) \in Seq(Entry)
        BY <1>6, <1>9, RestAllFacts
      <3> DEFINE r == RestAll(rows', On, page.next)
      <3>3. r \in Seq(Entry)
        BY <3>2
      <3> HIDE DEF r
      <3>4. (got \o page.entries) \o r = got \o (page.entries \o r)
        BY <1>9, <3>3, Joined, Zenon
      <3>5. QED
        BY <3>1, <3>4 DEF r
    <2>3. CASE s = got \o RestAll(rows', On, cursor)
      <3>1. got \o RestAll(rows, On, cursor) \in Readings
        BY <1>6 DEF Readings
      <3>2. QED
        BY <1>1, <1>6, <1>8, <1>9, <2>1, <2>3, <3>1, ReadingStaysOnce
    <2>4. CASE Building /\ s = (got \o page.entries) \o RestAll(rows', On, page.next)
      <3>1. (got \o page.entries) \o RestAll(rows, On, page.next) \in Readings
        <4>1. RestAll(rows, On, page.next) \in Seq(Entry)
          BY <1>1, <1>9, RestAllFacts
        <4>2. (got \o page.entries) \o RestAll(rows, On, page.next)
                 = got \o (page.entries \o RestAll(rows, On, page.next))
          BY <1>9, <4>1, Joined
        <4>3. QED
          BY <1>6, <2>4, <4>2 DEF Readings
      <3>2. QED
        BY <1>1, <1>6, <1>8, <1>9, <2>1, <2>4, <3>1, ReadingStaysOnce
    <2>5. QED
      BY <2>2, <2>3, <2>4
  <1>11. TileInv' /\ SkipInv' /\ LengthInv' /\ MoreInv'
    BY <1>6 DEF TileInv, SkipInv, LengthInv, MoreInv, SameEntries
  <1>12. QED
    BY <1>6, <1>10, <1>11 DEF ReadInv

-----------------------------------------------------------------------------
(* Rows in another order.                                                  *)

\* Two rows that change places.
Swapped(rs, i, j) == [rs EXCEPT ![i] = rs[j], ![j] = rs[i]]

\* They are the same rows, and as many entries.
LEMMA SwapFacts ==
    ASSUME NEW b \in Branch, NEW rs \in RowsIn(b), NEW i \in DOMAIN rs, NEW j \in DOMAIN rs,
           NEW rt, rt = Swapped(rs, i, j)
    PROVE  /\ rt \in RowsIn(b)
           /\ ToSet(rt) = ToSet(rs)
           /\ Len(Order(rt)) = Len(Order(rs))
  <1>1. /\ rs \in Seq(Row) /\ Len(rs) \in Nat /\ DOMAIN rs = 1 .. Len(rs)
        /\ \A x \in 1 .. Len(rs) : rs[x] \in Row /\ rs[x].entry \in Entries[b]
    BY LenProperties, ElementOfSeq DEF RowsIn
  <1>2. /\ DOMAIN rt = 1 .. Len(rs)
        /\ \A x \in 1 .. Len(rs) : rt[x] = IF x = j THEN rs[i] ELSE IF x = i THEN rs[j] ELSE rs[x]
    BY <1>1 DEF Swapped
  <1>3. \A x \in 1 .. Len(rs) : rt[x] \in Row /\ rt[x].entry \in Entries[b]
    BY <1>1, <1>2
  <1>4. rt \in [1 .. Len(rs) -> Row]
    BY <1>1, <1>2, <1>3 DEF Swapped
  <1>5. rt \in Seq(Row) /\ Len(rt) = Len(rs)
    BY <1>1, <1>4
  <1>6. rt \in RowsIn(b)
    BY <1>3, <1>5 DEF RowsIn
  <1>7. ToSet(rt) = ToSet(rs)
    <2>1. \A x \in DOMAIN rs : \E y \in DOMAIN rt : rt[y] = rs[x]
      <3>1. ASSUME NEW x \in DOMAIN rs
            PROVE  \E y \in DOMAIN rt : rt[y] = rs[x]
        <4>1. rt[i] = rs[j] /\ rt[j] = rs[i]
          BY <1>1, <1>2
        <4>2. x # i /\ x # j => rt[x] = rs[x]
          BY <1>1, <1>2
        <4>3. QED
          BY <1>1, <1>2, <4>1, <4>2
      <3>2. QED
        BY <3>1
    <2>2. \A x \in DOMAIN rt : \E y \in DOMAIN rs : rs[y] = rt[x]
      BY <1>1, <1>2
    <2>3. QED
      BY <2>1, <2>2 DEF ToSet
  <1>8. Size(rt) = Size(rs)
    BY <1>7 DEF Size
  <1>9. Len(Order(rt)) = Size(rt) /\ Len(Order(rs)) = Size(rs)
    BY <1>1, <1>5, OrderFacts
  <1>10. QED
    BY <1>6, <1>7, <1>8, <1>9

\* What is left to be read is as long.
LEMMA RestLength ==
    ASSUME NEW rs \in [Branch -> Seq(Row)], NEW rt \in [Branch -> Seq(Row)], NEW on, NEW c \in Cursor,
           \A b \in Branch : Len(Order(rt[b])) = Len(Order(rs[b]))
    PROVE  /\ RestAll(rs, on, c) \in Seq(Entry) /\ RestAll(rt, on, c) \in Seq(Entry)
           /\ Len(RestAll(rt, on, c)) = Len(RestAll(rs, on, c))
  <1>1. ASSUME NEW b \in Branch
        PROVE  Len(Rest(rt, on, b, c)) = Len(Rest(rs, on, b, c))
    <2> DEFINE s == Order(rs[b])
               t == Order(rt[b])
               o == c.offset[b]
    <2>1. c.offset[b] \in Int /\ rs[b] \in Seq(Row) /\ rt[b] \in Seq(Row)
      BY DEF Cursor
    <2>2. s \in Seq(Entry) /\ t \in Seq(Entry) /\ Len(t) = Len(s)
      BY <2>1, OrderFacts
    <2>3. CASE Open(on, b, c) /\ o >= 0
      <3>1. Rest(rs, on, b, c) = Window(s, o, Len(s)) /\ Rest(rt, on, b, c) = Window(t, o, Len(t))
        BY <2>1, <2>3, RestFacts
      <3>2. o \in Nat
        BY <2>1, <2>3
      <3> HIDE DEF s, t, o
      <3>3. Len(Window(s, o, Len(s))) = IF o <= Len(s) THEN Len(s) - o ELSE 0
        BY <2>2, <3>2, WindowToEnd
      <3>4. Len(Window(t, o, Len(t))) = IF o <= Len(t) THEN Len(t) - o ELSE 0
        BY <2>2, <3>2, WindowToEnd
      <3>5. QED
        BY <2>2, <3>1, <3>3, <3>4
    <2>4. CASE ~(Open(on, b, c) /\ o >= 0)
      BY <2>4 DEF Rest
    <2>5. QED
      BY <2>3, <2>4
  <1> DEFINE rc == Rest(rs, on, "collections", c)
             ro == Rest(rs, on, "data_objects", c)
             tc == Rest(rt, on, "collections", c)
             to == Rest(rt, on, "data_objects", c)
  <1>2. /\ rc \in Seq(Entry) /\ ro \in Seq(Entry) /\ RestAll(rs, on, c) \in Seq(Entry)
        /\ tc \in Seq(Entry) /\ to \in Seq(Entry) /\ RestAll(rt, on, c) \in Seq(Entry)
    BY RestAllFacts
  <1>3. Len(tc) = Len(rc) /\ Len(to) = Len(ro)
    BY <1>1 DEF Branch
  <1>4. RestAll(rs, on, c) = rc \o ro /\ RestAll(rt, on, c) = tc \o to
    BY DEF RestAll
  <1> HIDE DEF rc, ro, tc, to
  <1>5. Len(rc \o ro) = Len(rc) + Len(ro) /\ Len(tc \o to) = Len(tc) + Len(to)
    BY <1>2, ConcatProperties
  <1>6. QED
    BY <1>2, <1>3, <1>4, <1>5

LEMMA JoinedLength ==
    \A s, t, u \in Seq(Entry) : /\ s \o t \in Seq(Entry)
                                /\ Len(t) = Len(u) => Len(s \o t) = Len(s \o u)
  <1>1. ASSUME NEW s \in Seq(Entry), NEW t \in Seq(Entry)
        PROVE  s \o t \in Seq(Entry) /\ Len(s \o t) = Len(s) + Len(t)
    BY ConcatProperties
  <1>2. ASSUME NEW s \in Seq(Entry), NEW t \in Seq(Entry), NEW u \in Seq(Entry), Len(t) = Len(u)
        PROVE  Len(s \o t) = Len(s \o u)
    <2>1. Len(s \o t) = Len(s) + Len(t) /\ Len(s \o u) = Len(s) + Len(u)
      BY <1>1
    <2>2. QED
      BY <1>2, <2>1
  <1>3. QED
    BY <1>1, <1>2

LEMMA ReorderStep ==
    ASSUME PagingInv, ReadInv, TotalsInv, NEW b \in Branch, Reorder(b)
    PROVE  PagingInv' /\ ReadInv' /\ TotalsInv'
  <1>1. rows \in [Branch -> Seq(Row)] /\ rows[b] \in RowsIn(b)
    BY DEF PagingInv, BuildInv
  <1>2. PICK i \in DOMAIN rows[b], j \in DOMAIN rows[b] :
           Change(b, "reordered", [rows[b] EXCEPT ![i] = rows[b][j], ![j] = rows[b][i]])
    BY DEF Reorder
  <1>3. PICK rs : rs = Swapped(rows[b], i, j)
    OBVIOUS
  <1>4. rs \in RowsIn(b) /\ ToSet(rs) = ToSet(rows[b]) /\ Len(Order(rs)) = Len(Order(rows[b]))
    BY <1>1, <1>3, SwapFacts
  <1>5. Change(b, "reordered", rs)
    BY <1>2, <1>3 DEF Swapped
  <1>6. /\ PagingInv' /\ rows' \in [Branch -> Seq(Row)] /\ rows'[b] = rs
        /\ \A x \in Branch : x # b => rows'[x] = rows[x]
        /\ touched' = touched \cup {"reordered"} /\ pc' = pc /\ page' = page /\ got' = got
        /\ cursor' = cursor /\ whole' = whole /\ query' = query /\ pc # "done"
    BY <1>4, <1>5, ChangeStep
  <1>7. On' = On /\ (Building' <=> Building) /\ (SameEntries' => SameEntries)
    BY <1>6, SameQuery DEF Building, SameEntries
  <1>8. \A x \in Branch : ToSet(rows'[x]) = ToSet(rows[x]) /\ Len(Order(rows'[x])) = Len(Order(rows[x]))
    BY <1>4, <1>6
  <1>9. /\ got \in Seq(Entry) /\ page.entries \in Seq(Entry) /\ page.next \in Cursor /\ cursor \in Cursor
    BY DEF PagingInv, TypeOK
  <1>10. ASSUME NEW c \in Cursor
         PROVE  /\ RestAll(rows, On, c) \in Seq(Entry) /\ RestAll(rows', On, c) \in Seq(Entry)
                /\ Len(RestAll(rows', On, c)) = Len(RestAll(rows, On, c))
    BY <1>1, <1>6, <1>8, RestLength
  <1>11. LengthInv'
    <2> SUFFICES ASSUME SameEntries, NEW s \in Readings'
                 PROVE  Len(s) = Len(whole)
      BY <1>6, <1>7 DEF LengthInv
    <2>1. \A r \in Readings : Len(r) = Len(whole)
      BY DEF ReadInv, LengthInv
    <2>2. \/ s = got \o RestAll(rows', On, cursor)
          \/ Building /\ s = got \o (page.entries \o RestAll(rows', On, page.next))
      BY <1>6, <1>7 DEF Readings
    <2>3. CASE s = got \o RestAll(rows', On, cursor)
      <3>1. got \o RestAll(rows, On, cursor) \in Readings
        BY <1>6 DEF Readings
      <3>2. Len(got \o RestAll(rows', On, cursor)) = Len(got \o RestAll(rows, On, cursor))
        BY <1>9, <1>10, JoinedLength, Zenon
      <3>3. QED
        BY <2>1, <2>3, <3>1, <3>2
    <2>4. CASE Building /\ s = got \o (page.entries \o RestAll(rows', On, page.next))
      <3> DEFINE u == RestAll(rows, On, page.next)
                 v == RestAll(rows', On, page.next)
      <3>1. Len(got \o (page.entries \o u)) = Len(whole)
        BY <1>6, <2>1, <2>4 DEF Readings
      <3>2. u \in Seq(Entry) /\ v \in Seq(Entry) /\ Len(v) = Len(u)
        BY <1>9, <1>10
      <3> HIDE DEF u, v
      <3>3. /\ page.entries \o u \in Seq(Entry) /\ page.entries \o v \in Seq(Entry)
            /\ Len(page.entries \o v) = Len(page.entries \o u)
        BY <1>9, <3>2, JoinedLength, Zenon
      <3>4. Len(got \o (page.entries \o v)) = Len(got \o (page.entries \o u))
        BY <1>9, <3>3, JoinedLength, Zenon
      <3>5. QED
        BY <2>4, <3>1, <3>4 DEF v
    <2>5. QED
      BY <2>2, <2>3, <2>4
  <1>12. MoreInv'
    <2> SUFFICES ASSUME SameEntries, Building, page.more
                 PROVE  RestAll(rows', On, page.next) # <<>>
      BY <1>6, <1>7 DEF MoreInv
    <2>1. RestAll(rows, On, page.next) # <<>>
      BY DEF ReadInv, MoreInv
    <2>2. QED
      BY <1>9, <1>10, <2>1, EmptyOnly
  <1>13. TotalsInv'
    <2>1. \A x \in Branch : (Enabled(x)' <=> Enabled(x)) /\ {r.entry : r \in ToSet(rows'[x])} = {r.entry : r \in ToSet(rows[x])}
      BY <1>6, <1>8, SameQuery DEF Branch
    <2>2. QED
      BY <1>6, <1>7, <2>1 DEF TotalsInv
  <1>14. TileInv' /\ SkipInv' /\ OnceInv'
    BY <1>6 DEF TileInv, SkipInv, OnceInv
  <1>15. QED
    BY <1>6, <1>11, <1>12, <1>13, <1>14 DEF ReadInv

-----------------------------------------------------------------------------
(* The invariants hold.                                                    *)

LEMMA StepReads ==
    ASSUME PagingInv, ReadInv, Step \/ Fail
    PROVE  PagingInv' /\ ReadInv' /\ touched' = touched /\ whole' = whole /\ rows' = rows /\ query' = query
  <1>1. touched' = touched /\ whole' = whole /\ rows' = rows /\ query' = query
    BY DEF Step, Fail, Call, ScanBranch, Peek, CountBranch, Refuse, Return, World, Reader
  <1>2. PagingInv' /\ Readings' \subseteq Readings /\ (MoreInv => MoreInv')
    <2>1. CASE Call
      BY <2>1, CallStep
    <2>2. CASE ScanBranch("collections", "data_objects")
      BY <2>2, ScanCollectionsStep
    <2>3. CASE ScanBranch("data_objects", "peek")
      BY <2>3, ScanObjectsStep
    <2>4. CASE Peek
      BY <2>4, PeekStep
    <2>5. CASE CountBranch("count", "collections", "count_objects")
      BY <2>5, CountStep DEF Branch
    <2>6. CASE CountBranch("count_objects", "data_objects", "return")
      BY <2>6, CountStep DEF Branch
    <2>7. CASE Return
      BY <2>7, ReturnStep
    <2>8. CASE Fail
      BY <2>8, FailStep
    <2>9. CASE Refuse
      BY <2>9, RefuseStep
    <2>10. QED
      BY <2>1, <2>2, <2>3, <2>4, <2>5, <2>6, <2>7, <2>8, <2>9 DEF Step
  <1>3. TileInv' /\ SkipInv' /\ OnceInv' /\ LengthInv'
    <2>1. TileInv'
      BY <1>1, <1>2 DEF ReadInv, TileInv
    <2>2. SkipInv'
      BY <1>1, <1>2 DEF ReadInv, SkipInv
    <2>3. OnceInv'
      BY <1>1, <1>2 DEF ReadInv, OnceInv
    <2>4. LengthInv'
      BY <1>1, <1>2 DEF ReadInv, LengthInv, SameEntries
    <2>5. QED
      BY <2>1, <2>2, <2>3, <2>4
  <1>4. QED
    BY <1>1, <1>2, <1>3 DEF ReadInv

LEMMA TotalsStep ==
    ASSUME PagingInv, TotalsInv, Step \/ Fail
    PROVE  TotalsInv'
  <1>1. touched' = touched /\ rows' = rows /\ query' = query
    BY DEF Step, Fail, Call, ScanBranch, Peek, CountBranch, Refuse, Return, World, Reader
  <1>2. Page(page) /\ DOMAIN page.totals = Branch /\ \A b \in Branch : rows[b] \in RowsIn(b)
    BY DEF PagingInv, BuildInv, TotalsInv
  <1>3. \A b \in Branch : Enabled(b)' = Enabled(b)
    BY <1>1, SameQuery DEF Branch
  <1>4. CASE Call
    <2>1. pc' \notin {"return", "count_objects"}
      BY <1>4 DEF Call, Goto
    <2>2. page' = page \/ page' = NewPage
      BY <1>4 DEF Call
    <2>3. DOMAIN page'.totals = Branch
      BY <1>2, <2>2, NewPageFields
    <2>4. QED
      BY <2>1, <2>3 DEF TotalsInv
  <1>5. ASSUME NEW b \in Branch, NEW next \in {"data_objects", "peek"}, ScanBranch(b, next)
        PROVE  TotalsInv'
    <2>1. pc' \notin {"return", "count_objects"}
      BY <1>5 DEF ScanBranch, Goto
    <2>2. page' = page \/ \E scan : page' = Extend(b, scan)
      BY <1>5 DEF ScanBranch
    <2>3. page'.totals = page.totals
      <3>1. CASE page' = page
        BY <3>1
      <3>2. CASE \E scan : page' = Extend(b, scan)
        <4>1. PICK scan : page' = Extend(b, scan)
          BY <3>2
        <4>2. Extend(b, scan).totals = page.totals
          BY <1>2, ExtendFields
        <4>3. QED
          BY <4>1, <4>2
      <3>3. QED
        BY <2>2, <3>1, <3>2
    <2>4. QED
      BY <1>2, <2>1, <2>3 DEF TotalsInv
  <1>6. CASE Peek
    <2>1. query.totals => pc' \notin {"return", "count_objects"}
      BY <1>6 DEF Peek, Goto
    <2>2. page' = page \/ \E scan : page' = Peeked(scan)
      BY <1>6 DEF Peek
    <2>3. page'.totals = page.totals
      <3>1. CASE page' = page
        BY <3>1
      <3>2. CASE \E scan : page' = Peeked(scan)
        <4>1. PICK scan : page' = Peeked(scan)
          BY <3>2
        <4>2. Peeked(scan).totals = page.totals
          BY <1>2, PeekedFields
        <4>3. QED
          BY <4>1, <4>2
      <3>3. QED
        BY <2>2, <3>1, <3>2
    <2>4. QED
      BY <1>1, <1>2, <2>1, <2>3 DEF TotalsInv
  <1>7. ASSUME NEW b \in Branch, NEW n, n = (IF Enabled(b) THEN Count(b, rows[b]) ELSE 0),
               page' = [page EXCEPT !.totals[b] = n]
        PROVE  /\ DOMAIN page'.totals = Branch
               /\ page'.totals[b] = IF Enabled(b) THEN Cardinality({r.entry : r \in ToSet(rows[b])}) ELSE 0
               /\ \A c \in Branch : c # b => page'.totals[c] = page.totals[c]
    <2>1. Counted(page', b, n)
      BY <1>2, <1>7, CountFields
    <2>2. page'.totals = [page.totals EXCEPT ![b] = n]
      BY <2>1 DEF Counted
    <2>3. Count(b, rows[b]) = Cardinality({r.entry : r \in ToSet(rows[b])})
      BY <1>2, CountFacts
    <2>4. QED
      BY <1>2, <1>7, <2>2, <2>3
  <1>8. CASE CountBranch("count", "collections", "count_objects")
    <2>1. pc' = "count_objects" /\ "collections" \in Branch
      BY <1>8 DEF CountBranch, Goto, Branch
    <2>2. /\ DOMAIN page'.totals = Branch
          /\ page'.totals["collections"] =
                IF Enabled("collections")
                THEN Cardinality({r.entry : r \in ToSet(rows["collections"])}) ELSE 0
      BY <1>7, <1>8, <2>1 DEF CountBranch
    <2>3. QED
      BY <1>1, <1>3, <2>1, <2>2 DEF TotalsInv
  <1>9. CASE CountBranch("count_objects", "data_objects", "return")
    <2>1. pc = "count_objects" /\ pc' = "return" /\ "data_objects" \in Branch
      BY <1>9 DEF CountBranch, Goto, Branch
    <2>2. /\ DOMAIN page'.totals = Branch
          /\ page'.totals["data_objects"] =
                IF Enabled("data_objects")
                THEN Cardinality({r.entry : r \in ToSet(rows["data_objects"])}) ELSE 0
          /\ \A c \in Branch : c # "data_objects" => page'.totals[c] = page.totals[c]
      BY <1>7, <1>9, <2>1 DEF CountBranch
    <2>3. ASSUME SameEntries, query.totals, NEW c \in Branch
          PROVE  page'.totals[c] = IF Enabled(c) THEN Cardinality({r.entry : r \in ToSet(rows[c])}) ELSE 0
      BY <2>1, <2>2, <2>3 DEF TotalsInv, Branch
    <2>4. QED
      BY <1>1, <1>3, <2>2, <2>3 DEF TotalsInv, SameEntries
  <1>10. CASE Return
    <2>1. pc' \notin {"return", "count_objects"} /\ page' = page
      BY <1>10 DEF Return, Goto
    <2>2. QED
      BY <1>2, <2>1 DEF TotalsInv
  <1>11. CASE Refuse \/ Fail
    <2>1. pc' \notin {"return", "count_objects"} /\ page' = page
      BY <1>11 DEF Refuse, Fail, Goto
    <2>2. QED
      BY <1>2, <2>1 DEF TotalsInv
  <1>12. QED
    BY <1>4, <1>5, <1>6, <1>8, <1>9, <1>10, <1>11 DEF Step, Branch

LEMMA RestFrom ==
    ASSUME NEW b \in Branch, NEW rs, rs[b] \in RowsIn(b), NEW on, NEW c, c.offset[b] \in Int
    PROVE  ToSet(Rest(rs, on, b, c)) \subseteq Entries[b]
  <1> DEFINE s == Order(rs[b])
             o == c.offset[b]
             v == Window(s, o, Len(s))
  <1>1. /\ rs[b] \in Seq(Row) /\ s \in Seq(Entry)
        /\ \A k \in 1 .. Len(s) : s[k] \in Entries[b]
    <2>1. rs[b] \in Seq(Row)
      BY DEF RowsIn
    <2>2. QED
      BY <2>1, OrderFacts, MetBound
  <1>2. CASE Open(on, b, c) /\ o >= 0
    <2>1. o \in Nat
      BY <1>2
    <2>2. Rest(rs, on, b, c) = v
      BY <1>2 DEF Rest
    <2> HIDE DEF s, o
    <2>3. v \in Seq(Entry) /\ \A k \in 1 .. Len(v) : o + k \in 1 .. Len(s) /\ v[k] = s[o + k]
      BY <1>1, <2>1, WindowToEnd
    <2> HIDE DEF v
    <2>4. DOMAIN v = 1 .. Len(v)
      BY <2>3, LenProperties
    <2>5. \A k \in DOMAIN v : v[k] \in Entries[b]
      BY <1>1, <2>3, <2>4
    <2>6. QED
      BY <2>2, <2>5 DEF ToSet
  <1>3. CASE ~(Open(on, b, c) /\ o >= 0)
    <2>1. Rest(rs, on, b, c) = <<>>
      BY <1>3 DEF Rest
    <2>2. DOMAIN <<>> = {}
      OBVIOUS
    <2>3. QED
      BY <2>1, <2>2 DEF ToSet
  <1>4. QED
    BY <1>2, <1>3

LEMMA InitReads ==
    ASSUME Init
    PROVE  PagingInv /\ ReadInv /\ TotalsInv
  <1>1. /\ rows \in Results /\ query \in Queries /\ cursor \in Cursors /\ Fits /\ Belongs
        /\ pc = "call" /\ page = [NewPage EXCEPT !.phase = ""]
        /\ whole = Left("collections", cursor) \o Left("data_objects", cursor)
        /\ got = <<>> /\ touched = {} /\ edits = MaxEdits /\ faults = MaxFaults
    BY DEF Init
  <1>2. query \in Query /\ cursor \in Cursor /\ rows \in [Branch -> Seq(Row)]
    BY <1>1, EntryQueryPagingAssumption
  <1>3. \A b \in Branch : rows[b] \in RowsIn(b)
    <2>1. ASSUME NEW b \in Branch
          PROVE  rows[b] \in RowsIn(b)
      <3>1. rows[b] \in Seq(Row) /\ \A i \in DOMAIN rows[b] : rows[b][i].entry \in Entries[b]
        BY <1>1, <1>2, EntryQueryPagingAssumption
      <3>2. DOMAIN rows[b] = 1 .. Len(rows[b])
        BY <3>1, LenProperties
      <3>3. QED
        BY <3>1, <3>2 DEF RowsIn
    <2>2. QED
      BY <2>1
  <1>4. /\ Page(page) /\ page.entries = <<>> /\ page.remaining = Limit /\ page.phase = ""
        /\ page.more = FALSE /\ page.next = cursor /\ page.totals = [b \in Branch |-> 0]
    BY <1>1, NewPageFields DEF Page
  <1>5. /\ Left("collections", cursor) = Rest(rows, On, "collections", cursor)
        /\ Left("data_objects", cursor) = Rest(rows, On, "data_objects", cursor)
    BY DEF Left, Rest, Open, On, Branch
  <1>6. whole = RestAll(rows, On, cursor)
    BY <1>1, <1>5 DEF RestAll
  <1>7. /\ whole \in Seq(Entry) /\ Rest(rows, On, "collections", cursor) \in Seq(Entry)
        /\ Rest(rows, On, "data_objects", cursor) \in Seq(Entry)
    BY <1>2, <1>6, RestAllFacts
  <1>8. Readings = {whole}
    <2>1. got \o RestAll(rows, On, cursor) = whole
      BY <1>1, <1>6, <1>7, ConcatEmptySeq
    <2>2. QED
      BY <1>1, <2>1 DEF Readings, Building
  <1>9. IsInjective(whole)
    <2>1. \A b \in Branch : cursor.offset[b] \in Int /\ rows[b] \in Seq(Row)
      BY <1>2 DEF Cursor
    <2>2. /\ IsInjective(Rest(rows, On, "collections", cursor))
          /\ IsInjective(Rest(rows, On, "data_objects", cursor))
      BY <2>1, RestInjective DEF Branch
    <2>3. /\ ToSet(Rest(rows, On, "collections", cursor)) \subseteq Entries["collections"]
          /\ ToSet(Rest(rows, On, "data_objects", cursor)) \subseteq Entries["data_objects"]
      BY <1>3, <2>1, RestFrom DEF Branch
    <2>4. Apart(Rest(rows, On, "collections", cursor), Rest(rows, On, "data_objects", cursor))
      BY <2>2, <2>3, EntryQueryPagingAssumption DEF Apart
    <2>5. QED
      BY <1>6, <1>7, <2>4, InjectiveConcat DEF RestAll
  <1>10. TypeOK
    <2>1. Limit \in Nat /\ Limit > 0
      BY <1>2, LimitFacts
    <2>2. Len(<<>>) = 0 /\ <<>> \in Seq(Entry)
      OBVIOUS
    <2>3. page.entries \in Seq(Entry) /\ page.remaining = Limit - Len(page.entries) /\ page.remaining >= 0
      <3>1. page.entries = <<>> /\ page.remaining = Limit
        BY <1>4
      <3>2. Len(page.entries) = 0 /\ page.entries \in Seq(Entry)
        BY <2>2, <3>1
      <3>3. QED
        BY <2>1, <3>1, <3>2
    <2>4. page.phase \in Phases /\ page.more \in BOOLEAN /\ page.next \in Cursor
      BY <1>2, <1>4 DEF Phases
    <2>5. edits \in 0 .. MaxEdits /\ faults \in 0 .. MaxFaults
      <3>1. MaxEdits \in Nat /\ MaxFaults \in Nat
        BY EntryQueryPagingAssumption
      <3>2. edits = MaxEdits /\ faults = MaxFaults
        BY <1>1
      <3>3. \A n \in Nat : n \in 0 .. n
        OBVIOUS
      <3>4. QED
        BY <3>1, <3>2, <3>3
    <2>6. QED
      BY <1>1, <1>2, <1>7, <2>2, <2>3, <2>4, <2>5 DEF TypeOK
  <1>11. BuildInv
    BY <1>1, <1>2, <1>3, <1>4 DEF BuildInv, Building
  <1>12. TileInv /\ SkipInv /\ OnceInv /\ LengthInv /\ MoreInv
    BY <1>1, <1>8, <1>9 DEF TileInv, SkipInv, OnceInv, LengthInv, MoreInv, Building
  <1>13. TotalsInv
    BY <1>1, <1>4 DEF TotalsInv
  <1>14. QED
    BY <1>10, <1>11, <1>12, <1>13 DEF PagingInv, ReadInv

\* Every step keeps the invariants.
LEMMA NextReads ==
    ASSUME PagingInv, ReadInv, TotalsInv, [Next]_vars
    PROVE  PagingInv' /\ ReadInv' /\ TotalsInv'
  <1>1. CASE Step \/ Fail
    BY <1>1, StepReads, TotalsStep
  <1>2. ASSUME NEW b \in Branch, Insert(b) \/ Delete(b)
        PROVE  PagingInv' /\ ReadInv' /\ TotalsInv'
    <2>1. PagingInv' /\ ReadInv'
      BY <1>2, InsertStep, DeleteStep
    <2>2. page' = page /\ ("added" \in touched' \/ "removed" \in touched')
      BY <1>2 DEF Insert, Delete, Change
    <2>3. TotalsInv'
      <3>1. ~SameEntries'
        BY <2>2 DEF SameEntries
      <3>2. QED
        BY <2>2, <3>1 DEF TotalsInv
    <2>4. QED
      BY <2>1, <2>3
  <1>3. CASE UNCHANGED vars
    <2>1. On' = On /\ Limit' = Limit /\ FirstPhase' = FirstPhase
          /\ Enabled("collections")' = Enabled("collections")
          /\ Enabled("data_objects")' = Enabled("data_objects")
      BY <1>3, SameQuery DEF vars, FirstPhase
    <2>2. TypeOK'
      BY <1>3, <2>1 DEF PagingInv, TypeOK, vars
    <2>3. (PeekDue' <=> PeekDue) /\ (Building' <=> Building)
      BY <1>3, <2>1 DEF PeekDue, Building, vars
    <2>4. (AtCollections' <=> AtCollections) /\ (AtObjects' <=> AtObjects)
      BY <1>3, <2>1 DEF AtCollections, AtObjects, vars
    <2>5. (AtPeek' <=> AtPeek) /\ (AtEnd' <=> AtEnd)
      BY <1>3, <2>1, <2>3 DEF AtPeek, AtEnd, Closed, Room, vars
    <2>6. BuildInv'
      BY <1>3, <2>1, <2>3, <2>4, <2>5 DEF PagingInv, BuildInv, Fits, Belongs, vars
    <2>7. Readings' = Readings
      BY <1>3, <2>1, <2>3 DEF Readings, vars
    <2>8. TileInv' /\ SkipInv' /\ OnceInv' /\ LengthInv'
      BY <1>3, <2>7 DEF ReadInv, TileInv, SkipInv, OnceInv, LengthInv, SameEntries, vars
    <2>9. MoreInv'
      BY <1>3, <2>1, <2>3 DEF ReadInv, MoreInv, SameEntries, vars
    <2>10. \A b \in Branch : Enabled(b)' = Enabled(b)
      BY <2>1 DEF Branch
    <2>11. TotalsInv'
      BY <1>3, <2>10 DEF TotalsInv, SameEntries, vars
    <2>12. QED
      BY <2>2, <2>6, <2>8, <2>9, <2>11 DEF PagingInv, ReadInv
  <1>4. ASSUME NEW b \in Branch, Reorder(b)
        PROVE  PagingInv' /\ ReadInv' /\ TotalsInv'
    BY <1>4, ReorderStep
  <1>5. QED
    BY <1>1, <1>2, <1>3, <1>4 DEF Next

LEMMA PrefixOfConcat ==
    ASSUME NEW s \in Seq(Entry), NEW t \in Seq(Entry)
    PROVE  IsPrefix(s, s \o t)
  <1>1. s \o t \in Seq(Entry) /\ Len(s \o t) = Len(s) + Len(t) /\ Len(s) \in Nat /\ Len(t) \in Nat
    BY ConcatProperties, LenProperties
  <1>2. \A i \in 1 .. Len(s) + Len(t) : (s \o t)[i] = IF i <= Len(s) THEN s[i] ELSE t[i - Len(s)]
    BY ConcatProperties
  <1>3. \A i \in 1 .. Len(s) : (s \o t)[i] = s[i] /\ s[i] \in Entry
    <2>1. ASSUME NEW i \in 1 .. Len(s)
          PROVE  (s \o t)[i] = s[i] /\ s[i] \in Entry
      <3>1. i \in 1 .. Len(s) + Len(t) /\ i <= Len(s)
        BY <1>1
      <3>2. QED
        BY <1>2, <3>1, ElementOfSeq
    <2>2. QED
      BY <2>1
  <1> DEFINE u == s \o t
             n == Len(s)
  <1> HIDE DEF u
  <1>4. /\ SubSeq(u, 1, n) \in Seq(Entry) /\ Len(SubSeq(u, 1, n)) = n
        /\ \A i \in 1 .. n : SubSeq(u, 1, n)[i] = u[i]
    <2> HIDE DEF n
    <2>1. n \in Int /\ 1 \in Int /\ n >= 0 /\ \A i \in 1 .. n : u[i] \in Entry
      BY <1>1, <1>3 DEF n, u
    <2>2. /\ SubSeq(u, 1, n) \in Seq(Entry) /\ Len(SubSeq(u, 1, n)) = IF 1 <= n THEN n - 1 + 1 ELSE 0
          /\ \A i \in 1 .. n - 1 + 1 : SubSeq(u, 1, n)[i] = u[1 + i - 1]
      BY <2>1, SubSeqProperties
    <2>3. n - 1 + 1 = n /\ (IF 1 <= n THEN n - 1 + 1 ELSE 0) = n /\ \A i \in 1 .. n : 1 + i - 1 = i
      BY <2>1
    <2> DEFINE v == SubSeq(u, 1, n)
    <2> HIDE DEF v
    <2>4. QED
      BY <2>2, <2>3 DEF v
  <1>5. s = SubSeq(u, 1, n)
    <2> DEFINE v == SubSeq(u, 1, n)
    <2> HIDE DEF v
    <2>1. v \in Seq(Entry) /\ Len(v) = Len(s) /\ \A i \in 1 .. Len(s) : v[i] = s[i]
      BY <1>3, <1>4 DEF v, u
    <2>2. v = s
      BY <2>1, SeqEqual
    <2>3. QED
      BY <2>2 DEF v
  <1>6. QED
    BY <1>1, <1>5 DEF IsPrefix, u

ReadingInv == PagingInv /\ ReadInv /\ TotalsInv

LEMMA ReadingHolds == Spec => []ReadingInv
  <1>1. Init => ReadingInv
    BY InitReads DEF ReadingInv
  <1>2. ReadingInv /\ [Next]_vars => ReadingInv'
    BY NextReads DEF ReadingInv
  <1>3. QED
    BY <1>1, <1>2, PTL DEF Spec

\* A page never holds more than was asked for, and every variable keeps to its
\* values, for every result, page size and batch.
THEOREM TypeCorrectness == Spec => []TypeOK
  <1>1. ReadingInv => TypeOK
    BY DEF ReadingInv, PagingInv
  <1>2. QED
    BY <1>1, ReadingHolds, PTL

\* While nothing is added or removed and the server keeps to the order of its
\* rows, the pages are the result, in order: none of its entries is left out or
\* told twice, wherever QueryEntries ends a page and whatever failed on the way.
\* If the server changes the order, as the requests allow, the reader gets as
\* many entries as there are.
THEOREM PagesTileTheResult == Spec => []PagesTile
  <1>1. ReadingInv => PagesTile
    <2> SUFFICES ASSUME ReadingInv
                 PROVE  /\ Quiet => IsPrefix(got, whole) /\ (pc = "done" => got = whole)
                        /\ SameEntries /\ pc = "done" => Len(got) = Len(whole)
      BY DEF PagesTile
    <2>1. got \in Seq(Entry) /\ cursor \in Cursor /\ rows \in [Branch -> Seq(Row)]
      BY DEF ReadingInv, PagingInv, TypeOK, BuildInv
    <2>2. Quiet => Readings \subseteq {whole}
      BY DEF ReadingInv, ReadInv, TileInv, Quiet
    <2>3. pc = "done" => Readings = {got}
      BY DEF Readings
    <2>4. ASSUME Quiet, pc = "done"
          PROVE  got = whole /\ IsPrefix(got, whole)
      <3>1. got = whole
        BY <2>2, <2>3, <2>4
      <3>2. <<>> \in Seq(Entry) /\ got \o <<>> = got
        BY <2>1, ConcatEmptySeq
      <3>3. IsPrefix(got, got \o <<>>)
        BY <2>1, <3>2, PrefixOfConcat
      <3>4. QED
        BY <3>1, <3>2, <3>3
    <2>5. ASSUME Quiet, pc # "done"
          PROVE  IsPrefix(got, whole)
      <3>1. whole = got \o RestAll(rows, On, cursor)
        BY <2>2, <2>5 DEF Readings
      <3>2. RestAll(rows, On, cursor) \in Seq(Entry)
        BY <2>1, RestAllFacts
      <3>3. QED
        BY <2>1, <3>1, <3>2, PrefixOfConcat
    <2>6. SameEntries /\ pc = "done" => Len(got) = Len(whole)
      BY <2>3 DEF ReadingInv, ReadInv, LengthInv
    <2>7. QED
      BY <2>4, <2>5, <2>6
  <1>2. QED
    BY <1>1, ReadingHolds, PTL

\* QueryEntries says that there is more just when there is, and its totals are
\* the numbers of entries, in whatever order the server returns the rows.
THEOREM PagesAreHonest == Spec => []PageHonest
  <1>1. ReadingInv => PageHonest
    <2> SUFFICES ASSUME ReadingInv, SameEntries, pc = "return"
                 PROVE  /\ page.more <=> Len(got \o page.entries) < Len(whole)
                        /\ query.totals => \A b \in Branch :
                              page.totals[b] = IF Enabled(b)
                                               THEN Cardinality({r.entry : r \in ToSet(rows[b])}) ELSE 0
      BY DEF PageHonest
    <2> DEFINE h == got \o page.entries
               r == RestAll(rows, On, page.next)
    <2>1. /\ got \in Seq(Entry) /\ page.entries \in Seq(Entry) /\ page.next \in Cursor
          /\ rows \in [Branch -> Seq(Row)] /\ AtEnd /\ Building
          /\ \A q \in Readings : Len(q) = Len(whole)
      BY DEF ReadingInv, PagingInv, TypeOK, BuildInv, ReadInv, LengthInv, Building
    <2>2. h \in Seq(Entry) /\ r \in Seq(Entry)
      BY <2>1, ConcatProperties, RestAllFacts
    <2>3. Len(whole) = Len(h \o r)
      <3>1. Len(whole) = Len(got \o (page.entries \o r))
        BY <2>1 DEF Readings
      <3>2. got \in Seq(Entry) /\ page.entries \in Seq(Entry) /\ r \in Seq(Entry)
        BY <2>1, <2>2
      <3> HIDE DEF r
      <3>3. (got \o page.entries) \o r = got \o (page.entries \o r)
        BY <3>2, Joined, Zenon
      <3>4. QED
        BY <3>1, <3>3
    <2>4. page.more => r # <<>>
      BY <2>1 DEF ReadingInv, ReadInv, MoreInv
    <2>5. ~page.more => r = <<>>
      BY <2>1, RestAllFacts DEF AtEnd, Closed
    <2> HIDE DEF h, r
    <2>6. Len(whole) = Len(h) + Len(r) /\ Len(h) \in Nat /\ Len(r) \in Nat
      BY <2>2, <2>3, ConcatProperties, LenProperties
    <2>7. r # <<>> <=> Len(r) > 0
      BY <2>2, EmptyOnly
    <2>8. page.more <=> Len(h) < Len(whole)
      BY <2>4, <2>5, <2>6, <2>7
    <2>9. query.totals => \A b \in Branch :
             page.totals[b] = IF Enabled(b)
                              THEN Cardinality({q.entry : q \in ToSet(rows[b])}) ELSE 0
      BY DEF ReadingInv, TotalsInv
    <2>10. QED
      BY <2>8, <2>9 DEF h
  <1>2. QED
    BY <1>1, ReadingHolds, PTL

\* While the server keeps the order of the rows that stay, entries that are only
\* added make the reader skip none that was there, and entries that are only
\* removed make it repeat none, although the cursor is no more than a count.
THEOREM ChangesOnlyShift == Spec => []ChangesShift
  <1>1. ReadingInv => ChangesShift
    <2> SUFFICES ASSUME ReadingInv, pc = "done"
                 PROVE  /\ touched \subseteq {"added"} => ToSet(whole) \subseteq ToSet(got)
                        /\ touched \subseteq {"removed"} => IsInjective(got)
      BY DEF ChangesShift
    <2>1. Readings = {got}
      BY DEF Readings
    <2>2. QED
      BY <2>1 DEF ReadingInv, ReadInv, SkipInv, OnceInv
  <1>2. QED
    BY <1>1, ReadingHolds, PTL

-----------------------------------------------------------------------------
(* What a page tells of its entries.                                       *)

\* The page p tells all the rows rs of its entries.
Tells(rs, p) ==
    \A b \in Branch : \A r \in ToSet(rs[b]) : r.entry \in ToSet(p.entries) =>
        /\ r.avu # None => <<r.entry, r.avu>> \in p.told
        /\ b = "data_objects" => \A s \in p.shown : s[1] = r.entry => s[2] <= r.created

ToldInv ==
    Building =>
        /\ \A s \in page.shown : s[1] \in ToSet(page.entries)
        /\ touched = {} /\ (\A b \in Branch : Grouped(rows[b])) => Tells(rows, page)

LEMMA CreatedLeast ==
    ASSUME NEW rd \in Seq(Row), NEW U \in SUBSET DOMAIN rd,
           NEW T, T = {rd[i].created : i \in U}, NEW x \in T
    PROVE  Min(T) <= x
  <1> DEFINE f == [i \in U |-> rd[i].created]
  <1>1. IsFiniteSet(U)
    <2>1. DOMAIN rd = 1 .. Len(rd) /\ Len(rd) \in Nat
      BY LenProperties
    <2>2. IsFiniteSet(1 .. Len(rd))
      BY <2>1, FS_Interval
    <2>3. QED
      BY <2>1, <2>2, FS_Subset
  <1>2. \A i \in U : rd[i].created \in T
    OBVIOUS
  <1>3. T \subseteq Int
    <2>1. \A i \in U : rd[i] \in Row
      BY LenProperties, ElementOfSeq
    <2>2. QED
      BY <2>1 DEF Row
  <1>4. f \in [U -> T] /\ \A t \in T : \E i \in U : f[i] = t
    BY <1>2
  <1>5. f \in Surjection(U, T)
    <2> HIDE DEF f
    <2>1. QED
      BY <1>4, Fun_IsSurj
  <1>6. IsFiniteSet(T)
    BY <1>1, <1>5, FS_Surjection
  <1>7. \E y \in T : \A z \in T : y <= z
    BY <1>3, <1>6, LeastOf
  <1>8. QED
    BY <1>7 DEF Min

\* A scan of rs tells all the rows of its entries.
Told(b, rs, scan) ==
    /\ \A s \in scan.shown : s[1] \in ToSet(scan.entries)
    /\ \A r \in ToSet(rs) : r.entry \in ToSet(scan.entries) =>
          /\ r.avu # None => <<r.entry, r.avu>> \in scan.told
          /\ \A s \in scan.shown : s[1] = r.entry => s[2] <= r.created

LEMMA RowRead ==
    ASSUME NEW rs \in Seq(Row), Grouped(rs), NEW o \in Nat, NEW l \in Nat, NEW m,
           ReadsTo(rs, o, l, m), NEW i \in 1 .. Len(rs), NEW k \in 1 .. l,
           o + k \in 1 .. Met(rs), rs[i].entry = Order(rs)[o + k]
    PROVE  i <= m
  <1>1. Met(rs) \in Nat /\ Len(rs) \in Nat /\ DOMAIN rs = 1 .. Len(rs) /\ m \in 0 .. Len(rs)
    BY OrderFacts, FirstsFacts DEF ReadsTo
  <1>2. SUFFICES ASSUME ~(i <= m)
                 PROVE  FALSE
    OBVIOUS
  <1>3. m < Len(rs)
    BY <1>1, <1>2
  <1> DEFINE j == o + l + 1
             q == Place(rs, j)
             p == Place(rs, o + k)
  <1>4. j \in 1 .. Met(rs) /\ q <= m + 1 /\ o + k < j
    BY <1>1, <1>3 DEF ReadsTo, Place
  <1>5. q \in 1 .. Len(rs) /\ rs[q].entry = Order(rs)[j]
    BY <1>4, PlaceFacts
  <1>6. p \in 1 .. Len(rs) /\ rs[p].entry = Order(rs)[o + k] /\ p < q
    BY <1>4, PlaceFacts
  <1> HIDE DEF q, p
  <1>7. q \in p .. i
    BY <1>1, <1>2, <1>4, <1>5, <1>6
  <1>8. rs[q].entry = rs[p].entry
    BY <1>1, <1>6, <1>7 DEF Grouped
  <1>9. Order(rs)[j] = Order(rs)[o + k]
    BY <1>5, <1>6, <1>8
  <1>10. j = o + k
    BY <1>4, <1>9, OrderFacts
  <1>11. QED
    BY <1>4, <1>10

LEMMA ScanTells ==
    ASSUME NEW b \in Branch, NEW rs \in Seq(Row), Grouped(rs), NEW o \in Nat, NEW l \in Nat,
           NEW m, NEW read, FirstRows(read, rs, m), ReadsTo(rs, o, l, m),
           NEW scan, scan = Scan(b, rs, read, Order(read), o, l),
           scan.entries = Window(Order(rs), o, l)
    PROVE  Told(b, rs, scan)
  <1> DEFINE page1 == scan.entries
             kept  == {i \in DOMAIN read : Contains(page1, read[i].entry)}
             least(e) == Min({read[i].created : i \in {j \in kept : read[j].entry = e}})
  <1>1. page1 = Window(Order(read), o, l)
    BY DEF Scan
  <1>2. scan.shown = {<<e, least(e)>> : e \in ToSet(page1)}
    BY <1>1 DEF Scan
  <1>3. \A i \in kept : read[i].avu # None => <<read[i].entry, read[i].avu>> \in scan.told
    BY <1>1 DEF Scan
  <1>4. read \in Seq(Row) /\ Len(read) = m /\ \A i \in 1 .. m : read[i] = rs[i]
    BY DEF FirstRows
  <1>5. Order(rs) \in Seq(Entry) /\ Len(Order(rs)) = Met(rs)
    BY OrderFacts
  <1>6. /\ page1 \in Seq(Entry) /\ Len(page1) \in Nat
        /\ \A k \in 1 .. Len(page1) : o + k \in 1 .. Met(rs) /\ page1[k] = Order(rs)[o + k]
    <2> DEFINE s == Order(rs)
               w == Window(s, o, l)
    <2>1. w \in Seq(Entry) /\ \A k \in 1 .. Len(w) : o + k \in 1 .. Len(s) /\ w[k] = s[o + k]
      <3>1. s \in Seq(Entry)
        BY <1>5
      <3> HIDE DEF s
      <3>2. QED
        BY <3>1, WindowFacts
    <2>2. page1 = w
      OBVIOUS
    <2> HIDE DEF w, page1
    <2>3. QED
      BY <1>5, <2>1, <2>2, LenProperties
  <1>6a. Len(page1) <= l
    <2>1. Splits(Order(rs), o, l, page1)
      BY <1>5, WindowSplits
    <2>2. QED
      BY <2>1 DEF Splits
  <1>7. DOMAIN read = 1 .. m /\ DOMAIN page1 = 1 .. Len(page1) /\ DOMAIN rs = 1 .. Len(rs)
        /\ Len(rs) \in Nat /\ m \in 0 .. Len(rs)
    BY <1>4, <1>6, LenProperties DEF FirstRows
  <1> HIDE DEF page1
  <1>8. ASSUME NEW r \in ToSet(rs), r.entry \in ToSet(page1)
        PROVE  \E i \in kept : read[i] = r
    <2>1. PICK i \in 1 .. Len(rs) : r = rs[i]
      BY <1>7 DEF ToSet
    <2>2. PICK k \in 1 .. Len(page1) : r.entry = page1[k]
      BY <1>7, <1>8 DEF ToSet
    <2>3. k \in 1 .. l /\ o + k \in 1 .. Met(rs) /\ rs[i].entry = Order(rs)[o + k]
      BY <1>6, <1>6a, <2>1, <2>2
    <2>4. i <= m
      BY <2>3, RowRead
    <2>5. i \in 1 .. m
      BY <1>7, <2>4
    <2>6. read[i] = r
      BY <1>4, <2>1, <2>5
    <2>7. Contains(page1, read[i].entry)
      BY <2>2, <2>6 DEF Contains
    <2>8. QED
      BY <1>7, <2>5, <2>6, <2>7
  <1>9. ASSUME NEW s \in scan.shown
        PROVE  s[1] \in ToSet(page1) /\ s[2] = least(s[1])
    <2> HIDE DEF least
    <2>1. PICK e \in ToSet(page1) : s = <<e, least(e)>>
      BY <1>2
    <2>2. s[1] = e /\ s[2] = least(e)
      BY <2>1
    <2>3. QED
      BY <2>2
  <1>10. ASSUME NEW r \in ToSet(rs), r.entry \in ToSet(page1), r.avu # None
         PROVE  <<r.entry, r.avu>> \in scan.told
    BY <1>3, <1>8, <1>10
  <1>11. ASSUME NEW r \in ToSet(rs), r.entry \in ToSet(page1), NEW s \in scan.shown, s[1] = r.entry
         PROVE  s[2] <= r.created
    <2> DEFINE U == {j \in kept : read[j].entry = r.entry}
               T == {read[i].created : i \in U}
    <2>1. PICK i \in kept : read[i] = r
      BY <1>8, <1>11
    <2>2. i \in U /\ U \in SUBSET DOMAIN read
      BY <2>1
    <2>3. r.created \in T
      BY <2>1, <2>2
    <2>4. s[2] = Min(T)
      BY <1>9, <1>11
    <2> HIDE DEF U
    <2>5. Min(T) <= r.created
      BY <1>4, <2>2, <2>3, CreatedLeast
    <2>6. QED
      BY <2>4, <2>5
  <1>12. QED
    BY <1>9, <1>10, <1>11 DEF Told, page1

\* Entries are of one branch.
LEMMA OneBranch ==
    ASSUME NEW b \in Branch, NEW c \in Branch, NEW e, e \in Entries[b], e \in Entries[c]
    PROVE  b = c
  BY EntryQueryPagingAssumption DEF Branch

\* What a page told before a scan, and the scan, are what it tells after it.
LEMMA JoinTells ==
    ASSUME \A x \in Branch : rows[x] \in RowsIn(x), page.entries \in Seq(Entry),
           \A s \in page.shown : s[1] \in ToSet(page.entries), Tells(rows, page),
           NEW b \in Branch, NEW scan, Told(b, rows[b], scan),
           scan.entries \in Seq(Entry), ToSet(scan.entries) \subseteq Entries[b],
           NEW p, p.entries = page.entries \o scan.entries,
           p.told = page.told \cup scan.told, p.shown = page.shown \cup scan.shown
    PROVE  Tells(rows, p)
  <1>1. ToSet(p.entries) = ToSet(page.entries) \cup ToSet(scan.entries)
    BY ToSetOfConcat
  <1>2. ASSUME NEW c \in Branch, NEW r \in ToSet(rows[c]), r.entry \in ToSet(scan.entries)
        PROVE  c = b
    <2>1. rows[c] \in RowsIn(c)
      OBVIOUS
    <2>2. DOMAIN rows[c] = 1 .. Len(rows[c]) /\ \A i \in 1 .. Len(rows[c]) : rows[c][i].entry \in Entries[c]
      BY <2>1, LenProperties DEF RowsIn
    <2>3. r.entry \in Entries[c] /\ r.entry \in Entries[b]
      BY <1>2, <2>2 DEF ToSet
    <2>4. QED
      BY <2>3, OneBranch
  <1>3. ASSUME NEW c \in Branch, NEW r \in ToSet(rows[c]), r.entry \in ToSet(p.entries), r.avu # None
        PROVE  <<r.entry, r.avu>> \in p.told
    <2>1. CASE r.entry \in ToSet(page.entries)
      BY <1>3, <2>1 DEF Tells
    <2>2. CASE r.entry \in ToSet(scan.entries)
      BY <1>2, <1>3, <2>2 DEF Told
    <2>3. QED
      BY <1>1, <1>3, <2>1, <2>2
  <1>4. ASSUME NEW c \in Branch, c = "data_objects", NEW r \in ToSet(rows[c]),
               NEW s \in p.shown, s[1] = r.entry
        PROVE  s[2] <= r.created
    <2>1. CASE s \in page.shown
      <3>1. r.entry \in ToSet(page.entries)
        BY <1>4, <2>1
      <3>2. QED
        BY <1>4, <2>1, <3>1 DEF Tells
    <2>2. CASE s \in scan.shown
      <3>1. r.entry \in ToSet(scan.entries)
        BY <1>4, <2>2 DEF Told
      <3>2. c = b
        BY <1>2, <3>1
      <3>3. QED
        BY <1>4, <2>2, <3>1, <3>2 DEF Told
    <2>3. QED
      BY <2>1, <2>2
  <1>5. QED
    BY <1>3, <1>4 DEF Tells

\* A scan that is due tells of entries of its branch.
LEMMA DueTells ==
    ASSUME PagingInv, NEW b \in Branch, pc = b, Due(b),
           NEW scan \in Scanned(b, cursor.offset[b], page.remaining)
    PROVE  /\ scan.entries \in Seq(Entry) /\ ToSet(scan.entries) \subseteq Entries[b]
           /\ \A s \in scan.shown : s[1] \in ToSet(scan.entries)
           /\ Grouped(rows[b]) => Told(b, rows[b], scan)
  <1> DEFINE o == cursor.offset[b]
             l == page.remaining
             os == Order(rows[b])
  <1>1. rows[b] \in RowsIn(b)
    BY DEF PagingInv, BuildInv
  <1>2. /\ rows[b] \in Seq(Row) /\ o \in Nat /\ l \in Nat
        /\ b = "data_objects" => o + l <= MaxInt
    BY DueFacts
  <1>3. os \in Seq(Entry) /\ \A k \in 1 .. Len(os) : os[k] \in Entries[b]
    BY <1>1, <1>2, OrderFacts, MetBound
  <1>4. scan.entries = Window(os, o, l)
    BY <1>2, ScanFacts
  <1>5. PICK m \in 0 .. Len(rows[b]), read \in Seq(Row) :
           /\ FirstRows(read, rows[b], m) /\ ReadsTo(rows[b], o, l, m)
           /\ scan = Scan(b, rows[b], read, Order(read), o, l)
    BY <1>2, ScanFacts
  <1>6. /\ scan.entries \in Seq(Entry)
        /\ \A k \in 1 .. Len(scan.entries) : o + k \in 1 .. Len(os) /\ scan.entries[k] = os[o + k]
    <2> DEFINE w == Window(os, o, l)
    <2> HIDE DEF os, o, l
    <2>1. w \in Seq(Entry) /\ \A k \in 1 .. Len(w) : o + k \in 1 .. Len(os) /\ w[k] = os[o + k]
      BY <1>2, <1>3, WindowFacts
    <2>2. scan.entries = w
      BY <1>4
    <2> HIDE DEF w
    <2>3. QED
      BY <2>1, <2>2
  <1>7. ToSet(scan.entries) \subseteq Entries[b]
    <2>1. DOMAIN scan.entries = 1 .. Len(scan.entries)
      BY <1>6, LenProperties
    <2>2. QED
      BY <1>3, <1>6, <2>1 DEF ToSet
  <1>8. ASSUME NEW s \in scan.shown
        PROVE  s[1] \in ToSet(scan.entries)
    <2> DEFINE page1 == Window(Order(read), o, l)
               kept  == {i \in DOMAIN read : Contains(page1, read[i].entry)}
               least(e) == Min({read[i].created : i \in {j \in kept : read[j].entry = e}})
    <2>1. scan.shown = {<<e, least(e)>> : e \in ToSet(page1)} /\ scan.entries = page1
      BY <1>5 DEF Scan
    <2> HIDE DEF least, page1
    <2>2. PICK e \in ToSet(scan.entries) : s = <<e, least(e)>>
      BY <2>1
    <2>3. QED
      BY <2>2
  <1>9. ASSUME Grouped(rows[b])
        PROVE  Told(b, rows[b], scan)
    BY <1>2, <1>4, <1>5, <1>9, ScanTells
  <1>10. QED
    BY <1>6, <1>7, <1>8, <1>9

\* A page that keeps its entries keeps what it tells of them.
LEMMA SameTold ==
    ASSUME Building, rows' = rows, touched' = touched, ToldInv,
           page'.entries = page.entries, page'.told = page.told, page'.shown = page.shown
    PROVE  ToldInv'
  <1>1. Tells(rows, page) => Tells(rows, page')
    BY DEF Tells
  <1>2. QED
    BY <1>1 DEF ToldInv

LEMMA ScanToldStep ==
    ASSUME PagingInv, ToldInv, NEW b \in Branch, NEW next \in {"data_objects", "peek"},
           ScanBranch(b, next)
    PROVE  ToldInv'
  <1>1. rows' = rows /\ touched' = touched /\ pc = b /\ Building
    BY DEF ScanBranch, World, Building, Branch
  <1>2. Page(page) /\ page.entries \in Seq(Entry) /\ \A x \in Branch : rows[x] \in RowsIn(x)
    BY DEF PagingInv, TypeOK, BuildInv
  <1>3. CASE ~Due(b)
    <2>1. page' = page
      BY <1>3 DEF ScanBranch
    <2>2. QED
      BY <1>1, <2>1, SameTold
  <1>4. CASE Due(b)
    <2>1. PICK scan \in Scanned(b, cursor.offset[b], page.remaining) : page' = Extend(b, scan)
      BY <1>4 DEF ScanBranch
    <2>2. /\ page'.entries = page.entries \o scan.entries
          /\ page'.told = page.told \cup scan.told /\ page'.shown = page.shown \cup scan.shown
      BY <1>2, <2>1, ExtendFields
    <2>3. /\ scan.entries \in Seq(Entry) /\ ToSet(scan.entries) \subseteq Entries[b]
          /\ \A s \in scan.shown : s[1] \in ToSet(scan.entries)
      BY <1>1, <1>4, DueTells
    <2>4. Grouped(rows[b]) => Told(b, rows[b], scan)
      BY <1>1, <1>4, DueTells
    <2>5. ToSet(page'.entries) = ToSet(page.entries) \cup ToSet(scan.entries)
      BY <1>2, <2>2, <2>3, ToSetOfConcat
    <2>6. \A s \in page.shown : s[1] \in ToSet(page.entries)
      BY <1>1 DEF ToldInv
    <2>7. \A s \in page'.shown : s[1] \in ToSet(page'.entries)
      BY <2>2, <2>3, <2>5, <2>6
    <2>8. ASSUME touched = {}, \A x \in Branch : Grouped(rows[x])
          PROVE  Tells(rows, page')
      <3>1. Tells(rows, page)
        BY <1>1, <2>8 DEF ToldInv
      <3>2. Told(b, rows[b], scan)
        BY <2>4, <2>8
      <3>3. PICK p : p = page'
        OBVIOUS
      <3>4. Tells(rows, p)
        BY <1>2, <2>2, <2>3, <2>6, <3>1, <3>2, <3>3, JoinTells
      <3>5. QED
        BY <3>3, <3>4
    <2>9. QED
      BY <1>1, <2>7, <2>8 DEF ToldInv
  <1>5. QED
    BY <1>3, <1>4

LEMMA ToldStep ==
    ASSUME PagingInv, ToldInv, [Next]_vars
    PROVE  ToldInv'
  <1>1. Page(page)
    BY DEF PagingInv, BuildInv
  <1>2. CASE Call
    <2>1. page' = NewPage \/ ~Building'
      BY <1>2 DEF Call, Goto, Building
    <2>2. ASSUME page' = NewPage
          PROVE  ToldInv'
      <3>1. page'.entries = <<>> /\ page'.shown = {}
        BY <2>2 DEF NewPage
      <3>2. ToSet(page'.entries) = {}
        BY <3>1 DEF ToSet
      <3>3. Tells(rows', page')
        BY <3>2 DEF Tells
      <3>4. QED
        BY <3>1, <3>3 DEF ToldInv
    <2>3. QED
      BY <2>1, <2>2 DEF ToldInv
  <1>3. CASE ScanBranch("collections", "data_objects")
    BY <1>3, ScanToldStep DEF Branch
  <1>4. CASE ScanBranch("data_objects", "peek")
    BY <1>4, ScanToldStep DEF Branch
  <1>5. CASE Peek
    <2>1. rows' = rows /\ touched' = touched /\ Building
      BY <1>5 DEF Peek, World, Building
    <2>2. page' = page \/ \E scan : page' = Peeked(scan)
      BY <1>5 DEF Peek
    <2>3. page'.entries = page.entries /\ page'.told = page.told /\ page'.shown = page.shown
      BY <1>1, <2>2, PeekedFields
    <2>4. QED
      BY <2>1, <2>3, SameTold
  <1>6. ASSUME NEW stage \in {"count", "count_objects"}, NEW b, NEW next, CountBranch(stage, b, next)
        PROVE  ToldInv'
    <2>1. rows' = rows /\ touched' = touched /\ Building
      BY <1>6 DEF CountBranch, World, Building
    <2>2. PICK n : n = IF Enabled(b) THEN Count(b, rows[b]) ELSE 0
      OBVIOUS
    <2>3. page' = [page EXCEPT !.totals[b] = n]
      BY <1>6, <2>2 DEF CountBranch
    <2>4. Counted(page', b, n)
      BY <1>1, <2>3, CountFields
    <2>5. QED
      BY <2>1, <2>4, SameTold DEF Counted
  <1>7. CASE Refuse \/ Return \/ Fail
    <2>1. ~Building'
      BY <1>7 DEF Refuse, Return, Fail, Goto, Building
    <2>2. QED
      BY <2>1 DEF ToldInv
  <1>8. ASSUME NEW b \in Branch, Insert(b) \/ Delete(b) \/ Reorder(b)
        PROVE  ToldInv'
    <2>1. touched' # {} /\ page' = page /\ pc' = pc
      BY <1>8 DEF Insert, Delete, Reorder, Change
    <2>2. QED
      BY <2>1 DEF ToldInv, Building
  <1>9. CASE UNCHANGED vars
    <2>1. CASE Building
      BY <1>9, <2>1, SameTold DEF vars
    <2>2. CASE ~Building
      BY <1>9, <2>2 DEF ToldInv, Building, vars
    <2>3. QED
      BY <2>1, <2>2
  <1>10. QED
    BY <1>2, <1>3, <1>4, <1>5, <1>6, <1>7, <1>8, <1>9 DEF Next, Step

\* When the server returns the rows of an entry together, a page of QueryEntries
\* tells all the matched AVUs of its entries and shows their oldest replicas,
\* wherever between two rows a scan stopped to read.
THEOREM MatchesAreTold == Spec => []MatchesTold
  <1>1. Init => ToldInv
    BY DEF Init, ToldInv, Building
  <1>2. ReadingInv /\ ToldInv /\ [Next]_vars => ToldInv'
    BY ToldStep DEF ReadingInv
  <1>3. ToldInv => MatchesTold
    BY DEF ToldInv, MatchesTold, Tells, Quiet, Building
  <1>4. Spec => []ToldInv
    BY <1>1, <1>2, ReadingHolds, PTL DEF Spec
  <1>5. QED
    BY <1>3, <1>4, PTL
=============================================================================
