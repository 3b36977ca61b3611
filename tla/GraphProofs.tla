------------------------------ MODULE GraphProofs ------------------------------
(***************************************************************************)
(* Proofs about the scene graph and the two modules that change it:        *)
(* SceneControl, for any ids, filters and depths and any number of calls,  *)
(* and Configuration, for any outputs and canvases, calls and crashes.     *)
(*                                                                         *)
(* What both rest on comes first: an array listed in an order keeps its    *)
(* items and takes the order, tables, and what each of the graph's         *)
(* operations keeps.                                                       *)
(***************************************************************************)
EXTENDS SceneControl, Configuration, SequenceTheorems, FiniteSetTheorems,
        WellFoundedInduction, TLAPS

-----------------------------------------------------------------------------
(* Arrays in an order.                                                     *)

IsOrder(R, D) ==
    /\ \A i \in D : <<i, i>> \in R
    /\ \A i, j \in D : <<i, j>> \in R \/ <<j, i>> \in R
    /\ \A i, j \in D : <<i, j>> \in R /\ <<j, i>> \in R => i = j
    /\ \A i, j, k \in D : <<i, j>> \in R /\ <<j, k>> \in R => <<i, k>> \in R

\* A place is one of as many as there are elements, and places follow the order.
LEMMA PlaceFollows ==
    ASSUME NEW D, IsFiniteSet(D), NEW R, IsOrder(R, D)
    PROVE  /\ Cardinality(D) \in Nat
           /\ \A i \in D : Place(D, R, i) \in 1 .. Cardinality(D)
           /\ \A i, j \in D : i # j /\ <<i, j>> \in R => Place(D, R, i) < Place(D, R, j)
  <1> DEFINE Upto(i) == {j \in D : <<j, i>> \in R}
  <1>1. \A i \in D : Place(D, R, i) = Cardinality(Upto(i))
    BY DEF Place
  <1>2. Cardinality(D) \in Nat
    BY FS_CardinalityType
  <1>3. \A i \in D : Upto(i) \in SUBSET D /\ i \in Upto(i)
    BY DEF IsOrder
  <1>4. \A i \in D : IsFiniteSet(Upto(i)) /\ Cardinality(Upto(i)) \in Nat
                     /\ Cardinality(Upto(i)) <= Cardinality(D)
    BY <1>3, FS_Subset, FS_CardinalityType
  <1>5. \A i \in D : Cardinality(Upto(i)) # 0
    BY <1>3, <1>4, FS_EmptySet
  <1>6. ASSUME NEW i \in D, NEW j \in D, i # j, <<i, j>> \in R
        PROVE  Cardinality(Upto(i)) < Cardinality(Upto(j))
    <2>1. Upto(i) \in SUBSET Upto(j)
      BY <1>6 DEF IsOrder
    <2>2. j \in Upto(j) /\ j \notin Upto(i)
      BY <1>6 DEF IsOrder
    <2>3. Cardinality(Upto(i)) <= Cardinality(Upto(j))
          /\ Cardinality(Upto(j)) # Cardinality(Upto(i))
      <3> HIDE DEF Upto
      <3> QED BY <2>1, <2>2, <1>4, FS_Subset
    <2> QED
      BY <2>3, <1>4
  <1> HIDE DEF Upto
  <1> QED
    BY <1>1, <1>2, <1>4, <1>5, <1>6

\* Every place is taken.
LEMMA PlaceTaken ==
    ASSUME NEW D, IsFiniteSet(D), NEW R, IsOrder(R, D), NEW k \in 1 .. Cardinality(D)
    PROVE  \E i \in D : Place(D, R, i) = k
  <1> DEFINE f == [i \in D |-> Place(D, R, i)]
             T == 1 .. Cardinality(D)
  <1>1. f \in Injection(D, T)
    <2>1. f \in [D -> T]
      BY PlaceFollows
    <2>2. \A i, j \in D : f[i] = f[j] => i = j
      <3> SUFFICES ASSUME NEW i \in D, NEW j \in D, f[i] = f[j], i # j PROVE FALSE
        OBVIOUS
      <3>1. <<i, j>> \in R \/ <<j, i>> \in R
        BY DEF IsOrder
      <3>2. Place(D, R, i) \in Nat /\ Place(D, R, j) \in Nat /\ Place(D, R, i) = Place(D, R, j)
        BY PlaceFollows
      <3> QED
        BY <3>1, <3>2, PlaceFollows
    <2> QED
      BY <2>1, <2>2 DEF Injection, IsInjective
  <1>2. IsFiniteSet(T) /\ Cardinality(T) = Cardinality(D)
    BY PlaceFollows, FS_Interval
  <1>3. f \in Surjection(D, T)
    <2> HIDE DEF f, T
    <2> QED BY <1>1, <1>2, FS_Injection
  <1> QED
    BY <1>3 DEF Surjection

\* An array listed in an order: the elements of D, each once, in the order.
LEMMA ListedIs ==
    ASSUME NEW T, NEW s \in Seq(T), NEW D \in SUBSET (DOMAIN s), NEW R, IsOrder(R, D)
    PROVE  /\ Cardinality(D) \in Nat
           /\ Listed(s, D, R) \in Seq(T)
           /\ DOMAIN Listed(s, D, R) = 1 .. Cardinality(D)
           /\ \E at \in [1 .. Cardinality(D) -> D] :
                 /\ \A k \in 1 .. Cardinality(D) :
                       Listed(s, D, R)[k] = s[at[k]] /\ Place(D, R, at[k]) = k
                 /\ \A k, l \in 1 .. Cardinality(D) :
                       k < l => at[k] # at[l] /\ <<at[k], at[l]>> \in R
                 /\ \A i \in D : \E k \in 1 .. Cardinality(D) : at[k] = i
  <1> DEFINE n == Cardinality(D)
             at == [k \in 1 .. n |-> CHOOSE i \in D : Place(D, R, i) = k]
  <1>1. IsFiniteSet(D) /\ n \in Nat
    <2>1. DOMAIN s = 1 .. Len(s) /\ Len(s) \in Nat
      OBVIOUS
    <2>2. IsFiniteSet(DOMAIN s)
      BY <2>1, FS_Interval
    <2> QED
      BY <2>2, FS_Subset, FS_CardinalityType
  <1>2. \A k \in 1 .. n : at[k] \in D /\ Place(D, R, at[k]) = k
    BY <1>1, PlaceTaken
  <1>3. Listed(s, D, R) = [k \in 1 .. n |-> s[at[k]]]
    BY DEF Listed
  <1>6. at \in [1 .. n -> D]
    BY <1>2
  <1> HIDE DEF at
  <1>4. ASSUME NEW k \in 1 .. n, NEW l \in 1 .. n, k < l
        PROVE  at[k] # at[l] /\ <<at[k], at[l]>> \in R
    <2>1. at[k] \in D /\ at[l] \in D /\ Place(D, R, at[k]) = k /\ Place(D, R, at[l]) = l
      BY <1>2
    <2>2. at[k] # at[l]
      BY <2>1, <1>4
    <2>3. <<at[l], at[k]>> \in R => l < k
      BY <2>1, <2>2, <1>1, PlaceFollows
    <2> QED
      BY <2>1, <2>2, <2>3, <1>1, <1>4 DEF IsOrder
  <1>5. ASSUME NEW i \in D
        PROVE  \E k \in 1 .. n : at[k] = i
    <2>1. Place(D, R, i) \in 1 .. n
      BY <1>1, PlaceFollows
    <2> DEFINE k == Place(D, R, i)
    <2>2. at[k] \in D /\ Place(D, R, at[k]) = k
      BY <1>2, <2>1
    <2>3. at[k] = i
      <3> SUFFICES ASSUME at[k] # i PROVE FALSE
        OBVIOUS
      <3>1. <<at[k], i>> \in R \/ <<i, at[k]>> \in R
        BY <2>2 DEF IsOrder
      <3>2. Place(D, R, at[k]) < Place(D, R, i) \/ Place(D, R, i) < Place(D, R, at[k])
        BY <3>1, <2>2, <1>1, PlaceFollows
      <3> QED
        BY <3>2, <2>1, <2>2, <1>1
    <2> QED
      BY <2>1, <2>3
  <1>7. Listed(s, D, R) \in Seq(T)
    <2>1. \A k \in 1 .. n : s[at[k]] \in T
      BY <1>6
    <2> QED
      BY <2>1, <1>1, <1>3, IsASeq
  <1>8. \A k \in 1 .. n : Listed(s, D, R)[k] = s[at[k]]
    BY <1>3
  <1> QED
    BY <1>1, <1>2, <1>3, <1>4, <1>5, <1>6, <1>7, <1>8

-----------------------------------------------------------------------------
(* The items of a scene.                                                   *)

ItemRec == [id : Item \cup {AutoId}, src : Source, z : Int,
            shown : BOOLEAN, audio : AudioBinding]
Items == Seq(ItemRec)

\* Every item of t is one of s.
From(t, s) == \A k \in DOMAIN t : \E i \in DOMAIN s : t[k] = s[i]

LEMMA ItemFacts ==
    /\ \A it \in ItemRec : it.id \in Int /\ it.z \in Int /\ it.src \in Source
    /\ \A s \in Items : DOMAIN s = 1 .. Len(s) /\ Len(s) \in Nat /\ \A i \in DOMAIN s : s[i] \in ItemRec
  <1>3. Item \subseteq Int /\ AutoId \in Int
    BY ItemAssumption DEF ItemAssumption, AutoId
  <1>1. \A it \in ItemRec : it.id \in Int /\ it.z \in Int /\ it.src \in Source
    BY <1>3 DEF ItemRec
  <1>2. \A s \in Items : DOMAIN s = 1 .. Len(s) /\ Len(s) \in Nat /\ \A i \in DOMAIN s : s[i] \in ItemRec
    BY DEF Items
  <1> QED
    BY <1>1, <1>2

LEMMA Orders2 ==
    ASSUME NEW s \in Items, NEW D \in SUBSET (DOMAIN s)
    PROVE  IsOrder(SortOrder(s), D) /\ IsOrder(ArrayOrder(s), D)
  <1>1. \A i \in D : i \in DOMAIN s /\ i \in Int /\ s[i].z \in Int /\ s[i].id \in Int
    BY ItemFacts
  <1>2. \A i, j \in D : <<i, j>> \in ArrayOrder(s) <=> i <= j
    BY DEF ArrayOrder
  <1>3. IsOrder(ArrayOrder(s), D)
    BY <1>1, <1>2 DEF IsOrder
  <1>4. \A i, j \in D : <<i, j>> \in SortOrder(s) <=>
            ItemBefore(s[i], s[j]) \/ (~ ItemBefore(s[j], s[i]) /\ i <= j)
    BY DEF SortOrder
  <1>5. \A i, j \in D : <<i, j>> \in SortOrder(s) <=>
            \/ s[i].z < s[j].z
            \/ s[i].z = s[j].z /\ s[i].id < s[j].id
            \/ s[i].z = s[j].z /\ s[i].id = s[j].id /\ i <= j
    <2> SUFFICES ASSUME NEW i \in D, NEW j \in D
                 PROVE  <<i, j>> \in SortOrder(s) <=>
                            \/ s[i].z < s[j].z
                            \/ s[i].z = s[j].z /\ s[i].id < s[j].id
                            \/ s[i].z = s[j].z /\ s[i].id = s[j].id /\ i <= j
      OBVIOUS
    <2>1. s[i].z \in Int /\ s[j].z \in Int /\ s[i].id \in Int /\ s[j].id \in Int
      BY <1>1
    <2>2. <<i, j>> \in SortOrder(s) <=>
              ItemBefore(s[i], s[j]) \/ (~ ItemBefore(s[j], s[i]) /\ i <= j)
      BY <1>4
    <2> QED
      BY <2>1, <2>2 DEF ItemBefore
  <1>6. IsOrder(SortOrder(s), D)
    BY <1>1, <1>5 DEF IsOrder
  <1> QED
    BY <1>3, <1>6

LEMMA Sorts ==
    ASSUME NEW s \in Items, NEW D \in SUBSET (DOMAIN s)
    PROVE  /\ Listed(s, D, SortOrder(s)) \in Items
           /\ ItemsSorted(Listed(s, D, SortOrder(s)))
           /\ From(Listed(s, D, SortOrder(s)), s)
  <1> DEFINE t == Listed(s, D, SortOrder(s))
             n == Cardinality(D)
  <1>1. /\ n \in Nat /\ t \in Items /\ DOMAIN t = 1 .. n
        /\ \E at \in [1 .. n -> D] :
              /\ \A k \in 1 .. n : t[k] = s[at[k]]
              /\ \A k, l \in 1 .. n : k < l => at[k] # at[l] /\ <<at[k], at[l]>> \in SortOrder(s)
    <2>1. IsOrder(SortOrder(s), D)
      BY Orders2
    <2> QED
      BY <2>1, ListedIs DEF Items
  <1>2. PICK at \in [1 .. n -> D] :
              /\ \A k \in 1 .. n : t[k] = s[at[k]]
              /\ \A k, l \in 1 .. n : k < l => at[k] # at[l] /\ <<at[k], at[l]>> \in SortOrder(s)
    BY <1>1
  <1> HIDE DEF t
  <1>3. From(t, s)
    BY <1>1, <1>2 DEF From
  <1>4. ItemsSorted(t)
    <2> SUFFICES ASSUME NEW k \in 1 .. n, NEW l \in 1 .. n, k < l
                 PROVE  ~ ItemBefore(t[l], t[k])
      BY <1>1, ItemFacts DEF ItemsSorted
    <2>1. at[k] \in DOMAIN s /\ at[l] \in DOMAIN s /\ <<at[k], at[l]>> \in SortOrder(s)
      BY <1>2
    <2>2. ItemBefore(s[at[k]], s[at[l]]) \/ ~ ItemBefore(s[at[l]], s[at[k]])
      BY <2>1 DEF SortOrder
    <2>3. s[at[k]] \in ItemRec /\ s[at[l]] \in ItemRec
      BY <2>1, ItemFacts
    <2>4. ~ ItemBefore(s[at[l]], s[at[k]])
      BY <2>2, <2>3, ItemFacts DEF ItemBefore
    <2> QED
      BY <1>2, <2>4
  <1> QED
    BY <1>1, <1>3, <1>4 DEF t

LEMMA SortsAll ==
    ASSUME NEW s \in Items
    PROVE  SortItems(s) \in Items /\ ItemsSorted(SortItems(s)) /\ From(SortItems(s), s)
  BY Sorts DEF SortItems

\* A part of an array, in its order, is sorted if the array is.
LEMMA PartSorted ==
    ASSUME NEW s \in Items, ItemsSorted(s), NEW t \in Items,
           NEW at \in [1 .. Len(t) -> DOMAIN s],
           \A k \in 1 .. Len(t) : t[k] = s[at[k]],
           \A k, l \in 1 .. Len(t) : k < l => at[k] < at[l]
    PROVE  ItemsSorted(t)
  <1> SUFFICES ASSUME NEW k \in 1 .. Len(t), NEW l \in 1 .. Len(t), k < l
               PROVE  ~ ItemBefore(t[l], t[k])
    BY DEF ItemsSorted
  <1>1. at[k] \in 1 .. Len(s) /\ at[l] \in 1 .. Len(s) /\ at[k] < at[l]
    BY ItemFacts
  <1>2. ~ ItemBefore(s[at[l]], s[at[k]])
    BY <1>1 DEF ItemsSorted
  <1> QED
    BY <1>2

LEMMA Without ==
    ASSUME NEW s \in Items, NEW src
    PROVE  /\ WithoutSource(s, src) \in Items
           /\ ItemsSorted(s) => ItemsSorted(WithoutSource(s, src))
           /\ From(WithoutSource(s, src), s)
           /\ \A k \in DOMAIN WithoutSource(s, src) : WithoutSource(s, src)[k].src # src
  <1> DEFINE t == WithoutSource(s, src)
             D == {i \in DOMAIN s : s[i].src # src}
             n == Cardinality(D)
  <1>1. /\ n \in Nat /\ t \in Items /\ DOMAIN t = 1 .. n
        /\ \E at \in [1 .. n -> D] :
              /\ \A k \in 1 .. n : t[k] = s[at[k]]
              /\ \A k, l \in 1 .. n : k < l => at[k] # at[l] /\ <<at[k], at[l]>> \in ArrayOrder(s)
    <2>1. IsOrder(ArrayOrder(s), D) /\ D \in SUBSET (DOMAIN s)
      BY Orders2
    <2>2. t = Listed(s, D, ArrayOrder(s))
      BY DEF WithoutSource
    <2> HIDE DEF t, D
    <2> QED
      BY <2>1, <2>2, ListedIs DEF Items
  <1>2. PICK at \in [1 .. n -> D] :
              /\ \A k \in 1 .. n : t[k] = s[at[k]]
              /\ \A k, l \in 1 .. n : k < l => at[k] # at[l] /\ <<at[k], at[l]>> \in ArrayOrder(s)
    BY <1>1
  <1>3. Len(t) = n
    BY <1>1, ItemFacts
  <1>4. \A k \in 1 .. n : at[k] \in DOMAIN s /\ s[at[k]].src # src
    BY <1>2
  <1>5. \A k, l \in 1 .. n : k < l => at[k] < at[l]
    <2> SUFFICES ASSUME NEW k \in 1 .. n, NEW l \in 1 .. n, k < l PROVE at[k] < at[l]
      OBVIOUS
    <2>1. at[k] # at[l] /\ <<at[k], at[l]>> \in ArrayOrder(s)
      BY <1>2
    <2>2. at[k] <= at[l] /\ at[k] \in Int /\ at[l] \in Int
      BY <2>1, <1>4, ItemFacts DEF ArrayOrder
    <2> QED
      BY <2>1, <2>2
  <1>6. at \in [1 .. n -> DOMAIN s]
    BY <1>4, <1>2
  <1> HIDE DEF t, D
  <1>7. ItemsSorted(s) => ItemsSorted(t)
    BY <1>1, <1>2, <1>3, <1>5, <1>6, PartSorted
  <1> QED
    BY <1>1, <1>2, <1>4, <1>7 DEF From, t

LEMMA Removed ==
    ASSUME NEW s \in Items, NEW n \in DOMAIN s
    PROVE  /\ RemoveAt(s, n) \in Items
           /\ ItemsSorted(s) => ItemsSorted(RemoveAt(s, n))
           /\ From(RemoveAt(s, n), s)
  <1> DEFINE t == RemoveAt(s, n)
             a == SubSeq(s, 1, n - 1)
             b == SubSeq(s, n + 1, Len(s))
             m == Len(s) - 1
             at == [k \in 1 .. m |-> IF k < n THEN k ELSE k + 1]
  <1>1. Len(s) \in Nat /\ n \in 1 .. Len(s) /\ m \in Nat
    BY ItemFacts
  <1>2. /\ a \in Items /\ Len(a) = n - 1 /\ \A k \in 1 .. n - 1 : a[k] = s[k]
        /\ b \in Items /\ Len(b) = m - n + 1 /\ \A k \in 1 .. m - n + 1 : b[k] = s[n + k]
    BY <1>1 DEF Items
  <1>8. t = a \o b
    BY DEF RemoveAt
  <1> HIDE DEF t, a, b
  <1>9. a \in Seq(ItemRec) /\ b \in Seq(ItemRec)
    BY <1>2 DEF Items
  <1>3. t \in Items /\ Len(t) = m
    BY <1>1, <1>2, <1>8, <1>9 DEF Items
  <1>4. \A k \in 1 .. m : t[k] = s[at[k]]
    <2> SUFFICES ASSUME NEW k \in 1 .. m PROVE t[k] = s[at[k]]
      OBVIOUS
    <2>1. CASE k < n
      <3>1. t[k] = a[k] /\ at[k] = k /\ k \in 1 .. n - 1
        BY <2>1, <1>1, <1>2, <1>8, <1>9
      <3> QED
        BY <3>1, <1>2
    <2>2. CASE ~ (k < n)
      <3> DEFINE l == k - n + 1
      <3>2. Len(a) = n - 1 /\ Len(b) = m - n + 1 /\ k \in Nat /\ n \in Nat /\ k <= m /\ n <= k
        BY <2>2, <1>1, <1>2
      <3>3. k \in 1 .. Len(a) + Len(b) /\ ~ (k <= Len(a)) /\ k - Len(a) = l
        BY <3>2, <1>1
      <3>4. t[k] = b[k - Len(a)]
        BY <3>3, <1>8, <1>9
      <3>5. l \in 1 .. m - n + 1 /\ k + 1 = n + l
        BY <3>2, <1>1
      <3>6. at[k] = k + 1
        BY <2>2
      <3>1. t[k] = b[l] /\ at[k] = n + l
        <4> HIDE DEF l
        <4> QED BY <3>3, <3>4, <3>5, <3>6
      <3> QED
        BY <3>1, <3>5, <1>2
    <2> QED
      BY <2>1, <2>2
  <1>5. at \in [1 .. m -> DOMAIN s] /\ \A k, l \in 1 .. m : k < l => at[k] < at[l]
    BY <1>1, ItemFacts
  <1> HIDE DEF at, m
  <1>6. ItemsSorted(s) => ItemsSorted(t)
    BY <1>3, <1>4, <1>5, PartSorted
  <1>7. From(t, s)
    BY <1>3, <1>4, <1>5, ItemFacts DEF From
  <1> QED
    BY <1>3, <1>6, <1>7 DEF t

-----------------------------------------------------------------------------
(* Tables.                                                                 *)

Table(K, V) == UNION {[D -> V] : D \in SUBSET K}

LEMMA TableIs ==
    ASSUME NEW K, NEW V, NEW f
    PROVE  f \in Table(K, V) <=> DOMAIN f \in SUBSET K /\ f \in [DOMAIN f -> V]
  BY DEF Table

LEMMA TableAt ==
    ASSUME NEW K, NEW V, NEW f \in Table(K, V)
    PROVE  \A x \in DOMAIN f : f[x] \in V /\ x \in K
  BY TableIs

LEMMA TablePut ==
    ASSUME NEW K, NEW V, NEW f \in Table(K, V), NEW x \in K, NEW v \in V
    PROVE  Put(f, x, v) \in Table(K, V)
  <1>1. DOMAIN f \in SUBSET K /\ f \in [DOMAIN f -> V]
    BY TableIs
  <1>2. Put(f, x, v) \in [DOMAIN f \cup {x} -> V]
    BY <1>1 DEF Put
  <1>3. DOMAIN Put(f, x, v) = DOMAIN f \cup {x}
    BY DEF Put
  <1> QED
    BY <1>1, <1>2, <1>3, TableIs

LEMMA DropIs ==
    ASSUME NEW f, NEW x
    PROVE  /\ DOMAIN Drop(f, x) = DOMAIN f \ {x}
           /\ \A y \in DOMAIN f \ {x} : Drop(f, x)[y] = f[y]
  BY DEF Drop, Restrict

LEMMA TableDrop ==
    ASSUME NEW K, NEW V, NEW f \in Table(K, V), NEW x
    PROVE  Drop(f, x) \in Table(K, V)
  <1>1. DOMAIN f \in SUBSET K /\ f \in [DOMAIN f -> V]
    BY TableIs
  <1>2. Drop(f, x) \in [DOMAIN f \ {x} -> V]
    BY <1>1 DEF Drop, Restrict
  <1> QED
    BY <1>1, <1>2, DropIs, TableIs

LEMMA TableSet ==
    ASSUME NEW K, NEW V, NEW f \in Table(K, V), NEW x \in DOMAIN f, NEW v \in V
    PROVE  /\ [f EXCEPT ![x] = v] \in Table(K, V)
           /\ DOMAIN [f EXCEPT ![x] = v] = DOMAIN f
           /\ [f EXCEPT ![x] = v][x] = v
           /\ \A y \in DOMAIN f \ {x} : [f EXCEPT ![x] = v][y] = f[y]
  <1>1. DOMAIN f \in SUBSET K /\ f \in [DOMAIN f -> V]
    BY TableIs
  <1>2. DOMAIN [f EXCEPT ![x] = v] = DOMAIN f /\ [f EXCEPT ![x] = v] \in [DOMAIN f -> V]
    BY <1>1
  <1>3. /\ [f EXCEPT ![x] = v][x] = v
        /\ \A y \in DOMAIN f \ {x} : [f EXCEPT ![x] = v][y] = f[y]
    BY <1>1
  <1> QED
    BY <1>1, <1>2, <1>3, TableIs

LEMMA NoEntriesIs ==
    ASSUME NEW K, NEW V
    PROVE  NoEntries \in Table(K, V) /\ DOMAIN NoEntries = {}
  BY TableIs DEF NoEntries

-----------------------------------------------------------------------------
(* The graph and its operations.                                           *)

Filters == Table(Filter, BOOLEAN)
SourceRec == [kind : Kinds, enabled : BOOLEAN, keep : BOOLEAN, filters : Filters,
              audio : AudioBinding, running : BOOLEAN, muted : BOOLEAN]
SceneRec == [items : Items, filters : Filters]
OutputRec == [codec : Codec \cup {NONE}, auto : BOOLEAN, running : BOOLEAN]
RuntimeRec == [from : Scene \cup {NONE}, to : Scene \cup {NONE},
               id : Transition \cup {NONE}, active : BOOLEAN]
GraphRec ==
    [sources : Table(Source, SourceRec), scenes : Table(Scene, SceneRec),
     outputs : Table(Output, OutputRec), transitions : [Transition -> Duration],
     active : Scene \cup {NONE}, preview : Scene \cup {NONE},
     deflt : Transition \cup {NONE}, runtime : RuntimeRec, canvas : Canvas \cup {NONE}]

\* No item of any scene shows a source.
NoRefs(g, s) ==
    \A sc \in DOMAIN g.scenes : \A i \in DOMAIN g.scenes[sc].items :
        g.scenes[sc].items[i].src # s

LEMMA RefsEmpty ==
    ASSUME NEW g, NEW s
    PROVE  SourceRefs(g, s) = {} <=> NoRefs(g, s)
  <1>1. \A r : r \in SourceRefs(g, s) <=>
            \E sc \in DOMAIN g.scenes : \E i \in DOMAIN g.scenes[sc].items :
                r = <<sc, i>> /\ g.scenes[sc].items[i].src = s
    BY DEF SourceRefs
  <1> QED
    BY <1>1 DEF NoRefs

\* The parts of GraphSound, of any graph and any set of torn scenes.
ItemsKnown(g) ==
    \A sc \in DOMAIN g.scenes : \A i \in DOMAIN g.scenes[sc].items :
        g.scenes[sc].items[i].src \in DOMAIN g.sources
ScenesKnown(g) ==
    /\ g.active = NONE <=> DOMAIN g.scenes = {}
    /\ g.active # NONE => g.active \in DOMAIN g.scenes
    /\ g.preview # NONE => g.preview \in DOMAIN g.scenes
InOrder(g, t) == \A sc \in DOMAIN g.scenes \ t : ItemsSorted(g.scenes[sc].items)
Sound(g, t) == ItemsKnown(g) /\ ScenesKnown(g) /\ InOrder(g, t)

LEMMA GraphFacts ==
    ASSUME NEW g \in GraphRec
    PROVE  /\ g.sources \in Table(Source, SourceRec) /\ g.scenes \in Table(Scene, SceneRec)
           /\ g.outputs \in Table(Output, OutputRec)
           /\ \A s \in DOMAIN g.sources : s \in Source /\ g.sources[s] \in SourceRec
           /\ \A sc \in DOMAIN g.scenes :
                 sc \in Scene /\ g.scenes[sc] \in SceneRec /\ g.scenes[sc].items \in Items
           /\ \A o \in DOMAIN g.outputs : o \in Output /\ g.outputs[o] \in OutputRec
  <1>1. /\ g.sources \in Table(Source, SourceRec) /\ g.scenes \in Table(Scene, SceneRec)
        /\ g.outputs \in Table(Output, OutputRec)
    BY DEF GraphRec
  <1>2. \A x \in SceneRec : x.items \in Items
    BY DEF SceneRec
  <1> QED
    BY <1>1, <1>2, TableAt

\* Only the sources, the scenes or what is chosen of them differ.
SameScenes(g, h) == h.scenes = g.scenes
SameSources(g, h) == h.sources = g.sources
SameChoice(g, h) == h.active = g.active /\ h.preview = g.preview /\ h.runtime = g.runtime

\* h is g with source s as r.
SetsSource(g, h, s, r) ==
    /\ h \in GraphRec /\ SameScenes(g, h) /\ SameChoice(g, h)
    /\ DOMAIN h.sources = DOMAIN g.sources \cup {s}
    /\ h.sources[s] = r
    /\ \A x \in DOMAIN g.sources \ {s} : h.sources[x] = g.sources[x]

LEMMA SourcePut ==
    ASSUME NEW g \in GraphRec, NEW s \in Source, NEW r \in SourceRec
    PROVE  SetsSource(g, [g EXCEPT !.sources = Put(@, s, r)], s, r)
  <1> DEFINE f == Put(g.sources, s, r)
             h == [g EXCEPT !.sources = f]
  <1>1. /\ f \in Table(Source, SourceRec) /\ DOMAIN f = DOMAIN g.sources \cup {s}
        /\ f[s] = r /\ \A x \in DOMAIN g.sources \ {s} : f[x] = g.sources[x]
    <2>1. g.sources \in Table(Source, SourceRec)
      BY GraphFacts
    <2>2. f \in Table(Source, SourceRec)
      BY <2>1, TablePut
    <2>3. DOMAIN f = DOMAIN g.sources \cup {s} /\ f[s] = r
          /\ \A x \in DOMAIN g.sources \ {s} : f[x] = g.sources[x]
      BY DEF Put
    <2> QED
      BY <2>2, <2>3
  <1>2. h.sources = f /\ h.scenes = g.scenes /\ SameChoice(g, h)
    BY DEF GraphRec, SameChoice
  <1>3. h \in GraphRec
    <2> HIDE DEF f
    <2> QED BY <1>1 DEF GraphRec
  <1>4. h = [g EXCEPT !.sources = Put(@, s, r)]
    OBVIOUS
  <1> HIDE DEF f, h
  <1> QED
    BY <1>1, <1>2, <1>3, <1>4 DEF SetsSource, SameScenes

LEMMA SourceSet ==
    ASSUME NEW g \in GraphRec, NEW s \in DOMAIN g.sources, NEW r \in SourceRec
    PROVE  SetsSource(g, [g EXCEPT !.sources[s] = r], s, r)
  <1> DEFINE f == [g.sources EXCEPT ![s] = r]
             h == [g EXCEPT !.sources = f]
  <1>1. /\ f \in Table(Source, SourceRec) /\ DOMAIN f = DOMAIN g.sources
        /\ f[s] = r /\ \A x \in DOMAIN g.sources \ {s} : f[x] = g.sources[x]
    BY GraphFacts, TableSet
  <1>2. h.sources = f /\ h.scenes = g.scenes /\ SameChoice(g, h)
    BY DEF GraphRec, SameChoice
  <1>3. h \in GraphRec
    <2> HIDE DEF f
    <2> QED BY <1>1 DEF GraphRec
  <1>4. h = [g EXCEPT !.sources[s] = r]
    BY DEF GraphRec
  <1> HIDE DEF f, h
  <1> QED
    BY <1>1, <1>2, <1>3, <1>4 DEF SetsSource, SameScenes

\* The changes that are made of a source's state.
LEMMA SourceSets ==
    ASSUME NEW g \in GraphRec, NEW s \in DOMAIN g.sources, NEW b \in BOOLEAN,
           NEW c \in BOOLEAN, NEW fs \in Filters
    PROVE  /\ SetsSource(g, [g EXCEPT !.sources[s].running = b], s, [g.sources[s] EXCEPT !.running = b])
           /\ SetsSource(g, [g EXCEPT !.sources[s].muted = b], s, [g.sources[s] EXCEPT !.muted = b])
           /\ SetsSource(g, [g EXCEPT !.sources[s].filters = fs], s, [g.sources[s] EXCEPT !.filters = fs])
           /\ SetsSource(g, UpdateSource(g, s, b, c), s,
                         [g.sources[s] EXCEPT !.enabled = b, !.keep = c])
  <1> DEFINE r == g.sources[s]
  <1>1. r \in SourceRec
    BY GraphFacts
  <1>2. /\ [r EXCEPT !.running = b] \in SourceRec
        /\ [r EXCEPT !.muted = b] \in SourceRec /\ [r EXCEPT !.filters = fs] \in SourceRec
        /\ [r EXCEPT !.enabled = b, !.keep = c] \in SourceRec
    BY <1>1 DEF SourceRec
  <1>3. /\ [g EXCEPT !.sources[s].running = b] = [g EXCEPT !.sources[s] = [r EXCEPT !.running = b]]
        /\ [g EXCEPT !.sources[s].muted = b] = [g EXCEPT !.sources[s] = [r EXCEPT !.muted = b]]
        /\ [g EXCEPT !.sources[s].filters = fs] = [g EXCEPT !.sources[s] = [r EXCEPT !.filters = fs]]
    BY DEF GraphRec
  <1>4. UpdateSource(g, s, b, c) = [g EXCEPT !.sources[s] = [r EXCEPT !.enabled = b, !.keep = c]]
    BY <1>1, GraphFacts DEF UpdateSource, GraphRec, SourceRec
  <1> HIDE DEF r
  <1> QED
    BY <1>2, <1>3, <1>4, SourceSet DEF r

LEMMA AudioSets ==
    ASSUME NEW g \in GraphRec, NEW s \in DOMAIN g.sources, NEW b \in AudioBinding
    PROVE  LET r == [g.sources[s] EXCEPT !.audio = b]
           IN  /\ SetsSource(g, [g EXCEPT !.sources[s].audio = b], s, r)
               /\ r \in SourceRec /\ r.running = g.sources[s].running
               /\ r.kind = g.sources[s].kind /\ r.muted = g.sources[s].muted
               /\ r.filters = g.sources[s].filters
  <1> DEFINE r == [g.sources[s] EXCEPT !.audio = b]
  <1>1. g.sources[s] \in SourceRec
    BY GraphFacts
  <1>2. /\ r \in SourceRec /\ r.running = g.sources[s].running
        /\ r.kind = g.sources[s].kind /\ r.muted = g.sources[s].muted
        /\ r.filters = g.sources[s].filters
    BY <1>1 DEF SourceRec
  <1>3. [g EXCEPT !.sources[s].audio = b] = [g EXCEPT !.sources[s] = r]
    BY DEF GraphRec
  <1> HIDE DEF r
  <1>4. SetsSource(g, [g EXCEPT !.sources[s] = r], s, r)
    BY <1>2, SourceSet
  <1> QED
    BY <1>2, <1>3, <1>4 DEF r

LEMMA AudioOnSets ==
    ASSUME NEW g \in GraphRec, NEW s \in DOMAIN g.sources, NEW on \in BOOLEAN
    PROVE  LET r == [g.sources[s] EXCEPT !.audio = [@ EXCEPT !.on = on]]
           IN  /\ SetsSource(g, [g EXCEPT !.sources[s].audio.on = on], s, r)
               /\ r \in SourceRec /\ r.running = g.sources[s].running
               /\ r.kind = g.sources[s].kind /\ r.muted = g.sources[s].muted
               /\ r.filters = g.sources[s].filters
  <1> DEFINE b == [g.sources[s].audio EXCEPT !.on = on]
  <1>1. b \in AudioBinding
    BY GraphFacts DEF SourceRec, AudioBinding
  <1>2. /\ [g EXCEPT !.sources[s].audio.on = on] = [g EXCEPT !.sources[s].audio = b]
        /\ [g.sources[s] EXCEPT !.audio = [@ EXCEPT !.on = on]] = [g.sources[s] EXCEPT !.audio = b]
    OBVIOUS
  <1> HIDE DEF b
  <1> QED
    BY <1>1, <1>2, AudioSets

LEMMA SetsTwice ==
    ASSUME NEW g, NEW h, NEW k, NEW s, NEW r, NEW q, SetsSource(g, h, s, r), SetsSource(h, k, s, q)
    PROVE  SetsSource(g, k, s, q)
  BY DEF SetsSource, SameScenes, SameChoice

LEMMA SyncAlsaIs ==
    ASSUME NEW g \in GraphRec, NEW s \in DOMAIN g.sources
    PROVE  \E r \in SourceRec :
              /\ SetsSource(g, SyncAlsa(g, s), s, r)
              /\ r.running = g.sources[s].running /\ r.kind = g.sources[s].kind
              /\ r.muted = g.sources[s].muted /\ r.filters = g.sources[s].filters
              /\ r.kind # "alsa" => r.audio = g.sources[s].audio
  <1>1. g.sources[s] \in SourceRec /\ g.sources[s].enabled \in BOOLEAN
    BY GraphFacts DEF SourceRec
  <1>2. CASE g.sources[s].kind = "alsa"
    <2> DEFINE on == g.sources[s].enabled
               r == [g.sources[s] EXCEPT !.audio = [@ EXCEPT !.on = on]]
    <2>1. SyncAlsa(g, s) = [g EXCEPT !.sources[s].audio.on = on]
      BY <1>2 DEF SyncAlsa
    <2> HIDE DEF on
    <2>2. on \in BOOLEAN
      BY <1>1 DEF on
    <2>3. /\ SetsSource(g, [g EXCEPT !.sources[s].audio.on = on], s, r)
          /\ r \in SourceRec /\ r.running = g.sources[s].running
          /\ r.kind = g.sources[s].kind /\ r.muted = g.sources[s].muted
          /\ r.filters = g.sources[s].filters
      BY <2>2, AudioOnSets
    <2> HIDE DEF r
    <2> QED
      BY <1>2, <2>1, <2>3
  <1>3. CASE g.sources[s].kind # "alsa"
    <2>1. SyncAlsa(g, s) = g
      BY <1>3 DEF SyncAlsa
    <2>2. SetsSource(g, g, s, g.sources[s])
      BY GraphFacts DEF SetsSource, SameScenes, SameChoice
    <2> QED
      BY <2>1, <2>2, <1>1
  <1> QED
    BY <1>2, <1>3

LEMMA SetsSound ==
    ASSUME NEW g, NEW h, NEW s, NEW r, SetsSource(g, h, s, r), NEW t, Sound(g, t)
    PROVE  Sound(h, t) /\ \A x : NoRefs(g, x) => NoRefs(h, x)
  BY DEF SetsSource, SameScenes, SameChoice, Sound, ItemsKnown, ScenesKnown, InOrder, NoRefs

\* h is g with s as the items of scene sc.
SetsItems(g, h, sc, s) ==
    /\ h \in GraphRec /\ SameSources(g, h) /\ SameChoice(g, h)
    /\ DOMAIN h.scenes = DOMAIN g.scenes
    /\ h.scenes[sc].items = s /\ h.scenes[sc].filters = g.scenes[sc].filters
    /\ \A x \in DOMAIN g.scenes \ {sc} : h.scenes[x] = g.scenes[x]

LEMMA ItemsSet ==
    ASSUME NEW g \in GraphRec, NEW sc \in DOMAIN g.scenes, NEW s \in Items
    PROVE  SetsItems(g, WithItems(g, sc, s), sc, s)
  <1> DEFINE r == [g.scenes[sc] EXCEPT !.items = s]
             f == [g.scenes EXCEPT ![sc] = r]
             h == [g EXCEPT !.scenes = f]
  <1>1. g.scenes \in Table(Scene, SceneRec) /\ g.scenes[sc] \in SceneRec
    BY GraphFacts
  <1>2. r \in SceneRec /\ r.items = s /\ r.filters = g.scenes[sc].filters
    BY <1>1 DEF SceneRec
  <1> HIDE DEF r
  <1>3. /\ f \in Table(Scene, SceneRec) /\ DOMAIN f = DOMAIN g.scenes
        /\ f[sc] = r /\ \A x \in DOMAIN g.scenes \ {sc} : f[x] = g.scenes[x]
    BY <1>1, <1>2, TableSet
  <1>4. WithItems(g, sc, s) = h
    BY DEF WithItems, GraphRec, r
  <1> HIDE DEF f
  <1>5. h \in GraphRec
    BY <1>3 DEF GraphRec
  <1>6. h.scenes = f /\ SameSources(g, h) /\ SameChoice(g, h)
    BY DEF GraphRec, SameSources, SameChoice
  <1> HIDE DEF h
  <1> QED
    BY <1>2, <1>3, <1>4, <1>5, <1>6 DEF SetsItems

LEMMA ItemsSound ==
    ASSUME NEW g, NEW h, NEW sc, NEW s, SetsItems(g, h, sc, s), NEW t, NEW u, Sound(g, t),
           t \subseteq u \cup {sc}, sc \in u \/ ItemsSorted(s),
           \A k \in DOMAIN s : s[k].src \in DOMAIN g.sources
    PROVE  Sound(h, u)
  <1>1. ItemsKnown(h)
    BY DEF Sound, ItemsKnown, SetsItems, SameSources
  <1>2. ScenesKnown(h)
    BY DEF Sound, ScenesKnown, SetsItems, SameChoice
  <1>3. InOrder(h, u)
    <2> SUFFICES ASSUME NEW x \in DOMAIN h.scenes \ u PROVE ItemsSorted(h.scenes[x].items)
      BY DEF InOrder
    <2>1. CASE x = sc
      BY <2>1 DEF SetsItems
    <2>2. CASE x # sc
      BY <2>2 DEF Sound, InOrder, SetsItems
    <2> QED
      BY <2>1, <2>2
  <1> QED
    BY <1>1, <1>2, <1>3 DEF Sound

LEMMA ItemsRefs ==
    ASSUME NEW g, NEW h, NEW sc, NEW s, SetsItems(g, h, sc, s),
           NEW x, NoRefs(g, x), \A k \in DOMAIN s : s[k].src # x
    PROVE  NoRefs(h, x)
  BY DEF NoRefs, SetsItems

\* Every source that s shows is shown by old.
SrcsFrom(s, old) == \A k \in DOMAIN s : \E i \in DOMAIN old : s[k].src = old[i].src

LEMMA FromSrcs ==
    ASSUME NEW s, NEW old, From(s, old)
    PROVE  SrcsFrom(s, old)
  BY DEF From, SrcsFrom

LEMMA SrcsFromTrans ==
    ASSUME NEW s, NEW q, NEW old, SrcsFrom(s, q), SrcsFrom(q, old)
    PROVE  SrcsFrom(s, old)
  BY DEF SrcsFrom

\* h is g with the items of scene sc rearranged or taken out.
Rearranges(g, h, sc) ==
    LET s == h.scenes[sc].items
    IN  /\ sc \in DOMAIN g.scenes /\ s \in Items
        /\ SetsItems(g, h, sc, s) /\ SrcsFrom(s, g.scenes[sc].items)

LEMMA RearrangesBy ==
    ASSUME NEW g, NEW h, NEW sc \in DOMAIN g.scenes, NEW s \in Items,
           SetsItems(g, h, sc, s), SrcsFrom(s, g.scenes[sc].items)
    PROVE  Rearranges(g, h, sc) /\ h.scenes[sc].items = s
  BY DEF Rearranges, SetsItems

LEMMA RearrangedSound ==
    ASSUME NEW g, NEW h, NEW sc, Rearranges(g, h, sc), NEW t, NEW u, Sound(g, t),
           t \subseteq u \cup {sc},
           sc \in u \/ ItemsSorted(h.scenes[sc].items)
    PROVE  Sound(h, u) /\ \A x : NoRefs(g, x) => NoRefs(h, x)
  <1> DEFINE s == h.scenes[sc].items
  <1>1. /\ sc \in DOMAIN g.scenes /\ s \in Items
        /\ SetsItems(g, h, sc, s) /\ SrcsFrom(s, g.scenes[sc].items)
    BY DEF Rearranges
  <1> HIDE DEF s
  <1>2. \A k \in DOMAIN s : s[k].src \in DOMAIN g.sources
    BY <1>1 DEF Sound, ItemsKnown, SrcsFrom
  <1>3. Sound(h, u)
    BY <1>1, <1>2, ItemsSound DEF s
  <1>4. ASSUME NEW x, NoRefs(g, x) PROVE NoRefs(h, x)
    <2>1. \A k \in DOMAIN s : s[k].src # x
      BY <1>1, <1>4 DEF NoRefs, SrcsFrom
    <2> QED
      BY <1>1, <1>4, <2>1, ItemsRefs
  <1> QED
    BY <1>3, <1>4

LEMMA Smallest ==
    ASSUME NEW S \in SUBSET Nat, S # {}
    PROVE  \E m \in S : \A k \in S : m <= k
  <1>1. PICK m \in S : \A k \in S : ~ (<<k, m>> \in OpToRel(<, Nat))
    BY WFMin, NatLessThanWellFounded
  <1>2. \A k \in S : ~ (k < m)
    BY <1>1 DEF OpToRel
  <1> QED
    BY <1>2

LEMMA FindItemIs ==
    ASSUME NEW g \in GraphRec, NEW sc \in DOMAIN g.scenes, NEW id, FindItem(g, sc, id) # 0
    PROVE  FindItem(g, sc, id) \in DOMAIN g.scenes[sc].items
  <1> DEFINE s == g.scenes[sc].items
             I == {i \in 1 .. Len(s) : s[i].id = id}
  <1>1. s \in Items
    BY GraphFacts
  <1>2. FindItem(g, sc, id) = IF I # {} THEN Min(I) ELSE 0
    BY DEF FindItem, SelectInSeq
  <1>3. I # {} /\ FindItem(g, sc, id) = Min(I)
    BY <1>2
  <1>4. I \in SUBSET Nat
    OBVIOUS
  <1>5. Min(I) \in I
    <2> HIDE DEF I
    <2> QED BY <1>3, <1>4, Smallest DEF Min
  <1> QED
    BY <1>1, <1>3, <1>5, ItemFacts

LEMMA AddedSound ==
    ASSUME NEW g \in GraphRec, NEW sc \in DOMAIN g.scenes, NEW src \in DOMAIN g.sources,
           NEW id, NEW z, NEW shown, NEW audio, NEW t, Sound(g, t),
           [id |-> id, src |-> src, z |-> z, shown |-> shown, audio |-> audio] \in ItemRec
    PROVE  LET h == AddItem(g, sc, src, id, z, shown, audio)
           IN  /\ h \in GraphRec /\ SameSources(g, h) /\ SameChoice(g, h)
               /\ Sound(h, t \ {sc})
               /\ \A x : x # src /\ NoRefs(g, x) => NoRefs(h, x)
  <1> DEFINE old == g.scenes[sc].items
             it == [id |-> id, src |-> src, z |-> z, shown |-> shown, audio |-> audio]
             more == Append(old, it)
             s == SortItems(more)
             h == AddItem(g, sc, src, id, z, shown, audio)
  <1>1. old \in Items /\ it \in ItemRec /\ it.src = src
    BY GraphFacts
  <1>8. h = WithItems(g, sc, s)
    BY DEF AddItem
  <1> HIDE DEF it, old
  <1>2. more \in Items /\ DOMAIN more = 1 .. Len(old) + 1 /\ more[Len(old) + 1] = it
        /\ \A i \in 1 .. Len(old) : more[i] = old[i]
    BY <1>1 DEF Items
  <1>3. s \in Items /\ ItemsSorted(s) /\ From(s, more)
    BY <1>2, SortsAll
  <1>4. \A i \in DOMAIN more : more[i].src = src \/ \E j \in DOMAIN old : more[i].src = old[j].src
    BY <1>1, <1>2, ItemFacts
  <1> HIDE DEF s, more, h
  <1>6. SetsItems(g, h, sc, s)
    BY <1>3, <1>8, ItemsSet
  <1>7. \A k \in DOMAIN s : s[k].src = src \/ \E i \in DOMAIN old : s[k].src = old[i].src
    BY <1>3, <1>4 DEF From
  <1>9. \A k \in DOMAIN s : s[k].src \in DOMAIN g.sources
    BY <1>7 DEF Sound, ItemsKnown, old
  <1>10. Sound(h, t \ {sc})
    BY <1>3, <1>6, <1>9, ItemsSound
  <1>11. ASSUME NEW x, x # src, NoRefs(g, x) PROVE NoRefs(h, x)
    <2>1. \A k \in DOMAIN s : s[k].src # x
      BY <1>7, <1>11 DEF NoRefs, old
    <2> QED
      BY <1>6, <1>11, <2>1, ItemsRefs
  <1> QED
    BY <1>6, <1>10, <1>11 DEF SetsItems, h

LEMMA ItemUpdated ==
    ASSUME NEW g \in GraphRec, NEW sc, NEW id, HasItem(g, sc, id), NEW z \in Int,
           NEW shown \in BOOLEAN
    PROVE  LET h == UpdateItem(g, sc, id, z, shown)
           IN  Rearranges(g, h, sc) /\ ItemsSorted(h.scenes[sc].items)
  <1> DEFINE old == g.scenes[sc].items
             n == FindItem(g, sc, id)
             q == [old EXCEPT ![n].z = z, ![n].shown = shown]
             s == SortItems(q)
  <1>1. sc \in DOMAIN g.scenes /\ n \in DOMAIN old /\ old \in Items
    BY FindItemIs, GraphFacts DEF HasItem
  <1> HIDE DEF n
  <1>2. q \in Items /\ SrcsFrom(q, old)
    <2> DEFINE r == [[old[n] EXCEPT !.z = z] EXCEPT !.shown = shown]
               p == [old EXCEPT ![n] = r]
    <2>1. old[n] \in ItemRec
      BY <1>1, ItemFacts
    <2>2. r \in ItemRec /\ r.src = old[n].src
      BY <2>1 DEF ItemRec
    <2>3. q = p
      BY <1>1, <2>1 DEF Items, ItemRec
    <2> HIDE DEF r
    <2>4. p \in Items /\ DOMAIN p = DOMAIN old /\ p[n] = r
          /\ \A i \in DOMAIN old \ {n} : p[i] = old[i]
      BY <1>1, <2>2 DEF Items
    <2> HIDE DEF p, q
    <2> QED
      BY <1>1, <2>2, <2>3, <2>4 DEF SrcsFrom
  <1> HIDE DEF q
  <1>3. s \in Items /\ ItemsSorted(s) /\ SrcsFrom(s, old)
    BY <1>2, SortsAll, FromSrcs, SrcsFromTrans
  <1>4. UpdateItem(g, sc, id, z, shown) = WithItems(g, sc, s)
    BY DEF UpdateItem, q, n
  <1> HIDE DEF s
  <1> QED
    BY <1>1, <1>3, <1>4, ItemsSet, RearrangesBy

LEMMA ItemAudioSet ==
    ASSUME NEW g \in GraphRec, NEW sc, NEW id, HasItem(g, sc, id), NEW on \in AudioBinding
    PROVE  LET h == UpdateItemAudio(g, sc, id, on)
           IN  /\ Rearranges(g, h, sc)
               /\ ItemsSorted(g.scenes[sc].items) => ItemsSorted(h.scenes[sc].items)
  <1> DEFINE old == g.scenes[sc].items
             n == FindItem(g, sc, id)
             s == [old EXCEPT ![n].audio = on]
  <1>1. sc \in DOMAIN g.scenes /\ n \in DOMAIN old /\ old \in Items
    BY FindItemIs, GraphFacts DEF HasItem
  <1>4. UpdateItemAudio(g, sc, id, on) = WithItems(g, sc, s)
    BY DEF UpdateItemAudio
  <1> HIDE DEF n
  <1> DEFINE r == [old[n] EXCEPT !.audio = on]
  <1>5. old[n] \in ItemRec
    BY <1>1, ItemFacts
  <1>6. r \in ItemRec /\ r.src = old[n].src /\ r.z = old[n].z /\ r.id = old[n].id
    BY <1>5 DEF ItemRec
  <1>7. s = [old EXCEPT ![n] = r]
    OBVIOUS
  <1> HIDE DEF r
  <1>2. /\ s \in Items /\ Len(s) = Len(old) /\ DOMAIN s = DOMAIN old
        /\ s[n] = r /\ \A i \in DOMAIN old \ {n} : s[i] = old[i]
    BY <1>1, <1>6, <1>7 DEF Items
  <1> HIDE DEF s
  <1>3. \A i \in DOMAIN old : s[i].src = old[i].src /\ s[i].z = old[i].z /\ s[i].id = old[i].id
    BY <1>1, <1>2, <1>6
  <1>8. ItemsSorted(old) => ItemsSorted(s)
    BY <1>1, <1>2, <1>3, ItemFacts DEF ItemsSorted, ItemBefore
  <1>9. SrcsFrom(s, old)
    BY <1>2, <1>3 DEF SrcsFrom
  <1>10. SetsItems(g, UpdateItemAudio(g, sc, id, on), sc, s)
    BY <1>1, <1>2, <1>4, ItemsSet
  <1>11. s \in Items /\ sc \in DOMAIN g.scenes /\ SrcsFrom(s, g.scenes[sc].items)
    BY <1>1, <1>2, <1>9
  <1>12. /\ Rearranges(g, UpdateItemAudio(g, sc, id, on), sc)
         /\ UpdateItemAudio(g, sc, id, on).scenes[sc].items = s
    <2> HIDE DEF old
    <2> QED BY <1>10, <1>11, RearrangesBy
  <1> QED
    BY <1>8, <1>12

LEMMA ItemRemoved ==
    ASSUME NEW g \in GraphRec, NEW sc, NEW id, HasItem(g, sc, id)
    PROVE  LET h == RemoveItem(g, sc, id)
           IN  /\ Rearranges(g, h, sc)
               /\ ItemsSorted(g.scenes[sc].items) => ItemsSorted(h.scenes[sc].items)
  <1> DEFINE old == g.scenes[sc].items
             n == FindItem(g, sc, id)
             s == RemoveAt(old, n)
  <1>1. sc \in DOMAIN g.scenes /\ n \in DOMAIN old /\ old \in Items
    BY FindItemIs, GraphFacts DEF HasItem
  <1>2. RemoveItem(g, sc, id) = WithItems(g, sc, s)
    BY DEF RemoveItem
  <1> HIDE DEF n
  <1>3. s \in Items /\ (ItemsSorted(old) => ItemsSorted(s)) /\ SrcsFrom(s, old)
    BY <1>1, Removed, FromSrcs
  <1> HIDE DEF s
  <1>4. SetsItems(g, RemoveItem(g, sc, id), sc, s)
    BY <1>1, <1>2, <1>3, ItemsSet
  <1>5. s \in Items /\ sc \in DOMAIN g.scenes /\ SrcsFrom(s, g.scenes[sc].items)
    BY <1>1, <1>3
  <1>6. /\ Rearranges(g, RemoveItem(g, sc, id), sc)
        /\ RemoveItem(g, sc, id).scenes[sc].items = s
    <2> HIDE DEF old
    <2> QED BY <1>4, <1>5, RearrangesBy
  <1> QED
    BY <1>3, <1>6

\* t is s with other z_orders.
SameLooks(s, t) ==
    /\ DOMAIN t = DOMAIN s
    /\ \A i \in DOMAIN s :
          t[i].src = s[i].src /\ t[i].shown = s[i].shown /\ t[i].audio = s[i].audio

LEMMA Largest ==
    ASSUME NEW n \in Nat, NEW S \in SUBSET (1 .. n), S # {}
    PROVE  \E m \in S : \A k \in S : k <= m
  <1> DEFINE T == {i \in Nat : i <= n /\ n - i \in S}
  <1>1. T \in SUBSET Nat /\ \A k \in S : n - k \in T
    BY Z3
  <1>2. T # {}
    BY <1>1
  <1>3. PICK m \in T : \A k \in T : m <= k
    BY <1>1, <1>2, Smallest
  <1>4. n - m \in S /\ m \in Nat
    BY <1>3
  <1>5. \A k \in S : k <= n - m
    <2> SUFFICES ASSUME NEW k \in S PROVE k <= n - m
      OBVIOUS
    <2>1. m <= n - k
      BY <1>1, <1>3
    <2> QED
      BY <2>1, <1>4
  <1> QED
    BY <1>4, <1>5

LEMMA RenumberedIs ==
    ASSUME NEW s \in Items, NEW order, NEW n \in Nat
    PROVE  Renumbered(s, order, n) \in Items /\ SameLooks(s, Renumbered(s, order, n))
  <1> DEFINE Named(i) == {k \in 1 .. n : SelectInSeq(s, LAMBDA it : it.id = order[k]) = i}
             Latest(i) == CHOOSE k \in Named(i) : \A l \in Named(i) : l <= k
             R(i) == IF Named(i) = {} THEN s[i] ELSE [s[i] EXCEPT !.z = 10 * (Latest(i) - 1)]
             t == [i \in DOMAIN s |-> R(i)]
  <1>1. Renumbered(s, order, n) = t
    BY DEF Renumbered
  <1>2. ASSUME NEW i \in DOMAIN s
        PROVE  /\ R(i) \in ItemRec
               /\ R(i).src = s[i].src /\ R(i).shown = s[i].shown /\ R(i).audio = s[i].audio
    <2>1. s[i] \in ItemRec
      BY ItemFacts
    <2>2. CASE Named(i) = {}
      BY <2>1, <2>2
    <2>3. CASE Named(i) # {}
      <3>1. Named(i) \in SUBSET (1 .. n)
        OBVIOUS
      <3>2. Latest(i) \in Named(i)
        <4> HIDE DEF Named
        <4> QED BY <2>3, <3>1, Largest
      <3>3. Latest(i) \in 1 .. n
        BY <3>1, <3>2
      <3> DEFINE z == 10 * (Latest(i) - 1)
      <3>4. z \in Int
        <4> HIDE DEF Latest
        <4> QED BY <3>3
      <3>5. R(i) = [s[i] EXCEPT !.z = z]
        BY <2>3
      <3> HIDE DEF z, R
      <3> QED
        BY <2>1, <3>4, <3>5 DEF ItemRec
    <2> QED
      BY <2>2, <2>3
  <1> HIDE DEF R
  <1>3. DOMAIN s = 1 .. Len(s) /\ Len(s) \in Nat
    BY ItemFacts
  <1>4. t \in Items
    BY <1>2, <1>3 DEF Items
  <1> QED
    BY <1>1, <1>2, <1>4 DEF SameLooks

\* A reorder that is refused only renumbers; the other sorts.
LEMMA Reordered ==
    ASSUME NEW g \in GraphRec, NEW sc \in DOMAIN g.scenes, NEW order, Len(order) \in Nat
    PROVE  LET h == ReorderItems(g, sc, order)
           IN  /\ Rearranges(g, h, sc)
               /\ ReorderRefused(g, sc, order)
                    => SameLooks(g.scenes[sc].items, h.scenes[sc].items)
               /\ ~ ReorderRefused(g, sc, order) => ItemsSorted(h.scenes[sc].items)
  <1> DEFINE old == g.scenes[sc].items
             bad == FirstUnknown(g, sc, order)
             p == Renumbered(old, order, Len(order))
             q == Renumbered(old, order, bad - 1)
             s == IF bad = 0 THEN SortItems(p) ELSE q
             h == ReorderItems(g, sc, order)
  <1>1. old \in Items
    BY GraphFacts
  <1>2. bad # 0 => bad - 1 \in Nat
    <2> DEFINE I == {i \in 1 .. Len(order) : FindItem(g, sc, order[i]) = 0}
    <2>1. bad = IF I # {} THEN Min(I) ELSE 0
      BY DEF FirstUnknown, SelectInSeq
    <2>2. I \in SUBSET (Nat \ {0})
      OBVIOUS
    <2>3. I # {} => Min(I) \in I
      <3> HIDE DEF I
      <3> QED BY <2>2, Smallest DEF Min
    <2>4. \A i \in Nat \ {0} : i - 1 \in Nat
      OBVIOUS
    <2> HIDE DEF I, bad
    <2> QED
      BY <2>1, <2>2, <2>3, <2>4
  <1>3. h = WithItems(g, sc, s)
    BY DEF ReorderItems
  <1>4. ReorderRefused(g, sc, order) <=> bad # 0
    BY DEF ReorderRefused
  <1> HIDE DEF bad, h
  <1>5. p \in Items /\ SameLooks(old, p)
    BY <1>1, RenumberedIs
  <1>6. bad # 0 => q \in Items /\ SameLooks(old, q)
    BY <1>1, <1>2, RenumberedIs
  <1> HIDE DEF p, q, old
  <1>7. \A x : SameLooks(old, x) => SrcsFrom(x, old)
    BY DEF SameLooks, SrcsFrom
  <1>8. SortItems(p) \in Items /\ ItemsSorted(SortItems(p)) /\ SrcsFrom(SortItems(p), p)
    BY <1>5, SortsAll, FromSrcs
  <1>9. SrcsFrom(SortItems(p), old)
    BY <1>5, <1>7, <1>8, SrcsFromTrans
  <1>10. /\ s \in Items /\ SrcsFrom(s, old)
         /\ bad = 0 => ItemsSorted(s)
         /\ bad # 0 => SameLooks(old, s)
    BY <1>6, <1>7, <1>8, <1>9
  <1> HIDE DEF s
  <1>11. SetsItems(g, h, sc, s)
    BY <1>3, <1>10, ItemsSet
  <1>12. SrcsFrom(s, g.scenes[sc].items)
    BY <1>10 DEF old
  <1>13. Rearranges(g, h, sc) /\ h.scenes[sc].items = s
    BY <1>10, <1>11, <1>12, RearrangesBy
  <1> QED
    BY <1>4, <1>10, <1>13 DEF old, h

-----------------------------------------------------------------------------
(* The operations on scenes and on the whole graph.                        *)

\* h has g's sources and shows no more of them.
ShowsNoMore(g, h) == SameSources(g, h) /\ \A x : NoRefs(g, x) => NoRefs(h, x)

LEMMA ScenePut ==
    ASSUME NEW g \in GraphRec, NEW sc \in Scene, sc \notin DOMAIN g.scenes, NEW t, Sound(g, t)
    PROVE  LET h == CreateScene(g, sc)
           IN  h \in GraphRec /\ ShowsNoMore(g, h) /\ Sound(h, t)
  <1> DEFINE f == Put(g.scenes, sc, NewScene)
             a == IF g.active = NONE THEN sc ELSE g.active
             h == CreateScene(g, sc)
  <1>1. NewScene \in SceneRec /\ DOMAIN NewScene.items = {} /\ ItemsSorted(NewScene.items)
    <2>1. NoEntries \in Filters
      BY NoEntriesIs DEF Filters
    <2>2. <<>> \in Items /\ DOMAIN <<>> = {} /\ ItemsSorted(<<>>)
      BY DEF Items, ItemsSorted
    <2> QED
      BY <2>1, <2>2 DEF NewScene, SceneRec
  <1>2. /\ f \in Table(Scene, SceneRec) /\ DOMAIN f = DOMAIN g.scenes \cup {sc}
        /\ f[sc] = NewScene /\ \A x \in DOMAIN g.scenes : f[x] = g.scenes[x]
    <2>1. f \in Table(Scene, SceneRec)
      BY <1>1, GraphFacts, TablePut
    <2>2. DOMAIN f = DOMAIN g.scenes \cup {sc} /\ f[sc] = NewScene
          /\ \A x \in DOMAIN g.scenes : f[x] = g.scenes[x]
      BY DEF Put
    <2> QED
      BY <2>1, <2>2
  <1>3. h = [g EXCEPT !.scenes = f, !.active = a]
    BY DEF CreateScene, GraphRec
  <1>4. a \in Scene \cup {NONE}
    BY DEF GraphRec
  <1>9. a = IF g.active = NONE THEN sc ELSE g.active
    OBVIOUS
  <1> HIDE DEF f, h, a
  <1>5. h \in GraphRec
    BY <1>2, <1>3, <1>4 DEF GraphRec
  <1>6. h.scenes = f /\ h.active = a /\ h.preview = g.preview /\ SameSources(g, h)
    BY <1>3 DEF GraphRec, SameSources
  <1>7. ShowsNoMore(g, h)
    BY <1>1, <1>2, <1>6 DEF ShowsNoMore, NoRefs
  <1>8. Sound(h, t)
    <2>1. ItemsKnown(h)
      BY <1>1, <1>2, <1>6 DEF Sound, ItemsKnown, SameSources
    <2>2. ScenesKnown(h)
      BY <1>2, <1>6, <1>9, NoneAssumption DEF Sound, ScenesKnown, NoneAssumption
    <2>3. InOrder(h, t)
      BY <1>1, <1>2, <1>6 DEF Sound, InOrder
    <2> QED
      BY <2>1, <2>2, <2>3 DEF Sound
  <1> QED
    BY <1>5, <1>7, <1>8 DEF h

LEMMA SceneDropped ==
    ASSUME NEW g \in GraphRec, NEW sc, CanRemoveScene(g, sc), NEW t, Sound(g, t)
    PROVE  LET h == RemoveScene(g, sc)
           IN  /\ h \in GraphRec /\ ShowsNoMore(g, h) /\ Sound(h, t \ {sc})
               /\ h.active = g.active
               /\ DOMAIN h.scenes = DOMAIN g.scenes \ {sc}
               /\ \A x \in DOMAIN h.scenes : h.scenes[x] = g.scenes[x]
  <1> DEFINE f == Drop(g.scenes, sc)
             p == IF g.preview = sc THEN NONE ELSE g.preview
             h == RemoveScene(g, sc)
  <1>1. f \in Table(Scene, SceneRec)
    BY GraphFacts, TableDrop
  <1>2. DOMAIN f = DOMAIN g.scenes \ {sc} /\ \A x \in DOMAIN f : f[x] = g.scenes[x]
    BY DropIs
  <1>3. h = [g EXCEPT !.scenes = f, !.preview = p]
    BY DEF RemoveScene, GraphRec
  <1>4. p \in Scene \cup {NONE} /\ (p # NONE => p = g.preview /\ p # sc)
    BY DEF GraphRec
  <1> HIDE DEF f, h, p
  <1>5. h \in GraphRec
    BY <1>1, <1>3, <1>4 DEF GraphRec
  <1>6. h.scenes = f /\ h.active = g.active /\ h.preview = p /\ SameSources(g, h)
    BY <1>3 DEF GraphRec, SameSources
  <1>7. ShowsNoMore(g, h)
    BY <1>2, <1>6 DEF ShowsNoMore, NoRefs
  <1>8. Sound(h, t \ {sc})
    <2>1. ItemsKnown(h)
      BY <1>2, <1>6 DEF Sound, ItemsKnown, SameSources
    <2>2. ScenesKnown(h)
      <3>1. g.active # NONE /\ g.active \in DOMAIN g.scenes /\ g.active # sc
        BY DEF CanRemoveScene, Sound, ScenesKnown
      <3>2. h.active # NONE /\ h.active \in DOMAIN h.scenes
        BY <3>1, <1>2, <1>6
      <3>3. h.preview # NONE => h.preview \in DOMAIN h.scenes
        BY <1>2, <1>4, <1>6 DEF Sound, ScenesKnown
      <3> QED
        BY <3>2, <3>3 DEF ScenesKnown
    <2>3. InOrder(h, t \ {sc})
      BY <1>2, <1>6 DEF Sound, InOrder
    <2> QED
      BY <2>1, <2>2, <2>3 DEF Sound
  <1> QED
    BY <1>2, <1>5, <1>6, <1>7, <1>8 DEF h

LEMMA ActiveSet ==
    ASSUME NEW g \in GraphRec, NEW sc, NEW tr \in Transition \cup {NONE},
           CanSetActive(g, sc, tr), NEW t, Sound(g, t)
    PROVE  LET h == SetActiveScene(g, sc, tr)
           IN  h \in GraphRec /\ ShowsNoMore(g, h) /\ Sound(h, t)
  <1> DEFINE r == Resolved(g, tr)
             run == [from |-> g.active, to |-> sc, id |-> r,
                     active |-> r \notin {NONE, "cut"} /\ g.transitions[r] > 0]
             h == SetActiveScene(g, sc, tr)
  <1>1. sc \in DOMAIN g.scenes /\ sc \in Scene
    BY GraphFacts DEF CanSetActive
  <1>2. r \in Transition \cup {NONE}
    BY DEF Resolved, GraphRec
  <1>3. h = [g EXCEPT !.active = sc, !.runtime = run]
    BY DEF SetActiveScene
  <1>4. run \in RuntimeRec
    <2>1. (r \notin {NONE, "cut"} /\ g.transitions[r] > 0) \in BOOLEAN
      OBVIOUS
    <2> HIDE DEF r
    <2> QED
      BY <1>1, <1>2, <2>1 DEF RuntimeRec, GraphRec
  <1> HIDE DEF run, h
  <1>5. h \in GraphRec
    BY <1>1, <1>3, <1>4 DEF GraphRec
  <1>6. h.scenes = g.scenes /\ h.active = sc /\ h.preview = g.preview /\ SameSources(g, h)
    BY <1>3 DEF GraphRec, SameSources
  <1>7. sc # NONE
    BY <1>1, NoneAssumption DEF NoneAssumption
  <1> QED
    BY <1>1, <1>5, <1>6, <1>7
    DEF h, ShowsNoMore, NoRefs, Sound, ItemsKnown, ScenesKnown, InOrder, SameSources

\* What is active, what it holds and its sources are as they were.
SameSeen(g, h) == h.sources = g.sources /\ h.scenes = g.scenes /\ h.active = g.active

LEMMA RestSet ==
    ASSUME NEW g \in GraphRec, NEW t, Sound(g, t)
    PROVE  /\ \A sc \in DOMAIN g.scenes \cup {NONE} :
                 LET h == SetPreviewScene(g, sc)
                 IN  h \in GraphRec /\ SameSeen(g, h) /\ Sound(h, t)
           /\ \A tr \in Transition, n \in Duration :
                 LET h == UpdateTransition(g, tr, n)
                 IN  h \in GraphRec /\ SameSeen(g, h) /\ Sound(h, t)
           /\ LET h == TransitionOver(g)
              IN  h \in GraphRec /\ SameSeen(g, h) /\ Sound(h, t)
  <1>1. ASSUME NEW sc \in DOMAIN g.scenes \cup {NONE}
        PROVE  LET h == SetPreviewScene(g, sc)
               IN  h \in GraphRec /\ SameSeen(g, h) /\ Sound(h, t)
    <2> DEFINE h == SetPreviewScene(g, sc)
    <2>1. sc \in Scene \cup {NONE}
      BY GraphFacts
    <2>2. h = [g EXCEPT !.preview = sc]
      BY DEF SetPreviewScene
    <2> HIDE DEF h
    <2>3. h \in GraphRec /\ SameSeen(g, h) /\ h.preview = sc
      BY <2>1, <2>2 DEF GraphRec, SameSeen
    <2>4. Sound(h, t)
      BY <2>3 DEF SameSeen, Sound, ItemsKnown, ScenesKnown, InOrder
    <2> QED
      BY <2>3, <2>4 DEF h
  <1>2. ASSUME NEW tr \in Transition, NEW n \in Duration
        PROVE  LET h == UpdateTransition(g, tr, n)
               IN  h \in GraphRec /\ SameSeen(g, h) /\ Sound(h, t)
    <2> DEFINE f == [g.transitions EXCEPT ![tr] = n]
               h == UpdateTransition(g, tr, n)
    <2>1. f \in [Transition -> Duration]
      BY DEF GraphRec
    <2>2. h = [g EXCEPT !.transitions = f]
      BY DEF UpdateTransition, GraphRec
    <2> HIDE DEF h, f
    <2>3. h \in GraphRec /\ SameSeen(g, h) /\ h.preview = g.preview
      BY <2>1, <2>2 DEF GraphRec, SameSeen
    <2>4. Sound(h, t)
      BY <2>3 DEF SameSeen, Sound, ItemsKnown, ScenesKnown, InOrder
    <2> QED
      BY <2>3, <2>4 DEF h
  <1>3. LET h == TransitionOver(g)
        IN  h \in GraphRec /\ SameSeen(g, h) /\ Sound(h, t)
    <2> DEFINE r == [g.runtime EXCEPT !.active = FALSE]
               h == TransitionOver(g)
    <2>1. r \in RuntimeRec
      BY DEF GraphRec, RuntimeRec
    <2>2. h = [g EXCEPT !.runtime = r]
      BY DEF TransitionOver, GraphRec
    <2> HIDE DEF h, r
    <2>3. h \in GraphRec /\ SameSeen(g, h) /\ h.preview = g.preview
      BY <2>1, <2>2 DEF GraphRec, SameSeen
    <2>4. Sound(h, t)
      BY <2>3 DEF SameSeen, Sound, ItemsKnown, ScenesKnown, InOrder
    <2> QED
      BY <2>3, <2>4 DEF h
  <1> QED
    BY <1>1, <1>2, <1>3

LEMMA SceneFiltersSet ==
    ASSUME NEW g \in GraphRec, NEW sc \in DOMAIN g.scenes, NEW fs \in Filters,
           NEW t, Sound(g, t)
    PROVE  LET h == [g EXCEPT !.scenes[sc].filters = fs]
           IN  h \in GraphRec /\ ShowsNoMore(g, h) /\ Sound(h, t)
  <1> DEFINE r == [g.scenes[sc] EXCEPT !.filters = fs]
             f == [g.scenes EXCEPT ![sc] = r]
             h == [g EXCEPT !.scenes[sc].filters = fs]
  <1>1. g.scenes \in Table(Scene, SceneRec) /\ g.scenes[sc] \in SceneRec
    BY GraphFacts
  <1>2. r \in SceneRec /\ r.items = g.scenes[sc].items
    BY <1>1 DEF SceneRec
  <1>3. h = [g EXCEPT !.scenes = f]
    BY DEF GraphRec
  <1> HIDE DEF r, h
  <1>4. /\ f \in Table(Scene, SceneRec) /\ DOMAIN f = DOMAIN g.scenes
        /\ f[sc] = r /\ \A x \in DOMAIN g.scenes \ {sc} : f[x] = g.scenes[x]
    BY <1>1, <1>2, TableSet
  <1> HIDE DEF f
  <1>5. h \in GraphRec
    BY <1>3, <1>4 DEF GraphRec
  <1>6. h.scenes = f /\ h.active = g.active /\ h.preview = g.preview /\ SameSources(g, h)
    BY <1>3 DEF GraphRec, SameSources
  <1>7. \A x \in DOMAIN g.scenes : h.scenes[x].items = g.scenes[x].items
    BY <1>2, <1>4, <1>6
  <1> HIDE DEF h
  <1>8. DOMAIN h.scenes = DOMAIN g.scenes
    BY <1>4, <1>6
  <1>9. ShowsNoMore(g, h)
    BY <1>6, <1>7, <1>8 DEF ShowsNoMore, NoRefs
  <1>10. Sound(h, t)
    BY <1>6, <1>7, <1>8 DEF Sound, ItemsKnown, ScenesKnown, InOrder, SameSources
  <1> QED
    BY <1>5, <1>9, <1>10 DEF h

\* The filters a call leaves of a source or a scene.
LEMMA FiltersSet ==
    ASSUME NEW fs \in Filters, NEW f \in Filter, NEW on \in BOOLEAN
    PROVE  /\ Put(fs, f, on) \in Filters
           /\ Drop(fs, f) \in Filters
           /\ f \in DOMAIN fs => [fs EXCEPT ![f] = on] \in Filters
  <1>1. Put(fs, f, on) \in Filters
    BY TablePut DEF Filters
  <1>2. Drop(fs, f) \in Filters
    BY TableDrop DEF Filters
  <1>3. f \in DOMAIN fs => [fs EXCEPT ![f] = on] \in Filters
    BY TableSet DEF Filters
  <1> QED
    BY <1>1, <1>2, <1>3

LEMMA SourceDropped ==
    ASSUME NEW g \in GraphRec, NEW s, NEW t, Sound(g, t)
    PROVE  LET h == RemoveSource(g, s)
           IN  /\ h \in GraphRec /\ Sound(h, t)
               /\ h.sources = Drop(g.sources, s)
               /\ \A x : NoRefs(g, x) => NoRefs(h, x)
  <1> DEFINE R(sc) == [g.scenes[sc] EXCEPT !.items = WithoutSource(g.scenes[sc].items, s)]
             f == [sc \in DOMAIN g.scenes |-> R(sc)]
             h == RemoveSource(g, s)
  <1>1. ASSUME NEW sc \in DOMAIN g.scenes
        PROVE  /\ sc \in Scene /\ R(sc) \in SceneRec
               /\ ItemsSorted(g.scenes[sc].items) => ItemsSorted(R(sc).items)
               /\ From(R(sc).items, g.scenes[sc].items)
               /\ \A k \in DOMAIN R(sc).items : R(sc).items[k].src # s
    <2> DEFINE w == WithoutSource(g.scenes[sc].items, s)
    <2>1. g.scenes[sc] \in SceneRec /\ g.scenes[sc].items \in Items /\ sc \in Scene
      BY GraphFacts
    <2>2. /\ w \in Items /\ From(w, g.scenes[sc].items)
          /\ ItemsSorted(g.scenes[sc].items) => ItemsSorted(w)
          /\ \A k \in DOMAIN w : w[k].src # s
      BY <2>1, Without
    <2> HIDE DEF w
    <2>3. [g.scenes[sc] EXCEPT !.items = w] \in SceneRec
          /\ [g.scenes[sc] EXCEPT !.items = w].items = w
      BY <2>1, <2>2 DEF SceneRec
    <2>4. R(sc) = [g.scenes[sc] EXCEPT !.items = w]
      BY DEF w
    <2> HIDE DEF R
    <2> QED
      BY <2>1, <2>2, <2>3, <2>4
  <1>2. Drop(g.sources, s) \in Table(Source, SourceRec)
    BY GraphFacts, TableDrop
  <1>3. h = [g EXCEPT !.sources = Drop(g.sources, s), !.scenes = f]
    BY DEF RemoveSource, GraphRec
  <1> HIDE DEF R
  <1>4. f \in Table(Scene, SceneRec)
    BY <1>1, TableIs
  <1>5. DOMAIN f = DOMAIN g.scenes /\ \A sc \in DOMAIN g.scenes : f[sc] = R(sc)
    OBVIOUS
  <1> HIDE DEF f, h
  <1>6. h \in GraphRec
    BY <1>2, <1>3, <1>4 DEF GraphRec
  <1>7. h.sources = Drop(g.sources, s) /\ h.scenes = f /\ h.active = g.active /\ h.preview = g.preview
    BY <1>3 DEF GraphRec
  <1>8. DOMAIN h.sources = DOMAIN g.sources \ {s}
    BY <1>7, DropIs
  <1>9. ItemsKnown(h)
    BY <1>1, <1>5, <1>7, <1>8 DEF Sound, ItemsKnown, From
  <1>10. ScenesKnown(h)
    BY <1>5, <1>7 DEF Sound, ScenesKnown
  <1>11. InOrder(h, t)
    BY <1>1, <1>5, <1>7 DEF Sound, InOrder
  <1>12. ASSUME NEW x, NoRefs(g, x) PROVE NoRefs(h, x)
    BY <1>1, <1>5, <1>7, <1>12 DEF NoRefs, From
  <1> QED
    BY <1>6, <1>7, <1>9, <1>10, <1>11, <1>12 DEF Sound, h

-----------------------------------------------------------------------------
(* SceneControl: the workers.                                              *)

WorkersOK(g, w) ==
    /\ w \in Table(Source, BOOLEAN)
    /\ DOMAIN w = Entries(g)
    /\ \A s \in DOMAIN w : w[s] => NoRefs(g, s) /\ g.sources[s].muted

LEMMA EntryIs ==
    ASSUME NEW g, NEW s
    PROVE  s \in Entries(g) <=>
               s \in DOMAIN g.sources /\ g.sources[s].running /\ g.sources[s].kind # "alsa"
  BY DEF Entries

\* A source's worker is kept, started, replaced, stopped.
LEMMA WorkersFollow ==
    ASSUME NEW g, NEW h, NEW s, SetsSource(g, h, s, h.sources[s]), NEW w, WorkersOK(g, w),
           s \in Source
    PROVE  LET r == h.sources[s]
           IN  /\ (IF r.running /\ r.kind # "alsa"
                   THEN s \in DOMAIN w /\ (w[s] => r.muted)
                   ELSE s \notin DOMAIN w)
                  => WorkersOK(h, w)
               /\ r.running /\ r.kind # "alsa" => WorkersOK(h, Put(w, s, FALSE))
               /\ ~ r.running => WorkersOK(h, Drop(w, s))
  <1> DEFINE r == h.sources[s]
  <1>0. SetsSource(g, h, s, r)
    OBVIOUS
  <1>1. \A x : NoRefs(g, x) => NoRefs(h, x)
    BY <1>0 DEF SetsSource, SameScenes, NoRefs
  <1>2. \A x : x # s => (x \in Entries(h) <=> x \in Entries(g))
    BY <1>0, EntryIs DEF SetsSource
  <1>3. s \in Entries(h) <=> r.running /\ r.kind # "alsa"
    BY <1>0, EntryIs DEF SetsSource
  <1>4. \A x \in DOMAIN w \ {s} : h.sources[x] = g.sources[x]
    BY <1>0, EntryIs DEF SetsSource, WorkersOK
  <1> HIDE DEF r
  <1>5. ASSUME IF r.running /\ r.kind # "alsa"
               THEN s \in DOMAIN w /\ (w[s] => r.muted)
               ELSE s \notin DOMAIN w
        PROVE  WorkersOK(h, w)
    <2>1. DOMAIN w = Entries(h)
      BY <1>2, <1>3, <1>5 DEF WorkersOK
    <2>2. \A x \in DOMAIN w : w[x] => h.sources[x].muted
      BY <1>0, <1>3, <1>4, <1>5, <2>1 DEF WorkersOK, SetsSource
    <2> QED
      BY <1>1, <2>1, <2>2 DEF WorkersOK
  <1>6. ASSUME r.running, r.kind # "alsa" PROVE WorkersOK(h, Put(w, s, FALSE))
    <2> DEFINE p == Put(w, s, FALSE)
    <2>1. p \in Table(Source, BOOLEAN)
      BY TablePut DEF WorkersOK
    <2>2. DOMAIN p = DOMAIN w \cup {s} /\ p[s] = FALSE
          /\ \A x \in DOMAIN p \ {s} : x \in DOMAIN w /\ p[x] = w[x]
      BY DEF Put
    <2> HIDE DEF p
    <2>3. DOMAIN p = Entries(h)
      BY <1>2, <1>3, <1>6, <2>2 DEF WorkersOK
    <2>4. \A x \in DOMAIN p : p[x] => NoRefs(h, x) /\ h.sources[x].muted
      BY <1>1, <1>4, <2>2 DEF WorkersOK
    <2> QED
      BY <2>1, <2>3, <2>4 DEF WorkersOK, p
  <1>7. ASSUME ~ r.running PROVE WorkersOK(h, Drop(w, s))
    <2> DEFINE p == Drop(w, s)
    <2>1. p \in Table(Source, BOOLEAN)
      BY TableDrop DEF WorkersOK
    <2>2. DOMAIN p = DOMAIN w \ {s} /\ \A x \in DOMAIN p : p[x] = w[x]
      BY DropIs
    <2> HIDE DEF p
    <2>3. DOMAIN p = Entries(h)
      BY <1>2, <1>3, <1>7, <2>2 DEF WorkersOK
    <2>4. \A x \in DOMAIN p : p[x] => NoRefs(h, x) /\ h.sources[x].muted
      BY <1>1, <1>4, <2>2 DEF WorkersOK
    <2> QED
      BY <2>1, <2>3, <2>4 DEF WorkersOK, p
  <1> QED
    BY <1>5, <1>6, <1>7 DEF r

LEMMA WorkersStay ==
    ASSUME NEW g, NEW h, NEW w, WorkersOK(g, w), SameSources(g, h),
           \A x \in DOMAIN w : w[x] /\ NoRefs(g, x) => NoRefs(h, x)
    PROVE  WorkersOK(h, w)
  <1>1. Entries(h) = Entries(g)
    BY DEF Entries, SameSources
  <1> QED
    BY <1>1 DEF WorkersOK, SameSources

-----------------------------------------------------------------------------
(* SceneControl: what the compositor and the mixer have.                   *)

Branch == [on : BOOLEAN, heard : BOOLEAN]

\* PushedIsCurrent and HeardIsOnAir, of any graph, scene and mixer.  Of a branch
\* that is not heard too, being active in the scene means that it is on air.
Current(g, p) ==
    /\ p.items = CompItems(g, g.active)
    /\ \A its \in {p.items, p.previous} : \A i \in DOMAIN its : its[i].slot \in DOMAIN g.sources
MayBeHeard(g, s) == Bound(g, s) /\ (Unsilenced(g, s) \/ Sounds(g.sources[s].audio))
OnAirOnly(g, m) ==
    g.active # NONE => \A s \in DOMAIN m :
        (m[s].on => Bound(g, s)) /\ (m[s].heard => MayBeHeard(g, s))

\* The same but for what is heard of x, whose own binding has changed.
OnAirBut(g, m, x) ==
    g.active # NONE => \A s \in DOMAIN m :
        (m[s].on => Bound(g, s)) /\ (s # x /\ m[s].heard => MayBeHeard(g, s))

LEMMA Slots ==
    ASSUME NEW g, ItemsKnown(g), NEW sc
    PROVE  \A i \in DOMAIN CompItems(g, sc) : CompItems(g, sc)[i].slot \in DOMAIN g.sources
  <1>1. CASE sc \in DOMAIN g.scenes
    <2>1. /\ DOMAIN CompItems(g, sc) = DOMAIN g.scenes[sc].items
          /\ \A i \in DOMAIN g.scenes[sc].items :
                CompItems(g, sc)[i] = CompItem(g, sc, g.scenes[sc].items[i])
      BY <1>1 DEF CompItems
    <2>2. \A it : it.src \in DOMAIN g.sources => CompItem(g, sc, it).slot = it.src
      BY DEF CompItem
    <2> QED
      BY <1>1, <2>1, <2>2 DEF ItemsKnown
  <1>2. CASE sc \notin DOMAIN g.scenes
    <2>1. DOMAIN CompItems(g, sc) = {}
      BY <1>2 DEF CompItems
    <2> QED
      BY <2>1
  <1> QED
    BY <1>1, <1>2

LEMMA BuiltIsCurrent ==
    ASSUME NEW g, ItemsKnown(g)
    PROVE  Current(g, BuildCompositorState(g))
  <1> DEFINE p == BuildCompositorState(g)
  <1>1. /\ p.items = CompItems(g, g.active)
        /\ p.previous = CompItems(g, g.runtime.from) \/ p.previous = <<>>
    BY DEF BuildCompositorState
  <1> HIDE DEF p
  <1>2. DOMAIN <<>> = {}
    OBVIOUS
  <1>3. \A i \in DOMAIN p.items : p.items[i].slot \in DOMAIN g.sources
    BY <1>1, Slots
  <1>4. \A i \in DOMAIN p.previous : p.previous[i].slot \in DOMAIN g.sources
    BY <1>1, <1>2, Slots
  <1> QED
    BY <1>1, <1>3, <1>4 DEF Current, p

LEMMA FollowsScene ==
    ASSUME NEW g \in GraphRec, NEW m \in Table(Source, Branch)
    PROVE  /\ OnSceneChange(g, m) \in Table(Source, Branch)
           /\ DOMAIN m \subseteq DOMAIN OnSceneChange(g, m)
           /\ OnAirOnly(g, OnSceneChange(g, m))
  <1> DEFINE added == {AirItems(g)[i].src : i \in {j \in OnAir(g) : AirItems(g)[j].audio.on}}
             n == OnSceneChange(g, m)
  <1>1. \A i \in OnAir(g) : AirItems(g)[i].src \in Source
    <2>1. \A i \in OnAir(g) : g.active \in DOMAIN g.scenes /\ i \in DOMAIN AirItems(g)
      BY DEF OnAir
    <2>2. g.active \in DOMAIN g.scenes => AirItems(g) \in Items
      BY GraphFacts DEF AirItems
    <2> QED
      BY <2>1, <2>2, ItemFacts
  <1>2. added \subseteq Source
    BY <1>1
  <1>3. n = [s \in DOMAIN m \cup added |-> [on |-> Bound(g, s), heard |-> Unsilenced(g, s)]]
    BY DEF OnSceneChange
  <1>4. \A s : Bound(g, s) \in BOOLEAN /\ Unsilenced(g, s) \in BOOLEAN
    BY DEF Bound, Unsilenced
  <1> HIDE DEF added, n
  <1>5. /\ DOMAIN n = DOMAIN m \cup added
        /\ \A s \in DOMAIN n : n[s].on = Bound(g, s) /\ n[s].heard = Unsilenced(g, s)
    BY <1>3
  <1>6. n \in Table(Source, Branch)
    <2>1. DOMAIN n \in SUBSET Source
      BY <1>2, <1>5, TableIs
    <2>2. n \in [DOMAIN n -> Branch]
      BY <1>3, <1>4, <1>5 DEF Branch
    <2> QED
      BY <2>1, <2>2, TableIs
  <1>7. OnAirOnly(g, n)
    <2>1. \A s : Unsilenced(g, s) => Bound(g, s)
      BY DEF Unsilenced, Bound, Sounds
    <2> QED
      BY <1>5, <2>1 DEF OnAirOnly, MayBeHeard
  <1> QED
    BY <1>5, <1>6, <1>7 DEF n

LEMMA NewBranchIs ==
    ASSUME NEW b \in AudioBinding
    PROVE  NewBranch(b) \in Branch
  <1>1. Sounds(b) \in BOOLEAN
    BY DEF Sounds, AudioBinding
  <1> QED
    BY <1>1 DEF NewBranch, Branch

LEMMA SourceHeard ==
    ASSUME NEW g \in GraphRec, NEW s \in DOMAIN g.sources, NEW m \in Table(Source, Branch)
    PROVE  /\ SetSourceState(g, s, m) \in Table(Source, Branch)
           /\ OnAirBut(g, m, s) => OnAirOnly(g, SetSourceState(g, s, m))
  <1> DEFINE b == g.sources[s].audio
             new == Put(m, s, NewBranch(b))
             n == IF s \in DOMAIN m THEN m
                  ELSE IF g.active # NONE THEN OnSceneChange(g, new) ELSE new
             q == SetSourceState(g, s, m)
  <1>1. s \in Source /\ b \in AudioBinding
    BY GraphFacts DEF SourceRec
  <1>2. new \in Table(Source, Branch) /\ s \in DOMAIN new
    <2>1. NewBranch(b) \in Branch
      BY <1>1, NewBranchIs
    <2>2. new \in Table(Source, Branch)
      BY <1>1, <2>1, TablePut
    <2>3. s \in DOMAIN new
      BY DEF Put
    <2> QED
      BY <2>2, <2>3
  <1>3. q = IF ~ b.on
            THEN IF s \in DOMAIN m THEN [m EXCEPT ![s].heard = FALSE] ELSE m
            ELSE [n EXCEPT ![s].heard = n[s].on /\ ~ b.mute]
    BY DEF SetSourceState
  <1> HIDE DEF new, q
  <1>4. n \in Table(Source, Branch) /\ s \in DOMAIN n /\ (OnAirBut(g, m, s) => OnAirBut(g, n, s))
    <2>1. CASE s \in DOMAIN m
      BY <2>1
    <2>2. CASE s \notin DOMAIN m /\ g.active # NONE
      <3>1. n = OnSceneChange(g, new)
        BY <2>2
      <3> HIDE DEF n
      <3>2. OnAirOnly(g, n) /\ n \in Table(Source, Branch) /\ DOMAIN new \subseteq DOMAIN n
        BY <3>1, <1>2, FollowsScene
      <3> QED
        BY <3>2, <1>2 DEF OnAirOnly, OnAirBut
    <2>3. CASE s \notin DOMAIN m /\ g.active = NONE
      BY <2>3, <1>2 DEF OnAirBut
    <2> QED
      BY <2>1, <2>2, <2>3
  <1> HIDE DEF n
  <1>5. \A k \in Table(Source, Branch) : \A v \in BOOLEAN :
            s \in DOMAIN k /\ (v => k[s].on /\ Sounds(b))
            => /\ [k EXCEPT ![s].heard = v] \in Table(Source, Branch)
               /\ OnAirBut(g, k, s) => OnAirOnly(g, [k EXCEPT ![s].heard = v])
    <2> SUFFICES ASSUME NEW k \in Table(Source, Branch), NEW v \in BOOLEAN,
                        s \in DOMAIN k, v => k[s].on /\ Sounds(b)
                 PROVE  /\ [k EXCEPT ![s].heard = v] \in Table(Source, Branch)
                        /\ OnAirBut(g, k, s) => OnAirOnly(g, [k EXCEPT ![s].heard = v])
      OBVIOUS
    <2> DEFINE r == [k[s] EXCEPT !.heard = v]
               l == [k EXCEPT ![s] = r]
    <2>1. k[s] \in Branch
      BY TableAt
    <2>2. r \in Branch /\ r.on = k[s].on /\ r.heard = v
      BY <2>1 DEF Branch
    <2>3. [k EXCEPT ![s].heard = v] = l
      OBVIOUS
    <2> HIDE DEF r
    <2>4. /\ l \in Table(Source, Branch) /\ DOMAIN l = DOMAIN k /\ l[s] = r
          /\ \A x \in DOMAIN k \ {s} : l[x] = k[x]
      BY <2>2, TableSet
    <2> HIDE DEF l
    <2>5. OnAirBut(g, k, s) => OnAirOnly(g, l)
      BY <2>2, <2>4 DEF OnAirOnly, OnAirBut, MayBeHeard
    <2> QED
      BY <2>3, <2>4, <2>5
  <1>6. s \in DOMAIN n => n[s].on \in BOOLEAN
    <2>1. n[s] \in Branch
      BY <1>4, TableAt
    <2> QED
      BY <2>1 DEF Branch
  <1>7. CASE ~ b.on
    <2>1. CASE s \in DOMAIN m
      <3>1. /\ [m EXCEPT ![s].heard = FALSE] \in Table(Source, Branch)
            /\ OnAirBut(g, m, s) => OnAirOnly(g, [m EXCEPT ![s].heard = FALSE])
        BY <2>1, <1>5
      <3> QED
        BY <1>3, <1>7, <2>1, <3>1 DEF q
    <2>2. CASE s \notin DOMAIN m
      <3>1. OnAirBut(g, m, s) => OnAirOnly(g, m)
        BY <2>2 DEF OnAirBut, OnAirOnly
      <3> QED
        BY <1>3, <1>7, <2>2, <3>1 DEF q
    <2> QED
      BY <2>1, <2>2
  <1>8. CASE b.on
    <2> DEFINE v == n[s].on /\ ~ b.mute
    <2>1. v \in BOOLEAN /\ (v => n[s].on /\ Sounds(b))
      BY <1>1, <1>4, <1>6, <1>8 DEF Sounds, AudioBinding
    <2> HIDE DEF v
    <2>2. /\ [n EXCEPT ![s].heard = v] \in Table(Source, Branch)
          /\ OnAirBut(g, m, s) => OnAirOnly(g, [n EXCEPT ![s].heard = v])
      BY <1>4, <1>5, <2>1
    <2> QED
      BY <1>3, <1>8, <2>2 DEF q, v
  <1> QED
    BY <1>7, <1>8

LEMMA ItemHeard ==
    ASSUME NEW s \in Source, NEW b \in AudioBinding, NEW m \in Table(Source, Branch)
    PROVE  SetSceneItemState(s, b, m) \in Table(Source, Branch)
  <1>1. NewBranch(b) \in Branch
    BY NewBranchIs
  <1>2. Put(m, s, NewBranch(b)) \in Table(Source, Branch)
    BY <1>1, TablePut
  <1> QED
    BY <1>2 DEF SetSceneItemState

\* What is seen and heard of the active scene does not tell g from h.
Steady(g, h) ==
    /\ h.active = g.active
    /\ DOMAIN g.sources \subseteq DOMAIN h.sources
    /\ \A s \in DOMAIN g.sources : h.sources[s].filters = g.sources[s].filters
    /\ h.active \in DOMAIN h.scenes <=> g.active \in DOMAIN g.scenes
    /\ g.active \in DOMAIN g.scenes =>
          /\ h.scenes[g.active].filters = g.scenes[g.active].filters
          /\ SameLooks(g.scenes[g.active].items, h.scenes[g.active].items)

\* The sources' own audio bindings too.
SameAudio(g, h) == \A s \in DOMAIN g.sources : h.sources[s].audio = g.sources[s].audio
SameAudioBut(g, h, x) ==
    \A s \in DOMAIN g.sources \ {x} : h.sources[s].audio = g.sources[s].audio

LEMMA SteadySeen ==
    ASSUME NEW g, NEW h, ItemsKnown(g), Steady(g, h)
    PROVE  /\ \A p : Current(g, p) => Current(h, p)
           /\ \A m : SameAudio(g, h) /\ OnAirOnly(g, m) => OnAirOnly(h, m)
           /\ \A m, x : SameAudioBut(g, h, x) /\ OnAirOnly(g, m) => OnAirBut(h, m, x)
  <1> DEFINE a == g.active
             s == g.scenes[a].items
             t == h.scenes[a].items
  <1>1. ASSUME a \in DOMAIN g.scenes
        PROVE  /\ CompItems(h, h.active) = CompItems(g, g.active)
               /\ \A x : (Bound(h, x) <=> Bound(g, x)) /\ (Unsilenced(h, x) <=> Unsilenced(g, x))
    <2>1. h.active = a /\ a \in DOMAIN h.scenes /\ SameLooks(s, t)
          /\ h.scenes[a].filters = g.scenes[a].filters
      BY <1>1 DEF Steady
    <2>2. ASSUME NEW i \in DOMAIN s
          PROVE  CompItem(h, a, t[i]) = CompItem(g, a, s[i])
      <3>1. s[i].src \in DOMAIN g.sources /\ t[i].src = s[i].src /\ t[i].shown = s[i].shown
        BY <1>1, <2>1 DEF ItemsKnown, SameLooks
      <3>2. t[i].src \in DOMAIN h.sources /\ h.sources[t[i].src].filters = g.sources[s[i].src].filters
        BY <3>1 DEF Steady
      <3> HIDE DEF s, t, a
      <3>3. Look(h, a, t[i].src) = Look(g, a, s[i].src)
        BY <2>1, <3>2 DEF Look
      <3> QED
        BY <3>1, <3>2, <3>3 DEF CompItem
    <2>3. CompItems(h, h.active) = CompItems(g, g.active)
      <3>1. CompItems(h, h.active) = [i \in DOMAIN t |-> CompItem(h, a, t[i])]
        BY <2>1 DEF CompItems
      <3>2. CompItems(g, g.active) = [i \in DOMAIN s |-> CompItem(g, a, s[i])]
        BY <1>1 DEF CompItems
      <3>3. DOMAIN t = DOMAIN s
        BY <2>1 DEF SameLooks
      <3> HIDE DEF s, t, a
      <3> QED
        BY <3>1, <3>2, <3>3, <2>2
    <2>4. \A x : (Bound(h, x) <=> Bound(g, x)) /\ (Unsilenced(h, x) <=> Unsilenced(g, x))
      <3> SUFFICES ASSUME NEW x
                   PROVE  (Bound(h, x) <=> Bound(g, x)) /\ (Unsilenced(h, x) <=> Unsilenced(g, x))
        OBVIOUS
      <3>1. AirItems(g) = s /\ AirItems(h) = t
        BY <2>1 DEF AirItems
      <3>2. OnAir(g) = {i \in DOMAIN s : s[i].shown} /\ OnAir(h) = {i \in DOMAIN t : t[i].shown}
        BY <1>1, <2>1, <3>1 DEF OnAir
      <3> HIDE DEF s, t, a
      <3>3. OnAir(h) = OnAir(g) /\ \A i \in OnAir(g) : i \in DOMAIN s
        BY <2>1, <3>2 DEF SameLooks
      <3>4. \A i \in OnAir(g) : AirItems(h)[i].src = AirItems(g)[i].src
                                 /\ AirItems(h)[i].audio = AirItems(g)[i].audio
        BY <2>1, <3>1, <3>3 DEF SameLooks
      <3>5. \A i \in OnAir(g) : Binds(h, x, i) <=> Binds(g, x, i)
        BY <3>3, <3>4 DEF Binds
      <3> QED
        BY <3>3, <3>4, <3>5 DEF Bound, Unsilenced
    <2> QED
      BY <2>3, <2>4
  <1>2. ASSUME a \notin DOMAIN g.scenes
        PROVE  /\ CompItems(h, h.active) = CompItems(g, g.active)
               /\ \A x : (Bound(h, x) <=> Bound(g, x)) /\ (Unsilenced(h, x) <=> Unsilenced(g, x))
    <2>1. h.active \notin DOMAIN h.scenes
      BY <1>2 DEF Steady
    <2>2. CompItems(h, h.active) = <<>> /\ CompItems(g, g.active) = <<>>
      BY <1>2, <2>1 DEF CompItems
    <2>3. OnAir(h) = {} /\ OnAir(g) = {}
      BY <1>2, <2>1 DEF OnAir
    <2>4. \A x : ~ Bound(h, x) /\ ~ Bound(g, x) /\ ~ Unsilenced(h, x) /\ ~ Unsilenced(g, x)
      BY <2>3 DEF Bound, Unsilenced
    <2> QED
      BY <2>2, <2>4
  <1>3. /\ CompItems(h, h.active) = CompItems(g, g.active)
        /\ \A x : (Bound(h, x) <=> Bound(g, x)) /\ (Unsilenced(h, x) <=> Unsilenced(g, x))
    BY <1>1, <1>2
  <1>4. \A p : Current(g, p) => Current(h, p)
    BY <1>3 DEF Current, Steady
  <1>5. \A x : Bound(g, x) => x \in DOMAIN g.sources
    <2>1. \A i \in OnAir(g) : a \in DOMAIN g.scenes /\ i \in DOMAIN s /\ AirItems(g) = s
      BY DEF OnAir, AirItems
    <2> QED
      BY <2>1 DEF Bound, Binds, ItemsKnown
  <1>6. \A x : MayBeHeard(g, x) /\ h.sources[x].audio = g.sources[x].audio => MayBeHeard(h, x)
    BY <1>3 DEF MayBeHeard
  <1>7. h.active = g.active /\ \A x : MayBeHeard(g, x) => x \in DOMAIN g.sources
    BY <1>5 DEF Steady, MayBeHeard
  <1>8. \A m : SameAudio(g, h) /\ OnAirOnly(g, m) => OnAirOnly(h, m)
    BY <1>3, <1>6, <1>7 DEF OnAirOnly, SameAudio
  <1>9. \A m, x : SameAudioBut(g, h, x) /\ OnAirOnly(g, m) => OnAirBut(h, m, x)
    BY <1>3, <1>6, <1>7 DEF OnAirOnly, OnAirBut, SameAudioBut
  <1> QED
    BY <1>4, <1>8, <1>9

LEMMA SteadySource ==
    ASSUME NEW g, NEW h, NEW s, NEW r, SetsSource(g, h, s, r),
           s \in DOMAIN g.sources => r.filters = g.sources[s].filters
    PROVE  /\ Steady(g, h) /\ SameAudioBut(g, h, s)
           /\ (s \in DOMAIN g.sources => r.audio = g.sources[s].audio) => SameAudio(g, h)
  <1>1. \A x \in DOMAIN g.sources : x \in DOMAIN h.sources /\ h.sources[x].filters = g.sources[x].filters
    BY DEF SetsSource
  <1>2. Steady(g, h)
    BY <1>1 DEF SetsSource, Steady, SameChoice, SameScenes, SameLooks
  <1> QED
    BY <1>2 DEF SetsSource, SameAudio, SameAudioBut

LEMMA SteadyItems ==
    ASSUME NEW g, NEW h, NEW sc, Rearranges(g, h, sc),
           SameLooks(g.scenes[sc].items, h.scenes[sc].items)
    PROVE  Steady(g, h) /\ SameAudio(g, h)
  <1> DEFINE s == h.scenes[sc].items
  <1>1. SetsItems(g, h, sc, s) /\ sc \in DOMAIN g.scenes
    BY DEF Rearranges
  <1>2. /\ h.active = g.active /\ h.sources = g.sources /\ DOMAIN h.scenes = DOMAIN g.scenes
        /\ h.scenes[sc].filters = g.scenes[sc].filters
        /\ \A x \in DOMAIN g.scenes \ {sc} : h.scenes[x] = g.scenes[x]
    BY <1>1 DEF SetsItems, SameSources, SameChoice
  <1> QED
    BY <1>2 DEF Steady, SameAudio, SameLooks

LEMMA SteadySame ==
    ASSUME NEW g, NEW h, h.sources = g.sources, h.active = g.active,
           g.active \in DOMAIN h.scenes <=> g.active \in DOMAIN g.scenes,
           \A x \in DOMAIN h.scenes : h.scenes[x] = g.scenes[x]
    PROVE  Steady(g, h) /\ SameAudio(g, h)
  BY DEF Steady, SameAudio, SameLooks

-----------------------------------------------------------------------------
(* SceneControl: the inductive invariant.                                  *)

IInvOf(g, w, m, p, t) ==
    /\ g \in GraphRec /\ m \in Table(Source, Branch) /\ t \subseteq Scene
    /\ Sound(g, t) /\ WorkersOK(g, w) /\ Current(g, p) /\ OnAirOnly(g, m)

IInv == IInvOf(graph, workers, mixer, pushed, torn)

LEMMA NoRefreshes ==
    ASSUME NEW g \in GraphRec, NEW m \in Table(Source, Branch), NoRefresh(g, m),
           torn' \subseteq Scene, Sound(g, torn'), WorkersOK(g, workers'),
           Current(g, pushed), OnAirOnly(g, m)
    PROVE  IInv'
  BY DEF NoRefresh, IInv, IInvOf

LEMMA Refreshes ==
    ASSUME NEW g \in GraphRec, NEW m \in Table(Source, Branch), Refresh(g, m),
           torn' \subseteq Scene, Sound(g, torn'), WorkersOK(g, workers')
    PROVE  IInv'
  <1>1. PICK h \in Refreshed(g) :
            graph' = h /\ mixer' = OnSceneChange(h, m) /\ pushed' = BuildCompositorState(h)
    BY DEF Refresh
  <1>2. h = g \/ h = TransitionOver(g)
    BY DEF Refreshed
  <1>3. h \in GraphRec /\ SameSeen(g, h) /\ Sound(h, torn')
    <2>1. CASE h = g
      BY <2>1 DEF SameSeen
    <2>2. CASE h = TransitionOver(g)
      <3> HIDE DEF IInv
      <3>1. LET k == TransitionOver(g)
            IN  k \in GraphRec /\ SameSeen(g, k) /\ Sound(k, torn')
        BY RestSet
      <3> QED
        BY <2>2, <3>1
    <2> QED
      BY <1>2, <2>1, <2>2
  <1>4. WorkersOK(h, workers')
    <2>1. SameSources(g, h) /\ \A x : NoRefs(g, x) => NoRefs(h, x)
      BY <1>3 DEF SameSeen, SameSources, NoRefs
    <2> QED
      BY <2>1, WorkersStay
  <1>5. Current(h, BuildCompositorState(h))
    BY <1>3, BuiltIsCurrent DEF Sound
  <1>6. OnSceneChange(h, m) \in Table(Source, Branch) /\ OnAirOnly(h, OnSceneChange(h, m))
    BY <1>3, FollowsScene
  <1> QED
    BY <1>1, <1>3, <1>4, <1>5, <1>6 DEF IInv, IInvOf

\* sync_alsa_audio_source_config, of a graph that has the source.
LEMMA Synced ==
    ASSUME NEW g \in GraphRec, NEW s \in DOMAIN g.sources, NEW t, Sound(g, t)
    PROVE  LET a == SyncAlsa(g, s)
           IN  /\ a \in GraphRec /\ Sound(a, t) /\ Steady(g, a) /\ SameAudioBut(g, a, s)
               /\ a.sources[s].kind # "alsa" => SameAudio(g, a)
               /\ SetsSource(g, a, s, a.sources[s])
               /\ a.sources[s].running = g.sources[s].running
               /\ a.sources[s].kind = g.sources[s].kind
               /\ a.sources[s].muted = g.sources[s].muted
  <1> DEFINE a == SyncAlsa(g, s)
  <1>1. PICK r \in SourceRec :
              /\ SetsSource(g, a, s, r)
              /\ r.running = g.sources[s].running /\ r.kind = g.sources[s].kind
              /\ r.muted = g.sources[s].muted /\ r.filters = g.sources[s].filters
              /\ r.kind # "alsa" => r.audio = g.sources[s].audio
    BY SyncAlsaIs
  <1>2. a.sources[s] = r /\ a \in GraphRec
    BY <1>1 DEF SetsSource
  <1> HIDE DEF a
  <1>3. Sound(a, t)
    BY <1>1, SetsSound
  <1>4. Steady(g, a) /\ SameAudioBut(g, a, s) /\ (r.kind # "alsa" => SameAudio(g, a))
    BY <1>1, SteadySource
  <1> QED
    BY <1>1, <1>2, <1>3, <1>4 DEF a

\* h is g with source s running, or stopped.
Runs(g, h, s, b) ==
    /\ h \in GraphRec /\ Steady(g, h) /\ SameAudio(g, h)
    /\ SetsSource(g, h, s, h.sources[s])
    /\ h.sources[s].running <=> b
    /\ h.sources[s].kind = g.sources[s].kind
    /\ h.sources[s].muted = g.sources[s].muted

LEMMA RunSet ==
    ASSUME NEW g \in GraphRec, NEW s \in DOMAIN g.sources
    PROVE  Runs(g, Running(g, s), s, TRUE) /\ Runs(g, Stopped(g, s), s, FALSE)
  <1>1. ASSUME NEW b \in BOOLEAN PROVE Runs(g, [g EXCEPT !.sources[s].running = b], s, b)
    <2> DEFINE r == [g.sources[s] EXCEPT !.running = b]
               h == [g EXCEPT !.sources[s].running = b]
    <2>1. SetsSource(g, h, s, r)
      <3>1. NoEntries \in Filters
        BY NoEntriesIs DEF Filters
      <3>2. \A c \in BOOLEAN : SetsSource(g, [g EXCEPT !.sources[s].running = c], s,
                                          [g.sources[s] EXCEPT !.running = c])
        BY <3>1, SourceSets
      <3> QED
        BY <3>2
    <2>2. r.running = b /\ r.kind = g.sources[s].kind /\ r.muted = g.sources[s].muted
          /\ r.filters = g.sources[s].filters /\ r.audio = g.sources[s].audio
      BY GraphFacts DEF SourceRec
    <2> HIDE DEF r, h
    <2>3. h.sources[s] = r /\ h \in GraphRec
      BY <2>1 DEF SetsSource
    <2>4. Steady(g, h) /\ SameAudio(g, h)
      BY <2>1, <2>2, SteadySource
    <2> QED
      BY <2>1, <2>2, <2>3, <2>4 DEF Runs, h
  <1> QED
    BY <1>1 DEF Running, Stopped

\* start_source: the graph, the mixer and the workers it leaves.
LEMMA StartIs ==
    ASSUME NEW g \in GraphRec, NEW s \in DOMAIN g.sources, NEW t, Sound(g, t),
           NEW w, WorkersOK(g, w), NEW m \in Table(Source, Branch)
    PROVE  LET a == SyncAlsa(g, s)
               h == Running(a, s)
               n == SetSourceState(a, s, m)
               k == Running(g, s)
           IN  /\ g.sources[s].kind = "alsa" =>
                     /\ h \in GraphRec /\ Sound(h, t) /\ WorkersOK(h, w)
                     /\ n \in Table(Source, Branch)
                     /\ \A p : Current(g, p) => Current(h, p)
                     /\ OnAirOnly(g, m) => OnAirOnly(h, n)
               /\ g.sources[s].kind # "alsa" =>
                     /\ k \in GraphRec /\ Sound(k, t) /\ WorkersOK(k, Put(w, s, FALSE))
                     /\ \A p : Current(g, p) => Current(k, p)
                     /\ OnAirOnly(g, m) => OnAirOnly(k, m)
  <1> DEFINE a == SyncAlsa(g, s)
             h == Running(a, s)
             n == SetSourceState(a, s, m)
             k == Running(g, s)
  <1>0. s \in Source
    BY GraphFacts
  <1>1. /\ a \in GraphRec /\ Sound(a, t) /\ Steady(g, a) /\ SameAudioBut(g, a, s)
        /\ SetsSource(g, a, s, a.sources[s])
        /\ a.sources[s].kind = g.sources[s].kind
    BY Synced
  <1>2. s \in DOMAIN a.sources
    BY <1>1 DEF SetsSource
  <1>10. n \in Table(Source, Branch) /\ (OnAirBut(a, m, s) => OnAirOnly(a, n))
    <2> HIDE DEF a
    <2> QED BY <1>1, <1>2, SourceHeard DEF n
  <1> HIDE DEF a, h, k, n
  <1>3. Runs(a, h, s, TRUE) /\ Runs(g, k, s, TRUE)
    BY <1>1, <1>2, RunSet DEF h, k
  <1>4. /\ h \in GraphRec /\ Sound(h, t) /\ Steady(a, h) /\ SameAudio(a, h)
        /\ SetsSource(a, h, s, h.sources[s])
        /\ h.sources[s].running /\ h.sources[s].kind = a.sources[s].kind
    BY <1>1, <1>3, SetsSound DEF Runs
  <1>5. /\ k \in GraphRec /\ Sound(k, t) /\ Steady(g, k) /\ SameAudio(g, k)
        /\ SetsSource(g, k, s, k.sources[s])
        /\ k.sources[s].running /\ k.sources[s].kind = g.sources[s].kind
    BY <1>3, SetsSound DEF Runs
  <1>6. SetsSource(g, h, s, h.sources[s])
    BY <1>1, <1>4, SetsTwice
  <1>7. ItemsKnown(g) /\ ItemsKnown(a)
    BY <1>1 DEF Sound
  <1>8. ASSUME g.sources[s].kind = "alsa"
        PROVE  /\ WorkersOK(h, w)
               /\ \A p : Current(g, p) => Current(h, p)
               /\ OnAirOnly(g, m) => OnAirOnly(h, n)
    <2>1. s \notin DOMAIN w
      BY <1>8, EntryIs DEF WorkersOK
    <2>2. WorkersOK(h, w)
      BY <1>0, <1>1, <1>4, <1>6, <1>8, <2>1, WorkersFollow
    <2>3. \A p : Current(g, p) => Current(h, p)
      BY <1>1, <1>4, <1>7, SteadySeen
    <2>4. OnAirOnly(g, m) => OnAirBut(a, m, s)
      BY <1>1, <1>7, SteadySeen
    <2>5. OnAirOnly(a, n) => OnAirOnly(h, n)
      BY <1>4, <1>7, SteadySeen
    <2> QED
      BY <1>10, <2>2, <2>3, <2>4, <2>5
  <1>9. ASSUME g.sources[s].kind # "alsa"
        PROVE  /\ WorkersOK(k, Put(w, s, FALSE))
               /\ \A p : Current(g, p) => Current(k, p)
               /\ OnAirOnly(g, m) => OnAirOnly(k, m)
    <2>1. WorkersOK(k, Put(w, s, FALSE))
      BY <1>0, <1>5, <1>9, WorkersFollow
    <2> QED
      BY <2>1, <1>5, <1>7, SteadySeen
  <1> QED
    BY <1>4, <1>5, <1>8, <1>9, <1>10 DEF a, h, k, n

\* start_source by a client, and on the way to a refresh.
LEMMA StartKeeps ==
    ASSUME NEW g \in GraphRec, NEW s \in DOMAIN g.sources, Sound(g, torn'), torn' \subseteq Scene,
           WorkersOK(g, workers), mixer \in Table(Source, Branch)
    PROVE  /\ StartSource(g, s, NoRefresh) /\ Current(g, pushed) /\ OnAirOnly(g, mixer) => IInv'
           /\ StartSource(g, s, Refresh) => IInv'
  <1> DEFINE a == SyncAlsa(g, s)
             h == Running(a, s)
             n == SetSourceState(a, s, mixer)
             k == Running(g, s)
  <1>1. g.sources[s].kind = "alsa" =>
           /\ h \in GraphRec /\ Sound(h, torn') /\ WorkersOK(h, workers)
           /\ n \in Table(Source, Branch)
           /\ \A p : Current(g, p) => Current(h, p)
           /\ OnAirOnly(g, mixer) => OnAirOnly(h, n)
    BY StartIs
  <1>2. g.sources[s].kind # "alsa" =>
           /\ k \in GraphRec /\ Sound(k, torn') /\ WorkersOK(k, Put(workers, s, FALSE))
           /\ \A p : Current(g, p) => Current(k, p)
           /\ OnAirOnly(g, mixer) => OnAirOnly(k, mixer)
    BY StartIs
  <1>3. ASSUME StartSource(g, s, NoRefresh), Current(g, pushed), OnAirOnly(g, mixer) PROVE IInv'
    <2>1. \/ g.sources[s].kind = "alsa" /\ NoRefresh(h, n) /\ workers' = workers
          \/ g.sources[s].kind # "alsa" /\ workers' = Put(workers, s, FALSE) /\ NoRefresh(k, mixer)
          \/ NoRefresh(g, mixer) /\ workers' = workers
      BY <1>3 DEF StartSource, Unmuted
    <2> HIDE DEF h, n, k
    <2>2. CASE g.sources[s].kind = "alsa" /\ NoRefresh(h, n) /\ workers' = workers
      BY <1>1, <1>3, <2>2, NoRefreshes
    <2>3. CASE g.sources[s].kind # "alsa" /\ workers' = Put(workers, s, FALSE)
               /\ NoRefresh(k, mixer)
      BY <1>2, <1>3, <2>3, NoRefreshes
    <2>4. CASE NoRefresh(g, mixer) /\ workers' = workers
      BY <1>3, <2>4, NoRefreshes
    <2> QED
      BY <2>1, <2>2, <2>3, <2>4
  <1>4. ASSUME StartSource(g, s, Refresh) PROVE IInv'
    <2>1. \/ g.sources[s].kind = "alsa" /\ Refresh(h, n) /\ workers' = workers
          \/ g.sources[s].kind # "alsa" /\ workers' = Put(workers, s, FALSE) /\ Refresh(k, mixer)
          \/ Refresh(g, mixer) /\ workers' = workers
      BY <1>4 DEF StartSource, Unmuted
    <2> HIDE DEF h, n, k
    <2>2. CASE g.sources[s].kind = "alsa" /\ Refresh(h, n) /\ workers' = workers
      BY <1>1, <2>2, Refreshes
    <2>3. CASE g.sources[s].kind # "alsa" /\ workers' = Put(workers, s, FALSE)
               /\ Refresh(k, mixer)
      BY <1>2, <2>3, Refreshes
    <2>4. CASE Refresh(g, mixer) /\ workers' = workers
      BY <2>4, Refreshes
    <2> QED
      BY <2>1, <2>2, <2>3, <2>4
  <1> QED
    BY <1>3, <1>4

LEMMA InvFacts ==
    ASSUME IInv
    PROVE  /\ graph \in GraphRec /\ mixer \in Table(Source, Branch) /\ torn \subseteq Scene
           /\ Sound(graph, torn) /\ ItemsKnown(graph) /\ WorkersOK(graph, workers)
           /\ Current(graph, pushed) /\ OnAirOnly(graph, mixer)
  BY DEF IInv, IInvOf, Sound

\* source.*
LEMMA SourceCreateKeeps ==
    ASSUME IInv, NEW s \in Source, NEW kind \in Kinds, SourceCreate(s, kind)
    PROVE  IInv'
  <1> DEFINE b == CreateSource(graph, s, kind, kind = "capture")
             g == SyncAlsa(b, s)
  <1>1. /\ s \notin DOMAIN graph.sources /\ torn' = torn
        /\ IF kind = "capture" THEN StartSource(g, s, NoRefresh)
           ELSE NoRefresh(g, mixer) /\ workers' = workers
    BY DEF SourceCreate
  <1>2. SetsSource(graph, b, s, NewSource(kind, kind = "capture"))
    <2> DEFINE r == NewSource(kind, kind = "capture")
    <2>1. r \in SourceRec
      <3>1. NoEntries \in Filters
        BY NoEntriesIs DEF Filters
      <3> QED
        BY <3>1 DEF NewSource, SourceRec, NoAudio, AudioBinding
    <2>2. b = [graph EXCEPT !.sources = Put(@, s, r)]
      BY DEF CreateSource
    <2> HIDE DEF r, b
    <2> QED
      BY <2>1, <2>2, SourcePut, InvFacts DEF r
  <1> HIDE DEF b
  <1>3. b \in GraphRec /\ s \in DOMAIN b.sources /\ Sound(b, torn) /\ ~ b.sources[s].running
    BY <1>2, SetsSound, InvFacts DEF SetsSource, NewSource
  <1>4. /\ g \in GraphRec /\ Sound(g, torn) /\ SetsSource(b, g, s, g.sources[s])
        /\ g.sources[s].running = b.sources[s].running
    BY <1>3, Synced
  <1> HIDE DEF g
  <1>5. SetsSource(graph, g, s, g.sources[s]) /\ ~ g.sources[s].running
    BY <1>2, <1>3, <1>4, SetsTwice
  <1>6. WorkersOK(g, workers)
    <2>1. s \notin DOMAIN workers
      BY <1>1, EntryIs, InvFacts DEF WorkersOK
    <2> QED
      BY <1>5, <2>1, WorkersFollow, InvFacts
  <1>7. Current(g, pushed) /\ OnAirOnly(g, mixer)
    <2>1. Steady(graph, g) /\ SameAudio(graph, g)
      BY <1>1, <1>5, SteadySource
    <2> QED
      BY <2>1, SteadySeen, InvFacts
  <1>8. s \in DOMAIN g.sources /\ Sound(g, torn') /\ torn' \subseteq Scene
        /\ mixer \in Table(Source, Branch)
    BY <1>1, <1>4, <1>5, InvFacts DEF SetsSource
  <1>9. CASE kind = "capture"
    BY <1>1, <1>4, <1>6, <1>7, <1>8, <1>9, StartKeeps
  <1>10. CASE kind # "capture"
    BY <1>1, <1>4, <1>6, <1>7, <1>8, <1>10, NoRefreshes
  <1> QED
    BY <1>9, <1>10

LEMMA SourceUpdateKeeps ==
    ASSUME IInv, NEW s \in Source, NEW enabled \in BOOLEAN, NEW keep \in BOOLEAN,
           NEW config \in BOOLEAN, SourceUpdate(s, enabled, keep, config)
    PROVE  IInv'
  <1> DEFINE b == UpdateSource(graph, s, enabled, keep)
             g == SyncAlsa(b, s)
             alsa == g.sources[s].kind = "alsa"
             m == IF alsa THEN SetSourceState(g, s, mixer) ELSE mixer
  <1>1. /\ s \in DOMAIN graph.sources /\ torn' = torn
        /\ IF config /\ g.sources[s].running /\ ~ alsa
           THEN \/ NoRefresh(g, mixer) /\ workers' = Put(workers, s, FALSE)
                \/ NoRefresh(Stopped(g, s), mixer) /\ workers' = Drop(workers, s)
           ELSE NoRefresh(g, m) /\ workers' = workers
    BY DEF SourceUpdate, Unmuted
  <1>2. /\ SetsSource(graph, b, s, b.sources[s])
        /\ b.sources[s].running = graph.sources[s].running
        /\ b.sources[s].kind = graph.sources[s].kind
        /\ b.sources[s].muted = graph.sources[s].muted
        /\ b.sources[s].filters = graph.sources[s].filters
        /\ b.sources[s].audio = graph.sources[s].audio
    <2> DEFINE r == [graph.sources[s] EXCEPT !.enabled = enabled, !.keep = keep]
    <2>1. SetsSource(graph, b, s, r)
      <3>1. NoEntries \in Filters
        BY NoEntriesIs DEF Filters
      <3>2. \A c, d \in BOOLEAN :
               SetsSource(graph, UpdateSource(graph, s, c, d), s,
                          [graph.sources[s] EXCEPT !.enabled = c, !.keep = d])
        BY <1>1, <3>1, SourceSets, InvFacts
      <3> QED
        BY <3>2
    <2>2. /\ r.running = graph.sources[s].running /\ r.kind = graph.sources[s].kind
          /\ r.muted = graph.sources[s].muted /\ r.filters = graph.sources[s].filters
          /\ r.audio = graph.sources[s].audio
      BY <1>1, InvFacts, GraphFacts DEF SourceRec
    <2> HIDE DEF r, b
    <2> QED
      BY <2>1, <2>2 DEF SetsSource
  <1> HIDE DEF b
  <1>3. b \in GraphRec /\ s \in DOMAIN b.sources /\ Sound(b, torn)
    BY <1>2, SetsSound, InvFacts DEF SetsSource
  <1>4. /\ g \in GraphRec /\ Sound(g, torn) /\ SetsSource(b, g, s, g.sources[s])
        /\ Steady(b, g) /\ SameAudioBut(b, g, s) /\ (~ alsa => SameAudio(b, g))
        /\ g.sources[s].running = b.sources[s].running
        /\ g.sources[s].kind = b.sources[s].kind /\ g.sources[s].muted = b.sources[s].muted
    BY <1>3, Synced
  <1> HIDE DEF g
  <1>5. SetsSource(graph, g, s, g.sources[s])
    BY <1>2, <1>4, SetsTwice
  <1>6. Current(g, pushed) /\ OnAirBut(g, mixer, s) /\ (~ alsa => OnAirOnly(g, mixer))
    <2>1. Steady(graph, b) /\ SameAudio(graph, b)
      BY <1>1, <1>2, SteadySource
    <2>2. ItemsKnown(graph) /\ ItemsKnown(b)
      BY <1>3, InvFacts DEF Sound
    <2>3. Current(b, pushed) /\ OnAirOnly(b, mixer)
      BY <2>1, <2>2, SteadySeen, InvFacts
    <2> QED
      BY <1>4, <2>2, <2>3, SteadySeen
  <1>7. s \in DOMAIN g.sources /\ Sound(g, torn') /\ torn' \subseteq Scene
        /\ mixer \in Table(Source, Branch)
    BY <1>1, <1>4, <1>5, InvFacts DEF SetsSource
  <1>8. WorkersOK(g, workers)
    <2>1. IF g.sources[s].running /\ g.sources[s].kind # "alsa"
          THEN s \in DOMAIN workers /\ (workers[s] => g.sources[s].muted)
          ELSE s \notin DOMAIN workers
      BY <1>1, <1>2, <1>4, EntryIs, InvFacts DEF WorkersOK
    <2> QED
      BY <1>5, <2>1, WorkersFollow, InvFacts
  <1>9. CASE g.sources[s].running /\ ~ alsa /\ NoRefresh(g, mixer)
             /\ workers' = Put(workers, s, FALSE)
    <2>1. WorkersOK(g, Put(workers, s, FALSE))
      BY <1>5, <1>9, WorkersFollow, InvFacts
    <2> QED
      BY <1>4, <1>6, <1>7, <1>9, <2>1, NoRefreshes
  <1>10. CASE ~ alsa /\ NoRefresh(Stopped(g, s), mixer) /\ workers' = Drop(workers, s)
    <2> DEFINE h == Stopped(g, s)
    <2>1. Runs(g, h, s, FALSE)
      BY <1>4, <1>7, RunSet
    <2> HIDE DEF h
    <2>2. h \in GraphRec /\ Sound(h, torn') /\ Steady(g, h) /\ SameAudio(g, h)
      BY <1>7, <2>1, SetsSound DEF Runs
    <2>3. WorkersOK(h, Drop(workers, s))
      BY <1>8, <2>1, WorkersFollow DEF Runs
    <2>4. Current(h, pushed) /\ OnAirOnly(h, mixer)
      BY <1>4, <1>6, <1>10, <2>2, SteadySeen DEF Sound
    <2> QED
      BY <1>7, <1>10, <2>2, <2>3, <2>4, NoRefreshes DEF h
  <1>11. CASE NoRefresh(g, m) /\ workers' = workers
    <2>1. m \in Table(Source, Branch) /\ OnAirOnly(g, m)
      BY <1>4, <1>6, <1>7, SourceHeard
    <2> QED
      BY <1>4, <1>6, <1>7, <1>8, <1>11, <2>1, NoRefreshes
  <1> QED
    BY <1>1, <1>9, <1>10, <1>11

LEMMA SourceRemoveKeeps ==
    ASSUME IInv, NEW s \in Source, SourceRemove(s)
    PROVE  IInv'
  <1> DEFINE h == RemoveSource(graph, s)
             w == IF graph.sources[s].running /\ graph.sources[s].kind # "alsa"
                  THEN Drop(workers, s) ELSE workers
  <1>1. s \in DOMAIN graph.sources /\ torn' = torn /\ workers' = w /\ Refresh(h, mixer)
    BY DEF SourceRemove
  <1>2. /\ h \in GraphRec /\ Sound(h, torn) /\ h.sources = Drop(graph.sources, s)
        /\ \A x : NoRefs(graph, x) => NoRefs(h, x)
    BY SourceDropped, InvFacts
  <1> HIDE DEF h
  <1>3. DOMAIN h.sources = DOMAIN graph.sources \ {s}
        /\ \A x \in DOMAIN h.sources : h.sources[x] = graph.sources[x]
    <2> DEFINE d == Drop(graph.sources, s)
    <2>1. DOMAIN d = DOMAIN graph.sources \ {s}
          /\ \A x \in DOMAIN graph.sources \ {s} : d[x] = graph.sources[x]
      BY DropIs
    <2> HIDE DEF d
    <2> QED
      BY <1>2, <2>1 DEF d
  <1>4. WorkersOK(h, w)
    <2>1. DOMAIN w = DOMAIN workers \ {s} /\ \A x \in DOMAIN w : w[x] = workers[x]
      <3>1. CASE graph.sources[s].running /\ graph.sources[s].kind # "alsa"
        BY <3>1, DropIs
      <3>2. CASE ~ (graph.sources[s].running /\ graph.sources[s].kind # "alsa")
        <4>1. s \notin DOMAIN workers
          BY <3>2, EntryIs, InvFacts DEF WorkersOK
        <4> QED
          BY <3>2, <4>1
      <3> QED
        BY <3>1, <3>2
    <2>2. w \in Table(Source, BOOLEAN)
      BY TableDrop, InvFacts DEF WorkersOK
    <2> HIDE DEF w
    <2>3. \A x : x \in Entries(h) <=> x \in Entries(graph) /\ x # s
      BY <1>3, EntryIs
    <2>4. DOMAIN w = Entries(h)
      BY <2>1, <2>3, InvFacts DEF WorkersOK
    <2>5. \A x \in DOMAIN w : w[x] => NoRefs(h, x) /\ h.sources[x].muted
      <3>1. \A x \in DOMAIN w : x \in DOMAIN h.sources
        BY <2>4, EntryIs
      <3> QED
        BY <1>2, <1>3, <2>1, <3>1, InvFacts DEF WorkersOK
    <2> QED
      BY <2>2, <2>4, <2>5 DEF WorkersOK
  <1> HIDE DEF w
  <1> QED
    BY <1>1, <1>2, <1>4, Refreshes, InvFacts

LEMMA SourceStartKeeps ==
    ASSUME IInv, NEW s \in Source, SourceStart(s)
    PROVE  IInv'
  <1>1. s \in DOMAIN graph.sources /\ torn' = torn /\ StartSource(graph, s, NoRefresh)
    BY DEF SourceStart
  <1> QED
    BY <1>1, StartKeeps, InvFacts

LEMMA SourceStopKeeps ==
    ASSUME IInv, NEW s \in Source, SourceStop(s)
    PROVE  IInv'
  <1> DEFINE b == Stopped(graph, s)
             g == [b EXCEPT !.sources[s].audio.on = FALSE]
             m == SetSourceState(g, s, mixer)
  <1>1. /\ s \in DOMAIN graph.sources /\ torn' = torn
        /\ \/ graph.sources[s].kind = "alsa" /\ NoRefresh(g, m) /\ workers' = workers
           \/ NoRefresh(b, mixer) /\ workers' = Drop(workers, s)
    BY DEF SourceStop
  <1>2. Runs(graph, b, s, FALSE)
    BY <1>1, RunSet, InvFacts
  <1> HIDE DEF b
  <1>3. b \in GraphRec /\ s \in DOMAIN b.sources /\ Sound(b, torn) /\ ItemsKnown(b)
        /\ Current(b, pushed) /\ OnAirOnly(b, mixer)
    <2>1. Sound(b, torn)
      BY <1>2, SetsSound, InvFacts DEF Runs
    <2>2. Current(b, pushed) /\ OnAirOnly(b, mixer)
      BY <1>2, SteadySeen, InvFacts DEF Runs
    <2> QED
      BY <1>2, <2>1, <2>2 DEF Runs, SetsSource, Sound
  <1>4. CASE NoRefresh(b, mixer) /\ workers' = Drop(workers, s)
    <2>1. WorkersOK(b, Drop(workers, s))
      BY <1>2, WorkersFollow, InvFacts DEF Runs
    <2> QED
      BY <1>1, <1>3, <1>4, <2>1, NoRefreshes, InvFacts
  <1>5. CASE graph.sources[s].kind = "alsa" /\ NoRefresh(g, m) /\ workers' = workers
    <2> DEFINE r == [b.sources[s] EXCEPT !.audio = [@ EXCEPT !.on = FALSE]]
    <2>1. /\ SetsSource(b, g, s, r) /\ r \in SourceRec
          /\ r.filters = b.sources[s].filters /\ r.kind = b.sources[s].kind
          /\ r.running = b.sources[s].running
      BY <1>3, AudioOnSets
    <2>2. r.filters = b.sources[s].filters /\ r.kind = b.sources[s].kind
          /\ (r.running <=> b.sources[s].running)
      BY <2>1
    <2> HIDE DEF r, g, m
    <2>3. g \in GraphRec /\ s \in DOMAIN g.sources /\ g.sources[s] = r
      BY <2>1 DEF SetsSource
    <2>4. Sound(g, torn)
      BY <1>3, <2>1, SetsSound
    <2>5. Steady(b, g) /\ SameAudioBut(b, g, s)
      BY <2>1, <2>2, SteadySource
    <2>6. Current(g, pushed) /\ OnAirBut(g, mixer, s)
      BY <1>3, <2>5, SteadySeen
    <2>7. m \in Table(Source, Branch) /\ OnAirOnly(g, m)
      BY <2>3, <2>6, SourceHeard, InvFacts DEF m
    <2>8. SetsSource(graph, g, s, g.sources[s])
      BY <1>2, <2>1, <2>3, SetsTwice DEF Runs
    <2>9. WorkersOK(g, workers)
      <3>1. s \notin DOMAIN workers
        BY <1>5, EntryIs, InvFacts DEF WorkersOK
      <3>2. ~ g.sources[s].running
        BY <1>2, <2>2, <2>3 DEF Runs
      <3> QED
        BY <2>8, <3>1, <3>2, WorkersFollow, InvFacts
    <2> QED
      BY <1>1, <1>5, <2>3, <2>4, <2>6, <2>7, <2>9, NoRefreshes, InvFacts
  <1> QED
    BY <1>1, <1>4, <1>5

\* scene.*
LEMMA SceneStay ==
    ASSUME NEW h, IInv, ShowsNoMore(graph, h)
    PROVE  WorkersOK(h, workers)
  BY WorkersStay, InvFacts DEF ShowsNoMore

LEMMA SceneCreateKeeps ==
    ASSUME IInv, NEW sc \in Scene, SceneCreate(sc)
    PROVE  IInv'
  <1> DEFINE h == CreateScene(graph, sc)
  <1>1. sc \notin DOMAIN graph.scenes /\ Refresh(h, mixer) /\ workers' = workers /\ torn' = torn
    BY DEF SceneCreate
  <1>2. h \in GraphRec /\ ShowsNoMore(graph, h) /\ Sound(h, torn)
    BY <1>1, ScenePut, InvFacts
  <1> HIDE DEF h
  <1> QED
    BY <1>1, <1>2, SceneStay, Refreshes, InvFacts

LEMMA SceneRemoveKeeps ==
    ASSUME IInv, NEW sc \in Scene, SceneRemove(sc)
    PROVE  IInv'
  <1> DEFINE h == RemoveScene(graph, sc)
  <1>1. CanRemoveScene(graph, sc) /\ NoRefresh(h, mixer) /\ workers' = workers
        /\ torn' = torn \ {sc}
    BY DEF SceneRemove
  <1>2. /\ h \in GraphRec /\ ShowsNoMore(graph, h) /\ Sound(h, torn \ {sc})
        /\ h.active = graph.active
        /\ DOMAIN h.scenes = DOMAIN graph.scenes \ {sc}
        /\ \A x \in DOMAIN h.scenes : h.scenes[x] = graph.scenes[x]
    BY <1>1, SceneDropped, InvFacts
  <1> HIDE DEF h
  <1>3. Steady(graph, h) /\ SameAudio(graph, h)
    <2>1. graph.active # sc
      BY <1>1 DEF CanRemoveScene
    <2> QED
      BY <1>2, <2>1, SteadySame DEF ShowsNoMore, SameSources
  <1>4. Current(h, pushed) /\ OnAirOnly(h, mixer)
    BY <1>3, SteadySeen, InvFacts
  <1>5. torn' \subseteq Scene
    BY <1>1, InvFacts
  <1> QED
    BY <1>1, <1>2, <1>4, <1>5, SceneStay, NoRefreshes, InvFacts

LEMMA ActiveKeeps ==
    ASSUME IInv, NEW sc, NEW t \in Transition \cup {NONE}, CanSetActive(graph, sc, t),
           Refresh(SetActiveScene(graph, sc, t), mixer), workers' = workers, torn' = torn
    PROVE  IInv'
  <1> DEFINE h == SetActiveScene(graph, sc, t)
  <1>1. h \in GraphRec /\ ShowsNoMore(graph, h) /\ Sound(h, torn)
    BY ActiveSet, InvFacts
  <1>2. Refresh(h, mixer)
    OBVIOUS
  <1> HIDE DEF h
  <1> QED
    BY <1>1, <1>2, SceneStay, Refreshes, InvFacts

LEMMA SeenKeeps ==
    ASSUME IInv, NEW h \in GraphRec, SameSeen(graph, h), Sound(h, torn),
           NoRefresh(h, mixer), workers' = workers, torn' = torn
    PROVE  IInv'
  <1>1. Steady(graph, h) /\ SameAudio(graph, h)
    BY SteadySame DEF SameSeen
  <1>2. ShowsNoMore(graph, h)
    BY DEF SameSeen, ShowsNoMore, SameSources, NoRefs
  <1>3. Current(h, pushed) /\ OnAirOnly(h, mixer)
    BY <1>1, SteadySeen, InvFacts
  <1> QED
    BY <1>2, <1>3, SceneStay, NoRefreshes, InvFacts

LEMMA ChoiceKeeps ==
    ASSUME IInv,
           \/ \E sc \in Scene, t \in Transition \cup {NONE} : SceneSetActive(sc, t)
           \/ \E sc \in Scene \cup {NONE} : SceneSetPreview(sc)
           \/ \E t \in Transition \cup {NONE} : SceneTransitionToPreview(t)
           \/ \E t \in Transition, duration \in {0, 2000} : SceneTransitionUpdate(t, duration)
    PROVE  IInv'
  <1>1. ASSUME NEW sc \in Scene, NEW t \in Transition \cup {NONE}, SceneSetActive(sc, t)
        PROVE  IInv'
    BY <1>1, ActiveKeeps DEF SceneSetActive
  <1>2. ASSUME NEW sc \in Scene \cup {NONE}, SceneSetPreview(sc) PROVE IInv'
    <2> DEFINE h == SetPreviewScene(graph, sc)
    <2>1. sc \in DOMAIN graph.scenes \cup {NONE} /\ NoRefresh(h, mixer)
          /\ workers' = workers /\ torn' = torn
      BY <1>2 DEF SceneSetPreview
    <2>2. h \in GraphRec /\ SameSeen(graph, h) /\ Sound(h, torn)
      BY <2>1, RestSet, InvFacts
    <2> HIDE DEF h
    <2> QED
      BY <2>1, <2>2, SeenKeeps
  <1>3. ASSUME NEW t \in Transition \cup {NONE}, SceneTransitionToPreview(t) PROVE IInv'
    BY <1>3, ActiveKeeps DEF SceneTransitionToPreview
  <1>4. ASSUME NEW t \in Transition, NEW n \in {0, 2000}, SceneTransitionUpdate(t, n) PROVE IInv'
    <2> DEFINE h == UpdateTransition(graph, t, n)
    <2>1. NoRefresh(h, mixer) /\ workers' = workers /\ torn' = torn
      BY <1>4 DEF SceneTransitionUpdate
    <2>3. n \in Duration
      BY DEF Duration
    <2>2. h \in GraphRec /\ SameSeen(graph, h) /\ Sound(h, torn)
      BY <2>3, RestSet, InvFacts
    <2> HIDE DEF h
    <2> QED
      BY <2>1, <2>2, SeenKeeps
  <1> QED
    BY <1>1, <1>2, <1>3, <1>4

LEMMA ItemAddKeeps ==
    ASSUME IInv, NEW sc \in Scene, NEW s \in Source, NEW id \in Item \cup {AutoId},
           NEW z \in Depth, NEW shown \in BOOLEAN, SceneItemAdd(sc, s, id, z, shown)
    PROVE  IInv'
  <1> DEFINE g == AddItem(graph, sc, s, id, z, shown, graph.sources[s].audio)
             u == [w \in DOMAIN workers |-> w # s /\ workers[w]]
             h == [g EXCEPT !.sources[s].muted = FALSE]
  <1>1. /\ CanAddItem(graph, sc, s, id) /\ torn' = torn \ {sc}
        /\ IF ~ g.sources[s].running THEN StartSource(g, s, Refresh)
           ELSE IF g.sources[s].muted THEN Refresh(h, mixer) /\ workers' = u
           ELSE Refresh(g, mixer) /\ workers' = workers
    BY DEF SceneItemAdd
  <1>2. sc \in DOMAIN graph.scenes /\ s \in DOMAIN graph.sources /\ z \in Int
    BY <1>1, DepthAssumption DEF CanAddItem, DepthAssumption
  <1>3. /\ g \in GraphRec /\ SameSources(graph, g) /\ SameChoice(graph, g)
        /\ Sound(g, torn \ {sc})
        /\ \A x : x # s /\ NoRefs(graph, x) => NoRefs(g, x)
    <2>1. graph.sources[s].audio \in AudioBinding
      BY <1>2, GraphFacts, InvFacts DEF SourceRec
    <2>2. graph \in GraphRec /\ Sound(graph, torn)
      BY InvFacts
    <2> DEFINE au == graph.sources[s].audio
    <2>3. [id |-> id, src |-> s, z |-> z, shown |-> shown, audio |-> au] \in ItemRec
      BY <1>2, <2>1 DEF ItemRec
    <2>4. g = AddItem(graph, sc, s, id, z, shown, au)
      OBVIOUS
    <2> HIDE DEF au, g
    <2> QED
      BY <1>2, <2>2, <2>3, <2>4, AddedSound
  <1> HIDE DEF g
  <1>4. s \in DOMAIN g.sources /\ g.sources[s] = graph.sources[s]
        /\ torn' \subseteq Scene /\ Sound(g, torn') /\ mixer \in Table(Source, Branch)
    BY <1>1, <1>2, <1>3, InvFacts DEF SameSources
  \* Unless the source is muted, its worker is not.
  <1>5. ~ (s \in DOMAIN workers /\ workers[s]) => WorkersOK(g, workers)
    BY <1>3, WorkersStay, InvFacts
  <1>6. s \in DOMAIN workers /\ workers[s] => g.sources[s].muted /\ g.sources[s].running
    BY <1>4, EntryIs, InvFacts DEF WorkersOK
  <1>7. CASE ~ g.sources[s].running
    BY <1>1, <1>3, <1>4, <1>5, <1>6, <1>7, StartKeeps
  <1>8. CASE g.sources[s].running /\ g.sources[s].muted
    <2>1. SetsSource(g, h, s, [g.sources[s] EXCEPT !.muted = FALSE])
      <3>1. NoEntries \in Filters
        BY NoEntriesIs DEF Filters
      <3>2. \A c \in BOOLEAN : SetsSource(g, [g EXCEPT !.sources[s].muted = c], s,
                                          [g.sources[s] EXCEPT !.muted = c])
        BY <1>3, <1>4, <3>1, SourceSets
      <3> QED
        BY <3>2
    <2> DEFINE r == [g.sources[s] EXCEPT !.muted = FALSE]
    <2>2. r.running = g.sources[s].running /\ r.kind = g.sources[s].kind
      BY <1>3, <1>4, GraphFacts DEF SourceRec
    <2> HIDE DEF h, r
    <2>3. h \in GraphRec /\ Sound(h, torn')
      BY <1>4, <2>1, SetsSound DEF SetsSource, r
    <2>4. /\ \A x : x \in Entries(h) <=> x \in Entries(graph)
          /\ \A x \in DOMAIN graph.sources \ {s} : h.sources[x] = graph.sources[x]
      <3>1. /\ DOMAIN h.sources = DOMAIN graph.sources /\ s \in DOMAIN graph.sources
            /\ h.sources[s] = r /\ g.sources[s] = graph.sources[s]
            /\ \A x \in DOMAIN graph.sources \ {s} : h.sources[x] = graph.sources[x]
        BY <1>3, <1>4, <2>1 DEF SetsSource, SameSources, r
      <3>2. ASSUME NEW x PROVE x \in Entries(h) <=> x \in Entries(graph)
        <4>1. CASE x = s
          BY <2>2, <3>1, <4>1, EntryIs
        <4>2. CASE x # s
          BY <3>1, <4>2, EntryIs
        <4> QED
          BY <4>1, <4>2
      <3> QED
        BY <3>1, <3>2
    <2>5. u \in Table(Source, BOOLEAN) /\ DOMAIN u = DOMAIN workers
          /\ \A x \in DOMAIN u : u[x] => x # s /\ workers[x]
      <3>1. DOMAIN workers \in SUBSET Source
        BY TableIs, InvFacts DEF WorkersOK
      <3>2. DOMAIN u = DOMAIN workers /\ u \in [DOMAIN u -> BOOLEAN]
        OBVIOUS
      <3>3. \A x \in DOMAIN u : u[x] => x # s /\ workers[x]
        OBVIOUS
      <3> HIDE DEF u
      <3> QED
        BY <3>1, <3>2, <3>3, TableIs
    <2> HIDE DEF u
    <2>6. \A x : NoRefs(g, x) => NoRefs(h, x)
      BY <1>4, <2>1, SetsSound
    <2>7. \A x \in DOMAIN u : u[x] => NoRefs(h, x) /\ h.sources[x].muted
      <3> SUFFICES ASSUME NEW x \in DOMAIN u, u[x] PROVE NoRefs(h, x) /\ h.sources[x].muted
        OBVIOUS
      <3>1. x # s /\ x \in DOMAIN workers /\ workers[x]
        BY <2>5
      <3>2. NoRefs(graph, x) /\ graph.sources[x].muted /\ x \in DOMAIN graph.sources
        BY <3>1, EntryIs, InvFacts DEF WorkersOK
      <3> QED
        BY <1>3, <2>4, <2>6, <3>1, <3>2
    <2>8. WorkersOK(h, u)
      <3>1. DOMAIN u = Entries(h)
        BY <2>4, <2>5, InvFacts DEF WorkersOK
      <3> QED
        BY <2>5, <2>7, <3>1 DEF WorkersOK
    <2> QED
      BY <1>1, <1>4, <1>8, <2>3, <2>8, Refreshes
  <1>9. CASE g.sources[s].running /\ ~ g.sources[s].muted
    BY <1>1, <1>3, <1>4, <1>5, <1>6, <1>9, Refreshes
  <1> QED
    BY <1>7, <1>8, <1>9

LEMMA RearrangedStay ==
    ASSUME NEW h, NEW sc, IInv, Rearranges(graph, h, sc)
    PROVE  /\ h \in GraphRec /\ sc \in Scene /\ WorkersOK(h, workers)
           /\ h.sources = graph.sources
           /\ Sound(h, torn \cup {sc})
           /\ ItemsSorted(h.scenes[sc].items) => Sound(h, torn \ {sc})
           /\ (sc \notin torn => ItemsSorted(h.scenes[sc].items)) => Sound(h, torn)
           /\ \A x : NoRefs(graph, x) => NoRefs(h, x)
  <1> DEFINE s == h.scenes[sc].items
  <1>1. sc \in DOMAIN graph.scenes /\ SetsItems(graph, h, sc, s)
    BY DEF Rearranges
  <1>2. h \in GraphRec /\ SameSources(graph, h)
    BY <1>1 DEF SetsItems
  <1>3. sc \in Scene
    BY <1>1, GraphFacts, InvFacts
  <1>4. Sound(graph, torn)
    BY InvFacts
  <1>5. Sound(h, torn \cup {sc}) /\ \A x : NoRefs(graph, x) => NoRefs(h, x)
    <2>1. torn \subseteq (torn \cup {sc}) \cup {sc} /\ sc \in torn \cup {sc}
      OBVIOUS
    <2> QED
      BY <1>4, <2>1, RearrangedSound
  <1>6. ItemsSorted(s) => Sound(h, torn \ {sc})
    <2>1. torn \subseteq (torn \ {sc}) \cup {sc}
      OBVIOUS
    <2> QED
      BY <1>4, <2>1, RearrangedSound
  <1>7. (sc \notin torn => ItemsSorted(s)) => Sound(h, torn)
    <2>1. torn \subseteq torn \cup {sc}
      OBVIOUS
    <2> QED
      BY <1>4, <2>1, RearrangedSound
  <1>8. WorkersOK(h, workers)
    BY <1>2, <1>5, WorkersStay, InvFacts
  <1> QED
    BY <1>2, <1>3, <1>5, <1>6, <1>7, <1>8 DEF SameSources

LEMMA ItemUpdateKeeps ==
    ASSUME IInv, NEW sc \in Scene, NEW id, NEW z \in Depth, NEW shown \in BOOLEAN,
           SceneItemUpdate(sc, id, z, shown)
    PROVE  IInv'
  <1> DEFINE h == UpdateItem(graph, sc, id, z, shown)
  <1>1. HasItem(graph, sc, id) /\ Refresh(h, mixer) /\ torn' = torn \ {sc} /\ workers' = workers
    BY DEF SceneItemUpdate
  <1>2. Rearranges(graph, h, sc) /\ ItemsSorted(h.scenes[sc].items)
    <2>1. z \in Int
      BY DepthAssumption DEF DepthAssumption
    <2> QED
      BY <1>1, <2>1, ItemUpdated, InvFacts
  <1> HIDE DEF h
  <1>3. h \in GraphRec /\ WorkersOK(h, workers) /\ Sound(h, torn \ {sc})
    BY <1>2, RearrangedStay
  <1>4. torn' \subseteq Scene
    BY <1>1, InvFacts
  <1> QED
    BY <1>1, <1>3, <1>4, Refreshes, InvFacts

LEMMA ItemRemoveKeeps ==
    ASSUME IInv, NEW sc \in Scene, NEW id, SceneItemRemove(sc, id)
    PROVE  IInv'
  <1> DEFINE s == graph.scenes[sc].items[FindItem(graph, sc, id)].src
             g == RemoveItem(graph, sc, id)
             u == [w \in DOMAIN workers |-> w = s \/ workers[w]]
             h == [g EXCEPT !.sources[s].muted = TRUE]
  <1>1. /\ HasItem(graph, sc, id) /\ torn' = torn
        /\ IF Silenced(g, s) THEN Refresh(h, mixer) /\ workers' = u
           ELSE Refresh(g, mixer) /\ workers' = workers
    BY DEF SceneItemRemove
  <1>2. s \in DOMAIN graph.sources
    <2>1. FindItem(graph, sc, id) \in DOMAIN graph.scenes[sc].items /\ sc \in DOMAIN graph.scenes
      BY <1>1, FindItemIs, InvFacts DEF HasItem
    <2> QED
      BY <2>1, InvFacts DEF ItemsKnown
  <1>3. /\ Rearranges(graph, g, sc)
        /\ ItemsSorted(graph.scenes[sc].items) => ItemsSorted(g.scenes[sc].items)
    BY <1>1, ItemRemoved, InvFacts
  <1> HIDE DEF s, g
  <1>4. sc \notin torn => ItemsSorted(g.scenes[sc].items)
    BY <1>1, <1>3, InvFacts DEF HasItem, Sound, InOrder
  <1>5. /\ g \in GraphRec /\ WorkersOK(g, workers) /\ g.sources = graph.sources
        /\ Sound(g, torn) /\ s \in DOMAIN g.sources
    BY <1>2, <1>3, <1>4, RearrangedStay
  <1>6. CASE ~ Silenced(g, s)
    BY <1>1, <1>5, <1>6, Refreshes, InvFacts
  <1>7. CASE Silenced(g, s)
    <2>1. SetsSource(g, h, s, [g.sources[s] EXCEPT !.muted = TRUE])
      <3>1. NoEntries \in Filters
        BY NoEntriesIs DEF Filters
      <3>2. \A c \in BOOLEAN : SetsSource(g, [g EXCEPT !.sources[s].muted = c], s,
                                          [g.sources[s] EXCEPT !.muted = c])
        BY <1>5, <3>1, SourceSets
      <3> QED
        BY <3>2
    <2> DEFINE r == [g.sources[s] EXCEPT !.muted = TRUE]
    <2>2. r.running = g.sources[s].running /\ r.kind = g.sources[s].kind /\ r.muted
      BY <1>5, GraphFacts DEF SourceRec
    <2> HIDE DEF h, r
    <2>3. h \in GraphRec /\ Sound(h, torn) /\ \A x : NoRefs(g, x) => NoRefs(h, x)
      BY <1>5, <2>1, SetsSound DEF SetsSource, r
    <2>4. /\ DOMAIN h.sources = DOMAIN g.sources
          /\ h.sources[s] = r /\ \A x \in DOMAIN g.sources \ {s} : h.sources[x] = g.sources[x]
      BY <1>5, <2>1 DEF SetsSource, r
    <2>5. ASSUME NEW x PROVE x \in Entries(h) <=> x \in Entries(g)
      <3>1. CASE x = s
        BY <1>5, <2>2, <2>4, <3>1, EntryIs
      <3>2. CASE x # s
        BY <2>4, <3>2, EntryIs
      <3> QED
        BY <3>1, <3>2
    <2>6. u \in Table(Source, BOOLEAN) /\ DOMAIN u = DOMAIN workers
          /\ \A x \in DOMAIN u : u[x] => x = s \/ workers[x]
      <3>1. DOMAIN workers \in SUBSET Source
        BY TableIs, InvFacts DEF WorkersOK
      <3>2. DOMAIN u = DOMAIN workers /\ u \in [DOMAIN u -> BOOLEAN]
        OBVIOUS
      <3>3. \A x \in DOMAIN u : u[x] => x = s \/ workers[x]
        OBVIOUS
      <3> HIDE DEF u
      <3> QED
        BY <3>1, <3>2, <3>3, TableIs
    <2> HIDE DEF u
    <2>7. NoRefs(g, s)
      BY <1>7, RefsEmpty DEF Silenced
    <2>8. ASSUME NEW x \in DOMAIN u, u[x] PROVE NoRefs(h, x) /\ h.sources[x].muted
      <3>1. CASE x = s
        BY <2>2, <2>3, <2>4, <2>7, <3>1
      <3>2. CASE x # s
        <4>1. x \in DOMAIN workers /\ workers[x]
          BY <2>6, <2>8, <3>2
        <4>2. NoRefs(g, x) /\ g.sources[x].muted /\ x \in DOMAIN g.sources
          BY <4>1, <1>5, EntryIs DEF WorkersOK
        <4> QED
          BY <2>3, <2>4, <3>2, <4>2
      <3> QED
        BY <3>1, <3>2
    <2>9. DOMAIN u = Entries(h)
      BY <1>5, <2>5, <2>6 DEF WorkersOK
    <2>10. WorkersOK(h, u)
      BY <2>6, <2>8, <2>9 DEF WorkersOK
    <2> QED
      BY <1>1, <1>7, <2>3, <2>10, Refreshes, InvFacts
  <1> QED
    BY <1>6, <1>7

LEMMA ItemReorderKeeps ==
    ASSUME IInv, NEW sc \in DOMAIN graph.scenes, NEW order \in Orders(sc),
           SceneItemReorder(sc, order)
    PROVE  IInv'
  <1> DEFINE g == ReorderItems(graph, sc, order)
             refused == ReorderRefused(graph, sc, order)
  <1>1. /\ CanReorder(graph, sc, order) /\ workers' = workers
        /\ IF refused THEN NoRefresh(g, mixer) /\ torn' = torn \cup {sc}
           ELSE Refresh(g, mixer) /\ torn' = torn \ {sc}
    BY DEF SceneItemReorder
  <1>2. Len(order) \in Nat
    <2>1. graph.scenes[sc].items \in Items
      BY GraphFacts, InvFacts
    <2> QED
      BY <1>1, <2>1, ItemFacts DEF CanReorder
  <1>3. /\ Rearranges(graph, g, sc)
        /\ refused => SameLooks(graph.scenes[sc].items, g.scenes[sc].items)
        /\ ~ refused => ItemsSorted(g.scenes[sc].items)
    <2>1. graph \in GraphRec
      BY InvFacts
    <2> QED
      BY <1>2, <2>1, Reordered
  <1> HIDE DEF g, refused
  <1>4. /\ g \in GraphRec /\ sc \in Scene /\ WorkersOK(g, workers)
        /\ Sound(g, torn \cup {sc})
        /\ ItemsSorted(g.scenes[sc].items) => Sound(g, torn \ {sc})
    BY <1>3, RearrangedStay
  <1>5. torn' \subseteq Scene
    BY <1>1, <1>4, InvFacts
  <1>6. CASE refused
    <2>1. Steady(graph, g) /\ SameAudio(graph, g)
      BY <1>3, <1>6, SteadyItems
    <2>2. Current(g, pushed) /\ OnAirOnly(g, mixer)
      BY <2>1, SteadySeen, InvFacts
    <2> QED
      BY <1>1, <1>4, <1>5, <1>6, <2>2, NoRefreshes, InvFacts
  <1>7. CASE ~ refused
    BY <1>1, <1>3, <1>4, <1>5, <1>7, Refreshes, InvFacts
  <1> QED
    BY <1>6, <1>7

\* filter.* and audio.*
LEMMA FilterKeeps ==
    ASSUME IInv, NEW s \in DOMAIN graph.sources, NEW fs \in Filters,
           Refresh([graph EXCEPT !.sources[s].filters = fs], mixer),
           workers' = workers, torn' = torn
    PROVE  IInv'
  <1> DEFINE h == [graph EXCEPT !.sources[s].filters = fs]
             r == [graph.sources[s] EXCEPT !.filters = fs]
  <1>1. SetsSource(graph, h, s, r)
    <2>1. \A c \in BOOLEAN : SetsSource(graph, [graph EXCEPT !.sources[s].filters = fs], s,
                                        [graph.sources[s] EXCEPT !.filters = fs])
      BY SourceSets, InvFacts
    <2> QED
      BY <2>1
  <1>2. r.running = graph.sources[s].running /\ r.kind = graph.sources[s].kind
        /\ r.muted = graph.sources[s].muted
    BY InvFacts, GraphFacts DEF SourceRec
  <1>3. Refresh(h, mixer)
    OBVIOUS
  <1> HIDE DEF h, r
  <1>4. h \in GraphRec /\ Sound(h, torn) /\ h.sources[s] = r
    BY <1>1, SetsSound, InvFacts DEF SetsSource
  <1>5. WorkersOK(h, workers)
    <2>1. IF h.sources[s].running /\ h.sources[s].kind # "alsa"
          THEN s \in DOMAIN workers /\ (workers[s] => h.sources[s].muted)
          ELSE s \notin DOMAIN workers
      BY <1>2, <1>4, EntryIs, InvFacts DEF WorkersOK
    <2>2. s \in Source
      BY GraphFacts, InvFacts
    <2> QED
      BY <1>1, <1>4, <2>1, <2>2, WorkersFollow, InvFacts
  <1> QED
    BY <1>3, <1>4, <1>5, Refreshes, InvFacts

LEMMA SceneFilterKeeps ==
    ASSUME IInv, NEW sc \in DOMAIN graph.scenes, NEW fs \in Filters,
           Refresh([graph EXCEPT !.scenes[sc].filters = fs], mixer),
           workers' = workers, torn' = torn
    PROVE  IInv'
  <1> DEFINE h == [graph EXCEPT !.scenes[sc].filters = fs]
  <1>1. h \in GraphRec /\ ShowsNoMore(graph, h) /\ Sound(h, torn)
    BY SceneFiltersSet, InvFacts
  <1>2. Refresh(h, mixer)
    OBVIOUS
  <1> HIDE DEF h
  <1> QED
    BY <1>1, <1>2, SceneStay, Refreshes, InvFacts

LEMMA AudioSetKeeps ==
    ASSUME IInv, NEW s \in Source, NEW on \in AudioBinding, AudioSetSource(s, on),
           workers' = workers, torn' = torn
    PROVE  IInv'
  <1> DEFINE g == [graph EXCEPT !.sources[s].audio = on]
             r == [graph.sources[s] EXCEPT !.audio = on]
             m == SetSourceState(g, s, mixer)
  <1>1. s \in DOMAIN graph.sources /\ NoRefresh(g, m)
    BY DEF AudioSetSource
  <1>2. SetsSource(graph, g, s, r)
    BY <1>1, AudioSets, InvFacts
  <1>3. r.running = graph.sources[s].running /\ r.kind = graph.sources[s].kind
        /\ r.muted = graph.sources[s].muted /\ r.filters = graph.sources[s].filters
    BY <1>1, AudioSets, InvFacts
  <1> HIDE DEF g, r, m
  <1>4. g \in GraphRec /\ Sound(g, torn) /\ g.sources[s] = r /\ s \in DOMAIN g.sources
    BY <1>2, SetsSound, InvFacts DEF SetsSource
  <1>5. WorkersOK(g, workers)
    <2>1. IF g.sources[s].running /\ g.sources[s].kind # "alsa"
          THEN s \in DOMAIN workers /\ (workers[s] => g.sources[s].muted)
          ELSE s \notin DOMAIN workers
      BY <1>1, <1>3, <1>4, EntryIs, InvFacts DEF WorkersOK
    <2> QED
      BY <1>2, <1>4, <2>1, WorkersFollow, InvFacts
  <1>6. Current(g, pushed) /\ OnAirBut(g, mixer, s)
    <2>1. Steady(graph, g) /\ SameAudioBut(graph, g, s)
      BY <1>2, <1>3, SteadySource
    <2> QED
      BY <2>1, SteadySeen, InvFacts
  <1>7. m \in Table(Source, Branch) /\ OnAirOnly(g, m)
    BY <1>4, <1>6, SourceHeard, InvFacts DEF m
  <1> QED
    BY <1>1, <1>4, <1>5, <1>6, <1>7, NoRefreshes, InvFacts

LEMMA AudioItemKeeps ==
    ASSUME IInv, NEW sc, NEW id, NEW on \in AudioBinding, AudioSetSceneItem(sc, id, on),
           workers' = workers, torn' = torn
    PROVE  IInv'
  <1> DEFINE s == graph.scenes[sc].items[FindItem(graph, sc, id)].src
             h == UpdateItemAudio(graph, sc, id, on)
             m == SetSceneItemState(s, on, mixer)
  <1>1. HasItem(graph, sc, id) /\ Refresh(h, m)
    BY DEF AudioSetSceneItem
  <1>2. s \in Source
    <2>1. FindItem(graph, sc, id) \in DOMAIN graph.scenes[sc].items /\ sc \in DOMAIN graph.scenes
      BY <1>1, FindItemIs, InvFacts DEF HasItem
    <2>2. s \in DOMAIN graph.sources
      BY <2>1, InvFacts DEF ItemsKnown
    <2> QED
      BY <2>2, GraphFacts, InvFacts
  <1>3. m \in Table(Source, Branch)
    <2> HIDE DEF s
    <2> QED BY <1>2, ItemHeard, InvFacts
  <1>4. /\ Rearranges(graph, h, sc)
        /\ ItemsSorted(graph.scenes[sc].items) => ItemsSorted(h.scenes[sc].items)
    <2>1. graph \in GraphRec
      BY InvFacts
    <2> QED
      BY <1>1, <2>1, ItemAudioSet
  <1> HIDE DEF h, m
  <1>5. sc \notin torn => ItemsSorted(h.scenes[sc].items)
    BY <1>1, <1>4, InvFacts DEF HasItem, Sound, InOrder
  <1>6. h \in GraphRec /\ WorkersOK(h, workers) /\ Sound(h, torn)
    BY <1>4, <1>5, RearrangedStay
  <1> QED
    BY <1>1, <1>3, <1>6, Refreshes, InvFacts

LEMMA AdjustKeeps ==
    ASSUME IInv, Adjust
    PROVE  IInv'
  <1>0. workers' = workers /\ torn' = torn
    BY DEF Adjust
  <1>1. ASSUME NEW s \in Source, NEW f \in Filter, NEW on \in BOOLEAN,
               FilterAdd(s, f, on) \/ FilterUpdate(s, f, on) \/ FilterRemove(s, f)
        PROVE  IInv'
    <2> DEFINE x == graph.sources[s].filters
    <2>1. s \in DOMAIN graph.sources
      BY <1>1 DEF FilterAdd, FilterUpdate, FilterRemove
    <2>2. x \in Filters
      BY <2>1, GraphFacts, InvFacts DEF SourceRec
    <2>3. /\ AddFilter(graph, s, f, on) = [graph EXCEPT !.sources[s].filters = Put(x, f, on)]
          /\ UpdateFilter(graph, s, f, on)
                = [graph EXCEPT !.sources[s].filters = [x EXCEPT ![f] = on]]
          /\ RemoveFilter(graph, s, f) = [graph EXCEPT !.sources[s].filters = Drop(x, f)]
      BY DEF AddFilter, UpdateFilter, RemoveFilter
    <2>4. \/ Refresh([graph EXCEPT !.sources[s].filters = Put(x, f, on)], mixer)
          \/ f \in DOMAIN x /\ Refresh([graph EXCEPT !.sources[s].filters = [x EXCEPT ![f] = on]], mixer)
          \/ Refresh([graph EXCEPT !.sources[s].filters = Drop(x, f)], mixer)
      BY <1>1, <2>3 DEF FilterAdd, FilterUpdate, FilterRemove, HasFilter
    <2> HIDE DEF x
    <2>5. Put(x, f, on) \in Filters /\ Drop(x, f) \in Filters
          /\ (f \in DOMAIN x => [x EXCEPT ![f] = on] \in Filters)
      BY <2>2, FiltersSet
    <2> QED
      BY <1>0, <2>1, <2>4, <2>5, FilterKeeps
  <1>2. ASSUME NEW sc \in Scene, NEW f \in Filter, NEW on \in BOOLEAN,
               SceneFilterAdd(sc, f, on) \/ SceneFilterUpdate(sc, f, on) \/ SceneFilterRemove(sc, f)
        PROVE  IInv'
    <2> DEFINE x == graph.scenes[sc].filters
    <2>1. sc \in DOMAIN graph.scenes
      BY <1>2 DEF SceneFilterAdd, SceneFilterUpdate, SceneFilterRemove
    <2>2. x \in Filters
      BY <2>1, GraphFacts, InvFacts DEF SceneRec
    <2>3. /\ AddSceneFilter(graph, sc, f, on) = [graph EXCEPT !.scenes[sc].filters = Put(x, f, on)]
          /\ UpdateSceneFilter(graph, sc, f, on)
                = [graph EXCEPT !.scenes[sc].filters = [x EXCEPT ![f] = on]]
          /\ RemoveSceneFilter(graph, sc, f) = [graph EXCEPT !.scenes[sc].filters = Drop(x, f)]
      BY DEF AddSceneFilter, UpdateSceneFilter, RemoveSceneFilter
    <2>4. \/ Refresh([graph EXCEPT !.scenes[sc].filters = Put(x, f, on)], mixer)
          \/ f \in DOMAIN x /\ Refresh([graph EXCEPT !.scenes[sc].filters = [x EXCEPT ![f] = on]], mixer)
          \/ Refresh([graph EXCEPT !.scenes[sc].filters = Drop(x, f)], mixer)
      BY <1>2, <2>3 DEF SceneFilterAdd, SceneFilterUpdate, SceneFilterRemove, HasFilter
    <2> HIDE DEF x
    <2>5. Put(x, f, on) \in Filters /\ Drop(x, f) \in Filters
          /\ (f \in DOMAIN x => [x EXCEPT ![f] = on] \in Filters)
      BY <2>2, FiltersSet
    <2> QED
      BY <1>0, <2>1, <2>4, <2>5, SceneFilterKeeps
  <1>3. ASSUME NEW s \in Source, NEW on \in AudioBinding, AudioSetSource(s, on) PROVE IInv'
    BY <1>0, <1>3, AudioSetKeeps
  <1>4. ASSUME NEW sc \in Scene, NEW id \in Item, NEW on \in AudioBinding,
               AudioSetSceneItem(sc, id, on)
        PROVE  IInv'
    BY <1>0, <1>4, AudioItemKeeps
  <1>5. \/ \E s \in Source, f \in Filter, on \in BOOLEAN :
              FilterAdd(s, f, on) \/ FilterUpdate(s, f, on) \/ FilterRemove(s, f)
        \/ \E sc \in Scene, f \in Filter, on \in BOOLEAN :
              SceneFilterAdd(sc, f, on) \/ SceneFilterUpdate(sc, f, on) \/ SceneFilterRemove(sc, f)
        \/ \E s \in Source, on \in AudioBinding : AudioSetSource(s, on)
        \/ \E sc \in Scene, id \in Item, on \in AudioBinding : AudioSetSceneItem(sc, id, on)
    BY DEF Adjust
  <1> QED
    BY <1>1, <1>2, <1>3, <1>4, <1>5

LEMMA NextIInv ==
    ASSUME IInv, [Next]_vars
    PROVE  IInv'
  <1>1. CASE UNCHANGED vars
    BY <1>1 DEF vars, IInv, IInvOf
  <1>2. CASE \E s \in Source, kind \in Kinds : SourceCreate(s, kind)
    BY <1>2, SourceCreateKeeps
  <1>3. CASE \E s \in Source, enabled, keep, config \in BOOLEAN :
                SourceUpdate(s, enabled, keep, config)
    BY <1>3, SourceUpdateKeeps
  <1>4. CASE \E s \in Source : SourceRemove(s) \/ SourceStart(s) \/ SourceStop(s)
    BY <1>4, SourceRemoveKeeps, SourceStartKeeps, SourceStopKeeps
  <1>5. CASE \E sc \in Scene : SceneCreate(sc) \/ SceneRemove(sc)
    BY <1>5, SceneCreateKeeps, SceneRemoveKeeps
  <1>6. CASE \/ \E sc \in Scene, t \in Transition \cup {NONE} : SceneSetActive(sc, t)
             \/ \E sc \in Scene \cup {NONE} : SceneSetPreview(sc)
             \/ \E t \in Transition \cup {NONE} : SceneTransitionToPreview(t)
             \/ \E t \in Transition, duration \in {0, 2000} : SceneTransitionUpdate(t, duration)
    BY <1>6, ChoiceKeeps
  <1>7. CASE \E sc \in Scene, s \in Source, id \in Item \cup {AutoId}, z \in Depth, shown \in BOOLEAN :
                SceneItemAdd(sc, s, id, z, shown)
    BY <1>7, ItemAddKeeps
  <1>8. CASE \E sc \in Scene, id \in Item \cup {AutoId}, z \in Depth, shown \in BOOLEAN :
                SceneItemUpdate(sc, id, z, shown)
    BY <1>8, ItemUpdateKeeps
  <1>9. CASE \E sc \in Scene, id \in Item \cup {AutoId} : SceneItemRemove(sc, id)
    BY <1>9, ItemRemoveKeeps
  <1>10. CASE \E sc \in DOMAIN graph.scenes : \E order \in Orders(sc) : SceneItemReorder(sc, order)
    BY <1>10, ItemReorderKeeps
  <1>11. CASE Adjust
    BY <1>11, AdjustKeeps
  <1> QED
    BY <1>1, <1>2, <1>3, <1>4, <1>5, <1>6, <1>7, <1>8, <1>9, <1>10, <1>11 DEF Next

\* The graphs an instance starts with.
LEMMA DefaultIs ==
    ASSUME NEW canvas \in Canvas \cup {NONE}
    PROVE  LET g == NewDefault(canvas)
           IN  /\ g \in GraphRec /\ Sound(g, {}) /\ g.outputs = NoEntries
               /\ g.sources = NoEntries /\ g.scenes = NoEntries /\ g.canvas = canvas
               /\ g.runtime = NewRuntime
  <1> DEFINE g == NewDefault(canvas)
  <1>1. /\ NoEntries \in Table(Source, SourceRec) /\ NoEntries \in Table(Scene, SceneRec)
        /\ NoEntries \in Table(Output, OutputRec) /\ DOMAIN NoEntries = {}
    BY NoEntriesIs
  <1>2. NewRuntime \in RuntimeRec
    BY DEF NewRuntime, RuntimeRec
  <1>3. [t \in Transition |-> IF t = "cut" THEN 0 ELSE 2000] \in [Transition -> Duration]
    BY DEF Duration
  <1>4. "fade" \in Transition
    BY DEF Transition
  <1>5. g \in GraphRec
    BY <1>1, <1>2, <1>3, <1>4 DEF NewDefault, GraphRec
  <1>6. g.sources = NoEntries /\ g.scenes = NoEntries /\ g.outputs = NoEntries
        /\ g.active = NONE /\ g.preview = NONE /\ g.canvas = canvas
        /\ g.runtime = NewRuntime
    BY DEF NewDefault
  <1>7. Sound(g, {})
    BY <1>1, <1>6 DEF Sound, ItemsKnown, ScenesKnown, InOrder
  <1> QED
    BY <1>5, <1>6, <1>7

LEMMA SeededIs ==
    ASSUME NEW canvas \in Canvas \cup {NONE}, NEW src \in Source, NEW sc \in Scene, NEW id \in Item
    PROVE  LET g == Seeded(canvas, src, sc, id)
           IN  /\ g \in GraphRec /\ Sound(g, {})
               /\ g.outputs = NoEntries /\ g.canvas = canvas /\ g.runtime = NewRuntime
  <1> DEFINE a == NewDefault(canvas)
             b == CreateSource(a, src, "test", FALSE)
             c == CreateScene(b, sc)
             on == [NoAudio EXCEPT !.on = TRUE]
             d == [c EXCEPT !.sources[src].audio = on]
             g == AddItem(d, sc, src, id, 0, TRUE, on)
  <1>1. /\ a \in GraphRec /\ Sound(a, {}) /\ a.scenes = NoEntries
        /\ a.outputs = NoEntries /\ a.canvas = canvas /\ a.runtime = NewRuntime
    BY DefaultIs
  <1> HIDE DEF a
  <1>2. /\ b \in GraphRec /\ Sound(b, {}) /\ b.scenes = NoEntries
        /\ b.outputs = a.outputs /\ b.canvas = a.canvas /\ b.runtime = a.runtime
        /\ src \in DOMAIN b.sources
    <2> DEFINE r == NewSource("test", FALSE)
    <2>1. r \in SourceRec
      <3>1. NoEntries \in Filters
        BY NoEntriesIs DEF Filters
      <3> QED
        BY <3>1 DEF NewSource, SourceRec, NoAudio, AudioBinding, Kinds
    <2>2. b = [a EXCEPT !.sources = Put(@, src, r)]
      BY DEF CreateSource
    <2>3. b.outputs = a.outputs /\ b.canvas = a.canvas /\ b.runtime = a.runtime
      BY <1>1, <2>2 DEF GraphRec
    <2> HIDE DEF r, b
    <2>4. SetsSource(a, b, src, r)
      BY <1>1, <2>1, <2>2, SourcePut
    <2> QED
      BY <1>1, <2>3, <2>4, SetsSound DEF SetsSource, SameScenes
  <1> HIDE DEF b
  <1>3. /\ c \in GraphRec /\ Sound(c, {}) /\ sc \in DOMAIN c.scenes
        /\ c.outputs = b.outputs /\ c.canvas = b.canvas /\ c.runtime = b.runtime
        /\ src \in DOMAIN c.sources
    <2>1. sc \notin DOMAIN b.scenes
      BY <1>2, NoEntriesIs
    <2>2. c \in GraphRec /\ ShowsNoMore(b, c) /\ Sound(c, {})
      BY <1>2, <2>1, ScenePut
    <2>3. c.outputs = b.outputs /\ c.canvas = b.canvas /\ c.runtime = b.runtime
          /\ c.scenes = Put(b.scenes, sc, NewScene)
      BY <1>2 DEF CreateScene, GraphRec
    <2>4. sc \in DOMAIN Put(b.scenes, sc, NewScene)
      BY DEF Put
    <2> QED
      BY <1>2, <2>2, <2>3, <2>4 DEF ShowsNoMore, SameSources
  <1> HIDE DEF c
  <1>9. on \in AudioBinding
    BY DEF NoAudio, AudioBinding
  <1> HIDE DEF on
  <1>4. /\ d \in GraphRec /\ Sound(d, {}) /\ sc \in DOMAIN d.scenes /\ src \in DOMAIN d.sources
        /\ d.outputs = c.outputs /\ d.canvas = c.canvas /\ d.runtime = c.runtime
    <2>1. SetsSource(c, d, src, [c.sources[src] EXCEPT !.audio = on])
      BY <1>3, <1>9, AudioSets
    <2>2. d.outputs = c.outputs /\ d.canvas = c.canvas /\ d.runtime = c.runtime
      BY <1>3 DEF GraphRec
    <2> HIDE DEF d
    <2> QED
      BY <1>3, <2>1, <2>2, SetsSound DEF SetsSource, SameScenes
  <1> HIDE DEF d
  <1>5. g \in GraphRec /\ Sound(g, {} \ {sc})
    <2>1. 0 \in Int
      OBVIOUS
    <2>2. [id |-> id, src |-> src, z |-> 0, shown |-> TRUE, audio |-> on] \in ItemRec
      BY <1>9, <2>1 DEF ItemRec
    <2> QED
      BY <1>4, <2>2, AddedSound
  <1>6. g.outputs = d.outputs /\ g.canvas = d.canvas /\ g.runtime = d.runtime
    BY <1>4 DEF AddItem, WithItems, GraphRec
  <1>7. {} \ {sc} = {}
    OBVIOUS
  <1>8. Seeded(canvas, src, sc, id) = g
    BY DEF Seeded, a, b, c, d, on
  <1> HIDE DEF g
  <1> QED
    BY <1>1, <1>2, <1>3, <1>4, <1>5, <1>6, <1>7, <1>8

LEMMA StartedIs ==
    ASSUME NEW g \in GraphRec, NEW ok, Sound(g, {})
    PROVE  Started(g, ok) \in GraphRec /\ Sound(Started(g, ok), {})
  <1> DEFINE R(s) == [g.sources[s] EXCEPT !.running = @ \/ (g.sources[s].enabled
                              /\ (s \in ok \/ g.sources[s].kind = "alsa"))]
             f == [s \in DOMAIN g.sources |-> R(s)]
             h == Started(g, ok)
  <1>1. \A s \in DOMAIN g.sources : s \in Source /\ R(s) \in SourceRec
    BY GraphFacts DEF SourceRec
  <1>2. h = [g EXCEPT !.sources = f]
    BY DEF Started, GraphRec
  <1> HIDE DEF R
  <1>3. f \in Table(Source, SourceRec) /\ DOMAIN f = DOMAIN g.sources
    BY <1>1, TableIs
  <1> HIDE DEF f, h
  <1>4. h \in GraphRec /\ h.sources = f /\ h.scenes = g.scenes /\ h.active = g.active
        /\ h.preview = g.preview
    BY <1>2, <1>3 DEF GraphRec
  <1>5. Sound(h, {})
    BY <1>3, <1>4 DEF Sound, ItemsKnown, ScenesKnown, InOrder
  <1> QED
    BY <1>4, <1>5 DEF h

LEMMA InitIInv ==
    ASSUME Init
    PROVE  IInv
  <1>1. graph \in GraphRec /\ Sound(graph, {})
    <2>1. CASE graph = NewDefault(NONE)
      BY <2>1, DefaultIs
    <2>2. CASE \E src \in Source, sc \in Scene, id \in Item, ok \in SUBSET Source :
                  graph = Started(Seeded(NONE, src, sc, id), ok)
      <3>1. PICK src \in Source, sc \in Scene, id \in Item, ok \in SUBSET Source :
               graph = Started(Seeded(NONE, src, sc, id), ok)
        BY <2>2
      <3> DEFINE g == Seeded(NONE, src, sc, id)
      <3>2. g \in GraphRec /\ Sound(g, {})
        BY SeededIs
      <3> HIDE DEF g
      <3> QED
        BY <3>1, <3>2, StartedIs DEF g
    <2> QED
      BY <2>1, <2>2 DEF Init
  <1>2. WorkersOK(graph, workers)
    <2>1. workers = [s \in Entries(graph) |-> FALSE]
      BY DEF Init
    <2>2. Entries(graph) \in SUBSET Source
      BY <1>1, GraphFacts, EntryIs
    <2>3. DOMAIN workers = Entries(graph) /\ workers \in [DOMAIN workers -> BOOLEAN]
          /\ \A s \in DOMAIN workers : ~ workers[s]
      BY <2>1
    <2> QED
      BY <2>2, <2>3, TableIs DEF WorkersOK
  <1>3. StartedMixer(graph) \in Table(Source, Branch)
    <2> DEFINE m == StartedMixer(graph)
    <2>1. \A s \in DOMAIN graph.sources : NewBranch(graph.sources[s].audio) \in Branch
      BY <1>1, NewBranchIs, GraphFacts DEF SourceRec
    <2>2. m = [s \in {t \in DOMAIN graph.sources : graph.sources[t].audio.on}
                    |-> NewBranch(graph.sources[s].audio)]
      BY DEF StartedMixer
    <2> HIDE DEF m
    <2>3. DOMAIN m \in SUBSET Source /\ m \in [DOMAIN m -> Branch]
      BY <1>1, <2>1, <2>2, GraphFacts
    <2> QED
      BY <2>3, TableIs DEF m
  <1>4. mixer \in Table(Source, Branch) /\ OnAirOnly(graph, mixer)
    BY <1>1, <1>3, FollowsScene DEF Init
  <1>5. Current(graph, pushed)
    BY <1>1, BuiltIsCurrent DEF Init, Sound
  <1>6. torn = {}
    BY DEF Init
  <1> QED
    BY <1>1, <1>2, <1>4, <1>5, <1>6 DEF IInv, IInvOf

-----------------------------------------------------------------------------
(* SceneControl: the theorems.                                             *)

\* The invariant holds in every state: what the handlers' calls leave of the
\* graph, the workers, the mixer and the compositor's scene, whatever they are.
THEOREM SceneIInv == Spec => []IInv
  <1>1. Init => IInv
    BY InitIInv
  <1>2. IInv /\ [Next]_vars => IInv'
    BY NextIInv
  <1> QED
    BY <1>1, <1>2, PTL DEF Spec

LEMMA SceneSafe ==
    ASSUME IInv
    PROVE  GraphSound /\ WorkersMatchGraph /\ PushedIsCurrent /\ HeardIsOnAir
  <1>1. GraphSound
    BY InvFacts DEF GraphSound, Sound, ItemsKnown, ScenesKnown, InOrder
  <1>2. WorkersMatchGraph
    <2>1. \A s \in DOMAIN workers : workers[s] => NoRefs(graph, s)
      BY InvFacts DEF WorkersOK
    <2> QED
      BY <2>1, RefsEmpty, InvFacts DEF WorkersMatchGraph, WorkersOK
  <1>3. PushedIsCurrent
    BY InvFacts DEF PushedIsCurrent, Current
  <1>4. HeardIsOnAir
    BY InvFacts DEF HeardIsOnAir, OnAirOnly, MayBeHeard
  <1> QED
    BY <1>1, <1>2, <1>3, <1>4

\* Every value is of its type: ids in tables, records and item arrays of the
\* graph, the supervisor's entries and the mixer's branches.
THEOREM SceneTypes ==
    Spec => [](/\ graph \in GraphRec /\ workers \in Table(Source, BOOLEAN)
               /\ mixer \in Table(Source, Branch) /\ torn \subseteq Scene)
  <1>1. IInv => /\ graph \in GraphRec /\ workers \in Table(Source, BOOLEAN)
                /\ mixer \in Table(Source, Branch) /\ torn \subseteq Scene
    BY InvFacts DEF WorkersOK
  <1> QED
    BY <1>1, SceneIInv, PTL

\* After any calls an item's source, the active and the preview scene exist, and
\* a scene's items are in the order they are drawn in unless a reorder of it was
\* refused (scene_graph.c, the remove and the item operations).
THEOREM GraphStaysSound == Spec => []GraphSound
  <1>1. IInv => GraphSound
    BY SceneSafe
  <1> QED
    BY <1>1, SceneIInv, PTL

\* The supervisor's entries are the running video sources, and a worker whose
\* frames are dropped is shown by no item (handlers/source.c, handlers/scene.c).
THEOREM WorkersStayMatched == Spec => []WorkersMatchGraph
  <1>1. IInv => WorkersMatchGraph
    BY SceneSafe
  <1> QED
    BY <1>1, SceneIInv, PTL

\* The compositor always has the active scene as it is, and no item it has reads
\* the frame slot of a source that is gone (sbs_api_server_refresh_scene).
THEOREM PushedStaysCurrent == Spec => []PushedIsCurrent
  <1>1. IInv => PushedIsCurrent
    BY SceneSafe
  <1> QED
    BY <1>1, SceneIInv, PTL

\* Only a source that the active scene shows with its audio enabled is heard, and
\* one that the scene mutes only by its own binding, which a call on the source
\* puts in the place of the scene's (audio_mixer.c,
\* sbs_audio_mixer_on_scene_change and sbs_audio_mixer_set_source_state).
THEOREM OnlyOnAirIsHeard == Spec => []HeardIsOnAir
  <1>1. IInv => HeardIsOnAir
    BY SceneSafe
  <1> QED
    BY <1>1, SceneIInv, PTL

-----------------------------------------------------------------------------
(* Configuration: what is loaded and what is saved.                        *)

IdsDiffer(s) == \A i, j \in DOMAIN s : i < j => s[i].id # s[j].id

\* Adding the items of an array again sorts them and takes an id only once.
LEMMA ReaddedIs ==
    ASSUME NEW s \in Items
    PROVE  /\ Readded(s) \in Items /\ ItemsSorted(Readded(s))
           /\ From(Readded(s), s) /\ IdsDiffer(Readded(s))
  <1> DEFINE D == {i \in DOMAIN s : \A j \in 1 .. i - 1 : s[j].id # s[i].id}
             t == Listed(s, D, SortOrder(s))
             n == Cardinality(D)
  <1>1. Readded(s) = t /\ D \in SUBSET (DOMAIN s)
    BY DEF Readded
  <1>2. \A i, j \in D : i # j => s[i].id # s[j].id
    <2> SUFFICES ASSUME NEW i \in D, NEW j \in D, i < j PROVE s[i].id # s[j].id
      <3>1. D \in SUBSET Int
        BY ItemFacts
      <3> HIDE DEF D
      <3> QED BY <3>1
    <2>1. i \in 1 .. j - 1
      BY ItemFacts
    <2> QED
      BY <2>1
  <1> HIDE DEF D
  <1>3. /\ n \in Nat /\ t \in Items /\ DOMAIN t = 1 .. n
        /\ \E at \in [1 .. n -> D] :
              /\ \A k \in 1 .. n : t[k] = s[at[k]]
              /\ \A k, l \in 1 .. n : k < l => at[k] # at[l] /\ <<at[k], at[l]>> \in SortOrder(s)
    <2>1. IsOrder(SortOrder(s), D) /\ D \in SUBSET (DOMAIN s)
      BY <1>1, Orders2
    <2> QED
      BY <2>1, ListedIs DEF Items
  <1>4. t \in Items /\ ItemsSorted(t) /\ From(t, s)
    BY <1>1, Sorts
  <1> HIDE DEF t
  <1>5. IdsDiffer(t)
    <2>1. PICK at \in [1 .. n -> D] :
             /\ \A k \in 1 .. n : t[k] = s[at[k]]
             /\ \A k, l \in 1 .. n : k < l => at[k] # at[l] /\ <<at[k], at[l]>> \in SortOrder(s)
      BY <1>3
    <2>2. ASSUME NEW k \in 1 .. n, NEW l \in 1 .. n, k < l PROVE t[k].id # t[l].id
      <3>1. at[k] \in D /\ at[l] \in D /\ at[k] # at[l] /\ t[k] = s[at[k]] /\ t[l] = s[at[l]]
        BY <2>1, <2>2
      <3> QED
        BY <1>2, <3>1
    <2> QED
      BY <1>3, <2>2 DEF IdsDiffer
  <1> QED
    BY <1>1, <1>4, <1>5

\* Once is enough.
LEMMA ReaddedTwice ==
    ASSUME NEW s \in Items, ItemsSorted(s), IdsDiffer(s)
    PROVE  Readded(s) = s
  <1> DEFINE n == Len(s)
             D == {i \in DOMAIN s : \A j \in 1 .. i - 1 : s[j].id # s[i].id}
             R == SortOrder(s)
  <1>1. n \in Nat /\ DOMAIN s = 1 .. n /\ \A i \in 1 .. n : s[i] \in ItemRec
    BY ItemFacts
  <1>2. D = 1 .. n
    BY <1>1 DEF IdsDiffer
  <1>3. Readded(s) = Listed(s, 1 .. n, R)
    BY <1>2 DEF Readded
  <1>4. \A i, j \in 1 .. n : <<j, i>> \in R <=> j <= i
    <2> SUFFICES ASSUME NEW i \in 1 .. n, NEW j \in 1 .. n
                 PROVE  <<j, i>> \in R <=> j <= i
      OBVIOUS
    <2>1. <<j, i>> \in R <=> ItemBefore(s[j], s[i]) \/ (~ ItemBefore(s[i], s[j]) /\ j <= i)
      BY <1>1 DEF SortOrder
    <2>2. s[i].z \in Int /\ s[j].z \in Int /\ s[i].id \in Int /\ s[j].id \in Int
      BY <1>1, ItemFacts
    <2>3. j < i => ~ ItemBefore(s[i], s[j])
      BY <1>1 DEF ItemsSorted
    <2>4. i < j => ~ ItemBefore(s[j], s[i])
      BY <1>1 DEF ItemsSorted
    <2>5. i = j => ~ ItemBefore(s[i], s[j])
      BY <2>2 DEF ItemBefore
    <2> QED
      BY <1>1, <2>1, <2>3, <2>4, <2>5
  <1> HIDE DEF D, R
  <1>5. \A i \in 1 .. n : Place(1 .. n, R, i) = i
    <2> SUFFICES ASSUME NEW i \in 1 .. n PROVE Place(1 .. n, R, i) = i
      OBVIOUS
    <2>1. {j \in 1 .. n : <<j, i>> \in R} = 1 .. i
      BY <1>1, <1>4
    <2>2. Cardinality(1 .. i) = i
      BY <1>1, FS_Interval
    <2> QED
      BY <2>1, <2>2 DEF Place
  <1>6. Cardinality(1 .. n) = n
    BY <1>1, FS_Interval
  <1>7. \A k \in 1 .. n : (CHOOSE i \in 1 .. n : Place(1 .. n, R, i) = k) = k
    BY <1>5
  <1>8. Listed(s, 1 .. n, R) = [k \in 1 .. n |-> s[k]]
    <2>1. Listed(s, 1 .. n, R) = [k \in 1 .. n |-> s[CHOOSE i \in 1 .. n : Place(1 .. n, R, i) = k]]
      BY <1>6 DEF Listed
    <2> QED
      BY <1>7, <2>1
  <1>9. s = [k \in 1 .. n |-> s[k]]
    BY <1>1 DEF Items
  <1> QED
    BY <1>3, <1>8, <1>9

\* A bundle as a save writes it: half of it, and all of it.
PartRec == [canvas : Canvas \cup {NONE}, sources : Table(Source, SourceRec)]
BundleRec ==
    [canvas : Canvas \cup {NONE}, sources : Table(Source, SourceRec),
     scenes : Table(Scene, SceneRec), outputs : Table(Output, OutputRec),
     transitions : [Transition -> Duration], active : Scene \cup {NONE},
     preview : Scene \cup {NONE}, transition : Transition \cup {NONE}]

\* What every bundle has, torn or not: no output runs, its scenes are known, and
\* no switch was made.
Savable(b) ==
    /\ b \in BundleRec /\ ScenesKnown(b) /\ b.transition = NONE
    /\ \A o \in DOMAIN b.outputs : ~ b.outputs[o].running

\* The graph of an instance between its calls.
Kept(g) == g \in GraphRec /\ Sound(g, {}) /\ g.runtime.id = NONE

\* Loading b gives back what of g can be given back.
Restores(b, g) == Survives(g, Loaded(b, g))

\* The canvas of a bundle that is applied.
NamedCanvas(canvas) == IF canvas = NONE THEN LoadCanvas ELSE canvas

LEMMA NamedCanvasIs ==
    ASSUME NEW c \in Canvas \cup {NONE}
    PROVE  /\ NamedCanvas(c) \in Canvas
           /\ c # NONE => NamedCanvas(c) = c
  BY CanvasAssumption DEF CanvasAssumption, NamedCanvas

LEMMA SavedIs ==
    ASSUME NEW g \in GraphRec
    PROVE  /\ SavedOutputs(g) \in Table(Output, OutputRec)
           /\ DOMAIN SavedOutputs(g) = DOMAIN g.outputs
           /\ \A o \in DOMAIN g.outputs :
                 SavedOutputs(g)[o] = [g.outputs[o] EXCEPT !.running = FALSE]
                 /\ ~ SavedOutputs(g)[o].running
  <1> DEFINE R(o) == [g.outputs[o] EXCEPT !.running = FALSE]
             f == SavedOutputs(g)
  <1>1. \A o \in DOMAIN g.outputs : o \in Output /\ R(o) \in OutputRec /\ ~ R(o).running
    BY GraphFacts DEF OutputRec
  <1>2. f = [o \in DOMAIN g.outputs |-> R(o)]
    BY DEF SavedOutputs
  <1> HIDE DEF f
  <1>3. DOMAIN f = DOMAIN g.outputs /\ \A o \in DOMAIN g.outputs : f[o] = R(o)
    BY <1>2
  <1>4. f \in Table(Output, OutputRec)
    <2>1. DOMAIN f \in SUBSET Output /\ f \in [DOMAIN f -> OutputRec]
      <3> HIDE DEF R
      <3> QED BY <1>1, <1>2, <1>3
    <2> QED
      BY <2>1, TableIs
  <1> QED
    BY <1>1, <1>3, <1>4 DEF f

LEMMA BundleIs ==
    ASSUME NEW g, Kept(g)
    PROVE  Savable(Bundle(g)) /\ Valid(Bundle(g))
  <1>1. g \in GraphRec /\ ItemsKnown(g) /\ ScenesKnown(g) /\ g.runtime.id = NONE
    BY DEF Kept, Sound
  <1> DEFINE b == Bundle(g)
  <1>2. /\ b.canvas = g.canvas /\ b.sources = g.sources /\ b.scenes = g.scenes
        /\ b.outputs = SavedOutputs(g) /\ b.transitions = g.transitions
        /\ b.active = g.active /\ b.preview = g.preview /\ b.transition = g.runtime.id
    BY DEF Bundle
  <1>3. b \in BundleRec
    <2>1. SavedOutputs(g) \in Table(Output, OutputRec)
      BY <1>1, SavedIs
    <2> QED
      BY <1>1, <2>1 DEF Bundle, BundleRec, GraphRec
  <1> HIDE DEF b
  <1>4. \A o \in DOMAIN b.outputs : ~ b.outputs[o].running
    BY <1>1, <1>2, SavedIs
  <1>5. Savable(b)
    BY <1>1, <1>2, <1>3, <1>4 DEF Savable, ScenesKnown
  <1>6. Valid(b)
    BY <1>1, <1>2 DEF Valid, ItemsKnown
  <1> QED
    BY <1>5, <1>6 DEF b

\* The sources, the scenes and the transitions of a graph that is loaded.
KeptAlive(ss) ==
    [s \in DOMAIN ss |-> [ss[s] EXCEPT !.keep = @ \/ ss[s].kind = "capture"]]
AddedAgain(sc) == [x \in DOMAIN sc |-> [sc[x] EXCEPT !.items = Readded(@)]]
Lasted(ts) == [t \in Transition |-> Lasting(t, ts[t])]

LEMMA KeptAliveIs ==
    ASSUME NEW ss \in Table(Source, SourceRec)
    PROVE  /\ KeptAlive(ss) \in Table(Source, SourceRec)
           /\ DOMAIN KeptAlive(ss) = DOMAIN ss
           /\ \A s \in DOMAIN ss :
                 \/ KeptAlive(ss)[s] = ss[s]
                 \/ ss[s].kind = "capture" /\ KeptAlive(ss)[s] = [ss[s] EXCEPT !.keep = TRUE]
  <1> DEFINE R(s) == [ss[s] EXCEPT !.keep = ss[s].keep \/ ss[s].kind = "capture"]
             f == KeptAlive(ss)
  <1>1. \A s \in DOMAIN ss : s \in Source /\ ss[s] \in SourceRec
    BY TableAt
  <1>2. ASSUME NEW s \in DOMAIN ss
        PROVE  /\ R(s) \in SourceRec
               /\ \/ R(s) = ss[s]
                  \/ ss[s].kind = "capture" /\ R(s) = [ss[s] EXCEPT !.keep = TRUE]
    <2> DEFINE k == ss[s].keep \/ ss[s].kind = "capture"
    <2>1. ss[s] \in SourceRec /\ ss[s].keep \in BOOLEAN /\ k \in BOOLEAN
      BY <1>1 DEF SourceRec
    <2>2. [ss[s] EXCEPT !.keep = k] \in SourceRec
      <3> HIDE DEF k
      <3> QED BY <2>1 DEF SourceRec
    <2>3. CASE ss[s].kind = "capture"
      <3>1. k = TRUE
        BY <2>3
      <3> QED
        BY <2>2, <2>3, <3>1
    <2>4. CASE ss[s].kind # "capture"
      <3>1. k = ss[s].keep
        BY <2>1, <2>4
      <3>2. [ss[s] EXCEPT !.keep = ss[s].keep] = ss[s]
        BY <2>1 DEF SourceRec
      <3> QED
        BY <2>2, <3>1, <3>2
    <2> QED
      BY <2>3, <2>4
  <1>3. f = [s \in DOMAIN ss |-> R(s)]
    BY DEF KeptAlive
  <1> HIDE DEF R, f
  <1>5. DOMAIN f = DOMAIN ss /\ \A s \in DOMAIN ss : f[s] = R(s)
    BY <1>3
  <1>6. f \in Table(Source, SourceRec)
    <2>1. DOMAIN f \in SUBSET Source /\ f \in [DOMAIN f -> SourceRec]
      BY <1>1, <1>2, <1>3, <1>5
    <2> QED
      BY <2>1, TableIs
  <1>7. \A s \in DOMAIN ss : \/ f[s] = ss[s]
                             \/ ss[s].kind = "capture" /\ f[s] = [ss[s] EXCEPT !.keep = TRUE]
    BY <1>2, <1>5
  <1> QED
    BY <1>5, <1>6, <1>7 DEF f

\* The items of a scene that has no two with one id are added again as they were.
LEMMA AddedAgainIs ==
    ASSUME NEW sc \in Table(Scene, SceneRec)
    PROVE  /\ AddedAgain(sc) \in Table(Scene, SceneRec)
           /\ DOMAIN AddedAgain(sc) = DOMAIN sc
           /\ \A x \in DOMAIN sc :
                 /\ ItemsSorted(AddedAgain(sc)[x].items)
                 /\ From(AddedAgain(sc)[x].items, sc[x].items)
                 /\ AddedAgain(sc)[x].filters = sc[x].filters
                 /\ ItemsSorted(sc[x].items) /\ ~ Doubled(sc[x].items) =>
                       AddedAgain(sc)[x].items = sc[x].items
  <1> DEFINE R(x) == [sc[x] EXCEPT !.items = Readded(sc[x].items)]
             f == AddedAgain(sc)
  <1>0. \A x \in DOMAIN sc : x \in Scene /\ sc[x] \in SceneRec
    BY TableAt
  <1>1. \A x \in DOMAIN sc : x \in Scene /\ sc[x] \in SceneRec /\ sc[x].items \in Items
    BY <1>0 DEF SceneRec
  <1>2. ASSUME NEW x \in DOMAIN sc
        PROVE  /\ R(x) \in SceneRec /\ R(x).filters = sc[x].filters
               /\ ItemsSorted(R(x).items) /\ From(R(x).items, sc[x].items)
               /\ ItemsSorted(sc[x].items) /\ ~ Doubled(sc[x].items) => R(x).items = sc[x].items
    <2> DEFINE old == sc[x].items
               s == Readded(old)
    <2>1. s \in Items /\ ItemsSorted(s) /\ From(s, old)
      BY <1>1, ReaddedIs
    <2>2. ASSUME ItemsSorted(old), ~ Doubled(old) PROVE s = old
      <3>1. IdsDiffer(old)
        <4>1. \A i, j \in DOMAIN old : i # j => old[i].id # old[j].id
          BY <2>2 DEF Doubled
        <4>2. \A i, j \in DOMAIN old : i < j => i # j
          BY <1>1, ItemFacts
        <4> QED
          BY <4>1, <4>2 DEF IdsDiffer
      <3> QED
        BY <1>1, <2>2, <3>1, ReaddedTwice
    <2> HIDE DEF s
    <2>3. R(x) = [sc[x] EXCEPT !.items = s]
      BY DEF s
    <2> HIDE DEF R
    <2>4. R(x) \in SceneRec /\ R(x).filters = sc[x].filters /\ R(x).items = s
      BY <1>1, <2>1, <2>3 DEF SceneRec
    <2> QED
      BY <2>1, <2>2, <2>4
  <1>3. f = [x \in DOMAIN sc |-> R(x)]
    BY DEF AddedAgain
  <1> HIDE DEF R, f
  <1>5. DOMAIN f = DOMAIN sc /\ \A x \in DOMAIN sc : f[x] = R(x)
    BY <1>3
  <1>6. f \in Table(Scene, SceneRec)
    <2>1. DOMAIN f \in SUBSET Scene /\ f \in [DOMAIN f -> SceneRec]
      BY <1>1, <1>2, <1>3, <1>5
    <2> QED
      BY <2>1, TableIs
  <1>8. \A x \in DOMAIN sc :
           /\ ItemsSorted(f[x].items) /\ From(f[x].items, sc[x].items)
           /\ f[x].filters = sc[x].filters
           /\ ItemsSorted(sc[x].items) /\ ~ Doubled(sc[x].items) => f[x].items = sc[x].items
    BY <1>2, <1>5
  <1> QED
    BY <1>5, <1>6, <1>8 DEF f

LEMMA LastedIs ==
    ASSUME NEW ts \in [Transition -> Duration]
    PROVE  /\ Lasted(ts) \in [Transition -> Duration]
           /\ \A t \in Transition : Lasted(ts)[t] = ts[t] \/ (t = "fade" /\ ts[t] = 500)
  <1>1. \A t \in Transition : Lasting(t, ts[t]) \in Duration
    BY DEF Lasting, Duration
  <1> QED
    BY <1>1 DEF Lasted, Lasting

LEMMA LoadedIs ==
    ASSUME NEW b, ScenesKnown(b), NEW g
    PROVE  Loaded(b, g) =
              [canvas |-> NamedCanvas(b.canvas), sources |-> KeptAlive(b.sources),
               scenes |-> AddedAgain(b.scenes), outputs |-> b.outputs,
               transitions |-> Lasted(b.transitions), active |-> b.active,
               preview |-> b.preview, deflt |-> b.transition,
               runtime |-> [NewRuntime EXCEPT !.active = g.runtime.active]]
  <1>1. ~ (b.active = NONE /\ DOMAIN b.scenes # {})
    BY DEF ScenesKnown
  <1> QED
    BY <1>1 DEF Loaded, KeptAlive, AddedAgain, Lasted, NamedCanvas

\* The same, part by part.
LEMMA LoadedParts ==
    ASSUME NEW b, ScenesKnown(b), NEW g
    PROVE  LET h == Loaded(b, g)
           IN  /\ h.canvas = NamedCanvas(b.canvas) /\ h.sources = KeptAlive(b.sources)
               /\ h.scenes = AddedAgain(b.scenes) /\ h.outputs = b.outputs
               /\ h.transitions = Lasted(b.transitions) /\ h.active = b.active
               /\ h.preview = b.preview
               /\ h.runtime = [NewRuntime EXCEPT !.active = g.runtime.active]
  <1> DEFINE h == Loaded(b, g)
             run == [NewRuntime EXCEPT !.active = g.runtime.active]
  <1>1. h = [canvas |-> NamedCanvas(b.canvas), sources |-> KeptAlive(b.sources),
             scenes |-> AddedAgain(b.scenes), outputs |-> b.outputs,
             transitions |-> Lasted(b.transitions), active |-> b.active,
             preview |-> b.preview, deflt |-> b.transition, runtime |-> run]
    BY LoadedIs
  <1> HIDE DEF h, run
  <1>2. /\ h.canvas = NamedCanvas(b.canvas) /\ h.sources = KeptAlive(b.sources)
        /\ h.scenes = AddedAgain(b.scenes) /\ h.outputs = b.outputs
        /\ h.transitions = Lasted(b.transitions) /\ h.active = b.active
        /\ h.preview = b.preview /\ h.runtime = run
    BY <1>1
  <1> QED
    BY <1>2 DEF h, run

LEMMA LoadedKept ==
    ASSUME NEW b, Savable(b), Valid(b), NEW g \in GraphRec
    PROVE  Kept(Loaded(b, g)) /\ Loaded(b, g).canvas \in Canvas
  <1> DEFINE h == Loaded(b, g)
             run == [NewRuntime EXCEPT !.active = g.runtime.active]
  <1>1. b \in BundleRec /\ ScenesKnown(b)
    BY DEF Savable
  <1>11. h = [canvas |-> NamedCanvas(b.canvas), sources |-> KeptAlive(b.sources),
              scenes |-> AddedAgain(b.scenes), outputs |-> b.outputs,
              transitions |-> Lasted(b.transitions), active |-> b.active,
              preview |-> b.preview, deflt |-> b.transition, runtime |-> run]
    BY <1>1, LoadedIs
  <1> HIDE DEF h, run
  <1>2. /\ h.canvas = NamedCanvas(b.canvas) /\ h.sources = KeptAlive(b.sources)
        /\ h.scenes = AddedAgain(b.scenes) /\ h.active = b.active /\ h.preview = b.preview
        /\ h.runtime = run
    BY <1>11
  <1>3. /\ b.sources \in Table(Source, SourceRec) /\ b.scenes \in Table(Scene, SceneRec)
        /\ b.transitions \in [Transition -> Duration] /\ b.canvas \in Canvas \cup {NONE}
    BY <1>1 DEF BundleRec
  <1>4. run \in RuntimeRec /\ run.id = NONE
    BY DEF NewRuntime, RuntimeRec, GraphRec, run
  <1>5. /\ KeptAlive(b.sources) \in Table(Source, SourceRec)
        /\ DOMAIN KeptAlive(b.sources) = DOMAIN b.sources
    BY <1>3, KeptAliveIs
  <1>6. /\ AddedAgain(b.scenes) \in Table(Scene, SceneRec)
        /\ DOMAIN AddedAgain(b.scenes) = DOMAIN b.scenes
        /\ \A x \in DOMAIN b.scenes : /\ ItemsSorted(AddedAgain(b.scenes)[x].items)
                                      /\ From(AddedAgain(b.scenes)[x].items, b.scenes[x].items)
    BY <1>3, AddedAgainIs
  <1>12. Lasted(b.transitions) \in [Transition -> Duration] /\ NamedCanvas(b.canvas) \in Canvas
    BY <1>3, LastedIs, NamedCanvasIs
  <1>7. h \in GraphRec
    BY <1>1, <1>4, <1>5, <1>6, <1>11, <1>12 DEF GraphRec, BundleRec
  <1>8. ItemsKnown(h)
    BY <1>2, <1>5, <1>6 DEF ItemsKnown, Valid, From
  <1>9. ScenesKnown(h)
    BY <1>1, <1>2, <1>6 DEF ScenesKnown
  <1>10. InOrder(h, {})
    BY <1>2, <1>6 DEF InOrder
  <1> QED
    BY <1>2, <1>4, <1>7, <1>8, <1>9, <1>10, <1>12 DEF Kept, Sound, h

\* A save that was not torn restores the graph it was built of.
LEMMA BuiltRestores ==
    ASSUME NEW g, Kept(g), NEW part \in PartRec, part.sources = g.sources
    PROVE  LET b == RestAdded(part, g)
           IN  /\ Savable(b) /\ Valid(b) /\ b.canvas = part.canvas /\ Restores(b, g)
  <1> DEFINE c == Bundle(g)
             b == RestAdded(part, g)
  <1>1. Savable(c) /\ Valid(c)
    BY BundleIs
  <1>2. c \in BundleRec /\ ScenesKnown(c) /\ c.sources = part.sources
    BY <1>1 DEF Savable, Bundle
  <1>8. /\ c.scenes = g.scenes /\ c.outputs = SavedOutputs(g) /\ c.transitions = g.transitions
        /\ c.active = g.active /\ c.preview = g.preview
    BY DEF Bundle
  <1>3. b = [c EXCEPT !.canvas = part.canvas]
    <2> HIDE DEF c
    <2>1. b = [c EXCEPT !.canvas = part.canvas, !.sources = part.sources]
      BY DEF RestAdded, c
    <2> HIDE DEF b
    <2> QED
      BY <1>2, <2>1 DEF BundleRec
  <1> HIDE DEF b, c
  <1>4. part.canvas \in Canvas \cup {NONE}
    BY DEF PartRec
  <1>5. /\ b \in BundleRec /\ b.canvas = part.canvas /\ b.sources = c.sources
        /\ b.scenes = c.scenes /\ b.outputs = c.outputs /\ b.transitions = c.transitions
        /\ b.active = c.active /\ b.preview = c.preview /\ b.transition = c.transition
    BY <1>2, <1>3, <1>4 DEF BundleRec
  <1>6. Savable(b) /\ Valid(b)
    BY <1>1, <1>5 DEF Savable, Valid, ScenesKnown
  <1>7. Restores(b, g)
    <2> DEFINE d == Loaded(b, g)
    <2>7. c.sources = g.sources
      BY <1>2
    <2>1. /\ d.sources = KeptAlive(g.sources) /\ d.scenes = AddedAgain(g.scenes)
          /\ d.outputs = SavedOutputs(g) /\ d.transitions = Lasted(g.transitions)
          /\ d.active = g.active /\ d.preview = g.preview
      <3>1. ScenesKnown(b)
        BY <1>6 DEF Savable
      <3>2. /\ d.sources = KeptAlive(b.sources) /\ d.scenes = AddedAgain(b.scenes)
            /\ d.outputs = b.outputs /\ d.transitions = Lasted(b.transitions)
            /\ d.active = b.active /\ d.preview = b.preview
        BY <3>1, LoadedParts
      <3> HIDE DEF d
      <3> QED
        BY <1>5, <1>8, <2>7, <3>2
    <2> HIDE DEF d
    <2>2. /\ g.sources \in Table(Source, SourceRec) /\ g.scenes \in Table(Scene, SceneRec)
          /\ g.transitions \in [Transition -> Duration]
          /\ \A sc \in DOMAIN g.scenes : ItemsSorted(g.scenes[sc].items)
      BY DEF Kept, GraphRec, Sound, InOrder
    <2>3. /\ DOMAIN d.sources = DOMAIN g.sources
          /\ \A s \in DOMAIN g.sources :
                \/ d.sources[s] = g.sources[s]
                \/ g.sources[s].kind = "capture" /\ d.sources[s] = [g.sources[s] EXCEPT !.keep = TRUE]
      BY <2>1, <2>2, KeptAliveIs
    <2>4. /\ DOMAIN d.scenes = DOMAIN g.scenes
          /\ \A sc \in DOMAIN g.scenes :
                /\ d.scenes[sc].filters = g.scenes[sc].filters
                /\ ~ Doubled(g.scenes[sc].items) => d.scenes[sc].items = g.scenes[sc].items
      BY <2>1, <2>2, AddedAgainIs
    <2>5. \A t \in Transition : \/ d.transitions[t] = g.transitions[t]
                                \/ t = "fade" /\ g.transitions[t] = 500
      BY <2>1, <2>2, LastedIs
    <2>6. Survives(g, d)
      BY <2>1, <2>3, <2>4, <2>5 DEF Survives
    <2> QED
      BY <2>6 DEF Restores, d
  <1> QED
    BY <1>5, <1>6, <1>7 DEF b

\* So does a bundle restore the graph that it is loaded into.
LEMMA LoadedRestores ==
    ASSUME NEW b, ScenesKnown(b), NEW h,
           h.sources = KeptAlive(b.sources), h.scenes = AddedAgain(b.scenes),
           SavedOutputs(h) = b.outputs, h.transitions = Lasted(b.transitions),
           h.active = b.active, h.preview = b.preview
    PROVE  Restores(b, h)
  <1> DEFINE d == Loaded(b, h)
  <1>1. /\ d.sources = h.sources /\ d.scenes = h.scenes /\ d.outputs = SavedOutputs(h)
        /\ d.transitions = h.transitions /\ d.active = h.active /\ d.preview = h.preview
    BY LoadedParts
  <1> HIDE DEF d
  <1>2. Survives(h, d)
    BY <1>1 DEF Survives
  <1> QED
    BY <1>2 DEF Restores, d

-----------------------------------------------------------------------------
(* What the calls make of the graph that an instance keeps.                *)

LEMMA OutputsSet ==
    ASSUME NEW g, Kept(g), NEW f \in Table(Output, OutputRec)
    PROVE  /\ Kept([g EXCEPT !.outputs = f])
           /\ [g EXCEPT !.outputs = f].outputs = f
           /\ [g EXCEPT !.outputs = f].canvas = g.canvas
  <1> DEFINE h == [g EXCEPT !.outputs = f]
  <1>1. g \in GraphRec /\ Sound(g, {}) /\ g.runtime.id = NONE
    BY DEF Kept
  <1>2. /\ h \in GraphRec /\ h.outputs = f /\ h.canvas = g.canvas /\ h.runtime = g.runtime
        /\ h.sources = g.sources /\ h.scenes = g.scenes /\ h.active = g.active
        /\ h.preview = g.preview
    BY <1>1 DEF GraphRec
  <1> HIDE DEF h
  <1>3. Sound(h, {})
    BY <1>1, <1>2 DEF Sound, ItemsKnown, ScenesKnown, InOrder
  <1> QED
    BY <1>1, <1>2, <1>3 DEF Kept, h

LEMMA WithRunningIs ==
    ASSUME NEW g, Kept(g), NEW on \in SUBSET (DOMAIN g.outputs)
    PROVE  LET h == WithRunning(g, on)
           IN  /\ Kept(h) /\ h.canvas = g.canvas /\ Shown(h) = on
               /\ SavedOutputs(h) = SavedOutputs(g)
               /\ h.sources = g.sources /\ h.scenes = g.scenes /\ h.active = g.active
               /\ h.preview = g.preview /\ h.transitions = g.transitions
               /\ h.runtime = g.runtime
  <1> DEFINE R(o) == [g.outputs[o] EXCEPT !.running = o \in on]
             f == [o \in DOMAIN g.outputs |-> R(o)]
             h == WithRunning(g, on)
  <1>1. g \in GraphRec
    BY DEF Kept
  <1>2. \A o \in DOMAIN g.outputs :
           /\ o \in Output /\ R(o) \in OutputRec
           /\ R(o).running <=> o \in on
           /\ [R(o) EXCEPT !.running = FALSE] = [g.outputs[o] EXCEPT !.running = FALSE]
    <2>1. \A r \in OutputRec : \A c \in BOOLEAN :
             /\ [r EXCEPT !.running = c] \in OutputRec
             /\ [r EXCEPT !.running = c].running <=> c
             /\ [[r EXCEPT !.running = c] EXCEPT !.running = FALSE] = [r EXCEPT !.running = FALSE]
      BY DEF OutputRec
    <2>2. ASSUME NEW o \in DOMAIN g.outputs
          PROVE  /\ o \in Output /\ R(o) \in OutputRec
                 /\ R(o).running <=> o \in on
                 /\ [R(o) EXCEPT !.running = FALSE] = [g.outputs[o] EXCEPT !.running = FALSE]
      <3>1. o \in Output /\ g.outputs[o] \in OutputRec /\ (o \in on) \in BOOLEAN
        BY <1>1, GraphFacts
      <3> QED
        BY <2>1, <3>1
    <2> QED
      BY <2>2
  <1>3. h = [g EXCEPT !.outputs = f]
    BY DEF WithRunning
  <1> HIDE DEF R, h
  <1>4. DOMAIN f = DOMAIN g.outputs /\ \A o \in DOMAIN g.outputs : f[o] = R(o)
    OBVIOUS
  <1>5. f \in Table(Output, OutputRec)
    <2>1. DOMAIN f \in SUBSET Output /\ f \in [DOMAIN f -> OutputRec]
      BY <1>2, <1>4
    <2> QED
      BY <2>1, TableIs
  <1> HIDE DEF f
  <1>6. /\ h.outputs = f /\ h.sources = g.sources /\ h.scenes = g.scenes /\ h.active = g.active
        /\ h.preview = g.preview /\ h.transitions = g.transitions /\ h.runtime = g.runtime
    BY <1>1, <1>3 DEF GraphRec
  <1>7. Kept(h) /\ h.canvas = g.canvas
    BY <1>3, <1>5, OutputsSet
  <1>8. Shown(h) = on
    BY <1>2, <1>4, <1>6 DEF Shown
  <1>9. SavedOutputs(h) = SavedOutputs(g)
    BY <1>2, <1>4, <1>6 DEF SavedOutputs
  <1> QED
    BY <1>6, <1>7, <1>8, <1>9 DEF h

LEMMA StoppedSaved ==
    ASSUME NEW f \in Table(Output, OutputRec), \A o \in DOMAIN f : ~ f[o].running,
           NEW g, g.outputs = f
    PROVE  SavedOutputs(g) = f /\ Shown(g) = {}
  <1>1. f \in [DOMAIN f -> OutputRec]
    BY TableIs
  <1>2. \A o \in DOMAIN f : [f[o] EXCEPT !.running = FALSE] = f[o]
    <2>1. ASSUME NEW o \in DOMAIN f PROVE [f[o] EXCEPT !.running = FALSE] = f[o]
      <3>1. f[o] \in OutputRec /\ f[o].running = FALSE
        BY <1>1 DEF OutputRec
      <3> QED
        BY <3>1 DEF OutputRec
    <2> QED
      BY <2>1
  <1>3. SavedOutputs(g) = [o \in DOMAIN f |-> f[o]]
    BY <1>2 DEF SavedOutputs
  <1> QED
    BY <1>1, <1>3 DEF Shown

\* What starts of the outputs, with the branches that are there already.
LEMMA OutputsStarted ==
    ASSUME NEW g, Kept(g), NEW c \in Codec, NEW left \in SUBSET Output, StartOutputs(g, c, left)
    PROVE  /\ Kept(graph') /\ graph'.canvas = g.canvas /\ codec' \in Codec
           /\ SavedOutputs(graph') = SavedOutputs(g)
           /\ graph'.sources = g.sources /\ graph'.scenes = g.scenes
           /\ graph'.active = g.active /\ graph'.preview = g.preview
           /\ graph'.transitions = g.transitions
           /\ sinks' \in SUBSET Output /\ Odd(sinks', graph') \subseteq left
  <1>1. PICK enc \in Restored(g, c, left) :
           graph' = WithRunning(g, enc.sinks) /\ sinks' = left \cup enc.sinks
           /\ codec' = enc.codec
    BY DEF StartOutputs
  <1>2. enc.codec \in {c} \cup Wanted(g) /\ enc.sinks \in SUBSET AutoOutputs(g)
    BY DEF Restored
  <1>3. \A o \in DOMAIN g.outputs : o \in Output /\ g.outputs[o].codec \in Codec \cup {NONE}
    BY GraphFacts DEF Kept, OutputRec
  <1>4. enc.codec \in Codec /\ enc.sinks \in SUBSET (DOMAIN g.outputs)
    BY <1>2, <1>3 DEF Wanted, AutoOutputs
  <1> DEFINE on == enc.sinks
             k == WithRunning(g, on)
  <1>5. /\ Kept(k) /\ k.canvas = g.canvas /\ Shown(k) = on
        /\ SavedOutputs(k) = SavedOutputs(g)
        /\ k.sources = g.sources /\ k.scenes = g.scenes /\ k.active = g.active
        /\ k.preview = g.preview /\ k.transitions = g.transitions
    <2> HIDE DEF on
    <2> QED BY <1>4, WithRunningIs DEF on
  <1>6. graph' = k /\ sinks' = left \cup on /\ on \in SUBSET Output
    BY <1>1, <1>3, <1>4
  <1> HIDE DEF k, on
  <1>7. Odd(sinks', graph') \subseteq left
    BY <1>5, <1>6 DEF Odd
  <1> QED
    BY <1>1, <1>4, <1>5, <1>6, <1>7

\* A bundle that is loaded, whether or not its outputs start.
LEMMA RunIs ==
    ASSUME NEW b, Savable(b), Valid(b), NEW g \in GraphRec, NEW c \in Codec, NEW canvas,
           sinks \in SUBSET Output, Run(Loaded(b, g), c, canvas)
    PROVE  /\ Kept(graph') /\ graph'.canvas = NamedCanvas(b.canvas) /\ graph'.canvas \in Canvas
           /\ Restores(b, graph') /\ codec' \in Codec
           /\ sinks' \in SUBSET Output /\ Odd(sinks', graph') \subseteq LeftBranches
  <1> DEFINE h == Loaded(b, g)
  <1>1. Kept(h) /\ ScenesKnown(b) /\ b \in BundleRec /\ h.canvas \in Canvas
    BY LoadedKept DEF Savable
  <1>2. /\ h.canvas = NamedCanvas(b.canvas) /\ h.sources = KeptAlive(b.sources)
        /\ h.scenes = AddedAgain(b.scenes) /\ h.outputs = b.outputs
        /\ h.transitions = Lasted(b.transitions) /\ h.active = b.active /\ h.preview = b.preview
    BY <1>1, LoadedParts
  <1> HIDE DEF h
  <1>3. SavedOutputs(h) = b.outputs /\ Shown(h) = {}
    <2>1. b.outputs \in Table(Output, OutputRec) /\ \A o \in DOMAIN b.outputs : ~ b.outputs[o].running
      BY <1>1 DEF Savable, BundleRec
    <2> QED
      BY <1>2, <2>1, StoppedSaved
  <1>4. Run(h, c, canvas) /\ LeftBranches \in SUBSET Output
    BY DEF h, LeftBranches
  <1>5. CASE h.canvas # canvas
    <2>1. graph' = h /\ sinks' = LeftBranches /\ codec' = c
      BY <1>4, <1>5 DEF Run
    <2>2. Restores(b, h)
      BY <1>1, <1>2, <1>3, LoadedRestores
    <2>3. Odd(sinks', graph') \subseteq LeftBranches
      BY <1>3, <2>1 DEF Odd
    <2> QED
      BY <1>1, <1>2, <1>4, <2>1, <2>2, <2>3
  <1>6. CASE h.canvas = canvas
    <2>1. StartOutputs(h, c, LeftBranches)
      BY <1>4, <1>6 DEF Run
    <2>2. /\ Kept(graph') /\ graph'.canvas = h.canvas /\ codec' \in Codec
          /\ SavedOutputs(graph') = SavedOutputs(h)
          /\ graph'.sources = h.sources /\ graph'.scenes = h.scenes
          /\ graph'.active = h.active /\ graph'.preview = h.preview
          /\ graph'.transitions = h.transitions
          /\ sinks' \in SUBSET Output /\ Odd(sinks', graph') \subseteq LeftBranches
      BY <1>1, <1>4, <2>1, OutputsStarted
    <2>3. Restores(b, graph')
      BY <1>1, <1>2, <1>3, <2>2, LoadedRestores
    <2> QED
      BY <1>1, <1>2, <2>2, <2>3
  <1> QED
    BY <1>5, <1>6

LEMMA EditKept ==
    ASSUME NEW g, Kept(g), NEW h \in Edits(g)
    PROVE  Kept(h) /\ h.outputs = g.outputs /\ h.canvas = g.canvas
  <1>1. g \in GraphRec /\ Sound(g, {}) /\ g.runtime.id = NONE
    BY DEF Kept
  <1>2. CASE h \in {CreateSource(g, s, "capture", FALSE) : s \in Source \ DOMAIN g.sources}
    <2>1. PICK s \in Source : h = CreateSource(g, s, "capture", FALSE)
      BY <1>2
    <2> DEFINE r == NewSource("capture", FALSE)
    <2>2. r \in SourceRec
      <3>1. NoEntries \in Filters
        BY NoEntriesIs DEF Filters
      <3> QED
        BY <3>1 DEF NewSource, SourceRec, NoAudio, AudioBinding, Kinds
    <2> HIDE DEF r
    <2>3. h = [g EXCEPT !.sources = Put(g.sources, s, r)]
      BY <2>1 DEF CreateSource, r
    <2>4. SetsSource(g, h, s, r)
      BY <1>1, <2>2, <2>3, SourcePut
    <2>5. h.outputs = g.outputs /\ h.canvas = g.canvas
      BY <1>1, <2>3 DEF GraphRec
    <2>6. Sound(h, {})
      BY <1>1, <2>4, SetsSound
    <2> QED
      BY <1>1, <2>4, <2>5, <2>6 DEF Kept, SetsSource, SameChoice
  <1>3. CASE h \in {RemoveSource(g, s) : s \in DOMAIN g.sources}
    <2>1. PICK s \in DOMAIN g.sources : h = RemoveSource(g, s)
      BY <1>3
    <2>2. h \in GraphRec /\ Sound(h, {})
      BY <1>1, <2>1, SourceDropped
    <2>3. h.outputs = g.outputs /\ h.canvas = g.canvas /\ h.runtime = g.runtime
      BY <1>1, <2>1 DEF RemoveSource, GraphRec
    <2> QED
      BY <1>1, <2>2, <2>3 DEF Kept
  <1>4. CASE h \in {CreateScene(g, sc) : sc \in Scene \ DOMAIN g.scenes}
    <2>1. PICK sc \in Scene \ DOMAIN g.scenes : h = CreateScene(g, sc)
      BY <1>4
    <2>2. h \in GraphRec /\ Sound(h, {})
      BY <1>1, <2>1, ScenePut
    <2>3. h.outputs = g.outputs /\ h.canvas = g.canvas /\ h.runtime = g.runtime
      BY <1>1, <2>1 DEF CreateScene, GraphRec
    <2> QED
      BY <1>1, <2>2, <2>3 DEF Kept
  <1>5. CASE h \in {AddItem(g, a[1], a[2], AutoId, 0, TRUE, NoAudio) :
                      a \in (DOMAIN g.scenes) \X (DOMAIN g.sources)}
    <2>1. PICK sc \in DOMAIN g.scenes, s \in DOMAIN g.sources :
             h = AddItem(g, sc, s, AutoId, 0, TRUE, NoAudio)
      BY <1>5
    <2>2. [id |-> AutoId, src |-> s, z |-> 0, shown |-> TRUE, audio |-> NoAudio] \in ItemRec
      <3>1. s \in Source
        BY <1>1, GraphFacts
      <3> QED
        BY <3>1 DEF ItemRec, AutoId, NoAudio, AudioBinding
    <2>3. h \in GraphRec /\ SameChoice(g, h) /\ Sound(h, {})
      <3>1. Sound(h, {} \ {sc}) /\ h \in GraphRec /\ SameChoice(g, h)
        BY <1>1, <2>1, <2>2, AddedSound
      <3>2. {} \ {sc} = {}
        OBVIOUS
      <3> QED
        BY <3>1, <3>2
    <2>4. h.outputs = g.outputs /\ h.canvas = g.canvas
      BY <1>1, <2>1 DEF AddItem, WithItems, GraphRec
    <2> QED
      BY <1>1, <2>3, <2>4 DEF Kept, SameChoice
  <1>6. CASE h = UpdateTransition(g, "fade", 500)
    <2>1. "fade" \in Transition /\ 500 \in Duration
      BY DEF Transition, Duration
    <2>2. h \in GraphRec /\ Sound(h, {})
      BY <1>1, <1>6, <2>1, RestSet
    <2>3. h.outputs = g.outputs /\ h.canvas = g.canvas /\ h.runtime = g.runtime
      BY <1>1, <1>6 DEF UpdateTransition, GraphRec
    <2> QED
      BY <1>1, <2>2, <2>3 DEF Kept
  <1> QED
    BY <1>2, <1>3, <1>4, <1>5, <1>6 DEF Edits

LEMMA UnmarkedKept ==
    ASSUME NEW g, Kept(g),
           NEW h \in {SetPreviewScene(g, sc) : sc \in DOMAIN g.scenes}
                     \cup {RemoveScene(g, sc) : sc \in {s \in Scene : CanRemoveScene(g, s)}}
    PROVE  /\ Kept(h) /\ h.outputs = g.outputs
           /\ h.sources = g.sources /\ h.canvas = g.canvas
  <1>1. g \in GraphRec /\ Sound(g, {}) /\ g.runtime.id = NONE
    BY DEF Kept
  <1>2. CASE h \in {SetPreviewScene(g, sc) : sc \in DOMAIN g.scenes}
    <2>1. PICK sc \in DOMAIN g.scenes : h = SetPreviewScene(g, sc)
      BY <1>2
    <2>2. h \in GraphRec /\ Sound(h, {})
      BY <1>1, <2>1, RestSet
    <2>3. h.outputs = g.outputs /\ h.runtime = g.runtime
          /\ h.sources = g.sources /\ h.canvas = g.canvas
      BY <1>1, <2>1 DEF SetPreviewScene, GraphRec
    <2> QED
      BY <1>1, <2>2, <2>3 DEF Kept
  <1>3. CASE h \in {RemoveScene(g, sc) : sc \in {s \in Scene : CanRemoveScene(g, s)}}
    <2>1. PICK sc \in Scene : CanRemoveScene(g, sc) /\ h = RemoveScene(g, sc)
      BY <1>3
    <2>2. h \in GraphRec /\ Sound(h, {} \ {sc})
      BY <1>1, <2>1, SceneDropped
    <2>3. h.outputs = g.outputs /\ h.runtime = g.runtime
          /\ h.sources = g.sources /\ h.canvas = g.canvas
      BY <1>1, <2>1 DEF RemoveScene, GraphRec
    <2>4. {} \ {sc} = {}
      OBVIOUS
    <2> QED
      BY <1>1, <2>2, <2>3, <2>4 DEF Kept
  <1> QED
    BY <1>2, <1>3

LEMMA OutputSet ==
    ASSUME NEW g, Kept(g), NEW o \in DOMAIN g.outputs, NEW r \in OutputRec
    PROVE  LET h == [g EXCEPT !.outputs[o] = r]
           IN  /\ Kept(h) /\ h.canvas = g.canvas
               /\ Shown(h) = IF r.running THEN Shown(g) \cup {o} ELSE Shown(g) \ {o}
  <1> DEFINE f == [g.outputs EXCEPT ![o] = r]
             h == [g EXCEPT !.outputs = f]
  <1>1. g \in GraphRec
    BY DEF Kept
  <1>2. /\ f \in Table(Output, OutputRec) /\ DOMAIN f = DOMAIN g.outputs
        /\ f[o] = r /\ \A x \in DOMAIN g.outputs \ {o} : f[x] = g.outputs[x]
    BY <1>1, GraphFacts, TableSet
  <1>3. h = [g EXCEPT !.outputs[o] = r]
    BY <1>1 DEF GraphRec
  <1> HIDE DEF f
  <1>4. Kept(h) /\ h.outputs = f /\ h.canvas = g.canvas
    BY <1>2, OutputsSet
  <1> HIDE DEF h
  <1>5. Shown(h) = IF r.running THEN Shown(g) \cup {o} ELSE Shown(g) \ {o}
    BY <1>2, <1>4 DEF Shown
  <1> QED
    BY <1>3, <1>4, <1>5

\* What a call that marks the configuration dirty leaves.
Edited ==
    /\ MayCall /\ Changed(graph')
    /\ Kept(graph') /\ graph'.canvas = graph.canvas /\ codec' \in Codec
    /\ sinks' \in SUBSET Output /\ astray' \in SUBSET Output
    /\ Odd(sinks', graph') \subseteq astray'

\* What is left of a start that failed, and of an update of the encoder.
OnlyEncoder ==
    /\ MayCall /\ codec' \in Codec
    /\ sinks' \in SUBSET Output /\ astray' \in SUBSET Output
    /\ Odd(sinks', graph') \subseteq astray'
    /\ UNCHANGED <<up, graph, comp, pending, timers, timerId, saver, files,
                   unmarked, disturbed, leaving>>

\* A call by which no output comes to be at odds with its branch.
LEMMA NoneStray ==
    ASSUME astray \in SUBSET Output, Odd(sinks, graph) \subseteq astray,
           Odd(sinks', graph') \subseteq Odd(sinks, graph),
           Strays({}) \/ UNCHANGED astray
    PROVE  astray' \in SUBSET Output /\ Odd(sinks', graph') \subseteq astray'
  BY DEF Strays

LEMMA OutputsEdited ==
    ASSUME Kept(graph), codec \in Codec, sinks \in SUBSET Output, astray \in SUBSET Output,
           Odd(sinks, graph) \subseteq astray,
           NEW o \in Output, NEW want \in Codec \cup {NONE}, NEW ok \in BOOLEAN
    PROVE  /\ OutputCreate(o, want) => Edited
           /\ OutputStart(o, want) => Edited \/ OnlyEncoder
           /\ OutputRemove(o) => Edited
           /\ OutputStop(o) => Edited
           /\ OutputUpdate(o, want, ok) => Edited
  <1>1. graph \in GraphRec /\ graph.outputs \in Table(Output, OutputRec)
        /\ \A x \in DOMAIN graph.outputs : graph.outputs[x] \in OutputRec
    BY GraphFacts DEF Kept
  <1>7. ASSUME NEW h, Kept(h), h.canvas = graph.canvas, MayCall, Changed(h), codec' \in Codec,
               sinks' \in SUBSET Output, Strays({}) \/ UNCHANGED astray,
               \A x \in Output : ((x \in sinks' <=> x \in sinks) /\ (x \in Shown(h) <=> x \in Shown(graph)))
                                 \/ (x \in sinks' <=> x \in Shown(h))
        PROVE  Edited
    <2>1. graph' = h
      BY <1>7 DEF Changed
    <2>2. Odd(sinks', graph') \subseteq Odd(sinks, graph)
      BY <1>7, <2>1 DEF Odd
    <2>3. astray' \in SUBSET Output /\ Odd(sinks', graph') \subseteq astray'
      BY <1>7, <2>2, NoneStray
    <2> QED
      BY <1>7, <2>1, <2>3 DEF Edited
  <1>2. ASSUME OutputCreate(o, want) PROVE Edited
    <2> DEFINE r == NewOutput(want, FALSE)
               f == Put(graph.outputs, o, r)
               h == [graph EXCEPT !.outputs = f]
    <2>1. r \in OutputRec /\ ~ r.running
      BY DEF NewOutput, OutputRec
    <2>2. h = CreateOutput(graph, o, want, FALSE)
      BY DEF CreateOutput
    <2> HIDE DEF r
    <2>3. f \in Table(Output, OutputRec)
      BY <1>1, <2>1, TablePut
    <2>4. /\ DOMAIN f = DOMAIN graph.outputs \cup {o} /\ f[o] = r
          /\ \A x \in DOMAIN graph.outputs \ {o} : f[x] = graph.outputs[x]
      BY DEF Put
    <2> HIDE DEF f
    <2>5. Kept(h) /\ h.outputs = f /\ h.canvas = graph.canvas
      BY <2>3, OutputsSet
    <2> HIDE DEF h
    <2>6. Shown(h) = Shown(graph)
      BY <1>2, <2>1, <2>4, <2>5 DEF Shown, OutputCreate
    <2>7. MayCall /\ Changed(h) /\ sinks' = sinks /\ codec' = codec /\ astray' = astray
      BY <1>2, <2>2 DEF OutputCreate
    <2> QED
      BY <1>7, <2>5, <2>6, <2>7
  <1>3. ASSUME OutputRemove(o) PROVE Edited
    <2> DEFINE f == Drop(graph.outputs, o)
               h == [graph EXCEPT !.outputs = f]
    <2>1. h = RemoveOutput(graph, o)
      BY DEF RemoveOutput
    <2>2. f \in Table(Output, OutputRec)
      BY <1>1, TableDrop
    <2>3. /\ DOMAIN f = DOMAIN graph.outputs \ {o}
          /\ \A x \in DOMAIN graph.outputs \ {o} : f[x] = graph.outputs[x]
      BY DropIs
    <2> HIDE DEF f
    <2>4. Kept(h) /\ h.outputs = f /\ h.canvas = graph.canvas
      BY <2>2, OutputsSet
    <2> HIDE DEF h
    <2>5. Shown(h) = Shown(graph) \ {o}
      BY <2>3, <2>4 DEF Shown
    <2>6. MayCall /\ Changed(h) /\ codec' = codec /\ Strays({}) /\ o \in DOMAIN graph.outputs
      BY <1>3, <2>1 DEF OutputRemove
    <2>7. sinks' = IF o \in Shown(graph) THEN sinks \ {o} ELSE sinks
      BY <1>3, <2>6 DEF OutputRemove, Shown
    <2> QED
      BY <1>7, <2>4, <2>5, <2>6, <2>7
  <1>4. ASSUME OutputStop(o) PROVE Edited
    <2> DEFINE r == [graph.outputs[o] EXCEPT !.running = FALSE, !.auto = FALSE]
               h == [graph EXCEPT !.outputs[o] = r]
    <2>1. o \in DOMAIN graph.outputs
      BY <1>4 DEF OutputStop
    <2>2. r \in OutputRec /\ ~ r.running
      BY <1>1, <2>1 DEF OutputRec
    <2>3. [graph EXCEPT !.outputs[o].running = FALSE, !.outputs[o].auto = FALSE] = h
      BY <1>1, <2>1, TableIs DEF GraphRec, OutputRec
    <2> HIDE DEF r
    <2>4. Kept(h) /\ Shown(h) = Shown(graph) \ {o} /\ h.canvas = graph.canvas
      BY <2>1, <2>2, OutputSet
    <2> HIDE DEF h
    <2>5. MayCall /\ Changed(h) /\ codec' = codec /\ sinks' = sinks \ {o} /\ Strays({})
      BY <1>4, <2>3 DEF OutputStop
    <2> QED
      BY <1>7, <2>4, <2>5
  <1>5. ASSUME OutputStart(o, want)
        PROVE  Edited \/ OnlyEncoder
    <2> DEFINE w == IF want # NONE THEN want ELSE graph.outputs[o].codec
               k == IF w # NONE THEN w ELSE graph.outputs[o].codec
               r == [codec |-> k, auto |-> TRUE, running |-> TRUE]
               h == [graph EXCEPT !.outputs[o] = r]
    <2>1. o \in DOMAIN graph.outputs
      BY <1>5 DEF OutputStart
    <2>2. w \in Codec \cup {NONE} /\ k \in Codec \cup {NONE}
      BY <1>1, <2>1 DEF OutputRec
    <2>3. codec' \in Codec
      <3>1. codec' = CodecFor(codec, w)
        BY <1>5 DEF OutputStart
      <3> HIDE DEF w
      <3> QED
        BY <2>2, <3>1 DEF CodecFor
    <2>6. MayCall /\ \/ Changed(h) /\ sinks' = sinks \cup {o} /\ Strays({})
                     \/ UNCHANGED <<up, graph, comp, sinks, pending, timers, timerId, saver,
                                    files, unmarked, disturbed, astray, leaving>>
      BY <1>5 DEF OutputStart
    <2> HIDE DEF k
    <2>4. r \in OutputRec /\ r.running
      BY <2>2 DEF OutputRec
    <2> HIDE DEF r
    <2>5. Kept(h) /\ Shown(h) = Shown(graph) \cup {o} /\ h.canvas = graph.canvas
      BY <2>1, <2>4, OutputSet
    <2> HIDE DEF h
    <2>8. CASE Changed(h) /\ sinks' = sinks \cup {o} /\ Strays({})
      BY <1>7, <2>3, <2>5, <2>6, <2>8
    <2>9. CASE UNCHANGED <<up, graph, comp, sinks, pending, timers, timerId, saver,
                           files, unmarked, disturbed, astray, leaving>>
      <3>1. Odd(sinks', graph') \subseteq astray'
        BY <2>9 DEF Odd, Shown
      <3> QED
        BY <2>3, <2>6, <2>9, <3>1 DEF OnlyEncoder
    <2> QED
      BY <2>6, <2>8, <2>9
  <1>6. ASSUME OutputUpdate(o, want, ok) PROVE Edited
    <2> DEFINE on == graph.outputs[o].running
               fits == o \in sinks => CodecFits(codec, want, sinks \ {o})
               again == on /\ fits /\ ok
               q == [graph.outputs[o] EXCEPT !.codec = want]
               r == [q EXCEPT !.running = again]
               h == [graph EXCEPT !.outputs[o] = r]
    <2>1. o \in DOMAIN graph.outputs
      BY <1>6 DEF OutputUpdate
    <2>2. q \in OutputRec
      BY <1>1, <2>1 DEF OutputRec
    <2>3. /\ MayCall
          /\ codec' = (IF on /\ o \in sinks /\ fits THEN CodecFor(codec, want) ELSE codec)
          /\ sinks' = (IF on /\ ~ again THEN sinks \ {o} ELSE sinks)
          /\ Changed([graph EXCEPT !.outputs[o].codec = want, !.outputs[o].running = again])
          /\ Strays({})
      BY <1>6 DEF OutputUpdate
    <2>4. codec' \in Codec
      BY <2>3 DEF CodecFor
    <2>5. again \in BOOLEAN /\ on \in BOOLEAN /\ (again => on)
      BY <1>1, <2>1 DEF OutputRec
    <2>6. on <=> o \in Shown(graph)
      BY <2>1 DEF Shown
    <2> HIDE DEF again, on
    <2>7. [graph EXCEPT !.outputs[o].codec = want, !.outputs[o].running = again] = h
      BY <1>1, <2>1, TableIs DEF GraphRec, OutputRec
    <2>8. r \in OutputRec /\ r.running = again
      BY <2>2, <2>5 DEF OutputRec
    <2> HIDE DEF q, r
    <2>9. Kept(h) /\ h.canvas = graph.canvas
          /\ Shown(h) = IF r.running THEN Shown(graph) \cup {o} ELSE Shown(graph) \ {o}
      BY <2>1, <2>8, OutputSet
    <2>10. Changed(h)
      BY <2>3, <2>7
    <2> HIDE DEF h
    <2>11. \A x \in Output : ((x \in sinks' <=> x \in sinks) /\ (x \in Shown(h) <=> x \in Shown(graph)))
                             \/ (x \in sinks' <=> x \in Shown(h))
      BY <2>3, <2>5, <2>6, <2>8, <2>9
    <2>12. sinks' \in SUBSET Output
      BY <2>3
    <2> QED
      BY <1>7, <2>3, <2>4, <2>9, <2>10, <2>11, <2>12
  <1> QED
    BY <1>2, <1>3, <1>4, <1>5, <1>6

\* encoder.update_config takes off branches and tells no output.
LEMMA EncoderUpdated ==
    ASSUME sinks \in SUBSET Output, astray \in SUBSET Output,
           Odd(sinks, graph) \subseteq astray, NEW c \in Codec, EncoderUpdate(c)
    PROVE  OnlyEncoder
  <1>1. /\ MayCall /\ codec' = c /\ sinks' \in SUBSET sinks /\ Strays(sinks)
        /\ UNCHANGED <<up, graph, comp, pending, timers, timerId, saver, files, unmarked,
                       disturbed, leaving>>
    BY DEF EncoderUpdate
  <1>2. Odd(sinks', graph') \subseteq astray \cup sinks
    BY <1>1 DEF Odd, Shown
  <1>3. astray' \in SUBSET Output /\ Odd(sinks', graph') \subseteq astray'
    BY <1>1, <1>2 DEF Strays
  <1> QED
    BY <1>1, <1>3 DEF OnlyEncoder

-----------------------------------------------------------------------------
(* The invariant of Configuration.                                         *)

Jobs == {"none", "boot", "save", "update", "apply", "import", "reset"}
SaverRec ==
    [pc : {"idle", "rest", "open", "write", "rename"}, job : Jobs,
     bundle : BundleRec \cup PartRec \cup {NONE}, torn : BOOLEAN,
     inode : Inode \cup {Absent}, alone : BOOLEAN]
ContentRec == [text : {"none", "part", "whole"}, bundle : BundleRec \cup {NONE}, torn : BOOLEAN]
FilesRec == [state : Inode \cup {Absent}, tmp : Inode \cup {Absent},
             data : [Inode -> ContentRec]]

ConfigTypes ==
    /\ up \in {"down", "boot", "run", "exiting"}
    /\ Kept(graph) /\ graph.canvas \in Canvas /\ comp \in Canvas
    /\ codec \in Codec /\ sinks \in SUBSET Output /\ pending \in Canvas \cup {NONE}
    /\ timers \in Nat /\ timerId \in {"none", "timer", "fired"}
    /\ saver \in [Thread -> SaverRec] /\ files \in FilesRec
    /\ unmarked \in BOOLEAN /\ disturbed \in BOOLEAN
    /\ astray \in SUBSET Output /\ leaving \in Canvas \cup {NONE}

\* What a save holds, of a graph g: what it has read of it, if no call came
\* in between; and once it is built, a bundle that can be loaded.
Holds(s, g) ==
    /\ s.pc = "idle" => s.job = "none"
    /\ s.job = "update" => s.bundle.canvas \in Canvas
    /\ s.pc = "rest" =>
          /\ s.bundle \in PartRec
          /\ ~ s.torn => s.bundle.sources = g.sources
    /\ s.pc \in {"open", "write", "rename"} =>
          Savable(s.bundle) /\ (~ s.torn => Valid(s.bundle))

\* The canvas it holds is g's, unless it is the one of canvas.update.
CanvasOf(s, g) == s.job # "update" => NamedCanvas(s.bundle.canvas) = g.canvas

\* No save touches state.json but by renaming.
FilesOK ==
    /\ \A i \in Inode : Parses(files.data[i]) => Savable(files.data[i].bundle)
    /\ files.tmp # Absent => files.tmp # files.state
    /\ \A t \in Thread : saver[t].pc \in {"write", "rename"} =>
          saver[t].inode \in Inode /\ (~ disturbed => saver[t].inode # files.state)

\* A save that is alone has the temporary file for itself, and what it will
\* rename is what there is, unless a call marks it dirty or marks nothing, or the
\* write comes short.  Only a call that makes another save changes the canvas.
AloneOK ==
    \A t \in Thread : saver[t].alone /\ Busy(t) =>
        /\ \A u \in Thread \ {t} : ~ Busy(u)
        /\ CanvasOf(saver[t], graph)
        /\ saver[t].pc \in {"write", "rename"} => files.tmp = saver[t].inode
        /\ saver[t].pc = "rename" =>
              files.data[saver[t].inode] \in {Content(saver[t].bundle, saver[t].torn), Cut}
        /\ saver[t].pc \in {"open", "write", "rename"} /\ ~ saver[t].torn
           /\ timers = 0 /\ ~ unmarked => Restores(saver[t].bundle, graph)

LifeOK ==
    /\ timerId = "timer" => timers > 0
    /\ up = "down" => sinks = {} /\ \A t \in Thread : ~ Busy(t)
    /\ up = "boot" => ~ Busy("client")
    /\ saver["loop"].job \in {"none", "boot", "save"}
    /\ saver["loop"].job = "boot" => up = "boot"

\* While an instance exits for a canvas no call saves another one.
LeavingOK ==
    leaving # NONE =>
        /\ up \in {"exiting", "down"} /\ ~ Busy("client")
        /\ up = "exiting" => graph.canvas = leaving
        /\ ~ disturbed /\ Parses(OnDisk) => OnDisk.bundle.canvas \in {leaving, NONE}

ConfigIInv ==
    /\ ConfigTypes
    /\ \A t \in Thread : Holds(saver[t], graph)
    /\ FilesOK /\ AloneOK /\ LifeOK /\ LeavingOK
    /\ OutputsMatchSinks /\ LastGoodKept /\ SavedOrPending

LEMMA ThreadIs ==
    /\ Thread = {"loop", "client"}
    /\ Other("loop") = "client" /\ Other("client") = "loop"
    /\ \A t \in Thread : Other(t) \in Thread /\ Other(t) # t /\ Other(Other(t)) = t
    /\ \A t, u \in Thread : u = t \/ u = Other(t)
  <1>1. Other("loop") = "client" /\ Other("client") = "loop"
    BY DEF Other, Thread
  <1> QED
    BY <1>1 DEF Thread

\* What state.json restores.
SavedBy(d, g, c, p) ==
    IF ~ Parses(d) THEN g = NewDefault(c)
    ELSE Restores(d.bundle, g) /\ NamedCanvas(d.bundle.canvas) \in {g.canvas, p}

Quiet == /\ up = "run" /\ timers = 0 /\ \A t \in Thread : ~ Busy(t)
         /\ ~ unmarked /\ ~ disturbed /\ ~ OnDisk.torn /\ OnDisk.text # "part"

LEMMA SavedMeans ==
    /\ SavedOrPending <=> (Quiet => SavedBy(OnDisk, graph, comp, pending))
    /\ SavedOrPending' <=> (Quiet' => SavedBy(OnDisk', graph', comp', pending'))
  <1>1. ASSUME NEW d, NEW g, NEW c, NEW p
        PROVE  SavedBy(d, g, c, p) <=>
                  IF ~ Parses(d) THEN g = NewDefault(c)
                  ELSE LET disk == Loaded(d.bundle, g)
                       IN  Survives(g, disk) /\ disk.canvas \in {g.canvas, p}
    <2>1. Loaded(d.bundle, g).canvas = NamedCanvas(d.bundle.canvas)
      BY DEF Loaded, NamedCanvas
    <2> QED
      BY <2>1 DEF SavedBy, Restores
  <1>2. SavedOrPending <=> (Quiet => SavedBy(OnDisk, graph, comp, pending))
    BY <1>1 DEF SavedOrPending, Quiet
  <1>3. SavedOrPending' <=> (Quiet' => SavedBy(OnDisk', graph', comp', pending'))
    BY <1>1 DEF SavedOrPending, Quiet
  <1> QED
    BY <1>2, <1>3

\* Two of the same saves begun, seen thread by thread.
LEMMA BegunIs ==
    ASSUME saver \in [Thread -> SaverRec], NEW t \in Thread,
           NEW pc \in {"rest", "open"}, NEW job \in Jobs, NEW b \in BundleRec \cup PartRec
    PROVE  LET s == Begun(t, pc, job, b)
               u == Other(t)
           IN  /\ s \in [Thread -> SaverRec]
               /\ s[t].pc = pc /\ s[t].job = job /\ s[t].bundle = b /\ ~ s[t].torn
               /\ s[t].inode = Absent /\ (s[t].alone <=> ~ Busy(u))
               /\ s[u].pc = saver[u].pc /\ s[u].job = saver[u].job
               /\ s[u].bundle = saver[u].bundle /\ s[u].torn = saver[u].torn
               /\ s[u].inode = saver[u].inode
               /\ s[u].alone <=> saver[u].alone /\ ~ Busy(u)
  <1> DEFINE u == Other(t)
             s == Begun(t, pc, job, b)
             free == ~ Busy(u)
             x == [Idle EXCEPT !.pc = pc, !.job = job, !.bundle = b, !.alone = free]
             on == saver[u].alone /\ ~ Busy(u)
             y == [saver[u] EXCEPT !.alone = on]
  <1>1. u \in Thread /\ u # t
    BY ThreadIs
  <1>2. x \in SaverRec /\ x.pc = pc /\ x.job = job /\ x.bundle = b /\ ~ x.torn
        /\ x.inode = Absent /\ x.alone = free
    <2>1. free \in BOOLEAN
      BY DEF Busy
    <2> HIDE DEF free
    <2> QED
      BY <2>1 DEF SaverRec, Idle
  <1>3. y \in SaverRec /\ (y.alone <=> on) /\ y.pc = saver[u].pc /\ y.job = saver[u].job
        /\ y.bundle = saver[u].bundle /\ y.torn = saver[u].torn /\ y.inode = saver[u].inode
    <2>1. on \in BOOLEAN
      BY DEF Busy
    <2>2. saver[u] \in SaverRec
      BY <1>1
    <2>3. \A r \in SaverRec : \A c \in BOOLEAN :
             LET k == [r EXCEPT !.alone = c]
             IN  /\ k \in SaverRec /\ k.alone = c /\ k.pc = r.pc /\ k.job = r.job
                 /\ k.bundle = r.bundle /\ k.torn = r.torn /\ k.inode = r.inode
      BY DEF SaverRec
    <2> HIDE DEF u, on
    <2>4. y.alone = on
      BY <2>1, <2>2, <2>3
    <2>5. y \in SaverRec /\ y.pc = saver[u].pc /\ y.job = saver[u].job
          /\ y.bundle = saver[u].bundle /\ y.torn = saver[u].torn /\ y.inode = saver[u].inode
      BY <2>1, <2>2, <2>3
    <2>6. y.alone <=> on
      BY <2>4
    <2> QED
      BY <2>5, <2>6
  <1>4. s = [saver EXCEPT ![t] = x, ![u].alone = @ /\ ~ Busy(u)]
    BY Zenon DEF Begun
  <1> HIDE DEF u, x
  <1>5. s = [saver EXCEPT ![t] = x, ![u] = y]
    BY <1>1, <1>4
  <1> HIDE DEF s, y, on
  <1>6. s \in [Thread -> SaverRec] /\ s[t] = x /\ s[u] = y
    BY <1>1, <1>2, <1>3, <1>5
  <1>7. x.alone <=> ~ Busy(u)
    BY <1>2
  <1> HIDE DEF free
  <1> QED
    BY <1>2, <1>3, <1>6, <1>7 DEF s, on, u

LEMMA FreshIs ==
    ASSUME files \in FilesRec, files.tmp = Absent, saver \in [Thread -> SaverRec]
    PROVE  Fresh \in Inode /\ Fresh # files.state
           /\ \A t \in Thread : Fresh # saver[t].inode
  <1>1. Used = {files.state, files.tmp, saver["loop"].inode, saver["client"].inode}
    BY DEF Used, Thread
  <1>2. 1 \in Inode /\ 2 \in Inode /\ 3 \in Inode /\ 4 \in Inode /\ Absent \notin Inode
    BY DEF Inode, Absent
  <1>3. \E i \in Inode : i \notin Used
    BY <1>1, <1>2
  <1>4. Fresh \in Inode /\ Fresh \notin Used
    BY <1>3 DEF Fresh
  <1> QED
    BY <1>4 DEF Used

LEMMA TearingIs ==
    ASSUME saver \in [Thread -> SaverRec]
    PROVE  /\ Tearing \in [Thread -> SaverRec]
           /\ \A t \in Thread :
                 /\ saver[t].pc # "rest" => Tearing[t] = saver[t]
                 /\ saver[t].pc = "rest" => Tearing[t].torn
                 /\ Tearing[t].pc = saver[t].pc /\ Tearing[t].job = saver[t].job
                 /\ Tearing[t].bundle = saver[t].bundle /\ Tearing[t].inode = saver[t].inode
                 /\ Tearing[t].alone = saver[t].alone
  <1>1. \A r \in SaverRec :
           LET k == [r EXCEPT !.torn = TRUE]
           IN  /\ k \in SaverRec /\ k.torn /\ k.pc = r.pc /\ k.job = r.job
               /\ k.bundle = r.bundle /\ k.inode = r.inode /\ k.alone = r.alone
    BY DEF SaverRec
  <1>2. \A t \in Thread : Tearing[t] = IF saver[t].pc = "rest"
                                       THEN [saver[t] EXCEPT !.torn = TRUE] ELSE saver[t]
    BY DEF Tearing
  <1>3. \A t \in Thread : saver[t] \in SaverRec /\ Tearing[t] \in SaverRec
    BY <1>1, <1>2
  <1>4. Tearing \in [Thread -> SaverRec]
    <2>1. Tearing = [t \in Thread |-> Tearing[t]]
      BY DEF Tearing
    <2> QED
      BY <1>3, <2>1
  <1> QED
    BY <1>1, <1>2, <1>3, <1>4

\* A call that begins a save, while the main loop may be building a bundle.
LEMMA CalledIs ==
    ASSUME saver \in [Thread -> SaverRec], NEW pc \in {"rest", "open"}, NEW job \in Jobs,
           NEW b \in BundleRec \cup PartRec
    PROVE  LET s == Begun("client", pc, job, b)
               x == [s EXCEPT !["loop"].torn = Tearing["loop"].torn]
           IN  /\ x \in [Thread -> SaverRec]
               /\ x["client"].pc = pc /\ x["client"].job = job /\ x["client"].bundle = b
               /\ ~ x["client"].torn
               /\ x["client"].inode = Absent /\ (x["client"].alone <=> ~ Busy("loop"))
               /\ x["loop"].pc = saver["loop"].pc /\ x["loop"].job = saver["loop"].job
               /\ x["loop"].bundle = saver["loop"].bundle
               /\ x["loop"].inode = saver["loop"].inode
               /\ x["loop"].alone <=> saver["loop"].alone /\ ~ Busy("loop")
               /\ saver["loop"].pc # "rest" => x["loop"].torn = saver["loop"].torn
               /\ saver["loop"].pc = "rest" => x["loop"].torn
  <1> DEFINE s == Begun("client", pc, job, b)
             c == Tearing["loop"].torn
             x == [s EXCEPT !["loop"].torn = c]
             y == [s["loop"] EXCEPT !.torn = c]
  <1>1. /\ s \in [Thread -> SaverRec]
        /\ s["client"].pc = pc /\ s["client"].job = job /\ s["client"].bundle = b
        /\ ~ s["client"].torn /\ s["client"].inode = Absent
        /\ (s["client"].alone <=> ~ Busy("loop"))
        /\ s["loop"].pc = saver["loop"].pc /\ s["loop"].job = saver["loop"].job
        /\ s["loop"].bundle = saver["loop"].bundle /\ s["loop"].inode = saver["loop"].inode
        /\ (s["loop"].alone <=> saver["loop"].alone /\ ~ Busy("loop"))
    BY BegunIs, ThreadIs
  <1> HIDE DEF s
  <1>2. c \in BOOLEAN /\ (saver["loop"].pc # "rest" => c = saver["loop"].torn)
        /\ (saver["loop"].pc = "rest" => c)
    BY TearingIs, ThreadIs DEF SaverRec
  <1> HIDE DEF c
  <1>3. s["loop"] \in SaverRec
    BY <1>1, ThreadIs
  <1>4. y \in SaverRec /\ y.torn = c /\ y.pc = s["loop"].pc /\ y.job = s["loop"].job
        /\ y.bundle = s["loop"].bundle /\ y.inode = s["loop"].inode
        /\ y.alone = s["loop"].alone
    BY <1>2, <1>3 DEF SaverRec
  <1> HIDE DEF y
  <1>5. x = [s EXCEPT !["loop"] = y]
    BY DEF y
  <1> HIDE DEF x
  <1>6. x \in [Thread -> SaverRec] /\ x["loop"] = y /\ x["client"] = s["client"]
    BY <1>1, <1>4, <1>5, ThreadIs
  <1>7. x["loop"].alone <=> saver["loop"].alone /\ ~ Busy("loop")
    BY <1>1, <1>4, <1>6
  <1> QED
    BY <1>1, <1>2, <1>4, <1>6, <1>7 DEF x, s, c

LEMMA DiskSame ==
    ASSUME files' = files
    PROVE  OnDisk' = OnDisk
  BY DEF OnDisk

LEMMA EditedKeeps ==
    ASSUME ConfigIInv, Edited
    PROVE  ConfigIInv'
  <1>1. /\ ConfigTypes /\ \A t \in Thread : Holds(saver[t], graph)
        /\ FilesOK /\ AloneOK /\ LifeOK /\ LeavingOK /\ LastGoodKept
    BY DEF ConfigIInv
  <1>2. /\ up \in {"run", "exiting"} /\ up' = up /\ comp' = comp /\ pending' = pending
        /\ files' = files /\ unmarked' = unmarked /\ disturbed' = disturbed
        /\ leaving' = leaving /\ graph'.canvas = graph.canvas
        /\ saver' = Tearing /\ MarkDirty
    BY DEF Edited, MayCall, Changed
  <1>3. timers' \in Nat /\ timers' > 0 /\ timerId' = "timer"
    BY <1>1, <1>2 DEF MarkDirty, ConfigTypes, LifeOK
  <1>4. /\ saver' \in [Thread -> SaverRec]
        /\ \A t \in Thread :
              /\ saver[t].pc # "rest" => saver'[t] = saver[t]
              /\ saver[t].pc = "rest" => saver'[t].torn
              /\ saver'[t].pc = saver[t].pc /\ saver'[t].job = saver[t].job
              /\ saver'[t].bundle = saver[t].bundle /\ saver'[t].inode = saver[t].inode
              /\ saver'[t].alone = saver[t].alone
    BY <1>1, <1>2, TearingIs DEF ConfigTypes
  <1>5. ConfigTypes'
    BY <1>1, <1>2, <1>3, <1>4 DEF ConfigTypes, Edited
  <1>6. \A t \in Thread : Holds(saver'[t], graph')
    BY <1>1, <1>4 DEF Holds
  <1>7. FilesOK'
    BY <1>1, <1>2, <1>4 DEF FilesOK
  <1>8. AloneOK'
    <2>1. ~ (timers' = 0)
      BY <1>3
    <2> QED
      BY <1>1, <1>2, <1>4, <2>1 DEF AloneOK, Busy, CanvasOf
  <1>9. LifeOK'
    BY <1>1, <1>2, <1>3, <1>4, ThreadIs DEF LifeOK, Busy
  <1>13. LeavingOK'
    BY <1>1, <1>2, <1>4, DiskSame, ThreadIs DEF LeavingOK, Busy
  <1>10. OutputsMatchSinks'
    BY DEF Edited, OutputsMatchSinks
  <1>11. LastGoodKept'
    BY <1>1, <1>2, DiskSame DEF LastGoodKept
  <1>12. SavedOrPending'
    <2>1. ~ Quiet'
      BY <1>3 DEF Quiet
    <2> QED
      BY <2>1, SavedMeans
  <1> QED
    BY <1>5, <1>6, <1>7, <1>8, <1>9, <1>10, <1>11, <1>12, <1>13 DEF ConfigIInv

\* Thread t begins a save of what it has built, or of a bundle that was loaded.
Begins(t) ==
    /\ ~ Busy(t)
    /\ saver' \in [Thread -> SaverRec]
    /\ saver'[t].pc \in {"rest", "open"}
    /\ saver'[t].alone => ~ Busy(Other(t))
    /\ Holds(saver'[t], graph')
    /\ CanvasOf(saver'[t], graph')
    /\ saver'[t].pc = "open" /\ ~ saver'[t].torn => Restores(saver'[t].bundle, graph')
    /\ saver'[Other(t)].pc = saver[Other(t)].pc /\ saver'[Other(t)].inode = saver[Other(t)].inode
    /\ saver'[Other(t)].alone => ~ Busy(Other(t))
    /\ Holds(saver'[Other(t)], graph')
    /\ \/ files' = files
       \/ files' = [files EXCEPT !.state = Absent]
    /\ disturbed' = disturbed

LEMMA BeginsKeeps ==
    ASSUME ConfigIInv, NEW t \in Thread, Begins(t), ConfigTypes', LifeOK', LeavingOK',
           OutputsMatchSinks'
    PROVE  ConfigIInv'
  <1> DEFINE u == Other(t)
  <1>1. /\ ConfigTypes /\ FilesOK /\ LastGoodKept
    BY DEF ConfigIInv
  <1>2. u \in Thread /\ u # t /\ \A x \in Thread : x = t \/ x = u
    BY ThreadIs
  <1>3. /\ files'.data = files.data /\ files'.tmp = files.tmp
        /\ files'.state = files.state \/ files'.state = Absent
        /\ disturbed' = disturbed
    BY <1>1 DEF Begins, ConfigTypes, FilesRec
  <1>4. /\ saver'[u].pc = saver[u].pc /\ saver'[u].inode = saver[u].inode
        /\ saver'[u].alone => ~ Busy(u)
        /\ saver'[t].alone => ~ Busy(u)
        /\ saver'[t].pc \in {"rest", "open"}
        /\ Holds(saver'[t], graph') /\ Holds(saver'[u], graph')
        /\ CanvasOf(saver'[t], graph')
        /\ saver'[t].pc = "open" /\ ~ saver'[t].torn => Restores(saver'[t].bundle, graph')
    BY DEF Begins
  <1> HIDE DEF u
  <1>5. FilesOK'
    <2>1. Absent \notin Inode
      BY DEF Absent, Inode
    <2> QED
      BY <1>1, <1>2, <1>3, <1>4, <2>1 DEF FilesOK
  <1>6. AloneOK'
    BY <1>2, <1>4 DEF AloneOK, Busy
  <1>7. \A x \in Thread : Holds(saver'[x], graph')
    BY <1>2, <1>4
  <1>8. LastGoodKept'
    <2>1. CASE files'.state = Absent
      BY <2>1 DEF LastGoodKept
    <2>2. CASE files'.state = files.state
      BY <1>1, <1>3, <2>2 DEF LastGoodKept, OnDisk
    <2> QED
      BY <1>3, <2>1, <2>2
  <1>9. SavedOrPending'
    <2>1. ~ Quiet'
      BY <1>4 DEF Quiet, Busy
    <2> QED
      BY <2>1, SavedMeans
  <1> QED
    BY <1>5, <1>6, <1>7, <1>8, <1>9 DEF ConfigIInv

LEMMA DefaultKept ==
    ASSUME NEW c \in Canvas \cup {NONE}
    PROVE  /\ Kept(NewDefault(c)) /\ Shown(NewDefault(c)) = {}
           /\ NewDefault(c).canvas = c
  <1> DEFINE g == NewDefault(c)
  <1>1. /\ g \in GraphRec /\ Sound(g, {}) /\ g.outputs = NoEntries
        /\ g.runtime = NewRuntime /\ g.canvas = c
    BY DefaultIs
  <1> HIDE DEF g
  <1> QED
    BY <1>1, NoEntriesIs DEF Kept, Shown, NewRuntime, g

LEMMA SeededKept ==
    ASSUME NEW c \in Canvas \cup {NONE}, NEW src \in Source, NEW sc \in Scene, NEW id \in Item
    PROVE  /\ Kept(Seeded(c, src, sc, id)) /\ Shown(Seeded(c, src, sc, id)) = {}
           /\ Seeded(c, src, sc, id).canvas = c
  <1> DEFINE g == Seeded(c, src, sc, id)
  <1>1. /\ g \in GraphRec /\ Sound(g, {}) /\ g.outputs = NoEntries
        /\ g.runtime = NewRuntime /\ g.canvas = c
    BY SeededIs
  <1> HIDE DEF g
  <1> QED
    BY <1>1, NoEntriesIs DEF Kept, Shown, NewRuntime, g

LEMMA PartIs ==
    ASSUME NEW g, Kept(g)
    PROVE  /\ SourcesPart(g) \in PartRec
           /\ SourcesPart(g).sources = g.sources /\ SourcesPart(g).canvas = g.canvas
           /\ \A c \in Canvas :
                 LET p == [SourcesPart(g) EXCEPT !.canvas = c]
                 IN  p \in PartRec /\ p.sources = g.sources /\ p.canvas = c
  <1>1. g.canvas \in Canvas \cup {NONE} /\ g.sources \in Table(Source, SourceRec)
    BY DEF Kept, GraphRec
  <1> QED
    BY <1>1 DEF SourcesPart, PartRec

LEMMA TimeoutKeeps ==
    ASSUME ConfigIInv, SaveTimeout
    PROVE  ConfigIInv'
  <1> DEFINE t == "loop"
             u == "client"
             b == SourcesPart(graph)
  <1>1. /\ ConfigTypes /\ \A x \in Thread : Holds(saver[x], graph)
        /\ LifeOK /\ LeavingOK /\ OutputsMatchSinks
    BY DEF ConfigIInv
  <1>2. /\ up \in {"run", "exiting"} /\ timers > 0 /\ ~ Busy(t) /\ timers' = timers - 1
        /\ \/ timerId = "timer" /\ timerId' = "fired"
           \/ (timerId = "timer" => timers > 1) /\ timerId' = timerId
        /\ up' = up /\ graph' = graph /\ comp' = comp /\ codec' = codec /\ sinks' = sinks
        /\ pending' = pending /\ files' = files /\ unmarked' = unmarked
        /\ astray' = astray /\ leaving' = leaving
        /\ disturbed' = disturbed /\ saver' = Begun(t, "rest", "save", b)
    BY DEF SaveTimeout
  <1>3. b \in PartRec /\ b.sources = graph.sources /\ b.canvas = graph.canvas
    BY <1>1, PartIs DEF ConfigTypes
  <1> HIDE DEF b
  <1>4. /\ saver' \in [Thread -> SaverRec]
        /\ saver'[t].pc = "rest" /\ saver'[t].job = "save" /\ saver'[t].bundle = b
        /\ ~ saver'[t].torn /\ (saver'[t].alone <=> ~ Busy(u))
        /\ saver'[u].pc = saver[u].pc /\ saver'[u].job = saver[u].job
        /\ saver'[u].bundle = saver[u].bundle /\ saver'[u].torn = saver[u].torn
        /\ saver'[u].inode = saver[u].inode
        /\ (saver'[u].alone <=> saver[u].alone /\ ~ Busy(u))
    <2>1. saver \in [Thread -> SaverRec] /\ "save" \in Jobs /\ t \in Thread /\ Other(t) = u
          /\ "rest" \in {"rest", "open"} /\ b \in BundleRec \cup PartRec
      BY <1>1, <1>3, ThreadIs DEF ConfigTypes, Jobs
    <2> QED
      BY <1>2, <2>1, BegunIs
  <1>5. timers' \in Nat /\ (timerId' = "timer" => timers' > 0)
    BY <1>1, <1>2 DEF ConfigTypes
  <1>6. ConfigTypes'
    BY <1>1, <1>2, <1>4, <1>5 DEF ConfigTypes
  <1>7. LifeOK'
    BY <1>1, <1>2, <1>4, <1>5 DEF LifeOK
  <1>11. LeavingOK'
    BY <1>1, <1>2, <1>4, DiskSame DEF LeavingOK, Busy
  <1>8. OutputsMatchSinks'
    BY <1>1, <1>2 DEF OutputsMatchSinks
  <1>9. Holds(saver'[t], graph') /\ Holds(saver'[u], graph')
    <2>1. Holds(saver[u], graph)
      BY <1>1, ThreadIs
    <2> QED
      BY <1>2, <1>3, <1>4, <2>1 DEF Holds
  <1>12. CanvasOf(saver'[t], graph')
    BY <1>1, <1>2, <1>3, <1>4, NamedCanvasIs, CanvasAssumption
       DEF CanvasOf, ConfigTypes, CanvasAssumption
  <1>10. Begins(t)
    BY <1>2, <1>4, <1>9, <1>12, ThreadIs DEF Begins
  <1> QED
    BY <1>6, <1>7, <1>8, <1>10, <1>11, BeginsKeeps, ThreadIs

LEMMA UpdateKeeps ==
    ASSUME ConfigIInv, NEW c \in Canvas, CanvasUpdate(c)
    PROVE  ConfigIInv'
  <1> DEFINE t == "client"
             u == "loop"
             b == [SourcesPart(graph) EXCEPT !.canvas = c]
  <1>1. /\ ConfigTypes /\ \A x \in Thread : Holds(saver[x], graph)
        /\ LifeOK /\ OutputsMatchSinks
    BY DEF ConfigIInv
  <1>2. /\ up \in {"run", "exiting"} /\ ~ Busy(t)
        /\ up' = up /\ graph' = graph /\ comp' = comp /\ codec' = codec /\ sinks' = sinks
        /\ pending' = pending /\ files' = files /\ unmarked' = unmarked
        /\ timers' = timers /\ timerId' = timerId
        /\ astray' = astray /\ leaving' = NONE
        /\ disturbed' = disturbed /\ saver' = Begun(t, "rest", "update", b)
    BY DEF CanvasUpdate, MayCall
  <1>3. b \in PartRec /\ b.sources = graph.sources /\ b.canvas = c
    BY <1>1, PartIs DEF ConfigTypes
  <1> HIDE DEF b
  <1>4. /\ saver' \in [Thread -> SaverRec]
        /\ saver'[t].pc = "rest" /\ saver'[t].job = "update" /\ saver'[t].bundle = b
        /\ ~ saver'[t].torn /\ (saver'[t].alone <=> ~ Busy(u))
        /\ saver'[u].pc = saver[u].pc /\ saver'[u].job = saver[u].job
        /\ saver'[u].bundle = saver[u].bundle /\ saver'[u].torn = saver[u].torn
        /\ saver'[u].inode = saver[u].inode
        /\ (saver'[u].alone <=> saver[u].alone /\ ~ Busy(u))
    <2>1. saver \in [Thread -> SaverRec] /\ "update" \in Jobs /\ t \in Thread /\ Other(t) = u
          /\ "rest" \in {"rest", "open"} /\ b \in BundleRec \cup PartRec
      BY <1>1, <1>3, ThreadIs DEF ConfigTypes, Jobs
    <2> QED
      BY <1>2, <2>1, BegunIs
  <1>6. ConfigTypes'
    BY <1>1, <1>2, <1>4 DEF ConfigTypes
  <1>7. LifeOK'
    BY <1>1, <1>2, <1>4 DEF LifeOK
  <1>11. LeavingOK'
    BY <1>2 DEF LeavingOK
  <1>8. OutputsMatchSinks'
    BY <1>1, <1>2 DEF OutputsMatchSinks
  <1>9. Holds(saver'[t], graph') /\ Holds(saver'[u], graph')
    <2>1. Holds(saver[u], graph)
      BY <1>1, ThreadIs
    <2> QED
      BY <1>2, <1>3, <1>4, <2>1 DEF Holds
  <1>12. CanvasOf(saver'[t], graph')
    BY <1>4 DEF CanvasOf
  <1>10. Begins(t)
    BY <1>2, <1>4, <1>9, <1>12, ThreadIs DEF Begins
  <1> QED
    BY <1>6, <1>7, <1>8, <1>10, <1>11, BeginsKeeps, ThreadIs

\* The main loop's save, when a call in the other thread replaces the graph.
LEMMA TornHolds ==
    ASSUME NEW s, NEW g, Holds(s, g), NEW r, NEW h,
           r.pc = s.pc, r.job = s.job, r.bundle = s.bundle,
           s.pc # "rest" => r.torn = s.torn, s.pc = "rest" => r.torn
    PROVE  Holds(r, h)
  BY DEF Holds

\* The branches that stop_runtime leaves are of no output that is shown.
LEMMA LeftStray ==
    ASSUME sinks \in SUBSET Output, astray \in SUBSET Output,
           Odd(sinks, graph) \subseteq astray,
           Odd(sinks', graph') \subseteq LeftBranches, Strays({})
    PROVE  astray' \in SUBSET Output /\ Odd(sinks', graph') \subseteq astray'
  <1>1. LeftBranches \subseteq Odd(sinks, graph)
    BY DEF LeftBranches, Odd, Shown
  <1> QED
    BY <1>1 DEF Strays

LEMMA ApplyKeeps ==
    ASSUME ConfigIInv, NEW job \in {"apply", "import"}, NEW b, Savable(b), Apply(job, b),
           pending' \in Canvas \cup {NONE}
    PROVE  ConfigIInv'
  <1> DEFINE t == "client"
             u == "loop"
  <1>1. /\ ConfigTypes /\ \A x \in Thread : Holds(saver[x], graph)
        /\ LifeOK /\ OutputsMatchSinks
    BY DEF ConfigIInv
  <1>2. /\ up \in {"run", "exiting"} /\ ~ Busy(t) /\ Valid(b)
        /\ up' = up /\ comp' = comp /\ files' = files /\ leaving' = NONE /\ Strays({})
        /\ timers' = timers /\ timerId' = timerId /\ unmarked' = FALSE
        /\ disturbed' = disturbed /\ Run(Loaded(b, graph), codec, comp)
        /\ saver' = LET s == Begun("client", "open", job, b)
                    IN  [s EXCEPT !["loop"].torn = Tearing["loop"].torn]
    BY DEF Apply, MayCall
  <1>3. b \in BundleRec
    BY DEF Savable
  <1>4. /\ saver' \in [Thread -> SaverRec]
        /\ saver'[t].pc = "open" /\ saver'[t].job = job /\ saver'[t].bundle = b
        /\ ~ saver'[t].torn /\ (saver'[t].alone <=> ~ Busy(u))
        /\ saver'[u].pc = saver[u].pc /\ saver'[u].job = saver[u].job
        /\ saver'[u].bundle = saver[u].bundle /\ saver'[u].inode = saver[u].inode
        /\ (saver'[u].alone <=> saver[u].alone /\ ~ Busy(u))
        /\ saver[u].pc # "rest" => saver'[u].torn = saver[u].torn
        /\ saver[u].pc = "rest" => saver'[u].torn
    <2>1. saver \in [Thread -> SaverRec] /\ job \in Jobs
          /\ "open" \in {"rest", "open"} /\ b \in BundleRec \cup PartRec
      BY <1>1, <1>3 DEF ConfigTypes, Jobs
    <2> QED
      BY <1>2, <2>1, CalledIs
  <1>5. /\ Kept(graph') /\ graph'.canvas = NamedCanvas(b.canvas) /\ graph'.canvas \in Canvas
        /\ Restores(b, graph') /\ codec' \in Codec
        /\ sinks' \in SUBSET Output /\ Odd(sinks', graph') \subseteq LeftBranches
    <2>1. graph \in GraphRec /\ codec \in Codec /\ sinks \in SUBSET Output
      BY <1>1 DEF ConfigTypes, Kept
    <2> QED
      BY <1>2, <2>1, RunIs
  <1>12. astray' \in SUBSET Output /\ Odd(sinks', graph') \subseteq astray'
    BY <1>1, <1>2, <1>5, LeftStray DEF ConfigTypes, OutputsMatchSinks
  <1>6. ConfigTypes'
    BY <1>1, <1>2, <1>4, <1>5, <1>12 DEF ConfigTypes
  <1>7. LifeOK'
    BY <1>1, <1>2, <1>4 DEF LifeOK
  <1>8. OutputsMatchSinks'
    BY <1>12 DEF OutputsMatchSinks
  <1>13. LeavingOK'
    BY <1>2 DEF LeavingOK
  <1>9. /\ Holds(saver'[t], graph') /\ CanvasOf(saver'[t], graph')
        /\ Restores(saver'[t].bundle, graph')
    BY <1>2, <1>4, <1>5 DEF Holds, CanvasOf
  <1>10. Holds(saver'[u], graph')
    <2>1. Holds(saver[u], graph)
      BY <1>1, ThreadIs
    <2> QED
      BY <1>4, <2>1, TornHolds
  <1>11. Begins(t)
    BY <1>2, <1>4, <1>9, <1>10, ThreadIs DEF Begins
  <1> QED
    BY <1>6, <1>7, <1>8, <1>11, <1>13, BeginsKeeps, ThreadIs

\* What state.json and a client's bundle have.
LEMMA DiskSavable ==
    ASSUME ConfigIInv, Parses(OnDisk)
    PROVE  Savable(OnDisk.bundle) /\ files.state # Absent
  <1>1. files \in FilesRec /\ FilesOK
    BY DEF ConfigIInv, ConfigTypes
  <1>2. files.state # Absent /\ OnDisk = files.data[files.state]
    BY DEF OnDisk, Empty, Parses
  <1>3. files.state \in Inode
    BY <1>1, <1>2 DEF FilesRec
  <1> QED
    BY <1>1, <1>2, <1>3 DEF FilesOK

LEMMA ImportSavable ==
    ASSUME NEW b \in Imports
    PROVE  Savable(b) /\ Valid(b)
  <1>1. PICK c \in Canvas \cup {NONE}, s \in Source, sc \in Scene, id \in Item,
             some \in SomeOutputs : b = Import(c, s, sc, id, some)
    BY DEF Imports
  <1> DEFINE g == Seeded(c, s, sc, id)
             h == [g EXCEPT !.outputs = some]
             r == NewOutput("h264", TRUE)
  <1>2. Kept(g)
    BY SeededKept
  <1>3. some \in Table(Output, OutputRec)
    <2>1. NoEntries \in Table(Output, OutputRec)
      BY NoEntriesIs
    <2>2. r \in OutputRec
      BY DEF NewOutput, OutputRec, Codec
    <2>3. some = NoEntries \/ some = [o \in Output |-> r]
      BY DEF SomeOutputs
    <2> HIDE DEF r
    <2>4. [o \in Output |-> r] \in [Output -> OutputRec] /\ DOMAIN [o \in Output |-> r] = Output
      BY <2>2
    <2>5. [o \in Output |-> r] \in Table(Output, OutputRec)
      BY <2>4, TableIs
    <2> QED
      BY <2>1, <2>3, <2>5
  <1> HIDE DEF g
  <1>4. Kept(h)
    BY <1>2, <1>3, OutputsSet
  <1>5. b = Bundle(h)
    BY <1>1 DEF g, Import
  <1> HIDE DEF h
  <1> QED
    BY <1>4, <1>5, BundleIs

LEMMA ResetKeeps ==
    ASSUME ConfigIInv, NEW src \in Source, NEW sc \in Scene, NEW id \in Item,
           ConfigReset(src, sc, id)
    PROVE  ConfigIInv'
  <1> DEFINE t == "client"
             u == "loop"
             b == SourcesPart(graph')
  <1>1. /\ ConfigTypes /\ \A x \in Thread : Holds(saver[x], graph)
        /\ LifeOK /\ OutputsMatchSinks
    BY DEF ConfigIInv
  <1>2. /\ up \in {"run", "exiting"} /\ ~ Busy(t)
        /\ up' = up /\ comp' = comp /\ codec' = codec /\ pending' = pending
        /\ files' = [files EXCEPT !.state = Absent]
        /\ timers' = timers /\ timerId' = timerId /\ unmarked' = FALSE
        /\ disturbed' = disturbed /\ sinks' = LeftBranches
        /\ leaving' = NONE /\ Strays({})
        /\ graph' = Seeded(NewCanvas, src, sc, id)
        /\ saver' = LET s == Begun("client", "rest", "reset", b)
                    IN  [s EXCEPT !["loop"].torn = Tearing["loop"].torn]
    BY DEF ConfigReset, MayCall
  <1>5. Kept(graph') /\ Shown(graph') = {} /\ graph'.canvas \in Canvas
    BY <1>2, SeededKept, CanvasAssumption DEF CanvasAssumption
  <1>3. b \in PartRec /\ b.sources = graph'.sources /\ b.canvas = graph'.canvas
    BY <1>5, PartIs
  <1> HIDE DEF b
  <1>4. /\ saver' \in [Thread -> SaverRec]
        /\ saver'[t].pc = "rest" /\ saver'[t].job = "reset" /\ saver'[t].bundle = b
        /\ ~ saver'[t].torn /\ (saver'[t].alone <=> ~ Busy(u))
        /\ saver'[u].pc = saver[u].pc /\ saver'[u].job = saver[u].job
        /\ saver'[u].bundle = saver[u].bundle /\ saver'[u].inode = saver[u].inode
        /\ (saver'[u].alone <=> saver[u].alone /\ ~ Busy(u))
        /\ saver[u].pc # "rest" => saver'[u].torn = saver[u].torn
        /\ saver[u].pc = "rest" => saver'[u].torn
    <2>1. saver \in [Thread -> SaverRec] /\ "reset" \in Jobs
          /\ "rest" \in {"rest", "open"} /\ b \in BundleRec \cup PartRec
      BY <1>1, <1>3 DEF ConfigTypes, Jobs
    <2> QED
      BY <1>2, <2>1, CalledIs
  <1>12. /\ sinks' \in SUBSET Output /\ astray' \in SUBSET Output
         /\ Odd(sinks', graph') \subseteq astray'
    <2>1. sinks \in SUBSET Output /\ astray \in SUBSET Output /\ Odd(sinks, graph) \subseteq astray
      BY <1>1, <1>2 DEF ConfigTypes, OutputsMatchSinks
    <2>2. sinks' \in SUBSET Output /\ Odd(sinks', graph') \subseteq LeftBranches
      BY <1>2, <1>5, <2>1 DEF LeftBranches, Odd
    <2> QED
      BY <1>2, <2>1, <2>2, LeftStray
  <1>6. ConfigTypes'
    <2>1. files' \in FilesRec
      BY <1>1, <1>2 DEF ConfigTypes, FilesRec
    <2> QED
      BY <1>1, <1>2, <1>4, <1>5, <1>12, <2>1 DEF ConfigTypes
  <1>7. LifeOK'
    BY <1>1, <1>2, <1>4 DEF LifeOK
  <1>8. OutputsMatchSinks'
    BY <1>12 DEF OutputsMatchSinks
  <1>13. LeavingOK'
    BY <1>2 DEF LeavingOK
  <1>14. CanvasOf(saver'[t], graph')
    BY <1>3, <1>4, <1>5, NamedCanvasIs, CanvasAssumption DEF CanvasOf, CanvasAssumption
  <1>9. Holds(saver'[t], graph')
    BY <1>3, <1>4 DEF Holds
  <1>10. Holds(saver'[u], graph')
    <2>1. Holds(saver[u], graph)
      BY <1>1, ThreadIs
    <2> QED
      BY <1>4, <2>1, TornHolds
  <1>11. Begins(t)
    BY <1>2, <1>4, <1>9, <1>10, <1>14, ThreadIs DEF Begins
  <1> QED
    BY <1>6, <1>7, <1>8, <1>11, <1>13, BeginsKeeps, ThreadIs

LEMMA BootKeeps ==
    ASSUME ConfigIInv, Boot
    PROVE  ConfigIInv'
  <1> DEFINE t == "loop"
             u == "client"
             b == OnDisk.bundle
  <1>1. /\ ConfigTypes /\ \A x \in Thread : Holds(saver[x], graph)
        /\ FilesOK /\ AloneOK /\ LifeOK /\ LastGoodKept
    BY DEF ConfigIInv
  <1>2. /\ up = "down" /\ ~ Busy(t) /\ ~ Busy(u)
        /\ pending' = pending /\ files' = files /\ timers' = timers /\ timerId' = timerId
        /\ unmarked' = unmarked /\ disturbed' = disturbed /\ comp' = Preloaded
        /\ astray' = astray /\ leaving' = NONE /\ sinks = {}
    BY <1>1, ThreadIs DEF Boot, LifeOK
  <1>3. Parses(OnDisk) => Savable(b) /\ b \in BundleRec
    BY DiskSavable DEF Savable
  <1>4. comp' \in Canvas
    BY <1>2, <1>3, CanvasAssumption DEF Preloaded, CanvasAssumption, BundleRec
  <1>11. LeavingOK'
    BY <1>2 DEF LeavingOK
  <1>5. /\ Kept(NewDefault(comp')) /\ Shown(NewDefault(comp')) = {} /\ "h265" \in Codec
        /\ NewDefault(comp').canvas = comp'
    BY <1>4, DefaultKept DEF Codec
  <1>6. CASE Loadable(OnDisk)
    <2>1. /\ Valid(b) /\ Savable(b) /\ b \in BundleRec
          /\ Run(Loaded(b, NewDefault(comp')), "h265", comp')
          /\ saver' = Begun(t, "open", "boot", b) /\ up' = "boot"
      BY <1>3, <1>6 DEF Boot, Loadable
    <2>2. /\ Kept(graph') /\ graph'.canvas = NamedCanvas(b.canvas) /\ graph'.canvas \in Canvas
          /\ Restores(b, graph') /\ codec' \in Codec
          /\ sinks' \in SUBSET Output /\ Odd(sinks', graph') \subseteq LeftBranches
      <3>1. NewDefault(comp') \in GraphRec /\ sinks \in SUBSET Output
        BY <1>2, <1>5 DEF Kept
      <3> QED
        BY <1>5, <2>1, <3>1, RunIs
    <2>3. LeftBranches = {}
      BY <1>2 DEF LeftBranches
    <2> HIDE DEF b
    <2>4. /\ saver' \in [Thread -> SaverRec]
          /\ saver'[t].pc = "open" /\ saver'[t].job = "boot" /\ saver'[t].bundle = b
          /\ ~ saver'[t].torn /\ (saver'[t].alone <=> ~ Busy(u))
          /\ saver'[u].pc = saver[u].pc /\ saver'[u].job = saver[u].job
          /\ saver'[u].bundle = saver[u].bundle /\ saver'[u].torn = saver[u].torn
          /\ saver'[u].inode = saver[u].inode
          /\ (saver'[u].alone <=> saver[u].alone /\ ~ Busy(u))
      <3>1. saver \in [Thread -> SaverRec] /\ "boot" \in Jobs /\ t \in Thread /\ Other(t) = u
            /\ "open" \in {"rest", "open"} /\ b \in BundleRec \cup PartRec
        BY <1>1, <2>1, ThreadIs DEF ConfigTypes, Jobs
      <3> QED
        BY <2>1, <3>1, BegunIs
    <2>5. ConfigTypes'
      BY <1>1, <1>2, <1>4, <2>1, <2>2, <2>4 DEF ConfigTypes
    <2>6. LifeOK'
      BY <1>1, <1>2, <2>1, <2>2, <2>4 DEF LifeOK, Busy
    <2>7. OutputsMatchSinks'
      BY <2>2, <2>3 DEF OutputsMatchSinks
    <2>8. /\ Holds(saver'[t], graph') /\ CanvasOf(saver'[t], graph')
          /\ Restores(saver'[t].bundle, graph')
      BY <2>1, <2>2, <2>4 DEF Holds, CanvasOf
    <2>9. Holds(saver'[u], graph')
      <3>1. Holds(saver[u], graph)
        BY <1>1, ThreadIs
      <3> QED
        BY <1>2, <2>4, <3>1 DEF Holds, Busy
    <2>10. Begins(t)
      BY <1>2, <2>4, <2>8, <2>9, ThreadIs DEF Begins
    <2> QED
      BY <1>11, <2>5, <2>6, <2>7, <2>10, BeginsKeeps, ThreadIs
  <1>7. CASE ~ Loadable(OnDisk)
    <2>1. graph' = NewDefault(comp') /\ sinks' = {} /\ codec' = "h265" /\ up' = "run"
          /\ saver' = saver
      BY <1>7 DEF Boot
    <2>2. ConfigTypes'
      BY <1>1, <1>2, <1>4, <1>5, <2>1 DEF ConfigTypes
    <2>3. \A x \in Thread : ~ Busy(x)
      BY <1>2, ThreadIs
    <2>4. \A x \in Thread : Holds(saver'[x], graph')
      BY <1>1, <2>1, <2>3 DEF Holds, Busy
    <2>5. FilesOK' /\ AloneOK'
      BY <1>1, <1>2, <2>1, <2>3 DEF FilesOK, AloneOK, Busy
    <2>6. saver["loop"].job = "none"
      BY <1>1, <2>3, ThreadIs DEF Holds, Busy
    <2>7. LifeOK'
      BY <1>1, <1>2, <2>1, <2>6 DEF LifeOK
    <2>8. OutputsMatchSinks'
      BY <1>5, <2>1 DEF OutputsMatchSinks, Odd
    <2>9. LastGoodKept'
      BY <1>1, <1>2, DiskSame DEF LastGoodKept
    <2>10. SavedOrPending'
      <3>1. Quiet' => ~ Parses(OnDisk)
        BY <1>1, <1>2, <1>7, DiskSame, DiskSavable DEF Quiet, LastGoodKept
      <3>2. Quiet' => SavedBy(OnDisk', graph', comp', pending')
        BY <1>2, <2>1, <3>1, DiskSame DEF SavedBy
      <3> QED
        BY <3>2, SavedMeans
    <2> QED
      BY <1>11, <2>2, <2>4, <2>5, <2>7, <2>8, <2>9, <2>10 DEF ConfigIInv
  <1> QED
    BY <1>6, <1>7

LEMMA DownKeeps ==
    ASSUME ConfigIInv, Down
    PROVE  ConfigIInv'
  <1>1. /\ ConfigTypes /\ FilesOK /\ LastGoodKept /\ LeavingOK
    BY DEF ConfigIInv
  <1>2. /\ up' = "down" /\ sinks' = {} /\ pending' = NONE /\ timers' = 0 /\ timerId' = "none"
        /\ unmarked' = FALSE /\ graph' = graph /\ comp' = comp /\ codec' = codec
        /\ files' = files /\ disturbed' = disturbed /\ astray' = {} /\ leaving' = leaving
    BY DEF Down
  <1>3. Idle \in SaverRec /\ Idle.pc = "idle" /\ Idle.job = "none"
    BY DEF Idle, SaverRec, Jobs
  <1>4. saver' = [t \in Thread |-> Idle]
    BY DEF Down
  <1>5. saver' \in [Thread -> SaverRec]
        /\ \A t \in Thread : saver'[t].pc = "idle" /\ saver'[t].job = "none"
    BY <1>3, <1>4
  <1>6. ConfigTypes'
    BY <1>1, <1>2, <1>5 DEF ConfigTypes
  <1>7. \A t \in Thread : Holds(saver'[t], graph')
    BY <1>5 DEF Holds
  <1>8. FilesOK' /\ AloneOK' /\ LifeOK'
    BY <1>1, <1>2, <1>5, ThreadIs DEF FilesOK, AloneOK, LifeOK, Busy
  <1>9. OutputsMatchSinks' /\ LastGoodKept'
    BY <1>1, <1>2, DiskSame DEF OutputsMatchSinks, LastGoodKept
  <1>11. LeavingOK'
    BY <1>1, <1>2, <1>5, DiskSame, ThreadIs DEF LeavingOK, Busy
  <1>10. SavedOrPending'
    <2>1. ~ Quiet'
      BY <1>2 DEF Quiet
    <2> QED
      BY <2>1, SavedMeans
  <1> QED
    BY <1>6, <1>7, <1>8, <1>9, <1>10, <1>11 DEF ConfigIInv

LEMMA UnmarkedKeeps ==
    ASSUME ConfigIInv, EditUnmarked
    PROVE  ConfigIInv'
  <1>1. /\ ConfigTypes /\ \A x \in Thread : Holds(saver[x], graph)
        /\ FilesOK /\ AloneOK /\ LifeOK /\ LeavingOK /\ OutputsMatchSinks /\ LastGoodKept
    BY DEF ConfigIInv
  <1>2. /\ up \in {"run", "exiting"} /\ up' = up /\ comp' = comp /\ codec' = codec
        /\ sinks' = sinks /\ pending' = pending /\ timers' = timers /\ timerId' = timerId
        /\ saver' = saver /\ files' = files /\ disturbed' = disturbed /\ unmarked' = TRUE
        /\ astray' = astray /\ leaving' = leaving
    BY DEF EditUnmarked, MayCall
  <1>3. /\ Kept(graph') /\ graph'.outputs = graph.outputs
        /\ graph'.sources = graph.sources /\ graph'.canvas = graph.canvas
    <2>1. Kept(graph)
      BY <1>1 DEF ConfigTypes
    <2>2. graph' \in {SetPreviewScene(graph, sc) : sc \in DOMAIN graph.scenes}
                     \cup {RemoveScene(graph, sc) : sc \in {s \in Scene : CanRemoveScene(graph, s)}}
      BY DEF EditUnmarked
    <2> QED
      BY <2>1, <2>2, UnmarkedKept
  <1>4. ConfigTypes'
    BY <1>1, <1>2, <1>3 DEF ConfigTypes
  <1>5. \A x \in Thread : Holds(saver'[x], graph')
    BY <1>1, <1>2, <1>3 DEF Holds
  <1>6. FilesOK' /\ LifeOK'
    BY <1>1, <1>2, <1>3 DEF FilesOK, LifeOK, Busy
  <1>7. AloneOK'
    BY <1>1, <1>2, <1>3 DEF AloneOK, Busy, CanvasOf
  <1>8. OutputsMatchSinks'
    BY <1>1, <1>2, <1>3 DEF OutputsMatchSinks, Odd, Shown
  <1>11. LeavingOK'
    BY <1>1, <1>2, <1>3, DiskSame DEF LeavingOK, Busy
  <1>9. LastGoodKept'
    BY <1>1, <1>2, DiskSame DEF LastGoodKept
  <1>10. SavedOrPending'
    <2>1. ~ Quiet'
      BY <1>2 DEF Quiet
    <2> QED
      BY <2>1, SavedMeans
  <1> QED
    BY <1>4, <1>5, <1>6, <1>7, <1>8, <1>9, <1>10, <1>11 DEF ConfigIInv

\* The encoder is of no matter to the rest.
LEMMA SameKeeps ==
    ASSUME ConfigIInv, codec' \in Codec, sinks' \in SUBSET Output, astray' \in SUBSET Output,
           up = "down" => sinks' = {}, up # "down" => Odd(sinks', graph') \subseteq astray',
           UNCHANGED <<up, graph, comp, pending, timers, timerId, saver, files,
                       unmarked, disturbed, leaving>>
    PROVE  ConfigIInv'
  <1>1. /\ ConfigTypes /\ \A x \in Thread : Holds(saver[x], graph)
        /\ FilesOK /\ AloneOK /\ LifeOK /\ LeavingOK /\ LastGoodKept /\ SavedOrPending
    BY DEF ConfigIInv
  <1>2. ConfigTypes'
    BY <1>1 DEF ConfigTypes
  <1>3. \A x \in Thread : Holds(saver'[x], graph')
    BY <1>1
  <1>4. FilesOK' /\ LifeOK' /\ AloneOK'
    BY <1>1 DEF FilesOK, LifeOK, AloneOK, Busy
  <1>5. OutputsMatchSinks' /\ LastGoodKept' /\ LeavingOK'
    BY <1>1, DiskSame DEF OutputsMatchSinks, LastGoodKept, LeavingOK, Busy
  <1>6. SavedOrPending'
    <2>1. Quiet' => Quiet
      BY DiskSame DEF Quiet, Busy
    <2> QED
      BY <1>1, <2>1, DiskSame, SavedMeans
  <1> QED
    BY <1>2, <1>3, <1>4, <1>5, <1>6 DEF ConfigIInv

LEMMA BuiltSavable ==
    ASSUME NEW g, Kept(g), NEW part \in PartRec
    PROVE  Savable(RestAdded(part, g)) /\ RestAdded(part, g).canvas = part.canvas
  <1> DEFINE c == Bundle(g)
             b == RestAdded(part, g)
  <1>1. Savable(c)
    BY BundleIs
  <1>2. b = [c EXCEPT !.canvas = part.canvas, !.sources = part.sources]
    BY DEF RestAdded
  <1> HIDE DEF b, c
  <1>3. part.canvas \in Canvas \cup {NONE} /\ part.sources \in Table(Source, SourceRec)
    BY DEF PartRec
  <1>4. /\ b \in BundleRec /\ b.canvas = part.canvas /\ b.scenes = c.scenes
        /\ b.outputs = c.outputs /\ b.active = c.active /\ b.preview = c.preview
        /\ b.transition = c.transition
    BY <1>1, <1>2, <1>3 DEF Savable, BundleRec
  <1> QED
    BY <1>1, <1>4 DEF Savable, ScenesKnown, b

LEMMA BuiltKeeps ==
    ASSUME ConfigIInv, NEW t \in Thread, SaveBuilt(t)
    PROVE  ConfigIInv'
  <1> DEFINE b == RestAdded(saver[t].bundle, graph)
  <1>1. /\ ConfigTypes /\ \A x \in Thread : Holds(saver[x], graph)
        /\ FilesOK /\ AloneOK /\ LifeOK /\ LeavingOK /\ OutputsMatchSinks /\ LastGoodKept
    BY DEF ConfigIInv
  <1>2. /\ saver[t].pc = "rest" /\ saver' = [saver EXCEPT ![t].pc = "open", ![t].bundle = b]
        /\ unmarked' = FALSE /\ up' = up /\ graph' = graph /\ comp' = comp /\ codec' = codec
        /\ sinks' = sinks /\ pending' = pending /\ timers' = timers /\ timerId' = timerId
        /\ files' = files /\ disturbed' = disturbed /\ astray' = astray /\ leaving' = leaving
    BY DEF SaveBuilt
  <1>3. /\ Kept(graph) /\ saver[t].bundle \in PartRec
        /\ ~ saver[t].torn => saver[t].bundle.sources = graph.sources
    BY <1>1, <1>2 DEF ConfigTypes, Holds
  <1>4. Savable(b) /\ b \in BundleRec /\ b.canvas = saver[t].bundle.canvas
    BY <1>3, BuiltSavable DEF Savable
  <1>5. ~ saver[t].torn => Valid(b) /\ Restores(b, graph)
    BY <1>3, BuiltRestores
  <1> HIDE DEF b
  <1>6. /\ saver' \in [Thread -> SaverRec]
        /\ saver'[t].pc = "open" /\ saver'[t].bundle = b /\ saver'[t].job = saver[t].job
        /\ saver'[t].torn = saver[t].torn /\ saver'[t].alone = saver[t].alone
        /\ saver'[t].inode = saver[t].inode
        /\ \A x \in Thread \ {t} : saver'[x] = saver[x]
    BY <1>1, <1>2, <1>4 DEF ConfigTypes, SaverRec
  <1>7. ConfigTypes'
    BY <1>1, <1>2, <1>6 DEF ConfigTypes
  <1>8. \A x \in Thread : Holds(saver'[x], graph')
    <2>1. Holds(saver'[t], graph')
      BY <1>1, <1>4, <1>5, <1>6 DEF Holds
    <2> QED
      BY <1>1, <1>2, <1>6, <2>1
  <1>9. FilesOK'
    BY <1>1, <1>2, <1>6 DEF FilesOK
  <1>10. AloneOK'
    <2>1. Busy(t)
      BY <1>2 DEF Busy
    <2>2. \A x \in Thread \ {t} : ~ (saver[x].alone /\ Busy(x))
      BY <1>1, <2>1 DEF AloneOK
    <2>3. saver[t].alone => \A u \in Thread \ {t} : ~ Busy(u)
      BY <1>1, <2>1 DEF AloneOK
    <2>4. ~ saver[t].torn => Restores(saver'[t].bundle, graph')
      BY <1>2, <1>5, <1>6
    <2>5. saver[t].alone => CanvasOf(saver'[t], graph')
      BY <1>1, <1>2, <1>4, <1>6, <2>1 DEF AloneOK, CanvasOf
    <2> QED
      BY <1>2, <1>6, <2>2, <2>3, <2>4, <2>5 DEF AloneOK, Busy
  <1>11. LifeOK'
    BY <1>1, <1>2, <1>6, ThreadIs DEF LifeOK, Busy
  <1>12. OutputsMatchSinks' /\ LastGoodKept'
    BY <1>1, <1>2, DiskSame DEF OutputsMatchSinks, LastGoodKept
  <1>14. LeavingOK'
    BY <1>1, <1>2, <1>6, DiskSame, ThreadIs DEF LeavingOK, Busy
  <1>13. SavedOrPending'
    <2>1. ~ Quiet'
      BY <1>6 DEF Quiet, Busy
    <2> QED
      BY <2>1, SavedMeans
  <1> QED
    BY <1>7, <1>8, <1>9, <1>10, <1>11, <1>12, <1>13, <1>14 DEF ConfigIInv

LEMMA OpenKeeps ==
    ASSUME ConfigIInv, NEW t \in Thread, SaveOpen(t)
    PROVE  ConfigIInv'
  <1> DEFINE i == IF files.tmp = Absent THEN Fresh ELSE files.tmp
  <1>1. /\ ConfigTypes /\ \A x \in Thread : Holds(saver[x], graph)
        /\ FilesOK /\ AloneOK /\ LifeOK /\ LeavingOK /\ OutputsMatchSinks /\ LastGoodKept
    BY DEF ConfigIInv
  <1>2. /\ saver[t].pc = "open" /\ saver' = [saver EXCEPT ![t].pc = "write", ![t].inode = i]
        /\ files' = [files EXCEPT !.tmp = i, !.data[i] = Empty]
        /\ up' = up /\ graph' = graph /\ comp' = comp /\ codec' = codec /\ unmarked' = unmarked
        /\ sinks' = sinks /\ pending' = pending /\ timers' = timers /\ timerId' = timerId
        /\ disturbed' = disturbed /\ astray' = astray /\ leaving' = leaving
    BY DEF SaveOpen
  <1>3. i \in Inode /\ i # files.state
    <2>1. files \in FilesRec /\ saver \in [Thread -> SaverRec]
      BY <1>1 DEF ConfigTypes
    <2>2. CASE files.tmp = Absent
      BY <2>1, <2>2, FreshIs
    <2>3. CASE files.tmp # Absent
      BY <1>1, <2>1, <2>3 DEF FilesOK, FilesRec
    <2> QED
      BY <2>2, <2>3
  <1> HIDE DEF i
  <1>4. Empty \in ContentRec /\ ~ Parses(Empty)
    BY DEF Empty, ContentRec, Parses
  <1>5. /\ files' \in FilesRec /\ files'.state = files.state /\ files'.tmp = i
        /\ files'.data[i] = Empty
        /\ \A x \in Inode \ {i} : files'.data[x] = files.data[x]
    BY <1>1, <1>2, <1>3, <1>4 DEF ConfigTypes, FilesRec
  <1>6. /\ saver' \in [Thread -> SaverRec]
        /\ saver'[t].pc = "write" /\ saver'[t].inode = i /\ saver'[t].job = saver[t].job
        /\ saver'[t].torn = saver[t].torn /\ saver'[t].alone = saver[t].alone
        /\ saver'[t].bundle = saver[t].bundle
        /\ \A x \in Thread \ {t} : saver'[x] = saver[x]
    BY <1>1, <1>2, <1>3 DEF ConfigTypes, SaverRec
  <1>7. ConfigTypes'
    BY <1>1, <1>2, <1>5, <1>6 DEF ConfigTypes
  <1>8. \A x \in Thread : Holds(saver'[x], graph')
    <2>1. Holds(saver'[t], graph')
      BY <1>1, <1>2, <1>6 DEF Holds
    <2> QED
      BY <1>1, <1>2, <1>6, <2>1
  <1>9. FilesOK'
    <2>1. \A x \in Inode : Parses(files'.data[x]) => Savable(files'.data[x].bundle)
      BY <1>1, <1>4, <1>5 DEF FilesOK
    <2>2. \A x \in Thread : saver'[x].pc \in {"write", "rename"} =>
             saver'[x].inode \in Inode /\ (~ disturbed' => saver'[x].inode # files'.state)
      BY <1>1, <1>2, <1>3, <1>5, <1>6 DEF FilesOK
    <2> QED
      BY <1>3, <1>5, <2>1, <2>2 DEF FilesOK
  <1>10. AloneOK'
    <2>1. Busy(t)
      BY <1>2 DEF Busy
    <2>2. \A x \in Thread \ {t} : ~ (saver[x].alone /\ Busy(x))
      BY <1>1, <2>1 DEF AloneOK
    <2>3. saver[t].alone =>
             /\ \A u \in Thread \ {t} : ~ Busy(u)
             /\ CanvasOf(saver[t], graph)
             /\ ~ saver[t].torn /\ timers = 0 /\ ~ unmarked => Restores(saver[t].bundle, graph)
      BY <1>1, <1>2, <2>1 DEF AloneOK
    <2>4. CanvasOf(saver[t], graph) => CanvasOf(saver'[t], graph')
      BY <1>2, <1>6 DEF CanvasOf
    <2> QED
      BY <1>2, <1>5, <1>6, <2>2, <2>3, <2>4 DEF AloneOK, Busy
  <1>11. LifeOK'
    BY <1>1, <1>2, <1>6, ThreadIs DEF LifeOK, Busy
  <1>12. OutputsMatchSinks'
    BY <1>1, <1>2 DEF OutputsMatchSinks
  <1>15. OnDisk' = OnDisk
    BY <1>1, <1>3, <1>5 DEF OnDisk, ConfigTypes, FilesRec
  <1>13. LastGoodKept'
    BY <1>1, <1>2, <1>5, <1>15 DEF LastGoodKept
  <1>16. LeavingOK'
    BY <1>1, <1>2, <1>6, <1>15, ThreadIs DEF LeavingOK, Busy
  <1>14. SavedOrPending'
    <2>1. ~ Quiet'
      BY <1>6 DEF Quiet, Busy
    <2> QED
      BY <2>1, SavedMeans
  <1> QED
    BY <1>7, <1>8, <1>9, <1>10, <1>11, <1>12, <1>13, <1>14, <1>16 DEF ConfigIInv

LEMMA WriteKeeps ==
    ASSUME ConfigIInv, NEW t \in Thread, SaveWrite(t)
    PROVE  ConfigIInv'
  <1> DEFINE i == saver[t].inode
             whole == Content(saver[t].bundle, saver[t].torn)
  <1>1. /\ ConfigTypes /\ \A x \in Thread : Holds(saver[x], graph)
        /\ FilesOK /\ AloneOK /\ LifeOK /\ LeavingOK /\ OutputsMatchSinks /\ LastGoodKept
    BY DEF ConfigIInv
  <1>16. PICK c \in {whole, Cut} : files' = [files EXCEPT !.data[i] = c]
    BY DEF SaveWrite
  <1>2. /\ saver[t].pc = "write" /\ saver' = [saver EXCEPT ![t].pc = "rename"]
        /\ up' = up /\ graph' = graph /\ comp' = comp /\ codec' = codec /\ unmarked' = unmarked
        /\ sinks' = sinks /\ pending' = pending /\ timers' = timers /\ timerId' = timerId
        /\ disturbed' = disturbed /\ astray' = astray /\ leaving' = leaving
    BY DEF SaveWrite
  <1>3. i \in Inode /\ (~ disturbed => i # files.state)
    BY <1>1, <1>2 DEF FilesOK
  <1>4. c \in ContentRec /\ (Parses(c) => Savable(c.bundle))
    <2>1. Savable(saver[t].bundle) /\ saver[t].bundle \in BundleRec
      BY <1>1, <1>2 DEF Holds, Savable
    <2>2. saver[t].torn \in BOOLEAN
      BY <1>1 DEF ConfigTypes, SaverRec
    <2>3. whole \in ContentRec /\ whole.bundle = saver[t].bundle
      BY <2>1, <2>2 DEF Content, ContentRec
    <2>4. Cut \in ContentRec /\ ~ Parses(Cut)
      BY DEF ContentRec, Cut, Empty, Parses
    <2> QED
      BY <1>16, <2>1, <2>3, <2>4
  <1>6. /\ saver' \in [Thread -> SaverRec]
        /\ saver'[t].pc = "rename" /\ saver'[t].inode = i /\ saver'[t].job = saver[t].job
        /\ saver'[t].torn = saver[t].torn /\ saver'[t].alone = saver[t].alone
        /\ saver'[t].bundle = saver[t].bundle
        /\ \A x \in Thread \ {t} : saver'[x] = saver[x]
    BY <1>1, <1>2 DEF ConfigTypes, SaverRec
  <1>15. c \in {Content(saver'[t].bundle, saver'[t].torn), Cut}
    BY <1>6
  <1> HIDE DEF i, whole
  <1>5. /\ files' \in FilesRec /\ files'.state = files.state /\ files'.tmp = files.tmp
        /\ files'.data[i] = c
        /\ \A x \in Inode \ {i} : files'.data[x] = files.data[x]
    BY <1>1, <1>3, <1>4, <1>16 DEF ConfigTypes, FilesRec
  <1>7. ConfigTypes'
    BY <1>1, <1>2, <1>5, <1>6 DEF ConfigTypes
  <1>8. \A x \in Thread : Holds(saver'[x], graph')
    <2>1. Holds(saver'[t], graph')
      BY <1>1, <1>2, <1>6 DEF Holds
    <2> QED
      BY <1>1, <1>2, <1>6, <2>1
  <1>9. FilesOK'
    <2>1. \A x \in Inode : Parses(files'.data[x]) => Savable(files'.data[x].bundle)
      BY <1>1, <1>4, <1>5 DEF FilesOK
    <2>2. \A x \in Thread : saver'[x].pc \in {"write", "rename"} =>
             saver'[x].inode \in Inode /\ (~ disturbed' => saver'[x].inode # files'.state)
      BY <1>1, <1>2, <1>3, <1>5, <1>6 DEF FilesOK
    <2>3. files'.tmp # Absent => files'.tmp # files'.state
      BY <1>1, <1>5 DEF FilesOK
    <2> QED
      BY <2>1, <2>2, <2>3 DEF FilesOK
  <1>10. AloneOK'
    <2>1. Busy(t)
      BY <1>2 DEF Busy
    <2>2. \A x \in Thread \ {t} : ~ (saver[x].alone /\ Busy(x))
      BY <1>1, <2>1 DEF AloneOK
    <2>3. saver[t].alone =>
             /\ \A u \in Thread \ {t} : ~ Busy(u)
             /\ files.tmp = i
             /\ CanvasOf(saver[t], graph)
             /\ ~ saver[t].torn /\ timers = 0 /\ ~ unmarked => Restores(saver[t].bundle, graph)
      BY <1>1, <1>2, <2>1 DEF AloneOK, i
    <2>4. CanvasOf(saver[t], graph) => CanvasOf(saver'[t], graph')
      BY <1>2, <1>6 DEF CanvasOf
    <2> QED
      BY <1>2, <1>5, <1>6, <1>15, <2>2, <2>3, <2>4 DEF AloneOK, Busy
  <1>11. LifeOK'
    BY <1>1, <1>2, <1>6, ThreadIs DEF LifeOK, Busy
  <1>12. OutputsMatchSinks'
    BY <1>1, <1>2 DEF OutputsMatchSinks
  <1>17. ~ disturbed => OnDisk' = OnDisk
    BY <1>1, <1>3, <1>5 DEF OnDisk, ConfigTypes, FilesRec
  <1>13. LastGoodKept'
    BY <1>1, <1>2, <1>5, <1>17 DEF LastGoodKept
  <1>18. LeavingOK'
    BY <1>1, <1>2, <1>6, <1>17, ThreadIs DEF LeavingOK, Busy
  <1>14. SavedOrPending'
    <2>1. ~ Quiet'
      BY <1>6 DEF Quiet, Busy
    <2> QED
      BY <2>1, SavedMeans
  <1> QED
    BY <1>7, <1>8, <1>9, <1>10, <1>11, <1>12, <1>13, <1>14, <1>18 DEF ConfigIInv

\* Thread t's save is over.
LEMMA FinishedKeeps ==
    ASSUME ConfigIInv, NEW t \in Thread, Busy(t), NEW ok \in BOOLEAN, Finished(t, ok),
           files' \in FilesRec, files'.data = files.data,
           files'.tmp = Absent \/ (files'.tmp = files.tmp /\ files'.state = files.state),
           ok => /\ saver[t].pc = "rename" /\ files.tmp # Absent /\ files'.state = files.tmp
    PROVE  ConfigIInv'
  <1> DEFINE again == saver[t].job = "boot" /\ ~ ok
             exits == Restarts(saver[t].job, ok)
  <1>1. /\ ConfigTypes /\ \A x \in Thread : Holds(saver[x], graph)
        /\ FilesOK /\ AloneOK /\ LifeOK /\ LeavingOK /\ OutputsMatchSinks /\ LastGoodKept
    BY DEF ConfigIInv
  <1>2. /\ saver' = [saver EXCEPT ![t] = Idle]
        /\ (disturbed' <=> ~ (ok /\ saver[t].alone)) /\ disturbed' \in BOOLEAN
        /\ timerId' = (IF saver[t].job = "save" THEN "none" ELSE timerId)
        /\ up' = (IF exits THEN "exiting" ELSE IF up = "boot" THEN "run" ELSE up)
        /\ leaving' = (IF exits THEN graph.canvas ELSE leaving)
        /\ again => StartedTwice
        /\ ~ again => graph' = graph /\ codec' = codec /\ sinks' = sinks /\ astray' = astray
        /\ comp' = comp /\ timers' = timers /\ unmarked' = unmarked
    <2>1. saver[t].alone \in BOOLEAN
      BY <1>1 DEF ConfigTypes, SaverRec
    <2> QED
      BY <2>1 DEF Finished
  <1>20. exits => saver[t].job \in {"boot", "apply", "import", "reset"}
    BY DEF Restarts
  <1>21. up # "down"
    BY <1>1 DEF LifeOK
  <1> HIDE DEF exits, again
  <1>3. /\ saver[t].job = "update" /\ ok => pending' = saver[t].bundle.canvas
        /\ pending' \in Canvas \cup {NONE}
    <2>1. pending' = CASE saver[t].job = "update" /\ ok -> saver[t].bundle.canvas
                       [] saver[t].job = "apply" /\ ok -> NONE
                       [] OTHER -> pending
      BY DEF Finished
    <2>2. ok => saver[t].bundle.canvas \in Canvas \cup {NONE}
      BY <1>1 DEF Holds, Savable, BundleRec
    <2>3. pending \in Canvas \cup {NONE}
      BY <1>1 DEF ConfigTypes
    <2> QED
      BY <2>1, <2>2, <2>3
  \* What a second start leaves, and what is left without one.
  <1>22. /\ Kept(graph') /\ graph'.canvas = graph.canvas /\ graph'.sources = graph.sources
         /\ codec' \in Codec /\ sinks' \in SUBSET Output /\ astray' \in SUBSET Output
         /\ Odd(sinks', graph') \subseteq astray'
         /\ ok => graph' = graph
    <2>1. /\ Kept(graph) /\ codec \in Codec /\ sinks \in SUBSET Output /\ astray \in SUBSET Output
          /\ Odd(sinks, graph) \subseteq astray
      BY <1>1, <1>21 DEF ConfigTypes, OutputsMatchSinks
    <2>2. CASE again
      <3>1. StartOutputs(graph, codec, sinks) /\ Strays(sinks) /\ ~ ok
        BY <1>2, <2>2 DEF StartedTwice, again
      <3>2. /\ Kept(graph') /\ graph'.canvas = graph.canvas /\ graph'.sources = graph.sources
            /\ codec' \in Codec /\ sinks' \in SUBSET Output /\ Odd(sinks', graph') \subseteq sinks
        BY <2>1, <3>1, OutputsStarted
      <3>3. astray' \in SUBSET Output /\ Odd(sinks', graph') \subseteq astray'
        BY <2>1, <3>1, <3>2 DEF Strays
      <3> QED
        BY <3>1, <3>2, <3>3
    <2>3. CASE ~ again
      <3>1. graph' = graph /\ codec' = codec /\ sinks' = sinks /\ astray' = astray
        BY <1>2, <2>3
      <3>2. Odd(sinks', graph') = Odd(sinks, graph)
        BY <3>1 DEF Odd, Shown
      <3> QED
        BY <2>1, <3>1, <3>2
    <2> QED
      BY <2>2, <2>3
  <1>4. Idle \in SaverRec /\ Idle.pc = "idle" /\ Idle.job = "none"
    BY DEF Idle, SaverRec, Jobs
  <1>5. /\ saver' \in [Thread -> SaverRec] /\ saver'[t] = Idle
        /\ \A x \in Thread \ {t} : saver'[x] = saver[x]
    BY <1>1, <1>2, <1>4 DEF ConfigTypes
  <1>6. ConfigTypes'
    BY <1>1, <1>2, <1>3, <1>5, <1>22 DEF ConfigTypes
  <1>7. \A x \in Thread : Holds(saver'[x], graph')
    <2>1. Holds(Idle, graph')
      BY <1>4 DEF Holds
    <2>2. \A x \in Thread : Holds(saver[x], graph')
      BY <1>1, <1>22 DEF Holds
    <2> QED
      BY <1>5, <2>1, <2>2
  <1>8. \A x \in Thread \ {t} : ~ (saver[x].alone /\ Busy(x))
    BY <1>1 DEF AloneOK
  <1> DEFINE c == Content(saver[t].bundle, saver[t].torn)
  <1>9. ~ disturbed' =>
           /\ ok /\ saver[t].alone /\ saver[t].pc = "rename" /\ files.tmp = saver[t].inode
           /\ files'.state = saver[t].inode
           /\ files.data[saver[t].inode] \in {c, Cut}
           /\ \A u \in Thread \ {t} : ~ Busy(u)
           /\ CanvasOf(saver[t], graph)
           /\ ~ saver[t].torn /\ timers = 0 /\ ~ unmarked => Restores(saver[t].bundle, graph)
    <2> HIDE DEF c
    <2> QED BY <1>1, <1>2 DEF AloneOK, c
  <1>10. FilesOK'
    <2>1. \A x \in Inode : Parses(files'.data[x]) => Savable(files'.data[x].bundle)
      BY <1>1 DEF FilesOK
    <2>2. \A x \in Thread : saver'[x].pc \in {"write", "rename"} =>
             saver'[x].inode \in Inode /\ (~ disturbed' => saver'[x].inode # files'.state)
      BY <1>1, <1>4, <1>5, <1>9 DEF FilesOK, Busy
    <2>3. files'.tmp # Absent => files'.tmp # files'.state
      BY <1>1 DEF FilesOK
    <2> QED
      BY <2>1, <2>2, <2>3 DEF FilesOK
  <1>11. AloneOK'
    BY <1>4, <1>5, <1>8 DEF AloneOK, Busy
  <1>12. LifeOK'
    <2>2. up' # "down" /\ up' # "boot"
      BY <1>2, <1>21
    <2>3. saver'["loop"].job \in {"none", "save"}
      <3>1. CASE t = "loop"
        BY <1>4, <1>5, <3>1
      <3>2. CASE t = "client"
        <4>1. up # "boot"
          BY <1>1, <3>2 DEF LifeOK
        <4>2. saver["loop"].job \in {"none", "save"}
          BY <1>1, <4>1 DEF LifeOK
        <4> QED
          BY <1>5, <3>2, <4>2, ThreadIs
      <3> QED
        BY <3>1, <3>2, ThreadIs
    <2>4. timerId' = "timer" => timers' > 0
      BY <1>1, <1>2 DEF LifeOK
    <2> QED
      BY <2>2, <2>3, <2>4 DEF LifeOK
  <1>13. OutputsMatchSinks'
    BY <1>22 DEF OutputsMatchSinks
  <1>15. /\ Parses(c) /\ c.bundle = saver[t].bundle /\ c.torn = saver[t].torn
         /\ ~ Parses(Cut) /\ Cut.text = "part"
    BY DEF Content, Parses, Cut, Empty
  <1> HIDE DEF c
  <1>14. ~ disturbed' => OnDisk' \in {c, Cut} /\ files'.state # Absent
    <2>1. ~ disturbed' => files'.state # Absent
      BY <1>9
    <2> QED
      BY <1>9, <2>1 DEF OnDisk
  <1>16. LastGoodKept'
    <2>1. ~ disturbed' /\ ~ OnDisk'.torn /\ OnDisk'.text # "part"
            => OnDisk' = c /\ ~ saver[t].torn
      BY <1>14, <1>15
    <2>2. saver[t].pc = "rename" /\ ~ saver[t].torn => Valid(saver[t].bundle)
      BY <1>1 DEF Holds
    <2>3. ~ disturbed' /\ ~ OnDisk'.torn /\ OnDisk'.text # "part"
            => OnDisk' = c /\ Parses(c) /\ Valid(c.bundle)
      BY <1>9, <1>15, <2>1, <2>2
    <2> QED
      BY <2>3 DEF LastGoodKept, Loadable
  <1>17. SavedOrPending'
    <2>1. Quiet' => /\ ~ disturbed' /\ timers = 0 /\ ~ unmarked
                    /\ OnDisk' = c /\ ~ saver[t].torn
      BY <1>2, <1>14, <1>15 DEF Quiet
    <2>2. Quiet' => /\ Restores(saver[t].bundle, graph) /\ CanvasOf(saver[t], graph) /\ ok
                    /\ OnDisk' = c
      BY <1>9, <2>1
    <2>3. Quiet' => NamedCanvas(saver[t].bundle.canvas) \in {graph.canvas, pending'}
      <3>1. saver[t].job = "update" => NamedCanvas(saver[t].bundle.canvas) = saver[t].bundle.canvas
        BY <1>1, NamedCanvasIs, CanvasAssumption DEF Holds, CanvasAssumption
      <3> QED
        BY <1>3, <2>2, <3>1 DEF CanvasOf
    <2>4. Quiet' => SavedBy(OnDisk', graph', comp', pending')
      BY <1>15, <1>22, <2>2, <2>3 DEF SavedBy
    <2> QED
      BY <2>4, SavedMeans
  <1>18. LeavingOK'
    <2> SUFFICES ASSUME leaving' # NONE
                 PROVE  /\ up' = "exiting" /\ ~ Busy("client")' /\ graph'.canvas = leaving'
                        /\ ~ disturbed' /\ Parses(OnDisk') => OnDisk'.bundle.canvas \in {leaving', NONE}
      BY DEF LeavingOK
    <2>1. /\ up' = "exiting" /\ ~ Busy("client")' /\ graph'.canvas = leaving'
          /\ saver[t].job # "update"
      <3>1. CASE exits
        <4>1. t = "loop" => up = "boot"
          BY <1>1, <1>20, <3>1 DEF LifeOK
        <4>2. ~ Busy("client")'
          BY <1>1, <1>4, <1>5, <4>1, ThreadIs DEF LifeOK, Busy
        <4> QED
          BY <1>2, <1>20, <1>22, <3>1, <4>2
      <3>2. CASE ~ exits
        <4>1. leaving' = leaving /\ leaving # NONE
          BY <1>2, <3>2
        <4>2. up = "exiting" /\ ~ Busy("client") /\ graph.canvas = leaving
          BY <1>1, <1>21, <4>1 DEF LeavingOK
        <4>3. t = "loop"
          BY <4>2, ThreadIs
        <4>4. saver[t].job # "update"
          BY <1>1, <4>3 DEF LifeOK
        <4>5. ~ Busy("client")'
          BY <1>5, <4>2, <4>3, ThreadIs DEF Busy
        <4> QED
          BY <1>2, <1>22, <3>2, <4>1, <4>2, <4>4, <4>5
      <3> QED
        BY <3>1, <3>2
    <2>2. ASSUME ~ disturbed', Parses(OnDisk')
          PROVE  OnDisk'.bundle.canvas \in {leaving', NONE}
      <3>1. OnDisk' = c /\ CanvasOf(saver[t], graph)
        BY <1>9, <1>14, <1>15, <2>2
      <3>2. NamedCanvas(c.bundle.canvas) = leaving'
        BY <1>15, <1>22, <2>1, <3>1 DEF CanvasOf
      <3> QED
        BY <3>1, <3>2 DEF NamedCanvas
    <2> QED
      BY <2>1, <2>2
  <1> QED
    BY <1>6, <1>7, <1>10, <1>11, <1>12, <1>13, <1>16, <1>17, <1>18 DEF ConfigIInv

LEMMA SaveEndKeeps ==
    ASSUME ConfigIInv, NEW t \in Thread, SaveRename(t) \/ SaveFails(t)
    PROVE  ConfigIInv'
  <1>1. files \in FilesRec
    BY DEF ConfigIInv, ConfigTypes
  <1>2. CASE SaveRename(t)
    <2> DEFINE ok == files.tmp # Absent
    <2>1. /\ saver[t].pc = "rename" /\ Busy(t) /\ Finished(t, ok)
          /\ files' = IF files.tmp = Absent THEN files
                      ELSE [files EXCEPT !.state = files.tmp, !.tmp = Absent]
      BY <1>2 DEF SaveRename, Busy
    <2>2. /\ files' \in FilesRec /\ files'.data = files.data /\ files'.tmp = Absent
          /\ ok => files'.state = files.tmp
      BY <1>1, <2>1 DEF FilesRec
    <2>3. ok \in BOOLEAN /\ (ok => files.tmp # Absent)
      OBVIOUS
    <2> HIDE DEF ok
    <2> QED
      BY <2>1, <2>2, <2>3, FinishedKeeps
  <1>3. CASE SaveFails(t)
    <2>1. /\ Busy(t) /\ Finished(t, FALSE)
          /\ files' = IF saver[t].pc # "open" THEN [files EXCEPT !.tmp = Absent] ELSE files
      BY <1>3 DEF SaveFails, Busy
    <2>2. /\ files' \in FilesRec /\ files'.data = files.data
          /\ files'.tmp = Absent \/ (files'.tmp = files.tmp /\ files'.state = files.state)
      BY <1>1, <2>1 DEF FilesRec
    <2> QED
      BY <2>1, <2>2, FinishedKeeps
  <1> QED
    BY <1>2, <1>3

LEMMA ConfigNextKeeps ==
    ASSUME ConfigIInv, [ConfigNext]_configVars
    PROVE  ConfigIInv'
  <1> DEFINE Want == Codec \cup {NONE}
  <1>1. /\ Kept(graph) /\ codec \in Codec
        /\ sinks \in SUBSET Output /\ astray \in SUBSET Output
    BY DEF ConfigIInv, ConfigTypes
  <1>2. /\ up # "down" => Odd(sinks, graph) \subseteq astray
        /\ up = "down" => sinks = {}
    BY DEF ConfigIInv, OutputsMatchSinks, LifeOK
  <1>3. CASE Boot
    BY <1>3, BootKeeps
  <1>4. CASE Crash \/ Restart
    BY <1>4, DownKeeps DEF Crash, Restart
  <1>5. CASE SaveTimeout
    BY <1>5, TimeoutKeeps
  <1>6. CASE \E t \in Thread :
               SaveBuilt(t) \/ SaveOpen(t) \/ SaveWrite(t) \/ SaveRename(t) \/ SaveFails(t)
    BY <1>6, BuiltKeeps, OpenKeeps, WriteKeeps, SaveEndKeeps
  <1>7. CASE Edit
    <2>1. PICK g \in Edits(graph) : Changed(g) /\ UNCHANGED <<codec, sinks, astray>>
      BY <1>7 DEF Edit
    <2>2. Kept(g) /\ g.outputs = graph.outputs /\ g.canvas = graph.canvas
      BY <1>1, EditKept
    <2>3. graph' = g /\ MayCall /\ Odd(sinks, graph) \subseteq astray
      BY <1>2, <1>7, <2>1 DEF Changed, Edit, MayCall
    <2>4. Odd(sinks', graph') \subseteq astray'
      BY <2>1, <2>2, <2>3 DEF Odd, Shown
    <2>5. Edited
      BY <1>1, <2>1, <2>2, <2>3, <2>4 DEF Edited
    <2> QED
      BY <2>5, EditedKeeps
  <1>8. CASE EditUnmarked
    BY <1>8, UnmarkedKeeps
  <1>9. ASSUME NEW o \in Output, NEW want \in Want, NEW ok \in BOOLEAN,
               \/ OutputCreate(o, want) \/ OutputStart(o, want)
               \/ OutputRemove(o) \/ OutputStop(o) \/ OutputUpdate(o, want, ok)
        PROVE  ConfigIInv'
    <2>1. MayCall
      BY <1>9 DEF OutputCreate, OutputStart, OutputRemove, OutputStop, OutputUpdate
    <2>2. Odd(sinks, graph) \subseteq astray
      BY <1>2, <2>1 DEF MayCall
    <2>3. Edited \/ OnlyEncoder
      BY <1>1, <1>9, <2>2, OutputsEdited
    <2>4. OnlyEncoder => ConfigIInv'
      BY SameKeeps DEF OnlyEncoder, MayCall
    <2> QED
      BY <2>3, <2>4, EditedKeeps
  <1>10. CASE \E c \in Canvas : CanvasUpdate(c)
    BY <1>10, UpdateKeeps
  <1>11. CASE CanvasApply
    <2>1. /\ Parses(OnDisk) /\ Apply("apply", OnDisk.bundle)
          /\ pending' = pending \/ pending' = OnDisk.bundle.canvas
      BY <1>11 DEF CanvasApply
    <2>2. Savable(OnDisk.bundle)
      BY <2>1, DiskSavable
    <2>3. pending' \in Canvas \cup {NONE}
      BY <2>1, <2>2 DEF Savable, BundleRec, ConfigIInv, ConfigTypes
    <2> QED
      BY <2>1, <2>2, <2>3, ApplyKeeps
  <1>12. CASE \E b \in Imports : ConfigImport(b)
    <2>1. PICK b \in Imports : Apply("import", b) /\ pending' = pending
      BY <1>12 DEF ConfigImport
    <2>2. pending' \in Canvas \cup {NONE}
      BY <2>1 DEF ConfigIInv, ConfigTypes
    <2> QED
      BY <2>1, <2>2, ImportSavable, ApplyKeeps
  <1>13. CASE \E s \in Source, sc \in Scene, id \in Item : ConfigReset(s, sc, id)
    BY <1>13, ResetKeeps
  <1>14. CASE UNCHANGED configVars
    <2>1. /\ UNCHANGED <<up, graph, comp, codec, sinks, pending, timers, timerId, saver, files,
                         unmarked, disturbed, astray, leaving>>
          /\ Odd(sinks', graph') = Odd(sinks, graph)
      BY <1>14 DEF configVars, Odd, Shown
    <2> QED
      BY <1>1, <1>2, <2>1, SameKeeps
  <1>15. CASE \E o \in Output, want \in Want : OutputCreate(o, want) \/ OutputStart(o, want)
    BY <1>9, <1>15
  <1>16. CASE \E o \in Output : OutputRemove(o) \/ OutputStop(o)
    <2>1. NONE \in Want /\ TRUE \in BOOLEAN
      OBVIOUS
    <2> QED
      BY <1>9, <1>16, <2>1
  <1>17. CASE \E o \in Output, want \in Want, ok \in BOOLEAN : OutputUpdate(o, want, ok)
    BY <1>9, <1>17
  <1>18. CASE \E c \in Codec : EncoderUpdate(c)
    <2>1. PICK c \in Codec : EncoderUpdate(c)
      BY <1>18
    <2>2. MayCall /\ Odd(sinks, graph) \subseteq astray
      BY <1>2, <2>1 DEF EncoderUpdate, MayCall
    <2>3. OnlyEncoder
      BY <1>1, <2>1, <2>2, EncoderUpdated
    <2> QED
      BY <2>3, SameKeeps DEF OnlyEncoder, MayCall
  <1> QED
    BY <1>3, <1>4, <1>5, <1>6, <1>7, <1>8, <1>10, <1>11, <1>12, <1>13, <1>14, <1>15, <1>16,
       <1>17, <1>18
       DEF ConfigNext

LEMMA ConfigStarts ==
    ASSUME ConfigInit
    PROVE  ConfigIInv
  <1>1. /\ up = "down" /\ graph = NewDefault(DefaultCanvas) /\ comp = DefaultCanvas
        /\ codec = "h265" /\ sinks = {} /\ pending = NONE /\ timers = 0 /\ timerId = "none"
        /\ saver = [t \in Thread |-> Idle] /\ unmarked = FALSE /\ disturbed = FALSE
        /\ astray = {} /\ leaving = NONE
    BY DEF ConfigInit
  <1>2. Kept(graph) /\ graph.canvas \in Canvas
    BY <1>1, DefaultKept, CanvasAssumption DEF CanvasAssumption
  <1>3. Idle \in SaverRec /\ Idle.pc = "idle" /\ Idle.job = "none"
    BY DEF Idle, SaverRec, Jobs
  <1>4. saver \in [Thread -> SaverRec]
        /\ \A t \in Thread : saver[t].pc = "idle" /\ saver[t].job = "none"
    BY <1>1, <1>3
  <1>5. Empty \in ContentRec /\ ~ Parses(Empty)
    BY DEF Empty, ContentRec, Parses
  <1>6. /\ files \in FilesRec /\ files.tmp = Absent
        /\ \A i \in Inode : Parses(files.data[i]) =>
              Savable(files.data[i].bundle) /\ Valid(files.data[i].bundle)
        /\ files.state # Absent => files.state \in Inode /\ Parses(files.data[files.state])
    <2>1. CASE files = [state |-> Absent, tmp |-> Absent, data |-> [i \in Inode |-> Empty]]
      BY <1>5, <2>1 DEF FilesRec
    <2>2. CASE \E b \in {i \in Imports : i.canvas # DefaultCanvas} :
                  files = [state |-> 1, tmp |-> Absent,
                           data |-> [i \in Inode |-> IF i = 1 THEN Content(b, FALSE) ELSE Empty]]
      <3>1. PICK b \in Imports :
               files = [state |-> 1, tmp |-> Absent,
                        data |-> [i \in Inode |-> IF i = 1 THEN Content(b, FALSE) ELSE Empty]]
        BY <2>2
      <3>2. Savable(b) /\ Valid(b) /\ b \in BundleRec
        BY ImportSavable DEF Savable
      <3> DEFINE c == Content(b, FALSE)
                 d == [i \in Inode |-> IF i = 1 THEN c ELSE Empty]
      <3>3. c \in ContentRec /\ Parses(c) /\ c.bundle = b
        BY <3>2 DEF Content, ContentRec, Parses
      <3>4. 1 \in Inode
        BY DEF Inode
      <3> HIDE DEF c
      <3>5. d \in [Inode -> ContentRec] /\ d[1] = c /\ \A i \in Inode \ {1} : d[i] = Empty
        BY <1>5, <3>3, <3>4
      <3>6. files = [state |-> 1, tmp |-> Absent, data |-> d]
        BY <3>1 DEF c
      <3> HIDE DEF d
      <3>7. files \in FilesRec /\ files.tmp = Absent /\ files.state = 1 /\ files.data = d
        BY <3>4, <3>5, <3>6 DEF FilesRec
      <3> QED
        BY <1>5, <3>2, <3>3, <3>4, <3>5, <3>7
    <2> QED
      BY <2>1, <2>2 DEF ConfigInit
  <1>7. ConfigTypes
    BY <1>1, <1>2, <1>4, <1>6, CanvasAssumption DEF ConfigTypes, CanvasAssumption, Codec
  <1>8. \A t \in Thread : Holds(saver[t], graph)
    BY <1>4 DEF Holds
  <1>9. FilesOK /\ AloneOK
    BY <1>4, <1>6 DEF FilesOK, AloneOK, Busy
  <1>10. LifeOK
    BY <1>1, <1>4, ThreadIs DEF LifeOK, Busy
  <1>14. LeavingOK
    BY <1>1 DEF LeavingOK
  <1>11. OutputsMatchSinks
    BY <1>1 DEF OutputsMatchSinks
  <1>12. LastGoodKept
    BY <1>6 DEF LastGoodKept, Loadable, OnDisk
  <1>13. SavedOrPending
    <2>1. ~ Quiet
      BY <1>1 DEF Quiet
    <2> QED
      BY <2>1, SavedMeans
  <1> QED
    BY <1>7, <1>8, <1>9, <1>10, <1>11, <1>12, <1>13, <1>14 DEF ConfigIInv

\* The invariant that the claims about the configuration rest on.
THEOREM ConfigurationIInv == ConfigSpec => []ConfigIInv
  <1>1. ConfigInit => ConfigIInv
    BY ConfigStarts
  <1>2. ConfigIInv /\ [ConfigNext]_configVars => ConfigIInv'
    BY ConfigNextKeeps
  <1> QED
    BY <1>1, <1>2, PTL DEF ConfigSpec

LEMMA ConfigSafe ==
    ASSUME ConfigIInv
    PROVE  ConfigTypes /\ OutputsMatchSinks /\ LastGoodKept /\ SavedOrPending
  BY DEF ConfigIInv

\* What CanvasArrives says of a step.
Arrives ==
    up = "down" /\ up' # "down" /\ leaving # NONE
    /\ ~ disturbed /\ Parses(OnDisk) /\ OnDisk.bundle.canvas # NONE
    => comp' = leaving /\ graph'.canvas = leaving

\* Only a boot leaves "down", and the file then names the canvas to come back
\* with: both readers take it as it is.
LEMMA BootArrives ==
    ASSUME ConfigIInv, [ConfigNext]_configVars
    PROVE  Arrives
  <1> SUFFICES ASSUME up = "down", up' # "down", leaving # NONE, ~ disturbed,
                      Parses(OnDisk), OnDisk.bundle.canvas # NONE
               PROVE  comp' = leaving /\ graph'.canvas = leaving
    BY DEF Arrives
  <1> DEFINE b == OnDisk.bundle
  <1>1. /\ ConfigTypes /\ LifeOK /\ LeavingOK
    BY DEF ConfigIInv
  <1>2. \A t \in Thread : ~ Busy(t)
    BY <1>1 DEF LifeOK
  <1>3. Boot
    <2>1. ~ MayCall /\ ~ SaveTimeout /\ ~ Crash /\ ~ Restart
      BY DEF MayCall, SaveTimeout, Crash, Restart
    <2>2. ~ \E t \in Thread :
               SaveBuilt(t) \/ SaveOpen(t) \/ SaveWrite(t) \/ SaveRename(t) \/ SaveFails(t)
      BY <1>2 DEF SaveBuilt, SaveOpen, SaveWrite, SaveRename, SaveFails, Busy
    <2>3. ~ Edit /\ ~ EditUnmarked /\ ~ CanvasApply
      BY <2>1 DEF Edit, EditUnmarked, CanvasApply, Apply
    <2>4. \A o \in Output, want \in Codec \cup {NONE} : ~ OutputCreate(o, want)
      BY <2>1 DEF OutputCreate
    <2>8. \A o \in Output, want \in Codec \cup {NONE} : ~ OutputStart(o, want)
      BY <2>1 DEF OutputStart
    <2>9. \A o \in Output, want \in Codec \cup {NONE}, ok \in BOOLEAN : ~ OutputUpdate(o, want, ok)
      BY <2>1 DEF OutputUpdate
    <2>5. /\ \A c \in Codec : ~ EncoderUpdate(c)
          /\ \A c \in Canvas : ~ CanvasUpdate(c)
          /\ \A x \in Imports : ~ ConfigImport(x)
          /\ \A s \in Source, sc \in Scene, id \in Item : ~ ConfigReset(s, sc, id)
      BY <2>1 DEF EncoderUpdate, CanvasUpdate, ConfigImport, Apply, ConfigReset
    <2>6. \A o \in Output : ~ OutputRemove(o) /\ ~ OutputStop(o)
      BY <2>1 DEF OutputRemove, OutputStop
    <2>7. ~ UNCHANGED configVars
      BY DEF configVars
    <2> QED
      BY <2>1, <2>2, <2>3, <2>4, <2>5, <2>6, <2>7, <2>8, <2>9 DEF ConfigNext
  <1>4. b.canvas = leaving /\ b.canvas # NONE
    BY <1>1 DEF LeavingOK
  <1>5. comp' = b.canvas
    BY <1>3 DEF Boot, Preloaded
  <1>6. Savable(b) /\ b \in BundleRec
    BY DiskSavable DEF Savable
  <1>7. comp' \in Canvas
    BY <1>4, <1>5, <1>6 DEF BundleRec
  <1>8. Kept(NewDefault(comp')) /\ NewDefault(comp').canvas = comp' /\ "h265" \in Codec
    BY <1>7, DefaultKept DEF Codec
  <1>9. graph'.canvas = b.canvas
    <2>1. CASE Loadable(OnDisk)
      <3>1. Valid(b) /\ Run(Loaded(b, NewDefault(comp')), "h265", comp')
        BY <1>3, <2>1 DEF Boot, Loadable
      <3>2. NewDefault(comp') \in GraphRec /\ sinks \in SUBSET Output
        BY <1>1, <1>8 DEF Kept, ConfigTypes
      <3> HIDE DEF b
      <3>3. graph'.canvas = NamedCanvas(b.canvas)
        BY <1>6, <1>8, <3>1, <3>2, RunIs
      <3> QED
        BY <1>4, <3>3 DEF NamedCanvas
    <2>2. CASE ~ Loadable(OnDisk)
      BY <1>3, <1>5, <1>8, <2>2 DEF Boot
    <2> QED
      BY <2>1, <2>2
  <1> QED
    BY <1>4, <1>5, <1>9

\* The variables of the configuration keep their types: the graph is one that
\* the operations of the scene graph can be applied to, a save in progress and a
\* file hold bundles.
THEOREM ConfigurationTypes == ConfigSpec => []ConfigTypes
  BY ConfigurationIInv, ConfigSafe, PTL

\* A restart loses nothing that a call marked (sbs_config_manager_mark_dirty,
\* save_timeout_cb), but for what Survives names: when no save is scheduled or
\* under way, loading state.json gives back the graph there is, but for a canvas
\* that waits to be applied.  Not after a save that failed, came short, was built
\* while calls came or overlapped another one.
THEOREM NothingMarkedIsLost == ConfigSpec => []SavedOrPending
  BY ConfigurationIInv, ConfigSafe, PTL

\* A crash between any two steps of a save (open, write, rename) leaves a
\* state.json that loads, unless the save's write came short and it was renamed
\* all the same, calls came while it was built, or it failed or overlapped another.
THEOREM LastGoodStays == ConfigSpec => []LastGoodKept
  BY ConfigurationIInv, ConfigSafe, PTL

\* An instance that exits for a canvas comes back with it, in the compositor
\* (sbs_config_manager_preload_canvas) and in the graph (apply_bundle), whatever is
\* saved until it is gone and however it goes, unless the file names none.
THEOREM AppliedCanvasArrives == ConfigSpec => CanvasArrives
  <1>1. ConfigIInv /\ [ConfigNext]_configVars => Arrives
    BY BootArrives
  <1>2. ConfigSpec => [][Arrives]_configVars
    BY <1>1, ConfigurationIInv, PTL DEF ConfigSpec
  <1> QED
    BY <1>2 DEF CanvasArrives, Arrives

\* The outputs that are shown as running are the encoder's branches, after any
\* calls, imports, resets and restarts (restart_runtime_from_graph, output.*), but
\* for those that encoder.update_config took off and those that a boot whose save
\* failed started twice, until they agree again.
THEOREM OutputsStayMatched == ConfigSpec => []OutputsMatchSinks
  BY ConfigurationIInv, ConfigSafe, PTL

=============================================================================
