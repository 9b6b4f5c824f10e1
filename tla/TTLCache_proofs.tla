---------------------------- MODULE TTLCache_proofs ----------------------------
(* Theorems about TTLCache for every set of keys and values and every limit. *)
EXTENDS TTLCache, FiniteSetTheorems, TLAPS

-----------------------------------------------------------------------------
(* Lists.                                                                  *)

\* front is a list: one order, in which nothing stands in front of itself.
IsList(list) ==
  /\ \A e \in DOMAIN list : list[e] \subseteq DOMAIN list \ {e}
  /\ \A d, e \in DOMAIN list : d # e => (d \in list[e] <=> e \notin list[d])
  /\ \A c, d, e \in DOMAIN list : c \in list[d] /\ d \in list[e] => c \in list[e]

\* Taking elements out of a list leaves a list.
LEMMA RemoveFromList ==
  ASSUME NEW list, IsList(list), NEW gone
  PROVE  /\ IsList(Remove(list, gone))
         /\ DOMAIN Remove(list, gone) = DOMAIN list \ gone
         /\ \A e \in DOMAIN list \ gone : Remove(list, gone)[e] = list[e] \ gone
BY DEF IsList, Remove

\* So does a new element in front.
LEMMA PushFrontList ==
  ASSUME NEW list, IsList(list), NEW e, e \notin DOMAIN list
  PROVE  /\ IsList(PushFront(list, e))
         /\ DOMAIN PushFront(list, e) = DOMAIN list \cup {e}
         /\ PushFront(list, e)[e] = {}
         /\ \A d \in DOMAIN list : PushFront(list, e)[d] = list[d] \cup {e}
<1> DEFINE l == PushFront(list, e)
<1>1. /\ DOMAIN l = DOMAIN list \cup {e}
      /\ l[e] = {}
      /\ \A d \in DOMAIN list : l[d] = list[d] \cup {e}
  BY DEF PushFront
<1>2. IsList(l)
  <2> HIDE DEF l
  <2> QED  BY <1>1 DEF IsList
<1> QED  BY <1>1, <1>2

\* Moving elements to the front in any order keeps it a list.
LEMMA MoveToFrontList ==
  ASSUME NEW list, IsList(list), NEW T, T \subseteq DOMAIN list, NEW visit \in Visits(T)
  PROVE  /\ IsList(MoveToFront(list, visit))
         /\ DOMAIN MoveToFront(list, visit) = DOMAIN list
         /\ \A e \in T : MoveToFront(list, visit)[e] \subseteq T \ {e}
         /\ \A e \in DOMAIN list \ T : MoveToFront(list, visit)[e] = list[e] \cup T
<1> DEFINE l == MoveToFront(list, visit)
<1>1. /\ DOMAIN visit = T
      /\ \A e \in T : visit[e] \in Int
      /\ \A d, e \in T : visit[d] = visit[e] => d = e
  BY DEF Visits
<1>2. /\ DOMAIN l = DOMAIN list
      /\ \A e \in T : l[e] = {d \in T : visit[d] > visit[e]}
      /\ \A e \in DOMAIN list \ T : l[e] = list[e] \cup T
  BY <1>1 DEF MoveToFront
<1>3. \A e \in T : l[e] \subseteq T \ {e}
  <2> HIDE DEF l
  <2> QED  BY <1>1, <1>2
<1>4. IsList(l)
  <2> HIDE DEF l
  <2>1. \A e \in DOMAIN l : l[e] \subseteq DOMAIN l \ {e}
    BY <1>2, <1>3 DEF IsList
  <2>2. \A d, e \in DOMAIN l : d # e => (d \in l[e] <=> e \notin l[d])
    <3> SUFFICES ASSUME NEW d \in DOMAIN l, NEW e \in DOMAIN l, d # e
                 PROVE  d \in l[e] <=> e \notin l[d]
      OBVIOUS
    <3>1. CASE d \in T /\ e \in T
      BY <3>1, <1>1, <1>2
    <3>2. CASE d \notin T \/ e \notin T
      BY <3>2, <1>2, <1>3 DEF IsList
    <3> QED  BY <3>1, <3>2
  <2>3. \A c, d, e \in DOMAIN l : c \in l[d] /\ d \in l[e] => c \in l[e]
    <3> SUFFICES ASSUME NEW c \in DOMAIN l, NEW d \in DOMAIN l, NEW e \in DOMAIN l,
                        c \in l[d], d \in l[e]
                 PROVE  c \in l[e]
      OBVIOUS
    <3>1. CASE e \in T
      <4>1. d \in T /\ c \in T
        BY <3>1, <1>3
      <4> QED  BY <3>1, <4>1, <1>1, <1>2
    <3>2. CASE e \notin T
      BY <3>2, <1>2, <1>3 DEF IsList
    <3> QED  BY <3>1, <3>2
  <2> QED  BY <2>1, <2>2, <2>3 DEF IsList
<1> QED  BY <1>2, <1>3, <1>4

\* A list that is not empty has one element at its back.  The elements in front
\* of an element are counted: two elements with the same count are the same,
\* so one of them must have all the others in front of it.
LEMMA BackOfList ==
  ASSUME NEW list, IsList(list), IsFiniteSet(DOMAIN list), DOMAIN list # {}
  PROVE  \E e \in DOMAIN list : Back(list) = {e}
<1> DEFINE S == DOMAIN list
           n == Cardinality(S)
<1>1. n \in Nat /\ n > 0
  BY FS_CardinalityType, FS_EmptySet
<1>2. \A e \in S : /\ IsFiniteSet(list[e]) /\ IsFiniteSet(S \ {e})
                   /\ Cardinality(list[e]) \in Nat
                   /\ Cardinality(S \ {e}) = n - 1
                   /\ Cardinality(list[e]) <= n - 1
                   /\ Cardinality(list[e]) = n - 1 => list[e] = S \ {e}
  <2> SUFFICES ASSUME NEW e \in S
               PROVE  /\ IsFiniteSet(list[e]) /\ IsFiniteSet(S \ {e})
                      /\ Cardinality(list[e]) \in Nat
                      /\ Cardinality(S \ {e}) = n - 1
                      /\ Cardinality(list[e]) <= n - 1
                      /\ Cardinality(list[e]) = n - 1 => list[e] = S \ {e}
    OBVIOUS
  <2>1. IsFiniteSet(S \ {e}) /\ Cardinality(S \ {e}) = n - 1
    BY FS_RemoveElement
  <2>2. list[e] \in SUBSET (S \ {e})
    BY DEF IsList
  <2>3. /\ IsFiniteSet(list[e])
        /\ Cardinality(list[e]) <= Cardinality(S \ {e})
        /\ Cardinality(S \ {e}) = Cardinality(list[e]) => S \ {e} = list[e]
    BY <2>1, <2>2, FS_Subset
  <2>4. Cardinality(list[e]) \in Nat
    BY <2>3, FS_CardinalityType
  <2> QED  BY <2>1, <2>3, <2>4
<1>3. \E e \in S : list[e] = S \ {e}
  <2> SUFFICES ASSUME \A e \in S : list[e] # S \ {e}
               PROVE  FALSE
    OBVIOUS
  <2> DEFINE f == [e \in S |-> Cardinality(list[e])]
  <2>1. \A e \in S : Cardinality(list[e]) \in 0..(n - 2)
    <3> SUFFICES ASSUME NEW e \in S
                 PROVE  Cardinality(list[e]) \in 0..(n - 2)
      OBVIOUS
    <3>1. /\ Cardinality(list[e]) \in Nat
          /\ Cardinality(list[e]) <= n - 1
          /\ Cardinality(list[e]) # n - 1
      BY <1>2
    <3> HIDE DEF n
    <3> QED  BY <3>1, <1>1
  <2>2. IsFiniteSet(0..(n - 2)) /\ Cardinality(0..(n - 2)) = n - 1
    <3>1. n - 2 \in Int
      BY <1>1
    <3>2. /\ IsFiniteSet(0..(n - 2))
          /\ Cardinality(0..(n - 2)) = IF 0 > n - 2 THEN 0 ELSE (n - 2) - 0 + 1
      BY <3>1, FS_Interval
    <3> QED  BY <3>2, <1>1
  <2>3. f \in [S -> 0..(n - 2)]
    BY <2>1
  <2>4. PICK x, y \in S : x # y /\ f[x] = f[y]
    <3>1. Cardinality(0..(n - 2)) < Cardinality(S)
      BY <2>2, <1>1
    <3> HIDE DEF f, n
    <3> QED  BY <2>2, <2>3, <3>1, FS_PigeonHole
  <2>5. PICK d, e \in S : d # e /\ d \in list[e] /\ Cardinality(list[d]) = Cardinality(list[e])
    BY <2>4 DEF IsList
  <2>6. list[d] \in SUBSET list[e]
    BY <2>5 DEF IsList
  <2>7. list[d] = list[e]
    BY <2>5, <2>6, <1>2, FS_Subset
  <2> QED  BY <2>5, <2>7 DEF IsList
<1>4. PICK e \in S : list[e] = S \ {e}
  BY <1>3
<1>5. \A d \in S : list[d] = S \ {d} => d = e
  BY <1>4 DEF IsList
<1> QED  BY <1>4, <1>5 DEF Back

-----------------------------------------------------------------------------
(* The index.                                                              *)

\* index holds exactly some entries, each under its own key and value.
IsIndex(index, entries) ==
  /\ entries \subseteq CacheEntry
  /\ \A k \in DOMAIN index :
       /\ DOMAIN index[k] # {}
       /\ \A v \in DOMAIN index[k] : index[k][v] \in entries /\ Pair(index[k][v]) = <<k, v>>
  /\ \A e \in entries :
       e.Key \in DOMAIN index /\ e.Value \in DOMAIN index[e.Key] /\ index[e.Key][e.Value] = e

\* A pair names key and value.
LEMMA PairType ==
  ASSUME NEW e \in CacheEntry
  PROVE  /\ Pair(e) \in Pairs
         /\ \A k, v : Pair(e) = <<k, v>> <=> e.Key = k /\ e.Value = v
         /\ Pair(e)[1] = e.Key /\ Pair(e)[2] = e.Value
BY DEF CacheEntry, Pair, Pairs

\* No two entries of an index have the same pair, and its keys and values are
\* those of entries.
LEMMA IndexPairs ==
  ASSUME NEW index, NEW entries, IsIndex(index, entries)
  PROVE  /\ \A d, e \in entries : Pair(d) = Pair(e) => d = e
         /\ DOMAIN index \subseteq K
         /\ \A k \in DOMAIN index : DOMAIN index[k] \subseteq V
<1>1. \A e \in entries : e \in CacheEntry
  BY DEF IsIndex
<1>2. \A d, e \in entries : Pair(d) = Pair(e) => d = e
  <2> SUFFICES ASSUME NEW d \in entries, NEW e \in entries, Pair(d) = Pair(e)
               PROVE  d = e
    OBVIOUS
  <2>1. d.Key = e.Key /\ d.Value = e.Value
    BY <1>1 DEF Pair
  <2> QED  BY <2>1 DEF IsIndex
<1>3. \A k \in DOMAIN index : k \in K /\ \A v \in DOMAIN index[k] : v \in V
  <2> SUFFICES ASSUME NEW k \in DOMAIN index
               PROVE  k \in K /\ \A v \in DOMAIN index[k] : v \in V
    OBVIOUS
  <2>1. \A v \in DOMAIN index[k] : k \in K /\ v \in V
    <3> SUFFICES ASSUME NEW v \in DOMAIN index[k]
                 PROVE  k \in K /\ v \in V
      OBVIOUS
    <3>1. index[k][v] \in CacheEntry /\ Pair(index[k][v]) = <<k, v>>
      BY <1>1 DEF IsIndex
    <3>2. index[k][v].Key = k /\ index[k][v].Value = v
      BY <3>1, PairType
    <3> QED  BY <3>1, <3>2 DEF CacheEntry
  <2>2. DOMAIN index[k] # {}
    BY DEF IsIndex
  <2> QED  BY <2>1, <2>2
<1> QED  BY <1>2, <1>3

\* An index holds finitely many entries.
LEMMA IndexFinite ==
  ASSUME NEW index, NEW entries, IsIndex(index, entries)
  PROVE  IsFiniteSet(entries)
<1> DEFINE f == [e \in entries |-> Pair(e)]
<1>1. IsFiniteSet(Pairs)
  BY CacheAssumption, FS_Product DEF Pairs
<1>2. f \in Injection(entries, Pairs)
  <2>1. \A e \in entries : Pair(e) \in Pairs
    BY PairType DEF IsIndex
  <2>2. \A d, e \in entries : f[d] = f[e] => d = e
    BY IndexPairs
  <2> QED  BY <2>1, <2>2 DEF Injection, IsInjective
<1> QED  BY <1>1, <1>2, FS_Injection

\* Deleting the pairs of some entries leaves an index of the others.
LEMMA DeleteFromIndex ==
  ASSUME NEW index, NEW entries, IsIndex(index, entries), NEW gone \in SUBSET entries
  PROVE  IsIndex(Delete(index, {Pair(e) : e \in gone}), entries \ gone)
<1> DEFINE pairs == {Pair(e) : e \in gone}
           left(k) == {v \in DOMAIN index[k] : <<k, v>> \notin pairs}
           new == Delete(index, pairs)
<1>1. \A e \in entries : Pair(e) \in pairs <=> e \in gone
  BY IndexPairs
<1>2. \A e \in entries : /\ e \in CacheEntry
                         /\ e.Key \in DOMAIN index
                         /\ e.Value \in DOMAIN index[e.Key]
                         /\ index[e.Key][e.Value] = e
                         /\ Pair(e) = <<e.Key, e.Value>>
  BY DEF IsIndex, Pair
<1>3. /\ DOMAIN new = {x \in DOMAIN index : left(x) # {}}
      /\ \A k \in DOMAIN new : new[k] = [v \in left(k) |-> index[k][v]]
  BY DEF Delete
<1>4. \A k \in DOMAIN new : /\ k \in DOMAIN index
                            /\ DOMAIN new[k] = left(k) /\ left(k) # {}
                            /\ \A v \in left(k) : new[k][v] = index[k][v]
  BY <1>3
<1>5. \A k \in DOMAIN index : \A v \in DOMAIN index[k] :
        index[k][v] \in entries /\ Pair(index[k][v]) = <<k, v>>
  BY DEF IsIndex
<1>6. \A e \in entries \ gone : e.Value \in left(e.Key) /\ e.Key \in DOMAIN new
  BY <1>1, <1>2, <1>3
<1> HIDE DEF new
<1>7. \A k \in DOMAIN new : /\ DOMAIN new[k] # {}
                            /\ \A v \in DOMAIN new[k] :
                                 /\ new[k][v] \in entries \ gone
                                 /\ Pair(new[k][v]) = <<k, v>>
  <2> SUFFICES ASSUME NEW k \in DOMAIN new
               PROVE  /\ DOMAIN new[k] # {}
                      /\ \A v \in DOMAIN new[k] : /\ new[k][v] \in entries \ gone
                                                  /\ Pair(new[k][v]) = <<k, v>>
    OBVIOUS
  <2>1. \A v \in DOMAIN new[k] : /\ new[k][v] = index[k][v] /\ <<k, v>> \notin pairs
                                 /\ index[k][v] \in entries /\ Pair(index[k][v]) = <<k, v>>
    BY <1>4, <1>5
  <2> HIDE DEF pairs
  <2>2. \A v \in DOMAIN new[k] : new[k][v] \notin gone
    BY <2>1, <1>1
  <2> QED  BY <2>1, <2>2, <1>4
<1>8. \A e \in entries \ gone : /\ e.Key \in DOMAIN new
                                /\ e.Value \in DOMAIN new[e.Key]
                                /\ new[e.Key][e.Value] = e
  BY <1>2, <1>4, <1>6
<1> QED  BY <1>2, <1>7, <1>8 DEF IsIndex, new

\* Storing an entry replaces the one of its pair, if there is one.
LEMMA StoreInIndex ==
  ASSUME NEW index, NEW entries, IsIndex(index, entries), NEW e \in CacheEntry
  PROVE  IsIndex(Store(index, e), {d \in entries : Pair(d) # Pair(e)} \cup {e})
<1> DEFINE values(k) == IF k \in DOMAIN index THEN DOMAIN index[k] ELSE {}
           new == Store(index, e)
           kept == {d \in entries : Pair(d) # Pair(e)}
<1>1. /\ DOMAIN new = DOMAIN index \cup {e.Key}
      /\ \A k \in DOMAIN new :
           new[k] = [v \in values(k) \cup (IF k = e.Key THEN {e.Value} ELSE {}) |->
                       IF <<k, v>> = Pair(e) THEN e ELSE index[k][v]]
  BY DEF Store
<1>2. \A k \in DOMAIN new :
        /\ DOMAIN new[k] = values(k) \cup (IF k = e.Key THEN {e.Value} ELSE {})
        /\ \A v \in DOMAIN new[k] :
             new[k][v] = IF <<k, v>> = Pair(e) THEN e ELSE index[k][v]
  <2> HIDE DEF values, new
  <2> SUFFICES ASSUME NEW k \in DOMAIN new
               PROVE  /\ DOMAIN new[k] = values(k) \cup (IF k = e.Key THEN {e.Value} ELSE {})
                      /\ \A v \in DOMAIN new[k] :
                           new[k][v] = IF <<k, v>> = Pair(e) THEN e ELSE index[k][v]
    OBVIOUS
  <2>1. new[k] = [v \in values(k) \cup (IF k = e.Key THEN {e.Value} ELSE {}) |->
                    IF <<k, v>> = Pair(e) THEN e ELSE index[k][v]]
    BY <1>1
  <2> QED  BY <2>1
<1>3. Pair(e) = <<e.Key, e.Value>>
  BY DEF Pair
<1>4. \A d \in entries : /\ d \in CacheEntry
                         /\ d.Key \in DOMAIN index
                         /\ d.Value \in DOMAIN index[d.Key]
                         /\ index[d.Key][d.Value] = d
                         /\ Pair(d) = <<d.Key, d.Value>>
  BY DEF IsIndex, Pair
<1>5. \A k \in DOMAIN index : /\ DOMAIN index[k] # {}
                              /\ \A v \in DOMAIN index[k] :
                                   index[k][v] \in entries /\ Pair(index[k][v]) = <<k, v>>
  BY DEF IsIndex
<1> HIDE DEF new
<1>6. \A k \in DOMAIN new : DOMAIN new[k] # {}
  BY <1>1, <1>2, <1>5
<1>7. \A k \in DOMAIN new : \A v \in DOMAIN new[k] :
        new[k][v] \in kept \cup {e} /\ Pair(new[k][v]) = <<k, v>>
  <2> SUFFICES ASSUME NEW k \in DOMAIN new, NEW v \in DOMAIN new[k]
               PROVE  new[k][v] \in kept \cup {e} /\ Pair(new[k][v]) = <<k, v>>
    OBVIOUS
  <2>1. CASE <<k, v>> = Pair(e)
    BY <2>1, <1>2
  <2>2. CASE <<k, v>> # Pair(e)
    <3>1. k \in DOMAIN index /\ v \in DOMAIN index[k]
      BY <2>2, <1>2, <1>3
    <3>2. new[k][v] = index[k][v]
      BY <2>2, <1>2
    <3> QED  BY <2>2, <3>1, <3>2, <1>5
  <2> QED  BY <2>1, <2>2
<1>8. \A d \in kept \cup {e} : /\ d.Key \in DOMAIN new
                               /\ d.Value \in DOMAIN new[d.Key]
                               /\ new[d.Key][d.Value] = d
  <2>1. /\ e.Key \in DOMAIN new /\ e.Value \in DOMAIN new[e.Key]
        /\ new[e.Key][e.Value] = e
    BY <1>1, <1>2, <1>3
  <2>2. ASSUME NEW d \in kept
        PROVE  /\ d.Key \in DOMAIN new /\ d.Value \in DOMAIN new[d.Key]
               /\ new[d.Key][d.Value] = d
    <3>1. /\ d \in entries /\ <<d.Key, d.Value>> # Pair(e)
          /\ d.Key \in DOMAIN new /\ d.Value \in DOMAIN new[d.Key]
      BY <1>1, <1>2, <1>4
    <3>2. new[d.Key][d.Value] = index[d.Key][d.Value]
      BY <3>1, <1>2
    <3> QED  BY <3>1, <3>2, <1>4
  <2> QED  BY <2>1, <2>2
<1>9. kept \cup {e} \subseteq CacheEntry
  BY <1>4
<1> QED  BY <1>6, <1>7, <1>8, <1>9 DEF IsIndex, new

\* Entries are counted by their pairs.
LEMMA CountedByPairs ==
  ASSUME NEW index, NEW entries, IsIndex(index, entries),
         NEW S \in SUBSET entries, NEW T \in SUBSET Pairs, \A d \in S : Pair(d) \in T
  PROVE  Cardinality(S) <= Cardinality(T)
<1> DEFINE f == [d \in S |-> Pair(d)]
<1>1. IsFiniteSet(T)
  <2>1. IsFiniteSet(Pairs)
    BY CacheAssumption, FS_Product DEF Pairs
  <2> QED  BY <2>1, FS_Subset
<1>2. f \in Injection(S, T)
  <2>1. \A d, e \in S : f[d] = f[e] => d = e
    BY IndexPairs
  <2> QED  BY <2>1 DEF Injection, IsInjective
<1> QED  BY <1>1, <1>2, FS_Injection

\* More pairs are not fewer.
LEMMA PairsCount ==
  ASSUME NEW S \in SUBSET Pairs, NEW T \in SUBSET Pairs, S \subseteq T
  PROVE  /\ Cardinality(S) \in Nat /\ Cardinality(T) \in Nat
         /\ Cardinality(S) <= Cardinality(T)
<1>1. IsFiniteSet(Pairs)
  BY CacheAssumption, FS_Product DEF Pairs
<1>2. IsFiniteSet(S) /\ IsFiniteSet(T)
  BY <1>1, FS_Subset
<1> QED  BY <1>2, FS_Subset, FS_CardinalityType

\* The entries under some keys are the entries with such a key.
LEMMA UnderKeys ==
  ASSUME NEW entries, IsIndex(items, entries), NEW keys
  PROVE  \A e : e \in Under(keys) <=> e \in entries /\ e.Key \in keys
<1>1. ASSUME NEW e \in Under(keys)
      PROVE  e \in entries /\ e.Key \in keys
  <2>1. PICK k \in keys \cap DOMAIN items : e \in {items[k][v] : v \in DOMAIN items[k]}
    BY DEF Under
  <2>2. PICK v \in DOMAIN items[k] : e = items[k][v]
    BY <2>1
  <2>3. e \in entries /\ Pair(e) = <<k, v>>
    BY <2>2 DEF IsIndex
  <2> QED  BY <2>1, <2>3 DEF Pair
<1>2. ASSUME NEW e \in entries, e.Key \in keys
      PROVE  e \in Under(keys)
  <2>1. e.Key \in keys \cap DOMAIN items /\ e \in {items[e.Key][v] : v \in DOMAIN items[e.Key]}
    BY <1>2 DEF IsIndex
  <2> QED  BY <2>1 DEF Under
<1> QED  BY <1>1, <1>2

-----------------------------------------------------------------------------
(* The invariant.                                                          *)

HistoryType ==
  /\ now \in 0..MaxTime
  /\ expires \in [Pairs -> Nat \cup {Never}]
  /\ since \in [Pairs -> SUBSET Pairs]

\* An entry expires with the last insertion of its pair.
LatestExpiration == \A e \in Entries : e.Expiration = expires[Pair(e)]

\* What stands in front of an entry was used since.
FrontUsedSince == \A e \in Entries : \A d \in front[e] : Pair(d) \in since[Pair(e)]

RecentIsCached ==
  \A p \in Pairs :
    expires[p] >= now /\ Cardinality(since[p]) < maxSize => \E e \in Entries : Pair(e) = p

CacheInv ==
  /\ IsIndex(items, Entries)
  /\ IsList(front)
  /\ Cardinality(Entries) <= maxSize
  /\ HistoryType
  /\ LatestExpiration
  /\ FrontUsedSince
  /\ RecentIsCached

\* The empty cache satisfies the invariant.
LEMMA CacheInitInv == CacheInit => CacheInv
<1> SUFFICES ASSUME CacheInit
             PROVE  CacheInv
  OBVIOUS
<1>1. Entries = {} /\ DOMAIN items = {}
  BY DEF CacheInit, Entries
<1>2. IsIndex(items, Entries) /\ IsList(front)
  BY <1>1 DEF IsIndex, IsList, Entries
<1>3. Cardinality(Entries) <= maxSize
  BY <1>1, FS_EmptySet, CacheAssumption
<1>4. HistoryType
  BY CacheAssumption DEF HistoryType, CacheInit
<1>5. LatestExpiration /\ FrontUsedSince
  BY <1>1 DEF LatestExpiration, FrontUsedSince
<1>6. RecentIsCached
  BY DEF RecentIsCached, CacheInit, Never
<1> QED  BY <1>2, <1>3, <1>4, <1>5, <1>6 DEF CacheInv

\* The invariant implies the properties of the runs.
LEMMA CacheInvImplies ==
  CacheInv => CacheTypeOK /\ IndexMatchesList /\ ReadsAreFresh /\ RecentlyUsedStays
<1> SUFFICES ASSUME CacheInv
             PROVE  CacheTypeOK /\ IndexMatchesList /\ ReadsAreFresh /\ RecentlyUsedStays
  OBVIOUS
<1>1. IsIndex(items, Entries) /\ IsList(front) /\ HistoryType
  BY DEF CacheInv
<1>2. Entries \subseteq CacheEntry
  BY <1>1 DEF IsIndex
<1>3. CacheTypeOK
  BY <1>1, <1>2, IndexPairs DEF CacheTypeOK, HistoryType, IsList, Entries
<1>4. IndexMatchesList
  BY <1>1 DEF CacheInv, IndexMatchesList, IsIndex, IsList, Entries
<1>5. \A p \in Pairs : p[2] \in Values({p[1]}) <=> \E e \in Entries : Pair(e) = p /\ ~Expired(e)
  <2> SUFFICES ASSUME NEW p \in Pairs
               PROVE  p[2] \in Values({p[1]}) <=> \E e \in Entries : Pair(e) = p /\ ~Expired(e)
    OBVIOUS
  <2>1. p[2] \in Values({p[1]})
          <=> \E e : e \in Entries /\ e.Key = p[1] /\ ~Expired(e) /\ e.Value = p[2]
    BY <1>1, UnderKeys DEF Values
  <2>2. p = <<p[1], p[2]>>
    BY DEF Pairs
  <2>3. \A e \in Entries : Pair(e) = p <=> e.Key = p[1] /\ e.Value = p[2]
    BY <1>2, <2>2, PairType
  <2> QED  BY <2>1, <2>3
<1>6. \A e \in Entries : Expired(e) <=> ~(expires[Pair(e)] >= now)
  <2> SUFFICES ASSUME NEW e \in Entries
               PROVE  Expired(e) <=> ~(expires[Pair(e)] >= now)
    OBVIOUS
  <2>1. e.Expiration = expires[Pair(e)]
    BY DEF CacheInv, LatestExpiration
  <2>2. e.Expiration \in Nat /\ now \in Nat
    BY <1>1, <1>2 DEF CacheEntry, HistoryType
  <2> QED  BY <2>1, <2>2 DEF Expired
<1>7. ReadsAreFresh
  BY <1>5, <1>6 DEF ReadsAreFresh
<1>8. RecentlyUsedStays
  BY <1>5, <1>6 DEF RecentlyUsedStays, CacheInv, RecentIsCached
<1> QED  BY <1>3, <1>4, <1>7, <1>8

-----------------------------------------------------------------------------
(* Steps.                                                                  *)

\* Insertion: the new entry stands in front, an earlier one of its pair is gone,
\* and what evict takes off the back had maxSize others used since.
LEMMA InsertInv ==
  ASSUME CacheInv, NEW key \in K, NEW value \in V, NEW ttl \in TTLs, Insert(key, value, ttl)
  PROVE  CacheInv'
<1> DEFINE p == <<key, value>>
           e == [Key |-> key, Value |-> value, Expiration |-> now + ttl]
           cached == key \in DOMAIN items /\ value \in DOMAIN items[key]
           old == IF cached THEN {items[key][value]} ELSE {}
           list == PushFront(Remove(front, old), e)
           index == Store(items, e)
           evicted == IF Cardinality(DOMAIN list) > maxSize THEN Back(list) ELSE {}
<1>1. /\ IsIndex(items, Entries) /\ IsList(front) /\ HistoryType
      /\ Cardinality(Entries) <= maxSize /\ maxSize \in Nat \ {0}
      /\ LatestExpiration /\ FrontUsedSince /\ RecentIsCached
  BY CacheAssumption DEF CacheInv
<1>2. /\ front' = Remove(list, evicted)
      /\ items' = Delete(index, {Pair(x) : x \in evicted})
      /\ expires' = [expires EXCEPT ![p] = now + ttl]
      /\ since' = [q \in Pairs |-> (IF q \in {p} THEN {} ELSE since[q]) \cup ({p} \ {q})]
      /\ now' = now
  BY DEF Insert, Use
<1>3. /\ p \in Pairs /\ now \in Nat /\ ttl \in Nat
      /\ e \in CacheEntry /\ Pair(e) = p /\ e.Expiration = now + ttl
  BY <1>1, CacheAssumption DEF HistoryType, CacheEntry, Pair, Pairs
<1>4. old = {d \in Entries : Pair(d) = p}
  <2>1. \A d \in Entries : Pair(d) = p => cached /\ items[key][value] = d
    BY <1>1 DEF IsIndex, Pair
  <2>2. cached => items[key][value] \in Entries /\ Pair(items[key][value]) = p
    BY <1>1 DEF IsIndex
  <2>3. \A d : d \in old <=> d \in Entries /\ Pair(d) = p
    BY <2>1, <2>2
  <2> QED  BY <2>3
<1> HIDE DEF old
<1>5. /\ IsList(Remove(front, old)) /\ DOMAIN Remove(front, old) = Entries \ old
      /\ \A d \in Entries \ old : Remove(front, old)[d] = front[d] \ old
  BY <1>1, RemoveFromList DEF Entries
<1>6. /\ IsList(list) /\ DOMAIN list = (Entries \ old) \cup {e}
      /\ list[e] = {}
      /\ \A d \in Entries \ old : list[d] = (front[d] \ old) \cup {e}
  <2> DEFINE rest == Remove(front, old)
  <2>1. e \notin DOMAIN rest
    BY <1>3, <1>4, <1>5
  <2>2. IsList(rest)
    BY <1>5
  <2>3. list = PushFront(rest, e)
    OBVIOUS
  <2>4. /\ DOMAIN rest = Entries \ old
        /\ \A d \in Entries \ old : rest[d] = front[d] \ old
    BY <1>5
  <2> HIDE DEF rest, list, e
  <2>5. /\ IsList(list) /\ DOMAIN list = DOMAIN rest \cup {e}
        /\ list[e] = {}
        /\ \A d \in DOMAIN rest : list[d] = rest[d] \cup {e}
    BY <2>1, <2>2, <2>3, PushFrontList
  <2> QED  BY <2>4, <2>5
<1>7. IsIndex(index, DOMAIN list)
  <2>1. {d \in Entries : Pair(d) # Pair(e)} \cup {e} = DOMAIN list
    BY <1>3, <1>4, <1>6
  <2> QED  BY <1>1, <1>3, <2>1, StoreInIndex
<1> HIDE DEF list, index, e
<1>8. IsFiniteSet(DOMAIN list) /\ Cardinality(DOMAIN list) \in Nat
  BY <1>7, IndexFinite, FS_CardinalityType
<1> HIDE DEF evicted
<1>9. Cardinality(DOMAIN list) <= maxSize + 1
  <2>1. IsFiniteSet(Entries) /\ Cardinality(Entries) \in Nat
    BY <1>1, IndexFinite, FS_CardinalityType
  <2>2. /\ IsFiniteSet(Entries \ old) /\ Cardinality(Entries \ old) <= Cardinality(Entries)
        /\ Cardinality(Entries \ old) \in Nat
    BY <2>1, FS_Subset, FS_CardinalityType
  <2>3. Cardinality(DOMAIN list) <= Cardinality(Entries \ old) + 1
    <3>1. DOMAIN list = (Entries \ old) \cup {e}
      BY <1>6
    <3>2. Cardinality((Entries \ old) \cup {e})
            = IF e \in Entries \ old THEN Cardinality(Entries \ old)
              ELSE Cardinality(Entries \ old) + 1
      BY <2>2, FS_AddElement
    <3> QED  BY <2>2, <3>1, <3>2
  <2> QED  BY <1>1, <1>8, <2>1, <2>2, <2>3
<1>10. \/ evicted = {} /\ Cardinality(DOMAIN list) <= maxSize
       \/ \E b \in DOMAIN list : /\ evicted = {b} /\ list[b] = DOMAIN list \ {b}
                                 /\ Cardinality(DOMAIN list) = maxSize + 1
  <2>1. CASE Cardinality(DOMAIN list) > maxSize
    <3>1. PICK b \in DOMAIN list : Back(list) = {b}
      BY <1>6, <1>8, BackOfList
    <3>2. list[b] = DOMAIN list \ {b}
      BY <3>1 DEF Back
    <3> QED  BY <2>1, <3>1, <3>2, <1>1, <1>8, <1>9 DEF evicted
  <2>2. CASE ~(Cardinality(DOMAIN list) > maxSize)
    BY <2>2, <1>1, <1>8 DEF evicted
  <2> QED  BY <2>1, <2>2
<1>11. evicted \in SUBSET DOMAIN list
  BY <1>10
<1>12. /\ IsList(front') /\ Entries' = DOMAIN list \ evicted
       /\ \A d \in Entries' : front'[d] = list[d] \ evicted
  <2> DEFINE rest == Remove(list, evicted)
  <2>1. /\ IsList(rest) /\ DOMAIN rest = DOMAIN list \ evicted
        /\ \A d \in DOMAIN list \ evicted : rest[d] = list[d] \ evicted
    <3>1. IsList(list)
      BY <1>6
    <3> QED  BY <3>1, RemoveFromList
  <2>2. front' = rest
    BY <1>2
  <2>3. Entries' = DOMAIN rest
    BY <2>2 DEF Entries
  <2> HIDE DEF rest
  <2> QED  BY <2>1, <2>2, <2>3
<1>13. IsIndex(items, Entries)'
  BY <1>2, <1>7, <1>11, <1>12, DeleteFromIndex
<1>14. (Cardinality(Entries) <= maxSize)'
  <2>1. CASE evicted = {} /\ Cardinality(DOMAIN list) <= maxSize
    <3>1. DOMAIN list \ {} = DOMAIN list
      OBVIOUS
    <3> QED  BY <2>1, <3>1, <1>12
  <2>2. CASE evicted # {} /\ Cardinality(DOMAIN list) = maxSize + 1
    <3>1. PICK b \in DOMAIN list : evicted = {b}
      BY <2>2, <1>10
    <3>2. Cardinality(DOMAIN list \ {b}) = Cardinality(DOMAIN list) - 1
      BY <1>8, FS_RemoveElement
    <3> QED  BY <2>2, <3>1, <3>2, <1>1, <1>12
  <2> QED  BY <2>1, <2>2, <1>10
<1>15. HistoryType'
  BY <1>1, <1>2, <1>3 DEF HistoryType
<1>16. \A d \in DOMAIN list : \/ d = e
                              \/ d \in Entries /\ Pair(d) # p /\ Pair(d) \in Pairs
  <2>1. \A d \in Entries : Pair(d) \in Pairs
    BY <1>1, PairType DEF IsIndex
  <2> QED  BY <1>4, <1>6, <2>1
<1>17. \A q \in Pairs : /\ p # q => since[q] \subseteq since'[q] /\ p \in since'[q]
                                    /\ expires'[q] = expires[q]
                        /\ since'[q] \subseteq Pairs
  BY <1>1, <1>2, <1>3 DEF HistoryType
<1>18. \A d \in DOMAIN list : d.Expiration = expires'[Pair(d)]
  <2>1. expires'[p] = now + ttl
    BY <1>1, <1>2, <1>3 DEF HistoryType
  <2> QED  BY <1>1, <1>3, <1>16, <1>17, <2>1 DEF LatestExpiration
<1>19. \A d \in DOMAIN list : \A c \in list[d] : Pair(c) \in since'[Pair(d)]
  <2> SUFFICES ASSUME NEW d \in DOMAIN list, NEW c \in list[d]
               PROVE  Pair(c) \in since'[Pair(d)]
    OBVIOUS
  <2>1. d # e /\ d \in Entries \ old /\ Pair(d) # p /\ Pair(d) \in Pairs
    BY <1>6, <1>16
  <2>2. CASE c = e
    BY <2>1, <2>2, <1>3, <1>17
  <2>3. CASE c \in front[d]
    BY <2>1, <2>3, <1>1, <1>17 DEF FrontUsedSince
  <2> QED  BY <2>1, <2>2, <2>3, <1>6
<1>20. LatestExpiration' /\ FrontUsedSince'
  BY <1>12, <1>18, <1>19 DEF LatestExpiration, FrontUsedSince
<1>21. RecentIsCached'
  <2> SUFFICES ASSUME NEW q \in Pairs, expires'[q] >= now, Cardinality(since'[q]) < maxSize
               PROVE  \E d \in Entries' : Pair(d) = q
    BY <1>2 DEF RecentIsCached
  <2>1. PICK d \in DOMAIN list : Pair(d) = q
    <3>1. CASE q = p
      BY <3>1, <1>3, <1>6
    <3>2. CASE q # p
      <4>1. /\ Cardinality(since[q]) \in Nat /\ Cardinality(since'[q]) \in Nat
            /\ Cardinality(since[q]) <= Cardinality(since'[q])
        BY <3>2, <1>1, <1>17, PairsCount DEF HistoryType
      <4>2. expires[q] >= now /\ Cardinality(since[q]) < maxSize
        BY <3>2, <4>1, <1>1, <1>17
      <4>3. PICK c \in Entries : Pair(c) = q
        BY <4>2, <1>1 DEF RecentIsCached
      <4> QED  BY <3>2, <4>3, <1>4, <1>6
    <3> QED  BY <3>1, <3>2
  <2>2. d \notin evicted
    <3> SUFFICES ASSUME d \in evicted
                 PROVE  FALSE
      OBVIOUS
    <3>1. list[d] = DOMAIN list \ {d} /\ Cardinality(DOMAIN list) = maxSize + 1
      BY <1>10
    <3>2. Cardinality(list[d]) = maxSize
      <4>1. Cardinality(DOMAIN list \ {d}) = Cardinality(DOMAIN list) - 1
        BY <1>8, FS_RemoveElement
      <4> QED  BY <3>1, <4>1, <1>1
    <3>3. Cardinality(list[d]) <= Cardinality(since'[q])
      <4>1. list[d] \in SUBSET DOMAIN list /\ since'[q] \in SUBSET Pairs
        BY <3>1, <1>17
      <4>2. \A c \in list[d] : Pair(c) \in since'[q]
        BY <2>1, <1>19
      <4> QED  BY <1>7, <4>1, <4>2, CountedByPairs
    <3>4. Cardinality(since'[q]) \in Nat
      BY <1>17, PairsCount
    <3> QED  BY <3>2, <3>3, <3>4, <1>1
  <2> QED  BY <2>1, <2>2, <1>12
<1> QED  BY <1>12, <1>13, <1>14, <1>15, <1>20, <1>21 DEF CacheInv

\* Expired entries leave index and list; moving others to the front is a use.
LEMMA ForgetInv ==
  ASSUME CacheInv, NEW keys, NEW gone, gone = {e \in Under(keys) : Expired(e)},
         NEW valid \in SUBSET (Entries \ gone),
         IsList(front'), Entries' = Entries \ gone,
         \A e \in valid : front'[e] \subseteq valid \ {e},
         \A e \in Entries' \ valid : front'[e] \subseteq front[e] \cup valid,
         items' = Delete(items, {Pair(e) : e \in gone}),
         Use({Pair(e) : e \in valid}),
         UNCHANGED <<now, expires>>
  PROVE  CacheInv'
<1> DEFINE pairs == {Pair(e) : e \in valid}
<1>1. /\ IsIndex(items, Entries) /\ HistoryType
      /\ Cardinality(Entries) <= maxSize /\ maxSize \in Nat \ {0}
      /\ LatestExpiration /\ FrontUsedSince /\ RecentIsCached
  BY CacheAssumption DEF CacheInv
<1>2. gone \in SUBSET Entries
  BY <1>1, UnderKeys
<1>3. IsIndex(items, Entries)'
  BY <1>1, <1>2, DeleteFromIndex
<1>4. (Cardinality(Entries) <= maxSize)'
  <2>1. IsFiniteSet(Entries) /\ Cardinality(Entries) \in Nat
    BY <1>1, IndexFinite, FS_CardinalityType
  <2>2. /\ Cardinality(Entries \ gone) <= Cardinality(Entries)
        /\ Cardinality(Entries \ gone) \in Nat
    BY <2>1, FS_Subset, FS_CardinalityType
  <2> QED  BY <1>1, <2>1, <2>2
<1>5. since' = [p \in Pairs |-> (IF p \in pairs THEN {} ELSE since[p]) \cup (pairs \ {p})]
  BY DEF Use
<1>6. \A e \in Entries : Pair(e) \in Pairs /\ (Pair(e) \in pairs <=> e \in valid)
  BY <1>1, IndexPairs, PairType DEF IsIndex
<1>7. pairs \subseteq Pairs
  BY <1>6
<1> HIDE DEF pairs
<1>8. HistoryType'
  BY <1>1, <1>5, <1>7 DEF HistoryType
<1>9. LatestExpiration'
  BY <1>1 DEF LatestExpiration
<1>10. FrontUsedSince'
  <2> SUFFICES ASSUME NEW e \in Entries', NEW d \in front'[e]
               PROVE  Pair(d) \in since'[Pair(e)]
    BY DEF FrontUsedSince
  <2>1. e \in Entries /\ Pair(e) \in Pairs
    BY <1>6
  <2>2. CASE d \in valid /\ d # e
    <3>1. Pair(d) \in pairs /\ Pair(d) # Pair(e)
      BY <2>1, <2>2, <1>1, <1>6, IndexPairs
    <3> QED  BY <2>1, <3>1, <1>5
  <2>3. CASE e \notin valid /\ d \in front[e]
    <3>1. Pair(d) \in since[Pair(e)] /\ Pair(e) \notin pairs
      BY <2>1, <2>3, <1>1, <1>6 DEF FrontUsedSince
    <3> QED  BY <2>1, <3>1, <1>5
  <2> QED  BY <2>2, <2>3
<1>11. RecentIsCached'
  <2> SUFFICES ASSUME NEW p \in Pairs, expires[p] >= now, Cardinality(since'[p]) < maxSize
               PROVE  \E e \in Entries' : Pair(e) = p
    BY DEF RecentIsCached
  <2>1. CASE p \in pairs
    BY <2>1 DEF pairs
  <2>2. CASE p \notin pairs
    <3>1. since[p] \subseteq since'[p] /\ since[p] \in SUBSET Pairs /\ since'[p] \in SUBSET Pairs
      BY <2>2, <1>1, <1>5, <1>7 DEF HistoryType
    <3>2. Cardinality(since[p]) < maxSize
      BY <3>1, <1>1, PairsCount
    <3>3. PICK e \in Entries : Pair(e) = p
      BY <3>2, <1>1 DEF RecentIsCached
    <3>4. e.Expiration = expires[p] /\ e.Expiration \in Nat /\ now \in Nat
      BY <3>3, <1>1 DEF LatestExpiration, IsIndex, CacheEntry, HistoryType
    <3>5. e \notin gone
      BY <3>4 DEF Expired
    <3> QED  BY <3>3, <3>5
  <2> QED  BY <2>1, <2>2
<1> QED  BY <1>3, <1>4, <1>8, <1>9, <1>10, <1>11 DEF CacheInv

\* A read of one key or of all keys that match.
LEMMA GetInv ==
  ASSUME CacheInv, NEW keys, Get(keys)
  PROVE  CacheInv'
<1> DEFINE gone == {e \in Under(keys) : Expired(e)}
           valid == Under(keys) \ gone
<1>1. IsIndex(items, Entries) /\ IsList(front)
  BY DEF CacheInv
<1>2. valid \in SUBSET (Entries \ gone)
  BY <1>1, UnderKeys
<1>3. PICK visit \in Visits(valid) : front' = MoveToFront(Remove(front, gone), visit)
  BY DEF Get
<1>4. /\ items' = Delete(items, {Pair(e) : e \in gone})
      /\ Use({Pair(e) : e \in valid})
      /\ UNCHANGED <<now, expires>>
  BY DEF Get
<1> HIDE DEF gone, valid
<1>5. /\ IsList(Remove(front, gone)) /\ DOMAIN Remove(front, gone) = Entries \ gone
      /\ \A e \in Entries \ gone : Remove(front, gone)[e] = front[e] \ gone
  BY <1>1, RemoveFromList DEF Entries
<1>6. /\ IsList(front') /\ Entries' = Entries \ gone
      /\ \A e \in valid : front'[e] \subseteq valid \ {e}
      /\ \A e \in Entries' \ valid : front'[e] \subseteq front[e] \cup valid
  <2>1. valid \subseteq DOMAIN Remove(front, gone)
    BY <1>2, <1>5
  <2>2. /\ IsList(front') /\ DOMAIN front' = DOMAIN Remove(front, gone)
        /\ \A e \in valid : front'[e] \subseteq valid \ {e}
        /\ \A e \in DOMAIN Remove(front, gone) \ valid :
             front'[e] = Remove(front, gone)[e] \cup valid
    BY <1>3, <1>5, <2>1, MoveToFrontList
  <2>3. Entries' = Entries \ gone
    BY <1>5, <2>2 DEF Entries
  <2> QED  BY <1>5, <2>2, <2>3
<1>7. gone = {e \in Under(keys) : Expired(e)}
  BY DEF gone
<1> QED  BY <1>2, <1>4, <1>6, <1>7, ForgetInv

\* The periodic cleanup.
LEMMA CleanupInv ==
  ASSUME CacheInv, cleanupExpired
  PROVE  CacheInv'
<1> DEFINE gone == {e \in Under(K) : Expired(e)}
<1>1. IsIndex(items, Entries) /\ IsList(front) /\ HistoryType
  BY DEF CacheInv
<1>2. /\ front' = Remove(front, gone)
      /\ items' = Delete(items, {Pair(e) : e \in gone})
      /\ UNCHANGED <<now, expires, since>>
  BY DEF cleanupExpired
<1>3. gone = {e \in Under(K) : Expired(e)}
  OBVIOUS
<1> HIDE DEF gone
<1>4. /\ IsList(front') /\ Entries' = Entries \ gone
      /\ \A e \in Entries' : front'[e] \subseteq front[e]
  <2> DEFINE rest == Remove(front, gone)
  <2>1. /\ IsList(rest) /\ DOMAIN rest = DOMAIN front \ gone
        /\ \A e \in DOMAIN front \ gone : rest[e] = front[e] \ gone
    BY <1>1, RemoveFromList
  <2>2. front' = rest
    BY <1>2
  <2>3. Entries' = DOMAIN rest
    BY <2>2 DEF Entries
  <2>4. Entries = DOMAIN front
    BY DEF Entries
  <2> HIDE DEF rest
  <2> QED  BY <2>1, <2>2, <2>3, <2>4
<1>5. Use({Pair(e) : e \in {}})
  <2>1. since' = [p \in Pairs |-> since[p]]
    BY <1>1, <1>2 DEF HistoryType
  <2> QED  BY <2>1 DEF Use
<1> DEFINE valid == {}
<1>6. /\ valid \in SUBSET (Entries \ gone)
      /\ \A e \in valid : front'[e] \subseteq valid \ {e}
      /\ \A e \in Entries' \ valid : front'[e] \subseteq front[e] \cup valid
      /\ Use({Pair(e) : e \in valid})
  BY <1>4, <1>5
<1> HIDE DEF valid
<1> QED  BY <1>2, <1>3, <1>4, <1>6, ForgetInv

\* The clock: what expires may be forgotten.
LEMMA TickInv ==
  ASSUME CacheInv, Tick
  PROVE  CacheInv'
<1>1. /\ now' = now + 1 /\ now < MaxTime
      /\ UNCHANGED <<items, front, expires, since>>
  BY DEF Tick
<1>2. /\ IsIndex(items, Entries) /\ IsList(front) /\ HistoryType
      /\ Cardinality(Entries) <= maxSize
      /\ LatestExpiration /\ FrontUsedSince /\ RecentIsCached
  BY DEF CacheInv
<1>3. HistoryType'
  BY <1>1, <1>2, CacheAssumption DEF HistoryType
<1>4. RecentIsCached'
  <2> SUFFICES ASSUME NEW p \in Pairs, expires[p] >= now + 1, Cardinality(since[p]) < maxSize
               PROVE  \E e \in Entries : Pair(e) = p
    BY <1>1 DEF RecentIsCached, Entries
  <2>1. expires[p] >= now
    BY <1>2 DEF HistoryType, Never
  <2> QED  BY <2>1, <1>2 DEF RecentIsCached
<1>5. (/\ IsIndex(items, Entries) /\ IsList(front)
       /\ Cardinality(Entries) <= maxSize
       /\ LatestExpiration /\ FrontUsedSince)'
  BY <1>1, <1>2 DEF Entries, LatestExpiration, FrontUsedSince
<1> QED  BY <1>3, <1>4, <1>5 DEF CacheInv

\* Every step preserves the invariant.
LEMMA CacheStep == CacheInv /\ [CacheNext]_cacheVars => CacheInv'
<1> SUFFICES ASSUME CacheInv, [CacheNext]_cacheVars
             PROVE  CacheInv'
  OBVIOUS
<1>1. CASE \E key \in K, value \in V, ttl \in TTLs : Insert(key, value, ttl)
  BY <1>1, InsertInv
<1>2. CASE \E keys \in Patterns : Get(keys)
  BY <1>2, GetInv
<1>3. CASE cleanupExpired
  BY <1>3, CleanupInv
<1>4. CASE Tick
  BY <1>4, TickInv
<1>5. CASE UNCHANGED cacheVars
  BY <1>5 DEF CacheInv, cacheVars, Entries, HistoryType, LatestExpiration, FrontUsedSince,
              RecentIsCached
<1> QED  BY <1>1, <1>2, <1>3, <1>4, <1>5 DEF CacheNext

-----------------------------------------------------------------------------
(* Theorems.                                                               *)

\* The invariant holds always.
LEMMA CacheInvAlways == CacheSpec => []CacheInv
BY CacheInitInv, CacheStep, PTL DEF CacheSpec

\* Index and list always agree, and the cache never exceeds its limit, whatever
\* is inserted, read, evicted or cleaned up.
THEOREM IndexAlwaysMatchesList == CacheSpec => []IndexMatchesList
BY CacheInvAlways, CacheInvImplies, PTL

\* The cache's state keeps its types.
THEOREM CacheTypeCorrect == CacheSpec => []CacheTypeOK
BY CacheInvAlways, CacheInvImplies, PTL

\* No read ever returns a value whose last insertion has expired.
THEOREM ReadsAlwaysFresh == CacheSpec => []ReadsAreFresh
BY CacheInvAlways, CacheInvImplies, PTL

\* A value that has not expired is evicted only when maxSize other values were
\* used since its last use or together with it.
THEOREM EvictsLeastRecentlyUsed == CacheSpec => []RecentlyUsedStays
BY CacheInvAlways, CacheInvImplies, PTL

-----------------------------------------------------------------------------
(* To its users the cache is one of names.                                 *)

\* A read of a name returns the values of its entries that have not expired.
ValuesAreEntries ==
  \A k, v : v \in Values({k}) <=> \E e \in Entries : e.Key = k /\ e.Value = v /\ ~Expired(e)

\* What a read of each name returns.
Answers == [k \in K |-> Values({k})]

LEMMA ReadsReturnEntries ==
  CacheInv => ValuesAreEntries /\ Answers \in Names!CacheOfNames
<1> SUFFICES ASSUME CacheInv
             PROVE  ValuesAreEntries /\ Answers \in Names!CacheOfNames
  OBVIOUS
<1>1. IsIndex(items, Entries)
  BY DEF CacheInv
<1>2. ValuesAreEntries
  BY <1>1, UnderKeys DEF Values, ValuesAreEntries
<1>3. ASSUME NEW k \in K, NEW v \in Values({k})
      PROVE  v \in V
  <2>1. PICK e \in Entries : e.Value = v
    BY <1>2, <1>3 DEF ValuesAreEntries
  <2>2. e \in CacheEntry
    BY <1>1 DEF IsIndex
  <2> QED  BY <2>1, <2>2 DEF CacheEntry
<1> QED  BY <1>2, <1>3 DEF Answers, Names!CacheOfNames

\* The same after a step.
LEMMA ReadsReturnEntriesNext ==
  CacheInv' => ValuesAreEntries' /\ Answers' \in Names!CacheOfNames
<1>1. (CacheInv => ValuesAreEntries /\ Answers \in Names!CacheOfNames)'
  BY ReadsReturnEntries, PTL
<1> QED  BY <1>1

\* Without insertions a read returns no more than before.
LEMMA ForgetImplements ==
  ASSUME CacheInv, CacheInv', Entries' \subseteq Entries, now' >= now
  PROVE  Names!Forget
<1>1. ASSUME NEW k \in K
      PROVE  Values({k})' \subseteq Values({k})
  <2> SUFFICES ASSUME NEW v \in Values({k})'
               PROVE  v \in Values({k})
    OBVIOUS
  <2>1. PICK e \in Entries' : e.Key = k /\ e.Value = v /\ ~Expired(e)'
    BY ReadsReturnEntriesNext DEF ValuesAreEntries
  <2>2. e.Expiration \in Nat /\ now \in Nat /\ now' \in Nat
    BY <2>1 DEF CacheInv, IsIndex, CacheEntry, HistoryType
  <2>3. ~Expired(e)
    BY <2>1, <2>2 DEF Expired
  <2> QED  BY <2>1, <2>3, ReadsReturnEntries DEF ValuesAreEntries
<1> QED  BY <1>1, ReadsReturnEntriesNext DEF Names!Forget, Answers

\* An insertion adds its address to its name, and may evict others.
LEMMA InsertImplements ==
  ASSUME CacheInv, CacheInv', NEW key \in K, NEW value \in V, NEW ttl \in TTLs,
         Insert(key, value, ttl)
  PROVE  Names!Learn(key, {value})
<1> DEFINE p == <<key, value>>
           e == [Key |-> key, Value |-> value, Expiration |-> now + ttl]
           old == IF key \in DOMAIN items /\ value \in DOMAIN items[key] THEN {items[key][value]} ELSE {}
           list == PushFront(Remove(front, old), e)
           evicted == IF Cardinality(DOMAIN list) > maxSize THEN Back(list) ELSE {}
<1>1. /\ front' = Remove(list, evicted) /\ now' = now
      /\ expires' = [expires EXCEPT ![p] = now + ttl]
      /\ since' = [q \in Pairs |-> (IF q \in {p} THEN {} ELSE since[q]) \cup ({p} \ {q})]
  BY DEF Insert, Use
<1>2. p \in Pairs /\ now \in Nat /\ ttl \in Nat /\ expires \in [Pairs -> Nat \cup {Never}]
  BY CacheAssumption DEF CacheInv, HistoryType, Pairs
<1>3. Entries' \subseteq Entries \cup {e}
  BY <1>1 DEF Entries, Remove, PushFront
<1> HIDE DEF p
<1>4. ASSUME NEW k \in K
      PROVE  Values({k})' \subseteq Values({k}) \cup (IF k = key THEN {value} ELSE {})
  <2> SUFFICES ASSUME NEW v \in Values({k})'
               PROVE  v \in Values({k}) \/ (k = key /\ v = value)
    OBVIOUS
  <2>1. PICK d \in Entries' : d.Key = k /\ d.Value = v /\ ~Expired(d)'
    BY ReadsReturnEntriesNext DEF ValuesAreEntries
  <2>2. CASE d = e
    BY <2>1, <2>2
  <2>3. CASE d # e
    BY <1>1, <1>3, <2>1, <2>3, ReadsReturnEntries DEF ValuesAreEntries, Expired
  <2> QED  BY <2>2, <2>3
<1>5. value \in Values({key})'
  <2>1. expires'[p] = now + ttl /\ expires'[p] >= now' /\ since'[p] = {}
    BY <1>1, <1>2
  <2>2. PICK d \in Entries' : Pair(d) = p
    <3>1. Cardinality(since'[p]) < maxSize
      BY <2>1, FS_EmptySet, CacheAssumption
    <3>2. RecentIsCached'
      BY DEF CacheInv
    <3> QED  BY <1>2, <2>1, <3>1, <3>2 DEF RecentIsCached
  <2>3. d.Expiration = expires'[p] /\ d.Key = key /\ d.Value = value
    BY <2>2 DEF CacheInv, LatestExpiration, Pair, p
  <2>4. ~Expired(d)'
    BY <1>1, <1>2, <2>1, <2>3 DEF Expired
  <2> QED  BY <2>2, <2>3, <2>4, ReadsReturnEntriesNext DEF ValuesAreEntries
<1> QED  BY <1>4, <1>5, ReadsReturnEntriesNext DEF Names!Learn, Answers

LEMMA NamesInitially == CacheInit => Names!NamesInit
<1> SUFFICES ASSUME CacheInit
             PROVE  \A k \in K : Values({k}) = {}
  BY DEF Names!NamesInit, Names!Empty
<1>1. CacheInv /\ Entries = {}
  BY CacheInitInv DEF CacheInit, Entries
<1> QED  BY <1>1, ReadsReturnEntries DEF ValuesAreEntries

LEMMA NamesStep ==
  CacheInv /\ CacheInv' /\ [CacheNext]_cacheVars
    => [Names!NamesNext]_([k \in K |-> Values({k})])
<1> SUFFICES ASSUME CacheInv, CacheInv', CacheNext \/ UNCHANGED cacheVars
             PROVE  Names!NamesNext
                    \/ [k \in K |-> Values({k})]' = [k \in K |-> Values({k})]
  OBVIOUS
<1>1. ASSUME NEW key \in K, NEW value \in V, NEW ttl \in TTLs, Insert(key, value, ttl)
      PROVE  Names!NamesNext
  BY <1>1, InsertImplements DEF Names!NamesNext
<1>2. now \in Nat
  BY DEF CacheInv, HistoryType
<1>3. ASSUME NEW keys, Get(keys)
      PROVE  Names!NamesNext
  <2>1. Entries' \subseteq Entries /\ now' = now
    BY <1>3 DEF Get, Entries, MoveToFront, Remove
  <2> QED  BY <1>2, <2>1, ForgetImplements DEF Names!NamesNext
<1>4. CASE cleanupExpired
  <2>1. Entries' \subseteq Entries /\ now' = now
    BY <1>4 DEF cleanupExpired, Entries, Remove
  <2> QED  BY <1>2, <2>1, ForgetImplements DEF Names!NamesNext
<1>5. CASE Tick
  <2>1. Entries' \subseteq Entries /\ now' >= now
    BY <1>2, <1>5 DEF Tick, Entries
  <2> QED  BY <2>1, ForgetImplements DEF Names!NamesNext
<1>6. CASE UNCHANGED cacheVars
  BY <1>6 DEF cacheVars, Values, Under, Expired
<1> QED  BY <1>1, <1>3, <1>4, <1>5, <1>6 DEF CacheNext

\* The cache implements the one of names that its users rely on: insertion, eviction,
\* reads, cleanup and time make a read return fewer addresses, or the one inserted for
\* that name, and what was just inserted is returned, for every capacity and all times
\* to live.
THEOREM CacheImplementsNames == CacheSpec => ImplementsDNSCache
<1>1. CacheInv /\ CacheInv' /\ [CacheNext]_cacheVars
        => [Names!NamesNext]_([k \in K |-> Values({k})])
  BY NamesStep
<1> QED  BY <1>1, NamesInitially, CacheInvAlways, PTL
         DEF CacheSpec, ImplementsDNSCache, Names!NamesSpec
=============================================================================
