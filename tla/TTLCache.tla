------------------------------- MODULE TTLCache -------------------------------
(***************************************************************************)
(* TTLCache of package ttl_cache, with DNSCache on top of it: a cache of   *)
(* the values of a key (the addresses of a DNS name), each with a time to  *)
(* live of its own, at most maxSize values in all.  Every operation, and   *)
(* the periodic cleanup, runs under the cache's lock and is one step.      *)
(*                                                                         *)
(* The LRU list is kept as the entries in front of each entry: front[e].   *)
(* An entry stands for its list element: the code makes a new element for  *)
(* every insertion, and no two in the list have the same key and value.    *)
(***************************************************************************)
EXTENDS Integers, FiniteSets

CONSTANTS
  K, V,        \* keys and values: DNS names and addresses
  maxSize,     \* config.DNSCacheItemsMaxCapacityKey
  TTLs,        \* times to live
  Patterns,    \* the sets of keys that a Get (one key) or a Filter selects
  MaxTime      \* bound on the clock

\* NewDNSCache panics with a capacity of 0.
ASSUME CacheAssumption ==
  /\ IsFiniteSet(K) /\ IsFiniteSet(V)
  /\ maxSize \in Nat \ {0}
  /\ TTLs \subseteq Nat
  /\ Patterns \subseteq SUBSET K
  /\ MaxTime \in Nat

VARIABLES
  items,     \* items[key][value]: the entry of a value
  front,     \* the LRU list: what stands in front of each entry in it
  now,       \* the clock
  expires,   \* history: when the last insertion of a key and value expires
  since      \* history: what was used since, or together with, the last use

cacheVars == <<items, front, now, expires, since>>

CacheEntry == [Key: K, Value: V, Expiration: Nat]
Pairs == K \X V
Pair(e) == <<e.Key, e.Value>>

\* A pair that was never inserted.
Never == -1

-----------------------------------------------------------------------------
(* container/list.                                                         *)

Entries == DOMAIN front

\* A mutant: the entries behind a removed one still point to it.
RemoveDangling(list, gone) == [e \in DOMAIN list \ gone |-> list[e]]

Remove(list, gone) == [e \in DOMAIN list \ gone |-> list[e] \ gone]

PushFront(list, e) ==
  [x \in DOMAIN list \cup {e} |-> IF x = e THEN {} ELSE list[x] \cup {e}]

Back(list) == {e \in DOMAIN list : list[e] = DOMAIN list \ {e}}

\* The order in which a loop over Go maps can visit entries: the values of one
\* key in a row.
Visits(entries) ==
  {rank \in [entries -> 1..Cardinality(entries)] :
     /\ \A d, e \in entries : rank[d] = rank[e] => d = e
     /\ \A c, d, e \in entries :
          c.Key = e.Key /\ rank[c] < rank[d] /\ rank[d] < rank[e] => d.Key = c.Key}

\* A mutant: a read does not count as a use.
MoveToFrontNot(list, visit) == list

\* MoveToFront of some entries, one after the other.
MoveToFront(list, visit) ==
  [e \in DOMAIN list |->
     IF e \in DOMAIN visit
     THEN {d \in DOMAIN visit : visit[d] > visit[e]}
     ELSE list[e] \cup DOMAIN visit]

-----------------------------------------------------------------------------
(* The index.                                                              *)

\* A mutant: a key is kept when it has no values left.
DeleteKeepingKey(index, pairs) ==
  [k \in DOMAIN index |->
     [v \in {x \in DOMAIN index[k] : <<k, x>> \notin pairs} |-> index[k][v]]]

\* delete(items[key], value), and items[key] itself when no value is left.
Delete(index, pairs) ==
  LET left(k) == {v \in DOMAIN index[k] : <<k, v>> \notin pairs}
  IN  [k \in {x \in DOMAIN index : left(x) # {}} |-> [v \in left(k) |-> index[k][v]]]

\* items[key][value] = e, making items[key] first if it does not exist.
Store(index, e) ==
  LET values(k) == IF k \in DOMAIN index THEN DOMAIN index[k] ELSE {}
  IN  [k \in DOMAIN index \cup {e.Key} |->
         [v \in values(k) \cup (IF k = e.Key THEN {e.Value} ELSE {}) |->
            IF <<k, v>> = Pair(e) THEN e ELSE index[k][v]]]

\* The entries indexed under some keys.
Under(keys) ==
  UNION {{items[k][v] : v \in DOMAIN items[k]} : k \in keys \cap DOMAIN items}

\* A mutant: the values of a key expire together.
ExpiredWithKey(e) == \A v \in DOMAIN items[e.Key] : now > items[e.Key][v].Expiration

\* time.Now().After(Expiration)
Expired(e) == now > e.Expiration

-----------------------------------------------------------------------------
CacheInit ==
  /\ items = [k \in {} |-> {}]
  /\ front = [e \in {} |-> {}]
  /\ now = 0
  /\ expires = [p \in Pairs |-> Never]
  /\ since = [p \in Pairs |-> {}]

\* History: some pairs are used together.
Use(pairs) ==
  since' = [p \in Pairs |-> (IF p \in pairs THEN {} ELSE since[p]) \cup (pairs \ {p})]

\* A mutant: a value that is there already keeps its expiration.
InsertKeepingExpiration(key, value, ttl) ==
  LET cached == key \in DOMAIN items /\ value \in DOMAIN items[key]
      e == IF cached THEN items[key][value]
           ELSE [Key |-> key, Value |-> value, Expiration |-> now + ttl]
      list == PushFront(Remove(front, {e}), e)
      index == Store(items, e)
      evicted == IF Cardinality(DOMAIN list) > maxSize THEN Back(list) ELSE {}
  IN  /\ front' = Remove(list, evicted)
      /\ items' = Delete(index, {Pair(x) : x \in evicted})
      /\ expires' = [expires EXCEPT ![<<key, value>>] = now + ttl]
      /\ Use({<<key, value>>})
      /\ UNCHANGED now

\* AddOrUpdateDNSData.  The element of an earlier insertion leaves the list, a
\* new one enters it in front, and evict takes the back off a list too long.
Insert(key, value, ttl) ==
  LET cached == key \in DOMAIN items /\ value \in DOMAIN items[key]
      e == [Key |-> key, Value |-> value, Expiration |-> now + ttl]
      list == PushFront(Remove(front, IF cached THEN {items[key][value]} ELSE {}), e)
      index == Store(items, e)
      evicted == IF Cardinality(DOMAIN list) > maxSize THEN Back(list) ELSE {}
  IN  /\ front' = Remove(list, evicted)
      /\ items' = Delete(index, {Pair(x) : x \in evicted})
      /\ expires' = [expires EXCEPT ![<<key, value>>] = now + ttl]
      /\ Use({<<key, value>>})
      /\ UNCHANGED now

\* What GetResolvedIPs and GetResolvedIPsForWildcard return.
Values(keys) == {e.Value : e \in {x \in Under(keys) : ~Expired(x)}}

\* getUnsafe of some keys: expired values are dropped, the others move to the
\* front.
Get(keys) ==
  LET gone == {e \in Under(keys) : Expired(e)}
      valid == Under(keys) \ gone
  IN  /\ \E visit \in Visits(valid) : front' = MoveToFront(Remove(front, gone), visit)
      /\ items' = Delete(items, {Pair(e) : e \in gone})
      /\ Use({Pair(e) : e \in valid})
      /\ UNCHANGED <<now, expires>>

\* startCleanup, once a minute.
cleanupExpired ==
  LET gone == {e \in Under(K) : Expired(e)}
  IN  /\ gone # {}
      /\ front' = Remove(front, gone)
      /\ items' = Delete(items, {Pair(e) : e \in gone})
      /\ UNCHANGED <<now, expires, since>>

Tick ==
  /\ now < MaxTime
  /\ now' = now + 1
  /\ UNCHANGED <<items, front, expires, since>>

CacheNext ==
  \/ \E key \in K, value \in V, ttl \in TTLs : Insert(key, value, ttl)
  \/ \E keys \in Patterns : Get(keys)
  \/ cleanupExpired
  \/ Tick

CacheSpec == CacheInit /\ [][CacheNext]_cacheVars

-----------------------------------------------------------------------------
(* Properties.                                                             *)

\* Index, list and history have their types, and what stands in front of an
\* entry is in the list.
CacheTypeOK ==
  /\ DOMAIN items \subseteq K
  /\ \A k \in DOMAIN items : DOMAIN items[k] \subseteq V
  /\ Entries \subseteq CacheEntry
  /\ \A e \in Entries : front[e] \subseteq Entries \ {e}
  /\ now \in 0..MaxTime
  /\ expires \in [Pairs -> Nat \cup {Never}]
  /\ since \in [Pairs -> SUBSET Pairs]

\* Index and list hold the same entries after any sequence of insertions,
\* evictions, reads and cleanups, each under its own key and value and each
\* key and value once; no key is left without values, the list is in one order,
\* and it is never longer than maxSize.
IndexMatchesList ==
  /\ \A k \in DOMAIN items :
       /\ DOMAIN items[k] # {}
       /\ \A v \in DOMAIN items[k] : items[k][v] \in Entries /\ Pair(items[k][v]) = <<k, v>>
  /\ \A e \in Entries :
       e.Key \in DOMAIN items /\ e.Value \in DOMAIN items[e.Key] /\ items[e.Key][e.Value] = e
  /\ \A d, e \in Entries : d # e => (d \in front[e] <=> e \notin front[d])
  /\ Cardinality(Entries) <= maxSize

\* A read returns no value beyond the time to live of its last insertion,
\* whether that was longer or shorter than that of an earlier one.
ReadsAreFresh ==
  \A p \in Pairs : p[2] \in Values({p[1]}) => expires[p] >= now

\* A value is forgotten early only for maxSize others: one that has not
\* expired is returned by a read, unless maxSize other values were used since
\* its last use or together with it.  Expired values that are still in the
\* cache count as others.
RecentlyUsedStays ==
  \A p \in Pairs :
    expires[p] >= now /\ Cardinality(since[p]) < maxSize => p[2] \in Values({p[1]})

\* To its users the cache is one of names: insertion, eviction, reads, cleanup and
\* time make a read return fewer addresses, or the one inserted for that name,
\* never another one or an expired one again.
Names == INSTANCE DNSCache WITH known <- [k \in K |-> Values({k})]
ImplementsDNSCache == Names!NamesSpec

=============================================================================
