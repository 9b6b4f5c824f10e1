-------------------------- MODULE DNSPublisher_proofs --------------------------
(* Theorems about DNSPublisher for every set of names, addresses and ClientIntents. *)
EXTENDS DNSPublisher, TLAPS

-----------------------------------------------------------------------------
(* The inductive invariant.                                                *)

\* What was ever learned for a name, or for the names a wildcard matches.
LearnedFor(name) == IF name \in K THEN learned[name] ELSE UNION {learned[n] : n \in Matches[name]}

OnlyLearned(resolvedIPs) ==
  \A name \in DOMAIN resolvedIPs : resolvedIPs[name] \subseteq LearnedFor(name)

\* The maps of resolved addresses: at the API server, in the informer's copy, in what
\* List returned and in the publisher's hands.
Held ==
  {api[c].resolvedIPs : c \in ClientIntents} \cup {informer[c].resolvedIPs : c \in ClientIntents}
    \cup {items[c].resolvedIPs : c \in DOMAIN items} \cup {p.resolvedIPs : p \in current}

\* Wherever the publisher finds addresses, they were learned.
PubInv ==
  /\ PubTypeOK
  /\ \A name \in K : known[name] \subseteq learned[name]
  /\ \A ips \in Held : OnlyLearned(ips)

-----------------------------------------------------------------------------
(* Maps of resolved addresses.                                             *)

LEMMA ResolvedIPsDef ==
  ASSUME NEW ips
  PROVE  ips \in ResolvedIPs <=> DOMAIN ips \subseteq Names /\ ips \in [DOMAIN ips -> SUBSET V]
BY DEF ResolvedIPs

LEMMA NoneResolvedOK == NoneResolved \in ResolvedIPs /\ DOMAIN NoneResolved = {}
<1>1. DOMAIN NoneResolved = {} /\ NoneResolved \in [{} -> SUBSET V]
  BY DEF NoneResolved
<1> QED  BY <1>1, ResolvedIPsDef

\* What the cache answers for a name was learned for it.
LEMMA AnswersLearned ==
  ASSUME PubInv, NEW name \in Names
  PROVE  GetResolvedIPs(name) \subseteq LearnedFor(name) /\ GetResolvedIPs(name) \subseteq V
<1> USE PublisherAssumption
<1>1. \A n \in K : known[n] \subseteq V /\ known[n] \subseteq learned[n]
  BY DEF PubInv, PubTypeOK, CacheOfNames
<1>2. CASE name \in Wildcards
  <2>1. name \notin K /\ Matches[name] \subseteq K
    BY <1>2
  <2> QED  BY <1>1, <1>2, <2>1 DEF GetResolvedIPs, LearnedFor
<1>3. CASE name \notin Wildcards
  BY <1>1, <1>3 DEF GetResolvedIPs, LearnedFor, Names
<1> QED  BY <1>2, <1>3

\* Appending what was learned leaves only what was learned.
LEMMA AppendLearned ==
  ASSUME NEW p \in Current, OnlyLearned(p.resolvedIPs), NEW name \in Names,
         NEW addresses \in SUBSET V, addresses \subseteq LearnedFor(name)
  PROVE  LET q == append(p, name, addresses)
         IN  q \in Current /\ OnlyLearned(q.resolvedIPs) /\ q.left = p.left /\ q.domains = p.domains
<1>1. CASE addresses \subseteq Of(p.resolvedIPs, name)
  BY <1>1 DEF append
<1>2. CASE ~(addresses \subseteq Of(p.resolvedIPs, name))
  <2> DEFINE ips == p.resolvedIPs
             r == [n \in DOMAIN ips \cup {name} |-> IF n = name THEN Of(ips, n) \cup addresses ELSE ips[n]]
  <2>1. DOMAIN ips \subseteq Names /\ ips \in [DOMAIN ips -> SUBSET V]
    BY ResolvedIPsDef DEF Current
  <2>2. r \in ResolvedIPs /\ OnlyLearned(r)
    <3>1. DOMAIN r = DOMAIN ips \cup {name}
      OBVIOUS
    <3>2. \A n \in DOMAIN r : r[n] \subseteq V /\ r[n] \subseteq LearnedFor(n)
      BY <2>1 DEF Of, OnlyLearned
    <3> HIDE DEF ips
    <3>3. r \in [DOMAIN r -> SUBSET V]
      BY <3>2
    <3> QED  BY <2>1, <3>1, <3>2, <3>3, ResolvedIPsDef DEF OnlyLearned
  <2>3. append(p, name, addresses) = [p EXCEPT !.shouldUpdate = TRUE, !.resolvedIPs = r]
    BY <1>2 DEF append
  <2> HIDE DEF r
  <2>4. LET q == [p EXCEPT !.shouldUpdate = TRUE, !.resolvedIPs = r]
        IN  q \in Current /\ q.resolvedIPs = r /\ q.left = p.left /\ q.domains = p.domains
    BY <2>2 DEF Current
  <2> QED  BY <2>2, <2>3, <2>4
<1> QED  BY <1>1, <1>2

\* So does dropping names.
LEMMA ComparedLearned ==
  ASSUME NEW p \in Current, OnlyLearned(p.resolvedIPs)
  PROVE  compared(p).resolvedIPs \in ResolvedIPs /\ OnlyLearned(compared(p).resolvedIPs)
<1> DEFINE ips == p.resolvedIPs
           kept == DOMAIN ips \cap p.domains
           r == [n \in kept |-> ips[n]]
<1>1. DOMAIN ips \subseteq Names /\ ips \in [DOMAIN ips -> SUBSET V]
  BY ResolvedIPsDef DEF Current
<1>2. compared(p).resolvedIPs = r
  BY DEF compared, Current
<1>3. r \in ResolvedIPs
  <2>1. r \in [kept -> SUBSET V] /\ DOMAIN r = kept
    BY <1>1
  <2> QED  BY <1>1, <2>1, ResolvedIPsDef
<1>4. OnlyLearned(r)
  BY DEF OnlyLearned
<1> QED  BY <1>2, <1>3, <1>4

-----------------------------------------------------------------------------
(* The invariant holds.                                                    *)

\* What was learned stays learned.
LEMMA LearnedForGrows ==
  ASSUME PubTypeOK, \A n \in K : learned[n] \subseteq learned'[n], NEW name \in Names
  PROVE  LearnedFor(name) \subseteq LearnedFor(name)'
<1> USE PublisherAssumption
<1>1. name \in Wildcards => Matches[name] \subseteq K
  OBVIOUS
<1> QED  BY <1>1 DEF LearnedFor, Names

LEMMA OnlyLearnedGrows ==
  ASSUME PubTypeOK, \A n \in K : learned[n] \subseteq learned'[n],
         NEW ips \in ResolvedIPs, OnlyLearned(ips)
  PROVE  OnlyLearned(ips)'
BY LearnedForGrows, ResolvedIPsDef DEF OnlyLearned

LEMMA HeldTyped == PubTypeOK => Held \subseteq ResolvedIPs
BY DEF PubTypeOK, Held, Object, Current

\* A step keeps the invariant if it keeps the types, and what it adds was learned.
LEMMA HeldStep ==
  ASSUME PubInv, PubTypeOK',
         \A n \in K : learned[n] \subseteq learned'[n] /\ known'[n] \subseteq learned'[n],
         \A ips \in Held' : ips \in Held \/ OnlyLearned(ips)'
  PROVE  PubInv'
<1>1. ASSUME NEW ips \in Held' PROVE OnlyLearned(ips)'
  BY HeldTyped, OnlyLearnedGrows DEF PubInv
<1> QED  BY <1>1 DEF PubInv

LEMMA PubInitInv == PubInit => PubInv
<1> SUFFICES ASSUME PubInit PROVE PubInv
  OBVIOUS
<1> USE PublisherAssumption
<1>1. Empty \in CacheOfNames /\ \A n \in K : Empty[n] = {}
  BY DEF Empty, CacheOfNames
<1>2. PubTypeOK
  BY <1>1 DEF PubInit, NamesInit, PubTypeOK, NoItems, Idle
<1>3. \A name \in K : known[name] \subseteq learned[name]
  BY <1>1 DEF PubInit, NamesInit
<1>4. Held \subseteq {NoneResolved}
  BY DEF PubInit, Held, NoItems, Idle
<1>5. OnlyLearned(NoneResolved)
  BY NoneResolvedOK DEF OnlyLearned
<1> QED  BY <1>2, <1>3, <1>4, <1>5 DEF PubInv

\* The publisher's own steps.
LEMMA TickStep == ASSUME PubInv, Tick PROVE PubInv'
<1> USE PublisherAssumption
<1>1. PubTypeOK /\ \A n \in K : known[n] \subseteq learned[n]
  BY DEF PubInv
<1>2. CASE PublishDNSIntents
  <2>1. UNCHANGED <<known, api, informer, current, learned, restarts>>
    BY <1>2 DEF PublishDNSIntents
  <2>2. /\ DOMAIN items' \subseteq ClientIntents
        /\ \A c \in DOMAIN items' : items'[c] = informer[c]
    BY <1>2 DEF PublishDNSIntents
  <2>3. PubTypeOK'
    BY <1>1, <2>1, <2>2 DEF PubTypeOK
  <2>4. Held' \subseteq Held
    BY <2>1, <2>2 DEF Held
  <2> QED  BY <1>1, <2>1, <2>3, <2>4, HeldStep
<1>3. ASSUME NEW c \in ClientIntents, Take(c) PROVE PubInv'
  <2>1. UNCHANGED <<known, api, informer, learned, restarts>>
    BY <1>3 DEF Take
  <2>2. /\ DOMAIN items' \subseteq DOMAIN items
        /\ \A d \in DOMAIN items' : items'[d] = items[d]
    BY <1>3 DEF Take
  <2> DEFINE p == [name |-> c, domains |-> items[c].spec.domains,
                   left |-> items[c].spec.domains, resolvedIPs |-> items[c].resolvedIPs,
                   shouldUpdate |-> FALSE, lookup |-> {}]
  <2>3. current' = {p} /\ c \in DOMAIN items /\ items[c] \in Object
    BY <1>1, <1>3 DEF Take, PubTypeOK
  <2>4. p \in Current /\ p.left \subseteq p.domains /\ p.resolvedIPs = items[c].resolvedIPs
    BY <2>3 DEF Object, IntentsSpec, Current
  <2> HIDE DEF p
  <2>5. PubTypeOK'
    BY <1>1, <2>1, <2>2, <2>3, <2>4 DEF PubTypeOK
  <2>6. Held' \subseteq Held
    BY <2>1, <2>2, <2>3, <2>4 DEF Held
  <2> QED  BY <1>1, <2>1, <2>5, <2>6, HeldStep
<1>4. ASSUME NEW name \in Names, appendResolvedIps(name) PROVE PubInv'
  <2>1. UNCHANGED <<known, api, informer, items, learned, restarts>>
    BY <1>4 DEF appendResolvedIps
  <2>2. PICK p \in current :
          \/ current' = {[p EXCEPT !.left = @ \ {name}, !.lookup = {name}]} /\ name \in K
          \/ current' = {append([p EXCEPT !.left = @ \ {name}], name, GetResolvedIPs(name))}
    <3>1. PICK p \in current :
            LET rest == [p EXCEPT !.left = @ \ {name}]
            IN  \/ current' = {[rest EXCEPT !.lookup = {name}]} /\ name \notin Wildcards
                \/ current' = {append(rest, name, GetResolvedIPs(name))}
      BY <1>4 DEF appendResolvedIps
    <3>2. p \in Current
      BY <1>1 DEF PubTypeOK
    <3> QED  BY <3>1, <3>2 DEF Current, Names
  <2>3. p \in Current /\ p.left \subseteq p.domains /\ OnlyLearned(p.resolvedIPs)
    BY <1>1 DEF PubTypeOK, PubInv, Held
  <2> DEFINE rest == [p EXCEPT !.left = @ \ {name}]
  <2>4. rest \in Current /\ rest.left \subseteq rest.domains /\ rest.resolvedIPs = p.resolvedIPs
    BY <2>3 DEF Current
  <2>5. PICK q : /\ current' = {q} /\ q \in Current /\ q.left \subseteq q.domains
                 /\ OnlyLearned(q.resolvedIPs)
    <3>1. CASE current' = {[p EXCEPT !.left = @ \ {name}, !.lookup = {name}]} /\ name \in K
      <4> DEFINE q == [p EXCEPT !.left = @ \ {name}, !.lookup = {name}]
      <4>1. q \in Current /\ q.left \subseteq q.domains /\ q.resolvedIPs = p.resolvedIPs
        BY <2>3, <3>1 DEF Current
      <4> HIDE DEF q
      <4>2. current' = {q}
        BY <3>1 DEF q
      <4> QED  BY <2>3, <4>1, <4>2
    <3>2. CASE current' = {append(rest, name, GetResolvedIPs(name))}
      <4> HIDE DEF rest
      <4> QED  BY <2>3, <2>4, <3>2, AnswersLearned, AppendLearned
    <3> QED  BY <2>2, <3>1, <3>2
  <2>6. PubTypeOK'
    BY <1>1, <2>1, <2>5 DEF PubTypeOK
  <2>7. \A ips \in Held' : ips \in Held \/ OnlyLearned(ips)'
    BY <2>1, <2>5 DEF Held, OnlyLearned, LearnedFor
  <2> QED  BY <1>1, <2>1, <2>6, <2>7, HeldStep
<1>5. CASE LookupFails
  <2>1. UNCHANGED <<known, api, informer, items, learned, restarts>>
    BY <1>5 DEF LookupFails
  <2>2. PICK p \in current : current' = {[p EXCEPT !.lookup = {}]}
    BY <1>5 DEF LookupFails
  <2>3. p \in Current /\ p.left \subseteq p.domains
    BY <1>1 DEF PubTypeOK
  <2> DEFINE q == [p EXCEPT !.lookup = {}]
  <2>4. q \in Current /\ q.left \subseteq q.domains /\ q.resolvedIPs = p.resolvedIPs
    BY <2>3 DEF Current
  <2> HIDE DEF q
  <2>5. PubTypeOK'
    BY <1>1, <2>1, <2>2, <2>4 DEF PubTypeOK, q
  <2>6. Held' \subseteq Held
    BY <2>1, <2>2, <2>4 DEF Held, q
  <2> QED  BY <1>1, <2>1, <2>5, <2>6, HeldStep
<1>6. ASSUME NEW name \in K, LookupSucceeds(name) PROVE PubInv'
  <2>1. PICK addresses \in SUBSET Answers[name] \ {{}} : LookupIPAddr(name, addresses)
    BY <1>6 DEF LookupSucceeds
  <2>2. UNCHANGED <<api, informer, items, restarts>> /\ addresses \subseteq V
    BY <2>1 DEF LookupIPAddr, CacheOfNames
  <2>3. PICK p \in current :
          current' = {[p EXCEPT !.lookup = {},
                                !.resolvedIPs = [n \in DOMAIN @ |->
                                   @[n] \cup (IF n = name THEN addresses ELSE {})]]}
    BY <2>1 DEF LookupIPAddr
  <2>3a. Learn(name, addresses) /\ learned' = [learned EXCEPT ![name] = @ \cup addresses]
    BY <2>1 DEF LookupIPAddr
  <2>4. /\ learned' \in CacheOfNames /\ known' \in CacheOfNames
        /\ \A n \in K : learned[n] \subseteq learned'[n] /\ known'[n] \subseteq learned'[n]
        /\ learned'[name] = learned[name] \cup addresses
    BY <1>1, <2>2, <2>3a DEF Learn, CacheOfNames, PubTypeOK
  <2>5. p \in Current /\ p.left \subseteq p.domains /\ OnlyLearned(p.resolvedIPs)
    BY <1>1 DEF PubTypeOK, PubInv, Held
  <2> DEFINE ips == p.resolvedIPs
             r == [n \in DOMAIN ips |-> ips[n] \cup (IF n = name THEN addresses ELSE {})]
             q == [p EXCEPT !.lookup = {}, !.resolvedIPs = r]
  <2>6. ips \in ResolvedIPs /\ DOMAIN ips \subseteq Names /\ ips \in [DOMAIN ips -> SUBSET V]
    BY <2>5, ResolvedIPsDef DEF Current
  <2>7. OnlyLearned(ips)'
    BY <1>1, <2>4, <2>5, <2>6, OnlyLearnedGrows
  <2>8. r \in ResolvedIPs /\ OnlyLearned(r)'
    <3>1. DOMAIN r = DOMAIN ips /\ \A n \in DOMAIN r : r[n] \subseteq V /\ r[n] \subseteq LearnedFor(n)'
      BY <2>2, <2>4, <2>6, <2>7 DEF OnlyLearned, LearnedFor
    <3>2. r \in [DOMAIN r -> SUBSET V]
      BY <3>1
    <3> QED  BY <2>6, <3>1, <3>2, ResolvedIPsDef DEF OnlyLearned
  <2>9. current' = {q}
    BY <2>3
  <2> HIDE DEF r
  <2>10. q \in Current /\ q.left \subseteq q.domains /\ q.resolvedIPs = r
    BY <2>5, <2>8 DEF Current
  <2> HIDE DEF q
  <2>11. PubTypeOK'
    BY <1>1, <2>2, <2>4, <2>9, <2>10 DEF PubTypeOK
  <2>12. \A s \in Held' : s \in Held \/ OnlyLearned(s)'
    BY <2>2, <2>8, <2>9, <2>10 DEF Held
  <2> QED  BY <2>4, <2>11, <2>12, HeldStep
<1>7. CASE NothingToUpdate \/ PatchFails
  <2>1. UNCHANGED <<known, api, informer, learned, restarts>> /\ current' = {} /\ items' \in {items, NoItems}
    BY <1>7 DEF NothingToUpdate, PatchFails, Idle
  <2>2. DOMAIN items' \subseteq DOMAIN items /\ \A c \in DOMAIN items' : items'[c] = items[c]
    BY <2>1 DEF NoItems
  <2>3. PubTypeOK'
    BY <1>1, <2>1, <2>2 DEF PubTypeOK
  <2>4. Held' \subseteq Held
    BY <2>1, <2>2 DEF Held
  <2> QED  BY <1>1, <2>1, <2>3, <2>4, HeldStep
<1>8. ASSUME NEW c \in ClientIntents, Patch(c) PROVE PubInv'
  <2>1. UNCHANGED <<known, informer, items, learned, restarts>> /\ current' = {}
    BY <1>8 DEF Patch, Idle
  <2>2. PICK p \in current : api' = [api EXCEPT ![c].resolvedIPs = compared(p).resolvedIPs]
    BY <1>8 DEF Patch, Done
  <2>3. p \in Current /\ OnlyLearned(p.resolvedIPs)
    BY <1>1 DEF PubTypeOK, PubInv, Held
  <2> DEFINE r == compared(p).resolvedIPs
  <2>4. r \in ResolvedIPs /\ OnlyLearned(r)
    BY <2>3, ComparedLearned
  <2> HIDE DEF r
  <2>5. /\ api' \in [ClientIntents -> Object] /\ api'[c].resolvedIPs = r
        /\ \A d \in ClientIntents \ {c} : api'[d] = api[d]
    BY <1>1, <2>2, <2>4 DEF PubTypeOK, Object, r
  <2>6. PubTypeOK'
    BY <1>1, <2>1, <2>5 DEF PubTypeOK
  <2>7. \A ips \in Held' : ips \in Held \/ ips = r
    BY <2>1, <2>5 DEF Held
  <2>8. \A ips \in Held' : ips \in Held \/ OnlyLearned(ips)'
    BY <2>1, <2>4, <2>7 DEF OnlyLearned, LearnedFor
  <2> QED  BY <1>1, <2>1, <2>6, <2>8, HeldStep
<1> QED  BY <1>2, <1>3, <1>4, <1>5, <1>6, <1>7, <1>8 DEF Tick

LEMMA PubStep == PubInv /\ [PubNext]_pubVars => PubInv'
<1> SUFFICES ASSUME PubInv, [PubNext]_pubVars PROVE PubInv'
  OBVIOUS
<1> USE PublisherAssumption
<1>1. PubTypeOK /\ \A n \in K : known[n] \subseteq learned[n]
  BY DEF PubInv
<1>2. CASE Capture
  <2>1. UNCHANGED <<api, informer, items, current, restarts>>
    BY <1>2 DEF Capture
  <2>1a. PICK name \in K : \E address \in Answers[name] :
          Learn(name, {address}) /\ learned' = [learned EXCEPT ![name] = @ \cup {address}]
    BY <1>2 DEF Capture
  <2>2. PICK address \in Answers[name] :
          Learn(name, {address}) /\ learned' = [learned EXCEPT ![name] = @ \cup {address}]
    BY <2>1a
  <2>3. /\ learned' \in CacheOfNames /\ known' \in CacheOfNames
        /\ \A n \in K : learned[n] \subseteq learned'[n] /\ known'[n] \subseteq learned'[n]
    BY <1>1, <2>2 DEF Learn, CacheOfNames, PubTypeOK
  <2>4. PubTypeOK'
    BY <1>1, <2>1, <2>3 DEF PubTypeOK
  <2>5. Held' = Held
    BY <2>1 DEF Held
  <2> QED  BY <2>3, <2>4, <2>5, HeldStep
<1>3. CASE Expire
  <2>1. UNCHANGED <<api, informer, items, current, learned, restarts>>
    BY <1>3 DEF Expire
  <2>2. known' \in CacheOfNames /\ \A n \in K : known'[n] \subseteq learned[n]
    BY <1>1, <1>3 DEF Expire, Forget
  <2>3. PubTypeOK'
    BY <1>1, <2>1, <2>2 DEF PubTypeOK
  <2>4. Held' = Held
    BY <2>1 DEF Held
  <2> QED  BY <2>1, <2>2, <2>3, <2>4, HeldStep
<1>4. ASSUME NEW c \in ClientIntents, Edit(c) PROVE PubInv'
  <2>1. UNCHANGED <<known, informer, items, current, learned, restarts>>
    BY <1>4 DEF Edit
  <2>2. PICK spec \in Specs[c] : api' = [api EXCEPT ![c].spec = spec]
    BY <1>4 DEF Edit
  <2>3. spec \in IntentsSpec
    OBVIOUS
  <2>4. /\ api' \in [ClientIntents -> Object]
        /\ \A d \in ClientIntents : api'[d].resolvedIPs = api[d].resolvedIPs
    BY <1>1, <2>2, <2>3 DEF PubTypeOK, Object
  <2>5. PubTypeOK'
    BY <1>1, <2>1, <2>4 DEF PubTypeOK
  <2>6. Held' = Held
    BY <2>1, <2>4 DEF Held
  <2> QED  BY <1>1, <2>1, <2>5, <2>6, HeldStep
<1>5. ASSUME NEW c \in ClientIntents, Watch(c) PROVE PubInv'
  <2>1. UNCHANGED <<known, api, items, current, learned, restarts>>
    BY <1>5 DEF Watch
  <2>2. /\ informer' \in [ClientIntents -> Object]
        /\ \A d \in ClientIntents : informer'[d] \in {informer[d], api[d]}
    BY <1>1, <1>5 DEF Watch, PubTypeOK
  <2>3. PubTypeOK'
    BY <1>1, <2>1, <2>2 DEF PubTypeOK
  <2>4. Held' \subseteq Held
    BY <2>1, <2>2 DEF Held
  <2> QED  BY <1>1, <2>1, <2>3, <2>4, HeldStep
<1>6. CASE Restart
  <2>1. UNCHANGED <<api, learned>> /\ known' = Empty /\ items' = NoItems /\ current' = {} /\ informer' = api
        /\ restarts' \in 0 .. MaxRestarts
    BY <1>1, <1>6 DEF Restart, Idle, PubTypeOK
  <2>2. known' \in CacheOfNames /\ \A n \in K : known'[n] \subseteq learned'[n]
    BY <2>1 DEF Empty, CacheOfNames
  <2>3. DOMAIN items' = {}
    BY <2>1 DEF NoItems
  <2>4. PubTypeOK'
    BY <1>1, <2>1, <2>2, <2>3 DEF PubTypeOK
  <2>5. Held' \subseteq Held
    BY <2>1, <2>3 DEF Held
  <2> QED  BY <2>1, <2>2, <2>4, <2>5, HeldStep
<1>7. CASE UNCHANGED pubVars
  <2>1. PubTypeOK' /\ Held' = Held
    BY <1>1, <1>7 DEF pubVars, PubTypeOK, Held
  <2> QED  BY <1>1, <1>7, <2>1, HeldStep DEF pubVars
<1> QED  BY <1>2, <1>3, <1>4, <1>5, <1>6, <1>7, TickStep DEF PubNext

THEOREM PubInvariant == PubSpec => []PubInv
BY PubInitInv, PubStep, PTL DEF PubSpec

-----------------------------------------------------------------------------
(* The theorems.                                                           *)

\* Cache, resources and the element in hand have their types at all times, whatever
\* users, the informer, lookups and restarts do between the publisher's steps.
THEOREM PubTypesCorrect == PubSpec => []PubTypeOK
<1>1. PubInv => PubTypeOK
  BY DEF PubInv
<1> QED  BY <1>1, PubInvariant, PTL

\* Under a name, or a wildcard, only addresses are published that the cluster or the
\* resolver once gave for it or for a name it matches: none of another name, through
\* all edits, stale reads of the informer, failed patches and restarts.
THEOREM PublishedWereLearned == PubSpec => []PublishedWereResolved
<1>1. PubInv => PublishedWereResolved
  BY DEF PubInv, Held, OnlyLearned, LearnedFor, PublishedWereResolved
<1> QED  BY <1>1, PubInvariant, PTL
=============================================================================
