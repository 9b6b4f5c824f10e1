----------------------------- MODULE DNSPublisher -----------------------------
(***************************************************************************)
(* Publisher of package dnsintentspublisher: on every tick it lists the    *)
(* ClientIntents with an Internet target, looks up each name they declare  *)
(* in the DNS cache, and patches status.resolvedIPs where that adds        *)
(* addresses or a published name is no longer declared.                    *)
(*                                                                         *)
(* The publisher is one goroutine.  Beside it, captured DNS answers enter  *)
(* the cache and leave it, users edit ClientIntents, the informer from     *)
(* which List reads follows the API server at its own pace, and the mapper *)
(* restarts with an empty cache.                                           *)
(***************************************************************************)
EXTENDS DNSCache, Naturals

CONSTANTS
  ClientIntents,   \* names of ClientIntents resources
  Wildcards,       \* declared names with a *
  Specs,           \* Specs[c]: the specs users write for it
  Answers,         \* Answers[name]: the addresses DNS has for it
  MaxRestarts,     \* bound on restarts
  Matches          \* Matches[wildcard]: the names that end as wildcard does

Names == K \cup Wildcards

\* resolvedIPs, as the map compareIntentsAndStatus makes of it.
ResolvedIPs == UNION {[names -> SUBSET V] : names \in SUBSET Names}
NoneResolved == [name \in {} |-> {}]

\* hasInternet: some target is an Internet target, though maybe without domains.
IntentsSpec == [hasInternet: BOOLEAN, domains: SUBSET Names]
Object == [spec: IntentsSpec, resolvedIPs: ResolvedIPs]

ASSUME PublisherAssumption ==
  /\ K \cap Wildcards = {}
  /\ Specs \in [ClientIntents -> SUBSET IntentsSpec]
  /\ \A c \in ClientIntents : \A spec \in Specs[c] : spec.domains # {} => spec.hasInternet
  /\ MaxRestarts \in Nat
  /\ Answers \in CacheOfNames
  /\ Matches \in [Wildcards -> SUBSET K]

VARIABLES
  api,       \* the resources in the API server
  informer,  \* what the informer's cache holds of them
  items,     \* what List returned and is not yet handled
  current,   \* the element of items in hand: see Current
  learned,   \* history: all addresses ever learned for a name
  restarts   \* how often the mapper restarted

pubVars == <<known, api, informer, items, current, learned, restarts>>

\* A ClientIntents in hand: the map and the flag of compareIntentsAndStatus, the
\* names the loop still has to go through, and the name looked up with the
\* resolver, if any.
Current ==
  [name: ClientIntents, domains: SUBSET Names, left: SUBSET Names,
   resolvedIPs: ResolvedIPs, shouldUpdate: BOOLEAN, lookup: SUBSET K]

NoItems == [c \in {} |-> {}]
Idle == {}

-----------------------------------------------------------------------------
PubInit ==
  /\ NamesInit
  /\ api \in [ClientIntents -> Object]
  /\ \A c \in ClientIntents : api[c].spec \in Specs[c] /\ api[c].resolvedIPs = NoneResolved
  /\ informer = api
  /\ items = NoItems
  /\ current = Idle
  /\ learned = Empty
  /\ restarts = 0

(* The publisher.                                                          *)

\* List of the ClientIntents under the index hasAnyDnsIntents.
PublishDNSIntents ==
  /\ items = NoItems /\ current = Idle
  /\ items' = [c \in {d \in ClientIntents : informer[d].spec.hasInternet} |-> informer[c]]
  /\ UNCHANGED <<known, api, informer, current, learned, restarts>>

\* updateResolvedIPs begins with the next element.
Take(c) ==
  /\ current = Idle /\ c \in DOMAIN items
  /\ items' = [d \in DOMAIN items \ {c} |-> items[d]]
  /\ current' = {[name |-> c, domains |-> items[c].spec.domains,
                  left |-> items[c].spec.domains, resolvedIPs |-> items[c].resolvedIPs,
                  shouldUpdate |-> FALSE, lookup |-> {}]}
  /\ UNCHANGED <<known, api, informer, learned, restarts>>

\* A mutant: a wildcard matches every name.
GetResolvedIPsOfAll(name) ==
  IF name \in Wildcards THEN UNION {known[n] : n \in K} ELSE known[name]

\* GetResolvedIPsForWildcard and GetResolvedIPs.
GetResolvedIPs(name) ==
  IF name \in Wildcards
  THEN UNION {known[n] : n \in Matches[name]}
  ELSE known[name]

Of(resolvedIPs, name) == IF name \in DOMAIN resolvedIPs THEN resolvedIPs[name] ELSE {}

\* A mutant: without an entry in the map nothing is appended.
appendKnownOnly(p, name, addresses) ==
  IF name \notin DOMAIN p.resolvedIPs \/ addresses \subseteq Of(p.resolvedIPs, name)
  THEN p
  ELSE [p EXCEPT !.shouldUpdate = TRUE,
                 !.resolvedIPs[name] = @ \cup addresses]

\* The end of appendResolvedIps: addresses that were not there make an update.
append(p, name, addresses) ==
  IF addresses \subseteq Of(p.resolvedIPs, name) THEN p
  ELSE [p EXCEPT !.shouldUpdate = TRUE,
                 !.resolvedIPs = [n \in DOMAIN p.resolvedIPs \cup {name} |->
                                    IF n = name
                                    THEN Of(p.resolvedIPs, n) \cup addresses
                                    ELSE p.resolvedIPs[n]]]

\* A mutant: a wildcard is looked up too.
appendResolvedIpsLookingUpAll(name) ==
  \E p \in current :
    /\ p.lookup = {} /\ name \in p.left
    /\ LET addresses == GetResolvedIPs(name)
           rest == [p EXCEPT !.left = @ \ {name}]
       IN  IF addresses = {}
           THEN current' = {[rest EXCEPT !.lookup = {name}]}
           ELSE current' = {append(rest, name, addresses)}
    /\ UNCHANGED <<known, api, informer, items, learned, restarts>>

\* appendResolvedIps of a name the cache knows, or of a wildcard.
appendResolvedIps(name) ==
  \E p \in current :
    /\ p.lookup = {} /\ name \in p.left
    /\ LET addresses == GetResolvedIPs(name)
           rest == [p EXCEPT !.left = @ \ {name}]
       IN  IF addresses = {} /\ name \notin Wildcards
           THEN current' = {[rest EXCEPT !.lookup = {name}]}
           ELSE current' = {append(rest, name, addresses)}
    /\ UNCHANGED <<known, api, informer, items, learned, restarts>>

\* LookupIPAddr fails, or times out after two seconds.
LookupFails ==
  \E p \in current :
    /\ p.lookup # {}
    /\ current' = {[p EXCEPT !.lookup = {}]}
    /\ UNCHANGED <<known, api, informer, items, learned, restarts>>

\* The resolver's answer enters the cache, and the name's entry in the map if it
\* has one; since the length is taken afterwards it makes no update by itself.
LookupIPAddr(name, addresses) ==
  \E p \in current :
    /\ name \in p.lookup
    /\ Learn(name, addresses)
    /\ learned' = [learned EXCEPT ![name] = @ \cup addresses]
    /\ current' = {[p EXCEPT !.lookup = {},
                             !.resolvedIPs = [n \in DOMAIN @ |->
                                @[n] \cup (IF n = name THEN addresses ELSE {})]]}
    /\ UNCHANGED <<api, informer, items, restarts>>

LookupSucceeds(name) ==
  \E addresses \in SUBSET Answers[name] \ {{}} : LookupIPAddr(name, addresses)

\* A mutant: that names left the map makes no update.
comparedQuietly(p) ==
  [p EXCEPT !.resolvedIPs = [n \in DOMAIN @ \cap p.domains |-> @[n]]]

\* compareIntentsAndStatus at its end: names no longer declared leave the map.
compared(p) ==
  LET kept == DOMAIN p.resolvedIPs \cap p.domains
  IN  [p EXCEPT !.resolvedIPs = [n \in kept |-> p.resolvedIPs[n]],
                !.shouldUpdate = @ \/ kept # DOMAIN p.resolvedIPs]

Done == {p \in current : p.left = {} /\ p.lookup = {}}

NothingToUpdate ==
  \E p \in Done :
    /\ ~compared(p).shouldUpdate
    /\ current' = Idle
    /\ UNCHANGED <<known, api, informer, items, learned, restarts>>

\* Status().Patch: a merge patch with the whole list.
Patch(c) ==
  \E p \in Done :
    /\ p.name = c
    /\ compared(p).shouldUpdate
    /\ api' = [api EXCEPT ![p.name].resolvedIPs = compared(p).resolvedIPs]
    /\ current' = Idle
    /\ UNCHANGED <<known, informer, items, learned, restarts>>

\* The error ends the tick.
PatchFails ==
  \E p \in Done :
    /\ compared(p).shouldUpdate
    /\ current' = Idle
    /\ items' = NoItems
    /\ UNCHANGED <<known, api, informer, learned, restarts>>

-----------------------------------------------------------------------------
(* Everything beside the publisher.                                        *)

\* AddOrUpdateDNSData for a captured DNS answer.
Capture ==
  \E name \in K : \E address \in Answers[name] :
    /\ Learn(name, {address})
    /\ learned' = [learned EXCEPT ![name] = @ \cup {address}]
    /\ UNCHANGED <<api, informer, items, current, restarts>>

Expire ==
  /\ Forget /\ known' # known
  /\ UNCHANGED <<api, informer, items, current, learned, restarts>>

\* A user edits a ClientIntents.
Edit(c) ==
  \E spec \in Specs[c] :
    /\ api' = [api EXCEPT ![c].spec = spec]
    /\ UNCHANGED <<known, informer, items, current, learned, restarts>>

\* The informer catches up.
Watch(c) ==
  /\ informer' = [informer EXCEPT ![c] = api[c]]
  /\ UNCHANGED <<known, api, items, current, learned, restarts>>

\* The mapper restarts.
Restart ==
  /\ restarts < MaxRestarts
  /\ restarts' = restarts + 1
  /\ known' = Empty
  /\ items' = NoItems /\ current' = Idle
  /\ informer' = api
  /\ UNCHANGED <<api, learned>>

Tick ==
  \/ PublishDNSIntents
  \/ \E c \in ClientIntents : Take(c)
  \/ \E name \in Names : appendResolvedIps(name)
  \/ LookupFails
  \/ \E name \in K : LookupSucceeds(name)
  \/ NothingToUpdate \/ PatchFails \/ \E c \in ClientIntents : Patch(c)

PubNext ==
  \/ Tick
  \/ Capture \/ Expire
  \/ \E c \in ClientIntents : Edit(c) \/ Watch(c)
  \/ Restart

PubSpec == PubInit /\ [][PubNext]_pubVars

\* The ticker fires and calls return; the informer follows the API server; a
\* lookup or a patch that is tried for ever succeeds in the end.
PubFairness ==
  /\ WF_pubVars(Tick)
  /\ \A c \in ClientIntents : WF_pubVars(Watch(c)) /\ SF_pubVars(Patch(c))
  /\ \A name \in K : SF_pubVars(LookupSucceeds(name))

PubLiveSpec == PubSpec /\ PubFairness

-----------------------------------------------------------------------------
(* Properties.                                                             *)

\* Cache, resources and the element in hand have their types.
PubTypeOK ==
  /\ known \in CacheOfNames /\ learned \in CacheOfNames
  /\ api \in [ClientIntents -> Object] /\ informer \in [ClientIntents -> Object]
  /\ restarts \in 0..MaxRestarts
  /\ DOMAIN items \subseteq ClientIntents
  /\ \A c \in DOMAIN items : items[c] \in Object
  /\ \A p \in current : p \in Current /\ p.left \subseteq p.domains /\ current = {p}

\* Under a name, or a wildcard, only addresses are published that the cluster
\* or the resolver once gave for it or for a name it matches.
PublishedWereResolved ==
  \A c \in ClientIntents : \A name \in DOMAIN api[c].resolvedIPs :
    api[c].resolvedIPs[name] \subseteq
      (IF name \in K THEN learned[name] ELSE UNION {learned[n] : n \in Matches[name]})

\* The names DNS has addresses for.
Resolvable == {name \in K : Answers[name] # {}}

\* From some time on nobody edits and the cache forgets nothing.
Calm == <>[][/\ \A c \in ClientIntents : api'[c].spec = api[c].spec
             /\ \A name \in K : known[name] \subseteq known'[name]]_pubVars

\* What the cache knows of a declared name is published in the end, and a name
\* without a wildcard that DNS has addresses for is published in the end even if no one in the cluster
\* resolves it.
DeclaredNamesPublished ==
  Calm => \A c \in ClientIntents, name \in Names :
            <>[](name \in api[c].spec.domains =>
                   LET published == Of(api[c].resolvedIPs, name)
                   IN  GetResolvedIPs(name) \subseteq published /\ (name \in Resolvable => published # {}))

\* Names no longer declared leave the status in the end, if the ClientIntents has
\* an Internet target left.
UndeclaredNamesGo ==
  Calm => \A c \in ClientIntents :
            <>[](api[c].spec.hasInternet =>
                   DOMAIN api[c].resolvedIPs \subseteq api[c].spec.domains)

=============================================================================
