------------------------ MODULE ClusterReporters_proofs ------------------------
(* Theorems about ClusterReporters for any number of changes, failures and resyncs. *)
EXTENDS ClusterReporters, TLAPS

\* The kinds of objects a snapshot covers.
Kinds == {Reads[n] : n \in DOMAIN Reads}

\* For whom there may be requests: the controllers, and for metadata syncAllOnce and the
\* pods that stay.
Users == Intended \cup (IF reporter = "metadata" THEN {Once, Rest} ELSE {})

\* Past the wait for the lock.
Busy == {"reading", "locking", "reporting"}

-----------------------------------------------------------------------------
(* The inductive invariant.                                                *)

\* What c has in hand is no newer than the cluster, complete once it is to be
\* compared, and where reports are ordered not older than what the cloud was told.
InHand(c) ==
  LET s == work[c].snapshot
  IN  /\ work[c] # Idle => c \in Users
      /\ work[c].at \in Busy /\ CollectsLocked => lock = c
      /\ work[c].at \notin Busy => \A p \in Parts : s[p] = Nil
      /\ \A p \in Parts : s[p] # Nil => p \in Kinds /\ s[p] <= cluster[p]
      /\ work[c].at \in {"locking", "reporting"} => \A p \in Kinds : s[p] # Nil
      /\ Ordered => \A p \in Parts : told[p] # Nil /\ s[p] # Nil => told[p] <= s[p]

ToldOK ==
  /\ told \in [Parts -> Nat \cup {Nil}]
  /\ \A p \in Parts : told[p] # Nil => p \in Kinds /\ told[p] <= cluster[p]

ReportersInv ==
  /\ ReportersTypeOK
  /\ pending \subseteq Users /\ (goes # {} => reporter = "metadata")
  /\ \A c \in Controllers : InHand(c)
  /\ ToldOK

-----------------------------------------------------------------------------
(* What is read, who watches, and who may be at work.                      *)

LEMMA ReadsKinds ==
  ASSUME reporter \in Reporters
  PROVE  /\ Len(Reads) \in Nat \ {0}
         /\ DOMAIN Reads = 1 .. Len(Reads)
         /\ \A n \in DOMAIN Reads : Reads[n] \in Parts
         /\ Kinds \subseteq Parts
<1>1. Reads \in {<<"configurations", "services", "endpoints">>, <<"configurations">>,
                 <<"pods">>, <<"services", "endpoints">>, <<"pods", "endpoints">>}
  BY DEF Reads, Reporters
<1>2. /\ Len(Reads) \in Nat \ {0} /\ DOMAIN Reads = 1 .. Len(Reads)
      /\ \A n \in DOMAIN Reads : Reads[n] \in Parts
  <2> DEFINE r == Reads
  <2>1. r \in {<<"configurations", "services", "endpoints">>, <<"configurations">>,
               <<"pods">>, <<"services", "endpoints">>, <<"pods", "endpoints">>}
    BY <1>1
  <2> HIDE DEF r
  <2>2. /\ Len(r) \in Nat \ {0} /\ DOMAIN r = 1 .. Len(r)
        /\ \A n \in DOMAIN r : r[n] \in Parts
    BY <2>1 DEF Parts
  <2> QED  BY <2>2 DEF r
<1> QED  BY <1>2 DEF Kinds

LEMMA WatchersIntended ==
  ASSUME reporter \in Reporters, NEW p \in Parts
  PROVE  WatchersOf(p) \subseteq Users
BY DEF WatchersOf, Intended, Users, Reporters, Parts

LEMMA UsersAreControllers ==
  ASSUME reporter \in Reporters
  PROVE  Users \subseteq Controllers /\ Users \subseteq Intended \cup {Once, Rest}
BY DEF Users, Intended, Controllers, Parts, Reporters

\* Where reports are ordered, one controller is at work at a time: there is only one,
\* or it has the lock.
LEMMA OneAtWork ==
  ASSUME ReportersInv, Ordered, NEW c \in Controllers, NEW d \in Controllers,
         work[c].at \in Busy, work[d].at \in Busy
  PROVE  c = d
<1>1. reporter \in Reporters /\ c \in Users /\ d \in Users
  BY DEF ReportersInv, ReportersTypeOK, InHand, Busy, Idle
<1>2. CASE reporter = "metadata"
  BY <1>2 DEF ReportersInv, InHand, CollectsLocked
<1>3. CASE reporter # "metadata"
  BY <1>1, <1>3 DEF Users, Intended, Ordered
<1> QED  BY <1>2, <1>3

-----------------------------------------------------------------------------
(* The invariant holds.                                                    *)

LEMMA ReportersInit == ReporterInit => ReportersInv
<1> SUFFICES ASSUME ReporterInit PROVE ReportersInv
  OBVIOUS
<1> USE ReportersAssumption
<1>1. Idle \in Work /\ Idle.at = "idle" /\ \A p \in Parts : Idle.snapshot[p] = Nil
  BY DEF Idle, NoSnapshot, Work
<1>2. \A c \in Controllers : work[c] = Idle
  BY DEF ReporterInit
<1>3. /\ pending \subseteq Users /\ Users \subseteq Intended \cup {Once, Rest}
      /\ (goes # {} => reporter = "metadata") /\ goes \subseteq Removals
  BY UsersAreControllers DEF ReporterInit, Users
<1>4. ReportersTypeOK
  <2>1. /\ reporter \in Reporters /\ cluster = [p \in Parts |-> 0] /\ lock = Nil
        /\ due = Parts /\ work = [c \in Controllers |-> Idle]
    BY DEF ReporterInit
  <2>2. pending \subseteq Intended \cup {Once, Rest} /\ goes \subseteq Removals
    BY <1>3
  <2>3. work \in [Controllers -> Work] /\ \A c \in Controllers : work[c].at # "reporting"
    BY <1>1, <2>1
  <2>4. cluster \in [Parts -> 0 .. MaxChanges]
    BY <2>1
  <2> QED  BY <2>1, <2>2, <2>3, <2>4 DEF ReportersTypeOK
<1>5. \A c \in Controllers : InHand(c)
  BY <1>1, <1>2 DEF InHand, Busy
<1>6. ToldOK
  BY DEF ReporterInit, ToldOK, NoSnapshot
<1> QED  BY <1>3, <1>4, <1>5, <1>6 DEF ReportersInv

\* A kind of objects is read, by c, which may take the lock.
LEMMA CollectedStep ==
  ASSUME ReportersInv, NEW c \in Controllers, NEW n \in DOMAIN Reads, Collected(c, n),
         work[c].at \in {"waiting", "reading"}, c \in Users,
         \A m \in 1 .. n - 1 : work[c].snapshot[Reads[m]] # Nil,
         UNCHANGED <<reporter, goes, cluster, pending, reported, told, unanswered, history>>,
         \/ lock' = lock /\ (CollectsLocked => lock = c)
         \/ lock' = lock /\ ~CollectsLocked
         \/ lock = Nil /\ lock' = c /\ CollectsLocked
  PROVE  ReportersInv'
<1> USE ReportersAssumption
<1> DEFINE k == Reads[n]
           s == [work[c].snapshot EXCEPT ![k] = cluster[k]]
           a == IF n = Len(Reads) THEN "locking" ELSE "reading"
<1>1. reporter \in Reporters /\ work \in [Controllers -> Work] /\ cluster \in [Parts -> 0 .. MaxChanges]
  BY DEF ReportersInv, ReportersTypeOK
<1>2. k \in Parts /\ k \in Kinds /\ Kinds \subseteq Parts
  BY <1>1, ReadsKinds DEF Kinds
<1>3. Reads' = Reads /\ Kinds' = Kinds /\ Users' = Users /\ Intended' = Intended
      /\ (Ordered' <=> Ordered) /\ (CollectsLocked' <=> CollectsLocked)
  BY DEF Reads, Kinds, Users, Intended, Ordered, CollectsLocked
<1>4. /\ work[c] \in Work /\ work[c].snapshot \in [Parts -> Nat \cup {Nil}]
      /\ cluster[k] \in Nat
  BY <1>1, <1>2 DEF Work
<1>5. work' = [work EXCEPT ![c] = [at |-> a, snapshot |-> s]]
  <2> DEFINE w == work[c]
             r == [w EXCEPT !.snapshot = [@ EXCEPT ![k] = cluster[k]], !.at = a]
  <2>1. work' = [work EXCEPT ![c] = r]
    BY <1>1 DEF Collected
  <2>2. r = [at |-> a, snapshot |-> s]
    <3>1. w = [at |-> w.at, snapshot |-> w.snapshot]
      BY <1>4 DEF Work
    <3> HIDE DEF w, a
    <3> DEFINE t == [w.snapshot EXCEPT ![k] = cluster[k]]
    <3>2. r = [[w EXCEPT !.snapshot = t] EXCEPT !.at = a]
      OBVIOUS
    <3> HIDE DEF t, r
    <3>3. r = [at |-> a, snapshot |-> t]
      BY <3>1, <3>2
    <3> QED  BY <3>3 DEF w, t
  <2> QED  BY <2>1, <2>2
<1>6. /\ s \in [Parts -> Nat \cup {Nil}] /\ s[k] = cluster[k]
      /\ \A p \in Parts \ {k} : s[p] = work[c].snapshot[p]
  BY <1>2, <1>4
<1>7. /\ work'[c] = [at |-> a, snapshot |-> s] /\ work'[c] # Idle
      /\ \A d \in Controllers \ {c} : work'[d] = work[d]
      /\ work' \in [Controllers -> Work]
  <2>1. [at |-> a, snapshot |-> s] \in Work
    BY <1>6 DEF Work
  <2> HIDE DEF s
  <2> QED  BY <1>1, <1>5, <2>1 DEF Idle
<1> HIDE DEF s
<1>8. ReportersTypeOK'
  <2>1. c \in Intended \cup {Once, Rest} /\ Intended \cup {Once, Rest} \subseteq Controllers
    BY <1>1, UsersAreControllers DEF Intended, Controllers, Parts, Reporters
  <2>2. /\ ReportersTypeOK /\ pending' \subseteq Intended' \cup {Once, Rest}
        /\ goes' = goes /\ due' = due
    BY <1>3 DEF ReportersInv, ReportersTypeOK, history
  <2>3. work'[c].at # "reporting" /\ lock' \in {lock, c}
    BY <1>7
  <2>4. \A d \in Controllers : work'[d].at = "reporting" => lock' = d
    BY <1>7, <2>2, <2>3 DEF ReportersTypeOK
  <2>5. lock' # Nil => lock' \in Intended \cup {Once, Rest} /\ work'[lock'] # Idle
    BY <1>7, <2>1, <2>2, <2>3 DEF ReportersTypeOK
  <2> QED  BY <1>1, <1>3, <1>7, <2>2, <2>4, <2>5 DEF ReportersTypeOK
<1>9. ASSUME NEW d \in Controllers PROVE InHand(d)'
  <2>1. CASE d # c
    BY <1>3, <1>7, <2>1 DEF ReportersInv, InHand, CollectsLocked
  <2>2. CASE d = c
    <3>1. \A p \in Parts : s[p] # Nil => p \in Kinds /\ s[p] <= cluster[p]
      <4> TAKE p \in Parts
      <4>1. CASE p = k
        BY <1>2, <1>4, <1>6, <4>1
      <4>2. CASE p # k
        BY <1>6, <4>2 DEF ReportersInv, InHand
      <4> QED  BY <4>1, <4>2
    <3>2. a = "locking" => \A p \in Kinds : s[p] # Nil
      <4> SUFFICES ASSUME n = Len(Reads), NEW p \in Kinds PROVE s[p] # Nil
        OBVIOUS
      <4>1. PICK m \in DOMAIN Reads : p = Reads[m]
        BY DEF Kinds
      <4>2. m \in 1 .. n
        BY <1>1, ReadsKinds
      <4>3. CASE p = k
        BY <1>4, <1>6, <4>3
      <4>4. CASE p # k
        <5>1. m \in 1 .. n - 1
          BY <1>1, ReadsKinds, <4>1, <4>2, <4>4
        <5> QED  BY <1>2, <1>6, <4>1, <4>4, <5>1
      <4> QED  BY <4>3, <4>4
    <3>3. Ordered => \A p \in Parts : told[p] # Nil /\ s[p] # Nil => told[p] <= s[p]
      <4> SUFFICES ASSUME Ordered, NEW p \in Parts, told[p] # Nil, s[p] # Nil
                   PROVE  told[p] <= s[p]
        OBVIOUS
      <4>1. CASE p = k
        BY <1>6, <4>1 DEF ReportersInv, ToldOK
      <4>2. CASE p # k
        BY <1>6, <4>2 DEF ReportersInv, InHand
      <4> QED  BY <4>1, <4>2
    <3>4. /\ work'[c].at = a /\ work'[c].snapshot = s /\ a \in {"reading", "locking"}
          /\ (CollectsLocked => lock' = c)
      BY <1>7
    <3> HIDE DEF a
    <3> QED  BY <1>3, <2>2, <3>1, <3>2, <3>3, <3>4 DEF InHand, Busy
  <2> QED  BY <2>1, <2>2
<1>10. ToldOK'
  BY <1>3 DEF ReportersInv, ToldOK
<1> QED  BY <1>3, <1>8, <1>9, <1>10 DEF ReportersInv

\* c is done: what it had in hand is dropped, or the cloud was told of it.
LEMMA DoneStep ==
  ASSUME ReportersInv, NEW c \in Controllers, Done(c), work[c] # Idle,
         UNCHANGED <<reporter, goes, cluster, due>>, pending' \subseteq pending \cup ({c} \ {Once}),
         told' = told \/ (work[c].at = "reporting" /\ told' = work[c].snapshot)
  PROVE  ReportersInv'
<1> USE ReportersAssumption
<1>1. /\ reporter \in Reporters /\ work \in [Controllers -> Work]
      /\ cluster \in [Parts -> 0 .. MaxChanges] /\ c \in Users
  BY DEF ReportersInv, ReportersTypeOK, InHand
<1>2. Reads' = Reads /\ Kinds' = Kinds /\ Users' = Users /\ Intended' = Intended
      /\ (Ordered' <=> Ordered) /\ (CollectsLocked' <=> CollectsLocked)
  BY DEF Reads, Kinds, Users, Intended, Ordered, CollectsLocked
<1>3. Idle \in Work /\ Idle.at = "idle" /\ \A p \in Parts : Idle.snapshot[p] = Nil
  BY DEF Idle, NoSnapshot, Work
<1>4. /\ work' \in [Controllers -> Work] /\ work'[c] = Idle
      /\ \A d \in Controllers \ {c} : work'[d] = work[d]
      /\ lock' = IF lock = c THEN Nil ELSE lock
  BY <1>1, <1>3 DEF Done, Unlocked
<1>5. c \in Intended \cup {Once, Rest}
  BY <1>1, UsersAreControllers
<1>6. ReportersTypeOK'
  <2>1. \A d \in Controllers : work'[d].at = "reporting" => lock' = d
    BY <1>3, <1>4 DEF ReportersInv, ReportersTypeOK
  <2>2. lock' # Nil => lock' \in Intended \cup {Once, Rest} /\ work'[lock'] # Idle
    <3> SUFFICES ASSUME lock' # Nil PROVE lock' \in Intended \cup {Once, Rest} /\ work'[lock'] # Idle
      OBVIOUS
    <3>1. lock' = lock /\ lock # c /\ lock \in Intended \cup {Once, Rest} /\ work[lock] # Idle
      BY <1>4 DEF ReportersInv, ReportersTypeOK
    <3>2. Intended \cup {Once, Rest} \subseteq Controllers
      BY <1>1 DEF Intended, Controllers, Parts, Reporters
    <3> QED  BY <1>4, <3>1, <3>2
  <2> QED  BY <1>2, <1>4, <1>5, <2>1, <2>2 DEF ReportersInv, ReportersTypeOK
<1>7. ToldOK'
  <2>1. CASE told' = told
    BY <1>2, <2>1 DEF ReportersInv, ToldOK
  <2>2. CASE told' = work[c].snapshot
    BY <1>1, <1>2, <2>2 DEF ReportersInv, InHand, ToldOK, Work
  <2> QED  BY <2>1, <2>2
<1>8. ASSUME NEW d \in Controllers PROVE InHand(d)'
  <2>1. CASE d = c
    BY <1>2, <1>3, <1>4, <2>1 DEF InHand, Busy
  <2>2. CASE d # c /\ work[d].at \notin Busy
    <3>1. \A p \in Parts : work[d].snapshot[p] = Nil
      BY <2>2 DEF ReportersInv, InHand
    <3> QED  BY <1>2, <1>4, <2>2, <3>1 DEF ReportersInv, InHand, Busy
  <2>3. CASE d # c /\ work[d].at \in Busy
    <3>1. Ordered => told' = told
      BY OneAtWork, <2>3 DEF Busy
    <3> QED  BY <1>2, <1>4, <2>3, <3>1 DEF ReportersInv, InHand, CollectsLocked
  <2> QED  BY <2>1, <2>2, <2>3
<1>9. pending' \subseteq Users'
  BY <1>1, <1>2 DEF ReportersInv
<1> QED  BY <1>6, <1>7, <1>8, <1>9 DEF ReportersInv

\* The cluster moves on, or requests come.
LEMMA OtherStep ==
  ASSUME ReportersInv, UNCHANGED <<reporter, goes, work, lock, told>>,
         pending' \subseteq pending \cup Users, due' \subseteq Parts,
         cluster' \in [Parts -> 0 .. MaxChanges], \A p \in Parts : cluster[p] <= cluster'[p]
  PROVE  ReportersInv'
<1> USE ReportersAssumption
<1>1. /\ reporter \in Reporters /\ work \in [Controllers -> Work]
      /\ cluster \in [Parts -> 0 .. MaxChanges]
  BY DEF ReportersInv, ReportersTypeOK
<1>2. Reads' = Reads /\ Kinds' = Kinds /\ Users' = Users /\ Intended' = Intended
      /\ (Ordered' <=> Ordered) /\ (CollectsLocked' <=> CollectsLocked)
  BY DEF Reads, Kinds, Users, Intended, Ordered, CollectsLocked
<1>3. \A p \in Parts : cluster[p] \in Nat /\ cluster'[p] \in Nat
  BY <1>1
<1>4. ReportersTypeOK'
  BY <1>1, <1>2, UsersAreControllers DEF ReportersInv, ReportersTypeOK
<1>5. ToldOK'
  BY <1>2, <1>3 DEF ReportersInv, ToldOK
<1>6. \A c \in Controllers : InHand(c)'
  <2> TAKE c \in Controllers
  <2>1. \A p \in Parts : work[c].snapshot[p] \in Nat \cup {Nil}
    BY <1>1 DEF Work
  <2> QED  BY <1>2, <1>3, <2>1 DEF ReportersInv, InHand, CollectsLocked
<1> QED  BY <1>2, <1>4, <1>5, <1>6 DEF ReportersInv

LEMMA ReportersStep == ReportersInv /\ [ReporterNext]_reporterVars => ReportersInv'
<1> SUFFICES ASSUME ReportersInv, [ReporterNext]_reporterVars PROVE ReportersInv'
  OBVIOUS
<1> USE ReportersAssumption
<1>1. /\ reporter \in Reporters /\ work \in [Controllers -> Work]
      /\ cluster \in [Parts -> 0 .. MaxChanges]
  BY DEF ReportersInv, ReportersTypeOK
<1>2. \A p \in Parts : cluster[p] \in Nat
  BY <1>1
<1>3. ASSUME NEW p \in Parts, Change(p) PROVE ReportersInv'
  <2>1. cluster[p] + 1 \in 0 .. MaxChanges
    BY <1>2, <1>3 DEF Change, Changes, Parts
  <2>2. /\ cluster' \in [Parts -> 0 .. MaxChanges]
        /\ \A q \in Parts : cluster[q] <= cluster'[q]
    BY <1>1, <1>2, <1>3, <2>1 DEF Change
  <2>3. due' \subseteq Parts
    BY <1>1, <1>3 DEF Change, DueAfter, ReportersInv, ReportersTypeOK
  <2> QED  BY <1>1, <1>3, <2>2, <2>3, OtherStep, WatchersIntended DEF Change
<1>4. ASSUME NEW c \in Controllers, Begin(c) PROVE ReportersInv'
  <2>1. 1 \in DOMAIN Reads /\ work[c].at = "waiting" /\ c \in Users
    BY <1>1, <1>4, ReadsKinds DEF Begin, Idle, ReportersInv, InHand
  <2>2. \A m \in 1 .. 1 - 1 : work[c].snapshot[Reads[m]] # Nil
    OBVIOUS
  <2> QED  BY <1>4, <2>1, <2>2, CollectedStep DEF Begin
<1>5. ASSUME NEW c \in Controllers, Read(c) PROVE ReportersInv'
  <2>1. c \in Users /\ (CollectsLocked => lock = c)
    BY <1>5 DEF Read, ReportersInv, InHand, Idle, Busy
  <2> QED  BY <1>5, <2>1, CollectedStep DEF Read
<1>6. ASSUME NEW c \in Controllers, ReadFails(c) \/ ReportSucceeds(c) \/ ReportFails(c)
      PROVE  ReportersInv'
  <2>1. work[c] # Idle
    BY <1>6 DEF ReadFails, ReportSucceeds, ReportFails, Idle
  <2> QED  BY <1>6, <2>1, DoneStep DEF ReadFails, ReportSucceeds, ReportFails, PutBack, history
<1>7. ASSUME NEW c \in Controllers, Compare(c) PROVE ReportersInv'
  <2>1. work[c] # Idle /\ work[c].at = "locking" /\ lock \in {Nil, c}
        /\ UNCHANGED <<reporter, goes, cluster, pending, told, due>>
    BY <1>7 DEF Compare, Idle, history
  <2>2. CASE Done(c)
    BY <2>1, <2>2, DoneStep
  <2>3. CASE work' = [work EXCEPT ![c].at = "reporting"] /\ lock' = c
    <3>1. Reads' = Reads /\ Kinds' = Kinds /\ Users' = Users /\ Intended' = Intended
          /\ (Ordered' <=> Ordered) /\ (CollectsLocked' <=> CollectsLocked)
      BY <2>1 DEF Reads, Kinds, Users, Intended, Ordered, CollectsLocked
    <3>2. /\ work' \in [Controllers -> Work] /\ work'[c].at = "reporting" /\ work'[c] # Idle
          /\ work'[c].snapshot = work[c].snapshot
          /\ \A d \in Controllers \ {c} : work'[d] = work[d]
      BY <1>1, <2>3 DEF Work, Idle
    <3>3. c \in Users /\ c \in Intended \cup {Once, Rest}
      BY <1>1, <2>1, UsersAreControllers DEF ReportersInv, InHand
    <3>4. ReportersTypeOK'
      BY <2>1, <2>3, <3>1, <3>2, <3>3 DEF ReportersInv, ReportersTypeOK
    <3>5. ASSUME NEW d \in Controllers PROVE InHand(d)'
      <4>1. CASE d = c
        BY <2>1, <2>3, <3>1, <3>2, <3>3, <4>1 DEF ReportersInv, InHand, Busy
      <4>2. CASE d # c
        BY <2>1, <2>3, <3>1, <3>2, <4>2 DEF ReportersInv, InHand
      <4> QED  BY <4>1, <4>2
    <3>6. ToldOK'
      BY <2>1, <3>1 DEF ReportersInv, ToldOK
    <3> QED  BY <2>1, <3>1, <3>4, <3>5, <3>6 DEF ReportersInv
  <2> QED  BY <1>7, <2>1, <2>2, <2>3 DEF Compare, Done, Unlocked
<1>8. ASSUME NEW c \in Controllers, Take(c) PROVE ReportersInv'
  <2>1. /\ work[c] = Idle /\ c \in Users /\ c \in pending
        /\ UNCHANGED <<reporter, goes, cluster, lock, told, due>> /\ pending' \subseteq pending
    BY <1>8 DEF Take, Free, ReportersInv, history
  <2>2. Reads' = Reads /\ Kinds' = Kinds /\ Users' = Users /\ Intended' = Intended
        /\ (Ordered' <=> Ordered) /\ (CollectsLocked' <=> CollectsLocked)
    BY <2>1 DEF Reads, Kinds, Users, Intended, Ordered, CollectsLocked
  <2>3. /\ work' \in [Controllers -> Work] /\ work'[c].at = "waiting" /\ work'[c] # Idle
        /\ \A p \in Parts : work'[c].snapshot[p] = Nil
        /\ \A d \in Controllers \ {c} : work'[d] = work[d]
    BY <1>1, <1>8, <2>1 DEF Take, Work, Idle, NoSnapshot
  <2>4. ReportersTypeOK'
    <3>1. \A d \in Controllers : work'[d].at = "reporting" => lock' = d
      BY <2>1, <2>3 DEF ReportersInv, ReportersTypeOK
    <3>2. \A d \in Controllers : work[d] # Idle => work'[d] # Idle
      BY <2>1, <2>3
    <3>3. Intended \cup {Once, Rest} \subseteq Controllers
      BY <1>1 DEF Intended, Controllers, Parts, Reporters
    <3>4. lock' # Nil => lock' \in Intended \cup {Once, Rest} /\ work'[lock'] # Idle
      BY <2>1, <3>2, <3>3 DEF ReportersInv, ReportersTypeOK
    <3> QED  BY <2>1, <2>2, <2>3, <3>1, <3>4 DEF ReportersInv, ReportersTypeOK
  <2>5. ASSUME NEW d \in Controllers PROVE InHand(d)'
    <3>1. CASE d = c
      BY <2>1, <2>2, <2>3, <3>1 DEF InHand, Busy
    <3>2. CASE d # c
      BY <2>1, <2>2, <2>3, <3>2 DEF ReportersInv, InHand, CollectsLocked
    <3> QED  BY <3>1, <3>2
  <2>6. ToldOK'
    BY <2>1, <2>2 DEF ReportersInv, ToldOK
  <2> QED  BY <2>1, <2>2, <2>4, <2>5, <2>6 DEF ReportersInv
<1>9. ASSUME NEW c \in Controllers, Skip(c) PROVE ReportersInv'
  BY <1>1, <1>2, <1>9, OtherStep DEF Skip, history, ReportersInv, ReportersTypeOK
<1>10. CASE Resync
  <2>1. UNION {WatchersOf(p) : p \in Parts} \subseteq Users
    BY <1>1, WatchersIntended
  <2>2. pending' \subseteq pending \cup Users
    <3> DEFINE watching == UNION {WatchersOf(p) : p \in Parts}
               staying == IF "replica" \in goes THEN {Rest} ELSE {}
    <3>1. staying \subseteq Users
      <4>1. "replica" \in goes => goes # {}
        OBVIOUS
      <4>2. goes # {} => Rest \in Users
        BY DEF Users, ReportersInv
      <4> QED  BY <4>1, <4>2
    <3>2. pending' = (pending \cup staying) \cup watching
      BY <1>10 DEF Resync
    <3> HIDE DEF watching, staying
    <3>3. watching \subseteq Users
      BY <2>1 DEF watching
    <3> QED  BY <3>1, <3>2, <3>3
  <2> QED  BY <1>1, <1>2, <1>10, <2>2, OtherStep DEF Resync
<1>11. CASE UNCHANGED reporterVars
  BY <1>1, <1>2, <1>11, OtherStep DEF reporterVars, history, ReportersInv, ReportersTypeOK
<1> QED  BY <1>3, <1>4, <1>5, <1>6, <1>7, <1>8, <1>9, <1>10, <1>11 DEF ReporterNext, Reconcile

THEOREM ReportersInvariant == ReporterSpec => []ReportersInv
BY ReportersInit, ReportersStep, PTL DEF ReporterSpec

-----------------------------------------------------------------------------
(* The theorems.                                                           *)

\* Snapshots, the cache and the lock have their types at all times: whoever reports
\* has the lock, and whoever has it is at work and will give it back.
THEOREM ReportersTypesCorrect == ReporterSpec => []ReportersTypeOK
<1>1. ReportersInv => ReportersTypeOK
  BY DEF ReportersInv
<1> QED  BY <1>1, ReportersInvariant, PTL

\* The cache of what was reported never hides a difference: as long as every request was
\* answered, it holds what the cloud was told last.
THEOREM CacheTellsTheCloud == ReporterSpec => []CacheTellsCloud
<1>1. ReporterInit => CacheTellsCloud
  BY DEF ReporterInit, CacheTellsCloud
<1>2. CacheTellsCloud /\ [ReporterNext]_reporterVars => CacheTellsCloud'
  <2> SUFFICES ASSUME CacheTellsCloud, [ReporterNext]_reporterVars PROVE CacheTellsCloud'
    OBVIOUS
  <2> USE DEF CacheTellsCloud, Value
  <2>1. ASSUME NEW c \in Controllers, Reconcile(c) PROVE CacheTellsCloud'
    <3>1. CASE Begin(c)
      BY <3>1 DEF Begin
    <3>2. CASE Read(c)
      BY <3>2 DEF Read
    <3>3. CASE ReadFails(c)
      BY <3>3 DEF ReadFails
    <3>4. CASE Compare(c)
      BY <3>4 DEF Compare
    <3>5. CASE ReportSucceeds(c)
      BY <3>5 DEF ReportSucceeds
    <3>6. CASE ReportFails(c)
      BY <3>6 DEF ReportFails
    <3>7. CASE Skip(c)
      BY <3>7 DEF Skip
    <3>8. CASE Take(c)
      BY <3>8 DEF Take
    <3> QED  BY <2>1, <3>1, <3>2, <3>3, <3>4, <3>5, <3>6, <3>7, <3>8 DEF Reconcile
  <2>2. ASSUME NEW p \in Parts, Change(p) PROVE CacheTellsCloud'
    BY <2>2 DEF Change
  <2>3. CASE Resync
    BY <2>3 DEF Resync
  <2>4. CASE UNCHANGED reporterVars
    BY <2>4 DEF reporterVars
  <2> QED  BY <2>1, <2>2, <2>3, <2>4 DEF ReporterNext
<1> QED  BY <1>1, <1>2, PTL DEF ReporterSpec

\* Where one controller reports, or snapshots are collected under the lock, an older
\* snapshot never replaces a newer one at the cloud.
THEOREM ReportsNeverOlder == ReporterSpec => NeverOlder
<1> DEFINE NotOlder == Ordered => \A p \in Parts : told[p] # Nil => told'[p] >= told[p]
<1>1. ReportersInv /\ [ReporterNext]_reporterVars => [NotOlder]_reporterVars
  <2> SUFFICES ASSUME ReportersInv, ReporterNext, Ordered, NEW p \in Parts, told[p] # Nil
               PROVE  told'[p] >= told[p]
    BY DEF ReportersInv
  <2>1. told[p] \in Nat /\ p \in Kinds
    BY DEF ReportersInv, ToldOK
  <2>2. CASE told' = told
    BY <2>1, <2>2
  <2>3. ASSUME NEW c \in Controllers, work[c].at = "reporting", told' = work[c].snapshot
        PROVE  told'[p] >= told[p]
    <3>1. work[c].snapshot[p] # Nil /\ told[p] <= work[c].snapshot[p]
      BY <2>1, <2>3 DEF ReportersInv, InHand
    <3>2. work[c].snapshot[p] \in Nat
      BY <3>1 DEF ReportersInv, ReportersTypeOK, Work
    <3> QED  BY <2>1, <2>3, <3>1, <3>2
  <2>4. \/ told' = told
        \/ \E c \in Controllers : work[c].at = "reporting" /\ told' = work[c].snapshot
    BY DEF ReporterNext, Reconcile, Change, Skip, Take, Begin, Read, ReadFails, Compare, ReportSucceeds,
           ReportFails, Resync
  <2> QED  BY <2>2, <2>3, <2>4
<1> QED  BY <1>1, ReportersInvariant, PTL DEF ReporterSpec, NeverOlder

=============================================================================
