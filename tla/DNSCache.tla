------------------------------- MODULE DNSCache -------------------------------
(***************************************************************************)
(* What the DNS cache promises those who use it: it answers with addresses *)
(* learned for a name.  An address just learned is there, and any address  *)
(* may be gone at any time, because it expired or made room for others.    *)
(* TTLCache implements this; DNSPublisher is built on it.                  *)
(***************************************************************************)

CONSTANTS K, V   \* names and addresses

VARIABLE known   \* known[name]: the addresses a read of it returns

CacheOfNames == [K -> SUBSET V]

Empty == [name \in K |-> {}]

\* Some addresses of a name are learned one after the other; others may be
\* forgotten meanwhile, but not the last one.
Learn(name, addresses) ==
  /\ known' \in CacheOfNames
  /\ \A n \in K :
       known'[n] \subseteq known[n] \cup (IF n = name THEN addresses ELSE {})
  /\ addresses # {} => known'[name] \cap addresses # {}

Forget ==
  /\ known' \in CacheOfNames
  /\ \A n \in K : known'[n] \subseteq known[n]

NamesInit == known = Empty

NamesNext ==
  \/ \E name \in K, address \in V : Learn(name, {address})
  \/ Forget

NamesSpec == NamesInit /\ [][NamesNext]_known
=============================================================================
