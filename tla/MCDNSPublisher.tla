---------------------------- MODULE MCDNSPublisher ----------------------------
(* One name with a wildcard that matches it, another that it does not      *)
(* match; one ClientIntents whose spec changes, one that declares the      *)
(* wildcard.                                                               *)
EXTENDS DNSPublisher, TLC

CONSTANTS api1, db1, any, a1, a2, c1, c2

MCK == {api1, db1}
MCV == {a1, a2}
MCAnswers == (api1 :> {a1} @@ db1 :> {a2})
MCWildcards == {any}
MCClientIntents == {c1, c2}
MCMatches == (any :> {api1})
Domains(names) == [hasInternet |-> TRUE, domains |-> names]
NoInternet == [hasInternet |-> FALSE, domains |-> {}]
MCSpecs == (c1 :> {Domains({api1}), Domains({}), NoInternet} @@ c2 :> {Domains({any})})
=============================================================================
