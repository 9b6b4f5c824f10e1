---------------------------- MODULE MCResultsPath ----------------------------
\* Two keys, details and times: reports of one result and of two, in any order of time.
\* The two keys that are watched differ in their namespaces only.
EXTENDS Watchers

CONSTANTS k1, k2, excluded, d1, d2

MCKeys == {k1, k2, excluded}
MCNamesOf == [k \in MCKeys |-> IF k = k2 THEN k1 ELSE k]
MCExcluded == {excluded}
MCDetails == {d1, d2}

Result(key, lastSeen, detail) == [key |-> key, lastSeen |-> lastSeen, detail |-> detail]

MCReports ==
  {<<Result(k1, 2, d1)>>, <<Result(k1, 1, d2)>>, <<Result(k1, 1, d2), Result(k2, 2, d1)>>,
   <<Result(excluded, 1, d1), Result(k1, 1, d1)>>}
MCResults == UNION {ToSet(rep) : rep \in MCReports}
=============================================================================
