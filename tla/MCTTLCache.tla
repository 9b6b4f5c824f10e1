------------------------------ MODULE MCTTLCache ------------------------------
(* Two names with two addresses each and room for two of the four; reads *)
(* of one name, or of both by a wildcard.                                *)
EXTENDS TTLCache

CONSTANTS api, db, a1, a2

MCK == {api, db}
MCV == {a1, a2}
MCTTLs == {0, 1}
MCPatterns == {{api}, {db}, {api, db}}
=============================================================================
