------------------------------ MODULE MCReporters ------------------------------
\* The reporters by themselves.
EXTENDS ClusterReporters

MCSpec == ReporterSpec /\ ReporterFairness
=============================================================================
