---------------------------- MODULE ReportPipeline ----------------------------
(***************************************************************************)
(* What the mapper promises about the facts it collects for the cloud: a   *)
(* fact is delivered at least once, unless its upload is given up.  Facts  *)
(* are collected while an upload is under way; an upload takes everything  *)
(* collected so far.  A request may reach the cloud without being          *)
(* acknowledged, and is then sent again.                                   *)
(***************************************************************************)
CONSTANT Facts

VARIABLES collected, inFlight, delivered, givenUp

pipelineVars == <<collected, inFlight, delivered, givenUp>>

PipelineInit ==
  collected = {} /\ inFlight = {} /\ delivered = {} /\ givenUp = {}

\* Facts are discovered, for the first time or again.
Discover ==
  /\ collected \subseteq collected' /\ collected' \subseteq Facts
  /\ UNCHANGED <<inFlight, delivered, givenUp>>

\* The next upload begins when nothing is left of the one before.
TakeAll ==
  /\ inFlight = {}
  /\ inFlight' = collected
  /\ collected' = {}
  /\ UNCHANGED <<delivered, givenUp>>

\* A request brings facts in flight to the cloud, or fails.
Receive == delivered \subseteq delivered' /\ delivered' \subseteq delivered \cup inFlight

\* The cloud receives some facts in flight; only those it has may leave.
Transfer ==
  /\ Receive
  /\ inFlight' \subseteq inFlight
  /\ inFlight \ inFlight' \subseteq delivered'
  /\ UNCHANGED <<collected, givenUp>>

\* The upload is abandoned, perhaps after a last request that was received.
GiveUp ==
  /\ Receive
  /\ inFlight' = {}
  /\ givenUp' = givenUp \cup inFlight
  /\ UNCHANGED collected

PipelineNext == Discover \/ TakeAll \/ Transfer \/ GiveUp

PipelineSpec == PipelineInit /\ [][PipelineNext]_pipelineVars
=============================================================================
