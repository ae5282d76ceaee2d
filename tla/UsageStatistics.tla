---------------------------- MODULE UsageStatistics ----------------------------
(***************************************************************************)
(* The two statistics of requests that the portal keeps up to date: calls  *)
(* by the model that answered, and times by the minute.  They share        *)
(* nothing, and make the same promise.                                     *)
(***************************************************************************)
EXTENDS ModelStatistics, TimingStatistics

\* The statistics kept step by step are those of a computation from the whole
\* of the requests: requests by model, and measured times by bucket.
StatisticsAreRight == ModelsAreRight /\ TimingsAreRight
=============================================================================
