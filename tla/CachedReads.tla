------------------------------ MODULE CachedReads ------------------------------
(***************************************************************************)
(* The two caches between the pages and CPA's management API: of single    *)
(* reads (UpstreamReads) and of whole evaluations of the usage             *)
(* (AnalyticsLoads).  They share nothing but the promise.                  *)
(***************************************************************************)
EXTENDS UpstreamReads, AnalyticsLoads

\* What a page is shown from a cache is what it asked for: a read that started
\* after a write is not answered with what was read before it, and a refresh by
\* hand is not answered with the result of an automatic load.
CachedReadsHold == ReadsFollowWrites /\ RefreshIsFull
=============================================================================
