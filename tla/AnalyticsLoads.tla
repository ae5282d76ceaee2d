---------------------------- MODULE AnalyticsLoads ----------------------------
(***************************************************************************)
(* Queries of usage shared by the pages that ask for the same scope.  An   *)
(* automatic load is content with the cache and with any query that runs;  *)
(* a manual refresh wants a query that counts everything anew, its own or  *)
(* that of another refresh.  One scope is modelled: scopes share nothing.  *)
(***************************************************************************)
EXTENDS Naturals

CONSTANTS
    Callers,      \* page loads
    MaxQueries,   \* bound: queries
    CacheOn       \* CacheTTL > 0

ASSUME LoadsAssumption == Callers # {} /\ MaxQueries \in Nat /\ CacheOn \in BOOLEAN

VARIABLES
    kept,     \* the cache: [query, full, fresh], query 0 for none
    flight,     \* the query that runs
    caller,
    queries     \* number of queries begun

loadVars == <<kept, flight, caller, queries>>

NoResult == [query |-> 0, full |-> FALSE]
NotStored == [query |-> 0, full |-> FALSE, fresh |-> FALSE]
NoFlight == [step |-> "none", refresh |-> FALSE, query |-> 0, ok |-> FALSE, keep |-> FALSE]
NewCaller == [step |-> "idle", refresh |-> FALSE, floor |-> 0, got |-> NoResult, from |-> "none"]

LoadsTypeOK ==
    /\ queries \in 0..MaxQueries /\ kept.query \in 0..queries
    /\ flight.step \in {"none", "fetch", "store", "end"} /\ flight.query \in 0..queries
    /\ \A c \in Callers : caller[c].step \in {"idle", "look", "wait", "after", "answered", "failed", "left"}

LoadsInit ==
    /\ kept = NotStored /\ flight = NoFlight /\ queries = 0
    /\ caller = [c \in Callers |-> NewCaller]

Call(c, refresh) ==
    /\ caller[c].step = "idle"
    /\ caller' = [caller EXCEPT ![c].step = "look", ![c].refresh = refresh, ![c].floor = kept.query]
    /\ UNCHANGED <<kept, flight, queries>>

KeptHit == CacheOn /\ kept.query # 0 /\ kept.fresh

\* An automatic load takes the cache.
TakeStored(c) ==
    /\ caller[c].step = "look" /\ ~caller[c].refresh /\ KeptHit
    /\ caller' = [caller EXCEPT ![c].step = "answered", ![c].from = "cache",
                                ![c].got = [query |-> kept.query, full |-> kept.full]]
    /\ UNCHANGED <<kept, flight, queries>>

Running == flight.step # "none"
Misses(c) == caller[c].step = "look" /\ (caller[c].refresh \/ ~KeptHit)
AfterMiss(c) == IF caller[c].refresh \/ ~CacheOn THEN kept ELSE NotStored

\* Mutant: a refresh joins whatever query runs.
JoinAny(c) ==
    /\ Misses(c) /\ Running
    /\ caller' = [caller EXCEPT ![c].step = "wait"]
    /\ kept' = AfterMiss(c) /\ UNCHANGED <<flight, queries>>

\* A query that runs is joined, but by a refresh only when it is one.
Join(c) ==
    /\ Misses(c) /\ Running /\ (caller[c].refresh => flight.refresh)
    /\ caller' = [caller EXCEPT ![c].step = "wait"]
    /\ kept' = AfterMiss(c) /\ UNCHANGED <<flight, queries>>

\* A refresh that meets an automatic query waits for its end and looks again.
WaitForOther(c) ==
    /\ Misses(c) /\ Running /\ caller[c].refresh /\ ~flight.refresh
    /\ caller' = [caller EXCEPT ![c].step = "after"]
    /\ UNCHANGED <<kept, flight, queries>>

StartQuery(c) ==
    /\ Misses(c) /\ ~Running /\ queries < MaxQueries
    /\ queries' = queries + 1
    /\ flight' = [NoFlight EXCEPT !.step = "fetch", !.refresh = caller[c].refresh, !.query = queries + 1]
    /\ caller' = [caller EXCEPT ![c].step = "wait"]
    /\ kept' = AfterMiss(c)

\* The query answers, fails, panics or takes too long; statistics whose times
\* are missing are shown but not kept.
Fetched(ok, keep) ==
    /\ flight.step = "fetch" /\ (keep => ok)
    /\ flight' = [flight EXCEPT !.step = IF keep THEN "store" ELSE "end", !.ok = ok, !.keep = keep]
    /\ UNCHANGED <<kept, caller, queries>>

PutCache ==
    /\ flight.step = "store"
    /\ kept' = IF CacheOn THEN [query |-> flight.query, full |-> flight.refresh, fresh |-> TRUE] ELSE kept
    /\ flight' = [flight EXCEPT !.step = "end"]
    /\ UNCHANGED <<caller, queries>>

\* Mutant: those who wait for the end of another query are not woken.
LandOnly ==
    /\ flight.step = "end" /\ flight' = NoFlight
    /\ caller' = [c \in Callers |->
          IF caller[c].step # "wait" THEN caller[c]
          ELSE IF flight.ok THEN [caller[c] EXCEPT !.step = "answered", !.from = "query",
                                     !.got = [query |-> flight.query, full |-> flight.refresh]]
          ELSE [caller[c] EXCEPT !.step = "failed"]]
    /\ UNCHANGED <<kept, queries>>

\* The end of the query, under the lock, for everybody who waits.
LandQuery ==
    /\ flight.step = "end" /\ flight' = NoFlight
    /\ caller' = [c \in Callers |->
          CASE caller[c].step = "after" -> [caller[c] EXCEPT !.step = "look"]
            [] caller[c].step = "wait" /\ flight.ok ->
                 [caller[c] EXCEPT !.step = "answered", !.from = "query",
                     !.got = [query |-> flight.query, full |-> flight.refresh]]
            [] caller[c].step = "wait" /\ ~flight.ok -> [caller[c] EXCEPT !.step = "failed"]
            [] OTHER -> caller[c]]
    /\ UNCHANGED <<kept, queries>>

\* A reader who leaves does not cancel the query of the others.
LeaveLoad(c) ==
    /\ caller[c].step \in {"look", "wait", "after"}
    /\ caller' = [caller EXCEPT ![c].step = "left"]
    /\ UNCHANGED <<kept, flight, queries>>

ExpireStored ==
    /\ kept.fresh /\ kept' = [kept EXCEPT !.fresh = FALSE]
    /\ UNCHANGED <<flight, caller, queries>>

LoadsNext ==
    \/ \E c \in Callers :
          \/ \E refresh \in BOOLEAN : Call(c, refresh)
          \/ TakeStored(c) \/ Join(c) \/ WaitForOther(c) \/ StartQuery(c) \/ LeaveLoad(c)
    \/ \E ok, keep \in BOOLEAN : Fetched(ok, keep)
    \/ PutCache \/ LandQuery \/ ExpireStored

LoadsSpec == LoadsInit /\ [][LoadsNext]_loadVars

-----------------------------------------------------------------------------
\* A manual refresh is answered by a query that counted everything anew and
\* never by the cache or an automatic query; nobody is given a result older
\* than the one the cache held when he asked; and whoever waits, waits for a
\* query that runs, so that its end or its time limit wakes him (loadAnalytics).
RefreshIsFull ==
    \A c \in Callers :
        /\ caller[c].step = "answered" =>
              /\ caller[c].refresh => caller[c].got.full /\ caller[c].from = "query"
              /\ caller[c].got.query >= caller[c].floor
        /\ caller[c].step \in {"wait", "after"} => Running
=============================================================================
