--------------------------- MODULE TimingStatistics ---------------------------
(***************************************************************************)
(* How long requests took, by the minute.  A request is saved when it ends *)
(* and counted in the minute it started, so that a slow one changes a      *)
(* minute long past.  The totals of a rolling range are kept and only the  *)
(* minutes that may have changed are read again; the details of requests   *)
(* are kept apart, so many for each class.                                 *)
(***************************************************************************)
EXTENDS Naturals, Sequences, FiniteSets

CONSTANTS
    Bucket,       \* TimingSampleBucketMS
    TimingSpan,         \* length of the range
    TimingOverlap,      \* actualModelOverlap
    TimingReconcile,    \* actualModelReconcile
    Keep,         \* details kept of each class
    LastTime,     \* bound of the clock
    MaxSamples    \* bound: requests

ASSUME TimingsAssumption ==
    /\ {Bucket, TimingSpan, TimingReconcile, Keep, LastTime} \subseteq Nat \ {0}
    /\ {TimingOverlap, MaxSamples} \subseteq Nat

VARIABLES
    time,
    samples,     \* the table, in the order of arrival (rowid)
    details,     \* rowids of the details that are kept
    totals,      \* the totals in memory: usageTimings
    rewritten    \* history: the table was rewritten since it was read in full

timingVars == <<time, samples, details, totals, rewritten>>

NoTotals == [kept |-> FALSE, from |-> 0, to |-> 0, cursor |-> 0, due |-> 0, minutes |-> [m \in {} |-> 0]]
MinuteOf(at) == (at \div Bucket) * Bucket
Max2(a, b) == IF a > b THEN a ELSE b
Min2(a, b) == IF a < b THEN a ELSE b

TimingsTypeOK ==
    /\ time \in 1..LastTime /\ Len(samples) <= MaxSamples
    /\ samples \in Seq([at : 0..LastTime, traced : BOOLEAN])
    /\ details \subseteq 1..Len(samples) /\ rewritten \in BOOLEAN
    /\ totals = [kept |-> totals.kept, from |-> totals.from, to |-> totals.to, cursor |-> totals.cursor,
                 due |-> totals.due, minutes |-> totals.minutes]
    /\ {totals.from, totals.to, totals.cursor, totals.due} \subseteq Nat /\ totals.kept \in BOOLEAN
    /\ totals.kept => totals.from < totals.to /\ \A m \in DOMAIN totals.minutes : m = MinuteOf(m)

TimingsInit ==
    /\ time = 1 /\ samples = << >> /\ details = {} /\ totals = NoTotals /\ rewritten = FALSE

Passes == time < LastTime /\ time' = time + 1 /\ UNCHANGED <<samples, details, totals, rewritten>>

-----------------------------------------------------------------------------
(* SaveGatewayRequestTiming: one transaction.                              *)

Later(table, i, j) == table[i].at > table[j].at \/ (table[i].at = table[j].at /\ i > j)

\* Mutant: the limit is one for all.
NewestOfAll(table, rows) ==
    {i \in rows : Cardinality({j \in rows : Later(table, j, i)}) < Keep}

\* The newest of each class by the time they started.
NewerRows(table, rows, i) == {j \in rows : table[j].traced = table[i].traced /\ Later(table, j, i)}
Newest(table, rows) == {i \in rows : Cardinality(NewerRows(table, rows, i)) < Keep}

SaveTiming(at, traced) ==
    LET table == Append(samples, [at |-> at, traced |-> traced]) IN
    /\ Len(samples) < MaxSamples /\ at < time
    /\ samples' = table /\ details' = Newest(table, details \cup {Len(table)})
    /\ UNCHANGED <<time, totals, rewritten>>

\* The database is replaced by an older one.
RewriteTable ==
    /\ Len(samples) > 0 /\ samples' = SubSeq(samples, 1, Len(samples) - 1)
    /\ details' = Newest(samples', 1..Len(samples'))
    /\ rewritten' = totals.kept
    /\ UNCHANGED <<time, totals>>

-----------------------------------------------------------------------------
(* ReadUsageTimings: one statement, one snapshot.                          *)

Started(from, to) == {i \in 1..Len(samples) : from <= samples[i].at /\ samples[i].at < to}
Count(rows) == [m \in {MinuteOf(samples[i].at) : i \in rows} |->
                   Cardinality({i \in rows : MinuteOf(samples[i].at) = m})]

RecentFrom(from) == LET back == IF totals.to > TimingOverlap THEN totals.to - TimingOverlap ELSE 0 IN
              Max2(from, MinuteOf(back))
EdgeTo(from, to) == Min2(Min2(to, MinuteOf(from) + Bucket), RecentFrom(from))

\* Mutant: only new rows of past minutes are read, not the minutes they are in.
LateAlone(from, to) == {i \in Started(EdgeTo(from, to), RecentFrom(from)) : i > totals.cursor}

\* The minutes of the past that rows arrived in since.
Late(from, to) ==
    {i \in Started(EdgeTo(from, to), RecentFrom(from)) :
        \E j \in Started(EdgeTo(from, to), RecentFrom(from)) :
            j > totals.cursor /\ MinuteOf(samples[j].at) = MinuteOf(samples[i].at)}

\* The lower edge, the recent minutes and the late ones.
Changed(from, to) == Started(from, EdgeTo(from, to)) \cup Started(RecentFrom(from), to) \cup Late(from, to)

-----------------------------------------------------------------------------
(* withUsageTimings.                                                       *)

Fits(from, to) == from >= totals.from /\ to >= totals.to /\ from < totals.to
Valid(from, to) == totals.kept /\ time < totals.due /\ Fits(from, to)

Full(from, to) == [kept |-> TRUE, from |-> from, to |-> to, cursor |-> Len(samples),
                   due |-> time + TimingReconcile, minutes |-> Count(Started(from, to))]

\* What is kept: whole minutes between the edge and the recent ones.
KeptMinutes(from, to) == {m \in DOMAIN totals.minutes : m > MinuteOf(from) /\ m < to /\ m < RecentFrom(from)}
Increment(from, to) ==
    LET new == Count(Changed(from, to)) IN
    [totals EXCEPT !.from = from, !.to = to, !.cursor = Len(samples),
        !.minutes = [m \in KeptMinutes(from, to) \cup DOMAIN new |->
                        IF m \in DOMAIN new THEN new[m] ELSE totals.minutes[m]]]

\* A cursor that went back tells that the table was rewritten.
ReadTimings(refresh) ==
    LET from == IF time > TimingSpan THEN time - TimingSpan ELSE 0
        delta == ~refresh /\ Valid(from, time) /\ Len(samples) >= totals.cursor IN
    /\ totals' = IF delta THEN Increment(from, time) ELSE Full(from, time)
    /\ rewritten' = (delta /\ rewritten)
    /\ UNCHANGED <<time, samples, details>>

\* The statement fails, or other scopes need the room.
DropTotals ==
    /\ totals.kept /\ totals' = NoTotals /\ rewritten' = FALSE
    /\ UNCHANGED <<time, samples, details>>

TimingsNext ==
    \/ \E at \in 0..LastTime, traced \in BOOLEAN : SaveTiming(at, traced)
    \/ \E refresh \in BOOLEAN : ReadTimings(refresh)
    \/ Passes \/ RewriteTable \/ DropTotals

TimingsSpec == TimingsInit /\ [][TimingsNext]_timingVars

-----------------------------------------------------------------------------
\* The totals of a range are, minute by minute, those of all requests that had
\* been saved when they were last read, however late a slow request arrived and
\* however the edge of the range cuts a minute; none is counted twice or lost
\* (ReadUsageTimings).  The details that are kept are the newest of each class:
\* no crowd of requests without a trace drives out one that can be looked up
\* (SaveGatewayRequestTiming).
TimingsAreRight ==
    /\ totals.kept /\ ~rewritten =>
          totals.minutes = Count({i \in Started(totals.from, totals.to) : i <= totals.cursor})
    /\ \A i \in DOMAIN samples : i \in details <=> Cardinality(NewerRows(samples, DOMAIN samples, i)) < Keep

-----------------------------------------------------------------------------
(* Why it holds.                                                           *)

\* The rows of the last read are still there: those that came since have higher
\* rowids.
TimingsInv ==
    /\ TimingsTypeOK /\ TimingsAreRight
    /\ totals.kept /\ ~rewritten => totals.cursor <= Len(samples)
=============================================================================
