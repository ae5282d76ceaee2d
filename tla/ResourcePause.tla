----------------------------- MODULE ResourcePause -----------------------------
(***************************************************************************)
(* When the controller stops admitting requests because the machine is     *)
(* under pressure.  Samples come every two seconds, late, or not at all    *)
(* for a while; times are counted in units of five seconds, and a sample   *)
(* is what the thresholds make of it.                                      *)
(***************************************************************************)
EXTENDS Integers

CONSTANTS
    HighFor,      \* high this long: pause (15 s)
    RecoverFor,   \* low this long: admit again (10 s)
    MaxGap,       \* samples further apart than this are not continuous (10 s)
    Gaps          \* times between two samples

ASSUME PauseAssumption == {HighFor, RecoverFor, MaxGap} \subseteq Nat \ {0} /\ Gaps \subseteq Nat \ {0}

VARIABLES
    paused,        \* Controller.paused
    highSince,     \* how long ago, at the last sample; None is the zero time
    recoverSince,
    log            \* history: the last samples under the policy, and how long ago they were

pauseVars == <<paused, highSince, recoverSince, log>>

None == -1
\* What a sample is: not fresh; memory over its limit; CPU over its limit;
\* CPU and memory under the marks of recovery; neither.
SampleKinds == {"stale", "memory", "high", "low", "middle"}
Longest == HighFor + RecoverFor
Of(kind, ago) == [kind |-> kind, ago |-> ago]

PauseTypeOK ==
    /\ paused \in {"no", "memory_pressure", "cpu_pressure"}
    /\ highSince \in None..Longest /\ recoverSince \in None..RecoverFor
    /\ log \subseteq [kind : SampleKinds, ago : Nat]

PauseInit == paused = "no" /\ highSince = None /\ recoverSince = None /\ log = {}

-----------------------------------------------------------------------------
\* The last samples were of these kinds without a gap, and for so long.
RunOf(kinds) == {s \in log : \A t \in log : t.ago <= s.ago => t.kind \in kinds}
Held(kinds, long) == \E s \in RunOf(kinds) : s.ago >= long

\* Only as much of the log as the properties look at: since the last gap, or the
\* last sample that is neither high nor low, and of those that are long enough
\* ago the last one.
Enough == IF HighFor > RecoverFor THEN HighFor ELSE RecoverFor
LogLater(gap) == {Of(s.kind, s.ago + gap) : s \in log}
Remember(gap, kind) ==
    {Of(kind, 0)} \cup
    IF gap > MaxGap \/ kind \in {"stale", "middle"} THEN {}
    ELSE {s \in LogLater(gap) : \A t \in LogLater(gap) : t.ago < s.ago => t.ago < Enough}

-----------------------------------------------------------------------------
\* UpdateMetrics.
Since(since, gap) ==
    IF since = None \/ gap > MaxGap THEN None
    ELSE IF since + gap > Longest THEN Longest ELSE since + gap
StartedBy(since) == IF since = None THEN 0 ELSE since

Sampled(gap, kind) == gap \in Gaps /\ log' = Remember(gap, kind)

StaleSample(gap) ==
    /\ Sampled(gap, "stale") /\ highSince' = None /\ recoverSince' = None /\ UNCHANGED paused

\* Returns before the time of high CPU is looked at.
MemorySample(gap) ==
    /\ Sampled(gap, "memory") /\ paused' = "memory_pressure"
    /\ highSince' = Since(highSince, gap) /\ recoverSince' = None

HighSample(gap) ==
    LET high == StartedBy(Since(highSince, gap)) IN
    /\ Sampled(gap, "high") /\ highSince' = high /\ recoverSince' = None
    /\ paused' = IF high >= HighFor THEN "cpu_pressure" ELSE paused

MiddleSample(gap) ==
    /\ Sampled(gap, "middle") /\ highSince' = None /\ recoverSince' = None /\ UNCHANGED paused

\* Mutant: a gap between samples does not end the time of recovery.
LowSampleAcrossGaps(gap) ==
    LET low == IF recoverSince = None THEN 0 ELSE recoverSince + gap IN
    /\ Sampled(gap, "low") /\ highSince' = None
    /\ IF paused = "no" \/ low >= RecoverFor
       THEN paused' = "no" /\ recoverSince' = None
       ELSE paused' = paused /\ recoverSince' = low

LowSample(gap) ==
    LET low == StartedBy(Since(recoverSince, gap)) IN
    /\ Sampled(gap, "low") /\ highSince' = None
    /\ IF paused = "no" \/ low >= RecoverFor
       THEN paused' = "no" /\ recoverSince' = None
       ELSE paused' = paused /\ recoverSince' = low

\* SetPolicy forgets the pause and the times.
NewPolicy == paused' = "no" /\ highSince' = None /\ recoverSince' = None /\ log' = {}

PauseNext ==
    \/ \E gap \in Gaps : StaleSample(gap) \/ MemorySample(gap) \/ HighSample(gap)
                         \/ MiddleSample(gap) \/ LowSample(gap)
    \/ NewPolicy

PauseSpec == PauseInit /\ [][PauseNext]_pauseVars

-----------------------------------------------------------------------------
Earned ==
    /\ paused = "no" /\ paused' = "cpu_pressure" => Held({"high"}, HighFor)'
    /\ paused = "memory_pressure" /\ paused' = "cpu_pressure" => Held({"high", "memory"}, HighFor)'
    /\ paused # "no" /\ paused' = "no" => log' = {} \/ Held({"low"}, RecoverFor)'
    /\ Held({"high"}, HighFor)' => paused' = "cpu_pressure"
    /\ Held({"memory"}, 0)' => paused' = "memory_pressure"
    /\ Held({"low"}, RecoverFor)' => paused' = "no"

\* A pause is for the reason it shows and lasts as long: at once when memory is
\* over its limit; for CPU only after samples without a gap were high for
\* HighFor, where those with memory pressure count as high (the code returns
\* before it resets highSince); and it ends only by a new policy or after
\* samples without a gap were low for RecoverFor, but then it does end.
PauseIsEarned == [][Earned]_pauseVars

-----------------------------------------------------------------------------
(* Why it holds.                                                           *)

\* The times are those of runs in the log, in both directions: none is counted
\* without its samples, and no run goes uncounted.  A pause that is not there has
\* no memory sample in the run it would be for.
PauseInv ==
    /\ PauseTypeOK
    /\ highSince # None => \E s \in RunOf({"high", "memory"}) :
                               s.ago = highSince \/ (s.ago >= HighFor /\ highSince >= HighFor)
    /\ \A s \in RunOf({"high"}) : highSince # None /\ (highSince >= s.ago \/ highSince >= HighFor)
    /\ paused = "no" => \A s \in RunOf({"high", "memory"}) : s.kind # "memory"
    /\ recoverSince # None => /\ paused # "no" /\ recoverSince < RecoverFor
                              /\ \E s \in RunOf({"low"}) : s.ago = recoverSince
    /\ paused # "no" => \A s \in RunOf({"low"}) : recoverSince # None /\ recoverSince >= s.ago
=============================================================================
