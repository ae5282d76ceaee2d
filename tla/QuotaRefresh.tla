----------------------------- MODULE QuotaRefresh -----------------------------
(***************************************************************************)
(* The quota of the upstream accounts: the manual refresh in the           *)
(* background, the pages that refresh what has expired, the cached pool of *)
(* the shared pages, and the administrator who disables an account.  The   *)
(* fetches of all of them are serialised by quotaFetchMu; the clock a page *)
(* judges freshness by is read before it waits for that lock.              *)
(*                                                                         *)
(* CPA keeps a cooldown for an account that ran out; a fetch that sees the *)
(* provider allow the account again lifts it.                              *)
(***************************************************************************)
EXTENDS Naturals, FiniteSets

CONSTANTS
    Codex, Antigravity,   \* accounts of the two channels
    Visits,               \* page loads
    TTL, PoolTTL,         \* QuotaCacheTTL and CacheTTL
    Minute,               \* between two attempts for an Antigravity account
    Pause,                \* RefreshCooldown
    LastClock, MaxTurns,  \* bounds: time, changes of the provider's answer
    MaxEnabled            \* bound: accounts that are enabled at once

ASSUME QuotaAssumption ==
    /\ Codex \cap Antigravity = {} /\ {"manual", "nobody"} \cap Visits = {}
    /\ {TTL, PoolTTL, Minute, Pause, MaxTurns, MaxEnabled} \subseteq Nat /\ LastClock \in Nat \ {0}

VARIABLES
    clock,      \* k.Now()
    provider,   \* what the provider answers for each account
    turns,      \* changes of it
    blocked,    \* number of the cooldown CPA has in place, 0 for none
    disabled,   \* disabled accounts, in CPA
    rows,       \* refreshedQuota and antigravityQuota
    attempts,   \* antigravityAttempt, 0 when there is none
    pool,       \* the cached pool
    refresh,    \* [running, next]: QuotaRefreshStatus
    mutex,      \* who holds quotaFetchMu
    work,       \* what the refresh and the page loads do
    setter,     \* SetUpstreamAccountDisabled
    asked,      \* history: when each Antigravity account was last asked
    hasty       \* history: a page asked one less than a minute after it was asked

quotaVars == <<clock, provider, turns, blocked, disabled, rows, attempts, pool, refresh,
               mutex, work, setter, asked, hasty>>

Accounts == Codex \cup Antigravity
Workers == Visits \cup {"manual"}

\* What a Codex account answers: whether every window it names, of five hours, a
\* week or a month, has something left, and whether the provider says outright that
\* the account may be used.  An answer without a window is a failed one.
Answers == [usable : BOOLEAN, allowed : BOOLEAN]
Sane(q) == q.allowed => q.usable
NoAnswer == [usable |-> FALSE, allowed |-> FALSE]
NoRow == [at |-> 0, quota |-> NoAnswer, listed |-> 0, resets |-> 0]
NoPool == [until |-> 0, total |-> {}, known |-> {}, usable |-> {}]
Rest == [step |-> "idle", channel |-> Codex, at |-> 0, left |-> {}, file |-> "",
         listed |-> [a \in Accounts |-> 0], got |-> NoAnswer, any |-> FALSE,
         seen |-> {}, pool |-> NoPool]

QuotaTypeOK ==
    /\ clock \in 1..LastClock /\ turns \in 0..MaxTurns
    /\ DOMAIN provider = Accounts /\ disabled \subseteq Accounts
    /\ \A a \in Accounts : rows[a].at \in 0..LastClock /\ rows[a].quota \in Answers
    /\ attempts \in [Antigravity -> 0..LastClock] /\ hasty \in BOOLEAN
    /\ mutex \in Workers \cup {"nobody"}
    /\ \A w \in Workers : work[w].left \subseteq Accounts

Few(off) == Cardinality(Accounts \ off) <= MaxEnabled

QuotaInit ==
    /\ clock = 1 /\ turns = 0 /\ blocked \in [Accounts -> 0..1]
    /\ disabled \in SUBSET Accounts /\ Few(disabled)
    /\ \A a \in Antigravity : blocked[a] = 0
    /\ provider = [a \in Accounts |-> [usable |-> TRUE, allowed |-> TRUE]]
    /\ rows = [a \in Accounts |-> NoRow] /\ attempts = [a \in Antigravity |-> 0]
    /\ pool = NoPool /\ refresh = [running |-> FALSE, next |-> 0]
    /\ mutex = "nobody" /\ work = [w \in Workers |-> Rest] /\ setter = "idle"
    /\ asked = attempts /\ hasty = FALSE

World == <<clock, provider, turns, disabled, setter>>
Caches == <<rows, attempts, pool>>

-----------------------------------------------------------------------------
PassTime ==
    /\ clock < LastClock /\ clock' = clock + 1
    /\ UNCHANGED <<provider, turns, blocked, disabled, refresh, mutex, work, setter, asked, hasty>>
    /\ UNCHANGED Caches

\* A Codex account runs out or recovers; when it ran out CPA may put a cooldown on
\* it.  No request goes out for a disabled one, and what an Antigravity account has
\* left is shown and decides nothing.
ProviderTurns(a) ==
    /\ a \in Codex \ disabled /\ turns < MaxTurns /\ turns' = turns + 1
    /\ \E q \in {q \in Answers : Sane(q)} \ {provider[a]} : provider' = [provider EXCEPT ![a] = q]
    /\ \/ UNCHANGED blocked
       \/ ~provider'[a].allowed /\ blocked' = [blocked EXCEPT ![a] = turns + 2]
    /\ UNCHANGED <<clock, disabled, refresh, mutex, work, setter, asked, hasty>> /\ UNCHANGED Caches

WorkStep(w, step) == work' = [work EXCEPT ![w].step = step]
WorkDone(w) == work' = [work EXCEPT ![w] = Rest]
WorkerKeeps == UNCHANGED World /\ UNCHANGED <<blocked, refresh, asked, hasty>>

\* StartQuotaRefresh.
StartRefresh ==
    /\ ~refresh.running /\ clock >= refresh.next
    /\ refresh' = [running |-> TRUE, next |-> clock + Pause]
    /\ WorkStep("manual", "lock")
    /\ UNCHANGED World /\ UNCHANGED Caches /\ UNCHANGED <<blocked, mutex, asked, hasty>>

\* UpstreamQuota: the pool of the Codex accounts, if it is still cached.  The page
\* of the accounts reads the same rows in the same way and keeps no pool.
OpenPool(v) ==
    /\ work[v].step = "idle"
    /\ IF pool.until # 0 /\ clock <= pool.until
       THEN WorkDone(v) /\ UNCHANGED pool
       ELSE WorkStep(v, "list") /\ pool' = NoPool
    /\ WorkerKeeps /\ UNCHANGED <<rows, attempts, mutex>>

\* UpstreamAccountQuotas for Antigravity.
OpenAntigravity(v) ==
    /\ work[v].step = "idle"
    /\ work' = [work EXCEPT ![v].step = "list", ![v].channel = Antigravity]
    /\ WorkerKeeps /\ UNCHANGED Caches /\ UNCHANGED mutex

\* ListAuthFiles: enabled accounts with the cooldowns they have at this moment.
Listed(w, channel, step) ==
    LET on == channel \ disabled IN
    work' = [work EXCEPT ![w] = [Rest EXCEPT !.step = step,
        !.channel = work[w].channel, !.at = clock,
        !.left = on, !.listed = [a \in Accounts |-> IF a \in on THEN blocked[a] ELSE 0],
        !.seen = on]]

\* A page reads its clock here, and waits for the lock after it.
ListForPage(v) ==
    LET channel == work[v].channel IN
    /\ v \in Visits /\ work[v].step = "list"
    /\ \/ channel \ disabled # {} /\ Listed(v, channel, "lock")
       \/ channel \ disabled = {} /\ channel = Codex
          /\ work' = [work EXCEPT ![v] = [Rest EXCEPT !.step = "store"]]
       \/ WorkDone(v)
    /\ WorkerKeeps /\ UNCHANGED Caches /\ UNCHANGED mutex

\* Antigravity pages read the clock under the lock.
Lock(w) ==
    /\ work[w].step = "lock" /\ mutex = "nobody" /\ mutex' = w
    /\ work' = [work EXCEPT ![w].step = IF w = "manual" THEN "list" ELSE "next",
                            ![w].at = IF work[w].channel = Antigravity THEN clock ELSE @]
    /\ WorkerKeeps /\ UNCHANGED Caches

Finished == refresh' = [refresh EXCEPT !.running = FALSE]

\* Mutant: a list that cannot be read ends the refresh without a word.
ListForRefreshSilent ==
    /\ work["manual"].step = "list"
    /\ \/ /\ \E channel \in {Codex, Antigravity, Accounts} :
                 channel \ disabled # {} /\ Listed("manual", channel, "next")
          /\ UNCHANGED <<refresh, mutex>>
       \/ work' = [work EXCEPT !["manual"] = Rest] /\ mutex' = "nobody" /\ UNCHANGED refresh
    /\ UNCHANGED World /\ UNCHANGED Caches /\ UNCHANGED <<blocked, asked, hasty>>

\* runQuotaRefresh: every way out of it ends the refresh, also without accounts.
ListForRefresh ==
    /\ work["manual"].step = "list"
    /\ \/ /\ \E channel \in {Codex, Antigravity, Accounts} :
                 channel \ disabled # {} /\ Listed("manual", channel, "next")
          /\ UNCHANGED <<refresh, mutex>>
       \/ work' = [work EXCEPT !["manual"] = Rest] /\ mutex' = "nobody" /\ Finished
    /\ UNCHANGED World /\ UNCHANGED Caches /\ UNCHANGED <<blocked, asked, hasty>>

\* A window of Antigravity is not fresh either once the time of its reset has come.
Fresh(row, t) ==
    /\ row.at # 0 /\ row.at <= t /\ t - row.at <= TTL
    /\ ~(row.at < row.resets /\ row.resets <= t)
Waits(a, t) == a \in Antigravity /\ attempts[a] # 0 /\ t < attempts[a] + Minute

\* A page leaves out what is fresh by its clock, or was tried a moment ago.
SkipFresh(v, a) ==
    /\ v \in Visits /\ work[v].step = "next" /\ a \in work[v].left
    /\ Fresh(rows[a], work[v].at) \/ Waits(a, work[v].at)
    /\ work' = [work EXCEPT ![v].left = @ \ {a}]
    /\ WorkerKeeps /\ UNCHANGED Caches /\ UNCHANGED mutex

Ask(w, a) ==
    /\ work[w].step = "next" /\ a \in work[w].left
    /\ (w \in Visits => ~Fresh(rows[a], work[w].at) /\ ~Waits(a, work[w].at))
    /\ work' = [work EXCEPT ![w].step = "asked", ![w].file = a, ![w].left = @ \ {a},
                            ![w].at = IF w = "manual" THEN clock ELSE @]
    /\ IF a \in Antigravity
       THEN /\ asked' = [asked EXCEPT ![a] = work'[w].at]
            /\ hasty' = (hasty \/ (w \in Visits /\ asked[a] # 0 /\ work[w].at < asked[a] + Minute))
       ELSE UNCHANGED <<asked, hasty>>
    /\ UNCHANGED World /\ UNCHANGED Caches /\ UNCHANGED <<blocked, refresh, mutex>>

-----------------------------------------------------------------------------
(* FetchCodexQuota and FetchAntigravityQuota.                              *)

\* The time of the reset an Antigravity answer may name; one of Codex is only shown.
ResetTimes(a) == IF a \in Antigravity THEN 0..LastClock ELSE {0}

Stored(w, a, q) ==
    \E t \in ResetTimes(a) :
        rows' = [rows EXCEPT ![a] =
                    [at |-> work[w].at, quota |-> q, listed |-> work[w].listed[a], resets |-> t]]
Dropped(a) == rows' = [rows EXCEPT ![a] = NoRow]
Next1(w, any) == work' = [work EXCEPT ![w].step = "next", ![w].any = @ \/ any, ![w].file = "",
                                     ![w].got = NoAnswer, ![w].listed[work[w].file] = 0]
Blocked(w) == work[w].listed[work[w].file] # 0

\* The answer of the provider through CPA's proxy; a cooldown that was listed
\* is lifted when the provider allows the account outright.
ProviderAnswers(w) ==
    LET a == work[w].file IN
    /\ work[w].step = "asked"
    /\ work' = [work EXCEPT ![w].got = provider[a],
          ![w].step = IF a \in Codex /\ Blocked(w) /\ provider[a].allowed THEN "reset" ELSE "put"]
    /\ WorkerKeeps /\ UNCHANGED Caches /\ UNCHANGED mutex

ResetCooldown(w) ==
    /\ work[w].step = "reset" /\ WorkStep(w, "put")
    /\ blocked' = [blocked EXCEPT ![work[w].file] = 0]
    /\ UNCHANGED World /\ UNCHANGED Caches /\ UNCHANGED <<refresh, mutex, asked, hasty>>

PutRow(w) ==
    LET a == work[w].file IN
    /\ work[w].step = "put" /\ Stored(w, a, work[w].got) /\ Next1(w, TRUE)
    /\ attempts' = IF a \in Antigravity THEN [attempts EXCEPT ![a] = work[w].at] ELSE attempts
    /\ UNCHANGED World /\ UNCHANGED <<blocked, refresh, pool, mutex, asked, hasty>>

\* Mutant: a fetch that failed is not remembered as an attempt.
FetchFailsUnseen(w) ==
    /\ work[w].step = "asked" /\ Dropped(work[w].file) /\ Next1(w, FALSE)
    /\ UNCHANGED World /\ UNCHANGED <<blocked, attempts, refresh, pool, mutex, asked, hasty>>

\* Mutant: a reset that failed leaves the row in place.
FetchFailsButReset(w) ==
    LET a == work[w].file IN
    /\ work[w].step \in {"asked", "reset"}
    /\ IF work[w].step = "reset" THEN Stored(w, a, work[w].got) ELSE Dropped(a)
    /\ Next1(w, work[w].step = "reset")
    /\ attempts' = IF a \in Antigravity THEN [attempts EXCEPT ![a] = work[w].at] ELSE attempts
    /\ UNCHANGED World /\ UNCHANGED <<blocked, refresh, pool, mutex, asked, hasty>>

\* The query or the reset fails: the row goes, the attempt is remembered.  A
\* reset whose answer is lost may have been carried out.
FetchFails(w) ==
    LET a == work[w].file IN
    /\ work[w].step \in {"asked", "reset"} /\ Dropped(a) /\ Next1(w, FALSE)
    /\ \/ UNCHANGED blocked
       \/ work[w].step = "reset" /\ blocked' = [blocked EXCEPT ![a] = 0]
    /\ attempts' = IF a \in Antigravity THEN [attempts EXCEPT ![a] = work[w].at] ELSE attempts
    /\ UNCHANGED World /\ UNCHANGED <<refresh, pool, mutex, asked, hasty>>

-----------------------------------------------------------------------------
EndFetch(v) ==
    /\ v \in Visits /\ work[v].step = "next" /\ (work[v].left = {} \/ work[v].any)
    /\ mutex' = "nobody"
    /\ IF work[v].channel = Codex
       THEN WorkStep(v, "sum") /\ pool' = IF work[v].any THEN NoPool ELSE pool
       ELSE WorkDone(v) /\ UNCHANGED pool
    /\ WorkerKeeps /\ UNCHANGED <<rows, attempts>>

\* The timeout of the whole refresh may end it early.
EndRefresh ==
    /\ work["manual"].step = "next"
    /\ Finished /\ mutex' = "nobody" /\ pool' = NoPool
    /\ work' = [work EXCEPT !["manual"] = Rest]
    /\ UNCHANGED World /\ UNCHANGED <<blocked, rows, attempts, asked, hasty>>

Current(v) == {a \in Codex : Fresh(rows[a], work[v].at)}

\* The accounts the page counts; the rows of those that only others listed are
\* left out.
Summary(v) ==
    LET known == Current(v) \cap work[v].seen IN
    [NoPool EXCEPT !.total = work[v].seen, !.known = known,
                   !.usable = {a \in known : rows[a].quota.usable}]

\* currentRefreshedQuota drops every row that is not fresh by this clock; a page
\* that is left with none fails.
SumUp(v) ==
    /\ work[v].step = "sum"
    /\ rows' = [a \in Accounts |-> IF a \in Codex \ Current(v) THEN NoRow ELSE rows[a]]
    /\ IF Current(v) # {}
       THEN work' = [work EXCEPT ![v] = [Rest EXCEPT !.step = "store", !.pool = Summary(v)]]
       ELSE WorkDone(v)
    /\ WorkerKeeps /\ UNCHANGED <<attempts, pool, mutex>>

\* putQuota.
StorePool(v) ==
    /\ work[v].step = "store" /\ WorkDone(v)
    /\ pool' = [work[v].pool EXCEPT !.until = clock + PoolTTL]
    /\ WorkerKeeps /\ UNCHANGED <<rows, attempts, mutex>>

-----------------------------------------------------------------------------
(* SetUpstreamAccountDisabled: written, confirmed, then the caches go.  A   *)
(* behaviour has one such change (bound).                                  *)

SetDisabled(a) ==
    /\ setter = "idle" /\ setter' = "written"
    /\ disabled' \in {disabled \ {a}, disabled \cup {a}} /\ Few(disabled')
    /\ UNCHANGED <<clock, provider, turns, blocked, refresh, mutex, work, asked, hasty>>
    /\ UNCHANGED Caches

ConfirmDisabled ==
    /\ setter = "written" /\ setter' = "done"
    /\ \/ /\ rows' = [a \in Accounts |-> NoRow] /\ pool' = NoPool
          /\ attempts' = [a \in Antigravity |-> 0] /\ asked' = attempts'
       \/ UNCHANGED Caches /\ UNCHANGED asked
    /\ UNCHANGED <<clock, provider, turns, blocked, disabled, refresh, mutex, work, hasty>>

QuotaNext ==
    \/ PassTime \/ StartRefresh \/ ListForRefresh \/ EndRefresh \/ ConfirmDisabled
    \/ \E a \in Accounts : ProviderTurns(a) \/ SetDisabled(a)
    \/ \E v \in Visits : \/ OpenPool(v) \/ OpenAntigravity(v) \/ ListForPage(v)
                         \/ EndFetch(v) \/ SumUp(v) \/ StorePool(v)
    \/ \E w \in Workers : \/ Lock(w) \/ ProviderAnswers(w) \/ ResetCooldown(w)
                          \/ PutRow(w) \/ FetchFails(w)
                          \/ \E a \in Accounts : SkipFresh(w, a) \/ Ask(w, a)

QuotaSpec == QuotaInit /\ [][QuotaNext]_quotaVars

-----------------------------------------------------------------------------
\* The quota shown is the quota the gateway routes by: a row that was fetched
\* while CPA had the account in a cooldown and that says the provider allows it
\* is kept only if that cooldown is gone (FetchCodexQuota: "Do not report a
\* successful refresh while routing remains blocked").  The button that starts
\* a refresh works again once the refresh has ended, however it ended.  No page
\* asks an Antigravity account within a minute of the page or refresh that asked
\* it last, as each of them read the clock, whether that query failed or not and
\* whatever overlaps, unless an administrator cleared the caches in between.
QuotaHonest ==
    /\ \A a \in Codex : rows[a].quota.allowed /\ rows[a].listed # 0 => blocked[a] # rows[a].listed
    /\ refresh.running <=> work["manual"].step # "idle"
    /\ ~hasty

-----------------------------------------------------------------------------
(* The inductive invariant of the proof.                                   *)

Pools == [until : Nat, total : SUBSET Accounts, known : SUBSET Accounts, usable : SUBSET Accounts]
WorkRecords == [step : {"idle", "list", "lock", "next", "asked", "reset", "put", "sum",
                        "store"},
                channel : SUBSET Accounts, at : 0..LastClock, left : SUBSET Accounts,
                file : Accounts \cup {""}, listed : [Accounts -> Nat], got : Answers, any : BOOLEAN,
                seen : SUBSET Accounts, pool : Pools]

QuotaTypes ==
    /\ clock \in 1..LastClock /\ turns \in 0..MaxTurns
    /\ provider \in [Accounts -> Answers] /\ blocked \in [Accounts -> Nat]
    /\ disabled \subseteq Accounts
    /\ rows \in [Accounts -> [at : 0..LastClock, quota : Answers, listed : Nat, resets : Nat]]
    /\ attempts \in [Antigravity -> 0..LastClock] /\ asked \in [Antigravity -> 0..LastClock]
    /\ mutex \in Workers \cup {"nobody"} /\ work \in [Workers -> WorkRecords]
    /\ refresh \in [running : BOOLEAN, next : Nat] /\ pool \in Pools

Asks(x) == x.step \in {"asked", "reset", "put"}
HoldsMutex(w, x) == Asks(x) \/ x.step = "next" \/ (w = "manual" /\ x.step = "list")

\* A cooldown has a number of its own, so that one that is lifted stays lifted.
Numbers == \A a \in Accounts : blocked[a] <= turns + 1 /\ rows[a].listed <= turns + 1
Lifted(a, quota, number) == a \in Codex /\ quota.allowed /\ number # 0 => blocked[a] # number

WorkerOK(w, x) ==
    /\ Asks(x) => x.file \in Accounts /\ (x.file \in Antigravity => asked[x.file] <= x.at)
    /\ HoldsMutex(w, x) => mutex = w
    /\ \A a \in Accounts : x.listed[a] <= turns + 1
    /\ x.step = "put" => Lifted(x.file, x.got, x.listed[x.file])

\* Only who holds the lock has asked for an account and not yet noted it.
AttemptsNoted ==
    \A a \in Antigravity : asked[a] <= attempts[a]
        \/ \E w \in Workers : mutex = w /\ Asks(work[w]) /\ work[w].file = a

QuotaInv ==
    /\ QuotaTypes /\ Numbers /\ AttemptsNoted
    /\ \A w \in Workers : WorkerOK(w, work[w])
    /\ \A a \in Accounts : Lifted(a, rows[a].quota, rows[a].listed)
    /\ hasty = FALSE
    /\ refresh.running <=> work["manual"].step # "idle"
=============================================================================
