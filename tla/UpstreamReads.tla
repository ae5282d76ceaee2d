----------------------------- MODULE UpstreamReads -----------------------------
(***************************************************************************)
(* The cache of management reads that read-only pages share: one request   *)
(* serves every page that waits for the same path, and a write fences both *)
(* the entries and the requests that left before it.                       *)
(*                                                                         *)
(* The answer to a path is the number of the last change of the upstream   *)
(* it shows.                                                               *)
(***************************************************************************)
EXTENDS Naturals, FiniteSets

CONSTANTS
    Pages,         \* requests for read-only pages
    Paths,         \* paths with a TTL
    Editors,       \* requests that change the upstream
    MaxEntries,    \* upstreamReadMaxEntries
    MaxSettings    \* bound: changes of the upstream

ASSUME ReadsAssumption ==
    /\ Pages # {} /\ Paths # {} /\ IsFiniteSet(Paths)
    /\ MaxEntries \in Nat \ {0} /\ MaxSettings \in Nat

VARIABLES
    settings,    \* number of changes the upstream has made
    fence,       \* generation: number of invalidations
    covered,     \* history: the changes made when the last write ended
    entries,     \* [value, fresh, age] for each path in the cache
    flights,     \* shared requests
    page,        \* what each page does
    editor       \* what each writer does

readVars == <<settings, fence, covered, entries, flights, page, editor>>

NoPage == [step |-> "idle", path |-> CHOOSE p \in Paths : TRUE, fence |-> 0, floor |-> 0, value |-> 0]

\* A flight is known by path and generation: two never share both.
Flight(path, gen) == [path |-> path, fence |-> gen, step |-> "asked", value |-> 0]
Key(f) == <<f.path, f.fence>>

ReadsTypeOK ==
    /\ settings \in 0..MaxSettings /\ covered \in 0..settings
    /\ DOMAIN entries \subseteq Paths /\ Cardinality(DOMAIN entries) <= MaxEntries
    /\ \A f, g \in flights : Key(f) = Key(g) => f = g
    /\ \A f \in flights : f.fence <= fence

ReadsInit ==
    /\ settings = 0 /\ fence = 0 /\ covered = 0
    /\ entries = [p \in {} |-> 0] /\ flights = {}
    /\ page = [r \in Pages |-> NoPage] /\ editor = [w \in Editors |-> "idle"]

-----------------------------------------------------------------------------
\* cachedUpstreamRead begins: floor is what this page may not miss.
OpenPage(r, p) ==
    /\ page[r].step = "idle"
    /\ page' = [page EXCEPT ![r] = [NoPage EXCEPT !.step = "look", !.path = p, !.floor = covered]]
    /\ UNCHANGED <<settings, fence, covered, entries, flights, editor>>

Hit(p) == p \in DOMAIN entries /\ entries[p].fresh

LookUp(r) ==
    LET p == page[r].path IN
    /\ page[r].step = "look" /\ Hit(p)
    /\ page' = [page EXCEPT ![r].step = "answered", ![r].value = entries[p].value]
    /\ UNCHANGED <<settings, fence, covered, entries, flights, editor>>

\* Joins the flight of this generation or starts one; an expired entry goes.
JoinFlight(r) ==
    LET p == page[r].path IN
    /\ page[r].step = "look" /\ ~Hit(p)
    /\ entries' = [q \in DOMAIN entries \ {p} |-> entries[q]]
    /\ flights' = IF \E f \in flights : Key(f) = <<p, fence>>
                  THEN flights ELSE flights \cup {Flight(p, fence)}
    /\ page' = [page EXCEPT ![r].step = "wait", ![r].fence = fence]
    /\ UNCHANGED <<settings, fence, covered, editor>>

\* The upstream reads its settings; the answer travels back, or is lost.
UpstreamAnswers(f) ==
    /\ f.step = "asked"
    /\ flights' = (flights \ {f}) \cup {[f EXCEPT !.step = "read", !.value = settings]}
    /\ UNCHANGED <<settings, fence, covered, entries, page, editor>>

Kept(p) == {q \in DOMAIN entries \ {p} : entries[q].fresh}
Aged(q) == [entries[q] EXCEPT !.age = IF @ < Cardinality(Paths) THEN @ + 1 ELSE @]

\* store: what expired goes, then the oldest while there are too many.
Store(p, v) ==
    LET stay == Kept(p)
        room == IF Cardinality(stay) < MaxEntries THEN stay
                ELSE stay \ {CHOOSE q \in stay : \A o \in stay : entries[o].age <= entries[q].age}
    IN entries' = [q \in room \cup {p} |-> IF q = p THEN [value |-> v, fresh |-> TRUE, age |-> 0] ELSE Aged(q)]

\* The flight ends for everyone who waits for it.
Land(f, step) ==
    /\ flights' = flights \ {f}
    /\ page' = [r \in Pages |-> IF page[r].step = "wait" /\ Key(f) = <<page[r].path, page[r].fence>>
                               THEN [page[r] EXCEPT !.step = step, !.value = f.value] ELSE page[r]]
    /\ UNCHANGED <<settings, fence, covered, editor>>

\* Mutant: the generation is not looked at when the answer comes.
DeliverAnyway(f) == f.step = "read" /\ Store(f.path, f.value) /\ Land(f, "woken")

\* The answer is stored only in the generation it was asked in.
Deliver(f) ==
    /\ f.step = "read"
    /\ IF f.fence = fence THEN Store(f.path, f.value) ELSE UNCHANGED entries
    /\ Land(f, "woken")

FlightFails(f) == Land(f, "refused") /\ UNCHANGED entries

\* A page takes the answer of its generation; after a write it looks again.
Wake(r) ==
    /\ page[r].step \in {"woken", "refused"}
    /\ page' = [page EXCEPT ![r].step = IF page[r].fence # fence THEN "look"
                                       ELSE IF @ = "woken" THEN "answered" ELSE "failed"]
    /\ UNCHANGED <<settings, fence, covered, entries, flights, editor>>

\* The reader closes the page; the shared request goes on.
LeavePage(r) ==
    /\ page[r].step \in {"look", "wait", "woken", "refused"}
    /\ page' = [page EXCEPT ![r].step = "failed"]
    /\ UNCHANGED <<settings, fence, covered, entries, flights, editor>>

Expire(p) ==
    /\ p \in DOMAIN entries /\ entries[p].fresh
    /\ entries' = [entries EXCEPT ![p].fresh = FALSE]
    /\ UNCHANGED <<settings, fence, covered, flights, page, editor>>

-----------------------------------------------------------------------------
Invalidate ==
    fence' = fence + 1 /\ entries' = [p \in {} |-> 0]

\* doWithContentType: before the request that changes the upstream ...
BeginWrite(w) ==
    /\ editor[w] = "idle" /\ settings < MaxSettings
    /\ Invalidate /\ editor' = [editor EXCEPT ![w] = "sent"]
    /\ UNCHANGED <<settings, covered, flights, page>>

\* The upstream carries the request out, perhaps after the portal gave it up.
Apply(w) ==
    /\ editor[w] \in {"sent", "lost"} /\ settings < MaxSettings
    /\ settings' = settings + 1
    /\ editor' = [editor EXCEPT ![w] = IF @ = "sent" THEN "applied" ELSE "ended"]
    /\ UNCHANGED <<fence, covered, entries, flights, page>>

WriteEnds(w) ==
    /\ editor[w] \in {"sent", "applied"} /\ covered' = settings
    /\ editor' = [editor EXCEPT ![w] = IF @ = "sent" THEN "lost" ELSE "ended"]
    /\ UNCHANGED <<settings, flights, page>>

\* Mutant: a write that failed does not invalidate.
EndWriteOnSuccess(w) ==
    /\ WriteEnds(w)
    /\ \/ editor[w] = "applied" /\ Invalidate
       \/ UNCHANGED <<fence, entries>>

\* ... and after it, whether it failed or not: it may have been carried out.
EndWrite(w) == WriteEnds(w) /\ Invalidate

ReadsNext ==
    \/ \E r \in Pages, p \in Paths : OpenPage(r, p)
    \/ \E r \in Pages : LookUp(r) \/ JoinFlight(r) \/ Wake(r) \/ LeavePage(r)
    \/ \E f \in flights : UpstreamAnswers(f) \/ Deliver(f) \/ FlightFails(f)
    \/ \E p \in Paths : Expire(p)
    \/ \E w \in Editors : BeginWrite(w) \/ Apply(w) \/ EndWrite(w)

ReadsSpec == ReadsInit /\ [][ReadsNext]_readVars

-----------------------------------------------------------------------------
\* A page never shows a state of the upstream older than a write of the portal
\* that had ended when the page was opened, through an entry, through the
\* request of another page, or through one that left before the write; nor does
\* the cache hold such a state (upstream_cache.go: "Generations prevent a
\* pre-write response from repopulating the cache").
ReadsFollowWrites ==
    /\ \A r \in Pages : page[r].step = "answered" => page[r].value >= page[r].floor
    /\ \A p \in DOMAIN entries : entries[p].value >= covered
=============================================================================
