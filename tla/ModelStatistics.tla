---------------------------- MODULE ModelStatistics ----------------------------
(***************************************************************************)
(* Calls counted by the model that answered them.  CPAMP gives the total   *)
(* of a rolling range and its events page by page; the portal keeps the    *)
(* rows of the last read, reads again only a recent overlap, and counts    *)
(* everything anew when the totals differ, after an hour, or on request.   *)
(* Meanwhile CPAMP imports, corrects and deletes events.                   *)
(***************************************************************************)
EXTENDS Naturals, FiniteSets

CONSTANTS
    Events,      \* numbers of the events
    Models,
    MaxTime,     \* bound of the clock
    Span,        \* length of the range
    Overlap,     \* actualModelOverlap
    Reconcile,   \* actualModelReconcile
    PageSize,    \* events in a page
    MaxEdits     \* bound: changes of the events, and of the clock backwards

ASSUME StatisticsAssumption ==
    /\ Events \subseteq Nat /\ IsFiniteSet(Events) /\ Models # {} /\ Overlap \in Nat
    /\ {Span, Reconcile, PageSize, MaxTime} \subseteq Nat \ {0} /\ MaxEdits \in Nat

VARIABLES
    now,
    event,       \* the events CPAMP has
    edits,
    snapshot,    \* rows of the last read
    read,        \* the read that goes on, or ended last
    hidden       \* history: since the rows were counted anew, an event changed
                 \* that the overlap does not reach

statVars == <<now, event, edits, snapshot, read, hidden>>

Row(id) == [id |-> id, at |-> event[id].at, model |-> event[id].model]
Rows(from, to) == {Row(id) : id \in {i \in Events : event[i].live /\ from <= event[i].at /\ event[i].at < to}}
Earlier(max, n) == IF max > n THEN max - n ELSE 0

NoSnapshot == [kept |-> FALSE, from |-> 0, to |-> 0, full |-> 0, rows |-> {}]
EmptyPage == [rows |-> {}, more |-> FALSE]
NoRead == [step |-> "idle", delta |-> FALSE, from |-> 0, to |-> 0, full |-> 0, cutoff |-> 0,
           rows |-> {}, first |-> EmptyPage, page |-> EmptyPage, total |-> 0, moved |-> FALSE]

RowsOfEvents == [id : Events, at : 0..MaxTime, model : Models]
PagesOfRows == [rows : SUBSET RowsOfEvents, more : BOOLEAN]

StatisticsTypeOK ==
    /\ now \in 1..MaxTime /\ edits \in 0..MaxEdits /\ hidden \in BOOLEAN
    /\ event \in [Events -> [seen : BOOLEAN, live : BOOLEAN, at : 0..MaxTime, model : Models]]
    /\ read \in [step : {"idle", "page", "check", "shown"}, delta : BOOLEAN, from : Nat, to : Nat,
                 full : Nat, cutoff : Nat, rows : SUBSET RowsOfEvents, first : PagesOfRows,
                 page : PagesOfRows, total : Nat, moved : BOOLEAN]
    /\ snapshot \in [kept : BOOLEAN, from : Nat, to : Nat, full : Nat, rows : SUBSET RowsOfEvents]
    /\ snapshot.kept => snapshot.from < snapshot.to /\ \A r \in snapshot.rows : r.at >= snapshot.from

StatisticsInit ==
    /\ now = 1 /\ edits = 0 /\ snapshot = NoSnapshot /\ read = NoRead /\ hidden = FALSE
    /\ event = [e \in Events |-> [seen |-> FALSE, live |-> FALSE, at |-> 0, model |-> CHOOSE m \in Models : TRUE]]

-----------------------------------------------------------------------------
(* CPAMP.                                                                  *)

Reading == read.step \in {"page", "check"}

\* What the next read will look at again begins here.
Reach == Earlier(IF Reading THEN read.to ELSE snapshot.to, Overlap)

Edited(at) ==
    /\ edits < MaxEdits /\ edits' = edits + 1
    /\ hidden' = (hidden \/ ((Reading \/ snapshot.kept) /\ at < Reach))
    /\ read' = [read EXCEPT !.moved = TRUE]
    /\ UNCHANGED <<now, snapshot>>

\* An event arrives, also long after it happened.
Import(e, at, m) ==
    /\ ~event[e].seen /\ at <= now
    /\ event' = [event EXCEPT ![e] = [seen |-> TRUE, live |-> TRUE, at |-> at, model |-> m]]
    /\ Edited(at)

Correct(e, m) ==
    /\ event[e].live /\ event[e].model # m
    /\ event' = [event EXCEPT ![e].model = m]
    /\ Edited(event[e].at)

Delete(e) ==
    /\ event[e].live
    /\ event' = [event EXCEPT ![e].live = FALSE]
    /\ Edited(event[e].at)

Tick ==
    /\ now < MaxTime /\ now' = now + 1
    /\ UNCHANGED <<event, edits, snapshot, read, hidden>>

ClockBack ==
    /\ now > 1 /\ edits < MaxEdits /\ now' = now - 1 /\ edits' = edits + 1
    /\ UNCHANGED <<event, snapshot, read, hidden>>

-----------------------------------------------------------------------------
\* Mutant: rows are never counted anew because of their age.
CurrentForever(from, to) ==
    /\ snapshot.kept /\ now >= snapshot.full
    /\ from >= snapshot.from /\ to >= snapshot.to /\ from < snapshot.to

\* currentActualModelSnapshot.
CurrentSnapshot(from, to) ==
    /\ snapshot.kept /\ now >= snapshot.full /\ now < snapshot.full + Reconcile
    /\ from >= snapshot.from /\ to >= snapshot.to /\ from < snapshot.to

Newer(a, b) == a.at > b.at \/ (a.at = b.at /\ a.id > b.id)

\* The newest events of a set, one page of them.
Page(rows) ==
    LET newest == {r \in rows : Cardinality({s \in rows : Newer(s, r)}) < PageSize} IN
    [rows |-> newest, more |-> newest # rows]
OldestOf(rows) == CHOOSE r \in rows : \A s \in rows : s = r \/ Newer(s, r)

\* Mutant: only what is newer than the last read is read.
CutoffAtLast(from) == IF from > snapshot.to THEN from ELSE snapshot.to

\* Where a delta begins.
Cutoff(from) == LET c == Earlier(snapshot.to, Overlap) IN IF from > c THEN from ELSE c

\* usage: one request gives the total and the first page; then either the rows
\* that leave the range or the overlap are taken off, or everything begins anew.
BeginRead(forced) ==
    LET from == Earlier(now, Span)  to == now
        delta == ~forced /\ CurrentSnapshot(from, to)
        first == Page(Rows(from, to))
        start == [NoRead EXCEPT !.step = "page", !.delta = delta, !.from = from, !.to = to,
                     !.first = first, !.page = first, !.total = Cardinality(Rows(from, to))]
    IN
    /\ ~Reading /\ from < to
    /\ read' = IF delta THEN [start EXCEPT !.full = snapshot.full, !.cutoff = Cutoff(from),
                                           !.rows = {r \in snapshot.rows : r.at >= from /\ r.at < Cutoff(from)}]
               ELSE [start EXCEPT !.full = now]
    /\ snapshot' = IF delta THEN snapshot ELSE NoSnapshot
    /\ hidden' = (delta /\ hidden)
    /\ UNCHANGED <<now, event, edits>>

\* A row that is read again replaces the one that was kept.
Added == {r \in read.rows : \A p \in read.page.rows : p.id # r.id} \cup read.page.rows
LastPage == ~read.page.more \/ (read.delta /\ OldestOf(read.page.rows).at < read.cutoff)

NextPage ==
    /\ read.step = "page"
    /\ LET last == OldestOf(read.page.rows)
           rest == {r \in Rows(IF read.delta THEN read.cutoff ELSE read.from, read.to) : Newer(last, r)}
       IN read' = IF LastPage THEN [read EXCEPT !.rows = Added, !.step = "check"]
                  ELSE [read EXCEPT !.rows = Added, !.page = Page(rest)]
    /\ UNCHANGED <<now, event, edits, snapshot, hidden>>

ShowCounts ==
    /\ read' = [read EXCEPT !.step = "shown"]
    /\ snapshot' = [kept |-> TRUE, from |-> read.from, to |-> read.to, full |-> read.full, rows |-> read.rows]

\* Mutant: a delta is taken as it is.
CheckTotalsOfFull ==
    /\ read.step = "check" /\ (read.delta \/ Cardinality(read.rows) = read.total)
    /\ ShowCounts /\ UNCHANGED <<now, event, edits, hidden>>

\* matches: the count must be the total that came with the first page.
CheckTotals ==
    /\ read.step = "check" /\ Cardinality(read.rows) = read.total
    /\ ShowCounts /\ UNCHANGED <<now, event, edits, hidden>>

\* A delta that differs, or fails on the way, begins anew with the first page.
FallBack ==
    /\ Reading /\ read.delta
    /\ read.step = "check" => Cardinality(read.rows) # read.total
    /\ read' = [read EXCEPT !.step = "page", !.delta = FALSE, !.full = now, !.rows = {}, !.page = read.first]
    /\ snapshot' = NoSnapshot /\ hidden' = read.moved
    /\ UNCHANGED <<now, event, edits>>

\* unavailable.
ReadFails ==
    /\ Reading /\ ~read.delta
    /\ read.step = "check" => Cardinality(read.rows) # read.total
    /\ read' = NoRead /\ snapshot' = NoSnapshot
    /\ UNCHANGED <<now, event, edits, hidden>>

\* Other scopes need the room.
Evict ==
    /\ ~Reading /\ snapshot.kept /\ snapshot' = NoSnapshot
    /\ UNCHANGED <<now, event, edits, read, hidden>>

StatisticsNext ==
    \/ \E e \in Events, m \in Models : Correct(e, m) \/ \E at \in 0..MaxTime : Import(e, at, m)
    \/ \E e \in Events : Delete(e)
    \/ \E forced \in BOOLEAN : BeginRead(forced)
    \/ Tick \/ ClockBack \/ NextPage \/ CheckTotals \/ FallBack \/ ReadFails \/ Evict

StatisticsSpec == StatisticsInit /\ [][StatisticsNext]_statVars

-----------------------------------------------------------------------------
Counted(rows) == [m \in Models |-> Cardinality({r \in rows : r.model = m})]

\* Statistics that are shown add up to the total CPAMP gave with them, and rest
\* on a full count less than an hour old.  If no event changed while they were
\* read, and since that count none beyond the reach of the overlap, they are, by
\* model, what a full count would give: late arrivals, corrections and deletions
\* included (actual_model_incremental.go: "Model-only corrections outside the
\* overlap are found by periodic full reads").
ModelsAreRight ==
    read.step = "shown" =>
        /\ Cardinality(read.rows) = read.total
        /\ read.delta => read.to < read.full + Reconcile
        /\ ~read.moved /\ ~hidden => Counted(read.rows) = Counted(Rows(read.from, read.to))

-----------------------------------------------------------------------------
(* Why it holds.                                                           *)

\* An event keeps its time from its import on, and so do rows of it.
Known(rows) == \A r \in rows : event[r.id].seen /\ event[r.id].at = r.at
OneEach(rows) == rows \subseteq RowsOfEvents /\ \A a, b \in rows : a.id = b.id => a = b
Within(rows, from, to) == \A r \in rows : from <= r.at /\ r.at < to
Below(rows, limit) == {r \in rows : r.at < limit}

\* A row of the page in hand, or of one that comes after it.
Coming(k, r) ==
    \/ r \in k.page.rows
    \/ /\ k.page.more /\ r.at >= (IF k.delta THEN k.cutoff ELSE k.from)
       /\ \A p \in k.page.rows : Newer(p, r)

\* Of the events that are there, the read k has or will have those below the limit.
ReadsAll(k, there, limit) ==
    /\ k.step = "page" => /\ \A r \in Below(there, limit) : r \in k.rows \/ Coming(k, r)
                          /\ Below(k.rows \cup k.page.rows, limit) \subseteq there
    /\ k.step = "check" => Below(k.rows, limit) = Below(there, limit)

\* Edits the overlap reaches leave what is below it, both in the rows that are
\* kept and in a read; without edits a read has everything.
StatisticsInv ==
    LET there == Rows(read.from, read.to) IN
    /\ StatisticsTypeOK /\ ModelsAreRight
    /\ \A e \in Events : event[e].live => event[e].seen
    /\ Known(snapshot.rows) /\ Known(read.rows) /\ Known(read.page.rows) /\ Known(read.first.rows)
    /\ OneEach(read.page.rows) /\ OneEach(read.first.rows)
    /\ snapshot.kept /\ ~hidden =>
           LET limit == Earlier(snapshot.to, Overlap) IN
           Below(snapshot.rows, limit) = Below(Rows(snapshot.from, snapshot.to), limit)
    /\ Reading =>
           /\ read.from < read.to
           /\ \A rows \in {read.rows, read.page.rows, read.first.rows} : Within(rows, read.from, read.to)
           /\ read.page.more => read.page.rows # {}
           /\ read.first.more => read.first.rows # {}
           /\ read.delta => /\ snapshot.kept /\ snapshot.to <= read.to /\ read.from <= read.cutoff
                            /\ read.to < read.full + Reconcile
           /\ ~read.delta => ~snapshot.kept
           /\ ~read.moved => read.first = Page(there)
           /\ ~hidden => ReadsAll(read, there, Earlier(read.to, Overlap))
           /\ ~hidden /\ ~read.moved => ReadsAll(read, there, read.to)
    /\ read.step = "shown" /\ ~read.moved /\ ~hidden => read.rows = there
=============================================================================
