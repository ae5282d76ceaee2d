--------------------------- MODULE CachedReadsProofs ---------------------------
(***************************************************************************)
(* What is kept of an answer stays what the answer was: both caches keep   *)
(* their promise, for any number of pages, paths, writers and loads, and   *)
(* any capacity; both statistics are those of a computation from the       *)
(* whole, for any events, clock, page size, overlap and length of a minute.*)
(***************************************************************************)
EXTENDS CachedReads, UsageStatistics, FiniteSetTheorems, SequenceTheorems, NaturalsInduction,
        WellFoundedInduction, TLAPS

\* Numbers have a smallest.
LEMMA SmallestNumber ==
    ASSUME NEW T, T \subseteq Nat, T # {}
    PROVE  \E n \in T : \A y \in T : n <= y
<1> DEFINE R == {ss \in Nat \X Nat : ss[1] < ss[2]}
<1>1. IsWellFoundedOn(R, Nat)
  BY NatLessThanWellFounded, Zenon DEF OpToRel
<1>2. \A t, u \in Nat : t < u => <<t, u>> \in R OBVIOUS
<1> HIDE DEF R
<1>3. PICK n \in T : \A y \in T : ~(<<y, n>> \in R)
  BY <1>1, WFMin, Zenon
<1>4. \A y \in T : ~(y < n) BY <1>2, <1>3
<1> QED BY <1>4

(***************************************************************************)
(* UpstreamReads.                                                          *)
(***************************************************************************)
PageSteps == {"idle", "look", "wait", "woken", "refused", "answered", "failed"}
PageRecords == [step : PageSteps, path : Paths, fence : Nat, floor : Nat, value : Nat]
Flights == [path : Paths, fence : Nat, step : {"asked", "read"}, value : Nat]
Entry(e) == e \in [value : Nat, fresh : BOOLEAN, age : Nat]

ReadTypes ==
    /\ settings \in Nat /\ fence \in Nat /\ covered \in Nat
    /\ flights \subseteq Flights
    /\ page \in [Pages -> PageRecords]
    /\ entries = [p \in DOMAIN entries |-> entries[p]]
    /\ \A p \in DOMAIN entries : Entry(entries[p]) /\ entries[p].value \in Nat

\* Whatever carries the present generation was read after the last write ended:
\* the entries, the answers that travel, and those that wake a page.
Fenced ==
    /\ covered <= settings
    /\ \A f \in flights : f.fence <= fence
    /\ \A f \in flights : f.step = "read" /\ f.fence = fence => f.value >= covered
    /\ \A r \in Pages : page[r].floor <= covered /\ page[r].fence <= fence
    /\ \A r \in Pages : page[r].step = "woken" /\ page[r].fence = fence => page[r].value >= covered

ReadsInv == ReadTypes /\ Fenced /\ ReadsFollowWrites

\* There is a path.
LEMMA APath == (CHOOSE p \in Paths : TRUE) \in Paths
BY ReadsAssumption

\* At first nothing is stored and nobody asks.
LEMMA ReadsInitially == ReadsInit => ReadsInv
<1> SUFFICES ASSUME ReadsInit PROVE ReadsInv
  OBVIOUS
<1>1. NoPage \in PageRecords /\ NoPage.step = "idle" /\ NoPage.floor = 0 /\ NoPage.fence = 0
  BY APath DEF NoPage, PageRecords, PageSteps
<1>2. DOMAIN entries = {} /\ entries = [p \in DOMAIN entries |-> entries[p]]
  BY DEF ReadsInit
<1> QED BY <1>1, <1>2 DEF ReadsInit, ReadsInv, ReadTypes, Fenced, ReadsFollowWrites

\* One page changes and keeps what it must not miss.
LEMMA OnePage ==
    ASSUME ReadTypes, NEW r \in Pages, NEW new \in PageRecords, page' = [page EXCEPT ![r] = new]
    PROVE  /\ page' \in [Pages -> PageRecords] /\ page'[r] = new
           /\ \A o \in Pages : o # r => page'[o] = page[o]
BY DEF ReadTypes

\* From here on, one action at a time: what carries the present generation was read after
\* the last write.
LEMMA OpenPageKeeps ==
    ASSUME ReadsInv, NEW r \in Pages, NEW p \in Paths, OpenPage(r, p)
    PROVE  ReadsInv'
<1> DEFINE j == [NoPage EXCEPT !.step = "look"]
           k == [j EXCEPT !.path = p]
           new == [k EXCEPT !.floor = covered]
<1>1. new = [step |-> "look", path |-> p, fence |-> 0, floor |-> covered, value |-> 0]
  <2> DEFINE q == CHOOSE q \in Paths : TRUE
  <2>0. NoPage = [step |-> "idle", path |-> q, fence |-> 0, floor |-> 0, value |-> 0]
    BY DEF NoPage
  <2> HIDE DEF q
  <2>1. j = [step |-> "look", path |-> q, fence |-> 0, floor |-> 0, value |-> 0]
    BY <2>0
  <2> HIDE DEF j
  <2>2. k = [step |-> "look", path |-> p, fence |-> 0, floor |-> 0, value |-> 0]
    BY <2>1
  <2> HIDE DEF k
  <2> QED BY <2>2
<1>2. new \in PageRecords
  <2>1. covered \in Nat /\ "look" \in PageSteps
    BY DEF ReadsInv, ReadTypes, PageSteps
  <2> HIDE DEF new
  <2> QED BY <1>1, <2>1 DEF PageRecords
<1>3. page' = [page EXCEPT ![r] = new] /\ UNCHANGED <<settings, fence, covered, entries, flights>>
  BY DEF OpenPage
<1> HIDE DEF new
<1> QED BY <1>1, <1>2, <1>3, OnePage DEF ReadsInv, ReadTypes, Fenced, ReadsFollowWrites

LEMMA LookUpKeeps ==
    ASSUME ReadsInv, NEW r \in Pages, LookUp(r)
    PROVE  ReadsInv'
<1> DEFINE j == [page[r] EXCEPT !.step = "answered"]
           new == [j EXCEPT !.value = entries[page[r].path].value]
<1>1. page[r].path \in DOMAIN entries /\ page[r] \in PageRecords
  BY DEF LookUp, Hit, ReadsInv, ReadTypes
<1>2. new = [step |-> "answered", path |-> page[r].path, fence |-> page[r].fence,
             floor |-> page[r].floor, value |-> entries[page[r].path].value]
  <2>1. j = [step |-> "answered", path |-> page[r].path, fence |-> page[r].fence,
             floor |-> page[r].floor, value |-> page[r].value]
    BY <1>1 DEF PageRecords
  <2> HIDE DEF j
  <2> QED BY <2>1
<1>3. new \in PageRecords
  BY <1>1, <1>2 DEF PageRecords, PageSteps, ReadsInv, ReadTypes
<1>4. page' = [page EXCEPT ![r] = new] /\ UNCHANGED <<settings, fence, covered, entries, flights>>
  BY DEF LookUp, ReadsInv, ReadTypes
<1>5. entries[page[r].path].value >= page[r].floor
  BY <1>1 DEF ReadsInv, ReadTypes, Fenced, ReadsFollowWrites, PageRecords
<1> HIDE DEF new
<1> QED BY <1>1, <1>2, <1>3, <1>4, <1>5, OnePage DEF ReadsInv, ReadTypes, Fenced, ReadsFollowWrites

LEMMA JoinFlightKeeps ==
    ASSUME ReadsInv, NEW r \in Pages, JoinFlight(r)
    PROVE  ReadsInv'
<1> DEFINE j == [page[r] EXCEPT !.step = "wait"]
           new == [j EXCEPT !.fence = fence]
           flight0 == Flight(page[r].path, fence)
<1>1. page[r] \in PageRecords
  BY DEF ReadsInv, ReadTypes
<1>2. new = [step |-> "wait", path |-> page[r].path, fence |-> fence,
             floor |-> page[r].floor, value |-> page[r].value]
  <2>1. j = [step |-> "wait", path |-> page[r].path, fence |-> page[r].fence,
             floor |-> page[r].floor, value |-> page[r].value]
    BY <1>1 DEF PageRecords
  <2> HIDE DEF j
  <2> QED BY <2>1
<1>3. new \in PageRecords
  BY <1>1, <1>2 DEF PageRecords, PageSteps, ReadsInv, ReadTypes
<1>4. /\ page' = [page EXCEPT ![r] = new] /\ UNCHANGED <<settings, fence, covered>>
      /\ entries' = [q \in DOMAIN entries \ {page[r].path} |-> entries[q]]
      /\ flights' = flights \/ flights' = flights \cup {flight0}
  BY DEF JoinFlight, ReadsInv, ReadTypes
<1>5. flight0 \in Flights /\ flight0.fence = fence /\ flight0.step = "asked"
  BY <1>1 DEF Flight, Flights, PageRecords, ReadsInv, ReadTypes
<1> HIDE DEF new, flight0
<1>6. /\ entries' = [p \in DOMAIN entries' |-> entries'[p]]
      /\ \A p \in DOMAIN entries' : p \in DOMAIN entries /\ entries'[p] = entries[p]
  BY <1>4
<1>7. page' \in [Pages -> PageRecords] /\ page'[r] = new
      /\ \A o \in Pages : o # r => page'[o] = page[o]
  BY <1>3, <1>4, OnePage DEF ReadsInv
<1>8. ReadTypes'
  BY <1>4, <1>5, <1>6, <1>7 DEF ReadsInv, ReadTypes, Entry
<1>9. Fenced'
  BY <1>2, <1>4, <1>5, <1>7 DEF ReadsInv, ReadTypes, Fenced
<1>10. ReadsFollowWrites'
  BY <1>2, <1>4, <1>6, <1>7 DEF ReadsInv, ReadsFollowWrites
<1> QED BY <1>8, <1>9, <1>10 DEF ReadsInv

LEMMA UpstreamAnswersKeeps ==
    ASSUME ReadsInv, NEW f \in flights, UpstreamAnswers(f)
    PROVE  ReadsInv'
<1> DEFINE j == [f EXCEPT !.step = "read"]
           g == [j EXCEPT !.value = settings]
<1>1. f \in Flights
  BY DEF ReadsInv, ReadTypes
<1>2. g = [path |-> f.path, fence |-> f.fence, step |-> "read", value |-> settings]
  <2>1. j = [path |-> f.path, fence |-> f.fence, step |-> "read", value |-> f.value]
    BY <1>1 DEF Flights
  <2> HIDE DEF j
  <2> QED BY <2>1
<1>3. /\ flights' = (flights \ {f}) \cup {g}
      /\ UNCHANGED <<settings, fence, covered, entries, page>>
  BY DEF UpstreamAnswers
<1> HIDE DEF g
<1>4. g \in Flights /\ g.fence = f.fence /\ g.value = settings
  BY <1>1, <1>2 DEF Flights, ReadsInv, ReadTypes
<1>5. ReadTypes'
  BY <1>3, <1>4 DEF ReadsInv, ReadTypes
<1>6. Fenced'
  BY <1>3, <1>4 DEF ReadsInv, ReadTypes, Fenced
<1> QED BY <1>3, <1>5, <1>6 DEF ReadsInv, ReadsFollowWrites

\* The flight ends: those who waited for it have its answer.
LEMMA Landed ==
    ASSUME ReadsInv, NEW f \in flights, NEW step \in {"woken", "refused"}, Land(f, step)
    PROVE  /\ page' \in [Pages -> PageRecords]
           /\ flights' \subseteq flights
           /\ UNCHANGED <<settings, fence, covered>>
           /\ \A r \in Pages :
                 \/ page'[r] = page[r]
                 \/ /\ page'[r].step = step /\ page'[r].fence = page[r].fence
                    /\ page[r].fence = f.fence /\ page'[r].floor = page[r].floor
                    /\ page'[r].value = f.value
<1> DEFINE j(r) == [page[r] EXCEPT !.step = step]
           new(r) == [j(r) EXCEPT !.value = f.value]
<1>1. f \in Flights /\ f.value \in Nat /\ \A r \in Pages : page[r] \in PageRecords
  BY DEF ReadsInv, ReadTypes, Flights
<1>2. \A r \in Pages : new(r) = [step |-> step, path |-> page[r].path, fence |-> page[r].fence,
                                 floor |-> page[r].floor, value |-> f.value]
  <2> SUFFICES ASSUME NEW r \in Pages
               PROVE  new(r) = [step |-> step, path |-> page[r].path, fence |-> page[r].fence,
                                floor |-> page[r].floor, value |-> f.value]
    OBVIOUS
  <2>1. j(r) = [step |-> step, path |-> page[r].path, fence |-> page[r].fence,
                floor |-> page[r].floor, value |-> page[r].value]
    BY <1>1 DEF PageRecords
  <2> HIDE DEF j
  <2> QED BY <2>1
<1>3. /\ flights' = flights \ {f} /\ UNCHANGED <<settings, fence, covered>>
      /\ page' = [r \in Pages |-> IF page[r].step = "wait" /\ Key(f) = <<page[r].path, page[r].fence>>
                                 THEN new(r) ELSE page[r]]
  BY DEF Land
<1> HIDE DEF new
<1>4. \A r \in Pages : new(r) \in PageRecords
  BY <1>1, <1>2 DEF PageRecords, PageSteps
<1>5. page' \in [Pages -> PageRecords]
  BY <1>1, <1>3, <1>4
<1>6. ASSUME NEW r \in Pages
      PROVE  \/ page'[r] = page[r]
             \/ /\ page'[r].step = step /\ page'[r].fence = page[r].fence
                /\ page[r].fence = f.fence /\ page'[r].floor = page[r].floor
                /\ page'[r].value = f.value
  <2>1. CASE page[r].step = "wait" /\ Key(f) = <<page[r].path, page[r].fence>>
    <3>1. page'[r] = new(r) /\ page[r].fence = f.fence
      BY <1>3, <2>1 DEF Key
    <3> QED BY <3>1, <1>2
  <2>2. CASE ~(page[r].step = "wait" /\ Key(f) = <<page[r].path, page[r].fence>>)
    BY <1>3, <2>2
  <2> QED BY <2>1, <2>2
<1> QED BY <1>3, <1>5, <1>6

\* What is stored is the answer, and entries that were there.
LEMMA AnswerStored ==
    ASSUME ReadsInv, NEW p, NEW v \in Nat, Store(p, v)
    PROVE  /\ entries' = [q \in DOMAIN entries' |-> entries'[q]]
           /\ \A q \in DOMAIN entries' :
                 /\ Entry(entries'[q])
                 /\ entries'[q].value = v \/ (q \in DOMAIN entries /\ entries'[q].value = entries[q].value)
<1> DEFINE stay == Kept(p)
           room == IF Cardinality(stay) < MaxEntries THEN stay
                   ELSE stay \ {CHOOSE q \in stay : \A o \in stay : entries[o].age <= entries[q].age}
           mine == [value |-> v, fresh |-> TRUE, age |-> 0]
<1>1. room \subseteq DOMAIN entries
  BY DEF Kept
<1>2. entries' = [q \in room \cup {p} |-> IF q = p THEN mine ELSE Aged(q)]
  BY DEF Store
<1>3. \A q \in DOMAIN entries : Entry(Aged(q)) /\ Aged(q).value = entries[q].value
  BY DEF Aged, Entry, ReadsInv, ReadTypes
<1>4. Entry(mine) /\ mine.value = v
  BY DEF Entry
<1> HIDE DEF room, mine
<1>5. DOMAIN entries' = room \cup {p}
  BY <1>2
<1>6. ASSUME NEW q \in DOMAIN entries'
      PROVE  /\ Entry(entries'[q])
             /\ entries'[q].value = v \/ (q \in DOMAIN entries /\ entries'[q].value = entries[q].value)
  <2>1. CASE q = p
    <3>1. entries'[q] = IF q = p THEN mine ELSE Aged(q)
      BY <1>2, <1>5
    <3>2. entries'[q] = mine
      BY <2>1, <3>1
    <3> QED BY <3>2, <1>4 DEF Entry
  <2>2. CASE q # p
    <3>1. entries'[q] = Aged(q) /\ q \in DOMAIN entries
      BY <1>1, <1>2, <1>5, <2>2
    <3> QED BY <3>1, <1>3 DEF Entry
  <2> QED BY <2>1, <2>2
<1> QED BY <1>2, <1>5, <1>6

LEMMA DeliverKeeps ==
    ASSUME ReadsInv, NEW f \in flights, Deliver(f)
    PROVE  ReadsInv'
<1>1. /\ page' \in [Pages -> PageRecords]
      /\ flights' \subseteq flights
      /\ UNCHANGED <<settings, fence, covered>>
      /\ \A r \in Pages :
            \/ page'[r] = page[r]
            \/ /\ page'[r].step = "woken" /\ page'[r].fence = page[r].fence
               /\ page[r].fence = f.fence /\ page'[r].floor = page[r].floor
               /\ page'[r].value = f.value
  BY Landed DEF Deliver
<1>2. f.step = "read" /\ f.value \in Nat
  BY DEF Deliver, ReadsInv, ReadTypes, Flights
<1>3. /\ entries' = [q \in DOMAIN entries' |-> entries'[q]]
      /\ \A q \in DOMAIN entries' :
            /\ Entry(entries'[q]) /\ entries'[q].value \in Nat /\ entries'[q].value >= covered
  <2>1. CASE f.fence = fence
    <3>1. f.value >= covered
      BY <1>2, <2>1 DEF ReadsInv, Fenced
    <3> QED BY <1>2, <2>1, <3>1, AnswerStored DEF Deliver, ReadsInv, ReadTypes, ReadsFollowWrites
  <2>2. CASE f.fence # fence
    BY <2>2 DEF Deliver, ReadsInv, ReadTypes, ReadsFollowWrites, Entry
  <2> QED BY <2>1, <2>2
<1>4. ReadTypes'
  BY <1>1, <1>3 DEF ReadsInv, ReadTypes
<1>5. Fenced'
  BY <1>1, <1>2 DEF ReadsInv, Fenced
<1>6. ReadsFollowWrites'
  BY <1>1, <1>3 DEF ReadsInv, ReadsFollowWrites
<1> QED BY <1>4, <1>5, <1>6 DEF ReadsInv

LEMMA FlightFailsKeeps ==
    ASSUME ReadsInv, NEW f \in flights, FlightFails(f)
    PROVE  ReadsInv'
<1>1. /\ page' \in [Pages -> PageRecords]
      /\ flights' \subseteq flights
      /\ UNCHANGED <<settings, fence, covered>>
      /\ \A r \in Pages :
            \/ page'[r] = page[r]
            \/ /\ page'[r].step = "refused" /\ page'[r].fence = page[r].fence
               /\ page[r].fence = f.fence /\ page'[r].floor = page[r].floor
               /\ page'[r].value = f.value
  BY Landed DEF FlightFails
<1>2. UNCHANGED entries
  BY DEF FlightFails
<1>3. ReadTypes'
  BY <1>1, <1>2 DEF ReadsInv, ReadTypes, Entry
<1>4. Fenced'
  BY <1>1 DEF ReadsInv, Fenced
<1>5. ReadsFollowWrites'
  BY <1>1, <1>2 DEF ReadsInv, ReadsFollowWrites
<1> QED BY <1>3, <1>4, <1>5 DEF ReadsInv

\* A page that only goes on to another step.
LEMMA StepKeeps ==
    ASSUME ReadsInv, NEW r \in Pages, NEW step \in PageSteps \ {"woken"},
           page' = [page EXCEPT ![r].step = step],
           step = "answered" => page[r].value >= page[r].floor,
           UNCHANGED <<settings, fence, covered, entries, flights>>
    PROVE  ReadsInv'
<1> DEFINE new == [page[r] EXCEPT !.step = step]
<1>1. page[r] \in PageRecords
  BY DEF ReadsInv, ReadTypes
<1>2. new = [step |-> step, path |-> page[r].path, fence |-> page[r].fence,
             floor |-> page[r].floor, value |-> page[r].value]
  BY <1>1 DEF PageRecords
<1>3. new \in PageRecords
  BY <1>1, <1>2 DEF PageRecords
<1>4. page' = [page EXCEPT ![r] = new]
  BY DEF ReadsInv, ReadTypes
<1> HIDE DEF new
<1>5. page' \in [Pages -> PageRecords] /\ page'[r] = new
      /\ \A o \in Pages : o # r => page'[o] = page[o]
  BY <1>3, <1>4, OnePage DEF ReadsInv
<1>6. ReadTypes'
  BY <1>5 DEF ReadsInv, ReadTypes, Entry
<1>7. page'[r].step # "woken" /\ page'[r].floor = page[r].floor /\ page'[r].fence = page[r].fence
      /\ page'[r].value = page[r].value
  BY <1>2, <1>5
<1>8. Fenced'
  BY <1>5, <1>7 DEF ReadsInv, Fenced
<1>9. ReadsFollowWrites'
  BY <1>2, <1>5 DEF ReadsInv, ReadsFollowWrites
<1> QED BY <1>6, <1>8, <1>9 DEF ReadsInv

LEMMA WakeKeeps ==
    ASSUME ReadsInv, NEW r \in Pages, Wake(r)
    PROVE  ReadsInv'
<1>1. page[r] \in PageRecords /\ UNCHANGED <<settings, fence, covered, entries, flights>>
  BY DEF ReadsInv, ReadTypes, Wake
<1>2. CASE page[r].fence # fence
  <2>1. page' = [page EXCEPT ![r].step = "look"]
    BY <1>2 DEF Wake
  <2> QED BY <1>1, <2>1, StepKeeps DEF PageSteps
<1>3. CASE page[r].fence = fence /\ page[r].step = "woken"
  <2>1. page' = [page EXCEPT ![r].step = "answered"]
    BY <1>3 DEF Wake
  <2>2. page[r].value >= page[r].floor
    BY <1>1, <1>3 DEF ReadsInv, ReadTypes, Fenced, PageRecords
  <2> QED BY <1>1, <2>1, <2>2, StepKeeps DEF PageSteps
<1>4. CASE page[r].fence = fence /\ page[r].step # "woken"
  <2>1. page' = [page EXCEPT ![r].step = "failed"]
    BY <1>4 DEF Wake
  <2> QED BY <1>1, <2>1, StepKeeps DEF PageSteps
<1> QED BY <1>2, <1>3, <1>4

LEMMA LeavePageKeeps ==
    ASSUME ReadsInv, NEW r \in Pages, LeavePage(r)
    PROVE  ReadsInv'
BY StepKeeps DEF LeavePage, PageSteps

LEMMA ExpireKeeps ==
    ASSUME ReadsInv, NEW p \in Paths, Expire(p)
    PROVE  ReadsInv'
<1>1. p \in DOMAIN entries /\ UNCHANGED <<settings, fence, covered, flights, page>>
  BY DEF Expire
<1>2. /\ entries' = [q \in DOMAIN entries' |-> entries'[q]] /\ DOMAIN entries' = DOMAIN entries
      /\ \A q \in DOMAIN entries : Entry(entries'[q]) /\ entries'[q].value = entries[q].value
  <2> DEFINE e == entries[p]
             new == [e EXCEPT !.fresh = FALSE]
  <2>1. e \in [value : Nat, fresh : BOOLEAN, age : Nat]
    BY <1>1 DEF ReadsInv, ReadTypes, Entry
  <2>2. entries' = [q \in DOMAIN entries |-> IF q = p THEN new ELSE entries[q]]
    BY <1>1 DEF Expire, ReadsInv, ReadTypes
  <2> HIDE DEF e
  <2>3. new \in [value : Nat, fresh : BOOLEAN, age : Nat] /\ new.value = e.value
    BY <2>1
  <2> HIDE DEF new
  <2>4. Entry(new) /\ new.value = e.value
    BY <2>3 DEF Entry
  <2>5. \A q \in DOMAIN entries : Entry(entries[q])
    BY DEF ReadsInv, ReadTypes
  <2> QED BY <2>2, <2>4, <2>5 DEF e
<1>3. ReadTypes'
  BY <1>1, <1>2 DEF ReadsInv, ReadTypes, Entry
<1>4. Fenced'
  BY <1>1 DEF ReadsInv, Fenced
<1>5. ReadsFollowWrites'
  BY <1>1, <1>2 DEF ReadsInv, ReadsFollowWrites
<1> QED BY <1>3, <1>4, <1>5 DEF ReadsInv

\* A new generation: nothing carries it yet.
LEMMA Invalidated ==
    ASSUME ReadsInv, Invalidate, covered' \in {covered, settings}, UNCHANGED <<settings, flights, page>>
    PROVE  ReadsInv'
<1>1. fence' = fence + 1 /\ DOMAIN entries' = {} /\ entries' = [p \in DOMAIN entries' |-> entries'[p]]
  BY DEF Invalidate
<1>2. covered' \in Nat /\ covered' >= covered /\ covered' <= settings
  BY DEF ReadsInv, ReadTypes, Fenced
<1>3. ReadTypes'
  BY <1>1, <1>2 DEF ReadsInv, ReadTypes
<1>4. \A r \in Pages : page[r].floor \in Nat /\ page[r].fence \in Nat
  BY DEF ReadsInv, ReadTypes, PageRecords
<1>5. \A f \in flights : f.fence \in Nat
  BY DEF ReadsInv, ReadTypes, Flights
<1>6. Fenced'
  BY <1>1, <1>2, <1>4, <1>5 DEF ReadsInv, ReadTypes, Fenced
<1>7. ReadsFollowWrites'
  BY <1>1 DEF ReadsInv, ReadsFollowWrites
<1> QED BY <1>3, <1>6, <1>7 DEF ReadsInv

LEMMA WritesKeep ==
    ASSUME ReadsInv, NEW w \in Editors, BeginWrite(w) \/ Apply(w) \/ EndWrite(w)
    PROVE  ReadsInv'
<1>1. CASE BeginWrite(w)
  BY <1>1, Invalidated DEF BeginWrite
<1>2. CASE EndWrite(w)
  BY <1>2, Invalidated DEF EndWrite, WriteEnds
<1>3. CASE Apply(w)
  <2>1. settings' = settings + 1 /\ UNCHANGED <<fence, covered, entries, flights, page>>
    BY <1>3 DEF Apply
  <2> QED BY <2>1 DEF ReadsInv, ReadTypes, Fenced, ReadsFollowWrites, Entry
<1> QED BY <1>1, <1>2, <1>3

\* Every step keeps the invariant.
LEMMA ReadsStep == ReadsInv /\ [ReadsNext]_readVars => ReadsInv'
<1> SUFFICES ASSUME ReadsInv, [ReadsNext]_readVars PROVE ReadsInv'
  OBVIOUS
<1>1. CASE UNCHANGED readVars
  BY <1>1 DEF readVars, ReadsInv, ReadTypes, Fenced, ReadsFollowWrites, Entry
<1>2. CASE ReadsNext
  BY <1>2, OpenPageKeeps, LookUpKeeps, JoinFlightKeeps, WakeKeeps, LeavePageKeeps,
     UpstreamAnswersKeeps, DeliverKeeps, FlightFailsKeeps, ExpireKeeps, WritesKeep DEF ReadsNext
<1> QED BY <1>1, <1>2

\* No page is shown, and no entry holds, what was read before a write that had
\* ended (upstream_cache.go).
THEOREM ReadsAreFenced == ReadsSpec => []ReadsFollowWrites
BY ReadsInitially, ReadsStep, PTL DEF ReadsSpec, ReadsInv

\* No more entries than the bound, ages no greater than the number of paths, and
\* one flight for each path and generation.
ReadsBounds ==
    /\ settings <= MaxSettings
    /\ DOMAIN entries \subseteq Paths /\ Cardinality(DOMAIN entries) <= MaxEntries
    /\ \A p \in DOMAIN entries : entries[p].age <= Cardinality(Paths)
    /\ \A f, g \in flights : Key(f) = Key(g) => f = g

\* Of several entries one is the oldest.
LEMMA OldestEntry ==
    ASSUME ReadsInv, ReadsBounds, NEW stay \in SUBSET DOMAIN entries, stay # {}
    PROVE  \E q \in stay : \A o \in stay : entries[o].age <= entries[q].age
<1> DEFINE N == Cardinality(Paths)
           T == {N - entries[q].age : q \in stay}
<1>1. N \in Nat BY ReadsAssumption, FS_CardinalityType
<1>2. \A q \in stay : entries[q].age \in Nat /\ entries[q].age <= N
  BY DEF ReadsInv, ReadTypes, Entry, ReadsBounds
<1> HIDE DEF N
<1>3. T \subseteq Nat /\ T # {} BY <1>1, <1>2
<1>4. PICK n \in T : \A y \in T : n <= y BY <1>3, SmallestNumber
<1>5. PICK q \in stay : n = N - entries[q].age BY <1>4
<1>6. \A o \in stay : n <= N - entries[o].age BY <1>4
<1> QED BY <1>1, <1>2, <1>5, <1>6

\* What is stored takes the room of the oldest entry when there is none left.
LEMMA StoreFits ==
    ASSUME ReadsInv, ReadsBounds, NEW p \in Paths, NEW v \in Nat, Store(p, v)
    PROVE  /\ DOMAIN entries' \subseteq Paths /\ Cardinality(DOMAIN entries') <= MaxEntries
           /\ \A q \in DOMAIN entries' : entries'[q].age <= Cardinality(Paths)
<1> DEFINE stay == Kept(p)
           old == CHOOSE q \in stay : \A o \in stay : entries[o].age <= entries[q].age
           room == IF Cardinality(stay) < MaxEntries THEN stay ELSE stay \ {old}
           mine == [value |-> v, fresh |-> TRUE, age |-> 0]
<1>0. /\ MaxEntries \in Nat \ {0} /\ Cardinality(Paths) \in Nat /\ IsFiniteSet(Paths)
      /\ DOMAIN entries \subseteq Paths /\ IsFiniteSet(DOMAIN entries)
  BY ReadsAssumption, FS_CardinalityType, FS_Subset DEF ReadsBounds
<1>1. stay \subseteq DOMAIN entries /\ p \notin stay BY DEF Kept
<1>2. /\ IsFiniteSet(stay) /\ Cardinality(stay) \in Nat /\ Cardinality(stay) <= MaxEntries
  BY <1>0, <1>1, FS_Subset, FS_CardinalityType DEF ReadsBounds
<1>3. /\ entries' = [q \in room \cup {p} |-> IF q = p THEN mine ELSE Aged(q)]
  BY DEF Store
<1>4. /\ room \subseteq stay /\ IsFiniteSet(room) /\ Cardinality(room) \in Nat
      /\ Cardinality(room) + 1 <= MaxEntries
  <2>1. CASE Cardinality(stay) < MaxEntries
    BY <1>0, <1>2, <2>1
  <2>2. CASE ~(Cardinality(stay) < MaxEntries)
    <3>1. stay # {} BY <1>0, <2>2, FS_EmptySet
    <3>2. old \in stay BY <1>1, <3>1, OldestEntry
    <3>3. room = stay \ {old} BY <2>2
    <3> HIDE DEF old, room, stay
    <3>4. IsFiniteSet(room) /\ Cardinality(room) = Cardinality(stay) - 1
      BY <1>2, <3>2, <3>3, FS_RemoveElement
    <3> QED BY <1>0, <1>2, <3>1, <3>3, <3>4, FS_CardinalityType
  <2> QED BY <2>1, <2>2
<1> HIDE DEF stay, old, room
<1>5. DOMAIN entries' = room \cup {p} BY <1>3
<1>6. Cardinality(room \cup {p}) <= MaxEntries
  <2>1. p \notin room BY <1>1, <1>4
  <2>2. Cardinality(room \cup {p}) = Cardinality(room) + 1 BY <1>4, <2>1, FS_AddElement
  <2> QED BY <1>4, <2>2
<1>7. ASSUME NEW q \in DOMAIN entries' PROVE entries'[q].age <= Cardinality(Paths)
  <2>1. CASE q = p
    <3>1. entries'[q] = mine BY <1>3, <1>5, <2>1
    <3> QED BY <1>0, <3>1
  <2>2. CASE q # p
    <3>1. q \in DOMAIN entries /\ entries'[q] = Aged(q) BY <1>1, <1>3, <1>4, <1>5, <2>2
    <3>2. entries[q] \in [value : Nat, fresh : BOOLEAN, age : Nat] /\ entries[q].age <= Cardinality(Paths)
      BY <3>1 DEF ReadsInv, ReadTypes, Entry, ReadsBounds
    <3>3. Aged(q).age = IF entries[q].age < Cardinality(Paths) THEN entries[q].age + 1 ELSE entries[q].age
      BY <3>2 DEF Aged
    <3> QED BY <1>0, <3>1, <3>2, <3>3
  <2> QED BY <2>1, <2>2
<1> QED BY <1>0, <1>1, <1>4, <1>5, <1>6, <1>7

\* Fewer entries are still few enough.
LEMMA FewerFit ==
    ASSUME ReadsInv, ReadsBounds, DOMAIN entries' \subseteq DOMAIN entries,
           \A q \in DOMAIN entries' : entries'[q].age = entries[q].age
    PROVE  /\ DOMAIN entries' \subseteq Paths /\ Cardinality(DOMAIN entries') <= MaxEntries
           /\ \A q \in DOMAIN entries' : entries'[q].age <= Cardinality(Paths)
<1>1. IsFiniteSet(DOMAIN entries) /\ DOMAIN entries \subseteq Paths
  BY ReadsAssumption, FS_Subset DEF ReadsBounds
<1>2. Cardinality(DOMAIN entries') <= Cardinality(DOMAIN entries) /\ IsFiniteSet(DOMAIN entries')
  BY <1>1, FS_Subset
<1>3. Cardinality(DOMAIN entries) \in Nat /\ Cardinality(DOMAIN entries') \in Nat
  BY <1>1, <1>2, FS_CardinalityType
<1> QED BY <1>1, <1>2, <1>3, ReadsAssumption DEF ReadsBounds

\* Every step keeps the bounds.
LEMMA ReadsBoundsStep ==
    ASSUME ReadsInv, ReadsBounds, [ReadsNext]_readVars
    PROVE  ReadsBounds'
<1>1. ASSUME NEW r \in Pages, JoinFlight(r) PROVE ReadsBounds'
  <2> DEFINE p == page[r].path
             new == Flight(p, fence)
  <2>1. /\ entries' = [q \in DOMAIN entries \ {p} |-> entries[q]] /\ UNCHANGED settings
        /\ flights' = IF \E f \in flights : Key(f) = <<p, fence>> THEN flights ELSE flights \cup {new}
    BY <1>1 DEF JoinFlight
  <2>2. Key(new) = <<p, fence>> BY DEF Key, Flight
  <2> HIDE DEF new, p
  <2>3. \A f, g \in flights' : Key(f) = Key(g) => f = g BY <2>1, <2>2 DEF ReadsBounds
  <2>4. DOMAIN entries' \subseteq DOMAIN entries /\ \A q \in DOMAIN entries' : entries'[q].age = entries[q].age
    BY <2>1
  <2> QED BY <2>1, <2>3, <2>4, FewerFit DEF ReadsBounds
<1>2. ASSUME NEW f \in flights, UpstreamAnswers(f) PROVE ReadsBounds'
  <2> DEFINE g == [f EXCEPT !.step = "read", !.value = settings]
  <2>1. flights' = (flights \ {f}) \cup {g} /\ UNCHANGED <<settings, entries>>
    BY <1>2 DEF UpstreamAnswers
  <2>2. f \in Flights BY DEF ReadsInv, ReadTypes
  <2>3. Key(g) = Key(f) BY <2>2 DEF Key, Flights
  <2> HIDE DEF g
  <2> QED BY <2>1, <2>3 DEF ReadsBounds
<1>3. ASSUME NEW f \in flights, Deliver(f) PROVE ReadsBounds'
  <2>1. flights' = flights \ {f} /\ UNCHANGED settings BY <1>3 DEF Deliver, Land
  <2>2. f.path \in Paths /\ f.value \in Nat BY DEF ReadsInv, ReadTypes, Flights
  <2>3. Store(f.path, f.value) \/ UNCHANGED entries BY <1>3 DEF Deliver
  <2>4. CASE Store(f.path, f.value) BY <2>1, <2>2, <2>4, StoreFits DEF ReadsBounds
  <2>5. CASE UNCHANGED entries BY <2>1, <2>5 DEF ReadsBounds
  <2> QED BY <2>3, <2>4, <2>5
<1>4. ASSUME NEW p \in Paths, Expire(p) PROVE ReadsBounds'
  <2>1. p \in DOMAIN entries /\ UNCHANGED <<settings, flights>> BY <1>4 DEF Expire
  <2> DEFINE new == [entries[p] EXCEPT !.fresh = FALSE]
  <2>2. entries[p] \in [value : Nat, fresh : BOOLEAN, age : Nat] BY <2>1 DEF ReadsInv, ReadTypes, Entry
  <2>3. entries' = [q \in DOMAIN entries |-> IF q = p THEN new ELSE entries[q]]
    BY <1>4, <2>1 DEF Expire, ReadsInv, ReadTypes
  <2>4. new.age = entries[p].age BY <2>2
  <2> HIDE DEF new
  <2>5. DOMAIN entries' \subseteq DOMAIN entries /\ \A q \in DOMAIN entries' : entries'[q].age = entries[q].age
    BY <2>3, <2>4
  <2> QED BY <2>1, <2>5, FewerFit DEF ReadsBounds
<1>5. ASSUME NEW w \in Editors, BeginWrite(w) \/ EndWrite(w) PROVE ReadsBounds'
  <2>1. UNCHANGED <<settings, flights>> /\ Invalidate BY <1>5 DEF BeginWrite, EndWrite, WriteEnds
  <2>2. DOMAIN entries' = {} BY <2>1 DEF Invalidate
  <2>3. DOMAIN entries' \subseteq DOMAIN entries /\ \A q \in DOMAIN entries' : entries'[q].age = entries[q].age
    BY <2>2
  <2> QED BY <2>1, <2>3, FewerFit DEF ReadsBounds
<1>6. ASSUME NEW w \in Editors, Apply(w) PROVE ReadsBounds'
  <2>1. settings < MaxSettings /\ settings' = settings + 1 /\ UNCHANGED <<entries, flights>>
    BY <1>6 DEF Apply
  <2> QED BY <2>1, ReadsAssumption DEF ReadsInv, ReadTypes, ReadsBounds
<1>7. ASSUME NEW f \in flights, FlightFails(f) PROVE ReadsBounds'
  BY <1>7 DEF FlightFails, Land, ReadsBounds
<1>8. CASE \/ \E r \in Pages, p \in Paths : OpenPage(r, p)
           \/ \E r \in Pages : LookUp(r) \/ Wake(r) \/ LeavePage(r)
           \/ UNCHANGED readVars
  BY <1>8 DEF OpenPage, LookUp, Wake, LeavePage, readVars, ReadsBounds
<1> QED BY <1>1, <1>2, <1>3, <1>4, <1>5, <1>6, <1>7, <1>8 DEF ReadsNext

\* The cache never outgrows its bound, and one request at a time is on its way
\* for a path in a generation (upstreamReadCache.store, cachedUpstreamRead).
THEOREM ReadsTypes == ReadsSpec => []ReadsTypeOK
<1>1. ReadsInit => ReadsBounds
  BY ReadsAssumption, FS_EmptySet DEF ReadsInit, ReadsBounds
<1>2. ReadsInv /\ ReadsBounds /\ [ReadsNext]_readVars => ReadsBounds' BY ReadsBoundsStep
<1>3. ReadsInv /\ ReadsBounds => ReadsTypeOK
  BY ReadsAssumption DEF ReadsInv, ReadTypes, Fenced, ReadsBounds, ReadsTypeOK
<1> QED BY <1>1, <1>2, <1>3, ReadsInitially, ReadsStep, PTL DEF ReadsSpec

(***************************************************************************)
(* AnalyticsLoads.                                                         *)
(***************************************************************************)
CallerSteps == {"idle", "look", "wait", "after", "answered", "failed", "left"}
Results == [query : Nat, full : BOOLEAN]
CallerRecords == [step : CallerSteps, refresh : BOOLEAN, floor : Nat, got : Results,
                  from : {"none", "cache", "query"}]

LoadTypes ==
    /\ queries \in Nat
    /\ kept \in [query : Nat, full : BOOLEAN, fresh : BOOLEAN]
    /\ flight \in [step : {"none", "fetch", "store", "end"}, refresh : BOOLEAN, query : Nat,
                   ok : BOOLEAN, keep : BOOLEAN]
    /\ caller \in [Callers -> CallerRecords]

\* The query that runs is the newest one; what is kept is not older than what
\* anybody who still looks was shown; and a refresh waits only for a refresh.
NewestWins ==
    /\ kept.query <= queries
    /\ flight.step # "none" => flight.query = queries
    /\ \A c \in Callers :
          /\ caller[c].floor <= queries
          /\ caller[c].step \in {"look", "after"} /\ kept.query # 0 => kept.query >= caller[c].floor
          /\ caller[c].step = "wait" /\ caller[c].refresh => flight.refresh

LoadsInv == LoadTypes /\ NewestWins /\ RefreshIsFull

\* At first there is no result and nobody waits.
LEMMA LoadsInitially == LoadsInit => LoadsInv
BY DEF LoadsInit, LoadsInv, LoadTypes, NewestWins, RefreshIsFull, NotStored, NoFlight, NewCaller,
   NoResult, CallerRecords, CallerSteps, Results, Running

\* One caller changes.
LEMMA OneCaller ==
    ASSUME LoadTypes, NEW c \in Callers, NEW new \in CallerRecords, caller' = [caller EXCEPT ![c] = new]
    PROVE  /\ caller' \in [Callers -> CallerRecords] /\ caller'[c] = new
           /\ \A o \in Callers : o # c => caller'[o] = caller[o]
BY DEF LoadTypes

\* From here on, one action at a time: the newest query wins, and a refresh waits for a
\* refresh.
LEMMA CallKeeps ==
    ASSUME LoadsInv, NEW c \in Callers, NEW refresh \in BOOLEAN, Call(c, refresh)
    PROVE  LoadsInv'
<1> DEFINE i == caller[c]
           j == [i EXCEPT !.step = "look"]
           k == [j EXCEPT !.refresh = refresh]
           new == [k EXCEPT !.floor = kept.query]
<1>1. caller' = [caller EXCEPT ![c] = new] /\ UNCHANGED <<kept, flight, queries>>
  BY DEF Call, LoadsInv, LoadTypes
<1>2. i \in CallerRecords /\ kept.query \in Nat
  BY DEF LoadsInv, LoadTypes
<1> HIDE DEF i
<1>3. j \in CallerRecords /\ j.step = "look"
  BY <1>2 DEF CallerRecords, CallerSteps
<1> HIDE DEF j
<1>4. k \in CallerRecords /\ k.step = "look"
  BY <1>3 DEF CallerRecords
<1> HIDE DEF k
<1>5. new \in CallerRecords /\ new.step = "look" /\ new.floor = kept.query
  BY <1>2, <1>4 DEF CallerRecords
<1> HIDE DEF new
<1>6. caller' \in [Callers -> CallerRecords] /\ caller'[c] = new
      /\ \A o \in Callers : o # c => caller'[o] = caller[o]
  BY <1>1, <1>5, OneCaller DEF LoadsInv
<1>7. LoadTypes'
  BY <1>1, <1>6 DEF LoadsInv, LoadTypes
<1>8. NewestWins'
  BY <1>1, <1>5, <1>6 DEF LoadsInv, LoadTypes, NewestWins
<1>9. RefreshIsFull'
  BY <1>1, <1>5, <1>6 DEF LoadsInv, RefreshIsFull, Running
<1> QED BY <1>7, <1>8, <1>9 DEF LoadsInv

LEMMA TakeStoredKeeps ==
    ASSUME LoadsInv, NEW c \in Callers, TakeStored(c)
    PROVE  LoadsInv'
<1> DEFINE i == caller[c]
           j == [i EXCEPT !.step = "answered"]
           k == [j EXCEPT !.from = "cache"]
           result == [query |-> kept.query, full |-> kept.full]
           new == [k EXCEPT !.got = result]
<1>1. caller' = [caller EXCEPT ![c] = new] /\ UNCHANGED <<kept, flight, queries>>
  BY DEF TakeStored, LoadsInv, LoadTypes
<1>2. i \in CallerRecords /\ result \in Results
  BY DEF LoadsInv, LoadTypes, Results
<1>3. ~i.refresh /\ kept.query >= i.floor
  BY DEF TakeStored, KeptHit, LoadsInv, NewestWins
<1>4. result.query = kept.query
  OBVIOUS
<1> HIDE DEF i, result
<1>5. j \in CallerRecords /\ j.step = "answered" /\ j.refresh = i.refresh /\ j.floor = i.floor
  BY <1>2 DEF CallerRecords, CallerSteps
<1> HIDE DEF j
<1>6. k \in CallerRecords /\ k.step = "answered" /\ k.refresh = i.refresh /\ k.floor = i.floor
  BY <1>5 DEF CallerRecords
<1> HIDE DEF k
<1>7. new \in CallerRecords /\ new.step = "answered" /\ new.refresh = i.refresh
      /\ new.floor = i.floor /\ new.got = result
  BY <1>2, <1>6 DEF CallerRecords
<1> HIDE DEF new
<1>8. caller' \in [Callers -> CallerRecords] /\ caller'[c] = new
      /\ \A o \in Callers : o # c => caller'[o] = caller[o]
  BY <1>1, <1>7, OneCaller DEF LoadsInv
<1>9. LoadTypes'
  BY <1>1, <1>8 DEF LoadsInv, LoadTypes
<1>10. NewestWins'
  BY <1>1, <1>7, <1>8 DEF LoadsInv, NewestWins, i
<1>11. RefreshIsFull'
  BY <1>1, <1>3, <1>4, <1>7, <1>8 DEF LoadsInv, RefreshIsFull, Running
<1> QED BY <1>9, <1>10, <1>11 DEF LoadsInv

\* A caller that only goes on to another step.
LEMMA CallerStep ==
    ASSUME LoadTypes, NEW c \in Callers, NEW step \in CallerSteps,
           caller' = [caller EXCEPT ![c].step = step]
    PROVE  /\ caller' \in [Callers -> CallerRecords]
           /\ caller'[c].step = step /\ caller'[c].refresh = caller[c].refresh
           /\ caller'[c].floor = caller[c].floor /\ caller'[c].got = caller[c].got
           /\ \A o \in Callers : o # c => caller'[o] = caller[o]
BY DEF LoadTypes, CallerRecords

\* A miss leaves the entry, or drops one that is not shown any more.
LEMMA MissKeeps ==
    ASSUME LoadsInv, NEW c \in Callers, kept' = AfterMiss(c)
    PROVE  /\ kept' \in [query : Nat, full : BOOLEAN, fresh : BOOLEAN]
           /\ kept' = kept \/ kept'.query = 0
BY DEF AfterMiss, NotStored, LoadsInv, LoadTypes

LEMMA JoinKeeps ==
    ASSUME LoadsInv, NEW c \in Callers, Join(c)
    PROVE  LoadsInv'
<1>1. /\ caller' = [caller EXCEPT ![c].step = "wait"] /\ UNCHANGED <<flight, queries>>
      /\ Running /\ (caller[c].refresh => flight.refresh)
  BY DEF Join
<1>2. kept' \in [query : Nat, full : BOOLEAN, fresh : BOOLEAN] /\ (kept' = kept \/ kept'.query = 0)
  BY MissKeeps DEF Join
<1>3. "wait" \in CallerSteps
  BY DEF CallerSteps
<1>4. /\ caller' \in [Callers -> CallerRecords]
      /\ caller'[c].step = "wait" /\ caller'[c].refresh = caller[c].refresh
      /\ caller'[c].floor = caller[c].floor
      /\ \A o \in Callers : o # c => caller'[o] = caller[o]
  BY <1>1, <1>3, CallerStep DEF LoadsInv
<1>5. LoadTypes'
  BY <1>1, <1>2, <1>4 DEF LoadsInv, LoadTypes
<1>6. NewestWins'
  BY <1>1, <1>2, <1>4 DEF LoadsInv, LoadTypes, NewestWins
<1>7. RefreshIsFull'
  BY <1>1, <1>4 DEF LoadsInv, RefreshIsFull, Running
<1> QED BY <1>5, <1>6, <1>7 DEF LoadsInv

LEMMA WaitForOtherKeeps ==
    ASSUME LoadsInv, NEW c \in Callers, WaitForOther(c)
    PROVE  LoadsInv'
<1>1. /\ caller' = [caller EXCEPT ![c].step = "after"] /\ UNCHANGED <<kept, flight, queries>>
      /\ Running /\ caller[c].step = "look"
  BY DEF WaitForOther, Misses
<1>2. "after" \in CallerSteps
  BY DEF CallerSteps
<1>3. /\ caller' \in [Callers -> CallerRecords]
      /\ caller'[c].step = "after" /\ caller'[c].floor = caller[c].floor
      /\ \A o \in Callers : o # c => caller'[o] = caller[o]
  BY <1>1, <1>2, CallerStep DEF LoadsInv
<1>4. LoadTypes'
  BY <1>1, <1>3 DEF LoadsInv, LoadTypes
<1>5. NewestWins'
  BY <1>1, <1>3 DEF LoadsInv, NewestWins
<1>6. RefreshIsFull'
  BY <1>1, <1>3 DEF LoadsInv, RefreshIsFull, Running
<1> QED BY <1>4, <1>5, <1>6 DEF LoadsInv

LEMMA StartQueryKeeps ==
    ASSUME LoadsInv, NEW c \in Callers, StartQuery(c)
    PROVE  LoadsInv'
<1> DEFINE f1 == [NoFlight EXCEPT !.step = "fetch"]
           f2 == [f1 EXCEPT !.refresh = caller[c].refresh]
           new == [f2 EXCEPT !.query = queries + 1]
<1>1. /\ caller' = [caller EXCEPT ![c].step = "wait"] /\ flight' = new
      /\ queries' = queries + 1 /\ ~Running
  BY DEF StartQuery
<1>2. kept' \in [query : Nat, full : BOOLEAN, fresh : BOOLEAN] /\ (kept' = kept \/ kept'.query = 0)
  BY MissKeeps DEF StartQuery
<1>3. "wait" \in CallerSteps /\ caller[c].refresh \in BOOLEAN
  BY DEF CallerSteps, LoadsInv, LoadTypes, CallerRecords
<1>4. /\ caller' \in [Callers -> CallerRecords]
      /\ caller'[c].step = "wait" /\ caller'[c].refresh = caller[c].refresh
      /\ caller'[c].floor = caller[c].floor
      /\ \A o \in Callers : o # c => caller'[o] = caller[o]
  BY <1>1, <1>3, CallerStep DEF LoadsInv
<1> DEFINE Flying == [step : {"none", "fetch", "store", "end"}, refresh : BOOLEAN, query : Nat,
                      ok : BOOLEAN, keep : BOOLEAN]
<1>5. f1 \in Flying /\ f1.step = "fetch"
  BY DEF NoFlight
<1> HIDE DEF f1
<1>6. f2 \in Flying /\ f2.step = "fetch" /\ f2.refresh = caller[c].refresh
  BY <1>3, <1>5
<1> HIDE DEF f2
<1>7. queries \in Nat
  BY DEF LoadsInv, LoadTypes
<1>8. new \in Flying /\ new.step = "fetch" /\ new.refresh = caller[c].refresh
      /\ new.query = queries + 1
  BY <1>6, <1>7
<1> HIDE DEF new
<1>9. LoadTypes'
  BY <1>1, <1>2, <1>4, <1>7, <1>8 DEF LoadTypes
<1>10. \A o \in Callers : caller[o].step \notin {"wait", "after"}
  BY <1>1 DEF LoadsInv, RefreshIsFull
<1>11. \A o \in Callers : caller[o].floor \in Nat
  BY DEF LoadsInv, LoadTypes, CallerRecords
<1>12. NewestWins'
  <2>1. kept'.query <= queries'
    BY <1>1, <1>2, <1>7 DEF LoadsInv, LoadTypes, NewestWins
  <2>2. flight'.step # "none" => flight'.query = queries'
    BY <1>1, <1>8
  <2>3. ASSUME NEW o \in Callers
        PROVE  /\ caller'[o].floor <= queries'
               /\ caller'[o].step \in {"look", "after"} /\ kept'.query # 0 => kept'.query >= caller'[o].floor
               /\ caller'[o].step = "wait" /\ caller'[o].refresh => flight'.refresh
    BY <1>1, <1>2, <1>4, <1>7, <1>8, <1>10, <1>11 DEF LoadsInv, NewestWins
  <2> QED BY <2>1, <2>2, <2>3 DEF NewestWins
<1>13. RefreshIsFull'
  BY <1>1, <1>4, <1>8 DEF LoadsInv, RefreshIsFull, Running
<1> QED BY <1>9, <1>12, <1>13 DEF LoadsInv

LEMMA FetchedKeeps ==
    ASSUME LoadsInv, NEW ok \in BOOLEAN, NEW keep \in BOOLEAN, Fetched(ok, keep)
    PROVE  LoadsInv'
<1> DEFINE f1 == [flight EXCEPT !.step = IF keep THEN "store" ELSE "end"]
           f2 == [f1 EXCEPT !.ok = ok]
           new == [f2 EXCEPT !.keep = keep]
           Flying == [step : {"none", "fetch", "store", "end"}, refresh : BOOLEAN, query : Nat,
                      ok : BOOLEAN, keep : BOOLEAN]
<1>1. flight' = new /\ UNCHANGED <<kept, caller, queries>> /\ flight.step = "fetch"
  BY DEF Fetched
<1>2. flight \in Flying
  BY DEF LoadsInv, LoadTypes
<1>3. f1 \in Flying /\ f1.step # "none" /\ f1.refresh = flight.refresh /\ f1.query = flight.query
  BY <1>2
<1> HIDE DEF f1
<1>4. f2 \in Flying /\ f2.step # "none" /\ f2.refresh = flight.refresh /\ f2.query = flight.query
  BY <1>3
<1> HIDE DEF f2
<1>5. new \in Flying /\ new.step # "none" /\ new.refresh = flight.refresh /\ new.query = flight.query
  BY <1>4
<1> HIDE DEF new
<1>6. LoadTypes'
  BY <1>1, <1>5 DEF LoadsInv, LoadTypes
<1>7. NewestWins'
  BY <1>1, <1>5 DEF LoadsInv, NewestWins
<1>8. RefreshIsFull'
  BY <1>1, <1>5 DEF LoadsInv, RefreshIsFull, Running
<1> QED BY <1>6, <1>7, <1>8 DEF LoadsInv

LEMMA PutCacheKeeps ==
    ASSUME LoadsInv, PutCache
    PROVE  LoadsInv'
<1> DEFINE new == [query |-> flight.query, full |-> flight.refresh, fresh |-> TRUE]
           Flying == [step : {"none", "fetch", "store", "end"}, refresh : BOOLEAN, query : Nat,
                      ok : BOOLEAN, keep : BOOLEAN]
<1>1. /\ kept' = (IF CacheOn THEN new ELSE kept) /\ UNCHANGED <<caller, queries>>
      /\ flight.step = "store" /\ flight' = [flight EXCEPT !.step = "end"]
  BY DEF PutCache
<1>2. flight \in Flying /\ queries \in Nat /\ flight.query = queries
  BY <1>1 DEF LoadsInv, LoadTypes, NewestWins
<1>3. flight' \in Flying /\ flight'.step = "end" /\ flight'.refresh = flight.refresh
      /\ flight'.query = flight.query
  BY <1>1, <1>2
<1>4. new \in [query : Nat, full : BOOLEAN, fresh : BOOLEAN] /\ new.query = queries
  BY <1>2
<1> HIDE DEF new
<1>5. LoadTypes'
  BY <1>1, <1>3, <1>4 DEF LoadsInv, LoadTypes
<1>6. NewestWins'
  BY <1>1, <1>2, <1>3, <1>4 DEF LoadsInv, NewestWins
<1>7. RefreshIsFull'
  BY <1>1, <1>3 DEF LoadsInv, RefreshIsFull, Running
<1> QED BY <1>5, <1>6, <1>7 DEF LoadsInv

\* The end of the query: each waiter is answered, fails, or looks again.
LEMMA LandQueryKeeps ==
    ASSUME LoadsInv, LandQuery
    PROVE  LoadsInv'
<1> DEFINE result == [query |-> flight.query, full |-> flight.refresh]
           look(c) == [caller[c] EXCEPT !.step = "look"]
           fail(c) == [caller[c] EXCEPT !.step = "failed"]
           a1(c) == [caller[c] EXCEPT !.step = "answered"]
           a2(c) == [a1(c) EXCEPT !.from = "query"]
           answer(c) == [a2(c) EXCEPT !.got = result]
<1>1. /\ flight.step = "end" /\ flight' = NoFlight /\ UNCHANGED <<kept, queries>>
      /\ caller' = [c \in Callers |->
             CASE caller[c].step = "after" -> look(c)
               [] caller[c].step = "wait" /\ flight.ok -> answer(c)
               [] caller[c].step = "wait" /\ ~flight.ok -> fail(c)
               [] OTHER -> caller[c]]
  BY DEF LandQuery
<1>2. /\ flight.query = queries /\ queries \in Nat /\ kept.query \in Nat
      /\ flight.refresh \in BOOLEAN /\ flight.ok \in BOOLEAN
      /\ \A c \in Callers : caller[c] \in CallerRecords
  BY <1>1 DEF LoadsInv, LoadTypes, NewestWins
<1>3. result \in Results /\ result.query = queries /\ result.full = flight.refresh
  BY <1>2 DEF Results
<1> HIDE DEF result
<1>4. \A c \in Callers : /\ look(c) \in CallerRecords /\ look(c).step = "look"
                         /\ look(c).floor = caller[c].floor /\ look(c).refresh = caller[c].refresh
  BY <1>2 DEF CallerRecords, CallerSteps
<1>5. \A c \in Callers : /\ fail(c) \in CallerRecords /\ fail(c).step = "failed"
                         /\ fail(c).floor = caller[c].floor
  BY <1>2 DEF CallerRecords, CallerSteps
<1>6. \A c \in Callers : /\ a1(c) \in CallerRecords /\ a1(c).step = "answered"
                         /\ a1(c).floor = caller[c].floor /\ a1(c).refresh = caller[c].refresh
  BY <1>2 DEF CallerRecords, CallerSteps
<1> HIDE DEF look, fail, a1
<1>7. \A c \in Callers : /\ a2(c) \in CallerRecords /\ a2(c).step = "answered"
                         /\ a2(c).floor = caller[c].floor /\ a2(c).refresh = caller[c].refresh
                         /\ a2(c).from = "query"
  BY <1>6 DEF CallerRecords
<1> HIDE DEF a2
<1>8. \A c \in Callers : /\ answer(c) \in CallerRecords /\ answer(c).step = "answered"
                         /\ answer(c).floor = caller[c].floor
                         /\ answer(c).refresh = caller[c].refresh
                         /\ answer(c).from = "query" /\ answer(c).got = result
  BY <1>3, <1>7 DEF CallerRecords
<1> HIDE DEF answer
<1>9. ASSUME NEW c \in Callers
      PROVE  \/ caller[c].step = "after" /\ caller'[c] = look(c)
             \/ caller[c].step = "wait" /\ caller'[c] \in {answer(c), fail(c)}
             \/ caller[c].step \notin {"wait", "after"} /\ caller'[c] = caller[c]
  BY <1>1, <1>2
<1>10. caller' \in [Callers -> CallerRecords]
  <2>1. \A c \in Callers : caller'[c] \in CallerRecords
    BY <1>2, <1>4, <1>5, <1>8, <1>9
  <2>2. caller' = [c \in Callers |-> caller'[c]]
    BY <1>1
  <2> QED BY <2>1, <2>2
<1>11. LoadTypes'
  BY <1>1, <1>10 DEF LoadsInv, LoadTypes, NoFlight
<1>12. NewestWins'
  <2>1. \A c \in Callers : caller[c].floor <= queries
    BY DEF LoadsInv, NewestWins
  <2>2. \A c \in Callers : caller[c].step = "after" /\ kept.query # 0 => kept.query >= caller[c].floor
    BY DEF LoadsInv, NewestWins
  <2> QED BY <1>1, <1>4, <1>5, <1>8, <1>9, <2>1, <2>2 DEF LoadsInv, NewestWins, NoFlight
<1>13. RefreshIsFull'
  <2>1. \A c \in Callers : caller[c].step = "wait" /\ caller[c].refresh => flight.refresh
    BY DEF LoadsInv, NewestWins
  <2>2. \A c \in Callers : caller[c].floor <= queries
    BY DEF LoadsInv, NewestWins
  <2> QED BY <1>2, <1>3, <1>4, <1>5, <1>8, <1>9, <2>1, <2>2 DEF LoadsInv, RefreshIsFull
<1> QED BY <1>11, <1>12, <1>13 DEF LoadsInv

LEMMA LeaveLoadKeeps ==
    ASSUME LoadsInv, NEW c \in Callers, LeaveLoad(c)
    PROVE  LoadsInv'
<1>1. caller' = [caller EXCEPT ![c].step = "left"] /\ UNCHANGED <<kept, flight, queries>>
  BY DEF LeaveLoad
<1>2. "left" \in CallerSteps
  BY DEF CallerSteps
<1>3. /\ caller' \in [Callers -> CallerRecords]
      /\ caller'[c].step = "left" /\ caller'[c].floor = caller[c].floor
      /\ \A o \in Callers : o # c => caller'[o] = caller[o]
  BY <1>1, <1>2, CallerStep DEF LoadsInv
<1>4. LoadTypes'
  BY <1>1, <1>3 DEF LoadsInv, LoadTypes
<1>5. NewestWins'
  BY <1>1, <1>3 DEF LoadsInv, NewestWins
<1>6. RefreshIsFull'
  BY <1>1, <1>3 DEF LoadsInv, RefreshIsFull, Running
<1> QED BY <1>4, <1>5, <1>6 DEF LoadsInv

LEMMA ExpireStoredKeeps ==
    ASSUME LoadsInv, ExpireStored
    PROVE  LoadsInv'
<1>1. kept' = [kept EXCEPT !.fresh = FALSE] /\ UNCHANGED <<flight, caller, queries>>
  BY DEF ExpireStored
<1>2. kept' \in [query : Nat, full : BOOLEAN, fresh : BOOLEAN] /\ kept'.query = kept.query
  BY <1>1 DEF LoadsInv, LoadTypes
<1> QED BY <1>1, <1>2 DEF LoadsInv, LoadTypes, NewestWins, RefreshIsFull, Running

\* Every step keeps the invariant.
LEMMA LoadsStep == LoadsInv /\ [LoadsNext]_loadVars => LoadsInv'
<1> SUFFICES ASSUME LoadsInv, [LoadsNext]_loadVars PROVE LoadsInv'
  OBVIOUS
<1>1. CASE UNCHANGED loadVars
  BY <1>1 DEF loadVars, LoadsInv, LoadTypes, NewestWins, RefreshIsFull, Running
<1>2. CASE LoadsNext
  BY <1>2, CallKeeps, TakeStoredKeeps, JoinKeeps, WaitForOtherKeeps, StartQueryKeeps,
     LeaveLoadKeeps, FetchedKeeps, PutCacheKeeps, LandQueryKeeps, ExpireStoredKeeps DEF LoadsNext
<1> QED BY <1>1, <1>2

\* A refresh by hand is answered by a query that counted everything anew, nobody
\* by an older result than he was shown, and whoever waits, waits for a query
\* that runs (loadAnalytics).
THEOREM RefreshesAreFull == LoadsSpec => []RefreshIsFull
BY LoadsInitially, LoadsStep, PTL DEF LoadsSpec, LoadsInv

\* What a query's number and the steps of a load may be, in any step.
LEMMA LoadsTypesStep ==
    ASSUME LoadsInv, LoadsTypeOK, [LoadsNext]_loadVars
    PROVE  LoadsTypeOK'
<1>1. LoadsInv' BY LoadsStep
<1>2. /\ queries' \in Nat /\ kept'.query \in 0..queries' /\ flight'.query \in Nat
      /\ flight'.step \in {"none", "fetch", "store", "end"}
      /\ flight'.step # "none" => flight'.query = queries'
  BY <1>1 DEF LoadsInv, LoadTypes, NewestWins
<1>3. \A c \in Callers : caller'[c].step \in CallerSteps
  BY <1>1 DEF LoadsInv, LoadTypes, CallerRecords
<1>4. queries' <= MaxQueries /\ queries <= queries'
  <2>1. queries \in 0..MaxQueries BY DEF LoadsTypeOK
  <2>2. queries' = queries \/ (queries < MaxQueries /\ queries' = queries + 1)
    BY DEF LoadsNext, loadVars, Call, TakeStored, Join, WaitForOther, StartQuery, LeaveLoad,
       Fetched, PutCache, LandQuery, ExpireStored
  <2> QED BY <2>1, <2>2, LoadsAssumption
<1>5. flight'.step = "none" => flight'.query \in 0..queries'
  <2> SUFFICES ASSUME flight'.step = "none" PROVE flight'.query \in 0..queries' OBVIOUS
  <2>1. flight.query \in 0..queries /\ queries \in Nat BY DEF LoadsTypeOK
  <2>2. flight' = flight \/ flight' = NoFlight \/ flight'.step # "none"
    <3>1. CASE \E c \in Callers : StartQuery(c)
      <4>1. PICK c \in Callers : StartQuery(c) BY <3>1
      <4>2. flight' = [NoFlight EXCEPT !.step = "fetch", !.refresh = caller[c].refresh, !.query = queries + 1]
        BY <4>1 DEF StartQuery
      <4> QED BY <4>2 DEF NoFlight
    <3>2. CASE \E ok, keep \in BOOLEAN : Fetched(ok, keep)
      <4>1. PICK ok, keep \in BOOLEAN : Fetched(ok, keep) BY <3>2
      <4>2. /\ flight' = [flight EXCEPT !.step = IF keep THEN "store" ELSE "end", !.ok = ok, !.keep = keep]
            /\ flight \in [step : {"none", "fetch", "store", "end"}, refresh : BOOLEAN, query : Nat,
                           ok : BOOLEAN, keep : BOOLEAN]
        BY <4>1 DEF Fetched, LoadsInv, LoadTypes
      <4> QED BY <4>2
    <3>3. CASE PutCache
      <4>1. flight' = [flight EXCEPT !.step = "end"]
            /\ flight \in [step : {"none", "fetch", "store", "end"}, refresh : BOOLEAN, query : Nat,
                           ok : BOOLEAN, keep : BOOLEAN]
        BY <3>3 DEF PutCache, LoadsInv, LoadTypes
      <4> QED BY <4>1
    <3>4. CASE LandQuery \/ ExpireStored \/ UNCHANGED loadVars
      BY <3>4 DEF LandQuery, ExpireStored, loadVars
    <3>5. CASE \E c \in Callers : \/ \E refresh \in BOOLEAN : Call(c, refresh)
                                  \/ TakeStored(c) \/ Join(c) \/ WaitForOther(c) \/ LeaveLoad(c)
      BY <3>5 DEF Call, TakeStored, Join, WaitForOther, LeaveLoad
    <3> QED BY <3>1, <3>2, <3>3, <3>4, <3>5 DEF LoadsNext
  <2>3. NoFlight.query = 0 BY DEF NoFlight
  <2> QED BY <1>2, <1>4, <2>1, <2>2, <2>3
<1>6. flight'.query \in 0..queries' BY <1>2, <1>5
<1>7. queries' \in 0..MaxQueries BY <1>2, <1>4, LoadsAssumption
<1> QED BY <1>2, <1>3, <1>6, <1>7 DEF LoadsTypeOK, CallerSteps

\* No more queries are begun than the bound allows, and each result is that of a
\* query that was begun (loadAnalytics).
THEOREM LoadsTypes == LoadsSpec => []LoadsTypeOK
<1>1. LoadsInit => LoadsTypeOK
  BY LoadsAssumption DEF LoadsInit, LoadsTypeOK, NotStored, NoFlight, NewCaller
<1>2. LoadsInv /\ LoadsTypeOK /\ [LoadsNext]_loadVars => LoadsTypeOK' BY LoadsTypesStep
<1> QED BY <1>1, <1>2, LoadsInitially, LoadsStep, PTL DEF LoadsSpec

\* Both caches together, which share nothing.
THEOREM CachesHold == ReadsSpec /\ LoadsSpec => []CachedReadsHold
BY ReadsAreFenced, RefreshesAreFull, PTL DEF CachedReadsHold

-----------------------------------------------------------------------------
(* The statistics by model: pages.                                         *)

\* A set of rows of different events is finite, and "newer" orders it.
LEMMA RowsInOrder ==
    ASSUME NEW rows, OneEach(rows)
    PROVE  /\ IsFiniteSet(rows)
           /\ \A a \in rows : ~Newer(a, a)
           /\ \A a, b \in rows : a = b \/ Newer(a, b) \/ Newer(b, a)
           /\ \A a, b, c \in rows : Newer(a, b) /\ Newer(b, c) => Newer(a, c)
<1>1. \A a \in rows : a.id \in Events /\ a.id \in Nat /\ a.at \in Nat
  <2> SUFFICES ASSUME NEW a \in rows PROVE a.id \in Events /\ a.id \in Nat /\ a.at \in Nat
    OBVIOUS
  <2>1. a \in RowsOfEvents BY DEF OneEach
  <2>2. a.id \in Events /\ a.at \in 0..MaxTime BY <2>1 DEF RowsOfEvents
  <2>3. Events \subseteq Nat /\ MaxTime \in Nat BY StatisticsAssumption
  <2>4. 0..MaxTime \subseteq Nat BY <2>3
  <2> QED BY <2>2, <2>3, <2>4
<1>2. IsFiniteSet(rows)
  <2> DEFINE f == [a \in rows |-> a.id]
  <2>1. f \in [rows -> Events] BY <1>1
  <2>2. \A a, b \in rows : f[a] = f[b] => a = b BY DEF OneEach
  <2>3. f \in Injection(rows, Events) BY <2>1, <2>2 DEF Injection, IsInjective
  <2> QED BY <2>3, FS_Injection, StatisticsAssumption
<1>3. \A a, b \in rows : a = b \/ Newer(a, b) \/ Newer(b, a) BY <1>1 DEF Newer, OneEach
<1>4. \A a, b, c \in rows : Newer(a, b) /\ Newer(b, c) => Newer(a, c)
  <2> SUFFICES ASSUME NEW a \in rows, NEW b \in rows, NEW c \in rows, Newer(a, b), Newer(b, c)
               PROVE  Newer(a, c)
    OBVIOUS
  <2> QED BY <1>1 DEF Newer
<1>5. \A a \in rows : ~Newer(a, a) BY <1>1 DEF Newer
<1> QED BY <1>2, <1>3, <1>4, <1>5

\* The newer ones of a row are finite, and fewer than those of an older row.
LEMMA NewerCounted ==
    ASSUME NEW rows, OneEach(rows)
    PROVE  /\ \A a \in rows : Cardinality({s \in rows : Newer(s, a)}) \in Nat
           /\ \A a, b \in rows : Newer(a, b) =>
                  Cardinality({s \in rows : Newer(s, a)}) < Cardinality({s \in rows : Newer(s, b)})
<1> DEFINE N(a) == {s \in rows : Newer(s, a)}
<1>1. \A a \in rows : IsFiniteSet(N(a)) /\ Cardinality(N(a)) \in Nat
  <2> SUFFICES ASSUME NEW a \in rows PROVE IsFiniteSet(N(a)) /\ Cardinality(N(a)) \in Nat
    OBVIOUS
  <2>1. IsFiniteSet(rows) /\ N(a) \subseteq rows BY RowsInOrder
  <2>2. IsFiniteSet(N(a)) BY <2>1, FS_Subset
  <2> QED BY <2>2, FS_CardinalityType
<1>2. ASSUME NEW a \in rows, NEW b \in rows, Newer(a, b)
      PROVE  Cardinality(N(a)) < Cardinality(N(b))
  <2>1. N(a) \subseteq N(b) /\ a \in N(b) /\ a \notin N(a) BY <1>2, RowsInOrder
  <2> HIDE DEF N
  <2>2. N(a) # N(b) BY <2>1
  <2>3. /\ Cardinality(N(a)) <= Cardinality(N(b))
        /\ Cardinality(N(a)) = Cardinality(N(b)) => N(a) = N(b)
    BY <1>1, <2>1, FS_Subset
  <2> QED BY <1>1, <2>2, <2>3
<1> QED BY <1>1, <1>2

\* A page is the newest rows, and it is empty only if there are none.
LEMMA PageIs ==
    ASSUME NEW rows, OneEach(rows)
    PROVE  /\ Page(rows) \in PagesOfRows /\ Page(rows).rows \subseteq rows
           /\ ~Page(rows).more => Page(rows).rows = rows
           /\ \A a \in rows \ Page(rows).rows, b \in Page(rows).rows : Newer(b, a)
           /\ Page(rows).more => Page(rows).rows # {}
<1> DEFINE N(a) == {s \in rows : Newer(s, a)}
           newest == {a \in rows : Cardinality(N(a)) < PageSize}
<1>1. Page(rows) = [rows |-> newest, more |-> newest # rows] BY DEF Page
<1>2. Page(rows).rows = newest /\ Page(rows).more = (newest # rows) BY <1>1
<1>3. Page(rows) \in PagesOfRows BY <1>1 DEF PagesOfRows, OneEach
<1>4. PageSize \in Nat /\ PageSize > 0 BY StatisticsAssumption
<1>5. /\ \A a \in rows : Cardinality(N(a)) \in Nat
      /\ \A a, b \in rows : Newer(a, b) => Cardinality(N(a)) < Cardinality(N(b))
  BY NewerCounted
<1> HIDE DEF N
<1>6. \A a \in rows \ newest, b \in newest : Newer(b, a)
  <2> SUFFICES ASSUME NEW a \in rows \ newest, NEW b \in newest, ~Newer(b, a) PROVE FALSE
    OBVIOUS
  <2>1. Newer(a, b) BY RowsInOrder
  <2>2. Cardinality(N(a)) < Cardinality(N(b)) BY <1>5, <2>1
  <2> QED BY <1>4, <1>5, <2>2
<1>7. newest # rows => newest # {}
  <2> SUFFICES ASSUME newest # rows PROVE newest # {}
    OBVIOUS
  <2>1. PICK T : T = {Cardinality(N(a)) : a \in rows} OBVIOUS
  <2>2. rows # {} /\ T \subseteq Nat /\ T # {} BY <1>5, <2>1
  <2>3. PICK n \in T : \A m \in T : n <= m BY <2>2, SmallestNumber
  <2>4. PICK a \in rows : n = Cardinality(N(a)) BY <2>1, <2>3
  <2>5. ASSUME NEW b \in N(a) PROVE FALSE
    <3>1. b \in rows /\ Newer(b, a) BY DEF N
    <3>2. Cardinality(N(b)) < Cardinality(N(a)) /\ n <= Cardinality(N(b)) BY <1>5, <2>1, <2>3, <3>1
    <3> QED BY <1>5, <2>4, <3>1, <3>2
  <2>6. N(a) = {} BY <2>5
  <2>7. Cardinality(N(a)) = 0 BY <2>6, FS_EmptySet
  <2> QED BY <1>4, <2>7
<1> QED BY <1>2, <1>3, <1>6, <1>7

\* The oldest of a page.
LEMMA OldestIs ==
    ASSUME NEW rows, OneEach(rows), rows # {}
    PROVE  OldestOf(rows) \in rows /\ \A s \in rows : s = OldestOf(rows) \/ Newer(s, OldestOf(rows))
<1> DEFINE A(a) == {s \in rows : Newer(a, s)}
<1>1. \A a \in rows : IsFiniteSet(A(a)) /\ Cardinality(A(a)) \in Nat
  <2> SUFFICES ASSUME NEW a \in rows PROVE IsFiniteSet(A(a)) /\ Cardinality(A(a)) \in Nat
    OBVIOUS
  <2>1. IsFiniteSet(rows) /\ A(a) \subseteq rows BY RowsInOrder
  <2>2. IsFiniteSet(A(a)) BY <2>1, FS_Subset
  <2> QED BY <2>2, FS_CardinalityType
<1>2. ASSUME NEW a \in rows, NEW b \in rows, Newer(a, b)
      PROVE  Cardinality(A(b)) < Cardinality(A(a))
  <2>1. A(b) \subseteq A(a) /\ b \in A(a) /\ b \notin A(b) BY <1>2, RowsInOrder
  <2> HIDE DEF A
  <2>2. A(b) # A(a) BY <2>1
  <2>3. /\ Cardinality(A(b)) <= Cardinality(A(a))
        /\ Cardinality(A(a)) = Cardinality(A(b)) => A(a) = A(b)
    BY <1>1, <2>1, FS_Subset
  <2> QED BY <1>1, <2>2, <2>3
<1> HIDE DEF A
<1>3. PICK T : T = {Cardinality(A(a)) : a \in rows} OBVIOUS
<1>4. T \subseteq Nat /\ T # {} BY <1>1, <1>3
<1>5. PICK n \in T : \A m \in T : n <= m BY <1>4, SmallestNumber
<1>6. PICK a \in rows : n = Cardinality(A(a)) BY <1>3, <1>5
<1>7. \A s \in rows : s = a \/ Newer(s, a)
  <2> SUFFICES ASSUME NEW s \in rows, s # a, ~Newer(s, a) PROVE FALSE
    OBVIOUS
  <2>1. Newer(a, s) BY RowsInOrder
  <2>2. Cardinality(A(s)) < Cardinality(A(a)) /\ n <= Cardinality(A(s)) BY <1>2, <1>3, <1>5, <2>1
  <2> QED BY <1>1, <1>6, <2>2
<1> QED BY <1>7 DEF OldestOf

-----------------------------------------------------------------------------
(* The statistics by model: rows and edits.                                *)

\* An earlier time is a time.
LEMMA EarlierIs ==
    ASSUME NEW a \in Nat, NEW b \in Nat, NEW c \in Nat, a <= c
    PROVE  Earlier(a, b) \in Nat /\ Earlier(a, b) <= a /\ Earlier(a, b) <= Earlier(c, b)
BY DEF Earlier

\* The time from which the overlap reads again.
LEMMA EarlierOverlap ==
    ASSUME NEW a \in Nat
    PROVE  Earlier(a, Overlap) \in Nat /\ Earlier(a, Overlap) <= a
<1>1. Overlap \in Nat BY StatisticsAssumption
<1> QED BY <1>1 DEF Earlier

\* The rows of a range are those of the live events in it.
LEMMA RowsThere ==
    ASSUME StatisticsTypeOK, NEW from \in Nat, NEW to \in Nat
    PROVE  /\ OneEach(Rows(from, to)) /\ Within(Rows(from, to), from, to)
           /\ \A r \in Rows(from, to) : r.id \in Events /\ event[r.id].live /\ r = Row(r.id)
           /\ \A e \in Events : event[e].live /\ from <= event[e].at /\ event[e].at < to =>
                                    Row(e) \in Rows(from, to)
<1>1. \A e \in Events : /\ event[e].at \in 0..MaxTime /\ event[e].model \in Models
                        /\ Row(e) \in RowsOfEvents /\ Row(e).id = e /\ Row(e).at = event[e].at
  BY DEF StatisticsTypeOK, Row, RowsOfEvents
<1>2. ASSUME NEW r \in Rows(from, to)
      PROVE  /\ r.id \in Events /\ event[r.id].live /\ r = Row(r.id) /\ r \in RowsOfEvents
             /\ from <= r.at /\ r.at < to
  <2>1. PICK e \in Events : event[e].live /\ from <= event[e].at /\ event[e].at < to /\ r = Row(e)
    BY DEF Rows
  <2> QED BY <1>1, <2>1
<1> QED BY <1>2 DEF Rows, OneEach, Within

\* Part of a range is a range.
LEMMA RowsWithin ==
    ASSUME StatisticsTypeOK, NEW from \in Nat, NEW to \in Nat, NEW start \in Nat, NEW end \in Nat
    PROVE  \A r \in Rows(from, to) : start <= r.at /\ r.at < end => r \in Rows(start, end)
<1> SUFFICES ASSUME NEW r \in Rows(from, to), start <= r.at, r.at < end PROVE r \in Rows(start, end)
  OBVIOUS
<1>1. r.id \in Events /\ event[r.id].live /\ r = Row(r.id) BY RowsThere
<1>2. event[r.id].at = r.at BY <1>1 DEF Row
<1> QED BY <1>1, <1>2, RowsThere

\* An edit of an event at or beyond the limit leaves the rows below it.
LEMMA EditBeyond ==
    ASSUME StatisticsTypeOK, NEW e \in Events, NEW limit,
           \A f \in Events : f # e => event'[f] = event[f],
           event[e].live => ~(event[e].at < limit), event'[e].live => ~(event'[e].at < limit),
           NEW from, NEW to
    PROVE  Below(Rows(from, to), limit)' = Below(Rows(from, to), limit)
<1>1. ASSUME NEW r \in Below(Rows(from, to), limit) PROVE r \in Below(Rows(from, to), limit)'
  <2>1. PICK f \in Events : event[f].live /\ from <= event[f].at /\ event[f].at < to /\ r = Row(f)
    BY DEF Below, Rows
  <2>2. r.at = event[f].at /\ r.at < limit BY <2>1 DEF Below, Row
  <2>3. event'[f] = event[f] BY <2>1, <2>2
  <2>4. r = Row(f)' BY <2>1, <2>3 DEF Row
  <2> QED BY <2>1, <2>2, <2>3, <2>4 DEF Below, Rows
<1>2. ASSUME NEW r \in Below(Rows(from, to), limit)' PROVE r \in Below(Rows(from, to), limit)
  <2>1. PICK f \in Events : event'[f].live /\ from <= event'[f].at /\ event'[f].at < to /\ r = Row(f)'
    BY DEF Below, Rows
  <2>2. r.at = event'[f].at /\ r.at < limit BY <2>1 DEF Below, Row
  <2>3. event'[f] = event[f] BY <2>1, <2>2
  <2>4. r = Row(f) BY <2>1, <2>3 DEF Row
  <2> QED BY <2>1, <2>2, <2>3, <2>4 DEF Below, Rows
<1> QED BY <1>1, <1>2

\* Without an edit the rows stay.
LEMMA RowsTheSame ==
    ASSUME UNCHANGED event, NEW from, NEW to
    PROVE  Rows(from, to)' = Rows(from, to)
BY DEF Rows, Row

ReadRecords == [step : {"idle", "page", "check", "shown"}, delta : BOOLEAN, from : Nat, to : Nat,
                full : Nat, cutoff : Nat, rows : SUBSET RowsOfEvents, first : PagesOfRows,
                page : PagesOfRows, total : Nat, moved : BOOLEAN]
Snapshots == [kept : BOOLEAN, from : Nat, to : Nat, full : Nat, rows : SUBSET RowsOfEvents]

\* What is in hand.
LEMMA ReadTyped ==
    ASSUME StatisticsTypeOK
    PROVE  /\ read \in ReadRecords /\ snapshot \in Snapshots
           /\ read.delta \in BOOLEAN /\ read.from \in Nat /\ read.to \in Nat /\ read.full \in Nat
           /\ read.cutoff \in Nat /\ read.rows \subseteq RowsOfEvents /\ read.total \in Nat
           /\ read.first \in PagesOfRows /\ read.page \in PagesOfRows /\ read.moved \in BOOLEAN
           /\ read.first.rows \subseteq RowsOfEvents /\ read.page.rows \subseteq RowsOfEvents
           /\ read.page.more \in BOOLEAN /\ read.first.more \in BOOLEAN
           /\ snapshot.kept \in BOOLEAN /\ snapshot.from \in Nat /\ snapshot.to \in Nat
           /\ snapshot.full \in Nat /\ snapshot.rows \subseteq RowsOfEvents
           /\ now \in Nat /\ now > 0 /\ hidden \in BOOLEAN
           /\ Overlap \in Nat /\ Span \in Nat /\ Span > 0 /\ Reconcile \in Nat
<1>1. read \in ReadRecords /\ snapshot \in Snapshots BY DEF StatisticsTypeOK, ReadRecords, Snapshots
<1>2. /\ read.delta \in BOOLEAN /\ read.from \in Nat /\ read.to \in Nat /\ read.full \in Nat
      /\ read.cutoff \in Nat /\ read.rows \subseteq RowsOfEvents /\ read.total \in Nat
      /\ read.first \in PagesOfRows /\ read.page \in PagesOfRows /\ read.moved \in BOOLEAN
  BY <1>1 DEF ReadRecords
<1>3. /\ read.first.rows \subseteq RowsOfEvents /\ read.page.rows \subseteq RowsOfEvents
      /\ read.page.more \in BOOLEAN /\ read.first.more \in BOOLEAN
  BY <1>2 DEF PagesOfRows
<1>4. /\ snapshot.kept \in BOOLEAN /\ snapshot.from \in Nat /\ snapshot.to \in Nat
      /\ snapshot.full \in Nat /\ snapshot.rows \subseteq RowsOfEvents
  BY <1>1 DEF Snapshots
<1>5. now \in Nat /\ now > 0 /\ hidden \in BOOLEAN BY StatisticsAssumption DEF StatisticsTypeOK
<1> QED BY <1>1, <1>2, <1>3, <1>4, <1>5, StatisticsAssumption

\* An edit, of whatever kind.
LEMMA EditHolds ==
    ASSUME StatisticsInv, NEW e \in Events, NEW at \in Nat, Edited(at),
           event' \in [Events -> [seen : BOOLEAN, live : BOOLEAN, at : 0..MaxTime, model : Models]],
           \A f \in Events : f # e => event'[f] = event[f],
           event[e].seen => event'[e].at = event[e].at,
           event[e].live => event[e].at = at,
           event'[e].at = at, event'[e].seen
    PROVE  StatisticsInv'
<1>1. StatisticsTypeOK BY DEF StatisticsInv
<1>2. /\ edits' \in 0..MaxEdits /\ UNCHANGED <<now, snapshot>>
      /\ hidden' = (hidden \/ ((Reading \/ snapshot.kept) /\ at < Reach))
      /\ read' = [read EXCEPT !.moved = TRUE]
  BY <1>1, StatisticsAssumption DEF Edited, StatisticsTypeOK
<1>3. /\ read' \in ReadRecords /\ read'.moved = TRUE
      /\ read'.step = read.step /\ read'.delta = read.delta /\ read'.from = read.from
      /\ read'.to = read.to /\ read'.full = read.full /\ read'.cutoff = read.cutoff
      /\ read'.rows = read.rows /\ read'.first = read.first /\ read'.page = read.page
      /\ read'.total = read.total
  BY <1>1, <1>2, ReadTyped DEF ReadRecords
<1>4. StatisticsTypeOK'
  <2>1. hidden' \in BOOLEAN BY <1>1, <1>2, ReadTyped
  <2> QED BY <1>1, <1>2, <1>3, <2>1 DEF StatisticsTypeOK, ReadRecords
<1>5. Reading' <=> Reading BY <1>3 DEF Reading
<1>6. ASSUME NEW rows, rows \subseteq RowsOfEvents, Known(rows)
      PROVE  \A r \in rows : event'[r.id].seen /\ event'[r.id].at = r.at
  <2> SUFFICES ASSUME NEW r \in rows PROVE event'[r.id].seen /\ event'[r.id].at = r.at
    OBVIOUS
  <2>1. r.id \in Events /\ event[r.id].seen /\ event[r.id].at = r.at BY <1>6 DEF Known, RowsOfEvents
  <2> QED BY <2>1
<1>7. Known(snapshot.rows)' /\ Known(read.rows)' /\ Known(read.page.rows)' /\ Known(read.first.rows)'
  <2>1. /\ Known(snapshot.rows) /\ Known(read.rows) /\ Known(read.page.rows) /\ Known(read.first.rows)
    BY DEF StatisticsInv
  <2> QED BY SMTT(20), <1>1, <1>2, <1>3, <1>6, <2>1, ReadTyped DEF Known
<1>8. \A f \in Events : event'[f].live => event'[f].seen
  BY DEF StatisticsInv
<1>9. ASSUME NEW limit, ~(at < limit), NEW from, NEW to
      PROVE  Below(Rows(from, to), limit)' = Below(Rows(from, to), limit)
  BY <1>1, <1>9, EditBeyond
<1>10. ASSUME snapshot'.kept, ~hidden'
       PROVE  Below(snapshot'.rows, Earlier(snapshot'.to, Overlap))
              = Below(Rows(snapshot.from, snapshot.to)', Earlier(snapshot'.to, Overlap))
  <2>1. PICK limit, from, to, rows : /\ limit = Earlier(snapshot.to, Overlap) /\ rows = snapshot.rows
                                     /\ from = snapshot.from /\ to = snapshot.to
    OBVIOUS
  <2>2. ~hidden /\ snapshot.kept /\ ~(at < Reach) BY <1>2, <1>10
  <2>3. limit <= Reach
    <3>1. CASE Reading
      <4>1. ~read.delta => ~snapshot.kept BY <3>1 DEF StatisticsInv
      <4>2. snapshot.to <= read.to BY <2>2, <3>1, <4>1 DEF StatisticsInv
      <4> QED BY <1>1, <2>1, <3>1, <4>2, ReadTyped, EarlierIs DEF Reach
    <3>2. CASE ~Reading BY <1>1, <2>1, <3>2, ReadTyped, EarlierOverlap DEF Reach
    <3> QED BY <3>1, <3>2
  <2>4. Reach \in Nat /\ limit \in Nat BY <1>1, <2>1, ReadTyped, EarlierOverlap DEF Reach
  <2>5. ~(at < limit) BY <2>2, <2>3, <2>4
  <2>6. Below(rows, limit) = Below(Rows(from, to), limit) BY <2>1, <2>2 DEF StatisticsInv
  <2>7. Below(Rows(from, to), limit)' = Below(Rows(from, to), limit) BY <1>9, <2>5
  <2>8. Rows(snapshot.from, snapshot.to)' = Rows(from, to)' BY <1>2, <2>1 DEF Rows
  <2> QED BY <1>2, <2>1, <2>6, <2>7, <2>8 DEF Below
<1>11. ASSUME Reading, ~hidden'
       PROVE  ReadsAll(read', Rows(read.from, read.to)', Earlier(read'.to, Overlap))
  <2>1. PICK limit, from, to : /\ limit = Earlier(read.to, Overlap)
                               /\ from = read.from /\ to = read.to
    OBVIOUS
  <2>2. ~hidden /\ ~(at < limit) BY <1>2, <1>11, <2>1 DEF Reach
  <2>3. ReadsAll(read, Rows(from, to), limit) BY <1>11, <2>1, <2>2 DEF StatisticsInv
  <2>4. Below(Rows(from, to), limit)' = Below(Rows(from, to), limit) BY <1>9, <2>2
  <2>5. Rows(read.from, read.to)' = Rows(from, to)' BY <1>3, <2>1 DEF Rows
  <2>6. PICK there, then : there = Rows(from, to) /\ then = Rows(from, to)' OBVIOUS
  <2>7. Below(there, limit) = Below(then, limit) BY <2>4, <2>6 DEF Below
  <2>8. ReadsAll(read', then, limit)
    <3>1. \A r \in Below(then, limit) : Coming(read, r) <=> Coming(read', r) BY <1>3 DEF Coming
    <3>2. \A r : r \in there /\ r.at < limit => r \in then BY <2>7 DEF Below
    <3>3. ReadsAll(read, there, limit) BY <2>3, <2>6
    <3> QED BY <1>3, <2>7, <3>1, <3>2, <3>3 DEF ReadsAll, Below
  <2> QED BY <1>3, <2>1, <2>5, <2>6, <2>8
<1>12. ModelsAreRight'
  <2>1. ModelsAreRight BY DEF StatisticsInv
  <2> QED BY <1>3, <2>1 DEF ModelsAreRight
<1>13. Reading' =>
           /\ read'.from < read'.to
           /\ \A rows \in {read'.rows, read'.page.rows, read'.first.rows} : Within(rows, read'.from, read'.to)
           /\ read'.page.more => read'.page.rows # {}
           /\ read'.first.more => read'.first.rows # {}
           /\ read'.delta => /\ snapshot'.kept /\ snapshot'.to <= read'.to /\ read'.from <= read'.cutoff
                             /\ read'.to < read'.full + Reconcile
           /\ ~read'.delta => ~snapshot'.kept
  BY <1>2, <1>3, <1>5 DEF StatisticsInv
<1>14. OneEach(read'.page.rows) /\ OneEach(read'.first.rows) BY <1>3 DEF StatisticsInv
<1> QED BY <1>2, <1>3, <1>4, <1>5, <1>7, <1>8, <1>10, <1>11, <1>12, <1>13, <1>14
        DEF StatisticsInv, OneEach, Within

-----------------------------------------------------------------------------
(* The statistics by model: a read.                                        *)

\* A set of known rows that is there has one row of each event.
LEMMA KnownRows ==
    ASSUME StatisticsInv, NEW from \in Nat, NEW to \in Nat
    PROVE  OneEach(Rows(from, to)) /\ Known(Rows(from, to))
<1>1. StatisticsTypeOK BY DEF StatisticsInv
<1>2. OneEach(Rows(from, to)) BY <1>1, RowsThere
<1>3. ASSUME NEW r \in Rows(from, to) PROVE event[r.id].seen /\ event[r.id].at = r.at
  <2>1. r.id \in Events /\ event[r.id].live /\ r = Row(r.id) BY <1>1, RowsThere
  <2>2. event[r.id].at = r.at BY <2>1 DEF Row
  <2> QED BY <2>1, <2>2 DEF StatisticsInv
<1> QED BY <1>2, <1>3 DEF Known

\* A first page of all that is there, after rows that are right below a floor.
LEMMA FirstPageReads ==
    ASSUME StatisticsInv, NEW k \in ReadRecords, k.step = "page",
           k.page = Page(Rows(k.from, k.to)),
           k.delta => k.rows = {r \in Rows(k.from, k.to) : r.at < k.cutoff},
           ~k.delta => k.rows = {},
           NEW limit \in Nat
    PROVE  ReadsAll(k, Rows(k.from, k.to), limit)
<1>1. k.from \in Nat /\ k.to \in Nat /\ k.cutoff \in Nat /\ k.delta \in BOOLEAN BY DEF ReadRecords
<1>2. PICK there : there = Rows(k.from, k.to) OBVIOUS
<1>3. OneEach(there) /\ Within(there, k.from, k.to) BY <1>1, <1>2, KnownRows, RowsThere DEF StatisticsInv
<1>4. /\ k.page.rows \subseteq there /\ (~k.page.more => k.page.rows = there)
      /\ \A a \in there \ k.page.rows, b \in k.page.rows : Newer(b, a)
  BY <1>2, <1>3, PageIs
<1>5. \A r \in there : r.at \in Nat /\ r.at >= k.from
  BY <1>3, StatisticsAssumption DEF OneEach, RowsOfEvents, Within
<1>6. \A r \in there : r \in k.rows \/ Coming(k, r)
  <2> SUFFICES ASSUME NEW r \in there, r \notin k.rows PROVE Coming(k, r)
    OBVIOUS
  <2>1. r.at >= (IF k.delta THEN k.cutoff ELSE k.from) BY <1>1, <1>2, <1>5
  <2> QED BY <1>4, <2>1 DEF Coming
<1>7. k.rows \cup k.page.rows \subseteq there BY <1>1, <1>2, <1>4
<1> QED BY <1>2, <1>6, <1>7 DEF ReadsAll, Below

\* A read begins, on kept rows or anew.
LEMMA BeginHolds ==
    ASSUME StatisticsInv, NEW forced \in BOOLEAN, BeginRead(forced)
    PROVE  StatisticsInv'
<1> DEFINE from == Earlier(now, Span)
           to == now
           delta == ~forced /\ CurrentSnapshot(from, to)
           there == Rows(from, to)
           first == Page(there)
           start == [NoRead EXCEPT !.step = "page", !.delta = delta, !.from = from, !.to = to,
                         !.first = first, !.page = first, !.total = Cardinality(there)]
           held == {r \in snapshot.rows : r.at >= from /\ r.at < Cutoff(from)}
<1>1. StatisticsTypeOK BY DEF StatisticsInv
<1>2. /\ ~Reading /\ from < to
      /\ read' = IF delta THEN [start EXCEPT !.full = snapshot.full, !.cutoff = Cutoff(from), !.rows = held]
                 ELSE [start EXCEPT !.full = now]
      /\ snapshot' = IF delta THEN snapshot ELSE NoSnapshot
      /\ hidden' = (delta /\ hidden)
      /\ UNCHANGED <<now, event, edits>>
  BY DEF BeginRead
<1>3. from \in Nat /\ to \in Nat BY <1>1, ReadTyped, EarlierIs
<1>4. Cutoff(from) \in Nat /\ from <= Cutoff(from) /\ (Cutoff(from) = from \/ Cutoff(from) = Earlier(snapshot.to, Overlap))
  BY <1>1, <1>3, ReadTyped, EarlierOverlap DEF Cutoff
<1>5. OneEach(there) /\ Known(there) /\ Within(there, from, to)
  BY <1>1, <1>3, KnownRows, RowsThere
<1>6. /\ first \in PagesOfRows /\ first.rows \subseteq there /\ (first.more => first.rows # {})
  BY <1>5, PageIs
<1>7. Cardinality(there) \in Nat BY <1>5, RowsInOrder, FS_CardinalityType
<1>8. held \subseteq RowsOfEvents BY <1>1, ReadTyped
<1> HIDE DEF from, to, delta, there, first, held
<1>9. PICK full, cutoff, rows :
          /\ full = IF delta THEN snapshot.full ELSE now
          /\ cutoff = IF delta THEN Cutoff(from) ELSE 0
          /\ rows = IF delta THEN held ELSE {}
  OBVIOUS
<1>10. full \in Nat /\ cutoff \in Nat /\ rows \subseteq RowsOfEvents /\ delta \in BOOLEAN
  <2>1. delta \in BOOLEAN BY DEF delta, CurrentSnapshot
  <2> QED BY <1>1, <1>4, <1>8, <1>9, <2>1, ReadTyped
<1>11. read' = [step |-> "page", delta |-> delta, from |-> from, to |-> to, full |-> full, cutoff |-> cutoff,
                rows |-> rows, first |-> first, page |-> first, total |-> Cardinality(there), moved |-> FALSE]
  BY <1>2, <1>9 DEF NoRead
<1>12. read' \in ReadRecords BY <1>3, <1>6, <1>7, <1>10, <1>11 DEF ReadRecords
<1>13. /\ read'.step = "page" /\ read'.delta = delta /\ read'.from = from /\ read'.to = to
       /\ read'.full = full /\ read'.cutoff = cutoff /\ read'.rows = rows /\ read'.first = first
       /\ read'.page = first /\ read'.moved = FALSE
  BY <1>11
<1>14. snapshot' \in Snapshots /\ (~delta => ~snapshot'.kept /\ snapshot'.rows = {})
  BY <1>1, <1>2, ReadTyped DEF NoSnapshot, Snapshots
<1>15. StatisticsTypeOK'
  <2>1. hidden' \in BOOLEAN BY <1>1, <1>2, <1>10, ReadTyped
  <2>2. snapshot'.kept => snapshot'.from < snapshot'.to /\ \A r \in snapshot'.rows : r.at >= snapshot'.from
    BY <1>1, <1>2, <1>14 DEF StatisticsTypeOK
  <2>3. now' \in 1..MaxTime /\ edits' \in 0..MaxEdits /\ event' = event
    BY <1>1, <1>2 DEF StatisticsTypeOK
  <2> QED BY <1>1, <1>12, <1>14, <2>1, <2>2, <2>3 DEF StatisticsTypeOK, ReadRecords, Snapshots
<1>16. delta => /\ snapshot.kept /\ snapshot.from <= from /\ snapshot.to <= to /\ from < snapshot.to
                /\ to < snapshot.full + Reconcile
  BY <1>1, ReadTyped DEF delta, CurrentSnapshot, to
<1>17. Within(rows, from, to) /\ Known(rows)
  <2>1. CASE ~delta BY <1>9, <2>1 DEF Within, Known
  <2>2. CASE delta
    <3>1. Cutoff(from) <= to BY <1>1, <1>3, <1>4, <1>16, <2>2, ReadTyped, EarlierOverlap
    <3>2. \A r \in held : r.at \in Nat BY <1>8, StatisticsAssumption DEF RowsOfEvents
    <3>3. Within(held, from, to) BY <1>3, <1>4, <3>1, <3>2 DEF held, Within
    <3>4. Known(held) BY DEF held, Known, StatisticsInv
    <3> QED BY <1>9, <2>2, <3>3, <3>4
  <2> QED BY <2>1, <2>2
<1>18. Within(first.rows, from, to) /\ Known(first.rows) /\ OneEach(first.rows)
  BY <1>5, <1>6 DEF Within, Known, OneEach
<1>19. Known(snapshot.rows)' /\ Known(read.rows)' /\ Known(read.page.rows)' /\ Known(read.first.rows)'
  <2>1. Known(snapshot.rows) BY DEF StatisticsInv
  <2>2. event' = event BY <1>2
  <2> QED BY <1>2, <1>13, <1>14, <1>17, <1>18, <2>1, <2>2 DEF Known
<1>20. Rows(read.from, read.to)' = there
  BY <1>2, <1>13, RowsTheSame DEF there, Rows, Row
<1>21. ASSUME ~hidden', NEW limit \in Nat PROVE ReadsAll(read', there, limit)
  <2>1. ASSUME delta PROVE rows = {r \in there : r.at < cutoff}
    <3>1. ~hidden BY <1>2, <1>21, <2>1
    <3>2. PICK old : old = Earlier(snapshot.to, Overlap) OBVIOUS
    <3>3. Below(snapshot.rows, old) = Below(Rows(snapshot.from, snapshot.to), old)
      BY <1>16, <2>1, <3>1, <3>2 DEF StatisticsInv
    <3>4. old \in Nat /\ old <= snapshot.to BY <1>1, <3>2, ReadTyped, EarlierOverlap
    <3>5. cutoff \in Nat /\ (cutoff = from \/ cutoff = old) BY <1>4, <1>9, <2>1, <3>2
    <3>6. ASSUME NEW r \in rows PROVE r \in there /\ r.at < cutoff
      <4>1. r \in snapshot.rows /\ r.at >= from /\ r.at < cutoff /\ r \in RowsOfEvents
        BY <1>8, <1>9, <2>1, <3>6 DEF held
      <4>2. r.at \in Nat BY <4>1, StatisticsAssumption DEF RowsOfEvents
      <4>3. cutoff = old BY <1>3, <3>5, <4>1, <4>2
      <4>4. r \in Rows(snapshot.from, snapshot.to) BY <3>3, <4>1, <4>3 DEF Below
      <4>5. r.at < to BY <1>1, <1>3, <1>16, <2>1, <3>4, <4>1, <4>2, <4>3, ReadTyped
      <4>6. snapshot.from \in Nat /\ snapshot.to \in Nat BY <1>1, ReadTyped
      <4>7. r \in Rows(from, to) BY <1>1, <1>3, <4>1, <4>4, <4>5, <4>6, RowsWithin
      <4> QED BY <4>1, <4>7 DEF there
    <3>7. ASSUME NEW r \in there, r.at < cutoff PROVE r \in rows
      <4>1. r.at \in Nat /\ from <= r.at BY <1>5, StatisticsAssumption DEF OneEach, RowsOfEvents, Within
      <4>2. cutoff = old BY <1>3, <3>5, <3>7, <4>1
      <4>3. snapshot.from <= r.at /\ r.at < snapshot.to
        BY <1>1, <1>3, <1>16, <2>1, <3>4, <3>7, <4>1, <4>2, ReadTyped
      <4>4. r \in Rows(snapshot.from, snapshot.to)
        <5>1. snapshot.from \in Nat /\ snapshot.to \in Nat BY <1>1, ReadTyped
        <5>2. r \in Rows(from, to) BY DEF there
        <5> QED BY <1>1, <1>3, <4>3, <5>1, <5>2, RowsWithin
      <4>5. r \in snapshot.rows BY <3>3, <3>7, <4>2, <4>4 DEF Below
      <4> QED BY <1>9, <2>1, <3>7, <4>1, <4>5 DEF held
    <3> QED BY <3>6, <3>7
  <2>2. ~delta => rows = {} BY <1>9
  <2>3. there = Rows(read'.from, read'.to) BY <1>13 DEF there
  <2>4. read'.page = Page(Rows(read'.from, read'.to)) BY <1>13, <2>3 DEF first
  <2>5. ReadsAll(read', Rows(read'.from, read'.to), limit)
    BY <1>12, <1>13, <2>1, <2>2, <2>3, <2>4, FirstPageReads
  <2> QED BY <2>3, <2>5
<1>22. snapshot'.kept /\ ~hidden' =>
           Below(snapshot'.rows, Earlier(snapshot'.to, Overlap))
           = Below(Rows(snapshot.from, snapshot.to)', Earlier(snapshot'.to, Overlap))
  <2> SUFFICES ASSUME snapshot'.kept, ~hidden'
               PROVE  Below(snapshot'.rows, Earlier(snapshot'.to, Overlap))
                      = Below(Rows(snapshot.from, snapshot.to)', Earlier(snapshot'.to, Overlap))
    OBVIOUS
  <2>1. snapshot' = snapshot /\ snapshot.kept /\ ~hidden BY <1>2, <1>14
  <2>2. Rows(snapshot.from, snapshot.to)' = Rows(snapshot.from, snapshot.to) BY <1>2, <2>1 DEF Rows, Row
  <2> QED BY <2>1, <2>2 DEF StatisticsInv
<1>23. Earlier(to, Overlap) \in Nat BY <1>1, <1>3, ReadTyped, EarlierOverlap
<1>24. ModelsAreRight' BY <1>13 DEF ModelsAreRight
<1>25. \A f \in Events : event'[f].live => event'[f].seen BY <1>2 DEF StatisticsInv
<1>26. /\ read'.from < read'.to
       /\ \A rs \in {read'.rows, read'.page.rows, read'.first.rows} : Within(rs, read'.from, read'.to)
       /\ read'.page.more => read'.page.rows # {}
       /\ read'.first.more => read'.first.rows # {}
       /\ read'.delta => /\ snapshot'.kept /\ snapshot'.to <= read'.to /\ read'.from <= read'.cutoff
                         /\ read'.to < read'.full + Reconcile
       /\ ~read'.delta => ~snapshot'.kept
       /\ read'.first = Page(there)
  <2>1. delta => snapshot' = snapshot BY <1>2
  <2>2. ~delta => ~snapshot'.kept BY <1>14
  <2>3. first = Page(there) BY DEF first
  <2> QED BY <1>2, <1>4, <1>6, <1>9, <1>13, <1>16, <1>17, <1>18, <2>1, <2>2, <2>3
<1>27. Page(Rows(read.from, read.to))' = Page(there) BY <1>20 DEF Page, Newer
<1>28. OneEach(read.page.rows)' /\ OneEach(read.first.rows)' BY <1>13, <1>18 DEF OneEach
<1> QED BY <1>3, <1>13, <1>15, <1>19, <1>20, <1>21, <1>22, <1>23, <1>24, <1>25, <1>26, <1>27, <1>28
        DEF StatisticsInv

\* The rows that were added to, below the limit: what was there is there still.
LEMMA AddedIs ==
    ASSUME StatisticsInv, read.step = "page", NEW limit \in Nat,
           NEW there, there = Rows(read.from, read.to), ReadsAll(read, there, limit)
    PROVE  /\ Below(Added, limit) \subseteq there
           /\ \A r \in Below(there, limit) : r \in read.rows \cup read.page.rows => r \in Added
<1>1. StatisticsTypeOK BY DEF StatisticsInv
<1>2. Below(read.rows \cup read.page.rows, limit) \subseteq there BY DEF ReadsAll
<1>3. Below(Added, limit) \subseteq there BY <1>2 DEF Below, Added
<1>4. ASSUME NEW r \in Below(there, limit), r \in read.rows, r \notin read.page.rows
      PROVE  r \in Added
  <2>1. OneEach(there) /\ Known(there) BY <1>1, ReadTyped, KnownRows
  <2>2. ASSUME NEW p \in read.page.rows, p.id = r.id PROVE FALSE
    <3>1. event[p.id].at = p.at BY DEF StatisticsInv, Known
    <3>2. event[r.id].at = r.at BY <1>4, <2>1 DEF Known, Below
    <3>3. p.at < limit BY <1>4, <2>2, <3>1, <3>2 DEF Below
    <3>4. p \in there BY <1>2, <2>2, <3>3 DEF Below
    <3>5. p = r BY <1>4, <2>1, <2>2, <3>4 DEF OneEach, Below
    <3> QED BY <1>4, <2>2, <3>5
  <2> QED BY <1>4, <2>2 DEF Added
<1>5. \A r \in read.page.rows : r \in Added BY DEF Added
<1> QED BY <1>3, <1>4, <1>5

\* The last page of a read.
LEMMA LastPageHolds ==
    ASSUME StatisticsInv, NextPage, LastPage
    PROVE  StatisticsInv'
<1>1. StatisticsTypeOK BY DEF StatisticsInv
<1>2. /\ read.step = "page" /\ read' = [read EXCEPT !.rows = Added, !.step = "check"]
      /\ UNCHANGED <<now, event, edits, snapshot, hidden>>
  BY DEF NextPage
<1>3. Added \subseteq RowsOfEvents BY <1>1, ReadTyped DEF Added
<1>4. /\ read' \in ReadRecords /\ read'.step = "check" /\ read'.rows = Added
      /\ read'.delta = read.delta /\ read'.from = read.from /\ read'.to = read.to
      /\ read'.full = read.full /\ read'.cutoff = read.cutoff /\ read'.first = read.first
      /\ read'.page = read.page /\ read'.moved = read.moved /\ read'.total = read.total
  BY <1>1, <1>2, <1>3, ReadTyped DEF ReadRecords
<1>5. StatisticsTypeOK' BY <1>1, <1>2, <1>4 DEF StatisticsTypeOK, ReadRecords
<1>6. Reading /\ Reading' BY <1>2, <1>4 DEF Reading
<1>7. PICK there : there = Rows(read.from, read.to) OBVIOUS
<1>8. Rows(read.from, read.to)' = there BY <1>2, <1>4, <1>7 DEF Rows, Row
<1>9. Known(Added) /\ Within(Added, read.from, read.to)
  <2>1. Known(read.rows) /\ Known(read.page.rows) BY DEF StatisticsInv
  <2>2. Within(read.rows, read.from, read.to) /\ Within(read.page.rows, read.from, read.to)
    BY <1>6 DEF StatisticsInv
  <2> QED BY <2>1, <2>2 DEF Added, Known, Within
<1>10. ASSUME NEW limit \in Nat, ReadsAll(read, there, limit) PROVE ReadsAll(read', there, limit)
  <2>1. /\ Below(Added, limit) \subseteq there
        /\ \A r \in Below(there, limit) : r \in read.rows \cup read.page.rows => r \in Added
    BY <1>2, <1>7, <1>10, AddedIs
  <2>2. ASSUME NEW r \in Below(there, limit), Coming(read, r) PROVE r \in read.page.rows
    <3>1. CASE ~read.page.more BY <2>2, <3>1 DEF Coming
    <3>2. CASE read.page.more /\ read.delta /\ OldestOf(read.page.rows).at < read.cutoff
      <4>1. PICK o : o = OldestOf(read.page.rows) OBVIOUS
      <4>2. o \in read.page.rows BY <1>6, <3>2, <4>1, OldestIs DEF StatisticsInv
      <4>3. OneEach(there) BY <1>1, <1>7, ReadTyped, RowsThere
      <4>4. r.at \in Nat /\ o.at \in Nat
        BY <1>1, <2>2, <4>2, <4>3, ReadTyped, StatisticsAssumption DEF OneEach, RowsOfEvents, Below
      <4>5. CASE r \notin read.page.rows
        <5>1. r.at >= read.cutoff /\ Newer(o, r) BY <2>2, <3>2, <4>2, <4>5 DEF Coming
        <5>2. o.at < read.cutoff BY <3>2, <4>1
        <5> QED BY <1>1, <4>4, <5>1, <5>2, ReadTyped DEF Newer
      <4> QED BY <4>5
    <3> QED BY <1>1, <3>1, <3>2, ReadTyped DEF LastPage
  <2>3. \A r \in Below(there, limit) : r \in Added BY <1>2, <1>10, <2>1, <2>2 DEF ReadsAll
  <2>4. Below(Added, limit) = Below(there, limit) BY <2>1, <2>3 DEF Below
  <2> QED BY <1>4, <2>4 DEF ReadsAll
<1>11. Earlier(read.to, Overlap) \in Nat /\ read.to \in Nat BY <1>1, ReadTyped, EarlierOverlap
<1>12. /\ ~hidden => ReadsAll(read, there, Earlier(read.to, Overlap))
       /\ ~hidden /\ ~read.moved => ReadsAll(read, there, read.to)
  BY <1>6, <1>7 DEF StatisticsInv
<1>13. /\ ~hidden' => ReadsAll(read', there, Earlier(read'.to, Overlap))
       /\ ~hidden' /\ ~read'.moved => ReadsAll(read', there, read'.to)
  BY <1>2, <1>4, <1>10, <1>11, <1>12
<1>14. Page(Rows(read.from, read.to))' = Page(there) BY <1>8 DEF Page, Newer
<1>15. /\ read'.from < read'.to
       /\ \A rows \in {read'.rows, read'.page.rows, read'.first.rows} : Within(rows, read'.from, read'.to)
       /\ read'.page.more => read'.page.rows # {}
       /\ read'.first.more => read'.first.rows # {}
       /\ read'.delta => /\ snapshot'.kept /\ snapshot'.to <= read'.to /\ read'.from <= read'.cutoff
                         /\ read'.to < read'.full + Reconcile
       /\ ~read'.delta => ~snapshot'.kept
       /\ ~read'.moved => read'.first = Page(there)
  BY <1>2, <1>4, <1>6, <1>7, <1>9 DEF StatisticsInv
<1>16. ModelsAreRight' BY <1>4 DEF ModelsAreRight
<1>17. Known(snapshot.rows)' /\ Known(read.rows)' /\ Known(read.page.rows)' /\ Known(read.first.rows)'
  <2>1. event' = event /\ snapshot' = snapshot BY <1>2
  <2> QED BY <1>4, <1>9, <2>1 DEF StatisticsInv, Known
<1>18. OneEach(read.page.rows)' /\ OneEach(read.first.rows)' BY <1>4 DEF StatisticsInv, OneEach
<1>19. \A f \in Events : event'[f].live => event'[f].seen BY <1>2 DEF StatisticsInv
<1>20. snapshot'.kept /\ ~hidden' =>
           Below(snapshot'.rows, Earlier(snapshot'.to, Overlap))
           = Below(Rows(snapshot.from, snapshot.to)', Earlier(snapshot'.to, Overlap))
  BY <1>2 DEF StatisticsInv, Rows, Row
<1> QED BY <1>4, <1>5, <1>8, <1>13, <1>14, <1>15, <1>16, <1>17, <1>18, <1>19, <1>20 DEF StatisticsInv

\* A page, and the next one is read.
LEMMA MorePagesHold ==
    ASSUME StatisticsInv, NextPage, ~LastPage
    PROVE  StatisticsInv'
<1> DEFINE last == OldestOf(read.page.rows)
           floor == IF read.delta THEN read.cutoff ELSE read.from
           rest == {r \in Rows(floor, read.to) : Newer(last, r)}
<1>1. StatisticsTypeOK BY DEF StatisticsInv
<1>2. /\ read.step = "page" /\ read' = [read EXCEPT !.rows = Added, !.page = Page(rest)]
      /\ UNCHANGED <<now, event, edits, snapshot, hidden>>
  BY DEF NextPage
<1>3. Added \subseteq RowsOfEvents BY <1>1, ReadTyped DEF Added
<1>4. Reading /\ read.page.more /\ read.page.more = TRUE
  BY <1>1, <1>2, ReadTyped DEF Reading, LastPage
<1>5. floor \in Nat /\ read.from <= floor
  BY <1>1, <1>4, ReadTyped DEF StatisticsInv
<1>6. /\ OneEach(Rows(floor, read.to)) /\ Known(Rows(floor, read.to))
      /\ Within(Rows(floor, read.to), floor, read.to)
  BY <1>1, <1>5, ReadTyped, KnownRows, RowsThere
<1>7. OneEach(rest) /\ Known(rest) /\ rest \subseteq Rows(floor, read.to)
  BY <1>6 DEF OneEach, Known
<1>8. PICK last0 : last0 = last OBVIOUS
<1>9. last0 \in read.page.rows
  BY <1>4, <1>8, OldestIs DEF StatisticsInv
<1>10. PICK next : next = Page(rest) OBVIOUS
<1>11. /\ next \in PagesOfRows /\ next.rows \subseteq rest /\ (~next.more => next.rows = rest)
       /\ \A a \in rest \ next.rows, b \in next.rows : Newer(b, a)
       /\ next.more => next.rows # {}
  BY <1>7, <1>10, PageIs
<1>12. /\ read' \in ReadRecords /\ read'.step = "page" /\ read'.rows = Added /\ read'.page = next
       /\ read'.delta = read.delta /\ read'.from = read.from /\ read'.to = read.to
       /\ read'.full = read.full /\ read'.cutoff = read.cutoff /\ read'.first = read.first
       /\ read'.moved = read.moved /\ read'.total = read.total
  BY <1>1, <1>2, <1>3, <1>10, <1>11, ReadTyped DEF ReadRecords
<1>13. StatisticsTypeOK' BY <1>1, <1>2, <1>12 DEF StatisticsTypeOK, ReadRecords
<1>14. PICK there : there = Rows(read.from, read.to) OBVIOUS
<1>15. Rows(read.from, read.to)' = there BY <1>2, <1>12, <1>14 DEF Rows, Row
<1>16. Known(Added) /\ Within(Added, read.from, read.to)
  <2>1. Known(read.rows) /\ Known(read.page.rows) BY DEF StatisticsInv
  <2>2. Within(read.rows, read.from, read.to) /\ Within(read.page.rows, read.from, read.to)
    BY <1>4 DEF StatisticsInv
  <2> QED BY <2>1, <2>2 DEF Added, Known, Within
<1>17. /\ OneEach(next.rows) /\ Known(next.rows) /\ Within(next.rows, read.from, read.to)
       /\ next.rows \subseteq there
  <2>1. OneEach(next.rows) /\ Known(next.rows) BY <1>7, <1>11 DEF OneEach, Known
  <2>2. \A r \in next.rows : r.at \in Nat /\ r \in Rows(floor, read.to)
    BY <1>7, <1>11, <2>1, StatisticsAssumption DEF OneEach, RowsOfEvents
  <2>3. Within(next.rows, read.from, read.to)
    BY <1>1, <1>5, <1>6, <2>2, ReadTyped DEF Within
  <2>4. next.rows \subseteq there
    <3>1. read.from \in Nat /\ read.to \in Nat /\ floor \in Nat BY <1>1, <1>5, ReadTyped
    <3>2. \A r \in next.rows : r \in Rows(floor, read.to) /\ read.from <= r.at /\ r.at < read.to
      BY <2>2, <2>3 DEF Within
    <3>3. \A r \in next.rows : r \in Rows(read.from, read.to) BY <1>1, <3>1, <3>2, RowsWithin
    <3> QED BY <1>14, <3>3
  <2> QED BY <2>1, <2>3, <2>4
<1>18. ASSUME NEW limit \in Nat, ReadsAll(read, there, limit) PROVE ReadsAll(read', there, limit)
  <2>1. /\ Below(Added, limit) \subseteq there
        /\ \A r \in Below(there, limit) : r \in read.rows \cup read.page.rows => r \in Added
    BY <1>2, <1>14, <1>18, AddedIs
  <2>2. ASSUME NEW r \in Below(there, limit), r \notin Added PROVE Coming(read', r)
    <3>1. Coming(read, r) /\ r \notin read.page.rows BY <1>2, <1>18, <2>1, <2>2 DEF ReadsAll
    <3>2. r.at >= floor /\ Newer(last0, r) BY <1>9, <3>1 DEF Coming
    <3>3. r \in there BY <2>2 DEF Below
    <3>4. r.at < read.to BY <1>1, <1>14, <3>3, ReadTyped, RowsThere DEF Within
    <3>5. r \in Rows(floor, read.to)
      <4>1. read.from \in Nat /\ read.to \in Nat /\ floor \in Nat BY <1>1, <1>5, ReadTyped
      <4>2. r \in Rows(read.from, read.to) BY <1>14, <3>3
      <4> QED BY <1>1, <3>2, <3>4, <4>1, <4>2, RowsWithin
    <3>6. r \in rest BY <1>8, <3>2, <3>5
    <3>7. r \in next.rows \/ (next.more /\ \A p \in next.rows : Newer(p, r)) BY <1>11, <3>6
    <3> QED BY <1>12, <3>2, <3>7 DEF Coming
  <2>3. Below(Added \cup next.rows, limit) \subseteq there BY <1>17, <2>1 DEF Below
  <2> QED BY <1>12, <2>2, <2>3 DEF ReadsAll
<1>19. Earlier(read.to, Overlap) \in Nat /\ read.to \in Nat BY <1>1, ReadTyped, EarlierOverlap
<1>20. /\ ~hidden => ReadsAll(read, there, Earlier(read.to, Overlap))
       /\ ~hidden /\ ~read.moved => ReadsAll(read, there, read.to)
  BY <1>4, <1>14 DEF StatisticsInv
<1>21. /\ ~hidden' => ReadsAll(read', there, Earlier(read'.to, Overlap))
       /\ ~hidden' /\ ~read'.moved => ReadsAll(read', there, read'.to)
  BY <1>2, <1>12, <1>18, <1>19, <1>20
<1> HIDE DEF last, floor, rest
<1>22. Page(Rows(read.from, read.to))' = Page(there) BY <1>15 DEF Page, Newer
<1>23. /\ read'.from < read'.to
       /\ \A rows \in {read'.rows, read'.page.rows, read'.first.rows} : Within(rows, read'.from, read'.to)
       /\ read'.page.more => read'.page.rows # {}
       /\ read'.first.more => read'.first.rows # {}
       /\ read'.delta => /\ snapshot'.kept /\ snapshot'.to <= read'.to /\ read'.from <= read'.cutoff
                         /\ read'.to < read'.full + Reconcile
       /\ ~read'.delta => ~snapshot'.kept
       /\ ~read'.moved => read'.first = Page(there)
  BY <1>2, <1>4, <1>11, <1>12, <1>14, <1>16, <1>17 DEF StatisticsInv
<1>24. ModelsAreRight' BY <1>12 DEF ModelsAreRight
<1>25. Known(snapshot.rows)' /\ Known(read.rows)' /\ Known(read.page.rows)' /\ Known(read.first.rows)'
  <2>1. event' = event /\ snapshot' = snapshot BY <1>2
  <2> QED BY <1>12, <1>16, <1>17, <2>1 DEF StatisticsInv, Known
<1>26. OneEach(read.page.rows)' /\ OneEach(read.first.rows)'
  BY <1>12, <1>17 DEF StatisticsInv, OneEach
<1>27. \A f \in Events : event'[f].live => event'[f].seen BY <1>2 DEF StatisticsInv
<1>28. snapshot'.kept /\ ~hidden' =>
           Below(snapshot'.rows, Earlier(snapshot'.to, Overlap))
           = Below(Rows(snapshot.from, snapshot.to)', Earlier(snapshot'.to, Overlap))
  BY <1>2 DEF StatisticsInv, Rows, Row
<1> QED BY <1>12, <1>13, <1>15, <1>21, <1>22, <1>23, <1>24, <1>25, <1>26, <1>27, <1>28 DEF StatisticsInv

\* The totals agree: what was read is shown and kept.
LEMMA CheckHolds ==
    ASSUME StatisticsInv, CheckTotals
    PROVE  StatisticsInv'
<1>1. StatisticsTypeOK BY DEF StatisticsInv
<1>2. /\ read.step = "check" /\ Cardinality(read.rows) = read.total
      /\ read' = [read EXCEPT !.step = "shown"]
      /\ snapshot' = [kept |-> TRUE, from |-> read.from, to |-> read.to, full |-> read.full, rows |-> read.rows]
      /\ UNCHANGED <<now, event, edits, hidden>>
  BY DEF CheckTotals, ShowCounts
<1>3. /\ read' \in ReadRecords /\ read'.step = "shown" /\ read'.rows = read.rows
      /\ read'.delta = read.delta /\ read'.from = read.from /\ read'.to = read.to
      /\ read'.full = read.full /\ read'.first = read.first
      /\ read'.page = read.page /\ read'.moved = read.moved /\ read'.total = read.total
  BY <1>1, <1>2, ReadTyped DEF ReadRecords
<1>4. /\ snapshot' \in Snapshots /\ snapshot'.from = read.from /\ snapshot'.to = read.to
      /\ snapshot'.rows = read.rows
  BY <1>1, <1>2, ReadTyped DEF Snapshots
<1>5. Reading /\ ~Reading' BY <1>2, <1>3 DEF Reading
<1>6. read.from < read.to /\ Within(read.rows, read.from, read.to) BY <1>5 DEF StatisticsInv
<1>7. StatisticsTypeOK'
  <2>1. snapshot'.from < snapshot'.to /\ \A r \in snapshot'.rows : r.at >= snapshot'.from
    <3>1. \A r \in read.rows : r.at \in Nat
      BY <1>1, ReadTyped, StatisticsAssumption DEF RowsOfEvents
    <3> QED BY <1>1, <1>4, <1>6, <3>1, ReadTyped DEF Within
  <2> QED BY <1>1, <1>2, <1>3, <1>4, <2>1 DEF StatisticsTypeOK, ReadRecords, Snapshots
<1>8. PICK there : there = Rows(read.from, read.to) OBVIOUS
<1>9. Rows(read.from, read.to)' = there /\ Rows(snapshot.from, snapshot.to)' = there
  BY <1>2, <1>3, <1>4, <1>8 DEF Rows, Row
<1>10. /\ ~hidden => Below(read.rows, Earlier(read.to, Overlap)) = Below(there, Earlier(read.to, Overlap))
       /\ ~hidden /\ ~read.moved => Below(read.rows, read.to) = Below(there, read.to)
  BY <1>2, <1>5, <1>8 DEF StatisticsInv, ReadsAll
<1>11. Within(there, read.from, read.to) BY <1>1, <1>8, ReadTyped, RowsThere
<1>12. ASSUME ~hidden, ~read.moved PROVE read.rows = there
  <2>1. Below(read.rows, read.to) = read.rows BY <1>6 DEF Within, Below
  <2>2. Below(there, read.to) = there BY <1>11 DEF Within, Below
  <2> QED BY <1>10, <1>12, <2>1, <2>2
<1>13. ModelsAreRight'
  <2>1. read.delta => read.to < read.full + Reconcile BY <1>5 DEF StatisticsInv
  <2>2. ~read'.moved /\ ~hidden' => Counted(read.rows)' = Counted(Rows(read.from, read.to))'
    <3>1. ASSUME ~hidden, ~read.moved PROVE Counted(read.rows)' = Counted(Rows(read.from, read.to))'
      <4>1. read'.rows = Rows(read.from, read.to)' BY <1>3, <1>9, <1>12, <3>1
      <4> QED BY <4>1 DEF Counted
    <3> QED BY <1>2, <1>3, <3>1
  <2> QED BY <1>2, <1>3, <2>1, <2>2 DEF ModelsAreRight
<1>14. Known(snapshot.rows)' /\ Known(read.rows)' /\ Known(read.page.rows)' /\ Known(read.first.rows)'
  <2>1. event' = event BY <1>2
  <2> QED BY <1>3, <1>4, <2>1 DEF StatisticsInv, Known
<1>15. OneEach(read.page.rows)' /\ OneEach(read.first.rows)'
  BY <1>3 DEF StatisticsInv, OneEach
<1>16. \A f \in Events : event'[f].live => event'[f].seen BY <1>2 DEF StatisticsInv
<1>17. ~hidden' => Below(snapshot'.rows, Earlier(snapshot'.to, Overlap))
                   = Below(there, Earlier(snapshot'.to, Overlap))
  BY <1>2, <1>4, <1>10
<1>18. ~read'.moved /\ ~hidden' => read'.rows = there BY <1>2, <1>3, <1>12
<1> QED BY <1>5, <1>7, <1>9, <1>13, <1>14, <1>15, <1>16, <1>17, <1>18 DEF StatisticsInv

\* Steps that leave the read and the events.
LEMMA QuietHolds ==
    ASSUME StatisticsInv, UNCHANGED <<event, read, hidden>>, StatisticsTypeOK',
           snapshot' = snapshot \/ (snapshot' = NoSnapshot /\ ~Reading)
    PROVE  StatisticsInv'
<1>1. \A a, b : Rows(a, b)' = Rows(a, b) BY DEF Rows, Row
<1>2. Rows(read.from, read.to)' = Rows(read.from, read.to) BY DEF Rows, Row
<1>3. Reading' <=> Reading BY DEF Reading
<1>4. ModelsAreRight'
  <2>1. Counted(read.rows)' = Counted(read.rows) /\ Counted(Rows(read.from, read.to))' = Counted(Rows(read.from, read.to))
    BY <1>2 DEF Counted
  <2> QED BY <2>1 DEF StatisticsInv, ModelsAreRight
<1>5. Known(read.rows)' /\ Known(read.page.rows)' /\ Known(read.first.rows)'
  BY DEF StatisticsInv, Known
<1>6. OneEach(read.page.rows)' /\ OneEach(read.first.rows)' BY DEF StatisticsInv, OneEach
<1>7. Page(Rows(read.from, read.to))' = Page(Rows(read.from, read.to)) BY <1>2 DEF Page, Newer
<1>8. /\ ReadsAll(read, Rows(read.from, read.to), Earlier(read.to, Overlap))'
         <=> ReadsAll(read, Rows(read.from, read.to), Earlier(read.to, Overlap))
      /\ ReadsAll(read, Rows(read.from, read.to), read.to)'
         <=> ReadsAll(read, Rows(read.from, read.to), read.to)
  BY <1>2
<1>9. CASE snapshot' = snapshot
  <2>1. Known(snapshot.rows)' BY <1>9 DEF StatisticsInv, Known
  <2>2. Rows(snapshot.from, snapshot.to)' = Rows(snapshot.from, snapshot.to) BY <1>9 DEF Rows, Row
  <2> QED BY <1>2, <1>3, <1>4, <1>5, <1>6, <1>7, <1>8, <1>9, <2>1, <2>2 DEF StatisticsInv
<1>10. CASE snapshot' = NoSnapshot /\ ~Reading
  <2>1. snapshot'.kept = FALSE /\ snapshot'.rows = {} BY <1>10 DEF NoSnapshot
  <2>2. Known(snapshot.rows)' BY <2>1 DEF Known
  <2> QED BY <1>2, <1>3, <1>4, <1>5, <1>6, <1>10, <2>1, <2>2 DEF StatisticsInv
<1> QED BY <1>9, <1>10

\* A delta begins anew with the first page.
LEMMA FallBackHolds ==
    ASSUME StatisticsInv, FallBack
    PROVE  StatisticsInv'
<1>1. StatisticsTypeOK BY DEF StatisticsInv
<1>2. /\ Reading /\ read.delta
      /\ read' = [read EXCEPT !.step = "page", !.delta = FALSE, !.full = now, !.rows = {}, !.page = read.first]
      /\ snapshot' = NoSnapshot /\ hidden' = read.moved
      /\ UNCHANGED <<now, event, edits>>
  BY DEF FallBack
<1>3. /\ read' \in ReadRecords /\ read'.step = "page" /\ read'.rows = {}
      /\ read'.delta = FALSE /\ read'.from = read.from /\ read'.to = read.to
      /\ read'.first = read.first /\ read'.page = read.first /\ read'.moved = read.moved
  BY <1>1, <1>2, ReadTyped DEF ReadRecords
<1>4. snapshot' \in Snapshots /\ snapshot'.kept = FALSE /\ snapshot'.rows = {}
  BY <1>2 DEF NoSnapshot, Snapshots
<1>5. StatisticsTypeOK'
  <2>1. hidden' \in BOOLEAN BY <1>1, <1>2, ReadTyped
  <2> QED BY <1>1, <1>2, <1>3, <1>4, <2>1 DEF StatisticsTypeOK, ReadRecords, Snapshots
<1>6. PICK there : there = Rows(read.from, read.to) OBVIOUS
<1>7. Rows(read.from, read.to)' = there BY <1>2, <1>3, <1>6 DEF Rows, Row
<1>8. Earlier(read.to, Overlap) \in Nat /\ read.to \in Nat BY <1>1, ReadTyped, EarlierOverlap
<1>9. ASSUME ~read.moved, NEW limit \in Nat PROVE ReadsAll(read', there, limit)
  <2>1. read.first = Page(there) BY <1>2, <1>6, <1>9 DEF StatisticsInv
  <2>2. there = Rows(read'.from, read'.to) BY <1>3, <1>6
  <2>3. ReadsAll(read', Rows(read'.from, read'.to), limit)
    BY <1>3, <1>9, <2>1, <2>2, FirstPageReads
  <2> QED BY <2>2, <2>3
<1>10. Known(snapshot.rows)' /\ Known(read.rows)' /\ Known(read.page.rows)' /\ Known(read.first.rows)'
  <2>1. event' = event BY <1>2
  <2> QED BY <1>3, <1>4, <2>1 DEF StatisticsInv, Known
<1>11. OneEach(read.page.rows)' /\ OneEach(read.first.rows)'
  BY <1>3 DEF StatisticsInv, OneEach
<1>12. \A f \in Events : event'[f].live => event'[f].seen BY <1>2 DEF StatisticsInv
<1>13. ModelsAreRight' BY <1>3 DEF ModelsAreRight
<1>14. Page(Rows(read.from, read.to))' = Page(there) BY <1>7 DEF Page, Newer
<1>15. /\ read'.from < read'.to
       /\ \A rows \in {read'.rows, read'.page.rows, read'.first.rows} : Within(rows, read'.from, read'.to)
       /\ read'.page.more => read'.page.rows # {}
       /\ read'.first.more => read'.first.rows # {}
       /\ ~read'.delta /\ ~snapshot'.kept
       /\ ~read'.moved => read'.first = Page(there)
  <2>1. Within({}, read.from, read.to) BY DEF Within
  <2> QED BY <1>2, <1>3, <1>4, <1>6, <2>1 DEF StatisticsInv
<1>16. /\ ~hidden' => ReadsAll(read', there, Earlier(read'.to, Overlap))
       /\ ~hidden' /\ ~read'.moved => ReadsAll(read', there, read'.to)
  BY <1>2, <1>3, <1>8, <1>9
<1> QED BY <1>3, <1>4, <1>5, <1>7, <1>10, <1>11, <1>12, <1>13, <1>14, <1>15, <1>16 DEF StatisticsInv

\* A read fails, and nothing is kept.
LEMMA FailHolds ==
    ASSUME StatisticsInv, ReadFails
    PROVE  StatisticsInv'
<1>1. StatisticsTypeOK BY DEF StatisticsInv
<1>2. read' = NoRead /\ snapshot' = NoSnapshot /\ UNCHANGED <<now, event, edits, hidden>>
  BY DEF ReadFails
<1>3. /\ NoRead \in ReadRecords /\ read'.step = "idle" /\ read'.rows = {} /\ read'.page.rows = {}
      /\ read'.first.rows = {}
  BY <1>2 DEF NoRead, EmptyPage, ReadRecords, PagesOfRows
<1>4. NoSnapshot \in Snapshots /\ snapshot'.kept = FALSE /\ snapshot'.rows = {}
  BY <1>2 DEF NoSnapshot, Snapshots
<1>5. StatisticsTypeOK' BY <1>1, <1>2, <1>3, <1>4 DEF StatisticsTypeOK, ReadRecords, Snapshots
<1>6. \A f \in Events : event'[f].live => event'[f].seen BY <1>2 DEF StatisticsInv
<1> QED BY <1>3, <1>4, <1>5, <1>6 DEF StatisticsInv, Known, OneEach, Reading, ModelsAreRight

\* No event and no read at the start.
LEMMA StatisticsInitially == StatisticsInit => StatisticsInv
<1> SUFFICES ASSUME StatisticsInit PROVE StatisticsInv
  OBVIOUS
<1>1. /\ now = 1 /\ edits = 0 /\ snapshot = NoSnapshot /\ read = NoRead /\ hidden = FALSE
      /\ event = [e \in Events |-> [seen |-> FALSE, live |-> FALSE, at |-> 0, model |-> CHOOSE m \in Models : TRUE]]
  BY DEF StatisticsInit
<1>2. /\ NoRead \in ReadRecords /\ read.step = "idle" /\ read.rows = {} /\ read.page.rows = {}
      /\ read.first.rows = {}
  BY <1>1 DEF NoRead, EmptyPage, ReadRecords, PagesOfRows
<1>3. NoSnapshot \in Snapshots /\ snapshot.kept = FALSE /\ snapshot.rows = {}
  BY <1>1 DEF NoSnapshot, Snapshots
<1>4. (CHOOSE m \in Models : TRUE) \in Models BY StatisticsAssumption
<1>5. now \in 1..MaxTime /\ edits \in 0..MaxEdits /\ 0 \in 0..MaxTime BY <1>1, StatisticsAssumption
<1>6. event \in [Events -> [seen : BOOLEAN, live : BOOLEAN, at : 0..MaxTime, model : Models]]
  BY <1>1, <1>4, <1>5
<1>7. StatisticsTypeOK BY <1>1, <1>2, <1>3, <1>5, <1>6 DEF StatisticsTypeOK, ReadRecords, Snapshots
<1>8. \A e \in Events : event[e].live => event[e].seen BY <1>1
<1> QED BY <1>2, <1>3, <1>7, <1>8 DEF StatisticsInv, Known, OneEach, Reading, ModelsAreRight

\* Every step keeps it.
LEMMA StatisticsStep ==
    ASSUME StatisticsInv, [StatisticsNext]_statVars
    PROVE  StatisticsInv'
<1>1. StatisticsTypeOK BY DEF StatisticsInv
<1>2. /\ \A e \in Events : event[e].at \in 0..MaxTime /\ event[e].at \in Nat
      /\ event \in [Events -> [seen : BOOLEAN, live : BOOLEAN, at : 0..MaxTime, model : Models]]
      /\ \A e \in Events : event[e].live => event[e].seen
  BY <1>1, StatisticsAssumption DEF StatisticsTypeOK, StatisticsInv
<1>3. ASSUME NEW e \in Events, NEW m \in Models, NEW at \in 0..MaxTime, Import(e, at, m)
      PROVE  StatisticsInv'
  <2>1. event' = [event EXCEPT ![e] = [seen |-> TRUE, live |-> TRUE, at |-> at, model |-> m]]
        /\ ~event[e].seen /\ Edited(at)
    BY <1>3 DEF Import
  <2>2. at \in Nat BY StatisticsAssumption
  <2> QED BY <1>2, <2>1, <2>2, EditHolds
<1>4. ASSUME NEW e \in Events, NEW m \in Models, Correct(e, m) PROVE StatisticsInv'
  <2>1. event' = [event EXCEPT ![e].model = m] /\ event[e].live /\ Edited(event[e].at)
    BY <1>4 DEF Correct
  <2> QED BY <1>2, <2>1, EditHolds
<1>5. ASSUME NEW e \in Events, Delete(e) PROVE StatisticsInv'
  <2>1. event' = [event EXCEPT ![e].live = FALSE] /\ event[e].live /\ Edited(event[e].at)
    BY <1>5 DEF Delete
  <2> QED BY <1>2, <2>1, EditHolds
<1>6. ASSUME NEW forced \in BOOLEAN, BeginRead(forced) PROVE StatisticsInv'
  BY <1>6, BeginHolds
<1>7. CASE NextPage BY <1>7, LastPageHolds, MorePagesHold
<1>8. CASE CheckTotals BY <1>8, CheckHolds
<1>9. CASE FallBack BY <1>9, FallBackHolds
<1>10. CASE ReadFails BY <1>10, FailHolds
<1>11. CASE Tick \/ ClockBack \/ UNCHANGED statVars
  <2>1. UNCHANGED <<event, read, hidden, snapshot>> BY <1>11 DEF Tick, ClockBack, statVars
  <2>2. now' \in 1..MaxTime /\ edits' \in 0..MaxEdits
    BY <1>1, <1>11, StatisticsAssumption DEF Tick, ClockBack, statVars, StatisticsTypeOK
  <2>3. StatisticsTypeOK' BY <1>1, <2>1, <2>2 DEF StatisticsTypeOK
  <2> QED BY <2>1, <2>3, QuietHolds
<1>12. CASE Evict
  <2>1. UNCHANGED <<now, event, edits, read, hidden>> /\ snapshot' = NoSnapshot /\ ~Reading
    BY <1>12 DEF Evict
  <2>2. NoSnapshot \in Snapshots /\ NoSnapshot.kept = FALSE BY DEF NoSnapshot, Snapshots
  <2>3. StatisticsTypeOK' BY <1>1, <2>1, <2>2 DEF StatisticsTypeOK, Snapshots
  <2> QED BY <2>1, <2>3, QuietHolds
<1> QED BY <1>3, <1>4, <1>5, <1>6, <1>7, <1>8, <1>9, <1>10, <1>11, <1>12 DEF StatisticsNext

\* The invariant of the kept statistics.
LEMMA StatisticsHold == StatisticsSpec => []StatisticsInv
<1>1. StatisticsInv /\ [StatisticsNext]_statVars => StatisticsInv' BY StatisticsStep
<1> QED BY <1>1, StatisticsInitially, PTL DEF StatisticsSpec

-----------------------------------------------------------------------------
(* The times of requests: the details.                                     *)

Timings == [at : Nat, traced : BOOLEAN]

\* One row is newer than another in one order.
LEMMA NewerRowsOrder ==
    ASSUME NEW table \in Seq(Timings), NEW rows, rows \subseteq DOMAIN table, NEW i \in DOMAIN table
    PROVE  /\ NewerRows(table, rows, i) \subseteq DOMAIN table
           /\ i \notin NewerRows(table, rows, i)
           /\ \A j \in NewerRows(table, rows, i) :
                  NewerRows(table, rows, j) \subseteq NewerRows(table, rows, i)
<1>1. \A j \in DOMAIN table : j \in Nat /\ table[j].at \in Nat
  <2> SUFFICES ASSUME NEW j \in DOMAIN table PROVE j \in Nat /\ table[j].at \in Nat
    OBVIOUS
  <2>1. j \in 1..Len(table) /\ Len(table) \in Nat OBVIOUS
  <2>2. table[j] \in Timings BY <2>1, ElementOfSeq
  <2> QED BY <2>1, <2>2 DEF Timings
<1>2. i \notin NewerRows(table, rows, i) BY <1>1 DEF NewerRows, Later
<1>3. ASSUME NEW j \in NewerRows(table, rows, i), NEW k \in NewerRows(table, rows, j)
      PROVE  k \in NewerRows(table, rows, i)
  BY <1>1, <1>3 DEF NewerRows, Later
<1> QED BY <1>2, <1>3 DEF NewerRows

\* Sets of rows are finite.
LEMMA RowsFinite ==
    ASSUME NEW table \in Seq(Timings), NEW rows \in SUBSET (DOMAIN table)
    PROVE  IsFiniteSet(rows) /\ Cardinality(rows) \in Nat
<1>1. DOMAIN table = 1..Len(table) /\ Len(table) \in Nat OBVIOUS
<1>2. IsFiniteSet(DOMAIN table) BY <1>1, FS_Interval
<1>3. IsFiniteSet(rows) BY <1>2, FS_Subset
<1> QED BY <1>3, FS_CardinalityType

\* The newest of a class among rows that miss only old ones are the newest of all:
\* the newest row that is missing has enough before it.
LEMMA NewestOfEnough ==
    ASSUME NEW table \in Seq(Timings), NEW rows, rows \subseteq DOMAIN table,
           \A j \in DOMAIN table \ rows : Cardinality(NewerRows(table, DOMAIN table, j)) >= Keep
    PROVE  \A i \in DOMAIN table :
               i \in Newest(table, rows) <=> Cardinality(NewerRows(table, DOMAIN table, i)) < Keep
<1> DEFINE All(i) == NewerRows(table, DOMAIN table, i)
<1>1. Keep \in Nat BY TimingsAssumption
<1>2. \A i \in DOMAIN table : IsFiniteSet(All(i)) /\ Cardinality(All(i)) \in Nat
  BY NewerRowsOrder, RowsFinite
<1>3. \A i \in DOMAIN table : /\ NewerRows(table, rows, i) \subseteq All(i)
                              /\ \A j \in All(i) : j \in rows => j \in NewerRows(table, rows, i)
  BY DEF NewerRows
<1>4. \A i \in DOMAIN table : /\ All(i) \subseteq DOMAIN table /\ i \notin All(i)
                              /\ \A j \in All(i) : All(j) \subseteq All(i)
  BY NewerRowsOrder
<1> HIDE DEF All
<1>5. \A i \in DOMAIN table : Cardinality(NewerRows(table, rows, i)) \in Nat
                              /\ Cardinality(NewerRows(table, rows, i)) <= Cardinality(All(i))
  BY <1>2, <1>3, FS_Subset, FS_CardinalityType
<1>6. ASSUME NEW i \in rows, Cardinality(NewerRows(table, rows, i)) < Keep,
             NEW k \in All(i), k \notin rows
      PROVE  FALSE
  <2>1. i \in DOMAIN table OBVIOUS
  <2>2. PICK T : T = {Cardinality(All(j)) : j \in All(i) \ rows} OBVIOUS
  <2>3. T \subseteq Nat /\ T # {} BY <1>2, <1>4, <1>6, <2>1, <2>2
  <2>4. PICK n \in T : \A m \in T : n <= m BY <2>3, SmallestNumber
  <2>5. PICK j \in All(i) \ rows : n = Cardinality(All(j)) BY <2>2, <2>4
  <2>6. j \in DOMAIN table BY <1>4, <2>1
  <2>7. ASSUME NEW l \in All(j), l \notin rows PROVE FALSE
    <3>1. l \in All(i) /\ l \in DOMAIN table BY <1>4, <2>1, <2>5, <2>6, <2>7
    <3>2. n <= Cardinality(All(l)) BY <2>2, <2>4, <2>7, <3>1
    <3>3. All(l) \subseteq All(j) /\ l \notin All(l) BY <1>4, <2>6, <3>1
    <3>4. Cardinality(All(l)) <= Cardinality(All(j)) /\ (Cardinality(All(l)) = Cardinality(All(j)) => All(l) = All(j))
      BY <1>2, <2>6, <3>3, FS_Subset
    <3>5. Cardinality(All(l)) # Cardinality(All(j)) BY <2>7, <3>3, <3>4
    <3> QED BY <1>2, <2>5, <2>6, <3>1, <3>2, <3>4, <3>5
  <2>8. All(j) \subseteq NewerRows(table, rows, i) BY <1>3, <1>4, <2>1, <2>5, <2>7
  <2>9. NewerRows(table, rows, i) \subseteq All(i) BY <1>3, <2>1
  <2>10. IsFiniteSet(NewerRows(table, rows, i)) BY <1>2, <2>1, <2>9, FS_Subset
  <2>11. Cardinality(All(j)) <= Cardinality(NewerRows(table, rows, i)) BY <2>8, <2>10, FS_Subset
  <2>12. Cardinality(All(j)) >= Keep BY <2>5, <2>6 DEF All
  <2> QED BY <1>1, <1>2, <1>5, <1>6, <2>1, <2>6, <2>11, <2>12
<1>7. ASSUME NEW i \in DOMAIN table, i \in Newest(table, rows) PROVE Cardinality(All(i)) < Keep
  <2>1. i \in rows /\ Cardinality(NewerRows(table, rows, i)) < Keep BY <1>7 DEF Newest
  <2>2. \A k \in All(i) : k \in rows BY <1>6, <2>1
  <2>3. All(i) = NewerRows(table, rows, i) BY <1>3, <2>2
  <2> QED BY <2>1, <2>3
<1>8. ASSUME NEW i \in DOMAIN table, Cardinality(All(i)) < Keep PROVE i \in Newest(table, rows)
  <2>1. i \in rows BY <1>1, <1>2, <1>8 DEF All
  <2>2. Cardinality(NewerRows(table, rows, i)) < Keep BY <1>1, <1>2, <1>5, <1>8
  <2> QED BY <2>1, <2>2 DEF Newest
<1> QED BY <1>7, <1>8 DEF All

\* A row that was driven out is not needed when another comes.
LEMMA DetailsAfterSave ==
    ASSUME NEW table \in Seq(Timings), NEW new \in Timings, NEW held, held \subseteq DOMAIN table,
           \A i \in DOMAIN table : i \in held <=> Cardinality(NewerRows(table, DOMAIN table, i)) < Keep
    PROVE  LET longer == Append(table, new) IN
           \A i \in DOMAIN longer :
               i \in Newest(longer, held \cup {Len(longer)})
               <=> Cardinality(NewerRows(longer, DOMAIN longer, i)) < Keep
<1> DEFINE longer == Append(table, new)
           rows == held \cup {Len(longer)}
<1>1. /\ longer \in Seq(Timings) /\ Len(longer) = Len(table) + 1 /\ Len(table) \in Nat
      /\ DOMAIN table = 1..Len(table) /\ DOMAIN longer = 1..(Len(table) + 1)
      /\ \A i \in DOMAIN table : longer[i] = table[i]
  OBVIOUS
<1>2. rows \subseteq DOMAIN longer BY <1>1
<1>3. ASSUME NEW j \in DOMAIN longer \ rows
      PROVE  Cardinality(NewerRows(longer, DOMAIN longer, j)) >= Keep
  <2>1. j \in DOMAIN table /\ j \notin held BY <1>1
  <2>2. NewerRows(table, DOMAIN table, j) \subseteq NewerRows(longer, DOMAIN longer, j)
    BY <1>1, <2>1 DEF NewerRows, Later
  <2>3. NewerRows(longer, DOMAIN longer, j) \subseteq DOMAIN longer BY DEF NewerRows
  <2>4. /\ IsFiniteSet(NewerRows(longer, DOMAIN longer, j))
        /\ Cardinality(NewerRows(longer, DOMAIN longer, j)) \in Nat
    BY <1>1, <2>3, RowsFinite
  <2>5. Cardinality(NewerRows(table, DOMAIN table, j)) <= Cardinality(NewerRows(longer, DOMAIN longer, j))
    BY <2>2, <2>4, FS_Subset
  <2>6. NewerRows(table, DOMAIN table, j) \subseteq DOMAIN table BY DEF NewerRows
  <2>7. Cardinality(NewerRows(table, DOMAIN table, j)) \in Nat BY <2>6, RowsFinite
  <2>8. ~(Cardinality(NewerRows(table, DOMAIN table, j)) < Keep) BY <2>1
  <2> QED BY <2>4, <2>5, <2>7, <2>8, TimingsAssumption
<1> HIDE DEF longer, rows
<1>4. \A i \in DOMAIN longer :
          i \in Newest(longer, rows) <=> Cardinality(NewerRows(longer, DOMAIN longer, i)) < Keep
  BY <1>1, <1>2, <1>3, NewestOfEnough
<1> QED BY <1>4 DEF longer, rows

-----------------------------------------------------------------------------
(* The times of requests: the totals.                                      *)

\* A time lies in its minute, and minutes do not overlap.
LEMMA MinuteHolds ==
    ASSUME NEW at \in Nat
    PROVE  MinuteOf(at) \in Nat /\ MinuteOf(at) <= at /\ at < MinuteOf(at) + Bucket
<1>1. Bucket \in Nat /\ Bucket > 0 BY TimingsAssumption
<1>2. PICK q : q = at \div Bucket OBVIOUS
<1>3. q \in Nat BY <1>1, <1>2
<1>4. q * Bucket <= at /\ at < q * Bucket + Bucket BY <1>1, <1>2, <1>3
<1>5. q * Bucket \in Nat BY <1>1, <1>3
<1> QED BY <1>2, <1>4, <1>5 DEF MinuteOf

\* Of two minutes the later starts when the earlier is over.
LEMMA MinutesApart ==
    ASSUME NEW a \in Nat, NEW b \in Nat, MinuteOf(a) < MinuteOf(b)
    PROVE  MinuteOf(a) + Bucket <= MinuteOf(b)
<1>1. Bucket \in Nat /\ Bucket > 0 BY TimingsAssumption
<1>2. PICK p, q : p = a \div Bucket /\ q = b \div Bucket OBVIOUS
<1>3. p \in Nat /\ q \in Nat BY <1>1, <1>2
<1>4. MinuteOf(a) = p * Bucket /\ MinuteOf(b) = q * Bucket BY <1>2 DEF MinuteOf
<1>5. p * Bucket < q * Bucket BY <1>4
<1>6. p + 1 <= q BY <1>1, <1>3, <1>5
<1>7. (p + 1) * Bucket <= q * Bucket BY <1>1, <1>3, <1>6
<1>8. (p + 1) * Bucket = p * Bucket + Bucket BY <1>1, <1>3
<1> QED BY <1>4, <1>7, <1>8

\* A minute is its own; later times are in later minutes.
LEMMA MinutesGrow ==
    ASSUME NEW a \in Nat, NEW b \in Nat, a <= b
    PROVE  MinuteOf(a) <= MinuteOf(b) /\ MinuteOf(MinuteOf(a)) = MinuteOf(a)
<1>0. Bucket \in Nat BY TimingsAssumption
<1>1. \A n \in {a, b, MinuteOf(a)} : /\ n \in Nat /\ MinuteOf(n) \in Nat /\ MinuteOf(n) <= n
                                     /\ n < MinuteOf(n) + Bucket
  BY MinuteHolds
<1>2. ASSUME MinuteOf(b) < MinuteOf(a) PROVE FALSE
  <2>1. MinuteOf(b) + Bucket <= MinuteOf(a) BY <1>2, MinutesApart
  <2> QED BY <1>0, <1>1, <2>1
<1>3. ASSUME MinuteOf(MinuteOf(a)) < MinuteOf(a) PROVE FALSE
  <2>1. MinuteOf(MinuteOf(a)) + Bucket <= MinuteOf(a) BY <1>1, <1>3, MinutesApart
  <2> QED BY <1>0, <1>1, <2>1
<1> QED BY <1>1, <1>2, <1>3

\* The range that is asked for: its edge, its middle, and what is recent.
LEMMA RangeEdges ==
    ASSUME TimingsTypeOK, NEW from \in Nat, totals.kept, Fits(from, time)
    PROVE  /\ RecentFrom(from) \in Nat /\ from <= RecentFrom(from) /\ RecentFrom(from) <= totals.to
           /\ RecentFrom(from) = from \/ \E b \in Nat : RecentFrom(from) = MinuteOf(b)
           /\ EdgeTo(from, time) \in Nat /\ from <= EdgeTo(from, time) /\ EdgeTo(from, time) <= time
           /\ EdgeTo(from, time) <= RecentFrom(from) /\ EdgeTo(from, time) <= MinuteOf(from) + Bucket
           /\ \A n \in Nat : n >= EdgeTo(from, time) /\ n < time /\ n < RecentFrom(from) =>
                                 n >= MinuteOf(from) + Bucket
           /\ totals.from \in Nat /\ totals.to \in Nat /\ time \in Nat /\ totals.cursor \in Nat
           /\ totals.from <= from /\ from < totals.to /\ totals.to <= time
<1>1. /\ totals.from \in Nat /\ totals.to \in Nat /\ time \in Nat /\ totals.cursor \in Nat
      /\ totals.from <= from /\ from < totals.to /\ totals.to <= time
      /\ TimingOverlap \in Nat /\ Bucket \in Nat /\ Bucket > 0
  BY TimingsAssumption DEF TimingsTypeOK, Fits
<1>2. PICK back : back = IF totals.to > TimingOverlap THEN totals.to - TimingOverlap ELSE 0 OBVIOUS
<1>3. back \in Nat /\ back <= totals.to BY <1>1, <1>2
<1>4. MinuteOf(back) \in Nat /\ MinuteOf(back) <= back BY <1>3, MinuteHolds
<1>5. RecentFrom(from) = IF from > MinuteOf(back) THEN from ELSE MinuteOf(back)
  BY <1>2 DEF RecentFrom, Max2
<1>6. /\ RecentFrom(from) \in Nat /\ from <= RecentFrom(from) /\ RecentFrom(from) <= totals.to
      /\ RecentFrom(from) = from \/ RecentFrom(from) = MinuteOf(back)
  BY <1>1, <1>3, <1>4, <1>5
<1>7. MinuteOf(from) \in Nat /\ from < MinuteOf(from) + Bucket BY MinuteHolds
<1>8. PICK r, m : r = RecentFrom(from) /\ m = MinuteOf(from) + Bucket OBVIOUS
<1>9. EdgeTo(from, time) = Min2(Min2(time, m), r) BY <1>8 DEF EdgeTo
<1>10. /\ EdgeTo(from, time) \in Nat /\ from <= EdgeTo(from, time) /\ EdgeTo(from, time) <= time
       /\ EdgeTo(from, time) <= r /\ EdgeTo(from, time) <= m
       /\ \A n \in Nat : n >= EdgeTo(from, time) /\ n < time /\ n < r => n >= m
  BY <1>1, <1>6, <1>7, <1>8, <1>9 DEF Min2
<1> QED BY <1>1, <1>3, <1>6, <1>8, <1>10

\* What the rows of the table are.
LEMMA TableTyped ==
    ASSUME TimingsTypeOK
    PROVE  /\ samples \in Seq(Timings) /\ DOMAIN samples = 1..Len(samples) /\ Len(samples) \in Nat
           /\ \A i \in DOMAIN samples : samples[i] \in [at : 0..LastTime, traced : BOOLEAN]
<1>1. LastTime \in Nat BY TimingsAssumption
<1>2. samples \in Seq([at : 0..LastTime, traced : BOOLEAN]) BY DEF TimingsTypeOK
<1>3. Len(samples) \in Nat /\ DOMAIN samples = 1..Len(samples) BY <1>2, LenProperties
<1>4. \A i \in 1..Len(samples) : samples[i] \in [at : 0..LastTime, traced : BOOLEAN]
  BY <1>2, ElementOfSeq
<1>5. [at : 0..LastTime, traced : BOOLEAN] \subseteq Timings BY <1>1 DEF Timings
<1>6. samples \in [1..Len(samples) -> Timings] BY <1>2, <1>4, <1>5, LenProperties
<1>7. samples \in Seq(Timings) BY <1>3, <1>6, SeqDef
<1> QED BY <1>3, <1>4, <1>7

OldRows == {i \in Started(totals.from, totals.to) : i <= totals.cursor}

\* A row of the table has a time and a minute.
LEMMA RowTimes ==
    ASSUME TimingsTypeOK, NEW i \in DOMAIN samples
    PROVE  /\ i \in Nat /\ i \in 1..Len(samples) /\ samples[i].at \in Nat
           /\ MinuteOf(samples[i].at) \in Nat /\ MinuteOf(samples[i].at) <= samples[i].at
           /\ samples[i].at < MinuteOf(samples[i].at) + Bucket
<1>1. /\ samples \in Seq(Timings) /\ DOMAIN samples = 1..Len(samples) /\ Len(samples) \in Nat
  BY TableTyped
<1>2. samples[i] \in Timings BY <1>1, ElementOfSeq
<1>3. samples[i].at \in Nat BY <1>2 DEF Timings
<1>4. PICK x : x = samples[i].at OBVIOUS
<1>5. MinuteOf(x) \in Nat /\ MinuteOf(x) <= x /\ x < MinuteOf(x) + Bucket BY <1>3, <1>4, MinuteHolds
<1>6. i \in 1..Len(samples) /\ i \in Nat BY <1>1
<1> QED BY <1>3, <1>4, <1>5, <1>6

\* Of a kept minute the rows that were counted are all in the range.
LEMMA KeptRows ==
    ASSUME TimingsTypeOK, NEW from \in Nat, totals.kept, Fits(from, time),
           NEW m \in KeptMinutes(from, time), NEW i \in OldRows, MinuteOf(samples[i].at) = m
    PROVE  i \in Started(from, time)
<1>1. i \in DOMAIN samples /\ totals.from <= samples[i].at /\ samples[i].at < totals.to
  BY DEF OldRows, Started, TimingsTypeOK
<1>2. /\ samples[i].at \in Nat /\ m \in Nat /\ m <= samples[i].at /\ i \in 1..Len(samples)
  BY <1>1, RowTimes
<1>3. MinuteOf(from) \in Nat /\ from < MinuteOf(from) + Bucket BY MinuteHolds
<1>4. MinuteOf(from) < MinuteOf(samples[i].at) BY DEF KeptMinutes
<1>5. MinuteOf(from) + Bucket <= m BY <1>2, <1>4, MinutesApart
<1>6. Bucket \in Nat BY TimingsAssumption
<1>7. totals.to \in Nat /\ time \in Nat /\ totals.to <= time BY RangeEdges
<1>8. from <= samples[i].at /\ samples[i].at < time BY <1>1, <1>2, <1>3, <1>5, <1>6, <1>7
<1> QED BY <1>2, <1>8 DEF Started

\* A row that is not read again was counted, in a minute that is kept.
LEMMA UnchangedRows ==
    ASSUME TimingsTypeOK, NEW from \in Nat, totals.kept, Fits(from, time),
           NEW i \in Started(from, time), i \notin Changed(from, time)
    PROVE  /\ i \in OldRows
           /\ MinuteOf(samples[i].at) > MinuteOf(from) /\ MinuteOf(samples[i].at) < time
           /\ MinuteOf(samples[i].at) < RecentFrom(from)
<1>1. i \in DOMAIN samples /\ from <= samples[i].at /\ samples[i].at < time
  BY DEF Started, TimingsTypeOK
<1>2. /\ i \in Nat /\ i \in 1..Len(samples) /\ samples[i].at \in Nat /\ MinuteOf(samples[i].at) \in Nat
      /\ MinuteOf(samples[i].at) <= samples[i].at
      /\ samples[i].at < MinuteOf(samples[i].at) + Bucket
  BY <1>1, RowTimes
<1>3. /\ RecentFrom(from) \in Nat /\ RecentFrom(from) <= totals.to
      /\ EdgeTo(from, time) \in Nat
      /\ samples[i].at >= EdgeTo(from, time) /\ samples[i].at < RecentFrom(from) =>
             samples[i].at >= MinuteOf(from) + Bucket
      /\ totals.from \in Nat /\ totals.to \in Nat /\ time \in Nat /\ totals.cursor \in Nat
      /\ totals.from <= from
  BY <1>1, <1>2, RangeEdges
<1>4. samples[i].at >= EdgeTo(from, time)
  BY <1>1, <1>2, <1>3 DEF Changed, Started
<1>5. samples[i].at < RecentFrom(from)
  BY <1>1, <1>2, <1>3 DEF Changed, Started
<1>6. i \in Started(EdgeTo(from, time), RecentFrom(from)) BY <1>2, <1>4, <1>5 DEF Started
<1>7. ~(i > totals.cursor) BY <1>6 DEF Changed, Late
<1>8. i \in OldRows BY <1>1, <1>2, <1>3, <1>5, <1>7 DEF OldRows, Started
<1>9. MinuteOf(from) \in Nat /\ Bucket \in Nat BY MinuteHolds, TimingsAssumption
<1>10. MinuteOf(samples[i].at) # MinuteOf(from) BY <1>2, <1>3, <1>4, <1>5, <1>9
<1>11. MinuteOf(from) <= MinuteOf(samples[i].at) BY <1>1, <1>2, MinutesGrow
<1> QED BY SMTT(20), <1>1, <1>2, <1>3, <1>5, <1>8, <1>9, <1>10, <1>11

\* A minute is read again in whole, as far as it is in the range.
LEMMA ChangedMinutes ==
    ASSUME TimingsTypeOK, NEW from \in Nat, totals.kept, Fits(from, time),
           NEW i \in Started(from, time), NEW j \in Changed(from, time),
           MinuteOf(samples[i].at) = MinuteOf(samples[j].at)
    PROVE  i \in Changed(from, time)
<1>1. i \in DOMAIN samples /\ from <= samples[i].at /\ samples[i].at < time
  BY DEF Started, TimingsTypeOK
<1>2. j \in DOMAIN samples BY DEF Changed, Late, Started, TimingsTypeOK
<1>3. PICK x, y, m : x = samples[i].at /\ y = samples[j].at /\ m = MinuteOf(samples[i].at) OBVIOUS
<1>4. /\ i \in 1..Len(samples) /\ x \in Nat /\ y \in Nat /\ m \in Nat
      /\ m <= x /\ x < m + Bucket /\ m <= y /\ y < m + Bucket
  BY <1>1, <1>2, <1>3, RowTimes
<1>5. /\ RecentFrom(from) \in Nat /\ from <= RecentFrom(from)
      /\ RecentFrom(from) = from \/ \E b \in Nat : RecentFrom(from) = MinuteOf(b)
      /\ EdgeTo(from, time) \in Nat /\ EdgeTo(from, time) <= MinuteOf(from) + Bucket
      /\ \A n \in Nat : n >= EdgeTo(from, time) /\ n < time /\ n < RecentFrom(from) =>
                            n >= MinuteOf(from) + Bucket
  BY RangeEdges
<1>6. MinuteOf(from) \in Nat /\ Bucket \in Nat BY MinuteHolds, TimingsAssumption
<1>7. ASSUME x < EdgeTo(from, time) PROVE i \in Changed(from, time)
  BY <1>1, <1>3, <1>4, <1>7 DEF Changed, Started
<1>8. ASSUME x >= RecentFrom(from) PROVE i \in Changed(from, time)
  BY <1>1, <1>3, <1>4, <1>8 DEF Changed, Started
<1>9. CASE j \in Started(from, EdgeTo(from, time))
  <2>1. from <= y /\ y < MinuteOf(from) + Bucket BY <1>3, <1>4, <1>5, <1>6, <1>9 DEF Started
  <2>2. MinuteOf(from) <= m BY <1>3, <1>4, <2>1, MinutesGrow
  <2>3. ~(MinuteOf(from) < m)
    <3>1. MinuteOf(from) < MinuteOf(y) => MinuteOf(from) + Bucket <= MinuteOf(y) BY <1>4, MinutesApart
    <3>2. MinuteOf(y) = m BY <1>3
    <3> QED BY <1>4, <1>6, <2>1, <3>1, <3>2
  <2>4. x < MinuteOf(from) + Bucket BY <1>4, <1>6, <2>2, <2>3
  <2>5. x < EdgeTo(from, time) \/ x >= RecentFrom(from)
    <3>1. x >= EdgeTo(from, time) /\ x < time /\ x < RecentFrom(from) => x >= MinuteOf(from) + Bucket
      BY <1>4, <1>5
    <3>2. x < time BY <1>1, <1>3
    <3> QED BY <1>4, <1>5, <1>6, <2>4, <3>1, <3>2
  <2> QED BY <1>7, <1>8, <2>5
<1>10. CASE j \in Started(RecentFrom(from), time)
  <2>1. y >= RecentFrom(from) BY <1>3, <1>10 DEF Started
  <2>2. CASE RecentFrom(from) = from
    <3>1. x >= RecentFrom(from) BY <1>1, <1>3, <2>2
    <3> QED BY <1>8, <3>1
  <2>3. ASSUME NEW b \in Nat, RecentFrom(from) = MinuteOf(b) PROVE x >= RecentFrom(from)
    <3>1. MinuteOf(MinuteOf(b)) = MinuteOf(b) BY MinutesGrow
    <3>2. MinuteOf(MinuteOf(b)) <= MinuteOf(y) BY <1>4, <1>5, <2>1, <2>3, MinutesGrow
    <3>3. MinuteOf(y) = m BY <1>3
    <3> QED BY <1>4, <1>5, <2>3, <3>1, <3>2, <3>3
  <2> QED BY <1>5, <1>8, <2>2, <2>3
<1>11. CASE j \in Late(from, time)
  <2>1. PICK k \in Started(EdgeTo(from, time), RecentFrom(from)) :
            k > totals.cursor /\ MinuteOf(samples[k].at) = MinuteOf(samples[j].at)
    BY <1>11 DEF Late
  <2>2. CASE ~(x < EdgeTo(from, time)) /\ ~(x >= RecentFrom(from))
    <3>1. i \in Started(EdgeTo(from, time), RecentFrom(from))
      BY <1>3, <1>4, <1>5, <2>2 DEF Started
    <3>2. i \in Late(from, time) BY <2>1, <3>1 DEF Late
    <3> QED BY <3>2 DEF Changed
  <2> QED BY <1>7, <1>8, <2>2
<1> QED BY <1>9, <1>10, <1>11 DEF Changed

\* What is read again is in the range.
LEMMA ChangedInRange ==
    ASSUME TimingsTypeOK, NEW from \in Nat, totals.kept, Fits(from, time)
    PROVE  Changed(from, time) \subseteq Started(from, time)
<1>1. ASSUME NEW i \in Changed(from, time) PROVE i \in Started(from, time)
  <2>1. i \in 1..Len(samples) /\ i \in DOMAIN samples BY DEF Changed, Late, Started, TimingsTypeOK
  <2>2. samples[i].at \in Nat BY <2>1, RowTimes
  <2>3. /\ RecentFrom(from) \in Nat /\ from <= RecentFrom(from) /\ RecentFrom(from) <= time
        /\ EdgeTo(from, time) \in Nat /\ from <= EdgeTo(from, time) /\ EdgeTo(from, time) <= time
        /\ time \in Nat
    BY RangeEdges
  <2>4. from <= samples[i].at /\ samples[i].at < time BY <1>1, <2>2, <2>3 DEF Changed, Late, Started
  <2> QED BY <2>1, <2>4 DEF Started
<1> QED BY <1>1

\* The minutes of some rows, and a minute of them.
Minutes(rows) == {MinuteOf(samples[i].at) : i \in rows}
OfMinute(rows, m) == {i \in rows : MinuteOf(samples[i].at) = m}

\* What is added up by the minute.
LEMMA CountIs ==
    ASSUME NEW rows
    PROVE  /\ DOMAIN Count(rows) = Minutes(rows)
           /\ Count(rows) = [m \in Minutes(rows) |-> Cardinality(OfMinute(rows, m))]
           /\ \A m \in Minutes(rows) : Count(rows)[m] = Cardinality(OfMinute(rows, m))
BY DEF Count, Minutes, OfMinute

\* The totals of an increment are those of a full read.
LEMMA IncrementRight ==
    ASSUME TimingsTypeOK, NEW from \in Nat, totals.kept, Fits(from, time),
           totals.minutes = Count(OldRows)
    PROVE  Increment(from, time).minutes = Count(Started(from, time))
<1> DEFINE C == Changed(from, time)
           S == Started(from, time)
           K == KeptMinutes(from, time)
<1>1. Increment(from, time).minutes =
          [m \in K \cup DOMAIN Count(C) |-> IF m \in DOMAIN Count(C) THEN Count(C)[m] ELSE totals.minutes[m]]
  <2>1. totals = [kept |-> totals.kept, from |-> totals.from, to |-> totals.to, cursor |-> totals.cursor,
                  due |-> totals.due, minutes |-> totals.minutes]
    BY DEF TimingsTypeOK
  <2> QED BY <2>1 DEF Increment
<1>2. C \subseteq S BY ChangedInRange
<1>3. \A i \in S, j \in C : MinuteOf(samples[i].at) = MinuteOf(samples[j].at) => i \in C
  BY ChangedMinutes
<1>4. \A m \in K, i \in OldRows : MinuteOf(samples[i].at) = m => i \in S BY KeptRows
<1>5. \A i \in S : i \notin C => i \in OldRows /\ MinuteOf(samples[i].at) \in K
  <2> SUFFICES ASSUME NEW i \in S, i \notin C
               PROVE  i \in OldRows /\ MinuteOf(samples[i].at) \in K
    OBVIOUS
  <2>1. /\ i \in OldRows
        /\ MinuteOf(samples[i].at) > MinuteOf(from) /\ MinuteOf(samples[i].at) < time
        /\ MinuteOf(samples[i].at) < RecentFrom(from)
    BY UnchangedRows
  <2>2. MinuteOf(samples[i].at) \in Minutes(OldRows) BY <2>1 DEF Minutes
  <2>3. DOMAIN Count(OldRows) = Minutes(OldRows) BY CountIs
  <2> QED BY <2>1, <2>2, <2>3 DEF KeptMinutes
<1>6. K \subseteq Minutes(OldRows) BY CountIs DEF KeptMinutes
<1> HIDE DEF C, S, K
<1>7. K \cup Minutes(C) = Minutes(S)
  <2>1. ASSUME NEW m \in K PROVE m \in Minutes(S) BY <1>4, <1>6 DEF Minutes
  <2>2. Minutes(C) \subseteq Minutes(S) BY <1>2 DEF Minutes
  <2>3. ASSUME NEW m \in Minutes(S) PROVE m \in K \cup Minutes(C) BY <1>5 DEF Minutes
  <2> QED BY <2>1, <2>2, <2>3
<1>8. ASSUME NEW m \in Minutes(C) PROVE OfMinute(C, m) = OfMinute(S, m)
  <2>1. PICK j \in C : m = MinuteOf(samples[j].at) BY DEF Minutes
  <2> QED BY <1>2, <1>3, <2>1 DEF OfMinute
<1>9. ASSUME NEW m \in K, m \notin Minutes(C) PROVE OfMinute(OldRows, m) = OfMinute(S, m)
  <2>1. \A i \in S : MinuteOf(samples[i].at) = m => i \notin C BY <1>9 DEF Minutes
  <2> QED BY <1>4, <1>5, <2>1 DEF OfMinute
<1>10. \A m \in Minutes(S) :
           (IF m \in DOMAIN Count(C) THEN Count(C)[m] ELSE totals.minutes[m]) = Cardinality(OfMinute(S, m))
  <2> SUFFICES ASSUME NEW m \in Minutes(S)
               PROVE  (IF m \in DOMAIN Count(C) THEN Count(C)[m] ELSE totals.minutes[m])
                      = Cardinality(OfMinute(S, m))
    OBVIOUS
  <2>1. DOMAIN Count(C) = Minutes(C) BY CountIs
  <2>2. CASE m \in Minutes(C) BY <1>8, <2>1, <2>2, CountIs
  <2>3. CASE m \notin Minutes(C)
    <3>1. m \in K BY <1>7, <2>3
    <3>2. m \in Minutes(OldRows) BY <1>6, <3>1
    <3>3. Count(OldRows)[m] = Cardinality(OfMinute(OldRows, m)) BY <3>2, CountIs
    <3> QED BY <1>9, <2>1, <2>3, <3>1, <3>3
  <2> QED BY <2>2, <2>3
<1>11. DOMAIN Count(C) = Minutes(C) BY CountIs
<1>12. Increment(from, time).minutes = [m \in Minutes(S) |-> Cardinality(OfMinute(S, m))]
  BY <1>1, <1>7, <1>10, <1>11
<1>13. Increment(from, time).minutes = Count(S) BY <1>12, CountIs
<1> QED BY <1>13 DEF S

\* The rows of a range up to the last one are the range.
LEMMA AllRows ==
    ASSUME TimingsTypeOK, NEW from, NEW to
    PROVE  {i \in Started(from, to) : i <= Len(samples)} = Started(from, to)
<1>1. Len(samples) \in Nat BY DEF TimingsTypeOK
<1> QED BY <1>1 DEF Started

-----------------------------------------------------------------------------
\* At the start there are no rows.
LEMMA TimingsInitially == TimingsInit => TimingsInv
<1> SUFFICES ASSUME TimingsInit PROVE TimingsInv
  OBVIOUS
<1>1. samples = << >> /\ details = {} /\ totals = NoTotals /\ rewritten = FALSE /\ time = 1
  BY DEF TimingsInit
<1>2. /\ totals.kept = FALSE /\ totals.from = 0 /\ totals.to = 0 /\ totals.cursor = 0 /\ totals.due = 0
  BY <1>1 DEF NoTotals
<1>3. Len(samples) = 0 /\ DOMAIN samples = {} /\ samples \in Seq([at : 0..LastTime, traced : BOOLEAN])
  BY <1>1
<1>4. time \in 1..LastTime /\ 0 <= MaxSamples BY <1>1, TimingsAssumption
<1>5. totals = [kept |-> totals.kept, from |-> totals.from, to |-> totals.to, cursor |-> totals.cursor,
                due |-> totals.due, minutes |-> totals.minutes]
  BY <1>1 DEF NoTotals
<1>7. TimingsTypeOK
  <2>1. details \subseteq 1..Len(samples) /\ rewritten \in BOOLEAN /\ Len(samples) <= MaxSamples
    BY <1>1, <1>3, <1>4
  <2>2. {totals.from, totals.to, totals.cursor, totals.due} \subseteq Nat
    <3>1. totals.from \in Nat /\ totals.to \in Nat /\ totals.cursor \in Nat /\ totals.due \in Nat
      BY <1>2
    <3> QED BY <3>1
  <2>3. ~totals.kept /\ totals.kept \in BOOLEAN BY <1>2
  <2> QED BY <1>3, <1>4, <1>5, <2>1, <2>2, <2>3 DEF TimingsTypeOK
<1>6. TimingsAreRight BY <1>2, <1>3 DEF TimingsAreRight
<1> QED BY <1>2, <1>6, <1>7 DEF TimingsInv

\* A row that is added leaves those that were counted.
LEMMA CountAfterSave ==
    ASSUME TimingsInv, totals.kept, ~rewritten, UNCHANGED totals, Len(samples) \in Nat,
           Len(samples') = Len(samples) + 1,
           \A i \in 1..Len(samples) : samples'[i] = samples[i]
    PROVE  totals'.minutes = Count({i \in Started(totals.from, totals.to) : i <= totals.cursor})'
<1>1. totals.cursor \in Nat /\ totals.cursor <= Len(samples) BY DEF TimingsInv, TimingsTypeOK
<1>2. PICK rows : rows = {i \in Started(totals.from, totals.to) : i <= totals.cursor} OBVIOUS
<1>3. ({i \in Started(totals.from, totals.to) : i <= totals.cursor})' = rows
  BY <1>1, <1>2 DEF Started
<1>4. \A i \in rows : samples'[i] = samples[i] BY <1>2 DEF Started
<1>5. totals.minutes = Count(rows) BY <1>2 DEF TimingsInv, TimingsAreRight
<1>6. Count(rows)' = Count(rows)
  <2>1. {MinuteOf(samples'[i].at) : i \in rows} = {MinuteOf(samples[i].at) : i \in rows} BY <1>4
  <2>2. \A m : {i \in rows : MinuteOf(samples'[i].at) = m} = {i \in rows : MinuteOf(samples[i].at) = m}
    BY <1>4
  <2> QED BY <2>1, <2>2 DEF Count
<1>7. Count({i \in Started(totals.from, totals.to) : i <= totals.cursor})' = Count(rows)'
  BY <1>3 DEF Count
<1> QED BY <1>5, <1>6, <1>7

\* A request ends.
LEMMA SaveHolds ==
    ASSUME TimingsInv, NEW at \in 0..LastTime, NEW traced \in BOOLEAN, SaveTiming(at, traced)
    PROVE  TimingsInv'
<1> DEFINE new == [at |-> at, traced |-> traced]
<1>1. TimingsTypeOK /\ TimingsAreRight BY DEF TimingsInv
<1>2. /\ samples \in Seq(Timings) /\ DOMAIN samples = 1..Len(samples) /\ Len(samples) \in Nat
      /\ samples \in Seq([at : 0..LastTime, traced : BOOLEAN]) /\ details \subseteq DOMAIN samples
  BY <1>1, TableTyped DEF TimingsTypeOK
<1>3. new \in [at : 0..LastTime, traced : BOOLEAN] /\ new \in Timings
  BY TimingsAssumption DEF Timings
<1>4. /\ Len(samples) < MaxSamples /\ samples' = Append(samples, new)
      /\ details' = Newest(samples', details \cup {Len(samples')})
      /\ UNCHANGED <<time, totals, rewritten>>
  BY DEF SaveTiming
<1> HIDE DEF new
<1>5. /\ Len(samples') = Len(samples) + 1 /\ DOMAIN samples' = 1..Len(samples')
      /\ samples' \in Seq([at : 0..LastTime, traced : BOOLEAN])
      /\ \A i \in 1..Len(samples) : samples'[i] = samples[i]
  BY <1>2, <1>3, <1>4
<1>6. Len(samples') <= MaxSamples BY <1>2, <1>4, <1>5, TimingsAssumption
<1>7. details' \subseteq 1..Len(samples') BY <1>2, <1>4, <1>5 DEF Newest
<1>8. TimingsTypeOK' BY <1>1, <1>4, <1>5, <1>6, <1>7 DEF TimingsTypeOK
<1>9. \A i \in DOMAIN samples' : i \in details' <=> Cardinality(NewerRows(samples', DOMAIN samples', i)) < Keep
  <2>1. \A i \in DOMAIN samples : i \in details <=> Cardinality(NewerRows(samples, DOMAIN samples, i)) < Keep
    BY <1>1 DEF TimingsAreRight
  <2> QED BY <1>2, <1>3, <1>4, <2>1, DetailsAfterSave
<1>10. totals'.kept /\ ~rewritten' =>
           totals'.minutes = Count({i \in Started(totals.from, totals.to) : i <= totals.cursor})'
  BY <1>2, <1>4, <1>5, CountAfterSave
<1>11. TimingsAreRight' BY <1>9, <1>10 DEF TimingsAreRight
<1>12. totals'.kept /\ ~rewritten' => totals'.cursor <= Len(samples')
  BY <1>1, <1>2, <1>4, <1>5 DEF TimingsInv, TimingsTypeOK
<1> QED BY <1>8, <1>11, <1>12 DEF TimingsInv

\* The last row is gone, and the totals are not to be trusted.
LEMMA RewriteHolds ==
    ASSUME TimingsInv, RewriteTable
    PROVE  TimingsInv'
<1>1. TimingsTypeOK BY DEF TimingsInv
<1>2. /\ samples \in Seq(Timings) /\ DOMAIN samples = 1..Len(samples) /\ Len(samples) \in Nat
      /\ samples \in Seq([at : 0..LastTime, traced : BOOLEAN])
  BY <1>1, TableTyped DEF TimingsTypeOK
<1>3. /\ Len(samples) > 0 /\ samples' = SubSeq(samples, 1, Len(samples) - 1)
      /\ details' = Newest(samples', 1..Len(samples'))
      /\ rewritten' = totals.kept /\ UNCHANGED <<time, totals>>
  BY DEF RewriteTable
<1>4. /\ Len(samples') = Len(samples) - 1 /\ DOMAIN samples' = 1..Len(samples')
      /\ samples' \in Seq([at : 0..LastTime, traced : BOOLEAN])
  <2>1. \A i \in 1..(Len(samples) - 1) : samples[i] \in [at : 0..LastTime, traced : BOOLEAN]
    <3> SUFFICES ASSUME NEW i \in 1..(Len(samples) - 1)
                 PROVE  samples[i] \in [at : 0..LastTime, traced : BOOLEAN]
      OBVIOUS
    <3>1. i \in 1..Len(samples) BY <1>2
    <3> QED BY <1>2, <3>1, ElementOfSeq
  <2>2. /\ samples' \in Seq([at : 0..LastTime, traced : BOOLEAN])
        /\ Len(samples') = IF 1 <= Len(samples) - 1 THEN (Len(samples) - 1) - 1 + 1 ELSE 0
    BY <1>2, <1>3, <2>1, SubSeqProperties
  <2> QED BY <1>2, <1>3, <2>2, LenProperties
<1>5. details' \subseteq 1..Len(samples') BY <1>3 DEF Newest
<1>6. rewritten' \in BOOLEAN BY <1>1, <1>3 DEF TimingsTypeOK
<1>7. Len(samples') <= MaxSamples BY <1>1, <1>2, <1>4, TimingsAssumption DEF TimingsTypeOK
<1>8. TimingsTypeOK' BY <1>1, <1>3, <1>4, <1>5, <1>6, <1>7 DEF TimingsTypeOK
<1>9. \A i \in DOMAIN samples' : i \in details' <=> Cardinality(NewerRows(samples', DOMAIN samples', i)) < Keep
  BY <1>3, <1>4 DEF Newest
<1>10. ~(totals'.kept /\ ~rewritten') BY <1>3
<1> QED BY <1>8, <1>9, <1>10 DEF TimingsInv, TimingsAreRight

\* A read of the totals, in full or of what changed.
LEMMA ReadHolds ==
    ASSUME TimingsInv, NEW refresh \in BOOLEAN, ReadTimings(refresh)
    PROVE  TimingsInv'
<1> DEFINE from == IF time > TimingSpan THEN time - TimingSpan ELSE 0
           delta == ~refresh /\ Valid(from, time) /\ Len(samples) >= totals.cursor
<1>1. TimingsTypeOK /\ TimingsAreRight BY DEF TimingsInv
<1>2. /\ totals' = IF delta THEN Increment(from, time) ELSE Full(from, time)
      /\ rewritten' = (delta /\ rewritten) /\ UNCHANGED <<time, samples, details>>
  BY DEF ReadTimings
<1>3. time \in Nat /\ time > 0 /\ Len(samples) \in Nat /\ from \in Nat /\ from < time
  BY <1>1, TimingsAssumption DEF TimingsTypeOK
<1> HIDE DEF from, delta
<1>4. ASSUME NEW i \in DOMAIN samples PROVE MinuteOf(MinuteOf(samples[i].at)) = MinuteOf(samples[i].at)
  <2>1. samples[i].at \in Nat BY <1>1, <1>4, RowTimes
  <2> QED BY <2>1, MinutesGrow
<1>5. ASSUME NEW rows, rows \subseteq DOMAIN samples
      PROVE  \A m \in DOMAIN Count(rows) : m = MinuteOf(m)
  <2>1. DOMAIN Count(rows) = Minutes(rows) BY CountIs
  <2> QED BY <1>4, <1>5, <2>1 DEF Minutes
<1>6. DOMAIN samples = 1..Len(samples) BY <1>1, TableTyped
<1>7. CASE delta
  <2>1. /\ totals.kept /\ Fits(from, time) /\ totals.kept = TRUE
        /\ totals' = Increment(from, time) /\ rewritten' = rewritten
    BY <1>1, <1>2, <1>7 DEF delta, Valid, TimingsTypeOK
  <2>2. /\ totals'.kept = totals.kept /\ totals'.from = from /\ totals'.to = time
        /\ totals'.cursor = Len(samples) /\ totals'.due = totals.due
        /\ DOMAIN totals'.minutes = KeptMinutes(from, time) \cup DOMAIN Count(Changed(from, time))
    <3>1. totals = [kept |-> totals.kept, from |-> totals.from, to |-> totals.to, cursor |-> totals.cursor,
                    due |-> totals.due, minutes |-> totals.minutes]
      BY <1>1 DEF TimingsTypeOK
    <3> QED BY <2>1, <3>1 DEF Increment
  <2>3. \A m \in DOMAIN totals'.minutes : m = MinuteOf(m)
    <3>1. \A m \in KeptMinutes(from, time) : m = MinuteOf(m)
      BY <1>1, <2>1 DEF KeptMinutes, TimingsTypeOK
    <3>2. Changed(from, time) \subseteq DOMAIN samples
      BY <1>6 DEF Changed, Late, Started
    <3> QED BY <1>5, <2>2, <3>1, <3>2
  <2>4. TimingsTypeOK'
    <3>1. totals' = [kept |-> totals'.kept, from |-> totals'.from, to |-> totals'.to, cursor |-> totals'.cursor,
                     due |-> totals'.due, minutes |-> totals'.minutes]
      BY <1>1, <2>1 DEF Increment, TimingsTypeOK
    <3> QED BY <1>1, <1>2, <1>3, <2>1, <2>2, <2>3, <3>1 DEF TimingsTypeOK
  <2>5. ~rewritten => totals'.minutes = Count(Started(from, time))
    BY <1>1, <1>3, <2>1, IncrementRight DEF TimingsAreRight, OldRows
  <2>6. ~rewritten' => totals'.minutes = Count({i \in Started(totals.from, totals.to) : i <= totals.cursor})'
    <3>1. ({i \in Started(totals.from, totals.to) : i <= totals.cursor})' = Started(from, time)
      BY <1>1, <1>2, <2>2, AllRows DEF Started
    <3>2. Count({i \in Started(totals.from, totals.to) : i <= totals.cursor})' = Count(Started(from, time))
      BY <1>2, <3>1 DEF Count, MinuteOf
    <3> QED BY <2>1, <2>5, <3>2
  <2> QED BY <1>1, <1>2, <1>3, <2>2, <2>4, <2>6 DEF TimingsInv, TimingsAreRight, NewerRows, Later
<1>8. CASE ~delta
  <2>1. totals' = Full(from, time) /\ rewritten' = FALSE BY <1>2, <1>8
  <2>2. /\ totals'.kept = TRUE /\ totals'.from = from /\ totals'.to = time
        /\ totals'.cursor = Len(samples) /\ totals'.due = time + TimingReconcile
        /\ totals'.minutes = Count(Started(from, time))
    BY <2>1 DEF Full
  <2>3. \A m \in DOMAIN totals'.minutes : m = MinuteOf(m)
    <3>1. Started(from, time) \subseteq DOMAIN samples BY <1>6 DEF Started
    <3> QED BY <1>5, <2>2, <3>1
  <2>4. totals'.due \in Nat BY <1>3, <2>2, TimingsAssumption
  <2>5. TimingsTypeOK'
    <3>1. totals' = [kept |-> totals'.kept, from |-> totals'.from, to |-> totals'.to, cursor |-> totals'.cursor,
                     due |-> totals'.due, minutes |-> totals'.minutes]
      BY <2>1 DEF Full
    <3> QED BY <1>1, <1>2, <1>3, <2>1, <2>2, <2>3, <2>4, <3>1 DEF TimingsTypeOK
  <2>6. totals'.minutes = Count({i \in Started(totals.from, totals.to) : i <= totals.cursor})'
    <3>1. ({i \in Started(totals.from, totals.to) : i <= totals.cursor})' = Started(from, time)
      BY <1>1, <1>2, <2>2, AllRows DEF Started
    <3>2. Count({i \in Started(totals.from, totals.to) : i <= totals.cursor})' = Count(Started(from, time))
      BY <1>2, <3>1 DEF Count, MinuteOf
    <3> QED BY <2>2, <3>2
  <2> QED BY <1>1, <1>2, <1>3, <2>2, <2>5, <2>6 DEF TimingsInv, TimingsAreRight, NewerRows, Later
<1> QED BY <1>7, <1>8

\* The totals are dropped.
LEMMA DropHolds ==
    ASSUME TimingsInv, DropTotals
    PROVE  TimingsInv'
<1>1. /\ totals' = NoTotals /\ rewritten' = FALSE /\ UNCHANGED <<time, samples, details>>
  BY DEF DropTotals
<1>2. /\ totals'.kept = FALSE /\ totals'.from = 0 /\ totals'.to = 0 /\ totals'.cursor = 0
      /\ totals'.due = 0
  BY <1>1 DEF NoTotals
<1>3. TimingsTypeOK'
  <2>1. totals' = [kept |-> totals'.kept, from |-> totals'.from, to |-> totals'.to, cursor |-> totals'.cursor,
                   due |-> totals'.due, minutes |-> totals'.minutes]
    BY <1>1 DEF NoTotals
  <2>2. /\ time \in 1..LastTime /\ Len(samples) <= MaxSamples
        /\ samples \in Seq([at : 0..LastTime, traced : BOOLEAN]) /\ details \subseteq 1..Len(samples)
    BY DEF TimingsInv, TimingsTypeOK
  <2>3. {totals'.from, totals'.to, totals'.cursor, totals'.due} \subseteq Nat
    <3>1. totals'.from \in Nat /\ totals'.to \in Nat /\ totals'.cursor \in Nat /\ totals'.due \in Nat
      BY <1>2
    <3> QED BY <3>1
  <2>4. ~totals'.kept /\ totals'.kept \in BOOLEAN /\ rewritten' \in BOOLEAN BY <1>1, <1>2
  <2> QED BY <1>1, <2>1, <2>2, <2>3, <2>4 DEF TimingsTypeOK
<1> QED BY <1>1, <1>2, <1>3 DEF TimingsInv, TimingsAreRight, NewerRows, Later

\* Every step keeps it.
LEMMA TimingsStep ==
    ASSUME TimingsInv, [TimingsNext]_timingVars
    PROVE  TimingsInv'
<1>1. ASSUME NEW at \in 0..LastTime, NEW traced \in BOOLEAN, SaveTiming(at, traced) PROVE TimingsInv'
  BY <1>1, SaveHolds
<1>2. ASSUME NEW refresh \in BOOLEAN, ReadTimings(refresh) PROVE TimingsInv'
  BY <1>2, ReadHolds
<1>3. CASE RewriteTable BY <1>3, RewriteHolds
<1>4. CASE DropTotals BY <1>4, DropHolds
<1>5. ASSUME UNCHANGED <<samples, details, totals, rewritten>>, time' \in 1..LastTime PROVE TimingsInv'
  <2>1. TimingsTypeOK' BY <1>5 DEF TimingsInv, TimingsTypeOK
  <2>2. Count({i \in Started(totals.from, totals.to) : i <= totals.cursor})'
        = Count({i \in Started(totals.from, totals.to) : i <= totals.cursor})
    BY <1>5 DEF Count, Started, MinuteOf
  <2>3. TimingsAreRight' BY <1>5, <2>2 DEF TimingsInv, TimingsAreRight, NewerRows, Later
  <2> QED BY <1>5, <2>1, <2>3 DEF TimingsInv
<1>6. CASE Passes
  <2>1. time' \in 1..LastTime /\ UNCHANGED <<samples, details, totals, rewritten>>
    BY <1>6, TimingsAssumption DEF Passes, TimingsInv, TimingsTypeOK
  <2> QED BY <1>5, <2>1
<1>7. CASE UNCHANGED timingVars
  <2>1. time' \in 1..LastTime /\ UNCHANGED <<samples, details, totals, rewritten>>
    BY <1>7 DEF timingVars, TimingsInv, TimingsTypeOK
  <2> QED BY <1>5, <2>1
<1> QED BY <1>1, <1>2, <1>3, <1>4, <1>5, <1>6, <1>7 DEF TimingsNext

\* The invariant of the measurements and their totals.
LEMMA TimingsHold == TimingsSpec => []TimingsInv
<1>1. TimingsInv /\ [TimingsNext]_timingVars => TimingsInv' BY TimingsStep
<1> QED BY <1>1, TimingsInitially, PTL DEF TimingsSpec

\* Both statistics together, which share nothing.
THEOREM StatisticsHonest == StatisticsSpec /\ TimingsSpec => []StatisticsAreRight
<1>1. StatisticsInv /\ TimingsInv => StatisticsAreRight
  BY DEF StatisticsInv, TimingsInv, StatisticsAreRight
<1> QED BY <1>1, StatisticsHold, TimingsHold, PTL

\* Their types.
THEOREM StatisticsTypes == StatisticsSpec /\ TimingsSpec => [](StatisticsTypeOK /\ TimingsTypeOK)
<1>1. StatisticsInv /\ TimingsInv => StatisticsTypeOK /\ TimingsTypeOK
  BY DEF StatisticsInv, TimingsInv
<1> QED BY <1>1, StatisticsHold, TimingsHold, PTL
=============================================================================
