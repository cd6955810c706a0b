------------------------------ MODULE DisplayProofs -----------------------------
(***************************************************************************)
(* Proofs about what the main loop shows, for every value of the           *)
(* constants: the widget pages, the settings screens, the reset and the    *)
(* network of the row, and what that says of the three together.           *)
(***************************************************************************)
EXTENDS MC_Display, WellFoundedInduction, TLAPS

--------------------------------------------------------------------------------
\* The widget pages.

\* The parts of the invariant: the list, the downloads, the reloads, the soft apply, and the rest.
ListPart == pages \in Seq(PageEntry) /\ WellFormed /\ DefaultPageKept

FetchPart ==
  /\ fetching \in [App -> Fetch]
  /\ \A a \in App : fetching[a].at # 0 => fetching[a].at < Len(pages)

StartPart ==
  /\ restarting \in [on : BOOLEAN, at : Nat]
  /\ restarting.at # 0 => restarting.at < Len(pages)

ReloadRecord == [pc : {"idle", "term", "read", "build", "index"}, hard : BOOLEAN,
                 read : PageConf \cup {<<>>}, keep : Nat]

ReloadPart ==
  /\ reload \in [Reloader -> ReloadRecord]
  /\ \A w \in Reloader : reload[w].pc = "build" => reload[w].read \in PageConf

PatchRecord == [pc : {"idle", "write", "check", "page", "set", "start"}, new : PageConf \cup {<<>>},
                applies : BOOLEAN, at : Nat, active : Nat, gone : BOOLEAN]

PatchPart ==
  /\ patch \in PatchRecord
  /\ patch.pc # "idle" => patch.new \in PageConf
  /\ PatchInPlace

PlainPart ==
  /\ conf \in PageConf /\ split \in BOOLEAN /\ requested \in BOOLEAN
  /\ print \in [bridge : SUBSET PageConf, other : SUBSET PageConf]
  /\ shown \in Nat /\ last \in Nat /\ frozen \in BOOLEAN /\ screen \in {"menu", "widget", "game"}
  /\ home \in {"menu", "widget"}
  /\ reloadConf \in BOOLEAN /\ reloadPages \in BOOLEAN

SetsPart ==
  apps \subseteq App /\ ready \subseteq App /\ throttled \subseteq App /\ marked \subseteq App

CountPart == wevents \in 0..MaxWidgetEvent

WidgetInv ==
  /\ ListPart /\ FetchPart /\ StartPart /\ ReloadPart /\ PatchPart /\ PlainPart /\ SetsPart /\ CountPart

\* An entry with another state of its process.
LEMMA EntryProc ==
  ASSUME NEW e \in PageEntry, NEW s \in Proc
  PROVE  LET d == [e EXCEPT !.proc = s] IN
         /\ d \in PageEntry /\ d.proc = s
         /\ d.uuid = e.uuid /\ d.app = e.app /\ d.fields = e.fields /\ d.enabled = e.enabled
BY DEF PageEntry

\* The entries of a list with another state of one process, and with other states of all.
LEMMA ProcWritten ==
  ASSUME NEW list \in Seq(PageEntry), NEW i, NEW s \in Proc
  PROVE  /\ [list EXCEPT ![i].proc = s] \in Seq(PageEntry)
         /\ Len([list EXCEPT ![i].proc = s]) = Len(list)
         /\ \A j \in 1..Len(list) :
              [list EXCEPT ![i].proc = s][j] = IF j = i THEN [list[j] EXCEPT !.proc = s] ELSE list[j]
<1> DEFINE new == [j \in 1..Len(list) |-> IF j = i THEN [list[j] EXCEPT !.proc = s] ELSE list[j]]
<1>1. \A j \in 1..Len(list) : list[j] \in PageEntry /\ [list[j] EXCEPT !.proc = s] \in PageEntry
  BY EntryProc
<1>2. [list EXCEPT ![i].proc = s] = new
  OBVIOUS
<1>3. new \in [1..Len(list) -> PageEntry]
  BY <1>1
<1>4. new \in Seq(PageEntry) /\ Len(new) = Len(list)
  BY <1>3
<1>5. QED
  BY <1>2, <1>4

\* A step that leaves every page where it is, and the default page as it is but for a process
\* that is not taken away.
Fits ==
  /\ pages' \in Seq(PageEntry) /\ Len(pages') = Len(pages)
  /\ \A j \in 1..Len(pages) : pages'[j].uuid = pages[j].uuid
  /\ \A j \in 1..(Len(pages) - 1) : pages'[j].app \in App
  /\ pages # <<>> => /\ pages'[Len(pages)].app = QrWidget
                     /\ pages'[Len(pages)].enabled
                     /\ pages'[Len(pages)].proc # "none"

LEMMA FitsKeepsList == ListPart /\ Fits => ListPart'
BY DEF ListPart, Fits, WellFormed, DefaultPageKept

LEMMA FitsKeepsHeld ==
  ASSUME ListPart, Len(pages') = Len(pages)
  PROVE  /\ FetchPart /\ UNCHANGED fetching => FetchPart'
         /\ StartPart /\ UNCHANGED restarting => StartPart'
BY DEF FetchPart, StartPart

LEMMA FitsKeepsPatch ==
  ASSUME ListPart, Fits, PatchPart, UNCHANGED patch
  PROVE  PatchPart'
<1>1. Uuids(pages') = Uuids(pages)
  BY DEF ListPart, Fits, Uuids
<1>2. QED
  BY <1>1 DEF PatchPart, PatchInPlace, SamePages

LEMMA Untouched == ListPart /\ UNCHANGED pages => Fits
BY DEF ListPart, Fits, WellFormed, DefaultPageKept

\* The state of one process is written; that of the default page is not "none".
LEMMA ProcFits ==
  ASSUME ListPart, NEW i, NEW s \in Proc, pages' = SetProc(i, s), s = "none" => i # Len(pages)
  PROVE  Fits
<1> USE DEF ListPart, WellFormed, DefaultPageKept
<1>1. /\ pages' \in Seq(PageEntry) /\ Len(pages') = Len(pages)
      /\ \A j \in 1..Len(pages) :
           pages'[j] = IF j = i THEN [pages[j] EXCEPT !.proc = s] ELSE pages[j]
  BY ProcWritten DEF SetProc
<1>2. \A j \in 1..Len(pages) :
        /\ pages[j] \in PageEntry
        /\ pages'[j].uuid = pages[j].uuid /\ pages'[j].app = pages[j].app
        /\ pages'[j].enabled = pages[j].enabled
        /\ pages'[j].proc = IF j = i THEN s ELSE pages[j].proc
  <2> TAKE j \in 1..Len(pages)
  <2>1. pages[j] \in PageEntry
    OBVIOUS
  <2>2. CASE j = i
    <3>1. pages'[j] = [pages[j] EXCEPT !.proc = s]
      BY <1>1, <2>2
    <3>2. QED
      BY <2>1, <2>2, <3>1, EntryProc
  <2>3. CASE j # i
    BY <1>1, <2>1, <2>3
  <2>4. QED
    BY <2>2, <2>3
<1>3. QED
  BY <1>1, <1>2 DEF Fits

\* The states of all processes are written; that of the default page is not "none".
LEMMA ProcsFit ==
  ASSUME ListPart, NEW f \in [DOMAIN pages -> Proc],
         pages' = [j \in DOMAIN pages |-> [pages[j] EXCEPT !.proc = f[j]]],
         pages # <<>> => f[Len(pages)] # "none"
  PROVE  Fits
<1> USE DEF ListPart, WellFormed, DefaultPageKept
<1>1. \A j \in 1..Len(pages) :
        /\ pages[j] \in PageEntry /\ pages'[j] \in PageEntry
        /\ pages'[j].uuid = pages[j].uuid /\ pages'[j].app = pages[j].app
        /\ pages'[j].enabled = pages[j].enabled
        /\ pages'[j].proc = f[j]
  BY EntryProc
<1>2. pages' \in [1..Len(pages) -> PageEntry]
  <2> DEFINE new == [j \in DOMAIN pages |-> [pages[j] EXCEPT !.proc = f[j]]]
  <2>1. \A j \in 1..Len(pages) : [pages[j] EXCEPT !.proc = f[j]] \in PageEntry
    BY EntryProc
  <2>2. new \in [1..Len(pages) -> PageEntry]
    BY <2>1
  <2>3. QED
    BY <2>2
<1>3. pages' \in Seq(PageEntry) /\ Len(pages') = Len(pages)
  BY <1>2
<1>4. QED
  BY <1>1, <1>3 DEF Fits

\* The list is cleared.
LEMMA Cleared ==
  ASSUME FetchPart, StartPart, PatchPart, Terminate
  PROVE  ListPart' /\ FetchPart' /\ StartPart' /\ PatchPart'
<1>1. ListPart'
  BY DEF Terminate, ListPart, WellFormed, DefaultPageKept
<1>2. \A a \in App : [fetching[a] EXCEPT !.at = 0] \in Fetch /\ [fetching[a] EXCEPT !.at = 0].at = 0
  BY DEF FetchPart, Fetch
<1>3. FetchPart'
  BY <1>2 DEF Terminate, Lost, FetchPart
<1>4. StartPart'
  BY DEF Terminate, DetachOf, StartPart
<1>5. PatchPart'
  BY DEF Terminate, DetachOf, PatchPart, PatchRecord, PatchInPlace
<1>6. QED
  BY <1>1, <1>3, <1>4, <1>5

\* A nonempty set of positions has a first one.
LEMMA FirstExists ==
  ASSUME NEW S, S \subseteq Nat, S # {}
  PROVE  \E i \in S : \A j \in S : i <= j
<1> DEFINE R == OpToRel(<, Nat)
<1>1. PICK i \in S : \A j \in S : ~(<<j, i>> \in R)
  BY NatLessThanWellFounded, WFMin
<1>2. ASSUME NEW j \in S PROVE i <= j
  <2>1. i \in Nat /\ j \in Nat
    OBVIOUS
  <2>2. ~(j < i)
    BY <1>1, <2>1 DEF OpToRel
  <2>3. QED
    BY <2>1, <2>2
<1>3. QED
  BY <1>2

\* The positions the main loop shows and the downloads look at are those of the list.
LEMMA RotationInList ==
  ASSUME ListPart, pages # <<>>, NEW i \in 1..Len(pages), NEW k \in 1..Len(pages)
  PROVE  RotationStep(i, k) \in 1..Len(pages)
<1>1. Len(pages) \in Nat /\ Len(pages) > 0
  BY DEF ListPart
<1>2. \A n \in Nat, m \in Nat : m > 0 => n % m \in 0..(m - 1)
  OBVIOUS
<1>3. i - 1 + k \in Nat
  BY <1>1
<1>4. (i - 1 + k) % Len(pages) \in 0..(Len(pages) - 1)
  BY <1>1, <1>2, <1>3
<1>5. QED
  BY <1>1, <1>4 DEF RotationStep

LEMMA NextInList ==
  ASSUME ListPart, pages # <<>>, NEW i \in 1..Len(pages)
  PROVE  NextPage(i) \in 1..Len(pages)
<1>1. Len(pages) \in Nat /\ Len(pages) > 0
  BY DEF ListPart
<1> DEFINE S == {k \in 1..Len(pages) : IsContent(RotationStep(i, k))}
           P(k) == IsContent(RotationStep(i, k)) /\ \A l \in 1..(k - 1) : ~IsContent(RotationStep(i, l))
<1>2. CASE S # {}
  <2>0. S \subseteq Nat
    OBVIOUS
  <2>1. PICK k \in S : \A l \in S : k <= l
    <3> HIDE DEF S
    <3>1. QED
      BY <1>2, <2>0, FirstExists
  <2>2. k \in 1..Len(pages) /\ P(k)
    BY <1>1, <2>1
  <2> HIDE DEF P
  <2>3. (CHOOSE j \in 1..Len(pages) : P(j)) \in 1..Len(pages)
    BY <2>2
  <2>4. NextPage(i) = RotationStep(i, CHOOSE j \in 1..Len(pages) : P(j))
    BY <1>2 DEF NextPage, P
  <2>5. QED
    BY <2>3, <2>4, RotationInList
<1>3. CASE S = {}
  BY <1>1, <1>3 DEF NextPage
<1>4. QED
  BY <1>2, <1>3

LEMMA PreferredInList ==
  ASSUME ListPart, pages # <<>>, shown \in Nat
  PROVE  Preferred \in 1..Len(pages)
<1>1. Len(pages) \in Nat /\ Len(pages) > 0 /\ DOMAIN pages = 1..Len(pages)
  BY DEF ListPart
<1>2. InRange \in 1..Len(pages)
  BY <1>1 DEF InRange
<1> DEFINE S == {k \in 1..Len(pages) : IsContent(k)}
           P(k) == IsContent(k) /\ \A l \in 1..(k - 1) : ~IsContent(l)
<1>3. CASE S # {}
  <2>0. S \subseteq Nat
    OBVIOUS
  <2>1. PICK k \in S : \A l \in S : k <= l
    <3> HIDE DEF S
    <3>1. QED
      BY <1>3, <2>0, FirstExists
  <2>2. k \in 1..Len(pages) /\ P(k)
    BY <1>1, <2>1
  <2> HIDE DEF P
  <2>3. (CHOOSE j \in DOMAIN pages : P(j)) \in 1..Len(pages)
    BY <1>1, <2>2
  <2>4. Preferred \in {InRange, CHOOSE j \in DOMAIN pages : P(j)}
    BY DEF Preferred, P
  <2>5. QED
    BY <1>2, <2>3, <2>4
<1>4. CASE S = {}
  BY <1>1, <1>2, <1>4 DEF Preferred
<1>5. QED
  BY <1>3, <1>4

LEMMA ShowsInList ==
  ASSUME ListPart, pages # <<>>, shown \in Nat
  PROVE  \A i \in Shows : i \in 1..Len(pages)
BY PreferredInList, NextInList DEF Shows

LEMMA FirstInList ==
  ASSUME ListPart, NEW a \in App, \E i \in DOMAIN pages : pages[i].app = a
  PROVE  First(a) \in Nat /\ First(a) < Len(pages)
<1>1. Len(pages) \in Nat /\ DOMAIN pages = 1..Len(pages)
  BY DEF ListPart
<1> DEFINE S == {k \in 1..Len(pages) : pages[k].app = a}
           P(k) == pages[k].app = a /\ \A l \in 1..(k - 1) : pages[l].app # a
<1>0. S \subseteq Nat /\ S # {}
  BY <1>1
<1>2. PICK k \in S : \A l \in S : k <= l
  <2> HIDE DEF S
  <2>1. QED
    BY <1>0, FirstExists
<1>3. k \in DOMAIN pages /\ P(k)
  BY <1>1, <1>2
<1>4. First(a) = CHOOSE j \in DOMAIN pages : P(j)
  BY DEF First
<1>5. First(a) \in DOMAIN pages /\ P(First(a))
  <2> HIDE DEF P
  <2>1. QED
    BY <1>3, <1>4
<1>6. pages[First(a)].app = a
  BY <1>5
<1>7. First(a) # Len(pages)
  BY <1>1, <1>5, <1>6, PageAssumption DEF ListPart, WellFormed
<1>8. QED
  BY <1>1, <1>5, <1>7

\* An entry that is not the default page is one of an app, before the end of the list.
LEMMA ContentInList ==
  ASSUME ListPart, pages # <<>>, NEW i \in 1..Len(pages), pages[i].uuid # QrPage
  PROVE  i < Len(pages) /\ pages[i].app \in App
BY DEF ListPart, WellFormed

LEMMA EventCounted == CountPart /\ WidgetEvent => CountPart'
BY PageAssumption DEF CountPart, WidgetEvent

\* What is asked of the downloads.
LEMMA FetchingKeeps ==
  ASSUME FetchPart, Len(pages') = Len(pages), NEW wanted, NEW tells \in BOOLEAN, Fetching(wanted, tells)
  PROVE  FetchPart'
<1>1. [pc |-> "load", tells |-> tells, at |-> 0] \in Fetch
  BY DEF Fetch
<1>2. \A a \in App : fetching'[a] \in Fetch /\ fetching'[a].at \in {fetching[a].at, 0}
  BY <1>1 DEF Fetching, FetchPart
<1>3. fetching' \in [App -> Fetch]
  BY <1>2 DEF Fetching
<1>4. QED
  BY <1>2, <1>3 DEF FetchPart

LEMMA RequestKeeps ==
  ASSUME ListPart, FetchPart, throttled \subseteq App, CountPart, Len(pages') = Len(pages),
         NEW a \in App, RequestMissing(a, FALSE)
  PROVE  FetchPart' /\ throttled' \subseteq App /\ CountPart'
<1>1. CASE Fetching({a}, FALSE) /\ UNCHANGED wevents
  BY <1>1, FetchingKeeps DEF RequestMissing, CountPart
<1>2. CASE UNCHANGED fetching
  <2>1. FetchPart'
    BY <1>2, FitsKeepsHeld
  <2>2. throttled' \subseteq App
    BY DEF RequestMissing
  <2>3. UNCHANGED wevents \/ WidgetEvent
    BY DEF RequestMissing
  <2>4. QED
    BY <2>1, <2>2, <2>3, EventCounted DEF CountPart
<1>3. QED
  BY <1>1, <1>2 DEF RequestMissing

\* What a step leaves alone.
LEMMA RestStays ==
  /\ PlainPart /\ UNCHANGED <<conf, print, split, requested, display, flags>> => PlainPart'
  /\ SetsPart /\ UNCHANGED <<apps, ready, throttled, marked>> => SetsPart'
  /\ ReloadPart /\ UNCHANGED reload => ReloadPart'
  /\ CountPart /\ UNCHANGED wevents => CountPart'
BY DEF PlainPart, SetsPart, ReloadPart, CountPart, display, flags

LEMMA PagesStay ==
  ASSUME ListPart, FetchPart, StartPart, PatchPart, UNCHANGED pages
  PROVE  /\ ListPart' /\ Len(pages') = Len(pages)
         /\ UNCHANGED fetching => FetchPart'
         /\ UNCHANGED restarting => StartPart'
         /\ UNCHANGED patch => PatchPart'
BY Untouched, FitsKeepsList, FitsKeepsHeld, FitsKeepsPatch

\* The record of one download, or of one reload, is written.
LEMMA FetchWritten ==
  ASSUME FetchPart, NEW a \in App, NEW f \in Fetch, f.at # 0 => f.at < Len(pages),
         fetching' = [fetching EXCEPT ![a] = f], Len(pages') = Len(pages)
  PROVE  FetchPart'
BY DEF FetchPart

LEMMA FetchTyped ==
  ASSUME NEW f \in Fetch, NEW n \in Nat
  PROVE  /\ [f EXCEPT !.pc = "tell"] \in Fetch /\ [f EXCEPT !.pc = "tell"].at = f.at
         /\ [f EXCEPT !.pc = "venv"] \in Fetch /\ [f EXCEPT !.pc = "venv"].at = f.at
         /\ [f EXCEPT !.pc = "kill", !.at = n] \in Fetch /\ [f EXCEPT !.pc = "kill", !.at = n].at = n
         /\ NoFetch \in Fetch /\ NoFetch.at = 0
<1> DEFINE g == [f EXCEPT !.pc = "kill"]
<1>1. g \in Fetch
  BY DEF Fetch
<1>2. [g EXCEPT !.at = n] \in Fetch /\ [g EXCEPT !.at = n].at = n
  <2> HIDE DEF g
  <2>1. QED
    BY <1>1 DEF Fetch
<1>3. \A p \in {"tell", "venv"} : [f EXCEPT !.pc = p] \in Fetch /\ [f EXCEPT !.pc = p].at = f.at
  BY DEF Fetch
<1>4. NoFetch \in Fetch /\ NoFetch.at = 0
  BY DEF Fetch, NoFetch
<1>5. QED
  BY <1>2, <1>3, <1>4

LEMMA DownloadKeepsPages ==
  ASSUME WidgetInv, NEW a \in App, FetchStep(a)
  PROVE  WidgetInv'
<1> USE DEF WidgetInv
<1>0. fetching[a] \in Fetch /\ NoFetch \in Fetch /\ NoFetch.at = 0 /\ (fetching[a].at # 0 => fetching[a].at < Len(pages))
  BY FetchTyped DEF FetchPart
<1>1. CASE FetchInstalls(a) \/ FetchEnds(a)
  <2>1. ListPart' /\ StartPart' /\ PatchPart' /\ ReloadPart' /\ PlainPart' /\ Len(pages') = Len(pages)
    BY <1>1, PagesStay, RestStays DEF FetchInstalls, FetchEnds, threads
  <2>2. SetsPart' /\ CountPart'
    <3>1. apps' \subseteq App /\ ready' \subseteq App /\ UNCHANGED <<throttled, marked>>
      BY <1>1 DEF FetchInstalls, FetchEnds, SetsPart
    <3>2. UNCHANGED wevents \/ WidgetEvent
      BY <1>1 DEF FetchInstalls, FetchEnds
    <3>3. QED
      BY <3>1, <3>2, EventCounted DEF SetsPart, CountPart
  <2>3. FetchPart'
    <3>1. CASE fetching' = [fetching EXCEPT ![a] = NoFetch]
      BY <1>0, <2>1, <3>1, FetchWritten
    <3>2. ASSUME NEW p \in {"venv", "tell"}, fetching' = [fetching EXCEPT ![a].pc = p] PROVE FetchPart'
      <4> DEFINE f == [fetching[a] EXCEPT !.pc = p]
      <4>1. f \in Fetch /\ f.at = fetching[a].at
        BY <1>0, FetchTyped
      <4>2. fetching' = [fetching EXCEPT ![a] = f]
        BY <3>2
      <4> HIDE DEF f
      <4>3. QED
        BY <1>0, <2>1, <4>1, <4>2, FetchWritten
    <3>3. QED
      BY <1>1, <3>1, <3>2 DEF FetchInstalls, FetchEnds
  <2>4. QED
    BY <2>1, <2>2, <2>3
<1>2. CASE TellPage(a)
  <2>1. ListPart' /\ StartPart' /\ PatchPart' /\ ReloadPart' /\ PlainPart' /\ Len(pages') = Len(pages) /\ CountPart'
    BY <1>2, PagesStay, RestStays DEF TellPage, threads, files
  <2>2. SetsPart'
    BY <1>2 DEF TellPage, SetsPart, files
  <2>3. FetchPart'
    <3>1. CASE fetching' = [fetching EXCEPT ![a] = NoFetch]
      BY <1>0, <2>1, <3>1, FetchWritten
    <3>2. CASE fetching' # [fetching EXCEPT ![a] = NoFetch]
      <4>1. /\ \E i \in DOMAIN pages : pages[i].app = a
            /\ fetching' = [fetching EXCEPT ![a] = [@ EXCEPT !.pc = "kill", !.at = First(a)]]
        BY <1>2, <3>2 DEF TellPage
      <4>2. First(a) \in Nat /\ First(a) < Len(pages)
        BY <4>1, FirstInList
      <4> DEFINE f == [fetching[a] EXCEPT !.pc = "kill", !.at = First(a)]
      <4>3. f \in Fetch /\ f.at = First(a)
        BY <1>0, <4>2, FetchTyped
      <4>4. fetching' = [fetching EXCEPT ![a] = f]
        BY <4>1 DEF FetchPart
      <4> HIDE DEF f
      <4>5. QED
        BY <2>1, <4>2, <4>3, <4>4, FetchWritten
    <3>3. QED
      BY <3>1, <3>2
  <2>4. QED
    BY <2>1, <2>2, <2>3
<1>3. CASE KillInactive(a)
  <2>1. Fits
    <3>1. CASE fetching[a].at = 0
      BY <1>3, <3>1, Untouched DEF KillInactive
    <3>2. CASE fetching[a].at # 0
      <4>1. pages' = SetProc(fetching[a].at, "none") /\ fetching[a].at # Len(pages)
        BY <1>0, <1>3, <3>2 DEF KillInactive, Killed, Fetch, ListPart
      <4>2. QED
        BY <4>1, ProcFits DEF Proc
    <3>3. QED
      BY <3>1, <3>2
  <2>2. Len(pages') = Len(pages)
    BY <2>1 DEF Fits
  <2>3. ListPart' /\ StartPart' /\ PatchPart'
    BY <1>3, <2>1, <2>2, FitsKeepsList, FitsKeepsHeld, FitsKeepsPatch DEF KillInactive, threads
  <2>4. FetchPart'
    BY <1>0, <1>3, <2>2, FetchWritten DEF KillInactive
  <2>5. ReloadPart' /\ PlainPart' /\ SetsPart' /\ CountPart'
    BY <1>3, RestStays DEF KillInactive, threads, files
  <2>6. QED
    BY <2>3, <2>4, <2>5
<1>4. CASE ThrottleEnds(a)
  <2>1. ListPart' /\ StartPart' /\ PatchPart' /\ FetchPart' /\ ReloadPart' /\ PlainPart' /\ CountPart'
    BY <1>4, PagesStay, RestStays DEF ThrottleEnds, threads, files
  <2>2. SetsPart'
    BY <1>4 DEF ThrottleEnds, SetsPart, files
  <2>3. QED
    BY <2>1, <2>2
<1>5. QED
  BY <1>1, <1>2, <1>3, <1>4 DEF FetchStep

\* The record of the process that is started, or of a reload, is written.
LEMMA StartWritten ==
  ASSUME StartPart, Len(pages') = Len(pages), NEW i \in Nat, i < Len(pages),
         restarting' \in {restarting, [on |-> TRUE, at |-> i]}
  PROVE  StartPart'
<1>1. [on |-> TRUE, at |-> i] \in [on : BOOLEAN, at : Nat] /\ [on |-> TRUE, at |-> i].at = i
  OBVIOUS
<1>2. CASE restarting' = restarting
  BY <1>2 DEF StartPart
<1>3. CASE restarting' = [on |-> TRUE, at |-> i]
  BY <1>1, <1>3 DEF StartPart
<1>4. QED
  BY <1>2, <1>3

LEMMA ReloadWritten ==
  ASSUME ReloadPart, NEW w \in Reloader, NEW r \in ReloadRecord, r.pc = "build" => r.read \in PageConf,
         reload' = [reload EXCEPT ![w] = r]
  PROVE  ReloadPart'
BY DEF ReloadPart

LEMMA ReloadTyped ==
  ASSUME NEW r \in ReloadRecord, NEW h \in BOOLEAN, NEW k \in Nat, NEW c \in PageConf
  PROVE  /\ NoReload \in ReloadRecord /\ NoReload.pc = "idle"
         /\ [r EXCEPT !.pc = "term", !.hard = h] \in ReloadRecord
         /\ [r EXCEPT !.pc = "term", !.hard = h].pc = "term"
         /\ [r EXCEPT !.pc = "term"] \in ReloadRecord /\ [r EXCEPT !.pc = "term"].pc = "term"
         /\ [r EXCEPT !.pc = "index"] \in ReloadRecord /\ [r EXCEPT !.pc = "index"].pc = "index"
         /\ [r EXCEPT !.pc = "read", !.keep = k] \in ReloadRecord
         /\ [r EXCEPT !.pc = "read", !.keep = k].pc = "read"
         /\ [r EXCEPT !.pc = "build", !.read = c] \in ReloadRecord
         /\ [r EXCEPT !.pc = "build", !.read = c].read = c
<1>1. NoReload \in ReloadRecord /\ NoReload.pc = "idle"
  BY DEF NoReload, ReloadRecord, QrPage
<1>2. \A p \in {"term", "index", "read", "build"} :
        [r EXCEPT !.pc = p] \in ReloadRecord /\ [r EXCEPT !.pc = p].pc = p
  BY DEF ReloadRecord
<1>3. ASSUME NEW d \in ReloadRecord
      PROVE  /\ [d EXCEPT !.hard = h] \in ReloadRecord /\ [d EXCEPT !.hard = h].pc = d.pc
             /\ [d EXCEPT !.keep = k] \in ReloadRecord /\ [d EXCEPT !.keep = k].pc = d.pc
             /\ [d EXCEPT !.read = c] \in ReloadRecord /\ [d EXCEPT !.read = c].read = c
  <2>1. [d EXCEPT !.hard = h] \in ReloadRecord
    BY DEF ReloadRecord
  <2>2. [d EXCEPT !.hard = h].pc = d.pc
    BY DEF ReloadRecord
  <2>3. [d EXCEPT !.keep = k] \in ReloadRecord /\ [d EXCEPT !.keep = k].pc = d.pc
    BY DEF ReloadRecord
  <2>4. [d EXCEPT !.read = c] \in ReloadRecord /\ [d EXCEPT !.read = c].read = c
    BY DEF ReloadRecord
  <2>5. QED
    BY <2>1, <2>2, <2>3, <2>4
<1> DEFINE term  == [r EXCEPT !.pc = "term"]
           read  == [r EXCEPT !.pc = "read"]
           build == [r EXCEPT !.pc = "build"]
<1>4. /\ term \in ReloadRecord /\ term.pc = "term" /\ read \in ReloadRecord /\ read.pc = "read"
      /\ build \in ReloadRecord
  BY <1>2
<1>5. /\ [term EXCEPT !.hard = h] \in ReloadRecord /\ [term EXCEPT !.hard = h].pc = "term"
      /\ [read EXCEPT !.keep = k] \in ReloadRecord /\ [read EXCEPT !.keep = k].pc = "read"
      /\ [build EXCEPT !.read = c] \in ReloadRecord /\ [build EXCEPT !.read = c].read = c
  <2> HIDE DEF term, read, build
  <2>1. QED
    BY <1>3, <1>4
<1>6. QED
  BY <1>1, <1>2, <1>5

\* The main loop: a process is restarted where one has ended, or its app is asked for.
LEMMA RestartKeeps ==
  ASSUME ListPart, FetchPart, StartPart, throttled \subseteq App, CountPart, Len(pages') = Len(pages),
         pages # <<>>, NEW i \in 1..Len(pages), pages[i].uuid # QrPage, RestartWidget(i)
  PROVE  FetchPart' /\ StartPart' /\ throttled' \subseteq App /\ CountPart'
<1>1. i < Len(pages) /\ pages[i].app \in App /\ i \in Nat
  BY ContentInList
<1>2. RequestMissing(pages[i].app, FALSE) /\ restarting' \in {restarting, [on |-> TRUE, at |-> i]}
  BY DEF RestartWidget
<1>3. QED
  BY <1>1, <1>2, RequestKeeps, StartWritten

LEMMA KeepPageKeeps ==
  ASSUME WidgetInv, KeepPage
  PROVE  WidgetInv'
<1> USE DEF WidgetInv
<1>1. pages # <<>> /\ last \in 1..Len(pages)
  BY ShowsInList DEF KeepPage, PlainPart
<1>2. Fits
  <2>1. CASE UNCHANGED pages
    BY <2>1, Untouched
  <2>2. CASE pages' = SetProc(NextPage(last), "running")
    BY <2>2, ProcFits DEF Proc
  <2>3. QED
    BY <2>1, <2>2 DEF KeepPage
<1>3. Len(pages') = Len(pages)
  BY <1>2 DEF Fits
<1>4. ListPart' /\ PatchPart'
  BY <1>2, FitsKeepsList, FitsKeepsPatch DEF KeepPage
<1>5. ReloadPart'
  BY RestStays DEF KeepPage
<1>6. PlainPart'
  BY DEF KeepPage, PlainPart, files, flags
<1>7. FetchPart' /\ StartPart' /\ throttled' \subseteq App /\ CountPart'
  <2>1. CASE Ended(last) /\ RestartWidget(last)
    BY <1>1, <1>3, <2>1, RestartKeeps DEF Ended, SetsPart
  <2>2. CASE UNCHANGED <<restarting, throttled, fetching, wevents>>
    BY <1>3, <2>2, FitsKeepsHeld DEF SetsPart, CountPart
  <2>3. QED
    BY <2>1, <2>2 DEF KeepPage
<1>8. SetsPart'
  BY <1>7 DEF KeepPage, SetsPart, files
<1>9. QED
  BY <1>4, <1>5, <1>6, <1>7, <1>8

LEMMA ChangePageKeeps ==
  ASSUME WidgetInv, ChangePage
  PROVE  WidgetInv'
<1> USE DEF WidgetInv
<1>0. pages # <<>> /\ DOMAIN pages = 1..Len(pages) /\ Len(pages) \in Nat /\ Len(pages) > 0
  BY DEF ChangePage, ListPart
<1>1. PICK i \in 1..Len(pages) :
        /\ shown' = i /\ last' = i
        /\ pages' = [j \in DOMAIN pages |->
             [pages[j] EXCEPT !.proc = IF j = i THEN Resumed(j) ELSE Suspended(j, i)]]
        /\ marked' = marked \ {pages[j].app : j \in DOMAIN pages \ {i}}
        /\ \/ UpdateFound(i)
           \/ IF Ended(i) THEN RestartWidget(i) ELSE UNCHANGED <<restarting, throttled, fetching, wevents>>
  BY <1>0, ShowsInList DEF ChangePage, PlainPart
<1>2. Fits
  <2> DEFINE f == [j \in DOMAIN pages |-> IF j = i THEN Resumed(j) ELSE Suspended(j, i)]
  <2>1. \A j \in DOMAIN pages : pages[j] \in PageEntry /\ pages[j].proc \in Proc
    <3>1. \A j \in DOMAIN pages : pages[j] \in PageEntry
      BY DEF ListPart
    <3>2. \A e \in PageEntry : e.proc \in Proc
      BY DEF PageEntry
    <3>3. QED
      BY <3>1, <3>2
  <2>2. \A j \in DOMAIN pages : Resumed(j) \in Proc /\ Suspended(j, i) \in Proc
    BY <2>1 DEF Resumed, Suspended, Proc
  <2>3. f \in [DOMAIN pages -> Proc]
    BY <2>2
  <2>4. f[Len(pages)] # "none"
    <3>1. pages[Len(pages)].proc # "none" /\ pages[Len(pages)].app \notin marked
      BY <1>0, PageAssumption DEF ListPart, WellFormed, DefaultPageKept, SetsPart
    <3>2. f[Len(pages)] \in {Resumed(Len(pages)), Suspended(Len(pages), i)}
      BY <1>0
    <3>3. QED
      BY <3>1, <3>2 DEF Resumed, Suspended
  <2>5. pages' = [j \in DOMAIN pages |-> [pages[j] EXCEPT !.proc = f[j]]]
    BY <1>1
  <2> HIDE DEF f
  <2>6. QED
    BY <2>3, <2>4, <2>5, ProcsFit
<1>3. Len(pages') = Len(pages)
  BY <1>2 DEF Fits
<1>4. ListPart' /\ PatchPart'
  BY <1>2, FitsKeepsList, FitsKeepsPatch DEF ChangePage
<1>5. ReloadPart'
  BY RestStays DEF ChangePage
<1>6. PlainPart'
  BY <1>1 DEF ChangePage, PlainPart, files, flags
<1>7. FetchPart' /\ StartPart' /\ throttled' \subseteq App /\ CountPart'
  <2>1. CASE UpdateFound(i)
    <3>1. i < Len(pages) /\ i \in Nat
      BY <1>0, <2>1, ContentInList DEF UpdateFound
    <3>2. FetchPart'
      BY <1>3, <2>1, FetchingKeeps DEF UpdateFound
    <3>3. restarting' \in {restarting, [on |-> TRUE, at |-> i]}
      BY <2>1 DEF UpdateFound
    <3>4. StartPart'
      BY <1>3, <3>1, <3>3, StartWritten
    <3>5. QED
      BY <2>1, <3>2, <3>4, EventCounted DEF UpdateFound, SetsPart
  <2>2. CASE Ended(i) /\ RestartWidget(i)
    BY <1>0, <1>3, <2>2, RestartKeeps DEF Ended, SetsPart
  <2>3. CASE UNCHANGED <<restarting, throttled, fetching, wevents>>
    BY <1>3, <2>3, FitsKeepsHeld DEF SetsPart, CountPart
  <2>4. QED
    BY <1>1, <2>1, <2>2, <2>3
<1>8. SetsPart'
  BY <1>1, <1>7 DEF ChangePage, SetsPart, files
<1>9. QED
  BY <1>4, <1>5, <1>6, <1>7, <1>8

\* A process that has been started replaces that of an entry, or of none.
LEMMA StartedFits ==
  ASSUME ListPart, NEW i, Started(i)
  PROVE  Fits
BY Untouched, ProcFits DEF Started, Proc

LEMMA StartedCounts == \A i : CountPart /\ Started(i) => CountPart'
BY EventCounted DEF Started, CountPart

LEMMA LoopKeeps ==
  ASSUME WidgetInv, WidgetLoop
  PROVE  WidgetInv'
<1> USE DEF WidgetInv
<1>1. CASE StartReload
  <2>1. ListPart' /\ FetchPart' /\ StartPart' /\ PatchPart' /\ SetsPart' /\ CountPart'
    BY <1>1, PagesStay, RestStays DEF StartReload, files, downloads
  <2>2. PlainPart'
    BY <1>1 DEF StartReload, PlainPart, files, display
  <2>3. ReloadPart'
    <3> DEFINE r == [NoReload EXCEPT !.pc = "term", !.hard = reloadConf]
    <3>1. r \in ReloadRecord /\ r.pc = "term"
      <4>1. NoReload \in ReloadRecord /\ conf \in PageConf /\ reloadConf \in BOOLEAN /\ 0 \in Nat
        BY DEF NoReload, ReloadRecord, QrPage, PlainPart
      <4>2. QED
        BY <4>1, ReloadTyped
    <3>2. reload' = [reload EXCEPT ![MainLoop] = r]
      BY <1>1 DEF StartReload
    <3> HIDE DEF r
    <3>3. QED
      BY <3>1, <3>2, ReloadWritten DEF Reloader
  <2>4. QED
    BY <2>1, <2>2, <2>3
<1>2. CASE NoPages
  <2>1. ListPart' /\ FetchPart' /\ StartPart' /\ PatchPart' /\ ReloadPart' /\ SetsPart' /\ CountPart'
    BY <1>2, PagesStay, RestStays DEF NoPages, files, downloads, threads
  <2>2. PlainPart'
    <3>1. reloadConf' \in BOOLEAN
      BY <1>2 DEF NoPages
    <3>2. UNCHANGED <<conf, print, split, requested, display, reloadPages>>
      BY <1>2 DEF NoPages, files, threads
    <3>3. QED
      BY <3>1, <3>2 DEF PlainPart, display
  <2>3. QED
    BY <2>1, <2>2
<1>3. CASE Restarted
  <2>1. Fits
    BY <1>3, StartedFits DEF Restarted
  <2>2. Len(pages') = Len(pages)
    BY <2>1 DEF Fits
  <2>3. ListPart' /\ PatchPart' /\ FetchPart'
    BY <1>3, <2>1, <2>2, FitsKeepsList, FitsKeepsHeld, FitsKeepsPatch DEF Restarted, downloads
  <2>4. StartPart'
    BY <1>3 DEF Restarted, StartPart, AtRest
  <2>5. ReloadPart' /\ PlainPart' /\ SetsPart' /\ CountPart'
    BY <1>3, RestStays, StartedCounts DEF Restarted, files, downloads
  <2>6. QED
    BY <2>3, <2>4, <2>5
<1>4. QED
  BY <1>1, <1>2, <1>3, KeepPageKeeps, ChangePageKeeps DEF WidgetLoop

\* Buttons, games and deaths of processes.
LEMMA PressKeeps ==
  ASSUME WidgetInv, Press
  PROVE  WidgetInv'
<1> USE DEF WidgetInv
<1>1. Fits
  <2>1. CASE UNCHANGED pages
    BY <2>1, Untouched
  <2>2. CASE LeaveWidgets
    <3> DEFINE f == [j \in DOMAIN pages |-> IF pages[j].app \in marked THEN "none" ELSE pages[j].proc]
    <3>1. \A j \in DOMAIN pages : pages[j] \in PageEntry
      BY DEF ListPart
    <3>2. \A e \in PageEntry : e.proc \in Proc /\ [e EXCEPT !.proc = e.proc] = e
      BY DEF PageEntry
    <3>3. f \in [DOMAIN pages -> Proc]
      BY <3>1, <3>2 DEF Proc
    <3>4. pages' = [j \in DOMAIN pages |-> [pages[j] EXCEPT !.proc = f[j]]]
      BY <2>2, <3>1, <3>2 DEF LeaveWidgets
    <3>5. pages # <<>> => f[Len(pages)] # "none"
      <4>1. SUFFICES ASSUME pages # <<>> PROVE f[Len(pages)] # "none"
        OBVIOUS
      <4>2. Len(pages) \in DOMAIN pages /\ pages[Len(pages)].proc # "none" /\ pages[Len(pages)].app \notin marked
        BY <4>1, PageAssumption DEF ListPart, WellFormed, DefaultPageKept, SetsPart
      <4>3. QED
        BY <4>2
    <3> HIDE DEF f
    <3>6. QED
      BY <3>3, <3>4, <3>5, ProcsFit
  <2>3. QED
    BY <2>1, <2>2 DEF Press, Turn, Freeze, EnterWidgets
<1>2. Len(pages') = Len(pages)
  BY <1>1 DEF Fits
<1>3. ListPart' /\ FetchPart' /\ StartPart' /\ PatchPart' /\ ReloadPart'
  BY <1>1, <1>2, FitsKeepsList, FitsKeepsHeld, FitsKeepsPatch, RestStays DEF Press, threads
<1>4. CountPart'
  BY EventCounted DEF Press
<1>5. SetsPart'
  BY DEF Press, Turn, Freeze, LeaveWidgets, EnterWidgets, SetsPart, files
<1>6. PlainPart'
  <2>1. UNCHANGED <<conf, print, split, requested, last, home, flags>>
    BY DEF Press, files, threads
  <2>2. frozen' \in BOOLEAN
    BY DEF Press, Turn, Freeze, LeaveWidgets, EnterWidgets, PlainPart
  <2>3. shown' \in Nat /\ screen' \in {"menu", "widget", "game"}
    BY DEF Press, Turn, Freeze, LeaveWidgets, EnterWidgets, PlainPart, ListPart
  <2>4. QED
    BY <2>1, <2>2, <2>3 DEF PlainPart, flags
<1>7. QED
  BY <1>3, <1>4, <1>5, <1>6

LEMMA GameKeeps ==
  ASSUME WidgetInv, EnterGame \/ GameExits
  PROVE  WidgetInv'
<1> USE DEF WidgetInv
<1>1. CASE EnterGame
  <2>1. ListPart' /\ FetchPart' /\ StartPart' /\ PatchPart'
    BY <1>1, Cleared DEF EnterGame
  <2>2. ReloadPart' /\ SetsPart' /\ CountPart'
    BY <1>1, RestStays, EventCounted DEF EnterGame, files
  <2>3. PlainPart'
    BY <1>1 DEF EnterGame, PlainPart, files, flags
  <2>4. QED
    BY <2>1, <2>2, <2>3
<1>2. CASE GameExits
  <2>1. ListPart' /\ FetchPart' /\ StartPart' /\ PatchPart' /\ ReloadPart' /\ SetsPart' /\ CountPart'
    BY <1>2, PagesStay, RestStays DEF GameExits, files, downloads, threads
  <2>2. UNCHANGED <<conf, print, split, requested, shown, last, frozen, home, reloadPages>>
    BY <1>2 DEF GameExits, files, threads
  <2>3. screen' \in {"menu", "widget", "game"}
    BY <1>2 DEF GameExits, PlainPart
  <2>4. reloadConf' \in BOOLEAN
    BY <1>2 DEF GameExits, PlainPart
  <2>5. QED
    BY <2>1, <2>2, <2>3, <2>4 DEF PlainPart
<1>3. QED
  BY <1>1, <1>2

LEMMA DeathKeeps ==
  ASSUME WidgetInv, NEW i \in DOMAIN pages, ProcessDies(i)
  PROVE  WidgetInv'
<1> USE DEF WidgetInv
<1>1. Fits
  BY ProcFits DEF ProcessDies, Proc
<1>2. Len(pages') = Len(pages)
  BY <1>1 DEF Fits
<1>3. ListPart' /\ FetchPart' /\ StartPart' /\ PatchPart'
  BY <1>1, <1>2, FitsKeepsList, FitsKeepsHeld, FitsKeepsPatch DEF ProcessDies, threads, downloads
<1>4. ReloadPart' /\ SetsPart' /\ PlainPart' /\ CountPart'
  BY RestStays, EventCounted DEF ProcessDies, threads, files, downloads
<1>5. QED
  BY <1>3, <1>4

\* The record of the soft apply: one field is written, and then several.
LEMMA PatchPc ==
  ASSUME NEW d \in PatchRecord, NEW p \in {"write", "check", "page", "set", "start"}
  PROVE  /\ [d EXCEPT !.pc = p] \in PatchRecord
         /\ [d EXCEPT !.pc = p].pc = p /\ [d EXCEPT !.pc = p].new = d.new
         /\ [d EXCEPT !.pc = p].at = d.at /\ ([d EXCEPT !.pc = p].gone <=> d.gone)
BY DEF PatchRecord

LEMMA PatchNew ==
  ASSUME NEW d \in PatchRecord, NEW c \in PageConf
  PROVE  [d EXCEPT !.new = c] \in PatchRecord /\ [d EXCEPT !.new = c].pc = d.pc /\ [d EXCEPT !.new = c].new = c
BY DEF PatchRecord

LEMMA PatchAt ==
  ASSUME NEW d \in PatchRecord, NEW n \in Nat
  PROVE  /\ [d EXCEPT !.at = n] \in PatchRecord
         /\ [d EXCEPT !.at = n].pc = d.pc /\ [d EXCEPT !.at = n].new = d.new
         /\ [d EXCEPT !.at = n].at = n /\ ([d EXCEPT !.at = n].gone <=> d.gone)
BY DEF PatchRecord

LEMMA PatchActive ==
  ASSUME NEW d \in PatchRecord, NEW n \in Nat
  PROVE  /\ [d EXCEPT !.active = n] \in PatchRecord
         /\ [d EXCEPT !.active = n].pc = d.pc /\ [d EXCEPT !.active = n].new = d.new
         /\ [d EXCEPT !.active = n].at = d.at
BY DEF PatchRecord

LEMMA PatchThere ==
  ASSUME NEW d \in PatchRecord
  PROVE  /\ [d EXCEPT !.gone = FALSE] \in PatchRecord
         /\ [d EXCEPT !.gone = FALSE].pc = d.pc /\ [d EXCEPT !.gone = FALSE].new = d.new
         /\ [d EXCEPT !.gone = FALSE].at = d.at
BY DEF PatchRecord

\* A snapshot, what it writes, and a request that writes conf.json.
LEMMA PatchTaken ==
  ASSUME ListPart, NEW c \in PageConf, NEW writes \in BOOLEAN, NEW applies \in BOOLEAN,
         Taken(c, writes, applies)
  PROVE  /\ PatchPart'
         /\ patch'.pc \in {"idle", "write", "check"}
         /\ patch'.pc # "idle" => patch'.new = c /\ (patch'.applies <=> applies)
         /\ patch'.pc = "write" <=> writes
         /\ patch'.pc = "check" <=> applies /\ ~writes
<1>1. CASE writes \/ applies
  <2> DEFINE pc == IF writes THEN "write" ELSE "check"
             p  == [pc |-> pc, new |-> c, applies |-> applies, at |-> 0, active |-> 0, gone |-> FALSE]
  <2>1. p \in PatchRecord
    BY DEF PatchRecord
  <2>2. patch' = p
    BY <1>1 DEF Taken, NoPatch
  <2>3. QED
    BY <1>1, <2>1, <2>2 DEF PatchPart, PatchInPlace
<1>2. CASE ~(writes \/ applies)
  BY <1>2 DEF Taken, NoPatch, PatchPart, PatchRecord, PatchInPlace
<1>3. QED
  BY <1>1, <1>2

LEMMA SnapshotKeeps ==
  ASSUME WidgetInv, NEW c \in PageConf, BridgeSnapshot(c) \/ OtherSnapshot(c)
  PROVE  WidgetInv'
<1> USE DEF WidgetInv
<1>1. PICK writes \in BOOLEAN, applies \in BOOLEAN : Taken(c, writes, applies)
  BY DEF BridgeSnapshot, OtherSnapshot, Applies
<1>2. /\ WidgetEvent
      /\ UNCHANGED <<files, pages, display, flags, downloads, reload, restarting, requested>>
  BY DEF BridgeSnapshot, OtherSnapshot
<1>3. ListPart' /\ FetchPart' /\ StartPart' /\ ReloadPart'
  BY <1>2, PagesStay, RestStays DEF downloads
<1>4. PatchPart'
  BY <1>1, PatchTaken
<1>5. PlainPart'
  <2>1. print' \in [bridge : SUBSET PageConf, other : SUBSET PageConf]
    BY DEF BridgeSnapshot, OtherSnapshot, PlainPart
  <2>2. split' \in BOOLEAN
    BY <1>1 DEF Taken, PlainPart
  <2>3. UNCHANGED <<conf, requested, display, flags>>
    BY <1>2 DEF files
  <2>4. QED
    BY <2>1, <2>2, <2>3 DEF PlainPart, display, flags
<1>6. SetsPart' /\ CountPart'
  BY <1>2, EventCounted DEF SetsPart, downloads, files
<1>7. QED
  BY <1>3, <1>4, <1>5, <1>6

LEMMA RequestPagesKeeps ==
  ASSUME WidgetInv, NEW w \in PageRequester, RequestPages(w)
  PROVE  WidgetInv'
<1> USE DEF WidgetInv
<1>1. ListPart' /\ FetchPart' /\ StartPart' /\ PatchPart'
  BY PagesStay DEF RequestPages, downloads
<1>2. ReloadPart'
  <2> DEFINE r == [NoReload EXCEPT !.pc = "term"]
  <2>1. r \in ReloadRecord /\ r.pc = "term"
    <3>1. NoReload \in ReloadRecord /\ conf \in PageConf /\ reloadConf \in BOOLEAN /\ 0 \in Nat
      BY DEF NoReload, ReloadRecord, QrPage, PlainPart
    <3>2. QED
      BY <3>1, ReloadTyped
  <2>2. reload' = [reload EXCEPT ![w] = r]
    BY DEF RequestPages
  <2> HIDE DEF r
  <2>3. QED
    BY <2>1, <2>2, ReloadWritten DEF Reloader
<1>3. PlainPart'
  BY DEF RequestPages, PlainPart, display, flags
<1>4. SetsPart' /\ CountPart'
  BY EventCounted DEF RequestPages, SetsPart, downloads
<1>5. QED
  BY <1>1, <1>2, <1>3, <1>4

\* The pages of conf.json.
PageRecord == [uuid : Nat \ {QrPage}, app : App, fields : Nat, enabled : BOOLEAN]

LEMMA ConfPages ==
  ASSUME NEW c \in PageConf
  PROVE  /\ c \in Seq(PageRecord)
         /\ \A i \in DOMAIN c :
              /\ c[i] \in PageRecord /\ c[i].uuid # QrPage /\ c[i].uuid \in Nat /\ c[i].app \in App
              /\ c[i].fields \in Nat /\ c[i].enabled \in BOOLEAN
<1>1. c \in Seq(PageRecord)
  BY PageAssumption DEF PageRecord
<1>2. \A i \in DOMAIN c : c[i] \in PageRecord
  BY <1>1
<1>3. \A r \in PageRecord : /\ r.uuid # QrPage /\ r.uuid \in Nat /\ r.app \in App
                            /\ r.fields \in Nat /\ r.enabled \in BOOLEAN
  BY DEF PageRecord
<1>4. QED
  BY <1>1, <1>2, <1>3

\* Reloads: the list that is built from conf.json, and the index of the page that stays shown.
LEMMA BuiltList ==
  ASSUME NEW c \in PageConf, NEW f
  PROVE  /\ Build(c, f) \in Seq(PageEntry) /\ Len(Build(c, f)) = Len(c) + 1 /\ Len(c) \in Nat
         /\ Build(c, f)[Len(c) + 1].uuid = QrPage /\ Build(c, f)[Len(c) + 1].app = QrWidget
         /\ Build(c, f)[Len(c) + 1].enabled /\ Build(c, f)[Len(c) + 1].proc # "none"
         /\ \A i \in 1..Len(c) : Build(c, f)[i].uuid # QrPage /\ Build(c, f)[i].app \in App
<1>1. c \in Seq(PageRecord) /\ \A i \in 1..Len(c) : c[i] \in PageRecord
  BY ConfPages
<1> DEFINE list == [i \in DOMAIN c |-> Entry(c[i], IF c[i].app \in ready /\ i # f THEN "stopped" ELSE "none")]
           tail == Entry(DefaultPage, IF f = Len(c) + 1 THEN "unstarted" ELSE "stopped")
<1>2. \A i \in 1..Len(c) : /\ list[i] \in PageEntry
                           /\ list[i].uuid # QrPage /\ list[i].app \in App
  <2>1. ASSUME NEW p \in PageRecord, NEW s \in {"none", "stopped"}
        PROVE  /\ Entry(p, s) \in PageEntry
               /\ Entry(p, s).uuid # QrPage /\ Entry(p, s).app \in App
    BY DEF Entry, PageRecord, PageEntry, Proc
  <2>2. \A i \in 1..Len(c) : list[i] = Entry(c[i], IF c[i].app \in ready /\ i # f THEN "stopped" ELSE "none")
    BY <1>1
  <2> HIDE DEF list
  <2>3. QED
    BY <1>1, <2>1, <2>2
<1>3. list \in Seq(PageEntry) /\ Len(list) = Len(c)
  <2>1. list \in [1..Len(c) -> PageEntry]
    <3>1. DOMAIN c = 1..Len(c)
      BY <1>1
    <3>2. list = [i \in 1..Len(c) |-> list[i]]
      BY <3>1
    <3> HIDE DEF list
    <3>3. QED
      BY <1>2, <3>2
  <2>2. QED
    BY <1>1, <2>1
<1>4. /\ tail \in PageEntry /\ tail.uuid = QrPage /\ tail.app = QrWidget
      /\ tail.enabled /\ tail.proc # "none"
  BY DEF Entry, DefaultPage, PageEntry, Proc, QrPage
<1>5. Build(c, f) = Append(list, tail)
  BY DEF Build
<1> HIDE DEF list, tail
<1>6. /\ Append(list, tail) \in Seq(PageEntry) /\ Len(Append(list, tail)) = Len(c) + 1
      /\ Append(list, tail)[Len(c) + 1] = tail
      /\ \A i \in 1..Len(c) : Append(list, tail)[i] = list[i]
  BY <1>1, <1>3, <1>4
<1>7. QED
  BY <1>1, <1>2, <1>4, <1>5, <1>6

LEMMA BuiltIsWellFormed ==
  ASSUME NEW c \in PageConf, NEW f, pages' = Build(c, f)
  PROVE  ListPart'
BY BuiltList DEF ListPart, WellFormed, DefaultPageKept

LEMMA KeptIsIndex ==
  ASSUME ListPart, NEW id
  PROVE  KeptIndex(id) \in Nat
<1> DEFINE S == {i \in DOMAIN pages : pages[i].uuid = id}
           P(i) == pages[i].uuid = id /\ \A j \in 1..(i - 1) : pages[j].uuid # id
<1>0. S \subseteq Nat /\ DOMAIN pages = 1..Len(pages) /\ Len(pages) \in Nat
  BY DEF ListPart
<1>1. CASE S # {}
  <2>1. PICK i \in S : \A j \in S : i <= j
    <3> HIDE DEF S
    <3>1. QED
      BY <1>0, <1>1, FirstExists
  <2>2. i \in DOMAIN pages /\ P(i)
    BY <1>0, <2>1
  <2>3. KeptIndex(id) = CHOOSE j \in DOMAIN pages : P(j)
    BY <1>1 DEF KeptIndex
  <2> HIDE DEF P
  <2>4. QED
    BY <1>0, <2>2, <2>3
<1>2. CASE S = {}
  BY <1>2 DEF KeptIndex
<1>3. QED
  BY <1>1, <1>2

LEMMA ReloadKeeps ==
  ASSUME WidgetInv, NEW w \in Reloader, ReloadStep(w)
  PROVE  WidgetInv'
<1> USE DEF WidgetInv
<1>0. reload[w] \in ReloadRecord /\ conf \in PageConf /\ reloadConf \in BOOLEAN /\ 0 \in Nat
  BY DEF ReloadPart, PlainPart
<1>1. CASE ReloadTerminates(w)
  <2>1. ListPart' /\ FetchPart' /\ StartPart' /\ PatchPart'
    BY <1>1, Cleared DEF ReloadTerminates
  <2>2. SetsPart' /\ CountPart' /\ PlainPart'
    BY <1>1, RestStays DEF ReloadTerminates, files
  <2>3. ReloadPart'
    <3>1. PICK k \in Nat : reload' = [reload EXCEPT ![w].pc = "read", ![w].keep = k]
      <4>1. \A i \in DOMAIN pages : pages[i].uuid \in Nat
        <5>1. \A i \in DOMAIN pages : pages[i] \in PageEntry
          BY DEF ListPart
        <5>2. \A e \in PageEntry : e.uuid \in Nat
          BY DEF PageEntry
        <5>3. QED
          BY <5>1, <5>2
      <4>2. QED
        BY <1>1, <4>1 DEF ReloadTerminates, QrPage
    <3> DEFINE r == [reload[w] EXCEPT !.pc = "read", !.keep = k]
    <3>2. r \in ReloadRecord /\ r.pc = "read"
      BY <1>0, ReloadTyped
    <3>3. reload' = [reload EXCEPT ![w] = r]
      BY <3>1 DEF ReloadPart
    <3> HIDE DEF r
    <3>4. QED
      BY <3>2, <3>3, ReloadWritten
  <2>4. QED
    BY <2>1, <2>2, <2>3
<1>2. CASE ReloadReads(w)
  <2>1. ListPart' /\ FetchPart' /\ StartPart' /\ PatchPart' /\ SetsPart' /\ CountPart' /\ PlainPart'
    BY <1>2, PagesStay, RestStays DEF ReloadReads, files, downloads
  <2>2. ReloadPart'
    <3> DEFINE r == [reload[w] EXCEPT !.pc = "build", !.read = conf]
    <3>1. r \in ReloadRecord /\ r.read \in PageConf
      BY <1>0, ReloadTyped
    <3>2. reload' = [reload EXCEPT ![w] = r]
      BY <1>2 DEF ReloadReads, ReloadPart
    <3> HIDE DEF r
    <3>3. QED
      BY <3>1, <3>2, ReloadWritten
  <2>3. QED
    BY <2>1, <2>2
<1>3. CASE ReloadBuilds(w)
  <2>1. reload[w].read \in PageConf
    BY <1>3 DEF ReloadBuilds, ReloadPart
  <2>2. ListPart'
    BY <1>3, <2>1, BuiltIsWellFormed DEF ReloadBuilds
  <2>3. FetchPart'
    <3>1. \A a \in App : [fetching[a] EXCEPT !.at = 0] \in Fetch /\ [fetching[a] EXCEPT !.at = 0].at = 0
      BY DEF FetchPart, Fetch
    <3> DEFINE load == [pc |-> "load", tells |-> FALSE, at |-> 0]
    <3>2. load \in Fetch /\ load.at = 0
      BY DEF Fetch
    <3>3. \A a \in App : fetching'[a] = load \/ fetching'[a] = [fetching[a] EXCEPT !.at = 0]
      BY <1>3 DEF ReloadBuilds, Lost
    <3>4. \A a \in App : fetching'[a] \in Fetch /\ fetching'[a].at = 0
      <4> HIDE DEF load
      <4>1. QED
        BY <3>1, <3>2, <3>3
    <3>5. fetching' \in [App -> Fetch]
      BY <1>3, <3>4 DEF ReloadBuilds
    <3>6. QED
      BY <3>4, <3>5 DEF FetchPart
  <2>4. StartPart' /\ PatchPart'
    BY <1>3 DEF ReloadBuilds, DetachOf, StartPart, PatchPart, PatchRecord, PatchInPlace
  <2>5. SetsPart'
    <3>1. \A i \in DOMAIN reload[w].read : reload[w].read[i].app \in App
      BY <2>1, ConfPages
    <3>2. QED
      BY <1>3, <3>1 DEF ReloadBuilds, Missing, SetsPart, files
  <2>6. PlainPart' /\ CountPart'
    BY <1>3, RestStays, EventCounted DEF ReloadBuilds, files
  <2>7. ReloadPart'
    <3> DEFINE r == [reload[w] EXCEPT !.pc = "index"]
    <3>1. r \in ReloadRecord /\ r.pc = "index"
      BY <1>0, ReloadTyped
    <3>2. reload' = [reload EXCEPT ![w] = r]
      BY <1>3 DEF ReloadBuilds, ReloadPart
    <3> HIDE DEF r
    <3>3. QED
      BY <3>1, <3>2, ReloadWritten
  <2>8. QED
    BY <2>2, <2>3, <2>4, <2>5, <2>6, <2>7
<1>4. CASE ReloadEnds(w)
  <2>1. ListPart' /\ FetchPart' /\ StartPart' /\ PatchPart' /\ SetsPart' /\ CountPart'
    BY <1>4, PagesStay, RestStays DEF ReloadEnds, EndReload, files, downloads
  <2>2. ReloadPart'
    <3>1. NoReload \in ReloadRecord /\ NoReload.pc = "idle"
      BY <1>0, ReloadTyped
    <3>2. QED
      BY <1>4, <3>1, ReloadWritten DEF ReloadEnds, EndReload
  <2>3. PlainPart'
    <3>1. shown' \in Nat
      BY <1>4, KeptIsIndex DEF ReloadEnds, EndReload
    <3>2. UNCHANGED <<conf, print, split, requested, home, reloadPages>> /\ last' = NoPage /\ frozen' = FALSE
      BY <1>4 DEF ReloadEnds, EndReload, files
    <3>3. screen' \in {"menu", "widget", "game"}
      BY <1>4 DEF ReloadEnds, EndReload, PlainPart
    <3>4. reloadConf' \in BOOLEAN
      BY <1>4 DEF ReloadEnds, EndReload, PlainPart
    <3>5. QED
      BY <3>1, <3>2, <3>3, <3>4 DEF PlainPart, NoPage
  <2>4. QED
    BY <2>1, <2>2, <2>3
<1>5. QED
  BY <1>1, <1>2, <1>3, <1>4 DEF ReloadStep

\* The soft apply.  It was compared with the list, which ends with the default page.
LEMMA SameLength ==
  ASSUME ListPart, patch.new \in PageConf, SamePages
  PROVE  /\ Len(patch.new) \in Nat /\ Len(pages) = Len(patch.new) + 1
         /\ \A j \in 1..Len(patch.new) : pages[j].uuid = patch.new[j].uuid
<1> DEFINE u == Uuids(patch.new)
<1>1. Len(patch.new) \in Nat /\ DOMAIN patch.new = 1..Len(patch.new)
  BY ConfPages
<1>2. u \in Seq(Nat) /\ Len(u) = Len(patch.new)
      /\ \A j \in 1..Len(patch.new) : u[j] = patch.new[j].uuid
  <2>1. \A j \in 1..Len(patch.new) : patch.new[j].uuid \in Nat
    BY <1>1, ConfPages
  <2>2. u \in [1..Len(patch.new) -> Nat]
    BY <1>1, <2>1 DEF Uuids
  <2>3. QED
    BY <1>1, <2>2 DEF Uuids
<1> DEFINE v == Uuids(pages)
<1>3. Len(pages) \in Nat /\ DOMAIN v = 1..Len(pages) /\ \A j \in 1..Len(pages) : v[j] = pages[j].uuid
  BY DEF ListPart, Uuids
<1>4. v = Append(u, QrPage)
  BY DEF SamePages
<1> HIDE DEF u, v
<1>5. DOMAIN v = 1..(Len(u) + 1) /\ \A j \in 1..Len(u) : v[j] = u[j]
  BY <1>2, <1>4 DEF QrPage
<1>6. Len(pages) = Len(u) + 1
  BY <1>2, <1>3, <1>5
<1>7. QED
  BY <1>1, <1>2, <1>3, <1>5, <1>6

\* An entry with other values.
LEMMA EntryEnabled ==
  ASSUME NEW e \in PageEntry, NEW b \in BOOLEAN
  PROVE  /\ [e EXCEPT !.enabled = b] \in PageEntry
         /\ [e EXCEPT !.enabled = b].uuid = e.uuid /\ [e EXCEPT !.enabled = b].app = e.app
BY DEF PageEntry

LEMMA EntryKilled ==
  ASSUME NEW e \in PageEntry, NEW b \in BOOLEAN
  PROVE  /\ [e EXCEPT !.enabled = b, !.proc = "none"] \in PageEntry
         /\ [e EXCEPT !.enabled = b, !.proc = "none"].uuid = e.uuid
         /\ [e EXCEPT !.enabled = b, !.proc = "none"].app = e.app
BY DEF PageEntry, Proc

LEMMA EntrySet ==
  ASSUME NEW e \in PageEntry, NEW a \in App, NEW f \in Nat
  PROVE  /\ [e EXCEPT !.app = a, !.fields = f] \in PageEntry
         /\ [e EXCEPT !.app = a, !.fields = f].uuid = e.uuid
         /\ [e EXCEPT !.app = a, !.fields = f].app = a
BY DEF PageEntry

\* One entry before the default page is written.
LEMMA EntryFits ==
  ASSUME ListPart, NEW n \in 1..(Len(pages) - 1), NEW e \in PageEntry,
         e.uuid = pages[n].uuid, e.app \in App, pages' = [pages EXCEPT ![n] = e]
  PROVE  Fits
<1>1. Len(pages) \in Nat /\ DOMAIN pages = 1..Len(pages) /\ pages \in [1..Len(pages) -> PageEntry]
  BY DEF ListPart
<1>2. n \in 1..Len(pages) /\ n # Len(pages) /\ Len(pages) \in 1..Len(pages)
  <2> DEFINE m == Len(pages)
  <2>1. m \in Nat /\ n \in 1..(m - 1)
    BY <1>1
  <2> HIDE DEF m
  <2>2. n \in 1..m /\ n # m /\ m \in 1..m
    BY <2>1
  <2>3. QED
    BY <2>2 DEF m
<1>3. \A j \in 1..Len(pages) : pages'[j] = IF j = n THEN e ELSE pages[j]
  BY <1>1
<1>4. pages' \in [1..Len(pages) -> PageEntry]
  BY <1>1, <1>2
<1>5. pages' \in Seq(PageEntry) /\ Len(pages') = Len(pages)
  BY <1>1, <1>4
<1>6. \A j \in 1..(Len(pages) - 1) : j \in 1..Len(pages) /\ pages[j].app \in App
  BY <1>1 DEF ListPart, WellFormed
<1>7. \A j \in 1..(Len(pages) - 1) : pages'[j].app \in App
  BY <1>3, <1>6
<1>8. \A j \in 1..Len(pages) : pages'[j].uuid = pages[j].uuid
  BY <1>3
<1>9. pages'[Len(pages)] = pages[Len(pages)]
  BY <1>2, <1>3
<1>10. QED
  BY <1>1, <1>5, <1>7, <1>8, <1>9 DEF ListPart, WellFormed, DefaultPageKept, Fits

\* The soft apply goes on with the page, its successor, its configuration or its process, on
\* the list it was compared with.
LEMMA PatchGoesOn ==
  ASSUME ListPart, Fits, PatchPart, patch.pc \in {"page", "set", "start"},
         NEW p \in {"page", "set", "start"}, NEW n \in Nat,
         patch' \in PatchRecord, patch'.pc = p, patch'.new = patch.new, patch'.at = n,
         patch'.gone <=> patch.gone,
         ~patch.gone => n \in 1..(Len(patch.new) + 1) /\ (p # "page" => n <= Len(patch.new))
  PROVE  PatchPart'
<1>1. Uuids(pages') = Uuids(pages)
  BY DEF ListPart, Fits, Uuids
<1>2. patch'.pc # "idle" /\ patch'.new \in PageConf
  BY DEF PatchPart
<1>3. PatchInPlace'
  <2>1. SamePages' <=> SamePages
    BY <1>1 DEF SamePages
  <2>2. QED
    BY <2>1 DEF PatchPart, PatchInPlace
<1>4. QED
  BY <1>2, <1>3 DEF PatchPart

\* The record of a soft apply that begins, and of one that goes on.
LEMMA PatchBegins ==
  ASSUME NEW d \in PatchRecord, NEW n \in Nat,
         patch' = [d EXCEPT !.pc = "page", !.at = 1, !.active = n, !.gone = FALSE]
  PROVE  patch' \in PatchRecord /\ patch'.pc = "page" /\ patch'.new = d.new /\ patch'.at = 1
<1> DEFINE x == [d EXCEPT !.pc = "page"]
           y == [x EXCEPT !.at = 1]
           z == [y EXCEPT !.active = n]
<1>1. x \in PatchRecord /\ x.pc = "page" /\ x.new = d.new
  BY PatchPc
<1>2. patch' = [z EXCEPT !.gone = FALSE]
  OBVIOUS
<1> HIDE DEF x
<1>3. y \in PatchRecord /\ y.pc = "page" /\ y.new = d.new /\ y.at = 1
  BY <1>1, PatchAt
<1> HIDE DEF y
<1>4. z \in PatchRecord /\ z.pc = "page" /\ z.new = d.new /\ z.at = 1
  BY <1>3, PatchActive
<1> HIDE DEF z
<1>5. QED
  BY <1>2, <1>4, PatchThere

LEMMA PatchAdvances ==
  ASSUME NEW d \in PatchRecord, patch' = [d EXCEPT !.pc = "page", !.at = @ + 1]
  PROVE  /\ patch' \in PatchRecord /\ patch'.pc = "page" /\ patch'.new = d.new /\ patch'.at = d.at + 1
         /\ patch'.gone <=> d.gone
<1> DEFINE x == [d EXCEPT !.pc = "page"]
<1>1. x \in PatchRecord /\ x.pc = "page" /\ x.new = d.new /\ x.at = d.at /\ (x.gone <=> d.gone)
  BY PatchPc
<1>2. patch' = [x EXCEPT !.at = d.at + 1]
  OBVIOUS
<1>3. d.at + 1 \in Nat
  BY DEF PatchRecord
<1> DEFINE m == d.at + 1
<1> HIDE DEF x, m
<1>4. m \in Nat /\ patch' = [x EXCEPT !.at = m]
  BY <1>2, <1>3 DEF m
<1> DEFINE y == [x EXCEPT !.at = m]
<1>5. y \in PatchRecord /\ y.pc = x.pc /\ y.new = x.new /\ y.at = m /\ (y.gone <=> x.gone)
  BY <1>1, <1>4, PatchAt
<1>6. patch' = y
  BY <1>4
<1> HIDE DEF y
<1>7. QED
  BY <1>1, <1>5, <1>6 DEF m

\* It ends, or fails.
LEMMA PatchEnds ==
  ASSUME ListPart, patch' = NoPatch
  PROVE  PatchPart'
BY DEF NoPatch, PatchPart, PatchRecord, PatchInPlace

LEMMA PatchPageKeeps ==
  ASSUME WidgetInv, PatchPage
  PROVE  Fits /\ PatchPart'
<1> USE DEF WidgetInv
<1>0. patch \in PatchRecord /\ patch.pc = "page" /\ patch.new \in PageConf /\ patch.at \in Nat
  BY DEF PatchPart, PatchPage, PatchRecord
<1>1. CASE patch.gone
  BY <1>1, Untouched, PatchEnds DEF PatchPage
<1>2. CASE ~patch.gone /\ patch.at > Len(patch.new)
  BY <1>2, Untouched, PatchEnds DEF PatchPage
<1>3. CASE ~patch.gone /\ ~(patch.at > Len(patch.new))
  <2> DEFINE n == patch.at
             new == patch.new[n]
             e == pages[n]
  <2>1. /\ Len(patch.new) \in Nat /\ Len(pages) = Len(patch.new) + 1
        /\ n \in 1..Len(patch.new)
    BY <1>0, <1>3, SameLength DEF PatchPart, PatchInPlace
  <2>2. new.app \in App /\ new.enabled \in BOOLEAN /\ new.fields \in Nat
    <3>1. n \in DOMAIN patch.new
      BY <1>0, <2>1, ConfPages
    <3>2. QED
      BY <1>0, <3>1, ConfPages
  <2>3. e \in PageEntry /\ e.app \in App
    BY <2>1 DEF ListPart, WellFormed
  <2>4. n \in 1..(Len(pages) - 1) /\ n + 1 \in 1..(Len(patch.new) + 1) /\ n + 1 \in Nat
    BY <2>1
  <2>5. CASE e.app = new.app /\ e.fields = new.fields
    <3> DEFINE d == [e EXCEPT !.enabled = new.enabled]
    <3>1. pages' = [pages EXCEPT ![n] = d]
      BY <1>0, <1>3, <2>5 DEF PatchPage
    <3>2. d \in PageEntry /\ d.uuid = e.uuid /\ d.app \in App
      BY <2>2, <2>3, EntryEnabled
    <3>3. patch' = [patch EXCEPT !.at = n + 1]
      BY <1>0, <1>3, <2>5 DEF PatchPage
    <3>4. Fits
      <4> HIDE DEF d
      <4>1. QED
        BY <2>4, <3>1, <3>2, EntryFits
    <3>5. PatchPart'
      <4>1. /\ patch' \in PatchRecord /\ patch'.pc = "page" /\ patch'.new = patch.new
            /\ patch'.at = n + 1 /\ (patch'.gone <=> patch.gone)
        BY <1>0, <2>4, <3>3, PatchAt
      <4>2. QED
        BY <1>0, <2>4, <3>4, <4>1, PatchGoesOn
    <3>6. QED
      BY <3>4, <3>5
  <2>6. CASE ~(e.app = new.app /\ e.fields = new.fields)
    <3> DEFINE d == [e EXCEPT !.enabled = new.enabled, !.proc = "none"]
    <3>1. pages' = [pages EXCEPT ![n].enabled = new.enabled, ![n].proc = "none"]
      BY <1>0, <1>3, <2>6 DEF PatchPage
    <3>2. pages' = [pages EXCEPT ![n] = d]
      BY <2>4, <3>1 DEF ListPart
    <3>3. d \in PageEntry /\ d.uuid = e.uuid /\ d.app \in App
      BY <2>2, <2>3, EntryKilled
    <3>4. patch' = [patch EXCEPT !.pc = "set"]
      BY <1>0, <1>3, <2>6 DEF PatchPage
    <3>5. Fits
      <4> HIDE DEF d
      <4>1. QED
        BY <2>4, <3>2, <3>3, EntryFits
    <3>6. PatchPart'
      <4>1. /\ patch' \in PatchRecord /\ patch'.pc = "set" /\ patch'.new = patch.new
            /\ patch'.at = n /\ (patch'.gone <=> patch.gone)
        BY <1>0, <3>4, PatchPc
      <4>2. n <= Len(patch.new) /\ n \in 1..(Len(patch.new) + 1)
        BY <2>1
      <4>3. QED
        BY <1>0, <3>5, <4>1, <4>2, PatchGoesOn
    <3>7. QED
      BY <3>5, <3>6
  <2>7. QED
    BY <2>5, <2>6
<1>4. QED
  BY <1>1, <1>2, <1>3

LEMMA PatchWidgetKeeps ==
  ASSUME WidgetInv, PatchWidget
  PROVE  Fits /\ PatchPart' /\ FetchPart' /\ throttled' \subseteq App /\ CountPart'
<1> USE DEF WidgetInv
<1>0. patch \in PatchRecord /\ patch.pc = "set" /\ patch.new \in PageConf /\ patch.at \in Nat
  BY DEF PatchPart, PatchWidget, PatchRecord
<1>1. CASE patch.gone
  <2>1. Fits /\ UNCHANGED <<pages, fetching, throttled, wevents>> /\ patch' = [patch EXCEPT !.pc = "page"]
    BY <1>1, Untouched DEF PatchWidget
  <2>2. PatchPart'
    <3>1. /\ patch' \in PatchRecord /\ patch'.pc = "page" /\ patch'.new = patch.new
          /\ patch'.at = patch.at /\ (patch'.gone <=> patch.gone)
      BY <1>0, <2>1, PatchPc
    <3>2. QED
      BY <1>0, <1>1, <2>1, <3>1, PatchGoesOn
  <2>3. FetchPart' /\ CountPart' /\ throttled' \subseteq App
    BY <2>1, FitsKeepsHeld, RestStays DEF SetsPart
  <2>4. QED
    BY <2>1, <2>2, <2>3
<1>2. CASE ~patch.gone
  <2> DEFINE n == patch.at
             new == patch.new[n]
             e == pages[n]
             d == [e EXCEPT !.app = new.app, !.fields = new.fields]
  <2>1. /\ Len(patch.new) \in Nat /\ Len(pages) = Len(patch.new) + 1
        /\ n \in 1..Len(patch.new)
    BY <1>0, <1>2, SameLength DEF PatchPart, PatchInPlace
  <2>2. new.app \in App /\ new.enabled \in BOOLEAN /\ new.fields \in Nat
    <3>1. n \in DOMAIN patch.new
      BY <1>0, <2>1, ConfPages
    <3>2. QED
      BY <1>0, <3>1, ConfPages
  <2>3. e \in PageEntry
    BY <2>1 DEF ListPart
  <2>4. /\ n \in 1..(Len(pages) - 1) /\ n + 1 \in 1..(Len(patch.new) + 1) /\ n + 1 \in Nat
        /\ n <= Len(patch.new) /\ n \in 1..(Len(patch.new) + 1)
    BY <2>1
  <2>5. pages' = [pages EXCEPT ![n].app = new.app, ![n].fields = new.fields]
    BY <1>2 DEF PatchWidget
  <2>6. pages' = [pages EXCEPT ![n] = d]
    BY <2>4, <2>5 DEF ListPart
  <2>7. d \in PageEntry /\ d.uuid = e.uuid /\ d.app \in App
    <3> DEFINE x == e
               a == new.app
               f == new.fields
               y == [x EXCEPT !.app = a, !.fields = f]
    <3>1. x \in PageEntry /\ a \in App /\ f \in Nat
      BY <2>2, <2>3
    <3>2. d = y /\ x = e
      OBVIOUS
    <3> HIDE DEF x, a, f, d
    <3>3. y \in PageEntry /\ y.uuid = x.uuid /\ y.app = a
      BY <3>1, EntrySet
    <3> HIDE DEF y
    <3>4. QED
      BY <3>1, <3>2, <3>3
  <2>8. Fits
    <3> HIDE DEF d
    <3>1. QED
      BY <2>4, <2>6, <2>7, EntryFits
  <2>9. Len(pages') = Len(pages)
    BY <2>8 DEF Fits
  <2>10. CASE n = patch.active /\ new.app \in ready
    <3>1. patch' = [patch EXCEPT !.pc = "start"] /\ UNCHANGED <<fetching, throttled, wevents>>
      BY <1>2, <2>10 DEF PatchWidget
    <3>2. /\ patch' \in PatchRecord /\ patch'.pc = "start" /\ patch'.new = patch.new
          /\ patch'.at = n /\ (patch'.gone <=> patch.gone)
      BY <1>0, <3>1, PatchPc
    <3>3. PatchPart'
      BY <1>0, <2>4, <2>8, <3>2, PatchGoesOn
    <3>4. QED
      BY <2>8, <2>9, <3>1, <3>3, FitsKeepsHeld, RestStays DEF SetsPart
  <2>11. CASE ~(n = patch.active /\ new.app \in ready)
    <3>1. patch' = [patch EXCEPT !.pc = "page", !.at = @ + 1]
      BY <1>2, <2>11 DEF PatchWidget
    <3>2. RequestMissing(new.app, FALSE) \/ UNCHANGED <<fetching, throttled, wevents>>
      BY <1>2, <2>11 DEF PatchWidget
    <3>3. /\ patch' \in PatchRecord /\ patch'.pc = "page" /\ patch'.new = patch.new
          /\ patch'.at = n + 1 /\ (patch'.gone <=> patch.gone)
      BY <1>0, <3>1, PatchAdvances
    <3>4. PatchPart'
      BY <1>0, <2>4, <2>8, <3>3, PatchGoesOn
    <3>5. FetchPart' /\ throttled' \subseteq App /\ CountPart'
      BY <2>2, <2>9, <3>2, RequestKeeps, FitsKeepsHeld, RestStays DEF SetsPart
    <3>6. QED
      BY <2>8, <3>4, <3>5
  <2>12. QED
    BY <2>10, <2>11
<1>3. QED
  BY <1>1, <1>2

LEMMA PatchKeeps ==
  ASSUME WidgetInv, PatchStep
  PROVE  WidgetInv'
<1> USE DEF WidgetInv
<1>1. CASE CheckPatch
  <2>1. ListPart' /\ FetchPart' /\ StartPart' /\ ReloadPart' /\ SetsPart' /\ CountPart'
    BY <1>1, PagesStay, RestStays DEF CheckPatch, files, downloads
  <2>2. PlainPart'
    BY <1>1 DEF CheckPatch, PlainPart, files, display
  <2>3. PatchPart'
    <3>1. CASE patch' = NoPatch
      BY <3>1, PatchEnds
    <3>2. CASE patch' # NoPatch
      <4>1. /\ SamePages /\ UNCHANGED pages
            /\ patch' = [patch EXCEPT !.pc = "page", !.at = 1, !.active = shown, !.gone = FALSE]
        BY <1>1, <3>2 DEF CheckPatch
      <4>2. patch \in PatchRecord /\ patch.new \in PageConf /\ shown \in Nat
        BY <1>1 DEF CheckPatch, PatchPart, PlainPart
      <4>3. patch' \in PatchRecord /\ patch'.pc = "page" /\ patch'.new = patch.new /\ patch'.at = 1
        BY <4>1, <4>2, PatchBegins
      <4>4. SamePages'
        BY <4>1, <4>3 DEF SamePages
      <4>5. 1 \in 1..(Len(patch.new) + 1)
        BY <4>2, ConfPages
      <4>6. QED
        BY <4>2, <4>3, <4>4, <4>5 DEF PatchPart, PatchInPlace
    <3>3. QED
      BY <3>1, <3>2
  <2>4. QED
    BY <2>1, <2>2, <2>3
<1>2. CASE PatchPage
  <2>1. Fits /\ PatchPart'
    BY <1>2, PatchPageKeeps
  <2>2. ListPart' /\ FetchPart' /\ StartPart'
    BY <1>2, <2>1, FitsKeepsList, FitsKeepsHeld DEF PatchPage, Fits, downloads
  <2>3. ReloadPart' /\ SetsPart' /\ CountPart'
    BY <1>2, RestStays DEF PatchPage, files, downloads
  <2>4. PlainPart'
    BY <1>2 DEF PatchPage, PlainPart, files, display
  <2>5. QED
    BY <2>1, <2>2, <2>3, <2>4
<1>3. CASE PatchWidget
  <2>1. Fits /\ PatchPart' /\ FetchPart' /\ throttled' \subseteq App /\ CountPart'
    BY <1>3, PatchWidgetKeeps
  <2>2. ListPart' /\ StartPart'
    BY <1>3, <2>1, FitsKeepsList, FitsKeepsHeld DEF PatchWidget, Fits
  <2>3. ReloadPart' /\ PlainPart'
    BY <1>3, RestStays DEF PatchWidget, files
  <2>4. SetsPart'
    BY <1>3, <2>1 DEF PatchWidget, SetsPart, files
  <2>5. QED
    BY <2>1, <2>2, <2>3, <2>4
<1>4. CASE PatchStarted
  <2>1. Fits
    BY <1>4, StartedFits DEF PatchStarted
  <2>2. PatchPart'
    <3>1. patch \in PatchRecord /\ patch.pc = "start" /\ patch.at \in Nat /\ patch.new \in PageConf
      BY <1>4 DEF PatchStarted, PatchPart, PatchRecord
    <3>2. /\ patch' \in PatchRecord /\ patch'.pc = "page" /\ patch'.new = patch.new
          /\ patch'.at = patch.at + 1 /\ (patch'.gone <=> patch.gone)
      BY <1>4, <3>1, PatchAdvances DEF PatchStarted
    <3>3. ~patch.gone => patch.at + 1 \in 1..(Len(patch.new) + 1)
      <4>1. Len(patch.new) \in Nat
        BY <3>1, ConfPages
      <4>2. QED
        BY <3>1, <4>1 DEF PatchPart, PatchInPlace
    <3>4. patch.at + 1 \in Nat
      BY <3>1
    <3>5. QED
      BY <2>1, <3>1, <3>2, <3>3, <3>4, PatchGoesOn
  <2>3. ListPart' /\ FetchPart' /\ StartPart'
    BY <1>4, <2>1, FitsKeepsList, FitsKeepsHeld DEF PatchStarted, Fits, downloads
  <2>4. ReloadPart' /\ SetsPart' /\ CountPart' /\ PlainPart'
    BY <1>4, RestStays, StartedCounts DEF PatchStarted, files, downloads
  <2>5. QED
    BY <2>2, <2>3, <2>4
<1>5. CASE WritePages
  <2>1. ListPart' /\ FetchPart' /\ StartPart' /\ ReloadPart' /\ SetsPart' /\ CountPart'
    BY <1>5, PagesStay, RestStays DEF WritePages, downloads
  <2>2. patch \in PatchRecord /\ patch.new \in PageConf
    BY <1>5 DEF WritePages, PatchPart
  <2>3. PlainPart'
    BY <1>5, <2>2 DEF WritePages, PlainPart, display, flags
  <2>4. PatchPart'
    <3>1. CASE patch.applies
      <4>1. patch' \in PatchRecord /\ patch'.pc = "check" /\ patch'.new = patch.new
        BY <1>5, <2>2, <3>1, PatchPc DEF WritePages
      <4>2. QED
        BY <2>2, <4>1 DEF PatchPart, PatchInPlace
    <3>2. CASE ~patch.applies
      BY <1>5, <3>2, PatchEnds DEF WritePages
    <3>3. QED
      BY <3>1, <3>2
  <2>5. QED
    BY <2>1, <2>3, <2>4
<1>6. QED
  BY <1>1, <1>2, <1>3, <1>4, <1>5 DEF PatchStep

--------------------------------------------------------------------------------
LEMMA WidgetInvInit == WidgetInit => WidgetInv
<1> SUFFICES ASSUME WidgetInit PROVE WidgetInv
  OBVIOUS
<1> USE DEF WidgetInit, PagesAtBoot, NoSnapshotYet, NoDownloadYet
<1>1. ListPart
  <2>1. conf \in PageConf /\ \E f : pages = Build(conf, f)
    BY PageAssumption
  <2>2. QED
    BY <2>1, BuiltList DEF ListPart, WellFormed, DefaultPageKept
<1>2. FetchPart /\ StartPart
  BY DEF FetchPart, StartPart, Fetch, NoFetch, AtRest
<1>3. ReloadPart
  BY DEF ReloadPart, ReloadRecord, NoReload, QrPage
<1>4. PatchPart
  BY DEF PatchPart, PatchRecord, NoPatch, PatchInPlace
<1>5. PlainPart /\ SetsPart /\ CountPart
  <2>1. conf \in PageConf /\ 0 \in 0..MaxWidgetEvent
    BY PageAssumption
  <2>2. QED
    BY <2>1 DEF PlainPart, SetsPart, CountPart, NoPage
<1>6. QED
  BY <1>1, <1>2, <1>3, <1>4, <1>5 DEF WidgetInv

LEMMA WidgetInvStep ==
  ASSUME WidgetInv, [WidgetNext]_widgetVars
  PROVE  WidgetInv'
<1>1. CASE WidgetLoop
  BY <1>1, LoopKeeps
<1>2. CASE Press
  BY <1>2, PressKeeps
<1>3. CASE EnterGame \/ GameExits
  BY <1>3, GameKeeps
<1>4. ASSUME NEW w \in Reloader, ReloadStep(w) PROVE WidgetInv'
  BY <1>4, ReloadKeeps
<1>5. ASSUME NEW w \in PageRequester, RequestPages(w) PROVE WidgetInv'
  BY <1>5, RequestPagesKeeps
<1>6. ASSUME NEW a \in App, FetchStep(a) PROVE WidgetInv'
  BY <1>6, DownloadKeepsPages
<1>7. ASSUME NEW i \in DOMAIN pages, ProcessDies(i) PROVE WidgetInv'
  BY <1>7, DeathKeeps
<1>8. ASSUME NEW c \in PageConf, BridgeSnapshot(c) \/ OtherSnapshot(c) PROVE WidgetInv'
  BY <1>8, SnapshotKeeps
<1>9. CASE PatchStep
  BY <1>9, PatchKeeps
<1>10. CASE UNCHANGED widgetVars
  <2>1. ListPart' /\ FetchPart' /\ StartPart' /\ PatchPart' /\ ReloadPart' /\ PlainPart' /\ SetsPart' /\ CountPart'
    BY <1>10, PagesStay, RestStays DEF WidgetInv, widgetVars, display, flags
  <2>2. QED
    BY <2>1 DEF WidgetInv
<1>11. QED
  BY <1>1, <1>2, <1>3, <1>4, <1>5, <1>6, <1>7, <1>8, <1>9, <1>10 DEF WidgetNext

LEMMA WidgetInvTypes == WidgetInv => WidgetTypeOK /\ DefaultPageKept /\ PatchInPlace
BY DEF WidgetInv, ListPart, FetchPart, StartPart, ReloadPart, PatchPart, PlainPart, SetsPart, CountPart,
       WidgetTypeOK, HeldEntries, ReloadRecord, PatchRecord

\* The entries that a download and a restart hold are entries of the list, and none is the
\* default page, whatever the configurations and however many threads ask for reloads
\* (widget_lifecycle.py).
THEOREM WidgetTypeCorrect == WidgetSpec => []WidgetTypeOK
<1>1. QED
  BY WidgetInvInit, WidgetInvStep, WidgetInvTypes, PTL DEF WidgetSpec

\* A soft apply writes to the pages it was compared with, or to none: also when the list is
\* dropped and built again between its steps (try_soft_apply_remote_supabase_pages).
THEOREM PatchStaysInPlace == WidgetSpec => []PatchInPlace
<1>1. QED
  BY WidgetInvInit, WidgetInvStep, WidgetInvTypes, PTL DEF WidgetSpec

\* Nobody but a reload takes the process of the default page away (kill_widget_if_page_inactive,
\* the soft apply, and the change of pages in states/widget.py).
THEOREM DefaultPageStays == WidgetSpec => []DefaultPageKept
<1>1. QED
  BY WidgetInvInit, WidgetInvStep, WidgetInvTypes, PTL DEF WidgetSpec

--------------------------------------------------------------------------------
\* What the pages show of conf.json.

\* No request ever writes conf.json.
Quiet == \A w \in PageRequester : reload[w].pc = "idle"

\* Nothing is under way, or asked for, that changes the pages to what conf.json says.
Settled == patch.pc = "idle" /\ reload[MainLoop].pc = "idle" /\ ~reloadPages

SameData(e, p) == e.uuid = p.uuid /\ e.app = p.app /\ e.fields = p.fields /\ e.enabled = p.enabled
Matches(c) == Len(pages) = Len(c) + 1 /\ \A j \in 1..Len(c) : SameData(pages[j], c[j])

\* A soft apply on the list it was compared with: the pages before the one it is at have been
\* patched, and of that one what can be assigned.
Applying ==
  /\ patch.pc \in {"page", "set", "start"} /\ ~patch.gone
  /\ \A j \in 1..(patch.at - 1) : SameData(pages[j], patch.new[j])
  /\ patch.pc = "set" => pages[patch.at].enabled = patch.new[patch.at].enabled
  /\ patch.pc = "start" => SameData(pages[patch.at], patch.new[patch.at])

\* What is inductive when no request writes conf.json.  Until pages that were written or
\* applied alone are followed by others (split), nothing is said; nor while pages are to be
\* written and applied, applied, or reloaded.
Awaited ==
  split \/ reloadPages \/ patch.pc = "check" \/ (patch.pc = "write" /\ patch.applies)

Follows ==
  /\ patch.pc \in {"check", "page", "set", "start"} \/ (patch.pc = "write" /\ ~patch.applies)
       => split \/ patch.new = conf
  /\ reload[MainLoop].pc \in {"read", "build"} => pages = <<>>
  /\ reload[MainLoop].pc = "build" => reload[MainLoop].read = conf \/ Awaited
  /\ pages # <<>> => Awaited \/ reload[MainLoop].pc = "term" \/ Applying \/ Matches(conf)

LEMMA MatchesConfigured ==
  ASSUME ListPart, NEW c \in PageConf, Matches(c)
  PROVE  Configured = c
<1>1. c \in Seq(PageRecord) /\ Len(c) \in Nat
  BY ConfPages
<1>2. \A i \in 1..Len(c) : c[i] \in PageRecord
  BY <1>1
<1>3. \A r \in PageRecord : r = [uuid |-> r.uuid, app |-> r.app, fields |-> r.fields, enabled |-> r.enabled]
  BY DEF PageRecord
<1>4. 1..(Len(pages) - 1) = 1..Len(c)
  BY <1>1 DEF Matches
<1>5. Configured = [i \in 1..Len(c) |-> [uuid |-> c[i].uuid, app |-> c[i].app, fields |-> c[i].fields, enabled |-> c[i].enabled]]
  BY <1>4 DEF Matches, Configured, SameData
<1>6. \A i \in 1..Len(c) : c[i] = [uuid |-> c[i].uuid, app |-> c[i].app, fields |-> c[i].fields, enabled |-> c[i].enabled]
  BY <1>2, <1>3
<1>7. c = [i \in 1..Len(c) |-> c[i]]
  BY <1>1
<1>8. QED
  BY <1>5, <1>6, <1>7

LEMMA BuiltMatches ==
  ASSUME NEW c \in PageConf, NEW f
  PROVE  /\ Len(Build(c, f)) = Len(c) + 1
         /\ \A j \in 1..Len(c) : SameData(Build(c, f)[j], c[j])
<1>1. c \in Seq(PageRecord) /\ Len(c) \in Nat /\ DOMAIN c = 1..Len(c)
  BY ConfPages
<1> DEFINE list == [i \in DOMAIN c |-> Entry(c[i], IF c[i].app \in ready /\ i # f THEN "stopped" ELSE "none")]
           tail == Entry(DefaultPage, IF f = Len(c) + 1 THEN "unstarted" ELSE "stopped")
<1>2. \A j \in 1..Len(c) : SameData(list[j], c[j])
  BY <1>1 DEF Entry, SameData
<1>3. list \in Seq({list[j] : j \in 1..Len(c)}) /\ Len(list) = Len(c)
  <2>1. list \in [1..Len(c) -> {list[j] : j \in 1..Len(c)}]
    BY <1>1
  <2> HIDE DEF list
  <2>2. QED
    BY <1>1, <2>1
<1>4. Build(c, f) = Append(list, tail)
  BY DEF Build
<1> HIDE DEF list, tail
<1>5. \A j \in 1..Len(c) : Append(list, tail)[j] = list[j]
  BY <1>1, <1>3
<1>6. QED
  BY <1>2, <1>4, <1>5, BuiltList

\* Only processes change.
DataStays == Len(pages') = Len(pages) /\ \A j \in 1..Len(pages) : SameData(pages'[j], pages[j])

LEMMA ProcData ==
  ASSUME ListPart, NEW i, NEW s \in Proc, pages' = SetProc(i, s)
  PROVE  DataStays
<1>1. /\ Len(pages') = Len(pages)
      /\ \A j \in 1..Len(pages) :
           pages'[j] = IF j = i THEN [pages[j] EXCEPT !.proc = s] ELSE pages[j]
  BY ProcWritten DEF SetProc, ListPart
<1>2. \A e \in PageEntry : SameData([e EXCEPT !.proc = s], e)
  BY EntryProc DEF SameData
<1>3. \A j \in 1..Len(pages) : pages[j] \in PageEntry
  BY DEF ListPart
<1>4. \A e \in PageEntry : SameData(e, e)
  BY DEF SameData
<1>5. QED
  BY <1>1, <1>2, <1>3, <1>4 DEF DataStays

LEMMA ProcsData ==
  ASSUME ListPart, NEW f \in [DOMAIN pages -> Proc],
         pages' = [j \in DOMAIN pages |-> [pages[j] EXCEPT !.proc = f[j]]]
  PROVE  DataStays
<1>0. Len(pages) \in Nat /\ DOMAIN pages = 1..Len(pages)
  BY DEF ListPart
<1>1. \A j \in 1..Len(pages) : pages[j] \in PageEntry /\ f[j] \in Proc
  BY DEF ListPart
<1>2. \A e \in PageEntry, s \in Proc : SameData([e EXCEPT !.proc = s], e)
  BY EntryProc DEF SameData
<1>3. \A j \in 1..Len(pages) : pages'[j] = [pages[j] EXCEPT !.proc = f[j]]
  BY <1>0
<1>4. Len(pages') = Len(pages)
  BY <1>0
<1>5. QED
  BY <1>1, <1>2, <1>3, <1>4 DEF DataStays

\* A soft apply is at a page of the list, or past its pages.
LEMMA ApplyingInList ==
  ASSUME WidgetInv, Applying
  PROVE  /\ patch.new \in PageConf /\ Len(patch.new) \in Nat /\ Len(pages) = Len(patch.new) + 1
         /\ patch.at \in 1..Len(pages) /\ patch.at \in 1..patch.at
         /\ patch.pc # "page" => patch.at \in 1..Len(patch.new)
         /\ \A j \in 1..Len(patch.new) : pages[j].uuid = patch.new[j].uuid
<1>1. patch.new \in PageConf /\ SamePages /\ patch.at \in 1..(Len(patch.new) + 1)
      /\ (patch.pc # "page" => patch.at <= Len(patch.new))
  BY DEF WidgetInv, PatchPart, PatchInPlace, Applying
<1>2. /\ Len(patch.new) \in Nat /\ Len(pages) = Len(patch.new) + 1
      /\ \A j \in 1..Len(patch.new) : pages[j].uuid = patch.new[j].uuid
  BY <1>1, SameLength DEF WidgetInv
<1>3. QED
  BY <1>1, <1>2

\* A step of anyone but the reload of the main loop and the soft apply.
LEMMA FollowsStays ==
  ASSUME WidgetInv, Follows, DataStays, UNCHANGED <<conf, split, patch>>,
         pages' \in Seq(PageEntry), UNCHANGED reload, reloadPages => reloadPages'
  PROVE  Follows'
<1> USE DEF WidgetInv
<1>1. /\ Len(pages) \in Nat /\ Len(pages') = Len(pages)
      /\ pages = <<>> <=> Len(pages) = 0
      /\ pages' = <<>> <=> Len(pages') = 0
  BY DEF ListPart, DataStays
<1>2. pages = <<>> <=> pages' = <<>>
  BY <1>1
<1>3. Matches(conf) => Matches(conf)'
  BY DEF Matches, DataStays, SameData
<1>4. ASSUME Applying PROVE Applying'
  <2>1. \A j \in 1..patch.at : SameData(pages[j], patch.new[j]) => SameData(pages'[j], patch.new[j])
    <3>1. \A j \in 1..patch.at : j \in 1..Len(pages)
      BY <1>1, <1>4, ApplyingInList
    <3>2. QED
      BY <3>1 DEF DataStays, SameData
  <2>2. patch.pc = "set" => pages'[patch.at].enabled = pages[patch.at].enabled
    BY <1>1, <1>4, ApplyingInList DEF DataStays, SameData
  <2>3. \A j \in 1..(patch.at - 1) : j \in 1..patch.at
    BY DEF PatchPart, PatchRecord
  <2>4. patch.at \in 1..patch.at
    BY <1>4, ApplyingInList
  <2>5. QED
    BY <1>4, <2>1, <2>2, <2>3, <2>4 DEF Applying
<1>5. QED
  BY <1>2, <1>3, <1>4 DEF Follows, Awaited

\* A step that leaves the pages alone, or clears them, and that of a soft apply at most that.
LEMMA FollowsAlone ==
  ASSUME WidgetInv, Follows, UNCHANGED <<pages, conf, split, patch, reload>>, reloadPages => reloadPages'
  PROVE  Follows'
BY DEF Follows, Awaited, Matches, Applying

LEMMA FollowsCleared ==
  ASSUME Follows, pages' = <<>>, UNCHANGED <<conf, split>>, patch'.pc = patch.pc,
         patch'.new = patch.new, patch'.applies <=> patch.applies, reload'[MainLoop].pc # "build"
  PROVE  Follows'
BY DEF Follows, Awaited

LEMMA ClearedPatch ==
  ASSUME PatchPart, DetachOf
  PROVE  patch'.pc = patch.pc /\ patch'.new = patch.new /\ (patch'.applies <=> patch.applies)
BY DEF DetachOf, PatchPart, PatchRecord

LEMMA DownloadFollows ==
  ASSUME WidgetInv, Follows, NEW a \in App, FetchStep(a)
  PROVE  Follows'
<1> USE DEF WidgetInv
<1>1. CASE FetchInstalls(a) \/ FetchEnds(a) \/ TellPage(a) \/ ThrottleEnds(a)
  BY <1>1, FollowsAlone DEF FetchInstalls, FetchEnds, TellPage, ThrottleEnds, flags, threads, files
<1>2. CASE KillInactive(a)
  <2>1. CASE UNCHANGED pages
    BY <1>2, <2>1, FollowsAlone DEF KillInactive, flags, threads, files
  <2>2. CASE pages' = SetProc(fetching[a].at, "none")
    <3>1. DataStays
      BY <2>2, ProcData DEF Proc
    <3>2. pages' \in Seq(PageEntry)
      BY <2>2, ProcWritten DEF SetProc, Proc, ListPart
    <3>3. QED
      BY <1>2, <3>1, <3>2, FollowsStays DEF KillInactive, flags, threads, files
  <2>3. QED
    BY <1>2, <2>1, <2>2 DEF KillInactive, Killed
<1>3. QED
  BY <1>1, <1>2 DEF FetchStep

\* The iterations of the main loop, but for the beginning of a reload.
LEMMA LoopFollows ==
  ASSUME WidgetInv, Follows, NoPages \/ KeepPage \/ ChangePage \/ Restarted
  PROVE  Follows'
<1> USE DEF WidgetInv
<1>1. CASE NoPages
  BY <1>1, FollowsAlone DEF NoPages, threads, files
<1>2. CASE KeepPage
  <2>1. CASE UNCHANGED pages
    BY <1>2, <2>1, FollowsAlone DEF KeepPage, flags, files
  <2>2. CASE pages' = SetProc(NextPage(last), "running")
    <3>1. DataStays
      BY <2>2, ProcData DEF Proc
    <3>2. pages' \in Seq(PageEntry)
      BY <2>2, ProcWritten DEF SetProc, Proc, ListPart
    <3>3. QED
      BY <1>2, <3>1, <3>2, FollowsStays DEF KeepPage, flags, files
  <2>3. QED
    BY <1>2, <2>1, <2>2 DEF KeepPage
<1>3. CASE ChangePage
  <2>1. PICK i \in Shows \ {last} :
          pages' = [j \in DOMAIN pages |->
             [pages[j] EXCEPT !.proc = IF j = i THEN Resumed(j) ELSE Suspended(j, i)]]
    BY <1>3 DEF ChangePage
  <2> DEFINE f == [j \in DOMAIN pages |-> IF j = i THEN Resumed(j) ELSE Suspended(j, i)]
  <2>2. f \in [DOMAIN pages -> Proc]
    <3>1. \A j \in DOMAIN pages : pages[j] \in PageEntry
      BY DEF ListPart
    <3>2. \A e \in PageEntry : e.proc \in Proc
      BY DEF PageEntry
    <3>3. \A j \in DOMAIN pages : Resumed(j) \in Proc /\ Suspended(j, i) \in Proc
      BY <3>1, <3>2 DEF Resumed, Suspended, Proc
    <3>4. QED
      BY <3>3
  <2>3. pages' = [j \in DOMAIN pages |-> [pages[j] EXCEPT !.proc = f[j]]]
    BY <2>1
  <2> HIDE DEF f
  <2>4. DataStays
    BY <2>2, <2>3, ProcsData
  <2>5. pages' \in Seq(PageEntry)
    BY <1>3, ChangePageKeeps DEF ListPart
  <2>6. QED
    BY <1>3, <2>4, <2>5, FollowsStays DEF ChangePage, flags, files
<1>4. CASE Restarted
  <2>1. CASE UNCHANGED pages
    BY <1>4, <2>1, FollowsAlone DEF Restarted, flags, files
  <2>2. CASE pages' = SetProc(restarting.at, "running")
    <3>1. DataStays
      BY <2>2, ProcData DEF Proc
    <3>2. pages' \in Seq(PageEntry)
      BY <2>2, ProcWritten DEF SetProc, Proc, ListPart
    <3>3. QED
      BY <1>4, <3>1, <3>2, FollowsStays DEF Restarted, flags, files
  <2>3. QED
    BY <1>4, <2>1, <2>2 DEF Restarted, Started
<1>5. QED
  BY <1>1, <1>2, <1>3, <1>4

\* Buttons, games and deaths of processes.
LEMMA InputFollows ==
  ASSUME WidgetInv, Follows,
         Press \/ EnterGame \/ GameExits \/ \E i \in DOMAIN pages : ProcessDies(i)
  PROVE  Follows'
<1> USE DEF WidgetInv
<1>1. CASE Press /\ UNCHANGED pages
  BY <1>1, FollowsAlone DEF Press, flags, threads, files
<1>2. CASE Press /\ LeaveWidgets
  <2> DEFINE f == [j \in DOMAIN pages |-> IF pages[j].app \in marked THEN "none" ELSE pages[j].proc]
  <2>1. \A j \in DOMAIN pages : pages[j] \in PageEntry
    BY DEF ListPart
  <2>2. \A e \in PageEntry : e.proc \in Proc /\ [e EXCEPT !.proc = e.proc] = e
    BY DEF PageEntry
  <2>3. f \in [DOMAIN pages -> Proc]
    BY <2>1, <2>2 DEF Proc
  <2>4. pages' = [j \in DOMAIN pages |-> [pages[j] EXCEPT !.proc = f[j]]]
    BY <1>2, <2>1, <2>2 DEF LeaveWidgets
  <2> HIDE DEF f
  <2>5. DataStays
    BY <2>3, <2>4, ProcsData
  <2>6. pages' \in Seq(PageEntry)
    BY <1>2, PressKeeps DEF ListPart
  <2>7. QED
    BY <1>2, <2>5, <2>6, FollowsStays DEF Press, flags, threads, files
<1>3. CASE EnterGame
  <2>1. patch'.pc = patch.pc /\ patch'.new = patch.new /\ (patch'.applies <=> patch.applies)
    BY <1>3, ClearedPatch DEF EnterGame, Terminate
  <2>2. QED
    BY <1>3, <2>1, FollowsCleared DEF EnterGame, Terminate, AtTop, files
<1>4. CASE GameExits
  BY <1>4, FollowsAlone DEF GameExits, threads, files
<1>5. ASSUME NEW i \in DOMAIN pages, ProcessDies(i) PROVE Follows'
  <2>1. pages' = SetProc(i, "dead")
    BY <1>5 DEF ProcessDies
  <2>2. DataStays
    BY <2>1, ProcData DEF Proc
  <2>3. pages' \in Seq(PageEntry)
    BY <2>1, ProcWritten DEF SetProc, Proc, ListPart
  <2>4. QED
    BY <1>5, <2>2, <2>3, FollowsStays DEF ProcessDies, flags, threads, files
<1>6. QED
  BY <1>1, <1>2, <1>3, <1>4, <1>5 DEF Press, Turn, Freeze, EnterWidgets

\* The reload of the main loop.
LEMMA ReloadFollows ==
  ASSUME WidgetInv, Follows, StartReload \/ ReloadStep(MainLoop)
  PROVE  Follows'
<1> USE DEF WidgetInv
<1>0. MainLoop \in Reloader /\ reload \in [Reloader -> ReloadRecord] /\ reload[MainLoop] \in ReloadRecord
  BY DEF Reloader, ReloadPart
<1>1. CASE StartReload
  <2>1. reload'[MainLoop].pc = "term"
    BY <1>0, <1>1 DEF StartReload, NoReload, AtTop
  <2>2. QED
    BY <1>1, <2>1 DEF StartReload, Follows, Awaited, files
<1>2. CASE ReloadTerminates(MainLoop)
  <2>1. patch'.pc = patch.pc /\ patch'.new = patch.new /\ (patch'.applies <=> patch.applies)
    BY <1>2, ClearedPatch DEF ReloadTerminates, Terminate
  <2>2. reload'[MainLoop].pc = "read"
    BY <1>0, <1>2 DEF ReloadTerminates, ReloadRecord
  <2>3. QED
    BY <1>2, <2>1, <2>2, FollowsCleared DEF ReloadTerminates, Terminate, files
<1>3. CASE ReloadReads(MainLoop)
  <2>1. reload'[MainLoop].pc = "build" /\ reload'[MainLoop].read = conf
    BY <1>0, <1>3 DEF ReloadReads, ReloadRecord
  <2>2. QED
    BY <1>3, <2>1 DEF ReloadReads, Follows, Awaited, files
<1>4. CASE ReloadBuilds(MainLoop)
  <2>1. patch'.pc = patch.pc /\ patch'.new = patch.new /\ (patch'.applies <=> patch.applies)
    BY <1>4, ClearedPatch DEF ReloadBuilds
  <2>2. reload'[MainLoop].pc = "index"
    BY <1>0, <1>4 DEF ReloadBuilds, ReloadRecord
  <2>3. reload[MainLoop].read = conf => Matches(conf)'
    <3>1. conf \in PageConf
      BY DEF PlainPart
    <3>2. QED
      BY <1>4, <3>1, BuiltMatches DEF ReloadBuilds, Matches, files
  <2>4. QED
    BY <1>4, <2>1, <2>2, <2>3 DEF ReloadBuilds, Follows, Awaited, files, flags
<1>5. CASE ReloadEnds(MainLoop)
  <2>1. reload[MainLoop].pc = "index" /\ reload'[MainLoop].pc = "idle"
    BY <1>0, <1>5 DEF ReloadEnds, EndReload, NoReload
  <2>2. UNCHANGED <<pages, conf, split, patch, reloadPages>>
    BY <1>5 DEF ReloadEnds, EndReload, files
  <2>3. QED
    BY <2>1, <2>2 DEF Follows, Awaited, Matches, Applying
<1>6. QED
  BY <1>1, <1>2, <1>3, <1>4, <1>5 DEF ReloadStep

\* A snapshot, and the soft apply.
LEMMA SnapshotFollows ==
  ASSUME WidgetInv, Follows, NEW c \in PageConf, BridgeSnapshot(c) \/ OtherSnapshot(c)
  PROVE  Follows'
<1>1. PICK writes \in BOOLEAN, applies \in BOOLEAN : Taken(c, writes, applies)
  BY DEF BridgeSnapshot, OtherSnapshot, Applies
<1>2. UNCHANGED <<conf, pages, reload, reloadPages>> /\ patch.pc = "idle"
  BY DEF BridgeSnapshot, OtherSnapshot, files, flags
<1>3. /\ patch'.pc \in {"idle", "write", "check"}
      /\ patch'.pc # "idle" => patch'.new = c /\ (patch'.applies <=> applies)
      /\ patch'.pc = "write" <=> writes
      /\ patch'.pc = "check" <=> applies /\ ~writes
  BY <1>1, PatchTaken DEF WidgetInv
<1>4. CASE applies
  <2>1. Awaited' /\ (~writes => split' \/ c = conf)
    BY <1>1, <1>3, <1>4 DEF Taken, Awaited
  <2>2. QED
    BY <1>2, <1>3, <1>4, <2>1 DEF Follows
<1>5. CASE ~applies
  <2>1. split => split'
    BY <1>1, <1>5 DEF Taken
  <2>2. writes => split' \/ c = conf
    BY <1>1, <1>5 DEF Taken
  <2>3. ~Applying
    BY <1>2 DEF Applying
  <2>4. Matches(conf) => Matches(conf)'
    BY <1>2 DEF Matches
  <2>5. QED
    BY <1>2, <1>3, <1>5, <2>1, <2>2, <2>3, <2>4 DEF Follows, Awaited
<1>6. QED
  BY <1>4, <1>5

\* What is written without being applied is what conf.json says, or split.
LEMMA WriteFollows ==
  ASSUME WidgetInv, Follows, WritePages
  PROVE  Follows'
<1>0. patch \in PatchRecord /\ patch.pc = "write"
  BY DEF WritePages, WidgetInv, PatchPart
<1>1. UNCHANGED <<pages, reload, reloadPages, split>> /\ conf' = patch.new
  BY DEF WritePages, flags
<1>2. CASE patch.applies
  <2>1. patch'.pc = "check" /\ patch'.new = patch.new
    BY <1>0, <1>2, PatchPc DEF WritePages
  <2>2. QED
    BY <1>1, <2>1 DEF Follows, Awaited
<1>3. CASE ~patch.applies
  <2>1. patch'.pc = "idle"
    BY <1>3 DEF WritePages, NoPatch
  <2>2. split \/ conf' = conf
    BY <1>0, <1>1, <1>3 DEF Follows
  <2>3. ~Applying
    BY <1>0 DEF Applying
  <2>4. conf' = conf /\ Matches(conf) => Matches(conf)'
    BY <1>1 DEF Matches
  <2>5. QED
    BY <1>0, <1>1, <1>3, <2>1, <2>2, <2>3, <2>4 DEF Follows, Awaited
<1>4. QED
  BY <1>2, <1>3

LEMMA CheckFollows ==
  ASSUME WidgetInv, Follows, CheckPatch
  PROVE  Follows'
<1> USE DEF WidgetInv
<1>0. patch \in PatchRecord /\ patch.pc = "check" /\ patch.new \in PageConf /\ shown \in Nat
  BY DEF CheckPatch, PatchPart, PlainPart
<1>1. UNCHANGED <<pages, conf, split, reload>>
  BY DEF CheckPatch, files
<1>2. CASE patch' = NoPatch
  BY <1>0, <1>1, <1>2 DEF CheckPatch, NoPatch, Follows, Awaited
<1>3. CASE patch' # NoPatch
  <2>1. SamePages /\ patch' = [patch EXCEPT !.pc = "page", !.at = 1, !.active = shown, !.gone = FALSE]
        /\ UNCHANGED reloadPages
    BY <1>3 DEF CheckPatch
  <2>2. patch'.pc = "page" /\ patch'.new = patch.new /\ patch'.at = 1 /\ ~patch'.gone
    BY <1>0, <2>1 DEF PatchRecord
  <2>3. pages # <<>>
    BY <1>0, <2>1, SameLength DEF ListPart
  <2>4. Applying'
    BY <2>2 DEF Applying
  <2>5. QED
    BY <1>0, <1>1, <2>1, <2>2, <2>3, <2>4 DEF Follows, Awaited
<1>4. QED
  BY <1>2, <1>3

\* While a soft apply is on its list, it has applied what it should, or a reload is to come.
LEMMA ApplyingHere ==
  ASSUME WidgetInv, Follows, patch.pc \in {"page", "set", "start"}, ~patch.gone
  PROVE  split \/ Applying \/ reloadPages \/ reload[MainLoop].pc = "term"
<1> USE DEF WidgetInv
<1>1. patch.new \in PageConf /\ SamePages /\ patch.at \in 1..(Len(patch.new) + 1)
      /\ (patch.pc # "page" => patch.at <= Len(patch.new))
  BY DEF PatchPart, PatchInPlace
<1>2. Len(patch.new) \in Nat /\ Len(pages) = Len(patch.new) + 1 /\ pages # <<>>
  BY <1>1, SameLength DEF ListPart
<1>3. CASE Matches(conf)
  <2>1. split \/ \A j \in 1..Len(patch.new) : SameData(pages[j], patch.new[j])
    BY <1>3 DEF Matches, Follows, Awaited
  <2>2. \A j \in 1..(patch.at - 1) : j \in 1..Len(patch.new)
    BY <1>1, <1>2
  <2>3. patch.pc # "page" => patch.at \in 1..Len(patch.new)
    BY <1>1, <1>2
  <2>4. QED
    BY <2>1, <2>2, <2>3 DEF Applying, SameData
<1>4. QED
  BY <1>2, <1>3 DEF Follows, Awaited

\* It goes on, or ends, when no reload is to come.
LEMMA ApplyGoesOn ==
  ASSUME WidgetInv, Follows, patch.pc \in {"page", "set", "start"}, ~patch.gone,
         patch'.new = patch.new, Applying => Applying',
         UNCHANGED <<conf, split, reload>>, reloadPages => reloadPages'
  PROVE  Follows'
<1>1. split \/ Applying \/ reloadPages \/ reload[MainLoop].pc = "term"
  BY ApplyingHere
<1>2. pages # <<>>
  <2>1. patch.new \in PageConf /\ SamePages
    BY DEF WidgetInv, PatchPart, PatchInPlace
  <2>2. QED
    BY <2>1, SameLength DEF WidgetInv, ListPart
<1>3. QED
  BY <1>1, <1>2 DEF Follows, Awaited

LEMMA PatchPageFollows ==
  ASSUME WidgetInv, Follows, PatchPage
  PROVE  Follows'
<1> USE DEF WidgetInv
<1>0. patch \in PatchRecord /\ patch.pc = "page" /\ patch.new \in PageConf /\ patch.at \in Nat
  BY DEF PatchPart, PatchPage, PatchRecord
<1>1. UNCHANGED <<conf, split, reload>> /\ (reloadPages => reloadPages')
  BY DEF PatchPage, files
<1>2. CASE patch.gone
  BY <1>0, <1>1, <1>2 DEF PatchPage, NoPatch, Follows, Awaited, Applying, Matches
<1>3. CASE ~patch.gone /\ patch.at > Len(patch.new)
  <2>1. patch' = NoPatch /\ UNCHANGED pages
    BY <1>3 DEF PatchPage
  <2>2. ASSUME Applying, ~split PROVE Matches(conf)'
    <3>1. Len(patch.new) \in Nat /\ Len(pages) = Len(patch.new) + 1 /\ patch.new = conf
      BY <1>0, <2>2, ApplyingInList DEF Follows, Awaited
    <3>2. \A j \in 1..Len(patch.new) : j \in 1..(patch.at - 1)
      BY <1>0, <1>3, <3>1
    <3>3. \A j \in 1..Len(patch.new) : SameData(pages[j], patch.new[j])
      BY <2>2, <3>2 DEF Applying
    <3>4. QED
      BY <1>1, <2>1, <3>1, <3>3 DEF Matches
  <2>3. split \/ Applying \/ reloadPages \/ reload[MainLoop].pc = "term"
    BY <1>0, <1>3, ApplyingHere
  <2>4. pages # <<>> => split' \/ reloadPages' \/ reload'[MainLoop].pc = "term" \/ Matches(conf)'
    BY <1>1, <2>2, <2>3
  <2>5. patch'.pc = "idle"
    BY <2>1 DEF NoPatch
  <2>6. reload[MainLoop].pc \notin {"read", "build"}
    <3>1. pages # <<>>
      <4>1. SamePages
        BY <1>0, <1>3 DEF PatchPart, PatchInPlace
      <4>2. QED
        BY <1>0, <4>1, SameLength DEF ListPart
    <3>2. QED
      BY <3>1 DEF Follows, Awaited
  <2>7. QED
    BY <1>1, <2>1, <2>4, <2>5, <2>6 DEF Follows, Awaited
<1>4. CASE ~patch.gone /\ ~(patch.at > Len(patch.new))
  <2> DEFINE n == patch.at
             new == patch.new[n]
             e == pages[n]
  <2>1. patch'.new = patch.new
    BY <1>0, <1>4 DEF PatchPage, PatchRecord
  <2>2. ASSUME Applying PROVE Applying'
    <3>1. /\ Len(patch.new) \in Nat /\ Len(pages) = Len(patch.new) + 1
          /\ n \in 1..Len(patch.new) /\ n \in 1..Len(pages) /\ e.uuid = new.uuid
      <4>1. /\ Len(patch.new) \in Nat /\ Len(pages) = Len(patch.new) + 1 /\ n \in 1..Len(pages)
            /\ \A j \in 1..Len(patch.new) : pages[j].uuid = patch.new[j].uuid
        BY <2>2, ApplyingInList
      <4>2. n \in 1..Len(patch.new)
        BY <1>0, <1>4, <4>1
      <4>3. QED
        BY <4>1, <4>2
    <3>2. \A j \in 1..(n - 1) : j \in 1..Len(pages) /\ j # n /\ SameData(pages[j], patch.new[j])
      BY <2>2, <3>1 DEF Applying
    <3>3. CASE e.app = new.app /\ e.fields = new.fields
      <4>1. pages' = [pages EXCEPT ![n].enabled = new.enabled] /\ patch' = [patch EXCEPT !.at = n + 1]
        BY <1>0, <1>4, <3>3 DEF PatchPage
      <4>2. patch'.pc = "page" /\ patch'.at = n + 1 /\ ~patch'.gone
        BY <1>0, <1>4, <4>1 DEF PatchRecord
      <4>3. \A j \in 1..(n - 1) : pages'[j] = pages[j]
        BY <3>2, <4>1 DEF ListPart
      <4>4. e \in PageEntry /\ pages'[n] = [e EXCEPT !.enabled = new.enabled]
        BY <3>1, <4>1 DEF ListPart
      <4>5. SameData(pages'[n], new)
        BY <3>1, <3>3, <4>4 DEF SameData, PageEntry
      <4>6. \A j \in 1..n : j = n \/ j \in 1..(n - 1)
        BY <3>1
      <4>7. \A j \in 1..(patch'.at - 1) : SameData(pages'[j], patch.new[j])
        BY <1>0, <3>2, <4>2, <4>3, <4>5, <4>6
      <4>8. QED
        BY <2>1, <4>2, <4>7 DEF Applying
    <3>4. CASE ~(e.app = new.app /\ e.fields = new.fields)
      <4>1. pages' = [pages EXCEPT ![n].enabled = new.enabled, ![n].proc = "none"]
            /\ patch' = [patch EXCEPT !.pc = "set"]
        BY <1>0, <1>4, <3>4 DEF PatchPage
      <4>2. patch'.pc = "set" /\ patch'.at = n /\ ~patch'.gone
        BY <1>0, <1>4, <4>1 DEF PatchRecord
      <4>3. \A j \in 1..(n - 1) : pages'[j] = pages[j]
        BY <3>2, <4>1 DEF ListPart
      <4>4. e \in PageEntry /\ pages'[n] = [e EXCEPT !.enabled = new.enabled, !.proc = "none"]
        <5>1. e \in PageEntry /\ DOMAIN pages = 1..Len(pages)
          BY <3>1 DEF ListPart
        <5>2. QED
          BY <3>1, <4>1, <5>1
      <4>5. pages'[n].enabled = new.enabled
        BY <4>4 DEF PageEntry
      <4>6. QED
        BY <2>1, <3>2, <4>2, <4>3, <4>5 DEF Applying
    <3>5. QED
      BY <3>3, <3>4
  <2>3. QED
    BY <1>0, <1>1, <1>4, <2>1, <2>2, ApplyGoesOn
<1>5. QED
  BY <1>2, <1>3, <1>4

LEMMA PatchWidgetFollows ==
  ASSUME WidgetInv, Follows, PatchWidget
  PROVE  Follows'
<1> USE DEF WidgetInv
<1>0. patch \in PatchRecord /\ patch.pc = "set" /\ patch.new \in PageConf /\ patch.at \in Nat
  BY DEF PatchPart, PatchWidget, PatchRecord
<1>1. UNCHANGED <<conf, split, reload, reloadPages>>
  BY DEF PatchWidget, files, flags
<1>2. CASE patch.gone
  <2>1. UNCHANGED pages /\ patch' = [patch EXCEPT !.pc = "page"]
    BY <1>2 DEF PatchWidget
  <2>2. patch'.pc = "page" /\ patch'.new = patch.new
    BY <1>0, <2>1 DEF PatchRecord
  <2>3. QED
    BY <1>0, <1>1, <1>2, <2>1, <2>2 DEF Follows, Awaited, Applying, Matches
<1>3. CASE ~patch.gone
  <2> DEFINE n == patch.at
             new == patch.new[n]
             e == pages[n]
  <2>1. patch' = [patch EXCEPT !.pc = "start"] \/ patch' = [patch EXCEPT !.pc = "page", !.at = @ + 1]
    BY <1>3 DEF PatchWidget
  <2>2. /\ patch'.new = patch.new /\ ~patch'.gone
        /\ \/ patch'.pc = "start" /\ patch'.at = n
           \/ patch'.pc = "page" /\ patch'.at = n + 1
    <3>1. CASE patch' = [patch EXCEPT !.pc = "start"]
      <4>1. /\ patch'.pc = "start" /\ patch'.new = patch.new /\ patch'.at = patch.at
            /\ patch'.gone <=> patch.gone
        BY <1>0, <3>1, PatchPc
      <4>2. ~patch'.gone
        BY <1>3, <4>1
      <4>3. patch'.at = n
        BY <4>1
      <4>4. QED
        BY <4>1, <4>2, <4>3
    <3>2. CASE patch' = [patch EXCEPT !.pc = "page", !.at = @ + 1]
      BY <1>0, <1>3, <3>2, PatchAdvances
    <3>3. QED
      BY <2>1, <3>1, <3>2
  <2>3. ASSUME Applying PROVE Applying'
    <3>1. /\ Len(patch.new) \in Nat /\ Len(pages) = Len(patch.new) + 1
          /\ n \in 1..Len(patch.new) /\ n \in 1..Len(pages) /\ e.uuid = new.uuid
      BY <1>0, <2>3, ApplyingInList
    <3>2. \A j \in 1..(n - 1) : j \in 1..Len(pages) /\ j # n /\ SameData(pages[j], patch.new[j])
      BY <2>3, <3>1 DEF Applying
    <3>3. pages' = [pages EXCEPT ![n].app = new.app, ![n].fields = new.fields]
      BY <1>3 DEF PatchWidget
    <3>4. \A j \in 1..(n - 1) : pages'[j] = pages[j]
      BY <3>2, <3>3 DEF ListPart
    <3>5. e \in PageEntry /\ pages'[n] = [e EXCEPT !.app = new.app, !.fields = new.fields]
      <4>1. e \in PageEntry /\ DOMAIN pages = 1..Len(pages)
        BY <3>1 DEF ListPart
      <4>2. QED
        BY <3>1, <3>3, <4>1
    <3>6. e.enabled = new.enabled
      BY <1>0, <2>3 DEF Applying
    <3>7. SameData(pages'[n], new)
      BY <3>1, <3>5, <3>6 DEF SameData, PageEntry
    <3>8. \A j \in 1..n : j = n \/ j \in 1..(n - 1)
      BY <3>1
    <3>9. \A j \in 1..n : SameData(pages'[j], patch.new[j])
      BY <3>2, <3>4, <3>7, <3>8
    <3>10. CASE patch'.pc = "start" /\ patch'.at = n
      BY <2>2, <3>2, <3>4, <3>7, <3>10 DEF Applying
    <3>11. CASE patch'.pc = "page" /\ patch'.at = n + 1
      <4>1. 1..(patch'.at - 1) = 1..n
        BY <1>0, <3>11
      <4>2. QED
        BY <2>2, <3>9, <3>11, <4>1 DEF Applying
    <3>12. QED
      BY <2>2, <3>10, <3>11
  <2>4. QED
    BY <1>0, <1>1, <1>3, <2>2, <2>3, ApplyGoesOn
<1>4. QED
  BY <1>2, <1>3

LEMMA PatchStartedFollows ==
  ASSUME WidgetInv, Follows, PatchStarted
  PROVE  Follows'
<1> USE DEF WidgetInv
<1>0. patch \in PatchRecord /\ patch.pc = "start" /\ patch.new \in PageConf /\ patch.at \in Nat
  BY DEF PatchPart, PatchStarted, PatchRecord
<1>1. UNCHANGED <<conf, split, reload, reloadPages>> /\ patch' = [patch EXCEPT !.pc = "page", !.at = @ + 1]
  BY DEF PatchStarted, files, flags
<1>2. patch'.pc = "page" /\ patch'.new = patch.new /\ patch'.at = patch.at + 1 /\ (patch'.gone <=> patch.gone)
  BY <1>0, <1>1 DEF PatchRecord
<1>3. CASE patch.gone
  <2>1. UNCHANGED pages
    BY <1>3 DEF PatchStarted, Started, ListPart
  <2>2. QED
    BY <1>0, <1>1, <1>2, <1>3, <2>1 DEF Follows, Awaited, Applying, Matches
<1>4. CASE ~patch.gone
  <2>1. ASSUME Applying PROVE Applying'
    <3>1. DataStays
      <4>1. Started(patch.at)
        BY <1>4 DEF PatchStarted
      <4>2. \A j \in 1..Len(pages) : SameData(pages[j], pages[j])
        BY DEF SameData
      <4>3. QED
        BY <4>1, <4>2, ProcData DEF Started, Proc, DataStays
    <3>2. \A j \in 1..patch.at : j \in 1..Len(pages) /\ (j = patch.at \/ j \in 1..(patch.at - 1))
      BY <1>0, <2>1, ApplyingInList
    <3>3. \A j \in 1..patch.at : SameData(pages[j], patch.new[j])
      BY <1>0, <2>1, <3>2 DEF Applying
    <3>4. \A j \in 1..patch.at : SameData(pages'[j], patch.new[j])
      BY <3>1, <3>2, <3>3 DEF DataStays, SameData
    <3>5. 1..(patch'.at - 1) = 1..patch.at
      BY <1>0, <1>2
    <3>6. QED
      BY <1>2, <1>4, <3>4, <3>5 DEF Applying
  <2>2. QED
    BY <1>0, <1>1, <1>2, <1>4, <2>1, ApplyGoesOn
<1>5. QED
  BY <1>3, <1>4

LEMMA FollowsInit == WidgetInit => Follows
<1> SUFFICES ASSUME WidgetInit PROVE Follows
  OBVIOUS
<1>1. PICK f : conf \in PageConf /\ pages = Build(conf, f)
  BY PageAssumption DEF WidgetInit, PagesAtBoot
<1>2. Matches(conf)
  BY <1>1, BuiltMatches DEF Matches
<1>3. MainLoop \in Reloader
  BY DEF Reloader
<1>4. QED
  BY <1>2, <1>3 DEF WidgetInit, Follows, NoPatch, NoReload

LEMMA FollowsStep ==
  ASSUME WidgetInv, Follows, Quiet, Quiet', [WidgetNext]_widgetVars
  PROVE  Follows'
<1>1. CASE WidgetLoop
  BY <1>1, ReloadFollows, LoopFollows DEF WidgetLoop
<1>2. CASE Press \/ EnterGame \/ GameExits \/ \E i \in DOMAIN pages : ProcessDies(i)
  BY <1>2, InputFollows
<1>3. ASSUME NEW w \in Reloader, ReloadStep(w) PROVE Follows'
  <2>1. CASE w = MainLoop
    BY <1>3, <2>1, ReloadFollows
  <2>2. CASE w \in PageRequester
    BY <1>3, <2>2 DEF Quiet, ReloadStep, ReloadTerminates, ReloadReads, ReloadBuilds, ReloadEnds, EndReload
  <2>3. QED
    BY <2>1, <2>2 DEF Reloader
<1>4. ASSUME NEW w \in PageRequester, RequestPages(w) PROVE Follows'
  <2>1. reload'[w].pc = "term"
    BY <1>4 DEF RequestPages, NoReload, WidgetInv, ReloadPart, Reloader
  <2>2. QED
    BY <2>1 DEF Quiet
<1>5. ASSUME NEW a \in App, FetchStep(a) PROVE Follows'
  BY <1>5, DownloadFollows
<1>6. ASSUME NEW c \in PageConf, BridgeSnapshot(c) \/ OtherSnapshot(c) PROVE Follows'
  BY <1>6, SnapshotFollows
<1>7. CASE PatchStep
  BY <1>7, WriteFollows, CheckFollows, PatchPageFollows, PatchWidgetFollows, PatchStartedFollows DEF PatchStep
<1>8. CASE UNCHANGED widgetVars
  BY <1>8, FollowsAlone DEF widgetVars
<1>9. QED
  BY <1>1, <1>2, <1>3, <1>4, <1>5, <1>6, <1>7, <1>8 DEF WidgetNext

\* The safety half of SnapshotShown: as long as no request writes conf.json, the pages, when
\* there are any, are those of conf.json whenever no soft apply and no reload is under way or
\* asked for, in whatever order snapshots, soft applies, reloads, kills and restarts come;
\* but after a snapshot that was written and not applied, or applied and not written
\* (remote_device_config.py:861-868), only from the next one that is both.
THEOREM SettledPagesAreOfConf ==
  WidgetSpec /\ []Quiet => [](Settled /\ ~split /\ pages # <<>> => Configured = conf)
<1>1. WidgetInv /\ Follows => (Settled /\ ~split /\ pages # <<>> => Configured = conf)
  <2> SUFFICES ASSUME WidgetInv, Follows, Settled, ~split, pages # <<>> PROVE Configured = conf
    OBVIOUS
  <2>1. Matches(conf)
    BY DEF Follows, Awaited, Settled, Applying
  <2>2. QED
    BY <2>1, MatchesConfigured DEF WidgetInv, PlainPart
<1>2. QED
  BY WidgetInvInit, WidgetInvStep, FollowsInit, FollowsStep, <1>1, PTL DEF WidgetSpec

--------------------------------------------------------------------------------
\* The settings screens.

\* The parts of the invariant that the pages, the sweeps and the Wi-Fi have to do with.
PagePart ==
  /\ page \in Pages /\ overlay \in Overlays
  /\ selected \in Ssid \cup {NoSsid} /\ bySaved \in BOOLEAN /\ forgets \in Ssid \cup {NoSsid}
  /\ page = "password" => selected \in Ssid
  /\ OverlayFits

WifiPart ==
  /\ joined \in Ssid \cup {NoSsid} /\ profiles \in SUBSET Ssid
  /\ listed \in [Ssid -> RowKind]
  /\ scan \in [at: {"idle", "running", "read"}, rows: [Ssid -> RowKind]]
  /\ conn \in Attempt /\ forget \in Deletion
  /\ conn.status = "connecting" => conn.ssid \in Ssid
  /\ forget.status \in {"forgetting", "success"} => forget.ssid \in Ssid

SweepPart ==
  /\ sweep \in [Sweep -> Calibration]
  /\ mine \in ours \cup {NoSweep} /\ ours \in SUBSET Sweep
  /\ SweepHasThread /\ OneSweepRuns

LEMMA ScreenParts == ScreensTypeOK <=> PagePart /\ WifiPart /\ SweepPart /\ presses \in 0 .. MaxPress
BY DEF ScreensTypeOK, PagePart, WifiPart, SweepPart, NamedNetworks

LEMMA ScreenPartsNext ==
  PagePart' /\ WifiPart' /\ SweepPart' /\ (presses \in 0 .. MaxPress)' => ScreensTypeOK'
BY DEF ScreensTypeOK, PagePart, WifiPart, SweepPart, NamedNetworks

LEMMA ScreensTypeInit == ScreensInit => ScreensTypeOK
<1> SUFFICES ASSUME ScreensInit PROVE ScreensTypeOK
  OBVIOUS
<1> USE NoNetwork, NoCalibration, PressBound DEF ScreensInit
<1>1. PagePart
  BY DEF PagePart, OverlayFits, Pages, Overlays, Running
<1>2. WifiPart
  BY DEF WifiPart, Unlisted, ScanIdle, NoAttempt, Attempt, Deletion, RowKind
<1>3. SweepPart
  BY DEF SweepPart, SweepHasThread, OneSweepRuns, Fresh, Calibration, Passes
<1>4. QED
  BY <1>1, <1>2, <1>3, ScreenParts

\* What the Wi-Fi controller makes of its records.
LEMMA WifiTyped ==
  ASSUME WifiPart
  PROVE  /\ ScanAsked \in [at: {"idle", "running", "read"}, rows: [Ssid -> RowKind]]
         /\ ScanIdle \in [at: {"idle", "running", "read"}, rows: [Ssid -> RowKind]]
         /\ KnownRows \in [Ssid -> RowKind]
         /\ NoAttempt \in Attempt /\ NoAttempt \in Deletion /\ NoAttempt.status = "idle"
         /\ ClearConnection(conn) \in {conn, NoAttempt}
         /\ ClearForget(forget) \in {forget, NoAttempt}
         /\ \A s \in Ssid, c \in {conn, NoAttempt} :
              ConnectAsked(c, s) \in {conn, [status |-> "connecting", ssid |-> s]}
         /\ \A s \in Ssid :
              /\ ForgetAsked(forget, s) \in {forget, [status |-> "forgetting", ssid |-> s]}
              /\ [status |-> "connecting", ssid |-> s] \in Attempt
              /\ [status |-> "forgetting", ssid |-> s] \in Deletion
         /\ \A s \in {"success", "error"} :
              /\ [conn EXCEPT !.status = s] \in Attempt
              /\ [conn EXCEPT !.status = s].ssid = conn.ssid
              /\ [conn EXCEPT !.status = s].status = s
              /\ [forget EXCEPT !.status = s] \in Deletion
              /\ [forget EXCEPT !.status = s].ssid = forget.ssid
              /\ [forget EXCEPT !.status = s].status = s
BY DEF WifiPart, ScanAsked, ScanIdle, Unlisted, KnownRows, NoAttempt, ClearConnection, ClearForget,
       ConnectAsked, ForgetAsked, Attempt, Deletion, RowKind

\* The sweep the buttons are about has written its file and is about to say so.
Saved == sweep[mine].thread = "saved"

\* What a step does to each of the three parts when it does not touch them.
LEMMA PageStays ==
  ASSUME PagePart, UNCHANGED pageVars, Running' => Running /\ (Saved => Saved')
  PROVE  PagePart'
BY DEF PagePart, OverlayFits, Saved, pageVars

LEMMA WifiStays == WifiPart /\ UNCHANGED wifiVars => WifiPart'
BY DEF WifiPart, wifiVars

LEMMA SweepStays ==
  SweepPart /\ UNCHANGED sweepVars => SweepPart' /\ (Running' <=> Running) /\ (Saved' <=> Saved)
BY DEF SweepPart, sweepVars, SweepHasThread, OneSweepRuns, Running, Saved

\* A SettingsState object that is dropped takes its pages and its sweep with it.
LEMMA LeavingDropsAll ==
  ASSUME PagePart, SweepPart, LeaveSettings, UNCHANGED sweep
  PROVE  PagePart' /\ SweepPart'
BY DEF PagePart, SweepPart, LeaveSettings, OverlayFits, SweepHasThread, OneSweepRuns, Running,
       Pages, Overlays

LEMMA PressCounted == presses \in 0 .. MaxPress /\ Pressed => presses' \in 0 .. MaxPress
BY PressBound DEF Pressed

\* The Wi-Fi workers.
LEMMA WifiWorkKeeps ==
  ASSUME ScreensTypeOK, WifiWork
  PROVE  WifiPart' /\ UNCHANGED <<pageVars, sweepVars, presses>>
<1> USE ScreenParts, WifiTyped
<1>1. CASE WifiScanReads \/ WifiScanEnds
  BY <1>1 DEF WifiScanReads, WifiScanEnds, WifiPart
<1>2. CASE WifiConnectEnds
  <2>1. conn.ssid \in Ssid
    BY <1>2 DEF WifiConnectEnds, WifiPart
  <2>2. QED
    BY <1>2, <2>1 DEF WifiConnectEnds, WifiPart
<1>3. CASE WifiForgetEnds
  <2>1. forget.ssid \in Ssid
    BY <1>3 DEF WifiForgetEnds, WifiPart
  <2>2. QED
    BY <1>3, <2>1 DEF WifiForgetEnds, WifiPart
<1>4. QED
  BY <1>1, <1>2, <1>3 DEF WifiWork

\* The records of a sweep.
LEMMA CalibrationTyped ==
  ASSUME NEW c \in Calibration,
         NEW t \in {"restore", "save", "saved", "over"}, NEW s \in {"cancelled", "success", "error"}
  PROVE  /\ [c EXCEPT !.status = s, !.thread = t] \in Calibration
         /\ [c EXCEPT !.status = s, !.thread = t].status = s
         /\ [c EXCEPT !.status = s, !.thread = t].thread = t
         /\ [c EXCEPT !.thread = t] \in Calibration
         /\ [c EXCEPT !.thread = t].status = c.status
         /\ [c EXCEPT !.thread = t].thread = t
         /\ [c EXCEPT !.cancel = TRUE] \in Calibration
         /\ [c EXCEPT !.cancel = TRUE].status = c.status
         /\ [c EXCEPT !.cancel = TRUE].thread = c.thread
         /\ c.passes < Passes =>
              /\ [c EXCEPT !.passes = @ + 1] \in Calibration
              /\ [c EXCEPT !.passes = @ + 1].status = c.status
              /\ [c EXCEPT !.passes = @ + 1].thread = c.thread
<1>1. c = [status |-> c.status, cancel |-> c.cancel, thread |-> c.thread, passes |-> c.passes]
  BY DEF Calibration
<1>2. /\ c.status \in {"none", "running", "cancelled", "success", "error"} /\ c.cancel \in BOOLEAN
      /\ c.thread \in {"none", "pass", "restore", "save", "saved", "over"} /\ c.passes \in 0 .. Passes
  BY DEF Calibration
<1>3. c.passes < Passes => c.passes + 1 \in 0 .. Passes
  BY <1>2 DEF Passes
<1>4. [c EXCEPT !.thread = t] =
            [status |-> c.status, cancel |-> c.cancel, thread |-> t, passes |-> c.passes]
  BY DEF Calibration
<1>5. /\ [c EXCEPT !.cancel = TRUE].status = c.status
      /\ [c EXCEPT !.cancel = TRUE].thread = c.thread
      /\ [c EXCEPT !.cancel = TRUE] \in Calibration
  <2>1. [c EXCEPT !.cancel = TRUE].status = c.status /\ [c EXCEPT !.cancel = TRUE].thread = c.thread
    BY DEF Calibration
  <2>2. [c EXCEPT !.cancel = TRUE] \in Calibration
    BY DEF Calibration
  <2>3. QED
    BY <2>1, <2>2
<1>6. [c EXCEPT !.passes = @ + 1] =
            [status |-> c.status, cancel |-> c.cancel, thread |-> c.thread, passes |-> c.passes + 1]
  BY DEF Calibration
<1>7. [c EXCEPT !.status = s, !.thread = t] =
            [status |-> s, cancel |-> c.cancel, thread |-> t, passes |-> c.passes]
  <2> DEFINE d == [c EXCEPT !.status = s]
  <2>1. d = [status |-> s, cancel |-> c.cancel, thread |-> c.thread, passes |-> c.passes]
    BY DEF Calibration
  <2>2. [d EXCEPT !.thread = t] = [status |-> s, cancel |-> c.cancel, thread |-> t, passes |-> c.passes]
    <3> HIDE DEF d
    <3>1. QED
      BY <2>1
  <2>3. QED
    BY <2>2
<1>8. QED
  BY <1>2, <1>3, <1>4, <1>5, <1>6, <1>7 DEF Calibration

\* A sweep thread: what it makes of its own record, and of the overlay.
LEMMA SweepStepKeeps ==
  ASSUME ScreensTypeOK, NEW k \in Sweep, SweepStep(k)
  PROVE  SweepPart' /\ PagePart' /\ UNCHANGED <<wifiVars, presses>>
<1> USE ScreenParts
<1> DEFINE Made(c) ==
      /\ sweep' = [sweep EXCEPT ![k] = c]
      /\ c.status = "running" => c.thread \in {"pass", "restore", "save", "saved"} /\ sweep[k].status = "running"
      /\ c.thread \in {"save", "saved"} => c.status = "running"
<1>1. PICK c \in Calibration : Made(c)
  <2>0. sweep[k] \in Calibration
    BY DEF SweepPart
  <2>1. CASE SweepPasses(k)
    <3>1. CASE sweep[k].cancel
      <4> DEFINE new == [sweep[k] EXCEPT !.status = "cancelled", !.thread = "restore"]
      <4>1. new \in Calibration /\ Made(new)
        BY <2>0, <2>1, <3>1, CalibrationTyped DEF SweepPasses, SetSweep
      <4>2. QED
        BY <4>1
    <3>2. CASE ~sweep[k].cancel /\ sweep[k].passes < Passes
      <4> DEFINE new == [sweep[k] EXCEPT !.passes = @ + 1]
      <4>1. new \in Calibration /\ Made(new)
        BY <2>0, <2>1, <3>2, CalibrationTyped DEF SweepPasses, SetSweep
      <4>2. QED
        BY <4>1
    <3>3. CASE ~sweep[k].cancel /\ ~(sweep[k].passes < Passes)
      <4> DEFINE new == [sweep[k] EXCEPT !.thread = "restore"]
      <4>1. new \in Calibration /\ Made(new)
        BY <2>0, <2>1, <3>3, CalibrationTyped DEF SweepPasses, SetSweep
      <4>2. QED
        BY <4>1
    <3>4. QED
      BY <3>1, <3>2, <3>3
  <2>2. CASE SweepRaises(k)
    <3> DEFINE new == [sweep[k] EXCEPT !.status = "error", !.thread = "restore"]
    <3>2. new \in Calibration /\ Made(new)
      BY <2>0, <2>2, CalibrationTyped DEF SweepRaises, SetSweep
    <3>3. QED
      BY <3>2
  <2>3. CASE SweepRestores(k)
    <3>1. CASE sweep[k].status = "running"
      <4> DEFINE new == [sweep[k] EXCEPT !.thread = "save"]
      <4>1. new \in Calibration /\ Made(new)
        BY <2>0, <2>3, <3>1, CalibrationTyped DEF SweepRestores, SetSweep
      <4>2. QED
        BY <4>1
    <3>2. CASE sweep[k].status # "running"
      <4> DEFINE new == [sweep[k] EXCEPT !.thread = "over"]
      <4>1. new \in Calibration /\ Made(new)
        BY <2>0, <2>3, <3>2, CalibrationTyped DEF SweepRestores, SetSweep
      <4>2. QED
        BY <4>1
    <3>3. QED
      BY <3>1, <3>2
  <2>4. CASE SweepSaves(k)
    <3>1. CASE sweep' = [sweep EXCEPT ![k] = [sweep[k] EXCEPT !.thread = "saved"]]
      <4> DEFINE new == [sweep[k] EXCEPT !.thread = "saved"]
      <4>1. sweep[k].status = "running"
        BY <2>4 DEF SweepSaves, SweepPart, SweepHasThread
      <4>2. new \in Calibration /\ Made(new)
        BY <2>0, <3>1, <4>1, CalibrationTyped
      <4>3. QED
        BY <4>2
    <3>2. CASE sweep' = [sweep EXCEPT ![k] = [sweep[k] EXCEPT !.status = "error", !.thread = "over"]]
      <4> DEFINE new == [sweep[k] EXCEPT !.status = "error", !.thread = "over"]
      <4>1. new \in Calibration /\ Made(new)
        BY <2>0, <3>2, CalibrationTyped
      <4>2. QED
        BY <4>1
    <3>3. QED
      BY <2>4, <3>1, <3>2 DEF SweepSaves, SetSweep
  <2>5. CASE SweepSucceeds(k)
    <3> DEFINE new == [sweep[k] EXCEPT !.status = "success", !.thread = "over"]
    <3>1. new \in Calibration /\ Made(new)
      BY <2>0, <2>5, CalibrationTyped DEF SweepSucceeds, SetSweep
    <3>2. QED
      BY <3>1
  <2>6. QED
    BY <2>1, <2>2, <2>3, <2>4, <2>5 DEF SweepStep
<1>2. UNCHANGED <<page, selected, bySaved, forgets, wifiVars, mine, ours, presses>>
  BY DEF SweepStep, SweepPasses, SweepRaises, SweepRestores, SweepSaves, SweepSucceeds, pageVars
<1>3. SweepPart' /\ (Running' => Running)
  BY <1>1, <1>2 DEF SweepPart, SweepHasThread, OneSweepRuns, Running
<1>4. ASSUME sweep[k].thread = "saved" PROVE sweep'[k].status # "running"
  <2>0. sweep[k] \in Calibration
    BY DEF SweepPart
  <2>1. sweep' = [sweep EXCEPT ![k] = [sweep[k] EXCEPT !.status = "success", !.thread = "over"]]
    BY <1>4 DEF SweepStep, SweepPasses, SweepRaises, SweepRestores, SweepSaves, SweepSucceeds, SetSweep
  <2>2. [sweep[k] EXCEPT !.status = "success", !.thread = "over"].status = "success"
    BY <2>0, CalibrationTyped
  <2>3. QED
    BY <2>1, <2>2 DEF SweepPart
<1>5. Running' => Running /\ (Saved => Saved')
  <2>1. CASE k = mine
    BY <1>2, <1>3, <1>4, <2>1 DEF Running, Saved
  <2>2. CASE k # mine
    BY <1>1, <1>2, <1>3, <2>2 DEF Running, Saved, SweepPart
  <2>3. QED
    BY <2>1, <2>2
<1>6. PagePart'
  <2>1. CASE overlay' = overlay
    BY <1>2, <1>5, <2>1, PageStays DEF pageVars
  <2>2. CASE overlay' # overlay
    <3>1. /\ k \in ours /\ sweep[k].status = "running" /\ overlay' = "calibration_success"
          /\ sweep' = [sweep EXCEPT ![k] = [sweep[k] EXCEPT !.thread = "saved"]]
      BY <2>2 DEF SweepStep, SweepPasses, SweepRaises, SweepRestores, SweepSaves, SweepSucceeds, SetSweep,
                  pageVars, SweepPart, SweepHasThread
    <3>2. k = mine /\ Running
      BY <3>1, NoCalibration DEF SweepPart, OneSweepRuns, Running
    <3>3. sweep'[k].thread = "saved"
      BY <3>1 DEF SweepPart, Calibration
    <3>4. page = "display" /\ sweep'[mine'].thread = "saved"
      BY <1>2, <3>2, <3>3 DEF PagePart, OverlayFits
    <3>5. QED
      BY <1>2, <3>1, <3>4 DEF PagePart, OverlayFits, Overlays
  <2>3. QED
    BY <2>1, <2>2
<1>7. QED
  BY <1>2, <1>3, <1>6

\* What the main loop consumes.
LEMMA ConsumeKeeps ==
  ASSUME ScreensTypeOK, Consume
  PROVE  ScreensTypeOK'
<1> USE ScreenParts, WifiTyped
<1>1. UNCHANGED <<sweepVars, presses, joined, profiles, listed>>
  BY DEF Consume, ConsumeConnection, ConsumeForget
<1>2. SweepPart' /\ (Running' <=> Running) /\ (Saved' <=> Saved)
  BY <1>1, SweepStays
<1>3. WifiPart'
  BY <1>1 DEF Consume, ConsumeConnection, ConsumeForget, WifiPart
<1>4. PagePart'
  <2>1. CASE ConsumeConnection
    BY <1>2, <2>1 DEF ConsumeConnection, PagePart, OverlayFits, Saved, Pages
  <2>2. CASE ConsumeForget
    BY <1>2, <2>2 DEF ConsumeForget, PagePart, OverlayFits, Saved, Overlays
  <2>3. QED
    BY <2>1, <2>2 DEF Consume
<1>5. QED
  BY <1>1, <1>2, <1>3, <1>4, ScreenPartsNext

\* A on the pages without Wi-Fi, and on the confirmation of a reset.
LEMMA PagesOpen ==
  ASSUME ScreensTypeOK, OpenPage \/ OpenOverlay \/ ConfirmReset
  PROVE  ScreensTypeOK'
<1> USE ScreenParts
<1>1. UNCHANGED <<wifiVars, sweepVars, selected, bySaved, forgets>> /\ Pressed
  BY DEF OpenPage, OpenOverlay, ConfirmReset
<1>2. SweepPart' /\ WifiPart' /\ (Running' <=> Running) /\ (Saved' <=> Saved)
  BY <1>1, SweepStays, WifiStays
<1>3. PagePart'
  BY <1>1, <1>2 DEF OpenPage, OpenOverlay, ConfirmReset, Shown, PagePart, OverlayFits, Saved, Pages, Overlays
<1>4. QED
  BY <1>1, <1>2, <1>3, PressCounted, ScreenPartsNext

\* A on the Wi-Fi pages.
LEMMA WifiPressed ==
  ASSUME ScreensTypeOK,
         \/ EnterWifi \/ Rescan \/ JoinNetwork \/ ConfirmForget
         \/ \E s \in Ssid : ChooseCurrent(s) \/ ChooseRemembered(s) \/ ChooseNetwork(s)
  PROVE  ScreensTypeOK'
<1> USE ScreenParts
<1>1. UNCHANGED sweepVars /\ Pressed
  BY DEF EnterWifi, Rescan, JoinNetwork, ConfirmForget, ChooseCurrent, ChooseRemembered, ChooseNetwork
<1>2. SweepPart' /\ (Running' <=> Running) /\ (Saved' <=> Saved) /\ presses' \in 0 .. MaxPress
  BY <1>1, SweepStays, PressCounted
<1>3. CASE EnterWifi \/ Rescan
  <2>1. WifiPart' /\ PagePart'
    BY <1>2, <1>3, WifiTyped DEF EnterWifi, Rescan, Shown, WifiPart, PagePart, OverlayFits, Saved, pageVars, Pages
  <2>2. QED
    BY <1>2, <2>1, ScreenPartsNext
<1>4. CASE JoinNetwork
  <2>1. selected \in Ssid
    BY <1>4 DEF JoinNetwork, Shown, PagePart
  <2>2. conn' \in {conn, [status |-> "connecting", ssid |-> selected]}
    BY <1>4, <2>1, WifiTyped DEF JoinNetwork
  <2>5. UNCHANGED <<joined, profiles, listed, scan, forget>>
    BY <1>4 DEF JoinNetwork
  <2>6. WifiPart'
    BY <2>1, <2>2, <2>5 DEF WifiPart, Attempt, Deletion
  <2>3. PagePart'
    BY <1>2, <1>4, PageStays DEF JoinNetwork
  <2>4. QED
    BY <1>2, <2>3, <2>6, ScreenPartsNext
<1>5. CASE ConfirmForget
  <2>1. forgets \in Ssid
    BY <1>5 DEF ConfirmForget, PagePart, OverlayFits
  <2>2. forget' \in {forget, [status |-> "forgetting", ssid |-> forgets]}
    BY <1>5, <2>1, WifiTyped DEF ConfirmForget
  <2>5. UNCHANGED <<joined, profiles, listed, scan, conn>>
    BY <1>5 DEF ConfirmForget
  <2>6. WifiPart'
    BY <2>1, <2>2, <2>5 DEF WifiPart, Attempt, Deletion
  <2>3. PagePart'
    BY <1>2, <1>5, PageStays DEF ConfirmForget
  <2>4. QED
    BY <1>2, <2>3, <2>6, ScreenPartsNext
<1>6. ASSUME NEW s \in Ssid, ChooseCurrent(s) \/ ChooseRemembered(s) \/ ChooseNetwork(s)
      PROVE  ScreensTypeOK'
  <2>1. PagePart'
    BY <1>2, <1>6
    DEF ChooseCurrent, ChooseRemembered, ChooseNetwork, Shown, PagePart, OverlayFits, Saved, Pages, Overlays
  <2>2. CASE ChooseCurrent(s)
    BY <1>2, <2>1, <2>2, WifiStays, ScreenPartsNext DEF ChooseCurrent
  <2>3. CASE ChooseRemembered(s) \/ ChooseNetwork(s)
    <3>1. conn' \in {conn, NoAttempt, [status |-> "connecting", ssid |-> s]}
      BY <2>3, WifiTyped DEF ChooseRemembered, ChooseNetwork
    <3>2. UNCHANGED <<joined, profiles, listed, scan, forget>>
      BY <2>3 DEF ChooseRemembered, ChooseNetwork
    <3>3. WifiPart'
      BY <3>1, <3>2 DEF WifiPart, Attempt, NoAttempt
    <3>4. QED
      BY <1>2, <2>1, <3>3, ScreenPartsNext
  <2>4. QED
    BY <1>6, <2>2, <2>3
<1>7. QED
  BY <1>3, <1>4, <1>5, <1>6

\* A on the warning and on the result of a calibration.
LEMMA CalibrationPressed ==
  ASSUME ScreensTypeOK,
         AcknowledgeCalibration \/ \E k \in Sweep : StartCalibration(k)
  PROVE  ScreensTypeOK'
<1> USE ScreenParts
<1>1. CASE AcknowledgeCalibration
  BY <1>1, LeavingDropsAll, WifiStays, ScreenPartsNext DEF AcknowledgeCalibration
<1>2. ASSUME NEW k \in Sweep, StartCalibration(k) PROVE ScreensTypeOK'
  <2> DEFINE new == [Fresh EXCEPT !.status = "running", !.thread = "pass"]
  <2>2. new \in Calibration /\ new.status = "running" /\ new.thread = "pass"
    <3> DEFINE half == [Fresh EXCEPT !.status = "running"]
    <3>1. Fresh \in Calibration
      BY DEF Fresh, Calibration, Passes
    <3>2. half \in Calibration /\ half.status = "running"
      BY <3>1 DEF Calibration
    <3>3. [half EXCEPT !.thread = "pass"] \in Calibration /\ [half EXCEPT !.thread = "pass"].status = "running"
          /\ [half EXCEPT !.thread = "pass"].thread = "pass"
      <4> HIDE DEF half
      <4>1. QED
        BY <3>2 DEF Calibration
    <3>4. QED
      BY <3>3
  <2>3. sweep' = [sweep EXCEPT ![k] = new] /\ mine' = k /\ ours' = ours \cup {k} /\ ~Running
    BY <1>2 DEF StartCalibration, SetSweep, PagePart, OverlayFits
  <2>4. \A j \in ours : sweep[j].status # "running"
    BY <2>3, NoCalibration DEF SweepPart, OneSweepRuns, Running
  <2>5. SweepPart'
    <3> HIDE DEF new
    <3>1. QED
      BY <2>2, <2>3, <2>4 DEF SweepPart, SweepHasThread, OneSweepRuns
  <2>6. page = "display" /\ UNCHANGED <<page, selected, bySaved, forgets, wifiVars>> /\ Pressed /\ overlay' = "none"
    BY <1>2 DEF StartCalibration, PagePart, OverlayFits
  <2>7. PagePart'
    BY <2>6 DEF PagePart, OverlayFits, Pages, Overlays
  <2>8. QED
    BY <2>5, <2>6, <2>7, WifiStays, PressCounted, ScreenPartsNext
<1>3. QED
  BY <1>1, <1>2

\* B and HOME.
LEMMA LeavingKeeps ==
  ASSUME ScreensTypeOK, CloseOverlay \/ CancelCalibration \/ GoBack,
         presses' \in 0 .. MaxPress
  PROVE  ScreensTypeOK'
<1> USE ScreenParts, WifiTyped
<1>1. CASE CloseOverlay
  <2>1. SweepPart' /\ (Running' <=> Running) /\ (Saved' <=> Saved)
    BY <1>1, SweepStays DEF CloseOverlay
  <2>2. WifiPart'
    BY <1>1 DEF CloseOverlay, WifiPart
  <2>3. PagePart'
    BY <1>1, <2>1 DEF CloseOverlay, PagePart, OverlayFits, Saved, Overlays
  <2>4. QED
    BY <2>1, <2>2, <2>3, ScreenPartsNext
<1>2. CASE CancelCalibration
  <2>1. mine \in Sweep /\ sweep[mine] \in Calibration
    BY <1>2 DEF CancelCalibration, Running, SweepPart
  <2> DEFINE new == [sweep[mine] EXCEPT !.cancel = TRUE]
  <2>2. new \in Calibration /\ new.status = sweep[mine].status /\ new.thread = sweep[mine].thread
    BY <2>1, CalibrationTyped, "save" \in {"restore", "save", "saved", "over"},
       "error" \in {"cancelled", "success", "error"}
  <2>3. sweep' = [sweep EXCEPT ![mine] = new] /\ UNCHANGED <<pageVars, wifiVars, mine, ours>>
    BY <1>2 DEF CancelCalibration, SetSweep
  <2>4. SweepPart' /\ (Running' <=> Running) /\ (Saved' <=> Saved)
    <3> HIDE DEF new
    <3>1. QED
      BY <2>1, <2>2, <2>3 DEF SweepPart, SweepHasThread, OneSweepRuns, Running, Saved
  <2>5. QED
    BY <2>3, <2>4, PageStays, WifiStays, ScreenPartsNext
<1>3. CASE GoBack /\ ~LeaveSettings
  <2>1. /\ UNCHANGED <<overlay, selected, bySaved, forgets, mine, ours, wifiVars, sweep>>
        /\ overlay = "none" /\ ~Running
        /\ page \in {"display", "connectivity", "controllers", "wifi", "password"}
        /\ page' = LeaveBy(page)
    BY <1>3 DEF GoBack
  <2>2. page' \in {"settings", "connectivity", "wifi"}
    BY <2>1 DEF LeaveBy
  <2>3. SweepPart' /\ WifiPart' /\ ~Running'
    BY <2>1, SweepStays, WifiStays DEF sweepVars
  <2>4. PagePart'
    BY <2>1, <2>2, <2>3 DEF PagePart, OverlayFits, Pages
  <2>5. QED
    BY <2>3, <2>4, ScreenPartsNext
<1>4. CASE GoBack /\ LeaveSettings
  BY <1>4, LeavingDropsAll, WifiStays, ScreenPartsNext DEF GoBack
<1>5. QED
  BY <1>1, <1>2, <1>3, <1>4

LEMMA ScreensTypeStep == ScreensTypeOK /\ [ScreensNext]_screenVars => ScreensTypeOK'
<1> SUFFICES ASSUME ScreensTypeOK, [ScreensNext]_screenVars PROVE ScreensTypeOK'
  OBVIOUS
<1> USE ScreenParts
<1>1. CASE PressA
  BY <1>1, PagesOpen, WifiPressed, CalibrationPressed DEF PressA
<1>2. CASE PressB
  BY <1>2, LeavingKeeps, PressCounted DEF PressB
<1>3. CASE PressHome
  <2>1. CASE CloseOverlay \/ CancelCalibration
    BY <1>3, <2>1, LeavingKeeps DEF PressHome
  <2>2. CASE LeaveSettings /\ UNCHANGED <<wifiVars, sweep>>
    BY <1>3, <2>2, LeavingDropsAll, WifiStays, ScreenPartsNext DEF PressHome
  <2>3. QED
    BY <1>3, <2>1, <2>2 DEF PressHome
<1>4. CASE TakenAway
  BY <1>4, LeavingDropsAll, WifiStays, PressCounted, ScreenPartsNext DEF TakenAway
<1>5. CASE Consume
  BY <1>5, ConsumeKeeps
<1>6. CASE WifiWork
  <2>1. WifiPart' /\ UNCHANGED <<pageVars, sweepVars, presses>>
    BY <1>6, WifiWorkKeeps
  <2>2. SweepPart' /\ PagePart'
    BY <2>1, SweepStays, PageStays
  <2>3. QED
    BY <2>1, <2>2, ScreenPartsNext
<1>7. ASSUME NEW k \in Sweep, SweepStep(k) PROVE ScreensTypeOK'
  BY <1>7, SweepStepKeeps, WifiStays, ScreenPartsNext
<1>8. CASE UNCHANGED screenVars
  BY <1>8, SweepStays, PageStays, WifiStays, ScreenPartsNext DEF screenVars
<1>9. QED
  BY <1>1, <1>2, <1>3, <1>4, <1>5, <1>6, <1>7, <1>8 DEF ScreensNext

\* Types; and an overlay covers the page it belongs to, also one that is put up by a sweep
\* thread; what is joined or deleted is a network (states/settings.py).
THEOREM ScreensTypeCorrect == ScreensSpec => []ScreensTypeOK
BY ScreensTypeInit, ScreensTypeStep, PTL DEF ScreensSpec

\* The half of UserIsAnswered that is about safety: a sweep that the buttons wait for has a
\* thread that will end it, and it is the one they cancel, whatever other sweeps of this or of
\* a dropped SettingsState object still do (runtime/brightness_calibration.py).
THEOREM SweepsEnd == ScreensSpec => [](SweepHasThread /\ OneSweepRuns)
<1>1. ScreensTypeOK => SweepHasThread /\ OneSweepRuns
  BY DEF ScreensTypeOK
<1>2. QED
  BY ScreensTypeCorrect, <1>1, PTL

--------------------------------------------------------------------------------
\* The reset and the loop that shows the network.

\* The steps of a reset and the records of the loop.
Labels == {"idle", "set", "clear", "request", "wait", "forget", "erase"}

LEMMA ResetTypeInit == ResetInit => ResetTypeOK
<1> SUFFICES ASSUME ResetInit PROVE ResetTypeOK
  OBVIOUS
<1> USE ResetAssumption DEF ResetInit, RowValue, PollRest, NoReset
<1>1. reset \in [Resetter -> [pc : Labels, rest : SUBSET Item]]
  BY DEF Labels
<1>2. CacheIsTrue
  BY DEF CacheIsTrue
<1>3. resets \in 0..MaxReset /\ poll \in [pc : {"wait", "read", "publish"}, read : RowValue]
  OBVIOUS
<1>4. QED
  BY <1>1, <1>2, <1>3 DEF ResetTypeOK, Labels

\* A step of a reset leaves the record of every reset well-formed.
LEMMA ResetTyped ==
  ASSUME ResetTypeOK, NEW r \in Resetter
  PROVE  /\ \A l \in Labels : [reset EXCEPT ![r].pc = l] \in [Resetter -> [pc : Labels, rest : SUBSET Item]]
         /\ \A x : [reset EXCEPT ![r].rest = @ \ {x}] \in [Resetter -> [pc : Labels, rest : SUBSET Item]]
         /\ [reset EXCEPT ![r] = NoReset] \in [Resetter -> [pc : Labels, rest : SUBSET Item]]
         /\ [reset EXCEPT ![r] = [pc |-> "erase", rest |-> Item]] \in [Resetter -> [pc : Labels, rest : SUBSET Item]]
BY DEF ResetTypeOK, Labels, NoReset

\* A step that leaves alone what CacheIsTrue is about.
LEMMA CacheStays ==
  ASSUME ResetTypeOK, UNCHANGED <<announced, resetting, refresh, published, poll, row>>,
         online' => online,
         \A r \in Resetter : reset[r].pc = "clear" => reset'[r].pc = "clear"
  PROVE  CacheIsTrue'
BY DEF ResetTypeOK, CacheIsTrue, AtStep

\* A step of one reset does not end the clearing step of another.
LEMMA OtherClears ==
  ASSUME ResetTypeOK, NEW r \in Resetter, reset[r].pc # "clear",
         \/ \E l : reset' = [reset EXCEPT ![r].pc = l]
         \/ \E x : reset' = [reset EXCEPT ![r].rest = @ \ {x}]
         \/ \E x : reset' = [reset EXCEPT ![r] = x]
         \/ reset' = reset
  PROVE  \A s \in Resetter : reset[s].pc = "clear" => reset'[s].pc = "clear"
BY DEF ResetTypeOK

LEMMA ResetTypeStep == ResetTypeOK /\ [ResetNext]_resetVars => ResetTypeOK'
<1> SUFFICES ASSUME ResetTypeOK, [ResetNext]_resetVars PROVE ResetTypeOK'
  OBVIOUS
<1> DEFINE Typed == [Resetter -> [pc : Labels, rest : SUBSET Item]]
<1>1. CASE LosesNetwork \/ Disconnects \/ \E n \in Network : JoinsNetwork(n)
  <2>1. CacheIsTrue'
    BY <1>1, CacheStays DEF LosesNetwork, Disconnects, JoinsNetwork, loopVars
  <2>2. QED
    BY <1>1, <2>1 DEF LosesNetwork, Disconnects, JoinsNetwork, loopVars, ResetTypeOK, RowValue
<1>2. CASE Connects \/ AsksRefresh
  <2>1. CacheIsTrue'
    BY <1>2 DEF Connects, AsksRefresh, linkVars, loopVars, ResetTypeOK, CacheIsTrue, AtStep
  <2>2. QED
    BY <1>2, <2>1 DEF Connects, AsksRefresh, linkVars, loopVars, ResetTypeOK
<1>3. CASE LoopStarts
  <2>1. CacheIsTrue'
    BY <1>3 DEF LoopStarts, LoopRefreshed, linkVars, ResetTypeOK, CacheIsTrue, AtStep
  <2>2. QED
    BY <1>3, <2>1 DEF LoopStarts, LoopRefreshed, linkVars, ResetTypeOK
<1>4. CASE LoopReads
  <2>1. CacheIsTrue'
    BY <1>4 DEF LoopReads, linkVars, ResetTypeOK, CacheIsTrue, AtStep
  <2>2. QED
    BY <1>4, <2>1 DEF LoopReads, PollRest, RowValue, linkVars, ResetTypeOK
<1>5. CASE LoopPublishes
  <2>1. CacheIsTrue'
    BY <1>5 DEF LoopPublishes, Publish, PollRest, linkVars, ResetTypeOK, CacheIsTrue, AtStep
  <2>2. QED
    BY <1>5, <2>1 DEF LoopPublishes, Publish, PollRest, RowValue, linkVars, ResetTypeOK
<1>6. CASE SnapshotConfirms
  BY <1>6 DEF SnapshotConfirms, linkVars, loopVars, ResetTypeOK, CacheIsTrue, AtStep
<1>7. ASSUME NEW r \in Resetter, StartReset(r) \/ SetFlag(r) \/ ClearEvents(r) \/ RequestReset(r)
      PROVE  ResetTypeOK'
  <2>0. PICK l \in Labels : reset' = [reset EXCEPT ![r].pc = l]
    BY <1>7 DEF StartReset, SetFlag, ClearEvents, RequestReset, GoToStep, Labels
  <2>1. reset' \in Typed
    BY <2>0, ResetTyped
  <2>2. CASE StartReset(r)
    <3>1. CacheIsTrue'
      BY <2>2, CacheStays, OtherClears DEF StartReset, AtStep, GoToStep, linkVars, loopVars
    <3>2. QED
      BY <2>1, <2>2, <3>1, ResetAssumption DEF StartReset, linkVars, loopVars, ResetTypeOK, Labels
  <2>3. CASE SetFlag(r)
    <3>1. reset'[r].pc = "clear"
      BY <2>3 DEF SetFlag, GoToStep, ResetTypeOK
    <3>2. CacheIsTrue'
      BY <3>1 DEF CacheIsTrue, AtStep
    <3>3. QED
      BY <2>1, <2>3, <3>2 DEF SetFlag, linkVars, loopVars, ResetTypeOK, Labels
  <2>4. CASE ClearEvents(r) \/ RequestReset(r)
    <3>1. CacheIsTrue'
      BY <2>4 DEF ClearEvents, RequestReset, CacheIsTrue
    <3>2. QED
      BY <2>1, <2>4, <3>1
      DEF ClearEvents, RequestReset, Publish, RowValue, linkVars, loopVars, ResetTypeOK, Labels
  <2>5. QED
    BY <1>7, <2>2, <2>3, <2>4
<1>8. ASSUME NEW r \in Resetter, Confirmed(r) \/ TimesOut(r) \/ ForgetWifi(r)
      PROVE  ResetTypeOK'
  <2>1. reset' \in Typed
    <3>1. CASE ForgetWifi(r)
      BY <3>1, ResetTyped DEF ForgetWifi
    <3>2. CASE Confirmed(r) \/ TimesOut(r)
      <4>1. reset' = [reset EXCEPT ![r].pc = "forget"]
        BY <3>2 DEF Confirmed, TimesOut, GoToStep
      <4>2. QED
        BY <4>1, ResetTyped DEF Labels
    <3>3. QED
      BY <1>8, <3>1, <3>2
  <2>2. CacheIsTrue'
    BY <1>8, CacheStays, OtherClears
    DEF Confirmed, TimesOut, ForgetWifi, AtStep, GoToStep, linkVars, loopVars
  <2>3. QED
    BY <1>8, <2>1, <2>2
    DEF Confirmed, TimesOut, ForgetWifi, RowValue, linkVars, loopVars, ResetTypeOK, Labels
<1>9. ASSUME NEW r \in Resetter, NEW x \in Item, EraseItem(r, x) PROVE ResetTypeOK'
  <2>1. reset' \in Typed
    BY <1>9, ResetTyped DEF EraseItem
  <2>2. CacheIsTrue'
    BY <1>9, CacheStays, OtherClears DEF EraseItem, AtStep, linkVars, loopVars
  <2>3. QED
    BY <1>9, <2>1, <2>2 DEF EraseItem, linkVars, loopVars, ResetTypeOK, Labels
<1>10. ASSUME NEW r \in Resetter, EndReset(r) PROVE ResetTypeOK'
  <2>1. reset' \in Typed
    BY <1>10, ResetTyped DEF EndReset
  <2>2. \A s \in Resetter : reset[s].pc = "clear" => reset'[s].pc = "clear"
    BY <1>10, OtherClears DEF EndReset, AtStep
  <2>3. CacheIsTrue'
    BY <1>10, <2>2 DEF EndReset, linkVars, loopVars, ResetTypeOK, CacheIsTrue, AtStep
  <2>4. QED
    BY <1>10, <2>1, <2>3 DEF EndReset, linkVars, loopVars, ResetTypeOK, Labels
<1>11. ASSUME NEW x \in Item, OwnerAdds(x) PROVE ResetTypeOK'
  <2>1. CacheIsTrue'
    BY <1>11, CacheStays DEF OwnerAdds, linkVars, loopVars
  <2>2. QED
    BY <1>11, <2>1 DEF OwnerAdds, linkVars, loopVars, ResetTypeOK
<1>12. CASE UNCHANGED resetVars
  <2>1. CacheIsTrue'
    BY <1>12, CacheStays DEF resetVars
  <2>2. QED
    BY <1>12, <2>1 DEF resetVars, ResetTypeOK
<1>13. QED
  BY <1>1, <1>2, <1>3, <1>4, <1>5, <1>6, <1>7, <1>8, <1>9, <1>10, <1>11, <1>12
  DEF ResetNext, LoopStep, ResetStep

\* Types of the factory reset and the network loop, for any number of overlapping resets.
THEOREM ResetTypeCorrect == ResetSpec => []ResetTypeOK
BY ResetTypeInit, ResetTypeStep, PTL DEF ResetSpec

\* The half of NetworkShown that is about safety: the loop never takes a network for shown
\* that the row does not have, whatever patches were dropped and however resets overlap, once
\* a refresh was asked for after the last of them (network_state_remote_loop of main.py).
THEOREM NeverTakenForShown == ResetSpec => []CacheIsTrue
<1>1. ResetTypeOK => CacheIsTrue
  BY DEF ResetTypeOK
<1>2. QED
  BY ResetTypeCorrect, <1>1, PTL

--------------------------------------------------------------------------------
\* The three together.

\* What is inductive of all of them.
DisplayInv == WidgetInv /\ ScreensTypeOK /\ ResetTypeOK

LEMMA DisplayInvInit == DisplayInit => DisplayInv
BY WidgetInvInit, ScreensTypeInit, ResetTypeInit DEF DisplayInit, DisplayInv

\* A step of the display is a step, or none, of each of them.
LEMMA DisplayStepOfEach ==
  ASSUME [DisplayNext]_displayVars
  PROVE  /\ [WidgetNext]_widgetVars
         /\ [ScreensNext]_screenVars
         /\ [ResetNext]_resetVars
BY DEF DisplayNext, Still, displayVars

LEMMA DisplayInvStep == DisplayInv /\ [DisplayNext]_displayVars => DisplayInv'
BY DisplayStepOfEach, WidgetInvStep, ScreensTypeStep, ResetTypeStep DEF DisplayInv

LEMMA DisplayInvariant == DisplaySpec => []DisplayInv
BY DisplayInvInit, DisplayInvStep, PTL DEF DisplaySpec

\* The variables of the three have their types, and what their type invariants say of threads,
\* lists and caches holds, in every behaviour of the run.
THEOREM DisplayTypesHold == DisplaySpec => []DisplayTypeOK
<1>1. DisplayInv => DisplayTypeOK
  BY WidgetInvTypes DEF DisplayInv, DisplayTypeOK
<1>2. QED
  BY DisplayInvariant, <1>1, PTL

\* No component loses a promise of its own when it is run beside the others, which start in
\* any of their initial states.
THEOREM DisplayKeepsPromises ==
  DisplaySpec => [](/\ DefaultPageKept /\ PatchInPlace
                    /\ SweepHasThread /\ OneSweepRuns
                    /\ CacheIsTrue)
<1>1. DisplayInv => DefaultPageKept /\ PatchInPlace
  BY WidgetInvTypes DEF DisplayInv
<1>2. DisplayInv => SweepHasThread /\ OneSweepRuns /\ CacheIsTrue
  BY DEF DisplayInv, ScreensTypeOK, ResetTypeOK
<1>3. QED
  BY DisplayInvariant, <1>1, <1>2, PTL
=================================================================================
