-------------------------- MODULE EvidenceBrowser ---------------------------
(***************************************************************************)
(* The evidence pages of the web interface over a changing store.          *)
(*                                                                         *)
(* handleListEvidence and handleEvidence (internal/api) read directories   *)
(* and manifests one after the other, without any lock, while captures add *)
(* packages, write over those of an earlier capture in the same directory, *)
(* and a reset removes them; what they cannot read they answer as if it    *)
(* were not there.  evidence.js shows pages of packages, opens a package in*)
(* a panel and a file in the panel, and renders answers in whatever order  *)
(* they arrive.                                                            *)
(*                                                                         *)
(* A package is seen through what the handlers can tell: its directory, its*)
(* files, whether its manifest parses, and the time in it.  CapturePipeline*)
(* has the steps behind this.                                              *)
(***************************************************************************)
EXTENDS Naturals, SequencesExt

CONSTANTS
    Capture,    \* one identity per capture that collects something
    Package,    \* the directories captures make
    PackageOf,  \* the directory of a capture: second and short id, so that
                \* several may have the same
    NameRank,   \* their order by name, which is how os.ReadDir lists them
    PageSize,   \* PAGE_SIZE, sent as the limit
    Request,    \* detail and file requests one tab may have under way
    Scope       \* bound: which captures, how many requests at a time and how
                \* many resets a behaviour may have, one of these combinations

ASSUME BrowserAssumption ==
    /\ PackageOf \in [Capture -> Package]
    /\ NameRank \in [Package -> Nat]
    /\ \A p, q \in Package : NameRank[p] = NameRank[q] => p = q
    /\ PageSize \in Nat \ {0}
    /\ Scope \subseteq [captures : SUBSET Capture, requests : Nat, resets : Nat]

VARIABLES
    exists,     \* the packages there are
    files,      \* the names in the directory of each
    at,         \* CapturedAt of its manifest, counted; 0 if none can be parsed
    stage,      \* where each capture is
    time,       \* the time Preserve took for it, counted; 0 before
    doomed,     \* packages handleReset has listed and not dealt with yet
    resets,     \* resets so far
    scope,      \* the combination of this behaviour, which never changes
    wiped,      \* history: packages a reset deleted something from
    list,       \* the request for a page of packages
    page,       \* currentPage
    grid,       \* the cards shown: allPackages, unless a page is loaded or failed
    total,      \* totalPackages
    ask,        \* each detail or file request
    body,       \* what the panel shows
    viewer,     \* the file below it
    walk        \* history: a reader who goes through the pages one by one

storeVars == <<exists, files, at, stage, time, doomed, resets, wiped, scope>>
pageVars  == <<list, page, grid, total>>
gridVars  == <<pageVars, walk>>
panelVars == <<ask, body, viewer>>
vars      == <<storeVars, gridVars, panelVars>>

FileName == {"artifact", "manifest.json"}

Idle    == [stage |-> "idle"]
Off     == [on |-> FALSE]
Nothing == [shows |-> "nothing"]

TypeOK ==
    /\ exists \subseteq Package
    /\ files \in [Package -> SUBSET FileName]
    /\ at \in [Package -> Nat]
    /\ stage \in [Capture -> {"new", "created", "writing", "sealing", "over"}]
    /\ time \in [Capture -> Nat]
    /\ doomed \subseteq Package
    /\ scope \in Scope
    /\ resets \in 0 .. scope.resets
    /\ wiped \subseteq Package
    /\ grid \in Seq(Package)
    /\ \A q \in Request :
          ask[q].stage \in {"idle", "stat", "manifest", "files", "file", "answered", "failed"}
    /\ body.shows \in {"nothing", "loading", "package", "error"}
    /\ viewer.shows \in {"nothing", "loading", "file", "error"}

Init ==
    /\ exists = {}
    /\ files = [p \in Package |-> {}]
    /\ at = [p \in Package |-> 0]
    /\ stage = [c \in Capture |-> "new"]
    /\ time = [c \in Capture |-> 0]
    /\ doomed = {}
    /\ resets = 0
    /\ scope \in Scope
    /\ wiped = {}
    /\ list = Idle
    /\ page = 0
    /\ grid = <<>>
    /\ total = 0
    /\ ask = [q \in Request |-> Idle]
    /\ body = Nothing
    /\ viewer = Nothing
    /\ walk = Off

----------------------------------------------------------------------------
(* Captures and the reset.                                                 *)

\* The package has a manifest that parses.
Sealed(p) == at[p] > 0

\* repository.Create: MkdirAll takes a directory that is there already.
Create(c) ==
    /\ stage[c] = "new" /\ c \in scope.captures
    /\ stage' = [stage EXCEPT ![c] = "created"]
    /\ exists' = exists \union {PackageOf[c]}
    /\ UNCHANGED <<files, at, time, doomed, resets, wiped>>

\* Preserve takes the time and writes the artifacts.
Preserve(c) ==
    /\ stage[c] = "created" /\ PackageOf[c] \in exists
    /\ stage' = [stage EXCEPT ![c] = "writing"]
    /\ time' = [time EXCEPT ![c] = 1 + Max({time[b] : b \in Capture})]
    /\ files' = [files EXCEPT ![PackageOf[c]] = @ \union {"artifact"}]
    /\ UNCHANGED <<exists, at, doomed, resets, wiped>>

\* Preserve opens the manifest with O_CREATE and O_TRUNC: one that another
\* capture completed in this directory is gone.
SealBegin(c) ==
    /\ stage[c] = "writing" /\ PackageOf[c] \in exists
    /\ stage' = [stage EXCEPT ![c] = "sealing"]
    /\ files' = [files EXCEPT ![PackageOf[c]] = @ \union {"manifest.json"}]
    /\ at' = [at EXCEPT ![PackageOf[c]] = 0]
    /\ UNCHANGED <<exists, time, doomed, resets, wiped>>

Shared(c) == \E b \in Capture \ {c} : PackageOf[b] = PackageOf[c] /\ stage[b] # "new"

\* The manifest is complete, or, of two captures in one directory, a mixture.
SealEnd(c) ==
    /\ stage[c] = "sealing"
    /\ stage' = [stage EXCEPT ![c] = "over"]
    /\ \E t \in {time[c]} \union (IF Shared(c) THEN {0} ELSE {}) :
          at' = [at EXCEPT ![PackageOf[c]] = t]
    /\ UNCHANGED <<exists, files, time, doomed, resets, wiped>>

\* The write of the manifest fails, or the process ends in it: what is there by
\* then is left.  A capture that fails or dies earlier just takes no step more.
SealFails(c) ==
    /\ stage[c] = "sealing"
    /\ stage' = [stage EXCEPT ![c] = "over"]
    /\ \E t \in {at[PackageOf[c]], 0} : at' = [at EXCEPT ![PackageOf[c]] = t]
    /\ UNCHANGED <<exists, files, time, doomed, resets, wiped>>

ResetList ==
    /\ doomed = {} /\ resets < scope.resets
    /\ doomed' = exists
    /\ resets' = resets + 1
    /\ UNCHANGED <<exists, files, at, stage, time, wiped>>

\* RemoveAll unlinks a file; whoever has the manifest open completes it for
\* nobody.
ResetUnlink(p, f) ==
    /\ p \in doomed /\ f \in files[p]
    /\ files' = [files EXCEPT ![p] = @ \ {f}]
    /\ wiped' = wiped \union {p}
    /\ IF f = "manifest.json"
       THEN /\ at' = [at EXCEPT ![p] = 0]
            /\ stage' = [c \in Capture |-> IF PackageOf[c] = p /\ stage[c] = "sealing"
                                           THEN "over" ELSE stage[c]]
       ELSE UNCHANGED <<at, stage>>
    /\ UNCHANGED <<exists, time, doomed, resets>>

\* It removes the empty directory, or gives up on an error and leaves the rest.
ResetLeave(p) ==
    /\ p \in doomed
    /\ doomed' = doomed \ {p}
    /\ IF files[p] = {} THEN exists' \in {exists, exists \ {p}} ELSE exists' = exists
    /\ wiped' = wiped \union {p}
    /\ UNCHANGED <<files, at, stage, time, resets>>

----------------------------------------------------------------------------
(* The list of packages: handleListEvidence and the grid of evidence.js.   *)

\* os.ReadDir: the directories there are, in the order of their names.
Directories ==
    {s \in SetToSeqs(exists) :
        \A i, j \in DOMAIN s : i < j => NameRank[s[i]] < NameRank[s[j]]}

\* Mutant: CapturedAt.Before instead of After.
SortedOldest(items) ==
    {s \in SetToSeqs(ToSet(items)) :
        \A i, j \in DOMAIN s : i < j => s[i].at <= s[j].at}

\* sort.Slice: newest first, and ties in any order.
SortedNewest(items) ==
    {s \in SetToSeqs(ToSet(items)) :
        \A i, j \in DOMAIN s : i < j => s[i].at >= s[j].at}

\* The part of s that begins after offset and has limit elements at most.
Page(s, limit, offset) == SubSeq(s, offset + 1, Min({offset + limit, Len(s)}))

\* The pages renderPagination offers; Refresh and the navigation bar load the
\* first one at any time.
Offered == {p \in 0 .. ((total + PageSize - 1) \div PageSize) - 1 :
              page - 2 <= p /\ p <= page + 2}

\* The walk is that of a reader who does nothing else: from the first page to
\* the next ones.
WalkAt(p) ==
    IF \E q \in Request : ask[q] # Idle THEN Off
    ELSE IF p = 0
         THEN [on |-> TRUE, next |-> 0, seen |-> {}, goal |-> {o \in Package : Sealed(o)}]
    ELSE IF walk.on /\ walk.next = p THEN walk
    ELSE Off

\* evidence.js load, and the directory listing that begins the answer.  Bound:
\* one list request at a time.
Load(p) ==
    /\ list = Idle
    /\ p \in Offered \union {0}
    /\ page' = p
    /\ \E dirs \in Directories :
          list' = [stage |-> "reading", dirs |-> dirs, items |-> <<>>]
    /\ walk' = WalkAt(p)
    /\ grid' = <<>>
    /\ UNCHANGED <<storeVars, total, panelVars>>

\* os.ReadDir fails: the answer is an empty list, as if there were no packages.
LoadUnlisted(p) ==
    /\ list = Idle
    /\ p \in Offered \union {0}
    /\ page' = p
    /\ list' = [stage |-> "reading", dirs |-> <<>>, items |-> <<>>]
    /\ walk' = Off
    /\ grid' = <<>>
    /\ UNCHANGED <<storeVars, total, panelVars>>

\* One round of listEvidencePackages: the time in the manifest of the next
\* directory, or the zero time where there is none, be the package unfinished
\* or removed meanwhile.
ReadItem ==
    /\ list # Idle /\ list.dirs # <<>>
    /\ LET p == Head(list.dirs) IN
       list' = [list EXCEPT !.dirs = Tail(@),
                            !.items = Append(@, [id |-> p, at |-> at[p]])]
    /\ UNCHANGED <<storeVars, page, grid, total, walk, panelVars>>

\* readManifest fails, and a sealed package is listed as one without manifest.
ReadItemFails ==
    /\ list # Idle /\ list.dirs # <<>>
    /\ Sealed(Head(list.dirs))
    /\ list' = [list EXCEPT !.dirs = Tail(@),
                            !.items = Append(@, [id |-> Head(list.dirs), at |-> 0])]
    /\ walk' = Off
    /\ UNCHANGED <<storeVars, page, grid, total, panelVars>>

\* Sorting, paging, and the answer is shown.
ShowPage ==
    /\ list # Idle /\ list.dirs = <<>>
    /\ \E s \in SortedNewest(list.items) :
          LET rows == Page(s, PageSize, page * PageSize) IN
          grid' = [i \in DOMAIN rows |-> rows[i].id]
    /\ total' = Len(list.items)
    /\ list' = Idle
    /\ walk' = IF walk.on
               THEN [walk EXCEPT !.next = @ + 1, !.seen = @ \union ToSet(grid')]
               ELSE walk
    /\ UNCHANGED <<storeVars, page, panelVars>>

\* The catch of load: no cards, and the page number stays.
LoadFails ==
    /\ list # Idle
    /\ list' = Idle
    /\ walk' = Off
    /\ UNCHANGED <<storeVars, page, grid, total, panelVars>>

----------------------------------------------------------------------------
(* The detail panel: handleEvidence and evidence.js.                       *)

\* Whatever is written into the body of the panel removes the file viewer that
\* was in it: requests that hold on to that viewer write to nobody.
Render(b) ==
    /\ body' = b
    /\ viewer' = Nothing

Detached(a) ==
    [q \in Request |-> IF a[q].stage # "idle" /\ a[q].kind = "file"
                       THEN [a[q] EXCEPT !.attached = FALSE] ELSE a[q]]

Outstanding == {q \in Request : ask[q] # Idle}

\* openDetail on a card of the grid.
OpenDetail(q, p) ==
    /\ ask[q] = Idle /\ Cardinality(Outstanding) < scope.requests
    /\ p \in ToSet(grid)
    /\ Render([shows |-> "loading"])
    /\ ask' = Detached([ask EXCEPT ![q] = [stage |-> "stat", kind |-> "detail", id |-> p]])
    /\ walk' = Off
    /\ UNCHANGED <<storeVars, list, page, grid, total>>

\* What the tab still needs of a request that failed.
Failed(a) ==
    IF a.kind = "file"
    THEN [stage |-> "failed", kind |-> "file", attached |-> a.attached]
    ELSE [stage |-> "failed", kind |-> "detail"]

\* handleEvidence: os.Stat, 404 if there is no such directory.
Stat(q) ==
    /\ ask[q].stage = "stat"
    /\ ask' = [ask EXCEPT ![q] =
                 IF @.id \notin exists THEN Failed(@)
                 ELSE [@ EXCEPT !.stage = IF ask[q].kind = "file" THEN "file"
                                          ELSE "manifest"]]
    /\ UNCHANGED <<storeVars, gridVars, body, viewer>>

\* What readManifest and listDir tell of p: nothing if they fail.
ManifestOf(p) == {Sealed(p), FALSE}
ListingOf(p)  == {files[p], {}}

\* Mutant: the files are listed before the manifest is read.
ListFirst(q) ==
    \/ /\ ask[q].stage = "manifest"
       /\ \E names \in ListingOf(ask[q].id) :
             ask' = [ask EXCEPT ![q] = [stage |-> "files", kind |-> "detail", id |-> @.id,
                                        files |-> names]]
       /\ UNCHANGED <<storeVars, gridVars, body, viewer>>
    \/ /\ ask[q].stage = "files"
       /\ \E sealed \in ManifestOf(ask[q].id) :
             ask' = [ask EXCEPT ![q] = [stage |-> "answered", kind |-> "detail", id |-> @.id,
                                        sealed |-> sealed, files |-> @.files]]
       /\ UNCHANGED <<storeVars, gridVars, body, viewer>>

\* handleEvidence: the manifest first, then the list of files.
ReadDetail(q) ==
    \/ /\ ask[q].stage = "manifest"
       /\ \E sealed \in ManifestOf(ask[q].id) :
             ask' = [ask EXCEPT ![q] = [stage |-> "files", kind |-> "detail", id |-> @.id,
                                        sealed |-> sealed]]
       /\ UNCHANGED <<storeVars, gridVars, body, viewer>>
    \/ /\ ask[q].stage = "files"
       /\ \E names \in ListingOf(ask[q].id) :
             ask' = [ask EXCEPT ![q] = [stage |-> "answered", kind |-> "detail", id |-> @.id,
                                        sealed |-> @.sealed, files |-> names]]
       /\ UNCHANGED <<storeVars, gridVars, body, viewer>>

\* openDetail goes on: the answer replaces whatever the panel shows.
ShowDetail(q) ==
    /\ ask[q].stage = "answered" /\ ask[q].kind = "detail"
    /\ Render([shows |-> "package", id |-> ask[q].id,
               sealed |-> ask[q].sealed, files |-> ask[q].files])
    /\ ask' = Detached([ask EXCEPT ![q] = Idle])
    /\ UNCHANGED <<storeVars, gridVars>>

\* Mutant: openDetail has no catch.
DetailErrorLost(q) ==
    /\ ask[q].stage = "failed" /\ ask[q].kind = "detail"
    /\ ask' = [ask EXCEPT ![q] = Idle]
    /\ UNCHANGED <<storeVars, gridVars, body, viewer>>

\* The catch of openDetail.
ShowDetailError(q) ==
    /\ ask[q].stage = "failed" /\ ask[q].kind = "detail"
    /\ Render([shows |-> "error"])
    /\ ask' = Detached([ask EXCEPT ![q] = Idle])
    /\ UNCHANGED <<storeVars, gridVars>>

\* viewFile on a button of the package in the panel.
ViewFile(q, f) ==
    /\ ask[q] = Idle /\ Cardinality(Outstanding) < scope.requests
    /\ body.shows = "package" /\ f \in body.files
    /\ viewer' = [shows |-> "loading"]
    /\ ask' = [ask EXCEPT ![q] = [stage |-> "stat", kind |-> "file", id |-> body.id,
                                  name |-> f, attached |-> TRUE]]
    /\ walk' = Off
    /\ UNCHANGED <<storeVars, list, page, grid, total, body>>

\* handleEvidence: os.ReadFile, 404 if it fails.
ReadFile(q) ==
    /\ ask[q].stage = "file"
    /\ ask' = [ask EXCEPT ![q] =
                 IF @.name \in files[@.id] THEN [@ EXCEPT !.stage = "answered"]
                 ELSE Failed(@)]
    /\ UNCHANGED <<storeVars, gridVars, body, viewer>>

\* Mutant: viewFile looks its viewer up again when the answer is there.
ShowFileAnyway(q) ==
    /\ ask[q].stage \in {"answered", "failed"} /\ ask[q].kind = "file"
    /\ viewer' = IF ask[q].stage = "failed" THEN [shows |-> "error"]
                 ELSE [shows |-> "file", id |-> ask[q].id, name |-> ask[q].name]
    /\ ask' = [ask EXCEPT ![q] = Idle]
    /\ UNCHANGED <<storeVars, gridVars, body>>

\* viewFile goes on, in the viewer it looked up when it was called.
ShowFile(q) ==
    /\ ask[q].stage \in {"answered", "failed"} /\ ask[q].kind = "file"
    /\ viewer' = IF ~ ask[q].attached THEN viewer
                 ELSE IF ask[q].stage = "failed" THEN [shows |-> "error"]
                 ELSE [shows |-> "file", id |-> ask[q].id, name |-> ask[q].name]
    /\ ask' = [ask EXCEPT ![q] = Idle]
    /\ UNCHANGED <<storeVars, gridVars, body>>

\* The connection breaks before the answer is there.
Disconnect(q) ==
    /\ ask[q].stage \in {"stat", "manifest", "files", "file"}
    /\ ask' = [ask EXCEPT ![q] = Failed(@)]
    /\ UNCHANGED <<storeVars, gridVars, body, viewer>>

----------------------------------------------------------------------------
(* The specification.                                                      *)

\* The walk ends when a manifest is lost or replaced, by a reset or by another
\* capture in the directory: its package changes its place in the list.
WalkOverStore ==
    walk' = IF \A p \in Package : Sealed(p) => at'[p] = at[p] THEN walk ELSE Off

Captures ==
    /\ \/ \E c \in Capture :
             Create(c) \/ Preserve(c) \/ SealBegin(c) \/ SealEnd(c) \/ SealFails(c)
       \/ ResetList
       \/ \E p \in Package : ResetLeave(p) \/ \E f \in FileName : ResetUnlink(p, f)
    /\ WalkOverStore
    /\ UNCHANGED <<scope, pageVars, panelVars>>

Listing ==
    \/ \E p \in Offered \union {0} : Load(p) \/ LoadUnlisted(p)
    \/ ReadItem \/ ReadItemFails \/ ShowPage \/ LoadFails

Panel(q) ==
    \/ \E p \in Package : OpenDetail(q, p)
    \/ \E f \in FileName : ViewFile(q, f)
    \/ Stat(q) \/ ReadDetail(q) \/ ReadFile(q) \/ Disconnect(q)
    \/ ShowDetail(q) \/ ShowDetailError(q) \/ ShowFile(q)

\* Bound: while a page is loaded the panel waits.  The two share the store and
\* the grid only, which a page replaces in one step.
Next ==
    \/ Captures \/ Listing
    \/ \E q \in Request : list = Idle /\ Panel(q)

Spec == Init /\ [][Next]_vars

----------------------------------------------------------------------------
(* Properties.                                                             *)

\* Whoever walks through the pages to the last one has been shown every package
\* that was sealed at the beginning, although others are created, sealed and so
\* move to the front meanwhile, as long as the handlers can read what is there
\* and no sealed package loses its manifest or gets another one.
PackagesAllShown ==
    /\ walk.on /\ list = Idle
    /\ walk.next * PageSize >= total
    => walk.goal \subseteq walk.seen

\* A package shown with its manifest is shown with all its files, or with none
\* if they could not be listed, never with a part of them, unless a reset was at
\* work on it.
DetailComplete ==
    body.shows = "package" =>
        (body.sealed /\ body.id \notin wiped => body.files \in {FileName, {}})

\* The file below the panel is one of the package in the panel, in whatever
\* order packages and files are asked for and answered.
ViewerBelongs ==
    viewer.shows = "file" => body.shows = "package" /\ body.id = viewer.id

\* Neither the body of the panel nor the file viewer in it is left at its
\* spinner: as long as it shows that, a request is under way whose end will
\* replace it, whichever requests failed before.
LoadingIsAwaited ==
    /\ body.shows = "loading" =>
          \E q \in Request : ask[q].stage # "idle" /\ ask[q].kind = "detail"
    /\ viewer.shows = "loading" =>
          \E q \in Request :
             ask[q].stage # "idle" /\ ask[q].kind = "file" /\ ask[q].attached
=============================================================================
