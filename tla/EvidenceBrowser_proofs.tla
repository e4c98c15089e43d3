---------------------- MODULE EvidenceBrowser_proofs -----------------------
(***************************************************************************)
(* Proofs about EvidenceBrowser, for any captures, directories, requests,  *)
(* resets and page size.                                                   *)
(*                                                                         *)
(* The panel: what a request still under way may write is tied to what the *)
(* panel shows now.  A file request that is attached is one of the package *)
(* in the panel; whoever has seen a manifest finds all files, or none.     *)
(*                                                                         *)
(* The list: a sealed package the walk has not shown yet has at least as   *)
(* many newer ones before it as the walk has shown cards.  While the page  *)
(* is read, only those count that are in the listing already or will be.   *)
(***************************************************************************)
EXTENDS EvidenceBrowser, FiniteSetTheorems, TLAPS

StoreTypeOK ==
    /\ exists \subseteq Package
    /\ files \in [Package -> SUBSET FileName]
    /\ at \in [Package -> Nat]
    /\ stage \in [Capture -> {"new", "created", "writing", "sealing", "over"}]
    /\ time \in [Capture -> Nat]
    /\ doomed \subseteq Package
    /\ scope \in Scope
    /\ resets \in 0 .. scope.resets
    /\ wiped \subseteq Package

\* The time taken by Preserve is a new one and the latest, and the time in a
\* manifest is that of a capture in its directory.
TimesOK ==
    /\ \A c \in Capture : stage[c] \in {"new", "created"} => time[c] = 0
    /\ \A b, c \in Capture : time[b] = time[c] /\ time[b] > 0 => b = c
    /\ Capture # {} => \E c \in Capture : \A b \in Capture : time[b] <= time[c]
    /\ \A p \in Package :
          Sealed(p) => \E c \in Capture : PackageOf[c] = p /\ time[c] = at[p]

\* What is in a directory, from the manifest back to the directory.
FilesOK ==
    /\ \A p \in Package : Sealed(p) => "manifest.json" \in files[p]
    /\ \A c \in Capture : stage[c] = "sealing" => "manifest.json" \in files[PackageOf[c]]
    /\ \A p \in Package \ wiped : Sealed(p) => "artifact" \in files[p]
    /\ \A c \in Capture : stage[c] \in {"writing", "sealing"} /\ PackageOf[c] \notin wiped
                             => "artifact" \in files[PackageOf[c]]
    /\ \A p \in Package : files[p] # {} => p \in exists

StoreInv ==
    /\ StoreTypeOK
    /\ TimesOK
    /\ FilesOK
    /\ IsFiniteSet(exists)

\* Only a reset takes files away.
FilesKept ==
    /\ wiped \subseteq wiped'
    /\ \A p \in Package : p \notin wiped' => files[p] \subseteq files'[p]

\* A walk goes on only if sealed packages keep their manifests.
WalkOverKept ==
    \/ walk' = Off
    \/ walk' = walk /\ \A p \in Package : Sealed(p) => at'[p] = at[p]

LEMMA Directory == \A c \in Capture : PackageOf[c] \in Package
BY BrowserAssumption

LEMMA LatestTime ==
    ASSUME StoreTypeOK, TimesOK, Capture # {}
    PROVE  /\ Max({time[b] : b \in Capture}) \in Nat
           /\ \A c \in Capture : time[c] <= Max({time[b] : b \in Capture})
<1>1. PICK c \in Capture : \A b \in Capture : time[b] <= time[c]
  BY DEF TimesOK
<1>2. \A b \in Capture : time[b] \in Nat
  BY DEF StoreTypeOK
<1>3. \E m \in {time[b] : b \in Capture} : \A y \in {time[b] : b \in Capture} : m >= y
  BY <1>1, <1>2
<1>4. /\ Max({time[b] : b \in Capture}) \in {time[b] : b \in Capture}
      /\ \A y \in {time[b] : b \in Capture} : Max({time[b] : b \in Capture}) >= y
  BY <1>3 DEF Max
<1> QED
  BY <1>2, <1>4

\* No two packages have the same time in their manifests.
LEMMA OneTime ==
    ASSUME StoreInv, NEW o \in Package, NEW p \in Package, at[o] = at[p], Sealed(p)
    PROVE  o = p
<1>1. Sealed(o)
  BY DEF Sealed
<1>2. PICK b \in Capture : PackageOf[b] = o /\ time[b] = at[o]
  BY <1>1 DEF StoreInv, TimesOK
<1>3. PICK c \in Capture : PackageOf[c] = p /\ time[c] = at[p]
  BY DEF StoreInv, TimesOK
<1>4. time[b] = time[c] /\ time[b] > 0
  BY <1>2, <1>3 DEF Sealed
<1> QED
  BY <1>2, <1>3, <1>4 DEF StoreInv, TimesOK

LEMMA StoreInit == Init => StoreInv
<1> SUFFICES ASSUME Init PROVE StoreInv
  OBVIOUS
<1>1. StoreTypeOK
  BY BrowserAssumption DEF Init, StoreTypeOK
<1>2. TimesOK
  BY DEF Init, TimesOK, Sealed
<1>3. FilesOK
  BY DEF Init, FilesOK, Sealed
<1> QED
  BY <1>1, <1>2, <1>3, FS_EmptySet DEF Init, StoreInv

\* A new manifest, or the loss of one.
LEMMA SealStep ==
    ASSUME StoreInv, NEW c \in Capture, SealEnd(c) \/ SealFails(c),
           scope' = scope
    PROVE  StoreInv' /\ FilesKept
<1> DEFINE p == PackageOf[c]
<1>1. p \in Package /\ StoreTypeOK /\ TimesOK /\ FilesOK
  BY Directory DEF StoreInv
<1>2. /\ stage[c] = "sealing" /\ stage' = [stage EXCEPT ![c] = "over"]
      /\ UNCHANGED <<exists, files, time, doomed, resets, wiped>>
  BY DEF SealEnd, SealFails
<1>3. PICK t \in {0, at[p], time[c]} : at' = [at EXCEPT ![p] = t]
  BY DEF SealEnd, SealFails
<1> HIDE DEF p
<1>4. t \in Nat /\ \A o \in Package : at'[o] = IF o = p THEN t ELSE at[o]
  BY <1>1, <1>3 DEF StoreTypeOK
<1>5. \A b \in Capture : stage'[b] = IF b = c THEN "over" ELSE stage[b]
  BY <1>1, <1>2 DEF StoreTypeOK
<1>6. StoreTypeOK'
  BY <1>1, <1>2, <1>3, <1>4 DEF StoreTypeOK
<1>7. TimesOK'
  <2>1. ASSUME NEW o \in Package, at'[o] > 0
        PROVE  \E b \in Capture : PackageOf[b] = o /\ time[b] = at'[o]
    <3>1. CASE at'[o] = at[o]
      BY <1>1, <2>1, <3>1 DEF TimesOK, Sealed
    <3>2. CASE at'[o] # at[o]
      <4>1. o = p /\ at'[o] = time[c]
        BY <1>3, <1>4, <2>1, <3>2
      <4> QED
        BY <4>1 DEF p
    <3> QED
      BY <3>1, <3>2
  <2> QED
    BY <1>1, <1>2, <1>5, <2>1 DEF TimesOK, Sealed
<1>8. FilesOK'
  <2>1. /\ "manifest.json" \in files[p]
        /\ p \notin wiped => "artifact" \in files[p]
    BY <1>1, <1>2 DEF FilesOK, p
  <2>2. \A o \in Package : at'[o] > 0 => o = p \/ Sealed(o)
    BY <1>4 DEF Sealed
  <2> QED
    BY <1>1, <1>2, <1>5, <2>1, <2>2 DEF FilesOK, Sealed
<1> QED
  BY <1>2, <1>6, <1>7, <1>8 DEF StoreInv, FilesKept

LEMMA PreserveStep ==
    ASSUME StoreInv, NEW c \in Capture, Preserve(c),
           scope' = scope
    PROVE  StoreInv' /\ FilesKept
<1> DEFINE p == PackageOf[c]
           t == 1 + Max({time[b] : b \in Capture})
<1>1. p \in Package /\ StoreTypeOK /\ TimesOK /\ FilesOK
  BY Directory DEF StoreInv
<1>2. /\ stage[c] = "created" /\ p \in exists /\ stage' = [stage EXCEPT ![c] = "writing"]
      /\ time' = [time EXCEPT ![c] = t]
      /\ files' = [files EXCEPT ![p] = @ \union {"artifact"}]
      /\ UNCHANGED <<exists, at, doomed, resets, wiped>>
  BY DEF Preserve
<1>3. t \in Nat /\ t > 0 /\ \A b \in Capture : time[b] \in Nat /\ time[b] < t
  <2> DEFINE m == Max({time[b] : b \in Capture})
  <2>1. m \in Nat /\ \A b \in Capture : time[b] <= m
    BY <1>1, LatestTime
  <2>2. \A b \in Capture : time[b] \in Nat
    BY <1>1 DEF StoreTypeOK
  <2> HIDE DEF m
  <2>3. 1 + m \in Nat /\ 1 + m > 0 /\ \A b \in Capture : time[b] \in Nat /\ time[b] < 1 + m
    BY <2>1, <2>2
  <2> QED
    BY <2>3 DEF m
<1> HIDE DEF t, p
<1>4. \A b \in Capture : time'[b] = IF b = c THEN t ELSE time[b]
  BY <1>1, <1>2 DEF StoreTypeOK
<1>5. \A b \in Capture : stage'[b] = IF b = c THEN "writing" ELSE stage[b]
  BY <1>1, <1>2 DEF StoreTypeOK
<1>6. \A o \in Package : files'[o] = IF o = p THEN files[o] \union {"artifact"} ELSE files[o]
  BY <1>1, <1>2 DEF StoreTypeOK
<1>7. StoreTypeOK'
  <2>1. files' \in [Package -> SUBSET FileName]
    BY <1>1, <1>2 DEF StoreTypeOK, FileName
  <2> QED
    BY <1>1, <1>2, <1>3, <2>1 DEF StoreTypeOK
<1>8. TimesOK'
  <2>1. \A b \in Capture : stage'[b] \in {"new", "created"} => time'[b] = 0
    BY <1>1, <1>4, <1>5 DEF TimesOK
  <2>2. \A a, b \in Capture : time'[a] = time'[b] /\ time'[a] > 0 => a = b
    BY <1>1, <1>3, <1>4 DEF TimesOK
  <2>3. \A b \in Capture : time'[b] <= time'[c]
    BY <1>3, <1>4
  <2>4. ASSUME NEW o \in Package, Sealed(o)
        PROVE  \E b \in Capture : PackageOf[b] = o /\ time'[b] = at[o]
    <3>1. PICK b \in Capture : PackageOf[b] = o /\ time[b] = at[o]
      BY <1>1, <2>4 DEF TimesOK
    <3>2. time[c] = 0
      BY <1>1, <1>2 DEF TimesOK
    <3>3. b # c
      BY <2>4, <3>1, <3>2 DEF Sealed
    <3> QED
      BY <1>4, <3>1, <3>3
  <2> QED
    BY <1>2, <2>1, <2>2, <2>3, <2>4 DEF TimesOK, Sealed
<1>9. FilesOK'
  BY <1>1, <1>2, <1>5, <1>6 DEF FilesOK, Sealed, p
<1> QED
  BY <1>2, <1>6, <1>7, <1>8, <1>9 DEF StoreInv, FilesKept

LEMMA SealBeginStep ==
    ASSUME StoreInv, NEW c \in Capture, SealBegin(c),
           scope' = scope
    PROVE  StoreInv' /\ FilesKept
<1> DEFINE p == PackageOf[c]
<1>1. p \in Package /\ StoreTypeOK /\ TimesOK /\ FilesOK
  BY Directory DEF StoreInv
<1>2. /\ stage[c] = "writing" /\ p \in exists /\ stage' = [stage EXCEPT ![c] = "sealing"]
      /\ files' = [files EXCEPT ![p] = @ \union {"manifest.json"}]
      /\ at' = [at EXCEPT ![p] = 0]
      /\ UNCHANGED <<exists, time, doomed, resets, wiped>>
  BY DEF SealBegin
<1> HIDE DEF p
<1>3. \A b \in Capture : stage'[b] = IF b = c THEN "sealing" ELSE stage[b]
  BY <1>1, <1>2 DEF StoreTypeOK
<1>4. \A o \in Package :
         /\ files'[o] = IF o = p THEN files[o] \union {"manifest.json"} ELSE files[o]
         /\ at'[o] = IF o = p THEN 0 ELSE at[o]
  BY <1>1, <1>2 DEF StoreTypeOK
<1>5. StoreTypeOK'
  <2>1. files' \in [Package -> SUBSET FileName]
    BY <1>1, <1>2 DEF StoreTypeOK, FileName
  <2> QED
    BY <1>1, <1>2, <2>1 DEF StoreTypeOK
<1>6. \A o \in Package : at'[o] > 0 => o # p /\ Sealed(o) /\ at'[o] = at[o]
  <2>1. ASSUME NEW o \in Package, at'[o] > 0 PROVE o # p
    <3>1. o = p => at'[o] = 0
      BY <1>4
    <3>2. at'[o] # 0
      BY <1>5, <2>1 DEF StoreTypeOK
    <3> QED
      BY <3>1, <3>2
  <2> QED
    BY <1>4, <2>1 DEF Sealed
<1>7. TimesOK'
  BY <1>1, <1>2, <1>3, <1>6 DEF TimesOK, Sealed
<1>8. FilesOK'
  BY <1>1, <1>2, <1>3, <1>4, <1>6 DEF FilesOK, Sealed, p
<1> QED
  BY <1>2, <1>4, <1>5, <1>7, <1>8 DEF StoreInv, FilesKept

LEMMA ResetUnlinkStep ==
    ASSUME StoreInv, NEW p \in Package, NEW f \in FileName, ResetUnlink(p, f),
           scope' = scope
    PROVE  StoreInv' /\ FilesKept
<1>1. StoreTypeOK /\ TimesOK /\ FilesOK
  BY DEF StoreInv
<1>2. /\ files' = [files EXCEPT ![p] = @ \ {f}] /\ wiped' = wiped \union {p}
      /\ UNCHANGED <<exists, time, doomed, resets>>
  BY DEF ResetUnlink
<1>3. \A o \in Package : files'[o] = IF o = p THEN files[o] \ {f} ELSE files[o]
  BY <1>1, <1>2 DEF StoreTypeOK
<1>4. \/ f # "manifest.json" /\ at' = at /\ stage' = stage
      \/ /\ f = "manifest.json" /\ at' = [at EXCEPT ![p] = 0]
         /\ stage' = [c \in Capture |-> IF PackageOf[c] = p /\ stage[c] = "sealing"
                                        THEN "over" ELSE stage[c]]
  BY DEF ResetUnlink
<1>5. /\ at' \in [Package -> Nat]
      /\ stage' \in [Capture -> {"new", "created", "writing", "sealing", "over"}]
  BY <1>1, <1>4 DEF StoreTypeOK
<1>6. \A o \in Package : at'[o] > 0 =>
         Sealed(o) /\ at'[o] = at[o] /\ (o = p => f # "manifest.json")
  BY <1>1, <1>4 DEF StoreTypeOK, Sealed
<1>7. \A c \in Capture : stage'[c] # "over" =>
         stage'[c] = stage[c] /\ (stage[c] = "sealing" /\ PackageOf[c] = p => f # "manifest.json")
  BY <1>1, <1>4 DEF StoreTypeOK
<1>8. StoreTypeOK'
  BY <1>1, <1>2, <1>5 DEF StoreTypeOK
<1>9. TimesOK'
  BY <1>1, <1>2, <1>6, <1>7 DEF TimesOK, Sealed
<1>10. FilesOK'
  BY <1>1, <1>2, <1>3, <1>6, <1>7, Directory DEF FilesOK, Sealed
<1> QED
  BY <1>2, <1>3, <1>8, <1>9, <1>10 DEF StoreInv, FilesKept

LEMMA CapturesStep == StoreInv /\ Captures => StoreInv' /\ FilesKept /\ WalkOverKept
<1> SUFFICES ASSUME StoreInv, Captures PROVE StoreInv' /\ FilesKept /\ WalkOverKept
  OBVIOUS
<1>1. StoreTypeOK /\ TimesOK /\ FilesOK
  BY DEF StoreInv
<1>2. WalkOverKept /\ scope' = scope
  BY DEF Captures, WalkOverStore, WalkOverKept
<1>3. ASSUME NEW c \in Capture, Create(c) PROVE StoreInv' /\ FilesKept
  <2>1. PackageOf[c] \in Package
    BY Directory
  <2>2. /\ stage[c] = "new" /\ stage' = [stage EXCEPT ![c] = "created"]
        /\ exists' = exists \union {PackageOf[c]}
        /\ UNCHANGED <<files, at, time, doomed, resets, wiped>>
    BY <1>3 DEF Create
  <2>3. IsFiniteSet(exists')
    BY <2>2, FS_AddElement DEF StoreInv
  <2>4. \A b \in Capture : stage'[b] = IF b = c THEN "created" ELSE stage[b]
    BY <1>1, <2>2 DEF StoreTypeOK
  <2>5. StoreTypeOK'
    BY <1>1, <1>2, <2>1, <2>2 DEF StoreTypeOK
  <2>6. TimesOK'
    BY <1>1, <2>2, <2>4 DEF TimesOK, Sealed
  <2>7. FilesOK'
    BY <1>1, <2>2, <2>4 DEF FilesOK, Sealed
  <2> QED
    BY <2>2, <2>3, <2>5, <2>6, <2>7 DEF StoreInv, FilesKept
<1>4. CASE ResetList
  <2>1. /\ resets < scope.resets /\ resets' = resets + 1 /\ doomed' = exists
        /\ UNCHANGED <<exists, files, at, stage, time, wiped>>
    BY <1>4 DEF ResetList
  <2>2. resets' \in 0 .. scope.resets
    BY <1>1, <2>1, BrowserAssumption DEF StoreTypeOK
  <2>3. StoreTypeOK'
    BY <1>1, <1>2, <2>1, <2>2 DEF StoreTypeOK
  <2>4. TimesOK' /\ FilesOK' /\ FilesKept
    BY <1>1, <2>1 DEF TimesOK, FilesOK, FilesKept, Sealed
  <2>5. IsFiniteSet(exists')
    BY <2>1 DEF StoreInv
  <2> QED
    BY <1>2, <2>3, <2>4, <2>5 DEF StoreInv
<1>5. ASSUME NEW p \in Package, ResetLeave(p) PROVE StoreInv' /\ FilesKept
  <2>1. /\ doomed' = doomed \ {p} /\ wiped' = wiped \union {p}
        /\ UNCHANGED <<files, at, stage, time, resets>>
        /\ exists' \subseteq exists
        /\ \A o \in exists : o \in exists' \/ files[o] = {}
    BY <1>5 DEF ResetLeave
  <2>2. IsFiniteSet(exists')
    BY <2>1, FS_Subset DEF StoreInv
  <2>3. StoreTypeOK' /\ TimesOK'
    BY <1>1, <1>2, <2>1 DEF StoreTypeOK, TimesOK, Sealed
  <2>4. FilesOK'
    BY <1>1, <2>1 DEF FilesOK, Sealed
  <2> QED
    BY <2>1, <2>2, <2>3, <2>4 DEF StoreInv, FilesKept
<1> QED
  BY <1>2, <1>3, <1>4, <1>5, PreserveStep, SealBeginStep, SealStep, ResetUnlinkStep
     DEF Captures

LEMMA StoreStep == StoreInv /\ [Next]_vars => StoreInv' /\ FilesKept
<1> SUFFICES ASSUME StoreInv, [Next]_vars PROVE StoreInv' /\ FilesKept
  OBVIOUS
<1>1. CASE UNCHANGED storeVars
  BY <1>1 DEF storeVars, StoreInv, StoreTypeOK, TimesOK, FilesOK, Sealed, FilesKept
<1>2. CASE Listing
  BY <1>1, <1>2 DEF Listing, Load, LoadUnlisted, ReadItem, ReadItemFails, ShowPage, LoadFails
<1>3. CASE \E q \in Request : Panel(q)
  BY <1>1, <1>3 DEF Panel, OpenDetail, ViewFile, Stat, ReadDetail, ReadFile, Disconnect,
     ShowDetail, ShowDetailError, ShowFile
<1> QED
  BY <1>1, <1>2, <1>3, CapturesStep DEF Next, vars
----------------------------------------------------------------------------
(* The panel.                                                              *)

DetailAsk    == [stage : {"stat", "manifest"}, kind : {"detail"}, id : Package]
ManifestRead == [stage : {"files"}, kind : {"detail"}, id : Package, sealed : BOOLEAN]
DetailAnswer == [stage : {"answered"}, kind : {"detail"}, id : Package,
                 sealed : BOOLEAN, files : SUBSET FileName]
DetailFailed == [stage : {"failed"}, kind : {"detail"}]
FileAsk      == [stage : {"stat", "file", "answered"}, kind : {"file"}, id : Package,
                 name : FileName, attached : BOOLEAN]
FileFailed   == [stage : {"failed"}, kind : {"file"}, attached : BOOLEAN]

DetailAsks == DetailAsk \union ManifestRead \union DetailAnswer \union DetailFailed
FileAsks   == FileAsk \union FileFailed
Asks       == {Idle} \union DetailAsks \union FileAsks

Bodies == {Nothing, [shows |-> "loading"], [shows |-> "error"]}
             \union [shows : {"package"}, id : Package, sealed : BOOLEAN,
                     files : SUBSET FileName]

Viewers == {Nothing, [shows |-> "loading"], [shows |-> "error"]}
              \union [shows : {"file"}, id : Package, name : FileName]

\* The two halves of LoadingIsAwaited, for the kinds of requests.
BodyAwaited   == body.shows = "loading" => \E q \in Request : ask[q] \in DetailAsks
WritesViewer(r) == r \in FileAsks /\ r.attached
ViewerAwaited == viewer.shows = "loading" => \E q \in Request : WritesViewer(ask[q])

\* A file request that is attached is one of the package in the panel.
Belongs(r) == r \in FileAsk /\ r.attached => body.shows = "package" /\ body.id = r.id

\* Whoever has read a manifest will find all files, as they were written before
\* it, and an answer has them all or none, unless a reset was at work.
Complete(r) ==
    /\ r \in ManifestRead /\ r.sealed /\ r.id \notin wiped => files[r.id] = FileName
    /\ r \in DetailAnswer /\ r.sealed /\ r.id \notin wiped => r.files \in {FileName, {}}

PanelInv ==
    /\ ask \in [Request -> Asks]
    /\ body \in Bodies
    /\ viewer \in Viewers
    /\ \A q \in Request : Belongs(ask[q]) /\ Complete(ask[q])
    /\ ViewerBelongs /\ BodyAwaited /\ ViewerAwaited /\ DetailComplete

\* The kind and the stage of a request tell what it holds.
LEMMA AskTells ==
    ASSUME NEW r \in Asks
    PROVE  /\ r.stage = "idle" <=> r = Idle
           /\ r # Idle => r.kind \in {"detail", "file"}
           /\ r # Idle /\ r.kind = "detail" => r \in DetailAsks
           /\ r # Idle /\ r.kind = "file" => r \in FileAsks
           /\ r \in DetailAsks => r.kind = "detail" /\ r # Idle
           /\ r \in FileAsks => r.kind = "file" /\ r # Idle
<1>1. ASSUME r = Idle PROVE r.stage = "idle"
  BY <1>1 DEF Idle
<1>2. ASSUME r \in DetailAsks PROVE r.stage # "idle" /\ r.kind = "detail"
  BY <1>2 DEF DetailAsks, DetailAsk, ManifestRead, DetailAnswer, DetailFailed
<1>3. ASSUME r \in FileAsks PROVE r.stage # "idle" /\ r.kind = "file"
  BY <1>3 DEF FileAsks, FileAsk, FileFailed
<1> QED
  BY <1>1, <1>2, <1>3 DEF Asks

LEMMA StageOfDetail ==
    ASSUME NEW r \in DetailAsks
    PROVE  /\ r.stage \in {"stat", "manifest"} => r \in DetailAsk
           /\ r.stage = "files" => r \in ManifestRead
           /\ r.stage = "answered" => r \in DetailAnswer
           /\ r.stage \in {"stat", "manifest", "files", "answered", "failed"}
           /\ r \notin FileAsk
BY DEF DetailAsks, DetailAsk, ManifestRead, DetailAnswer, DetailFailed, FileAsk

LEMMA StageOfFile ==
    ASSUME NEW r \in FileAsks
    PROVE  /\ r.stage # "failed" => r \in FileAsk
           /\ r.stage \in {"stat", "file", "answered", "failed"}
           /\ r \notin ManifestRead /\ r \notin DetailAnswer
BY DEF FileAsks, FileAsk, FileFailed, ManifestRead, DetailAnswer

LEMMA IdleIsQuiet == Belongs(Idle) /\ Complete(Idle)
BY DEF Belongs, Complete, Idle, FileAsk, ManifestRead, DetailAnswer

LEMMA FailedIsQuiet ==
    ASSUME NEW r \in Asks, r # Idle
    PROVE  /\ Failed(r) \in Asks /\ Belongs(Failed(r)) /\ Complete(Failed(r))
           /\ r \in DetailAsks => Failed(r) \in DetailAsks
           /\ WritesViewer(Failed(r)) \/ ~ WritesViewer(r)
<1>1. CASE r \in DetailAsks
  <2>1. Failed(r) = [stage |-> "failed", kind |-> "detail"]
    BY <1>1, AskTells DEF Failed
  <2>2. Failed(r) \in DetailFailed
    BY <2>1 DEF DetailFailed
  <2>3. ~ WritesViewer(r)
    BY <1>1, AskTells DEF WritesViewer
  <2> QED
    BY <2>1, <2>2, <2>3 DEF Asks, DetailAsks, Belongs, Complete, FileAsk, ManifestRead, DetailAnswer
<1>2. CASE r \in FileAsks
  <2>1. r.kind = "file" /\ r.attached \in BOOLEAN
    BY <1>2 DEF FileAsks, FileAsk, FileFailed
  <2>2. Failed(r) = [stage |-> "failed", kind |-> "file", attached |-> r.attached]
    BY <2>1 DEF Failed
  <2>3. Failed(r) \in FileFailed
    BY <2>1, <2>2 DEF FileFailed
  <2>4. r \notin DetailAsks
    BY <1>2, AskTells
  <2>5. Failed(r) \in FileAsks /\ Failed(r).attached = r.attached
    BY <2>2, <2>3 DEF FileAsks
  <2> QED
    BY <2>2, <2>3, <2>4, <2>5 DEF Asks, FileAsks, Belongs, Complete, FileAsk, ManifestRead,
       DetailAnswer, WritesViewer
<1> QED
  BY <1>1, <1>2, AskTells

\* A step that changes one request, and nothing in the panel that another
\* request is tied to.
LEMMA OneAsk ==
    ASSUME PanelInv, UNCHANGED <<storeVars, body>>, NEW q \in Request, NEW r \in Asks,
           ask' = [ask EXCEPT ![q] = r], Belongs(r), Complete(r),
           ask[q] \in DetailAsks => r \in DetailAsks,
           viewer' \in Viewers, ViewerBelongs',
           viewer'.shows = "loading" =>
              WritesViewer(r) \/ (viewer' = viewer /\ ~ WritesViewer(ask[q]))
    PROVE  PanelInv'
<1>1. \A o \in Request : ask'[o] = IF o = q THEN r ELSE ask[o]
  BY DEF PanelInv
<1>2. ask' \in [Request -> Asks] /\ body' \in Bodies
  BY DEF PanelInv
<1>3. \A o \in Request : Belongs(ask'[o]) /\ Complete(ask'[o])
  BY <1>1 DEF PanelInv
<1>4. \A o \in Request : Belongs(ask[o])' /\ Complete(ask[o])'
  BY <1>3 DEF Belongs, Complete, storeVars
<1>5. BodyAwaited'
  BY <1>1 DEF PanelInv, BodyAwaited
<1>6. ViewerAwaited'
  <2> SUFFICES ASSUME viewer'.shows = "loading"
               PROVE  \E o \in Request : WritesViewer(ask'[o])
    BY DEF ViewerAwaited, WritesViewer
  <2>1. CASE WritesViewer(r)
    BY <1>1, <2>1
  <2>2. CASE viewer' = viewer /\ ~ WritesViewer(ask[q])
    <3>1. PICK o \in Request : WritesViewer(ask[o])
      BY <2>2 DEF PanelInv, ViewerAwaited
    <3> QED
      BY <1>1, <2>2, <3>1
  <2> QED
    BY <2>1, <2>2
<1>7. DetailComplete'
  BY DEF PanelInv, DetailComplete, storeVars
<1> QED
  BY <1>2, <1>4, <1>5, <1>6, <1>7 DEF PanelInv

\* A step that writes into the panel: file requests lose their viewer.
LEMMA Rendered ==
    ASSUME PanelInv, UNCHANGED storeVars, NEW q \in Request, NEW r \in Asks,
           ask' = Detached([ask EXCEPT ![q] = r]), r \notin FileAsks, Complete(r),
           NEW b \in Bodies, Render(b), b.shows = "loading" => r \in DetailAsks,
           b.shows = "package" =>
              (b.sealed /\ b.id \notin wiped => b.files \in {FileName, {}})
    PROVE  PanelInv'
<1> DEFINE a == [ask EXCEPT ![q] = r]
<1>1. a \in [Request -> Asks] /\ \A o \in Request : a[o] = IF o = q THEN r ELSE ask[o]
  BY DEF PanelInv
<1>2. \A o \in Request : Complete(a[o])
  BY <1>1 DEF PanelInv
<1> HIDE DEF a
<1>3. \A o \in Request : ask'[o] = IF a[o].stage # "idle" /\ a[o].kind = "file"
                                   THEN [a[o] EXCEPT !.attached = FALSE] ELSE a[o]
  BY DEF Detached, a
<1>4. DOMAIN ask' = Request /\ ask' = [o \in Request |-> ask'[o]]
  BY DEF Detached
<1>5. ASSUME NEW o \in Request
      PROVE  /\ ask'[o] \in Asks /\ Complete(ask'[o])
             /\ ask'[o] \in FileAsk => ask'[o].attached = FALSE
             /\ a[o] \in DetailAsks => ask'[o] = a[o]
  <2>1. CASE a[o] \in FileAsks
    <3>1. ask'[o] = [a[o] EXCEPT !.attached = FALSE]
      BY <1>1, <1>3, <2>1, AskTells
    <3>2. ask'[o] \in FileAsks /\ ask'[o].attached = FALSE
      BY <2>1, <3>1 DEF FileAsks, FileAsk, FileFailed
    <3>3. Complete(ask'[o])
      BY <3>2, StageOfFile DEF Complete
    <3>4. a[o] \notin DetailAsks
      BY <1>1, <2>1, AskTells
    <3> QED
      BY <3>2, <3>3, <3>4 DEF Asks
  <2>2. CASE a[o] \notin FileAsks
    <3>1. ask'[o] = a[o]
      BY <1>1, <1>3, <2>2, AskTells
    <3> QED
      BY <1>1, <1>2, <2>2, <3>1 DEF FileAsks
  <2> QED
    BY <2>1, <2>2
<1>6. ask' \in [Request -> Asks]
  BY <1>4, <1>5
<1>7. \A o \in Request : Belongs(ask[o])' /\ Complete(ask[o])'
  BY <1>5 DEF Belongs, Complete, storeVars
<1>8. body' = b /\ viewer' = Nothing
  BY DEF Render
<1>9. BodyAwaited'
  <2> SUFFICES ASSUME b.shows = "loading" PROVE ask'[q] \in DetailAsks
    BY <1>8 DEF BodyAwaited
  <2> QED
    BY <1>1, <1>5
<1>10. ViewerBelongs' /\ ViewerAwaited' /\ viewer' \in Viewers
  BY <1>8 DEF ViewerBelongs, ViewerAwaited, Nothing, Viewers
<1>11. DetailComplete'
  BY <1>8 DEF DetailComplete, storeVars
<1> QED
  BY <1>6, <1>7, <1>8, <1>9, <1>10, <1>11 DEF PanelInv

\* The store moves under the panel and the requests.
LEMMA PanelOverStore ==
    ASSUME StoreInv, StoreInv', PanelInv, FilesKept, UNCHANGED panelVars
    PROVE  PanelInv'
<1>1. \A r \in Asks : Complete(r) => Complete(r)'
  <2> SUFFICES ASSUME NEW r \in Asks, Complete(r), r.sealed, r.id \notin wiped'
               PROVE  /\ r \in ManifestRead => files'[r.id] = FileName
                      /\ r \in DetailAnswer => r.files \in {FileName, {}}
    BY DEF Complete
  <2>1. r.id \notin wiped
    BY DEF FilesKept
  <2>2. r \in ManifestRead => r.id \in Package
    BY DEF ManifestRead
  <2>3. \A p \in Package : files'[p] \subseteq FileName
    BY DEF StoreInv, StoreTypeOK
  <2> QED
    BY <2>1, <2>2, <2>3 DEF Complete, FilesKept
<1>2. \A q \in Request : Complete(ask[q])'
  <2>1. \A q \in Request : ask[q] \in Asks /\ Complete(ask[q])
    BY DEF PanelInv
  <2>2. ask' = ask
    BY DEF panelVars
  <2> QED
    BY <1>1, <2>1, <2>2 DEF Complete
<1>3. DetailComplete'
  BY DEF PanelInv, DetailComplete, FilesKept, panelVars
<1> QED
  BY <1>2, <1>3 DEF PanelInv, panelVars, Belongs, ViewerBelongs, BodyAwaited, ViewerAwaited

LEMMA OpenDetailStep ==
    ASSUME PanelInv, NEW q \in Request, NEW p \in Package, OpenDetail(q, p)
    PROVE  PanelInv'
<1> DEFINE r == [stage |-> "stat", kind |-> "detail", id |-> p]
           b == [shows |-> "loading"]
<1>1. r \in DetailAsk
  BY DEF DetailAsk
<1>2. r \in Asks /\ r \in DetailAsks
  BY <1>1 DEF Asks, DetailAsks
<1>3. r \notin FileAsks /\ Complete(r)
  BY DEF FileAsks, FileAsk, FileFailed, Complete, ManifestRead, DetailAnswer
<1>4. b \in Bodies /\ b.shows = "loading"
  BY DEF Bodies
<1>5. /\ ask' = Detached([ask EXCEPT ![q] = r]) /\ Render(b) /\ UNCHANGED storeVars
  BY DEF OpenDetail
<1> HIDE DEF r, b
<1> QED
  BY <1>2, <1>3, <1>4, <1>5, Rendered

LEMMA ShowDetailStep ==
    ASSUME PanelInv, NEW q \in Request, ShowDetail(q)
    PROVE  PanelInv'
<1> DEFINE a == ask[q]
           b == [shows |-> "package", id |-> a.id, sealed |-> a.sealed, files |-> a.files]
<1>1. a \in DetailAnswer /\ Complete(a)
  BY AskTells, StageOfDetail DEF ShowDetail, PanelInv, Idle
<1>2. b \in [shows : {"package"}, id : Package, sealed : BOOLEAN, files : SUBSET FileName]
  BY <1>1 DEF DetailAnswer
<1>3. b.shows = "package" /\ b.id = a.id /\ b.sealed = a.sealed /\ b.files = a.files /\ b \in Bodies
  BY <1>2 DEF Bodies
<1>4. b.sealed /\ b.id \notin wiped => b.files \in {FileName, {}}
  BY <1>1, <1>3 DEF Complete
<1>5. /\ ask' = Detached([ask EXCEPT ![q] = Idle]) /\ Render(b) /\ UNCHANGED storeVars
  BY DEF ShowDetail
<1>6. Idle \in Asks /\ Idle \notin FileAsks
  BY AskTells DEF Asks
<1> HIDE DEF b
<1> QED
  BY <1>3, <1>4, <1>5, <1>6, IdleIsQuiet, Rendered

LEMMA ShowDetailErrorStep ==
    ASSUME PanelInv, NEW q \in Request, ShowDetailError(q)
    PROVE  PanelInv'
<1> DEFINE b == [shows |-> "error"]
<1>1. b \in Bodies /\ b.shows = "error"
  BY DEF Bodies
<1>2. /\ ask' = Detached([ask EXCEPT ![q] = Idle]) /\ Render(b) /\ UNCHANGED storeVars
  BY DEF ShowDetailError
<1>3. Idle \in Asks /\ Idle \notin FileAsks
  BY AskTells DEF Asks
<1> HIDE DEF b
<1> QED
  BY <1>1, <1>2, <1>3, IdleIsQuiet, Rendered

LEMMA StatStep ==
    ASSUME PanelInv, NEW q \in Request, Stat(q)
    PROVE  PanelInv'
<1> DEFINE a  == ask[q]
           on == [a EXCEPT !.stage = IF a.kind = "file" THEN "file" ELSE "manifest"]
<1>1. a \in Asks /\ a # Idle /\ a.stage = "stat" /\ Belongs(a)
  BY DEF Stat, PanelInv, Idle
<1>2. UNCHANGED <<storeVars, body>> /\ viewer' = viewer
  BY DEF Stat
<1>3. viewer' \in Viewers /\ ViewerBelongs'
  BY <1>2 DEF PanelInv, ViewerBelongs
<1>4. CASE a.id \notin exists
  <2>1. ask' = [ask EXCEPT ![q] = Failed(a)]
    BY <1>4 DEF Stat, PanelInv
  <2> QED
    BY <1>1, <1>2, <1>3, <2>1, FailedIsQuiet, OneAsk
<1>5. CASE a.id \in exists
  <2>1. ask' = [ask EXCEPT ![q] = on]
    BY <1>5 DEF Stat, PanelInv
  <2>2. CASE a \in DetailAsks
    <3>1. a \in DetailAsk /\ a.kind = "detail"
      BY <1>1, <2>2, AskTells, StageOfDetail
    <3>2. on \in DetailAsk
      BY <3>1 DEF DetailAsk
    <3>3. on \in DetailAsks /\ on \in Asks
      BY <3>2 DEF DetailAsks, Asks
    <3>4. Belongs(on) /\ Complete(on)
      BY <3>2 DEF Belongs, Complete, DetailAsk, FileAsk, ManifestRead, DetailAnswer
    <3>5. ~ WritesViewer(a)
      BY <1>1, <3>1, AskTells DEF WritesViewer
    <3> HIDE DEF on
    <3> QED
      BY <1>2, <1>3, <2>1, <3>3, <3>4, <3>5, OneAsk
  <2>3. CASE a \in FileAsks
    <3>1. a \in FileAsk /\ a.kind = "file" /\ a \notin DetailAsks
      BY <1>1, <2>3, AskTells, StageOfFile
    <3>2. on \in FileAsk /\ on.attached = a.attached /\ on.id = a.id
      BY <3>1 DEF FileAsk
    <3> HIDE DEF on
    <3>3. on \in Asks
      BY <3>2 DEF FileAsks, Asks
    <3>4. Belongs(on) /\ Complete(on)
      BY <1>1, <3>1, <3>2 DEF Belongs, Complete, FileAsk, ManifestRead, DetailAnswer
    <3>5. WritesViewer(on) \/ ~ WritesViewer(a)
      BY <3>2 DEF WritesViewer, FileAsks
    <3> QED
      BY <1>2, <1>3, <2>1, <3>1, <3>3, <3>4, <3>5, OneAsk
  <2> QED
    BY <1>1, <2>2, <2>3, AskTells
<1> QED
  BY <1>4, <1>5

\* The manifest is read before the list of files: who has seen it is told of
\* all files, as they were written before it.
LEMMA ReadDetailStep ==
    ASSUME StoreInv, PanelInv, NEW q \in Request, ReadDetail(q)
    PROVE  PanelInv'
<1>1. ask[q] \in Asks /\ ask[q] # Idle /\ Complete(ask[q])
  BY DEF ReadDetail, PanelInv, Idle
<1>2. UNCHANGED <<storeVars, body>> /\ viewer' = viewer
  BY DEF ReadDetail
<1>3. viewer' \in Viewers /\ ViewerBelongs'
  BY <1>2 DEF PanelInv, ViewerBelongs
<1>4. ask[q] \in DetailAsks /\ ~ WritesViewer(ask[q])
  BY <1>1, AskTells, StageOfFile DEF ReadDetail, WritesViewer
<1>5. CASE ask[q].stage = "manifest"
  <2>1. PICK sealed \in ManifestOf(ask[q].id) :
           ask' = [ask EXCEPT ![q] = [stage |-> "files", kind |-> "detail", id |-> ask[q].id,
                                      sealed |-> sealed]]
    BY <1>5 DEF ReadDetail, PanelInv
  <2> DEFINE r == [stage |-> "files", kind |-> "detail", id |-> ask[q].id,
                   sealed |-> sealed]
  <2>2. ask[q].id \in Package
    BY <1>4, <1>5, StageOfDetail DEF DetailAsk
  <2>3. sealed \in BOOLEAN /\ (sealed => Sealed(ask[q].id))
    <3>1. (at[ask[q].id] > 0) \in BOOLEAN
      BY <2>2, SMT DEF StoreInv, StoreTypeOK
    <3>2. sealed = Sealed(ask[q].id) \/ sealed = FALSE
      BY <2>1 DEF ManifestOf
    <3> QED
      BY <3>1, <3>2, Zenon DEF Sealed
  <2>4. r \in ManifestRead
    BY <2>2, <2>3 DEF ManifestRead
  <2>5. r.sealed /\ r.id \notin wiped => files[r.id] = FileName
    BY <2>2, <2>3 DEF StoreInv, StoreTypeOK, FilesOK, FileName
  <2>6. ask' = [ask EXCEPT ![q] = r]
    BY <2>1
  <2> HIDE DEF r
  <2>7. r \in DetailAsks /\ r \in Asks
    BY <2>4 DEF DetailAsks, Asks
  <2>8. Belongs(r) /\ Complete(r)
    BY <2>4, <2>5 DEF Belongs, Complete, FileAsk, ManifestRead, DetailAnswer
  <2> QED
    BY <1>2, <1>3, <1>4, <2>6, <2>7, <2>8, OneAsk
<1>6. CASE ask[q].stage = "files"
  <2>1. PICK names \in ListingOf(ask[q].id) :
           ask' = [ask EXCEPT ![q] = [stage |-> "answered", kind |-> "detail",
                                      id |-> ask[q].id, sealed |-> ask[q].sealed,
                                      files |-> names]]
    BY <1>6 DEF ReadDetail, PanelInv
  <2> DEFINE r == [stage |-> "answered", kind |-> "detail", id |-> ask[q].id,
                   sealed |-> ask[q].sealed, files |-> names]
  <2>2. ask[q] \in ManifestRead /\ ask[q].id \in Package
    BY <1>4, <1>6, StageOfDetail DEF ManifestRead
  <2>3. names \in {files[ask[q].id], {}} /\ names \subseteq FileName
    BY <2>1, <2>2 DEF ListingOf, StoreInv, StoreTypeOK
  <2>4. r \in DetailAnswer
    BY <2>2, <2>3 DEF ManifestRead, DetailAnswer
  <2>5. r.sealed /\ r.id \notin wiped => r.files \in {FileName, {}}
    BY <1>1, <2>2, <2>3 DEF Complete
  <2>6. ask' = [ask EXCEPT ![q] = r]
    BY <2>1
  <2> HIDE DEF r
  <2>7. r \in DetailAsks /\ r \in Asks
    BY <2>4 DEF DetailAsks, Asks
  <2>8. Belongs(r) /\ Complete(r)
    BY <2>4, <2>5 DEF Belongs, Complete, FileAsk, ManifestRead, DetailAnswer
  <2> QED
    BY <1>2, <1>3, <1>4, <2>6, <2>7, <2>8, OneAsk
<1> QED
  BY <1>5, <1>6 DEF ReadDetail

LEMMA ViewFileStep ==
    ASSUME PanelInv, NEW q \in Request, NEW f \in FileName, ViewFile(q, f)
    PROVE  PanelInv'
<1> DEFINE r == [stage |-> "stat", kind |-> "file", id |-> body.id, name |-> f,
                 attached |-> TRUE]
<1>1. body.shows = "package" /\ body.id \in Package
  BY DEF ViewFile, PanelInv, Bodies, Nothing
<1>2. r \in FileAsk /\ r.id = body.id /\ r.attached
  BY <1>1 DEF FileAsk
<1>3. /\ ask' = [ask EXCEPT ![q] = r] /\ ask[q] = Idle
      /\ viewer' = [shows |-> "loading"] /\ UNCHANGED <<storeVars, body>>
  BY DEF ViewFile
<1> HIDE DEF r
<1>4. r \in Asks
  BY <1>2 DEF Asks, FileAsks
<1>5. Belongs(r) /\ Complete(r)
  BY <1>1, <1>2 DEF Belongs, Complete, FileAsk, ManifestRead, DetailAnswer
<1>6. Idle \notin DetailAsks
  BY AskTells DEF Asks
<1>7. viewer' \in Viewers /\ ViewerBelongs'
  BY <1>3 DEF Viewers, ViewerBelongs
<1>8. WritesViewer(r)
  BY <1>2 DEF WritesViewer, FileAsks
<1> QED
  BY <1>3, <1>4, <1>5, <1>6, <1>7, <1>8, OneAsk

LEMMA ReadFileStep ==
    ASSUME PanelInv, NEW q \in Request, ReadFile(q)
    PROVE  PanelInv'
<1> DEFINE a  == ask[q]
           on == [a EXCEPT !.stage = "answered"]
<1>1. a \in Asks /\ a # Idle /\ a.stage = "file" /\ Belongs(a)
  BY DEF ReadFile, PanelInv, Idle
<1>2. UNCHANGED <<storeVars, body>> /\ viewer' = viewer
  BY DEF ReadFile
<1>3. viewer' \in Viewers /\ ViewerBelongs'
  BY <1>2 DEF PanelInv, ViewerBelongs
<1>4. CASE a.name \notin files[a.id]
  <2>1. ask' = [ask EXCEPT ![q] = Failed(a)]
    BY <1>4 DEF ReadFile, PanelInv
  <2> QED
    BY <1>1, <1>2, <1>3, <2>1, FailedIsQuiet, OneAsk
<1>5. CASE a.name \in files[a.id]
  <2>1. ask' = [ask EXCEPT ![q] = on]
    BY <1>5 DEF ReadFile, PanelInv
  <2>2. a \in FileAsk /\ a \notin DetailAsks
    BY <1>1, AskTells, StageOfDetail, StageOfFile
  <2>3. on \in FileAsk /\ on.attached = a.attached /\ on.id = a.id
    BY <2>2 DEF FileAsk
  <2> HIDE DEF on
  <2>4. on \in Asks
    BY <2>3 DEF FileAsks, Asks
  <2>5. Belongs(on) /\ Complete(on)
    BY <1>1, <2>2, <2>3 DEF Belongs, Complete, FileAsk, ManifestRead, DetailAnswer
  <2>6. WritesViewer(on) \/ ~ WritesViewer(a)
    BY <2>3 DEF WritesViewer, FileAsks
  <2> QED
    BY <1>2, <1>3, <2>1, <2>2, <2>4, <2>5, <2>6, OneAsk
<1> QED
  BY <1>4, <1>5

LEMMA ShowFileStep ==
    ASSUME PanelInv, NEW q \in Request, ShowFile(q)
    PROVE  PanelInv'
<1> DEFINE a == ask[q]
<1>1. /\ a \in Asks /\ a \in FileAsks /\ a \notin DetailAsks /\ Belongs(a)
      /\ a.stage # "failed" => a \in FileAsk
  BY AskTells, StageOfFile DEF ShowFile, PanelInv, Idle
<1>2. /\ ask' = [ask EXCEPT ![q] = Idle] /\ UNCHANGED <<storeVars, body>>
      /\ viewer' = IF ~ a.attached THEN viewer
                   ELSE IF a.stage = "failed" THEN [shows |-> "error"]
                   ELSE [shows |-> "file", id |-> a.id, name |-> a.name]
  BY DEF ShowFile
<1>3. viewer' \in Viewers /\ ViewerBelongs'
  <2>1. CASE ~ a.attached
    BY <1>2, <2>1 DEF PanelInv, ViewerBelongs
  <2>2. CASE a.attached /\ a.stage = "failed"
    BY <1>2, <2>2 DEF ViewerBelongs, Viewers
  <2>3. CASE a.attached /\ a.stage # "failed"
    <3>1. /\ viewer' = [shows |-> "file", id |-> a.id, name |-> a.name]
          /\ a.id \in Package /\ a.name \in FileName
      BY <1>1, <1>2, <2>3 DEF FileAsk
    <3>2. body'.shows = "package" /\ body'.id = a.id
      BY <1>1, <1>2, <2>3 DEF Belongs
    <3> QED
      BY <3>1, <3>2 DEF ViewerBelongs, Viewers
  <2> QED
    BY <2>1, <2>2, <2>3
<1>4. Idle \in Asks
  BY DEF Asks
<1>5. viewer'.shows = "loading" => viewer' = viewer /\ ~ WritesViewer(a)
  BY <1>2 DEF WritesViewer
<1> QED
  BY <1>1, <1>2, <1>3, <1>4, <1>5, IdleIsQuiet, OneAsk

LEMMA PanelDisconnect ==
    ASSUME PanelInv, NEW q \in Request, Disconnect(q)
    PROVE  PanelInv'
<1>1. ask[q] \in Asks /\ ask[q] # Idle
  BY DEF Disconnect, PanelInv, Idle
<1>2. /\ ask' = [ask EXCEPT ![q] = Failed(ask[q])]
      /\ UNCHANGED <<storeVars, body>> /\ viewer' = viewer
  BY DEF Disconnect, PanelInv
<1>3. viewer' \in Viewers /\ ViewerBelongs'
  BY <1>2 DEF PanelInv, ViewerBelongs
<1> QED
  BY <1>1, <1>2, <1>3, FailedIsQuiet, OneAsk

LEMMA PanelInit == Init => PanelInv
<1> SUFFICES ASSUME Init PROVE PanelInv
  OBVIOUS
<1>1. ask \in [Request -> Asks] /\ \A q \in Request : ask[q] = Idle
  BY DEF Init, Asks
<1>2. body \in Bodies /\ viewer \in Viewers
  BY DEF Init, Bodies, Viewers
<1>3. ViewerBelongs /\ BodyAwaited /\ ViewerAwaited /\ DetailComplete
  BY DEF Init, ViewerBelongs, BodyAwaited, ViewerAwaited, DetailComplete, Nothing
<1> QED
  BY <1>1, <1>2, <1>3, IdleIsQuiet DEF PanelInv

LEMMA PanelStep == StoreInv /\ PanelInv /\ [Next]_vars => PanelInv'
<1> SUFFICES ASSUME StoreInv, PanelInv, [Next]_vars PROVE PanelInv'
  OBVIOUS
<1>1. CASE UNCHANGED panelVars
  BY <1>1, StoreStep, PanelOverStore
<1>2. CASE Captures \/ Listing
  BY <1>1, <1>2 DEF Captures, Listing, Load, LoadUnlisted, ReadItem, ReadItemFails, ShowPage,
                    LoadFails
<1>3. ASSUME NEW q \in Request, Panel(q) PROVE PanelInv'
  BY <1>3, OpenDetailStep, ShowDetailStep, ShowDetailErrorStep, StatStep, ReadDetailStep,
     ViewFileStep, ReadFileStep, ShowFileStep, PanelDisconnect DEF Panel
<1> QED
  BY <1>1, <1>2, <1>3 DEF Next, vars

\* The file below the panel is one of the package in the panel, in whatever
\* order any number of packages and files are asked for and answered.
THEOREM ViewerIsOfPanel == Spec => []ViewerBelongs
<1>1. PanelInv => ViewerBelongs
  BY DEF PanelInv
<1> QED
  BY <1>1, StoreInit, StoreStep, PanelInit, PanelStep, PTL DEF Spec

\* Neither the body of the panel nor the file viewer in it is left at its
\* spinner: as long as it shows that, a request is under way whose end will
\* replace it, whichever requests failed before.
THEOREM SpinnerEnds == Spec => []LoadingIsAwaited
<1>1. PanelInv => LoadingIsAwaited
  <2> SUFFICES ASSUME PanelInv PROVE LoadingIsAwaited
    OBVIOUS
  <2>1. ASSUME NEW q \in Request, ask[q] \in DetailAsks
        PROVE  ask[q].stage # "idle" /\ ask[q].kind = "detail"
    BY <2>1, AskTells DEF PanelInv
  <2>2. ASSUME NEW q \in Request, WritesViewer(ask[q])
        PROVE  ask[q].stage # "idle" /\ ask[q].kind = "file" /\ ask[q].attached
    BY <2>2, AskTells DEF PanelInv, WritesViewer
  <2> QED
    BY <2>1, <2>2 DEF PanelInv, BodyAwaited, ViewerAwaited, LoadingIsAwaited
<1> QED
  BY <1>1, StoreInit, StoreStep, PanelInit, PanelStep, PTL DEF Spec

\* A package shown with its manifest is shown with all its files or, if they
\* could not be listed, with none, unless a reset was at work on it:
\* handleEvidence reads the manifest before it lists them.
THEOREM DetailIsComplete == Spec => []DetailComplete
<1>1. PanelInv => DetailComplete
  BY DEF PanelInv
<1> QED
  BY <1>1, StoreInit, StoreStep, PanelInit, PanelStep, PTL DEF Spec

----------------------------------------------------------------------------
(* The list.                                                               *)

\* A sequence made of a finite set has each element once.
LEMMA SeqOfSet ==
    ASSUME NEW S, IsFiniteSet(S), NEW s \in SetToSeqs(S)
    PROVE  /\ s \in Seq(S) /\ Len(s) = Cardinality(S) /\ ToSet(s) = S
           /\ \A i, j \in DOMAIN s : s[i] = s[j] => i = j
<1> DEFINE n == Cardinality(S)
<1>1. n \in Nat
  BY FS_CardinalityType
<1>2. /\ s \in [1 .. n -> S]
      /\ \A i, j \in 1 .. n : i # j => s[i] # s[j]
  BY DEF SetToSeqs
<1>3. s \in Injection(1 .. n, S)
  BY <1>2 DEF Injection, IsInjective
<1>4. Cardinality(1 .. n) = n
  BY <1>1, FS_Interval
<1>5. s \in Surjection(1 .. n, S)
  BY <1>3, <1>4, FS_Injection
<1> HIDE DEF n
<1>6. s \in Seq(S) /\ Len(s) = n
  BY <1>1, <1>2
<1>7. ToSet(s) = S
  BY <1>2, <1>5 DEF Surjection, ToSet
<1> QED
  BY <1>2, <1>6, <1>7 DEF n

\* The elements of a sequence without repetitions are as many as it is long.
LEMMA SetOfSeq ==
    ASSUME NEW T, NEW s \in Seq(T), \A i, j \in DOMAIN s : s[i] = s[j] => i = j
    PROVE  IsFiniteSet(ToSet(s)) /\ Cardinality(ToSet(s)) = Len(s)
<1>1. Len(s) \in Nat /\ DOMAIN s = 1 .. Len(s) /\ s \in [1 .. Len(s) -> ToSet(s)]
  BY DEF ToSet
<1>2. s \in Surjection(1 .. Len(s), ToSet(s)) /\ s \in Injection(1 .. Len(s), ToSet(s))
  BY <1>1 DEF Surjection, Injection, IsInjective, ToSet
<1>3. IsFiniteSet(1 .. Len(s)) /\ Cardinality(1 .. Len(s)) = Len(s)
  BY <1>1, FS_Interval
<1> QED
  BY <1>2, <1>3, FS_Surjection

Item == [id : Package, at : Nat]

Reading == [stage : {"reading"}, dirs : Seq(Package), items : Seq(Item)]

Walks == [on : BOOLEAN, next : Nat, seen : SUBSET Package, goal : SUBSET Package]

ListTypeOK ==
    /\ list \in {Idle} \union Reading
    /\ page \in Nat
    /\ grid \in Seq(Package)
    /\ total \in Nat
    /\ walk \in {Off} \union Walks

\* Each directory of the listing is read once.
ItemsOK ==
    list # Idle =>
      /\ \A i, j \in DOMAIN list.dirs : list.dirs[i] = list.dirs[j] => i = j
      /\ \A i, j \in DOMAIN list.items : list.items[i].id = list.items[j].id => i = j
      /\ \A i \in DOMAIN list.items, j \in DOMAIN list.dirs :
            list.items[i].id # list.dirs[j]

\* What was read of a manifest is still so.
ItemsCurrent ==
    list # Idle => \A i \in DOMAIN list.items :
      \/ list.items[i].at = 0
      \/ Sealed(list.items[i].id) /\ list.items[i].at = at[list.items[i].id]

\* The sealed packages newer than g.
Newer(g) == {o \in Package : Sealed(o) /\ at[o] > at[g]}

\* The listing under way has o with its time, or will have it.
Listed(o) ==
    \/ \E i \in DOMAIN list.dirs : list.dirs[i] = o
    \/ \E i \in DOMAIN list.items : list.items[i].id = o /\ list.items[i].at = at[o]

ListedNewer(g) == {o \in Newer(g) : Listed(o)}

GoalKept(g) ==
    /\ Sealed(g)
    /\ list # Idle => Listed(g)
    /\ g \notin walk.seen =>
          /\ list = Idle => /\ Cardinality(Newer(g)) >= walk.next * PageSize
                            /\ total > walk.next * PageSize
          /\ list # Idle => Cardinality(ListedNewer(g)) >= walk.next * PageSize

WalkKept ==
    walk.on =>
      /\ list = Idle => walk.next > 0
      /\ list # Idle => page = walk.next
      /\ ItemsCurrent
      /\ \A g \in walk.goal : GoalKept(g)

ListInv == ListTypeOK /\ ItemsOK /\ WalkKept

LEMMA WalkOn == ListTypeOK /\ walk.on => walk \in Walks
<1>1. Off.on = FALSE
  BY DEF Off
<1> QED
  BY <1>1 DEF ListTypeOK

LEMMA ListOn == ListTypeOK /\ list # Idle => list \in Reading
BY DEF ListTypeOK

LEMMA SealedThere == StoreInv => \A p \in Package : Sealed(p) => p \in exists
BY DEF StoreInv, FilesOK

LEMMA NewerCounted ==
    ASSUME StoreInv, NEW g
    PROVE  /\ IsFiniteSet(Newer(g)) /\ Cardinality(Newer(g)) \in Nat
           /\ IsFiniteSet(ListedNewer(g)) /\ Cardinality(ListedNewer(g)) \in Nat
           /\ Cardinality(ListedNewer(g)) <= Cardinality(Newer(g))
<1>1. Newer(g) \subseteq exists
  BY SealedThere DEF Newer
<1>2. IsFiniteSet(Newer(g)) /\ Cardinality(Newer(g)) \in Nat
  BY <1>1, FS_Subset, FS_CardinalityType DEF StoreInv
<1>3. ListedNewer(g) \subseteq Newer(g)
  BY DEF ListedNewer
<1>4. /\ IsFiniteSet(ListedNewer(g))
      /\ Cardinality(ListedNewer(g)) <= Cardinality(Newer(g))
  BY <1>2, <1>3, FS_Subset
<1> QED
  BY <1>2, <1>4, FS_CardinalityType

LEMMA OfferedPages == ListTypeOK => Offered \subseteq Nat
BY BrowserAssumption DEF ListTypeOK, Offered

LEMMA ListInit == Init => ListInv
<1> SUFFICES ASSUME Init PROVE ListInv
  OBVIOUS
<1>1. list = Idle /\ walk = Off
  BY DEF Init
<1>2. ListTypeOK
  BY <1>1 DEF Init, ListTypeOK
<1>3. Off.on = FALSE
  BY DEF Off
<1> QED
  BY <1>1, <1>2, <1>3 DEF ListInv, ItemsOK, WalkKept

\* Packages that are created or sealed meanwhile only come before the others.
LEMMA ListOverStore ==
    ASSUME StoreInv, StoreInv', ListInv, UNCHANGED <<pageVars, walk>>,
           \A p \in Package : Sealed(p) => at'[p] = at[p]
    PROVE  ListInv'
<1>1. list' = list /\ walk' = walk /\ page' = page /\ total' = total /\ grid' = grid
  BY DEF pageVars
<1>2. ListTypeOK' /\ ItemsOK'
  BY <1>1 DEF ListInv, ListTypeOK, ItemsOK
<1>3. \A p \in Package : Sealed(p) => Sealed(p)' /\ at'[p] = at[p]
  BY DEF Sealed
<1>4. ASSUME walk.on PROVE ItemsCurrent'
  <2> SUFFICES ASSUME list # Idle, NEW i \in DOMAIN list.items, list.items[i].at # 0
               PROVE  /\ at'[list.items[i].id] > 0
                      /\ list.items[i].at = at'[list.items[i].id]
    BY <1>1 DEF ItemsCurrent, Sealed
  <2>1. list.items[i].id \in Package
    <3>1. list.items \in Seq(Item)
      BY ListOn DEF ListInv, Reading
    <3>2. list.items[i] \in Item
      BY <3>1
    <3> QED
      BY <3>2 DEF Item
  <2>2. Sealed(list.items[i].id) /\ list.items[i].at = at[list.items[i].id]
    BY <1>4 DEF ListInv, WalkKept, ItemsCurrent
  <2> QED
    BY <1>3, <2>1, <2>2 DEF Sealed
<1>5. ASSUME walk.on, NEW g \in walk.goal
      PROVE  GoalKept(g)'
  <2>1. GoalKept(g) /\ g \in Package
    BY <1>5, WalkOn DEF ListInv, WalkKept, Walks
  <2>2. Sealed(g)' /\ at'[g] = at[g]
    BY <1>3, <2>1 DEF GoalKept
  <2>3. Newer(g) \subseteq Newer(g)'
    BY <1>3, <2>2 DEF Newer
  <2>4. \A o \in Newer(g) \union {g} : Listed(o) => Listed(o)'
    BY <1>1, <1>3, <2>1 DEF Listed, Newer, GoalKept
  <2>5. ListedNewer(g) \subseteq ListedNewer(g)'
    BY <2>3, <2>4 DEF ListedNewer
  <2>6. /\ IsFiniteSet(Newer(g)')
        /\ Cardinality(Newer(g)) \in Nat /\ Cardinality(Newer(g)') \in Nat
        /\ Cardinality(Newer(g)) <= Cardinality(Newer(g)')
    <3>1. \A o \in Package : Sealed(o)' => o \in exists'
      BY DEF StoreInv, FilesOK
    <3>2. Newer(g)' \subseteq exists'
      BY <3>1 DEF Newer
    <3>3. IsFiniteSet(Newer(g)')
      BY <3>2, FS_Subset DEF StoreInv
    <3> QED
      BY <2>3, <3>3, FS_Subset, FS_CardinalityType
  <2>7. /\ Cardinality(ListedNewer(g)) \in Nat /\ Cardinality(ListedNewer(g)') \in Nat
        /\ Cardinality(ListedNewer(g)) <= Cardinality(ListedNewer(g)')
    <3>1. ListedNewer(g)' \subseteq Newer(g)'
      BY DEF ListedNewer
    <3>2. IsFiniteSet(ListedNewer(g)')
      BY <2>6, <3>1, FS_Subset
    <3> QED
      BY <2>5, <3>2, FS_Subset, FS_CardinalityType
  <2>8. walk.next * PageSize \in Nat
    BY <1>5, WalkOn, BrowserAssumption DEF ListInv, Walks
  <2> QED
    BY <1>1, <2>1, <2>2, <2>4, <2>6, <2>7, <2>8 DEF GoalKept
<1>6. WalkKept'
  BY <1>1, <1>4, <1>5 DEF ListInv, WalkKept
<1> QED
  BY <1>2, <1>6 DEF ListInv

LEMMA ListOff ==
    ASSUME ListTypeOK', ItemsOK', walk' = Off
    PROVE  ListInv'
<1>1. Off.on = FALSE
  BY DEF Off
<1> QED
  BY <1>1 DEF ListInv, WalkKept

\* The steps of the panel, for the list.
LEMMA ListBesidePanel ==
    ASSUME ListInv, UNCHANGED <<storeVars, list, page, grid, total>>, walk' \in {walk, Off}
    PROVE  ListInv'
<1>1. ListTypeOK' /\ ItemsOK'
  BY DEF ListInv, ListTypeOK, ItemsOK, storeVars
<1>2. CASE walk' = walk
  <2>1. \A g : Newer(g)' = Newer(g) /\ Listed(g)' = Listed(g)
    BY DEF Newer, Listed, Sealed, storeVars
  <2>2. \A g : ListedNewer(g)' = ListedNewer(g)
    BY <2>1 DEF ListedNewer
  <2>3. \A g : GoalKept(g)' = GoalKept(g)
    BY <1>2, <2>1, <2>2 DEF GoalKept, Sealed, storeVars
  <2>4. ItemsCurrent' = ItemsCurrent
    BY DEF ItemsCurrent, Sealed, storeVars
  <2> QED
    BY <1>1, <1>2, <2>3, <2>4 DEF ListInv, WalkKept
<1> QED
  BY <1>1, <1>2, ListOff

\* The listing begins with all the directories there are, each once.
LEMMA AllDirectories ==
    ASSUME StoreInv, NEW dirs \in Directories
    PROVE  /\ dirs \in Seq(Package)
           /\ \A i, j \in DOMAIN dirs : dirs[i] = dirs[j] => i = j
           /\ \A p \in Package : Sealed(p) => \E i \in DOMAIN dirs : dirs[i] = p
<1>1. dirs \in SetToSeqs(exists) /\ IsFiniteSet(exists) /\ exists \subseteq Package
  BY DEF Directories, StoreInv, StoreTypeOK
<1>2. /\ dirs \in Seq(exists) /\ ToSet(dirs) = exists
      /\ \A i, j \in DOMAIN dirs : dirs[i] = dirs[j] => i = j
  BY <1>1, SeqOfSet
<1>3. dirs \in Seq(Package)
  BY <1>1, <1>2
<1> QED
  BY <1>2, <1>3, SealedThere DEF ToSet

LEMMA LoadStep ==
    ASSUME StoreInv, ListInv, NEW p \in Nat, Load(p)
    PROVE  ListInv'
<1>1. PICK dirs \in Directories :
         list' = [stage |-> "reading", dirs |-> dirs, items |-> <<>>]
  BY DEF Load
<1>2. /\ list = Idle /\ page' = p /\ grid' = <<>> /\ total' = total
      /\ at' = at
  BY DEF Load, storeVars
<1>3. /\ dirs \in Seq(Package)
      /\ \A i, j \in DOMAIN dirs : dirs[i] = dirs[j] => i = j
      /\ \A o \in Package : Sealed(o) => \E i \in DOMAIN dirs : dirs[i] = o
  BY AllDirectories
<1>4. /\ list' \in Reading /\ list' # Idle /\ list'.dirs = dirs /\ list'.items = <<>>
  <2>1. <<>> \in Seq(Item)
    OBVIOUS
  <2>2. list' \in Reading
    BY <1>1, <1>3, <2>1 DEF Reading
  <2> QED
    BY <1>1, <2>2 DEF Idle
<1>5. walk' = IF \E q \in Request : ask[q] # Idle THEN Off
              ELSE IF p = 0
              THEN [on |-> TRUE, next |-> 0, seen |-> {},
                    goal |-> {o \in Package : Sealed(o)}]
              ELSE IF walk.on /\ walk.next = p THEN walk
              ELSE Off
  BY DEF Load, WalkAt
<1>6. ListTypeOK'
  <2>1. [on |-> TRUE, next |-> 0, seen |-> {},
         goal |-> {o \in Package : Sealed(o)}] \in Walks
    BY DEF Walks
  <2>2. walk' \in {Off} \union Walks
    BY <1>5, <2>1 DEF ListInv, ListTypeOK
  <2> QED
    BY <1>2, <1>4, <2>2 DEF ListInv, ListTypeOK
<1>7. ItemsOK'
  BY <1>3, <1>4 DEF ItemsOK
<1>8. \A g \in Package : Sealed(g) => Listed(g)'
  BY <1>3, <1>4 DEF Listed
<1>9. \A g : ListedNewer(g)' = Newer(g)
  BY <1>2, <1>8 DEF ListedNewer, Newer, Sealed
<1>12. ItemsCurrent'
  BY <1>4 DEF ItemsCurrent
<1>10. ASSUME walk'.on PROVE WalkKept'
  <2>1. walk' # Off
    BY <1>10 DEF Off
  <2>2. CASE p = 0
    <3>1. walk'.next = 0 /\ walk'.goal = {o \in Package : Sealed(o)}
      BY <1>5, <2>1, <2>2
    <3>2. ASSUME NEW g \in walk'.goal PROVE GoalKept(g)'
      <4>1. Cardinality(ListedNewer(g)') \in Nat
        BY <1>9, NewerCounted
      <4>2. Cardinality(ListedNewer(g)') >= walk'.next * PageSize
        BY <3>1, <4>1, BrowserAssumption
      <4> QED
        BY <1>2, <1>4, <1>8, <3>1, <3>2, <4>2 DEF GoalKept, Sealed
    <3> QED
      BY <1>2, <1>4, <1>12, <2>2, <3>1, <3>2 DEF WalkKept
  <2>3. CASE p # 0
    <3>1. walk' = walk /\ walk.on /\ walk.next = p
      BY <1>5, <2>1, <2>3
    <3>2. ASSUME NEW g \in walk.goal PROVE GoalKept(g)'
      <4>1. GoalKept(g) /\ g \in Package
        BY <3>1, <3>2, WalkOn DEF ListInv, WalkKept, Walks
      <4> QED
        BY <1>2, <1>4, <1>8, <1>9, <3>1, <4>1 DEF GoalKept, Sealed
    <3> QED
      BY <1>2, <1>4, <1>12, <3>1, <3>2 DEF WalkKept
  <2> QED
    BY <2>2, <2>3
<1>11. WalkKept'
  BY <1>10 DEF WalkKept
<1> QED
  BY <1>6, <1>7, <1>11 DEF ListInv

LEMMA LoadUnlistedStep ==
    ASSUME ListInv, NEW p \in Nat, LoadUnlisted(p)
    PROVE  ListInv'
<1>1. /\ list' = [stage |-> "reading", dirs |-> <<>>, items |-> <<>>]
      /\ page' = p /\ grid' = <<>> /\ total' = total /\ walk' = Off
  BY DEF LoadUnlisted
<1>2. <<>> \in Seq(Item) /\ <<>> \in Seq(Package)
  OBVIOUS
<1>3. list' \in Reading
  BY <1>1, <1>2 DEF Reading
<1>4. ListTypeOK'
  BY <1>1, <1>2, <1>3 DEF ListInv, ListTypeOK
<1>5. ItemsOK'
  BY <1>1 DEF ItemsOK
<1> QED
  BY <1>1, <1>4, <1>5, ListOff

\* A round of the listing moves a directory to the items, with the time t.
MovesItem(t) ==
    list' = [list EXCEPT !.dirs = Tail(@),
                         !.items = Append(@, [id |-> Head(list.dirs), at |-> t])]

LEMMA ItemStep ==
    ASSUME StoreInv, ListInv, list # Idle, list.dirs # <<>>, NEW t \in Nat, MovesItem(t),
           UNCHANGED <<page, grid, total>>, walk' \in {walk, Off}
    PROVE  /\ ListTypeOK' /\ ItemsOK' /\ list' # Idle
           /\ Head(list.dirs) \in Package
           /\ DOMAIN list'.items = DOMAIN list.items \union {Len(list.items) + 1}
           /\ \A i \in DOMAIN list.items : list'.items[i] = list.items[i]
           /\ list'.items[Len(list.items) + 1] = [id |-> Head(list.dirs), at |-> t]
           /\ \A i \in DOMAIN list.dirs :
                 \/ list.dirs[i] = Head(list.dirs)
                 \/ \E j \in DOMAIN list'.dirs : list'.dirs[j] = list.dirs[i]
<1> DEFINE d == list.dirs
           x == [id |-> Head(d), at |-> t]
           m == list.items
<1>1. list \in Reading /\ list # Idle /\ d \in Seq(Package) /\ m \in Seq(Item) /\ d # <<>>
  BY ListOn DEF ListInv, Reading
<1>2. /\ list' = [list EXCEPT !.dirs = Tail(@), !.items = Append(@, x)]
      /\ UNCHANGED <<page, grid, total>>
  BY DEF MovesItem
<1>3. /\ Head(d) \in Package /\ Head(d) = d[1] /\ Tail(d) \in Seq(Package)
      /\ Len(d) \in Nat /\ Len(d) >= 1 /\ Len(Tail(d)) = Len(d) - 1
      /\ \A i \in 1 .. Len(d) - 1 : Tail(d)[i] = d[i + 1]
  BY <1>1
<1>4. x \in Item /\ x.id = Head(d)
  BY <1>3 DEF Item
<1> HIDE DEF x
<1>5. /\ list' \in Reading /\ list'.dirs = Tail(d) /\ list'.items = Append(m, x)
      /\ list' # Idle
  <2> DEFINE on == [list EXCEPT !.dirs = Tail(@)]
  <2>1. on \in Reading /\ on.dirs = Tail(d) /\ on.items = m
    BY <1>1, <1>3 DEF Reading
  <2>2. list' = [on EXCEPT !.items = Append(@, x)]
    BY <1>1, <1>2 DEF Reading
  <2>3. Append(m, x) \in Seq(Item)
    BY <1>1, <1>4
  <2> HIDE DEF on
  <2>4. list' \in Reading /\ list'.dirs = Tail(d) /\ list'.items = Append(m, x)
    BY <2>1, <2>2, <2>3 DEF Reading
  <2>5. list'.stage = "reading"
    BY <2>4 DEF Reading
  <2> QED
    BY <2>4, <2>5 DEF Idle
<1>6. ListTypeOK'
  BY <1>2, <1>5 DEF ListInv, ListTypeOK
<1>7. /\ DOMAIN Append(m, x) = DOMAIN m \union {Len(m) + 1}
      /\ \A i \in DOMAIN m : Append(m, x)[i] = m[i]
      /\ Append(m, x)[Len(m) + 1] = x
  BY <1>1, <1>4
<1>8. \A i \in DOMAIN d : d[i] = Head(d) \/ \E j \in DOMAIN Tail(d) : Tail(d)[j] = d[i]
  <2>1. \A i \in DOMAIN d : i # 1 => i - 1 \in DOMAIN Tail(d) /\ Tail(d)[i - 1] = d[i]
    <3> SUFFICES ASSUME NEW i \in 1 .. Len(d), i # 1
                 PROVE  i - 1 \in 1 .. Len(d) - 1 /\ Tail(d)[i - 1] = d[i]
      BY <1>3
    <3>1. i - 1 \in 1 .. Len(d) - 1 /\ (i - 1) + 1 = i
      BY <1>3
    <3> QED
      BY <1>3, <3>1
  <2> QED
    BY <1>3, <2>1
<1>9. ItemsOK'
  <2>1. /\ \A i, j \in DOMAIN d : d[i] = d[j] => i = j
        /\ \A i, j \in DOMAIN m : m[i].id = m[j].id => i = j
        /\ \A i \in DOMAIN m, j \in DOMAIN d : m[i].id # d[j]
    BY <1>1 DEF ListInv, ItemsOK
  <2>2. \A i \in DOMAIN Tail(d) : i \in Nat /\ i + 1 \in DOMAIN d /\ Tail(d)[i] = d[i + 1]
                                  /\ i + 1 # 1
    BY <1>3
  <2>3. \A i, j \in DOMAIN Tail(d) : Tail(d)[i] = Tail(d)[j] => i = j
    BY <2>1, <2>2
  <2>4. 1 \in DOMAIN d
    BY <1>3
  <2>5. \A j \in DOMAIN Tail(d) : Tail(d)[j] # x.id
    BY <1>3, <1>4, <2>1, <2>2, <2>4
  <2>6. \A i \in DOMAIN m : m[i].id # x.id
    BY <1>3, <1>4, <2>1, <2>4
  <2>7. \A i, j \in DOMAIN Append(m, x) : Append(m, x)[i].id = Append(m, x)[j].id => i = j
    BY <1>7, <2>1, <2>6
  <2>8. \A i \in DOMAIN Append(m, x), j \in DOMAIN Tail(d) : Append(m, x)[i].id # Tail(d)[j]
    BY <1>7, <2>1, <2>2, <2>5
  <2> DEFINE dirs  == Tail(d)
             items == Append(m, x)
  <2>11. list'.dirs = dirs /\ list'.items = items
    BY <1>5
  <2>12. /\ \A i, j \in DOMAIN dirs : dirs[i] = dirs[j] => i = j
         /\ \A i, j \in DOMAIN items : items[i].id = items[j].id => i = j
         /\ \A i \in DOMAIN items, j \in DOMAIN dirs : items[i].id # dirs[j]
    BY <2>3, <2>7, <2>8
  <2> HIDE DEF dirs, items
  <2> QED
    BY <2>11, <2>12 DEF ItemsOK
<1> QED
  BY <1>3, <1>5, <1>6, <1>7, <1>8, <1>9 DEF x

\* What is sealed is listed before and after a round.
LEMMA ReadItemStep ==
    ASSUME StoreInv, ListInv, ReadItem
    PROVE  ListInv'
<1> DEFINE d == list.dirs
           h == Head(d)
           m == list.items
           n == list'.items
<1>1. /\ list # Idle /\ d # <<>>
      /\ list' = [list EXCEPT !.dirs = Tail(@),
                              !.items = Append(@, [id |-> h, at |-> at[h]])]
      /\ UNCHANGED <<storeVars, page, grid, total, walk>>
  BY DEF ReadItem
<1>2. list \in Reading /\ d \in Seq(Package) /\ h \in Package
  <2>1. list \in Reading
    BY <1>1, ListOn DEF ListInv
  <2>2. d \in Seq(Package)
    BY <2>1 DEF Reading
  <2> QED
    BY <1>1, <2>1, <2>2
<1>3. at[h] \in Nat
  BY <1>2 DEF StoreInv, StoreTypeOK
<1> HIDE DEF h
<1>4. /\ ListTypeOK' /\ ItemsOK' /\ list' # Idle
      /\ DOMAIN n = DOMAIN m \union {Len(m) + 1}
      /\ \A i \in DOMAIN m : n[i] = m[i]
      /\ n[Len(m) + 1] = [id |-> h, at |-> at[h]]
      /\ \A i \in DOMAIN d : d[i] = h \/ \E j \in DOMAIN list'.dirs : list'.dirs[j] = d[i]
  BY <1>1, <1>3, ItemStep DEF h, MovesItem
<1> HIDE DEF m, n
<1>5. at' = at
  BY <1>1 DEF storeVars
<1>6. \A o \in Package : Sealed(o) /\ Listed(o) => Listed(o)'
  <2> SUFFICES ASSUME NEW o \in Package, Sealed(o), Listed(o) PROVE Listed(o)'
    OBVIOUS
  <2>1. CASE \E i \in DOMAIN d : d[i] = o
    <3>1. CASE o = h
      <4>1. Len(m) + 1 \in DOMAIN n /\ n[Len(m) + 1].id = o /\ n[Len(m) + 1].at = at[o]
        BY <1>4, <3>1
      <4> QED
        BY <1>5, <4>1 DEF Listed, n
    <3>2. CASE o # h
      BY <1>4, <2>1, <3>2 DEF Listed
    <3> QED
      BY <3>1, <3>2
  <2>2. CASE \E i \in DOMAIN m : m[i].id = o /\ m[i].at = at[o]
    <3>1. \E i \in DOMAIN n : n[i].id = o /\ n[i].at = at[o]
      BY <1>4, <2>2
    <3> QED
      BY <1>5, <3>1 DEF Listed, n
  <2> QED
    BY <2>1, <2>2 DEF Listed, m
<1>7. ASSUME walk.on PROVE ItemsCurrent'
  <2>1. \A i \in DOMAIN m : m[i].at = 0 \/ (Sealed(m[i].id) /\ m[i].at = at[m[i].id])
    BY <1>1, <1>7 DEF ListInv, WalkKept, ItemsCurrent, m
  <2>2. at[h] = 0 \/ Sealed(h)
    BY <1>3 DEF Sealed
  <2>3. \A i \in DOMAIN n : n[i].at = 0 \/ (Sealed(n[i].id) /\ n[i].at = at[n[i].id])
    BY <1>4, <2>1, <2>2
  <2> QED
    BY <1>5, <2>3 DEF ItemsCurrent, Sealed, n
<1>8. ASSUME walk.on, NEW g \in walk.goal PROVE GoalKept(g)'
  <2>1. GoalKept(g) /\ g \in Package
    BY <1>8, WalkOn DEF ListInv, WalkKept, Walks
  <2>2. Listed(g)' /\ Sealed(g)'
    BY <1>1, <1>5, <1>6, <2>1 DEF GoalKept, Sealed
  <2>3. ListedNewer(g) \subseteq ListedNewer(g)'
    BY <1>5, <1>6 DEF ListedNewer, Newer, Sealed
  <2>4. IsFiniteSet(ListedNewer(g)')
    <3>1. ListedNewer(g)' \subseteq Newer(g)
      BY <1>5 DEF ListedNewer, Newer, Sealed
    <3> QED
      BY <3>1, NewerCounted, FS_Subset
  <2>5. /\ Cardinality(ListedNewer(g)) \in Nat /\ Cardinality(ListedNewer(g)') \in Nat
        /\ Cardinality(ListedNewer(g)) <= Cardinality(ListedNewer(g)')
    BY <2>3, <2>4, FS_Subset, FS_CardinalityType
  <2>6. walk.next * PageSize \in Nat
    BY <1>8, WalkOn, BrowserAssumption DEF ListInv, Walks
  <2> QED
    BY <1>1, <1>4, <2>1, <2>2, <2>5, <2>6 DEF GoalKept
<1>9. WalkKept'
  BY <1>1, <1>4, <1>7, <1>8 DEF ListInv, WalkKept
<1> QED
  BY <1>4, <1>9 DEF ListInv

LEMMA ReadItemFailsStep ==
    ASSUME StoreInv, ListInv, ReadItemFails
    PROVE  ListInv'
<1>1. /\ list # Idle /\ list.dirs # <<>>
      /\ list' = [list EXCEPT !.dirs = Tail(@),
                              !.items = Append(@, [id |-> Head(list.dirs), at |-> 0])]
      /\ UNCHANGED <<page, grid, total>> /\ walk' = Off
  BY DEF ReadItemFails
<1>2. ListTypeOK' /\ ItemsOK'
  BY <1>1, ItemStep DEF MovesItem
<1> QED
  BY <1>1, <1>2, ListOff

\* The page holds the elements of its part of the sequence.
LEMMA RowsOfPage ==
    ASSUME NEW T, NEW s \in Seq(T), NEW off \in Nat
    PROVE  /\ Page(s, PageSize, off) \in Seq(T)
           /\ \A k \in DOMAIN s : off < k /\ k <= off + PageSize =>
                 \E i \in DOMAIN Page(s, PageSize, off) : Page(s, PageSize, off)[i] = s[k]
<1> DEFINE n    == Len(s)
           last == Min({off + PageSize, n})
           rows == SubSeq(s, off + 1, last)
<1>1. n \in Nat /\ PageSize \in Nat \ {0} /\ DOMAIN s = 1 .. n
  BY BrowserAssumption
<1>2. last = IF off + PageSize <= n THEN off + PageSize ELSE n
  <2>1. ASSUME NEW a \in Nat, NEW b \in Nat
        PROVE  Min({a, b}) = IF a <= b THEN a ELSE b
    <3>1. \E x \in {a, b} : \A y \in {a, b} : x <= y
      OBVIOUS
    <3> QED
      BY <3>1 DEF Min
  <2>2. off + PageSize \in Nat
    BY <1>1
  <2> HIDE DEF n
  <2> QED
    BY <1>1, <2>1, <2>2
<1>3. Page(s, PageSize, off) = rows
  BY DEF Page
<1> HIDE DEF last
<1>4. /\ rows \in Seq(T)
      /\ Len(rows) = IF off + 1 <= last THEN last - off ELSE 0
      /\ \A i \in 1 .. Len(rows) : rows[i] = s[off + i]
  <2>1. last \in Int /\ last <= Len(s)
    <3>1. off + PageSize \in Nat /\ n = Len(s)
      BY <1>1
    <3> HIDE DEF n
    <3>2. last = off + PageSize \/ last = n
      BY <1>2
    <3>3. last \in Int
      BY <1>1, <3>1, <3>2
    <3>4. last <= n
      <4>1. CASE off + PageSize <= n
        BY <1>2, <3>1, <4>1
      <4>2. CASE ~(off + PageSize <= n)
        <5>1. last = n
          BY <1>2, <4>2
        <5> QED
          BY <1>1, <5>1
      <4> QED
        BY <4>1, <4>2
    <3> QED
      BY <3>1, <3>3, <3>4
  <2>2. \A k \in off + 1 .. last : s[k] \in T
    BY <2>1
  <2> QED
    BY <2>1, <2>2
<1> HIDE DEF n, rows
<1>5. ASSUME NEW k \in DOMAIN s, off < k, k <= off + PageSize
      PROVE  \E i \in DOMAIN rows : rows[i] = s[k]
  <2>1. k \in 1 .. n
    BY <1>1, <1>5
  <2>2. k - off \in 1 .. Len(rows) /\ off + (k - off) = k
    BY <1>1, <1>2, <1>4, <1>5, <2>1
  <2>3. rows[k - off] = s[k] /\ k - off \in DOMAIN rows
    BY <1>4, <2>2
  <2> QED
    BY <2>3
<1> QED
  BY <1>3, <1>4, <1>5

\* Where a sealed package stands among the sorted items: behind those of the
\* listing that are newer, and no others.
LEMMA PlaceOfSealed ==
    ASSUME StoreInv, ListInv, list # Idle, list.dirs = <<>>, walk.on,
           NEW s \in SortedNewest(list.items),
           NEW g \in Package, Sealed(g), Listed(g)
    PROVE  \E m \in DOMAIN s : s[m].id = g /\ m - 1 = Cardinality(ListedNewer(g))
<1> DEFINE items == list.items
           S     == ToSet(items)
<1>1. items \in Seq(Item)
  BY ListOn DEF ListInv, Reading
<1>2. /\ \A i, j \in DOMAIN items : items[i].id = items[j].id => i = j
      /\ \A i \in DOMAIN items :
            \/ items[i].at = 0
            \/ Sealed(items[i].id) /\ items[i].at = at[items[i].id]
  BY DEF ListInv, ItemsOK, WalkKept, ItemsCurrent
<1>3. \A x \in S : \E i \in DOMAIN items : items[i] = x
  BY DEF ToSet
<1>4. /\ \A x, y \in S : x.id = y.id => x = y
      /\ \A x \in S : x.at = 0 \/ (Sealed(x.id) /\ x.at = at[x.id])
      /\ S \subseteq Item
  BY <1>1, <1>2, <1>3
<1>5. IsFiniteSet(S)
  BY <1>1, <1>2, SetOfSeq
<1>6. s \in SetToSeqs(S) /\ \A i, j \in DOMAIN s : i < j => s[i].at >= s[j].at
  BY DEF SortedNewest
<1>7. \A o : Listed(o) <=> \E x \in S : x.id = o /\ x.at = at[o]
  BY DEF Listed, ToSet
<1> HIDE DEF S
<1>8. /\ s \in Seq(S) /\ ToSet(s) = S
      /\ \A i, j \in DOMAIN s : s[i] = s[j] => i = j
  BY <1>5, <1>6, SeqOfSet
<1>9. \A x \in S : \E k \in DOMAIN s : s[k] = x
  BY <1>8 DEF ToSet
<1>10. PICK m \in DOMAIN s : s[m].id = g /\ s[m].at = at[g]
  BY <1>7, <1>9
<1>11. /\ m \in Nat /\ m >= 1 /\ DOMAIN s = 1 .. Len(s) /\ Len(s) \in Nat
       /\ \A k \in DOMAIN s : s[k] \in S /\ s[k].id \in Package /\ s[k].at \in Nat
  BY <1>4, <1>8 DEF Item
<1>12. /\ \A o \in Package : at[o] \in Nat
       /\ at[g] > 0
       /\ \A o \in Package : at[o] = at[g] => o = g
  BY OneTime DEF StoreInv, StoreTypeOK, Sealed
<1> DEFINE f == [k \in 1 .. m - 1 |-> s[k].id]
<1>13. f \in Seq(Package) /\ Len(f) = m - 1 /\ DOMAIN f = 1 .. m - 1
  <2>1. m - 1 \in Nat /\ \A k \in 1 .. m - 1 : k \in DOMAIN s
    BY <1>11
  <2> QED
    BY <1>11, <2>1
<1>14. \A i, j \in DOMAIN f : f[i] = f[j] => i = j
  <2> SUFFICES ASSUME NEW i \in 1 .. m - 1, NEW j \in 1 .. m - 1, s[i].id = s[j].id
               PROVE  i = j
    BY <1>13
  <2>1. i \in DOMAIN s /\ j \in DOMAIN s
    BY <1>11
  <2> QED
    BY <1>4, <1>8, <1>11, <2>1
<1>15. ASSUME NEW k \in 1 .. m - 1 PROVE s[k].id \in ListedNewer(g)
  <2>1. k \in DOMAIN s /\ k < m /\ k # m
    BY <1>11
  <2>2. s[k].at >= at[g] /\ s[k].at # 0
    BY <1>6, <1>10, <1>11, <1>12, <2>1
  <2>3. Sealed(s[k].id) /\ s[k].at = at[s[k].id]
    BY <1>4, <1>11, <2>1, <2>2
  <2>4. s[k].id # g
    BY <1>4, <1>8, <1>10, <1>11, <2>1
  <2>5. at[s[k].id] > at[g]
    BY <1>11, <1>12, <2>1, <2>2, <2>3, <2>4
  <2>6. Listed(s[k].id)
    BY <1>7, <1>11, <2>1, <2>3
  <2> QED
    BY <1>11, <2>1, <2>3, <2>5, <2>6 DEF ListedNewer, Newer
<1>16. ASSUME NEW o \in ListedNewer(g) PROVE \E k \in 1 .. m - 1 : s[k].id = o
  <2>1. o \in Package /\ at[o] > at[g] /\ Listed(o)
    BY <1>16 DEF ListedNewer, Newer
  <2>2. PICK k \in DOMAIN s : s[k].id = o /\ s[k].at = at[o]
    BY <1>7, <1>9, <2>1
  <2>3. ~(m < k) /\ k # m
    BY <1>6, <1>10, <1>12, <2>1, <2>2
  <2>4. k \in 1 .. m - 1
    BY <1>11, <2>3
  <2> QED
    BY <2>2, <2>4
<1>17. ToSet(f) = ListedNewer(g)
  <2>1. \A k \in DOMAIN f : f[k] \in ListedNewer(g)
    BY <1>13, <1>15
  <2>2. \A o \in ListedNewer(g) : \E k \in DOMAIN f : f[k] = o
    BY <1>13, <1>16
  <2> HIDE DEF f
  <2> QED
    BY <2>1, <2>2 DEF ToSet
<1> HIDE DEF f
<1>18. Cardinality(ListedNewer(g)) = m - 1
  BY <1>13, <1>14, <1>17, SetOfSeq
<1> QED
  BY <1>10, <1>18

LEMMA ShowPageStep ==
    ASSUME StoreInv, ListInv, ShowPage
    PROVE  ListInv'
<1> DEFINE items == list.items
           off   == page * PageSize
<1>1. list # Idle /\ list.dirs = <<>> /\ list \in Reading /\ items \in Seq(Item)
  BY ListOn DEF ShowPage, ListInv, Reading
<1>2. PICK s \in SortedNewest(items) :
         LET rows == Page(s, PageSize, off) IN grid' = [i \in DOMAIN rows |-> rows[i].id]
  BY DEF ShowPage
<1> DEFINE rows == Page(s, PageSize, off)
<1>3. /\ total' = Len(items) /\ list' = Idle /\ page' = page
      /\ walk' = IF walk.on
                 THEN [walk EXCEPT !.next = @ + 1, !.seen = @ \union ToSet(grid')]
                 ELSE walk
      /\ UNCHANGED storeVars
  BY DEF ShowPage
<1>4. page \in Nat /\ off \in Nat /\ PageSize \in Nat \ {0}
  BY BrowserAssumption DEF ListInv, ListTypeOK
<1>5. \A i, j \in DOMAIN items : items[i] = items[j] => i = j
  BY <1>1 DEF ListInv, ItemsOK
<1>6. IsFiniteSet(ToSet(items)) /\ Cardinality(ToSet(items)) = Len(items)
  BY <1>1, <1>5, SetOfSeq
<1>7. s \in Seq(ToSet(items)) /\ Len(s) = Len(items)
  BY <1>6, SeqOfSet DEF SortedNewest
<1>8. ToSet(items) \subseteq Item
  BY <1>1 DEF ToSet
<1>9. s \in Seq(Item) /\ rows \in Seq(Item)
  <2>1. s \in Seq(Item)
    BY <1>7, <1>8
  <2> QED
    BY <1>4, <2>1, RowsOfPage
<1> HIDE DEF off
<1>10. /\ grid' \in Seq(Package) /\ DOMAIN grid' = DOMAIN rows
       /\ \A i \in DOMAIN rows : grid'[i] = rows[i].id
  <2>1. grid' = [i \in DOMAIN rows |-> rows[i].id]
    BY <1>2
  <2> HIDE DEF rows
  <2>2. DOMAIN rows = 1 .. Len(rows) /\ Len(rows) \in Nat
        /\ \A i \in 1 .. Len(rows) : rows[i] \in Item
    BY <1>9
  <2>3. \A x \in Item : x.id \in Package
    BY DEF Item
  <2> QED
    BY <2>1, <2>2, <2>3
<1>11. ToSet(grid') \subseteq Package
  BY <1>10 DEF ToSet
<1>12. walk.on => /\ walk \in Walks /\ walk' \in Walks
                  /\ walk'.next = walk.next + 1 /\ walk'.goal = walk.goal
                  /\ walk'.seen = walk.seen \union ToSet(grid')
  <2> SUFFICES ASSUME walk.on PROVE /\ walk \in Walks /\ walk' \in Walks
                                    /\ walk'.next = walk.next + 1 /\ walk'.goal = walk.goal
                                    /\ walk'.seen = walk.seen \union ToSet(grid')
    OBVIOUS
  <2> DEFINE on == [walk EXCEPT !.next = @ + 1]
  <2>1. walk \in Walks
    BY WalkOn DEF ListInv
  <2>2. on \in Walks /\ on.next = walk.next + 1 /\ on.goal = walk.goal /\ on.seen = walk.seen
    BY <2>1 DEF Walks
  <2>3. walk' = [on EXCEPT !.seen = @ \union ToSet(grid')]
    BY <1>3, <2>1 DEF Walks
  <2> HIDE DEF on
  <2> QED
    BY <1>11, <2>1, <2>2, <2>3 DEF Walks
<1>13. ListTypeOK'
  BY <1>1, <1>3, <1>10, <1>12 DEF ListInv, ListTypeOK
<1>14. ItemsOK'
  BY <1>3 DEF ItemsOK
<1>15. ASSUME walk.on, NEW g \in walk.goal PROVE GoalKept(g)'
  <2>1. /\ GoalKept(g) /\ g \in Package /\ walk.next \in Nat
        /\ page = walk.next
    BY <1>1, <1>12, <1>15 DEF ListInv, WalkKept, Walks
  <2>2. PICK m \in DOMAIN s : s[m].id = g /\ m - 1 = Cardinality(ListedNewer(g))
    BY <1>1, <1>15, <2>1, PlaceOfSealed DEF GoalKept
  <2>3. m \in Nat /\ m >= 1 /\ m <= Len(items)
    BY <1>1, <1>7
  <2>4. off = walk.next * PageSize /\ (walk.next + 1) * PageSize = off + PageSize
    BY <1>4, <2>1 DEF off
  <2>5. CASE g \in walk'.seen
    BY <1>3, <2>1, <2>5 DEF GoalKept, Sealed, storeVars
  <2>6. CASE g \notin walk'.seen
    <3>1. g \notin walk.seen /\ g \notin ToSet(grid')
      BY <1>12, <1>15, <2>6
    <3>2. m - 1 >= off
      BY <1>1, <2>1, <2>2, <2>4, <3>1 DEF GoalKept
    <3>3. ~(off < m /\ m <= off + PageSize)
      <4> SUFFICES ASSUME off < m, m <= off + PageSize PROVE FALSE
        OBVIOUS
      <4>1. PICK i \in DOMAIN rows : rows[i] = s[m]
        BY <1>4, <1>9, RowsOfPage
      <4> HIDE DEF rows
      <4>2. g \in ToSet(grid')
        BY <1>10, <2>2, <4>1 DEF ToSet
      <4> QED
        BY <3>1, <4>2
    <3>4. m > off + PageSize
      BY <1>4, <2>3, <3>2, <3>3
    <3>5. /\ Cardinality(Newer(g)) \in Nat
          /\ Cardinality(Newer(g)) >= m - 1
      BY <2>2, NewerCounted
    <3>6. Cardinality(Newer(g)) >= off + PageSize /\ Len(items) > off + PageSize
      BY <1>1, <1>4, <2>3, <3>4, <3>5
    <3>7. Newer(g)' = Newer(g)
      BY <1>3 DEF Newer, Sealed, storeVars
    <3>8. walk'.next * PageSize = off + PageSize
      BY <1>12, <1>15, <2>4
    <3> QED
      BY <1>3, <2>1, <3>6, <3>7, <3>8 DEF GoalKept, Sealed, storeVars
  <2> QED
    BY <2>5, <2>6
<1>16. WalkKept'
  <2>1. CASE walk.on
    <3>1. walk'.next > 0
      BY <1>12, <2>1 DEF Walks
    <3> QED
      BY <1>3, <1>12, <1>15, <2>1, <3>1 DEF WalkKept, ItemsCurrent
  <2>2. CASE ~walk.on
    BY <1>3, <2>2 DEF WalkKept
  <2> QED
    BY <2>1, <2>2
<1> QED
  BY <1>13, <1>14, <1>16 DEF ListInv

LEMMA ListStep == StoreInv /\ ListInv /\ [Next]_vars => ListInv'
<1> SUFFICES ASSUME StoreInv, ListInv, [Next]_vars PROVE ListInv'
  OBVIOUS
<1>1. StoreInv'
  BY StoreStep
<1>2. CASE UNCHANGED gridVars /\ UNCHANGED storeVars
  BY <1>2, ListBesidePanel DEF gridVars, pageVars
<1>3. CASE Captures
  <2>1. UNCHANGED pageVars /\ WalkOverKept
    BY <1>3, CapturesStep DEF Captures
  <2>2. CASE walk' = Off
    <3>1. ListTypeOK' /\ ItemsOK'
      BY <2>1, <2>2 DEF ListInv, ListTypeOK, ItemsOK, pageVars
    <3> QED
      BY <2>2, <3>1, ListOff
  <2>3. CASE walk' # Off
    BY <1>1, <2>1, <2>3, ListOverStore DEF WalkOverKept
  <2> QED
    BY <2>2, <2>3
<1>4. ASSUME NEW p \in Offered \union {0}, Load(p) PROVE ListInv'
  BY <1>4, OfferedPages, LoadStep DEF ListInv
<1>9. ASSUME NEW p \in Offered \union {0}, LoadUnlisted(p) PROVE ListInv'
  BY <1>9, OfferedPages, LoadUnlistedStep DEF ListInv
<1>5. CASE LoadFails
  <2>1. ListTypeOK' /\ ItemsOK' /\ walk' = Off
    BY <1>5 DEF LoadFails, ListInv, ListTypeOK, ItemsOK
  <2> QED
    BY <2>1, ListOff
<1>6. ASSUME NEW q \in Request, Panel(q) PROVE ListInv'
  <2>1. \/ UNCHANGED <<storeVars, gridVars>>
        \/ UNCHANGED <<storeVars, list, page, grid, total>> /\ walk' = Off
    BY <1>6 DEF Panel, OpenDetail, ViewFile, Stat, ReadDetail, ReadFile, Disconnect,
                ShowDetail, ShowDetailError, ShowFile
  <2> QED
    BY <1>2, <2>1, ListBesidePanel
<1>7. CASE UNCHANGED vars
  BY <1>2, <1>7 DEF vars
<1> QED
  BY <1>3, <1>4, <1>5, <1>6, <1>7, <1>9, ReadItemStep, ReadItemFailsStep, ShowPageStep
     DEF Next, Listing

\* Whoever walks through the pages to the last one has been shown every package
\* that was sealed at the beginning, for any number of captures that begin and
\* seal packages meanwhile and any page size, as long as the handlers can read
\* what is there and no sealed package loses its manifest or gets another one.
THEOREM WalkShowsAll == Spec => []PackagesAllShown
<1>1. ListInv => PackagesAllShown
  <2> SUFFICES ASSUME ListInv, walk.on, list = Idle, walk.next * PageSize >= total,
                      NEW g \in walk.goal, g \notin walk.seen
               PROVE  FALSE
    BY DEF PackagesAllShown
  <2>1. total > walk.next * PageSize
    BY DEF ListInv, WalkKept, GoalKept
  <2>2. total \in Nat /\ walk.next * PageSize \in Nat
    BY WalkOn, BrowserAssumption DEF ListInv, ListTypeOK, Walks
  <2> QED
    BY <2>1, <2>2
<1> QED
  BY <1>1, StoreInit, StoreStep, ListInit, ListStep, PTL DEF Spec

\* The variables of store, list and panel keep their types.
THEOREM TypeCorrect == Spec => []TypeOK
<1>1. \A r \in Asks : r.stage \in {"idle", "stat", "manifest", "files", "file",
                                   "answered", "failed"}
  BY AskTells, StageOfDetail, StageOfFile DEF Asks
<1>2. PanelInv => /\ body.shows \in {"nothing", "loading", "package", "error"}
                  /\ viewer.shows \in {"nothing", "loading", "file", "error"}
                  /\ \A q \in Request : ask[q] \in Asks
  BY DEF PanelInv, Bodies, Viewers, Nothing
<1>3. StoreInv /\ PanelInv /\ ListInv => TypeOK
  BY <1>1, <1>2 DEF StoreInv, StoreTypeOK, ListInv, ListTypeOK, TypeOK
<1> QED
  BY <1>3, StoreInit, StoreStep, PanelInit, PanelStep, ListInit, ListStep, PTL DEF Spec
=============================================================================
