-------------------------- MODULE CapturePipeline --------------------------
(***************************************************************************)
(* The evidence store under concurrent captures.                           *)
(*                                                                         *)
(* Every alert that is acted upon becomes one goroutine running runCapture *)
(* (cmd/agent/main.go) or runKubernetesCapture (cmd/agent/k8s_watcher.go). *)
(* All of them write package directories under one base path through       *)
(* internal/repository and internal/preserver, log into one audit file, and*)
(* race with POST /api/v1/reset (internal/api/handlers.go), which deletes  *)
(* packages and truncates the audit file without any lock, and with the    *)
(* death of the process.  A step below is one system call of one goroutine,*)
(* or the computation between two of them.                                 *)
(*                                                                         *)
(* The bytes of a file are abstracted to the capture that wrote them: each *)
(* capture writes each of its files once.                                  *)
(***************************************************************************)
EXTENDS Naturals, FiniteSets

CONSTANTS
    Capture,     \* one identity per call of runCapture or runKubernetesCapture
    ShortId,     \* container ids or pod names cut to 12 characters
    ShortOf,     \* the short id of the container or pod of a capture
    SourceOf,    \* "docker" for runCapture, "k8s" for runKubernetesCapture
    Artifact,    \* the names of the files Preserve writes before the manifest
    Manifest,    \* "manifest.json"
    WriteRank,   \* position of an artifact in the list Preserve iterates over
    NameRank,    \* position of a file in the sorted listing of a directory
    MaxSecond,   \* bound: seconds the wall clock goes through
    Faults,      \* bound: how many resets, and how many failing writes to the
                 \* audit file, go together in one behaviour
    Absent,      \* no such file, or no such manifest entry
    Empty,       \* a file just created or truncated
    Garbage,     \* bytes of no single capture: half written, or overlaid
    NoDir,       \* no package directory yet
    Closed,      \* the capture has no file open
    Unlinked     \* the file the capture has open was deleted under it

File    == Artifact \union {Manifest}
Dir     == (0 .. MaxSecond) \X ShortId
Content == Capture \union {Absent, Empty, Garbage}

ASSUME MappingAssumption ==
    /\ ShortOf \in [Capture -> ShortId]
    /\ SourceOf \in [Capture -> {"docker", "k8s"}]

ASSUME OrderAssumption ==
    /\ Manifest \notin Artifact
    /\ WriteRank \in [Artifact -> Nat]
    /\ NameRank \in [File -> Nat]

ASSUME BoundAssumption == MaxSecond \in Nat /\ Faults \subseteq Nat \X Nat

ASSUME SentinelAssumption ==
    /\ {Absent, Empty, Garbage} \intersect Capture = {}
    /\ Absent # Empty /\ Absent # Garbage /\ Empty # Garbage
    /\ NoDir \notin Dir
    /\ {Closed, Unlinked} \intersect File = {}
    /\ Closed # Unlinked

VARIABLES
    clock,    \* the second the wall clock shows
    exists,   \* package directories on disk
    file,     \* file[d][f]: who wrote file f of directory d
    audit,    \* the entries that are in the audit file: <<action, capture>>
    open,     \* the last line of the audit file has no newline
    tail,     \* the entry on that line, if it is all there
    cut,      \* writes to the audit file that failed or fell short so far
    phase,    \* where the goroutine of a capture is
    pkg,      \* the directory Create returned to a capture
    got,      \* artifacts collected with non-empty content
    todo,     \* files the current loop of Preserve has still to visit
    fd,       \* the file a capture has open for writing
    sha,      \* sha[c][f]: contents behind the hash in c's manifest entry for f
    size,     \* size[c][f]: contents behind the size in that entry
    sweep,    \* where handleReset is
    doomed,   \* directories listed by handleReset and not yet visited
    target,   \* the directory RemoveAll is working on
    names,    \* its files that RemoveAll has still to unlink
    warned,   \* handleReset logged a warning
    resets,   \* reset requests so far
    stale,    \* history: captures already over when the last reset listed
    wiped     \* history: directories some reset deleted something from

diskVars    == <<exists, file>>
auditVars   == <<audit, open, tail, cut>>
captureVars == <<phase, pkg, got, todo, fd, sha, size>>
resetVars   == <<sweep, doomed, target, names, warned, resets, stale, wiped>>
vars        == <<clock, diskVars, auditVars, captureVars, resetVars>>

Unsealed == {"created", "alerted", "collecting", "writing", "hashing", "sealing"}
Running  == Unsealed \union {"sealed", "succeeded", "failing"}
Over     == {"done", "failed", "lost"}
Phase    == {"new"} \union Running \union Over

AuditAction == {"ALERT_RECEIVED", "CAPTURE_STARTED", "CAPTURE_SUCCESS",
                "EVIDENCE_STORED", "CAPTURE_FAILURE"}

TypeOK ==
    /\ clock \in 0 .. MaxSecond
    /\ exists \subseteq Dir
    /\ file \in [Dir -> [File -> Content]]
    /\ audit \subseteq AuditAction \X Capture
    /\ open \in BOOLEAN
    /\ tail \subseteq audit
    /\ cut \in Nat
    /\ phase \in [Capture -> Phase]
    /\ pkg \in [Capture -> Dir \union {NoDir}]
    /\ got \in [Capture -> SUBSET Artifact]
    /\ todo \in [Capture -> SUBSET File]
    /\ fd \in [Capture -> File \union {Closed, Unlinked}]
    /\ sha \in [Capture -> [File -> Content]]
    /\ size \in [Capture -> [File -> Content]]
    /\ sweep \in {"idle", "sweeping", "finished"}
    /\ doomed \subseteq Dir
    /\ target \in Dir \union {NoDir}
    /\ names \subseteq File
    /\ warned \in BOOLEAN
    /\ resets \in Nat
    /\ stale \subseteq Capture
    /\ wiped \subseteq Dir

Init ==
    /\ clock = 0
    /\ exists = {}
    /\ file = [d \in Dir |-> [f \in File |-> Absent]]
    /\ audit = {}
    /\ open = FALSE
    /\ tail = {}
    /\ cut = 0
    /\ phase = [c \in Capture |-> "new"]
    /\ pkg = [c \in Capture |-> NoDir]
    /\ got = [c \in Capture |-> {}]
    /\ todo = [c \in Capture |-> {}]
    /\ fd = [c \in Capture |-> Closed]
    /\ sha = [c \in Capture |-> [f \in File |-> Absent]]
    /\ size = [c \in Capture |-> [f \in File |-> Absent]]
    /\ sweep = "idle"
    /\ doomed = {}
    /\ target = NoDir
    /\ names = {}
    /\ warned = FALSE
    /\ resets = 0
    /\ stale = {}
    /\ wiped = {}

----------------------------------------------------------------------------
(* Helpers.                                                                *)

\* f is the member of S that the given order puts first.
First(f, S, rank) == f \in S /\ \A g \in S : rank[f] <= rank[g]

\* The non-directories of a package, as ReadDir lists them.
Listing(d) == {f \in File : file[d][f] # Absent}

\* A line is written with its newline: it holds entries E, unless it goes on
\* behind a line without a newline, which takes the entry there with it.
Written(E) ==
    /\ audit' = (audit \ tail) \union (IF open THEN {} ELSE E)
    /\ open' = FALSE
    /\ tail' = {}
    /\ cut' = cut

\* The write fails or falls short: nothing of the line is in the file, or a
\* part of it, or everything but the newline.
CutShort(E) ==
    /\ <<resets, cut + 1>> \in Faults
    /\ cut' = cut + 1
    /\ \/ UNCHANGED <<audit, open, tail>>
       \/ audit' = audit \ tail /\ open' = TRUE /\ tail' = {}
       \/ ~ open /\ audit' = audit \union E /\ open' = TRUE /\ tail' = E

\* One entry logged: Log ignores the result of Write.
Log(action, c) == Written({<<action, c>>}) \/ CutShort({<<action, c>>})

Goto(c, p) == phase' = [phase EXCEPT ![c] = p]

\* Collected evidence and the manifest under construction live in memory: they
\* are gone when captures S return, or die, before the manifest is on disk.
Forget(S) ==
    /\ got'  = [c \in Capture |-> IF c \in S THEN {} ELSE got[c]]
    /\ todo' = [c \in Capture |-> IF c \in S THEN {} ELSE todo[c]]
    /\ sha'  = [c \in Capture |-> IF c \in S THEN [f \in File |-> Absent] ELSE sha[c]]
    /\ size' = [c \in Capture |-> IF c \in S THEN [f \in File |-> Absent] ELSE size[c]]

----------------------------------------------------------------------------
(* The steps of a capture.                                                 *)

\* Mutant: the time is rounded up to the next second.
CreateRoundsUp(c) ==
    /\ phase[c] = "new"
    /\ pkg' = [pkg EXCEPT ![c] = <<clock + 1, ShortOf[c]>>]
    /\ exists' = exists \union {<<clock + 1, ShortOf[c]>>}
    /\ Goto(c, "created")
    /\ UNCHANGED <<clock, file, auditVars, got, todo, fd, sha, size, resetVars>>

\* repository.Create: the name is the second and the short id; MkdirAll
\* returns no error when the directory is already there.
Create(c) ==
    /\ phase[c] = "new"
    /\ pkg' = [pkg EXCEPT ![c] = <<clock, ShortOf[c]>>]
    /\ exists' = exists \union {<<clock, ShortOf[c]>>}
    /\ Goto(c, "created")
    /\ UNCHANGED <<clock, file, auditVars, got, todo, fd, sha, size, resetVars>>

\* Mutant: the error of Create is returned without being logged.
CreateFailsSilently(c) ==
    /\ phase[c] = "new"
    /\ Goto(c, "failed")
    /\ UNCHANGED <<clock, diskVars, auditVars, pkg, got, todo, fd, sha, size, resetVars>>

\* Create returns an error: the capture logs CAPTURE_FAILURE and returns.
CreateFails(c) ==
    /\ phase[c] = "new"
    /\ Goto(c, "failing")
    /\ UNCHANGED <<clock, diskVars, auditVars, pkg, got, todo, fd, sha, size, resetVars>>

\* runKubernetesCapture logs the alert itself, after Create.
LogAlert(c) ==
    /\ SourceOf[c] = "k8s" /\ phase[c] = "created"
    /\ Log("ALERT_RECEIVED", c)
    /\ Goto(c, "alerted")
    /\ UNCHANGED <<clock, diskVars, pkg, got, todo, fd, sha, size, resetVars>>

LogStarted(c) ==
    /\ phase[c] = IF SourceOf[c] = "k8s" THEN "alerted" ELSE "created"
    /\ Log("CAPTURE_STARTED", c)
    /\ Goto(c, "collecting")
    /\ UNCHANGED <<clock, diskVars, pkg, got, todo, fd, sha, size, resetVars>>

\* collector.Collect: an artifact may be switched off, fail, or come out
\* empty, and Preserve goes on with whatever is left.
CollectDocker(c) ==
    /\ SourceOf[c] = "docker" /\ phase[c] = "collecting"
    /\ \E S \in SUBSET Artifact :
          /\ got' = [got EXCEPT ![c] = S]
          /\ todo' = [todo EXCEPT ![c] = S]
    /\ Goto(c, "writing")
    /\ UNCHANGED <<clock, diskVars, auditVars, pkg, fd, sha, size, resetVars>>

\* The kubectl calls: an error becomes text in the artifact, so that metadata,
\* logs and network always have content; the process list is the bare output.
CollectK8s(c) ==
    /\ SourceOf[c] = "k8s" /\ phase[c] = "collecting"
    /\ \E S \in {Artifact, Artifact \ {"process.txt"}} :
          /\ got' = [got EXCEPT ![c] = S]
          /\ todo' = [todo EXCEPT ![c] = S]
    /\ Goto(c, "writing")
    /\ UNCHANGED <<clock, diskVars, auditVars, pkg, fd, sha, size, resetVars>>

\* os.WriteFile, first half: open with O_CREATE and O_TRUNC.
OpenFile(c, f) ==
    /\ fd[c] = Closed
    /\ pkg[c] \in exists
    /\ file' = [file EXCEPT ![pkg[c]][f] = Empty]
    /\ fd' = [fd EXCEPT ![c] = f]

\* os.WriteFile, second half: the bytes go over whatever another writer has
\* put there since; nobody sees them if the file was unlinked meanwhile.
FillFile(c) ==
    /\ fd[c] # Closed
    /\ fd' = [fd EXCEPT ![c] = Closed]
    /\ IF fd[c] = Unlinked
       THEN file' = file
       ELSE \E x \in IF file[pkg[c]][fd[c]] = Empty THEN {c} ELSE {c, Garbage} :
               file' = [file EXCEPT ![pkg[c]][fd[c]] = x]

\* Preserve writes the artifacts in its own order; WriteFile skips those
\* without content.
WriteBegin(c) ==
    /\ phase[c] = "writing"
    /\ \E f \in todo[c] :
          /\ First(f, todo[c], WriteRank)
          /\ OpenFile(c, f)
          /\ todo' = [todo EXCEPT ![c] = @ \ {f}]
    /\ UNCHANGED <<clock, exists, auditVars, phase, pkg, got, sha, size, resetVars>>

WriteEnd(c) ==
    /\ phase[c] = "writing"
    /\ FillFile(c)
    /\ UNCHANGED <<clock, exists, auditVars, phase, pkg, got, todo, sha, size, resetVars>>

\* Mutant: the directory is listed before everything is written.
ListEarly(c) ==
    /\ phase[c] = "writing" /\ fd[c] = Closed
    /\ pkg[c] \in exists
    /\ todo' = [todo EXCEPT ![c] = Listing(pkg[c])]
    /\ Goto(c, "hashing")
    /\ UNCHANGED <<clock, diskVars, auditVars, pkg, got, fd, sha, size, resetVars>>

\* ListFiles: every file that is in the directory, whoever wrote it.
List(c) ==
    /\ phase[c] = "writing" /\ todo[c] = {} /\ fd[c] = Closed
    /\ pkg[c] \in exists
    /\ todo' = [todo EXCEPT ![c] = Listing(pkg[c])]
    /\ Goto(c, "hashing")
    /\ UNCHANGED <<clock, diskVars, auditVars, pkg, got, fd, sha, size, resetVars>>

\* HashFile on the next file of the listing.
Hash(c) ==
    /\ phase[c] = "hashing"
    /\ \E f \in todo[c] :
          /\ First(f, todo[c], NameRank)
          /\ sha[c][f] = Absent
          /\ file[pkg[c]][f] # Absent
          /\ sha' = [sha EXCEPT ![c][f] = file[pkg[c]][f]]
    /\ UNCHANGED <<clock, diskVars, auditVars, phase, pkg, got, todo, fd, size, resetVars>>

\* statFile on the file just hashed; the entry is appended to the manifest.
Stat(c) ==
    /\ phase[c] = "hashing"
    /\ \E f \in todo[c] :
          /\ First(f, todo[c], NameRank)
          /\ sha[c][f] # Absent
          /\ file[pkg[c]][f] # Absent
          /\ size' = [size EXCEPT ![c][f] = file[pkg[c]][f]]
          /\ todo' = [todo EXCEPT ![c] = @ \ {f}]
    /\ UNCHANGED <<clock, diskVars, auditVars, phase, pkg, got, fd, sha, resetVars>>

SealBegin(c) ==
    /\ phase[c] = "hashing" /\ todo[c] = {}
    /\ OpenFile(c, Manifest)
    /\ Goto(c, "sealing")
    /\ UNCHANGED <<clock, exists, auditVars, pkg, got, todo, sha, size, resetVars>>

\* Mutant: Preserve hashes and seals once more to be on the safe side.
SealAgain(c) ==
    /\ phase[c] = "sealing"
    /\ FillFile(c)
    /\ \E p \in {"hashing", "sealed"} : Goto(c, p)
    /\ UNCHANGED <<clock, exists, auditVars, pkg, got, todo, sha, size, resetVars>>

\* All bytes of the manifest are written and Close returns an error: Preserve
\* fails with a complete manifest on disk.  (For an artifact, WriteEnd followed
\* by PreserveFails.)
CloseFails(c) ==
    /\ phase[c] = "sealing"
    /\ FillFile(c)
    /\ Goto(c, "failing")
    /\ UNCHANGED <<clock, exists, auditVars, pkg, got, todo, sha, size, resetVars>>

SealEnd(c) ==
    /\ phase[c] = "sealing"
    /\ FillFile(c)
    /\ Goto(c, "sealed")
    /\ UNCHANGED <<clock, exists, auditVars, pkg, got, todo, sha, size, resetVars>>

LogSuccess(c) ==
    /\ phase[c] = "sealed"
    /\ Log("CAPTURE_SUCCESS", c)
    /\ Goto(c, "succeeded")
    /\ UNCHANGED <<clock, diskVars, pkg, got, todo, fd, sha, size, resetVars>>

LogStored(c) ==
    /\ phase[c] = "succeeded"
    /\ Log("EVIDENCE_STORED", c)
    /\ Goto(c, "done")
    /\ UNCHANGED <<clock, diskVars, pkg, got, todo, fd, sha, size, resetVars>>

\* Mutant: the error of the last WriteFile is not returned.
PreserveSwallows(c) ==
    /\ phase[c] \in {"writing", "hashing", "sealing"}
    /\ fd' = [fd EXCEPT ![c] = Closed]
    /\ \/ file' = file
       \/ /\ fd[c] \in File
          /\ file' = [file EXCEPT ![pkg[c]][fd[c]] = Garbage]
    /\ IF phase[c] = "sealing"
       THEN Goto(c, "sealed") /\ UNCHANGED <<got, todo, sha, size>>
       ELSE Goto(c, "failing") /\ Forget({c})
    /\ UNCHANGED <<clock, exists, auditVars, pkg, resetVars>>

\* Mutant: Preserve retries for as long as its directory is missing.
PreserveRetries(c) ==
    /\ phase[c] \in {"writing", "hashing", "sealing"}
    /\ pkg[c] \in exists
    /\ fd' = [fd EXCEPT ![c] = Closed]
    /\ \/ file' = file
       \/ /\ fd[c] \in File
          /\ file' = [file EXCEPT ![pkg[c]][fd[c]] = Garbage]
    /\ Forget({c})
    /\ Goto(c, "failing")
    /\ UNCHANGED <<clock, exists, auditVars, pkg, resetVars>>

\* Any call of Preserve may return an error (disk full, file or directory
\* gone); a failing write may leave part of the bytes behind.
PreserveFails(c) ==
    /\ phase[c] \in {"writing", "hashing", "sealing"}
    /\ fd' = [fd EXCEPT ![c] = Closed]
    /\ \/ file' = file
       \/ /\ fd[c] \in File
          /\ file' = [file EXCEPT ![pkg[c]][fd[c]] = Garbage]
    /\ Forget({c})
    /\ Goto(c, "failing")
    /\ UNCHANGED <<clock, exists, auditVars, pkg, resetVars>>

\* Mutant: the return after the failure was logged is missing.
LogFailureOn(c) ==
    /\ phase[c] = "failing"
    /\ Log("CAPTURE_FAILURE", c)
    /\ Goto(c, "sealed")
    /\ UNCHANGED <<clock, diskVars, pkg, got, todo, fd, sha, size, resetVars>>

LogFailure(c) ==
    /\ phase[c] = "failing"
    /\ Log("CAPTURE_FAILURE", c)
    /\ Goto(c, "failed")
    /\ UNCHANGED <<clock, diskVars, pkg, got, todo, fd, sha, size, resetVars>>

----------------------------------------------------------------------------
(* handleReset.                                                            *)

ResetList ==
    /\ sweep # "sweeping" /\ <<resets + 1, cut>> \in Faults
    /\ sweep' = "sweeping"
    /\ doomed' = exists
    /\ resets' = resets + 1
    /\ warned' = FALSE
    /\ stale' = {c \in Capture : phase[c] \in Over}
    /\ UNCHANGED <<clock, diskVars, auditVars, captureVars, target, names, wiped>>

\* os.RemoveAll on the next directory: it reads the names first.
ResetOpen ==
    /\ sweep = "sweeping" /\ target = NoDir
    /\ \E d \in doomed :
          /\ target' = d
          /\ names' = Listing(d)
          /\ doomed' = doomed \ {d}
    /\ UNCHANGED <<clock, diskVars, auditVars, captureVars, sweep, warned, resets, stale, wiped>>

\* It unlinks them one by one; a writer keeps its open file without a name.
ResetUnlink ==
    /\ target # NoDir
    /\ \E f \in names :
          /\ names' = names \ {f}
          /\ file' = [file EXCEPT ![target][f] = Absent]
          /\ fd' = [c \in Capture |->
                      IF pkg[c] = target /\ fd[c] = f THEN Unlinked ELSE fd[c]]
    /\ wiped' = wiped \union {target}
    /\ UNCHANGED <<clock, exists, auditVars, phase, pkg, got, todo, sha, size,
                   sweep, doomed, target, warned, resets, stale>>

\* It removes the directory, unless a file has appeared in it since.
ResetRmdir ==
    /\ target # NoDir /\ names = {}
    /\ IF Listing(target) = {}
       THEN /\ exists' = exists \ {target}
            /\ wiped' = wiped \union {target}
            /\ warned' = warned
       ELSE /\ warned' = TRUE
            /\ UNCHANGED <<exists, wiped>>
    /\ target' = NoDir
    /\ UNCHANGED <<clock, file, auditVars, captureVars, sweep, doomed, names, resets, stale>>

\* RemoveAll gives up on an I/O error: a warning, and on to the next one.
ResetFails ==
    /\ target # NoDir
    /\ target' = NoDir
    /\ names' = {}
    /\ warned' = TRUE
    /\ UNCHANGED <<clock, diskVars, auditVars, captureVars, sweep, doomed, resets, stale, wiped>>

\* Mutant: the truncation does not wait for the packages.
TruncateFirst ==
    /\ sweep = "sweeping" /\ target = NoDir
    /\ \/ audit' = {} /\ open' = FALSE /\ tail' = {} /\ warned' = warned
       \/ UNCHANGED <<audit, open, tail>> /\ warned' = TRUE
    /\ sweep' = "finished"
    /\ UNCHANGED <<clock, cut, diskVars, captureVars, doomed, target, names, resets, stale, wiped>>

\* The audit file is truncated last; a failure is only a warning.
ResetTruncate ==
    /\ sweep = "sweeping" /\ doomed = {} /\ target = NoDir
    /\ \/ audit' = {} /\ open' = FALSE /\ tail' = {} /\ warned' = warned
       \/ UNCHANGED <<audit, open, tail>> /\ warned' = TRUE
    /\ sweep' = "finished"
    /\ UNCHANGED <<clock, cut, diskVars, captureVars, doomed, target, names, resets, stale, wiped>>

----------------------------------------------------------------------------
(* The environment.                                                        *)

Tick ==
    /\ clock < MaxSecond
    /\ clock' = clock + 1
    /\ UNCHANGED <<diskVars, auditVars, captureVars, resetVars>>

\* Another goroutine logs: a webhook, the start and the end of the agent.
LogOther ==
    /\ Written({}) \/ CutShort({})
    /\ UNCHANGED <<clock, diskVars, captureVars, resetVars>>

\* The process dies, or main returns without waiting for its goroutines: every
\* capture and the reset stop where they are; what they wrote stays, a file
\* being written perhaps in part, and the captures that have not begun belong
\* to the restarted agent.  (A death in the middle of a line of the audit file
\* is a write that falls short, and then the death.)
Die ==
    /\ \/ sweep = "sweeping"
       \/ \E c \in Capture : phase[c] \in Running
    /\ \E torn \in SUBSET {c \in Capture : fd[c] \in File} :
          file' = [d \in Dir |-> [f \in File |->
                     IF \E c \in torn : pkg[c] = d /\ fd[c] = f
                     THEN Garbage ELSE file[d][f]]]
    /\ phase' = [c \in Capture |-> IF phase[c] \in Running THEN "lost" ELSE phase[c]]
    /\ fd' = [c \in Capture |-> Closed]
    /\ sweep' = IF sweep = "sweeping" THEN "idle" ELSE sweep
    /\ doomed' = {}
    /\ target' = NoDir
    /\ names' = {}
    /\ Forget({c \in Capture : phase[c] \in Unsealed})
    /\ UNCHANGED <<clock, exists, auditVars, pkg, warned, resets, stale, wiped>>

----------------------------------------------------------------------------
(* The specification.                                                      *)

PreserveStep(c) ==
    \/ WriteBegin(c) \/ WriteEnd(c) \/ List(c) \/ Hash(c) \/ Stat(c)
    \/ SealBegin(c) \/ SealEnd(c) \/ CloseFails(c) \/ PreserveFails(c)

LogStep(c) ==
    \/ LogAlert(c) \/ LogStarted(c) \/ LogSuccess(c) \/ LogStored(c) \/ LogFailure(c)

CaptureStep(c) ==
    \/ Create(c) \/ CreateFails(c)
    \/ CollectDocker(c) \/ CollectK8s(c)
    \/ PreserveStep(c) \/ LogStep(c)

ResetStep ==
    \/ ResetList \/ ResetOpen \/ ResetUnlink
    \/ ResetRmdir \/ ResetFails \/ ResetTruncate

Next ==
    \/ \E c \in Capture : CaptureStep(c)
    \/ ResetStep
    \/ LogOther
    \/ Tick
    \/ Die

\* A goroutine that can take a step takes one sooner or later, and the context
\* of runCapture ends a docker command that does not return.  kubectl runs
\* without a deadline: nothing is assumed of CollectK8s.
Fairness ==
    \A c \in Capture : WF_vars(CollectDocker(c) \/ PreserveStep(c) \/ LogStep(c))

Spec == Init /\ [][Next]_vars /\ Fairness

----------------------------------------------------------------------------
(* Properties.                                                             *)

\* No other capture was given the directory of c.
Solo(c) == pkg[c] # NoDir /\ \A b \in Capture \ {c} : pkg[b] # pkg[c]

\* c has a directory of its own and no reset has deleted anything from it.
Undisturbed(c) == Solo(c) /\ pkg[c] \notin wiped

\* The manifest c built lists exactly the artifacts it collected, each with the
\* hash and the size of the bytes that are on disk.
Matches(c) ==
    \A f \in Artifact :
        LET stored == IF f \in got[c] THEN c ELSE Absent IN
        /\ file[pkg[c]][f] = stored
        /\ sha[c][f] = stored
        /\ size[c][f] = stored

\* A package with a complete manifest is complete: a manifest is the commit
\* record of Preserve, whether the capture ended well, failed, or was killed.
ManifestSound ==
    \A c \in Capture :
        Undisturbed(c) /\ file[pkg[c]][Manifest] = c => Matches(c)

\* CAPTURE_SUCCESS and EVIDENCE_STORED are never logged for evidence that is
\* not on disk with its manifest.
AuditTruthful ==
    \A c \in Capture :
        /\ Undisturbed(c)
        /\ {<<"CAPTURE_SUCCESS", c>>, <<"EVIDENCE_STORED", c>>} \intersect audit # {}
        => file[pkg[c]][Manifest] = c /\ Matches(c)

\* The entries that captures that have returned owe the audit file.
Owed(c) ==
    CASE phase[c] = "done"   -> {"CAPTURE_STARTED", "CAPTURE_SUCCESS", "EVIDENCE_STORED"}
      [] phase[c] = "failed" -> {"CAPTURE_FAILURE"}
      [] OTHER               -> {}

Due == UNION {Owed(c) \X {c} : c \in Capture}

\* No capture has two verdicts in the audit file.  As long as nobody resets the
\* store, every capture that returned has left its entries there, up to two for
\* each write that failed or fell short: the entry of that write, and the one
\* that went on behind it or, without its newline, was continued by the next.
OneVerdict ==
    /\ \A c \in Capture :
          ~ ({<<"CAPTURE_FAILURE", c>>, <<"CAPTURE_SUCCESS", c>>} \subseteq audit)
    /\ resets = 0 => Cardinality(Due \ audit) <= 2 * cut

\* A reset that finished without a warning has removed the packages of all
\* captures that were over when it began, and their audit entries.
ResetSweeps ==
    sweep = "finished" /\ ~ warned =>
        \A c \in stale :
            /\ Solo(c) => pkg[c] \notin exists
            /\ \A a \in AuditAction : <<a, c>> \notin audit

\* Once the manifest of an undisturbed package is written, nothing in the
\* package changes any more: only a reset may touch sealed evidence.
SealedForever ==
    [][\A c \in Capture :
          /\ pkg[c] # NoDir /\ file[pkg[c]][Manifest] = c
          /\ Undisturbed(c)'
          => file'[pkg[c]] = file[pkg[c]]]_vars

\* A docker capture that was started ends, with or without evidence, also when
\* its directory is deleted under it.
DockerCaptureEnds ==
    \A c \in Capture :
        SourceOf[c] = "docker" /\ phase[c] = "created" ~> phase[c] \in Over

(* The refinement of EvidenceStore: evidence is sealed as soon as a complete
   manifest is on disk, and spoilt once its directory is shared or wiped.    *)

EvidenceOf(c) ==
    IF pkg[c] # NoDir /\ ~ Undisturbed(c) THEN "spoilt"
    ELSE IF pkg[c] # NoDir /\ file[pkg[c]][Manifest] = c /\ Matches(c) THEN "sealed"
    ELSE "absent"

OutcomeOf(c) ==
    CASE phase[c] = "done"   -> "success"
      [] phase[c] = "failed" -> "failure"
      [] phase[c] = "lost"   -> "lost"
      [] OTHER               -> "pending"

Report ==
    CASE sweep = "idle"     -> "none"
      [] sweep = "sweeping" -> "running"
      [] OTHER              -> IF warned THEN "warned" ELSE "clean"

Store == INSTANCE EvidenceStore WITH
            place    <- pkg,
            evidence <- [c \in Capture |-> EvidenceOf(c)],
            outcome  <- [c \in Capture |-> OutcomeOf(c)],
            report   <- Report,
            doomed   <- stale

\* The system calls of captures, resets and crashes, in any order, amount to
\* what EvidenceStore says: evidence appears whole, is reported truly, and is
\* only ever spoilt by a shared directory or a reset.
StoreImplemented == Store!Spec

\* "Package is an open evidence package directory for one capture event"
\* (repository.go): what the manifest of a package lists was written by its
\* capture.  Not so when two captures meet in one directory.
PackageOfOneCapture ==
    \A c \in Capture :
        pkg[c] # NoDir /\ file[pkg[c]][Manifest] = c
            => \A f \in File : sha[c][f] \in {Absent, c}
============================================================================
