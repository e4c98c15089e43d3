# Container Forensic Preservation System: verification project

The agent receives security alerts about containers, captures volatile evidence
(inspect output, process list, logs, network state), writes it as a *package* (a
directory with a hash manifest) and keeps an audit log of what it did. A web UI
lists the evidence, changes settings and can reset everything. The agent is one Go
process with many goroutines; its shared state is the file system, one audit file,
one configuration struct, a channel and a few maps.

The question asked here: can evidence be lost, mixed up or misreported, and can
an alert be lost on its way to a capture?

## 1. Inventory

| Part | Source | State | Operations | Interacts with |
|---|---|---|---|---|
| Falco webhook | `internal/detector` | none per server | `handleAlert`: method, body, JSON, priority, container id; one goroutine per alert | handler |
| Deduplication | `cmd/agent/main.go` 33-63 | `lastSeen` map under a lock | `allow`, eviction | webhook goroutines |
| Capture modes | `cmd/agent/main.go` 190-231 | reads `cfg.Schedule.Enabled` unlocked | queue, drop or start a capture | settings API, channel |
| Scheduler | `cmd/agent/main.go` 236-273 | `lastRun`, ticker | poll, drain the channel, one capture after the other | channel, pipeline |
| Capture pipeline | `runCapture`, `runKubernetesCapture`, `internal/collector`, `internal/preserver`, `internal/repository` | a package directory, evidence in memory | create, collect, write, list, hash, seal, log | file system, audit, reset |
| Audit log | `internal/audit` | append-only file, lock | `Log` | everyone; truncated by reset |
| Reset | `internal/api/handlers.go` 517-564 | none | list, `RemoveAll` each, truncate the audit file | pipeline, by the file system only |
| Kubernetes watcher | `cmd/agent/k8s_watcher.go` | `seen` map | poll pods, capture new anomalies | pipeline |
| Container exit watcher | `cmd/agent/main.go` 278-359 | docker events stream | capture on exit, restart the stream | pipeline |
| Configuration | `internal/config`, settings handlers | one struct, one YAML file | load, update, save | read unlocked everywhere |
| Queries of the web API | `internal/api` | none | list, filter, page, read files, parse rules | files |
| Dashboard | `internal/webstatic/web/js` | tabs, timers, read-state in localStorage | fetch, render, acknowledge, save settings | web API |

Hard behaviours: captures that meet in one directory; a reset in the middle of a
capture; I/O errors at any call; the process ending with captures running (`main`
waits for nobody); clock readings and critical sections in different orders; mode
switches between reading and acting; a bounded queue; external commands that hang.
`PROJECT.json` lists each at its line under `hazards`, with the properties that are
aimed at it.

What makes each part correct:

- *pipeline*: a complete manifest means complete evidence; success is logged only
  for sealed evidence; no capture has two verdicts, and one that returned has one in the
  audit file unless a write to that file failed (`audit.go:70` ignores the result); sealed
  evidence does not change;
- *reset*: what was finished before it is gone afterwards, and what it did not
  touch is whole; a capture running beside it still ends;
- *intake*: at most one acceptance per rule, container and window; nothing
  suppressed without an accepted neighbour;
- *modes and scheduler*: no alert captured twice; the channel holds exactly the
  queued alerts; a queued alert is captured eventually;
- *audit log*: entries in the order of their calls, and a write that fails costs little;
- *collectors*: options that are in force, nothing lost that was collected, an end by the deadline;
- *watchers*: every anomaly captured once, no exit missed while the watcher is on;
- *configuration*: readers see settings somebody chose; the file survives a crash;
- *queries, dashboard*: whoever reads page after page misses nothing that can be read, although the data change meanwhile; what the tab shows agrees with itself, in whatever order answers come.

## 2. Modules

| Module | Models | EXTENDed by |
|---|---|---|
| `EvidenceStore` | abstract: what the store of packages promises | instantiated by `CapturePipeline` |
| `CapturePipeline` | captures, package store, audit file contents, reset, process death | `MCCapturePipeline`, `CapturePipeline_proofs` |
| `EvidenceCollection` | what a docker capture collects: options, commands, deadline, the settings handler beside it | `MCEvidenceCollection`, `EvidenceCollection_proofs` |
| `AlertIntake` | webhook filters and deduplication with real time | `MCAlertIntake`, `AlertIntake_proofs` |
| `CaptureScheduler` | capture modes, channel, scheduler, schedule settings, shutdown | `MCCaptureScheduler`, `CaptureScheduler_proofs` |
| `RuntimeConfig` | settings form, update handlers, saving, loading, restarts | `MCRuntimeConfig`, `RuntimeConfig_proofs` |
| `KubeWatcher` | pod polling, the `seen` map, process lists, kubectl failures, shutdown, restart | `MCKubeWatcher`, `Watchers_proofs` |
| `ContainerWatcher` | the docker events child, the scanner, pauses and restarts of the stream, the toggle | `MCContainerWatcher`, `Watchers_proofs` |
| `AuditLog` | the audit file: callers, lock, short writes, truncation, death | `AlertBrowser` |
| `AlertBrowser` | `handleAlerts` and the alert list of the tab, over `AuditLog` | `MCAlertBrowser`, `AlertBrowser_proofs` |
| `EvidenceBrowser` | `handleListEvidence`, `handleEvidence`, the package list, panel and file viewer of the tab | `MCEvidenceBrowser`, `EvidenceBrowser_proofs` |

The `MC...` modules only give constants their values. Operators whose comment begins
with "Mutant" change one definition the way a plausible bug would; they are used
in no specification, and each property of a passing run is violated by one of them.

### CapturePipeline

One capture `c` is one call of `runCapture` (`SourceOf[c] = "docker"`) or of
`runKubernetesCapture` (`"k8s"`). A step is one system call or the computation
between two:

| Action | Code |
|---|---|
| `Create`, `CreateFails` | `repository.Create`: a directory named by second and 12-character id; `MkdirAll` accepts an existing one |
| `LogAlert`, `LogStarted`, `LogSuccess`, `LogStored`, `LogFailure` | the audit entries, in the code's order (only the Kubernetes capture logs `ALERT_RECEIVED` itself) |
| `CollectDocker`, `CollectK8s` | which artifacts end up with content; a failing kubectl turns into text, a failing docker command into nothing |
| `WriteBegin`, `WriteEnd` | `os.WriteFile` of the artifacts in Preserve's order: open and truncate, then the bytes |
| `List`, `Hash`, `Stat` | `ListFiles`, then `HashFile` and `statFile` per file in directory order |
| `SealBegin`, `SealEnd` | the write of `manifest.json` |
| `CloseFails` | all of `manifest.json` is written, and closing it returns an error |
| `PreserveFails` | an error return of `Preserve`, possibly with half a file left behind |
| `ResetList` ... `ResetTruncate` | `handleReset`: list once, per directory read names, unlink, rmdir, at last truncate the audit file; a failure is a warning |
| `LogOther` | entries of other goroutines in the same audit file |
| `Tick`, `Die` | the clock; the end of the process at any point |

The bytes of a file are abstracted to their writer: `file[d][f]` is a capture,
`Empty`, `Garbage` (half written, or written over by two) or `Absent`. `sha[c][f]`
and `size[c][f]` are the contents behind the manifest entry. This is what the
properties tell apart: a hash agrees with the disk iff it was taken of the same
contents. An unlinked file stays writable for whoever holds it open (`Unlinked`).
`stale` and `wiped` are history variables; no guard reads them.

`Log` ignores the result of `Write`. An entry is written (`Written`), or its write fails or
falls short (`CutShort`): nothing of the line is in the file, or a part of
it, or all but its newline (`tail`). Behind a line without an end (`open`) the next entry is lost
too, since it continues that line, and takes a complete `tail` with it. The capture goes on as if
it had logged. `Faults` bounds how many resets and how many such writes one behaviour has.
`AuditLog` has the same file with the order of its lines and the lock.

Abstractions: `Create`'s clock reading and its mkdir are one step; resets do not
overlap each other; `RemoveAll` takes directories and names in any order; the death
is of the process, not of the machine, so that completed writes stay; what the lines of
the audit file say besides action and capture, and the lines of the process's own log, are left
out. The clock of `Create` is in seconds, as in the name; other time stamps are left out.

### EvidenceStore and the refinement

`EvidenceStore` knows no files, system calls or log lines: a capture is given a place,
its evidence is `absent`, `sealed` or `spoilt`, it has an outcome, and a reset runs
and reports. Evidence is sealed in one step, success is reported of sealed evidence only, failure
of any (also of sealed evidence: the manifest was written and closing it failed), and only a second capture at the same place or a reset
spoils it. `CapturePipeline` instantiates it as `Store`: evidence is `sealed` as soon as
the complete manifest is on disk and matches (`EvidenceOf`), `spoilt` once the directory
is shared or wiped; the outcome is the phase (`OutcomeOf`), the report that of the sweep
(`Report`). All writing, listing, hashing and logging steps are stutters. The
property `StoreImplemented` is `Store!Spec`.

### EvidenceCollection

The part of `runCapture` that `CapturePipeline` takes as the one step `CollectDocker`, which
leaves any set of artifacts. `ReadOption` reads one option, without the lock under which
`SetField` writes one; `Post` and `Posted` are the two ends of `handleUpdateCollector`.
`todo` holds the docker commands still to be run, in the order of `Collect`: the fallback of
the process list is skipped once docker top succeeded (`AfterSuccess`), the five network
commands are all run. `left` counts to the deadline; `Succeeds`, `Fails` and `Elapse` are
what a command may do until then, `Killed` what `exec.CommandContext` does from then on. `ran`
and `inForce` are history. `MaxLogLines` is left out: it is read like the other options and
only says how much docker logs prints.

### AlertIntake

`now` is the monotonic clock. `ReadClock` takes the reading of `allow` before the
lock, `Suppress` and `Accept` are the critical section, with the overwriting and the
eviction of the map. `MaxLag` bounds the time between the two (`Tick` waits for
goroutines at the bound). The code relies on such a bound: with a delay of more
than nine windows (45 s) an entry could be evicted while a duplicate waits for the lock.
`TimeAssumption` says so: `Window + MaxLag <= EvictFactor * Window`.
One life of the process; the map does not survive it.

### CaptureScheduler

Time is counted in polls of ten seconds. `place[r]` follows an accepted alert:
`ReadScheduled` is the unlocked reading of the mode, `Enqueue` and `Drop` the
`select` on the channel, `RunNow` automated mode; `Wake`, `Take`, `FinishJob`,
`EndBatch`, `Stop` are `runScheduler`. `since` is the time since `lastRun`, counted
up to the longest interval, beyond which no test tells the difference.
`UpdateSchedule` may change mode and interval at any moment. A capture is one
`running` period here; what happens in it is `CapturePipeline`.

### RuntimeConfig

`cfg` is the struct, `disk` the fields the file sets, `garbled` a file that does not
parse. A tab opens the form (`Open`), edits fields (`Edit`, each at most once, a bound
of the model), and posts one section (`Submit`); `Apply` takes `Server.mu` and sets the
fields, `SaveBegin` truncates the file, `SaveEnd` completes it, `SaveFails` and
`SaveCut` are the errors of `os.WriteFile`, all answered with ok (`Answer`). `Die` stops a
handler anywhere, `Restart` is `Load` over `defaultConfig`, which accepts an empty file,
`Refuse` the exit of `main` on a parse error. `Shown` says what a form displays: the
struct's value only if the key that `settings.js` asks for is the one `encoding/json`
produced. `damaged` and `granted` are history variables. An update sets its fields in one
step here; the capture that reads them one by one without the lock is in
`EvidenceCollection`, the mode in `CaptureScheduler`, the exit toggle in `ContainerWatcher`.

### KubeWatcher

A key of `seen` names pod, container and reason; `shown` is what the API server would
report now. `List` and `ListFails` are the two ends of `kubectl get pods`, `Look` one
condition of the walk with all of `captureIfNew`, in any order of the keys, `Wake`,
`StopPolling` and `Poll` the loop around it; `poller` is its place, `process` the agent's. `Change` lets the cluster do anything to a pod at any
moment. Of a capture only what depends on the watcher is here: `ReadProcesses` with the
test for the placeholder, and the verdict (`Store`, `Fail`); a failure does not clear the
map. What `ReadProcesses` finds (`procs`, `running`) documents the dead branch of section 3 and feeds no property. `Restart` begins with an empty map and may read another `kubernetes.enabled`.
`started` and `reported` are history. `MaxLives` bounds the restarts. The length of the
poll interval is left out: a tick may come at any time.

### ContainerWatcher

`fate[e]` follows the death of one container: `missed` without an open stream, `piped`
until its line is read, then `captured`, `skipped` (`ReadInternal`), `too long`
(`ReadOverlong`: the scanner gives up) or `lost` behind such a line. `Start` only makes
the child; `Connect` is when docker begins to report, `ChildEnds` the loss of the daemon
or the kill by `exec.CommandContext`. `Reaped` is `cmd.Wait`, with an error (pause, or the
end during a shutdown) or without one (at once round the loop). `Check` reads the toggle, and
nothing else does: a running stream goes on when it is switched off. `ReadDeath` captures
whenever a line can be parsed: `main.go:345` cuts the id to 12 characters without a test of its
length, and the ids that docker reports have 64.

### AuditLog

An entry is one call of `Log`: `Stamp` reads the clock before the lock, `Write` puts the line
at the end of the file under it, `WriteFails` is a write that is cut short and whose error is
ignored. `open` says that the last line has no newline: `Extended` lets the next entry
continue it, and neither parses (`Torn`), unless only the newline was missing, in which case
the entry can be read until another one continues it. `Truncate` is the last write of
`handleReset`; entries in `Long` have a line of more than 64 KB, which matters to who reads it
(`Overlong`; cut into pieces or joined with another line it may be either, `Pieces`, `Joined`); `O_APPEND` puts the next line at the new end. `Die` stops all calls, perhaps in
the middle of one write; entries not begun are those of the next process. `before`, `short`
and `erased` are history. The wall clock is taken not to step back.

### AlertBrowser

Extends `AuditLog`. A request reads the file line by line while it grows (`ReadLine`; after a
truncation it may land in the middle of a line), and answers (`ReadEnd`, with `Matching`, `Page`
and `Answer`) at the end of the file as it is then, behind a last line without an end, or at a line
of more than 64 KB, where the scanner stops for good; and it answers in the same way, with what it
has, when the file cannot be opened or read (`ReadBreaks`). The code decodes all lines first and
filters afterwards; since nobody sees the entries in between, `Parsed` applies the filter to
each entry as it is read. The tab sets `current` when it asks
(`Load`) and shows rows and total when any answer arrives (`Show`). `walk` is a history
variable: a reader who begins with the first page, goes on with the next ones, and has no other
request under way; its goal are the alerts `Visible` at its start, which are those before the first
overlong line, and it ends when one of them is lost to readers or a reading fails.

### EvidenceBrowser

A package is what the handlers can tell of it: its directory (`exists`), the names in it
(`files`), and the time in its manifest, `at`, 0 if none parses. Several captures may have one
directory (`PackageOf`), as in `PackageCollision.cfg`: `Create` accepts one that is there,
`SealBegin` empties the manifest of whoever sealed it before, and `SealEnd` leaves the new one, or a
mixture. `SealFails` is an error or the end of the process in between; a capture that stops
elsewhere just takes no step more. `ResetUnlink` and `ResetLeave` are `RemoveAll`, name by name, which may
give up. `Load` lists the directory (`Directories`: names in order, each once), `ReadItem` reads
one manifest after the other, `ShowPage` sorts, cuts out the page and shows it. What cannot be read
is answered as if it were not there: `LoadUnlisted` is an empty list after a failing `os.ReadDir`,
`ReadItemFails` a package without data; `LoadFails` is a request without an answer. The times in
the manifests, which have nanoseconds, are taken to differ and to follow the order in which `Preserve` began.
In the panel a request goes through `Stat`, the two halves of `ReadDetail` or `ReadFile`, and
the continuation in the tab. `Render` writes into the body of the panel and so removes the
file viewer in it; requests that hold on to the old one are `Detached` and write to nobody.
`ManifestOf` and `ListingOf` may find nothing although something is there. `scope` never changes: it
says which captures, how many requests of the panel and how many resets a behaviour has, and is
taken from the bound `Scope`. `walk` is history, as
above: it ends at a reading that failed and when a sealed package loses or changes its manifest.

## 3. Runs

| Run | Instance | Shows |
|---|---|---|
| `pipeline_collision` | 2 captures with one short id, 2 artifacts, 2 seconds, no reset and no failing write to the audit file, 520,089 states | `TypeOK`, `ManifestSound`, `AuditTruthful`, `SealedForever`, `StoreImplemented` hold |
| `pipeline_reset` | 2 captures with directories of their own, 1 artifact; 1 reset, or up to 2 writes to the audit file that fail; 367,222 states | `ManifestSound`, `ResetSweeps`, `OneVerdict`, `SealedForever`, `StoreImplemented`, `DockerCaptureEnds` hold |
| `package_collision` | as the first | `PackageOfOneCapture` is violated |
| `collection` | all 4 artifacts and 9 commands, timeouts of 1 and 2 ticks or missing, 3 kinds of update, any number of captures, 1,226,592 states | `OptionsInForce`, `BestEffort`, `CollectionEnds` hold |
| `intake` | 3 alerts that race (2 of one key), 3 that are refused or skipped; window 2, lag 2, clock to 6, 162,336 states | `TypeOK`, `WindowRespected`, `SuppressedJustified`, `AlertAnswered` hold |
| `scheduler` | 3 alerts, capacity 2, intervals of 1 and 2 polls and a refused one, 37,148 states | `TypeOK`, `CapturedOnce`, `QueueExact`, `QueueServed` hold |
| `config` | 2 tabs, 3 settings in 2 sections, one value refused, 1 crash, 72,763 states | `TypeOK`, `UpdatesKept`, `DiskFollowsMemory`, `UpdateAnswered` hold |
| `settings_form` | the same | `FormKeepsSettings` is violated |
| `kube_watcher` | 2 anomalies of 1 pod, 2 lives of the agent, 51,936 states | `OncePerLife`, `NothingOverlooked`, `ShownIsCaptured` hold |
| `container_watcher` | 4 deaths, 1 internal, 1 with an overlong line; any number of streams, 21,176 states | `DeathCapturedOnce`, `NoLineLeftBehind`, `StreamComesBack` hold |
| `alerts` | 3 of 4 alerts, of which 1 is over 64 KB, pages of 2, 4 filters, 2 requests, 1 truncation, ordinary alerts and requests symmetric, 3,719,850 states | `CallOrderKept`, `TornLineCostsOne`, `NewestFirst`, `AlertsAllShown` hold |
| `evidence` | 2 packages on pages of 1, 3 captures, 2 of them in one directory, 2 symmetric requests of the panel, 1 reset, in 4 scopes (below), 1,992,537 states | `PackagesAllShown`, `DetailComplete`, `ViewerBelongs`, `LoadingIsAwaited` hold |

Why the bounds are enough to be interesting. Two captures are enough to share a
directory, to overlay one another's file and to list one another's manifest; with two
artifacts one of them can be skipped by one capture and left by the other; two
seconds let them also keep apart. With one reset all its steps race with all steps of a
capture, and a capture can lie before, beside and after it. A window of 2 with a
lag of 2 lets readings and critical sections be reordered by up to a window, and an
eviction factor of 2 is the smallest `TimeAssumption` admits; the clock goes on for
three windows. Capacity 2 for three alerts gives a full queue. Two anomalies are enough for a walk that meets a known and a new one, and two lives for an
anomaly of the first to come back in the second. Four deaths put an ordinary line before and
behind an internal and an overlong one; daemon and toggle change without bound. Two tabs are
two handlers at one lock; with one crash every step of a save is interrupted and loaded back. Three
alerts fill one page and begin a second, so that one logged in between moves another across the
boundary, and a short write has lines before, in and after it; entries of other actions are passed
over as torn lines are, and so every entry is an alert. At most three of the four alerts are logged
in one behaviour (`MaxCalls`), so that the long one stands before, between or behind two others or
is not there. In `pipeline_reset` two failing writes let one entry be lost
by the write behind it and another by its missing newline; a reset and a failing write do not come
together there, but they do in the proof of `OneVerdict`. The run `evidence` has four scopes
(`MCScope`): the list beside all captures; the list beside a reset; two requests of the panel beside
captures of two packages; one request beside two captures in one directory and a reset. Two packages on pages of one, of which
one is sealed twice, move across the boundary of the list; two packages and their files are
enough for the panel to mix up, and it needs no reset for this; what one package is shown with is a
matter of that package, its captures, a reset and one request. Where panel and list are both there
the panel waits while a page is loaded: the two share only the store and the cards. In `collection` no update begins
while commands run, because the next capture reads the options anew. The safety properties are also
proved for all values (section 4).

Deadlock is not checked: every system here may come to rest when no alert, request
or signal arrives, the clock bound is reached or the process has ended.

Fairness. `CapturePipeline`: a goroutine that can take a step takes one, and the
context of `runCapture` ends docker commands (`exec.CommandContext` with
`cfg.Collector.Timeout()`). `CollectK8s` gets none: kubectl runs without a deadline.
Neither `Create`, nor the reset, nor the clock is forced. `AlertIntake`: the goroutine
of a handed alert runs; nobody must post alerts. `CaptureScheduler`: handler
goroutines, the scheduler and the clock go on; settings and signals are free.
`RuntimeConfig`: a handler goes on and gets the lock in its turn (strong fairness, since
the lock comes and goes; Go's mutexes do not starve a waiter); nobody must restart the agent.
`KubeWatcher`: the goroutine and the clock; nothing is assumed of kubectl, and
`ShownIsCaptured` has the premise that it neither hangs nor fails for ever. `ContainerWatcher`:
the goroutine (`Start` or `StartFails`, docker decides), and a docker client that connects to a
daemon that is up and leaves one that is gone while its output is read.
`QueueServed` has the premise that mode and agent stay as they are from some time on.
`EvidenceCollection`: the goroutine of the capture and the clock; every docker command may hang.
`CollectionEnds` is what `CapturePipeline` assumes as the fairness of `CollectDocker`. The two
browsers state no liveness and assume nothing.

### What the violations say

1. `PackageOfOneCapture` - `repository.go:22` and `:28` promise a new, empty
   directory per capture event. Two captures of one second with a common 12-character
   prefix (two rules for one container; pods of one deployment; two anomalies of one
   pod found in one poll) share it. `ManifestSound` is therefore stated for captures
   with a directory of their own.
2. `FormKeepsSettings` - `settings.js:75`, "Data Collection Settings (editable)". The
   server sends `Collector` and `Schedule`, the form reads `collector` and `schedule`,
   shows the defaults, and a save writes all of them over the real settings.

In the models without a run of their own, though a comment or a text of the interface says otherwise:

- `handlers.go:567`, "returns all ALERT_RECEIVED entries": the scanner (577-578) takes lines of
  64 KB, and nobody asks for its error; the webhook takes alerts of 1 MB (`falco.go:67`). Behind a
  longer line no alert is on any page until a reset, and the answers are 200. `AlertsAllShown` is
  therefore stated for the alerts before the first such line;
- `index.html:299`, over the exit setting, "Changes take effect immediately": the setting is read
  between streams only (`main.go:280`, `Check`); a running `docker events` goes on causing captures
  for as long as it lasts;
- `settings.js:152`, "alerts are queued and captured in batches at a fixed interval": after a switch
  to automated mode nobody empties the channel (`main.go:248`). `QueueServed` therefore has the
  premise that schedule mode stays on;
- `config.yaml:6`, the minimum priority: the lookup is by exact lower-case spelling and unknown
  spellings pass, so that `Notice` passes a minimum of `warning` (`MeetsMinPriority`);
- `k8s_watcher.go:296` prepares a text for a pod that does not run: the test in line 294 looks for
  `# kubectl exec:`, the helper in line 252 writes `# kubectl exec <pod>:`, and the branch is
  dead (`IsExecError`);
- `config.go:61`, the size before the oldest evidence is pruned: nothing prunes, and so no
  model has such a step.

What the code does and no document promises otherwise: an entry of the audit file is lost when its
write fails or falls short, perhaps with its neighbour, so that a capture that returned may have no
verdict there (on the full disk that made it fail, say); a capture whose manifest was written and
could not be closed is logged as failed with complete evidence on disk; an audit file, a base
directory, a manifest or a package directory that cannot be read is answered with 200 as empty or
missing, so that a sealed package may be shown with its manifest and no files; a second capture in
the directory of a sealed package moves it in the list, where a reader between two pages may miss
it; after a failed request the title of the detail panel goes on saying "Loading…" above the
error (`evidence.js:173`, `191-193`; `LoadingIsAwaited` is about the body and the file viewer); a reset truncates the audit file after it listed the packages, so
that a capture in between keeps its evidence without audit entries; a queued alert beyond
the capacity is dropped without an entry; an anomaly whose capture failed is not tried
again; deaths between two streams are missed; the options of one capture may be a mixture of two updates; with two
requests under way the tab may show the rows of one page under the number of another, or the
package asked for first. Outside the models: the badges of the tab compare totals with the total
last acknowledged in the same browser (`dashboard.js:194`), which a reset from another browser makes
stale.

## 4. Proofs

All theorems hold for every value of the constants that the named assumptions admit.
Every invariant and every action property of a passing run, and the refinement, is a
theorem; most of them needed a stronger invariant, named below.

`CapturePipeline_proofs` (from `MappingAssumption`, `OrderAssumption`,
`BoundAssumption`, `SentinelAssumption`): `TypeCorrect`, `ManifestIsSound`,
`SealedStays`, `AuditIsTruthful`, `VerdictIsUnique`, `ResetIsComplete`,
`StoreIsImplemented`. None of the properties is inductive by itself. `PackageInv`
strengthens `ManifestSound`: every file in an undisturbed directory is its capture's or
torn by it (`Owned`), open files and loops agree with the phase (`Local`), and for each
phase what is written, hashed and sized so far (`Stage`); it says why the listing equals
the collected artifacts when the loop begins and why nothing changes afterwards.
`AuditInv` ties the entries to the phases that logged them (`Verdict`) and keeps the account of
the lost ones (`Balance`): what is missing of the entries that captures were told to log, and the one
on an unfinished line, which the next entry may still take with it, are together at most two for
each failing write; `LogBalances` is the step of an entry, `QuietBalances` all others. `SweepInv` ties a reset's
progress to the captures that were over when it began. `SealedStays` is an action property
from `PackageInv` and its primed version. The proof goes by action: a step of `c` on its
own directory (`OwnStep`), a step of another capture, which cannot reach it
(`OtherCapture`), a reset, which either leaves it or takes it out of the premise
(`ResetKeeps`), and death (`DieKeeps`).

`StoreIsImplemented` is the refinement `Spec => Store!Spec`. The abstract evidence is
"the complete manifest is on disk and matches"; by `PackageInv` that is the same as
"the manifest is there and is its capture's" (`EvidenceIs`), and only `SealEnd` and `CloseFails` can
make this true in an undisturbed directory (`OnlyManifestSeals`). So every step that gives
out no directory and wipes none leaves the abstract evidence alone (`EvidenceKept`).
`PlaceInv` adds that the directories that exist, are swept or were wiped are those that
were given out. One lemma per action of `EvidenceStore` shows which steps implement it;
the rest are stutters.

`AlertIntake_proofs` (from `AlertAssumption`, `TimeAssumption`): `TypeCorrect`,
`WindowIsRespected`, `SuppressionIsJustified`. The invariant `DedupInv` says that
readings lie in the past and not further back than `MaxLag` while they wait
(`Readings`), that an entry is the reading of an accepted alert (`EntryOwned`) and is the
latest of its key, or was forgotten after `Keep` (`EntryLatest`). The assumption
on time is used exactly where a forgotten entry must be too old to matter.

`CaptureScheduler_proofs` (from `SchedulerAssumption`): `TypeCorrect`,
`AlertsCapturedOnce`, `QueueIsExact`, from `ChannelInv` (places, counters, the channel and
the scheduler's job agree).

`RuntimeConfig_proofs` (from `FieldAssumption`): `TypeCorrect`, `UpdatesAreKept`,
`DiskIsCurrent`. `ConfigInv` says that exactly the handler between `Apply` and its answer
holds the lock (`LockHeld`), that the struct is then one update ahead of what was
granted (`StructAhead`), and that the file has what was granted unless a save is under way
or went wrong (`FileCurrent`); the last one is what makes a restart harmless.

`EvidenceCollection_proofs` (from `CollectionAssumption`): `OptionsAreInForce`,
`CollectionIsBestEffort`. `OptionsInv` says that while a capture reads, the present value of each
option is among those in force; then whatever it reads next is, too. `CollectInv` accounts for
each of the nine commands: it is not wanted, waits in `todo`, was spared because docker top was
enough, or its end is in `ran` and its output in `evidence` (`Accounted`). For this the commands
that wait must be a queue without repetition in which ps stands right behind top (`Queued`,
`QueuesJoin`, `QueueGoesOn`), and ps must not wait once top succeeded.

`Watchers_proofs`, of `ContainerWatcher` (from `DeathAssumption`): `DeathsCapturedOnce`,
`LinesAreRead`. The lemmas `AppendHolds` and `TakeHolds` say what a queue without repetitions gains
and loses; `ChildWatched` is the strengthening: a child that still writes is being read, or the
scan ended at an overlong line. Without it a death could be lost to an abandoned child.

`Watchers_proofs`, of `KubeWatcher` (from `WatcherAssumption`): `AnomaliesCapturedOnce`,
`NoneOverlooked`. With the types, both properties together are inductive (`WatchInv`): a list is
replaced only when it was used up, and the map and the counters change together.

`AlertBrowser_proofs` (from `EntryAssumption`, `BrowserAssumption`): `CallOrderIsKept`,
`TornLineIsCheap`, `NewestOnTop`, `WalkShowsAll`. `LogInv` adds to `CallOrderKept` that an entry in
the file has begun (`LinesBegun`: a time stamp taken now changes the history of no line) and that
only returned calls are in a history (`HistoryReturned`: the entry being written is in none).
`LossInv` closes the account of `TornLineCostsOne` one step earlier: an unfinished line is a loss to
come, so that `Cardinality(Swallowed) + 1 <= Cardinality(short)` while `open`; and what stands on
such a line is of no call that succeeded (`OpenLineFailed`), so that continuing it costs at most the
entry that continues it.
`NewestOnTop` needs the order not only of the table but of the answers on their way and of what each
request has found, and that nothing still to be read belongs before what was found (`OrderInv`).
`WalkShowsAll` is a counting argument. An alert `g` of the walk's goal stands on the page whose number
is the count of matching alerts behind it in the file, divided by the page size; the count only grows.
`WalkInv` keeps for each `g` not yet shown that this count is at least `walk.next * PageSize`
(`Ahead`), that a request under way has passed no overlong line and found as many as it passed
(`FoundFollows`), which lets it end only behind `g`, and that an answer has `g` on its page or leaves as many behind it as the next page begins with (`RowsFollow`).
So `g` is pushed back by new alerts but never onto a page that was shown.

`EvidenceBrowser_proofs` (from `BrowserAssumption`): `ViewerIsOfPanel`, `SpinnerEnds`,
`DetailIsComplete`, `WalkShowsAll`. `StoreInv` says what stands behind a manifest: the artifacts of its
directory, unless a reset was at work (`FilesOK`), and the time of one capture, which no other has
(`TimesOK`). `PanelInv` ties what each request may still write to what the
panel shows: an attached file request is one of the package in the panel (`Belongs`), an answer that
saw the manifest carries all files or none (`Complete`; files only go by a reset, `FilesKept`), and loading is shown only while a request that holds
on to the panel is under way. `WalkShowsAll` counts again: a sealed package `g` not yet shown has at
least `walk.next * PageSize` newer ones. While a listing is read only the newer ones count that are in
it already, or are still to be read (`ListedNewer`); the sorted items have exactly those before `g`
(`PlaceOfSealed`), so that it is on this page or behind it.

Only model-checked: `DockerCaptureEnds`, `AlertAnswered`, `QueueServed`, `UpdateAnswered`,
`ShownIsCaptured`, `StreamComesBack`, `CollectionEnds` (liveness under fairness is out of the
prover's reach), and the two violations.

## 5. Not modelled, and the plan

Proofs that could still be added:

1. what a docker capture leaves behind in `EvidenceCollection` is an outcome `CollectDocker` of
   `CapturePipeline` allows, as a refinement of that one step;
2. of the liveness properties the part without fairness: a measure that every step of a capture
   makes smaller and no other step makes larger (`DockerCaptureEnds`, `CollectionEnds`).

Not modelled, with the reason:

- status, statistics, metrics, containers and rules of the web API: each answer is computed from
  one reading of the process, the files or docker, and nothing depends on it; the rules parser is
  string processing. Routing and CORS headers (`server.go`) likewise;
- timers, read-state and badges of the tab: state of one browser that never reaches the agent;
- the composition of intake, scheduler and pipeline in one module: they meet in single calls
  (`allow` before the mode is read, a job that runs `runCapture`), and the product of their
  states is beyond the checker at any instance where each still does something of interest;
- a wall clock that steps back, which would let the order of the audit file disagree with its
  time stamps by more than overlapping calls;
- the fallback of the audit log to stdout, which nobody reads back;
- the text of docker and kubectl output, HTTP and HTML, style sheets, deployment files: input,
  output or layout without state that the properties above depend on.
