---------------------------- MODULE AlertIntake ----------------------------
(***************************************************************************)
(* From the Falco webhook to an accepted alert.                            *)
(*                                                                         *)
(* handleAlert (internal/detector/falco.go) filters a request and starts   *)
(* one goroutine per alert; its handler (buildHandler in cmd/agent/main.go)*)
(* asks alertDedup.allow whether the same rule fired for the same container*)
(* within the window.  allow reads the clock before it takes the lock, so  *)
(* that the order of the readings and the order of the critical sections   *)
(* may differ.  One life of the process is modelled; the map is in memory. *)
(***************************************************************************)
EXTENDS Integers

CONSTANTS
    Alert,        \* the requests posted to /alert
    Malformed,    \* those with another method, an unreadable or an invalid body
    Key,          \* containerID|rule
    KeyOf,        \* the key of an alert, NoContainer without a container id
    NoContainer,
    Severity,     \* how severe the alert is, 0 (debug) to 7 (emergency)
    LowerCase,    \* the alerts whose priority is spelled as in priorityRank
    MinRank,      \* the rank of min_priority, NoRank for an unknown spelling
    NoRank,
    Window,       \* dedupWindow, 5 s in the code
    EvictFactor,  \* entries are kept for this many windows, 10 in the code
    MaxLag,       \* assumed bound on the time from time.Now() to d.mu.Lock()
    MaxTime,      \* bound of the model on the clock
    NoTime        \* no entry in the map, no reading taken

ASSUME AlertAssumption ==
    /\ Malformed \subseteq Alert
    /\ KeyOf \in [Alert -> Key \union {NoContainer}]
    /\ NoContainer \notin Key
    /\ Severity \in [Alert -> 0 .. 7]
    /\ LowerCase \subseteq Alert
    /\ MinRank \in (0 .. 7) \union {NoRank}
    /\ NoRank \notin 0 .. 7

\* How long the map keeps an entry.
Keep == EvictFactor * Window

\* An entry must outlive the window by the longest delay of a goroutine.
ASSUME TimeAssumption ==
    /\ Window \in Nat \ {0} /\ EvictFactor \in Nat /\ MaxLag \in Nat /\ MaxTime \in Nat
    /\ Window + MaxLag <= Keep
    /\ NoTime \notin Int

VARIABLES
    now,       \* the monotonic clock
    stage,     \* where the request or its goroutine is
    stamp,     \* the clock reading of allow
    lastSeen   \* alertDedup.lastSeen

vars == <<now, stage, stamp, lastSeen>>

Stage == {"unsent", "bad", "skipped", "handed", "timed", "accepted", "suppressed", "logged"}

Time == 0 .. MaxTime

TypeOK ==
    /\ now \in Time
    /\ stage \in [Alert -> Stage]
    /\ stamp \in [Alert -> Time \union {NoTime}]
    /\ lastSeen \in [Key -> Time \union {NoTime}]

Init ==
    /\ now = 0
    /\ stage = [a \in Alert |-> "unsent"]
    /\ stamp = [a \in Alert |-> NoTime]
    /\ lastSeen = [k \in Key |-> NoTime]

----------------------------------------------------------------------------
\* The lookup is by exact spelling, and a failed one lets the alert through.
MeetsMinPriority(a) ==
    a \in LowerCase /\ MinRank # NoRank => Severity[a] >= MinRank

\* 405 or 400.
RejectRequest(a) ==
    /\ stage[a] = "unsent"
    /\ a \in Malformed
    /\ stage' = [stage EXCEPT ![a] = "bad"]
    /\ UNCHANGED <<now, stamp, lastSeen>>

\* 200: below the minimum priority, or from no container.
SkipAlert(a) ==
    /\ stage[a] = "unsent"
    /\ a \notin Malformed
    /\ ~ MeetsMinPriority(a) \/ KeyOf[a] = NoContainer
    /\ stage' = [stage EXCEPT ![a] = "skipped"]
    /\ UNCHANGED <<now, stamp, lastSeen>>

\* 202: go s.handler(...).
HandOn(a) ==
    /\ stage[a] = "unsent"
    /\ a \notin Malformed
    /\ MeetsMinPriority(a) /\ KeyOf[a] # NoContainer
    /\ stage' = [stage EXCEPT ![a] = "handed"]
    /\ UNCHANGED <<now, stamp, lastSeen>>

\* Mutant: the expiry of the entry is kept in place of its beginning.
ReadExpiry(a) ==
    /\ stage[a] = "handed"
    /\ stamp' = [stamp EXCEPT ![a] = now + Window]
    /\ stage' = [stage EXCEPT ![a] = "timed"]
    /\ UNCHANGED <<now, lastSeen>>

\* now := time.Now(), outside the lock.
ReadClock(a) ==
    /\ stage[a] = "handed"
    /\ stamp' = [stamp EXCEPT ![a] = now]
    /\ stage' = [stage EXCEPT ![a] = "timed"]
    /\ UNCHANGED <<now, lastSeen>>

\* Mutants: the last instant of the window counts as inside it; any entry of
\* the map suppresses.
IsDuplicateAtEnd(a) ==
    /\ lastSeen[KeyOf[a]] # NoTime
    /\ stamp[a] - lastSeen[KeyOf[a]] <= Window

IsDuplicateEver(a) ==
    lastSeen[KeyOf[a]] # NoTime

\* The test under the lock; a negative difference counts as a duplicate.
IsDuplicate(a) ==
    /\ lastSeen[KeyOf[a]] # NoTime
    /\ stamp[a] - lastSeen[KeyOf[a]] < Window

Suppress(a) ==
    /\ stage[a] = "timed"
    /\ IsDuplicate(a)
    /\ stage' = [stage EXCEPT ![a] = "suppressed"]
    /\ UNCHANGED <<now, stamp, lastSeen>>

\* Mutant: entries are evicted as soon as their window has passed.
NotedForOneWindow(k, key, t) ==
    IF k = key THEN t
    ELSE IF lastSeen[k] # NoTime /\ t - lastSeen[k] > Window THEN NoTime
    ELSE lastSeen[k]

\* The entry of k in the map after an alert read at t was noted under key.
Noted(k, key, t) ==
    IF k = key THEN t
    ELSE IF lastSeen[k] # NoTime /\ t - lastSeen[k] > Keep THEN NoTime
    ELSE lastSeen[k]

Accept(a) ==
    /\ stage[a] = "timed"
    /\ ~ IsDuplicate(a)
    /\ lastSeen' = [k \in Key |-> Noted(k, KeyOf[a], stamp[a])]
    /\ stage' = [stage EXCEPT ![a] = "accepted"]
    /\ UNCHANGED <<now, stamp>>

\* ALERT_RECEIVED; queueing or capturing is the business of CaptureScheduler.
LogReceived(a) ==
    /\ stage[a] = "accepted"
    /\ stage' = [stage EXCEPT ![a] = "logged"]
    /\ UNCHANGED <<now, stamp, lastSeen>>

\* The assumption on scheduling: no goroutine is delayed by more than MaxLag
\* between its clock reading and its critical section.
Tick ==
    /\ now < MaxTime
    /\ \A a \in Alert : stage[a] = "timed" => now - stamp[a] < MaxLag
    /\ now' = now + 1
    /\ UNCHANGED <<stage, stamp, lastSeen>>

Handler(a) == ReadClock(a) \/ Suppress(a) \/ Accept(a) \/ LogReceived(a)

Next ==
    \/ \E a \in Alert : RejectRequest(a) \/ SkipAlert(a) \/ HandOn(a) \/ Handler(a)
    \/ Tick

\* A runnable goroutine runs; nobody has to post an alert.
Spec == Init /\ [][Next]_vars /\ \A a \in Alert : WF_vars(Handler(a))

----------------------------------------------------------------------------
(* Properties.                                                             *)

Accepted == {a \in Alert : stage[a] \in {"accepted", "logged"}}

SameKey(a, b) == KeyOf[a] = KeyOf[b]

\* "produce only one alert and one evidence capture": two accepted alerts of
\* one rule and container were read at least a window apart, in whatever order
\* their goroutines took the lock and whatever was evicted in between.
WindowRespected ==
    \A a, b \in Accepted :
        a # b /\ SameKey(a, b) => stamp[a] - stamp[b] >= Window
                                    \/ stamp[b] - stamp[a] >= Window

\* Deduplication loses nothing: a suppressed alert was read close to an
\* accepted one of the same rule and container.
NearAccepted(a) ==
    \E b \in Accepted :
        /\ SameKey(a, b)
        /\ stamp[a] - stamp[b] < Window
        /\ stamp[b] - stamp[a] <= MaxLag

SuppressedJustified ==
    \A a \in Alert : stage[a] = "suppressed" => NearAccepted(a)

\* Every alert handed to the handler is answered: it, or one of the same rule
\* and container next to it, is accepted.
AlertAnswered ==
    \A a \in Alert : stage[a] = "handed" ~> stamp[a] # NoTime /\ NearAccepted(a)
============================================================================
