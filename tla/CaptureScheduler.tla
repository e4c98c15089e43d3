-------------------------- MODULE CaptureScheduler --------------------------
(***************************************************************************)
(* From an accepted alert to its capture: the two capture modes.           *)
(*                                                                         *)
(* The handler of buildHandler (cmd/agent/main.go) reads                   *)
(* cfg.Schedule.Enabled without a lock and either starts a capture         *)
(* goroutine or puts the alert on a bounded channel; runScheduler polls    *)
(* every ten seconds and drains the channel one capture after the other.   *)
(* handleUpdateSchedule (internal/api/handlers.go) changes mode and        *)
(* interval at any moment.  main returns as soon as the webhook server     *)
(* stops and waits for nobody.  Time is counted in polls.                  *)
(***************************************************************************)
EXTENDS Naturals, Sequences

CONSTANTS
    Request,     \* accepted alerts
    Capacity,    \* of the channel captureQueue, 500 in the code
    Intervals,   \* capture intervals the settings may ask for, in polls
    Longest,     \* the longest of them
    NoJob        \* the scheduler runs no capture

\* handleUpdateSchedule refuses an interval shorter than one poll.
MinInterval == 1

ASSUME SchedulerAssumption ==
    /\ Capacity \in Nat \ {0}
    /\ Intervals \subseteq 0 .. Longest
    /\ Longest \in Nat \ {0} /\ Longest \in Intervals
    /\ NoJob \notin Request

VARIABLES
    enabled,    \* cfg.Schedule.Enabled
    interval,   \* cfg.Schedule.Interval(), in polls
    place,      \* where a request is
    captures,   \* how often runCapture was called for it
    queue,      \* captureQueue
    sched,      \* where runScheduler is
    job,        \* the request it is capturing
    ticked,     \* ticker.C holds a tick
    since,      \* polls since lastRun, counted up to Longest
    agent       \* "up", "stopping" once ctx is cancelled, "exited"

modeVars  == <<enabled, interval>>
schedVars == <<sched, job, since>>
vars      == <<modeVars, place, captures, queue, schedVars, ticked, agent>>

Place == {"outside", "received", "bound", "queued", "dropped", "running", "captured"}

TypeOK ==
    /\ enabled \in BOOLEAN
    /\ interval \in MinInterval .. Longest
    /\ place \in [Request -> Place]
    /\ captures \in [Request -> Nat]
    /\ queue \in Seq(Request)
    /\ sched \in {"waiting", "draining", "capturing", "stopped"}
    /\ job \in Request \union {NoJob}
    /\ ticked \in BOOLEAN
    /\ since \in 0 .. Longest
    /\ agent \in {"up", "stopping", "exited"}

\* lastRun starts one interval in the past.
Init ==
    /\ enabled \in BOOLEAN
    /\ interval \in Intervals \ {0}
    /\ place = [r \in Request |-> "outside"]
    /\ captures = [r \in Request |-> 0]
    /\ queue = <<>>
    /\ sched = "waiting"
    /\ job = NoJob
    /\ ticked = FALSE
    /\ since = interval
    /\ agent = "up"

Running == agent # "exited"

----------------------------------------------------------------------------
(* The handler, after deduplication.                                       *)

Move(r, p) == place' = [place EXCEPT ![r] = p]

\* The webhook accepts the alert and ALERT_RECEIVED is logged; requests on the
\* way are still served during the shutdown.
Receive(r) ==
    /\ Running
    /\ place[r] = "outside"
    /\ Move(r, "received")
    /\ UNCHANGED <<modeVars, captures, queue, schedVars, ticked, agent>>

\* if cfg.Schedule.Enabled: the mode is read here and acted upon later.
ReadScheduled(r) ==
    /\ Running /\ place[r] = "received" /\ enabled
    /\ Move(r, "bound")
    /\ UNCHANGED <<modeVars, captures, queue, schedVars, ticked, agent>>

\* Automated mode: go runCapture(...).
RunNow(r) ==
    /\ Running /\ place[r] = "received" /\ ~ enabled
    /\ Move(r, "running")
    /\ captures' = [captures EXCEPT ![r] = @ + 1]
    /\ UNCHANGED <<modeVars, queue, schedVars, ticked, agent>>

\* Mutant: the return after the select is missing.
EnqueueAndRun(r) ==
    /\ Running /\ place[r] = "bound"
    /\ Len(queue) < Capacity
    /\ queue' = Append(queue, r)
    /\ Move(r, "queued")
    /\ captures' = [captures EXCEPT ![r] = @ + 1]
    /\ UNCHANGED <<modeVars, schedVars, ticked, agent>>

Enqueue(r) ==
    /\ Running /\ place[r] = "bound"
    /\ Len(queue) < Capacity
    /\ queue' = Append(queue, r)
    /\ Move(r, "queued")
    /\ UNCHANGED <<modeVars, captures, schedVars, ticked, agent>>

\* The default branch of the select: a warning, nothing in the audit file.
Drop(r) ==
    /\ Running /\ place[r] = "bound"
    /\ Len(queue) >= Capacity
    /\ Move(r, "dropped")
    /\ UNCHANGED <<modeVars, captures, queue, schedVars, ticked, agent>>

\* The goroutine of automated mode is done, with evidence or with a failure.
FinishNow(r) ==
    /\ Running /\ place[r] = "running" /\ job # r
    /\ Move(r, "captured")
    /\ UNCHANGED <<modeVars, captures, queue, schedVars, ticked, agent>>

----------------------------------------------------------------------------
(* runScheduler.                                                           *)

\* Mutant: a return in place of the first continue.
WakeReturns ==
    /\ Running /\ sched = "waiting" /\ ticked
    /\ ticked' = FALSE
    /\ IF ~ enabled THEN sched' = "stopped" /\ since' = since
       ELSE IF since >= interval THEN sched' = "draining" /\ since' = 0
       ELSE UNCHANGED <<sched, since>>
    /\ UNCHANGED <<modeVars, place, captures, queue, job, agent>>

\* case <-ticker.C, with the two early continues.
Wake ==
    /\ Running /\ sched = "waiting" /\ ticked
    /\ ticked' = FALSE
    /\ IF enabled /\ since >= interval
       THEN sched' = "draining" /\ since' = 0
       ELSE UNCHANGED <<sched, since>>
    /\ UNCHANGED <<modeVars, place, captures, queue, job, agent>>

\* Mutant: the request stays in the queue while it is captured.
TakePeeks ==
    /\ Running /\ sched = "draining" /\ queue # <<>>
    /\ job' = Head(queue)
    /\ Move(Head(queue), "running")
    /\ captures' = [captures EXCEPT ![Head(queue)] = @ + 1]
    /\ sched' = "capturing"
    /\ UNCHANGED <<modeVars, queue, since, ticked, agent>>

\* case req := <-queue: the capture runs in the scheduler's own goroutine.
Take ==
    /\ Running /\ sched = "draining" /\ queue # <<>>
    /\ job' = Head(queue)
    /\ queue' = Tail(queue)
    /\ Move(Head(queue), "running")
    /\ captures' = [captures EXCEPT ![Head(queue)] = @ + 1]
    /\ sched' = "capturing"
    /\ UNCHANGED <<modeVars, since, ticked, agent>>

FinishJob ==
    /\ Running /\ sched = "capturing"
    /\ Move(job, "captured")
    /\ job' = NoJob
    /\ sched' = "draining"
    /\ UNCHANGED <<modeVars, captures, queue, since, ticked, agent>>

\* default: break DRAIN.
EndBatch ==
    /\ Running /\ sched = "draining" /\ queue = <<>>
    /\ sched' = "waiting"
    /\ UNCHANGED <<modeVars, place, captures, queue, job, since, ticked, agent>>

\* case <-ctx.Done(): looked at between batches only.
Stop ==
    /\ Running /\ sched = "waiting" /\ agent = "stopping"
    /\ sched' = "stopped"
    /\ UNCHANGED <<modeVars, place, captures, queue, job, since, ticked, agent>>

----------------------------------------------------------------------------
(* The settings, the clock and the end of the process.                     *)

\* Mutant: the interval is taken over unchecked.
UpdateUnchecked ==
    /\ Running
    /\ enabled' \in BOOLEAN
    /\ interval' \in Intervals
    /\ UNCHANGED <<place, captures, queue, schedVars, ticked, agent>>

UpdateSchedule ==
    /\ Running
    /\ enabled' \in BOOLEAN
    /\ \E i \in Intervals : interval' = IF i >= MinInterval THEN i ELSE interval
    /\ UNCHANGED <<place, captures, queue, schedVars, ticked, agent>>

\* Ten seconds pass; a tick that nobody fetched is not doubled.
Poll ==
    /\ Running
    /\ ticked' = TRUE
    /\ since' = IF since < Longest THEN since + 1 ELSE since
    /\ UNCHANGED <<modeVars, place, captures, queue, sched, job, agent>>

\* SIGINT or SIGTERM.
Signal ==
    /\ agent = "up"
    /\ agent' = "stopping"
    /\ UNCHANGED <<modeVars, place, captures, queue, schedVars, ticked>>

\* The webhook server has shut down or has failed, and main returns; goroutines
\* and queue are gone.
Exit ==
    /\ Running
    /\ agent' = "exited"
    /\ UNCHANGED <<modeVars, place, captures, queue, schedVars, ticked>>

----------------------------------------------------------------------------
Handler(r) == ReadScheduled(r) \/ RunNow(r) \/ Enqueue(r) \/ Drop(r) \/ FinishNow(r)

Scheduler == Wake \/ Take \/ FinishJob \/ EndBatch \/ Stop

Next ==
    \/ \E r \in Request : Receive(r) \/ Handler(r)
    \/ Scheduler
    \/ UpdateSchedule \/ Poll \/ Signal \/ Exit

\* Goroutines run, the clock goes on, and a docker capture ends (CapturePipeline,
\* DockerCaptureEnds).  Nobody has to send alerts, settings or a signal.
Spec ==
    /\ Init /\ [][Next]_vars
    /\ \A r \in Request : WF_vars(Handler(r))
    /\ WF_vars(Scheduler)
    /\ WF_vars(Poll)

----------------------------------------------------------------------------
(* Properties.                                                             *)

\* No alert is captured twice, by whichever mode and however often the mode
\* changes between its reading and the queueing.
CapturedOnce ==
    \A r \in Request :
        captures[r] = IF place[r] \in {"running", "captured"} THEN 1 ELSE 0

\* The channel holds every queued alert exactly once and nothing else.
QueueExact ==
    /\ Len(queue) <= Capacity
    /\ \A r \in Request :
          place[r] = "queued" <=> \E i \in 1 .. Len(queue) : queue[i] = r
    /\ \A i, j \in 1 .. Len(queue) : queue[i] = queue[j] => i = j

\* If schedule mode stays on and the agent up from some moment, every alert
\* that is queued gets its capture.
QueueServed ==
    <>[](enabled /\ agent = "up") =>
        \A r \in Request : place[r] = "queued" ~> place[r] = "captured"
=============================================================================
