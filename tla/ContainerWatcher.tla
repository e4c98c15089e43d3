-------------------------- MODULE ContainerWatcher --------------------------
(***************************************************************************)
(* The container exit watcher: runContainerWatcher and watchDockerEvents   *)
(* of cmd/agent/main.go.                                                   *)
(*                                                                         *)
(* A child process "docker events" writes one line per container that      *)
(* dies; a goroutine reads the lines and starts a capture for each.  The   *)
(* child ends when the daemon does, and is started again after a pause.    *)
(* The stream begins with the child: what dies before is not reported.     *)
(***************************************************************************)
EXTENDS Naturals, Sequences

CONSTANTS
    Death,       \* deaths of containers, one line of docker events each
    Internal,    \* those of the agent's own containers, forensic-agent and falco
    Overlong     \* those whose line exceeds the 64 KB of bufio.Scanner

ASSUME DeathAssumption == Internal \subseteq Death /\ Overlong \subseteq Death

VARIABLES
    onExit,     \* cfg.Collector.CaptureOnExit
    agent,      \* "up", "stopping" once ctx is cancelled, "exited"
    watcher,    \* where runContainerWatcher is
    child,      \* docker events: "none", "connecting", "open", "ended"
    daemon,     \* the docker daemon is up
    pipe,       \* lines written and not yet read
    fate,       \* what became of a death
    captures    \* how often runCapture was called for it

envVars  == <<onExit, agent, daemon>>
lineVars == <<pipe, fate, captures>>
vars     == <<envVars, watcher, child, lineVars>>

\* A death is pending until it happens, then missed if no stream is open.
Fate == {"pending", "missed", "piped", "skipped", "captured", "too long", "lost"}

TypeOK ==
    /\ onExit \in BOOLEAN
    /\ agent \in {"up", "stopping", "exited"}
    /\ watcher \in {"checking", "sleeping", "starting", "reading", "reaping", "pausing", "stopped"}
    /\ child \in {"none", "connecting", "open", "ended"}
    /\ daemon \in BOOLEAN
    /\ pipe \in Seq(Death)
    /\ fate \in [Death -> Fate]
    /\ captures \in [Death -> Nat]

Init ==
    /\ onExit \in BOOLEAN
    /\ agent = "up"
    /\ watcher = "checking"
    /\ child = "none"
    /\ daemon \in BOOLEAN
    /\ pipe = <<>>
    /\ fate = [e \in Death |-> "pending"]
    /\ captures = [e \in Death |-> 0]

Running == agent # "exited"

----------------------------------------------------------------------------
(* runContainerWatcher.                                                    *)

Goto(w) == watcher' = w

\* if !cfg.Collector.CaptureOnExit, read without a lock.
Check ==
    /\ Running /\ watcher = "checking"
    /\ Goto(IF onExit THEN "starting" ELSE "sleeping")
    /\ UNCHANGED <<envVars, child, lineVars>>

\* The ten seconds of the disabled watcher, or the five after an error, are over.
Continue ==
    /\ Running /\ watcher \in {"sleeping", "pausing"}
    /\ Goto("checking")
    /\ UNCHANGED <<envVars, child, lineVars>>

\* case <-ctx.Done() of either select.
Stop ==
    /\ agent = "stopping" /\ watcher \in {"sleeping", "pausing"}
    /\ Goto("stopped")
    /\ UNCHANGED <<envVars, child, lineVars>>

\* What runContainerWatcher does with an error of watchDockerEvents.
AfterError == Goto(IF agent = "up" THEN "pausing" ELSE "stopped")

----------------------------------------------------------------------------
(* watchDockerEvents.                                                      *)

\* cmd.Start refuses a cancelled context.
Start ==
    /\ agent = "up" /\ watcher = "starting"
    /\ Goto("reading")
    /\ child' = "connecting"
    /\ UNCHANGED <<envVars, lineVars>>

\* The pipe or the process cannot be created, or the context is cancelled.
StartFails ==
    /\ Running /\ watcher = "starting"
    /\ AfterError
    /\ UNCHANGED <<envVars, child, lineVars>>

\* Mutant: the line is looked at and not consumed.
ReadAgain ==
    /\ Running /\ watcher = "reading" /\ pipe # <<>> /\ Head(pipe) \notin Internal \union Overlong
    /\ captures[Head(pipe)] < 2
    /\ fate' = [fate EXCEPT ![Head(pipe)] = "captured"]
    /\ captures' = [captures EXCEPT ![Head(pipe)] = @ + 1]
    /\ UNCHANGED <<envVars, watcher, child, pipe>>

\* ALERT_RECEIVED and go runCapture(...), past the deduplication of the webhook.
\* containerID[:12] is in range: the ids of docker events have 64 characters.
ReadDeath ==
    /\ Running /\ watcher = "reading" /\ pipe # <<>>
    /\ Head(pipe) \notin Internal \union Overlong
    /\ pipe' = Tail(pipe)
    /\ fate' = [fate EXCEPT ![Head(pipe)] = "captured"]
    /\ captures' = [captures EXCEPT ![Head(pipe)] = @ + 1]
    /\ UNCHANGED <<envVars, watcher, child>>

\* continue, as for a line that does not parse.
ReadInternal ==
    /\ Running /\ watcher = "reading" /\ pipe # <<>>
    /\ Head(pipe) \in Internal \ Overlong
    /\ pipe' = Tail(pipe)
    /\ fate' = [fate EXCEPT ![Head(pipe)] = "skipped"]
    /\ UNCHANGED <<envVars, watcher, child, captures>>

\* Scan returns false: what is behind the line is never read.  The child goes on,
\* and Wait waits for it.
ReadOverlong ==
    /\ Running /\ watcher = "reading" /\ pipe # <<>>
    /\ Head(pipe) \in Overlong
    /\ fate' = [e \in Death |->
                   IF e = Head(pipe) THEN "too long"
                   ELSE IF fate[e] = "piped" THEN "lost" ELSE fate[e]]
    /\ pipe' = <<>>
    /\ Goto("reaping")
    /\ UNCHANGED <<envVars, child, captures>>

\* Mutant: the end of the child ends the loop, whatever is left in the pipe.
EofEarly ==
    /\ Running /\ watcher = "reading" /\ child = "ended"
    /\ Goto("reaping")
    /\ UNCHANGED <<envVars, child, lineVars>>

\* Scan returns false at the end of the child's output.
Eof ==
    /\ Running /\ watcher = "reading" /\ child = "ended" /\ pipe = <<>>
    /\ Goto("reaping")
    /\ UNCHANGED <<envVars, child, lineVars>>

\* Mutant: any end of the stream ends the watcher.
ReapedForGood ==
    /\ Running /\ watcher = "reaping" /\ child = "ended"
    /\ child' = "none"
    /\ Goto("stopped")
    /\ UNCHANGED <<envVars, lineVars>>

\* cmd.Wait: an error, or nil if the child left with status 0, and then there is
\* neither a pause nor a look at ctx.
Reaped ==
    /\ Running /\ watcher = "reaping" /\ child = "ended"
    /\ child' = "none"
    /\ AfterError \/ Goto("checking")
    /\ UNCHANGED <<envVars, lineVars>>

----------------------------------------------------------------------------
(* docker.                                                                 *)

Connect ==
    /\ Running /\ daemon /\ child = "connecting"
    /\ child' = "open"
    /\ UNCHANGED <<envVars, watcher, lineVars>>

\* The client has lost its daemon or found none, or ctx was cancelled and
\* exec.CommandContext kills it.
ChildEnds ==
    /\ Running /\ child \in {"connecting", "open"}
    /\ ~ daemon \/ agent = "stopping"
    /\ child' = "ended"
    /\ UNCHANGED <<envVars, watcher, lineVars>>

\* A container dies.  Of a scan that is over the line stays in the pipe for good.
Die(e) ==
    /\ fate[e] = "pending"
    /\ IF Running /\ daemon /\ child = "open"
       THEN IF watcher = "reading"
            THEN pipe' = Append(pipe, e) /\ fate' = [fate EXCEPT ![e] = "piped"]
            ELSE pipe' = pipe /\ fate' = [fate EXCEPT ![e] = "lost"]
       ELSE pipe' = pipe /\ fate' = [fate EXCEPT ![e] = "missed"]
    /\ UNCHANGED <<envVars, watcher, child, captures>>

DaemonChanges ==
    /\ daemon' = ~ daemon
    /\ UNCHANGED <<onExit, agent, watcher, child, lineVars>>

----------------------------------------------------------------------------
(* The rest of the agent.                                                  *)

\* handleUpdateCollector.
Toggle ==
    /\ Running
    /\ onExit' = ~ onExit
    /\ UNCHANGED <<agent, daemon, watcher, child, lineVars>>

Signal ==
    /\ agent = "up"
    /\ agent' = "stopping"
    /\ UNCHANGED <<onExit, daemon, watcher, child, lineVars>>

\* main returns or the process dies.
Exit ==
    /\ Running
    /\ agent' = "exited"
    /\ UNCHANGED <<onExit, daemon, watcher, child, lineVars>>

----------------------------------------------------------------------------
Read == ReadDeath \/ ReadInternal \/ ReadOverlong \/ Eof

Watcher == Check \/ Continue \/ Stop \/ Start \/ StartFails \/ Read \/ Reaped

Next ==
    \/ Watcher
    \/ Connect \/ ChildEnds \/ (\E e \in Death : Die(e)) \/ DaemonChanges
    \/ Toggle \/ Signal \/ Exit

\* The goroutine goes on, docker connects to a daemon that is up, and leaves one that
\* is gone if somebody reads its output: behind an overlong line it is stuck in
\* its write.
Spec ==
    /\ Init /\ [][Next]_vars
    /\ WF_vars(Watcher)
    /\ WF_vars(Connect)
    /\ WF_vars(ChildEnds /\ watcher = "reading")

----------------------------------------------------------------------------
(* Properties.                                                             *)

\* A death leads to one capture at most, over all streams, and that of an internal
\* container to none.
DeathCapturedOnce ==
    \A e \in Death :
        /\ captures[e] = IF fate[e] = "captured" THEN 1 ELSE 0
        /\ fate[e] = "captured" => e \notin Internal

\* What docker wrote is read: the pipe holds each line that has no answer yet once,
\* nobody leaves it before it is empty, and a line is lost only behind an overlong one.
NoLineLeftBehind ==
    /\ \A e \in Death : fate[e] = "piped" <=> \E i \in 1 .. Len(pipe) : pipe[i] = e
    /\ \A i, j \in 1 .. Len(pipe) : pipe[i] = pipe[j] => i = j
    /\ pipe # <<>> => watcher = "reading"
    /\ (\E e \in Death : fate[e] = "lost") => \E e \in Overlong : fate[e] = "too long"

\* Nothing but the end of streams stands in the way of the watcher.
WatcherCanRun ==
    /\ <>[](onExit /\ agent = "up" /\ daemon)
    /\ <>[][~ StartFails]_vars
    /\ [](\A e \in Death : fate[e] # "too long")

\* With the watcher switched on and the daemon up from some moment, and unless an
\* overlong line was met or docker cannot be started, there is a stream in the end,
\* whatever ended the ones before.
StreamComesBack == WatcherCanRun => <>[](watcher = "reading" /\ child = "open")
=============================================================================
