------------------------- MODULE EvidenceCollection -------------------------
(***************************************************************************)
(* What one docker capture collects: the part of runCapture between the    *)
(* creation of the package and Preserve, with internal/collector and the   *)
(* settings handler that changes the options at the same time.             *)
(*                                                                         *)
(* runCapture reads the options one by one without the lock under which    *)
(* handleUpdateCollector writes them one by one.  Collect then runs docker *)
(* commands one after the other under one deadline: a command that hangs is*)
(* killed there, and those behind it fail at once.  CapturePipeline takes  *)
(* all of this as one step that leaves any set of artifacts.               *)
(*                                                                         *)
(* Left out: what the commands print, and MaxLogLines, which is read like  *)
(* the other options and only says how much docker logs prints.            *)
(***************************************************************************)
EXTENDS Naturals, Sequences, FiniteSets, SequencesExt

CONSTANTS
    Form,           \* the updates posted: [Option -> value or Unset]
    Unset,          \* a field the update does not have
    Loaded,         \* the options the configuration file may give at start
    DefaultTimeout  \* the 30 seconds of Timeout, in ticks

Artifact == {"metadata", "process", "logs", "network"}

Option == Artifact \union {"timeout"}

ASSUME CollectionAssumption ==
    /\ DefaultTimeout \in Nat \ {0}
    /\ \A f \in Form \union Loaded : DOMAIN f = Option

VARIABLES
    options,    \* cfg.Collector
    form,       \* the update handleUpdateCollector applies, or Unset
    applied,    \* how many of its fields it has looked at
    stage,      \* of the capture: "idle", "reading", "collecting", "done"
    opts,       \* the options runCapture has read, in the order of ReadOrder
    todo,       \* the docker commands before Collect, the first one running
    left,       \* ticks to the deadline
    evidence,   \* each artifact: the commands whose output it holds
    ran,        \* history: how each command of this capture ended
    inForce     \* history: the values of each option while it was being read

updateVars  == <<options, form, applied>>
captureVars == <<stage, opts, todo, left, evidence>>
vars        == <<updateVars, captureVars, ran, inForce>>

\* The docker commands of each collect function, in the order they are tried.
collectMetadata    == <<"inspect">>
collectProcessList == <<"top", "ps">>
collectLogs        == <<"logs">>
collectNetwork     == <<"ss", "netstat", "tcp", "tcp6", "udp">>

Attempts(a) ==
    CASE a = "metadata" -> collectMetadata
      [] a = "process"  -> collectProcessList
      [] a = "logs"     -> collectLogs
      [] a = "network"  -> collectNetwork

Command == UNION {ToSet(Attempts(a)) : a \in Artifact}

ArtifactOf(c) == CHOOSE a \in Artifact : c \in ToSet(Attempts(a))

NoOutput == [a \in Artifact |-> {}]

NoValues == [o \in Option |-> {}]

TypeOK ==
    /\ DOMAIN options = Option
    /\ form \in Form \union {Unset}
    /\ applied \in 0 .. 5
    /\ stage \in {"idle", "reading", "collecting", "done"}
    /\ Len(opts) <= Cardinality(Option)
    /\ todo \in Seq(Command)
    /\ left \in Nat
    /\ evidence \in [Artifact -> SUBSET Command]
    /\ ran \in [Command -> {"not", "ok", "failed"}]

Init ==
    /\ options \in Loaded
    /\ form = Unset
    /\ applied = 0
    /\ stage = "idle"
    /\ opts = <<>>
    /\ todo = <<>>
    /\ left = 0
    /\ evidence = NoOutput
    /\ ran = [c \in Command |-> "not"]
    /\ inForce = NoValues

----------------------------------------------------------------------------
(* handleUpdateCollector, under Server.mu.                                 *)

WriteOrder == <<"process", "logs", "network", "metadata", "timeout">>

\* Bound: no update begins while commands run; the next capture is to see it.
Post(f) ==
    /\ form = Unset /\ stage # "collecting"
    /\ form' = f
    /\ applied' = 0
    /\ UNCHANGED <<options, captureVars, ran, inForce>>

\* One field: set if the update has it; a timeout must be positive.
SetField ==
    /\ form # Unset /\ applied < Len(WriteOrder)
    /\ LET o == WriteOrder[applied + 1]
           sets == form[o] # Unset /\ (o = "timeout" => form[o] > 0) IN
       /\ options' = IF sets THEN [options EXCEPT ![o] = form[o]] ELSE options
       /\ inForce' = IF stage = "reading"
                     THEN [inForce EXCEPT ![o] = @ \union {options'[o]}]
                     ELSE inForce
    /\ applied' = applied + 1
    /\ UNCHANGED <<form, captureVars, ran>>

\* The file is saved (RuntimeConfig) and the lock released.
Posted ==
    /\ form # Unset /\ applied = Len(WriteOrder)
    /\ form' = Unset
    /\ applied' = 0
    /\ UNCHANGED <<options, captureVars, ran, inForce>>

----------------------------------------------------------------------------
(* runCapture reads the options.                                           *)

ReadOrder == <<"process", "logs", "network", "metadata", "timeout">>

\* Mutant: the options of the last capture are used again.
StartCached ==
    /\ stage \in {"idle", "done"}
    /\ stage' = "reading"
    /\ opts' = opts
    /\ todo' = <<>> /\ left' = 0
    /\ evidence' = NoOutput
    /\ ran' = [c \in Command |-> "not"]
    /\ inForce' = [o \in Option |-> {options[o]}]
    /\ UNCHANGED updateVars

\* The next capture has its package and is about to read the options.
Start ==
    /\ stage \in {"idle", "done"}
    /\ stage' = "reading"
    /\ opts' = <<>>
    /\ todo' = <<>> /\ left' = 0
    /\ evidence' = NoOutput
    /\ ran' = [c \in Command |-> "not"]
    /\ inForce' = [o \in Option |-> {options[o]}]
    /\ UNCHANGED updateVars

\* Options are read one at a time, in whatever state of an update.
ReadOption ==
    /\ stage = "reading" /\ Len(opts) < Len(ReadOrder)
    /\ opts' = Append(opts, options[ReadOrder[Len(opts) + 1]])
    /\ UNCHANGED <<updateVars, stage, todo, left, evidence, ran, inForce>>

\* What was read of option o.
Read(o) == opts[CHOOSE i \in DOMAIN ReadOrder : ReadOrder[i] = o]

Wanted == {a \in Artifact : Read(a)}

\* CollectorConfig.Timeout.
Timeout == IF Read("timeout") <= 0 THEN DefaultTimeout ELSE Read("timeout")

----------------------------------------------------------------------------
(* Collect, under context.WithTimeout.                                     *)

\* The commands for artifact a, if it is wanted.
Planned(a) == IF a \in Wanted THEN Attempts(a) ELSE <<>>

BeginCollect ==
    /\ stage = "reading" /\ Len(opts) = Len(ReadOrder)
    /\ stage' = "collecting"
    /\ todo' = Planned("metadata") \o Planned("process")
                 \o Planned("logs") \o Planned("network")
    /\ left' = Timeout
    /\ inForce' = NoValues
    /\ UNCHANGED <<updateVars, opts, evidence, ran>>

\* collectProcessList is content with docker top; collectNetwork combines the
\* output of all its commands.
AfterSuccess(s) == IF Head(s) = "top" THEN Tail(Tail(s)) ELSE Tail(s)

\* runCmd: the command ends with status 0 in time, and its output is kept.
Succeeds ==
    /\ stage = "collecting" /\ todo # <<>> /\ left > 0
    /\ evidence' = [evidence EXCEPT ![ArtifactOf(Head(todo))] = @ \union {Head(todo)}]
    /\ ran' = [ran EXCEPT ![Head(todo)] = "ok"]
    /\ todo' = AfterSuccess(todo)
    /\ UNCHANGED <<updateVars, stage, opts, left, inForce>>

\* Mutant: Collect returns at its first error.
FailsForAll ==
    /\ stage = "collecting" /\ todo # <<>>
    /\ ran' = [ran EXCEPT ![Head(todo)] = "failed"]
    /\ todo' = IF Len(todo) > 1 /\ ArtifactOf(todo[2]) = ArtifactOf(Head(todo))
               THEN Tail(todo) ELSE <<>>
    /\ UNCHANGED <<updateVars, stage, opts, left, evidence, inForce>>

\* The command fails: the container is gone, it has no such command, docker does
\* not answer.  What it printed is dropped, the next command is tried.
Fails ==
    /\ stage = "collecting" /\ todo # <<>> /\ left > 0
    /\ ran' = [ran EXCEPT ![Head(todo)] = "failed"]
    /\ todo' = Tail(todo)
    /\ UNCHANGED <<updateVars, stage, opts, left, evidence, inForce>>

\* Mutant: docker exec is started without the context.
KilledUnlessExec ==
    /\ stage = "collecting" /\ todo # <<>> /\ left = 0
    /\ Head(todo) # "ps"
    /\ ran' = [ran EXCEPT ![Head(todo)] = "failed"]
    /\ todo' = Tail(todo)
    /\ UNCHANGED <<updateVars, stage, opts, left, evidence, inForce>>

\* exec.CommandContext after the deadline: the running command is killed, and
\* the next one is not even started.
Killed ==
    /\ stage = "collecting" /\ todo # <<>> /\ left = 0
    /\ ran' = [ran EXCEPT ![Head(todo)] = "failed"]
    /\ todo' = Tail(todo)
    /\ UNCHANGED <<updateVars, stage, opts, left, evidence, inForce>>

\* Time passes while a command runs.
Elapse ==
    /\ stage = "collecting" /\ todo # <<>> /\ left > 0
    /\ left' = left - 1
    /\ UNCHANGED <<updateVars, stage, opts, todo, evidence, ran, inForce>>

\* Collect returns what there is, with an error or without one; runCapture goes
\* on to Preserve in both cases.
Return ==
    /\ stage = "collecting" /\ todo = <<>>
    /\ stage' = "done"
    /\ UNCHANGED <<updateVars, opts, todo, left, evidence, ran, inForce>>

----------------------------------------------------------------------------
(* The specification.                                                      *)

Update == (\E f \in Form : Post(f)) \/ SetField \/ Posted

Reading == ReadOption \/ BeginCollect

Collecting == Killed \/ Return

Next ==
    \/ Update \/ Start \/ Reading \/ Collecting
    \/ Succeeds \/ Fails \/ Elapse

\* The goroutine of the capture is scheduled and time passes; nothing is assumed
\* of the docker commands, which may all hang.
Spec ==
    /\ Init /\ [][Next]_vars
    /\ WF_vars(Reading) /\ WF_vars(Collecting) /\ WF_vars(Elapse)

----------------------------------------------------------------------------
(* Properties.                                                             *)

\* "Read collector options fresh each time so runtime Settings changes take
\* effect" (main.go): each option used was in force at some moment after the
\* capture began, although reader and writer share no lock.  The combination
\* of them need not have been.
OptionsInForce ==
    stage = "reading" =>
        \A i \in DOMAIN opts : opts[i] \in inForce[ReadOrder[i]]

\* "Return partial evidence alongside errors" (collector.go): whatever fails,
\* hangs or runs out of time, a capture keeps the output of every command that
\* ended well, and lacks an artifact it was to collect only if all ways to get
\* it were tried and failed.  What is not wanted is not collected.
BestEffort ==
    stage = "done" =>
        \A a \in Artifact :
            /\ evidence[a] = {c \in ToSet(Attempts(a)) : ran[c] = "ok"}
            /\ evidence[a] = {} =>
                  IF a \in Wanted THEN \A c \in ToSet(Attempts(a)) : ran[c] = "failed"
                  ELSE \A c \in ToSet(Attempts(a)) : ran[c] = "not"

\* A capture that was begun comes to an end, even if every docker command hangs.
\* This is the fairness CapturePipeline assumes of CollectDocker.
CollectionEnds == stage = "reading" ~> stage = "done"
=============================================================================
