---------------------------- MODULE KubeWatcher ----------------------------
(***************************************************************************)
(* The Kubernetes pod watcher (cmd/agent/k8s_watcher.go).                  *)
(*                                                                         *)
(* One goroutine lists the pods with kubectl, now and at every tick, walks *)
(* through the list and starts a capture goroutine for every anomaly it    *)
(* sees for the first time.  What it has seen is kept in memory, under the *)
(* name of pod, container and reason.  The cluster changes at any moment,  *)
(* also between the listing and the capture; kubectl may fail or hang.     *)
(*                                                                         *)
(* The names are other ones than those of ContainerWatcher, so that one    *)
(* module of proofs can extend both.                                       *)
(***************************************************************************)
EXTENDS Naturals, Sequences

CONSTANTS
    Pod,
    Key,         \* anomalies: "<namespace>/<pod>/<container>:<reason>"
    PodOf,       \* the pod an anomaly belongs to
    MaxLives     \* bound: starts of the agent

ASSUME WatcherAssumption ==
    /\ PodOf \in [Key -> Pod]
    /\ MaxLives \in Nat \ {0}

VARIABLES
    running,    \* pods that kubectl exec can enter
    shown,      \* anomalies in the status the API server keeps
    enabled,    \* cfg.Kubernetes.Enabled, which only a restart changes
    process,    \* "up", "stopping" once ctx is cancelled, "exited"
    lives,      \* starts of the agent so far
    poller,     \* where runKubernetesWatcher is
    ticked,     \* ticker.C holds a tick
    list,       \* anomalies of the list in hand that were not looked at
    seen,       \* keys of the map that are set
    capture,    \* where the capture goroutine of an anomaly is
    procs,      \* ev.ProcessList of that capture
    started,    \* history: captures started in this life
    reported    \* history: anomalies of all lists of this life

clusterVars == <<running, shown>>
processVars == <<enabled, process, lives>>
pollerVars  == <<poller, ticked, list, seen>>
captureVars == <<capture, procs>>
history     == <<started, reported>>
kubeVars    == <<clusterVars, processVars, pollerVars, captureVars, history>>

KubeTypeOK ==
    /\ running \subseteq Pod
    /\ shown \subseteq Key
    /\ enabled \in BOOLEAN
    /\ process \in {"up", "stopping", "exited"}
    /\ lives \in 1 .. MaxLives
    /\ poller \in {"listing", "walking", "waiting", "stopped"}
    /\ ticked \in BOOLEAN
    /\ list \subseteq Key
    /\ seen \subseteq Key
    /\ capture \in [Key -> {"none", "begun", "read", "stored", "failed"}]
    /\ procs \in [Key -> {"none", "table", "error", "placeholder"}]
    /\ started \in [Key -> Nat]
    /\ reported \subseteq Key

\* The first check runs at once; with kubernetes.enabled = false there is none.
FirstStep(on) == IF on THEN "listing" ELSE "stopped"

KubeInit ==
    /\ running \in SUBSET Pod
    /\ shown \in SUBSET Key
    /\ enabled \in BOOLEAN
    /\ process = "up"
    /\ lives = 1
    /\ poller = FirstStep(enabled)
    /\ ticked = FALSE
    /\ list = {} /\ seen = {}
    /\ capture = [k \in Key |-> "none"]
    /\ procs = [k \in Key |-> "none"]
    /\ started = [k \in Key |-> 0]
    /\ reported = {}

Alive == process # "exited"

----------------------------------------------------------------------------
(* The cluster.                                                            *)

\* A container of the pod crashes, restarts, or the pod is replaced by another
\* of its name: its anomalies and whether it can be entered change.
Change(p) ==
    /\ running' \in {running \ {p}, running \union {p}}
    /\ \E now \in SUBSET {k \in Key : PodOf[k] = p} :
          shown' = {k \in shown : PodOf[k] # p} \union now
    /\ UNCHANGED <<processVars, pollerVars, captureVars, history>>

----------------------------------------------------------------------------
(* checkKubernetesPods and the loop around it.                             *)

\* kubectl get pods answers; a cancelled context would have killed it.
List ==
    /\ process = "up" /\ poller = "listing"
    /\ list' = shown
    /\ reported' = reported \union shown
    /\ poller' = "walking"
    /\ UNCHANGED <<clusterVars, processVars, ticked, seen, captureVars, started>>

\* Mutant: the watcher gives up where the code waits for the next tick.
ListGivesUp ==
    /\ Alive /\ poller = "listing"
    /\ poller' = "stopped"
    /\ UNCHANGED <<clusterVars, processVars, ticked, list, seen, captureVars, history>>

\* kubectl fails, or its output does not parse.
ListFails ==
    /\ Alive /\ poller = "listing"
    /\ poller' = "waiting"
    /\ UNCHANGED <<clusterVars, processVars, ticked, list, seen, captureVars, history>>

\* go runKubernetesCapture(...)
Begin(k) ==
    /\ capture' = [capture EXCEPT ![k] = "begun"]
    /\ started' = [started EXCEPT ![k] = @ + 1]

\* Mutant: the key is set when the capture is done, not when it begins.
LookUnmarked(k) ==
    /\ Alive /\ poller = "walking" /\ k \in list
    /\ list' = list \ {k}
    /\ IF k \in seen
       THEN UNCHANGED <<seen, capture, started>>
       ELSE Begin(k) /\ UNCHANGED seen
    /\ UNCHANGED <<clusterVars, processVars, poller, ticked, procs, reported>>

\* Mutant: a key that is in the map ends the walk.
LookReturns(k) ==
    /\ Alive /\ poller = "walking" /\ k \in list
    /\ IF k \in seen
       THEN list' = {} /\ UNCHANGED <<seen, capture, started>>
       ELSE list' = list \ {k} /\ seen' = seen \union {k} /\ Begin(k)
    /\ UNCHANGED <<clusterVars, processVars, poller, ticked, procs, reported>>

\* One of the four conditions of the walk holds: captureIfNew.  The walk does
\* not look at ctx.
Look(k) ==
    /\ Alive /\ poller = "walking" /\ k \in list
    /\ list' = list \ {k}
    /\ IF k \in seen
       THEN UNCHANGED <<seen, capture, started>>
       ELSE seen' = seen \union {k} /\ Begin(k)
    /\ UNCHANGED <<clusterVars, processVars, poller, ticked, procs, reported>>

EndWalk ==
    /\ Alive /\ poller = "walking" /\ list = {}
    /\ poller' = "waiting"
    /\ UNCHANGED <<clusterVars, processVars, ticked, list, seen, captureVars, history>>

\* case <-ticker.C; a tick that came during the walk is still there.
Wake ==
    /\ Alive /\ poller = "waiting" /\ ticked
    /\ ticked' = FALSE
    /\ poller' = "listing"
    /\ UNCHANGED <<clusterVars, processVars, list, seen, captureVars, history>>

\* case <-ctx.Done(); with a tick at hand the select chooses either.
StopPolling ==
    /\ process = "stopping" /\ poller = "waiting"
    /\ poller' = "stopped"
    /\ UNCHANGED <<clusterVars, processVars, ticked, list, seen, captureVars, history>>

Poll ==
    /\ Alive /\ ~ ticked
    /\ ticked' = TRUE
    /\ UNCHANGED <<clusterVars, processVars, poller, list, seen, captureVars, history>>

----------------------------------------------------------------------------
(* runKubernetesCapture: the process list and the verdict.  Its other      *)
(* artifacts and its files are in CapturePipeline.                         *)

\* The text kctl returns for a failing call begins with "# kubectl", the first two
\* arguments and a colon.
ErrorText(args) == SubSeq(args, 1, 2)

\* The prefix "# kubectl exec:": the colon follows the first argument.
IsExecError(text) == text = <<"exec">>

ProcessList(p, entered) ==
    IF entered THEN "table"
    ELSE IF IsExecError(ErrorText(<<"exec", p, "ps">>)) THEN "placeholder"
    ELSE "error"

\* kubectl exec ... ps aux: works only in a running pod, fails for other reasons too.
ReadProcesses(k) ==
    /\ Alive /\ capture[k] = "begun"
    /\ \E entered \in BOOLEAN :
          /\ entered => PodOf[k] \in running /\ process = "up"
          /\ procs' = [procs EXCEPT ![k] = ProcessList(PodOf[k], entered)]
    /\ capture' = [capture EXCEPT ![k] = "read"]
    /\ UNCHANGED <<clusterVars, processVars, pollerVars, history>>

Store(k) ==
    /\ Alive /\ capture[k] = "read"
    /\ capture' = [capture EXCEPT ![k] = "stored"]
    /\ UNCHANGED <<clusterVars, processVars, pollerVars, procs, history>>

\* The package cannot be created, or Preserve returns an error.
Fail(k) ==
    /\ Alive /\ capture[k] \in {"begun", "read"}
    /\ capture' = [capture EXCEPT ![k] = "failed"]
    /\ UNCHANGED <<clusterVars, processVars, pollerVars, procs, history>>

----------------------------------------------------------------------------
(* The process.                                                            *)

Interrupt ==
    /\ process = "up"
    /\ process' = "stopping"
    /\ UNCHANGED <<clusterVars, enabled, lives, pollerVars, captureVars, history>>

\* main returns or the process dies: goroutines and map are gone.
EndProcess ==
    /\ Alive
    /\ process' = "exited"
    /\ UNCHANGED <<clusterVars, enabled, lives, pollerVars, captureVars, history>>

Restart ==
    /\ process = "exited" /\ lives < MaxLives
    /\ process' = "up" /\ lives' = lives + 1
    /\ enabled' \in BOOLEAN
    /\ poller' = FirstStep(enabled')
    /\ ticked' = FALSE
    /\ list' = {} /\ seen' = {} /\ reported' = {}
    /\ capture' = [k \in Key |-> "none"]
    /\ procs' = [k \in Key |-> "none"]
    /\ started' = [k \in Key |-> 0]
    /\ UNCHANGED clusterVars

----------------------------------------------------------------------------
Poller == List \/ ListFails \/ (\E k \in Key : Look(k)) \/ EndWalk \/ Wake \/ StopPolling

Capture(k) == ReadProcesses(k) \/ Store(k) \/ Fail(k)

KubeNext ==
    \/ \E p \in Pod : Change(p)
    \/ Poller
    \/ \E k \in Key : Capture(k)
    \/ Poll \/ Interrupt \/ EndProcess \/ Restart

\* The goroutine and the clock go on.  Nothing is assumed of kubectl: the contexts
\* of its calls have no deadline, so that List and ListFails, and ReadProcesses,
\* may stay away for ever.
KubeSpec ==
    /\ KubeInit /\ [][KubeNext]_kubeVars
    /\ WF_kubeVars((\E k \in Key : Look(k)) \/ EndWalk \/ Wake)
    /\ WF_kubeVars(Poll)

----------------------------------------------------------------------------
(* Properties.                                                             *)

\* In one life of the agent an anomaly is captured once, however often it is
\* reported and however long its first capture takes, and a key in the map
\* always has its capture.
OncePerLife ==
    \A k \in Key : started[k] = IF k \in seen THEN 1 ELSE 0

\* No anomaly of a list is passed over: what kubectl ever reported was captured or
\* is still ahead in the list in hand, whatever failed, hung or was known before.
NothingOverlooked ==
    /\ reported \subseteq seen \union list
    /\ poller \in {"waiting", "listing"} => list = {}

\* kubectl does not hang for ever and does not fail every time.
KubectlAnswers ==
    /\ []<>(poller # "listing")
    /\ []<>(poller = "listing") => []<><<List>>_kubeVars

\* While the watcher is enabled and kubectl answers, an anomaly that stays in the
\* pod's status is captured in the life of the agent that goes on, whatever an
\* earlier life did with it and however often kubectl failed.
ShownIsCaptured ==
    KubectlAnswers =>
        \A k \in Key :
            <>[](enabled /\ process = "up" /\ k \in shown) => <>[](started[k] = 1)
=============================================================================
