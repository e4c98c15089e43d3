--------------------------- MODULE MCKubeWatcher ---------------------------
(* An instance of KubeWatcher for TLC: two anomalies of one pod (its container *)
(* was killed for memory and crashes again), with one restart of the agent.    *)
EXTENDS KubeWatcher

CONSTANTS p1, oom, loop

MCPod   == {p1}
MCKey   == {oom, loop}
MCPodOf == [k \in MCKey |-> p1]
============================================================================
