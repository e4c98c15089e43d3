SPECIFICATION KubeSpec
CONSTANTS
    p1 = p1
    oom = oom
    loop = loop
    Pod <- MCPod
    Key <- MCKey
    PodOf <- MCPodOf
    MaxLives = 2
INVARIANTS
    OncePerLife
    NothingOverlooked
PROPERTIES
    ShownIsCaptured
CHECK_DEADLOCK FALSE
