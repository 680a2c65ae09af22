\* Two replicas, one login or refresh in flight, one family.
SPECIFICATION Spec
CONSTANTS
    Replicas = {r1, r2}
    Families = {f1}
    Slots = {s1}
    TTL = 2
    MaxTokens = 2
SYMMETRY Symmetry
INVARIANTS
    TypeOK
    ToldReplicaRejects
    PublishedReachesListeners
    UnrevokedAccepted
