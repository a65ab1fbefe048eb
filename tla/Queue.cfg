SPECIFICATION FairSpec
CONSTANTS
    Replicas = {r1, r2, r3, r4}
    Hopeless = {r4}
    Batch = 2
    ScrubBatch = 2
    MaxDamage = 3
    MaxFailures = 1
PROPERTIES
    DamageIsFound
    FoundIsRepaired
