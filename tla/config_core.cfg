SPECIFICATION Spec
CONSTANTS
    NoModel = NoModel
    m1 = m1
    m2 = m2
    FlashModel = m2
    MaxPriority = 20
    Requests = {r1, r2}
    r1 = r1
    r2 = r2
    Names = {2}
    Models = {m1}
    Priorities = {5}
    Patches <- McPatches
    Served <- McServed
    Handmade <- McHandmade
    ExpertAlone = TRUE
    MaxArrivals = 3

SYMMETRY Symmetric
INVARIANTS
    TypeOK
    OneActive
    EnabledIsTested
    ActiveIsServed
PROPERTIES
    PublishedIsFrozen
CHECK_DEADLOCK FALSE
