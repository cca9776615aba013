SPECIFICATION Spec
CONSTANTS
    w1 = w1
    w2 = w2
    seeder = seeder
    Workers = {w1, w2}
    Seeder = seeder
    MaxId = 2
    MaxSaves = 3
    LikeTargets = {1}
    SeedRows = 2
    SeedSaves = 1
    FriendSplit = 1
    VenueOwners = 1
SYMMETRY Symmetry
INVARIANT CountBound PhantomsAreCascades SerialExact
CHECK_DEADLOCK FALSE
