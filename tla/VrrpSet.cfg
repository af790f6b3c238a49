SPECIFICATION Spec
CONSTANTS
    Projects = {p1, p2, p3}
    Subnets = {s1, s2}
    MaxSetId = 2
    HandleVrid = TRUE
SYMMETRY Symmetry
INVARIANTS
    TypeOK
    OneSetIdPerProject
    PairSharesOneSet
    SharedSetIdsWereRaced
