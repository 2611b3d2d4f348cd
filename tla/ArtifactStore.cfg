SPECIFICATION Spec
CONSTANTS
    Processes = {p1, p2}
    Projects = {shop, fork}
    Runs = {r1, r2}
    Content = {"compatibility"}
    NoRun = NoRun
    Nobody = Nobody
    CommandLimit = 4
    LossLimit = 1
SYMMETRY Symmetric
INVARIANTS
    AcceptedIsWhole
    PublishedSurvives
    DescendantKeepsSource
    RemovedStaysRemoved
CHECK_DEADLOCK FALSE
