SPECIFICATION FairLabSpec
CONSTANTS
    Cap = 6
    Originals = {"bug", "fixed"}
    ForksFail = TRUE
    Killable = {"tool"}
INVARIANTS NobodyStumbles VerdictTrue
PROPERTIES Concludes NoOrphans
CHECK_DEADLOCK FALSE
