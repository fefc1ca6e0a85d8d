SPECIFICATION ChangeSpec
CONSTANTS
    Callers = {p1, p2}
    Branches = {"main", "draft"}
    Main = "main"
    FieldEvents = {"visit"}
    Databases = {"postgresql"}
    MaxCommits = 3
    Comparisons = {"cmp"}
    Candidates = {"k1", "k2"}
    Actors = {a1, a2}
    ReviewKeys = {r1, r2, r3}
    Outcomes = {"accepted", "rejected"}
SYMMETRY Symmetry
PROPERTIES HistoryKept
CHECK_DEADLOCK FALSE
