SPECIFICATION ChatSpec
CONSTANTS
    Requests = {r1, r2, r3}
    Pages = {p1}
    Convs = {c1, c2}
    Texts = {{"search"}, {"yes", "no"}, {"yes"}}
    HistoryLimit = 2
    MissLimit = 2
    MaxOpen = 2
    None = None
INVARIANTS
    ChatInv
    ConsentBehindOn
    PageShowsRows
CHECK_DEADLOCK FALSE
