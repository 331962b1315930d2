CONSTANTS
    p1 = p1  p2 = p2  h1 = h1  w1 = w1  w2 = w2
    Payments = {p1, p2}
    Amount <- TwoPayments
    LinkAmount = 2
    Bill = 2
    AllowPartial = TRUE
    Captures = {"captured"}
    Partials = {}
    RefundEvents = TRUE
    LateCaptures = FALSE
    Handlers = {h1}
    Workers = {w1, w2}
    None = None
    MaxSeq = 1
    MaxAttempts = 1
    MaxReplays = 3
    MaxTrouble = 1
SPECIFICATION Spec
SYMMETRY Symmetric
INVARIANTS NeverDropped UnwoundOnce DeadBillIsFree
CHECK_DEADLOCK FALSE
