CONSTANTS
    p1 = p1  p2 = p2  h1 = h1  w1 = w1  w2 = w2
    Payments = {p1}
    Amount <- OnePayment
    LinkAmount = 2
    Bill = 2
    AllowPartial = TRUE
    Captures = {"captured", "link_paid"}
    Partials = {1}
    RefundEvents = FALSE
    LateCaptures = FALSE
    Handlers = {h1}
    Workers = {w1, w2}
    None = None
    MaxSeq = 1
    MaxAttempts = 2
    MaxReplays = 3
    MaxTrouble = 0
SPECIFICATION Spec
INVARIANTS UnwoundOnce
CHECK_DEADLOCK FALSE
