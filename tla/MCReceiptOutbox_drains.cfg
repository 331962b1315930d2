CONSTANTS
    r1 = r1  r2 = r2  r3 = r3  k1 = k1  k2 = k2  t1 = t1  t2 = t2  body = body
    Requests = {r1, r2}
    Keys = {k1, k2}
    Tabs = {t1}
    Prints = {body}
    Blank = Blank
    NoRequest = NoRequest
    Kind <- ReceiptKind
    Style <- ReceiptStyle
    Body <- ReceiptBody
    StoreMayFail = FALSE
    SlowKeys = {}
    Crashes = FALSE
    MaxEffects = 2
    Losses = TRUE
    Overtaking = FALSE
    Switches = FALSE
SPECIFICATION FairOutbox
INVARIANTS AttentionMeansUnposted
PROPERTIES QueueDrains KeySettles
CHECK_DEADLOCK FALSE
