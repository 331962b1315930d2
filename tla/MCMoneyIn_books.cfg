CONSTANTS
    i1 = i1  i2 = i2  r1 = r1  r2 = r2  f1 = f1
    Receipts = {r1, r2}
    Invoices = {i1, i2}
    Refunds = {f1}
    Bill <- TwoBills
    ByDue <- Ordered
    Entries <- TypedIn
    Typed = {"advance", "named", "oldest"}
    MaxAmount = 3
SPECIFICATION Spec
SYMMETRY Symmetric
INVARIANTS TypeOK NeverOverspent NeverOverpaid VoidedIsEmpty BooksAgree SharesAddUp
PROPERTY ClosedPeriodIsFrozen
