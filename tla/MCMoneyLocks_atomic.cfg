CONSTANTS
    r1 = r1  r2 = r2  i1 = i1  i2 = i2  t1 = t1  t2 = t2
    Receipts = {r1, r2}
    Invoices = {i1, i2}
    Txns = {t1, t2}
    Cash <- TwoReceipts
    Bill <- TwoInvoices
    Oldest <- OneFirst
    None = None
SPECIFICATION Spec
SYMMETRY Symmetric
INVARIANTS LedgerSound
PROPERTIES Atomic
