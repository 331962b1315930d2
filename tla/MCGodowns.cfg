CONSTANTS
    o1 = o1  o2 = o2  shop = shop  branch = branch  road = road  k1 = k1  t1 = t1  t2 = t2
    Orders = {o1, o2}
    MaxChallans = 2
    MaxInvoices = 2
    Clerks = {k1}
    Transfers = {t1}
    Godowns = {shop, branch, road}
    Shop = shop
    Transit = road
    Policy = "BLOCK"
    MaxQty = 2
    Opening <- Shelf
    MaxStock = 3
    Ordered <- TwoAndOne
    StockOnChallan = {TRUE, FALSE}
    NoOrder = NoOrder
    NoReturn = NoReturn
    Rows = 3
SPECIFICATION Spec
CONSTRAINT FewDocuments
INVARIANTS StockTypeOK  NeverOversold   
