CONSTANTS
    r1 = r1  r2 = r2  r3 = r3
    receipt = receipt  completion = completion
    f1 = f1  f2 = f2
    Requests = {r1, r2, r3}
    Keys = {receipt, completion}
    Prints = {f1, f2}
    Blank = Blank
    Kind <- KindOf
    Style <- StyleOf
    StoreMayFail = TRUE
    SlowKeys = {receipt}
    Crashes = TRUE
    MaxEffects = 2
SPECIFICATION Spec
SYMMETRY Symmetric
CONSTRAINT OneKey
INVARIANTS TypeOK SingleOwner MoneyOnce  TruthfulAnswer
PROPERTIES RefusalIsFinal ReplayStable
