SPECIFICATION FairSpec
CONSTANTS
    a1 = a1
    a2 = a2
    a3 = a3
    c1 = c1
    c2 = c2
    c3 = c3
    s1 = s1
    Adds = {a1, a2, a3}
    Closes = {c1, c2, c3}
    CashEdits = {s1}
    Side <- MCSide
    Qty <- MCQty
    Price <- MCPrice
    Balance <- MCBalance
    OPENING_CASH = 38
    CENT = 2
    MaxFaults = 1
    None = None
INVARIANTS
    BooksBalance
PROPERTIES
    ImplementsLedger
    RequestsEnd
