SPECIFICATION Spec
CONSTANTS
    p1 = p1
    p2 = p2
    p3 = p3
    w1 = w1
    w2 = w2
    Payments = {p1, p2, p3}
    Amount <- Cents
    Sum <- SumOf
    Totals = {0, 2, 3}
    Workers = {w1, w2}
    MaxRequests = 4
INVARIANTS BooksBalance
PROPERTIES NoPaymentLost IssuedStays
CHECK_DEADLOCK FALSE
