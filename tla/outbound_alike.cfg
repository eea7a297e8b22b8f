SPECIFICATION MCSpec
CONSTANTS
    r1 = r1  r2 = r2  d1 = d1  e1 = e1
    Replies = {r1, r2}
    Directs = {}
    Outside = {}
    Text <- Alike
    Wordless = {}
    EchoTagged = TRUE
    MaxReads = 0
    MaxCrashes = 0
    m1 = m1  m2 = m2  a1 = a1  c0 = c0  c1 = c1  c2 = c2  s1 = s1  s2 = s2
    Inbound = {m1, m2}  Answers = {a1}  Threads = {c0, c1, c2}  Foreign = {c0}  Sockets = {s1, s2}
    Budgets <- QuietOnly
    Parts = {"replies"}
INVARIANTS IdIsItsOwn
CHECK_DEADLOCK FALSE
