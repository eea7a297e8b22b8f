SPECIFICATION MCSpec
CONSTANTS
  f1 = f1  f2 = f2  g1 = g1  g2 = g2  fr = fr  gr = gr  pa = pa  pb = pb  pc = pc
  t1 = t1  t2 = t2  u1 = u1  u2 = u2  w1 = w1  w2 = w2  fp = fp  fq = fq  ig = ig
  Facebook = {f1, f2, fr}
  Instagram = {g1, g2, gr}
  Page = "page"
  Nobody = "nobody"
  Jobs = {1, 2}
  Tenants = {t1, t2}  Places = {w1, w2}  FacebookPages = {fp, fq}  LinkOf <- TheLink  UserOf <- TheUser
  Limit = 2  Requests = {1, 2}
  Tasks = {"k1", "k2", "k3"}  Batch = 2  Accounts = {"a1", "a2"}  Nothing = "nothing"
  Author <- TheAuthor
  CommentScenes <- AllComments
  PageScenes <- Deletion
  ClockScenes <- AllClocks
  Parts = {"pages"}
INVARIANT NothingListens
CHECK_DEADLOCK FALSE
