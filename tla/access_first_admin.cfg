SPECIFICATION MCSpec
CONSTANTS
  p1 = p1  p2 = p2  p3 = p3  i1 = i1  i2 = i2  w1 = w1  w2 = w2
  k1 = k1  k2 = k2  b1 = b1  a1 = a1  e1 = e1  e2 = e2  e3 = e3
  People = {p1, p2, p3}
  Invites = {i1, i2}
  Workspaces = {w1, w2}
  Slots = {1, 2}
  MaxLinks = 5  Second = 2  AccessLife = 6  RefreshLife = 8  Gap = 1  LinkLife = 2
  Names = {"x", "y"}  Slugs = {"sx", "sy"}  MaxWorkspaces = 3  MaxActive = 2
  Contacts = {k1, k2}  Boxes = {b1}  Rules = {a1}  Mails = {e1, e2, e3}  BoxOf <- TheBoxOf
  Offers <- AllOffers
  Scenes <- LegacyOnly
  PasswordScenes <- NoPasswords
  WorkspaceScenes <- NoAccounts
PROPERTIES
  FirstAdminStaysOwner
CHECK_DEADLOCK FALSE
