CONSTANTS
  Accounts = {a, b}
  None = None
  Unread = Unread
  MaxLogins = 2
  MaxRequests = 1
  MaxEditions = 1
  MaxErrors = 1
  MaxNews = 4
  MaxWork = 5
  Preset = Preset
  Own = Own
  Draft = Draft
  Keys = {k1}
  Targets = {t1}
  MaxSaves = 2
  MaxDetections = 2
  MaxBalances = 1
  MaxLaunches = 1
  MaxFaults = 1
  Bad = Bad
  Managed = Managed
  Slugs = {s1}
  MaxEdits = 2
  Items = {1, 2}
  MaxDeltas = 2
  Texts = {m}
  Calls = {c1, c2}
  Odd = c1
  Pieces = 2
  MaxText = 1
  Talks = {t1, t2}
  Providers = {p1, p2}
  CallIds = {c1}
  MaxCached = 1
  MaxExchanges = 3
SPECIFICATION MCSpec
INVARIANTS
  PlatformsStand
  AnswersAreWhole
  LegalStream
PROPERTIES
  CatalogFollows
  SettingsStand
CHECK_DEADLOCK FALSE
