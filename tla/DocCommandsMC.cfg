SPECIFICATION MCSpec
CONSTANTS
  Names = {1, 2, 3}
  Vals = {0, 1}
  MaxRows = 2
  MaxDesk = 1
  Jobs <- MCJobs
  Sites <- MCSites
  a1 = a1
  a2 = a2
  x1 = x1
  x2 = x2
  f1 = f1
  f2 = f2
  Attempts = {a1, a2}
  Owners <- MCOwners
  NoAttempt = NoAttempt
  Runs = {x1, x2}
  Asks <- MCAsks
  Total = 2
  MaxJobs = 2
  Filters = {f1, f2}
  Readers = {x1, x2}
  Wants <- MCWants
  FirstDocs = 3
  MaxChanged = 2
  PageSize = 2
  MetaFields <- MCMetaFields
  MaxDownloads = 2
  Customs = {1, 2, 3}
  SourceSites <- MCSourceSites
  TargetSites <- MCTargetSites
  CustomDirs <- MCDirs
  SameFile <- MCSameFile
  MaxSaved = 1
  Askers = {x1, x2}
  Questions <- MCQuestions
  Groups = {1, 2, 3, 4}
  ProbeRows = 3
  FetchCap = 3
  MaxLimit = 3
  Viewers = {x1}
  Views <- MCViews
  Metas <- MCMetas
  Roles = {"Clerk"}
  Versions <- MCVersions
  Timeline <- MCTimeline
  Linked = {"Version", "Sales Invoice"}
  MayRead = {"Comment", "Version", "Sales Order"}
  MaxShown = 2
INVARIANTS ReportIsTrue JobsAreTold AggregatesAreRight RightsAreKept
PROPERTIES KeepsUnseen SignInsAreOwn FilesAreWhole CustomsArrive
CHECK_DEADLOCK FALSE
