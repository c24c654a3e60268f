SPECIFICATION FairSpec
CONSTANTS
  p1 = p1  p2 = p2  None = None
  ToSafe <- SafeNames
  ToLower <- Lowered
  Csv <- CsvValues
  Substring <- Parts
  AwsRegions <- TheRegions
  Process = {p1, p2}
  Scenario <- Scenarios
  Clouds <- AllClouds
  Wanted = {"a_b"}
  PageSize = 2
INVARIANTS TypeOK HostsIndexed GroupsMeanResources ChildrenAreGroups NoFalseAbsence AnswerIsNamed OneAccount OwnTags FilesArePaired
PROPERTIES FilesAreCache EveryRunEnds
CHECK_DEADLOCK FALSE
