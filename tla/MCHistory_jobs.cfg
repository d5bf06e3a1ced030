\* Jobs of two sensors, six receipts each, under five configurations, with and without a baseline.
SPECIFICATION Spec
CONSTANTS
  None = None
  U32Max = 9
  CockpitId = 4
  SensorReasons = {"r"}
  OtherSection = 22
  Sensors = {1, 2}
  Receipts <- MCReceipts
  Configs <- MCConfigs
INVARIANTS
  TypeOK
  TrendAccounts
  FixedIsGone
  QuietMeansSame
  ReductionIsAnnounced
  SectionsFollowTheSummary
  OutputsAgree
  ReportExplainsItself
