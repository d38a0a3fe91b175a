CONSTANTS
  Inputs <- MCInputs
  Choices <- MCChoices
  Matches <- MCMatches
  Absent = absent
  absent = absent
  MaxItems = 4
SPECIFICATION Spec
INVARIANTS WantedFindingsShown SortsCompose ReportIgnoresDiscoveryOrder
