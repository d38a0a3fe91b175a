CONSTANTS
  Inputs <- InBetween
  Choices <- DateAndFindings
  Matches <- MCMatches
  Absent = absent
  absent = absent
  MaxItems = 3
SPECIFICATION Spec
INVARIANT OptionsHonoured
