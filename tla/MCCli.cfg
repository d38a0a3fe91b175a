CONSTANTS
  MaxArgs = 3
  Argvs <- MCArgvs
  LongWord <- MCLongWord
  ShortWord <- MCShortWord
  OtherText <- MCOtherText
  NoText = NoText
  IntegerText <- MCIntegerText
  IntOf <- MCIntOf
  DateText <- MCDateText
  SeverityText <- MCSeverityText
  Cwd = "/"
  SizeMax = 65535
SPECIFICATION CliSpec
INVARIANT CliTypeOK
INVARIANT ParserMatchesGrammar
INVARIANT AuditedOptionsConsistent
