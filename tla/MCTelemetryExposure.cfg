SPECIFICATION Spec
CONSTANTS
  MaxDenied = 0
  MaxAbsent = 0
  MaxPattern = 0
  MaxSource = 0
  MaxText = 0
  Texts <- MCTexts
  Reports <- MCReports
  Missing <- MCMissing
  Outcome <- MCOutcome
  Fields <- MCFields
  Ambiguous <- MCAmbiguous
  Consults <- MCConsults
INVARIANTS UnreadInterfaceIsUnknown
CHECK_DEADLOCK FALSE
