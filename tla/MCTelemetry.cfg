SPECIFICATION Spec
CONSTANTS
  MaxDenied = 2
  MaxAbsent = 1
  MaxPattern = 2
  MaxSource = 2
  MaxText = 2
  Texts <- MCTexts
  Reports <- MCReports
  Missing <- MCMissing
  Outcome <- MCOutcome
  Fields <- MCFields
  Ambiguous <- MCAmbiguous
  Consults <- MCConsults
INVARIANTS VerdictsAreGrounded CelIsExact PassIsEarned BlastIsExact
CHECK_DEADLOCK FALSE
