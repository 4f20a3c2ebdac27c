SPECIFICATION Spec
CONSTANTS
  DigitNames <- MCDigitNames
  Canonical <- MCCanonical
  FamilyOf <- MCFamilyOf
  UnifiedOf <- MCUnifiedOf
  Corpora <- MCCorpora
  Positional <- MCPositional
  Keys <- MCKeys
  Words <- MCWords
  SpacedWords <- MCSpacedWords
  CommaParts <- MCCommaParts
  Ceiling = 13
  MaxRuns = 2
INVARIANTS MappingTranslates StaleOnlyIfSkipped PlatformIsContributors VariantsRoundTrip
CHECK_DEADLOCK FALSE
