SPECIFICATION Spec
CONSTANTS
  MaxUid = 3
  SeenCap = 1
  MaxFaults = 2
INVARIANTS
  NothingSkippedSilently
  RepeatedOnlyWhenCutOff
PROPERTIES
  RetreatsOverGapsOnly
  SettledIfServerSpeaks
