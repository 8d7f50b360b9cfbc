CONSTANTS
  Val <- Values
  Hour <- Hours
  Minute <- Minutes
  Held <- Distinct
SPECIFICATION Spec
INVARIANTS TypeOK TimesOfDay
PROPERTIES OnlyAskedChange
