SPECIFICATION Spec
CONSTANTS
  Bits = 7
  Digit = 3
  Fixed <- Stamps
  Limit = 128
  MaxLen = 4
INVARIANTS
  RoundTrip
  OneSpelling
  AcceptsNumerals
