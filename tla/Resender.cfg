CONSTANTS
  MaxResends = 5
  Modulus = 16
  MaxFlights = 4
SPECIFICATION ResenderFairSpec
INVARIANTS ResenderTypeOK ResendsWithinBudget OneTimeoutAfterAllResends
PROPERTIES FirstFlightResolved JoinsReturn ImplementsResendTimer
