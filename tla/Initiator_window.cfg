CONSTANTS
  Initiators = {i1, i2}
  MaxWords = 6
  HelperCalls <- Calls
  CallTimes <- TargetTimes
  Failures = {"reported"}
SPECIFICATION Spec
INVARIANTS CallsTakeTurns CallCarriesRequest
PROPERTIES TriggerIsSeen
