SPECIFICATION Spec
CONSTANTS
  pull1 = pull1
  pull2 = pull2
  observation1 = observation1
  observation2 = observation2
  Bindings = {pull1, pull2}
  Observations = {observation1, observation2}
  MaxEvents = 2
  MaxCrashes = 1
INVARIANTS
  
  EvidenceIsTrue
PROPERTIES
  MergesAreOrdered
SYMMETRY DeliverySymmetry
CHECK_DEADLOCK FALSE
