SPECIFICATION Spec
CONSTANTS
  c1 = c1  c2 = c2  c3 = c3
  k1 = k1  NoKey = NoKey
  Clients = {c1, c2, c3}
  Keys = {k1}
  KeyOf <- SharedKey
  MaxTries = 2
  MaxFaults <- EveryFault
INVARIANTS
  LoggedOnce
  ReservationIsBackedIfRolledBack
  AnswerIsTruthful
SYMMETRY ClientSymmetry
CHECK_DEADLOCK FALSE
