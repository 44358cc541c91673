SPECIFICATION FairSpec
CONSTANTS
  Actions = {k1, k2}
  Executors = {w1, w2, w3}
  NoAction = NoAction
  Batch = 1
INVARIANTS
  TypeOK
  AtMostOneEffect
  ReplayFinal
PROPERTIES
  ReservationsClose
  ImplementsAtMostOnce
