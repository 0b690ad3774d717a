SPECIFICATION FairSpec
CONSTANTS
  b1 = b1  b2 = b2  w1 = w1  w2 = w2  t1 = t1  t2 = t2
  nobody = nobody
  Bots <- TwoBots
  Nobody <- nobody
  Fleet <- InOrder
  Created <- AllRunning
  Edits <- SomeEdits
  Slow <- FirstSlow
  Writers <- TwoWriters
  Ticks <- TwoTicks
  ReconcileEvery = 2
  MaxFaults = 1
INVARIANTS TypeOK StopTrails OneTickPerBot
PROPERTIES PatchesStand TurnForAll ReconcileTurn
CHECK_DEADLOCK FALSE
