SPECIFICATION SlotsSpec
CONSTANTS
  factory = factory
  good = good
  dead = dead
  alien = alien
  Builds = {factory, good, dead, alien}
  Signed = {good, dead}
  Dead = {dead}
  Factory = factory
  Budget = 3
  Faults <- MCAllFaults
INVARIANTS KernelBudget TrustedAlive OnlyVouched
PROPERTY ComesUp
