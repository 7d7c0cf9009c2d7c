CONSTANTS
  MaxUnits = 4
SPECIFICATION EscrowSpec
INVARIANT Solvent
CHECK_DEADLOCK FALSE
