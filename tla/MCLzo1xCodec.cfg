CONSTANTS
  M2Low = 8
  Menu <- MCMenu
  Tails <- MCTails
  Damages <- MCDamages
  DictLen = 49151
  Blocks <- MCBlocks
SPECIFICATION MCSpec
INVARIANTS
  TypeOK
  RoundTrip
  DamageRefused
  WorstCase
  KeepsText
  RunRemembered
