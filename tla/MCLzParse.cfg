CONSTANTS
  N = 13
  F = 6
  M1Max = 3
  M4Max = 12
  M2Max = 5
  M3Max = 9
  M2MaxLen = 3
  M3MaxLen = 6
  M4MaxLen = 4
  Bytes = {0, 1, 2}
  Texts <- MCTexts
  Chunk = 13
  Margin = 6
  Group = 1
  SkipAfter = 4
  DIndex <- MCDIndex
  Slots = {0, 1, 2}
  Head3 <- MCHead3
  Keys = {0, 1, 2}
  Levels <- MCLevels
  Inputs <- MCInputs
SPECIFICATION MCSpec
PROPERTIES
  FastParses
  SlowParses
