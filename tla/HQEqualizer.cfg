SPECIFICATION Spec
CONSTANTS
  NumBands = 4
  Levels = {8, 16, 120}
  MaxLevel = 80
  Touched = {1}
  Settings <- MCSettings
  QueueSize = 3
  Step = 250
  UpdateBlock = 2
  BlockSize = 3
  MaxCalls = 4
INVARIANTS
  SoundFollowsSettings
PROPERTIES
  SettingsArrive
  GainsMoveGradually
