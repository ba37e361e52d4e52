\* Three handles, two threads; every effect by itself, the two reverbs and the two visualizers together.
CONSTANTS
  NULL = NULL
  NaN = NaN
  Handles = {h1, h2, h3}
  Threads = {t1, t2}
  NumBands = 2
  NumPresets = 2
  MinLevel = 0
  MaxLevel = 2
  Scenarios <- MCScenarios
  Asked <- MCAsked
  Legal <- MCLegal
  Illegal <- MCIllegal
SYMMETRY Symmetry
SPECIFICATION Spec
INVARIANTS
  SilentWithoutHandles
  SendsFollowSelection
  MessagesFindTheirModule
  CaptureFollowsControl
PROPERTIES
  EffectControlSpec
  ListenerLeavesWithControl
