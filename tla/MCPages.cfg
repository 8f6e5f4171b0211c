SPECIFICATION MCSpec
CONSTANTS
  Tabs = {t1, t2}
  Values = {1}
  Seeds = 1
  MaxId = 2
  MaxClicks = 4
  MaxResets = 1
  None = None
SYMMETRY Alike
INVARIANTS
  TypeOK
  OneEffect
  ShownIsAsked
  ActsOnShown
CHECK_DEADLOCK FALSE
