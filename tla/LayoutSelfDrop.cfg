SPECIFICATION Spec
CONSTANTS
  Files = {f1, f2}
  Diffs = {d1}
  Agents = {}
  None = None
  LoneSelfDrops = TRUE
  DiffsAlone = FALSE
PROPERTIES NoTabLost
