SPECIFICATION FairSpec
CONSTANTS
  Workers = {w1}
  UI = ui
  Stoppers = {run}
  MaxPauses = 2
PROPERTY ResumeReleases
CHECK_DEADLOCK FALSE
