\* A tab that is closed while its stream is being opened.
SPECIFICATION DFairSpec
CONSTANTS
  Page = {p1}
  None = None
  Stream = {s1, s2}
  MaxFaults = 0
PROPERTY AbandonedTabReleases
