\* A tab that reconnects, and one fault.
SPECIFICATION DFairSpec
CONSTANTS
  Page = {p1}
  None = None
  Stream = {s1, s2}
  MaxFaults = 2
INVARIANT DTypeOK
INVARIANT OneStream
INVARIANT OneSession
PROPERTY RestartHonoured
PROPERTY StreamReturns
PROPERTY AbandonedFreed
