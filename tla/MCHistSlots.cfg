SPECIFICATION SlotsSpec
CONSTANTS
  Worker = {w1, w2, w3}
  Second = w2
  Third = w3
  Stream = {s1}
  Resident = {r1}
  Streaming = {b1, b2}
  Other = b2
  Selection = {c1}
  All = all
  Nothing = nothing
  Junk = junk
  NSessions = 3
INVARIANTS
  LeasesConserved
  SessionSeesItsBlock
PROPERTIES
  ResidentIsFinal
  SessionsEnd
