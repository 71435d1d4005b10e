\* Two source units and one FEC unit in a frame, and frame numbers modulo 8 that wrap
\* within the stream.
SPECIFICATION Spec
CONSTANTS
  M = 8
  Source = 2
  Fec = 1
  Frames = 9
  SwitchFrames = {1, 3, 8}
  Skip = 2
  Late = 1
  MaxStall = 1
  MaxRefs = 2
INVARIANTS
  SamplesOwnUnits
  LossIsReported
  
  HeaderMatches
PROPERTIES
  SamplesInOrder
CHECK_DEADLOCK FALSE
