\* Two payloads, two frames from each client.  Refinement and liveness: no
\* symmetry.
SPECIFICATION FairSpec
CONSTANTS
  Data = {d1, d2}
  Ping = Ping
  Pong = Pong
  End = End
  MaxFrames = 2
CHECK_DEADLOCK FALSE
INVARIANTS
  TypeOK
  NothingLost
PROPERTIES
  HandlersMeet
  FramesInOrder
  LinkedFramesArrive
