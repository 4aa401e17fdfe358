\* One end disconnects and the other stays.
SPECIFICATION FairSpec
CONSTANTS
  Data = {d1}
  Ping = Ping
  Pong = Pong
  End = End
  MaxFrames = 1
CHECK_DEADLOCK FALSE
PROPERTIES
  SessionClosesWithEither
