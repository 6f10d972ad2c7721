\* Two presses of START, over sockets that break, with a buffer of one
\* frame of four and two frames to a second.
CONSTANTS
  MaxBuffered = 1
  FrameLimit = 2
  MaxStarts = 2
  MaxFrames = 4
SPECIFICATION FairSpec
INVARIANTS HeardUnbroken ScreenIsTrue
PROPERTIES GoneIsClosed
\* A page that is left, or out of its bounds, stops.
CHECK_DEADLOCK FALSE
