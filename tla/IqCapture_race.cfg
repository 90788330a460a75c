SPECIFICATION Spec
CONSTANTS
  Sessions = {s1}
  Togglers = {t1, t2}
  MaxSamples = 3
  FrameSizes = {1, 2}
  MaxSeconds = 0
  MaxStarts = 1
  MaxFrames = 0
  MaxFlips = 2
  MaxPosted = 1
INVARIANTS CaptureFollowsSwitch
CHECK_DEADLOCK FALSE
