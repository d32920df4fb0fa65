CONSTANTS
  Word = 128
  msec_per_frame_ = 5
  Costs <- MCCosts
  Garbage <- MCGarbage
  Usual = 3
  MaxClock = 36
  Animations <- MCAnimations
SPECIFICATION AnimSpec
INVARIANTS Paced SleepsBriefly SkipsJustified FrameExists KeepsRhythm
PROPERTY GetsNoFurtherBehind
