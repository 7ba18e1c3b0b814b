\* The IIIc: an unchanged screen is not drawn again.
SPECIFICATION FairSpec
CONSTANTS
  Profile = "IIIc"
  MaxPictures = 2
  MaxStrips = 1
  MaxSleeps = 1
PROPERTIES
  CatchesUpUnlessLost
\* With the LCD off, the buttons at rest and no sleep left nothing more happens.
CHECK_DEADLOCK FALSE
