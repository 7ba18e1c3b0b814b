\* The IIIc against README_BRINGUP.md: a redraw on every interval.
SPECIFICATION FairSpec
CONSTANTS
  Profile = "IIIc"
  MaxPictures = 1
  MaxStrips = 0
  MaxSleeps = 0
PROPERTIES
  RedrawsForever
\* With the LCD off, the buttons at rest and no sleep left nothing more happens.
CHECK_DEADLOCK FALSE
