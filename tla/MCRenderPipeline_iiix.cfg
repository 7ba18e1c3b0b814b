\* The IIIx: the loop task draws the surface, and every interval redraws.
SPECIFICATION FairSpec
CONSTANTS
  Profile = "IIIx"
  MaxPictures = 1
  MaxStrips = 2
  MaxSleeps = 2
INVARIANTS
  ShellComplete
  NeverBothFooled
PROPERTIES
  PanelCatchesUp
  ButtonsCatchUp
\* With the LCD off, the buttons at rest and no sleep left nothing more happens.
CHECK_DEADLOCK FALSE
