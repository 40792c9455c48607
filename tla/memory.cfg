CONSTANTS
  Page <- MCPage
  SlotROM <- MCSlotROM
  RomLoaded <- MCRomLoaded
  Switches <- MCSwitches
  Addresses <- MCAddresses
  DisplaySwitches <- MCDisplaySwitches
  HorizontalTotal = 2
  MaxRaster = 2
  Rows = 1
SPECIFICATION MCSpec
INVARIANTS
  TypeOK
  ExpansionFollowsSelection
  SwitchesAgree
PROPERTIES
  ImplementsWindow
  TextReadBack
  StoredIsShown
