SPECIFICATION Spec
CONSTANTS
  Names <- MCNames
  Stations <- MCStations
  Desktops <- MCDesktops
  Home <- MCHome
  MaxAces = 5
INVARIANTS TypeOK RestoredHome SuccessMoves
PROPERTIES StaysWhole
