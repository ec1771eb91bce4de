CONSTANTS
  Messages <- MCMessages
  Keys <- MCKeys
  MaxId = 4
SPECIFICATION Spec
INVARIANTS
  NeverPanics
  AcceptsExactly
  PlacedInOrder
  TakenForWhatItIs
  BatchMeansItsItems
  WindowsDecide
  WsPlaces
  OverflowNeedsRepetition
  CodesRoundTrip
