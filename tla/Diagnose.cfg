SPECIFICATION Spec
CONSTANTS
  Messages <- MCMessages
  Sites <- MCSites
  Listings <- MCListings
  StateFacts <- MCStateFacts
  MaxShown = 2
INVARIANTS
  ChosenIsBest
  IdMatchesKind
  InCatalogButPacketRange
  SpansShowStrongest
  BlockShowsRejection
CHECK_DEADLOCK FALSE
