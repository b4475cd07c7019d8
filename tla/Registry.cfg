SPECIFICATION FairSpec
CONSTANTS
  alpha = alpha
  beta = beta
  a201 = a201
  a202 = a202
  a800 = a800
  Exchange <- MCExchange
  Area <- MCArea
  ReservedArea <- MCReservedArea
  ConfigArea <- MCConfigArea
  LineArea <- MCLineArea
  ConfigJoins <- MCConfigJoins
  ConfigPublic <- MCConfigJoins
  Service = {roo}
  Panel = {p1}
  None = None
  MaxEvents = 2
  MaxPanels = 1
  MaxDeregistrations = 1
INVARIANTS TypeOK RouteReachesOwner LiveAreaIsOwned StampsWereOwned
PROPERTIES KeepsAreaAcrossRestarts StartsUp
