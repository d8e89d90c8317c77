SPECIFICATION Spec
CONSTANTS
  Players = {p1, p2, p3}
  Items = {i1}
  NoItem = NoItem
  NoTrade = NoTrade
  NoAuction = NoAuction
  Dangling = Dangling
  Purses <- Rich
  Parcels <- Large
  MaxMoney = 7
  MaxMails = 3
  MaxTrades = 0
  MaxSales = 1
  Prices = {1, 2}
  Buyouts = {2}
  Deposit = 1
  CutPercent = 50
  Postage = 1
  Amounts = {0, 1}
SYMMETRY Symmetry
INVARIANT RemovedIsUnreferenced
