SPECIFICATION Spec
CONSTANTS
  Players = {p1, p2, p3}
  Items = {bag, box, coins, deed}
  Bags = {bag, box}
  Stacks = {coins}
  Deeds = {deed}
  Null = Null
  Edge = 3
CONSTRAINT Few
SYMMETRY Symmetry
INVARIANTS TypeOK TradesPaired
PROPERTY OffersUntouched
