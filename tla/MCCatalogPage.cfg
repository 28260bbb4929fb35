SPECIFICATION Spec
CONSTANTS
  pump = pump
  valve = valve
  brand = brand
  item1 = item1
  item2 = item2
  New = New
  Nothing = Nothing
  Texts <- MCTexts
  Filters <- MCFilters
  Items <- MCItems
  MaxPage = 1
  MaxMoves = 5
  MaxFailures = 1
CHECK_DEADLOCK FALSE
INVARIANTS TypeOK ShownIsCurrent
PROPERTIES TypingIsKept CatchesUp
