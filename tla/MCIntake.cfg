SPECIFICATION Spec
CONSTANTS
  Texts <- MCTexts
  Placeholders = {"-"}
  NormalHeader <- MCNormalHeader
  Lower <- MCLower
  SqlLower <- MCSqlLower
  Rows <- MCRows
  Catalogs <- MCCatalogs
  Edits <- MCEdits
  HeaderLimit = 2
  MaxSheets = 2
  MaxRows = 4
INVARIANTS TypeOK ScanMatchesSheets
PROPERTIES FileShown AliasesStayUnique
