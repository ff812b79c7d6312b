\* Two files that may claim one name, and three changes or calls in any order.
SPECIFICATION FairSpec
CONSTANTS
  f1 = f1
  f2 = f2
  Layout <- TwoDirectories
  Names = {a, b}
  None = None
  MaxEdits = 3
INVARIANTS CatalogueIsCurrent
PROPERTIES ReplacementIsFinal RefreshesSettle
