SPECIFICATION LSpec
CONSTANTS
  Layouts <- MCLayouts
  Units = 3
  TextSplits = 3
  DataSplits = 3
  Pairs = 4
INVARIANTS TypeOK NoPanic LTypeOK OrderRespectsEdges NoNeedlessChange
PROPERTIES ImplementsContract Resolves
