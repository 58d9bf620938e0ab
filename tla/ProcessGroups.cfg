SPECIFICATION FairSpec
CONSTANTS
  N = 3
  Groups = 2
  Scripts <- SomeScripts
  Cases <- SomeCases
INVARIANTS
  PairedWithSameCall
  ResultsRight
  CopiesInOrder
  BarrierComesLast
PROPERTIES
  GroupsClose
CHECK_DEADLOCK FALSE
