CONSTANT Dlc = {0, 1, 2, 3, 4, 5, 6, 7, 8, 9, 10, 11, 12, 13, 14, 15}
SPECIFICATION Spec
INVARIANTS
  NodesInStep
  HeaderReceived
  StoredWordsAreSent
  RwcntMatchesStores
