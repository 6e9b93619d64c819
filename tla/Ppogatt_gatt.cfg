SPECIFICATION FairSpec
CONSTANTS
  RxLen = 1
  TxLen = 2
  SvcLen = 2
  SeqMod = 3
  Chunks = 2
  Asks = 2
  Datas = 2
  Reports = 5
  Budgets <- MostBudgets
INVARIANT TypeOK
INVARIANT ConnectedIsTrue
PROPERTY KeepsOrder
PROPERTY SendsEnd
CHECK_DEADLOCK FALSE
