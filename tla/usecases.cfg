SPECIFICATION Spec
CONSTANTS
  q1 = q1  q2 = q2  eth = eth  usdt = usdt  btc = btc  mine = mine
  None = None
  Requests = {q1, q2}
  Currencies = {eth, usdt, btc}
  ChainOf <- MCChainOf
  Addresses = {mine}
  Imports <- MCImports
  Batch = 1
  MaxAccounts = 4
  MaxMoves = 1
  Statuses = {}
  Ops <- MCOps
  MaxOrders = 1
SYMMETRY MCSymmetry
CHECK_DEADLOCK FALSE
INVARIANTS TypeOK DuplicatesOverlap SuccessIsComplete
PROPERTIES AccountsStayDeleted OnlyGivenFieldsChange
