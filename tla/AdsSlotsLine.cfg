SPECIFICATION FairSpec
CONSTANTS
  NoAccount = NoAccount
  User = User
  Callers = {c1, c2, c3, c4}
  Accounts = {a1, a2}
  MaxInflight = 2
INVARIANTS SlotsCounted
PROPERTIES LineSpec WaiterServed
