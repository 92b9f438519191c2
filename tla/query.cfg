SPECIFICATION Spec
CONSTANTS
  NodeCount = 6
  Parent <- TreeParent
  Key <- TreeKey
  Elements <- TreeElements
  MaxParallelism = 3
INVARIANTS
  QueryInv
  TokenAccounting
  ClosedDocReadOnlyByAbandoned
  ResponseAccountsForEveryField
  DataInDocumentOrder
PROPERTIES
  StreamContract
  Answered
