\* The fee the transaction view shows, against the fee of the transaction.
CONSTANTS
    s1 = s1  s2 = s2  notFoundFee = notFoundFee  notFoundValue = notFoundValue
    Scripts <- MCScripts
    Amounts = {1, 2}
    MaxIO = 2
    NotFoundFee <- notFoundFee
    NotFoundValue <- notFoundValue
SYMMETRY ScriptSymmetry
SPECIFICATION TxSpec
INVARIANT FeeShownIsFee
