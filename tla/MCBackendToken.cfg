CONSTANTS
    Bytes = {0, 1}
    Width = 1
    Requests <- TwoTokens
    Clients = {c1}
    MaxRows = 2
    MaxGaveUp = 1
    NoRow = NoRow
SPECIFICATION Spec
INVARIANT CannotCollide
