CONSTANTS
    Bytes = {0, 1}
    Width = 1
    Requests <- FiveRequests
    Clients = {c1}
    MaxRows = 2
    MaxGaveUp = 1
    NoRow = NoRow
SPECIFICATION FairSpec
INVARIANTS
    TypeOK
    AnsweredWithMine
    OneRowPerMeaning
PROPERTIES
    DeletesDecidedRows
    GaugeCatchesUp
