SPECIFICATION Spec
CONSTANTS
    NoTx = ""
    TxId = "tx"
    ByteBits = 2
    KeyBytes = 2
    IdBytes = 2
    Mask <- RailgunMask
    Parties = {"s", "p"}
    MasterKey <- Keys
    Sender = "s"
    ChainID = 2
    CircuitRange = 4
    MaxInputs = 2
    BalanceLimit = 2
    Cases <- SmallCases
INVARIANTS
    WalletsFindTheirNotes
    OnlyTheOwnerReads
    SubmittedAsProved
    EventsCarryTheTransaction
    PartiesAreGivenTheirNotes
    ReceiptTellsWhatWasPaid
    OneTextPerAddress
    TransferFitsTheCircuit
    BalanceIsWholeUnlessFlagged
CHECK_DEADLOCK FALSE
