\* The one settlement per receipt that the program documents.
SPECIFICATION Spec
CONSTANTS
    c1 = c1
    w1 = w1
    w2 = w2
    Wallets = {w1, w2}
    EscrowIds = {1}
    Conditions = {c1}
    NO_CONDITION = NO_CONDITION
    NoAccount = NoAccount
    NoReceipt = NoReceipt
    OwnClaim = OwnClaim
    NoArgs = NoArgs
    None = None
    Offers <- ReceiptOffers
    ImagePinned = TRUE
    SealsWhole = TRUE
    Rent = 2
    MaxCreations = 2
    MaxDonations = 0
    MaxSlot = 3
    Funds = 9
INVARIANTS ReceiptSettlesOnce
\* Nothing is left to do when the bounds are used up and every escrow is closed.
CHECK_DEADLOCK FALSE
