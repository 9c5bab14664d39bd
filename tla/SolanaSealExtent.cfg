\* The proof a release documents it takes, for seals of any length.
SPECIFICATION Spec
CONSTANTS
    c1 = c1
    w1 = w1
    w2 = w2
    Wallets = {w1, w2}
    EscrowIds = {1}
    Conditions = {c1}
    NO_CONDITION = NO_CONDITION
    NoAccount = NoAccount
    NoReceipt = NoReceipt
    OwnClaim = OwnClaim
    NoArgs = NoArgs
    None = None
    Offers <- ReceiptOffers
    ImagePinned = TRUE
    SealsWhole = FALSE
    Rent = 2
    MaxCreations = 1
    MaxDonations = 0
    MaxSlot = 3
    Funds = 9
INVARIANTS ReleaseNeedsProof
\* Nothing is left to do when the bounds are used up and every escrow is closed.
CHECK_DEADLOCK FALSE
