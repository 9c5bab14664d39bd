\* Donations, two sizes of deposit, two ids: where the lamports are, and what a
\* release takes when every seal argument is whole.
SPECIFICATION Spec
CONSTANTS
    c1 = c1
    w1 = w1
    w2 = w2
    Wallets = {w1, w2}
    EscrowIds = {1, 2}
    Conditions = {c1}
    NO_CONDITION = NO_CONDITION
    NoAccount = NoAccount
    NoReceipt = NoReceipt
    OwnClaim = OwnClaim
    NoArgs = NoArgs
    None = None
    Offers <- MixedOffers
    ImagePinned = TRUE
    SealsWhole = TRUE
    Rent = 2
    MaxCreations = 2
    MaxDonations = 1
    MaxSlot = 2
    Funds = 9
SYMMETRY WalletSymmetry
INVARIANTS TypeOK VaultCovers NobodyLoses LivesAlternate ReceiptStaysAtAddress
PROPERTIES LifecycleSpec
\* Nothing is left to do when the bounds are used up and every escrow is closed.
CHECK_DEADLOCK FALSE
