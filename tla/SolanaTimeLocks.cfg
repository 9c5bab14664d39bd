\* A program built with the placeholder image id, under which no escrow's proof
\* verifies, and seal arguments of any length, under which none is needed: what
\* is left of the promise are the time-locks.  Every combination of locks.
SPECIFICATION FairSpec
CONSTANTS
    c1 = c1
    w1 = w1
    w2 = w2
    Wallets = {w1, w2}
    EscrowIds = {1}
    Conditions = {c1}
    NO_CONDITION = NO_CONDITION
    NoAccount = NoAccount
    NoReceipt = NoReceipt
    OwnClaim = OwnClaim
    NoArgs = NoArgs
    None = None
    Offers <- LockOffers
    ImagePinned = FALSE
    SealsWhole = FALSE
    Rent = 2
    MaxCreations = 2
    MaxDonations = 0
    MaxSlot = 3
    Funds = 15
PROPERTIES LifecycleSpec DepositNeverLocked
\* Nothing is left to do when the bounds are used up and every escrow is closed.
CHECK_DEADLOCK FALSE
