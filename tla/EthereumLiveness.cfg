\* A sender without code against a contract that may reject forever.
SPECIFICATION FairSpec
CONSTANTS
    alice = alice
    bob = bob
    wallet = wallet
    vault = vault
    c1 = c1
    c2 = c2
    EOAs = {alice}
    Contracts = {wallet}
    Escrow = Escrow
    OtherAgent = OtherAgent
    NoAddress = NoAddress
    Conditions = {c1}
    NoCondition = NoCondition
    NoReceipt = NoReceipt
    Offers <- RefundOffers
    MaxEscrows = 2
    MaxAmount = 1
    MaxBlock = 3
    Funds = 3
PROPERTIES DepositNeverLocked RefundOfferedAgain
