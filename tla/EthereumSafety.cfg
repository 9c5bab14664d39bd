\* Two contracts and an account without code: callbacks, rollbacks and receipts.
SPECIFICATION Spec
CONSTANTS
    alice = alice
    bob = bob
    wallet = wallet
    vault = vault
    c1 = c1
    c2 = c2
    EOAs = {alice}
    Contracts = {wallet, vault}
    Escrow = Escrow
    OtherAgent = OtherAgent
    NoAddress = NoAddress
    Conditions = {c1, c2}
    NoCondition = NoCondition
    NoReceipt = NoReceipt
    Offers <- SafetyOffers
    MaxEscrows = 2
    MaxAmount = 2
    MaxBlock = 2
    Funds = 3
SYMMETRY Symmetry
INVARIANTS
    TypeOK Solvency SettledOnce BalancesFollowEvents
    ReceiptSettlesOnce ReleaseNeedsFulfilment RefundAfterReleaseWindow
PROPERTIES NoSettlementInsideSettlement LifecycleSpec
