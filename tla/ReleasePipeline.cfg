\* Every condition against every other for one escrow, and files that are
\* wrong, or spelled unusually, in one place on either chain.
SPECIFICATION Spec
CONSTANTS
    none = none
    alice = alice
    bob = bob
    escrow = escrow
    junk = junk
    error = error
    Bytes <- SomeBytes
    Empty = none
    Undecodable = error
    AddressOf <- SomeAddresses
    Misread <- SomeMisreadings
    Conditions <- SomeConditions
    Height <- SomeHeights
    Points <- SomePoints
    U32Max = 4
    Scenarios <- SomeScenarios
    NoEscrow = NoEscrow
    U64Max = 2
    U256Max = 3
INVARIANTS TypeOK ThresholdLogic ReleaseIsBacked CleanEscrowFinishes FileNeverStrandsDeposit ClientReleasesWhatWasFiled
\* Nothing is left to do once the escrow is released.
CHECK_DEADLOCK FALSE
