\* Every one-byte edit of every journal, read by each reader of journals.
SPECIFICATION Spec
CONSTANTS
    ByteValues = 4
    LenWidth = 1
    IdWidth = 1
    AmountWidth = 2
    LamportWidth = 1
    AddressLen = 1
    PubkeyLen = 2
    Error = Error
    MaxEdits = 1
    Escrows <- MCEscrows
    Commitments <- MCCommitments
INVARIANTS
    TypeOK
    RoundTrip
    Canonical
    EthereumTakesReleaseOnly
    SolanaTakesReleaseOnly
\* The edits run out, and a commitment that has no journal has no step.
CHECK_DEADLOCK FALSE
