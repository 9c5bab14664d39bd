\* Every text of up to six symbols, under environments that tempt the loop.
SPECIFICATION Spec
CONSTANTS
    Letters = {"a", "b"}
    MaxLength = 6
    Environments <- SomeEnvironments
    Values <- SomeValues
INVARIANTS TypeOK ExpandsOnce NothingSilentlyEmpty OneErrorSuffices
PROPERTIES LoadEnds
\* Nothing is left to do when the file is loaded or cannot be.
CHECK_DEADLOCK FALSE
