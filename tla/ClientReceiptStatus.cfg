\* A success message for a reverted call.
SPECIFICATION Spec
CONSTANTS
    p1 = p1
    p2 = p2
    p3 = p3
    c1 = c1
    c2 = c2
    Sender = Sender
    Recipient = Recipient
    NoCondition = NoCondition
    NoTerms = NoTerms
    NoFile = NoFile
    Blank = Blank
    Torn = Torn
    None = None
    NoProc = NoProc
    NoJournal = NoJournal
    Procs = {p1, p2, p3}
    Conditions = {c1, c2}
    ParamFiles <- EitherChain
    ConditionFiles <- AllFiles
    MaxEscrows = 1
    MaxTime = 2
SYMMETRY ProcSymmetry
INVARIANTS SuccessIsTrue
\* Nothing is left to do when every command has ended.
CHECK_DEADLOCK FALSE
