SPECIFICATION Spec
CONSTANTS
    Quotes <- MCQuotes
    MaxSaid = 4
INVARIANTS TypeOK HeardIsHeeded SuccessIsHeeded
PROPERTY KeepsPromise
