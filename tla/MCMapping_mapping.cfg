SPECIFICATION Spec
CONSTANTS
    Word = 256
    HighMem = 100
    HostCpus = 2
    Files <- MCFiles
    Annotations <- MCAnnotations
    Places <- MCPlaces
    Specs <- MCSpecs
INVARIANTS TypeOK  NamedFileIsObeyed ReservationWithinLimit MemoryFits AffinityFits WeightInRange
