SPECIFICATION Spec
INVARIANTS
    StrangersKeptOut
    ValidatedStarts
    RepliesPresentable
    RoundTrips
    RestoredIsLatest
    OutsideOnlyByLink
