SPECIFICATION Spec
CONSTANT
    Components = {"link", "null", "scope", "anchor", "profile", "dedup", "ids", "output", "json", "cli"}
INVARIANTS
    LinksAreLegal
    ContractsAreExact
    ScopeIsCovered
    AnchorsAreSound
    ProfileExact
    FindingsRepresented
    DocumentIsReview
    JsonStreamExact
    CommandsFaithful
