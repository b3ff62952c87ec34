SPECIFICATION Spec
CONSTANTS
    Runs = {r1, r2}
    Versions = {1, 2}
INVARIANTS PublishedIsWhole OfferIsFit CalmCheckDecides
