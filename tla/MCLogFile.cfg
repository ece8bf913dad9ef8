CONSTANTS
    Tasks = {1, 2}
    Sizes = {3}
    MaxInstances = 2
    MaxFile = 7
SPECIFICATION Spec
INVARIANTS CatPrintsLatest ShowAgreesWithCat SummaryAddsUp
