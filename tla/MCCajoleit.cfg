SPECIFICATION Spec
CONSTANTS
    Requests = {r1, r2, r3}
    Inputs <- MCInputs
    None = None
SYMMETRY RequestSymmetry
INVARIANTS TypeOK OwnTranslation NeverBackwards AloneIsAnswered ReadyAtRest
