SPECIFICATION Spec
CONSTANT
    Components = {"null"}
INVARIANT
    WithdrawnImpossible
