SPECIFICATION Spec
CONSTANT
    Components = {"output"}
INVARIANT
    CollectedIsPublished
