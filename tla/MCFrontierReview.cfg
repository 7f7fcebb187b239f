CONSTANTS
    Functions <- MCFunctions
    File <- MCFile
    Lines <- MCLines
    Budgets <- MCBudgets
SPECIFICATION Spec
INVARIANT
    ReviewSound
