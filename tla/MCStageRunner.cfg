CONSTANTS
    Nodes <- MCNodes
    Rank <- MCRank
    Stages <- MCStages
SPECIFICATION FairSpec
INVARIANTS
    InputsAreFinal
    ReturnIsFaithful
PROPERTY StageEnds
