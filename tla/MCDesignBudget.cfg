SPECIFICATION LoopSpec
CONSTANTS
    Drafts <- MCDrafts
    Options <- MCOverrun
    MaxVersion = 6
INVARIANT BudgetIsCeiling
