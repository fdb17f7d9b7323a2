SPECIFICATION LoopSpec
CONSTANTS
    Drafts <- MCDrafts
    Options <- MCOptions
    MaxVersion = 6
INVARIANT ClaimsAreBacked
INVARIANT RubricKept
INVARIANT SpendBounded
