SPECIFICATION Spec
CONSTANTS
    TextBounds <- MCBounds
INVARIANTS
    TagsAreNested
    ResultsAreOwn
    PagesAgree
CHECK_DEADLOCK FALSE
