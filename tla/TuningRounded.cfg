SPECIFICATION Spec
CONSTANTS
    NoScore = noscore
\* All labels collected.
CHECK_DEADLOCK FALSE
INVARIANTS
    RecommendsF1Best
