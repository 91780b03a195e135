\* Three moves: a child is created, its panel is saved, the page is loaded again.
CONSTANTS
    sentiph = sentiph
    child = child
    Sentiph = sentiph
    Terminals = {sentiph, child}
    None = None
    MaxMoves = 3
SPECIFICATION CanvasSpec
INVARIANT PanelsAreRestored
\* Every bound on the moves comes to an end.
CHECK_DEADLOCK FALSE
