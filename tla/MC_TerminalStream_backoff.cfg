\* Three connections: two starts that fail in a row, and room for a third.
CONSTANTS
    Sizes <- PaneSizes
    DefaultSize <- PtySize
    Keep = 2
    MaxAttempts = 3
    MaxOutput = 3
    MaxConnects = 3
    MaxResizes = 0
SPECIFICATION StreamSpec
INVARIANT BackoffGrows
\* Connections and output are bounded.
CHECK_DEADLOCK FALSE
