\* The browser's types, with the node reorganising the chain under the GUI.
CONSTANTS
    g = g  b1 = b1  b2 = b2  c1 = c1  fallback = fallback
    Blocks <- MCBlocks
    Genesis <- g
    BTime <- MCBTime
    Targets = {1, 2, 3}
    MaxHeight = 2
    FallbackKnown = FALSE
    Fallback <- fallback
SPECIFICATION BrowserSpec
INVARIANT BrowserTypeOK
