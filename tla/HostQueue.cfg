SPECIFICATION PromptSpec
CONSTANTS
    c1 = c1
    c2 = c2
    c3 = c3
    c4 = c4
    h1 = h1
    h2 = h2
    None = None
    Calls = {c1, c2, c3, c4}
    Hosts = {h1}
    Gap = 1
    TTL = 1
    MaxTime = 2
SYMMETRY Symmetry
INVARIANTS
    Spaced
