CONSTANTS
    h1 = h1  h2 = h2  h3 = h3  h4 = h4
    NoHook = NoHook
    Hooks = {h1, h2, h3, h4}
    Priorities = {0, 1, 2}
    MAX_HOOKS_IN_CHAIN = 3
    MaxAdded = 2
    MaxRemoved = 2
SPECIFICATION Spec
INVARIANT ChainInv
SYMMETRY Perms
