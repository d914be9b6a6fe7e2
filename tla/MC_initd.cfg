CONSTANTS
    NameOrder <- MC_NameOrder
    DotNames = {".", "..", ".h"}
SPECIFICATION ISpec
INVARIANT EveryScriptOnce
