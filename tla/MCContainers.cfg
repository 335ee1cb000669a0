SPECIFICATION Spec
CONSTANTS
    VecEls = {"x", "y"}
    MaxVec = 4
    MaxNew = 2
    Chars = {"x", "y"}
    Modes = {"dec", "hex"}
    Numbers = {10}
    Shown <- MCShown
    Texts <- MCTexts
    Formats <- MCFormats
    MaxStr = 4
    ListEls = {"x", "y"}
    MaxNodes = 3
    Keys = {"a", "b", "c", "d"}
    Pairs <- MCMapPairs
    Hashes <- MCHashes
    Loads <- MCLoads
    FragUnit = 16
    MinCap = 4
    DispMask = 3
    MaxCap = 16
    Reserved = {4}
    TreeKeys = {1, 2, 3, 4, 5, 6, 7}
    TreePairs <- MCPairs
PROPERTIES VecIsItems StringIsItems ListsAreItems MapIsDictionary TreeIsDictionary
INVARIANTS SizeIsLength FormatsAsMeasured WalksAgree ChainsRight RedBlack InOrder
CHECK_DEADLOCK FALSE
