SPECIFICATION Spec
CONSTANTS
    Cap = 8
    Key = {j, k}
    Val = {short, long}
    short = short
    long = long
    Size <- TwoSizes
    NoKey = NoKey
    NoVal = NoVal
INVARIANT UpdateStores
