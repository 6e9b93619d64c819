SPECIFICATION Spec
CONSTANTS
    Cap = 6
    Key = {j, k}
    Val = {short, long}
    short = short
    long = long
    Size <- WithEmpty
    NoKey = NoKey
    NoVal = NoVal
INVARIANT TypeOK
INVARIANT LogIsReadable
INVARIANT AnswersAreTrue
PROPERTY ImplementsStore
SYMMETRY Symmetry
