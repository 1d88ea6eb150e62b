CONSTANTS
    K = 2
    Docs = {d1, d2, d3, d4}
    Scores <- MCScores
SPECIFICATION Spec
INVARIANT TypeOK
INVARIANT KeepsTheBest
INVARIANT WouldEnterIsRight
INVARIANT ResultIsTopK
PROPERTY BarNeverFalls
