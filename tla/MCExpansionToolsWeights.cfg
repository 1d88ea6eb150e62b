CONSTANTS
    Programs = {"external_corpus_expansion"}
    Words = {"a", "b", "c"}
    Queries <- MCQueries
    Collections <- MCCollections
    Lambda <- MCLambda
    GenQueries = 1
    Unit = 6
    MinTerms = 1
    MaxTerms = 2
    Grain = 3
    Common = 3782
SPECIFICATION Spec
INVARIANT ExpandedGetTheRest
