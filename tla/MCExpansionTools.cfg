CONSTANTS
    Programs = {"single_shot_expansion", "external_corpora_expansion",
        "external_corpus_expansion", "external_corpus_sampler",
        "train_corpus_sampler"}
    Words = {"a", "b", "c"}
    Queries <- MCQueries
    Collections <- MCCollections
    Lambda <- MCLambda
    GenQueries = 1
    Unit = 6
    MinTerms = 1
    MaxTerms = 2
    Grain = 3
    Common = 3782
SPECIFICATION FairSpec
INVARIANT TypeOK
INVARIANT ExpansionIsRelevanceModel
INVARIANT QueriesKeepTheirWords
INVARIANT FusionIsOfAllRuns
INVARIANT UndefinedOnlyIf
PROPERTY Answered
