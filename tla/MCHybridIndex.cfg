SPECIFICATION Spec
CONSTANTS
    Inputs <- MCInputs
    BlockSize = 2
    Types = {"pfor", "varint", "interpolative"}
    Samples = 5
INVARIANT ChoiceIsOptimal
INVARIANT BuildsWhatWasChosen
