CONSTANT Samples <- AllSamples

SPECIFICATION Spec

INVARIANT ValidatorAccepts
