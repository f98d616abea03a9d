\* Every modelled valid input; each verification parses once and returns.
CONSTANT Inputs <- MCInputs
SPECIFICATION Spec
INVARIANT ParseRecoversBinding
CHECK_DEADLOCK FALSE
