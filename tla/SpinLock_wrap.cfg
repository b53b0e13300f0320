CONSTANTS
    CPUs = {c1}
    M = 4
SPECIFICATION Spec
INVARIANT WrappingIsValid
