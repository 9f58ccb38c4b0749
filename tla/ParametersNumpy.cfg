SPECIFICATION Spec
CONSTANTS
    MaxArgs = 3
    Declarations <- BlockParameters
    Arguments <- NumpyArguments
INVARIANT ParametersHonoured
