\* All graphs of three services; a chain of two rolled out.
CONSTANTS
    Names <- Three
    Graphs <- AllGraphs
    Deployed <- OneChain
    Setups <- SomeSetups
    MaxRestarts = 1
SPECIFICATION RolloutSpec
CHECK_DEADLOCK FALSE
INVARIANTS TypeOK OrderIsComplete DependenciesFirst DependenciesServe MissingImagesStop
PROPERTY GoodDeploysSucceed
