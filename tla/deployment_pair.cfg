CONSTANTS
    Absent = Absent
    i1 = i1
    n1 = n1
    N1 = N1
    d1 = d1
    d2 = d2
    Items = {i1}
    Names = {n1}
    Formatted <- Spellings
    Deployments = {d1, d2}
    Types = {"Opaque"}
    MaxVersion = 2
    Tagging = {FALSE}
    ItemSpecs = {}
    DeploymentSpecs <- Owners
SPECIFICATION SteadyDepSpec
INVARIANTS DepSystemTypeOK SecretOwned
PROPERTIES DepConverges NothingLeftBehind DepDeletionCompletes
