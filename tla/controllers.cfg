CONSTANTS
    Absent = Absent
    i1 = i1
    n1 = n1
    N1 = N1
    d1 = d1
    Items = {i1}
    Names = {n1}
    Formatted <- Spellings
    Deployments = {d1}
    Types = {"Opaque"}
    MaxVersion = 1
    Tagging = {FALSE}
    ItemSpecs <- Resource
    DeploymentSpecs <- AnyDeployment
SPECIFICATION FairControllersSpec
INVARIANTS EverySecretOwned
PROPERTIES SharedSecretConverges NothingLeftOfEither
