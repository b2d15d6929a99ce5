CONSTANTS
    Absent = Absent
    i1 = i1
    i2 = i2
    n1 = n1
    d1 = d1
    Items = {i1}
    Names = {n1}
    Formatted <- SameNames
    Deployments = {}
    Types = {"Opaque"}
    MaxVersion = 2
    Tagging = {TRUE, FALSE}
    ItemSpecs <- Plain
    DeploymentSpecs = {}
    NamespaceSetting = "unset"
    RestartGlobally = FALSE
    WatchNamespaces = FALSE
SPECIFICATION FairItemSpec
PROPERTIES OperatorConverges DeletionCompletes
