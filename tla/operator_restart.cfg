CONSTANTS
    Absent = Absent
    i1 = i1
    i2 = i2
    n1 = n1
    d1 = d1
    Items = {i1}
    Names = {n1}
    Formatted <- SameNames
    Deployments = {d1}
    Types = {"Opaque"}
    MaxVersion = 2
    Tagging = {FALSE}
    ItemSpecs <- Plain
    DeploymentSpecs <- AutoRestarted
    NamespaceSetting = "unset"
    RestartGlobally = FALSE
    WatchNamespaces = FALSE
SPECIFICATION FairCalmSpec
PROPERTIES RestartFollowsUpdate
