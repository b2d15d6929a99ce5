CONSTANTS
    Absent = Absent
    i1 = i1
    i2 = i2
    n1 = n1
    n2 = n2
    Items = {i1}
    Names = {n1}
    Formatted <- SameNames
    Deployments = {}
    Types = {"Opaque", "tls"}
    MaxVersion = 1
    Tagging = {FALSE}
    ItemSpecs <- AllEdits
    DeploymentSpecs = {}
SPECIFICATION FairStatusSpec
PROPERTIES Converges
