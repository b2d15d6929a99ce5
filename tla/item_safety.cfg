CONSTANTS
    Absent = Absent
    i1 = i1
    i2 = i2
    n1 = n1
    n2 = n2
    Items = {i1, i2}
    Names = {n1}
    Formatted <- SameNames
    Deployments = {}
    Types = {"Opaque", "tls"}
    MaxVersion = 2
    Tagging = {FALSE}
    ItemSpecs <- TwoPaths
    DeploymentSpecs = {}
SPECIFICATION Spec
INVARIANTS TypeOK FinalizerProtocol NoOrphanSecret
PROPERTIES VersionNeverRegresses
