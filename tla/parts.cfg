CONSTANTS
    MaxLength = 3
    MaxText = 5
    Names = {n1, n2}
    Unnamed = Unnamed
    MaxVolumes = 2
    MaxSources = 2
    Labels <- SomeLabels
    Values = {"x", "y"}
    Empty = "empty"
    NoValue = NoValue
    AllowEmpty = FALSE
    MaxEntries = 3
    VaultIds = {"v1", "v2"}
    ItemIds = {"x1", "x2"}
    Titles = {"work", "V1", "x1"}
    UuidLike = {"v1", "v2", "x1", "x2"}
    Folded <- SomeFolded
    MaxTime = 4
    FileIds = {"f1", "f2"}
    MaxEdits = 3
    MaxRetries = 5
    Pods = {"r1", "r2"}
    Environments <- SomeEnvironments
    Second = 10
    Width = 128
    DefaultInterval = 6
SPECIFICATION FairSpec
INVARIANTS
    NameIsIdempotent NameKeepsContent KeyKeepsContent
    RestartRuleFindsUsers DeleteRuleWithinRestartRule
    FieldsBeforeFiles PrimaryPreferred DataIsDeterminate
    CanonicalPathResolves FailureRedirectsToNamesakes
    CurrentLabelCurrentFiles StartupTypeOK PolledAsAsked
PROPERTIES
    NewcomersNeverChosen LoadEnds RefusedChangesNothing ConnectDeployed
