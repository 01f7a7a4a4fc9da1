\* Two invocations, of either kind, with edits between, failures and kills.
CONSTANTS
    Volumes <- HostVolumes
    Containers <- HostContainers
    Image <- HostImage
    Ports <- HostPorts
    Mounts <- HostMounts
    Env <- HostEnv
    Suffix <- HostSuffix
    Hooks <- TwoHooks
    Typed = {"pw"}
    Trimmed <- TrimEnd
    MaxCommands = 2  MaxChoices = 2
SPECIFICATION Spec
INVARIANTS TypeOK RoundTrip DamageIsBounded CredentialsOfService EveryVolumeHasJob
CHECK_DEADLOCK FALSE
