\* A volume whose sidecar docker lists before its database.
CONSTANTS
    Volumes <- HostVolumes
    Containers <- HostContainers
    Image <- HostImage
    Ports <- HostPorts
    Mounts <- HostMounts
    Env <- HostEnv
    Suffix <- HostSuffix
    Hooks <- TwoHooks
    Typed = {"pw"}
    Trimmed <- TrimEnd
    MaxCommands = 2  MaxChoices = 2
SPECIFICATION Spec
INVARIANT RunsInItsContainer
CHECK_DEADLOCK FALSE
