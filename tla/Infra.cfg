SPECIFICATION Spec
CONSTANTS
    m = m
    w = w
    b = b
    d = d
    Servers <- MCServers
    Volumes <- MCVolumes
    Configs <- MCConfigs
    Foreign = {}
    MaxEdits = 2
    MaxMishaps = 1
INVARIANTS
    TypeOK
    ReadyWhenDeployed
    DestroyIsThorough
PROPERTIES
    DataKept
    Settles
