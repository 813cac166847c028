SPECIFICATION DeploysSpec
CONSTANTS
    a = a
    b = b
    web = web
    api = api
    k = k
    l = l
    m = m
    one = one
    two = two
    Absent = Absent
    Clients = {a, b}
    Services <- MCServices
    Objects <- MCObjects
    Keys = {k, l, m}
    Values = {one, two}
    Configs <- MCConfigs
    Steps = 2
    MaxFaults = 1
INVARIANTS
    TypeOK
    CommonSurvives
    TwinsConverge
PROPERTIES
    StoreIsAtomic
CHECK_DEADLOCK FALSE
