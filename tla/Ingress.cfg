\* Two domains, three commits or teardowns, two faults.
CONSTANTS
    a = a
    b = b
    Domains = {a, b}
    MaxEdits = 3
    MaxFaults = 2
    MaxTunnels = 4
SPECIFICATION IngressSpec
INVARIANTS TypeOK WiredWhenDone NoChangesIsServed OneIngress OrphansRemoved
PROPERTIES RedeployKeepsServing CaddyReconverges
