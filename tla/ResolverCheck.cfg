SPECIFICATION Spec
CONSTANTS
    Procs = {p1, p2}
    Ports = {80, 5354}
    None = None
    Cut = Cut
    Options <- DefaultAndCrossed
    DnsPort = 5354
    ProxyPort = 80
INVARIANTS
    ConfiguredMeansResolving
