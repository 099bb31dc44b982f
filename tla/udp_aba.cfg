SPECIFICATION UdpSpec
CONSTANTS
    Clients = {a1}
    Sessions = {s1, s2}
    UdpTargets = {u1}
    UdpNone = UdpNone
PROPERTY ActiveSessionKept
