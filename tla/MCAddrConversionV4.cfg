CONSTANTS
  Octets <- MCOctets
  Ports <- MCPorts
  Loopback6 = Loopback6
  LinkLocal6 = LinkLocal6
  V6Ips = {Loopback6, LinkLocal6}
  FlowInfos = {0, 1}
  ScopeIds = {0, 2}

SPECIFICATION SpecV4
INVARIANT RoundTrip
