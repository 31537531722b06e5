SPECIFICATION Spec
CONSTANTS
  s1 = s1
  s2 = s2
  bs = bs
  a1 = a1
  a2 = a2
  a3 = a3
  g1 = g1
  g2 = g2
  u = u
  DhcpServers = {s1}
  BootpServers = {bs}
  Pool <- MCPool
  Gateways <- MCGateways
  ExtGateway = g2
  Refusing = {s1}
  Manual = {u, s1}
  MAX_BOOTP_RETRIES = 1
  MAX_ARP_RETRIES = 2
  MaxBootp = 1
  MaxOther = 3
  MaxFaults = 0
INVARIANT ArpFresh
CHECK_DEADLOCK FALSE
