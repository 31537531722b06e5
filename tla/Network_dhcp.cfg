SPECIFICATION Spec
CONSTANTS
  s1 = s1
  s2 = s2
  bs = bs
  a1 = a1
  a2 = a2
  a3 = a3
  g1 = g1
  g2 = g2
  u = u
  DhcpServers = {s1, s2}
  BootpServers = {}
  Pool <- MCPool
  Gateways <- MCGateways
  ExtGateway = 0
  Refusing = {}
  Manual = {}
  MAX_BOOTP_RETRIES = 2
  MAX_ARP_RETRIES = 1
  MaxBootp = 2
  MaxOther = 0
  MaxFaults = 1
INVARIANT RequestIsOffer
PROPERTIES ReadyIsLeased CallsEnd
CHECK_DEADLOCK FALSE
