------------------------------ MODULE MCNetwork ------------------------------
(* Instances of Network: two DHCP servers and a BOOTP server at most.      *)
EXTENDS Network

CONSTANTS s1, s2, bs, a1, a2, a3, g1, g2, u

MCPool == [s \in Servers |-> IF s = s1 THEN a1 ELSE IF s = s2 THEN a2 ELSE a3]
MCGateways == [s \in Servers |-> IF s = s1 THEN g1 ELSE 0]
=============================================================================
