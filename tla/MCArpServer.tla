----------------------------- MODULE MCArpServer -----------------------------
(* Model-checking instance of ArpServer: questions about a station outside *)
(* the subnet, which the gateway stands for.                               *)
EXTENDS ArpServer

Ip(n, o) == [net |-> n, octet |-> o]
GatewayIp == Ip("mine", 0)
Outside == {Ip("far", 1)}
GatewayOnly == {GatewayIp}
OwnNet == {"mine"}
=============================================================================
