------------------------------ MODULE MCVmBoot ------------------------------
EXTENDS VmBoot, TLC

CONSTANTS a1, a2, g4, g6, m1, m2

EthN == [i \in 1..4 |-> "eth" \o ToString(i - 1)]
SomeNicNames == {"eth0", "eth1", "lan", "wan"}

Veth(v4, v6, local, own, all) ==
  [v4 |-> v4, v6 |-> v6, local |-> local, own |-> own, all |-> all]
Gw(v4, v6) == [v4 |-> v4, v6 |-> v6]

(* A family without a gateway; two with routes of different places; nothing *)
(* usable.                                                                  *)
SomeVeths ==
  { Veth(<<a1>>, <<a2>>, <<>>, Gw(g4, NoGateway), Gw(NoGateway, NoGateway)),
    Veth(<<a1>>, <<a2>>, <<a1>>, Gw(g4, NoGateway), Gw(g6, g6)),
    Veth(<<>>, <<>>, <<a1>>, Gw(NoGateway, NoGateway), Gw(NoGateway, NoGateway)) }

UserIp == <<[ip |-> a2, gateway |-> NoGateway]>>
UserBoth == [ips |-> UserIp, mounts |-> <<m2>>]
UserMount == [ips |-> NotList, mounts |-> <<m2>>]

Bridged(user, mounts) ==
  [bridge |-> TRUE, nics |-> <<>>, iface |-> NoName, balloon |-> TRUE, vsock |-> FALSE,
   user |-> user, mounts |-> mounts, snapshot |-> TRUE]
Manual(nics, iface, user) ==
  [bridge |-> FALSE, nics |-> nics, iface |-> iface, balloon |-> FALSE, vsock |-> TRUE,
   user |-> user, mounts |-> <<m1>>, snapshot |-> TRUE]

(* A bridge with and without metadata of the user and mounts; interfaces of *)
(* the job's own, named or not, with the metadata on the second; one whose  *)
(* mmds.interface is none of them; no interface at all.                     *)
SomeJobs ==
  { [Bridged(Nothing, <<>>) EXCEPT !.iface = "eth0"], Bridged(UserBoth, <<m1>>),
    Manual(<<NoName, NoName>>, "eth1", Nothing), Manual(<<"lan", "wan">>, "wan", UserMount),
    Manual(<<"lan", "wan">>, "eth0", Nothing),
    [Manual(<<>>, NoName, Nothing) EXCEPT !.mounts = <<>>] }
===============================================================================
