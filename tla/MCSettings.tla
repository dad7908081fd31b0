----------------------------- MODULE MCSettings -----------------------------
EXTENDS Settings, TLC

CONSTANTS lan, ru4  \* an address on the local network, a Russian one

Symmetry == Permutations(Callers) \cup Permutations(Ids)

\* Host names and addresses in every relation to the lists below.
MCNames == {<<"vk", "ru">>, <<"m", "vk", "ru">>, <<"vk", "ru", "org">>, <<"org">>, <<"node", "net">>}
MCGeoSite == {<<"vk", "ru">>, <<"m", "vk", "ru">>}
MCNode == <<"node", "net">>

Domain(dot, labels) == [dot |-> dot, slash |-> FALSE, labels |-> labels, addrs |-> {}]
Range4(addrs) == [dot |-> FALSE, slash |-> TRUE, labels |-> <<>>, addrs |-> addrs]
MCLists == {{}, {Domain(TRUE, <<"vk", "ru">>), Domain(FALSE, <<"org">>), Range4({lan})}}
=============================================================================
