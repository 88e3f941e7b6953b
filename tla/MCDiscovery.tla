---------------------------- MODULE MCDiscovery -----------------------------
(* Two devices and this one on a subnet of two hosts and an IPv6 address;  *)
(* in the second network the devices have changed places.                  *)
EXTENDS Discovery

MCHosts == {"h1", "h2", "h6"}
Secure(d) == [dev |-> d, proto |-> "https"]
Plain(d) == [dev |-> d, proto |-> "http"]

MCSubnetOf == [i \in {"eth"} |-> {"h1", "h2"}]
MCNetworks == {
    [h \in MCHosts |-> CASE h = "h1" -> Secure("a") [] h = "h2" -> Secure("own") [] h = "h6" -> Plain("a")],
    [h \in MCHosts |-> CASE h = "h1" -> None [] h = "h2" -> Secure("a") [] h = "h6" -> Plain("b")]}
MCPeersAt == [h \in MCHosts |->
    CASE h = "h1" -> {None, Secure("b"), Plain("a")} [] h = "h2" -> {Secure("a")} [] h = "h6" -> {Plain("b")}]
=============================================================================
