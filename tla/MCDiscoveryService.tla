------------------------- MODULE MCDiscoveryService -------------------------
(* Two interfaces, one with an IPv4 and one with an IPv6 address only.     *)
EXTENDS DiscoveryService

MCNames == {"eth", "wlan"}
MCAddressesOf == [i \in MCNames |-> IF i = "eth" THEN {"a4"} ELSE {"b6"}]
MCV6 == {"b6"}
MCFilters == {[whitelist |-> Nobody, blacklist |-> {"a4"}],
              [whitelist |-> {"a4", "b6"}, blacklist |-> Nobody]}
=============================================================================
