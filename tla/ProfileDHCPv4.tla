--------------------------- MODULE ProfileDHCPv4 ---------------------------
(***************************************************************************)
(* The Device.DHCPv4 profile: a client per default route.  All clients     *)
(* answer through the static structure dhcpClient.                         *)
(***************************************************************************)
EXTENDS Getters

(* A SetAttributes leaves its entry in the notify table.                   *)
Attributes == "kept"

(* Without a default route of that number every parameter is an error.     *)
(* With one the return code of getInterfaceName stays OK: an interface     *)
(* that no Device.IP.Interface row names is answered with the field as the *)
(* client asked before left it, a command that fails with an empty field.  *)
ClientFields ==
    [p \in {"Interface", "DNSServers", "IPRouters"} |->
        Via(Handle("nok", IF p = "Interface" THEN "stale" ELSE "default"), p)]
ClientGetters ==
    [p \in DOMAIN ClientFields |-> Tracked(ClientFields[p], p)]
    @@ All({"NumberOfEntries"}, Live("nok"))
ClientGets  == Same(DOMAIN ClientGetters)
ClientClass == Class("own", "lazy", Attributes)
=============================================================================
