---------------------------- MODULE MCDispatcher ----------------------------
(* Instances of Dispatcher for TLC: cuts of the shipped manager list.      *)
EXTENDS Dispatcher

\* The parameters are one of DeviceInfo, one below X_RDK_WebConfig and one of
\* InterfaceStack; no list of MCConfs has managers for both of the last two.
MCParams == {"mac", "webcfg", "stack"}
MCPrefixes == {"DeviceInfo", "InterfaceStack", "X_RDK_WebConfig", "X_RDK_"}
MCCovers == {<<"DeviceInfo", "mac">>, <<"InterfaceStack", "stack">>,
             <<"X_RDK_WebConfig", "webcfg">>, <<"X_RDK_", "webcfg">>}
MCManagers == {"deviceMgr", "ifStackMgr", "rdkProfileMgr"}

Clients(threads, ops, params, notifiers) ==
  [threads |-> threads, ops |-> ops, params |-> params, notifiers |-> notifiers]

\* Three callers that all want DeviceInfo, with attribute requests or with the
\* GET of the source; two that use both, on every parameter; two whose SETs
\* push notifications beside attribute requests.
MCLoads ==
  {Clients({"iarm", "rbus", "updater"}, {"get", "set", "setattr", "update"}, {"mac"}, {}),
   Clients({"iarm", "rbus", "updater"}, {"get", "set", "update", "source"}, {"mac"}, {}),
   Clients({"iarm", "updater"}, {"get", "set", "setattr", "update", "source"}, MCParams, {}),
   Clients({"iarm", "client"}, {"set", "getattr"}, MCParams, {"set"})}
\* A GET beside a SET that pushes a notification.
InvertingLoads == {Clients({"iarm", "client"}, {"get", "set"}, MCParams, {"set"})}

Line(p, m) == [prefix |-> p, mgr |-> m]
Unnamed == "webConfigMgr"

\* The lines of the shipped list around the manager that is not built.
ShippedConfs ==
  {<<Line("DeviceInfo", "deviceMgr"), Line("InterfaceStack", "ifStackMgr"),
     Line("X_RDK_WebConfig", Unnamed), Line("X_RDK_", "rdkProfileMgr")>>}

\* That list without the line of InterfaceStack, a list that names a prefix
\* twice, and one whose first line names no manager that is built.
MCConfs ==
  {<<Line("DeviceInfo", "deviceMgr"), Line("X_RDK_WebConfig", Unnamed),
     Line("X_RDK_", "rdkProfileMgr")>>,
   <<Line("InterfaceStack", "ifStackMgr"), Line("DeviceInfo", "deviceMgr"),
     Line("InterfaceStack", "rdkProfileMgr")>>,
   <<Line("X_RDK_WebConfig", Unnamed), Line("DeviceInfo", "deviceMgr")>>}
=============================================================================
