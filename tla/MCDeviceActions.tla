--------------------------- MODULE MCDeviceActions ---------------------------
(***************************************************************************)
(* A small instance of DeviceActions: two values, and one load for each    *)
(* group of requests that share state.                                     *)
(***************************************************************************)
EXTENDS DeviceActions, TLC

Flag == {"true", "false"}
Setting(p) ==
  CASE p \in {"interval", "telFreq", "dosThreshold"} -> {"a", "b", Mistyped, OutOfRange}
    [] p \in {"url"} -> {"a", "b", Mistyped}
    [] p \in {"issueType", "webCfg", "roam", "canary", "retrieveNow"} -> {"a", "b"}
    [] p = "deviceType" -> {"test", "prod"}
    [] p = "memInsight" -> {"start", "stop", Mistyped}
    [] p = "install" -> {"", "strace", "lib"}
    [] p = "blocklist" -> {{}, {<<"p", "enforce">>}, {<<"p", "disable">>}, {<<"x", "enforce">>},
                           {<<"pq", "complain">>}, {<<"p", "disable">>, <<"pq", "enforce">>}}
    [] p \in {"dbgServices", "notify"} -> Flag
    [] OTHER -> Flag \cup {Mistyped}

MCParams == {"newNTP", "dab", "tracing", "url", "interval", "issueType", "webCfg", "rebootStop",
             "rdmStatus", "loudness", "autoReboot", "roam", "telFreq", "canary", "memInsight",
             "install", "blocklist", "dbgServices", "deviceType", "notify", "dosThreshold",
             "retrieveNow"}
MCSets == [p \in MCParams |-> Setting(p)]

\* Each parameter alone; the two of the debug state, and the two of tracing,
\* together; then the operations with the parameters they read.
Load(ps, os) == [params |-> ps, ops |-> os]
MCLoads ==
  {Load({p}, {"session"}) : p \in MCParams \ {"retrieveNow"}} \cup
  {Load({"dbgServices", "deviceType"}, {"session"}), Load({"url", "interval"}, {"session"}),
   Load({}, {"reset"}), Load({}, {"download"}), Load({}, {"tunnel"}),
   Load({"notify"}, {"announce"}), Load({"notify"}, {"monitor"}),
   Load({"interval"}, {"retrieve"})}
=============================================================================
