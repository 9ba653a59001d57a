------------------------ MODULE MCConfigController ------------------------
(* Values of the constants of ConfigController for TLC. *)
EXTENDS ConfigController

OneBuild == {"v1"}
TwoBuilds == {"v1", "v2"}
MCVersionOf == [b \in Builds |-> b]
MCUUIDOf == [b \in Builds |-> ""]
SameVersion == [b \in Builds |-> "v"]
OwnUUID == [b \in Builds |-> b]

NoPairs == {}
FirstToSecond == {<<"v1", "v2">>}

OneNamespace == {"pipelines"}
TwoNamespaces == {"pipelines", "other"}

\* How often the environment may do what it owes nobody.
Nothing == [h \in Hazards |-> 0]
OneFault == [Nothing EXCEPT !["fault"] = 1]
DeleteOnce == [Nothing EXCEPT !["create"] = 1, !["delete"] = 1]
Recreate == [DeleteOnce EXCEPT !["create"] = 2]
CrashAndDelete == [DeleteOnce EXCEPT !["crash"] = 1]
FaultCrashDelete == [CrashAndDelete EXCEPT !["fault"] = 1]
FaultEditDelete == [DeleteOnce EXCEPT !["fault"] = 1, !["edit"] = 1]
FaultStallCrash == [OneFault EXCEPT !["stall"] = 1, !["crash"] = 1]
=============================================================================
