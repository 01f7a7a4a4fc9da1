----------------------------- MODULE MCGenerate -----------------------------
(* A host for model checking. A PostgreSQL volume is also mounted by a log *)
(* shipper that docker ps lists first; the other volume's container has a  *)
(* generic image, two well-known ports, and a password that loadEnv trims. *)
EXTENDS Generate

HostVolumes == <<"app_data", "cache">>
HostContainers == <<"shipper", "pg", "tool">>

HostImage == [shipper |-> Generic, pg |-> "postgres", tool |-> Generic]
HostPorts == [shipper |-> {}, pg |-> {"redis"}, tool |-> {"redis", "mysql"}]
HostMounts == [shipper |-> {"app_data"}, pg |-> {"app_data"}, tool |-> {"cache"}]
HostEnv ==
    [shipper |-> [PASSWORD |-> "mail"],
     pg |-> [DB |-> "app", USER |-> "u", PASSWORD |-> ""],
     tool |-> [PASSWORD |-> "pw "]]
HostSuffix ==
    [v \in VolumeNames |->
        [p \in ContainerNames \cup Services |-> IF v = "app_data" THEN "app" ELSE "cache"]]

TwoHooks == {NoHook, "url"}
TrimEnd == [x \in {"", "url", "mail", "app", "u", "pw ", "pw"} |-> IF x = "pw " THEN "pw" ELSE x]
=============================================================================
