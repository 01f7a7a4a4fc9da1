------------------------------ MODULE Detector ------------------------------
(***************************************************************************)
(* What `dockvault scan` and `generate` make of the Docker host:           *)
(* internal/detector (ScanVolumes and the naming rules).                   *)
(*                                                                         *)
(* A volume is attributed to the containers that mount it, among those     *)
(* that run and can be inspected: their images and ports tell its service, *)
(* their environments its credentials, and all of them its job name.       *)
(***************************************************************************)
EXTENDS Naturals, Sequences

CONSTANTS
    Volumes,     \* the host's volumes, a sequence in the order of their names
    Containers,  \* its containers, a sequence in the order of docker ps
    Image,       \* Image[c]: the service that the image name of c tells
    Ports,       \* Ports[c]: the services that the exposed ports of c suggest
    Mounts,      \* Mounts[c]: the volumes that c mounts
    Env,         \* Env[c]: the part of its environment that may be credentials
    Suffix       \* Suffix[v][p]: what volumeSuffix leaves of v for a prefix p

Generic == "generic"
Databases == {"postgres", "mysql", "mongodb"}
Services == Databases \cup {"redis", "n8n", "rabbitmq", Generic}
Keys == {"DB", "PASSWORD", "USER"}

Elements(s) == {s[i] : i \in DOMAIN s}
Distinct(s) == \A i, j \in DOMAIN s : s[i] = s[j] => i = j
Restricted(f, S) == [x \in DOMAIN f \cap S |-> f[x]]

VolumeNames == Elements(Volumes)
ContainerNames == Elements(Containers)

ASSUME HostAssumption ==
    /\ Volumes \in Seq(STRING) /\ Distinct(Volumes)
    /\ Containers \in Seq(STRING) /\ Distinct(Containers)
    /\ \A c \in ContainerNames :
        /\ Image[c] \in Services /\ Ports[c] \subseteq Databases \cup {"redis"}
        /\ Mounts[c] \subseteq VolumeNames
        /\ DOMAIN Env[c] \subseteq Keys
        /\ \A k \in DOMAIN Env[c] : Env[c][k] \in STRING
    /\ \A v \in VolumeNames : \A p \in Services \cup ContainerNames : Suffix[v][p] \in STRING
-----------------------------------------------------------------------------
(* CredentialEnvKeysFor: POSTGRES_USER, MYSQL_USER and so on are all USER. *)
CredentialKeys(service) ==
    IF service \in Databases THEN Keys ELSE IF service = "redis" THEN {"PASSWORD"} ELSE {}

(* The keys known for the image's service, and whatever looks like a       *)
(* secret.                                                                 *)
ExtractCredentials(c) == Restricted(Env[c], CredentialKeys(Image[c]) \cup {"PASSWORD"})

(* A name is the sequence of the parts that sanitizeComponent joins. *)
GenerateJobName(v, service, creds) ==
    IF service \in Databases /\ "DB" \in DOMAIN creds /\ creds["DB"] # ""
    THEN <<service, creds["DB"]>>
    ELSE IF service \in Databases /\ "USER" \in DOMAIN creds
    THEN <<service, "user", "backup">>
    ELSE IF service # Generic /\ Suffix[v][service] # ""
    THEN <<service, Suffix[v][service]>>
    ELSE <<service, "backup">>

(* The containers that the scan finds to mount a volume, as positions in   *)
(* the list of docker ps, and the first of several.                        *)
Users(v, seen) ==
    {i \in DOMAIN Containers : Containers[i] \in seen /\ v \in Mounts[Containers[i]]}
First(users) == Containers[CHOOSE i \in users : \A j \in users : i <= j]

(* Generic jobs are told apart by the first container, if there is one. *)
JobName(v, users, service, creds) ==
    IF service # Generic \/ users = {} THEN GenerateJobName(v, service, creds)
    ELSE IF Suffix[v][First(users)] = "" THEN <<First(users)>>
    ELSE <<First(users), Suffix[v][First(users)]>>

\* The users whose image tells a service.
Told(users) == {i \in users : Image[Containers[i]] # Generic}

(* The first user whose image tells a service, or the first one of all. *)
Target(users) == IF Told(users) = {} THEN First(users) ELSE First(Told(users))

(* DetectServiceTypeFromPort of the ports of each container: inspect lists *)
(* them in the order of a Go map, so any of several may come first.        *)
PortHints ==
    {hint \in [ContainerNames -> Services] :
        \A c \in ContainerNames :
            IF Ports[c] = {} THEN hint[c] = Generic ELSE hint[c] \in Ports[c]}

(* The service of a volume: ports count only if no image tells one. *)
ServiceOf(users, hint) ==
    IF users = {} THEN Generic
    ELSE IF Told(users) # {} THEN Image[Target(users)]
    ELSE hint[Target(users)]

NoCredentials == [k \in {} |-> ""]

\* Mutant of CredentialsOf: the first user's, whatever it runs.
CredentialsOfFirst(users) ==
    IF users = {} THEN NoCredentials ELSE ExtractCredentials(First(users))

(* The credentials of the container that told the service. *)
CredentialsOf(users) ==
    IF users = {} THEN NoCredentials ELSE ExtractCredentials(Target(users))

VolumeInfo(v, users, hint) ==
    LET creds == CredentialsOf(users)
        service == ServiceOf(users, hint)
    IN [volume |-> v, containers |-> users, service |-> service, creds |-> creds,
        name |-> JobName(v, users, service, creds)]

(* The result of a scan that sees the containers in seen: one VolumeInfo   *)
(* per volume, in the order of the volumes' names.                         *)
ScanVolumes(seen, hint) ==
    [i \in DOMAIN Volumes |-> VolumeInfo(Volumes[i], Users(Volumes[i], seen), hint)]
=============================================================================
