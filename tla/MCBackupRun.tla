---------------------------- MODULE MCBackupRun ----------------------------
(* Job lists for model checking. Folders: the environment's, the host's    *)
(* and one per service type, as in /<environment>/<hostname>/<type>/<job>. *)
EXTENDS BackupRun

\* What the jobs of a volume have, and those of a service.
Volume == {"volume"}
Service == {"container", "volume"}

\* A volume without a path, listed twice, an n8n instance, a broker, a job of an
\* unknown type, and a database with its credentials and one without.
SevenJobs == <<
    [name |-> "v", type |-> "standard", container |-> "", given |-> Volume, dirs |-> {}],
    [name |-> "n1", type |-> "n8n", container |-> "c1", given |-> Service,
     dirs |-> {"host", "n1"}],
    [name |-> "q", type |-> "rabbitmq", container |-> "b", given |-> Service,
     dirs |-> {"host", "q"}],
    [name |-> "x", type |-> "plugin", container |-> "", given |-> Volume,
     dirs |-> {"host", "x"}],
    [name |-> "p", type |-> "postgres", container |-> "p", dirs |-> {},
     given |-> Service \cup {"POSTGRES_USER", "POSTGRES_DB"}],
    [name |-> "m", type |-> "mysql", container |-> "m", given |-> Service, dirs |-> {}],
    [name |-> "v", type |-> "standard", container |-> "", given |-> Volume, dirs |-> {}] >>

\* Two volumes of one n8n container.
OneContainer == <<
    [name |-> "data", type |-> "n8n", container |-> "c1", given |-> Service,
     dirs |-> {"host", "data"}],
    [name |-> "files", type |-> "n8n", container |-> "c1", given |-> Service,
     dirs |-> {"host", "files"}] >>

\* One n8n instance and one plain volume.
TwoJobs == <<
    [name |-> "n1", type |-> "n8n", container |-> "c1", given |-> Service,
     dirs |-> {"host", "n1"}],
    [name |-> "v", type |-> "standard", container |-> "", given |-> Volume,
     dirs |-> {"host", "v"}] >>
=============================================================================
