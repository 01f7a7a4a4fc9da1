--------------------------- MODULE MCRedisBackup ---------------------------
(* An older local copy, beside those of the goroutines. *)
EXTENDS RedisBackup

OlderCopy ==
    {[name |-> 0, mtime |-> 0, snap |-> 0, whole |-> TRUE, open |-> {}, mixed |-> FALSE]}
=============================================================================
