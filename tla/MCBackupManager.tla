--------------------------- MODULE MCBackupManager ---------------------------
EXTENDS BackupManager
CONSTANTS loop, timer, service

\* The agent's loop and a timer run of the same job share a lock file and a
\* series.
SameJob == {loop, timer}
\* A service-configuration job with a lock file of its own, without
\* checksums but with metadata, cleans up the same directory.
TwoJobs == {loop, service}

DatabaseJob == [enabled |-> TRUE, lockFile |-> "run", series |-> "mysql_full_",
                checksum |-> TRUE, metadata |-> FALSE, cleanup |-> TRUE,
                retention |-> 1]
ServiceJob == [enabled |-> TRUE, lockFile |-> "tmp", series |-> "service_",
               checksum |-> FALSE, metadata |-> TRUE, cleanup |-> TRUE,
               retention |-> 1]
MCConfig == [p \in Procs |-> IF p = service THEN ServiceJob ELSE DatabaseJob]
=============================================================================
