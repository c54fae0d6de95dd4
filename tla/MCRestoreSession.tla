--------------------------- MODULE MCRestoreSession ---------------------------
EXTENDS RestoreSession
CONSTANTS loop

\* One process that backs up and cleans up; a second run of the same second
\* takes up the name of the first.
Job == [enabled |-> TRUE, lockFile |-> "run", series |-> "files_",
        checksum |-> TRUE, metadata |-> FALSE, cleanup |-> TRUE, retention |-> 1]
MCConfig == [p \in Procs |-> Job]
=============================================================================
