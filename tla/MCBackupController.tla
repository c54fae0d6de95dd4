------------------------- MODULE MCBackupController -------------------------
EXTENDS BackupController

\* A compressed backup, then a plain one: the wizard's files and database.
MCPlans == {<<"backup", "plain">>}
MCAsked == {"restore", "import", "other"}
=============================================================================
