---------------------------- MODULE MCRemoteBackup ----------------------------
\* A scheduled run and one the GUI starts, of one remote job.
EXTENDS RemoteBackup
CONSTANTS fired, gui
=============================================================================
