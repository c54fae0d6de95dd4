--------------------------- MODULE MCScheduleStore ---------------------------
\* The GUI's queue of verbs beside the run the trigger starts.
EXTENDS ScheduleStore
CONSTANTS gui, fired
=============================================================================
