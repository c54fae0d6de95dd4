-------------------------- MODULE MCDiscoverySession --------------------------
EXTENDS DiscoverySession
CONSTANTS here, there, mysql, postgresql
=============================================================================
