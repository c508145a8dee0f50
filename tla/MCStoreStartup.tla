--------------------------- MODULE MCStoreStartup ---------------------------
EXTENDS StoreStartup

CONSTANTS m1, m2, server, cli

MCProcs == {server, cli}
MCMem == {m1, m2}
MCMigrations == 1..5
=============================================================================
