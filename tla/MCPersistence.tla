------------------------------ MODULE MCPersistence ------------------------------
EXTENDS Persistence, TLC
CONSTANTS exe, dll, run, link
MCKind == run :> "registry_run" @@ link :> "startup_link"
MCTarget == run :> exe @@ link :> dll
=============================================================================
