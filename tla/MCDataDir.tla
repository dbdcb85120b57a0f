------------------------------ MODULE MCDataDir ------------------------------
(* Instances of DataDirSystem for TLC. *)
EXTENDS DataDirSystem

\* A cluster's tree: the entry that proves it, and the rest of it.
TwoEntries == {"PG_VERSION", "base"}
=============================================================================
