------------------------------- MODULE MCPurl -------------------------------
(***************************************************************************)
(* PersistentUrl for TLC: names of the repository and of elsewhere, and    *)
(* documents with and without the persistent id "old".                     *)
(***************************************************************************)
EXTENDS PersistentUrl, TLC

CONSTANTS old

MCEntries == [pid : {old, NoName}, listed : BOOLEAN]
============================================================================
