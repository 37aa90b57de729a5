------------------------------- MODULE Purls -------------------------------
(***************************************************************************)
(* Persistent URLs: which names lead to which documents of an index, and   *)
(* which persistent URLs Lux prints.  A name is the last part of a purl;   *)
(* ids of documents and persistent ids are both names.                     *)
(***************************************************************************)
CONSTANTS
  Names,     \* ids and persistent ids
  Cor,       \* the names that contain "-cor"
  NoDoc,     \* no document has the id
  NoName     \* a document without a persistent id; a page without a purl

ASSUME NamesAssumption == Cor \subseteq Names /\ NoName \notin Names

(***************************************************************************)
(* A document, by its id: emory_persistent_id_ssi, and whether the filter  *)
(* of every search lets it pass (a work or a collection, not restricted).  *)
(***************************************************************************)
Entry == [pid : Names \cup {NoName}, listed : BOOLEAN]

HasId(index, name) == index[name] # NoDoc

\* The documents that a search for the persistent id can return.
Carriers(index, name) ==
  {id \in Names : index[id] # NoDoc /\ index[id].listed /\ index[id].pid = name}

\* FindThisItemHelper: the id or else the persistent id, when it is a name of
\* the repository.
PrintedPurl(id, entry) ==
  IF id \in Cor THEN id ELSE IF entry.pid \in Cor THEN entry.pid ELSE NoName

\* CitationStringProcessor#url prints the id, whatever it looks like.
CitedPurl(id) == id
============================================================================
