----------------------------- MODULE TmdbCalls -----------------------------
(***************************************************************************)
(* The calls a handle of a TMDB database makes, shared by the store        *)
(* (Tmdb) and by what it promises (TmdbMap).                               *)
(***************************************************************************)
CONSTANTS
  Handle,  \* an open TDB: a process, or a thread, with files of its own
  Key,
  Data,    \* values, one word of text each
  Absent,  \* no value
  Kinds    \* the calls the handles make

ASSUME KindsAssumption == Kinds \subseteq {"INSERT", "REPLACE", "STORE", "FETCH", "DELETE"}
ASSUME TextAssumption  == 0 \notin Key \cup Data /\ Absent \notin Data

Stores == {"INSERT", "REPLACE", "STORE"}

\* tdb_store in its three modes, tdb_fetch and tdb_delete.
NoCall == [kind |-> "NONE", key |-> Absent, value |-> Absent]
Calls  == {c \in [kind : Stores, key : Key, value : Data]
                 \cup [kind : {"FETCH", "DELETE"}, key : Key, value : {Absent}] :
             c.kind \in Kinds}
=============================================================================
