----------------------------- MODULE CacheCalls -----------------------------
(***************************************************************************)
(* The calls of CachelibClient and the data they carry, shared by the      *)
(* session protocol (ShmSession) and by what it promises (CacheService).   *)
(*                                                                         *)
(* A value is the pair of the key it was written under and a datum, so     *)
(* that a value which turns up under another key is visible as such.       *)
(***************************************************************************)
CONSTANTS
  Session,  \* one CachelibClient and the server thread that serves it
  Key,      \* keys as the server sees them: pool name, "_", client key
  Data,     \* payloads
  NoKey,    \* the key field of zero bytes
  NoValue,  \* the empty string: a cleared buffer, and the answer of a miss
  Kinds     \* the calls the clients make, besides the destructor

ASSUME KindsAssumption == Kinds \subseteq {"SET", "GET", "DEL"}
ASSUME NoneAssumption  == NoKey \notin Key /\ NoValue \notin Key \X Data

Value      == Key \X Data
ValueOf(k) == {k} \X Data
Content    == Value \cup {NoValue}

\* setKV(key, value), getKV(key) and delKV(key), and ~CachelibClient().
SetCalls  == {[ctrl |-> "SET", key |-> v[1], value |-> v] : v \in Value}
KeyCalls  == [ctrl : {"GET", "DEL"}, key : Key, value : {NoValue}]
CloseCall == [ctrl |-> "CLOSE", key |-> NoKey, value |-> NoValue]
NoCall    == [ctrl |-> "NONE", key |-> NoKey, value |-> NoValue]
Calls     == {c \in SetCalls \cup KeyCalls : c.ctrl \in Kinds} \cup {CloseCall}
=============================================================================
