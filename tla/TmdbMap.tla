------------------------------ MODULE TmdbMap ------------------------------
(***************************************************************************)
(* What a TMDB database promises to handles that insert and fetch: a map   *)
(* from keys to values on which every call takes effect at one moment      *)
(* between its start and its return.  An insert of a key that is there     *)
(* changes nothing.  A handle may be killed at any time; its call has then *)
(* taken effect, or it never will.                                         *)
(***************************************************************************)
EXTENDS TmdbCalls

VARIABLES
  map,    \* the value of each key
  phase,  \* where each handle is in its call
  asked,  \* the call each handle is in
  got     \* what a fetch has found

vars == <<map, phase, asked, got>>

Init ==
  /\ map   = [k \in Key |-> Absent]
  /\ phase = [h \in Handle |-> "idle"]
  /\ asked = [h \in Handle |-> NoCall]
  /\ got   = [h \in Handle |-> Absent]

Begin(h) ==
  /\ phase[h] = "idle"
  /\ phase' = [phase EXCEPT ![h] = "called"]
  /\ \E c \in Calls : asked' = [asked EXCEPT ![h] = c]
  /\ UNCHANGED <<map, got>>

Insert(h) ==
  /\ phase[h] = "called" /\ asked[h].kind = "INSERT"
  /\ phase' = [phase EXCEPT ![h] = "done"]
  /\ map'   = [map EXCEPT ![asked[h].key] = IF @ = Absent THEN asked[h].value ELSE @]
  /\ UNCHANGED <<asked, got>>

Fetch(h) ==
  /\ phase[h] = "called" /\ asked[h].kind = "FETCH"
  /\ map[asked[h].key] # Absent
  /\ phase' = [phase EXCEPT ![h] = "done"]
  /\ got'   = [got EXCEPT ![h] = map[asked[h].key]]
  /\ UNCHANGED <<map, asked>>

Leave(h, to) ==
  /\ phase' = [phase EXCEPT ![h] = to]
  /\ asked' = [asked EXCEPT ![h] = NoCall]
  /\ got'   = [got EXCEPT ![h] = Absent]
  /\ UNCHANGED map

Return(h) == phase[h] = "done" /\ Leave(h, "idle")

\* Killed, or ended by a fetch of a key that is not there.
Die(h) == phase[h] # "ended" /\ Leave(h, "ended")

Open(h) == phase[h] = "ended" /\ Leave(h, "idle")

Next ==
  \E h \in Handle : \/ Begin(h) \/ Insert(h) \/ Fetch(h)
                    \/ Return(h) \/ Die(h) \/ Open(h)

Spec == Init /\ [][Next]_vars
=============================================================================
