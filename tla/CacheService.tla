---------------------------- MODULE CacheService ----------------------------
(***************************************************************************)
(* What a session of the cache server promises to its client, without the  *)
(* semaphores and the shared memory: every call is executed by the server  *)
(* exactly once, in the order the client made the calls; setKV, delKV and  *)
(* the destructor return when the request is handed over, getKV returns    *)
(* what the cache held for its key when the server looked it up.           *)
(* The cache may drop an entry at any time, and may fail to store one: an  *)
(* entry it held under that key before then stays.                         *)
(***************************************************************************)
EXTENDS CacheCalls

VARIABLES
  cache,    \* what the cache holds for each key
  stage,    \* where each client is in its call
  calling,  \* the call each client is in
  inbox,    \* the request handed to the server and not executed yet
  answer    \* what getKV is to return

vars == <<cache, stage, calling, inbox, answer>>

Init ==
  /\ cache   = [k \in Key |-> NoValue]
  /\ stage   = [s \in Session |-> "idle"]
  /\ calling = [s \in Session |-> NoCall]
  /\ inbox   = [s \in Session |-> NoCall]
  /\ answer  = [s \in Session |-> NoValue]

Begin(s, c) ==
  /\ stage[s] = "idle"
  /\ stage'   = [stage EXCEPT ![s] = "called"]
  /\ calling' = [calling EXCEPT ![s] = c]
  /\ UNCHANGED <<cache, inbox, answer>>

\* At most one request of a session is outstanding.
HandOver(s) ==
  /\ stage[s] = "called"
  /\ inbox[s] = NoCall
  /\ inbox' = [inbox EXCEPT ![s] = calling[s]]
  /\ IF calling[s].ctrl = "GET"
       THEN /\ stage' = [stage EXCEPT ![s] = "sent"]
            /\ UNCHANGED calling
       ELSE /\ stage' = [stage EXCEPT ![s] =
                           IF calling[s].ctrl = "CLOSE" THEN "closed" ELSE "idle"]
            /\ calling' = [calling EXCEPT ![s] = NoCall]
  /\ UNCHANGED <<cache, answer>>

ExecuteSet(s) ==
  /\ inbox[s].ctrl = "SET"
  /\ \/ cache' = [cache EXCEPT ![inbox[s].key] = inbox[s].value]
     \/ UNCHANGED cache
  /\ UNCHANGED <<stage, answer>>

ExecuteGet(s) ==
  /\ inbox[s].ctrl = "GET"
  /\ stage'  = [stage EXCEPT ![s] = "answered"]
  /\ answer' = [answer EXCEPT ![s] = cache[inbox[s].key]]
  /\ UNCHANGED cache

ExecuteDel(s) ==
  /\ inbox[s].ctrl = "DEL"
  /\ cache' = [cache EXCEPT ![inbox[s].key] = NoValue]
  /\ UNCHANGED <<stage, answer>>

ExecuteClose(s) ==
  /\ inbox[s].ctrl = "CLOSE"
  /\ UNCHANGED <<cache, stage, answer>>

Execute(s) ==
  /\ ExecuteSet(s) \/ ExecuteGet(s) \/ ExecuteDel(s) \/ ExecuteClose(s)
  /\ inbox' = [inbox EXCEPT ![s] = NoCall]
  /\ UNCHANGED calling

Return(s) ==
  /\ stage[s] = "answered"
  /\ stage'   = [stage EXCEPT ![s] = "idle"]
  /\ calling' = [calling EXCEPT ![s] = NoCall]
  /\ answer'  = [answer EXCEPT ![s] = NoValue]
  /\ UNCHANGED <<cache, inbox>>

Drop(k) ==
  /\ cache' = [cache EXCEPT ![k] = NoValue]
  /\ UNCHANGED <<stage, calling, inbox, answer>>

Next ==
  \/ \E s \in Session : \/ \E c \in Calls : Begin(s, c)
                        \/ HandOver(s)
                        \/ Execute(s)
                        \/ Return(s)
  \/ \E k \in Key : Drop(k)

Spec == Init /\ [][Next]_vars
=============================================================================
