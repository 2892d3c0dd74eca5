------------------------- MODULE ShmSession_proofs -------------------------
(***************************************************************************)
(* Proofs about ShmSession for any sets of sessions, keys and data.        *)
(***************************************************************************)
EXTENDS ShmSession, TLAPS

(***************************************************************************)
(* Facts about the calls.                                                  *)
(***************************************************************************)
Ctrls == {"SET", "GET", "DEL", "CLOSE"}

\* The shape of a call, by its kind.
LEMMA CallShape ==
  ASSUME NEW c \in Calls
  PROVE  /\ c \in [ctrl : Ctrls, key : Key \cup {NoKey}, value : Content]
         /\ c.ctrl = "SET" => c.key \in Key /\ c.value \in ValueOf(c.key)
         /\ c.ctrl \in {"GET", "DEL"} => c.key \in Key /\ c.value = NoValue
         /\ c.ctrl = "CLOSE" => c = CloseCall
  BY DEF Calls, SetCalls, KeyCalls, CloseCall, Ctrls, Content, Value, ValueOf

\* The request a thread serves is a call of a client.
LEMMA ServedCall ==
  ASSUME TypeOK, NEW s \in Session, SessionInv(s), thread[s] = "serve"
  PROVE  /\ message[s].ctrl \in Ctrls
         /\ message[s].ctrl \in {"SET", "GET", "DEL"} => message[s].key \in Key
         /\ message[s].ctrl = "SET" => message[s].value \in ValueOf(message[s].key)
  <1>1. Request(message[s]) \in Calls
    BY DEF SessionInv, Area, Over, Pending
  <1> QED
    BY <1>1, CallShape DEF Request, TypeOK, Ctrls

-----------------------------------------------------------------------------
(***************************************************************************)
(* Type correctness.                                                       *)
(***************************************************************************)
\* Every step keeps the state well-typed; that a thread only serves what a
\* client posted is needed for the key it stores under (server.cpp:143-168).
LEMMA TypeStep ==
  ASSUME TypeOK, \A s \in Session : SessionInv(s), [Next]_vars
  PROVE  TypeOK'
  <1> USE DEF TypeOK, ClientAt, ThreadAt, Post, Waited, ClientStates,
              ThreadStates, clientVars
  <1>1. ASSUME NEW s \in Session, NEW c \in Calls, Invoke(s, c) PROVE TypeOK'
    <2>1. c \in [ctrl : Ctrls, key : Key \cup {NoKey}, value : Content]
      BY CallShape
    <2> QED
      BY <1>1, <2>1 DEF Invoke, Ctrls
  <1>2. ASSUME NEW s \in Session, Acquire(s) PROVE TypeOK'
    BY <1>2 DEF Acquire
  <1>3. ASSUME NEW s \in Session, Fill(s) PROVE TypeOK'
    <2>1. call[s] \in Calls
      BY <1>3 DEF SessionInv, Arguments, Fill
    <2>2. Filled(message[s], call[s])
            \in [ctrl : Ctrls, key : Key \cup {NoKey}, value : Content]
      <3>1. call[s] \in [ctrl : Ctrls, key : Key \cup {NoKey}, value : Content]
        BY <2>1, CallShape
      <3>2. message[s] \in [ctrl : Ctrls, key : Key \cup {NoKey}, value : Content]
        BY DEF Ctrls
      <3>3. CASE call[s].ctrl = "CLOSE"
        BY <3>2, <3>3 DEF Filled, Ctrls
      <3>4. CASE call[s].ctrl # "CLOSE"
        BY <3>1, <3>4 DEF Filled
      <3> QED
        BY <3>3, <3>4
    <2> QED
      BY <1>3, <2>2 DEF Fill, Ctrls
  <1>4. ASSUME NEW s \in Session, PostRequest(s) PROVE TypeOK'
    BY <1>4 DEF PostRequest, AfterPost, NoCall, Content
  <1>5. ASSUME NEW s \in Session, Answered(s) PROVE TypeOK'
    BY <1>5 DEF Answered
  <1>6. ASSUME NEW s \in Session, Copy(s) PROVE TypeOK'
    <2> DEFINE R == [ctrl : {"SET", "GET", "DEL", "CLOSE", "NONE"},
                     key : Key \cup {NoKey}, value : Content]
               c == [call[s] EXCEPT !.value = message[s].value]
    <2>1. message[s].value \in Content /\ call[s] \in R
      OBVIOUS
    <2>2. c \in R
      BY <2>1
    <2>3. call \in [Session -> R] /\ call' = [call EXCEPT ![s] = c]
      BY <1>6 DEF Copy
    <2>4. call' \in [Session -> R]
      <3> HIDE DEF R, c
      <3> QED
        BY <2>2, <2>3
    <2> QED
      BY <1>6, <2>4 DEF Copy
  <1>7. ASSUME NEW s \in Session, Release(s) PROVE TypeOK'
    BY <1>7 DEF Release, NoCall, Content
  <1>8. ASSUME NEW s \in Session, Crash(s) PROVE TypeOK'
    BY <1>8 DEF Crash
  <1>9. ASSUME NEW s \in Session, ThreadStep(s) PROVE TypeOK'
    <2>1. CASE Take(s)
      BY <2>1 DEF Take
    <2>2. CASE ServeSet(s)
      <3>1. message[s].value \in Content
        OBVIOUS
      <3> QED
        BY <2>2, <3>1 DEF ServeSet
    <2>3. CASE ServeGet(s)
      <3> DEFINE v == IF cache[message[s].key] = NoValue THEN message[s].value
                                                        ELSE cache[message[s].key]
      <3>1. v \in Content
        BY <2>3, ServedCall DEF ServeGet
      <3> HIDE DEF v
      <3>2. message' = [message EXCEPT ![s].value = v]
        BY <2>3 DEF ServeGet, v
      <3> QED
        BY <2>3, <3>1, <3>2 DEF ServeGet
    <2>4. CASE ServeDel(s)
      BY <2>4 DEF ServeDel, Content
    <2>5. CASE ServeClose(s)
      BY <2>5 DEF ServeClose
    <2>6. CASE PostServer(s)
      BY <2>6 DEF PostServer
    <2>7. CASE PostGetBack(s)
      BY <2>7 DEF PostGetBack
    <2>8. CASE PostServerDel(s)
      BY <2>8 DEF PostServerDel
    <2>9. CASE PostServerClose(s)
      BY <2>9 DEF PostServerClose
    <2>10. CASE Cleanup(s)
      BY <2>10 DEF Cleanup
    <2> QED
      BY <1>9, <2>1, <2>2, <2>3, <2>4, <2>5, <2>6, <2>7, <2>8, <2>9, <2>10
         DEF ThreadStep, Serve
  <1>10. ASSUME NEW k \in Key, Evict(k) PROVE TypeOK'
    BY <1>10 DEF Evict, Content
  <1>11. CASE UNCHANGED vars
    BY <1>11 DEF vars
  <1> QED
    BY <1>1, <1>2, <1>3, <1>4, <1>5, <1>6, <1>7, <1>8, <1>9, <1>10, <1>11
       DEF Next, ClientStep
-----------------------------------------------------------------------------
(***************************************************************************)
(* The inductive invariant.                                                *)
(***************************************************************************)
View(s) == <<client[s], call[s], message[s], semaphore[s],
             semaphore_Server[s], semaphore_GetBack[s], thread[s]>>

\* What happens to one session concerns no other.
LEMMA Frame ==
  ASSUME NEW s \in Session, SessionInv(s), UNCHANGED View(s)
  PROVE  SessionInv(s)'
  BY DEF View, SessionInv, Turn, TurnOfNobody, TurnOfClient, TurnOfThread,
         TurnGoesBack, TurnIsOver, Semaphores, Over, Arguments, Area, Pending,
         Request

\* A step of the client of session s keeps the session's invariant.
LEMMA ClientKeepsSession ==
  ASSUME TypeOK, NEW s \in Session, SessionInv(s),
         \/ \E c \in Calls : Invoke(s, c)
         \/ ClientStep(s)
  PROVE  SessionInv(s)'
  <1> USE DEF SessionInv, Turn, TurnOfNobody, TurnOfClient, TurnOfThread,
              TurnGoesBack, TurnIsOver, Semaphores, Over, Pending
  <1>1. ASSUME NEW c \in Calls, Invoke(s, c) PROVE SessionInv(s)'
    <2>1. /\ client[s] = "idle" /\ client'[s] = "call" /\ call'[s] = c
          /\ UNCHANGED <<message[s], semaphore[s], semaphore_Server[s],
                         semaphore_GetBack[s], thread[s]>>
      BY <1>1 DEF Invoke, ClientAt, TypeOK
    <2>2. Turn(s)'
      BY <2>1
    <2>3. Arguments(s)'
      BY <2>1 DEF Arguments
    <2>4. Area(s)'
      BY <2>1 DEF Area, Request
    <2> QED
      BY <2>2, <2>3, <2>4
  <1>3. CASE Fill(s)
    <2>1. /\ client[s] = "fill" /\ client'[s] = "post" /\ call[s] \in Calls
          /\ message'[s] = Filled(message[s], call[s])
          /\ UNCHANGED <<call[s], semaphore[s], semaphore_Server[s],
                         semaphore_GetBack[s], thread[s]>>
      BY <1>3 DEF Fill, ClientAt, TypeOK, Arguments
    <2>2. Turn(s)'
      BY <2>1
    <2>3. Arguments(s)'
      BY <2>1, CallShape DEF Arguments, Request, Filled
    <2>4. Area(s)'
      BY <2>1 DEF Area, Request
    <2> QED
      BY <2>2, <2>3, <2>4
  <1>4. CASE PostRequest(s)
    <2>1. /\ client[s] = "post" /\ client'[s] = AfterPost(call[s])
          /\ semaphore'[s] = semaphore[s] + 1
          /\ call'[s] = IF call[s].ctrl = "GET" THEN call[s] ELSE NoCall
          /\ UNCHANGED <<message[s], semaphore_Server[s],
                         semaphore_GetBack[s], thread[s]>>
      BY <1>4 DEF PostRequest, ClientAt, TypeOK, Post
    <2>2. call[s] \in Calls /\ Request(message[s]) = call[s]
      BY <2>1 DEF Arguments
    <2>3. message[s].ctrl = call[s].ctrl /\ call[s].ctrl \in Ctrls
      BY <2>2, CallShape DEF Request, CloseCall
    <2>4. Turn(s)'
      BY <2>1, <2>3 DEF AfterPost, Ctrls
    <2>5. Arguments(s)'
      BY <2>1, <2>2, CallShape DEF Arguments, AfterPost, Request, NoCall, CloseCall
    <2>6. Area(s)'
      BY <2>1, <2>2 DEF Area, Request, AfterPost, CloseCall
    <2> QED
      BY <2>4, <2>5, <2>6
  <1>5. CASE Answered(s)
    <2>1. /\ client[s] = "await" /\ client'[s] = "copy"
          /\ semaphore_GetBack[s] > 0
          /\ semaphore_GetBack'[s] = semaphore_GetBack[s] - 1
          /\ UNCHANGED <<call[s], message[s], semaphore[s], semaphore_Server[s],
                         thread[s]>>
      BY <1>5 DEF Answered, ClientAt, TypeOK, Waited
    <2>2. Turn(s)'
      BY <2>1
    <2>3. Arguments(s)' /\ Area(s)'
      BY <2>1 DEF Arguments, Area
    <2> QED
      BY <2>2, <2>3
  <1>6. CASE Copy(s)
    <2>1. /\ client[s] = "copy" /\ client'[s] = "release"
          /\ call'[s] = [call[s] EXCEPT !.value = message[s].value]
          /\ UNCHANGED <<message[s], semaphore[s], semaphore_Server[s],
                         semaphore_GetBack[s], thread[s]>>
      BY <1>6 DEF Copy, ClientAt, TypeOK
    <2>2. Turn(s)'
      BY <2>1
    <2>3. ~Over(s) /\ ~Pending(s)
      BY <2>1
    <2>4. message[s].value \in ValueOf(call[s].key) \cup {NoValue}
      BY <2>1, <2>3 DEF Area
    <2>5. call'[s].ctrl = call[s].ctrl /\ call'[s].key = call[s].key
             /\ call'[s].value = message[s].value
      BY <2>1
    <2>6. Arguments(s)' /\ Area(s)'
      BY <2>1, <2>3, <2>4, <2>5 DEF Arguments, Area
    <2> QED
      BY <2>2, <2>6
  <1>2. CASE Acquire(s) \/ Release(s)
    <2>1. /\ \/ client[s] = "call" /\ client'[s] = "fill" /\ call'[s] = call[s]
             \/ client[s] = "release" /\ client'[s] = "idle" /\ call'[s] = NoCall
          /\ \/ /\ client[s] = "call" /\ semaphore_Server[s] > 0
                /\ semaphore_Server'[s] = semaphore_Server[s] - 1
             \/ client[s] = "release" /\ semaphore_Server'[s] = semaphore_Server[s] + 1
          /\ UNCHANGED <<message[s], semaphore[s], semaphore_GetBack[s], thread[s]>>
      BY <1>2 DEF Acquire, Release, ClientAt, TypeOK, Waited, Post
    <2>2. Turn(s)'
      BY <2>1
    <2>3. Arguments(s)' /\ Area(s)'
      BY <2>1 DEF Arguments, Area
    <2> QED
      BY <2>2, <2>3
  <1> QED
    BY <1>1, <1>2, <1>3, <1>4, <1>5, <1>6 DEF ClientStep

\* A step of the server thread of session s keeps the session's invariant.
LEMMA ThreadKeepsSession ==
  ASSUME TypeOK, NEW s \in Session, SessionInv(s), CacheByKey, ThreadStep(s)
  PROVE  SessionInv(s)'
  <1> USE DEF SessionInv, Turn, TurnOfNobody, TurnOfClient, TurnOfThread,
              TurnGoesBack, TurnIsOver, Semaphores, Over, Pending
  <1>1. UNCHANGED <<client[s], call[s]>>
    BY DEF ThreadStep, Take, Serve, ServeSet, ServeGet, ServeDel, ServeClose,
           PostServer, PostGetBack, PostServerDel, PostServerClose, Cleanup,
           ThreadAt, clientVars
  <1>2. Arguments(s)' <=> Arguments(s)
    <2>1. ServeGet(s) => client[s] # "post"
      BY DEF ServeGet, ThreadAt
    <2>2. ServeGet(s) \/ UNCHANGED message[s]
      BY DEF ThreadStep, Take, Serve, ServeSet, ServeDel, ServeClose,
             PostServer, PostGetBack, PostServerDel, PostServerClose, Cleanup
    <2> QED
      BY <1>1, <2>1, <2>2 DEF Arguments, Request
  <1>3. CASE Take(s)
    <2>1. /\ thread[s] = "wait" /\ thread'[s] = "serve"
          /\ semaphore[s] > 0 /\ semaphore'[s] = semaphore[s] - 1
          /\ UNCHANGED <<message[s], semaphore_Server[s], semaphore_GetBack[s]>>
      BY <1>3 DEF Take, ThreadAt, Waited, TypeOK
    <2>2. Turn(s)' /\ Area(s)'
      BY <1>1, <2>1 DEF Area, Request
    <2> QED
      BY <1>2, <2>2
  <1>4. CASE ServeSet(s) \/ ServeDel(s) \/ ServeClose(s)
    <2>1. /\ thread[s] = "serve"
          /\ thread'[s] = CASE message[s].ctrl = "SET"   -> "postServer"
                            [] message[s].ctrl = "DEL"   -> "postServerDel"
                            [] message[s].ctrl = "CLOSE" -> "postServerClose"
          /\ message[s].ctrl \in {"SET", "DEL", "CLOSE"}
          /\ UNCHANGED <<message[s], semaphore[s], semaphore_Server[s],
                         semaphore_GetBack[s]>>
      BY <1>4 DEF ServeSet, ServeDel, ServeClose, ThreadAt, TypeOK
    <2>2. Turn(s)' /\ Area(s)'
      BY <1>1, <2>1 DEF Area, Request
    <2> QED
      BY <1>2, <2>2
  <1>5. CASE ServeGet(s)
    <2> DEFINE found == cache[message[s].key]
    <2>1. /\ thread[s] = "serve" /\ thread'[s] = "postGetBack"
          /\ message[s].ctrl = "GET" /\ message[s].key \in Key
          /\ message'[s].value = IF found = NoValue THEN message[s].value ELSE found
          /\ UNCHANGED <<semaphore[s], semaphore_Server[s], semaphore_GetBack[s]>>
      BY <1>5, ServedCall DEF ServeGet, ThreadAt, TypeOK
    <2>2. /\ client[s] = "await" /\ message[s] = call[s] /\ call[s].value = NoValue
      BY <2>1 DEF Area, Arguments
    <2>3. found \in ValueOf(call[s].key) \cup {NoValue}
      BY <2>1, <2>2 DEF CacheByKey
    <2>4. Turn(s)' /\ Area(s)'
      BY <1>1, <2>1, <2>2, <2>3 DEF Area
    <2> QED
      BY <1>2, <2>4
  <1>6. CASE PostServer(s) \/ PostServerDel(s) \/ PostServerClose(s)
    <2>1. /\ \/ thread[s] = "postServer" /\ thread'[s] = "wait"
             \/ thread[s] = "postServerDel" /\ thread'[s] = "postServerClose"
             \/ thread[s] = "postServerClose" /\ thread'[s] = "cleanup"
          /\ semaphore_Server'[s] = semaphore_Server[s] + 1
          /\ UNCHANGED <<message[s], semaphore[s], semaphore_GetBack[s]>>
      BY <1>6 DEF PostServer, PostServerDel, PostServerClose, ThreadAt, Post, TypeOK
    <2>2. Turn(s)' /\ Area(s)'
      BY <1>1, <2>1 DEF Area, Request
    <2> QED
      BY <1>2, <2>2
  <1>7. CASE PostGetBack(s) \/ Cleanup(s)
    <2>1. /\ \/ /\ thread[s] = "postGetBack" /\ thread'[s] = "wait"
                /\ semaphore_GetBack'[s] = semaphore_GetBack[s] + 1
             \/ /\ thread[s] = "cleanup" /\ thread'[s] = "ended"
                /\ UNCHANGED semaphore_GetBack[s]
          /\ UNCHANGED <<message[s], semaphore[s], semaphore_Server[s]>>
      BY <1>7 DEF PostGetBack, Cleanup, ThreadAt, Post, TypeOK
    <2>2. Turn(s)' /\ Area(s)'
      BY <1>1, <2>1 DEF Area, Request
    <2> QED
      BY <1>2, <2>2
  <1> QED
    BY <1>3, <1>4, <1>5, <1>6, <1>7 DEF ThreadStep, Serve

\* Only a SET writes to the cache, and it writes a value under its own key;
\* del_ and evictions remove (cachelibHeader.cpp:85-113).
LEMMA CacheStep ==
  ASSUME Inv, [Next]_vars
  PROVE  CacheByKey'
  <1> USE DEF Inv, TypeOK, CacheByKey
  <1>1. ASSUME NEW s \in Session, ServeSet(s) PROVE CacheByKey'
    BY <1>1, ServedCall DEF ServeSet, ThreadAt
  <1>2. ASSUME NEW s \in Session, ServeDel(s) PROVE CacheByKey'
    BY <1>2, ServedCall DEF ServeDel, ThreadAt
  <1>3. ASSUME NEW k \in Key, Evict(k) PROVE CacheByKey'
    BY <1>3 DEF Evict
  <1>4. ASSUME NEW s \in Session,
               \/ \E c \in Calls : Invoke(s, c)
               \/ ClientStep(s) \/ Crash(s)
               \/ Take(s) \/ ServeGet(s) \/ ServeClose(s) \/ PostServer(s)
               \/ PostGetBack(s) \/ PostServerDel(s) \/ PostServerClose(s)
               \/ Cleanup(s)
        PROVE  CacheByKey'
    <2>1. UNCHANGED cache
      BY <1>4 DEF Invoke, ClientStep, Acquire, Fill, PostRequest, Answered, Copy,
           Release, ClientAt, Crash, Take, ServeGet, ServeClose, PostServer,
           PostGetBack, PostServerDel, PostServerClose, Cleanup
    <2> QED
      BY <2>1
  <1>5. CASE UNCHANGED vars
    BY <1>5 DEF vars
  <1> QED
    BY <1>1, <1>2, <1>3, <1>4, <1>5 DEF Next, ThreadStep, Serve

\* A step of another session, or of the cache, does not touch session t.
LEMMA OthersKeepView ==
  ASSUME Inv, [Next]_vars, NEW t \in Session,
         ~\E c \in Calls : Invoke(t, c), ~ClientStep(t), ~ThreadStep(t)
  PROVE  UNCHANGED View(t)
  <1> USE DEF Inv
  <1>1. ASSUME NEW s \in Session, s # t,
               \/ \E c \in Calls : Invoke(s, c)
               \/ ClientStep(s)
        PROVE  UNCHANGED View(t)
    BY <1>1 DEF View, TypeOK, Invoke, ClientStep, Acquire, Fill, PostRequest,
         Answered, Copy, Release, ClientAt, Post, Waited
  <1>2. ASSUME NEW s \in Session, s # t, ThreadStep(s)
        PROVE  UNCHANGED View(t)
    BY <1>2 DEF View, TypeOK, ThreadStep, Take, Serve, ServeSet, ServeGet, ServeDel,
         ServeClose, PostServer, PostGetBack, PostServerDel, PostServerClose,
         Cleanup, ThreadAt, clientVars, Post, Waited
  <1>3. ASSUME \/ \E s \in Session : Crash(s)
               \/ \E k \in Key : Evict(k)
               \/ UNCHANGED vars
        PROVE  UNCHANGED View(t)
    BY <1>3 DEF View, Crash, Evict, vars
  <1> QED
    BY <1>1, <1>2, <1>3 DEF Next

\* Every step of anybody keeps a session's invariant: its own two sides hand
\* the turn on, all others leave it alone.
LEMMA SessionStep ==
  ASSUME Inv, [Next]_vars, NEW t \in Session
  PROVE  SessionInv(t)'
  <1> USE DEF Inv
  <1>1. CASE (\E c \in Calls : Invoke(t, c)) \/ ClientStep(t)
    BY <1>1, ClientKeepsSession
  <1>2. CASE ThreadStep(t)
    BY <1>2, ThreadKeepsSession
  <1>3. CASE UNCHANGED View(t)
    BY <1>3, Frame
  <1> QED
    BY <1>1, <1>2, <1>3, OthersKeepView

\* Inv is inductive, so it holds in every reachable state: exactly one party at
\* a time uses a session's message area, whatever the clients call, delKV
\* included (clientAPI.cpp:115-183, server.cpp:129-174).
THEOREM Invariance == Spec => []Inv
  <1>1. Init => Inv
    BY DEF Init, Inv, TypeOK, ClientStates, ThreadStates, Content, NoCall, CacheByKey,
       SessionInv, Turn, TurnOfNobody, Semaphores, Arguments, Area, Pending
  <1>2. Inv /\ [Next]_vars => Inv'
    <2> SUFFICES ASSUME Inv, [Next]_vars PROVE Inv'
      OBVIOUS
    <2>1. TypeOK'
      BY TypeStep DEF Inv
    <2> QED
      BY <2>1, CacheStep, SessionStep DEF Inv
  <1> QED
    BY <1>1, <1>2, PTL DEF Spec

\* All state is well-typed, so that no semaphore ever counts below zero: each
\* unit that is waited for was posted before (clientAPI.cpp:118-163).
THEOREM TypeCorrect == Spec => []TypeOK
  BY Invariance, PTL DEF Inv

\* The client never writes or copies the message area while the server thread
\* works on the request in it, whatever the clients call.
THEOREM RaceFreedom == Spec => []NoRace
  <1>1. Inv => NoRace
    BY DEF Inv, NoRace, SessionInv, Turn, TurnOfNobody, TurnOfClient,
       TurnOfThread, TurnGoesBack, TurnIsOver, Semaphores, Over
  <1> QED
    BY <1>1, Invariance, PTL

\* getKV returns a value stored under its key, or the empty string.
THEOREM AnswersAreOfKey == Spec => []AnswerIsOfKey
  <1>1. Inv => AnswerIsOfKey
    BY DEF Inv, AnswerIsOfKey, SessionInv, Arguments
  <1> QED
    BY <1>1, Invariance, PTL

-----------------------------------------------------------------------------
(***************************************************************************)
(* Clients that never call delKV.                                          *)
(***************************************************************************)
\* A step of session s keeps it free of DEL requests, and its thread leaves
\* its loop only on the request of a client that is gone.
LEMMA OverStep ==
  ASSUME "DEL" \notin Kinds, Inv, NoDelInv, NEW s \in Session,
         \/ \E c \in Calls : Invoke(s, c)
         \/ ClientStep(s) \/ ThreadStep(s)
  PROVE  OverIsGone(s)'
  <1> USE DEF OverIsGone, Over, Semaphores
  <1>1. OverIsGone(s) /\ SessionInv(s) /\ TypeOK
    BY DEF Inv, NoDelInv
  <1>2. ASSUME NEW c \in Calls, Invoke(s, c) PROVE OverIsGone(s)'
    <2>1. c.ctrl # "DEL"
      BY DEF Calls, SetCalls, KeyCalls, CloseCall
    <2> QED
      BY <1>1, <1>2, <2>1 DEF Invoke, ClientAt, TypeOK
  <1>3. CASE Acquire(s) \/ Answered(s)
    BY <1>1, <1>3 DEF Acquire, Answered, ClientAt, Waited, TypeOK
  <1>4. CASE Fill(s)
    <2>1. message'[s].ctrl = call[s].ctrl
      BY <1>1, <1>4 DEF Fill, Filled, TypeOK
    <2> QED
      BY <1>1, <1>4, <2>1 DEF Fill, ClientAt, TypeOK
  <1>5. CASE PostRequest(s) \/ Release(s)
    BY <1>1, <1>5 DEF PostRequest, Release, ClientAt, Post, NoCall, TypeOK
  <1>6. CASE Copy(s)
    BY <1>1, <1>6 DEF Copy, ClientAt, TypeOK
  <1>7. CASE Take(s) \/ PostServer(s) \/ PostGetBack(s) \/ PostServerDel(s) \/ Cleanup(s)
    BY <1>1, <1>7 DEF Take, PostServer, PostGetBack, PostServerDel, Cleanup,
       ThreadAt, clientVars, Waited, Post, TypeOK
  <1>8. CASE PostServerClose(s)
    BY <1>1, <1>8 DEF PostServerClose, ThreadAt, clientVars, Post, TypeOK
  <1>9. CASE ServeSet(s) \/ ServeDel(s)
    BY <1>1, <1>9 DEF ServeSet, ServeDel, ThreadAt, clientVars, TypeOK
  <1>10. CASE ServeGet(s)
    BY <1>1, <1>10 DEF ServeGet, ThreadAt, clientVars, TypeOK
  <1>11. CASE ServeClose(s)
    <2>1. client[s] = "gone" /\ Semaphores(s, 0, 0, 0)
      BY <1>1, <1>11 DEF ServeClose, ThreadAt, SessionInv, Turn, TurnOfNobody,
         TurnOfClient, TurnOfThread, TurnGoesBack, TurnIsOver
    <2> QED
      BY <1>1, <1>11, <2>1 DEF ServeClose, ThreadAt, clientVars, TypeOK
  <1> QED
    BY <1>2, <1>3, <1>4, <1>5, <1>6, <1>7, <1>8, <1>9, <1>10, <1>11
       DEF ClientStep, ThreadStep, Serve

\* Without delKV a thread reaches the end of its loop only on the CLOSE of a
\* destructor, with all other requests of its client done (server.cpp:165-173).
THEOREM NoDelInvariance ==
  ASSUME "DEL" \notin Kinds
  PROVE  Spec => []NoDelInv
  <1>1. Init => NoDelInv
    <2> SUFFICES ASSUME Init, NEW s \in Session PROVE OverIsGone(s)
      BY DEF NoDelInv
    <2>1. call[s].ctrl = "NONE" /\ message[s].ctrl = "SET" /\ thread[s] = "wait"
      BY DEF Init, NoCall
    <2> QED
      BY <2>1 DEF OverIsGone, Over
  <1>2. Inv /\ NoDelInv /\ [Next]_vars => NoDelInv'
    <2> SUFFICES ASSUME Inv, NoDelInv, [Next]_vars, NEW t \in Session
                 PROVE  OverIsGone(t)'
      BY DEF NoDelInv
    <2>1. CASE (\E c \in Calls : Invoke(t, c)) \/ ClientStep(t) \/ ThreadStep(t)
      BY <2>1, OverStep
    <2>2. CASE UNCHANGED View(t)
      BY <2>2 DEF NoDelInv, OverIsGone, Over, Semaphores, View
    <2> QED
      BY <2>1, <2>2, OthersKeepView
  <1> QED
    BY <1>1, <1>2, Invariance, PTL DEF Spec

\* server.cpp:123 holds of clients that never call delKV: when semaphore_Server
\* can be taken no earlier request is under way.
THEOREM FreeArea ==
  ASSUME "DEL" \notin Kinds
  PROVE  Spec => []FreeMeansFree
  <1>1. Inv /\ NoDelInv => FreeMeansFree
    BY DEF Inv, NoDelInv, OverIsGone, FreeMeansFree, SessionInv, Turn, TurnOfNobody,
       TurnOfClient, TurnOfThread, TurnGoesBack, TurnIsOver, Semaphores, Over
  <1> QED
    BY <1>1, Invariance, NoDelInvariance, PTL

-----------------------------------------------------------------------------
(***************************************************************************)
(* ShmSession implements CacheService for clients that never call delKV.   *)
(***************************************************************************)
\* What ShmSession shows of one session at the level of CacheService.
Shown(s) == <<StageOf(s), CallingOf(s), InboxOf(s), AnswerOf(s)>>

\* What is shown of a session depends on the session's own variables only.
LEMMA ShownOfView ==
  ASSUME NEW s \in Session, UNCHANGED View(s)
  PROVE  UNCHANGED Shown(s)
  BY DEF View, Shown, StageOf, CallingOf, InboxOf, AnswerOf, Pending, Request

\* When only session s changes, the four mapped functions change only at s.
LEMMA MapStep ==
  ASSUME NEW s \in Session, \A t \in Session \ {s} : UNCHANGED View(t)
  PROVE  /\ Stages'   = [Stages EXCEPT ![s] = StageOf(s)']
         /\ Callings' = [Callings EXCEPT ![s] = CallingOf(s)']
         /\ Inboxes'  = [Inboxes EXCEPT ![s] = InboxOf(s)']
         /\ Answers'  = [Answers EXCEPT ![s] = AnswerOf(s)']
  <1>1. \A t \in Session \ {s} : UNCHANGED Shown(t)
    BY ShownOfView
  <1> QED
    BY <1>1 DEF Shown, Stages, Callings, Inboxes, Answers

\* A step that shows nothing of any session and leaves the cache alone is a
\* stuttering step of CacheService.
LEMMA MapStutter ==
  ASSUME \A t \in Session : UNCHANGED Shown(t), UNCHANGED cache
  PROVE  UNCHANGED Service!vars
  BY DEF Shown, Stages, Callings, Inboxes, Answers, Service!vars

\* The calls of CacheService are those of ShmSession.
LEMMA SameCalls == Service!Calls = Calls
  BY DEF Service!Calls, Service!SetCalls, Service!KeyCalls, Service!CloseCall,
         Service!Value, Calls, SetCalls, KeyCalls, CloseCall, Value

\* A step of one session, on either side, changes nothing of another one's.
LEMMA OnlyOne ==
  ASSUME TypeOK, NEW s \in Session,
         \/ \E c \in Calls : Invoke(s, c)
         \/ ClientStep(s) \/ ThreadStep(s)
  PROVE  \A t \in Session \ {s} : UNCHANGED View(t)
  <1> SUFFICES ASSUME NEW t \in Session, t # s PROVE UNCHANGED View(t)
    OBVIOUS
  <1>1. CASE (\E c \in Calls : Invoke(s, c)) \/ ClientStep(s)
    BY <1>1 DEF View, TypeOK, Invoke, ClientStep, Acquire, Fill, PostRequest,
         Answered, Copy, Release, ClientAt, Post, Waited
  <1>2. CASE ThreadStep(s)
    BY <1>2 DEF View, TypeOK, ThreadStep, Take, Serve, ServeSet, ServeGet, ServeDel,
         ServeClose, PostServer, PostGetBack, PostServerDel, PostServerClose,
         Cleanup, ThreadAt, clientVars, Post, Waited
  <1> QED
    BY <1>1, <1>2

\* A step of a client is the step of CacheService it should be, or invisible.
LEMMA ClientRefines ==
  ASSUME Inv, NoDelInv, NEW s \in Session,
         \/ \E c \in Calls : Invoke(s, c)
         \/ ClientStep(s)
  PROVE  [Service!Next]_(Service!vars)
  <1> USE DEF Inv, NoDelInv
  <1>1. /\ Stages'   = [Stages EXCEPT ![s] = StageOf(s)']
        /\ Callings' = [Callings EXCEPT ![s] = CallingOf(s)']
        /\ Inboxes'  = [Inboxes EXCEPT ![s] = InboxOf(s)']
        /\ Answers'  = [Answers EXCEPT ![s] = AnswerOf(s)']
    BY OnlyOne, MapStep
  <1>2. /\ Stages[s] = StageOf(s) /\ Callings[s] = CallingOf(s)
        /\ Inboxes[s] = InboxOf(s) /\ Answers[s] = AnswerOf(s)
    BY DEF Stages, Callings, Inboxes, Answers
  <1>3. UNCHANGED cache
    BY DEF Invoke, ClientStep, Acquire, Fill, PostRequest, Answered, Copy, Release,
           ClientAt
  <1>4. UNCHANGED Shown(s) => UNCHANGED Service!vars
    BY <1>3, OnlyOne, ShownOfView, MapStutter
  <1>5. Turn(s) /\ OverIsGone(s) /\ Arguments(s) /\ Area(s) /\ TypeOK
    BY DEF SessionInv
  <1> USE DEF Turn, TurnOfNobody, TurnOfClient, TurnOfThread, TurnGoesBack,
              TurnIsOver, OverIsGone, Semaphores, Over, Pending
  <1>6. ASSUME NEW c \in Calls, Invoke(s, c) PROVE Service!Begin(s, c)
    <2>1. /\ client[s] = "idle" /\ client'[s] = "call" /\ call'[s] = c
          /\ UNCHANGED <<message[s], semaphore[s], thread[s]>>
      BY <1>5, <1>6 DEF Invoke, ClientAt, TypeOK
    <2>2. /\ StageOf(s) = "idle" /\ StageOf(s)' = "called"
          /\ CallingOf(s)' = c
          /\ InboxOf(s)' = InboxOf(s) /\ AnswerOf(s)' = AnswerOf(s)
      BY <2>1 DEF StageOf, CallingOf, InboxOf, AnswerOf, Request
    <2>3. UNCHANGED <<Inboxes, Answers>>
      BY <1>1, <1>2, <2>2 DEF Inboxes, Answers
    <2> QED
      BY <1>1, <1>2, <1>3, <2>2, <2>3 DEF Service!Begin
  <1>7. CASE Acquire(s) \/ Fill(s)
    <2>1. /\ client[s] \in {"call", "fill"} /\ client'[s] \in {"fill", "post"}
          /\ UNCHANGED <<call[s], semaphore[s], thread[s]>>
          /\ client[s] = "call" => UNCHANGED message[s]
      BY <1>5, <1>7 DEF Acquire, Fill, ClientAt, Waited, TypeOK
    <2>2. client[s] = "fill" => ~Pending(s)
      BY <1>5
    <2> QED
      BY <1>4, <2>1, <2>2 DEF Shown, StageOf, CallingOf, InboxOf, AnswerOf, Request
  <1>8. ASSUME PostRequest(s) PROVE Service!HandOver(s)
    <2>1. /\ client[s] = "post" /\ client'[s] = AfterPost(call[s])
          /\ semaphore[s] = 0 /\ semaphore'[s] = 1 /\ thread[s] = "wait"
          /\ call'[s] = IF call[s].ctrl = "GET" THEN call[s] ELSE NoCall
          /\ UNCHANGED <<message[s], thread[s]>>
      BY <1>5, <1>8 DEF PostRequest, ClientAt, Post, TypeOK
    <2>2. /\ StageOf(s) = "called" /\ CallingOf(s) = call[s]
          /\ InboxOf(s) = NoCall /\ InboxOf(s)' = call[s]
          /\ AnswerOf(s)' = AnswerOf(s)
      BY <1>5, <2>1 DEF StageOf, CallingOf, InboxOf, AnswerOf, Request, Arguments,
         AfterPost
    <2>3. UNCHANGED Answers
      BY <1>1, <1>2, <2>2 DEF Answers
    <2>4. CASE call[s].ctrl = "GET"
      <3>1. StageOf(s)' = "sent" /\ CallingOf(s)' = CallingOf(s)
        BY <2>1, <2>4 DEF StageOf, CallingOf, AfterPost
      <3>2. UNCHANGED Callings
        BY <1>1, <1>2, <3>1 DEF Callings
      <3> QED
        BY <1>1, <1>2, <1>3, <2>2, <2>3, <2>4, <3>1, <3>2 DEF Service!HandOver, NoCall,
           Service!NoCall
    <2>5. CASE call[s].ctrl # "GET"
      <3>1. /\ StageOf(s)' = IF call[s].ctrl = "CLOSE" THEN "closed" ELSE "idle"
            /\ CallingOf(s)' = NoCall
        BY <2>1, <2>5 DEF StageOf, CallingOf, AfterPost
      <3> QED
        BY <1>1, <1>2, <1>3, <2>2, <2>3, <2>5, <3>1 DEF Service!HandOver, NoCall,
           Service!NoCall
    <2> QED
      BY <2>4, <2>5
  <1>9. CASE Answered(s)
    <2>1. /\ client[s] = "await" /\ client'[s] = "copy" /\ semaphore_GetBack[s] > 0
          /\ UNCHANGED <<call[s], message[s], semaphore[s], thread[s]>>
      BY <1>5, <1>9 DEF Answered, ClientAt, Waited, TypeOK
    <2>2. ~Pending(s)
      BY <1>5, <2>1
    <2> QED
      BY <1>4, <2>1, <2>2 DEF Shown, StageOf, CallingOf, InboxOf, AnswerOf, Request
  <1>10. CASE Copy(s)
    <2>1. /\ client[s] = "copy" /\ client'[s] = "release"
          /\ call'[s] = [call[s] EXCEPT !.value = message[s].value]
          /\ UNCHANGED <<message[s], semaphore[s], thread[s]>>
      BY <1>5, <1>10 DEF Copy, ClientAt, TypeOK
    <2>2. [call'[s] EXCEPT !.value = NoValue] = call[s]
      <3>1. call[s] = [ctrl |-> call[s].ctrl, key |-> call[s].key, value |-> NoValue]
        BY <1>5, <2>1 DEF Arguments, TypeOK
      <3>2. call'[s] = [ctrl |-> call[s].ctrl, key |-> call[s].key,
                        value |-> message[s].value]
        BY <2>1, <3>1
      <3> QED
        BY <3>1, <3>2
    <2>3. /\ CallingOf(s)' = CallingOf(s) /\ InboxOf(s)' = InboxOf(s)
          /\ AnswerOf(s)' = message[s].value /\ AnswerOf(s) = message[s].value
          /\ StageOf(s)' = StageOf(s)
      BY <1>5, <2>1, <2>2 DEF StageOf, CallingOf, InboxOf, AnswerOf, Request
    <2> QED
      BY <1>4, <2>3 DEF Shown
  <1>11. ASSUME Release(s) PROVE Service!Return(s)
    <2>1. /\ client[s] = "release" /\ client'[s] = "idle" /\ call'[s] = NoCall
          /\ UNCHANGED <<message[s], semaphore[s], thread[s]>>
      BY <1>5, <1>11 DEF Release, ClientAt, TypeOK
    <2>2. /\ StageOf(s) = "answered" /\ StageOf(s)' = "idle"
          /\ CallingOf(s)' = NoCall
          /\ InboxOf(s)' = InboxOf(s) /\ AnswerOf(s)' = NoValue
      BY <2>1 DEF StageOf, CallingOf, InboxOf, AnswerOf, Request
    <2>3. UNCHANGED Inboxes
      BY <1>1, <1>2, <2>2 DEF Inboxes
    <2> QED
      BY <1>1, <1>2, <1>3, <2>2, <2>3 DEF Service!Return, NoCall, Service!NoCall
  <1> QED
    <2>1. ASSUME NEW c \in Calls, Invoke(s, c) PROVE Service!Next
      BY <1>6, <2>1, SameCalls DEF Service!Next
    <2>2. ASSUME PostRequest(s) PROVE Service!Next
      BY <1>8, <2>2 DEF Service!Next
    <2>3. ASSUME Release(s) PROVE Service!Next
      BY <1>11, <2>3 DEF Service!Next
    <2> QED
      BY <2>1, <2>2, <2>3, <1>7, <1>9, <1>10 DEF ClientStep

\* A step of a server thread is an execution of the request, or invisible.
LEMMA ThreadRefines ==
  ASSUME Inv, NoDelInv, NEW s \in Session, ThreadStep(s)
  PROVE  [Service!Next]_(Service!vars)
  <1> USE DEF Inv, NoDelInv
  <1>1. /\ Stages'   = [Stages EXCEPT ![s] = StageOf(s)']
        /\ Callings' = [Callings EXCEPT ![s] = CallingOf(s)']
        /\ Inboxes'  = [Inboxes EXCEPT ![s] = InboxOf(s)']
        /\ Answers'  = [Answers EXCEPT ![s] = AnswerOf(s)']
    BY OnlyOne, MapStep
  <1>2. /\ Stages[s] = StageOf(s) /\ Callings[s] = CallingOf(s)
        /\ Inboxes[s] = InboxOf(s) /\ Answers[s] = AnswerOf(s)
    BY DEF Stages, Callings, Inboxes, Answers
  <1>3. UNCHANGED <<client[s], call[s]>>
    BY DEF ThreadStep, Take, Serve, ServeSet, ServeGet, ServeDel, ServeClose,
           PostServer, PostGetBack, PostServerDel, PostServerClose, Cleanup,
           ThreadAt, clientVars
  <1>4. UNCHANGED Shown(s) /\ UNCHANGED cache => UNCHANGED Service!vars
    BY OnlyOne, ShownOfView, MapStutter
  <1>5. Turn(s) /\ OverIsGone(s) /\ Arguments(s) /\ Area(s) /\ TypeOK
    BY DEF SessionInv
  <1>6. UNCHANGED Callings
    BY <1>1, <1>2, <1>3 DEF CallingOf, Callings
  <1> USE DEF Turn, TurnOfNobody, TurnOfClient, TurnOfThread, TurnGoesBack,
              TurnIsOver, OverIsGone, Semaphores, Over, Pending
  <1>7. CASE Take(s)
    <2>1. /\ thread[s] = "wait" /\ thread'[s] = "serve" /\ semaphore[s] = 1
          /\ UNCHANGED <<message[s], cache>>
      BY <1>5, <1>7 DEF Take, ThreadAt, Waited, TypeOK
    <2> QED
      BY <1>3, <1>4, <2>1
         DEF Shown, StageOf, CallingOf, InboxOf, AnswerOf, Request
  <1>8. CASE \/ PostServer(s) \/ PostGetBack(s) \/ PostServerDel(s)
             \/ PostServerClose(s) \/ Cleanup(s)
    <2>1. /\ thread[s] \notin {"wait", "serve"} /\ thread'[s] # "serve"
          /\ UNCHANGED <<message[s], semaphore[s], cache>>
      BY <1>8 DEF PostServer, PostGetBack, PostServerDel, PostServerClose, Cleanup,
         ThreadAt, TypeOK
    <2> QED
      BY <1>3, <1>4, <2>1
         DEF Shown, StageOf, CallingOf, InboxOf, AnswerOf, Request
  <1>9. ASSUME ServeSet(s) \/ ServeClose(s) PROVE Service!Execute(s)
    <2>1. /\ thread[s] = "serve" /\ thread'[s] \notin {"wait", "serve"}
          /\ message[s].ctrl \in {"SET", "CLOSE"}
          /\ UNCHANGED <<message[s], semaphore[s]>>
      BY <1>9 DEF ServeSet, ServeClose, ThreadAt, TypeOK
    <2>2. semaphore[s] = 0 /\ client[s] \in {"idle", "call", "gone"}
      BY <1>5, <2>1
    <2>3. /\ StageOf(s)' = StageOf(s) /\ AnswerOf(s)' = AnswerOf(s)
          /\ InboxOf(s) = Request(message[s]) /\ InboxOf(s)' = NoCall
      BY <1>3, <2>1, <2>2 DEF StageOf, InboxOf, AnswerOf
    <2>4. UNCHANGED <<Stages, Answers>>
      BY <1>1, <1>2, <2>3 DEF Stages, Answers
    <2>5. ServeSet(s) => Service!ExecuteSet(s)
      BY <1>2, <2>3, <2>4 DEF ServeSet, Service!ExecuteSet, Request
    <2>6. ServeClose(s) => Service!ExecuteClose(s)
      BY <1>2, <2>3, <2>4 DEF ServeClose, Service!ExecuteClose, Request, CloseCall
    <2> QED
      BY <1>1, <1>6, <1>9, <2>3, <2>5, <2>6 DEF Service!Execute, NoCall, Service!NoCall
  <1>10. ASSUME ServeGet(s) PROVE Service!Execute(s)
    <2> DEFINE found == cache[message[s].key]
    <2>1. /\ thread[s] = "serve" /\ thread'[s] = "postGetBack"
          /\ message[s].ctrl = "GET"
          /\ message'[s].value = IF found = NoValue THEN message[s].value ELSE found
          /\ UNCHANGED <<semaphore[s], cache>>
      BY <1>10 DEF ServeGet, ThreadAt, TypeOK
    <2>2. client[s] = "await" /\ message[s].value = NoValue /\ semaphore[s] = 0
      BY <1>5, <2>1 DEF Area, Arguments
    <2>3. /\ StageOf(s)' = "answered" /\ AnswerOf(s)' = found
          /\ InboxOf(s) = message[s] /\ InboxOf(s)' = NoCall
      BY <1>3, <2>1, <2>2 DEF StageOf, InboxOf, AnswerOf, Request
    <2>4. Service!ExecuteGet(s)
      BY <1>1, <1>2, <2>1, <2>3 DEF Service!ExecuteGet
    <2> QED
      BY <1>1, <1>6, <2>3, <2>4 DEF Service!Execute, NoCall, Service!NoCall
  <1>11. ~ServeDel(s)
    BY <1>5 DEF ServeDel
  <1>12. Service!Execute(s) => Service!Next
    BY DEF Service!Next
  <1> QED
    BY <1>7, <1>8, <1>9, <1>10, <1>11, <1>12 DEF ThreadStep, Serve

\* Every step of the sessions is a step of CacheService or invisible to it: each
\* call is executed once, in order, with its own arguments, and getKV returns
\* what the server found, for any number of sessions, keys and values.
THEOREM Refinement ==
  ASSUME "DEL" \notin Kinds
  PROVE  Spec => ImplementsService
  <1>1. Init => Service!Init
    BY DEF Init, Service!Init, Service!NoCall, NoCall, Stages, Callings, Inboxes,
       Answers, StageOf, CallingOf, InboxOf, AnswerOf, Pending
  <1>2. Inv /\ NoDelInv /\ [Next]_vars => [Service!Next]_(Service!vars)
    <2> SUFFICES ASSUME Inv, NoDelInv, [Next]_vars
                 PROVE  [Service!Next]_(Service!vars)
      OBVIOUS
    <2>1. ASSUME NEW s \in Session, (\E c \in Calls : Invoke(s, c)) \/ ClientStep(s)
          PROVE  [Service!Next]_(Service!vars)
      BY <2>1, ClientRefines
    <2>2. ASSUME NEW s \in Session, ThreadStep(s)
          PROVE  [Service!Next]_(Service!vars)
      BY <2>2, ThreadRefines
    <2>3. ASSUME (\E s \in Session : Crash(s)) \/ UNCHANGED vars
          PROVE  UNCHANGED Service!vars
      <3>1. \A t \in Session : UNCHANGED View(t)
        BY <2>3 DEF Crash, vars, View
      <3>2. UNCHANGED cache
        BY <2>3 DEF Crash, vars
      <3> QED
        BY <3>1, <3>2, ShownOfView, MapStutter
    <2>4. ASSUME NEW k \in Key, Evict(k) PROVE Service!Next
      <3>1. \A t \in Session : UNCHANGED View(t)
        BY <2>4 DEF Evict, View
      <3>2. \A t \in Session : UNCHANGED Shown(t)
        BY <3>1, ShownOfView
      <3>3. UNCHANGED <<Stages, Callings, Inboxes, Answers>>
        BY <3>2 DEF Shown, Stages, Callings, Inboxes, Answers
      <3>4. Service!Drop(k)
        BY <2>4, <3>3 DEF Evict, Service!Drop
      <3> QED
        BY <3>4 DEF Service!Next
    <2> QED
      BY <2>1, <2>2, <2>3, <2>4 DEF Next
  <1> QED
    BY <1>1, <1>2, Invariance, NoDelInvariance, PTL
       DEF Spec, ImplementsService, Service!Spec
=============================================================================
