-------------------------- MODULE AsyncRequestsProofs --------------------------
(***************************************************************************)
(* TLAPS proofs about the asynchronous requests (AsyncRequests), for every *)
(* set of requests: the types, NothingLeaks and NothingEscapesClose.       *)
(*                                                                         *)
(* Neither safety invariant is inductive.  IInv says of every request how  *)
(* far its spawning call, its task, its entry in the registry, its stream  *)
(* and its future can be apart from one another.                           *)
(***************************************************************************)
EXTENDS AsyncRequests, TLAPS

Callbacks == {"set", "cancel", "done"} \X Requests

(* The loop has a callback op for r among those it will run.                 *)
Awaits(queue, op, r) == \E i \in 1 .. Len(queue) : queue[i] = <<op, r>>

(* The loop will cancel the future of r before it resolves it.               *)
CancelFirst(queue, r) ==
  \E i \in 1 .. Len(queue) : /\ queue[i] = <<"cancel", r>>
                             /\ \A j \in 1 .. i - 1 : queue[j] # <<"set", r>>

(* Whatever the task of r does from now on, its future gets no response.     *)
Told(r) == /\ future[r] # "response"
           /\ future[r] = "pending" => ~loopOpen \/ CancelFirst(ready, r)

--------------------------------------------------------------------------------
(* The parts of the inductive invariant, for one request. *)

(* A request that was not spawned is nowhere. *)
Untouched(r) ==
  spawn[r] = "none" =>
    /\ future[r] = "none"
    /\ r \notin permit /\ r \notin settled /\ r \notin openStream /\ r \notin aborted
    /\ r \notin taken /\ r \notin watched

(* The spawning call has its request to itself until it returns: the loop    *)
(* does not run, and close cannot begin.                                     *)
SpawnInv(r) ==
  /\ (task[r] = "none") <=> (spawn[r] = "none")
  /\ spawn[r] \in {"insert", "recheck", "watch", "start"} =>
       r \notin taken /\ r \notin drained /\ r \notin aborted
  /\ r \in taken => spawn[r] \in {"abort", "returned"}
  /\ spawn[r] = "abort" => r \in taken
  /\ r \in active => spawn[r] \in {"recheck", "watch", "start", "returned"}
  /\ kind[r] = "stream" /\ spawn[r] \in {"insert", "recheck", "watch", "start"} =>
       task[r] = "gated"
  /\ kind[r] = "stream" => task[r] # "remove"
  /\ kind[r] = "buffered" => spawn[r] # "start" /\ task[r] \notin {"gated", "finish"}
  /\ r \in drained => spawn[r] = "returned"

(* An entry is in one place; one whose request is settled is about to go;    *)
(* a task that runs has an entry somewhere, or was aborted.                  *)
RegistryInv(r) ==
  /\ r \in active => r \notin taken /\ r \notin drained /\ r \notin aborted
  /\ r \in taken => r \notin drained
  /\ r \in active /\ r \in settled =>
       kind[r] = "buffered" /\ (spawn[r] = "recheck" \/ task[r] = "remove")
  /\ r \in active /\ kind[r] = "stream" => task[r] \in {"gated", "running", "resolved"}
  /\ task[r] \in {"gated", "running"} =>
       spawn[r] = "insert" \/ r \in active \/ r \in taken \/ r \in drained \/ r \in aborted

(* The CAS and the counters agree, and before its task has a result only an  *)
(* abort settles a request.                                                  *)
SettledInv(r) ==
  /\ r \in settled => counted[r] \in {<<1, 0>>, <<1, 1>>}
  /\ r \notin settled => counted[r] = <<0, 0>>
  /\ r \in aborted => r \in settled
  /\ r \in settled /\ task[r] \in {"gated", "running"} => r \in aborted
  /\ r \in settled /\ task[r] = "resolved" /\ kind[r] = "buffered" => r \in aborted
  /\ r \in aborted /\ kind[r] = "buffered" => task[r] \notin {"remove", "complete"}
  /\ kind[r] = "buffered" /\ (task[r] \in {"remove", "complete"} \/ Awaits(ready, "set", r))
       => counted[r] = <<1, IF outcome[r] = "err" THEN 1 ELSE 0>>
  /\ kind[r] = "buffered" /\ future[r] = "response" => counted[r] = <<1, 0>>
  /\ task[r] = "done" => r \in settled \/ r \in taken \/ r \in openStream

(* A stream that was built is open, or settled. *)
StreamInv(r) ==
  /\ r \in streams => r \in openStream
  /\ r \in openStream => /\ kind[r] = "stream" /\ outcome[r] = "ok"
                         /\ task[r] \in {"resolved", "complete", "done"}
  /\ kind[r] = "stream" /\ task[r] \in {"resolved", "complete"} =>
       \/ r \in openStream \/ r \in settled
       \/ outcome[r] = "err" /\ task[r] = "resolved"
  /\ r \in permit => task[r] = "running" \/ r \in openStream

(* Only a task that is over scheduled its result. *)
LoopInv(r) ==
  /\ Awaits(ready, "set", r) => task[r] = "done"
  /\ future[r] \in {"response", "exception"} => task[r] = "done"

(* Behind each phase of close nothing is left of what it took. *)
CloseInv(r) ==
  /\ close # "open" => r \notin active /\ spawn[r] \in {"none", "returned"}
  /\ close # "requests" => r \notin drained
  /\ close \in {"open", "requests"} /\ r \in openStream => r \in streams
  /\ close = "closed" => r \notin closing
  /\ close \in {"streams", "closed"} /\ r \in openStream => r \in closing \/ Told(r)
  /\ kind[r] = "stream" /\ task[r] = "running" /\ (r \in aborted \/ r \in taken) => Told(r)

RequestInv(r) ==
  /\ Untouched(r) /\ SpawnInv(r) /\ RegistryInv(r) /\ SettledInv(r)
  /\ StreamInv(r) /\ LoopInv(r) /\ CloseInv(r)

IInv == TypeOK /\ \A r \in Requests : RequestInv(r)

--------------------------------------------------------------------------------
(* What the queue of the loop awaits, after a callback is added or run. *)

(* A callback that is added comes after those that wait. *)
LEMMA AppendAwaits ==
  ASSUME NEW queue \in Seq(Callbacks), NEW c \in Callbacks, NEW op, NEW r
  PROVE  /\ Awaits(Append(queue, c), op, r) <=> Awaits(queue, op, r) \/ c = <<op, r>>
         /\ CancelFirst(queue, r) => CancelFirst(Append(queue, c), r)
         /\ c = <<"cancel", r>> /\ ~Awaits(queue, "set", r) => CancelFirst(Append(queue, c), r)
<1>1. /\ Len(Append(queue, c)) = Len(queue) + 1 /\ Len(queue) \in Nat
      /\ \A i \in 1 .. Len(queue) : Append(queue, c)[i] = queue[i]
      /\ Append(queue, c)[Len(queue) + 1] = c
  OBVIOUS
<1> DEFINE longer == Append(queue, c)
<1>2. Awaits(longer, op, r) => Awaits(queue, op, r) \/ c = <<op, r>>
  <2>1. ASSUME NEW i \in 1 .. Len(longer), longer[i] = <<op, r>>, c # <<op, r>>
        PROVE  Awaits(queue, op, r)
    <3>1. i # Len(queue) + 1
      BY <1>1, <2>1
    <3>2. i \in 1 .. Len(queue) /\ longer[i] = queue[i]
      BY <1>1, <3>1
    <3> QED
      BY <2>1, <3>2 DEF Awaits
  <2> QED
    BY <2>1 DEF Awaits
<1>3. Awaits(queue, op, r) \/ c = <<op, r>> => Awaits(longer, op, r)
  <2>1. ASSUME NEW i \in 1 .. Len(queue), queue[i] = <<op, r>> PROVE Awaits(longer, op, r)
    <3>1. i \in 1 .. Len(longer) /\ longer[i] = <<op, r>>
      BY <1>1, <2>1
    <3> QED
      BY <3>1 DEF Awaits
  <2>2. ASSUME c = <<op, r>> PROVE Awaits(longer, op, r)
    <3>1. Len(queue) + 1 \in 1 .. Len(longer) /\ longer[Len(queue) + 1] = <<op, r>>
      BY <1>1, <2>2
    <3> QED
      BY <3>1 DEF Awaits
  <2> QED
    BY <2>1, <2>2 DEF Awaits
<1>4. ASSUME NEW i \in 1 .. Len(longer), longer[i] = <<"cancel", r>>,
             \A j \in 1 .. i - 1 : longer[j] # <<"set", r>>
      PROVE  CancelFirst(longer, r)
  BY <1>4 DEF CancelFirst
<1>5. CancelFirst(queue, r) => CancelFirst(longer, r)
  <2> SUFFICES ASSUME NEW i \in 1 .. Len(queue), queue[i] = <<"cancel", r>>,
                      \A j \in 1 .. i - 1 : queue[j] # <<"set", r>>
               PROVE  CancelFirst(longer, r)
    BY DEF CancelFirst
  <2>1. /\ i \in 1 .. Len(longer) /\ longer[i] = <<"cancel", r>>
        /\ \A j \in 1 .. i - 1 : longer[j] # <<"set", r>>
    BY <1>1
  <2> QED
    BY <1>4, <2>1
<1>6. c = <<"cancel", r>> /\ ~Awaits(queue, "set", r) => CancelFirst(longer, r)
  <2> SUFFICES ASSUME c = <<"cancel", r>>, \A j \in 1 .. Len(queue) : queue[j] # <<"set", r>>
               PROVE  CancelFirst(longer, r)
    BY DEF Awaits
  <2>1. /\ Len(queue) + 1 \in 1 .. Len(longer) /\ longer[Len(queue) + 1] = <<"cancel", r>>
        /\ \A j \in 1 .. (Len(queue) + 1) - 1 : longer[j] # <<"set", r>>
    BY <1>1
  <2> QED
    BY <1>4, <2>1
<1> QED
  BY <1>2, <1>3, <1>5, <1>6

(* A callback that was run no longer waits; the others still do. *)
LEMMA TailAwaits ==
  ASSUME NEW queue \in Seq(Callbacks), queue # <<>>, NEW op, NEW r
  PROVE  /\ Awaits(Tail(queue), op, r) => Awaits(queue, op, r)
         /\ Awaits(queue, op, r) => Awaits(Tail(queue), op, r) \/ Head(queue) = <<op, r>>
         /\ Awaits(queue, Head(queue)[1], Head(queue)[2])
         /\ CancelFirst(queue, r) => /\ Head(queue) # <<"set", r>>
                                     /\ \/ Head(queue) = <<"cancel", r>>
                                        \/ CancelFirst(Tail(queue), r)
<1>1. /\ Len(Tail(queue)) = Len(queue) - 1 /\ Len(queue) \in Nat \ {0}
      /\ \A i \in 1 .. Len(queue) - 1 : Tail(queue)[i] = queue[i + 1]
      /\ Head(queue) = queue[1]
  OBVIOUS
<1>2. Head(queue) = <<Head(queue)[1], Head(queue)[2]>>
  BY <1>1 DEF Callbacks
<1>3. /\ Awaits(Tail(queue), op, r) => Awaits(queue, op, r)
      /\ Awaits(queue, op, r) => Awaits(Tail(queue), op, r) \/ Head(queue) = <<op, r>>
  <2>1. ASSUME NEW i \in 1 .. Len(Tail(queue)), Tail(queue)[i] = <<op, r>>
        PROVE  Awaits(queue, op, r)
    <3>1. i + 1 \in 1 .. Len(queue) /\ queue[i + 1] = <<op, r>>
      BY <1>1, <2>1
    <3> QED
      BY <3>1 DEF Awaits
  <2>2. ASSUME NEW i \in 1 .. Len(queue), queue[i] = <<op, r>>, Head(queue) # <<op, r>>
        PROVE  Awaits(Tail(queue), op, r)
    <3>1. i - 1 \in 1 .. Len(Tail(queue)) /\ Tail(queue)[i - 1] = <<op, r>>
      BY <1>1, <2>2
    <3> QED
      BY <3>1 DEF Awaits
  <2> QED
    BY <2>1, <2>2 DEF Awaits
<1>4. Awaits(queue, Head(queue)[1], Head(queue)[2])
  BY <1>1, <1>2 DEF Awaits
<1>5. ASSUME CancelFirst(queue, r)
      PROVE  /\ Head(queue) # <<"set", r>>
             /\ Head(queue) = <<"cancel", r>> \/ CancelFirst(Tail(queue), r)
  <2>1. PICK i \in 1 .. Len(queue) : /\ queue[i] = <<"cancel", r>>
                                     /\ \A j \in 1 .. i - 1 : queue[j] # <<"set", r>>
    BY <1>5 DEF CancelFirst
  <2>2. CASE i = 1
    BY <1>1, <2>1, <2>2
  <2>3. CASE i # 1
    <3>1. /\ i - 1 \in 1 .. Len(Tail(queue)) /\ Tail(queue)[i - 1] = <<"cancel", r>>
          /\ \A j \in 1 .. (i - 1) - 1 : Tail(queue)[j] # <<"set", r>>
      BY <1>1, <2>1, <2>3
    <3>2. CancelFirst(Tail(queue), r)
      BY <3>1 DEF CancelFirst
    <3> QED
      BY <1>1, <2>1, <2>3, <3>2
  <2> QED
    BY <2>2, <2>3
<1> QED
  BY <1>3, <1>4, <1>5

(* A step that leaves the loop alone leaves alone what it will do.           *)
LEMMA LoopStays ==
  ASSUME UNCHANGED <<future, ready, loopOpen>>, NEW q
  PROVE  /\ Awaits(ready, "set", q)' <=> Awaits(ready, "set", q)
         /\ Told(q)' <=> Told(q)
  BY DEF Awaits, Told, CancelFirst

--------------------------------------------------------------------------------
(* One lemma for the actions of each actor. *)

(* A client that has not been used. *)
LEMMA InitIInv == Init => IInv
  BY DEF Init, IInv, RequestInv, Untouched, SpawnInv, RegistryInv, SettledInv, StreamInv,
         LoopInv, CloseInv, TypeOK, Awaits

(* The winner of the CAS is counted, and nobody else is. *)
CountedOnce(r) ==
  /\ settled' = settled \cup {r}
  /\ r \in settled => counted' = counted
  /\ counted'[r] \in {<<1, 0>>, <<1, 1>>}
  /\ \A q \in Requests \ {r} : counted'[q] = counted[q]
  /\ counted' \in [Requests -> (0 .. 1) \X (0 .. 1)]

(* Settling counts a request the first time, and only then. *)
LEMMA SettleCounts ==
  ASSUME IInv, NEW r \in Requests, NEW failed \in BOOLEAN, Settle(r, failed)
  PROVE  CountedOnce(r) /\ (r \notin settled => counted'[r] = <<1, IF failed THEN 1 ELSE 0>>)
<1>1. counted \in [Requests -> (0 .. 1) \X (0 .. 1)]
  BY DEF IInv, TypeOK
<1>2. CASE r \in settled
  BY <1>1, <1>2 DEF Settle, CountedOnce, countVars, IInv, RequestInv, SettledInv
<1>3. CASE r \notin settled
  <2>1. counted[r] = <<0, 0>>
    BY <1>3 DEF IInv, RequestInv, SettledInv
  <2>2. /\ settled' = settled \cup {r}
        /\ counted' = [counted EXCEPT ![r] = <<1, IF failed THEN 1 ELSE 0>>]
    BY <1>1, <1>3, <2>1 DEF Settle
  <2> QED
    BY <1>1, <1>3, <2>2 DEF CountedOnce
<1> QED
  BY <1>2, <1>3

(* spawn_async_request makes the future and the task. *)
LEMMA SpawnKeeps ==
  ASSUME IInv, NEW r \in Requests, NEW k \in {"buffered", "stream"}, Spawn(r, k) PROVE IInv'
<1>1. TypeOK'
  BY DEF Spawn, TaskTo, SpawnTo, IInv, TypeOK, taskVars, registryVars, streamVars, countVars
<1>2. ASSUME NEW q \in Requests PROVE RequestInv(q)'
  <2>1. Awaits(ready, "set", q)' <=> Awaits(ready, "set", q)
    BY DEF Awaits, Spawn
  <2>2. q # r => (Told(q)' <=> Told(q))
    BY DEF Told, CancelFirst, Spawn, IInv, TypeOK
  <2> QED
    BY <2>1, <2>2
       DEF Spawn, TaskTo, SpawnTo, Spawning, taskVars, registryVars, streamVars, countVars,
           IInv, RequestInv, Untouched, SpawnInv, RegistryInv, SettledInv, StreamInv,
           LoopInv, CloseInv, TypeOK
<1> QED
  BY <1>1, <1>2 DEF IInv

(* The rest of the spawning thread: insert, recheck, watch, start. *)
LEMMA SpawnStepKeeps ==
  ASSUME IInv, NEW r \in Requests, SpawnStep(r)
  PROVE  IInv'
<1>1. UNCHANGED <<future, ready, loopOpen>>
  BY DEF SpawnStep, Insert, Recheck, Watch, WatchFails, Start, loopVars
<1>2. \A q \in Requests : /\ Awaits(ready, "set", q)' <=> Awaits(ready, "set", q)
                          /\ Told(q)' <=> Told(q)
  BY <1>1, LoopStays
<1>3. CASE Insert(r)
  BY <1>1, <1>2, <1>3
     DEF Insert, SpawnTo, taskVars, registryVars, streamVars, loopVars, countVars,
         IInv, RequestInv, Untouched, SpawnInv, RegistryInv, SettledInv, StreamInv,
         LoopInv, CloseInv, TypeOK
<1>4. CASE Recheck(r)
  BY <1>1, <1>2, <1>4
     DEF Recheck, SpawnTo, taskVars, registryVars, streamVars, loopVars, countVars,
         IInv, RequestInv, Untouched, SpawnInv, RegistryInv, SettledInv, StreamInv,
         LoopInv, CloseInv, TypeOK
<1>5. CASE Watch(r)
  BY <1>1, <1>2, <1>5
     DEF Watch, SpawnTo, taskVars, registryVars, streamVars, loopVars, countVars,
         IInv, RequestInv, Untouched, SpawnInv, RegistryInv, SettledInv, StreamInv,
         LoopInv, CloseInv, TypeOK
<1>6. CASE WatchFails(r)
  BY <1>1, <1>2, <1>6
     DEF WatchFails, SpawnTo, taskVars, registryVars, streamVars, loopVars, countVars,
         IInv, RequestInv, Untouched, SpawnInv, RegistryInv, SettledInv, StreamInv,
         LoopInv, CloseInv, TypeOK
<1>7. CASE Start(r)
  BY <1>1, <1>2, <1>7
     DEF Start, SpawnTo, TaskTo, taskVars, registryVars, streamVars, loopVars, countVars,
         IInv, RequestInv, Untouched, SpawnInv, RegistryInv, SettledInv, StreamInv,
         LoopInv, CloseInv, TypeOK
<1> QED
  BY <1>3, <1>4, <1>5, <1>6, <1>7 DEF SpawnStep

(* The request's task up to the delivery of its result. *)
LEMMA TaskStepKeeps ==
  ASSUME IInv, NEW r \in Requests, 
         TakeSlot(r) \/ (TaskStep(r) /\ ~Complete(r))
  PROVE  IInv'
<1>1. UNCHANGED <<future, ready, loopOpen>>
  BY DEF TaskStep, TakeSlot, Resolve, TaskDropped, BufferedFinish, BufferedRemove, StreamRemove,
         StreamError, loopVars
<1>2. \A q \in Requests : /\ Awaits(ready, "set", q)' <=> Awaits(ready, "set", q)
                          /\ Told(q)' <=> Told(q)
  BY <1>1, LoopStays
<1>3. CASE TakeSlot(r)
  BY <1>1, <1>2, <1>3
     DEF TakeSlot, taskVars, registryVars, streamVars, loopVars, countVars,
         IInv, RequestInv, Untouched, SpawnInv, RegistryInv, SettledInv, StreamInv,
         LoopInv, CloseInv, TypeOK
<1>4. CASE \E result \in {"ok", "err"} : Resolve(r, result)
  BY <1>1, <1>2, <1>4
     DEF Resolve, TaskTo, taskVars, registryVars, streamVars, loopVars, countVars,
         IInv, RequestInv, Untouched, SpawnInv, RegistryInv, SettledInv, StreamInv,
         LoopInv, CloseInv, TypeOK
<1>5. CASE TaskDropped(r)
  BY <1>1, <1>2, <1>5
     DEF TaskDropped, TaskTo, taskVars, registryVars, streamVars, loopVars, countVars,
         IInv, RequestInv, Untouched, SpawnInv, RegistryInv, SettledInv, StreamInv,
         LoopInv, CloseInv, TypeOK
<1>6. CASE BufferedFinish(r)
  <2>1. CountedOnce(r) /\ (r \notin settled => counted'[r] = <<1, IF outcome[r] = "err" THEN 1 ELSE 0>>)
    BY <1>6, SettleCounts DEF BufferedFinish
  <2>2. /\ kind[r] = "buffered" /\ task[r] = "resolved"
        /\ task' = [task EXCEPT ![r] = IF r \in settled THEN "done" ELSE "remove"]
        /\ UNCHANGED <<kind, spawn, outcome, aborted, permit, registryVars, streamVars, loopVars, close>>
    BY <1>6 DEF BufferedFinish, TaskTo
  <2>3. TypeOK'
    BY <2>1, <2>2
       DEF CountedOnce, registryVars, streamVars, loopVars, IInv, TypeOK
  <2>4. ASSUME NEW q \in Requests PROVE RequestInv(q)'
    BY <1>2, <2>1, <2>2
       DEF CountedOnce, registryVars, streamVars, loopVars, IInv, RequestInv, Untouched,
           SpawnInv, RegistryInv, SettledInv, StreamInv, LoopInv, CloseInv, TypeOK
  <2> QED
    BY <2>3, <2>4 DEF IInv
<1>7. CASE BufferedRemove(r)
  BY <1>1, <1>2, <1>7
     DEF BufferedRemove, TaskTo, taskVars, registryVars, streamVars, loopVars, countVars,
         IInv, RequestInv, Untouched, SpawnInv, RegistryInv, SettledInv, StreamInv,
         LoopInv, CloseInv, TypeOK
<1>8. CASE StreamRemove(r)
  BY <1>1, <1>2, <1>8
     DEF StreamRemove, TaskTo, taskVars, registryVars, streamVars, loopVars, countVars,
         IInv, RequestInv, Untouched, SpawnInv, RegistryInv, SettledInv, StreamInv,
         LoopInv, CloseInv, TypeOK
<1>9. CASE StreamError(r)
  <2>1. CountedOnce(r)
    BY <1>9, SettleCounts DEF StreamError
  <2>2. /\ task[r] = "finish" /\ task' = [task EXCEPT ![r] = "complete"]
        /\ UNCHANGED <<kind, spawn, outcome, aborted, permit, registryVars, streamVars, loopVars, close>>
    BY <1>9 DEF StreamError, TaskTo
  <2>3. TypeOK'
    BY <2>1, <2>2
       DEF CountedOnce, registryVars, streamVars, loopVars, IInv, TypeOK
  <2>4. ASSUME NEW q \in Requests PROVE RequestInv(q)'
    BY <1>2, <2>1, <2>2
       DEF CountedOnce, registryVars, streamVars, loopVars, IInv, RequestInv, Untouched,
           SpawnInv, RegistryInv, SettledInv, StreamInv, LoopInv, CloseInv, TypeOK
  <2> QED
    BY <2>3, <2>4 DEF IInv
<1> QED
  BY <1>3, <1>4, <1>5, <1>6, <1>7, <1>8, <1>9 DEF TaskStep

(* abort_request, a caller done with its stream, and abort_all with the next one. *)
LEMMA QuietStepKeeps ==
  ASSUME IInv, NEW r \in Requests, 
         AbortTaken(r) \/ UserFinish(r) \/ CloseStream(r)
  PROVE  IInv'
<1>1. UNCHANGED <<future, ready, loopOpen>>
  BY DEF AbortTaken, UserFinish, CloseStream, loopVars
<1>2. \A q \in Requests : /\ Awaits(ready, "set", q)' <=> Awaits(ready, "set", q)
                          /\ Told(q)' <=> Told(q)
  BY <1>1, LoopStays
<1>3. CASE AbortTaken(r)
  <2>1. CountedOnce(r)
    BY <1>3, SettleCounts DEF AbortTaken, Abort
  <2>2. /\ r \in taken /\ taken' = taken \ {r} /\ spawn' = [spawn EXCEPT ![r] = "returned"]
        /\ aborted' = IF r \in settled THEN aborted ELSE aborted \cup {r}
        /\ UNCHANGED <<kind, task, outcome, permit, active, drained, streamVars, loopVars, close>>
    BY <1>3 DEF AbortTaken, Abort, SpawnTo
  <2>3. TypeOK'
    BY <2>1, <2>2
       DEF CountedOnce, registryVars, streamVars, loopVars, IInv, TypeOK
  <2>4. ASSUME NEW q \in Requests PROVE RequestInv(q)'
    BY <1>2, <2>1, <2>2
       DEF CountedOnce, registryVars, streamVars, loopVars, IInv, RequestInv, Untouched,
           SpawnInv, RegistryInv, SettledInv, StreamInv, LoopInv, CloseInv, TypeOK
  <2> QED
    BY <2>3, <2>4 DEF IInv
<1>4. CASE UserFinish(r)
  <2>1. r \in openStream /\ CountedOnce(r)
    BY <1>4, SettleCounts DEF UserFinish, FinishStream
  <2> QED
    BY <1>1, <1>2, <1>4, <2>1
       DEF CountedOnce, Settle, UserFinish, FinishStream, taskVars, registryVars, streamVars, loopVars, countVars,
           IInv, RequestInv, Untouched, SpawnInv, RegistryInv, SettledInv, StreamInv,
           LoopInv, CloseInv, TypeOK
<1>5. CASE CloseStream(r)
  <2>1. r \in openStream => CountedOnce(r)
    BY <1>5, SettleCounts DEF CloseStream, FinishStream
  <2>2. TypeOK'
    BY <1>1, <1>5, <2>1
       DEF CountedOnce, Settle, CloseStream, FinishStream, taskVars, registryVars, streamVars, loopVars, countVars,
           IInv, TypeOK
  <2>3. ASSUME NEW q \in Requests PROVE RequestInv(q)'
    BY <1>1, <1>2, <1>5, <2>1
       DEF CountedOnce, Settle, CloseStream, FinishStream, taskVars, registryVars, streamVars, loopVars, countVars,
           IInv, RequestInv, Untouched, SpawnInv, RegistryInv, SettledInv, StreamInv,
           LoopInv, CloseInv, TypeOK
  <2> QED
    BY <2>2, <2>3 DEF IInv
<1> QED
  BY <1>3, <1>4, <1>5 DEF AbortTaken

(* Scheduling the callback <<op, r>> of a request.                           *)
LEMMA ScheduleAwaits ==
  ASSUME IInv, NEW r \in Requests, NEW op \in {"set", "cancel"},
         ready' = (IF loopOpen THEN Append(ready, <<op, r>>) ELSE ready),
         UNCHANGED <<future, loopOpen>>
  PROVE  /\ ready' \in Seq({"set", "cancel", "done"} \X Requests)
         /\ \A q \in Requests :
              /\ Awaits(ready, "set", q)' => \/ Awaits(ready, "set", q)
                                             \/ op = "set" /\ q = r
              /\ Told(q) => Told(q)'
         /\ op = "cancel" /\ ~Awaits(ready, "set", r) /\ future[r] # "response" => Told(r)'
<1>1. ready \in Seq(Callbacks) /\ <<op, r>> \in Callbacks
  BY DEF IInv, TypeOK, Callbacks
<1>2. CASE loopOpen
  <2>1. ready' = Append(ready, <<op, r>>)
    BY <1>2
  <2>2. \A q \in Requests :
          /\ Awaits(ready', "set", q) <=> Awaits(ready, "set", q) \/ <<op, r>> = <<"set", q>>
          /\ CancelFirst(ready, q) => CancelFirst(ready', q)
          /\ <<op, r>> = <<"cancel", q>> /\ ~Awaits(ready, "set", q) => CancelFirst(ready', q)
    BY <1>1, <2>1, AppendAwaits
  <2>3. ready' \in Seq(Callbacks)
    BY <1>1, <2>1
  <2> QED
    BY <2>2, <2>3 DEF Told, Callbacks
<1>3. CASE ~loopOpen
  BY <1>1, <1>3 DEF Told, Callbacks
<1> QED
  BY <1>2, <1>3

(* The task schedules its result, or meets a loop that is closed. *)
LEMMA CompleteKeeps ==
  ASSUME IInv, NEW r \in Requests, Complete(r) PROVE IInv'
<1>1. /\ task[r] = "complete" /\ task' = [task EXCEPT ![r] = "done"]
      /\ ready' = (IF loopOpen THEN Append(ready, <<"set", r>>) ELSE ready)
      /\ UNCHANGED <<kind, spawn, outcome, aborted, registryVars, closing, future, watched,
                     loopOpen, close>>
  BY DEF Complete, TaskTo, Schedule
<1>2. \/ UNCHANGED <<openStream, streams, permit, countVars>>
      \/ /\ r \in openStream /\ openStream' = openStream \ {r}
         /\ streams' = streams \ {r} /\ permit' = permit \ {r}
         /\ CountedOnce(r)
  BY SettleCounts DEF Complete, FinishStream
<1>3. /\ ready' \in Seq({"set", "cancel", "done"} \X Requests)
      /\ \A q \in Requests : /\ Awaits(ready, "set", q)' => Awaits(ready, "set", q) \/ q = r
                             /\ Told(q) => Told(q)'
  BY <1>1, ScheduleAwaits
<1>4. TypeOK'
  BY <1>1, <1>2, <1>3 DEF CountedOnce, registryVars, countVars, IInv, TypeOK
<1>5. ASSUME NEW q \in Requests PROVE RequestInv(q)'
  <2>1. CASE q = r
    BY <1>1, <1>2, <1>3, <2>1
       DEF CountedOnce, registryVars, countVars, IInv, RequestInv, Untouched, SpawnInv,
           RegistryInv, SettledInv, StreamInv, LoopInv, CloseInv, TypeOK
  <2>2. CASE q # r
    <3>1. /\ task'[q] = task[q] /\ counted'[q] = counted[q]
          /\ (q \in settled' <=> q \in settled) /\ (q \in openStream' <=> q \in openStream)
          /\ (q \in streams' <=> q \in streams) /\ (q \in permit' <=> q \in permit)
      BY <1>1, <1>2, <2>2 DEF CountedOnce, countVars, IInv, TypeOK
    <3>2. RequestInv(q)
      BY DEF IInv
    <3>3. Untouched(q)' /\ SpawnInv(q)'
      BY <1>1, <3>1, <3>2 DEF registryVars, RequestInv, Untouched, SpawnInv
    <3>4. RegistryInv(q)'
      BY <1>1, <3>1, <3>2 DEF registryVars, RequestInv, RegistryInv
    <3>5. Awaits(ready, "set", q)' => Awaits(ready, "set", q)
      BY <1>3, <2>2
    <3>6. SettledInv(q)'
      BY <1>1, <3>1, <3>2, <3>5 DEF registryVars, RequestInv, SettledInv
    <3>7. StreamInv(q)' /\ LoopInv(q)'
      BY <1>1, <3>1, <3>2, <3>5 DEF registryVars, RequestInv, StreamInv, LoopInv
    <3>8. CloseInv(q)'
      BY <1>1, <1>3, <3>1, <3>2 DEF registryVars, RequestInv, CloseInv
    <3> QED
      BY <3>3, <3>4, <3>6, <3>7, <3>8 DEF RequestInv
  <2> QED
    BY <2>1, <2>2
<1> QED
  BY <1>4, <1>5 DEF IInv

(* Running the first callback, and what it schedules in turn.                *)
LEMMA RunAwaits ==
  ASSUME IInv, ready # <<>>, NEW r \in Requests, Head(ready)[2] = r,
         \/ ready' = Tail(ready)
         \/ ready' = Append(Tail(ready), <<"done", r>>)
  PROVE  /\ ready' \in Seq({"set", "cancel", "done"} \X Requests)
         /\ Awaits(ready, Head(ready)[1], r)
         /\ \A q \in Requests :
              /\ Awaits(ready, "set", q)' => Awaits(ready, "set", q)
              /\ CancelFirst(ready, q) => \/ CancelFirst(ready, q)'
                                          \/ q = r /\ Head(ready)[1] = "cancel"
              /\ CancelFirst(ready, q) => ~(q = r /\ Head(ready)[1] = "set")
<1>1. /\ ready \in Seq(Callbacks) /\ <<"done", r>> \in Callbacks
      /\ Tail(ready) \in Seq(Callbacks)
  BY DEF IInv, TypeOK, Callbacks
<1>2. Head(ready) = <<Head(ready)[1], r>>
  BY <1>1 DEF Callbacks
<1>3. \A q \in Requests :
        /\ Awaits(Tail(ready), "set", q) => Awaits(ready, "set", q)
        /\ CancelFirst(ready, q) => /\ Head(ready) # <<"set", q>>
                                    /\ \/ Head(ready) = <<"cancel", q>>
                                       \/ CancelFirst(Tail(ready), q)
  BY <1>1, TailAwaits
<1>4. Awaits(ready, Head(ready)[1], r)
  BY <1>1, TailAwaits
<1>5. \A q \in Requests :
        /\ Awaits(Append(Tail(ready), <<"done", r>>), "set", q) => Awaits(Tail(ready), "set", q)
        /\ CancelFirst(Tail(ready), q) => CancelFirst(Append(Tail(ready), <<"done", r>>), q)
  <2> TAKE q \in Requests
  <2>1. Awaits(Append(Tail(ready), <<"done", r>>), "set", q)
          <=> Awaits(Tail(ready), "set", q) \/ <<"done", r>> = <<"set", q>>
    BY <1>1, AppendAwaits
  <2>2. CancelFirst(Tail(ready), q) => CancelFirst(Append(Tail(ready), <<"done", r>>), q)
    BY <1>1, AppendAwaits
  <2> QED
    BY <2>1, <2>2
<1>6. ready' \in Seq(Callbacks)
  <2>1. Append(Tail(ready), <<"done", r>>) \in Seq(Callbacks)
    BY <1>1
  <2> QED
    BY <1>1, <2>1
<1>7. \A q \in Requests :
        /\ Head(ready) = <<"cancel", q>> => q = r /\ Head(ready)[1] = "cancel"
        /\ q = r /\ Head(ready)[1] = "set" => Head(ready) = <<"set", q>>
  <2> DEFINE first == Head(ready)
  <2>1. first = <<first[1], r>>
    BY <1>2
  <2> HIDE DEF first
  <2>2. \A q : first = <<"cancel", q>> => q = r /\ first[1] = "cancel"
    BY <2>1
  <2>3. first[1] = "set" => first = <<"set", r>>
    BY <2>1
  <2> QED
    BY <2>2, <2>3 DEF first
<1>8. CASE ready' = Tail(ready)
  BY <1>3, <1>4, <1>6, <1>7, <1>8 DEF Callbacks
<1>9. CASE ready' = Append(Tail(ready), <<"done", r>>)
  BY <1>3, <1>4, <1>5, <1>6, <1>7, <1>9 DEF Callbacks
<1> QED
  BY <1>8, <1>9

(* set_result_if_pending on the event loop. *)
LEMMA LoopSetKeeps == ASSUME IInv, LoopSet PROVE IInv'
<1> DEFINE r == Head(ready)[2]
           wasSettled == /\ r \in openStream /\ openStream' = openStream \ {r}
                         /\ streams' = streams \ {r} /\ permit' = permit \ {r}
                         /\ CountedOnce(r)
<1>1. loopOpen /\ r \in Requests /\ ready # <<>> /\ Head(ready)[1] = "set"
  BY DEF LoopSet, LoopRuns, IInv, TypeOK
<1>2. UNCHANGED <<kind, spawn, taskVars, registryVars, closing, watched, loopOpen, close>>
  BY DEF LoopSet
<1>3. \/ /\ future[r] = "pending"
         /\ future' = [future EXCEPT ![r] = IF outcome[r] = "ok" THEN "response" ELSE "exception"]
         /\ ready' = Append(Tail(ready), <<"done", r>>) \/ ready' = Tail(ready)
         /\ UNCHANGED <<openStream, streams, permit, countVars>>
      \/ /\ future[r] # "pending" /\ future' = future /\ ready' = Tail(ready)
         /\ wasSettled \/ UNCHANGED <<openStream, streams, permit, countVars>>
  BY <1>1, SettleCounts DEF LoopSet, Done, FinishStream
<1> HIDE DEF r
<1>4. /\ ready' \in Seq({"set", "cancel", "done"} \X Requests)
      /\ Awaits(ready, "set", r) /\ ~CancelFirst(ready, r)
      /\ \A q \in Requests : /\ Awaits(ready, "set", q)' => Awaits(ready, "set", q)
                             /\ CancelFirst(ready, q) => CancelFirst(ready, q)'
  <2>1. Head(ready)[2] = r
    BY DEF r
  <2>2. ready' = Tail(ready) \/ ready' = Append(Tail(ready), <<"done", r>>)
    BY <1>3
  <2> QED
    BY <1>1, <2>1, <2>2, RunAwaits
<1>5. task[r] = "done"
  BY <1>1, <1>4 DEF IInv, RequestInv, LoopInv
<1>6. TypeOK'
  <2>1. future' \in [Requests -> {"none", "pending", "response", "exception", "cancelled"}]
    BY <1>1, <1>3 DEF IInv, TypeOK
  <2>2. /\ openStream' \subseteq Requests /\ streams' \subseteq Requests /\ permit' \subseteq Requests
        /\ settled' \subseteq Requests /\ counted' \in [Requests -> (0 .. 1) \X (0 .. 1)]
    BY <1>1, <1>3 DEF CountedOnce, countVars, IInv, TypeOK
  <2> QED
    BY <1>2, <1>4, <2>1, <2>2 DEF taskVars, registryVars, IInv, TypeOK
<1>7. ASSUME NEW q \in Requests PROVE RequestInv(q)'
  <2>1. Told(q) => Told(q)'
    BY <1>1, <1>2, <1>3, <1>4 DEF Told, IInv, TypeOK
  <2>2. CASE q = r
    BY <1>1, <1>2, <1>3, <1>4, <1>5, <2>1, <2>2
       DEF CountedOnce, taskVars, registryVars, countVars, IInv, RequestInv, Untouched, SpawnInv,
           RegistryInv, SettledInv, StreamInv, LoopInv, CloseInv, TypeOK, Told
  <2>3. CASE q # r
    <3>1. /\ future'[q] = future[q] /\ counted'[q] = counted[q]
          /\ (q \in settled' <=> q \in settled) /\ (q \in openStream' <=> q \in openStream)
          /\ (q \in streams' <=> q \in streams) /\ (q \in permit' <=> q \in permit)
      BY <1>1, <1>3, <2>3 DEF CountedOnce, countVars, IInv, TypeOK
    <3> QED
      BY <1>2, <1>4, <2>1, <3>1
         DEF taskVars, registryVars, IInv, RequestInv, Untouched, SpawnInv,
             RegistryInv, SettledInv, StreamInv, LoopInv, CloseInv, TypeOK
  <2> QED
    BY <2>2, <2>3
<1> QED
  BY <1>6, <1>7 DEF IInv

(* Future.cancel on the event loop. *)
LEMMA LoopCancelKeeps == ASSUME IInv, LoopCancel PROVE IInv'
<1> DEFINE r == Head(ready)[2]
<1>1. /\ r \in Requests /\ ready # <<>> /\ Head(ready)[1] = "cancel"
  BY DEF LoopCancel, LoopRuns, IInv, TypeOK
<1>2. UNCHANGED <<kind, spawn, taskVars, permit, countVars, registryVars, streamVars, watched,
                  loopOpen, close>>
  BY DEF LoopCancel
<1>3. /\ \/ future[r] = "pending" /\ future' = [future EXCEPT ![r] = "cancelled"]
         \/ future[r] # "pending" /\ future' = future
      /\ ready' = Append(Tail(ready), <<"done", r>>) \/ ready' = Tail(ready)
  BY DEF LoopCancel, Done
<1> HIDE DEF r
<1>4. /\ ready' \in Seq({"set", "cancel", "done"} \X Requests)
      /\ \A q \in Requests : /\ Awaits(ready, "set", q)' => Awaits(ready, "set", q)
                             /\ CancelFirst(ready, q) => q = r \/ CancelFirst(ready, q)'
  <2>1. Head(ready)[2] = r
    BY DEF r
  <2> QED
    BY <1>1, <1>3, <2>1, RunAwaits
<1>5. TypeOK'
  BY <1>1, <1>2, <1>3, <1>4 DEF taskVars, registryVars, streamVars, countVars, IInv, TypeOK
<1>6. ASSUME NEW q \in Requests PROVE RequestInv(q)'
  <2>1. Told(q) => Told(q)'
    BY <1>1, <1>2, <1>3, <1>4 DEF Told, IInv, TypeOK
  <2>2. /\ future'[q] \in {"response", "exception"} => future[q] = future'[q]
        /\ future[q] = "none" => future'[q] = "none"
    BY <1>1, <1>3 DEF IInv, TypeOK
  <2> QED
    BY <1>2, <1>4, <2>1, <2>2
       DEF taskVars, registryVars, streamVars, countVars, IInv, RequestInv, Untouched, SpawnInv,
           RegistryInv, SettledInv, StreamInv, LoopInv, CloseInv, TypeOK
<1> QED
  BY <1>5, <1>6 DEF IInv

(* The done callback of a watched future. *)
LEMMA LoopDoneKeeps == ASSUME IInv, LoopDone PROVE IInv'
<1> DEFINE r == Head(ready)[2]
<1>1. /\ r \in Requests /\ ready # <<>> /\ Head(ready)[1] = "done" /\ ready' = Tail(ready)
      /\ \A q \in Requests : spawn[q] \in {"none", "returned"}
  BY DEF LoopDone, LoopRuns, Spawning, IInv, TypeOK
<1>2. UNCHANGED <<kind, spawn, taskVars, permit, countVars, drained, streamVars, future, watched,
                  loopOpen, close>>
  BY DEF LoopDone
<1>3. \/ /\ future[r] = "cancelled" /\ r \in active
         /\ active' = active \ {r} /\ taken' = taken \cup {r}
      \/ UNCHANGED <<active, taken>>
  BY DEF LoopDone
<1> HIDE DEF r
<1>4. /\ ready' \in Seq({"set", "cancel", "done"} \X Requests)
      /\ \A q \in Requests : /\ Awaits(ready, "set", q)' => Awaits(ready, "set", q)
                             /\ CancelFirst(ready, q) => CancelFirst(ready, q)'
  <2>1. Head(ready)[2] = r
    BY DEF r
  <2> QED
    BY <1>1, <2>1, RunAwaits
<1>5. TypeOK'
  BY <1>1, <1>2, <1>3, <1>4 DEF taskVars, streamVars, countVars, IInv, TypeOK
<1>6. ASSUME NEW q \in Requests PROVE RequestInv(q)'
  <2>1. /\ Told(q) => Told(q)'
        /\ future[q] = "cancelled" => Told(q)'
    BY <1>2, <1>4 DEF Told
  <2> QED
    BY <1>1, <1>2, <1>3, <1>4, <2>1
       DEF taskVars, streamVars, countVars, IInv, RequestInv, Untouched, SpawnInv,
           RegistryInv, SettledInv, StreamInv, LoopInv, CloseInv, TypeOK
<1> QED
  BY <1>5, <1>6 DEF IInv

(* The caller's task is cancelled. *)
LEMMA UserCancelKeeps ==
  ASSUME IInv, NEW r \in Requests, UserCancel(r) PROVE IInv'
<1>1. /\ future[r] = "pending" /\ future' = [future EXCEPT ![r] = "cancelled"]
      /\ ready' = ready \/ ready' = Append(ready, <<"done", r>>)
      /\ UNCHANGED <<kind, spawn, taskVars, permit, countVars, registryVars, streamVars, watched,
                     loopOpen, close>>
  BY DEF UserCancel, Done
<1>2. ready \in Seq(Callbacks) /\ <<"done", r>> \in Callbacks
  BY DEF IInv, TypeOK, Callbacks
<1>3. ASSUME NEW q \in Requests
      PROVE  /\ Awaits(ready', "set", q) => Awaits(ready, "set", q)
             /\ CancelFirst(ready, q) => CancelFirst(ready', q)
  <2>1. /\ Awaits(Append(ready, <<"done", r>>), "set", q)
             <=> Awaits(ready, "set", q) \/ <<"done", r>> = <<"set", q>>
        /\ CancelFirst(ready, q) => CancelFirst(Append(ready, <<"done", r>>), q)
    BY <1>2, AppendAwaits
  <2> QED
    BY <1>1, <2>1
<1>4. ready' \in Seq({"set", "cancel", "done"} \X Requests)
  <2>1. Append(ready, <<"done", r>>) \in Seq(Callbacks)
    BY <1>2
  <2> QED
    BY <1>1, <1>2, <2>1 DEF Callbacks
<1>5. TypeOK'
  BY <1>1, <1>4 DEF taskVars, registryVars, streamVars, countVars, IInv, TypeOK
<1>6. ASSUME NEW q \in Requests PROVE RequestInv(q)'
  <2>1. Told(q) => Told(q)'
    BY <1>1, <1>3 DEF Told, IInv, TypeOK
  <2>2. /\ future'[q] \in {"response", "exception"} => future[q] = future'[q]
        /\ future[q] = "none" => future'[q] = "none"
    BY <1>1 DEF IInv, TypeOK
  <2> QED
    BY <1>1, <1>3, <2>1, <2>2
       DEF taskVars, registryVars, streamVars, countVars, IInv, RequestInv, Untouched, SpawnInv,
           RegistryInv, SettledInv, StreamInv, LoopInv, CloseInv, TypeOK
<1> QED
  BY <1>5, <1>6 DEF IInv

(* The event loop is closed, with what its queue still carried. *)
LEMMA LoopClosesKeeps == ASSUME IInv, LoopCloses PROVE IInv'
<1>1. /\ ~loopOpen' /\ loopOpen' \in BOOLEAN /\ ready' = <<>>
      /\ UNCHANGED <<kind, spawn, taskVars, registryVars, closing, future, watched, close>>
  BY DEF LoopCloses
<1> DEFINE dropped == Carried \cap openStream
<1>2. dropped \subseteq Requests
  BY DEF Carried
<1>3. /\ openStream' = openStream \ dropped /\ streams' = streams \ dropped
      /\ permit' = permit \ dropped /\ settled' = settled \cup dropped
  BY DEF LoopCloses
<1>4. counted' = [r \in Requests |-> IF r \in dropped \ settled
                                     THEN <<counted[r][1] + 1, counted[r][2] + 1>>
                                     ELSE counted[r]]
  BY DEF LoopCloses
<1> HIDE DEF dropped
<1>5. /\ counted' \in [Requests -> (0 .. 1) \X (0 .. 1)]
      /\ \A q \in Requests : IF q \in dropped /\ q \notin settled THEN counted'[q] = <<1, 1>>
                                                                ELSE counted'[q] = counted[q]
  <2>1. \A q \in Requests : q \notin settled => counted[q] = <<0, 0>>
    BY DEF IInv, RequestInv, SettledInv
  <2>2. counted \in [Requests -> (0 .. 1) \X (0 .. 1)]
    BY DEF IInv, TypeOK
  <2>3. \A q \in Requests : IF q \in dropped /\ q \notin settled THEN counted'[q] = <<1, 1>>
                                                                ELSE counted'[q] = counted[q]
    BY <1>4, <2>1
  <2> QED
    BY <1>4, <2>2, <2>3
<1>6. \A q \in Requests : q \in dropped => q \in openStream /\ task[q] = "done"
  BY DEF dropped, Carried, Awaits, IInv, RequestInv, LoopInv
<1>7. TypeOK'
  <2>1. ready' \in Seq({"set", "cancel", "done"} \X Requests)
    BY <1>1
  <2>2. /\ openStream' \subseteq Requests /\ streams' \subseteq Requests /\ permit' \subseteq Requests
        /\ settled' \subseteq Requests
    BY <1>2, <1>3 DEF IInv, TypeOK
  <2> QED
    BY <1>1, <1>5, <2>1, <2>2 DEF taskVars, registryVars, IInv, TypeOK
<1>8. ASSUME NEW q \in Requests PROVE RequestInv(q)'
  <2>1. ~Awaits(ready, "set", q)'
    BY <1>1 DEF Awaits
  <2>2. Told(q) => Told(q)'
    BY <1>1 DEF Told
  <2> QED
    BY <1>1, <1>3, <1>5, <1>6, <2>1, <2>2
       DEF taskVars, registryVars, IInv, RequestInv, Untouched, SpawnInv,
           RegistryInv, SettledInv, StreamInv, LoopInv, CloseInv, TypeOK
<1> QED
  BY <1>7, <1>8 DEF IInv

(* Client.close aborts one request of its drained registry. *)
LEMMA CloseRequestKeeps ==
  ASSUME IInv, NEW r \in Requests, CloseRequest(r) PROVE IInv'
<1>1. /\ close = "requests" /\ r \in drained /\ drained' = drained \ {r}
      /\ aborted' = IF r \in settled THEN aborted ELSE aborted \cup {r}
      /\ ready' = (IF loopOpen THEN Append(ready, <<"cancel", r>>) ELSE ready)
      /\ UNCHANGED <<kind, spawn, task, outcome, permit, active, taken, streamVars, future, watched,
                     loopOpen, close>>
  BY DEF CloseRequest, Abort, Schedule
<1>2. CountedOnce(r)
  BY SettleCounts DEF CloseRequest, Abort
<1>3. /\ ready' \in Seq({"set", "cancel", "done"} \X Requests)
      /\ \A q \in Requests : /\ Awaits(ready, "set", q)' => Awaits(ready, "set", q)
                             /\ Told(q) => Told(q)'
      /\ ~Awaits(ready, "set", r) /\ future[r] # "response" => Told(r)'
  BY <1>1, ScheduleAwaits
<1>4. TypeOK'
  BY <1>1, <1>2, <1>3 DEF CountedOnce, streamVars, IInv, TypeOK
<1>5. ASSUME NEW q \in Requests PROVE RequestInv(q)'
  <2>1. CASE q = r
    <3>1. SettledInv(r)'
      <4>1. CASE r \in settled
        BY <1>1, <1>2, <1>3, <4>1
           DEF CountedOnce, streamVars, IInv, RequestInv, SettledInv, TypeOK
      <4>2. CASE r \notin settled
        <5>1. /\ r \in settled' /\ r \in aborted' /\ counted'[r] \in {<<1, 0>>, <<1, 1>>}
              /\ counted[r] = <<0, 0>>
          BY <1>1, <1>2, <4>2 DEF CountedOnce, IInv, RequestInv, SettledInv
        <5>2. kind[r] = "buffered" => /\ task[r] \notin {"remove", "complete"}
                                      /\ ~Awaits(ready, "set", r) /\ future[r] # "response"
          BY <5>1 DEF IInv, RequestInv, SettledInv
        <5> QED
          BY <1>1, <1>3, <5>1, <5>2 DEF SettledInv
      <4> QED
        BY <4>1, <4>2
    <3> QED
      BY <1>1, <1>2, <1>3, <2>1, <3>1
         DEF CountedOnce, streamVars, IInv, RequestInv, Untouched, SpawnInv,
             RegistryInv, SettledInv, StreamInv, LoopInv, CloseInv, TypeOK
  <2>2. CASE q # r
    <3>1. /\ counted'[q] = counted[q] /\ (q \in settled' <=> q \in settled)
          /\ (q \in aborted' <=> q \in aborted) /\ (q \in drained' <=> q \in drained)
      BY <1>1, <1>2, <2>2 DEF CountedOnce
    <3> QED
      BY <1>1, <1>3, <3>1
         DEF streamVars, IInv, RequestInv, Untouched, SpawnInv,
             RegistryInv, SettledInv, StreamInv, LoopInv, CloseInv, TypeOK
  <2> QED
    BY <2>1, <2>2
<1> QED
  BY <1>4, <1>5 DEF IInv

(* The steps of Client.close: requests, streams, runtime. *)
LEMMA CloseKeeps ==
  ASSUME IInv, CloseRequests \/ CloseStreams \/ CloseRuntime PROVE IInv'
<1>1. UNCHANGED <<future, ready, loopOpen>>
  BY DEF CloseRequests, CloseStreams, CloseRuntime, loopVars
<1>2. \A q \in Requests : /\ Awaits(ready, "set", q)' <=> Awaits(ready, "set", q)
                          /\ Told(q)' <=> Told(q)
  BY <1>1, LoopStays
<1>3. CASE CloseRequests
  BY <1>1, <1>2, <1>3
     DEF CloseRequests, Spawning, taskVars, streamVars, loopVars, countVars,
         IInv, RequestInv, Untouched, SpawnInv, RegistryInv, SettledInv, StreamInv,
         LoopInv, CloseInv, TypeOK
<1>4. CASE CloseStreams
  BY <1>1, <1>2, <1>4
     DEF CloseStreams, taskVars, registryVars, loopVars, countVars,
         IInv, RequestInv, Untouched, SpawnInv, RegistryInv, SettledInv, StreamInv,
         LoopInv, CloseInv, TypeOK
<1>5. CASE CloseRuntime
  BY <1>1, <1>2, <1>5
     DEF CloseRuntime, taskVars, registryVars, streamVars, loopVars, countVars,
         IInv, RequestInv, Untouched, SpawnInv, RegistryInv, SettledInv, StreamInv,
         LoopInv, CloseInv, TypeOK
<1> QED
  BY <1>3, <1>4, <1>5

--------------------------------------------------------------------------------
(* The invariants *)

(* IInv is inductive: every step of the callers, of the tasks, of the event  *)
(* loop and of close keeps it.                                               *)
LEMMA NextIInv == IInv /\ [Next]_vars => IInv'
<1> SUFFICES ASSUME IInv, [Next]_vars PROVE IInv'
  OBVIOUS
<1>1. ASSUME NEW r \in Requests,
             \/ \E k \in {"buffered", "stream"} : Spawn(r, k)
             \/ SpawnStep(r) \/ TakeSlot(r) \/ TaskStep(r)
             \/ AbortTaken(r) \/ UserCancel(r) \/ UserFinish(r)
      PROVE  IInv'
  BY <1>1, SpawnKeeps, SpawnStepKeeps, TaskStepKeeps, CompleteKeeps, QuietStepKeeps,
     UserCancelKeeps
<1>2. CASE Loop
  BY <1>2, LoopSetKeeps, LoopCancelKeeps, LoopDoneKeeps DEF Loop
<1>3. CASE LoopCloses
  BY <1>3, LoopClosesKeeps
<1>4. CASE CloseRequests
  BY <1>4, CloseKeeps
<1>5. CASE CloseStep
  BY <1>5, CloseKeeps, CloseRequestKeeps, QuietStepKeeps DEF CloseStep
<1>6. CASE UNCHANGED vars
  <2>1. UNCHANGED <<future, ready, loopOpen>>
    BY <1>6 DEF vars, loopVars
  <2>2. \A q \in Requests : /\ Awaits(ready, "set", q)' <=> Awaits(ready, "set", q)
                            /\ Told(q)' <=> Told(q)
    BY <2>1, LoopStays
  <2> QED
    BY <1>6, <2>2
       DEF vars, taskVars, registryVars, streamVars, loopVars, countVars,
           IInv, RequestInv, Untouched, SpawnInv, RegistryInv, SettledInv, StreamInv,
           LoopInv, CloseInv, TypeOK
<1> QED
  BY <1>1, <1>2, <1>3, <1>4, <1>5, <1>6 DEF Next

(* Every variable has its type, and no request is counted twice.             *)
THEOREM TypeCorrect == Spec => []TypeOK
<1>1. IInv => TypeOK
  BY DEF IInv
<1> QED
  BY InitIInv, NextIInv, <1>1, PTL DEF Spec

(* A request that is over was counted once, is in no registry and holds no   *)
(* slot, whoever of the task, the cancellation and close settled it.         *)
THEOREM NothingLeaksAlways == Spec => []NothingLeaks
<1>1. ASSUME IInv PROVE NothingLeaks
  <2>1. ASSUME NEW r \in Requests, Over(r)
        PROVE  counted[r][1] = 1 /\ r \notin active \cup streams \cup permit
    <3>1. r \in settled /\ r \notin openStream
      BY <1>1, <2>1 DEF Over, IInv, RequestInv, SettledInv
    <3>2. counted[r] = <<1, 0>> \/ counted[r] = <<1, 1>>
      BY <1>1, <3>1 DEF IInv, RequestInv, SettledInv
    <3>3. r \notin active
      BY <1>1, <2>1, <3>1 DEF Over, IInv, RequestInv, RegistryInv
    <3>4. r \notin streams /\ r \notin permit
      BY <1>1, <2>1, <3>1 DEF Over, IInv, RequestInv, StreamInv
    <3> QED
      BY <3>2, <3>3, <3>4
  <2>2. /\ aborted \subseteq settled
        /\ \A r \in aborted : kind[r] = "buffered" => task[r] \notin {"remove", "complete"}
        /\ \A r \in Requests : kind[r] = "buffered" /\ future[r] = "response"
                                 => counted[r] = <<1, 0>>
    BY <1>1 DEF IInv, RequestInv, SettledInv, TypeOK
  <2> QED
    BY <2>1, <2>2 DEF NothingLeaks
<1> QED
  BY InitIInv, NextIInv, <1>1, PTL DEF Spec

(* Once close has returned no caller has an open stream, and no task runs on *)
(* that was not aborted.                                                     *)
THEOREM NothingEscapesCloseEver == Spec => []NothingEscapesClose
<1>1. ASSUME IInv PROVE NothingEscapesClose
  <2> SUFFICES ASSUME close = "closed", NEW r \in Requests
               PROVE  /\ future[r] = "response" => r \notin openStream
                      /\ task[r] \in {"gated", "running"} => r \in aborted \cup taken
    BY DEF NothingEscapesClose
  <2>1. future[r] = "response" => r \notin openStream
    BY <1>1 DEF IInv, RequestInv, CloseInv, Told
  <2>2. task[r] \in {"gated", "running"} => r \in aborted \cup taken
    BY <1>1 DEF IInv, RequestInv, RegistryInv, CloseInv
  <2> QED
    BY <2>1, <2>2
<1> QED
  BY InitIInv, NextIInv, <1>1, PTL DEF Spec

================================================================================
