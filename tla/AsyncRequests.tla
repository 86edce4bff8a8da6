----------------------------- MODULE AsyncRequests -----------------------------
(***************************************************************************)
(* The asynchronous requests of one client (py/client/async_requests), the *)
(* hand-over of a streamed response to its caller and the client's close   *)
(* (RawClient::close_resources).  A request is raced for by its Tokio      *)
(* task, by the cancellation of its asyncio future and by close; the CAS   *)
(* of RequestCompletion lets one of them settle it.                        *)
(*                                                                         *)
(* A step is one critical section of a registry's mutex, one CAS with what *)
(* follows from it, one callback of the event loop, or one stretch of a    *)
(* task between awaits.  What happens inside an open stream is the module  *)
(* StreamState; here it is open or finished.                               *)
(***************************************************************************)
EXTENDS Integers, Sequences, FiniteSets

CONSTANTS Requests

ASSUME RequestsAssumption == IsFiniteSet(Requests)

VARIABLES
  kind,       \* "buffered" (spawn.rs) or "stream" (stream_spawn.rs)
  spawn,      \* where the spawning call is, on the event loop's thread
  task,       \* where the Tokio task is
  outcome,    \* what the exchange ended with: "none", "ok" or "err"
  permit,     \* requests that hold an AcquirePermit (task or stream)
  settled,    \* RequestCompletion.finished
  counted,    \* calls of Metrics.request_finished: <<all, failed>>
  active,     \* AsyncRequestRegistry.active
  streams,    \* StreamRegistry.active
  openStream, \* streams whose StreamState is not terminal
  aborted,    \* tasks whose AbortHandle was used
  taken,      \* entries abort_request removed and has yet to abort
  future,     \* the asyncio future of each request
  watched,    \* futures with the PythonFutureCancellation callback
  ready,      \* callbacks the event loop will run, in order
  loopOpen,
  close,      \* where close_resources is
  drained,    \* entries abort_all drained and has yet to abort
  closing     \* streams abort_all collected and has yet to close

taskVars     == <<task, outcome, aborted>>
registryVars == <<active, taken, drained>>
streamVars   == <<streams, openStream, closing>>
loopVars     == <<future, watched, ready, loopOpen>>
countVars    == <<settled, counted>>
vars == <<kind, spawn, taskVars, permit, countVars, registryVars, streamVars, loopVars, close>>

Init ==
  /\ kind = [r \in Requests |-> "buffered"]
  /\ spawn = [r \in Requests |-> "none"] /\ task = [r \in Requests |-> "none"]
  /\ outcome = [r \in Requests |-> "none"]
  /\ permit = {} /\ settled = {} /\ counted = [r \in Requests |-> <<0, 0>>]
  /\ active = {} /\ streams = {} /\ openStream = {} /\ aborted = {}
  /\ taken = {} /\ drained = {} /\ closing = {}
  /\ future = [r \in Requests |-> "none"] /\ watched = {} /\ ready = <<>> /\ loopOpen = TRUE
  /\ close = "open"

TaskTo(r, step) == task' = [task EXCEPT ![r] = step]
SpawnTo(r, step) == spawn' = [spawn EXCEPT ![r] = step]

(* RequestCompletion.finish, and request_finished for whoever wins it.       *)
Settle(r, failed) ==
  IF r \in settled THEN UNCHANGED countVars
  ELSE /\ settled' = settled \cup {r}
       /\ counted' = [counted EXCEPT ![r] = <<@[1] + 1, @[2] + (IF failed THEN 1 ELSE 0)>>]

(* ActiveAsyncRequest::abort: only the winner aborts the task.               *)
Abort(r) ==
  /\ Settle(r, TRUE)
  /\ aborted' = IF r \in settled THEN aborted ELSE aborted \cup {r}

(* call_soon_threadsafe; a closed loop refuses the callback.                 *)
Schedule(callback) == ready' = IF loopOpen THEN Append(ready, callback) ELSE ready

(* StreamState::finish, for the first who asks.                              *)
FinishStream(r, failed) ==
  IF r \notin openStream THEN UNCHANGED <<openStream, streams, permit, countVars>>
  ELSE /\ openStream' = openStream \ {r}
       /\ streams' = streams \ {r}
       /\ permit' = permit \ {r}
       /\ Settle(r, failed)

--------------------------------------------------------------------------------
(* spawn_async_request and spawn_async_stream_request.  They borrow the      *)
(* client for as long as they run, and close borrows it mutably: the two     *)
(* exclude each other.  The task of a buffered request runs at once, that of *)
(* a stream waits at its gate.                                               *)
Spawning == \E r \in Requests : spawn[r] \notin {"none", "returned"}

Spawn(r, k) ==
  /\ spawn[r] = "none" /\ ~Spawning /\ loopOpen /\ close = "open"
  /\ kind' = [kind EXCEPT ![r] = k]
  /\ future' = [future EXCEPT ![r] = "pending"]
  /\ TaskTo(r, IF k = "stream" THEN "gated" ELSE "running")
  /\ SpawnTo(r, "insert")
  /\ UNCHANGED <<outcome, aborted, permit, countVars, registryVars, streamVars, watched,
                 ready, loopOpen, close>>

Insert(r) ==
  /\ spawn[r] = "insert"
  /\ active' = active \cup {r}
  /\ SpawnTo(r, "recheck")
  /\ UNCHANGED <<kind, taskVars, permit, countVars, taken, drained, streamVars, loopVars, close>>

(* Mutant: nobody looks whether the task has finished. *)
RecheckNothing(r) ==
  /\ spawn[r] = "recheck"
  /\ SpawnTo(r, "watch")
  /\ UNCHANGED <<kind, taskVars, permit, countVars, registryVars, streamVars, loopVars, close>>

(* The task may have finished before its entry was there to be removed.      *)
Recheck(r) ==
  /\ spawn[r] = "recheck"
  /\ active' = IF r \in settled THEN active \ {r} ELSE active
  /\ SpawnTo(r, "watch")
  /\ UNCHANGED <<kind, taskVars, permit, countVars, taken, drained, streamVars, loopVars, close>>

(* add_done_callback on a future that is done already schedules it.          *)
Watch(r) ==
  /\ spawn[r] = "watch"
  /\ watched' = watched \cup {r}
  /\ SpawnTo(r, IF kind[r] = "stream" THEN "start" ELSE "returned")
  /\ UNCHANGED <<kind, taskVars, permit, countVars, registryVars, streamVars, future, ready,
                 loopOpen, close>>

(* ... or it raises, and the call aborts the request (abort_request) before  *)
(* it returns the error.                                                     *)
WatchFails(r) ==
  /\ spawn[r] = "watch"
  /\ active' = active \ {r}
  /\ taken' = IF r \in active THEN taken \cup {r} ELSE taken
  /\ SpawnTo(r, IF r \in active THEN "abort" ELSE "returned")
  /\ UNCHANGED <<kind, taskVars, permit, countVars, drained, streamVars, loopVars, close>>

Start(r) ==
  /\ spawn[r] = "start"
  /\ TaskTo(r, "running")
  /\ SpawnTo(r, "returned")
  /\ UNCHANGED <<kind, outcome, aborted, permit, countVars, registryVars, streamVars, loopVars,
                 close>>

--------------------------------------------------------------------------------
(* The task.  send_request holds an AcquirePermit for a while; a stream's    *)
(* goes on to live in its StreamState.                                       *)
TakeSlot(r) ==
  /\ task[r] = "running" /\ r \notin permit
  /\ permit' = permit \cup {r}
  /\ UNCHANGED <<kind, spawn, taskVars, countVars, registryVars, streamVars, loopVars, close>>

Resolve(r, result) ==
  /\ task[r] = "running"
  /\ result = "ok" => r \in permit
  /\ outcome' = [outcome EXCEPT ![r] = result]
  /\ TaskTo(r, "resolved")
  /\ IF kind[r] = "stream" /\ result = "ok"
     THEN /\ streams' = streams \cup {r} /\ openStream' = openStream \cup {r}
          /\ UNCHANGED permit
     ELSE permit' = permit \ {r} /\ UNCHANGED <<streams, openStream>>
  /\ UNCHANGED <<kind, spawn, aborted, countVars, registryVars, closing, loopVars, close>>

(* The AbortHandle, and the shutdown of the runtime, take effect at an await. *)
TaskDropped(r) ==
  /\ r \in aborted \/ close = "closed"
  /\ task[r] \in {"gated", "running"}
  /\ TaskTo(r, "done")
  /\ permit' = permit \ {r}
  /\ UNCHANGED <<kind, spawn, outcome, aborted, countVars, registryVars, streamVars, loopVars,
                 close>>

(* A buffered request: the CAS first; who loses it leaves everything alone.  *)
BufferedFinish(r) ==
  /\ kind[r] = "buffered" /\ task[r] = "resolved"
  /\ TaskTo(r, IF r \in settled THEN "done" ELSE "remove")
  /\ Settle(r, outcome[r] = "err")
  /\ UNCHANGED <<kind, spawn, outcome, aborted, permit, registryVars, streamVars, loopVars, close>>

BufferedRemove(r) ==
  /\ kind[r] = "buffered" /\ task[r] = "remove"
  /\ active' = active \ {r}
  /\ TaskTo(r, "complete")
  /\ UNCHANGED <<kind, spawn, outcome, aborted, permit, countVars, taken, drained, streamVars,
                 loopVars, close>>

(* A stream: its entry goes first, and only an error settles the request.    *)
StreamRemove(r) ==
  /\ kind[r] = "stream" /\ task[r] = "resolved"
  /\ active' = active \ {r}
  /\ TaskTo(r, IF outcome[r] = "err" THEN "finish" ELSE "complete")
  /\ UNCHANGED <<kind, spawn, outcome, aborted, permit, countVars, taken, drained, streamVars,
                 loopVars, close>>

StreamError(r) ==
  /\ task[r] = "finish"
  /\ Settle(r, TRUE)
  /\ TaskTo(r, "complete")
  /\ UNCHANGED <<kind, spawn, outcome, aborted, permit, registryVars, streamVars, loopVars, close>>

(* complete_python_future, complete_python_stream_future: when the loop is   *)
(* closed the response is dropped, and dropping it closes it.                *)
Complete(r) ==
  /\ task[r] = "complete"
  /\ TaskTo(r, "done")
  /\ Schedule(<<"set", r>>)
  /\ IF loopOpen THEN UNCHANGED <<openStream, streams, permit, countVars>>
                 ELSE FinishStream(r, TRUE)
  /\ UNCHANGED <<kind, spawn, outcome, aborted, registryVars, closing, future, watched,
                 loopOpen, close>>

--------------------------------------------------------------------------------
(* The event loop. *)
LoopRuns(op) == loopOpen /\ ~Spawning /\ ready # <<>> /\ Head(ready)[1] = op

Done(r, value, queue) ==
  /\ future' = [future EXCEPT ![r] = value]
  /\ ready' = IF r \in watched THEN Append(queue, <<"done", r>>) ELSE queue

(* Mutant: a response nobody waits for stays open. *)
LoopSetLeaks ==
  /\ LoopRuns("set")
  /\ LET r == Head(ready)[2]
     IN  IF future[r] = "pending"
         THEN Done(r, IF outcome[r] = "ok" THEN "response" ELSE "exception", Tail(ready))
         ELSE ready' = Tail(ready) /\ UNCHANGED future
  /\ UNCHANGED <<kind, spawn, taskVars, permit, countVars, registryVars, streamVars, watched,
                 loopOpen, close>>

(* set_result_if_pending and set_exception_if_pending: a response nobody     *)
(* waits for any more is dropped.                                            *)
LoopSet ==
  /\ LoopRuns("set")
  /\ LET r == Head(ready)[2]
     IN  IF future[r] = "pending"
         THEN /\ Done(r, IF outcome[r] = "ok" THEN "response" ELSE "exception", Tail(ready))
              /\ UNCHANGED <<openStream, streams, permit, countVars>>
         ELSE /\ ready' = Tail(ready) /\ UNCHANGED future
              /\ FinishStream(r, TRUE)
  /\ UNCHANGED <<kind, spawn, taskVars, registryVars, closing, watched, loopOpen, close>>

(* Future.cancel, scheduled by cancel_python_future. *)
LoopCancel ==
  /\ LoopRuns("cancel")
  /\ LET r == Head(ready)[2]
     IN  IF future[r] = "pending" THEN Done(r, "cancelled", Tail(ready))
         ELSE ready' = Tail(ready) /\ UNCHANGED future
  /\ UNCHANGED <<kind, spawn, taskVars, permit, countVars, registryVars, streamVars, watched,
                 loopOpen, close>>

(* PythonFutureCancellation *)
LoopDone ==
  /\ LoopRuns("done")
  /\ ready' = Tail(ready)
  /\ LET r == Head(ready)[2]
     IN  IF future[r] = "cancelled" /\ r \in active
         THEN active' = active \ {r} /\ taken' = taken \cup {r}
         ELSE UNCHANGED <<active, taken>>
  /\ UNCHANGED <<kind, spawn, taskVars, permit, countVars, drained, streamVars, future, watched,
                 loopOpen, close>>

(* abort_request, once the entry is out of the registry. *)
AbortTaken(r) ==
  /\ r \in taken
  /\ taken' = taken \ {r}
  /\ Abort(r)
  /\ SpawnTo(r, "returned")
  /\ UNCHANGED <<kind, task, outcome, permit, active, drained, streamVars, loopVars, close>>

(* The caller: it cancels the task that awaits the future ... *)
UserCancel(r) ==
  /\ loopOpen /\ ~Spawning /\ spawn[r] = "returned" /\ r \in watched /\ future[r] = "pending"
  /\ Done(r, "cancelled", ready)
  /\ UNCHANGED <<kind, spawn, taskVars, permit, countVars, registryVars, streamVars, watched,
                 loopOpen, close>>

(* ... or reads, closes or forgets the stream it got. *)
UserFinish(r) ==
  /\ future[r] = "response" /\ r \in openStream
  /\ \E failed \in BOOLEAN : FinishStream(r, failed)
  /\ UNCHANGED <<kind, spawn, taskVars, registryVars, closing, loopVars, close>>

(* loop.close() forgets the callbacks that are ready, and with them the      *)
(* responses they carry.                                                     *)
Carried == {r \in Requests : \E i \in 1 .. Len(ready) : ready[i] = <<"set", r>>}

LoopCloses ==
  /\ loopOpen /\ ~Spawning
  /\ loopOpen' = FALSE /\ ready' = <<>>
  /\ openStream' = openStream \ Carried
  /\ streams' = streams \ (Carried \cap openStream)
  /\ permit' = permit \ (Carried \cap openStream)
  /\ settled' = settled \cup (Carried \cap openStream)
  /\ counted' = [r \in Requests |-> IF r \in (Carried \cap openStream) \ settled
                                    THEN <<counted[r][1] + 1, counted[r][2] + 1>>
                                    ELSE counted[r]]
  /\ UNCHANGED <<kind, spawn, taskVars, registryVars, closing, future, watched, close>>

--------------------------------------------------------------------------------
(* RawClient::close_resources: abort the requests, then the streams, then    *)
(* shut the runtime down.                                                    *)
CloseRequests ==
  /\ close = "open" /\ ~Spawning
  /\ close' = "requests"
  /\ drained' = active /\ active' = {}
  /\ UNCHANGED <<kind, spawn, taskVars, permit, countVars, taken, streamVars, loopVars>>

(* Mutant: the task is aborted, its future is not cancelled. *)
CloseRequestSilently(r) ==
  /\ close = "requests" /\ r \in drained
  /\ drained' = drained \ {r}
  /\ Abort(r)
  /\ UNCHANGED <<kind, spawn, task, outcome, permit, active, taken, streamVars, loopVars, close>>

(* abort_and_cancel_python *)
CloseRequest(r) ==
  /\ close = "requests" /\ r \in drained
  /\ drained' = drained \ {r}
  /\ Abort(r)
  /\ Schedule(<<"cancel", r>>)
  /\ UNCHANGED <<kind, spawn, task, outcome, permit, active, taken, streamVars, future, watched,
                 loopOpen, close>>

(* Mutant: the streams do not wait for the requests to be aborted. *)
CloseStreamsEarly ==
  /\ close = "requests"
  /\ close' = "streams"
  /\ closing' = streams /\ streams' = {}
  /\ UNCHANGED <<kind, spawn, taskVars, permit, countVars, registryVars, openStream, loopVars>>

CloseStreams ==
  /\ close = "requests" /\ drained = {}
  /\ close' = "streams"
  /\ closing' = streams /\ streams' = {}
  /\ UNCHANGED <<kind, spawn, taskVars, permit, countVars, registryVars, openStream, loopVars>>

CloseStream(r) ==
  /\ close = "streams" /\ r \in closing
  /\ closing' = closing \ {r}
  /\ FinishStream(r, TRUE)
  /\ UNCHANGED <<kind, spawn, taskVars, registryVars, loopVars, close>>

CloseRuntime ==
  /\ close = "streams" /\ closing = {}
  /\ close' = "closed"
  /\ UNCHANGED <<kind, spawn, taskVars, permit, countVars, registryVars, streamVars, loopVars>>

--------------------------------------------------------------------------------
SpawnStep(r) == Insert(r) \/ Recheck(r) \/ Watch(r) \/ WatchFails(r) \/ Start(r)

TaskStep(r) == \/ \E result \in {"ok", "err"} : Resolve(r, result)
               \/ TaskDropped(r) \/ BufferedFinish(r) \/ BufferedRemove(r)
               \/ StreamRemove(r) \/ StreamError(r) \/ Complete(r)

Loop == LoopSet \/ LoopCancel \/ LoopDone

CloseStep == \/ CloseStreams \/ CloseRuntime
             \/ \E r \in Requests : CloseRequest(r) \/ CloseStream(r)

Next ==
  \/ \E r \in Requests : \/ \E k \in {"buffered", "stream"} : Spawn(r, k)
                         \/ SpawnStep(r) \/ TakeSlot(r) \/ TaskStep(r)
                         \/ AbortTaken(r) \/ UserCancel(r) \/ UserFinish(r)
  \/ Loop \/ LoopCloses \/ CloseRequests \/ CloseStep

Spec == Init /\ [][Next]_vars

(* Workers run the tasks and every exchange ends (Timeouts.total); the loop  *)
(* runs its callbacks while it is open; a call that was entered returns.     *)
(* Nobody has to cancel, to close or to read a stream.                       *)
Fairness ==
  /\ WF_vars(Loop) /\ WF_vars(CloseStep)
  /\ \A r \in Requests : WF_vars(SpawnStep(r)) /\ WF_vars(TaskStep(r)) /\ WF_vars(AbortTaken(r))

FairSpec == Spec /\ Fairness

--------------------------------------------------------------------------------
(* Properties *)

(* Every variable has its type; no request is counted more than once.        *)
TypeOK ==
  /\ kind \in [Requests -> {"buffered", "stream"}]
  /\ spawn \in [Requests -> {"none", "insert", "recheck", "watch", "abort", "start", "returned"}]
  /\ task \in [Requests -> {"none", "gated", "running", "resolved", "remove", "finish",
                            "complete", "done"}]
  /\ outcome \in [Requests -> {"none", "ok", "err"}]
  /\ \A S \in {permit, settled, active, streams, openStream, aborted, taken, watched,
               drained, closing} : S \subseteq Requests
  /\ counted \in [Requests -> (0 .. 1) \X (0 .. 1)]
  /\ future \in [Requests -> {"none", "pending", "response", "exception", "cancelled"}]
  /\ ready \in Seq({"set", "cancel", "done"} \X Requests)
  /\ loopOpen \in BOOLEAN
  /\ close \in {"open", "requests", "streams", "closed"}

(* Whoever won the race, a request that is over was counted once, is in no   *)
(* registry and holds no slot: no cancellation, close or early finish leaks  *)
(* an entry or a permit, or finishes the metrics twice.  Whoever aborts the  *)
(* task of a request settled it first, so that the task does not also report *)
(* a result, and a response that reached its caller is no failure.           *)
Over(r) == /\ spawn[r] = "returned" /\ task[r] = "done"
           /\ r \notin openStream \cup drained \cup taken

NothingLeaks ==
  /\ \A r \in Requests : Over(r) => /\ counted[r][1] = 1
                                    /\ r \notin active \cup streams \cup permit
  /\ aborted \subseteq settled
  /\ \A r \in aborted : kind[r] = "buffered" => task[r] \notin {"remove", "complete"}
  /\ \A r \in Requests : kind[r] = "buffered" /\ future[r] = "response" => counted[r] = <<1, 0>>

(* close takes the requests before the streams: a stream that is built while *)
(* it runs is either in the stream registry by then, or its future was told  *)
(* to cancel before the response is scheduled.  Once close has returned, no  *)
(* caller has an open stream, and no request runs on that was not aborted.   *)
NothingEscapesClose ==
  close = "closed" =>
    \A r \in Requests : /\ future[r] = "response" => r \notin openStream
                        /\ task[r] \in {"gated", "running"} => r \in aborted \cup taken

(* Every awaited future is resolved, unless its loop was closed.             *)
FuturesResolve ==
  \A r \in Requests : (future[r] = "pending" /\ r \in watched)
                        ~> (future[r] # "pending" \/ ~loopOpen)

(* After close every slot comes back by itself. *)
SlotsComeBack == close = "closed" ~> permit = {}

================================================================================
