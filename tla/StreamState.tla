------------------------------ MODULE StreamState ------------------------------
(***************************************************************************)
(* One streamed response body (py/client/streams): the state shared by the *)
(* Python callers of next_chunk, the Tokio tasks that read for them, the   *)
(* asyncio loop that delivers what an asynchronous read found, and whoever *)
(* closes the stream (the response, its client, a cancelled read).         *)
(*                                                                         *)
(* A step is one critical section of the state's mutex, one await of a     *)
(* read task, or one callback of the event loop.                           *)
(***************************************************************************)
EXTENDS Integers, Sequences, FiniteSets

CONSTANTS
  Reads,       \* bound of the model: calls of next_chunk or next_chunk_async
  MaxFrames,   \* bound of the model: data frames of the body
  NoRead

ASSUME StreamAssumption ==
  /\ MaxFrames \in Nat
  /\ NoRead \notin Reads
  /\ IsFiniteSet(Reads)

VARIABLES
  decodedMode,    \* fields.decoded_mode: a content decoder sits behind the body
  iterated,       \* the calls are those of one public iterator
  async,          \* reads made with next_chunk_async
  terminal,       \* StreamStateFields.terminal
  hasBody,        \* fields.body is Some
  hasDecoder,     \* fields.decoded is Some
  transport,      \* connection_use and lifecycle: "open", "clean" or "aborted"
  permit,         \* fields.permit is Some
  registered,     \* the client's StreamRegistry lists the stream
  readTask,       \* fields.read_task
  readInProgress, \* fields.read_in_progress
  deferred,       \* fields.deferred_body_error is Some
  finished,       \* calls of Metrics.request_finished: <<all, failed>>
  call,           \* where each caller is in next_chunk
  result,         \* what it returned
  task,           \* where each read task is
  guard,          \* the body, decoder or error its StreamReadGuard owns
  found,          \* what the task is about to deliver
  aborted,        \* tasks whose AbortHandle was used
  reply,          \* the oneshot of a synchronous read, the future of an async one
  ready,          \* callbacks the event loop will run, in order
  notifyDue,      \* reads a closer took from read_task and has yet to abort
  consumed,       \* data frames taken from the body
  held,           \* frames inside the decoder
  ended,          \* the body has reached its clean end
  trailed,        \* the body has yielded its trailers
  got             \* frames handed to the callers

modeVars   == <<decodedMode, iterated, async>>
fieldVars  == <<terminal, hasBody, hasDecoder, transport, permit, registered,
                readTask, readInProgress, deferred, finished>>
callVars   == <<call, result>>
taskVars   == <<task, guard, found, aborted>>
loopVars   == <<reply, ready>>
bodyVars   == <<consumed, held, ended, trailed, modeVars>>
vars == <<fieldVars, callVars, taskVars, loopVars, notifyDue, bodyVars, got>>

Finishes == {"none", "success", "closed", "cancelled", "error"}
Nothing == [kind |-> "none"]
Chunk(from, to) == [kind |-> "chunk", from |-> from, to |-> to]
Only(kind) == [kind |-> kind]

Init ==
  /\ decodedMode \in BOOLEAN /\ iterated \in BOOLEAN /\ async = {}
  /\ terminal = "none"
  /\ hasBody = TRUE /\ hasDecoder = decodedMode
  /\ transport = "open" /\ permit = TRUE /\ registered = TRUE
  /\ readTask = NoRead /\ readInProgress = FALSE /\ deferred = FALSE
  /\ finished = <<0, 0>>
  /\ call = [c \in Reads |-> "idle"] /\ result = [c \in Reads |-> "none"]
  /\ task = [c \in Reads |-> "none"] /\ guard = [c \in Reads |-> {}]
  /\ found = [c \in Reads |-> Nothing] /\ aborted = {}
  /\ reply = [c \in Reads |-> Nothing] /\ ready = <<>>
  /\ notifyDue = {}
  /\ consumed = 0 /\ held = 0 /\ got = {}
  /\ ended = FALSE /\ trailed = FALSE

Goto(c, step)   == call' = [call EXCEPT ![c] = step]
TaskTo(c, step) == task' = [task EXCEPT ![c] = step]
Return(c, kind) == Goto(c, "returned") /\ result' = [result EXCEPT ![c] = kind]

--------------------------------------------------------------------------------
(* StreamState::finish, the one way out.  A closer takes the registered read *)
(* and aborts it after unlocking; a read task only forgets it.               *)
Finish(outcome, abortRead) ==
  IF terminal # "none"
  THEN UNCHANGED <<terminal, registered, readTask, notifyDue, hasBody, hasDecoder,
                   transport, permit, finished>>
  ELSE /\ terminal' = outcome
       /\ registered' = FALSE
       /\ notifyDue' = IF abortRead THEN notifyDue \cup ({readTask} \ {NoRead}) ELSE notifyDue
       /\ readTask' = NoRead
       /\ hasBody' = FALSE /\ hasDecoder' = FALSE
       /\ transport' = IF transport # "open" THEN transport
                       ELSE IF outcome = "success" THEN "clean" ELSE "aborted"
       /\ permit' = FALSE
       /\ finished' = <<finished[1] + 1, finished[2] + (IF outcome = "success" THEN 0 ELSE 1)>>

(* Mutant: close finishes the stream like the end of its body. *)
CloseAsSuccess(reason) ==
  /\ reason \in {"closed", "cancelled"}
  /\ terminal = "none"
  /\ Finish("success", TRUE)
  /\ UNCHANGED <<readInProgress, deferred, callVars, taskVars, loopVars, bodyVars, got>>

(* close: RawStreamResponse.close or its drop, StreamRegistry.abort_all;     *)
(* cancel: RawStreamResponse.cancel.                                         *)
Close(reason) ==
  /\ reason \in {"closed", "cancelled"}
  /\ terminal = "none"
  /\ Finish(reason, TRUE)
  /\ UNCHANGED <<readInProgress, deferred, callVars, taskVars, loopVars, bodyVars, got>>

(* abort_and_notify, after the mutex was released. *)
ScheduleCancel(c) == ready' = IF c \in async THEN Append(ready, <<"cancel", c, Nothing>>) ELSE ready

(* Mutant: the read is aborted, its future is not cancelled. *)
AbortOnly(c) ==
  /\ c \in notifyDue
  /\ notifyDue' = notifyDue \ {c}
  /\ aborted' = aborted \cup {c}
  /\ UNCHANGED <<fieldVars, callVars, task, guard, found, loopVars, bodyVars, got>>

AbortAndNotify(c) ==
  /\ c \in notifyDue
  /\ notifyDue' = notifyDue \ {c}
  /\ aborted' = aborted \cup {c}
  /\ ScheduleCancel(c)
  /\ UNCHANGED <<fieldVars, callVars, task, guard, found, reply, bodyVars, got>>

--------------------------------------------------------------------------------
(* The callers.  next_chunk_async runs on the event loop's thread from its   *)
(* first line to its last; the public iterators make one call at a time and  *)
(* none after one that brought no chunk.                                     *)
OnLoop == \E c \in async : call[c] \in {"register", "start"}

MayCall(kind) ==
  /\ kind = "async" => ~OnLoop
  /\ iterated => \A c \in Reads : \/ call[c] = "idle"
                                  \/ result[c] = "chunk" /\ (c \in async <=> kind = "async")

(* start_read *)
StartRead(c, kind) ==
  /\ call[c] = "idle" /\ MayCall(kind)
  /\ async' = IF kind = "async" THEN async \cup {c} ELSE async
  /\ \/ /\ terminal # "none"
        /\ Return(c, IF decodedMode /\ terminal # "success" THEN "error" ELSE "eof")
        /\ UNCHANGED <<hasBody, hasDecoder, readInProgress, deferred, task, guard>>
     \/ /\ terminal = "none" /\ readInProgress
        /\ Return(c, "busy")
        /\ UNCHANGED <<hasBody, hasDecoder, readInProgress, deferred, task, guard>>
     \/ /\ terminal = "none" /\ ~readInProgress /\ ~deferred /\ ~hasBody /\ ~hasDecoder
        /\ Return(c, "eof")
        /\ UNCHANGED <<hasBody, hasDecoder, readInProgress, deferred, task, guard>>
     \/ /\ terminal = "none" /\ ~readInProgress /\ (deferred \/ hasBody \/ hasDecoder)
        /\ readInProgress' = TRUE
        /\ IF deferred
           THEN /\ guard' = [guard EXCEPT ![c] = {"error"}]
                /\ deferred' = FALSE /\ UNCHANGED <<hasBody, hasDecoder>>
           ELSE /\ guard' = [guard EXCEPT ![c] = {x \in {"body"} : hasBody}
                                                 \cup {x \in {"decoder"} : hasDecoder}]
                /\ hasBody' = FALSE /\ hasDecoder' = FALSE /\ UNCHANGED deferred
        /\ TaskTo(c, "gated")
        /\ Goto(c, "register")
        /\ UNCHANGED result
  /\ UNCHANGED <<terminal, transport, permit, registered, readTask, finished, found,
                 aborted, loopVars, notifyDue, consumed, held, ended, trailed, decodedMode,
                 iterated, got>>

(* register_read_task: a stream that was closed in the meantime rejects it.  *)
RegisterRead(c) ==
  /\ call[c] = "register"
  /\ reply' = [reply EXCEPT ![c] = Only("pending")]
  /\ IF terminal # "none" \/ ~readInProgress
     THEN /\ aborted' = aborted \cup {c}
          /\ ScheduleCancel(c)
          /\ IF c \in async THEN Goto(c, "unwatched") /\ UNCHANGED result ELSE Return(c, "error")
          /\ UNCHANGED readTask
     ELSE /\ readTask' = c
          /\ Goto(c, "start")
          /\ UNCHANGED <<aborted, ready, result>>
  /\ UNCHANGED <<terminal, hasBody, hasDecoder, transport, permit, registered,
                 readInProgress, deferred, finished, task, guard, found, notifyDue,
                 bodyVars, got>>

(* start_sender.send: the task goes on, unless it was aborted at the gate.   *)
StartTask(c) ==
  /\ call[c] = "start"
  /\ \/ /\ task[c] = "gated"
        /\ TaskTo(c, IF decodedMode THEN "decode" ELSE "read")
        /\ Goto(c, "wait")
        /\ UNCHANGED <<result, terminal, registered, readTask, notifyDue, hasBody,
                       hasDecoder, transport, permit, finished>>
     \/ /\ task[c] = "done"
        /\ Finish("error", TRUE)
        /\ IF c \in async THEN Goto(c, "wait") /\ UNCHANGED result ELSE Return(c, "error")
        /\ UNCHANGED task
  /\ UNCHANGED <<readInProgress, deferred, guard, found, aborted, loopVars, bodyVars, got>>

(* Mutant: read_in_progress stays set. *)
ForgetRead ==
  readTask' = (IF terminal # "none" THEN readTask ELSE NoRead) /\ UNCHANGED readInProgress

(* finish_read_delivery *)
FinishDelivery ==
  IF terminal # "none" THEN UNCHANGED <<readTask, readInProgress>>
  ELSE readTask' = NoRead /\ readInProgress' = FALSE

FramesOf(r) == IF r.kind = "chunk" THEN r.from .. r.to ELSE {}

(* A synchronous caller wakes up with what its task sent, or with nothing    *)
(* because the task is gone.                                                 *)
ReceiveResult(c) ==
  /\ c \notin async /\ call[c] = "wait" /\ reply[c].kind # "pending"
  /\ FinishDelivery
  /\ got' = got \cup FramesOf(reply[c])
  /\ IF reply[c].kind = "dropped" THEN Goto(c, "failing") /\ UNCHANGED result
                                  ELSE Return(c, reply[c].kind)
  /\ UNCHANGED <<terminal, hasBody, hasDecoder, transport, permit, registered, deferred,
                 finished, taskVars, loopVars, notifyDue, bodyVars>>

FailRead(c) ==
  /\ call[c] = "failing"
  /\ Finish("error", TRUE)
  /\ Return(c, "error")
  /\ UNCHANGED <<readInProgress, deferred, taskVars, loopVars, bodyVars, got>>

--------------------------------------------------------------------------------
(* The read task.  An AbortHandle takes effect where the task awaits.        *)
Deliver(c, what) == found' = [found EXCEPT ![c] = what] /\ TaskTo(c, "deliver")
Drops(c) == guard' = [guard EXCEPT ![c] = {}]

(* StreamReadGuard::drop of a task that is dropped at an await. *)
TaskDropped(c) ==
  /\ c \in aborted /\ task[c] \in {"gated", "read", "yield"}
  /\ Finish("cancelled", FALSE)
  /\ Drops(c) /\ TaskTo(c, "done")
  /\ reply' = IF c \in async \/ reply[c].kind # "pending" THEN reply
              ELSE [reply EXCEPT ![c] = Only("dropped")]
  /\ UNCHANGED <<readInProgress, deferred, callVars, found, aborted, ready, bodyVars, got>>

(* read_next_chunk with an error left over by coalescing. *)
DeferredError(c) ==
  /\ task[c] = "read" /\ guard[c] = {"error"}
  /\ Finish("error", FALSE)
  /\ Drops(c) /\ Deliver(c, Only("error"))
  /\ UNCHANGED <<readInProgress, deferred, callVars, aborted, loopVars, bodyVars, got>>

(* Timeouts.read elapses before the next frame. *)
ReadTimeout(c) ==
  /\ task[c] = "read" /\ "body" \in guard[c]
  /\ Finish("error", FALSE)
  /\ Drops(c) /\ Deliver(c, Only("error"))
  /\ UNCHANGED <<readInProgress, deferred, callVars, aborted, loopVars, bodyVars, got>>

(* The body yields a frame, its end or an error; a stream that was closed    *)
(* while the frame was on its way drops it.                                  *)
Events == {"data", "trailers", "end", "failure"}

Frame(c, event) ==
  /\ event \in Events
  /\ task[c] = "read" /\ "body" \in guard[c]
  /\ event = "data" => consumed < MaxFrames
  /\ event \in {"data", "trailers"} => ~trailed
  /\ event # "end" => ~ended
  /\ ended' = (ended \/ event = "end")
  /\ trailed' = (trailed \/ event = "trailers")
  /\ consumed' = IF event = "data" THEN consumed + 1 ELSE consumed
  /\ IF terminal # "none"
     THEN /\ Drops(c) /\ Deliver(c, Only(IF decodedMode THEN "error" ELSE "eof"))
          /\ UNCHANGED held
     ELSE /\ TaskTo(c, event)
          /\ held' = IF decodedMode /\ event = "data" THEN held + 1 ELSE held
          /\ UNCHANGED <<guard, found>>
  /\ UNCHANGED <<fieldVars, callVars, aborted, loopVars, notifyDue, modeVars, got>>

Trailers(c) ==
  /\ task[c] = "trailers"
  /\ TaskTo(c, IF decodedMode THEN "decode" ELSE "read")
  /\ UNCHANGED <<fieldVars, callVars, guard, found, aborted, loopVars, notifyDue, bodyVars, got>>

BodyFailure(c) ==
  /\ task[c] = "failure"
  /\ Finish("error", FALSE)
  /\ Drops(c) /\ Deliver(c, Only("error"))
  /\ UNCHANGED <<readInProgress, deferred, callVars, aborted, loopVars, bodyVars, got>>

(* Mutant: the body goes back to a stream that was closed. *)
CompleteReadAnyway(c, error) == hasBody' = TRUE /\ deferred' = error

(* complete_read: the body goes back, unless the stream was closed.          *)
CompleteRead(c, error) ==
  IF terminal # "none" THEN UNCHANGED <<hasBody, deferred>>
  ELSE hasBody' = TRUE /\ deferred' = error

(* drain_ready_data_frames: an asynchronous read takes every frame that is   *)
(* ready, and may meet the end or an error behind the data.                  *)
Drains(c) == {drain \in (0 .. MaxFrames) \X {"stopped", "end", "failure"} :
                 \/ drain = <<0, "stopped">>
                 \/ c \in async /\ consumed + drain[1] <= MaxFrames}

(* The chunk with the frames merged into it. *)
Coalesced(n) == Chunk(consumed, consumed + n)

RawData(c) ==
  /\ ~decodedMode /\ task[c] = "data"
  /\ \E drain \in Drains(c) :
       /\ consumed' = consumed + drain[1]
       /\ Deliver(c, Coalesced(drain[1]))
       /\ ended' = (ended \/ drain[2] = "end")
       /\ IF drain[2] = "end"
          THEN Finish("success", FALSE) /\ UNCHANGED deferred
          ELSE /\ CompleteRead(c, drain[2] = "failure")
               /\ UNCHANGED <<terminal, registered, readTask, notifyDue, hasDecoder,
                              transport, permit, finished>>
  /\ Drops(c)
  /\ UNCHANGED <<readInProgress, callVars, aborted, loopVars, held, trailed, modeVars, got>>

RawEnd(c) ==
  /\ ~decodedMode /\ task[c] = "end"
  /\ Finish("success", FALSE)
  /\ Drops(c) /\ Deliver(c, Only("eof"))
  /\ UNCHANGED <<readInProgress, deferred, callVars, aborted, loopVars, bodyVars, got>>

--------------------------------------------------------------------------------
(* Mutant: the connection of a closed stream is given back as clean. *)
TransportEndAnyway(c) ==
  /\ guard' = [guard EXCEPT ![c] = @ \ {"body"}]
  /\ transport' = "clean"

(* read_decoded_chunk.  finish_decoded_transport gives the connection back   *)
(* as soon as the body has ended, before the content is finished.            *)
TransportEnd(c) ==
  /\ guard' = [guard EXCEPT ![c] = @ \ {"body"}]
  /\ transport' = IF terminal = "none" /\ transport = "open" THEN "clean" ELSE transport

(* ensure_decoded_read_open *)
DecodeOpen(c) ==
  /\ task[c] = "decode"
  /\ IF terminal # "none" THEN Drops(c) /\ Deliver(c, Only("error"))
                          ELSE TaskTo(c, "decodeBody") /\ UNCHANGED <<guard, found>>
  /\ UNCHANGED <<fieldVars, callVars, aborted, loopVars, notifyDue, bodyVars, got>>

(* Body::is_end_stream may already be true behind the last data frame. *)
DecodeBody(c) ==
  /\ task[c] = "decodeBody"
  /\ TaskTo(c, "step")
  /\ \/ /\ "body" \in guard[c] /\ ended' = TRUE
        /\ TransportEnd(c)
     \/ ~ended /\ UNCHANGED <<guard, transport, ended>>
     \/ "body" \notin guard[c] /\ UNCHANGED <<guard, transport, ended>>
  /\ UNCHANGED <<terminal, hasBody, hasDecoder, permit, registered, readTask,
                 readInProgress, deferred, finished, callVars, found, aborted, loopVars,
                 notifyDue, consumed, held, trailed, modeVars, got>>

DecodedData(c) ==
  /\ decodedMode /\ task[c] = "data"
  /\ TaskTo(c, "decode")
  /\ UNCHANGED <<fieldVars, callVars, guard, found, aborted, loopVars, notifyDue, bodyVars, got>>

DecodedEnd(c) ==
  /\ decodedMode /\ task[c] = "end"
  /\ TransportEnd(c)
  /\ TaskTo(c, "decode")
  /\ UNCHANGED <<terminal, hasBody, hasDecoder, permit, registered, readTask,
                 readInProgress, deferred, finished, callVars, found, aborted, loopVars,
                 notifyDue, bodyVars, got>>

(* The decoder's step: an error, a chunk (finish_decoded_chunk), the end of  *)
(* the content, a request for input, or progress without output.             *)
StepError(c) ==
  /\ task[c] = "step"
  /\ Finish("error", FALSE)
  /\ Drops(c) /\ Deliver(c, Only("error"))
  /\ UNCHANGED <<readInProgress, deferred, callVars, aborted, loopVars, bodyVars, got>>

StepOutput(c) ==
  /\ task[c] = "step" /\ held > 0
  /\ held' = held - 1
  /\ Drops(c)
  /\ IF terminal # "none"
     THEN Deliver(c, Only("error")) /\ UNCHANGED <<hasBody, hasDecoder>>
     ELSE /\ hasBody' = ("body" \in guard[c]) /\ hasDecoder' = TRUE
          /\ Deliver(c, Chunk(consumed - held + 1, consumed - held + 1))
  /\ UNCHANGED <<terminal, transport, permit, registered, readTask, readInProgress, deferred,
                 finished, callVars, aborted, loopVars, notifyDue, consumed, ended, trailed,
                 modeVars, got>>

StepFinished(c) ==
  /\ task[c] = "step" /\ "body" \notin guard[c] /\ held = 0
  /\ Finish("success", FALSE)
  /\ Drops(c) /\ Deliver(c, Only(IF terminal = "none" THEN "eof" ELSE "error"))
  /\ UNCHANGED <<readInProgress, deferred, callVars, aborted, loopVars, bodyVars, got>>

StepOther(c) ==
  /\ task[c] = "step"
  /\ \/ "body" \in guard[c] /\ held = 0 /\ TaskTo(c, "read")
     \/ held > 0 /\ TaskTo(c, "yield")
  /\ UNCHANGED <<fieldVars, callVars, guard, found, aborted, loopVars, notifyDue, bodyVars, got>>

Resume(c) ==
  /\ task[c] = "yield"
  /\ TaskTo(c, "decode")
  /\ UNCHANGED <<fieldVars, callVars, guard, found, aborted, loopVars, notifyDue, bodyVars, got>>

(* The task sends its result: over the oneshot, or through                   *)
(* call_soon_threadsafe to the event loop.                                   *)
SendResult(c) ==
  /\ task[c] = "deliver"
  /\ TaskTo(c, "done")
  /\ IF c \in async THEN ready' = Append(ready, <<"set", c, found[c]>>) /\ UNCHANGED reply
              ELSE reply' = [reply EXCEPT ![c] = found[c]] /\ UNCHANGED ready
  /\ UNCHANGED <<fieldVars, callVars, guard, found, aborted, notifyDue, bodyVars, got>>

--------------------------------------------------------------------------------
(* The event loop.  A future that is done puts its callback in the queue.    *)
Resolve(c, r, queue) ==
  /\ reply' = [reply EXCEPT ![c] = r]
  /\ ready' = Append(queue, <<"done", c, Nothing>>)

(* set_result_if_pending, set_exception_if_pending, Future.cancel *)
LoopResolve ==
  /\ ~OnLoop /\ ready # <<>>
  /\ LET op == Head(ready)[1]  c == Head(ready)[2]
     IN  /\ op \in {"set", "cancel"}
         /\ IF reply[c].kind # "pending" THEN ready' = Tail(ready) /\ UNCHANGED reply
            ELSE Resolve(c, IF op = "set" THEN Head(ready)[3] ELSE Only("cancelled"), Tail(ready))
  /\ UNCHANGED <<fieldVars, callVars, taskVars, notifyDue, bodyVars, got>>

(* The task that awaits the read is cancelled. *)
UserCancel(c) ==
  /\ c \in async /\ ~OnLoop /\ call[c] \in {"wait", "unwatched"} /\ reply[c].kind = "pending"
  /\ Resolve(c, Only("cancelled"), ready)
  /\ UNCHANGED <<fieldVars, callVars, taskVars, notifyDue, bodyVars, got>>

(* Mutant: PythonStreamReadCallback completes a read that was cancelled. *)
CompleteCancelled ==
  /\ ~OnLoop /\ ready # <<>> /\ Head(ready)[1] = "done"
  /\ ready' = Tail(ready)
  /\ LET c == Head(ready)[2]
     IN  got' = got \cup FramesOf(reply[c]) /\ Return(c, reply[c].kind)
  /\ FinishDelivery
  /\ UNCHANGED <<terminal, registered, notifyDue, hasBody, hasDecoder, transport, permit, finished,
                 aborted, deferred, task, guard, found, reply, bodyVars>>

(* PythonStreamReadCallback, and the awaiting caller right after it.  A read *)
(* that was rejected has no callback.                                        *)
LoopDone ==
  /\ ~OnLoop /\ ready # <<>> /\ Head(ready)[1] = "done"
  /\ ready' = Tail(ready)
  /\ LET c == Head(ready)[2]
     IN  /\ IF call[c] = "unwatched"
            THEN UNCHANGED <<terminal, registered, readTask, notifyDue, hasBody, hasDecoder,
                             transport, permit, finished, readInProgress, aborted>>
            ELSE IF reply[c].kind = "cancelled"
            THEN /\ aborted' = aborted \cup {c}
                 /\ Finish("cancelled", TRUE)
                 /\ UNCHANGED readInProgress
            ELSE /\ FinishDelivery
                 /\ UNCHANGED <<terminal, registered, notifyDue, hasBody, hasDecoder,
                                transport, permit, finished, aborted>>
         /\ got' = got \cup FramesOf(reply[c])
         /\ Return(c, reply[c].kind)
  /\ UNCHANGED <<deferred, task, guard, found, reply, bodyVars>>

(* The same for a task that is cancelled when its future is done and it has  *)
(* not run yet: the callback completes the read, what was read is lost, and  *)
(* the public iterator cancels the stream (_aiter_bytes).  A rejected read   *)
(* belongs to a stream that has ended.                                       *)
WakeCancelled ==
  /\ ~OnLoop /\ ready # <<>> /\ Head(ready)[1] = "done"
  /\ ready' = Tail(ready)
  /\ LET c == Head(ready)[2] IN reply[c].kind # "cancelled" /\ Return(c, "cancelled")
  /\ IF iterated /\ terminal = "none"
     THEN readInProgress' = FALSE /\ Finish("cancelled", FALSE)
     ELSE /\ FinishDelivery
          /\ UNCHANGED <<terminal, registered, notifyDue, hasBody, hasDecoder, transport, permit,
                         finished>>
  /\ UNCHANGED <<deferred, task, guard, found, aborted, reply, bodyVars, got>>

--------------------------------------------------------------------------------
ReadStep(c) ==
  \/ RegisterRead(c) \/ StartTask(c) \/ ReceiveResult(c) \/ FailRead(c)
  \/ TaskDropped(c) \/ DeferredError(c) \/ SendResult(c) \/ Trailers(c) \/ BodyFailure(c)
  \/ RawData(c) \/ RawEnd(c)
  \/ DecodeOpen(c) \/ DecodeBody(c) \/ DecodedData(c) \/ DecodedEnd(c)
  \/ StepError(c) \/ StepOutput(c) \/ StepFinished(c) \/ StepOther(c) \/ Resume(c)

BodyStep(c) == ReadTimeout(c) \/ \E event \in Events : Frame(c, event)

Loop == LoopResolve \/ LoopDone \/ WakeCancelled

Next ==
  \/ \E c \in Reads : \/ \E kind \in {"sync", "async"} : StartRead(c, kind)
                      \/ ReadStep(c) \/ BodyStep(c)
                      \/ AbortAndNotify(c) \/ UserCancel(c)
  \/ \E reason \in {"closed", "cancelled"} : Close(reason)
  \/ Loop

Spec == Init /\ [][Next]_vars

(* Workers run the read tasks and the loop runs its callbacks; a frame       *)
(* arrives or Timeouts.read elapses; a decoder that has input ends up        *)
(* producing output.  Nothing forces anybody to start a read, to cancel or   *)
(* to close.                                                                 *)
Fairness ==
  /\ WF_vars(Loop)
  /\ \A c \in Reads : /\ WF_vars(ReadStep(c)) /\ WF_vars(BodyStep(c))
                      /\ WF_vars(AbortAndNotify(c))
                      /\ SF_vars(StepOutput(c))

FairSpec == Spec /\ Fairness

--------------------------------------------------------------------------------
(* Properties *)

Replies == {Nothing} \cup {Only(k) : k \in {"pending", "eof", "error", "cancelled", "dropped"}}
           \cup {Chunk(f, t) : f, t \in 1 .. MaxFrames}

(* Every variable has its type; a read ends with one of the results its      *)
(* caller knows.                                                             *)
TypeOK ==
  /\ decodedMode \in BOOLEAN /\ iterated \in BOOLEAN /\ async \subseteq Reads
  /\ terminal \in Finishes
  /\ hasBody \in BOOLEAN /\ hasDecoder \in BOOLEAN
  /\ transport \in {"open", "clean", "aborted"}
  /\ permit \in BOOLEAN /\ registered \in BOOLEAN
  /\ readTask \in Reads \cup {NoRead}
  /\ readInProgress \in BOOLEAN /\ deferred \in BOOLEAN
  /\ finished \in Nat \X Nat
  /\ call \in [Reads -> {"idle", "register", "start", "wait", "unwatched", "failing", "returned"}]
  /\ result \in [Reads -> {"none", "chunk", "eof", "error", "busy", "cancelled"}]
  /\ task \in [Reads -> {"none", "gated", "read", "data", "trailers", "end", "failure",
                         "decode", "decodeBody", "step", "yield", "deliver", "done"}]
  /\ guard \in [Reads -> SUBSET {"body", "decoder", "error"}]
  /\ found \in [Reads -> Replies] /\ reply \in [Reads -> Replies]
  /\ aborted \subseteq Reads /\ notifyDue \subseteq Reads
  /\ ready \in Seq({"set", "cancel", "done"} \X Reads \X Replies)
  /\ consumed \in 0 .. MaxFrames /\ held \in 0 .. MaxFrames
  /\ ended \in BOOLEAN /\ trailed \in BOOLEAN
  /\ got \subseteq 1 .. MaxFrames

(* However close, cancel, abort_all, a failing read and the end of the body  *)
(* race, the first one decides: the outcome, what became of the connection   *)
(* and the request's counters never change again.                            *)
EndsOnce ==
  [][terminal # "none" => UNCHANGED <<terminal, transport, finished, permit, registered>>]_vars

(* The body and the decoder have one owner, the state or the guard of one    *)
(* read, and a stream that has ended owns nothing and was counted once, as   *)
(* failed unless it succeeded: a read that completes after a close brings    *)
(* nothing back (complete_read, finish_decoded_chunk).                       *)
SingleOwner ==
  /\ terminal # "none" => ~hasBody /\ ~hasDecoder /\ ~permit /\ ~registered
  /\ finished = IF terminal = "none" THEN <<0, 0>>
                ELSE IF terminal = "success" THEN <<1, 0>> ELSE <<1, 1>>
  /\ \A c \in Reads : /\ "body" \in guard[c] => ~hasBody
                      /\ "decoder" \in guard[c] => ~hasDecoder
                      /\ \A d \in Reads \ {c} : guard[c] = {} \/ guard[d] = {}

(* "Partial read, cancellation, timeout, or manual close must not return a   *)
(* poisoned connection to reusable pool state": a connection is given back   *)
(* clean only after its body ended.                                          *)
NoPoisonedReuse == transport = "clean" => ended

(* A stream that refuses reads with "already in progress" has a caller that  *)
(* is still waiting for one: no lost delivery leaves it busy for ever.       *)
BusyHasReader ==
  readInProgress /\ terminal = "none" =>
    \E c \in Reads : call[c] \in {"register", "start", "wait"}

(* The frames that reach the iterator are the body's first ones, without a   *)
(* gap, and a successful end comes after all of them.  A chunk may be lost   *)
(* on its way to a task that is cancelled: no read can follow it, because a  *)
(* cancelled read has ended the stream - through its callback if its future  *)
(* was cancelled (callback.rs:33), through the iterator if the future was    *)
(* done by then (async_response.py:96).                                      *)
NoGap ==
  /\ iterated =>
       /\ \E n \in 0 .. MaxFrames : got = 1 .. n
       /\ \A c \in Reads : result[c] = "eof" /\ terminal = "success" => got = 1 .. consumed
  /\ \A c \in Reads :
       result[c] = "cancelled" /\ (iterated \/ reply[c].kind = "cancelled") => terminal # "none"

(* Every read returns, whatever closes, cancels or times out meanwhile.      *)
ReadReturns == \A c \in Reads : call[c] = "register" ~> call[c] = "returned"

================================================================================
