------------------------------- MODULE UploadBody -------------------------------
(***************************************************************************)
(* A streaming request body: the Python object that owns it                *)
(* (foghttp/_upload_body, RawUploadBody), one bounded channel per attempt  *)
(* to send it (core/client/body.rs), the feeder that reads the caller's    *)
(* source into the channel - on a thread of its own, or as a task of the   *)
(* event loop - and the transport that takes frames out of it and keeps    *)
(* the record of what has left (RequestBodyCompletion).                    *)
(*                                                                         *)
(* A step is one critical section of a channel or of the owner, or one     *)
(* notification that is sent after the section.  Every chunk is one frame  *)
(* and one unit of content length.                                         *)
(***************************************************************************)
EXTENDS Integers, Sequences, FiniteSets

CONSTANTS
  MaxAttempts,   \* bound of the model: attempts to send the body
  MaxFrames,     \* bound of the model: chunks a source yields
  Capacity,      \* UPLOAD_BODY_CHANNEL_CAPACITY
  Kinds,         \* kinds of feeder: "sync" and "async"
  Lengths        \* content lengths, 0 for none

ASSUME UploadAssumption ==
  /\ MaxAttempts \in Nat \ {0} /\ MaxFrames \in Nat /\ Capacity \in Nat \ {0}
  /\ Kinds \subseteq {"sync", "async"} /\ Lengths \subseteq 0 .. MaxFrames

Attempts == 1 .. MaxAttempts

VARIABLES
  kind, expected, replayable,
  owner,      \* RawUploadBodyState: the attempt, whose sender and receiver it holds
  closing,    \* how far close or aclose of the Python object is
  transport,  \* how far the transport is in take_receiver
  channel,    \* the channel of each attempt
  due,        \* notifications to send after an unlock
  body,       \* StreamingUploadBody: where each attempt's receiver is
  upload,     \* RequestBodyCompletionState
  feeder,     \* where each attempt's feeder is
  intent,     \* what the feeder sends: a chunk, the final one, an error
  sent,       \* chunks pushed
  broken,     \* attempts whose source failed or was interrupted
  cancelled,  \* UploadFeederState.cancelled
  setPending  \* a call_soon_threadsafe(ready.set) is queued

modeVars == <<kind, expected, replayable>>
vars == <<modeVars, owner, closing, transport, channel, due, body, upload, feeder, intent,
          sent, broken, cancelled, setPending>>

NewChannel == [queue |-> <<>>, closed |-> FALSE, producer |-> "open", outstanding |-> 0]
NewUpload == [emitted |-> 0, eof |-> FALSE, failed |-> FALSE, inFlight |-> 0, flushed |-> FALSE]
Error == 0   \* the item of a failed source; a frame is its number

Init ==
  /\ kind \in Kinds /\ expected \in Lengths /\ replayable \in BOOLEAN
  /\ owner = [attempt |-> 1, sender |-> 1, receiver |-> TRUE]
  /\ closing = "open" /\ transport = "idle"
  /\ channel = [k \in Attempts |-> NewChannel] /\ due = {}
  /\ body = [k \in Attempts |-> "none"] /\ upload = [k \in Attempts |-> NewUpload]
  /\ feeder = [k \in Attempts |-> "none"] /\ intent = [k \in Attempts |-> "chunk"]
  /\ sent = [k \in Attempts |-> 0] /\ broken = {} /\ cancelled = FALSE /\ setPending = FALSE

FeederTo(k, step) == feeder' = [feeder EXCEPT ![k] = step]
BodyTo(k, step) == body' = [body EXCEPT ![k] = step]
Intend(k, what) == intent' = [intent EXCEPT ![k] = what]

(* The feeder of an asynchronous body runs on the event loop: nothing else   *)
(* does between its failed send_nowait and its await, or in fail_nowait.     *)
OnLoop == kind = "async" /\ \E k \in Attempts : feeder[k] \in {"check", "finish"}

--------------------------------------------------------------------------------
(* The channel.  A section changes it; whom it has to wake is due after it.  *)
(* A notification that finds nobody waiting changes nothing and is left out. *)
Waker(k) == IF body[k] = "pending" THEN {<<k, "waker">>} ELSE {}
Condvar(k) == IF feeder[k] = "blocked" THEN {<<k, "condvar">>} ELSE {}
Callback(k) ==
  IF kind = "async" /\ feeder[k] \in {"check", "waiting"} THEN {<<k, "callback">>} ELSE {}
Producer(c, state) == IF c.producer = "open" THEN state ELSE c.producer

(* Mutant: an abort wakes nobody on the sending side. *)
AbortSilently(k) ==
  IF channel[k].closed THEN UNCHANGED <<channel, due>>
  ELSE /\ channel' = [channel EXCEPT ![k] = [@ EXCEPT !.closed = TRUE, !.queue = <<>>,
                                                      !.producer = Producer(channel[k], "aborted")]]
       /\ due' = due \cup Waker(k)

(* UploadBodyChannel::abort *)
Abort(k) ==
  IF channel[k].closed THEN UNCHANGED <<channel, due>>
  ELSE /\ channel' = [channel EXCEPT ![k] = [@ EXCEPT !.closed = TRUE, !.queue = <<>>,
                                                      !.producer = Producer(channel[k], "aborted")]]
       /\ due' = due \cup Condvar(k) \cup Waker(k) \cup Callback(k)

(* UploadBodyChannel::finish *)
Finish(k) ==
  IF channel[k].closed THEN UNCHANGED <<channel, due>>
  ELSE /\ channel' = [channel EXCEPT ![k] = [@ EXCEPT !.closed = TRUE,
                                                      !.producer = Producer(channel[k], "finished")]]
       /\ due' = due \cup Condvar(k) \cup Waker(k)

(* Mutant: the last chunk is pushed like any other and leaves the channel open. *)
PushOpen(k) ==
  LET fail == intent[k] = "fail"
      c == channel[k]
  IN  /\ channel' = [channel EXCEPT ![k] =
           [c EXCEPT !.queue = Append(c.queue, IF fail THEN Error ELSE sent[k] + 1),
                     !.producer = IF fail THEN Producer(c, "failed") ELSE c.producer,
                     !.outstanding = IF fail THEN c.outstanding ELSE c.outstanding + 1]]
      /\ due' = due \cup Waker(k)
      /\ sent' = [sent EXCEPT ![k] = IF fail THEN @ ELSE @ + 1]

(* The part of send_blocking_inner and send_nowait_inner that has room: the  *)
(* final chunk finishes the producer in the same section.                    *)
Push(k) ==
  LET fail == intent[k] = "fail"
      final == intent[k] = "final"
      c == channel[k]
  IN  /\ channel' = [channel EXCEPT ![k] =
           [queue |-> Append(c.queue, IF fail THEN Error ELSE sent[k] + 1),
            closed |-> final,
            producer |-> IF fail THEN Producer(c, "failed")
                         ELSE IF final THEN Producer(c, "finished") ELSE c.producer,
            outstanding |-> IF fail THEN c.outstanding ELSE c.outstanding + 1]]
      /\ due' = due \cup Waker(k) \cup (IF final THEN Condvar(k) ELSE {})
      /\ sent' = [sent EXCEPT ![k] = IF fail THEN @ ELSE @ + 1]

(* A notification arrives: at the thread in send_blocking, at the task that  *)
(* polls the body, or at the event loop.                                     *)
Notify(k, what) ==
  /\ <<k, what>> \in due
  /\ due' = due \ {<<k, what>>}
  /\ feeder' = IF what = "condvar" /\ feeder[k] = "blocked"
               THEN [feeder EXCEPT ![k] = "send"] ELSE feeder
  /\ body' = IF what = "waker" /\ body[k] = "pending"
             THEN [body EXCEPT ![k] = "taken"] ELSE body
  /\ setPending' = (setPending \/ what = "callback")
  /\ UNCHANGED <<modeVars, owner, closing, transport, channel, upload, intent, sent, broken,
                 cancelled>>

(* Mutant: the event wakes the feeder of one attempt only. *)
LoopSetOne ==
  /\ setPending /\ ~OnLoop
  /\ setPending' = FALSE
  /\ feeder' \in {[feeder EXCEPT ![k] = IF @ = "waiting" THEN "send" ELSE @] : k \in Attempts}
  /\ UNCHANGED <<modeVars, owner, closing, transport, channel, due, body, upload, intent, sent,
                 broken, cancelled>>

(* The event loop runs ready.set: one event for the feeders of all attempts. *)
LoopSet ==
  /\ setPending /\ ~OnLoop
  /\ setPending' = FALSE
  /\ feeder' = [k \in Attempts |-> IF feeder[k] = "waiting" THEN "send" ELSE feeder[k]]
  /\ UNCHANGED <<modeVars, owner, closing, transport, channel, due, body, upload, intent, sent,
                 broken, cancelled>>

--------------------------------------------------------------------------------
(* The owner. *)

(* RawUploadBody::take_receiver, to its unlock: the first attempt has a      *)
(* channel, every other one gets a new one.                                  *)
TakeReceiver ==
  /\ transport = "idle"
  /\ \/ /\ owner.receiver /\ owner.sender # 0
        /\ owner' = [owner EXCEPT !.receiver = FALSE]
        /\ transport' = "start"
     \/ /\ ~owner.receiver /\ replayable /\ owner.attempt < MaxAttempts
        /\ owner' = [attempt |-> owner.attempt + 1, sender |-> owner.attempt + 1,
                     receiver |-> FALSE]
        /\ transport' = IF owner.sender # 0 THEN "closePrevious" ELSE "start"
     \/ /\ IF owner.receiver THEN owner.sender = 0 ELSE ~replayable
        /\ owner' = [owner EXCEPT !.receiver = FALSE]
        /\ transport' = "refused"
  /\ UNCHANGED <<modeVars, closing, channel, due, body, upload, feeder, intent, sent, broken,
                 cancelled, setPending>>

(* Mutant: a replay leaves the attempt before it as it is. *)
ClosePreviousNot ==
  /\ transport = "closePrevious"
  /\ transport' = "start"
  /\ UNCHANGED <<modeVars, owner, closing, channel, due, body, upload, feeder, intent, sent,
                 broken, cancelled, setPending>>

ClosePrevious ==
  /\ transport = "closePrevious"
  /\ transport' = "start"
  /\ Abort(owner.attempt - 1)
  /\ UNCHANGED <<modeVars, owner, closing, body, upload, feeder, intent, sent, broken,
                 cancelled, setPending>>

(* start_callback: the Python object starts a feeder unless it was closed;   *)
(* a factory that raises closes the attempt and fails the request.           *)
Start ==
  /\ transport = "start"
  /\ kind = "sync" => closing # "set"
  /\ LET k == owner.attempt
     IN  \/ /\ closing = "open"
            /\ transport' = "idle" /\ FeederTo(k, "feed") /\ BodyTo(k, "taken")
            /\ UNCHANGED <<channel, due>>
         \/ /\ closing # "open"
            /\ transport' = "idle" /\ BodyTo(k, "taken") /\ Abort(k)
            /\ UNCHANGED feeder
         \/ /\ transport' = "refused" /\ Abort(k)
            /\ UNCHANGED <<feeder, body>>
  /\ UNCHANGED <<modeVars, owner, closing, upload, intent, sent, broken, cancelled, setPending>>

(* close and aclose: no feeder starts from here on; then RawUploadBody::close *)
(* of the attempt the owner has; then the feeders are told.                  *)
Close ==
  /\ ~OnLoop /\ closing = "open"
  /\ closing' = "set"
  /\ UNCHANGED <<modeVars, owner, transport, channel, due, body, upload, feeder, intent, sent,
                 broken, cancelled, setPending>>

CloseRaw ==
  /\ ~OnLoop /\ closing = "set"
  /\ closing' = "closed"
  /\ owner' = [owner EXCEPT !.sender = 0]
  /\ Abort(owner.sender)
  /\ UNCHANGED <<modeVars, transport, body, upload, feeder, intent, sent, broken, cancelled,
                 setPending>>

CancelFeeders ==
  /\ ~OnLoop /\ closing = "closed" /\ ~cancelled
  /\ cancelled' = TRUE
  /\ UNCHANGED <<modeVars, owner, closing, transport, channel, due, body, upload, feeder,
                 intent, sent, broken, setPending>>

--------------------------------------------------------------------------------
(* The feeder. *)
Runs(k, step) == feeder[k] = step /\ ~OnLoop

(* The source yields a chunk: the one that completes the content length is   *)
(* kept until the source is closed.                                          *)
Yield(k) ==
  /\ Runs(k, "feed") /\ sent[k] < MaxFrames
  /\ IF kind = "sync" /\ cancelled THEN FeederTo(k, "closing") /\ Intend(k, "nothing")
     ELSE IF expected > 0 /\ sent[k] + 1 = expected
     THEN FeederTo(k, "closing") /\ Intend(k, "final")
     ELSE FeederTo(k, "send") /\ Intend(k, "chunk")
  /\ UNCHANGED <<modeVars, owner, closing, transport, channel, due, body, upload, sent, broken,
                 cancelled, setPending>>

SourceEnds(k) ==
  /\ Runs(k, "feed")
  /\ FeederTo(k, "closing")
  /\ Intend(k, IF kind = "sync" /\ cancelled THEN "nothing" ELSE "finish")
  /\ UNCHANGED <<modeVars, owner, closing, transport, channel, due, body, upload, sent, broken,
                 cancelled, setPending>>

(* _report_error, handle_async_upload_error: an ordinary error is sent to    *)
(* the transport, any other one closes the body.                             *)
SourceRaises(k) ==
  /\ Runs(k, "feed")
  /\ broken' = broken \cup {k}
  /\ \/ /\ IF kind = "sync" /\ cancelled THEN FeederTo(k, "closing") /\ Intend(k, "nothing")
           ELSE FeederTo(k, "send") /\ Intend(k, "fail")
        /\ UNCHANGED <<channel, due>>
     \/ Abort(k) /\ FeederTo(k, "closing") /\ Intend(k, "nothing")
  /\ UNCHANGED <<modeVars, owner, closing, transport, body, upload, sent, cancelled, setPending>>

(* What follows a send that found the channel closed. *)
Rejected(k) ==
  /\ FeederTo(k, IF intent[k] = "final" THEN "done" ELSE "closing")
  /\ Intend(k, IF intent[k] = "chunk" THEN "nothing" ELSE intent[k])

(* send_blocking, send_nowait, fail and their final forms. *)
Send(k) ==
  /\ Runs(k, "send")
  /\ IF channel[k].closed THEN Rejected(k) /\ UNCHANGED <<channel, due, sent>>
     ELSE IF Len(channel[k].queue) < Capacity
     THEN /\ Push(k)
          /\ FeederTo(k, CASE intent[k] = "chunk" -> "feed"
                           [] intent[k] = "final" -> "done"
                           [] intent[k] = "fail"  -> "finish")
          /\ UNCHANGED intent
     ELSE /\ FeederTo(k, IF kind = "sync" THEN "blocked" ELSE "check")
          /\ UNCHANGED <<channel, due, sent, intent>>
  /\ UNCHANGED <<modeVars, owner, closing, transport, body, upload, broken, cancelled, setPending>>

(* The second half of a send_nowait that found the channel full. *)
Check(k) ==
  /\ feeder[k] = "check"
  /\ IF channel[k].closed THEN Rejected(k) ELSE FeederTo(k, "waiting") /\ UNCHANGED intent
  /\ UNCHANGED <<modeVars, owner, closing, transport, channel, due, body, upload, sent, broken,
                 cancelled, setPending>>

(* fail and fail_nowait finish the channel after they pushed the error. *)
FinishFailed(k) ==
  /\ feeder[k] = "finish"
  /\ Finish(k)
  /\ FeederTo(k, "closing")
  /\ UNCHANGED <<modeVars, owner, closing, transport, body, upload, intent, sent, broken,
                 cancelled, setPending>>

(* Mutant: the body is completed before its source is closed. *)
CloseSourcesLast(k) ==
  /\ Runs(k, "closing")
  /\ broken' \in {broken, broken \cup {k}}
  /\ IF intent[k] = "finish" THEN Finish(k) ELSE UNCHANGED <<channel, due>>
  /\ FeederTo(k, IF intent[k] = "final" THEN "send" ELSE "done")
  /\ UNCHANGED <<modeVars, owner, closing, transport, body, upload, intent, sent, cancelled,
                 setPending>>

(* _close_sources and _complete_body: the source is closed first, and only a *)
(* body whose source closed cleanly is completed.                            *)
CloseSources(k) ==
  /\ Runs(k, "closing")
  /\ \/ /\ IF intent[k] = "finish" THEN Finish(k) ELSE UNCHANGED <<channel, due>>
        /\ FeederTo(k, IF intent[k] = "final" THEN "send" ELSE "done")
        /\ UNCHANGED broken
     \/ /\ broken' = broken \cup {k}
        /\ FeederTo(k, "done")
        /\ IF intent[k] = "fail" THEN UNCHANGED <<channel, due>> ELSE Abort(k)
  /\ UNCHANGED <<modeVars, owner, closing, transport, body, upload, intent, sent, cancelled,
                 setPending>>

(* The task of an asynchronous feeder is cancelled at an await. *)
CancelTask(k) ==
  /\ kind = "async" /\ cancelled /\ ~OnLoop
  /\ feeder[k] \in {"feed", "send", "waiting", "closing"}
  /\ broken' = broken \cup {k}
  /\ Abort(k) /\ FeederTo(k, "done")
  /\ UNCHANGED <<modeVars, owner, closing, transport, body, upload, intent, sent, cancelled,
                 setPending>>

--------------------------------------------------------------------------------
(* The transport. *)

(* RequestBodyCompletion: has the body ended, is the whole upload over?      *)
WireBodyEnded(k) == IF expected > 0 THEN upload[k].emitted = expected ELSE upload[k].eof

FinishedAndDrained(k) == channel[k].producer = "finished" /\ channel[k].outstanding = 0

IsComplete(k) ==
  WireBodyEnded(k) /\ FinishedAndDrained(k) /\ ~upload[k].failed /\ upload[k].inFlight = 0
  /\ upload[k].flushed

(* poll_frame of the tracked body; hyper asks for no more frames than the    *)
(* content length promises.                                                  *)
Poll(k) ==
  /\ body[k] = "taken"
  /\ expected > 0 => upload[k].emitted < expected
  /\ LET queue == channel[k].queue
     IN  \/ /\ queue # <<>> /\ Head(queue) # Error
            /\ channel' = [channel EXCEPT ![k].queue = Tail(queue)]
            /\ due' = due \cup Condvar(k) \cup Callback(k)
            /\ upload' = [upload EXCEPT ![k].emitted = @ + 1, ![k].inFlight = @ + 1]
            /\ UNCHANGED body
         \/ /\ queue # <<>> /\ Head(queue) = Error
            /\ channel' = [channel EXCEPT ![k].queue = Tail(queue)]
            /\ due' = due \cup Condvar(k) \cup Callback(k)
            /\ upload' = [upload EXCEPT ![k].failed = TRUE]
            /\ BodyTo(k, "ended")
         \/ /\ queue = <<>> /\ channel[k].closed
            /\ upload' = [upload EXCEPT ![k].eof = TRUE]
            /\ BodyTo(k, "ended")
            /\ UNCHANGED <<channel, due>>
         \/ /\ queue = <<>> /\ ~channel[k].closed
            /\ BodyTo(k, "pending")
            /\ UNCHANGED <<channel, due, upload>>
  /\ UNCHANGED <<modeVars, owner, closing, transport, feeder, intent, sent, broken, cancelled,
                 setPending>>

(* poll_pending_timeout: the provider takes longer than Timeouts.write.  The *)
(* body is polled then, and the channel is looked at first.                  *)
WriteTimeout(k) ==
  /\ body[k] = "pending" /\ channel[k].queue = <<>> /\ ~channel[k].closed
  /\ BodyTo(k, "ended")
  /\ upload' = [upload EXCEPT ![k].failed = TRUE]
  /\ UNCHANGED <<modeVars, owner, closing, transport, channel, due, feeder, intent, sent, broken,
                 cancelled, setPending>>

(* TrackedBodyData::drop: a frame was written, or thrown away. *)
Consume(k) ==
  /\ upload[k].inFlight > 0
  /\ upload' = [upload EXCEPT ![k].inFlight = @ - 1]
  /\ channel' = [channel EXCEPT ![k].outstanding = @ - 1]
  /\ UNCHANGED <<modeVars, owner, closing, transport, due, body, feeder, intent, sent, broken,
                 cancelled, setPending>>

(* mark_transport_flushed *)
Flush(k) ==
  /\ body[k] # "none" /\ WireBodyEnded(k) /\ upload[k].inFlight = 0
  /\ upload' = [upload EXCEPT ![k].flushed = TRUE]
  /\ UNCHANGED <<modeVars, owner, closing, transport, channel, due, body, feeder, intent, sent,
                 broken, cancelled, setPending>>

(* UploadBodyReceiver::drop: hyper is done with the body, or the request is. *)
DropBody(k) ==
  /\ body[k] \in {"taken", "pending", "ended"}
  /\ BodyTo(k, "dropped")
  /\ Abort(k)
  /\ UNCHANGED <<modeVars, owner, closing, transport, upload, feeder, intent, sent, broken,
                 cancelled, setPending>>

--------------------------------------------------------------------------------
FeederStep(k) == \/ Yield(k) \/ SourceEnds(k) \/ SourceRaises(k) \/ Send(k) \/ Check(k)
                 \/ FinishFailed(k) \/ CloseSources(k) \/ CancelTask(k)

Notifications(k) == \E what \in {"condvar", "waker", "callback"} : Notify(k, what)

Next ==
  \/ TakeReceiver \/ ClosePrevious \/ Start
  \/ Close \/ CloseRaw \/ CancelFeeders \/ LoopSet
  \/ \E k \in Attempts : \/ FeederStep(k) \/ Notifications(k)
                         \/ Poll(k) \/ WriteTimeout(k) \/ Consume(k) \/ Flush(k) \/ DropBody(k)

Spec == Init /\ [][Next]_vars

(* A source yields, ends or raises; threads, the loop and the runtime run    *)
(* what is ready; and every request ends (Timeouts.total), which drops its   *)
(* body.  Nobody has to poll a body or to close the upload.                  *)
Fairness ==
  /\ WF_vars(LoopSet)
  /\ \A k \in Attempts : /\ WF_vars(FeederStep(k)) /\ WF_vars(DropBody(k))
                         /\ \A what \in {"condvar", "waker", "callback"} : WF_vars(Notify(k, what))

FairSpec == Spec /\ Fairness

--------------------------------------------------------------------------------
(* Properties *)

Items == 0 .. MaxFrames

(* Every variable has its type; the channel stays within its capacity and no *)
(* count of frames underflows (the debug_asserts of data_consumed and        *)
(* data_frame_consumed).                                                     *)
TypeOK ==
  /\ owner \in [attempt : Attempts, sender : 0 .. MaxAttempts, receiver : BOOLEAN]
  /\ closing \in {"open", "set", "closed"}
  /\ transport \in {"idle", "closePrevious", "start", "refused"}
  /\ \A k \in Attempts :
       /\ channel[k].queue \in Seq(Items) /\ Len(channel[k].queue) <= Capacity
       /\ channel[k].closed \in BOOLEAN
       /\ channel[k].producer \in {"open", "finished", "failed", "aborted"}
       /\ channel[k].outstanding \in upload[k].inFlight .. MaxFrames
       /\ upload[k].emitted \in 0 .. MaxFrames /\ upload[k].inFlight \in Nat
       /\ body[k] \in {"none", "taken", "pending", "ended", "dropped"}
       /\ feeder[k] \in {"none", "feed", "send", "blocked", "check", "waiting", "finish",
                         "closing", "done"}
       /\ intent[k] \in {"chunk", "final", "finish", "fail", "nothing"}
       /\ sent[k] \in 0 .. MaxFrames
  /\ due \subseteq Attempts \X {"condvar", "waker", "callback"}
  /\ broken \subseteq Attempts /\ cancelled \in BOOLEAN /\ setPending \in BOOLEAN

(* "FogHTTP never returns a connection with an incomplete request body to    *)
(* the pool": is_complete, which decides on that, is true only of an upload  *)
(* whose source ended and closed cleanly, whose every chunk has left, and    *)
(* whose length is the promised one, whatever aborts and timeouts it met.    *)
CompleteIsWhole ==
  \A k \in Attempts : IsComplete(k) =>
    /\ k \notin broken /\ feeder[k] = "done"
    /\ upload[k].emitted = sent[k] /\ channel[k].queue = <<>>
    /\ expected > 0 => sent[k] = expected

(* The last chunk of a body with a content length finishes it: hyper stops   *)
(* polling there and drops the receiver, which must not turn a complete      *)
(* upload into an aborted one.                                               *)
LastChunkFinishes ==
  \A k \in Attempts :
    expected > 0 /\ upload[k].emitted = expected => channel[k].producer = "finished"

(* Nobody sleeps while what it waits for is there: neither a thread in       *)
(* send_blocking nor a task that waits for ready (one event for the feeders  *)
(* of all attempts), nor the transport that waits for a frame.               *)
NoLostWakeup ==
  \A k \in Attempts :
    LET room == channel[k].closed \/ Len(channel[k].queue) < Capacity
    IN  /\ feeder[k] = "blocked" /\ room => <<k, "condvar">> \in due
        /\ feeder[k] = "waiting" /\ room => <<k, "callback">> \in due \/ setPending
        /\ body[k] = "pending" /\ (channel[k].closed \/ channel[k].queue # <<>>)
             => <<k, "waker">> \in due

(* A replay closes the attempt before it, and closing the upload closes the  *)
(* attempt that is under way or about to start: no feeder is left behind     *)
(* with an open channel.                                                     *)
NoAttemptLeftOpen ==
  /\ \A k \in Attempts : k < owner.attempt /\ transport # "closePrevious" => channel[k].closed
  /\ closing = "closed" /\ transport \in {"idle", "refused"} => channel[owner.attempt].closed

(* Every feeder ends once its request has, also one that is blocked on a     *)
(* full channel that nobody reads any more.                                  *)
FeedersEnd == \A k \in Attempts : feeder[k] = "feed" ~> feeder[k] = "done"

================================================================================
