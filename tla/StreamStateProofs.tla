---------------------------- MODULE StreamStateProofs ----------------------------
(***************************************************************************)
(* TLAPS proofs about one streamed response body (StreamState), for every  *)
(* set of reads and every number of frames: the types, the four invariants *)
(* the run of StreamState checks and the action property EndsOnce.         *)
(*                                                                         *)
(* The inductive invariant has a part for each thing that reads share: the *)
(* body, the stream's outcome, the flag that keeps readers out, the queue  *)
(* of the event loop and the frames on their way to the iterator.          *)
(***************************************************************************)
EXTENDS StreamState, SequenceTheorems, TLAPS

(* Where a read task is while it owns what its guard holds. *)
Working == {"gated", "read", "data", "trailers", "end", "failure", "decode", "decodeBody",
            "step", "yield"}
Decoding == {"decode", "decodeBody", "step", "yield"}
TaskSteps == Working \cup {"none", "deliver", "done"}
CallSteps == {"idle", "register", "start", "wait", "unwatched", "failing", "returned"}
Ops == {"set", "cancel", "done"} \X Reads \X Replies

Active(c) == task[c] \in Working
Reader(c) == call[c] \in {"register", "start", "wait"}

(* What a task delivers. *)
Outcomes == {"chunk", "eof", "error"}

TypeInv ==
  /\ decodedMode \in BOOLEAN /\ iterated \in BOOLEAN /\ async \subseteq Reads
  /\ terminal \in Finishes
  /\ hasBody \in BOOLEAN /\ hasDecoder \in BOOLEAN
  /\ transport \in {"open", "clean", "aborted"}
  /\ permit \in BOOLEAN /\ registered \in BOOLEAN
  /\ readTask \in Reads \cup {NoRead}
  /\ readInProgress \in BOOLEAN /\ deferred \in BOOLEAN
  /\ call \in [Reads -> CallSteps]
  /\ result \in [Reads -> {"none", "chunk", "eof", "error", "busy", "cancelled"}]
  /\ task \in [Reads -> TaskSteps]
  /\ guard \in [Reads -> SUBSET {"body", "decoder", "error"}]
  /\ found \in [Reads -> Replies] /\ reply \in [Reads -> Replies]
  /\ aborted \subseteq Reads /\ notifyDue \subseteq Reads
  /\ ready \in Seq(Ops)
  /\ consumed \in 0 .. MaxFrames /\ held \in 0 .. MaxFrames
  /\ ended \in BOOLEAN /\ trailed \in BOOLEAN /\ got \subseteq 1 .. MaxFrames

(* One read: what its caller waits for is what its task has left to do. *)
ReadInv(c) ==
  /\ call[c] = "idle" => task[c] = "none" /\ result[c] = "none"
  /\ call[c] \in {"idle", "register"} => reply[c].kind = "none"
  /\ call[c] \in {"register", "start"} => task[c] \in {"gated", "done"}
  /\ call[c] \in {"start", "wait", "unwatched"} => reply[c].kind # "none"
  /\ call[c] \in {"unwatched", "failing"} => terminal # "none"
  /\ Active(c) => terminal # "none" \/ Reader(c)
  /\ task[c] \in Working \cup {"none"} => found[c] = Nothing
  /\ task[c] = "deliver" => found[c].kind \in Outcomes
  /\ reply[c].kind \in Outcomes => reply[c] = found[c] /\ task[c] = "done"
  /\ reply[c].kind = "pending" /\ c \in async => call[c] \in {"start", "wait", "unwatched"}
  /\ reply[c].kind = "dropped" => terminal # "none" /\ c \notin async
  /\ reply[c].kind = "cancelled" => c \in async
  /\ c \in notifyDue => terminal # "none"

(* An open stream is busy as long as a reader waits, and one only does. *)
BusyInv ==
  terminal = "none" => /\ readInProgress <=> \E c \in Reads : Reader(c)
                       /\ \A c, d \in Reads : Reader(c) /\ Reader(d) => c = d

(* The body, the decoder and a deferred error have one owner. *)
OwnerInv ==
  /\ \A c \in Reads : /\ guard[c] # {} => Active(c)
                      /\ "body" \in guard[c] => ~hasBody
                      /\ "decoder" \in guard[c] => ~hasDecoder
  /\ \A c, d \in Reads : Active(c) /\ Active(d) => c = d

(* A stream that has ended owns nothing and was counted. *)
EndInv ==
  /\ terminal # "none" => ~hasBody /\ ~hasDecoder /\ ~permit /\ ~registered
  /\ finished = IF terminal = "none" THEN <<0, 0>>
                ELSE IF terminal = "success" THEN <<1, 0>> ELSE <<1, 1>>

(* Where the body is: a decoded stream without one has reached its end. *)
CleanInv ==
  /\ transport = "clean" => ended
  /\ \A c \in Reads : task[c] = "end" => ended
  /\ decodedMode /\ terminal = "none" =>
       /\ ~deferred
       /\ \A c \in Reads : Active(c) => ~hasBody
       /\ ended \/ hasBody \/ \E c \in Reads : "body" \in guard[c]

(* What has gone through the decoder. *)
FrameInv ==
  /\ held <= consumed /\ (~decodedMode => held = 0)
  /\ \A c \in Reads : /\ task[c] \in Decoding => decodedMode
                      /\ task[c] = "data" => consumed > 0
  /\ terminal = "success" => held = 0 /\ \A c \in Reads : ~Active(c)

(* The callbacks of the event loop: each read is delivered once, and only a  *)
(* stream that has ended cancels one.                                        *)
Queued(op) ==
  /\ op[2] \in async
  /\ op[1] = "set" => task[op[2]] = "done" /\ op[3] = found[op[2]] /\ op[3].kind \in Outcomes
  /\ op[1] = "cancel" => terminal # "none"
  /\ op[1] = "done" => /\ call[op[2]] \in {"wait", "unwatched"}
                       /\ reply[op[2]].kind \in Outcomes \cup {"cancelled"}

QueueInv ==
  /\ \A i \in 1 .. Len(ready) : Queued(ready[i])
  /\ \A i, j \in 1 .. Len(ready) :
       i # j /\ ready[i][1] = "done" /\ ready[j][1] = "done" => ready[i][2] # ready[j][2]

(* The frames an iterator got, and those on their way to it.                 *)
Pending(c) == call[c] # "idle" /\ result[c] # "chunk"
Sent(c) == task[c] \in {"deliver", "done"}
Out == consumed - held

FlightInv(c) ==
  /\ Active(c) => got = 1 .. (IF task[c] = "data" /\ ~decodedMode THEN Out - 1 ELSE Out)
  /\ Sent(c) /\ found[c].kind = "chunk" => /\ got = 1 .. found[c].from - 1
                                           /\ found[c].to = Out /\ found[c].from <= Out
  /\ Sent(c) /\ found[c].kind = "eof" /\ terminal = "success" => got = 1 .. consumed
  /\ result[c] = "eof" /\ terminal = "success" => got = 1 .. consumed

GapInv ==
  /\ \A c \in Reads : /\ result[c] = "chunk" => call[c] = "returned"
                      /\ result[c] \in {"chunk", "eof"} => ~Active(c)
  /\ iterated => /\ \E n \in 0 .. MaxFrames : got = 1 .. n
                 /\ \A c, d \in Reads : Pending(c) /\ Pending(d) => c = d
                 /\ \A c \in Reads : Pending(c) => FlightInv(c)
                 /\ (\A c \in Reads : ~Pending(c)) => got = 1 .. Out

IInv == /\ TypeInv /\ (\A c \in Reads : ReadInv(c)) /\ BusyInv /\ OwnerInv /\ EndInv
        /\ CleanInv /\ FrameInv /\ QueueInv /\ GapInv

--------------------------------------------------------------------------------
(* Replies, and the one way out. *)

(* The kinds of replies, and what a chunk holds. *)
LEMMA ReplyKinds ==
  /\ \A k \in {"pending", "eof", "error", "cancelled", "dropped"} :
       Only(k) \in Replies /\ Only(k).kind = k
  /\ Nothing \in Replies /\ Nothing.kind = "none"
  /\ \A f, t \in 1 .. MaxFrames : /\ Chunk(f, t) \in Replies /\ Chunk(f, t).kind = "chunk"
                                  /\ Chunk(f, t).from = f /\ Chunk(f, t).to = t
  /\ \A r \in Replies : /\ r.kind \in Outcomes \cup {"none", "pending", "cancelled", "dropped"}
                        /\ r.kind = "chunk" => r.from \in 1 .. MaxFrames /\ r.to \in 1 .. MaxFrames
<1>1. \A k \in {"pending", "eof", "error", "cancelled", "dropped"} :
        Only(k) \in Replies /\ Only(k).kind = k
  BY DEF Replies, Only
<1>2. Nothing \in Replies /\ Nothing.kind = "none"
  BY DEF Replies, Nothing
<1>3. \A f, t \in 1 .. MaxFrames : /\ Chunk(f, t) \in Replies /\ Chunk(f, t).kind = "chunk"
                                   /\ Chunk(f, t).from = f /\ Chunk(f, t).to = t
  BY DEF Replies, Chunk
<1>4. ASSUME NEW r \in Replies
      PROVE  /\ r.kind \in Outcomes \cup {"none", "pending", "cancelled", "dropped"}
             /\ r.kind = "chunk" => r.from \in 1 .. MaxFrames /\ r.to \in 1 .. MaxFrames
  <2>1. \/ r = Nothing \/ \E k \in {"pending", "eof", "error", "cancelled", "dropped"} : r = Only(k)
        \/ \E f, t \in 1 .. MaxFrames : r = Chunk(f, t)
    BY DEF Replies
  <2>2. CASE r = Nothing
    BY <1>2, <2>2
  <2>3. ASSUME NEW k \in {"pending", "eof", "error", "cancelled", "dropped"}, r = Only(k)
        PROVE  /\ r.kind \in Outcomes \cup {"none", "pending", "cancelled", "dropped"}
               /\ r.kind # "chunk"
    BY <1>1, <2>3 DEF Outcomes
  <2>4. ASSUME NEW f \in 1 .. MaxFrames, NEW t \in 1 .. MaxFrames, r = Chunk(f, t)
        PROVE  r.kind = "chunk" /\ r.from = f /\ r.to = t
    BY <1>3, <2>4
  <2> QED
    BY <2>1, <2>2, <2>3, <2>4 DEF Outcomes
<1> QED
  BY <1>1, <1>2, <1>3, <1>4

(* StreamState::finish: afterwards the stream has ended, and if it had ended *)
(* before nothing has changed.                                               *)
LEMMA FinishFacts ==
  ASSUME TypeInv, EndInv, NEW outcome \in Finishes \ {"none"}, NEW abortRead \in BOOLEAN,
         Finish(outcome, abortRead)
  PROVE  /\ terminal' # "none" /\ EndInv' /\ terminal' \in Finishes
         /\ hasBody' \in BOOLEAN /\ hasDecoder' \in BOOLEAN
         /\ transport' \in {"open", "clean", "aborted"}
         /\ permit' \in BOOLEAN /\ registered' \in BOOLEAN
         /\ readTask' \in Reads \cup {NoRead} /\ notifyDue' \subseteq Reads
         /\ terminal # "none" =>
              UNCHANGED <<terminal, transport, finished, permit, registered, hasBody, hasDecoder,
                          readTask, notifyDue>>
         /\ terminal = "none" => terminal' = outcome
         /\ terminal = "none" /\ transport' = "clean" => transport = "clean" \/ outcome = "success"
         /\ abortRead \/ notifyDue' = notifyDue
<1>1. CASE terminal # "none"
  BY <1>1 DEF Finish, EndInv, TypeInv
<1>2. CASE terminal = "none"
  <2>1. finished = <<0, 0>>
    BY <1>2 DEF EndInv
  <2>2. finished' = IF outcome = "success" THEN <<1, 0>> ELSE <<1, 1>>
    BY <1>2, <2>1 DEF Finish
  <2>3. EndInv' /\ terminal' = outcome
    BY <1>2, <2>2 DEF Finish, EndInv
  <2> QED
    BY <1>2, <2>3 DEF Finish, TypeInv
<1> QED
  BY <1>1, <1>2

--------------------------------------------------------------------------------
(* The steps of a read task have three shapes. *)

TaskOnly(c) ==
  /\ Active(c) /\ task[c] # "gated"
  /\ UNCHANGED <<call, result, reply, ready, readInProgress, aborted, async, decodedMode, iterated,
                 got, notifyDue>>
  /\ \A d \in Reads \ {c} : task'[d] = task[d] /\ guard'[d] = guard[d] /\ found'[d] = found[d]
  /\ TypeInv'
  /\ ended => ended'

(* The task goes on, with its guard. *)
Works(c) ==
  /\ TaskOnly(c)
  /\ UNCHANGED <<terminal, hasBody, hasDecoder, deferred, permit, registered, finished, found>>
  /\ task'[c] \in Working \ {"gated"}
  /\ task'[c] = "end" => ended'
  /\ task'[c] \in Decoding => decodedMode
  /\ guard'[c] \subseteq guard[c] /\ ("body" \in guard[c] => "body" \in guard'[c] \/ ended')
  /\ transport' = transport \/ (transport' = "clean" /\ ended' /\ terminal = "none")
  /\ \/ /\ UNCHANGED <<consumed, held>> /\ task'[c] # "data" /\ (task[c] = "data" => decodedMode)
     \/ /\ task[c] # "data" /\ task'[c] = "data" /\ consumed' = consumed + 1
        /\ held' = IF decodedMode THEN held + 1 ELSE held

(* The task delivers, and the stream has ended. *)
Concludes(c) ==
  /\ TaskOnly(c)
  /\ task'[c] = "deliver" /\ guard'[c] = {} /\ found'[c].kind \in Outcomes
  /\ terminal' # "none" /\ EndInv'
  /\ transport' = "clean" => transport = "clean" \/ ended'
  /\ held' <= consumed' /\ (~decodedMode => held' = held)
  /\ terminal' = "success" => UNCHANGED held /\ held = 0
  /\ \/ found'[c].kind = "error"
     \/ /\ found'[c].kind = "eof"
        /\ terminal' = "success" => UNCHANGED consumed /\ (task[c] = "data" => decodedMode)
     \/ /\ ~decodedMode /\ task[c] = "data" /\ consumed <= consumed'
        /\ found'[c] = Chunk(consumed, consumed')

(* The task delivers a chunk, and what its guard held goes back to a stream  *)
(* that is still open.                                                       *)
HandsOver(c) ==
  /\ TaskOnly(c)
  /\ task'[c] = "deliver" /\ guard'[c] = {} /\ found'[c].kind = "chunk"
  /\ UNCHANGED <<terminal, transport, permit, registered, finished, ended>>
  /\ terminal # "none" => UNCHANGED <<hasBody, hasDecoder>>
  /\ decodedMode => /\ UNCHANGED <<deferred, consumed>> /\ held > 0 /\ held' = held - 1
                    /\ terminal = "none"
                    /\ hasBody' = ("body" \in guard[c])
                    /\ found'[c] = Chunk(Out + 1, Out + 1)
  /\ ~decodedMode => /\ UNCHANGED held /\ consumed <= consumed' /\ task[c] = "data"
                     /\ found'[c] = Chunk(consumed, consumed')

(* A task that has a guard to give up and something to deliver. *)
LEMMA Delivering ==
  ASSUME TypeInv, NEW c \in Reads, NEW w \in Replies, Drops(c), Deliver(c, w)
  PROVE  /\ task' \in [Reads -> TaskSteps] /\ task'[c] = "deliver"
         /\ guard' \in [Reads -> SUBSET {"body", "decoder", "error"}] /\ guard'[c] = {}
         /\ found' \in [Reads -> Replies] /\ found'[c] = w
         /\ \A d \in Reads \ {c} : task'[d] = task[d] /\ guard'[d] = guard[d] /\ found'[d] = found[d]
  BY DEF Drops, Deliver, TaskTo, TypeInv, TaskSteps, Working

(* A task that fails or finds the end finishes the stream. *)
LEMMA FinishingSteps ==
  ASSUME IInv, NEW c \in Reads,
         DeferredError(c) \/ ReadTimeout(c) \/ BodyFailure(c) \/ StepError(c) \/ RawEnd(c)
           \/ StepFinished(c)
  PROVE  Concludes(c)
<1> USE DEF IInv
<1>1. /\ UNCHANGED <<readInProgress, deferred, call, result, aborted, reply, ready, consumed, held,
                     ended, trailed, decodedMode, iterated, async, got>>
      /\ Active(c) /\ task[c] # "gated" /\ Drops(c)
  BY DEF DeferredError, ReadTimeout, BodyFailure, StepError, RawEnd, StepFinished, callVars,
         loopVars, bodyVars, modeVars, Active, Working
<1>2. PICK outcome \in Finishes \ {"none"}, w \in Replies :
        /\ Finish(outcome, FALSE) /\ Deliver(c, w) /\ w.kind \in {"eof", "error"}
        /\ outcome = "success" => \/ task[c] = "end"
                                  \/ task[c] = "step" /\ "body" \notin guard[c] /\ held = 0
        /\ outcome \in {"error", "success"}
        /\ task[c] = "data" => FALSE
        /\ outcome = "success" => ~decodedMode \/ held = 0
  <2>1. /\ Only("eof") \in Replies /\ Only("eof").kind = "eof"
        /\ Only("error") \in Replies /\ Only("error").kind = "error"
    BY ReplyKinds
  <2>2. CASE DeferredError(c) \/ ReadTimeout(c) \/ BodyFailure(c) \/ StepError(c)
    <3>1. Finish("error", FALSE) /\ Deliver(c, Only("error")) /\ task[c] # "data"
      BY <2>2 DEF DeferredError, ReadTimeout, BodyFailure, StepError
    <3> QED
      BY <2>1, <3>1 DEF Finishes
  <2>3. CASE RawEnd(c)
    <3>1. Finish("success", FALSE) /\ Deliver(c, Only("eof")) /\ task[c] = "end" /\ ~decodedMode
      BY <2>3 DEF RawEnd
    <3> QED
      BY <2>1, <3>1 DEF Finishes
  <2>4. CASE StepFinished(c)
    <3>1. /\ Finish("success", FALSE) /\ Deliver(c, Only(IF terminal = "none" THEN "eof" ELSE "error"))
          /\ task[c] = "step" /\ "body" \notin guard[c] /\ held = 0
      BY <2>4 DEF StepFinished
    <3> QED
      BY <2>1, <3>1 DEF Finishes
  <2> QED
    BY <2>2, <2>3, <2>4
<1>3. /\ terminal' # "none" /\ EndInv' /\ terminal' \in Finishes
      /\ hasBody' \in BOOLEAN /\ hasDecoder' \in BOOLEAN
      /\ transport' \in {"open", "clean", "aborted"}
      /\ permit' \in BOOLEAN /\ registered' \in BOOLEAN
      /\ readTask' \in Reads \cup {NoRead} /\ notifyDue' = notifyDue
      /\ terminal # "none" => UNCHANGED <<terminal, transport>>
      /\ terminal = "none" => terminal' = outcome
      /\ terminal = "none" /\ transport' = "clean" => transport = "clean" \/ outcome = "success"
  BY <1>2, FinishFacts
<1>4. /\ task' \in [Reads -> TaskSteps] /\ task'[c] = "deliver"
      /\ guard' \in [Reads -> SUBSET {"body", "decoder", "error"}] /\ guard'[c] = {}
      /\ found' \in [Reads -> Replies] /\ found'[c] = w
      /\ \A d \in Reads \ {c} : task'[d] = task[d] /\ guard'[d] = guard[d] /\ found'[d] = found[d]
  BY <1>1, <1>2, Delivering
<1>5. TypeInv'
  BY <1>1, <1>3, <1>4 DEF TypeInv
<1>6. ASSUME outcome = "success", terminal = "none" PROVE ended
  <2>1. CASE task[c] = "end"
    BY <2>1 DEF CleanInv
  <2>2. CASE task[c] = "step" /\ "body" \notin guard[c]
    <3>1. decodedMode /\ ~hasBody
      BY <1>1, <1>6, <2>2 DEF FrameInv, CleanInv, Decoding
    <3>2. \A d \in Reads : "body" \in guard[d] => d = c
      BY <1>1 DEF OwnerInv
    <3> QED
      BY <1>6, <2>2, <3>1, <3>2 DEF CleanInv
  <2> QED
    BY <1>2, <1>6, <2>1, <2>2
<1>7. terminal # "success"
  BY <1>1 DEF FrameInv
<1>8. terminal' = "success" => held = 0
  BY <1>2, <1>3, <1>7 DEF FrameInv
<1>9. TaskOnly(c)
  BY <1>1, <1>3, <1>4, <1>5 DEF TaskOnly
<1>10. transport' = "clean" => transport = "clean" \/ ended'
  BY <1>1, <1>3, <1>6
<1> QED
  BY <1>1, <1>2, <1>3, <1>4, <1>8, <1>9, <1>10 DEF Concludes, FrameInv, Outcomes

(* A stream that was closed in the meantime takes nothing from its task. *)
LEMMA ClosedSteps ==
  ASSUME IInv, NEW c \in Reads, terminal # "none",
         DecodeOpen(c) \/ StepOutput(c) \/ \E event \in Events : Frame(c, event)
  PROVE  Concludes(c)
<1> USE DEF IInv
<1>1. /\ UNCHANGED <<terminal, hasBody, hasDecoder, transport, permit, registered, readTask,
                     readInProgress, deferred, finished, call, result, aborted, reply, ready,
                     decodedMode, iterated, async, got, notifyDue>>
      /\ Active(c) /\ task[c] # "gated" /\ Drops(c)
  BY DEF DecodeOpen, StepOutput, Frame, fieldVars, callVars, loopVars, bodyVars, modeVars, Active,
         Working
<1>2. PICK w \in Replies : Deliver(c, w) /\ w.kind \in {"eof", "error"}
  <2>1. Deliver(c, Only("error")) \/ Deliver(c, Only(IF decodedMode THEN "error" ELSE "eof"))
    BY DEF DecodeOpen, StepOutput, Frame
  <2> QED
    BY <2>1, ReplyKinds
<1>3. /\ task' \in [Reads -> TaskSteps] /\ task'[c] = "deliver"
      /\ guard' \in [Reads -> SUBSET {"body", "decoder", "error"}] /\ guard'[c] = {}
      /\ found' \in [Reads -> Replies] /\ found'[c] = w
      /\ \A d \in Reads \ {c} : task'[d] = task[d] /\ guard'[d] = guard[d] /\ found'[d] = found[d]
  BY <1>1, <1>2, Delivering
<1>4. /\ consumed \in 0 .. MaxFrames /\ held \in 0 .. MaxFrames /\ MaxFrames \in Nat
      /\ held <= consumed /\ (~decodedMode => held = 0)
  BY StreamAssumption DEF TypeInv, FrameInv
<1>5. /\ consumed' \in 0 .. MaxFrames /\ held' \in 0 .. MaxFrames /\ held' <= consumed'
      /\ ~decodedMode => held' = held
      /\ ended' \in BOOLEAN /\ trailed' \in BOOLEAN /\ (ended => ended')
  <2>1. CASE DecodeOpen(c)
    BY <1>4, <2>1 DEF DecodeOpen, bodyVars, TypeInv
  <2>2. CASE StepOutput(c)
    <3>1. UNCHANGED <<consumed, ended, trailed>> /\ held > 0 /\ held' = held - 1
      BY <2>2 DEF StepOutput
    <3> QED
      BY <1>4, <3>1 DEF TypeInv
  <2>3. ASSUME NEW event \in Events, Frame(c, event)
        PROVE  /\ consumed' \in 0 .. MaxFrames /\ held' = held /\ held' <= consumed'
               /\ ended' \in BOOLEAN /\ trailed' \in BOOLEAN /\ (ended => ended')
    <3>1. /\ held' = held /\ ended' = (ended \/ event = "end") /\ trailed' = (trailed \/ event = "trailers")
          /\ consumed' = consumed \/ (consumed < MaxFrames /\ consumed' = consumed + 1)
      BY <2>3 DEF Frame
    <3> QED
      BY <1>4, <3>1 DEF TypeInv
  <2> QED
    BY <1>4, <2>1, <2>2, <2>3
<1>6. TypeInv'
  BY <1>1, <1>3, <1>5 DEF TypeInv
<1>7. terminal # "success"
  BY <1>1 DEF FrameInv
<1>8. EndInv'
  BY <1>1 DEF EndInv
<1>9. TaskOnly(c)
  BY <1>1, <1>3, <1>5, <1>6 DEF TaskOnly
<1> QED
  BY <1>1, <1>2, <1>3, <1>5, <1>7, <1>8, <1>9 DEF Concludes, Outcomes

(* The steps between two deliveries. *)
LEMMA WorkingSteps ==
  ASSUME IInv, NEW c \in Reads,
         \/ Trailers(c) \/ DecodedData(c) \/ StepOther(c) \/ Resume(c) \/ DecodeBody(c)
         \/ DecodedEnd(c)
         \/ terminal = "none" /\ (DecodeOpen(c) \/ \E event \in Events : Frame(c, event))
  PROVE  Works(c)
<1> USE DEF IInv
<1>1. /\ UNCHANGED <<terminal, hasBody, hasDecoder, permit, registered, readTask,
                     readInProgress, deferred, finished, call, result, aborted, reply, ready,
                     decodedMode, iterated, async, got, notifyDue, found>>
      /\ Active(c) /\ task[c] # "gated"
  BY DEF Trailers, DecodedData, StepOther, Resume, DecodeBody, DecodedEnd, DecodeOpen, Frame,
         fieldVars, callVars, loopVars, bodyVars, modeVars, Active, Working
<1>2. PICK step \in Working \ {"gated"} : /\ TaskTo(c, step)
                                          /\ step \in Decoding => decodedMode
                                          /\ step = "end" => ended'
  <2>1. CASE Trailers(c) \/ DecodedData(c) \/ StepOther(c) \/ Resume(c) \/ DecodeBody(c) \/ DecodedEnd(c)
             \/ (terminal = "none" /\ DecodeOpen(c))
    <3>1. \/ /\ task[c] \in Decoding \/ decodedMode
             /\ \E step \in Decoding \cup {"read"} : TaskTo(c, step)
          \/ TaskTo(c, IF decodedMode THEN "decode" ELSE "read")
      BY <2>1 DEF Trailers, DecodedData, StepOther, Resume, DecodeBody, DecodedEnd, DecodeOpen, Decoding
    <3>2. task[c] \in Decoding => decodedMode
      BY DEF FrameInv
    <3> QED
      BY <3>1, <3>2 DEF Decoding, Working
  <2>2. ASSUME NEW event \in Events, Frame(c, event), terminal = "none"
        PROVE  TaskTo(c, event) /\ event \in Working \ {"gated"} /\ event \notin Decoding
               /\ (event = "end" => ended')
    BY <2>2 DEF Frame, Events, Working, Decoding
  <2> QED
    BY <2>1, <2>2
<1>3. /\ task' \in [Reads -> TaskSteps] /\ task'[c] = step
      /\ \A d \in Reads \ {c} : task'[d] = task[d]
  BY <1>2 DEF TaskTo, TypeInv, TaskSteps
<1>4. /\ guard' \in [Reads -> SUBSET {"body", "decoder", "error"}]
      /\ \A d \in Reads \ {c} : guard'[d] = guard[d]
      /\ guard'[c] \subseteq guard[c] /\ ("body" \in guard[c] => "body" \in guard'[c] \/ ended')
      /\ transport' = transport \/ (transport' = "clean" /\ ended' /\ terminal = "none")
      /\ ended' \in BOOLEAN /\ (ended => ended')
  <2>1. CASE UNCHANGED <<guard, transport, ended>>
    BY <2>1 DEF TypeInv
  <2>2. CASE TransportEnd(c) /\ ended' = TRUE
    BY <2>2 DEF TransportEnd, TypeInv
  <2>3. CASE DecodedEnd(c)
    <3>1. TransportEnd(c) /\ task[c] = "end" /\ UNCHANGED ended
      BY <2>3 DEF DecodedEnd, bodyVars
    <3>2. ended = TRUE
      BY <3>1 DEF CleanInv, TypeInv
    <3> QED
      BY <2>2, <3>1, <3>2
  <2>4. CASE DecodeBody(c)
    BY <2>1, <2>2, <2>4 DEF DecodeBody
  <2>5. ASSUME NEW event \in Events, Frame(c, event), terminal = "none"
        PROVE  /\ UNCHANGED <<guard, transport>> /\ ended' \in BOOLEAN /\ (ended => ended')
    BY <2>5 DEF Frame, TypeInv, fieldVars
  <2>6. CASE Trailers(c) \/ DecodedData(c) \/ StepOther(c) \/ Resume(c) \/ (terminal = "none" /\ DecodeOpen(c))
    BY <2>1, <2>6 DEF Trailers, DecodedData, StepOther, Resume, DecodeOpen, fieldVars, bodyVars
  <2> QED
    BY <2>3, <2>4, <2>5, <2>6 DEF TypeInv
<1>5. /\ \/ /\ UNCHANGED <<consumed, held>> /\ step # "data" /\ (task[c] = "data" => decodedMode)
         \/ /\ task[c] # "data" /\ step = "data" /\ consumed' = consumed + 1 /\ consumed < MaxFrames
            /\ held' = IF decodedMode THEN held + 1 ELSE held
      /\ trailed' \in BOOLEAN
  <2>1. CASE Trailers(c) \/ DecodedData(c) \/ StepOther(c) \/ Resume(c) \/ DecodeBody(c) \/ DecodedEnd(c)
             \/ (terminal = "none" /\ DecodeOpen(c))
    <3>1. UNCHANGED <<consumed, held, trailed>> /\ (task[c] = "data" => decodedMode)
      BY <2>1 DEF Trailers, DecodedData, StepOther, Resume, DecodeBody, DecodedEnd, DecodeOpen, bodyVars
    <3>2. task'[c] \in Decoding \cup {"read"}
      BY <1>3, <2>1 DEF Trailers, DecodedData, StepOther, Resume, DecodeBody, DecodedEnd, DecodeOpen,
                        Decoding, TaskTo, TypeInv
    <3> QED
      BY <1>3, <3>1, <3>2 DEF Decoding, TypeInv
  <2>2. ASSUME NEW event \in Events, Frame(c, event), terminal = "none"
        PROVE  /\ \/ /\ UNCHANGED <<consumed, held>> /\ step # "data" /\ (task[c] = "data" => decodedMode)
                  \/ /\ task[c] # "data" /\ step = "data" /\ consumed' = consumed + 1 /\ consumed < MaxFrames
                     /\ held' = IF decodedMode THEN held + 1 ELSE held
               /\ trailed' \in BOOLEAN
    <3>1. step = event /\ task[c] = "read"
      BY <1>3, <2>2 DEF Frame, TaskTo, TypeInv
    <3> QED
      BY <2>2, <3>1 DEF Frame, TypeInv
  <2> QED
    BY <2>1, <2>2
<1>6. consumed' \in 0 .. MaxFrames /\ held' \in 0 .. MaxFrames
  BY <1>5, StreamAssumption DEF TypeInv, FrameInv
<1>7. transport' \in {"open", "clean", "aborted"}
  BY <1>4 DEF TypeInv
<1>8. TypeInv'
  BY <1>1, <1>3, <1>4, <1>5, <1>6, <1>7 DEF TypeInv
<1>9. TaskOnly(c)
  BY <1>1, <1>3, <1>4, <1>8 DEF TaskOnly
<1> QED
  BY <1>1, <1>2, <1>3, <1>4, <1>5, <1>9 DEF Works

(* The steps that deliver a chunk. *)
LEMMA DataSteps ==
  ASSUME IInv, NEW c \in Reads, RawData(c) \/ (terminal = "none" /\ StepOutput(c))
  PROVE  Concludes(c) \/ HandsOver(c)
<1> USE DEF IInv
<1>1. /\ UNCHANGED <<readInProgress, call, result, aborted, reply, ready, trailed, decodedMode,
                     iterated, async, got>>
      /\ Active(c) /\ task[c] # "gated" /\ Drops(c)
  BY DEF RawData, StepOutput, callVars, loopVars, modeVars, Active, Working
<1>2. /\ consumed \in 0 .. MaxFrames /\ held \in 0 .. MaxFrames /\ MaxFrames \in Nat
      /\ held <= consumed /\ (~decodedMode => held = 0)
  BY StreamAssumption DEF TypeInv, FrameInv
<1>3. terminal # "success"
  BY <1>1 DEF FrameInv
<1>4. CASE terminal = "none" /\ StepOutput(c)
  <2>1. /\ UNCHANGED <<terminal, transport, permit, registered, readTask, deferred, finished,
                       notifyDue, consumed, ended>>
        /\ held > 0 /\ held' = held - 1 /\ task[c] = "step"
        /\ hasBody' = ("body" \in guard[c]) /\ hasDecoder' = TRUE
        /\ Deliver(c, Chunk(Out + 1, Out + 1))
    BY <1>4 DEF StepOutput, Out
  <2>2. Out + 1 \in 1 .. MaxFrames
    BY <1>2, <2>1 DEF Out
  <2>3. Chunk(Out + 1, Out + 1) \in Replies /\ Chunk(Out + 1, Out + 1).kind = "chunk"
    BY <2>2, ReplyKinds
  <2>4. PICK w \in Replies : w = Chunk(Out + 1, Out + 1)
    BY <2>3
  <2>5. /\ task' \in [Reads -> TaskSteps] /\ task'[c] = "deliver"
        /\ guard' \in [Reads -> SUBSET {"body", "decoder", "error"}] /\ guard'[c] = {}
        /\ found' \in [Reads -> Replies] /\ found'[c] = w
        /\ \A d \in Reads \ {c} : task'[d] = task[d] /\ guard'[d] = guard[d] /\ found'[d] = found[d]
    BY <1>1, <2>1, <2>4, Delivering
  <2>6. held' \in 0 .. MaxFrames
    BY <1>2, <2>1
  <2>7. decodedMode
    BY <2>1 DEF FrameInv, Decoding
  <2>8. TypeInv'
    BY <1>1, <2>1, <2>5, <2>6 DEF TypeInv
  <2>9. TaskOnly(c)
    BY <1>1, <2>1, <2>5, <2>8 DEF TaskOnly
  <2> QED
    BY <1>4, <2>1, <2>3, <2>4, <2>5, <2>7, <2>9 DEF HandsOver
<1>5. CASE RawData(c)
  <2>1. PICK n \in 0 .. MaxFrames, stop \in {"stopped", "end", "failure"} :
          /\ n = 0 \/ consumed + n <= MaxFrames
          /\ consumed' = consumed + n
          /\ Deliver(c, Coalesced(n))
          /\ ended' = (ended \/ stop = "end")
          /\ stop = "end" => Finish("success", FALSE) /\ UNCHANGED deferred
          /\ stop # "end" => /\ CompleteRead(c, stop = "failure")
                             /\ UNCHANGED <<terminal, registered, readTask, notifyDue, hasDecoder,
                                            transport, permit, finished>>
    <3>1. PICK drain \in Drains(c) :
            /\ consumed' = consumed + drain[1]
            /\ Deliver(c, Coalesced(drain[1]))
            /\ ended' = (ended \/ drain[2] = "end")
            /\ IF drain[2] = "end"
               THEN Finish("success", FALSE) /\ UNCHANGED deferred
               ELSE /\ CompleteRead(c, drain[2] = "failure")
                    /\ UNCHANGED <<terminal, registered, readTask, notifyDue, hasDecoder,
                                   transport, permit, finished>>
      BY <1>5 DEF RawData
    <3>2. /\ drain[1] \in 0 .. MaxFrames /\ drain[2] \in {"stopped", "end", "failure"}
          /\ drain[1] = 0 \/ consumed + drain[1] <= MaxFrames
      BY DEF Drains
    <3> QED
      BY <3>1, <3>2
  <2>2. ~decodedMode /\ task[c] = "data" /\ UNCHANGED held
    BY <1>5 DEF RawData
  <2>3. consumed \in 1 .. MaxFrames
    BY <1>2, <2>2 DEF FrameInv
  <2>4. consumed' \in 1 .. MaxFrames /\ consumed <= consumed'
    BY <2>1, <2>3, <1>2
  <2>5. /\ Coalesced(n) = Chunk(consumed, consumed')
        /\ Coalesced(n) \in Replies /\ Coalesced(n).kind = "chunk"
    BY <2>1, <2>3, <2>4, ReplyKinds DEF Coalesced
  <2>6. PICK w \in Replies : w = Coalesced(n)
    BY <2>5
  <2>7. /\ task' \in [Reads -> TaskSteps] /\ task'[c] = "deliver"
        /\ guard' \in [Reads -> SUBSET {"body", "decoder", "error"}] /\ guard'[c] = {}
        /\ found' \in [Reads -> Replies] /\ found'[c] = w
        /\ \A d \in Reads \ {c} : task'[d] = task[d] /\ guard'[d] = guard[d] /\ found'[d] = found[d]
    BY <1>1, <2>1, <2>6, Delivering
  <2>8. consumed' \in 0 .. MaxFrames /\ held' \in 0 .. MaxFrames /\ ended' \in BOOLEAN
    BY <1>2, <2>1, <2>2, <2>4 DEF TypeInv
  <2>9. CASE stop # "end"
    <3>1. /\ UNCHANGED <<terminal, registered, readTask, notifyDue, hasDecoder, transport, permit,
                         finished, ended>>
          /\ hasBody' \in BOOLEAN /\ deferred' \in BOOLEAN
          /\ terminal # "none" => UNCHANGED <<hasBody, hasDecoder>>
      BY <2>1, <2>9 DEF CompleteRead, TypeInv
    <3>2. TypeInv'
      BY <1>1, <2>7, <2>8, <3>1 DEF TypeInv
    <3>3. TaskOnly(c)
      BY <1>1, <2>7, <3>1, <3>2 DEF TaskOnly
    <3> QED
      BY <1>1, <2>2, <2>4, <2>5, <2>6, <2>7, <3>1, <3>3 DEF HandsOver
  <2>10. CASE stop = "end"
    <3>1. Finish("success", FALSE) /\ UNCHANGED deferred /\ ended' = TRUE
      BY <2>1, <2>10
    <3>2. /\ terminal' # "none" /\ EndInv' /\ terminal' \in Finishes
          /\ hasBody' \in BOOLEAN /\ hasDecoder' \in BOOLEAN
          /\ transport' \in {"open", "clean", "aborted"}
          /\ permit' \in BOOLEAN /\ registered' \in BOOLEAN
          /\ readTask' \in Reads \cup {NoRead} /\ notifyDue' = notifyDue
      BY <3>1, FinishFacts DEF Finishes
    <3>3. TypeInv'
      BY <1>1, <2>7, <2>8, <3>1, <3>2 DEF TypeInv
    <3>4. TaskOnly(c)
      BY <1>1, <2>7, <3>1, <3>2, <3>3 DEF TaskOnly
    <3>5. held = 0 /\ held' <= consumed'
      BY <1>2, <2>2, <2>4
    <3> QED
      BY <1>1, <2>2, <2>4, <2>5, <2>6, <2>7, <3>1, <3>2, <3>4, <3>5 DEF Concludes, Outcomes
  <2> QED
    BY <2>9, <2>10
<1> QED
  BY <1>4, <1>5

--------------------------------------------------------------------------------
(* What a step of a read task preserves. *)

TaskStep(c) == Works(c) \/ Concludes(c) \/ HandsOver(c)

(* Whatever its shape, a task's step leaves it working or delivering, and a  *)
(* stream that has ended stays so.                                           *)
LEMMA TaskFacts ==
  ASSUME IInv, NEW c \in Reads, TaskStep(c)
  PROVE  /\ TaskOnly(c)
         /\ terminal # "none" => terminal' # "none"
         /\ call[c] \notin {"idle", "register", "start"} /\ reply[c].kind \notin Outcomes
         /\ result[c] \notin {"chunk", "eof"}
         /\ \/ task'[c] \in Working \ {"gated"} /\ found'[c] = found[c] /\ Works(c)
            \/ /\ task'[c] = "deliver" /\ found'[c].kind \in Outcomes /\ guard'[c] = {}
               /\ Concludes(c) \/ HandsOver(c)
  <1>1. TaskOnly(c)
    BY DEF TaskStep, Works, Concludes, HandsOver
  <1>2. ReadInv(c) /\ (result[c] \in {"chunk", "eof"} => ~Active(c))
    BY DEF IInv, GapInv
  <1>3. terminal # "none" => terminal' # "none"
    BY DEF TaskStep, Works, Concludes, HandsOver
  <1>4. /\ call[c] \notin {"idle", "register", "start"} /\ reply[c].kind \notin Outcomes
        /\ result[c] \notin {"chunk", "eof"}
    BY <1>1, <1>2 DEF TaskOnly, ReadInv, Active, Working
  <1>5. \/ task'[c] \in Working \ {"gated"} /\ found'[c] = found[c] /\ Works(c)
        \/ /\ task'[c] = "deliver" /\ found'[c].kind \in Outcomes /\ guard'[c] = {}
           /\ Concludes(c) \/ HandsOver(c)
    BY DEF TaskStep, Works, Concludes, HandsOver, Outcomes
  <1> QED
    BY <1>1, <1>3, <1>4, <1>5

(* Each read's bookkeeping. *)
LEMMA TaskReads ==
  ASSUME IInv, NEW c \in Reads, TaskStep(c), NEW d \in Reads
  PROVE  ReadInv(d)'
<1>1. ReadInv(d)
  BY DEF IInv
<1>2. /\ UNCHANGED <<call, result, reply, async, notifyDue>>
      /\ terminal # "none" => terminal' # "none"
      /\ Active(c) /\ task[c] # "gated"
  BY TaskFacts DEF TaskOnly
<1>3. CASE d # c
  <2>1. task'[d] = task[d] /\ found'[d] = found[d]
    BY <1>3, TaskFacts DEF TaskOnly
  <2> QED
    BY <1>1, <1>2, <2>1 DEF ReadInv, Active, Reader
<1>4. CASE d = c
  <2>1. /\ call[c] \notin {"idle", "register", "start"} /\ reply[c].kind \notin Outcomes
        /\ \/ task'[c] \in Working \ {"gated"} /\ found'[c] = found[c]
           \/ task'[c] = "deliver" /\ found'[c].kind \in Outcomes
    BY TaskFacts
  <2>2. "deliver" \notin Working /\ "done" \notin Working /\ "none" \notin Working
    BY DEF Working
  <2> QED
    BY <1>1, <1>2, <1>4, <2>1, <2>2 DEF ReadInv, Active, Reader
<1> QED
  BY <1>3, <1>4

(* The flag, the owner of the body and the outcome. *)
LEMMA TaskFields ==
  ASSUME IInv, NEW c \in Reads, TaskStep(c)
  PROVE  BusyInv' /\ OwnerInv' /\ EndInv'
<1>1. /\ UNCHANGED <<call, readInProgress>> /\ (terminal # "none" => terminal' # "none")
      /\ Active(c)
      /\ \A d \in Reads \ {c} : task'[d] = task[d] /\ guard'[d] = guard[d]
  BY TaskFacts DEF TaskOnly
<1>2. BusyInv'
  BY <1>1 DEF IInv, BusyInv, Reader
<1>3. EndInv'
  BY DEF TaskStep, Works, Concludes, HandsOver, IInv, EndInv
<1>4. \A d \in Reads \ {c} : ~Active(d) /\ guard[d] = {}
  BY <1>1 DEF IInv, OwnerInv
<1>5. \A d \in Reads \ {c} : ~Active(d)' /\ guard'[d] = {}
  BY <1>1, <1>4 DEF Active
<1>6. /\ guard'[c] # {} => Active(c)'
      /\ "body" \in guard'[c] => ~hasBody'
      /\ "decoder" \in guard'[c] => ~hasDecoder'
  BY TaskFacts DEF Works, IInv, OwnerInv, Active
<1>7. OwnerInv'
  BY <1>5, <1>6 DEF OwnerInv
<1> QED
  BY <1>2, <1>3, <1>7

(* Where the body is, and what has gone through the decoder. *)
LEMMA TaskBody ==
  ASSUME IInv, NEW c \in Reads, TaskStep(c)
  PROVE  CleanInv' /\ FrameInv'
<1>1. /\ UNCHANGED decodedMode /\ (terminal # "none" => terminal' # "none") /\ Active(c)
      /\ \A d \in Reads \ {c} : task'[d] = task[d] /\ guard'[d] = guard[d]
      /\ ended => ended'
  BY TaskFacts DEF TaskOnly
<1>2. \A d \in Reads \ {c} : ~Active(d) /\ guard[d] = {}
  BY <1>1 DEF IInv, OwnerInv
<1>3. \A d \in Reads \ {c} : ~Active(d)' /\ guard'[d] = {}
  BY <1>1, <1>2 DEF Active
<1>4. transport' = "clean" => ended'
  BY <1>1 DEF TaskStep, Works, Concludes, HandsOver, IInv, CleanInv
<1>5. \A d \in Reads : task'[d] = "end" => ended'
  <2>1. task'[c] = "end" => ended'
    BY TaskFacts DEF Works
  <2> QED
    BY <1>3, <2>1 DEF Active, Working
<1>6. ASSUME decodedMode, terminal' = "none"
      PROVE  /\ ~deferred'
             /\ \A d \in Reads : Active(d)' => ~hasBody'
             /\ ended' \/ hasBody' \/ \E d \in Reads : "body" \in guard'[d]
  <2>1. terminal = "none" /\ ~deferred /\ ~hasBody /\ (ended \/ "body" \in guard[c])
    BY <1>1, <1>2, <1>6 DEF IInv, CleanInv
  <2>2. CASE Works(c)
    BY <1>1, <2>1, <2>2 DEF Works
  <2>3. CASE HandsOver(c)
    <3>1. task'[c] = "deliver" /\ UNCHANGED deferred /\ hasBody' = ("body" \in guard[c])
      BY <1>6, <2>3 DEF HandsOver
    <3>2. ~Active(c)'
      BY <3>1 DEF Active, Working
    <3> QED
      BY <1>1, <1>3, <2>1, <3>1, <3>2
  <2> QED
    BY <1>6, <2>2, <2>3 DEF TaskStep, Concludes
<1>7. CleanInv'
  BY <1>1, <1>4, <1>5, <1>6 DEF CleanInv
<1>8. /\ consumed \in Nat /\ held \in Nat /\ consumed' \in Nat /\ held' \in Nat
      /\ held <= consumed /\ (~decodedMode => held = 0)
  BY TaskFacts, StreamAssumption DEF TaskOnly, IInv, TypeInv, FrameInv
<1>9. held' <= consumed' /\ (~decodedMode => held' = 0)
  <2>1. CASE Works(c)
    BY <1>8, <2>1 DEF Works
  <2>2. CASE Concludes(c)
    BY <1>8, <2>2 DEF Concludes
  <2>3. CASE HandsOver(c)
    BY <1>8, <2>3 DEF HandsOver
  <2> QED
    BY <2>1, <2>2, <2>3 DEF TaskStep
<1>10. (task'[c] \in Decoding => decodedMode) /\ (task'[c] = "data" => consumed' > 0)
  <2>1. CASE Works(c)
    <3>1. task[c] = "data" => consumed > 0
      BY DEF IInv, FrameInv
    <3> QED
      BY <1>8, <2>1, <3>1 DEF Works
  <2>2. CASE task'[c] = "deliver"
    BY <2>2 DEF Decoding
  <2> QED
    BY TaskFacts, <2>1, <2>2
<1>11. \A d \in Reads : (task'[d] \in Decoding => decodedMode) /\ (task'[d] = "data" => consumed' > 0)
  BY <1>3, <1>10 DEF Active, Working, Decoding
<1>12. ASSUME terminal' = "success" PROVE held' = 0 /\ \A d \in Reads : ~Active(d)'
  <2>1. terminal # "success"
    BY <1>1 DEF IInv, FrameInv
  <2>2. Concludes(c)
    BY <1>12, <2>1 DEF TaskStep, Works, HandsOver
  <2>3. held' = 0 /\ task'[c] = "deliver"
    BY <1>12, <2>2 DEF Concludes
  <2> QED
    BY <1>3, <2>3 DEF Active, Working
<1>13. FrameInv'
  BY <1>1, <1>9, <1>11, <1>12 DEF FrameInv
<1> QED
  BY <1>7, <1>13

(* The callbacks in the queue. *)
LEMMA TaskQueue ==
  ASSUME IInv, NEW c \in Reads, TaskStep(c)
  PROVE  QueueInv'
<1>1. /\ UNCHANGED <<call, reply, ready, async>> /\ (terminal # "none" => terminal' # "none")
      /\ Active(c)
      /\ \A d \in Reads \ {c} : task'[d] = task[d] /\ found'[d] = found[d]
  BY TaskFacts DEF TaskOnly
<1>2. ASSUME NEW i \in 1 .. Len(ready) PROVE Queued(ready[i])'
  <2>1. Queued(ready[i]) /\ ready[i][2] \in Reads
    BY DEF IInv, QueueInv, TypeInv, Queued
  <2>2. ready[i][1] = "set" => ready[i][2] # c
    BY <1>1, <2>1 DEF Queued, Active, Working
  <2> QED
    BY <1>1, <2>1, <2>2 DEF Queued
<1> QED
  BY <1>1, <1>2 DEF IInv, QueueInv

(* The frames on their way: what the task found is what comes after the      *)
(* frames the iterator has.                                                  *)
LEMMA TaskGap ==
  ASSUME IInv, NEW c \in Reads, TaskStep(c)
  PROVE  GapInv'
<1>1. /\ UNCHANGED <<call, result, got, iterated, decodedMode>> /\ Active(c)
      /\ \A d \in Reads \ {c} : task'[d] = task[d]
      /\ result[c] \notin {"chunk", "eof"} /\ call[c] # "idle"
  BY TaskFacts DEF TaskOnly
<1>2. \A d \in Reads : /\ result'[d] = "chunk" => call'[d] = "returned"
                       /\ result'[d] \in {"chunk", "eof"} => ~Active(d)'
  BY <1>1 DEF IInv, GapInv, Active
<1>3. \A d \in Reads : Pending(d)' <=> Pending(d)
  BY <1>1 DEF Pending
<1>4. Pending(c)
  BY <1>1 DEF Pending
<1>5. ASSUME iterated PROVE FlightInv(c)'
  <2>1. got = 1 .. (IF task[c] = "data" /\ ~decodedMode THEN Out - 1 ELSE Out)
    BY <1>1, <1>4, <1>5 DEF IInv, GapInv, FlightInv
  <2>2. /\ consumed \in Nat /\ held \in Nat /\ consumed' \in Nat /\ held' \in Nat
        /\ MaxFrames \in Nat /\ consumed <= MaxFrames /\ consumed' <= MaxFrames
        /\ held <= consumed /\ (~decodedMode => held = 0)
        /\ task[c] = "data" => consumed > 0
    BY TaskFacts, StreamAssumption DEF TaskOnly, IInv, TypeInv, FrameInv
  <2>3. result'[c] # "eof" /\ got' = got
    BY <1>1
  <2>4. CASE Works(c)
    <3>1. task'[c] \in Working
      BY <2>4 DEF Works
    <3>2. ~Sent(c)'
      BY <3>1 DEF Sent, Working
    <3>3. /\ Out' = consumed' - held' /\ Out = consumed - held
      BY DEF Out
    <3>4. got = 1 .. (IF task'[c] = "data" /\ ~decodedMode THEN Out' - 1 ELSE Out')
      <4>1. CASE UNCHANGED <<consumed, held>> /\ task'[c] # "data" /\ (task[c] = "data" => decodedMode)
        BY <2>1, <3>3, <4>1
      <4>2. CASE /\ task[c] # "data" /\ task'[c] = "data" /\ consumed' = consumed + 1
                 /\ held' = IF decodedMode THEN held + 1 ELSE held
        <5>1. Out = IF decodedMode THEN Out' ELSE Out' - 1
          BY <2>2, <3>3, <4>2
        <5> QED
          BY <2>1, <4>2, <5>1
      <4> QED
        BY <2>4, <4>1, <4>2 DEF Works
    <3> QED
      BY <1>1, <2>3, <3>2, <3>4 DEF FlightInv
  <2>5. CASE ~Works(c)
    <3>1. task'[c] = "deliver" /\ (Concludes(c) \/ HandsOver(c))
      BY <2>5, TaskFacts
    <3>2. ~Active(c)'
      BY <3>1 DEF Active, Working
    <3>3. ASSUME found'[c].kind = "chunk"
          PROVE  /\ got = 1 .. found'[c].from - 1
                 /\ found'[c].to = Out' /\ found'[c].from <= Out'
      <4>1. CASE ~decodedMode
        <5>1. /\ task[c] = "data" /\ consumed <= consumed' /\ held' = held
              /\ found'[c] = Chunk(consumed, consumed')
          BY <3>1, <3>3, <4>1 DEF Concludes, HandsOver
        <5>2. found'[c].from = consumed /\ found'[c].to = consumed'
          BY <5>1 DEF Chunk
        <5>3. Out = consumed /\ Out' = consumed'
          <6>1. held = 0 /\ held' = 0
            BY <2>2, <4>1, <5>1
          <6>2. PICK m \in Nat, n \in Nat : m = consumed /\ n = consumed'
            BY <2>2
          <6>3. m - 0 = m /\ n - 0 = n
            OBVIOUS
          <6> QED
            BY <6>1, <6>2, <6>3 DEF Out
        <5> QED
          BY <2>1, <4>1, <5>1, <5>2, <5>3
      <4>2. CASE decodedMode
        <5>1. HandsOver(c)
          BY <3>1, <3>3, <4>2 DEF Concludes
        <5>2. /\ consumed' = consumed /\ held > 0 /\ held' = held - 1
              /\ found'[c] = Chunk(Out + 1, Out + 1)
          BY <4>2, <5>1 DEF HandsOver
        <5>3. found'[c].from = Out + 1 /\ found'[c].to = Out + 1
          BY <5>2 DEF Chunk
        <5>4. Out' = Out + 1 /\ Out \in Int
          BY <2>2, <5>2 DEF Out
        <5> QED
          BY <2>1, <4>2, <5>3, <5>4
      <4> QED
        BY <4>1, <4>2
    <3>4. ASSUME found'[c].kind = "eof", terminal' = "success"
          PROVE  got = 1 .. consumed'
      <4>1. Concludes(c)
        BY <3>1, <3>4 DEF HandsOver
      <4>2. found'[c] # Chunk(consumed, consumed')
        BY <3>4 DEF Chunk
      <4>3. consumed' = consumed /\ (task[c] = "data" => decodedMode) /\ held = 0
        BY <3>4, <4>1, <4>2 DEF Concludes
      <4>4. Out = consumed
        BY <2>2, <4>3 DEF Out
      <4> QED
        BY <2>1, <4>3, <4>4
    <3> QED
      BY <2>3, <3>2, <3>3, <3>4 DEF FlightInv
  <2> QED
    BY <2>4, <2>5
<1>6. ASSUME iterated
      PROVE  /\ \E n \in 0 .. MaxFrames : got' = 1 .. n
             /\ \A d, e \in Reads : Pending(d)' /\ Pending(e)' => d = e
             /\ \A d \in Reads : Pending(d)' => FlightInv(d)'
             /\ (\A d \in Reads : ~Pending(d)') => got' = 1 .. Out'
  <2>1. /\ \E n \in 0 .. MaxFrames : got = 1 .. n
        /\ \A d, e \in Reads : Pending(d) /\ Pending(e) => d = e
    BY <1>6 DEF IInv, GapInv
  <2>2. \A d \in Reads : Pending(d) => d = c
    BY <1>4, <2>1
  <2>3. \E n \in 0 .. MaxFrames : got' = 1 .. n
    BY <1>1, <2>1
  <2>4. \A d \in Reads : Pending(d)' => FlightInv(d)'
    BY <1>3, <1>5, <1>6, <2>2
  <2> QED
    BY <1>3, <1>4, <2>1, <2>3, <2>4
<1> QED
  BY <1>1, <1>2, <1>6 DEF GapInv

(* Together. *)
LEMMA TaskKeeps ==
  ASSUME IInv, NEW c \in Reads, TaskStep(c)
  PROVE  IInv'
  BY TaskFacts, TaskReads, TaskFields, TaskBody, TaskQueue, TaskGap DEF IInv, TaskOnly

--------------------------------------------------------------------------------
(* The other steps leave the body where it is.  They may finish the stream,  *)
(* but never with a success.                                                 *)

FinishOrNot ==
  \/ UNCHANGED <<terminal, hasBody, hasDecoder, transport, permit, registered, finished>>
  \/ \E outcome \in {"closed", "cancelled", "error"}, abortRead \in BOOLEAN : Finish(outcome, abortRead)

Steady ==
  /\ FinishOrNot
  /\ UNCHANGED <<deferred, consumed, held, ended, decodedMode>>
  /\ \A d \in Reads : /\ guard'[d] \subseteq guard[d] /\ (guard'[d] # {} => Active(d)')
                      /\ Active(d)' => Active(d)
                      /\ task'[d] \in {"end", "data"} => task'[d] = task[d]
                      /\ task'[d] \in Decoding => decodedMode
  /\ terminal' = "none" => UNCHANGED guard

(* How the stream ends there. *)
LEMMA EndFacts ==
  ASSUME IInv, FinishOrNot
  PROVE  /\ EndInv' /\ (terminal # "none" => terminal' # "none")
         /\ terminal' = "none" =>
              UNCHANGED <<terminal, hasBody, hasDecoder, transport, permit, registered, finished>>
         /\ terminal' = "success" => terminal = "success"
         /\ transport' = "clean" => transport = "clean"
         /\ (hasBody' => hasBody) /\ (hasDecoder' => hasDecoder)
         /\ terminal' \in Finishes /\ hasBody' \in BOOLEAN /\ hasDecoder' \in BOOLEAN
         /\ transport' \in {"open", "clean", "aborted"}
         /\ permit' \in BOOLEAN /\ registered' \in BOOLEAN
<1>1. CASE UNCHANGED <<terminal, hasBody, hasDecoder, transport, permit, registered, finished>>
  BY <1>1 DEF IInv, EndInv, TypeInv
<1>2. ASSUME NEW outcome \in {"closed", "cancelled", "error"}, NEW abortRead \in BOOLEAN,
             Finish(outcome, abortRead)
      PROVE  /\ EndInv' /\ terminal' # "none"
             /\ terminal' = "success" => terminal = "success"
             /\ transport' = "clean" => transport = "clean"
             /\ (hasBody' => hasBody) /\ (hasDecoder' => hasDecoder)
             /\ terminal' \in Finishes /\ hasBody' \in BOOLEAN /\ hasDecoder' \in BOOLEAN
             /\ transport' \in {"open", "clean", "aborted"}
             /\ permit' \in BOOLEAN /\ registered' \in BOOLEAN
  <2>1. outcome \in Finishes \ {"none"}
    BY DEF Finishes
  <2>2. /\ terminal' # "none" /\ EndInv' /\ terminal' \in Finishes
        /\ hasBody' \in BOOLEAN /\ hasDecoder' \in BOOLEAN
        /\ transport' \in {"open", "clean", "aborted"}
        /\ permit' \in BOOLEAN /\ registered' \in BOOLEAN
        /\ terminal # "none" => UNCHANGED <<terminal, transport, hasBody, hasDecoder>>
        /\ terminal = "none" => terminal' = outcome
        /\ terminal = "none" /\ transport' = "clean" => transport = "clean" \/ outcome = "success"
    BY <1>2, <2>1, FinishFacts DEF IInv
  <2>3. ~hasBody' /\ ~hasDecoder'
    BY <2>2 DEF EndInv
  <2> QED
    BY <2>2, <2>3
<1> QED
  BY <1>1, <1>2 DEF FinishOrNot

(* The owner of the body, the outcome and the frames. *)
LEMMA SteadyKeeps ==
  ASSUME IInv, Steady
  PROVE  OwnerInv' /\ EndInv' /\ CleanInv' /\ FrameInv'
<1>1. /\ EndInv' /\ (terminal # "none" => terminal' # "none")
      /\ terminal' = "none" => UNCHANGED <<terminal, hasBody, hasDecoder, transport>>
      /\ terminal' = "success" => terminal = "success"
      /\ transport' = "clean" => transport = "clean"
      /\ (hasBody' => hasBody) /\ (hasDecoder' => hasDecoder)
  BY EndFacts DEF Steady
<1>2. OwnerInv'
  BY <1>1 DEF IInv, OwnerInv, Steady
<1>3. CleanInv'
  BY <1>1 DEF IInv, CleanInv, Steady
<1>4. FrameInv'
  BY <1>1 DEF IInv, FrameInv, Steady
<1> QED
  BY <1>1, <1>2, <1>3, <1>4

(* What a callback in the queue relies on. *)
QueueSteady ==
  /\ async \subseteq async' /\ (terminal # "none" => terminal' # "none")
  /\ \A d \in async : /\ task[d] = "done" => task'[d] = "done" /\ found'[d] = found[d]
                      /\ call[d] \in {"wait", "unwatched"} /\ reply[d].kind \in Outcomes \cup {"cancelled"}
                           => call'[d] = call[d] /\ reply'[d] = reply[d]

(* The queue as it is, and with one more callback. *)
LEMMA QueueKeeps ==
  ASSUME IInv, QueueSteady, TypeInv',
         \/ ready' = ready
         \/ \E op \in Ops : /\ ready' = Append(ready, op)
                            /\ Queued(op)'
                            /\ op[1] # "done"
  PROVE  QueueInv'
<1>1. ready \in Seq(Ops) /\ Len(ready) \in Nat
  BY DEF IInv, TypeInv
<1>2. ASSUME NEW op, Queued(op) PROVE Queued(op)'
  BY <1>2 DEF Queued, QueueSteady
<1>3. \A i \in 1 .. Len(ready) : Queued(ready[i])
  BY DEF IInv, QueueInv
<1>4. CASE ready' = ready
  <2>1. ASSUME NEW i \in 1 .. Len(ready) PROVE Queued(ready[i])'
    <3>1. PICK op : op = ready[i]
      OBVIOUS
    <3>2. Queued(op)'
      BY <1>2, <1>3, <3>1
    <3> QED
      BY <1>4, <3>1, <3>2 DEF Queued
  <2> QED
    BY <1>4, <2>1 DEF IInv, QueueInv
<1>5. ASSUME NEW op \in Ops, ready' = Append(ready, op), Queued(op)', op[1] # "done"
      PROVE  QueueInv'
  <2>1. /\ Len(ready') = Len(ready) + 1
        /\ \A i \in 1 .. Len(ready) : ready'[i] = ready[i]
        /\ ready'[Len(ready) + 1] = op
    BY <1>1, <1>5
  <2>2. ASSUME NEW i \in 1 .. Len(ready') PROVE Queued(ready[i])'
    <3>1. PICK p : p = ready'[i]
      OBVIOUS
    <3>2. i \in 1 .. Len(ready) \/ i = Len(ready) + 1
      BY <1>1, <2>1
    <3>3. CASE i \in 1 .. Len(ready)
      <4>1. p = ready[i]
        BY <2>1, <3>1, <3>3
      <4> QED
        BY <1>2, <1>3, <3>3, <4>1
    <3>4. Queued(p)'
      BY <1>5, <2>1, <3>1, <3>2, <3>3
    <3> QED
      BY <3>1, <3>4 DEF Queued
  <2>3. ASSUME NEW i \in 1 .. Len(ready'), NEW j \in 1 .. Len(ready'), i # j,
               ready'[i][1] = "done", ready'[j][1] = "done"
        PROVE  ready'[i][2] # ready'[j][2]
    <3>1. i \in 1 .. Len(ready) /\ j \in 1 .. Len(ready)
      BY <1>1, <1>5, <2>1, <2>3
    <3> QED
      BY <2>1, <2>3, <3>1 DEF IInv, QueueInv
  <2> QED
    BY <2>2, <2>3 DEF QueueInv
<1> QED
  BY <1>4, <1>5

(* What the iterator relies on. *)
GapSteady ==
  /\ UNCHANGED <<got, iterated, consumed, held, decodedMode>>
  /\ terminal' = "success" => terminal = "success"
  /\ \A d \in Reads :
       /\ call'[d] = "idle" <=> call[d] = "idle"
       /\ result[d] = "chunk" => UNCHANGED <<call[d], result[d]>>
       /\ result'[d] \in {"chunk", "eof"} => result'[d] = result[d]
       /\ Active(d)' => Active(d) /\ (task'[d] = "data" <=> task[d] = "data")
       /\ Sent(d)' => \/ Sent(d) /\ found'[d] = found[d]
                      \/ found'[d] = Nothing

(* The frames on their way. *)
LEMMA GapKeeps ==
  ASSUME IInv, GapSteady
  PROVE  GapInv'
<1>1. \A d \in Reads : Pending(d)' <=> Pending(d)
  BY DEF Pending, GapSteady
<1>2. \A d \in Reads : /\ result'[d] = "chunk" => call'[d] = "returned"
                       /\ result'[d] \in {"chunk", "eof"} => ~Active(d)'
  BY DEF IInv, GapInv, GapSteady
<1>3. Out' = Out
  BY DEF Out, GapSteady
<1>4. ASSUME NEW d \in Reads, FlightInv(d) PROVE FlightInv(d)'
  <2>1. Active(d)' => got' = 1 .. (IF task'[d] = "data" /\ ~decodedMode' THEN Out' - 1 ELSE Out')
    BY <1>3, <1>4 DEF FlightInv, GapSteady
  <2>2. CASE found'[d] = Nothing
    <3>1. found'[d].kind \notin {"chunk", "eof"}
      BY <2>2, ReplyKinds
    <3> QED
      BY <1>4, <2>1, <3>1 DEF FlightInv, GapSteady
  <2>3. CASE Sent(d)' => Sent(d) /\ found'[d] = found[d]
    BY <1>3, <1>4, <2>1, <2>3 DEF FlightInv, GapSteady
  <2> QED
    BY <2>2, <2>3 DEF GapSteady
<1>5. iterated' = iterated /\ got' = got
  BY DEF GapSteady
<1> QED
  BY <1>1, <1>2, <1>3, <1>4, <1>5 DEF IInv, GapInv

--------------------------------------------------------------------------------
(* The steps of callers, closers and dropped tasks. *)

(* A closer. *)
LEMMA CloseKeeps ==
  ASSUME IInv, NEW reason \in {"closed", "cancelled"}, Close(reason)
  PROVE  IInv'
<1>1. /\ Finish(reason, TRUE)
      /\ UNCHANGED <<readInProgress, deferred, call, result, task, guard, found, aborted, reply,
                     ready, consumed, held, ended, trailed, decodedMode, iterated, async, got>>
  BY DEF Close, callVars, taskVars, loopVars, bodyVars, modeVars
<1>2. FinishOrNot
  BY <1>1 DEF FinishOrNot
<1>3. terminal' # "none" /\ readTask' \in Reads \cup {NoRead} /\ notifyDue' \subseteq Reads
  BY <1>1, FinishFacts DEF IInv, Finishes
<1>4. TypeInv'
  BY <1>1, <1>2, <1>3, EndFacts DEF IInv, TypeInv
<1>5. ASSUME NEW d \in Reads PROVE ReadInv(d)'
  <2>1. ReadInv(d)
    BY DEF IInv
  <2> QED
    BY <1>1, <1>3, <2>1 DEF ReadInv, Active, Reader
<1>6. BusyInv'
  BY <1>3 DEF BusyInv
<1>7. Steady
  BY <1>1, <1>2, <1>3 DEF Steady, Active, IInv, OwnerInv, FrameInv
<1>8. QueueInv'
  BY <1>1, <1>3, <1>4, QueueKeeps DEF QueueSteady
<1>9. GapSteady
  BY <1>1, <1>2, EndFacts DEF GapSteady, Active, Sent
<1> QED
  BY <1>4, <1>5, <1>6, <1>7, <1>8, <1>9, SteadyKeeps, GapKeeps DEF IInv

(* abort_and_notify. *)
LEMMA AbortKeeps ==
  ASSUME IInv, NEW c \in Reads, AbortAndNotify(c)
  PROVE  IInv'
<1>1. /\ c \in notifyDue /\ notifyDue' = notifyDue \ {c} /\ aborted' = aborted \cup {c}
      /\ ready' = IF c \in async THEN Append(ready, <<"cancel", c, Nothing>>) ELSE ready
      /\ UNCHANGED <<terminal, hasBody, hasDecoder, transport, permit, registered, readTask,
                     readInProgress, deferred, finished, call, result, task, guard, found,
                     reply, consumed, held, ended, trailed, decodedMode, iterated, async, got>>
  BY DEF AbortAndNotify, ScheduleCancel, fieldVars, callVars, bodyVars, modeVars
<1>2. PICK op : op = <<"cancel", c, Nothing>>
  OBVIOUS
<1>3. op \in Ops /\ op[1] = "cancel" /\ op[2] = c
  BY <1>2, ReplyKinds DEF Ops
<1>4. ready' \in Seq(Ops)
  BY <1>1, <1>2, <1>3 DEF IInv, TypeInv
<1>5. TypeInv'
  BY <1>1, <1>4 DEF IInv, TypeInv
<1>6. terminal # "none"
  BY <1>1 DEF IInv, ReadInv
<1>7. ASSUME NEW d \in Reads PROVE ReadInv(d)'
  <2>1. ReadInv(d)
    BY DEF IInv
  <2> QED
    BY <1>1, <2>1 DEF ReadInv, Active, Reader
<1>8. BusyInv'
  BY <1>1, <1>6 DEF BusyInv
<1>9. Steady
  BY <1>1 DEF Steady, FinishOrNot, Active, IInv, OwnerInv, FrameInv
<1>10. QueueInv'
  <2>1. QueueSteady
    BY <1>1 DEF QueueSteady
  <2>2. CASE c \in async
    <3>1. Queued(op)'
      BY <1>1, <1>3, <1>6, <2>2 DEF Queued
    <3> QED
      BY <1>1, <1>2, <1>3, <1>5, <2>1, <2>2, <3>1, QueueKeeps
  <2>3. CASE c \notin async
    BY <1>1, <1>5, <2>1, <2>3, QueueKeeps
  <2> QED
    BY <2>2, <2>3
<1>11. GapSteady
  BY <1>1 DEF GapSteady, Active, Sent
<1> QED
  BY <1>5, <1>7, <1>8, <1>9, <1>10, <1>11, SteadyKeeps, GapKeeps DEF IInv

(* StreamReadGuard::drop. *)
LEMMA DroppedKeeps ==
  ASSUME IInv, NEW c \in Reads, TaskDropped(c)
  PROVE  IInv'
<1>1. /\ Finish("cancelled", FALSE) /\ Active(c)
      /\ guard' = [guard EXCEPT ![c] = {}] /\ task' = [task EXCEPT ![c] = "done"]
      /\ reply' = IF c \in async \/ reply[c].kind # "pending" THEN reply
                  ELSE [reply EXCEPT ![c] = Only("dropped")]
      /\ UNCHANGED <<readInProgress, deferred, call, result, found, aborted, ready,
                     consumed, held, ended, trailed, decodedMode, iterated, async, got>>
  BY DEF TaskDropped, Drops, TaskTo, callVars, bodyVars, modeVars, Active, Working
<1>2. FinishOrNot
  BY <1>1 DEF FinishOrNot
<1>3. /\ terminal' # "none" /\ readTask' \in Reads \cup {NoRead} /\ notifyDue' = notifyDue
  BY <1>1, FinishFacts DEF IInv, Finishes
<1>4. /\ task \in [Reads -> TaskSteps] /\ guard \in [Reads -> SUBSET {"body", "decoder", "error"}]
      /\ reply \in [Reads -> Replies]
  BY DEF IInv, TypeInv
<1>5. /\ task' \in [Reads -> TaskSteps] /\ guard' \in [Reads -> SUBSET {"body", "decoder", "error"}]
      /\ reply' \in [Reads -> Replies]
  BY <1>1, <1>4, ReplyKinds DEF TaskSteps
<1>6. /\ task'[c] = "done" /\ guard'[c] = {}
      /\ \A d \in Reads \ {c} : task'[d] = task[d] /\ guard'[d] = guard[d] /\ reply'[d] = reply[d]
      /\ \/ reply'[c] = reply[c]
         \/ reply[c].kind = "pending" /\ c \notin async /\ reply'[c].kind = "dropped"
  BY <1>1, <1>4, ReplyKinds
<1>7. TypeInv'
  BY <1>1, <1>2, <1>3, <1>5, EndFacts DEF IInv, TypeInv
<1>8. ASSUME NEW d \in Reads PROVE ReadInv(d)'
  <2>1. ReadInv(d) /\ ReadInv(c)
    BY DEF IInv
  <2>2. CASE d # c
    BY <1>1, <1>3, <1>6, <2>1, <2>2 DEF ReadInv, Active, Reader
  <2>3. CASE d = c
    BY <1>1, <1>3, <1>6, <2>1, <2>3 DEF ReadInv, Active, Reader, Working, Outcomes
  <2> QED
    BY <2>2, <2>3
<1>9. BusyInv'
  BY <1>3 DEF BusyInv
<1>10. Steady
  <2>1. ASSUME NEW d \in Reads
        PROVE  /\ guard'[d] \subseteq guard[d] /\ (guard'[d] # {} => Active(d)')
               /\ Active(d)' => Active(d)
               /\ task'[d] \in {"end", "data"} => task'[d] = task[d]
               /\ task'[d] \in Decoding => decodedMode
    <3>1. (guard[d] # {} => Active(d)) /\ (task[d] \in Decoding => decodedMode)
      BY DEF IInv, OwnerInv, FrameInv
    <3> QED
      BY <1>6, <3>1 DEF Active, Working, Decoding
  <2> QED
    BY <1>1, <1>2, <1>3, <2>1 DEF Steady
<1>11. QueueInv'
  <2>1. QueueSteady
    BY <1>1, <1>3, <1>6 DEF QueueSteady, Active, Working, IInv, TypeInv
  <2> QED
    BY <1>1, <1>7, <2>1, QueueKeeps
<1>12. GapSteady
  <2>1. found[c] = Nothing
    BY <1>1 DEF IInv, ReadInv, Active
  <2>2. terminal' = "success" => terminal = "success"
    BY <1>2, EndFacts
  <2>3. ASSUME NEW d \in Reads
        PROVE  /\ Active(d)' => Active(d) /\ (task'[d] = "data" <=> task[d] = "data")
               /\ Sent(d)' => \/ Sent(d) /\ found'[d] = found[d]
                              \/ found'[d] = Nothing
    BY <1>1, <1>6, <2>1 DEF Active, Working, Sent
  <2> QED
    BY <1>1, <2>2, <2>3 DEF GapSteady
<1> QED
  BY <1>7, <1>8, <1>9, <1>10, <1>11, <1>12, SteadyKeeps, GapKeeps DEF IInv

(* A task hands its result to the oneshot or to the event loop. *)
LEMMA SendKeeps ==
  ASSUME IInv, NEW c \in Reads, SendResult(c)
  PROVE  IInv'
<1>1. /\ task[c] = "deliver" /\ task' = [task EXCEPT ![c] = "done"]
      /\ c \in async => ready' = Append(ready, <<"set", c, found[c]>>) /\ reply' = reply
      /\ c \notin async => reply' = [reply EXCEPT ![c] = found[c]] /\ ready' = ready
      /\ UNCHANGED <<terminal, hasBody, hasDecoder, transport, permit, registered, readTask,
                     readInProgress, deferred, finished, call, result, guard, found, aborted,
                     notifyDue, consumed, held, ended, trailed, decodedMode, iterated, async, got>>
  BY DEF SendResult, TaskTo, fieldVars, callVars, bodyVars, modeVars
<1>2. /\ task \in [Reads -> TaskSteps] /\ reply \in [Reads -> Replies] /\ found[c] \in Replies
      /\ ready \in Seq(Ops)
  BY DEF IInv, TypeInv
<1>3. PICK op : op = <<"set", c, found[c]>>
  OBVIOUS
<1>4. op \in Ops /\ op[1] = "set" /\ op[2] = c /\ op[3] = found[c]
  BY <1>2, <1>3 DEF Ops
<1>5. /\ task' \in [Reads -> TaskSteps] /\ reply' \in [Reads -> Replies] /\ ready' \in Seq(Ops)
  <2>1. task' \in [Reads -> TaskSteps] /\ reply' \in [Reads -> Replies]
    BY <1>1, <1>2 DEF TaskSteps
  <2>2. ready' = Append(ready, op) \/ ready' = ready
    BY <1>1, <1>3
  <2>3. ready' \in Seq(Ops)
    BY <1>2, <1>4, <2>2
  <2> QED
    BY <2>1, <2>3
<1>6. /\ task'[c] = "done"
      /\ \A d \in Reads \ {c} : task'[d] = task[d] /\ reply'[d] = reply[d]
      /\ reply'[c] = IF c \in async THEN reply[c] ELSE found[c]
  BY <1>1, <1>2
<1>7. TypeInv'
  BY <1>1, <1>5 DEF IInv, TypeInv
<1>8. found[c].kind \in Outcomes
  BY <1>1 DEF IInv, ReadInv
<1>9. ASSUME NEW d \in Reads PROVE ReadInv(d)'
  <2>1. ReadInv(d) /\ ReadInv(c)
    BY DEF IInv
  <2>2. CASE d # c
    BY <1>1, <1>6, <2>1, <2>2 DEF ReadInv, Active, Reader
  <2>3. CASE d = c
    BY <1>1, <1>6, <1>8, <2>1, <2>3 DEF ReadInv, Active, Reader, Working, Outcomes
  <2> QED
    BY <2>2, <2>3
<1>10. BusyInv'
  BY <1>1 DEF IInv, BusyInv, Reader
<1>11. Steady
  <2>1. ASSUME NEW d \in Reads
        PROVE  /\ guard'[d] \subseteq guard[d] /\ (guard'[d] # {} => Active(d)')
               /\ Active(d)' => Active(d)
               /\ task'[d] \in {"end", "data"} => task'[d] = task[d]
               /\ task'[d] \in Decoding => decodedMode
    <3>1. (guard[d] # {} => Active(d)) /\ (task[d] \in Decoding => decodedMode)
      BY DEF IInv, OwnerInv, FrameInv
    <3> QED
      BY <1>1, <1>6, <3>1 DEF Active, Working, Decoding
  <2> QED
    BY <1>1, <2>1 DEF Steady, FinishOrNot
<1>12. QueueInv'
  <2>1. QueueSteady
    BY <1>1, <1>6 DEF QueueSteady, IInv, TypeInv
  <2>2. CASE c \in async
    <3>1. Queued(op)'
      BY <1>1, <1>4, <1>6, <1>8, <2>2 DEF Queued
    <3> QED
      BY <1>1, <1>3, <1>4, <1>7, <2>1, <2>2, <3>1, QueueKeeps
  <2>3. CASE c \notin async
    BY <1>1, <1>7, <2>1, <2>3, QueueKeeps
  <2> QED
    BY <2>2, <2>3
<1>13. GapSteady
  <2>1. ASSUME NEW d \in Reads
        PROVE  /\ Active(d)' => Active(d) /\ (task'[d] = "data" <=> task[d] = "data")
               /\ Sent(d)' => Sent(d) /\ found'[d] = found[d]
    BY <1>1, <1>6 DEF Active, Working, Sent
  <2> QED
    BY <1>1, <2>1 DEF GapSteady
<1> QED
  BY <1>7, <1>9, <1>10, <1>11, <1>12, <1>13, SteadyKeeps, GapKeeps DEF IInv

(* A caller that fails after its task is gone. *)
LEMMA FailKeeps ==
  ASSUME IInv, NEW c \in Reads, FailRead(c)
  PROVE  IInv'
<1>1. /\ call[c] = "failing" /\ Finish("error", TRUE)
      /\ call' = [call EXCEPT ![c] = "returned"] /\ result' = [result EXCEPT ![c] = "error"]
      /\ UNCHANGED <<readInProgress, deferred, task, guard, found, aborted, reply,
                     ready, consumed, held, ended, trailed, decodedMode, iterated, async, got>>
  BY DEF FailRead, Return, Goto, taskVars, loopVars, bodyVars, modeVars
<1>2. FinishOrNot
  BY <1>1 DEF FinishOrNot
<1>3. terminal' # "none" /\ readTask' \in Reads \cup {NoRead} /\ notifyDue' \subseteq Reads
  BY <1>1, FinishFacts DEF IInv, Finishes
<1>4. /\ call'[c] = "returned" /\ result'[c] = "error"
      /\ \A d \in Reads \ {c} : call'[d] = call[d] /\ result'[d] = result[d]
      /\ call' \in [Reads -> CallSteps]
      /\ result' \in [Reads -> {"none", "chunk", "eof", "error", "busy", "cancelled"}]
  BY <1>1 DEF IInv, TypeInv, CallSteps
<1>5. TypeInv'
  BY <1>1, <1>2, <1>3, <1>4, EndFacts DEF IInv, TypeInv
<1>6. ASSUME NEW d \in Reads PROVE ReadInv(d)'
  <2>1. ReadInv(d) /\ ReadInv(c)
    BY DEF IInv
  <2>2. CASE d # c
    BY <1>1, <1>3, <1>4, <2>1, <2>2 DEF ReadInv, Active, Reader
  <2>3. CASE d = c
    BY <1>1, <1>3, <1>4, <2>1, <2>3 DEF ReadInv, Active, Reader
  <2> QED
    BY <2>2, <2>3
<1>7. BusyInv'
  BY <1>3 DEF BusyInv
<1>8. Steady
  BY <1>1, <1>2, <1>3 DEF Steady, Active, IInv, OwnerInv, FrameInv
<1>9. QueueInv'
  <2>1. QueueSteady
    BY <1>1, <1>3, <1>4 DEF QueueSteady, IInv, TypeInv
  <2> QED
    BY <1>1, <1>5, <2>1, QueueKeeps
<1>10. GapSteady
  <2>1. result[c] # "chunk"
    BY <1>1 DEF IInv, GapInv
  <2>2. terminal' = "success" => terminal = "success"
    BY <1>2, EndFacts
  <2> QED
    BY <1>1, <1>4, <2>1, <2>2 DEF GapSteady, Active, Sent
<1> QED
  BY <1>5, <1>6, <1>7, <1>8, <1>9, <1>10, SteadyKeeps, GapKeeps DEF IInv

(* start_sender.send. *)
LEMMA StartTaskKeeps ==
  ASSUME IInv, NEW c \in Reads, StartTask(c)
  PROVE  IInv'
<1>1. /\ call[c] = "start"
      /\ UNCHANGED <<readInProgress, deferred, guard, found, aborted, reply,
                     ready, consumed, held, ended, trailed, decodedMode, iterated, async, got>>
  BY DEF StartTask, loopVars, bodyVars, modeVars
<1>2. \/ /\ task[c] = "gated"
         /\ task' = [task EXCEPT ![c] = IF decodedMode THEN "decode" ELSE "read"]
         /\ call' = [call EXCEPT ![c] = "wait"]
         /\ UNCHANGED <<result, terminal, registered, readTask, notifyDue, hasBody, hasDecoder,
                        transport, permit, finished>>
      \/ /\ task[c] = "done" /\ UNCHANGED task
         /\ Finish("error", TRUE)
         /\ IF c \in async THEN call' = [call EXCEPT ![c] = "wait"] /\ UNCHANGED result
            ELSE /\ call' = [call EXCEPT ![c] = "returned"]
                 /\ result' = [result EXCEPT ![c] = "error"]
  BY DEF StartTask, TaskTo, Goto, Return
<1>3. FinishOrNot
  BY <1>2 DEF FinishOrNot
<1>4. /\ readTask' \in Reads \cup {NoRead} /\ notifyDue' \subseteq Reads
      /\ terminal' = "none" => task[c] = "gated" /\ UNCHANGED notifyDue
      /\ UNCHANGED notifyDue \/ terminal' # "none"
  <2>1. CASE Finish("error", TRUE)
    BY <2>1, FinishFacts DEF IInv, Finishes
  <2>2. CASE ~Finish("error", TRUE)
    BY <1>2, <2>2 DEF IInv, TypeInv
  <2> QED
    BY <2>1, <2>2
<1>5. /\ call \in [Reads -> CallSteps] /\ task \in [Reads -> TaskSteps]
      /\ result \in [Reads -> {"none", "chunk", "eof", "error", "busy", "cancelled"}]
  BY DEF IInv, TypeInv
<1>6. /\ call' \in [Reads -> CallSteps] /\ task' \in [Reads -> TaskSteps]
      /\ result' \in [Reads -> {"none", "chunk", "eof", "error", "busy", "cancelled"}]
  BY <1>2, <1>5 DEF CallSteps, TaskSteps, Working
<1>7. /\ \/ /\ task[c] = "gated" /\ task'[c] = IF decodedMode THEN "decode" ELSE "read"
            /\ call'[c] = "wait" /\ result'[c] = result[c]
         \/ /\ task[c] = "done" /\ task'[c] = "done" /\ call'[c] \in {"wait", "returned"}
            /\ c \in async => call'[c] = "wait"
            /\ result'[c] = result[c] \/ result'[c] = "error"
      /\ \A d \in Reads \ {c} : call'[d] = call[d] /\ result'[d] = result[d] /\ task'[d] = task[d]
  BY <1>2, <1>5
<1>8. TypeInv'
  BY <1>1, <1>3, <1>4, <1>6, EndFacts DEF IInv, TypeInv
<1>9. terminal # "none" => terminal' # "none"
  BY <1>3, EndFacts
<1>10. ASSUME NEW d \in Reads PROVE ReadInv(d)'
  <2>1. ReadInv(d) /\ ReadInv(c)
    BY DEF IInv
  <2>2. CASE d # c
    BY <1>1, <1>4, <1>7, <1>9, <2>1, <2>2 DEF ReadInv, Active, Reader
  <2>3. CASE d = c
    <3>1. reply[c].kind # "none" /\ reply'[c] = reply[c] /\ found'[c] = found[c]
      BY <1>1, <2>1 DEF ReadInv
    <3>2. reply[c].kind \in Outcomes => task[c] = "done" /\ task'[c] = "done"
      BY <1>7, <2>1 DEF ReadInv
    <3> QED
      BY <1>1, <1>4, <1>7, <1>9, <2>1, <2>3, <3>1, <3>2 DEF ReadInv, Active, Reader, Working
  <2> QED
    BY <2>2, <2>3
<1>11. BusyInv'
  <2>1. ASSUME terminal' = "none"
        PROVE  terminal = "none" /\ \A d \in Reads : Reader(d)' <=> Reader(d)
    BY <1>1, <1>4, <1>7, <1>9, <2>1 DEF Reader
  <2> QED
    BY <1>1, <2>1 DEF IInv, BusyInv
<1>12. Steady
  <2>1. ASSUME NEW d \in Reads
        PROVE  /\ guard'[d] \subseteq guard[d] /\ (guard'[d] # {} => Active(d)')
               /\ Active(d)' => Active(d)
               /\ task'[d] \in {"end", "data"} => task'[d] = task[d]
               /\ task'[d] \in Decoding => decodedMode
    <3>1. (guard[d] # {} => Active(d)) /\ (task[d] \in Decoding => decodedMode)
      BY DEF IInv, OwnerInv, FrameInv
    <3> QED
      BY <1>1, <1>7, <3>1 DEF Active, Working, Decoding
  <2> QED
    BY <1>1, <1>3, <2>1 DEF Steady
<1>13. QueueInv'
  <2>1. QueueSteady
    BY <1>1, <1>7, <1>9 DEF QueueSteady, IInv, TypeInv
  <2> QED
    BY <1>1, <1>8, <2>1, QueueKeeps
<1>14. GapSteady
  <2>1. result[c] # "chunk"
    BY <1>1 DEF IInv, GapInv
  <2>2. terminal' = "success" => terminal = "success"
    BY <1>3, EndFacts
  <2>3. ASSUME NEW d \in Reads
        PROVE  /\ call'[d] = "idle" <=> call[d] = "idle"
               /\ result[d] = "chunk" => UNCHANGED <<call[d], result[d]>>
               /\ result'[d] \in {"chunk", "eof"} => result'[d] = result[d]
               /\ Active(d)' => Active(d) /\ (task'[d] = "data" <=> task[d] = "data")
               /\ Sent(d)' => Sent(d) /\ found'[d] = found[d]
    BY <1>1, <1>7, <2>1 DEF Active, Working, Sent
  <2> QED
    BY <1>1, <2>2, <2>3 DEF GapSteady
<1> QED
  BY <1>8, <1>10, <1>11, <1>12, <1>13, <1>14, SteadyKeeps, GapKeeps DEF IInv

(* register_read_task: only a stream that has ended rejects a read. *)
LEMMA RegisterKeeps ==
  ASSUME IInv, NEW c \in Reads, RegisterRead(c)
  PROVE  IInv'
<1>1. /\ call[c] = "register" /\ reply' = [reply EXCEPT ![c] = Only("pending")]
      /\ UNCHANGED <<terminal, hasBody, hasDecoder, transport, permit, registered,
                     readInProgress, deferred, finished, task, guard, found, notifyDue,
                     consumed, held, ended, trailed, decodedMode, iterated, async, got>>
  BY DEF RegisterRead, bodyVars, modeVars
<1>2. terminal # "none" \/ readInProgress
  BY <1>1 DEF IInv, BusyInv, Reader
<1>3. PICK op : op = <<"cancel", c, Nothing>>
  OBVIOUS
<1>4. op \in Ops /\ op[1] = "cancel" /\ op[2] = c
  BY <1>3, ReplyKinds DEF Ops
<1>5. \/ /\ terminal # "none" /\ aborted' = aborted \cup {c} /\ c \in async
         /\ ready' = Append(ready, op)
         /\ call' = [call EXCEPT ![c] = "unwatched"] /\ UNCHANGED <<result, readTask>>
      \/ /\ terminal # "none" /\ aborted' = aborted \cup {c} /\ c \notin async
         /\ call' = [call EXCEPT ![c] = "returned"] /\ result' = [result EXCEPT ![c] = "error"]
         /\ UNCHANGED <<ready, readTask>>
      \/ /\ terminal = "none" /\ readTask' = c /\ call' = [call EXCEPT ![c] = "start"]
         /\ UNCHANGED <<aborted, ready, result>>
  BY <1>2, <1>3 DEF RegisterRead, ScheduleCancel, Goto, Return
<1>6. /\ call \in [Reads -> CallSteps] /\ reply \in [Reads -> Replies] /\ ready \in Seq(Ops)
      /\ result \in [Reads -> {"none", "chunk", "eof", "error", "busy", "cancelled"}]
      /\ aborted \subseteq Reads
  BY DEF IInv, TypeInv
<1>7. /\ call' \in [Reads -> CallSteps] /\ aborted' \subseteq Reads
      /\ result' \in [Reads -> {"none", "chunk", "eof", "error", "busy", "cancelled"}]
  BY <1>5, <1>6 DEF CallSteps
<1>8. reply' \in [Reads -> Replies] /\ reply'[c].kind = "pending"
  BY <1>1, <1>6, ReplyKinds
<1>9. ready' \in Seq(Ops)
  <2>1. ready' = Append(ready, op) \/ ready' = ready
    BY <1>5
  <2> QED
    BY <1>4, <1>6, <2>1
<1>10. TypeInv'
  BY <1>1, <1>5, <1>7, <1>8, <1>9 DEF IInv, TypeInv
<1>11. /\ \A d \in Reads \ {c} : /\ call'[d] = call[d] /\ result'[d] = result[d]
                                 /\ reply'[d] = reply[d]
       /\ result'[c] = result[c] \/ result'[c] = "error"
       /\ \/ terminal # "none" /\ c \in async /\ call'[c] = "unwatched"
          \/ terminal # "none" /\ c \notin async /\ call'[c] = "returned"
          \/ terminal = "none" /\ call'[c] = "start"
  BY <1>1, <1>5, <1>6
<1>12. ASSUME NEW d \in Reads PROVE ReadInv(d)'
  <2>1. ReadInv(d) /\ ReadInv(c)
    BY DEF IInv
  <2>2. CASE d # c
    BY <1>1, <1>11, <2>1, <2>2 DEF ReadInv, Active, Reader
  <2>3. CASE d = c
    BY <1>1, <1>8, <1>11, <2>1, <2>3 DEF ReadInv, Active, Reader, Outcomes
  <2> QED
    BY <2>2, <2>3
<1>13. BusyInv'
  <2>1. ASSUME terminal' = "none" PROVE \A d \in Reads : Reader(d)' <=> Reader(d)
    BY <1>1, <1>11, <2>1 DEF Reader
  <2> QED
    BY <1>1, <2>1 DEF IInv, BusyInv
<1>14. Steady
  BY <1>1 DEF Steady, FinishOrNot, Active, IInv, OwnerInv, FrameInv
<1>15. QueueInv'
  <2>1. QueueSteady
    BY <1>1, <1>11 DEF QueueSteady, IInv, TypeInv
  <2>2. CASE ready' = ready
    BY <1>10, <2>1, <2>2, QueueKeeps
  <2>3. CASE terminal # "none" /\ c \in async /\ ready' = Append(ready, op)
    <3>1. Queued(op)'
      BY <1>1, <1>4, <2>3 DEF Queued
    <3> QED
      BY <1>4, <1>10, <2>1, <2>3, <3>1, QueueKeeps
  <2> QED
    BY <1>5, <2>2, <2>3
<1>16. GapSteady
  <2>1. result[c] # "chunk"
    BY <1>1 DEF IInv, GapInv
  <2> QED
    BY <1>1, <1>11, <2>1 DEF GapSteady, Active, Sent
<1> QED
  BY <1>10, <1>12, <1>13, <1>14, <1>15, <1>16, SteadyKeeps, GapKeeps DEF IInv

--------------------------------------------------------------------------------
(* A read returns what was found. *)

(* The iterator has the frames up to the end of the chunk it is given. *)
LEMMA ReturnGap ==
  ASSUME IInv, NEW c \in Reads, call[c] \in {"wait", "unwatched"},
         reply[c].kind \in Outcomes \cup {"cancelled"},
         call' = [call EXCEPT ![c] = "returned"],
         result' = [result EXCEPT ![c] = reply[c].kind],
         got' = got \cup FramesOf(reply[c]),
         UNCHANGED <<task, found, iterated, consumed, held, decodedMode>>,
         terminal' = "success" => terminal = "success"
  PROVE  GapInv' /\ got' \subseteq 1 .. MaxFrames
<1>1. /\ call'[c] = "returned" /\ result'[c] = reply[c].kind
      /\ \A d \in Reads \ {c} : call'[d] = call[d] /\ result'[d] = result[d]
  BY DEF IInv, TypeInv
<1>2. /\ reply[c].kind \in Outcomes => reply[c] = found[c] /\ task[c] = "done"
      /\ result[c] # "chunk"
  BY DEF IInv, ReadInv, GapInv
<1>3. got' \subseteq 1 .. MaxFrames
  <2>1. reply[c].kind = "chunk" => reply[c].from \in 1 .. MaxFrames /\ reply[c].to \in 1 .. MaxFrames
    BY ReplyKinds DEF IInv, TypeInv
  <2>2. FramesOf(reply[c]) \subseteq 1 .. MaxFrames
    BY <2>1, StreamAssumption DEF FramesOf
  <2> QED
    BY <2>2 DEF IInv, TypeInv
<1>4. \A d \in Reads : /\ result'[d] = "chunk" => call'[d] = "returned"
                       /\ result'[d] \in {"chunk", "eof"} => ~Active(d)'
  BY <1>1, <1>2 DEF IInv, GapInv, Active, Working, Outcomes
<1>5. ASSUME iterated
      PROVE  /\ \E n \in 0 .. MaxFrames : got' = 1 .. n
             /\ \A d, e \in Reads : Pending(d)' /\ Pending(e)' => d = e
             /\ \A d \in Reads : Pending(d)' => FlightInv(d)'
             /\ (\A d \in Reads : ~Pending(d)') => got' = 1 .. Out'
  <2>1. /\ Pending(c) /\ FlightInv(c) /\ \A d \in Reads : Pending(d) => d = c
        /\ \E n \in 0 .. MaxFrames : got = 1 .. n
    BY <1>2, <1>5 DEF IInv, GapInv, Pending
  <2>2. \A d \in Reads : Pending(d)' => d = c
    BY <1>1, <2>1 DEF Pending
  <2>3. Out' = Out /\ Out \in 0 .. MaxFrames
    BY StreamAssumption DEF Out, IInv, TypeInv, FrameInv
  <2>4. CASE reply[c].kind = "chunk"
    <3>1. /\ reply[c].from \in 1 .. MaxFrames /\ reply[c].to = Out /\ reply[c].from <= Out
          /\ got = 1 .. reply[c].from - 1
      BY <1>2, <2>1, <2>4, ReplyKinds DEF FlightInv, Sent, Outcomes, IInv, TypeInv
    <3>2. PICK f \in 1 .. MaxFrames : f = reply[c].from
      BY <3>1
    <3>3. got' = (1 .. f - 1) \cup (f .. Out)
      BY <2>4, <3>1, <3>2 DEF FramesOf
    <3>4. (1 .. f - 1) \cup (f .. Out) = 1 .. Out
      BY <2>3, <3>1, <3>2
    <3>5. got' = 1 .. Out /\ ~Pending(c)'
      BY <1>1, <2>4, <3>3, <3>4 DEF Pending
    <3> QED
      BY <2>2, <2>3, <3>5
  <2>5. CASE reply[c].kind # "chunk"
    <3>1. got' = got /\ Pending(c)'
      BY <1>1, <2>5 DEF FramesOf, Pending
    <3>2. reply[c].kind = "eof" /\ terminal' = "success" => got = 1 .. consumed
      BY <1>2, <2>1 DEF FlightInv, Sent, Outcomes
    <3>3. FlightInv(c)'
      BY <1>1, <2>1, <2>3, <3>1, <3>2 DEF FlightInv, Active, Sent
    <3> QED
      BY <2>1, <2>2, <3>1, <3>3
  <2> QED
    BY <2>4, <2>5
<1> QED
  BY <1>3, <1>4, <1>5 DEF GapInv

(* A synchronous caller wakes up. *)
LEMMA ReceiveKeeps ==
  ASSUME IInv, NEW c \in Reads, ReceiveResult(c)
  PROVE  IInv'
<1>1. /\ c \notin async /\ call[c] = "wait" /\ reply[c].kind # "pending"
      /\ got' = got \cup FramesOf(reply[c])
      /\ reply[c].kind = "dropped" => call' = [call EXCEPT ![c] = "failing"] /\ UNCHANGED result
      /\ reply[c].kind # "dropped" => /\ call' = [call EXCEPT ![c] = "returned"]
                                      /\ result' = [result EXCEPT ![c] = reply[c].kind]
      /\ terminal # "none" => UNCHANGED <<readTask, readInProgress>>
      /\ terminal = "none" => readTask' = NoRead /\ readInProgress' = FALSE
      /\ UNCHANGED <<terminal, hasBody, hasDecoder, transport, permit, registered, deferred,
                     finished, task, guard, found, aborted, reply, ready, notifyDue, consumed,
                     held, ended, trailed, decodedMode, iterated, async>>
  BY DEF ReceiveResult, FinishDelivery, Goto, Return, taskVars, loopVars, bodyVars, modeVars
<1>2. ReadInv(c) /\ reply[c] \in Replies
  BY DEF IInv, TypeInv
<1>3. reply[c].kind \in Outcomes \cup {"dropped"}
  <2>1. reply[c].kind \notin {"none", "pending", "cancelled"}
    BY <1>1, <1>2 DEF ReadInv
  <2> QED
    BY <1>2, <2>1, ReplyKinds
<1>4. reply[c].kind = "dropped" => terminal # "none" /\ got' = got
  BY <1>1, <1>2 DEF ReadInv, FramesOf
<1>5. /\ call \in [Reads -> CallSteps]
      /\ result \in [Reads -> {"none", "chunk", "eof", "error", "busy", "cancelled"}]
  BY DEF IInv, TypeInv
<1>6. /\ call' \in [Reads -> CallSteps]
      /\ result' \in [Reads -> {"none", "chunk", "eof", "error", "busy", "cancelled"}]
      /\ call'[c] = IF reply[c].kind = "dropped" THEN "failing" ELSE "returned"
      /\ reply[c].kind = "dropped" => result'[c] = result[c]
      /\ \A d \in Reads \ {c} : call'[d] = call[d] /\ result'[d] = result[d]
  BY <1>1, <1>3, <1>5 DEF CallSteps, Outcomes
<1>7. GapInv' /\ got' \subseteq 1 .. MaxFrames
  <2>1. CASE reply[c].kind = "dropped"
    <3>1. result[c] # "chunk"
      BY <1>1 DEF IInv, GapInv
    <3>2. GapSteady
      BY <1>1, <1>4, <1>6, <2>1, <3>1 DEF GapSteady, Active, Sent
    <3> QED
      BY <1>4, <2>1, <3>2, GapKeeps DEF IInv, TypeInv
  <2>2. CASE reply[c].kind # "dropped"
    BY <1>1, <1>3, <2>2, ReturnGap
  <2> QED
    BY <2>1, <2>2
<1>8. TypeInv'
  <2>1. readTask' \in Reads \cup {NoRead} /\ readInProgress' \in BOOLEAN
    BY <1>1 DEF IInv, TypeInv
  <2> QED
    BY <1>1, <1>6, <1>7, <2>1 DEF IInv, TypeInv
<1>9. ASSUME NEW d \in Reads PROVE ReadInv(d)'
  <2>1. ReadInv(d)
    BY DEF IInv
  <2>2. CASE d # c
    BY <1>1, <1>6, <2>1, <2>2 DEF ReadInv, Active, Reader
  <2>3. CASE d = c
    <3>1. Active(c) => terminal # "none"
      BY <1>2, <1>3 DEF ReadInv, Active, Working
    <3> QED
      BY <1>1, <1>2, <1>3, <1>4, <1>6, <2>3, <3>1 DEF ReadInv, Active, Reader
  <2> QED
    BY <2>2, <2>3
<1>10. BusyInv'
  <2>1. ASSUME terminal' = "none" PROVE readInProgress' = FALSE /\ \A d \in Reads : ~Reader(d)'
    <3>1. terminal = "none" /\ call'[c] = "returned"
      BY <1>1, <1>4, <1>6, <2>1
    <3>2. \A d \in Reads : Reader(d) => d = c
      BY <1>1, <3>1 DEF IInv, BusyInv, Reader
    <3> QED
      BY <1>1, <1>6, <3>1, <3>2 DEF Reader
  <2> QED
    BY <2>1 DEF BusyInv
<1>11. Steady
  BY <1>1 DEF Steady, FinishOrNot, Active, IInv, OwnerInv, FrameInv
<1>12. QueueInv'
  <2>1. QueueSteady
    BY <1>1, <1>6 DEF QueueSteady, IInv, TypeInv
  <2> QED
    BY <1>1, <1>8, <2>1, QueueKeeps
<1> QED
  BY <1>7, <1>8, <1>9, <1>10, <1>11, <1>12, SteadyKeeps DEF IInv

--------------------------------------------------------------------------------
(* The event loop. *)

Once(s) == \A i, j \in 1 .. Len(s) :
             i # j /\ s[i][1] = "done" /\ s[j][1] = "done" => s[i][2] # s[j][2]

(* The queue without its first callback. *)
LEMMA TailQueue ==
  ASSUME NEW s \in Seq(Ops), s # <<>>, Once(s)
  PROVE  /\ Tail(s) \in Seq(Ops) /\ Once(Tail(s)) /\ Head(s) = s[1] /\ 1 \in 1 .. Len(s)
         /\ \A i \in 1 .. Len(Tail(s)) : /\ i + 1 \in 1 .. Len(s) /\ i + 1 # 1
                                         /\ Tail(s)[i] = s[i + 1]
<1>1. /\ Tail(s) \in Seq(Ops) /\ Len(Tail(s)) = Len(s) - 1 /\ Len(s) \in Nat /\ Len(s) > 0
      /\ Head(s) = s[1]
      /\ \A i \in 1 .. Len(Tail(s)) : Tail(s)[i] = s[i + 1]
  BY HeadTailProperties, EmptySeq
<1>2. 1 \in 1 .. Len(s) /\ \A i \in 1 .. Len(Tail(s)) : i + 1 \in 1 .. Len(s) /\ i + 1 # 1
  BY <1>1
<1>3. ASSUME NEW i \in 1 .. Len(Tail(s)), NEW j \in 1 .. Len(Tail(s)), i # j,
             Tail(s)[i][1] = "done", Tail(s)[j][1] = "done"
      PROVE  Tail(s)[i][2] # Tail(s)[j][2]
  <2>1. i + 1 # j + 1 /\ i + 1 \in 1 .. Len(s) /\ j + 1 \in 1 .. Len(s)
    BY <1>2, <1>3
  <2> QED
    BY <1>1, <1>3, <2>1 DEF Once
<1> QED
  BY <1>1, <1>2, <1>3 DEF Once

(* The queue with the callback of a future that was resolved just now. *)
LEMMA DoneQueue ==
  ASSUME NEW s \in Seq(Ops), NEW c \in Reads, Once(s),
         \A i \in 1 .. Len(s) : s[i][1] = "done" => s[i][2] # c
  PROVE  /\ Append(s, <<"done", c, Nothing>>) \in Seq(Ops)
         /\ Once(Append(s, <<"done", c, Nothing>>))
         /\ \A i \in 1 .. Len(Append(s, <<"done", c, Nothing>>)) :
              \/ i \in 1 .. Len(s) /\ Append(s, <<"done", c, Nothing>>)[i] = s[i]
              \/ Append(s, <<"done", c, Nothing>>)[i] = <<"done", c, Nothing>>
<1>1. PICK op : op = <<"done", c, Nothing>>
  OBVIOUS
<1>2. op \in Ops /\ op[1] = "done" /\ op[2] = c
  BY <1>1, ReplyKinds DEF Ops
<1>3. PICK t : t = Append(s, op)
  OBVIOUS
<1>4. t \in Seq(Ops) /\ Len(t) = Len(s) + 1 /\ Len(s) \in Nat
  BY <1>2, <1>3
<1>5. /\ \A i \in 1 .. Len(s) : t[i] = s[i]
      /\ t[Len(s) + 1] = op
  BY <1>2, <1>3
<1>6. \A i \in 1 .. Len(t) : i \in 1 .. Len(s) \/ i = Len(s) + 1
  BY <1>4
<1>7. Once(t)
  <2>1. ASSUME NEW i \in 1 .. Len(t), NEW j \in 1 .. Len(t), i # j,
               t[i][1] = "done", t[j][1] = "done"
        PROVE  t[i][2] # t[j][2]
    <3>1. CASE i \in 1 .. Len(s) /\ j \in 1 .. Len(s)
      BY <1>5, <2>1, <3>1 DEF Once
    <3>2. CASE i \in 1 .. Len(s) /\ j = Len(s) + 1
      BY <1>2, <1>5, <2>1, <3>2
    <3>3. CASE j \in 1 .. Len(s) /\ i = Len(s) + 1
      BY <1>2, <1>5, <2>1, <3>3
    <3> QED
      BY <1>6, <2>1, <3>1, <3>2, <3>3
  <2> QED
    BY <2>1 DEF Once
<1> QED
  BY <1>1, <1>3, <1>4, <1>5, <1>6, <1>7

(* A pending future is resolved: with what its task found, or as cancelled. *)
LEMMA ResolveKeeps ==
  ASSUME IInv, NEW c \in Reads, c \in async, ~OnLoop, reply[c].kind = "pending",
         NEW r \in Replies, NEW queue,
         queue = ready \/ (ready # <<>> /\ queue = Tail(ready)),
         r.kind = "cancelled" \/ (r = found[c] /\ r.kind \in Outcomes /\ task[c] = "done"),
         Resolve(c, r, queue),
         UNCHANGED <<terminal, hasBody, hasDecoder, transport, permit, registered, readTask,
                     readInProgress, deferred, finished, call, result, task, guard, found, aborted,
                     notifyDue, consumed, held, ended, trailed, decodedMode, iterated, async, got>>
  PROVE  IInv'
<1>1. reply' = [reply EXCEPT ![c] = r] /\ ready' = Append(queue, <<"done", c, Nothing>>)
  BY DEF Resolve
<1>2. /\ reply' \in [Reads -> Replies] /\ reply'[c] = r
      /\ \A d \in Reads \ {c} : reply'[d] = reply[d]
  BY <1>1 DEF IInv, TypeInv
<1>3. call[c] \in {"wait", "unwatched"}
  BY DEF IInv, ReadInv, OnLoop
<1>4. ready \in Seq(Ops) /\ Once(ready) /\ \A i \in 1 .. Len(ready) : Queued(ready[i])
  BY DEF IInv, TypeInv, QueueInv, Once
<1>5. /\ queue \in Seq(Ops) /\ Once(queue)
      /\ \A i \in 1 .. Len(queue) : Queued(queue[i])
  <2>1. CASE queue = ready
    BY <1>4, <2>1
  <2>2. CASE ready # <<>> /\ queue = Tail(ready)
    BY <1>4, <2>2, TailQueue
  <2> QED
    BY <2>1, <2>2
<1>6. \A i \in 1 .. Len(queue) : queue[i][1] = "done" => queue[i][2] # c
  BY <1>5 DEF Queued, Outcomes
<1>7. /\ ready' \in Seq(Ops) /\ Once(ready')
      /\ \A i \in 1 .. Len(ready') : \/ i \in 1 .. Len(queue) /\ ready'[i] = queue[i]
                                     \/ ready'[i] = <<"done", c, Nothing>>
  BY <1>1, <1>5, <1>6, DoneQueue
<1>8. TypeInv'
  BY <1>2, <1>7 DEF IInv, TypeInv
<1>9. QueueInv'
  <2>1. ASSUME NEW op, Queued(op), ~(op[1] = "done" /\ op[2] = c) PROVE Queued(op)'
    <3>1. op[2] \in Reads
      BY <2>1 DEF Queued, IInv, TypeInv
    <3> QED
      BY <1>2, <2>1, <3>1 DEF Queued
  <2>2. ASSUME NEW i \in 1 .. Len(ready') PROVE Queued(ready[i])'
    <3>1. PICK op : op = ready'[i]
      OBVIOUS
    <3>2. CASE i \in 1 .. Len(queue) /\ op = queue[i]
      <4>1. Queued(op) /\ ~(op[1] = "done" /\ op[2] = c)
        BY <1>5, <1>6, <3>2
      <4>2. Queued(op)'
        BY <2>1, <4>1
      <4> QED
        BY <3>1, <4>2 DEF Queued
    <3>3. CASE op = <<"done", c, Nothing>>
      <4>1. op[1] = "done" /\ op[2] = c
        BY <3>3
      <4>2. Queued(op)'
        BY <1>2, <1>3, <4>1 DEF Queued
      <4> QED
        BY <3>1, <4>2 DEF Queued
    <3> QED
      BY <1>7, <3>1, <3>2, <3>3
  <2> QED
    BY <1>7, <2>2 DEF QueueInv, Once
<1>10. ASSUME NEW d \in Reads PROVE ReadInv(d)'
  <2>1. ReadInv(d)
    BY DEF IInv
  <2>2. CASE d # c
    BY <1>2, <2>1, <2>2 DEF ReadInv, Active, Reader
  <2>3. CASE d = c
    BY <1>2, <1>3, <2>1, <2>3 DEF ReadInv, Active, Reader, Outcomes
  <2> QED
    BY <2>2, <2>3
<1>11. BusyInv'
  BY DEF IInv, BusyInv, Reader
<1>12. Steady
  BY DEF Steady, FinishOrNot, Active, IInv, OwnerInv, FrameInv
<1>13. GapSteady
  BY DEF GapSteady, Active, Sent
<1> QED
  BY <1>8, <1>9, <1>10, <1>11, <1>12, <1>13, SteadyKeeps, GapKeeps DEF IInv

(* Callbacks that resolve a future, or find it resolved. *)
LEMMA LoopResolveKeeps ==
  ASSUME IInv, LoopResolve
  PROVE  IInv'
<1>1. /\ ~OnLoop /\ ready # <<>>
      /\ UNCHANGED <<terminal, hasBody, hasDecoder, transport, permit, registered, readTask,
                     readInProgress, deferred, finished, call, result, task, guard, found, aborted,
                     notifyDue, consumed, held, ended, trailed, decodedMode, iterated, async, got>>
  BY DEF LoopResolve, fieldVars, callVars, taskVars, bodyVars, modeVars
<1>2. PICK op : op = Head(ready)
  OBVIOUS
<1>3. PICK c : c = op[2]
  OBVIOUS
<1>4. ready \in Seq(Ops) /\ Once(ready) /\ \A i \in 1 .. Len(ready) : Queued(ready[i])
  BY DEF IInv, TypeInv, QueueInv, Once
<1>5. /\ Tail(ready) \in Seq(Ops) /\ Once(Tail(ready)) /\ op = ready[1] /\ 1 \in 1 .. Len(ready)
      /\ \A i \in 1 .. Len(Tail(ready)) : i + 1 \in 1 .. Len(ready) /\ Tail(ready)[i] = ready[i + 1]
  BY <1>1, <1>2, <1>4, TailQueue
<1>6. Queued(op) /\ c \in async /\ c \in Reads
  <2>1. Queued(op)
    BY <1>4, <1>5
  <2> QED
    BY <1>3, <2>1 DEF Queued, IInv, TypeInv
<1>7. /\ op[1] \in {"set", "cancel"}
      /\ reply[c].kind # "pending" => ready' = Tail(ready) /\ reply' = reply
      /\ reply[c].kind = "pending" =>
           Resolve(c, IF op[1] = "set" THEN op[3] ELSE Only("cancelled"), Tail(ready))
  BY <1>2, <1>3 DEF LoopResolve
<1>8. CASE reply[c].kind # "pending"
  <2>1. ready' = Tail(ready) /\ reply' = reply
    BY <1>7, <1>8
  <2>2. TypeInv'
    BY <1>1, <1>5, <2>1 DEF IInv, TypeInv
  <2>3. ASSUME NEW d \in Reads PROVE ReadInv(d)'
    <3>1. ReadInv(d)
      BY DEF IInv
    <3> QED
      BY <1>1, <2>1, <3>1 DEF ReadInv, Active, Reader
  <2>4. BusyInv'
    BY <1>1 DEF IInv, BusyInv, Reader
  <2>5. Steady
    BY <1>1 DEF Steady, FinishOrNot, Active, IInv, OwnerInv, FrameInv
  <2>6. GapSteady
    BY <1>1 DEF GapSteady, Active, Sent
  <2>7. QueueInv'
    <3>1. ASSUME NEW p, Queued(p) PROVE Queued(p)'
      BY <1>1, <2>1, <3>1 DEF Queued
    <3>2. ASSUME NEW i \in 1 .. Len(ready') PROVE Queued(ready[i])'
      <4>1. PICK p : p = ready'[i]
        OBVIOUS
      <4>2. Queued(p)
        BY <1>4, <1>5, <2>1, <4>1
      <4>3. Queued(p)'
        BY <3>1, <4>2
      <4> QED
        BY <4>1, <4>3 DEF Queued
    <3> QED
      BY <1>5, <2>1, <3>2 DEF QueueInv, Once
  <2> QED
    BY <2>2, <2>3, <2>4, <2>5, <2>6, <2>7, SteadyKeeps, GapKeeps DEF IInv
<1>9. CASE reply[c].kind = "pending"
  <2>1. PICK r : r = IF op[1] = "set" THEN op[3] ELSE Only("cancelled")
    OBVIOUS
  <2>2. op[1] = "set" => r = found[c] /\ r.kind \in Outcomes /\ task[c] = "done"
    BY <1>3, <1>6, <2>1 DEF Queued
  <2>3. op[1] # "set" => r \in Replies /\ r.kind = "cancelled"
    BY <2>1, ReplyKinds
  <2>4. r \in Replies
    BY <1>6, <2>2, <2>3 DEF IInv, TypeInv
  <2>5. PICK queue : queue = Tail(ready)
    OBVIOUS
  <2>6. Resolve(c, r, queue)
    BY <1>7, <1>9, <2>1, <2>5
  <2> QED
    BY <1>1, <1>6, <1>9, <2>2, <2>3, <2>4, <2>5, <2>6, ResolveKeeps
<1> QED
  BY <1>8, <1>9

(* The awaiting task is cancelled. *)
LEMMA UserCancelKeeps ==
  ASSUME IInv, NEW c \in Reads, UserCancel(c)
  PROVE  IInv'
<1>1. /\ c \in async /\ ~OnLoop /\ reply[c].kind = "pending"
      /\ Resolve(c, Only("cancelled"), ready)
      /\ UNCHANGED <<terminal, hasBody, hasDecoder, transport, permit, registered, readTask,
                     readInProgress, deferred, finished, call, result, task, guard, found, aborted,
                     notifyDue, consumed, held, ended, trailed, decodedMode, iterated, async, got>>
  BY DEF UserCancel, fieldVars, callVars, taskVars, bodyVars, modeVars
<1>2. PICK r \in Replies : r = Only("cancelled") /\ r.kind = "cancelled"
  BY ReplyKinds
<1>3. PICK queue : queue = ready
  OBVIOUS
<1>4. Resolve(c, r, queue)
  BY <1>1, <1>2, <1>3
<1> QED
  BY <1>1, <1>2, <1>3, <1>4, ResolveKeeps

(* The read whose callback is next has a result and a caller that waits. *)
LEMMA NextCallback ==
  ASSUME IInv, ready # <<>>, Head(ready)[1] = "done", NEW c, c = Head(ready)[2]
  PROVE  /\ c \in async /\ c \in Reads /\ call[c] \in {"wait", "unwatched"}
         /\ reply[c].kind \in Outcomes \cup {"cancelled"}
<1>1. ready \in Seq(Ops) /\ Once(ready) /\ \A i \in 1 .. Len(ready) : Queued(ready[i])
  BY DEF IInv, TypeInv, QueueInv, Once
<1>2. Head(ready) = ready[1] /\ 1 \in 1 .. Len(ready)
  BY <1>1, TailQueue
<1>3. Queued(Head(ready))
  BY <1>1, <1>2
<1> QED
  BY <1>3 DEF Queued, IInv, TypeInv

(* The callback of a read runs and its caller returns. *)
LEMMA CallbackKeeps ==
  ASSUME IInv, ready # <<>>, Head(ready)[1] = "done", ready' = Tail(ready),
         NEW c, c = Head(ready)[2], NEW answer \in Outcomes \cup {"cancelled"},
         call' = [call EXCEPT ![c] = "returned"], result' = [result EXCEPT ![c] = answer],
         UNCHANGED <<deferred, task, guard, found, reply, consumed, held, ended, trailed,
                     decodedMode, iterated, async>>,
         FinishOrNot,
         readTask' \in Reads \cup {NoRead}, notifyDue' \subseteq Reads,
         readInProgress' \in BOOLEAN, aborted' \subseteq Reads,
         notifyDue' = notifyDue \/ terminal' # "none",
         reply[c].kind = "cancelled" => terminal' # "none",
         terminal' = "none" => FinishDelivery,
         GapInv', got' \subseteq 1 .. MaxFrames
  PROVE  IInv'
<1>1. /\ c \in async /\ c \in Reads /\ call[c] \in {"wait", "unwatched"}
      /\ reply[c].kind \in Outcomes \cup {"cancelled"}
  BY NextCallback
<1>2. ready \in Seq(Ops) /\ Once(ready) /\ \A i \in 1 .. Len(ready) : Queued(ready[i])
  BY DEF IInv, TypeInv, QueueInv, Once
<1>3. /\ Tail(ready) \in Seq(Ops) /\ Once(Tail(ready)) /\ Head(ready) = ready[1] /\ 1 \in 1 .. Len(ready)
      /\ \A i \in 1 .. Len(Tail(ready)) : /\ i + 1 \in 1 .. Len(ready) /\ i + 1 # 1
                                          /\ Tail(ready)[i] = ready[i + 1]
  BY <1>2, TailQueue
<1>4. /\ terminal # "none" => terminal' # "none"
      /\ terminal' = "success" => terminal = "success"
  BY EndFacts
<1>5. /\ call' \in [Reads -> CallSteps]
      /\ result' \in [Reads -> {"none", "chunk", "eof", "error", "busy", "cancelled"}]
      /\ call'[c] = "returned"
      /\ \A d \in Reads \ {c} : call'[d] = call[d] /\ result'[d] = result[d]
  BY <1>1 DEF IInv, TypeInv, CallSteps, Outcomes
<1>6. TypeInv'
  BY <1>3, <1>5, EndFacts DEF IInv, TypeInv
<1>7. ASSUME NEW d \in Reads PROVE ReadInv(d)'
  <2>1. ReadInv(d)
    BY DEF IInv
  <2>2. d \in notifyDue' => terminal' # "none"
    BY <1>4, <2>1 DEF ReadInv
  <2>3. CASE d # c
    BY <1>4, <1>5, <2>1, <2>2, <2>3 DEF ReadInv, Active, Reader
  <2>4. CASE d = c
    <3>1. reply[c].kind # "pending"
      BY <1>1 DEF Outcomes
    <3>2. Active(c)' => terminal' # "none"
      BY <1>1, <2>1, <2>4 DEF ReadInv, Active, Working, Outcomes
    <3> QED
      BY <1>4, <1>5, <2>1, <2>2, <2>4, <3>1, <3>2 DEF ReadInv
  <2> QED
    BY <2>3, <2>4
<1>8. BusyInv'
  <2>1. ASSUME terminal' = "none" PROVE readInProgress' = FALSE /\ \A d \in Reads : ~Reader(d)'
    <3>1. terminal = "none" /\ readInProgress' = FALSE
      BY <1>4, <2>1 DEF FinishDelivery
    <3>2. call[c] = "wait"
      BY <1>1, <3>1 DEF IInv, ReadInv
    <3>3. \A d \in Reads : Reader(d) => d = c
      BY <1>1, <3>1, <3>2 DEF IInv, BusyInv, Reader
    <3> QED
      BY <1>5, <3>1, <3>3 DEF Reader
  <2> QED
    BY <2>1 DEF BusyInv
<1>9. Steady
  BY DEF Steady, Active, IInv, OwnerInv, FrameInv
<1>10. QueueInv'
  <2>1. ASSUME NEW p, Queued(p), ~(p[1] = "done" /\ p[2] = c) PROVE Queued(p)'
    <3>1. p[2] \in Reads
      BY <2>1 DEF Queued, IInv, TypeInv
    <3> QED
      BY <1>4, <1>5, <2>1, <3>1 DEF Queued
  <2>2. ASSUME NEW i \in 1 .. Len(ready') PROVE Queued(ready[i])'
    <3>1. PICK p : p = ready'[i]
      OBVIOUS
    <3>2. i + 1 \in 1 .. Len(ready) /\ i + 1 # 1 /\ p = ready[i + 1]
      BY <1>3, <3>1
    <3>3. Queued(p) /\ ~(p[1] = "done" /\ p[2] = c)
      BY <1>2, <1>3, <3>2 DEF Once
    <3>4. Queued(p)'
      BY <2>1, <3>3
    <3> QED
      BY <3>1, <3>4 DEF Queued
  <2> QED
    BY <1>3, <2>2 DEF QueueInv, Once
<1> QED
  BY <1>6, <1>7, <1>8, <1>9, <1>10, SteadyKeeps DEF IInv

(* PythonStreamReadCallback. *)
LEMMA LoopDoneKeeps ==
  ASSUME IInv, LoopDone
  PROVE  IInv'
<1>1. /\ ready # <<>> /\ Head(ready)[1] = "done" /\ ready' = Tail(ready)
      /\ UNCHANGED <<deferred, task, guard, found, reply, consumed, held, ended, trailed,
                     decodedMode, iterated, async>>
  BY DEF LoopDone, bodyVars, modeVars
<1>2. PICK c : c = Head(ready)[2]
  OBVIOUS
<1>3. /\ c \in async /\ c \in Reads /\ call[c] \in {"wait", "unwatched"}
      /\ reply[c].kind \in Outcomes \cup {"cancelled"}
  BY <1>1, <1>2, NextCallback
<1>4. /\ got' = got \cup FramesOf(reply[c])
      /\ call' = [call EXCEPT ![c] = "returned"] /\ result' = [result EXCEPT ![c] = reply[c].kind]
      /\ \/ /\ call[c] = "unwatched"
            /\ UNCHANGED <<terminal, registered, readTask, notifyDue, hasBody, hasDecoder,
                           transport, permit, finished, readInProgress, aborted>>
         \/ /\ call[c] # "unwatched" /\ reply[c].kind = "cancelled"
            /\ aborted' = aborted \cup {c} /\ Finish("cancelled", TRUE) /\ UNCHANGED readInProgress
         \/ /\ call[c] # "unwatched" /\ reply[c].kind # "cancelled"
            /\ FinishDelivery
            /\ UNCHANGED <<terminal, registered, notifyDue, hasBody, hasDecoder, transport, permit,
                           finished, aborted>>
  BY <1>2 DEF LoopDone, Return, Goto
<1>5. FinishOrNot
  BY <1>4 DEF FinishOrNot
<1>6. /\ readTask' \in Reads \cup {NoRead} /\ notifyDue' \subseteq Reads
      /\ readInProgress' \in BOOLEAN /\ aborted' \subseteq Reads
      /\ notifyDue' = notifyDue \/ terminal' # "none"
      /\ reply[c].kind = "cancelled" => terminal' # "none"
      /\ terminal' = "none" => FinishDelivery
  <2>1. call[c] = "unwatched" => terminal # "none"
    BY <1>3 DEF IInv, ReadInv
  <2>2. CASE Finish("cancelled", TRUE) /\ aborted' = aborted \cup {c} /\ UNCHANGED readInProgress
    <3>1. terminal' # "none" /\ readTask' \in Reads \cup {NoRead} /\ notifyDue' \subseteq Reads
      BY <2>2, FinishFacts DEF IInv, Finishes
    <3> QED
      BY <1>3, <2>2, <3>1 DEF IInv, TypeInv
  <2>3. CASE FinishDelivery /\ UNCHANGED <<terminal, notifyDue, aborted>> /\ reply[c].kind # "cancelled"
    BY <2>3 DEF FinishDelivery, IInv, TypeInv
  <2>4. CASE call[c] = "unwatched" /\ UNCHANGED <<terminal, readTask, notifyDue, readInProgress, aborted>>
    BY <2>1, <2>4 DEF IInv, TypeInv
  <2> QED
    BY <1>4, <2>2, <2>3, <2>4
<1>7. terminal' = "success" => terminal = "success"
  BY <1>5, EndFacts
<1>8. GapInv' /\ got' \subseteq 1 .. MaxFrames
  BY <1>1, <1>3, <1>4, <1>7, ReturnGap
<1> QED
  BY <1>1, <1>2, <1>3, <1>4, <1>5, <1>6, <1>8, CallbackKeeps

(* A task that is cancelled with its result at hand. *)
LEMMA WakeCancelledKeeps ==
  ASSUME IInv, WakeCancelled
  PROVE  IInv'
<1>1. /\ ready # <<>> /\ Head(ready)[1] = "done" /\ ready' = Tail(ready)
      /\ UNCHANGED <<deferred, task, guard, found, aborted, reply, consumed, held, ended, trailed,
                     decodedMode, iterated, async, got>>
  BY DEF WakeCancelled, bodyVars, modeVars
<1>2. PICK c : c = Head(ready)[2]
  OBVIOUS
<1>3. /\ c \in async /\ c \in Reads /\ call[c] \in {"wait", "unwatched"}
  BY <1>1, <1>2, NextCallback
<1>4. /\ reply[c].kind # "cancelled"
      /\ call' = [call EXCEPT ![c] = "returned"] /\ result' = [result EXCEPT ![c] = "cancelled"]
      /\ \/ readInProgress' = FALSE /\ Finish("cancelled", FALSE)
         \/ /\ FinishDelivery
            /\ UNCHANGED <<terminal, registered, notifyDue, hasBody, hasDecoder, transport, permit,
                           finished>>
  BY <1>2 DEF WakeCancelled, Return, Goto
<1>5. FinishOrNot
  BY <1>4 DEF FinishOrNot
<1>6. /\ readTask' \in Reads \cup {NoRead} /\ notifyDue' \subseteq Reads
      /\ readInProgress' \in BOOLEAN /\ notifyDue' = notifyDue
      /\ terminal' = "none" => FinishDelivery
  <2>1. CASE readInProgress' = FALSE /\ Finish("cancelled", FALSE)
    <3>1. /\ terminal' # "none" /\ readTask' \in Reads \cup {NoRead} /\ notifyDue' \subseteq Reads
          /\ notifyDue' = notifyDue
      BY <2>1, FinishFacts DEF IInv, Finishes
    <3> QED
      BY <2>1, <3>1
  <2>2. CASE FinishDelivery /\ UNCHANGED <<terminal, notifyDue>>
    BY <2>2 DEF FinishDelivery, IInv, TypeInv
  <2> QED
    BY <1>4, <2>1, <2>2
<1>7. GapInv'
  <2>1. terminal' = "success" => terminal = "success"
    BY <1>5, EndFacts
  <2>2. /\ call'[c] = "returned" /\ result'[c] = "cancelled" /\ result[c] # "chunk"
        /\ \A d \in Reads \ {c} : call'[d] = call[d] /\ result'[d] = result[d]
    BY <1>3, <1>4 DEF IInv, TypeInv, GapInv
  <2>3. GapSteady
    BY <1>1, <1>3, <2>1, <2>2 DEF GapSteady, Active, Sent
  <2> QED
    BY <2>3, GapKeeps
<1>8. got' \subseteq 1 .. MaxFrames /\ aborted' \subseteq Reads
  BY <1>1 DEF IInv, TypeInv
<1> QED
  BY <1>1, <1>2, <1>4, <1>5, <1>6, <1>7, <1>8, CallbackKeeps

--------------------------------------------------------------------------------
(* The first step of a read. *)

(* Nobody is waiting for a frame when an iterator calls. *)
LEMMA StartGap ==
  ASSUME IInv, NEW c \in Reads, NEW kind, NEW to \in {"register", "returned"}, call[c] = "idle",
         MayCall(kind), call' = [call EXCEPT ![c] = to],
         UNCHANGED <<terminal, found, consumed, held, decodedMode, iterated, got>>,
         \A d \in Reads \ {c} : task'[d] = task[d] /\ result'[d] = result[d],
         \/ to = "register" /\ task'[c] = "gated" /\ result'[c] = result[c]
         \/ to = "returned" /\ task'[c] = task[c] /\ result'[c] \in {"eof", "error", "busy"}
  PROVE  GapInv'
<1>1. task[c] = "none" /\ result[c] = "none"
  BY DEF IInv, ReadInv
<1>2. call'[c] = to /\ \A d \in Reads \ {c} : call'[d] = call[d]
  BY DEF IInv, TypeInv
<1>3. \A d \in Reads : /\ result'[d] = "chunk" => call'[d] = "returned"
                       /\ result'[d] \in {"chunk", "eof"} => ~Active(d)'
  BY <1>1, <1>2 DEF IInv, GapInv, Active, Working
<1>4. ASSUME iterated
      PROVE  /\ \E n \in 0 .. MaxFrames : got' = 1 .. n
             /\ \A d, e \in Reads : Pending(d)' /\ Pending(e)' => d = e
             /\ \A d \in Reads : Pending(d)' => FlightInv(d)'
             /\ (\A d \in Reads : ~Pending(d)') => got' = 1 .. Out'
  <2>1. \A d \in Reads : ~Pending(d)
    BY <1>4 DEF MayCall, Pending
  <2>2. got = 1 .. Out /\ \E n \in 0 .. MaxFrames : got = 1 .. n
    BY <1>4, <2>1 DEF IInv, GapInv
  <2>3. \A d \in Reads \ {c} : ~Pending(d)'
    BY <1>2, <2>1 DEF Pending
  <2>4. Pending(c)'
    BY <1>1, <1>2 DEF Pending
  <2>5. Out' = Out
    BY DEF Out
  <2>6. terminal = "success" => Out = consumed
    BY StreamAssumption DEF Out, IInv, FrameInv, TypeInv
  <2>7. task'[c] \in {"none", "gated"} /\ ~Sent(c)'
    BY <1>1 DEF Sent
  <2>8. FlightInv(c)'
    BY <2>2, <2>5, <2>6, <2>7 DEF FlightInv
  <2> QED
    BY <2>2, <2>3, <2>4, <2>8
<1> QED
  BY <1>3, <1>4 DEF GapInv

(* start_read. *)
LEMMA StartReadKeeps ==
  ASSUME IInv, NEW c \in Reads, NEW kind, StartRead(c, kind)
  PROVE  IInv'
<1>1. /\ call[c] = "idle" /\ MayCall(kind)
      /\ async' = async \/ async' = async \cup {c}
      /\ UNCHANGED <<terminal, transport, permit, registered, readTask, finished, found,
                     aborted, reply, ready, notifyDue, consumed, held, ended, trailed, decodedMode,
                     iterated, got>>
  BY DEF StartRead, loopVars
<1>2. /\ task[c] = "none" /\ result[c] = "none" /\ reply[c].kind = "none" /\ found[c] = Nothing
  BY <1>1 DEF IInv, ReadInv
<1>3. /\ call \in [Reads -> CallSteps] /\ task \in [Reads -> TaskSteps]
      /\ result \in [Reads -> {"none", "chunk", "eof", "error", "busy", "cancelled"}]
      /\ guard \in [Reads -> SUBSET {"body", "decoder", "error"}]
  BY DEF IInv, TypeInv
<1>4. ASSUME NEW answer \in {"eof", "error", "busy"}, Return(c, answer),
             UNCHANGED <<hasBody, hasDecoder, readInProgress, deferred, task, guard>>
      PROVE  IInv'
  <2>1. /\ call' = [call EXCEPT ![c] = "returned"] /\ result' = [result EXCEPT ![c] = answer]
    BY <1>4 DEF Return, Goto
  <2>2. /\ call' \in [Reads -> CallSteps] /\ call'[c] = "returned" /\ result'[c] = answer
        /\ result' \in [Reads -> {"none", "chunk", "eof", "error", "busy", "cancelled"}]
        /\ \A d \in Reads \ {c} : call'[d] = call[d] /\ result'[d] = result[d]
    BY <1>3, <2>1 DEF CallSteps
  <2>3. TypeInv'
    BY <1>1, <1>4, <2>2 DEF IInv, TypeInv
  <2>4. ASSUME NEW d \in Reads PROVE ReadInv(d)'
    <3>1. ReadInv(d)
      BY DEF IInv
    <3>2. CASE d # c
      BY <1>1, <1>4, <2>2, <3>1, <3>2 DEF ReadInv, Active, Reader
    <3>3. CASE d = c
      BY <1>1, <1>2, <1>4, <2>2, <3>1, <3>3 DEF ReadInv, Active, Working, Outcomes
    <3> QED
      BY <3>2, <3>3
  <2>5. BusyInv'
    <3>1. \A d \in Reads : Reader(d)' <=> Reader(d)
      BY <1>1, <2>2 DEF Reader
    <3> QED
      BY <1>1, <1>4, <3>1 DEF IInv, BusyInv
  <2>6. Steady
    BY <1>1, <1>4 DEF Steady, FinishOrNot, Active, IInv, OwnerInv, FrameInv
  <2>7. QueueInv'
    <3>1. QueueSteady
      BY <1>1, <1>4, <2>2 DEF QueueSteady, IInv, TypeInv
    <3> QED
      BY <1>1, <2>3, <3>1, QueueKeeps
  <2>8. GapInv'
    BY <1>1, <1>4, <2>1, <2>2, StartGap
  <2> QED
    BY <2>3, <2>4, <2>5, <2>6, <2>7, <2>8, SteadyKeeps DEF IInv
<1>5. ASSUME terminal = "none", ~readInProgress, readInProgress' = TRUE,
             \/ /\ deferred /\ guard' = [guard EXCEPT ![c] = {"error"}]
                /\ deferred' = FALSE /\ UNCHANGED <<hasBody, hasDecoder>>
             \/ /\ ~deferred
                /\ guard' = [guard EXCEPT ![c] = {x \in {"body"} : hasBody}
                                                 \cup {x \in {"decoder"} : hasDecoder}]
                /\ hasBody' = FALSE /\ hasDecoder' = FALSE /\ UNCHANGED deferred,
             task' = [task EXCEPT ![c] = "gated"], call' = [call EXCEPT ![c] = "register"],
             UNCHANGED result
      PROVE  IInv'
  <2>1. /\ call' \in [Reads -> CallSteps] /\ task' \in [Reads -> TaskSteps]
        /\ call'[c] = "register" /\ task'[c] = "gated"
        /\ \A d \in Reads \ {c} : call'[d] = call[d] /\ task'[d] = task[d]
    BY <1>3, <1>5 DEF CallSteps, TaskSteps, Working
  <2>2. /\ guard' \in [Reads -> SUBSET {"body", "decoder", "error"}]
        /\ \A d \in Reads \ {c} : guard'[d] = guard[d]
        /\ "body" \in guard'[c] => ~hasBody'
        /\ "decoder" \in guard'[c] => ~hasDecoder'
        /\ ~deferred => ~hasBody' /\ ~deferred' /\ (hasBody => "body" \in guard'[c])
        /\ hasBody' \in BOOLEAN /\ hasDecoder' \in BOOLEAN /\ deferred' \in BOOLEAN
    <3>1. CASE deferred
      <4>1. guard' = [guard EXCEPT ![c] = {"error"}] /\ UNCHANGED <<hasBody, hasDecoder>> /\ deferred' = FALSE
        BY <1>5, <3>1
      <4>2. guard'[c] = {"error"}
        BY <1>3, <4>1
      <4> QED
        BY <1>3, <3>1, <4>1, <4>2 DEF IInv, TypeInv
    <3>2. CASE ~deferred
      <4>1. PICK taken \in SUBSET {"body", "decoder"} :
              taken = {x \in {"body"} : hasBody} \cup {x \in {"decoder"} : hasDecoder}
        OBVIOUS
      <4>2. guard' = [guard EXCEPT ![c] = taken]
        BY <1>5, <3>2, <4>1
      <4>3. hasBody => "body" \in taken
        BY <4>1
      <4>4. /\ guard'[c] = taken /\ \A d \in Reads \ {c} : guard'[d] = guard[d]
            /\ guard' \in [Reads -> SUBSET {"body", "decoder", "error"}]
        BY <1>3, <4>2
      <4>5. hasBody' = FALSE /\ hasDecoder' = FALSE /\ deferred' = deferred
        BY <1>5, <3>2
      <4>6. deferred' \in BOOLEAN
        BY <4>5 DEF IInv, TypeInv
      <4> QED
        BY <3>2, <4>3, <4>4, <4>5, <4>6
    <3> QED
      BY <3>1, <3>2
  <2>3. TypeInv'
    BY <1>1, <1>5, <2>1, <2>2 DEF IInv, TypeInv
  <2>4. \A d \in Reads : ~Reader(d) /\ ~Active(d) /\ guard[d] = {}
    BY <1>5 DEF IInv, BusyInv, ReadInv, OwnerInv
  <2>5. /\ Reader(c)' /\ Active(c)'
        /\ \A d \in Reads \ {c} : ~Reader(d)' /\ ~Active(d)' /\ guard'[d] = {}
    BY <2>1, <2>2, <2>4 DEF Reader, Active, Working
  <2>6. ASSUME NEW d \in Reads PROVE ReadInv(d)'
    <3>1. ReadInv(d)
      BY DEF IInv
    <3>2. CASE d # c
      BY <1>1, <1>5, <2>1, <2>5, <3>1, <3>2 DEF ReadInv
    <3>3. CASE d = c
      BY <1>1, <1>2, <2>1, <2>5, <3>1, <3>3 DEF ReadInv, Outcomes
    <3> QED
      BY <3>2, <3>3
  <2>7. BusyInv' /\ OwnerInv'
    BY <1>5, <2>2, <2>5 DEF BusyInv, OwnerInv
  <2>8. EndInv'
    BY <1>1, <1>5 DEF IInv, EndInv
  <2>9. CleanInv'
    <3>1. \A d \in Reads : task'[d] # "end"
      BY <2>1, <2>4 DEF Active, Working
    <3>2. decodedMode => ~deferred /\ (ended \/ hasBody)
      BY <1>5, <2>4 DEF IInv, CleanInv
    <3>3. transport' = "clean" => ended'
      BY <1>1 DEF IInv, CleanInv
    <3> QED
      BY <1>1, <2>2, <3>1, <3>2, <3>3 DEF CleanInv
  <2>10. FrameInv'
    <3>1. \A d \in Reads : task'[d] \notin Decoding /\ task'[d] # "data"
      BY <2>1, <2>4 DEF Active, Working, Decoding
    <3> QED
      BY <1>1, <1>5, <3>1 DEF IInv, FrameInv
  <2>11. QueueInv'
    <3>1. QueueSteady
      BY <1>1, <1>2, <2>1 DEF QueueSteady, IInv, TypeInv
    <3> QED
      BY <1>1, <2>3, <3>1, QueueKeeps
  <2>12. GapInv'
    BY <1>1, <1>5, <2>1, StartGap
  <2> QED
    BY <2>3, <2>6, <2>7, <2>8, <2>9, <2>10, <2>11, <2>12 DEF IInv
<1>6. CASE \E answer \in {"eof", "error", "busy"} :
             Return(c, answer) /\ UNCHANGED <<hasBody, hasDecoder, readInProgress, deferred, task, guard>>
  BY <1>4, <1>6
<1>7. CASE ~(\E answer \in {"eof", "error", "busy"} :
               Return(c, answer) /\ UNCHANGED <<hasBody, hasDecoder, readInProgress, deferred, task, guard>>)
  <2>1. /\ terminal = "none" /\ ~readInProgress /\ readInProgress' = TRUE
        /\ \/ /\ deferred /\ guard' = [guard EXCEPT ![c] = {"error"}]
              /\ deferred' = FALSE /\ UNCHANGED <<hasBody, hasDecoder>>
           \/ /\ ~deferred
              /\ guard' = [guard EXCEPT ![c] = {x \in {"body"} : hasBody}
                                               \cup {x \in {"decoder"} : hasDecoder}]
              /\ hasBody' = FALSE /\ hasDecoder' = FALSE /\ UNCHANGED deferred
        /\ task' = [task EXCEPT ![c] = "gated"] /\ call' = [call EXCEPT ![c] = "register"]
        /\ UNCHANGED result
    BY <1>7 DEF StartRead, TaskTo, Goto
  <2> QED
    BY <1>5, <2>1
<1> QED
  BY <1>6, <1>7

--------------------------------------------------------------------------------
(* The inductive invariant. *)

(* A stream that was just opened. *)
LEMMA InitIInv == Init => IInv
<1> SUFFICES ASSUME Init PROVE IInv
  OBVIOUS
<1>1. Nothing \in Replies /\ Nothing.kind = "none"
  BY ReplyKinds
<1>2. /\ terminal = "none" /\ ready = <<>> /\ consumed = 0 /\ held = 0 /\ got = {} /\ ended = FALSE
      /\ transport = "open" /\ readInProgress = FALSE /\ deferred = FALSE /\ hasBody = TRUE
      /\ notifyDue = {} /\ async = {} /\ finished = <<0, 0>>
      /\ \A c \in Reads : /\ call[c] = "idle" /\ result[c] = "none" /\ task[c] = "none"
                          /\ guard[c] = {} /\ found[c] = Nothing /\ reply[c] = Nothing
  BY DEF Init
<1>3. TypeInv
  <2>1. consumed \in 0 .. MaxFrames /\ held \in 0 .. MaxFrames
    BY <1>2, StreamAssumption
  <2>2. ready \in Seq(Ops)
    BY <1>2
  <2>3. /\ call \in [Reads -> CallSteps] /\ task \in [Reads -> TaskSteps]
        /\ result \in [Reads -> {"none", "chunk", "eof", "error", "busy", "cancelled"}]
        /\ guard \in [Reads -> SUBSET {"body", "decoder", "error"}]
        /\ found \in [Reads -> Replies] /\ reply \in [Reads -> Replies]
    BY <1>1 DEF Init, CallSteps, TaskSteps
  <2> QED
    BY <2>1, <2>2, <2>3 DEF Init, TypeInv, Finishes
<1>4. \A c \in Reads : ReadInv(c)
  BY <1>1, <1>2 DEF ReadInv, Active, Working, Outcomes
<1>5. BusyInv
  BY <1>2 DEF BusyInv, Reader
<1>6. OwnerInv
  BY <1>2 DEF OwnerInv, Active, Working
<1>7. EndInv
  BY <1>2 DEF EndInv
<1>8. CleanInv
  BY <1>2 DEF CleanInv, Active, Working
<1>9. FrameInv
  BY <1>2 DEF FrameInv, Active, Working, Decoding
<1>10. QueueInv
  BY <1>2 DEF QueueInv
<1>11. GapInv
  <2>1. \A c \in Reads : ~Pending(c)
    BY <1>2 DEF Pending
  <2>2. got = 1 .. 0 /\ 0 \in 0 .. MaxFrames
    BY <1>2, StreamAssumption
  <2>3. Out = 0
    BY <1>2 DEF Out
  <2>4. \A c \in Reads : result[c] \notin {"chunk", "eof"}
    BY <1>2
  <2> QED
    BY <2>1, <2>2, <2>3, <2>4 DEF GapInv
<1> QED
  BY <1>3, <1>4, <1>5, <1>6, <1>7, <1>8, <1>9, <1>10, <1>11 DEF IInv

(* Nothing happens. *)
LEMMA StutterKeeps ==
  ASSUME IInv, UNCHANGED vars
  PROVE  IInv'
<1>1. UNCHANGED <<terminal, hasBody, hasDecoder, transport, permit, registered, readTask,
                  readInProgress, deferred, finished, call, result, task, guard, found, aborted,
                  reply, ready, notifyDue, consumed, held, ended, trailed, decodedMode, iterated,
                  async, got>>
  BY DEF vars, fieldVars, callVars, taskVars, loopVars, bodyVars, modeVars
<1>2. TypeInv'
  BY <1>1 DEF IInv, TypeInv
<1>3. ASSUME NEW d \in Reads PROVE ReadInv(d)'
  <2>1. ReadInv(d)
    BY DEF IInv
  <2> QED
    BY <1>1, <2>1 DEF ReadInv, Active, Reader
<1>4. BusyInv'
  BY <1>1 DEF IInv, BusyInv, Reader
<1>5. Steady
  BY <1>1 DEF Steady, FinishOrNot, Active, IInv, OwnerInv, FrameInv
<1>6. QueueInv'
  BY <1>1, <1>2, QueueKeeps DEF QueueSteady
<1>7. GapSteady
  BY <1>1 DEF GapSteady, Active, Sent
<1> QED
  BY <1>2, <1>3, <1>4, <1>5, <1>6, <1>7, SteadyKeeps, GapKeeps DEF IInv

(* Every step of the stream. *)
LEMMA NextIInv == IInv /\ [Next]_vars => IInv'
<1> SUFFICES ASSUME IInv, [Next]_vars PROVE IInv'
  OBVIOUS
<1>1. ASSUME NEW c \in Reads, NEW kind \in {"sync", "async"}, StartRead(c, kind) PROVE IInv'
  BY <1>1, StartReadKeeps
<1>2. ASSUME NEW c \in Reads, ReadStep(c) \/ BodyStep(c) PROVE IInv'
  <2>1. CASE RegisterRead(c)
    BY <2>1, RegisterKeeps
  <2>2. CASE StartTask(c)
    BY <2>2, StartTaskKeeps
  <2>3. CASE ReceiveResult(c)
    BY <2>3, ReceiveKeeps
  <2>4. CASE FailRead(c)
    BY <2>4, FailKeeps
  <2>5. CASE TaskDropped(c)
    BY <2>5, DroppedKeeps
  <2>6. CASE SendResult(c)
    BY <2>6, SendKeeps
  <2>7. CASE DeferredError(c) \/ ReadTimeout(c) \/ BodyFailure(c) \/ StepError(c) \/ RawEnd(c)
               \/ StepFinished(c)
    BY <2>7, FinishingSteps, TaskKeeps DEF TaskStep
  <2>8. CASE Trailers(c) \/ DecodedData(c) \/ StepOther(c) \/ Resume(c) \/ DecodeBody(c) \/ DecodedEnd(c)
    BY <2>8, WorkingSteps, TaskKeeps DEF TaskStep
  <2>9. CASE DecodeOpen(c) \/ \E event \in Events : Frame(c, event)
    BY <2>9, WorkingSteps, ClosedSteps, TaskKeeps DEF TaskStep
  <2>10. CASE RawData(c) \/ StepOutput(c)
    BY <2>10, DataSteps, ClosedSteps, TaskKeeps DEF TaskStep
  <2> QED
    BY <1>2, <2>1, <2>2, <2>3, <2>4, <2>5, <2>6, <2>7, <2>8, <2>9, <2>10 DEF ReadStep, BodyStep
<1>3. ASSUME NEW c \in Reads, AbortAndNotify(c) PROVE IInv'
  BY <1>3, AbortKeeps
<1>4. ASSUME NEW c \in Reads, UserCancel(c) PROVE IInv'
  BY <1>4, UserCancelKeeps
<1>5. ASSUME NEW reason \in {"closed", "cancelled"}, Close(reason) PROVE IInv'
  BY <1>5, CloseKeeps
<1>6. CASE Loop
  BY <1>6, LoopResolveKeeps, LoopDoneKeeps, WakeCancelledKeeps DEF Loop
<1>7. CASE UNCHANGED vars
  BY <1>7, StutterKeeps
<1> QED
  BY <1>1, <1>2, <1>3, <1>4, <1>5, <1>6, <1>7 DEF Next

(* The inductive invariant holds in every reachable state. *)
LEMMA Invariance == Spec => []IInv
  BY InitIInv, NextIInv, PTL DEF Spec

--------------------------------------------------------------------------------
(* The theorems. *)

(* No step changes how a stream has ended. *)
LEMMA OutcomeStays ==
  ASSUME [Next]_vars, terminal # "none"
  PROVE  UNCHANGED <<terminal, transport, finished, permit, registered>>
<1>1. ASSUME NEW outcome, NEW abortRead, Finish(outcome, abortRead)
      PROVE  UNCHANGED <<terminal, transport, finished, permit, registered>>
  BY <1>1 DEF Finish
<1>2. ASSUME NEW c \in Reads, ReadStep(c)
      PROVE  UNCHANGED <<terminal, transport, finished, permit, registered>>
  <2>1. CASE RegisterRead(c) \/ ReceiveResult(c) \/ SendResult(c) \/ Trailers(c) \/ DecodeOpen(c)
               \/ DecodedData(c) \/ StepOutput(c) \/ StepOther(c) \/ Resume(c)
    BY <2>1 DEF RegisterRead, ReceiveResult, SendResult, Trailers, DecodeOpen, DecodedData,
                StepOutput, StepOther, Resume, fieldVars
  <2>2. CASE FailRead(c) \/ TaskDropped(c) \/ DeferredError(c) \/ BodyFailure(c) \/ RawEnd(c)
               \/ StepError(c) \/ StepFinished(c)
    <3>1. \E outcome, abortRead : Finish(outcome, abortRead)
      BY <2>2 DEF FailRead, TaskDropped, DeferredError, BodyFailure, RawEnd, StepError, StepFinished
    <3> QED
      BY <1>1, <3>1
  <2>3. CASE StartTask(c) \/ RawData(c)
    <3>1. \/ Finish("error", TRUE) \/ Finish("success", FALSE)
          \/ UNCHANGED <<terminal, transport, finished, permit, registered>>
      BY <2>3 DEF StartTask, RawData
    <3> QED
      BY <1>1, <3>1
  <2>4. CASE DecodeBody(c) \/ DecodedEnd(c)
    BY <2>4 DEF DecodeBody, DecodedEnd, TransportEnd
  <2> QED
    BY <1>2, <2>1, <2>2, <2>3, <2>4 DEF ReadStep
<1>3. ASSUME NEW c \in Reads, BodyStep(c)
      PROVE  UNCHANGED <<terminal, transport, finished, permit, registered>>
  <2>1. Finish("error", FALSE) \/ UNCHANGED <<terminal, transport, finished, permit, registered>>
    BY <1>3 DEF BodyStep, ReadTimeout, Frame, fieldVars
  <2> QED
    BY <1>1, <2>1
<1>4. ASSUME NEW c \in Reads, NEW kind, StartRead(c, kind)
      PROVE  UNCHANGED <<terminal, transport, finished, permit, registered>>
  BY <1>4 DEF StartRead
<1>5. ASSUME NEW c \in Reads, AbortAndNotify(c) \/ UserCancel(c)
      PROVE  UNCHANGED <<terminal, transport, finished, permit, registered>>
  BY <1>5 DEF AbortAndNotify, UserCancel, fieldVars
<1>6. ASSUME NEW reason, Close(reason)
      PROVE  UNCHANGED <<terminal, transport, finished, permit, registered>>
  BY <1>1, <1>6 DEF Close
<1>7. CASE Loop
  <2>1. Finish("cancelled", TRUE) \/ UNCHANGED <<terminal, transport, finished, permit, registered>>
    <3>1. CASE LoopResolve \/ LoopDone
      BY <3>1 DEF LoopResolve, LoopDone, fieldVars
    <3>2. CASE WakeCancelled
      BY <3>2 DEF WakeCancelled
    <3> QED
      BY <1>7, <3>1, <3>2 DEF Loop
  <2> QED
    BY <1>1, <2>1
<1>8. CASE UNCHANGED vars
  BY <1>8 DEF vars, fieldVars
<1> QED
  BY <1>2, <1>3, <1>4, <1>5, <1>6, <1>7, <1>8 DEF Next

(* A cancelled read has returned, and has ended the stream unless its future *)
(* was done and nobody iterates.                                             *)
CancelInv(c) ==
  result[c] = "cancelled" => /\ call[c] = "returned"
                             /\ iterated \/ reply[c].kind = "cancelled" => terminal # "none"

(* Only the callback of a future ends a read as cancelled, and no other step *)
(* cancels the future of a read that has returned.                           *)
LEMMA CancelSteps ==
  ASSUME IInv, [Next]_vars, NEW c \in Reads, CancelInv(c)
  PROVE  CancelInv(c)'
<1> DEFINE Keeps == /\ UNCHANGED iterated
                    /\ result'[c] = "cancelled" => result[c] = "cancelled"
                    /\ call[c] = "returned" => call'[c] = "returned"
                    /\ reply'[c].kind = "cancelled" => \/ reply[c].kind = "cancelled"
                                                       \/ call[c] # "returned"
<1>1. terminal # "none" => terminal' # "none"
  BY OutcomeStays
<1>2. ASSUME Keeps PROVE CancelInv(c)'
  BY <1>1, <1>2 DEF CancelInv
<1> HIDE DEF Keeps
<1>3. ReadInv(c) /\ TypeInv
  BY DEF IInv
<1>4. ASSUME NEW d \in Reads, NEW kind, StartRead(d, kind) PROVE Keeps
  <2>1. /\ call[d] = "idle" /\ UNCHANGED <<iterated, reply>>
        /\ \/ UNCHANGED result
           \/ \E answer \in {"eof", "error", "busy"} : result' = [result EXCEPT ![d] = answer]
        /\ \E to : call' = [call EXCEPT ![d] = to]
    BY <1>4 DEF StartRead, Return, Goto, loopVars
  <2> QED
    BY <1>3, <2>1 DEF Keeps, TypeInv
<1>5. ASSUME NEW d \in Reads, ReadStep(d) \/ BodyStep(d) PROVE Keeps
  <2>1. CASE RegisterRead(d)
    <3>1. /\ call[d] = "register" /\ UNCHANGED iterated
          /\ reply' = [reply EXCEPT ![d] = Only("pending")]
          /\ UNCHANGED result \/ result' = [result EXCEPT ![d] = "error"]
          /\ \E to : call' = [call EXCEPT ![d] = to]
      BY <2>1 DEF RegisterRead, Return, Goto, bodyVars, modeVars
    <3>2. Only("pending").kind = "pending"
      BY ReplyKinds
    <3> QED
      BY <1>3, <3>1, <3>2 DEF Keeps, TypeInv
  <2>2. CASE StartTask(d) \/ FailRead(d)
    <3>1. /\ call[d] \in {"start", "failing"} /\ UNCHANGED <<iterated, reply>>
          /\ UNCHANGED result \/ result' = [result EXCEPT ![d] = "error"]
          /\ \E to : call' = [call EXCEPT ![d] = to]
      BY <2>2 DEF StartTask, FailRead, Return, Goto, bodyVars, modeVars, loopVars
    <3> QED
      BY <1>3, <3>1 DEF Keeps, TypeInv
  <2>3. CASE ReceiveResult(d)
    <3>1. /\ call[d] = "wait" /\ UNCHANGED <<iterated, reply>> /\ d \notin async
          /\ UNCHANGED result \/ result' = [result EXCEPT ![d] = reply[d].kind]
          /\ \E to : call' = [call EXCEPT ![d] = to]
      BY <2>3 DEF ReceiveResult, Return, Goto, bodyVars, modeVars, loopVars
    <3>2. reply[d].kind # "cancelled"
      BY <3>1 DEF IInv, ReadInv
    <3> QED
      BY <1>3, <3>1, <3>2 DEF Keeps, TypeInv
  <2>4. CASE TaskDropped(d) \/ SendResult(d)
    <3>1. /\ UNCHANGED <<iterated, call, result>>
          /\ \/ UNCHANGED reply
             \/ reply' = [reply EXCEPT ![d] = Only("dropped")]
             \/ task[d] = "deliver" /\ reply' = [reply EXCEPT ![d] = found[d]]
      BY <2>4 DEF TaskDropped, SendResult, callVars, bodyVars, modeVars
    <3>2. Only("dropped").kind = "dropped" /\ (task[d] = "deliver" => found[d].kind \in Outcomes)
      BY ReplyKinds DEF IInv, ReadInv
    <3> QED
      BY <1>3, <3>1, <3>2 DEF Keeps, TypeInv, Outcomes
  <2>5. CASE ~(RegisterRead(d) \/ StartTask(d) \/ FailRead(d) \/ ReceiveResult(d) \/ TaskDropped(d)
               \/ SendResult(d))
    <3>1. UNCHANGED <<iterated, call, result, reply>>
      <4>1. CASE DeferredError(d) \/ Trailers(d) \/ BodyFailure(d) \/ RawEnd(d)
        BY <4>1 DEF DeferredError, Trailers, BodyFailure, RawEnd, callVars, loopVars, bodyVars, modeVars
      <4>2. CASE RawData(d) \/ DecodeOpen(d) \/ DecodeBody(d) \/ DecodedData(d) \/ DecodedEnd(d)
        BY <4>2 DEF RawData, DecodeOpen, DecodeBody, DecodedData, DecodedEnd, callVars, loopVars,
                    bodyVars, modeVars
      <4>3. CASE StepError(d) \/ StepOutput(d) \/ StepFinished(d) \/ StepOther(d) \/ Resume(d)
        BY <4>3 DEF StepError, StepOutput, StepFinished, StepOther, Resume, callVars, loopVars,
                    bodyVars, modeVars
      <4>4. CASE BodyStep(d)
        BY <4>4 DEF BodyStep, ReadTimeout, Frame, callVars, loopVars, bodyVars, modeVars
      <4> QED
        BY <1>5, <2>5, <4>1, <4>2, <4>3, <4>4 DEF ReadStep
    <3> QED
      BY <3>1 DEF Keeps
  <2> QED
    BY <2>1, <2>2, <2>3, <2>4, <2>5
<1>6. ASSUME NEW d \in Reads, AbortAndNotify(d) PROVE Keeps
  BY <1>6 DEF Keeps, AbortAndNotify, callVars, bodyVars, modeVars
<1>7. ASSUME NEW reason, Close(reason) PROVE Keeps
  BY <1>7 DEF Keeps, Close, callVars, loopVars, bodyVars, modeVars
<1>8. ASSUME NEW d \in Reads, UserCancel(d) PROVE Keeps
  <2>1. /\ reply[d].kind = "pending" /\ d \in async /\ UNCHANGED <<iterated, call, result>>
        /\ reply' = [reply EXCEPT ![d] = Only("cancelled")]
    BY <1>8 DEF UserCancel, Resolve, callVars, bodyVars, modeVars
  <2>2. call[d] # "returned"
    BY <2>1 DEF IInv, ReadInv
  <2> QED
    BY <1>3, <2>1, <2>2 DEF Keeps, TypeInv
<1>9. ASSUME LoopResolve PROVE Keeps
  <2>1. UNCHANGED <<iterated, call, result>>
    BY <1>9 DEF LoopResolve, callVars, bodyVars, modeVars
  <2>2. PICK d : d = Head(ready)[2]
    OBVIOUS
  <2>3. PICK r : \/ UNCHANGED reply
                 \/ reply[d].kind = "pending" /\ reply' = [reply EXCEPT ![d] = r]
    <3>1. PICK r : r = IF Head(ready)[1] = "set" THEN Head(ready)[3] ELSE Only("cancelled")
      OBVIOUS
    <3>2. UNCHANGED reply \/ (reply[d].kind = "pending" /\ reply' = [reply EXCEPT ![d] = r])
      BY <1>9, <2>2, <3>1 DEF LoopResolve, Resolve
    <3> QED
      BY <3>2, Zenon
  <2>4. CASE UNCHANGED reply
    BY <2>1, <2>4 DEF Keeps
  <2>5. CASE reply[d].kind = "pending" /\ reply' = [reply EXCEPT ![d] = r]
    <3>1. d \in async
      <4>1. ready # <<>> /\ ready \in Seq(Ops) /\ Once(ready)
            /\ \A i \in 1 .. Len(ready) : Queued(ready[i])
        BY <1>9 DEF LoopResolve, IInv, TypeInv, QueueInv, Once
      <4>2. Head(ready) = ready[1] /\ 1 \in 1 .. Len(ready)
        BY <4>1, TailQueue
      <4> QED
        BY <2>2, <4>1, <4>2 DEF Queued
    <3>2. d \in Reads /\ call[d] # "returned"
      BY <2>5, <3>1 DEF IInv, ReadInv, TypeInv
    <3>3. c # d => reply'[c] = reply[c]
      BY <1>3, <2>5, <3>2 DEF TypeInv
    <3> QED
      BY <2>1, <3>2, <3>3 DEF Keeps
  <2> QED
    BY <2>3, <2>4, <2>5
<1>10. CASE LoopDone \/ WakeCancelled
  <2>1. ready # <<>> /\ Head(ready)[1] = "done" /\ UNCHANGED <<reply, iterated>>
    BY <1>10 DEF LoopDone, WakeCancelled, bodyVars, modeVars
  <2>2. PICK d : d = Head(ready)[2]
    OBVIOUS
  <2>3. d \in Reads /\ call[d] \in {"wait", "unwatched"}
    BY <2>1, <2>2, NextCallback
  <2>4. CASE d # c
    <3>1. \E answer : call' = [call EXCEPT ![d] = "returned"] /\ result' = [result EXCEPT ![d] = answer]
      BY <1>10, <2>2 DEF LoopDone, WakeCancelled, Return, Goto
    <3>2. Keeps
      BY <1>3, <2>1, <2>3, <2>4, <3>1 DEF Keeps, TypeInv
    <3> QED
      BY <1>2, <3>2
  <2>5. CASE d = c
    <3>1. call' = [call EXCEPT ![c] = "returned"]
      BY <1>10, <2>2, <2>5 DEF LoopDone, WakeCancelled, Return, Goto
    <3>2. call'[c] = "returned"
      BY <1>3, <3>1 DEF TypeInv
    <3>3. call[c] = "unwatched" => terminal # "none"
      BY <1>3 DEF ReadInv
    <3>4. CASE LoopDone
      <4>1. result'[c] = reply[c].kind
        BY <1>3, <2>2, <2>5, <3>4 DEF LoopDone, Return, TypeInv
      <4>2. reply[c].kind = "cancelled" /\ call[c] # "unwatched" => Finish("cancelled", TRUE)
        BY <2>2, <2>5, <3>4 DEF LoopDone
      <4>3. Finish("cancelled", TRUE) => terminal' # "none"
        BY FinishFacts DEF IInv, Finishes
      <4> QED
        BY <1>1, <3>2, <3>3, <4>1, <4>2, <4>3 DEF CancelInv
    <3>5. CASE WakeCancelled
      <4>1. reply[c].kind # "cancelled"
        BY <2>2, <2>5, <3>5 DEF WakeCancelled
      <4>2. iterated /\ terminal = "none" => Finish("cancelled", FALSE)
        BY <3>5 DEF WakeCancelled
      <4>3. Finish("cancelled", FALSE) => terminal' # "none"
        BY FinishFacts DEF IInv, Finishes
      <4> QED
        BY <1>1, <2>1, <3>2, <4>1, <4>2, <4>3 DEF CancelInv
    <3> QED
      BY <1>10, <3>4, <3>5
  <2> QED
    BY <2>4, <2>5
<1>11. ASSUME UNCHANGED vars PROVE Keeps
  BY <1>11 DEF Keeps, vars, callVars, loopVars, bodyVars, modeVars
<1> QED
  BY <1>2, <1>4, <1>5, <1>6, <1>7, <1>8, <1>9, <1>10, <1>11 DEF Next, Loop

(* Cancelled reads in every reachable state. *)
LEMMA CancelInvariance == Spec => [](\A c \in Reads : CancelInv(c))
<1>1. Init => \A c \in Reads : CancelInv(c)
  BY DEF Init, CancelInv
<1>2. IInv /\ [Next]_vars /\ (\A c \in Reads : CancelInv(c)) => (\A c \in Reads : CancelInv(c))'
  BY CancelSteps
<1> QED
  BY <1>1, <1>2, Invariance, PTL DEF Spec

(* Every variable of a stream has its type, whatever its callers, tasks,     *)
(* closers and callbacks do: in particular no read returns anything its      *)
(* caller does not know, and no chunk lies outside the body.                 *)
THEOREM TypeCorrect == Spec => []TypeOK
<1>1. IInv => TypeOK
  <2> SUFFICES ASSUME IInv PROVE TypeOK
    OBVIOUS
  <2>1. finished \in Nat \X Nat
    BY DEF IInv, EndInv
  <2> QED
    BY <2>1 DEF IInv, TypeInv, TypeOK, CallSteps, TaskSteps, Working, Ops
<1> QED
  BY <1>1, Invariance, PTL

(* The body and the decoder have one owner, and a stream that has ended owns *)
(* nothing and was counted once: complete_read and finish_decoded_chunk      *)
(* bring nothing back to a stream that finish has closed.                    *)
THEOREM OneOwner == Spec => []SingleOwner
<1>1. IInv => SingleOwner
  BY DEF IInv, OwnerInv, EndInv, SingleOwner
<1> QED
  BY <1>1, Invariance, PTL

(* finish and finish_decoded_transport give a connection back as clean only  *)
(* after its body has ended.                                                 *)
THEOREM NeverPoisoned == Spec => []NoPoisonedReuse
<1>1. IInv => NoPoisonedReuse
  BY DEF IInv, CleanInv, NoPoisonedReuse
<1> QED
  BY <1>1, Invariance, PTL

(* A stream that refuses reads as busy has a caller that still waits for     *)
(* one: finish_read_delivery clears the flag of every read that returns.     *)
THEOREM BusyAlwaysHasReader == Spec => []BusyHasReader
<1>1. IInv => BusyHasReader
  BY DEF IInv, BusyInv, BusyHasReader, Reader
<1> QED
  BY <1>1, Invariance, PTL

(* An iterator gets the body's first frames without a gap, and all of them   *)
(* before a successful end: whatever is coalesced or decoded.  No read can   *)
(* follow one that a cancellation has robbed of its chunk: it has ended the  *)
(* stream.                                                                   *)
THEOREM NeverAGap == Spec => []NoGap
<1>1. IInv /\ (\A c \in Reads : CancelInv(c)) => NoGap
  <2> SUFFICES ASSUME IInv, \A c \in Reads : CancelInv(c) PROVE NoGap
    OBVIOUS
  <2>1. iterated => \E n \in 0 .. MaxFrames : got = 1 .. n
    BY DEF IInv, GapInv
  <2>2. ASSUME iterated, NEW c \in Reads, result[c] = "eof", terminal = "success"
        PROVE  got = 1 .. consumed
    <3>1. Pending(c)
      BY <2>2 DEF IInv, ReadInv, Pending
    <3> QED
      BY <2>2, <3>1 DEF IInv, GapInv, FlightInv
  <2> QED
    BY <2>1, <2>2 DEF NoGap, CancelInv
<1> QED
  BY <1>1, Invariance, CancelInvariance, PTL

(* The first of close, cancel, abort_all, a failing read and the end of the  *)
(* body decides: no later step changes the outcome, what became of the       *)
(* connection or the request's counters.                                     *)
THEOREM EndsOnlyOnce == Spec => EndsOnce
<1>1. [Next]_vars => [terminal # "none" => UNCHANGED <<terminal, transport, finished, permit, registered>>]_vars
  BY OutcomeStays
<1> QED
  BY <1>1, PTL DEF Spec, EndsOnce

================================================================================
