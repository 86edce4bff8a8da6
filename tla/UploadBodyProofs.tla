---------------------------- MODULE UploadBodyProofs ----------------------------
(***************************************************************************)
(* TLAPS proofs about streaming request bodies (UploadBody), for any       *)
(* number of attempts, any channel capacity and any content length: the    *)
(* types and the four invariants the runs of UploadBody check.             *)
(***************************************************************************)
EXTENDS UploadBody, SequenceTheorems, TLAPS

Sending == {"send", "blocked", "check", "waiting"}
FeederSteps == Sending \cup {"none", "feed", "finish", "closing", "done"}
BodySteps == {"none", "taken", "pending", "ended", "dropped"}
Intents == {"chunk", "final", "finish", "fail", "nothing"}
Producers == {"open", "finished", "failed", "aborted"}
Channels == [queue : Seq(Items), closed : BOOLEAN, producer : Producers, outstanding : Int]
Uploads == [emitted : Items, eof : BOOLEAN, failed : BOOLEAN, inFlight : Nat, flushed : BOOLEAN]

TypeInv ==
  /\ kind \in Kinds /\ expected \in Lengths /\ replayable \in BOOLEAN
  /\ owner \in [attempt : Attempts, sender : 0 .. MaxAttempts, receiver : BOOLEAN]
  /\ closing \in {"open", "set", "closed"}
  /\ transport \in {"idle", "closePrevious", "start", "refused"}
  /\ channel \in [Attempts -> Channels] /\ upload \in [Attempts -> Uploads]
  /\ body \in [Attempts -> BodySteps] /\ feeder \in [Attempts -> FeederSteps]
  /\ intent \in [Attempts -> Intents] /\ sent \in [Attempts -> Items]
  /\ due \subseteq Attempts \X {"condvar", "waker", "callback"}
  /\ broken \subseteq Attempts /\ cancelled \in BOOLEAN /\ setPending \in BOOLEAN

(* What a feeder is about to do: one whose source broke completes nothing. *)
FeederInv(k) ==
  /\ feeder[k] \in {"none", "feed"} => intent[k] = "chunk"
  /\ feeder[k] = "none" => sent[k] = 0
  /\ feeder[k] \in Sending => intent[k] \in {"chunk", "final", "fail"}
  /\ feeder[k] = "finish" => intent[k] = "fail" /\ channel[k].producer # "open"
  /\ feeder[k] = "blocked" => kind = "sync"
  /\ feeder[k] \in {"check", "waiting"} => kind = "async"
  /\ k \in broken /\ feeder[k] # "done" => intent[k] \in {"fail", "nothing"}

(* How far the body is: its last chunk, and no other, is sent as final. *)
LengthInv(k) ==
  /\ expected > 0 => /\ sent[k] <= expected
                     /\ sent[k] = expected => channel[k].producer = "finished"
                     /\ feeder[k] \in Sending /\ intent[k] = "chunk" => sent[k] + 1 # expected
  /\ feeder[k] \in Sending \cup {"closing"} /\ intent[k] = "final" =>
       expected > 0 /\ sent[k] + 1 = expected
  /\ feeder[k] \in Sending /\ intent[k] = "chunk" => sent[k] < MaxFrames

(* What was pushed, what has left and what is in between. *)
CountInv(k) ==
  /\ upload[k].emitted <= sent[k] /\ upload[k].inFlight <= upload[k].emitted
  /\ channel[k].outstanding = upload[k].inFlight + (sent[k] - upload[k].emitted)
  /\ \A i \in 1 .. Len(channel[k].queue) :
       \/ /\ channel[k].queue[i] = Error /\ i = Len(channel[k].queue)
          /\ channel[k].producer \notin {"open", "finished"}
       \/ channel[k].queue[i] = upload[k].emitted + i /\ channel[k].queue[i] <= sent[k]
  /\ ~channel[k].closed /\ channel[k].producer = "open" =>
       Len(channel[k].queue) = sent[k] - upload[k].emitted
  /\ Len(channel[k].queue) <= Capacity

(* How the producer ended. *)
ProducerInv(k) ==
  /\ channel[k].producer = "finished" => channel[k].closed /\ feeder[k] = "done" /\ k \notin broken
  /\ ~channel[k].closed /\ channel[k].producer # "open" => feeder[k] = "finish"

(* NoLostWakeup, with the feeder that is between its failed send and its await. *)
HasRoom(k) == Len(channel[k].queue) < Capacity

WakeInv(k) ==
  /\ feeder[k] = "blocked" /\ (channel[k].closed \/ HasRoom(k)) => <<k, "condvar">> \in due
  /\ feeder[k] = "waiting" /\ channel[k].closed => <<k, "callback">> \in due \/ setPending
  /\ feeder[k] \in {"check", "waiting"} /\ HasRoom(k) => <<k, "callback">> \in due \/ setPending
  /\ body[k] = "pending" /\ (channel[k].closed \/ channel[k].queue # <<>>) => <<k, "waker">> \in due

AttemptInv(k) == FeederInv(k) /\ LengthInv(k) /\ CountInv(k) /\ ProducerInv(k) /\ WakeInv(k)

(* The owner has the sender of its attempt until it is closed; a feeder runs *)
(* for an attempt that was started, and the attempts before are closed.      *)
Unstarted(k) ==
  \/ k > owner.attempt
  \/ k = owner.attempt /\ (owner.receiver \/ transport \in {"closePrevious", "start"})

OwnerInv ==
  /\ owner.sender \in {0, owner.attempt} /\ (closing # "closed" => owner.sender = owner.attempt)
  /\ transport # "idle" => ~owner.receiver
  /\ transport = "closePrevious" => owner.attempt > 1
  /\ \A k \in Attempts :
       /\ Unstarted(k) => feeder[k] = "none"
       /\ k < owner.attempt /\ ~(transport = "closePrevious" /\ k = owner.attempt - 1)
            => channel[k].closed
  /\ closing = "closed" /\ transport \in {"idle", "refused"} => channel[owner.attempt].closed

IInv == TypeInv /\ OwnerInv /\ \A k \in Attempts : AttemptInv(k)

--------------------------------------------------------------------------------
(* What a step leaves alone. *)

(* Nothing at attempt j has changed, except that more is due. *)
LeftAlone(j) ==
  /\ channel'[j] = channel[j] /\ upload'[j] = upload[j] /\ body'[j] = body[j]
  /\ feeder'[j] = feeder[j] /\ intent'[j] = intent[j] /\ sent'[j] = sent[j]
  /\ j \in broken' <=> j \in broken
  /\ \A what \in {"condvar", "waker", "callback"} : <<j, what>> \in due => <<j, what>> \in due'

(* An attempt that is left alone keeps its part of the invariant. *)
LEMMA AloneKeeps ==
  ASSUME IInv, NEW j \in Attempts, LeftAlone(j), UNCHANGED <<kind, expected>>,
         setPending => setPending'
  PROVE  AttemptInv(j)'
<1>1. AttemptInv(j)
  BY DEF IInv
<1>2. FeederInv(j)'
  BY <1>1 DEF AttemptInv, FeederInv, LeftAlone
<1>3. LengthInv(j)'
  BY <1>1 DEF AttemptInv, LengthInv, LeftAlone
<1>4. CountInv(j)'
  BY <1>1 DEF AttemptInv, CountInv, LeftAlone
<1>5. ProducerInv(j)'
  BY <1>1 DEF AttemptInv, ProducerInv, LeftAlone
<1>6. WakeInv(j)'
  BY <1>1 DEF AttemptInv, WakeInv, LeftAlone, HasRoom
<1> QED
  BY <1>2, <1>3, <1>4, <1>5, <1>6 DEF AttemptInv

(* A channel that is closed stays closed, and only Start starts a feeder. *)
LEMMA OwnerSteady ==
  ASSUME IInv, UNCHANGED <<owner, closing, transport>>,
         \A k \in Attempts : channel[k].closed => channel'[k].closed,
         \A k \in Attempts : feeder[k] = "none" => feeder'[k] = "none"
  PROVE  OwnerInv'
<1>1. owner.attempt \in Attempts
  BY DEF IInv, TypeInv
<1>2. \A k \in Attempts : Unstarted(k)' <=> Unstarted(k)
  BY DEF Unstarted
<1> QED
  BY <1>1, <1>2 DEF IInv, OwnerInv

--------------------------------------------------------------------------------
(* The channel's operations. *)

(* UploadBodyChannel::abort closes the channel, throws its queue away, wakes *)
(* everybody, and does nothing to a channel that is closed.                  *)
LEMMA AbortFacts ==
  ASSUME IInv, NEW k \in Attempts, Abort(k)
  PROVE  /\ channel' \in [Attempts -> Channels]
         /\ due' \subseteq Attempts \X {"condvar", "waker", "callback"} /\ due \subseteq due'
         /\ \A j \in Attempts \ {k} : channel'[j] = channel[j]
         /\ channel'[k].closed /\ channel'[k].outstanding = channel[k].outstanding
         /\ channel'[k].producer \in {channel[k].producer, "aborted"}
         /\ channel[k].producer # "open" => channel'[k].producer = channel[k].producer
         /\ channel[k].closed => channel' = channel
         /\ ~channel[k].closed => /\ channel'[k].queue = <<>>
                                  /\ feeder[k] = "blocked" => <<k, "condvar">> \in due'
                                  /\ kind = "async" /\ feeder[k] \in {"check", "waiting"} =>
                                       <<k, "callback">> \in due'
                                  /\ body[k] = "pending" => <<k, "waker">> \in due'
<1>1. channel \in [Attempts -> Channels] /\ due \subseteq Attempts \X {"condvar", "waker", "callback"}
  BY DEF IInv, TypeInv
<1>2. channel[k] \in Channels
  BY <1>1
<1>3. CASE channel[k].closed
  BY <1>1, <1>3 DEF Abort
<1>4. CASE ~channel[k].closed
  <2>1. PICK new : new = [channel[k] EXCEPT !.closed = TRUE, !.queue = <<>>,
                                            !.producer = Producer(channel[k], "aborted")]
    OBVIOUS
  <2>2. channel' = [channel EXCEPT ![k] = new] /\ due' = due \cup Condvar(k) \cup Waker(k) \cup Callback(k)
    BY <1>4, <2>1 DEF Abort
  <2>0. <<>> \in Seq(Items)
    BY EmptySeq
  <2>a. PICK none \in Seq(Items) : none = <<>>
    BY <2>0
  <2>b. new = [channel[k] EXCEPT !.closed = TRUE, !.queue = none,
                                 !.producer = Producer(channel[k], "aborted")]
    BY <2>1, <2>a
  <2>3. /\ new \in Channels /\ new.closed = TRUE /\ new.queue = <<>>
        /\ new.outstanding = channel[k].outstanding
        /\ new.producer = IF channel[k].producer = "open" THEN "aborted" ELSE channel[k].producer
    <3>1. new \in Channels
      BY <1>2, <2>a, <2>b DEF Channels, Producer, Producers
    <3>2. /\ new.closed = TRUE /\ new.queue = none
          /\ new.outstanding = channel[k].outstanding
          /\ new.producer = IF channel[k].producer = "open" THEN "aborted" ELSE channel[k].producer
      BY <1>2, <2>b DEF Channels, Producer
    <3> QED
      BY <2>a, <3>1, <3>2
  <2>4. channel'[k] = new /\ \A j \in Attempts \ {k} : channel'[j] = channel[j]
    BY <1>1, <2>2
  <2>5. channel' \in [Attempts -> Channels]
    BY <1>1, <2>2, <2>3
  <2>6. /\ due' \subseteq Attempts \X {"condvar", "waker", "callback"} /\ due \subseteq due'
        /\ feeder[k] = "blocked" => <<k, "condvar">> \in due'
        /\ kind = "async" /\ feeder[k] \in {"check", "waiting"} => <<k, "callback">> \in due'
        /\ body[k] = "pending" => <<k, "waker">> \in due'
    BY <1>1, <2>2 DEF Condvar, Waker, Callback
  <2> QED
    BY <1>4, <2>3, <2>4, <2>5, <2>6
<1> QED
  BY <1>3, <1>4

(* What an abort leaves of the attempt it aborts: its feeder goes on, or     *)
(* broke and completes nothing.                                              *)
LEMMA AbortedAttempt ==
  ASSUME IInv, NEW k \in Attempts, Abort(k), UNCHANGED <<kind, expected, upload, sent>>,
         setPending => setPending',
         body'[k] = body[k] \/ body'[k] \in {"taken", "dropped"},
         \/ feeder'[k] = feeder[k] /\ intent'[k] = intent[k] /\ (k \in broken' <=> k \in broken)
         \/ /\ feeder[k] \notin {"none", "done"} /\ k \in broken'
            /\ feeder'[k] = "done" \/ (feeder'[k] = "closing" /\ intent'[k] = "nothing")
  PROVE  AttemptInv(k)'
<1>1. FeederInv(k) /\ LengthInv(k) /\ CountInv(k) /\ ProducerInv(k) /\ WakeInv(k)
  BY DEF IInv, AttemptInv
<1>2. /\ due \subseteq due'
      /\ channel'[k].closed /\ channel'[k].outstanding = channel[k].outstanding
      /\ channel'[k].producer \in {channel[k].producer, "aborted"}
      /\ channel[k].producer # "open" => channel'[k].producer = channel[k].producer
      /\ channel[k].closed => channel' = channel
      /\ ~channel[k].closed => /\ channel'[k].queue = <<>>
                               /\ feeder[k] = "blocked" => <<k, "condvar">> \in due'
                               /\ kind = "async" /\ feeder[k] \in {"check", "waiting"} =>
                                    <<k, "callback">> \in due'
                               /\ body[k] = "pending" => <<k, "waker">> \in due'
  BY AbortFacts
<1>3. FeederInv(k)'
  BY <1>1, <1>2 DEF FeederInv, Sending
<1>4. LengthInv(k)'
  BY <1>1, <1>2 DEF LengthInv, Sending
<1>5. CountInv(k)'
  <2>1. CASE channel[k].closed
    <3>1. channel' = channel
      BY <1>2, <2>1
    <3> QED
      BY <1>1, <2>1, <3>1 DEF CountInv
  <2>2. CASE ~channel[k].closed
    <3>1. Len(channel'[k].queue) = 0
      BY <1>2, <2>2
    <3> QED
      BY <1>1, <1>2, <3>1, UploadAssumption DEF CountInv
  <2> QED
    BY <2>1, <2>2
<1>6. ProducerInv(k)'
  BY <1>1, <1>2 DEF ProducerInv
<1>7. WakeInv(k)'
  <2>1. feeder'[k] \in {"blocked", "check", "waiting"} => feeder'[k] = feeder[k]
    OBVIOUS
  <2>2. body'[k] = "pending" => body[k] = "pending"
    OBVIOUS
  <2>3. feeder[k] \in {"check", "waiting"} => kind = "async"
    BY <1>1 DEF FeederInv
  <2>4. CASE channel[k].closed
    <3>1. channel' = channel
      BY <1>2, <2>4
    <3> QED
      BY <1>1, <1>2, <2>1, <2>2, <3>1 DEF WakeInv, HasRoom
  <2>5. CASE ~channel[k].closed
    BY <1>2, <2>1, <2>2, <2>3, <2>5 DEF WakeInv
  <2> QED
    BY <2>4, <2>5
<1> QED
  BY <1>3, <1>4, <1>5, <1>6, <1>7 DEF AttemptInv

(* UploadBodyChannel::finish keeps the queue, and what the producer was.     *)
LEMMA FinishFacts ==
  ASSUME IInv, NEW k \in Attempts, Finish(k)
  PROVE  /\ channel' \in [Attempts -> Channels]
         /\ due' \subseteq Attempts \X {"condvar", "waker", "callback"} /\ due \subseteq due'
         /\ \A j \in Attempts \ {k} : channel'[j] = channel[j]
         /\ channel'[k].closed /\ channel'[k].outstanding = channel[k].outstanding
         /\ channel'[k].queue = channel[k].queue
         /\ channel'[k].producer \in {channel[k].producer, "finished"}
         /\ channel[k].producer # "open" => channel'[k].producer = channel[k].producer
         /\ channel[k].closed => channel' = channel
         /\ ~channel[k].closed => (body[k] = "pending" => <<k, "waker">> \in due')
<1>1. channel \in [Attempts -> Channels] /\ due \subseteq Attempts \X {"condvar", "waker", "callback"}
  BY DEF IInv, TypeInv
<1>2. channel[k] \in Channels
  BY <1>1
<1>3. CASE channel[k].closed
  BY <1>1, <1>3 DEF Finish
<1>4. CASE ~channel[k].closed
  <2>1. PICK new : new = [channel[k] EXCEPT !.closed = TRUE,
                                            !.producer = Producer(channel[k], "finished")]
    OBVIOUS
  <2>2. channel' = [channel EXCEPT ![k] = new] /\ due' = due \cup Condvar(k) \cup Waker(k)
    BY <1>4, <2>1 DEF Finish
  <2>3. /\ new \in Channels /\ new.closed = TRUE /\ new.queue = channel[k].queue
        /\ new.outstanding = channel[k].outstanding
        /\ new.producer = IF channel[k].producer = "open" THEN "finished" ELSE channel[k].producer
    BY <1>2, <2>1 DEF Channels, Producer, Producers
  <2>4. channel'[k] = new /\ \A j \in Attempts \ {k} : channel'[j] = channel[j]
    BY <1>1, <2>2
  <2>5. channel' \in [Attempts -> Channels]
    BY <1>1, <2>2, <2>3
  <2>6. /\ due' \subseteq Attempts \X {"condvar", "waker", "callback"} /\ due \subseteq due'
        /\ body[k] = "pending" => <<k, "waker">> \in due'
    BY <1>1, <2>2 DEF Condvar, Waker
  <2> QED
    BY <1>4, <2>3, <2>4, <2>5, <2>6
<1> QED
  BY <1>3, <1>4

(* What follows for a feeder that finishes its channel. *)
LEMMA FinishedAttempt ==
  ASSUME IInv, NEW k \in Attempts, Finish(k), UNCHANGED <<kind, expected, upload, sent, body, intent, broken>>,
         setPending => setPending',
         \/ feeder[k] = "finish" /\ feeder'[k] = "closing"
         \/ feeder[k] = "closing" /\ intent[k] = "finish" /\ feeder'[k] = "done"
  PROVE  AttemptInv(k)'
<1>1. FeederInv(k) /\ LengthInv(k) /\ CountInv(k) /\ ProducerInv(k) /\ WakeInv(k)
  BY DEF IInv, AttemptInv
<1>2. /\ due \subseteq due'
      /\ channel'[k].closed /\ channel'[k].outstanding = channel[k].outstanding
      /\ channel'[k].queue = channel[k].queue
      /\ channel'[k].producer \in {channel[k].producer, "finished"}
      /\ channel[k].producer # "open" => channel'[k].producer = channel[k].producer
      /\ channel[k].closed => channel' = channel
      /\ ~channel[k].closed => (body[k] = "pending" => <<k, "waker">> \in due')
  BY FinishFacts
<1>3. channel[k].producer # "finished"
  BY <1>1 DEF ProducerInv
<1>4. FeederInv(k)'
  BY <1>1, <1>2 DEF FeederInv, Sending
<1>5. LengthInv(k)'
  BY <1>1, <1>2, <1>3 DEF LengthInv, Sending, FeederInv
<1>6. CountInv(k)'
  BY <1>1, <1>2 DEF CountInv
<1>7. ProducerInv(k)'
  BY <1>1, <1>2, <1>3 DEF ProducerInv, FeederInv
<1>8. WakeInv(k)'
  BY <1>1, <1>2 DEF WakeInv, HasRoom
<1> QED
  BY <1>4, <1>5, <1>6, <1>7, <1>8 DEF AttemptInv

--------------------------------------------------------------------------------
(* Steps at one attempt. *)

(* A step at attempt k that keeps the types and k's part of the invariant,   *)
(* leaves every other attempt alone and opens no channel again.              *)
LEMMA LocalStep ==
  ASSUME IInv, NEW k \in Attempts, TypeInv', AttemptInv(k)',
         UNCHANGED <<kind, expected, owner, closing, transport>>,
         setPending => setPending',
         \A j \in Attempts \ {k} : LeftAlone(j),
         channel[k].closed => channel'[k].closed,
         feeder[k] = "none" => feeder'[k] = "none"
  PROVE  IInv'
<1>1. \A j \in Attempts : AttemptInv(j)'
  <2> SUFFICES ASSUME NEW j \in Attempts, j # k PROVE AttemptInv(j)'
    OBVIOUS
  <2>1. LeftAlone(j)
    OBVIOUS
  <2> QED
    BY <2>1, AloneKeeps
<1>2. \A j \in Attempts : channel[j].closed => channel'[j].closed
  BY DEF LeftAlone
<1>3. \A j \in Attempts : feeder[j] = "none" => feeder'[j] = "none"
  BY DEF LeftAlone
<1>4. OwnerInv'
  BY <1>2, <1>3, OwnerSteady
<1> QED
  BY <1>1, <1>4 DEF IInv

(* A feeder decides what to do next: what it has pushed stays. *)
LEMMA FeederMoves ==
  ASSUME IInv, NEW k \in Attempts, NEW step \in FeederSteps, NEW what \in Intents,
         feeder' = [feeder EXCEPT ![k] = step], intent' = [intent EXCEPT ![k] = what],
         feeder[k] \notin {"none", "done"}, step # "none",
         broken' \in {broken, broken \cup {k}},
         UNCHANGED <<modeVars, owner, closing, transport, channel, due, body, upload, sent,
                     cancelled, setPending>>,
         FeederInv(k)', LengthInv(k)', ProducerInv(k)', WakeInv(k)'
  PROVE  IInv'
<1>1. TypeInv /\ CountInv(k)
  BY DEF IInv, AttemptInv
<1>2. TypeInv'
  BY <1>1 DEF TypeInv, modeVars
<1>3. CountInv(k)'
  BY <1>1 DEF CountInv
<1>4. AttemptInv(k)'
  BY <1>3 DEF AttemptInv
<1>5. \A j \in Attempts \ {k} : LeftAlone(j)
  BY <1>1 DEF LeftAlone, TypeInv
<1> QED
  BY <1>2, <1>4, <1>5, LocalStep DEF modeVars

(* The source yields: the chunk that completes the length is kept as the     *)
(* final one, any other is sent at once.                                     *)
LEMMA YieldKeeps ==
  ASSUME IInv, NEW k \in Attempts, Yield(k) PROVE IInv'
<1>1. TypeInv /\ FeederInv(k) /\ LengthInv(k) /\ ProducerInv(k) /\ WakeInv(k)
  BY DEF IInv, AttemptInv
<1>2. feeder[k] = "feed" /\ intent[k] = "chunk" /\ k \notin broken /\ sent[k] < MaxFrames
  BY <1>1 DEF Yield, Runs, FeederInv
<1>3. PICK step \in {"closing", "send"}, what \in {"nothing", "final", "chunk"} :
        /\ feeder' = [feeder EXCEPT ![k] = step] /\ intent' = [intent EXCEPT ![k] = what]
        /\ <<step, what>> \in {<<"closing", "nothing">>, <<"closing", "final">>, <<"send", "chunk">>}
        /\ what = "final" => expected > 0 /\ sent[k] + 1 = expected
        /\ what = "chunk" /\ expected > 0 => sent[k] + 1 # expected
  <2>1. CASE kind = "sync" /\ cancelled
    BY <2>1 DEF Yield, FeederTo, Intend
  <2>2. CASE ~(kind = "sync" /\ cancelled) /\ expected > 0 /\ sent[k] + 1 = expected
    BY <2>2 DEF Yield, FeederTo, Intend
  <2>3. CASE ~(kind = "sync" /\ cancelled) /\ ~(expected > 0 /\ sent[k] + 1 = expected)
    BY <2>3 DEF Yield, FeederTo, Intend
  <2> QED
    BY <2>1, <2>2, <2>3
<1>4. feeder'[k] = step /\ intent'[k] = what
  BY <1>1, <1>3 DEF TypeInv
<1>5. UNCHANGED <<modeVars, owner, closing, transport, channel, due, body, upload, sent, broken,
                  cancelled, setPending>>
  BY DEF Yield
<1>6. FeederInv(k)'
  BY <1>2, <1>3, <1>4, <1>5 DEF FeederInv, Sending, modeVars
<1>7. LengthInv(k)'
  BY <1>1, <1>2, <1>3, <1>4, <1>5 DEF LengthInv, Sending, modeVars
<1>8. ProducerInv(k)'
  BY <1>1, <1>2, <1>3, <1>4, <1>5 DEF ProducerInv
<1>9. WakeInv(k)'
  BY <1>1, <1>2, <1>3, <1>4, <1>5 DEF WakeInv, HasRoom
<1>10. step \in FeederSteps /\ what \in Intents /\ feeder[k] \notin {"none", "done"} /\ step # "none"
  BY <1>2, <1>3 DEF FeederSteps, Sending, Intents
<1> QED
  BY <1>3, <1>5, <1>6, <1>7, <1>8, <1>9, <1>10, FeederMoves

(* The source ends: the feeder closes it before it finishes the body. *)
LEMMA SourceEndsKeeps ==
  ASSUME IInv, NEW k \in Attempts, SourceEnds(k) PROVE IInv'
<1>1. TypeInv /\ FeederInv(k) /\ LengthInv(k) /\ ProducerInv(k) /\ WakeInv(k)
  BY DEF IInv, AttemptInv
<1>2. feeder[k] = "feed" /\ intent[k] = "chunk" /\ k \notin broken
  BY <1>1 DEF SourceEnds, Runs, FeederInv
<1>3. PICK what \in {"nothing", "finish"} :
        feeder' = [feeder EXCEPT ![k] = "closing"] /\ intent' = [intent EXCEPT ![k] = what]
  BY DEF SourceEnds, FeederTo, Intend
<1>4. feeder'[k] = "closing" /\ intent'[k] = what
  BY <1>1, <1>3 DEF TypeInv
<1>5. UNCHANGED <<modeVars, owner, closing, transport, channel, due, body, upload, sent, broken,
                  cancelled, setPending>>
  BY DEF SourceEnds
<1>6. FeederInv(k)'
  BY <1>2, <1>3, <1>4, <1>5 DEF FeederInv, Sending, modeVars
<1>7. LengthInv(k)'
  BY <1>1, <1>2, <1>3, <1>4, <1>5 DEF LengthInv, Sending, modeVars
<1>8. ProducerInv(k)'
  BY <1>1, <1>2, <1>3, <1>4, <1>5 DEF ProducerInv
<1>9. WakeInv(k)'
  BY <1>1, <1>2, <1>3, <1>4, <1>5 DEF WakeInv, HasRoom
<1>10. "closing" \in FeederSteps /\ what \in Intents /\ feeder[k] \notin {"none", "done"}
  BY <1>2, <1>3 DEF FeederSteps, Sending, Intents
<1> QED
  BY <1>3, <1>5, <1>6, <1>7, <1>8, <1>9, <1>10, FeederMoves

(* A step that aborts attempt k: its feeder goes on, or it broke. *)
LEMMA AbortStep ==
  ASSUME IInv, NEW k \in Attempts, Abort(k),
         NEW step \in FeederSteps, NEW what \in Intents, NEW where \in BodySteps,
         feeder' = [feeder EXCEPT ![k] = step], intent' = [intent EXCEPT ![k] = what],
         body' = [body EXCEPT ![k] = where],
         where = body[k] \/ where \in {"taken", "dropped"},
         broken' \in {broken, broken \cup {k}},
         \/ step = feeder[k] /\ what = intent[k] /\ broken' = broken
         \/ /\ feeder[k] \notin {"none", "done"} /\ k \in broken'
            /\ step = "done" \/ (step = "closing" /\ what = "nothing"),
         UNCHANGED <<modeVars, owner, closing, transport, upload, sent, cancelled, setPending>>
  PROVE  IInv'
<1>1. TypeInv
  BY DEF IInv
<1>2. /\ channel' \in [Attempts -> Channels]
      /\ due' \subseteq Attempts \X {"condvar", "waker", "callback"} /\ due \subseteq due'
      /\ \A j \in Attempts \ {k} : channel'[j] = channel[j]
      /\ channel'[k].closed
  BY AbortFacts
<1>3. TypeInv'
  BY <1>1, <1>2 DEF TypeInv, modeVars
<1>4. feeder'[k] = step /\ intent'[k] = what /\ body'[k] = where
  BY <1>1 DEF TypeInv
<1>5. AttemptInv(k)'
  BY <1>4, AbortedAttempt DEF modeVars
<1>6. \A j \in Attempts \ {k} : LeftAlone(j)
  BY <1>1, <1>2 DEF LeftAlone, TypeInv
<1> QED
  BY <1>2, <1>3, <1>4, <1>5, <1>6, LocalStep DEF modeVars

(* The source raises: the error goes to the transport, or the body is closed. *)
LEMMA SourceRaisesKeeps ==
  ASSUME IInv, NEW k \in Attempts, SourceRaises(k) PROVE IInv'
<1>1. TypeInv /\ FeederInv(k) /\ LengthInv(k) /\ ProducerInv(k) /\ WakeInv(k)
  BY DEF IInv, AttemptInv
<1>2. feeder[k] = "feed" /\ intent[k] = "chunk" /\ broken' = broken \cup {k}
  BY <1>1 DEF SourceRaises, Runs, FeederInv
<1>3. UNCHANGED <<modeVars, owner, closing, transport, body, upload, sent, cancelled, setPending>>
  BY DEF SourceRaises
<1>4. CASE UNCHANGED <<channel, due>> /\ \E step \in {"closing", "send"}, what \in {"nothing", "fail"} :
             /\ feeder' = [feeder EXCEPT ![k] = step] /\ intent' = [intent EXCEPT ![k] = what]
             /\ step = "send" => what = "fail"
  <2>1. PICK step \in {"closing", "send"}, what \in {"nothing", "fail"} :
             /\ feeder' = [feeder EXCEPT ![k] = step] /\ intent' = [intent EXCEPT ![k] = what]
             /\ step = "send" => what = "fail"
    BY <1>4
  <2>2. feeder'[k] = step /\ intent'[k] = what
    BY <1>1, <2>1 DEF TypeInv
  <2>3. FeederInv(k)'
    BY <1>2, <1>3, <2>1, <2>2 DEF FeederInv, Sending, modeVars
  <2>4. LengthInv(k)'
    BY <1>1, <1>2, <1>3, <1>4, <2>1, <2>2 DEF LengthInv, Sending, modeVars
  <2>5. ProducerInv(k)'
    BY <1>1, <1>2, <1>3, <1>4, <2>1, <2>2 DEF ProducerInv
  <2>6. WakeInv(k)'
    BY <1>1, <1>2, <1>3, <1>4, <2>1, <2>2 DEF WakeInv, HasRoom
  <2>7. step \in FeederSteps /\ what \in Intents /\ feeder[k] \notin {"none", "done"} /\ step # "none"
    BY <1>2, <2>1 DEF FeederSteps, Sending, Intents
  <2> QED
    BY <1>2, <1>3, <1>4, <2>1, <2>3, <2>4, <2>5, <2>6, <2>7, FeederMoves
<1>5. CASE Abort(k) /\ FeederTo(k, "closing") /\ Intend(k, "nothing")
  <2>1. body' = [body EXCEPT ![k] = body[k]] /\ body[k] \in BodySteps
    BY <1>1, <1>3 DEF TypeInv
  <2>2. "closing" \in FeederSteps /\ "nothing" \in Intents /\ feeder[k] \notin {"none", "done"}
    BY <1>2 DEF FeederSteps, Intents
  <2>3. feeder' = [feeder EXCEPT ![k] = "closing"] /\ intent' = [intent EXCEPT ![k] = "nothing"]
    BY <1>5 DEF FeederTo, Intend
  <2> QED
    BY <1>2, <1>3, <1>5, <2>1, <2>2, <2>3, AbortStep
<1> QED
  BY <1>4, <1>5 DEF SourceRaises, FeederTo, Intend

(* The task of a feeder is cancelled: its attempt is aborted. *)
LEMMA CancelTaskKeeps ==
  ASSUME IInv, NEW k \in Attempts, CancelTask(k) PROVE IInv'
<1>1. /\ feeder[k] \notin {"none", "done"} /\ Abort(k) /\ broken' = broken \cup {k}
      /\ feeder' = [feeder EXCEPT ![k] = "done"]
      /\ UNCHANGED <<modeVars, owner, closing, transport, body, upload, intent, sent, cancelled,
                     setPending>>
  BY DEF CancelTask, FeederTo
<1>2. /\ body' = [body EXCEPT ![k] = body[k]] /\ body[k] \in BodySteps
      /\ intent' = [intent EXCEPT ![k] = intent[k]] /\ intent[k] \in Intents
      /\ "done" \in FeederSteps
  BY <1>1 DEF IInv, TypeInv, FeederSteps
<1> QED
  BY <1>1, <1>2, AbortStep

(* The receiver is dropped: its attempt is aborted, unless it is closed. *)
LEMMA DropBodyKeeps ==
  ASSUME IInv, NEW k \in Attempts, DropBody(k) PROVE IInv'
<1>1. /\ Abort(k) /\ body' = [body EXCEPT ![k] = "dropped"]
      /\ UNCHANGED <<modeVars, owner, closing, transport, upload, feeder, intent, sent, broken,
                     cancelled, setPending>>
  BY DEF DropBody, BodyTo
<1>2. /\ feeder' = [feeder EXCEPT ![k] = feeder[k]] /\ feeder[k] \in FeederSteps
      /\ intent' = [intent EXCEPT ![k] = intent[k]] /\ intent[k] \in Intents
      /\ "dropped" \in BodySteps
  BY <1>1 DEF IInv, TypeInv, BodySteps
<1> QED
  BY <1>1, <1>2, AbortStep

(* A step in which the feeder of attempt k finishes its channel. *)
LEMMA FinishStep ==
  ASSUME IInv, NEW k \in Attempts, Finish(k), NEW step \in {"closing", "done"},
         feeder' = [feeder EXCEPT ![k] = step],
         \/ feeder[k] = "finish" /\ step = "closing"
         \/ feeder[k] = "closing" /\ intent[k] = "finish" /\ step = "done",
         UNCHANGED <<modeVars, owner, closing, transport, body, upload, intent, sent, broken,
                     cancelled, setPending>>
  PROVE  IInv'
<1>1. TypeInv
  BY DEF IInv
<1>2. /\ channel' \in [Attempts -> Channels]
      /\ due' \subseteq Attempts \X {"condvar", "waker", "callback"} /\ due \subseteq due'
      /\ \A j \in Attempts \ {k} : channel'[j] = channel[j]
      /\ channel'[k].closed
  BY FinishFacts
<1>3. TypeInv'
  BY <1>1, <1>2 DEF TypeInv, modeVars, FeederSteps
<1>4. feeder'[k] = step
  BY <1>1 DEF TypeInv
<1>5. AttemptInv(k)'
  BY <1>4, FinishedAttempt DEF modeVars
<1>6. \A j \in Attempts \ {k} : LeftAlone(j)
  BY <1>1, <1>2 DEF LeftAlone, TypeInv
<1> QED
  BY <1>2, <1>3, <1>4, <1>5, <1>6, LocalStep DEF modeVars

(* The channel is finished behind an error: its producer stays failed. *)
LEMMA FinishFailedKeeps ==
  ASSUME IInv, NEW k \in Attempts, FinishFailed(k) PROVE IInv'
<1>1. /\ Finish(k) /\ feeder[k] = "finish" /\ feeder' = [feeder EXCEPT ![k] = "closing"]
      /\ UNCHANGED <<modeVars, owner, closing, transport, body, upload, intent, sent, broken,
                     cancelled, setPending>>
  BY DEF FinishFailed, FeederTo
<1> QED
  BY <1>1, FinishStep

(* The source is closed; only then, and only if that went well, the body is  *)
(* completed.                                                                *)
LEMMA CloseSourcesKeeps ==
  ASSUME IInv, NEW k \in Attempts, CloseSources(k) PROVE IInv'
<1>1. TypeInv /\ FeederInv(k) /\ LengthInv(k) /\ ProducerInv(k) /\ WakeInv(k)
  BY DEF IInv, AttemptInv
<1>2. /\ feeder[k] = "closing"
      /\ UNCHANGED <<modeVars, owner, closing, transport, body, upload, intent, sent, cancelled,
                     setPending>>
  BY DEF CloseSources, Runs
<1>3. /\ intent' = [intent EXCEPT ![k] = intent[k]] /\ intent[k] \in Intents
      /\ body' = [body EXCEPT ![k] = body[k]] /\ body[k] \in BodySteps
      /\ {"send", "done"} \subseteq FeederSteps
  BY <1>1, <1>2 DEF TypeInv, FeederSteps, Sending
<1>4. CASE intent[k] = "finish" /\ Finish(k) /\ feeder' = [feeder EXCEPT ![k] = "done"]
           /\ UNCHANGED broken
  BY <1>2, <1>4, FinishStep
<1>5. CASE Abort(k) /\ feeder' = [feeder EXCEPT ![k] = "done"] /\ broken' = broken \cup {k}
  <2>1. /\ feeder[k] \notin {"none", "done"} /\ k \in broken' /\ "done" \in FeederSteps
        /\ broken' \in {broken, broken \cup {k}}
    BY <1>2, <1>3, <1>5
  <2>2. PICK what \in Intents, where \in BodySteps :
          /\ intent' = [intent EXCEPT ![k] = what]
          /\ body' = [body EXCEPT ![k] = where] /\ where = body[k]
    BY <1>3
  <2> QED
    BY <1>2, <1>5, <2>1, <2>2, AbortStep
<1>6. CASE /\ UNCHANGED <<channel, due>>
           /\ \E step \in {"send", "done"} : /\ feeder' = [feeder EXCEPT ![k] = step]
                                             /\ step = "send" => intent[k] = "final"
           /\ \/ UNCHANGED broken
              \/ broken' = broken \cup {k} /\ feeder' = [feeder EXCEPT ![k] = "done"]
  <2>1. PICK step \in {"send", "done"} : /\ feeder' = [feeder EXCEPT ![k] = step]
                                         /\ step = "send" => intent[k] = "final"
    BY <1>6
  <2>2. feeder'[k] = step
    BY <1>1, <2>1 DEF TypeInv
  <2>3. k \in broken' /\ feeder'[k] # "done" => k \in broken
    BY <1>1, <1>6, <2>1, <2>2 DEF TypeInv
  <2>4. channel[k].producer # "finished" /\ (~channel[k].closed => channel[k].producer = "open")
    BY <1>1, <1>2 DEF ProducerInv
  <2>5. FeederInv(k)'
    BY <1>1, <1>2, <2>1, <2>2, <2>3 DEF FeederInv, Sending, modeVars
  <2>6. LengthInv(k)'
    BY <1>1, <1>2, <1>6, <2>1, <2>2 DEF LengthInv, Sending, modeVars
  <2>7. ProducerInv(k)'
    BY <1>2, <1>6, <2>4 DEF ProducerInv
  <2>8. WakeInv(k)'
    BY <1>1, <1>2, <1>6, <2>1, <2>2 DEF WakeInv, HasRoom
  <2>9. step \in FeederSteps /\ feeder[k] \notin {"none", "done"} /\ step # "none"
    BY <1>2, <1>3, <2>1
  <2> QED
    BY <1>2, <1>3, <1>6, <2>1, <2>5, <2>6, <2>7, <2>8, <2>9, FeederMoves
<1> QED
  <2>1. CASE /\ IF intent[k] = "finish" THEN Finish(k) ELSE UNCHANGED <<channel, due>>
             /\ FeederTo(k, IF intent[k] = "final" THEN "send" ELSE "done")
             /\ UNCHANGED broken
    BY <1>4, <1>6, <2>1 DEF FeederTo
  <2>2. CASE /\ broken' = broken \cup {k}
             /\ FeederTo(k, "done")
             /\ IF intent[k] = "fail" THEN UNCHANGED <<channel, due>> ELSE Abort(k)
    BY <1>5, <1>6, <2>2 DEF FeederTo
  <2> QED
    BY <2>1, <2>2 DEF CloseSources

(* A send that finds the channel closed. *)
LEMMA RejectedKeeps ==
  ASSUME IInv, NEW k \in Attempts, feeder[k] \in Sending, channel[k].closed, Rejected(k),
         UNCHANGED <<modeVars, owner, closing, transport, channel, due, body, upload, sent, broken,
                     cancelled, setPending>>
  PROVE  IInv'
<1>1. TypeInv /\ FeederInv(k) /\ LengthInv(k) /\ ProducerInv(k) /\ WakeInv(k)
  BY DEF IInv, AttemptInv
<1>2. intent[k] \in {"chunk", "final", "fail"} /\ channel[k].producer # "finished"
  BY <1>1 DEF FeederInv, ProducerInv, Sending
<1>3. PICK step \in {"closing", "done"}, what \in {"nothing", "final", "fail"} :
        /\ feeder' = [feeder EXCEPT ![k] = step] /\ intent' = [intent EXCEPT ![k] = what]
        /\ what = "final" => step = "done"
  BY <1>2 DEF Rejected, FeederTo, Intend
<1>4. feeder'[k] = step /\ intent'[k] = what
  BY <1>1, <1>3 DEF TypeInv
<1>5. FeederInv(k)'
  BY <1>3, <1>4 DEF FeederInv, Sending
<1>6. LengthInv(k)'
  BY <1>1, <1>3, <1>4 DEF LengthInv, Sending, modeVars
<1>7. ProducerInv(k)'
  BY <1>2 DEF ProducerInv
<1>8. WakeInv(k)'
  BY <1>1, <1>3, <1>4 DEF WakeInv, HasRoom
<1>9. step \in FeederSteps /\ what \in Intents /\ feeder[k] \notin {"none", "done"} /\ step # "none"
  BY <1>3 DEF FeederSteps, Sending, Intents
<1> QED
  BY <1>3, <1>5, <1>6, <1>7, <1>8, <1>9, FeederMoves

(* A failed send_nowait looks again before it awaits ready: the callback of  *)
(* what happened in between is due.                                          *)
LEMMA CheckKeeps ==
  ASSUME IInv, NEW k \in Attempts, Check(k) PROVE IInv'
<1>1. TypeInv /\ FeederInv(k) /\ LengthInv(k) /\ ProducerInv(k) /\ WakeInv(k)
  BY DEF IInv, AttemptInv
<1>2. /\ feeder[k] = "check"
      /\ UNCHANGED <<modeVars, owner, closing, transport, channel, due, body, upload, sent, broken,
                     cancelled, setPending>>
  BY DEF Check
<1>3. CASE channel[k].closed
  BY <1>2, <1>3, RejectedKeeps DEF Check, Sending
<1>4. CASE ~channel[k].closed
  <2>1. /\ feeder' = [feeder EXCEPT ![k] = "waiting"]
        /\ intent' = [intent EXCEPT ![k] = intent[k]] /\ intent[k] \in Intents
    BY <1>1, <1>4 DEF Check, FeederTo, TypeInv
  <2>2. feeder'[k] = "waiting" /\ intent'[k] = intent[k]
    BY <1>1, <2>1 DEF TypeInv
  <2>3. FeederInv(k)'
    BY <1>1, <1>2, <2>2 DEF FeederInv, Sending, modeVars
  <2>4. LengthInv(k)'
    BY <1>1, <1>2, <2>2 DEF LengthInv, Sending, modeVars
  <2>5. ProducerInv(k)'
    BY <1>1, <1>2, <1>4 DEF ProducerInv
  <2>6. WakeInv(k)'
    BY <1>1, <1>2, <1>4, <2>2 DEF WakeInv, HasRoom
  <2>7. "waiting" \in FeederSteps
    BY DEF FeederSteps, Sending
  <2> QED
    BY <1>2, <2>1, <2>3, <2>4, <2>5, <2>6, <2>7, FeederMoves
<1> QED
  BY <1>3, <1>4

(* A send that finds the channel full: the feeder waits, or is about to. *)
LEMMA FullKeeps ==
  ASSUME IInv, NEW k \in Attempts, feeder[k] = "send", ~channel[k].closed, ~HasRoom(k),
         feeder' = [feeder EXCEPT ![k] = IF kind = "sync" THEN "blocked" ELSE "check"],
         UNCHANGED <<modeVars, owner, closing, transport, channel, due, body, upload, intent, sent,
                     broken, cancelled, setPending>>
  PROVE  IInv'
<1>1. TypeInv /\ FeederInv(k) /\ LengthInv(k) /\ ProducerInv(k) /\ WakeInv(k)
  BY DEF IInv, AttemptInv
<1>2. kind \in {"sync", "async"}
  BY <1>1, UploadAssumption DEF TypeInv
<1>3. PICK step \in {"blocked", "check"} :
        /\ feeder' = [feeder EXCEPT ![k] = step]
        /\ step = "blocked" => kind = "sync"
        /\ step = "check" => kind = "async"
  BY <1>2
<1>4. feeder'[k] = step /\ intent' = [intent EXCEPT ![k] = intent[k]] /\ intent[k] \in Intents
  BY <1>1, <1>3 DEF TypeInv
<1>5. FeederInv(k)'
  BY <1>1, <1>3, <1>4 DEF FeederInv, Sending, modeVars
<1>6. LengthInv(k)'
  BY <1>1, <1>3, <1>4 DEF LengthInv, Sending, modeVars
<1>7. ProducerInv(k)'
  BY <1>1 DEF ProducerInv
<1>8. WakeInv(k)'
  BY <1>1, <1>3, <1>4 DEF WakeInv, HasRoom
<1>9. step \in FeederSteps /\ step # "none"
  BY <1>3 DEF FeederSteps, Sending
<1> QED
  BY <1>3, <1>4, <1>5, <1>6, <1>7, <1>8, <1>9, FeederMoves

(* A chunk goes behind the ones that wait: the queue is what lies between    *)
(* what was pushed and what has left.                                        *)
LEMMA QueueGrows ==
  ASSUME NEW q \in Seq(Items), NEW emitted \in Items, NEW pushed \in Items, NEW item \in Items,
         Len(q) = pushed - emitted,
         \A i \in 1 .. Len(q) : q[i] = emitted + i /\ q[i] <= pushed,
         item = pushed + 1 \/ item = Error
  PROVE  /\ Append(q, item) \in Seq(Items) /\ Len(Append(q, item)) = Len(q) + 1
         /\ \A i \in 1 .. Len(Append(q, item)) :
              \/ i = Len(Append(q, item)) /\ Append(q, item)[i] = item
              \/ Append(q, item)[i] = emitted + i /\ Append(q, item)[i] <= pushed
         /\ item = pushed + 1 => item = emitted + Len(Append(q, item))
<1>1. Append(q, item) \in Seq(Items) /\ Len(Append(q, item)) = Len(q) + 1
  OBVIOUS
<1>2. Append(q, item)[Len(q) + 1] = item /\ \A i \in 1 .. Len(q) : Append(q, item)[i] = q[i]
  OBVIOUS
<1>3. Len(q) \in Nat
  OBVIOUS
<1>4. \A i \in 1 .. (Len(q) + 1) : i \in 1 .. Len(q) \/ i = Len(q) + 1
  BY <1>3
<1>5. item = pushed + 1 => item = emitted + (Len(q) + 1)
  BY <1>3 DEF Items
<1> QED
  BY <1>1, <1>2, <1>4, <1>5

(* A send that has room: a chunk, the final one, or an error.  The final one *)
(* completes the length and finishes the producer of a source that is well.  *)
LEMMA PushKeeps ==
  ASSUME IInv, NEW k \in Attempts, feeder[k] = "send", ~channel[k].closed, HasRoom(k), Push(k),
         FeederTo(k, CASE intent[k] = "chunk" -> "feed"
                       [] intent[k] = "final" -> "done"
                       [] intent[k] = "fail"  -> "finish"),
         UNCHANGED <<modeVars, owner, closing, transport, body, upload, intent, broken, cancelled,
                     setPending>>
  PROVE  IInv'
<1>1. TypeInv /\ FeederInv(k) /\ LengthInv(k) /\ CountInv(k) /\ ProducerInv(k) /\ WakeInv(k)
  BY DEF IInv, AttemptInv
<1>2. intent[k] \in {"chunk", "final", "fail"} /\ channel[k].producer = "open"
  BY <1>1 DEF FeederInv, ProducerInv, Sending
<1>3. /\ channel[k] \in Channels /\ sent[k] \in Items /\ upload[k] \in Uploads
      /\ expected \in Lengths
  BY <1>1 DEF TypeInv
<1>4. /\ channel[k].queue \in Seq(Items) /\ channel[k].outstanding \in Int
      /\ upload[k].emitted \in Items /\ upload[k].inFlight \in Nat
  BY <1>3 DEF Channels, Uploads
<1>5. intent[k] # "fail" => sent[k] + 1 \in Items
  BY <1>1, <1>2, <1>3, UploadAssumption DEF LengthInv, Sending, Items
<1>6. PICK item : item = IF intent[k] = "fail" THEN Error ELSE sent[k] + 1
  OBVIOUS
<1>7. item \in Items /\ (item = sent[k] + 1 \/ item = Error)
  BY <1>5, <1>6, UploadAssumption DEF Items, Error
<1>8. PICK q : q = Append(channel[k].queue, item)
  OBVIOUS
<1>9. PICK producer : producer = IF intent[k] = "fail" THEN "failed"
                                 ELSE IF intent[k] = "final" THEN "finished" ELSE "open"
  OBVIOUS
<1>10. PICK out : out = IF intent[k] = "fail" THEN channel[k].outstanding ELSE channel[k].outstanding + 1
  OBVIOUS
<1>11. PICK new : new = [queue |-> q, closed |-> intent[k] = "final", producer |-> producer,
                         outstanding |-> out]
  OBVIOUS
<1>12. Producer(channel[k], "failed") = "failed" /\ Producer(channel[k], "finished") = "finished"
  BY <1>2 DEF Producer
<1>13. new = [queue |-> Append(channel[k].queue, IF intent[k] = "fail" THEN Error ELSE sent[k] + 1),
              closed |-> intent[k] = "final",
              producer |-> IF intent[k] = "fail" THEN Producer(channel[k], "failed")
                           ELSE IF intent[k] = "final" THEN Producer(channel[k], "finished")
                           ELSE channel[k].producer,
              outstanding |-> IF intent[k] = "fail" THEN channel[k].outstanding
                              ELSE channel[k].outstanding + 1]
  BY <1>2, <1>6, <1>8, <1>9, <1>10, <1>11, <1>12
<1>14. /\ channel' = [channel EXCEPT ![k] = new]
       /\ due' = due \cup Waker(k) \cup (IF intent[k] = "final" THEN Condvar(k) ELSE {})
       /\ sent' = [sent EXCEPT ![k] = IF intent[k] = "fail" THEN sent[k] ELSE sent[k] + 1]
  BY <1>13 DEF Push
<1>15. \A i \in 1 .. Len(channel[k].queue) :
         channel[k].queue[i] = upload[k].emitted + i /\ channel[k].queue[i] <= sent[k]
  BY <1>1, <1>2 DEF CountInv
<1>16. Len(channel[k].queue) = sent[k] - upload[k].emitted
  BY <1>1, <1>2 DEF CountInv
<1>17. /\ q \in Seq(Items) /\ Len(q) = Len(channel[k].queue) + 1
       /\ \A i \in 1 .. Len(q) : \/ i = Len(q) /\ q[i] = item
                                 \/ q[i] = upload[k].emitted + i /\ q[i] <= sent[k]
       /\ item = sent[k] + 1 => item = upload[k].emitted + Len(q)
  <2>1. PICK old \in Seq(Items), emitted \in Items, pushed \in Items :
          old = channel[k].queue /\ emitted = upload[k].emitted /\ pushed = sent[k]
    BY <1>3, <1>4
  <2>2. /\ item \in Items /\ (item = pushed + 1 \/ item = Error) /\ Len(old) = pushed - emitted
        /\ \A i \in 1 .. Len(old) : old[i] = emitted + i /\ old[i] <= pushed
    BY <1>7, <1>15, <1>16, <2>1
  <2>3. /\ Append(old, item) \in Seq(Items) /\ Len(Append(old, item)) = Len(old) + 1
        /\ \A i \in 1 .. Len(Append(old, item)) :
             \/ i = Len(Append(old, item)) /\ Append(old, item)[i] = item
             \/ Append(old, item)[i] = emitted + i /\ Append(old, item)[i] <= pushed
        /\ item = pushed + 1 => item = emitted + Len(Append(old, item))
    BY <2>2, QueueGrows
  <2> QED
    BY <1>8, <2>1, <2>3
<1>18. out \in Int /\ producer \in Producers /\ new \in Channels
  BY <1>4, <1>9, <1>10, <1>11, <1>17 DEF Channels, Producers
<1>19. PICK step \in {"feed", "done", "finish"} :
         /\ feeder' = [feeder EXCEPT ![k] = step]
         /\ intent[k] = "chunk" => step = "feed"
         /\ intent[k] = "final" => step = "done"
         /\ intent[k] = "fail" => step = "finish"
  <2>1. CASE intent[k] = "chunk"
    BY <2>1 DEF FeederTo
  <2>2. CASE intent[k] = "final"
    BY <2>2 DEF FeederTo
  <2>3. CASE intent[k] = "fail"
    BY <2>3 DEF FeederTo
  <2> QED
    BY <1>2, <2>1, <2>2, <2>3
<1>20. channel'[k] = new /\ feeder'[k] = step
       /\ sent'[k] = IF intent[k] = "fail" THEN sent[k] ELSE sent[k] + 1
  BY <1>1, <1>14, <1>19 DEF TypeInv
<1>21. /\ new.queue = q /\ new.producer = producer /\ new.outstanding = out
       /\ new.closed = (intent[k] = "final")
  BY <1>11
<1>22. /\ due' \subseteq Attempts \X {"condvar", "waker", "callback"} /\ due \subseteq due'
       /\ body[k] = "pending" => <<k, "waker">> \in due'
  BY <1>1, <1>14 DEF TypeInv, Waker, Condvar
<1>23. TypeInv'
  <2>1. channel' \in [Attempts -> Channels] /\ sent' \in [Attempts -> Items]
    BY <1>1, <1>3, <1>5, <1>14, <1>18 DEF TypeInv
  <2>2. feeder' \in [Attempts -> FeederSteps]
    BY <1>1, <1>19 DEF TypeInv, FeederSteps
  <2> QED
    BY <1>1, <1>22, <2>1, <2>2 DEF TypeInv, modeVars
<1>24. FeederInv(k)'
  BY <1>1, <1>2, <1>9, <1>19, <1>20, <1>21 DEF FeederInv, Sending, modeVars
<1>25. LengthInv(k)'
  <2>1. expected' = expected /\ intent' = intent /\ step \notin Sending \cup {"closing"}
    BY <1>19 DEF modeVars, Sending
  <2>2. CASE intent[k] = "fail"
    BY <1>1, <1>2, <1>20, <2>1, <2>2 DEF LengthInv
  <2>3. CASE intent[k] = "final"
    <3>1. expected > 0 /\ sent[k] + 1 = expected
      BY <1>1, <2>3 DEF LengthInv, Sending
    <3>2. sent'[k] = expected /\ channel'[k].producer = "finished"
      BY <1>9, <1>20, <1>21, <2>3, <3>1
    <3>3. expected \in Nat
      BY <1>3, UploadAssumption
    <3> QED
      BY <1>20, <2>1, <3>2, <3>3 DEF LengthInv
  <2>4. CASE intent[k] = "chunk"
    <3>1. expected > 0 => sent[k] <= expected /\ sent[k] + 1 # expected /\ sent[k] # expected
      BY <1>1, <1>2, <2>4 DEF LengthInv, Sending
    <3>2. sent'[k] = sent[k] + 1
      BY <1>20, <2>4
    <3>3. expected \in Int /\ sent[k] \in Int
      BY <1>3, UploadAssumption DEF Items
    <3>4. expected > 0 => sent'[k] <= expected /\ sent'[k] # expected
      BY <3>1, <3>2, <3>3
    <3> QED
      BY <1>20, <2>1, <3>4 DEF LengthInv
  <2> QED
    BY <1>2, <2>2, <2>3, <2>4
<1>26. CountInv(k)'
  <2>1. /\ upload[k].emitted <= sent[k] /\ upload[k].inFlight <= upload[k].emitted
        /\ channel[k].outstanding = upload[k].inFlight + (sent[k] - upload[k].emitted)
        /\ Len(channel[k].queue) \in Nat /\ Len(channel[k].queue) < Capacity
    BY <1>1, <1>4 DEF CountInv, HasRoom
  <2>2. sent[k] \in Int /\ upload[k].emitted \in Int
    BY <1>3, <1>4 DEF Items
  <2>3. upload[k].emitted <= sent'[k] /\ out = upload[k].inFlight + (sent'[k] - upload[k].emitted)
    BY <1>4, <1>10, <1>20, <2>1, <2>2
  <2>4. \A i \in 1 .. Len(q) :
          \/ q[i] = Error /\ i = Len(q) /\ producer \notin {"open", "finished"}
          \/ q[i] = upload[k].emitted + i /\ q[i] <= sent'[k]
    <3>1. CASE intent[k] = "fail"
      <4>1. item = Error /\ producer = "failed" /\ sent'[k] = sent[k]
        BY <1>6, <1>9, <1>20, <3>1
      <4> QED
        BY <1>17, <4>1
    <3>2. CASE intent[k] # "fail"
      <4>1. item = sent[k] + 1 /\ sent'[k] = sent[k] + 1
        BY <1>6, <1>20, <3>2
      <4>2. SUFFICES ASSUME NEW i \in 1 .. Len(q)
                     PROVE  q[i] = upload[k].emitted + i /\ q[i] <= sent'[k]
        OBVIOUS
      <4>3. CASE i = Len(q) /\ q[i] = item
        BY <1>17, <2>2, <4>1, <4>3
      <4>4. CASE q[i] = upload[k].emitted + i /\ q[i] <= sent[k]
        BY <2>2, <4>1, <4>4
      <4> QED
        BY <1>17, <4>3, <4>4
    <3> QED
      BY <3>1, <3>2
  <2>5. producer = "open" => Len(q) = sent'[k] - upload[k].emitted
    BY <1>9, <1>16, <1>17, <1>20, <2>1, <2>2
  <2>6. Len(q) <= Capacity
    BY <1>17, <2>1, UploadAssumption
  <2> QED
    BY <1>20, <1>21, <2>1, <2>3, <2>4, <2>5, <2>6 DEF CountInv
<1>27. ProducerInv(k)'
  BY <1>1, <1>2, <1>9, <1>19, <1>20, <1>21 DEF ProducerInv, FeederInv
<1>28. WakeInv(k)'
  BY <1>19, <1>20, <1>22 DEF WakeInv
<1>29. AttemptInv(k)'
  BY <1>24, <1>25, <1>26, <1>27, <1>28 DEF AttemptInv
<1>30. \A j \in Attempts \ {k} : LeftAlone(j)
  BY <1>1, <1>14, <1>19, <1>22 DEF LeftAlone, TypeInv
<1> QED
  BY <1>23, <1>29, <1>30, LocalStep DEF modeVars

(* A send is rejected, pushes or finds the channel full. *)
LEMMA SendKeeps ==
  ASSUME IInv, NEW k \in Attempts, Send(k) PROVE IInv'
<1>1. /\ feeder[k] = "send"
      /\ UNCHANGED <<modeVars, owner, closing, transport, body, upload, broken, cancelled, setPending>>
  BY DEF Send, Runs
<1>2. CASE channel[k].closed
  BY <1>1, <1>2, RejectedKeeps DEF Send, Sending
<1>3. CASE ~channel[k].closed /\ HasRoom(k)
  BY <1>1, <1>3, PushKeeps DEF Send, HasRoom
<1>4. CASE ~channel[k].closed /\ ~HasRoom(k)
  BY <1>1, <1>4, FullKeeps DEF Send, HasRoom, FeederTo
<1> QED
  BY <1>2, <1>3, <1>4

--------------------------------------------------------------------------------
(* The transport. *)

(* The first item leaves the queue: a chunk, which is the next one, or the   *)
(* error, which is the last item.                                            *)
LEMMA QueueShrinks ==
  ASSUME NEW q \in Seq(Items), NEW emitted \in Items, NEW pushed \in Items, q # <<>>,
         NEW failed \in BOOLEAN,
         \A i \in 1 .. Len(q) : \/ q[i] = Error /\ i = Len(q) /\ failed
                                \/ q[i] = emitted + i /\ q[i] <= pushed
  PROVE  /\ Tail(q) \in Seq(Items) /\ Len(Tail(q)) = Len(q) - 1 /\ Len(q) \in Nat \ {0}
         /\ Head(q) = Error => Tail(q) = <<>> /\ failed
         /\ Head(q) # Error =>
              /\ emitted < pushed
              /\ \A i \in 1 .. Len(Tail(q)) :
                   \/ Tail(q)[i] = Error /\ i = Len(Tail(q)) /\ failed
                   \/ Tail(q)[i] = (emitted + 1) + i /\ Tail(q)[i] <= pushed
<1>1. /\ Tail(q) \in Seq(Items) /\ Len(Tail(q)) = Len(q) - 1 /\ Len(q) \in Nat \ {0}
      /\ Head(q) = q[1] /\ \A i \in 1 .. Len(Tail(q)) : Tail(q)[i] = q[i + 1]
  OBVIOUS
<1>a. PICK n \in Nat \ {0} : n = Len(q)
  BY <1>1
<1>b. PICK m : m = n - 1
  OBVIOUS
<1>2. n = Len(q) /\ m = n - 1 /\ m \in Nat /\ m = Len(Tail(q))
  <2>1. m \in Nat
    BY <1>b
  <2> QED
    BY <1>1, <1>a, <1>b, <2>1
<1>3. 1 \in 1 .. n /\ emitted \in Nat /\ pushed \in Nat
  BY UploadAssumption DEF Items
<1>4. \/ Head(q) = Error /\ 1 = n /\ failed
      \/ Head(q) = emitted + 1 /\ Head(q) <= pushed
  BY <1>1, <1>2, <1>3
<1>5. Head(q) = Error => n = 1 /\ failed
  BY <1>3, <1>4 DEF Error
<1>6. Head(q) = Error => Tail(q) = <<>>
  <2> SUFFICES ASSUME Head(q) = Error PROVE Tail(q) = <<>>
    OBVIOUS
  <2>1. n = 1
    BY <1>5
  <2>2. m = 0
    BY <1>b, <2>1
  <2> QED
    BY <1>1, <1>2, <2>2, EmptySeq
<1>7. Head(q) # Error => emitted < pushed
  BY <1>3, <1>4
<1>8. ASSUME NEW i \in 1 .. m
      PROVE  \/ Tail(q)[i] = Error /\ i = m /\ failed
             \/ Tail(q)[i] = (emitted + 1) + i /\ Tail(q)[i] <= pushed
  <2>1. i + 1 \in 1 .. n
    BY <1>2
  <2>2. Tail(q)[i] = q[i + 1]
    BY <1>1, <1>2
  <2>3. \/ q[i + 1] = Error /\ i + 1 = n /\ failed
        \/ q[i + 1] = emitted + (i + 1) /\ q[i + 1] <= pushed
    BY <1>2, <2>1
  <2>4. /\ i + 1 = n => i = m
        /\ emitted + (i + 1) = (emitted + 1) + i
    BY <1>2, <1>3
  <2> QED
    BY <2>2, <2>3, <2>4
<1> QED
  BY <1>1, <1>2, <1>5, <1>6, <1>7, <1>8

(* A step of the transport that takes the first item out of the queue.       *)
LEMMA TakenOut ==
  ASSUME IInv, NEW k \in Attempts, body[k] = "taken", channel[k].queue # <<>>,
         NEW up \in Uploads, NEW where \in {"taken", "ended"},
         channel' = [channel EXCEPT ![k].queue = Tail(channel[k].queue)],
         due' = due \cup Condvar(k) \cup Callback(k),
         upload' = [upload EXCEPT ![k] = up], body' = [body EXCEPT ![k] = where],
         \/ /\ Head(channel[k].queue) # Error
            /\ up.emitted = upload[k].emitted + 1 /\ up.inFlight = upload[k].inFlight + 1
         \/ /\ Head(channel[k].queue) = Error
            /\ up.emitted = upload[k].emitted /\ up.inFlight = upload[k].inFlight,
         UNCHANGED <<modeVars, owner, closing, transport, feeder, intent, sent, broken, cancelled,
                     setPending>>
  PROVE  IInv'
<1>1. TypeInv /\ FeederInv(k) /\ LengthInv(k) /\ CountInv(k) /\ ProducerInv(k) /\ WakeInv(k)
  BY DEF IInv, AttemptInv
<1>2. channel[k] \in Channels /\ upload[k] \in Uploads /\ sent[k] \in Items
  BY <1>1 DEF TypeInv
<1>3. /\ channel[k].queue \in Seq(Items) /\ channel[k].outstanding \in Int
      /\ channel[k].closed \in BOOLEAN /\ channel[k].producer \in Producers
      /\ upload[k].emitted \in Items /\ upload[k].inFlight \in Nat
  BY <1>2 DEF Channels, Uploads
<1>4. PICK q \in Seq(Items), emitted \in Items, pushed \in Items, failed \in BOOLEAN :
        /\ q = channel[k].queue /\ emitted = upload[k].emitted /\ pushed = sent[k]
        /\ failed <=> channel[k].producer \notin {"open", "finished"}
  BY <1>2, <1>3
<1>5. q # <<>> /\ \A i \in 1 .. Len(q) : \/ q[i] = Error /\ i = Len(q) /\ failed
                                         \/ q[i] = emitted + i /\ q[i] <= pushed
  BY <1>1, <1>4 DEF CountInv
<1>6. /\ Tail(q) \in Seq(Items) /\ Len(Tail(q)) = Len(q) - 1 /\ Len(q) \in Nat \ {0}
      /\ Head(q) = Error => Tail(q) = <<>> /\ failed
      /\ Head(q) # Error =>
           /\ emitted < pushed
           /\ \A i \in 1 .. Len(Tail(q)) :
                \/ Tail(q)[i] = Error /\ i = Len(Tail(q)) /\ failed
                \/ Tail(q)[i] = (emitted + 1) + i /\ Tail(q)[i] <= pushed
  BY <1>5, QueueShrinks
<1>7. PICK new : new = [channel[k] EXCEPT !.queue = Tail(q)]
  OBVIOUS
<1>8. /\ new \in Channels /\ new.queue = Tail(q) /\ new.closed = channel[k].closed
      /\ new.producer = channel[k].producer /\ new.outstanding = channel[k].outstanding
  BY <1>2, <1>6, <1>7 DEF Channels
<1>9. channel' = [channel EXCEPT ![k] = new]
  BY <1>1, <1>4, <1>7 DEF TypeInv
<1>10. channel'[k] = new /\ upload'[k] = up /\ body'[k] = where
  BY <1>1, <1>9 DEF TypeInv
<1>11. /\ due' \subseteq Attempts \X {"condvar", "waker", "callback"} /\ due \subseteq due'
       /\ feeder[k] = "blocked" => <<k, "condvar">> \in due'
       /\ kind = "async" /\ feeder[k] \in {"check", "waiting"} => <<k, "callback">> \in due'
  BY <1>1 DEF TypeInv, Condvar, Callback
<1>12. TypeInv'
  <2>1. /\ channel' \in [Attempts -> Channels] /\ upload' \in [Attempts -> Uploads]
        /\ body' \in [Attempts -> BodySteps]
    BY <1>1, <1>8, <1>9 DEF TypeInv, BodySteps
  <2> QED
    BY <1>1, <1>11, <2>1 DEF TypeInv, modeVars
<1>13. FeederInv(k)' /\ LengthInv(k)' /\ ProducerInv(k)'
  BY <1>1, <1>8, <1>10 DEF FeederInv, LengthInv, ProducerInv, modeVars
<1>14. CountInv(k)'
  <2>1. /\ emitted <= pushed /\ upload[k].inFlight <= emitted
        /\ channel[k].outstanding = upload[k].inFlight + (pushed - emitted)
        /\ ~channel[k].closed /\ channel[k].producer = "open" => Len(q) = pushed - emitted
        /\ Len(q) <= Capacity /\ emitted \in Int /\ pushed \in Int
    BY <1>1, <1>4 DEF CountInv, Items
  <2>2. Len(Tail(q)) <= Capacity
    BY <1>6, <2>1, UploadAssumption
  <2>3. CASE Head(q) # Error /\ up.emitted = emitted + 1 /\ up.inFlight = upload[k].inFlight + 1
    <3>1. /\ up.emitted <= pushed /\ up.inFlight <= up.emitted
          /\ channel[k].outstanding = up.inFlight + (pushed - up.emitted)
      BY <1>3, <1>6, <2>1, <2>3
    <3>2. ~channel[k].closed /\ channel[k].producer = "open" => Len(Tail(q)) = pushed - up.emitted
      BY <1>6, <2>1, <2>3
    <3>3. \A i \in 1 .. Len(Tail(q)) :
            \/ Tail(q)[i] = Error /\ i = Len(Tail(q)) /\ channel[k].producer \notin {"open", "finished"}
            \/ Tail(q)[i] = up.emitted + i /\ Tail(q)[i] <= pushed
      BY <1>4, <1>6, <2>3
    <3> QED
      BY <1>4, <1>8, <1>10, <2>2, <3>1, <3>2, <3>3 DEF CountInv
  <2>4. CASE Head(q) = Error /\ up.emitted = emitted /\ up.inFlight = upload[k].inFlight
    <3>1. Len(Tail(q)) = 0 /\ channel[k].producer # "open"
      BY <1>4, <1>6, <2>4
    <3>2. PICK m : m = 0 /\ m = Len(Tail(q))
      BY <3>1
    <3>3. \A i \in 1 .. m : FALSE
      BY <3>2
    <3> QED
      BY <1>4, <1>8, <1>10, <2>1, <2>2, <2>4, <3>1, <3>2, <3>3 DEF CountInv
  <2> QED
    BY <1>4, <2>3, <2>4
<1>15. WakeInv(k)'
  <2>1. feeder[k] \in {"check", "waiting"} => kind = "async"
    BY <1>1 DEF FeederInv
  <2> QED
    BY <1>10, <1>11, <2>1 DEF WakeInv
<1>16. AttemptInv(k)'
  BY <1>13, <1>14, <1>15 DEF AttemptInv
<1>17. \A j \in Attempts \ {k} : LeftAlone(j)
  BY <1>1, <1>9, <1>11 DEF LeftAlone, TypeInv
<1> QED
  BY <1>8, <1>10, <1>12, <1>16, <1>17, LocalStep DEF modeVars

(* A step of the transport that leaves the queue and the counts as they are. *)
LEMMA TransportLooks ==
  ASSUME IInv, NEW k \in Attempts, NEW up \in Uploads, NEW where \in BodySteps,
         upload' = [upload EXCEPT ![k] = up], body' = [body EXCEPT ![k] = where],
         up.emitted = upload[k].emitted, up.inFlight = upload[k].inFlight,
         where = "pending" => where = body[k] \/ (channel[k].queue = <<>> /\ ~channel[k].closed),
         UNCHANGED <<modeVars, owner, closing, transport, channel, due, feeder, intent, sent,
                     broken, cancelled, setPending>>
  PROVE  IInv'
<1>1. TypeInv /\ FeederInv(k) /\ LengthInv(k) /\ CountInv(k) /\ ProducerInv(k) /\ WakeInv(k)
  BY DEF IInv, AttemptInv
<1>2. TypeInv'
  BY <1>1 DEF TypeInv, modeVars
<1>3. upload'[k] = up /\ body'[k] = where
  BY <1>1 DEF TypeInv
<1>4. FeederInv(k)' /\ LengthInv(k)' /\ ProducerInv(k)'
  BY <1>1 DEF FeederInv, LengthInv, ProducerInv, modeVars
<1>5. CountInv(k)'
  BY <1>1, <1>3 DEF CountInv
<1>6. WakeInv(k)'
  BY <1>1, <1>3 DEF WakeInv, HasRoom
<1>7. AttemptInv(k)'
  BY <1>4, <1>5, <1>6 DEF AttemptInv
<1>8. \A j \in Attempts \ {k} : LeftAlone(j)
  BY <1>1 DEF LeftAlone, TypeInv
<1> QED
  BY <1>2, <1>7, <1>8, LocalStep DEF modeVars

(* The transport polls: a chunk, the error, the end, or nothing yet. *)
LEMMA PollKeeps ==
  ASSUME IInv, NEW k \in Attempts, Poll(k) PROVE IInv'
<1>1. TypeInv
  BY DEF IInv
<1>2. /\ upload[k] \in Uploads /\ channel[k] \in Channels /\ sent[k] \in Items
      /\ body[k] \in BodySteps /\ upload \in [Attempts -> Uploads] /\ body \in [Attempts -> BodySteps]
  BY <1>1 DEF TypeInv
<1>3. /\ body[k] = "taken"
      /\ UNCHANGED <<modeVars, owner, closing, transport, feeder, intent, sent, broken, cancelled,
                     setPending>>
  BY DEF Poll
<1>4. CASE /\ channel[k].queue # <<>> /\ Head(channel[k].queue) # Error
           /\ channel' = [channel EXCEPT ![k].queue = Tail(channel[k].queue)]
           /\ due' = due \cup Condvar(k) \cup Callback(k)
           /\ upload' = [upload EXCEPT ![k].emitted = @ + 1, ![k].inFlight = @ + 1]
           /\ UNCHANGED body
  <2>1. PICK up : up = [upload[k] EXCEPT !.emitted = @ + 1, !.inFlight = @ + 1]
    OBVIOUS
  <2>2. upload' = [upload EXCEPT ![k] = up] /\ body' = [body EXCEPT ![k] = "taken"]
    BY <1>2, <1>3, <1>4, <2>1
  <2>3. up.emitted = upload[k].emitted + 1 /\ up.inFlight = upload[k].inFlight + 1
    BY <1>2, <2>1 DEF Uploads
  <2>4. upload[k].emitted + 1 \in Items
    <3>1. PICK q \in Seq(Items), emitted \in Items, pushed \in Items, failed \in BOOLEAN :
            /\ q = channel[k].queue /\ emitted = upload[k].emitted /\ pushed = sent[k]
            /\ failed <=> channel[k].producer \notin {"open", "finished"}
      BY <1>2 DEF Channels, Uploads
    <3>2. q # <<>> /\ \A i \in 1 .. Len(q) : \/ q[i] = Error /\ i = Len(q) /\ failed
                                             \/ q[i] = emitted + i /\ q[i] <= pushed
      BY <1>4, <3>1 DEF IInv, AttemptInv, CountInv
    <3>3. Head(q) # Error => emitted < pushed
      BY <3>2, QueueShrinks
    <3> QED
      BY <1>4, <3>1, <3>3, UploadAssumption DEF Items
  <2>5. up \in Uploads
    <3>1. PICK emitted \in Items, inFlight \in Nat :
            emitted = upload[k].emitted + 1 /\ inFlight = upload[k].inFlight + 1
      BY <1>2, <2>4 DEF Uploads
    <3>2. up = [upload[k] EXCEPT !.emitted = emitted, !.inFlight = inFlight]
      BY <2>1, <3>1
    <3> QED
      BY <1>2, <3>2 DEF Uploads
  <2> QED
    BY <1>3, <1>4, <2>2, <2>3, <2>5, TakenOut
<1>5. CASE /\ channel[k].queue # <<>> /\ Head(channel[k].queue) = Error
           /\ channel' = [channel EXCEPT ![k].queue = Tail(channel[k].queue)]
           /\ due' = due \cup Condvar(k) \cup Callback(k)
           /\ upload' = [upload EXCEPT ![k].failed = TRUE]
           /\ BodyTo(k, "ended")
  <2>1. PICK up : up = [upload[k] EXCEPT !.failed = TRUE]
    OBVIOUS
  <2>2. upload' = [upload EXCEPT ![k] = up] /\ body' = [body EXCEPT ![k] = "ended"]
    BY <1>2, <1>5, <2>1 DEF BodyTo
  <2>3. up \in Uploads /\ up.emitted = upload[k].emitted /\ up.inFlight = upload[k].inFlight
    BY <1>2, <2>1 DEF Uploads
  <2> QED
    BY <1>3, <1>5, <2>2, <2>3, TakenOut
<1>6. CASE /\ channel[k].queue = <<>> /\ channel[k].closed
           /\ upload' = [upload EXCEPT ![k].eof = TRUE]
           /\ BodyTo(k, "ended")
           /\ UNCHANGED <<channel, due>>
  <2>1. PICK up : up = [upload[k] EXCEPT !.eof = TRUE]
    OBVIOUS
  <2>2. upload' = [upload EXCEPT ![k] = up] /\ body' = [body EXCEPT ![k] = "ended"]
    BY <1>2, <1>6, <2>1 DEF BodyTo
  <2>3. /\ up \in Uploads /\ up.emitted = upload[k].emitted /\ up.inFlight = upload[k].inFlight
        /\ "ended" \in BodySteps
    BY <1>2, <2>1 DEF Uploads, BodySteps
  <2> QED
    BY <1>3, <1>6, <2>2, <2>3, TransportLooks
<1>7. CASE /\ channel[k].queue = <<>> /\ ~channel[k].closed
           /\ BodyTo(k, "pending")
           /\ UNCHANGED <<channel, due, upload>>
  <2>1. upload' = [upload EXCEPT ![k] = upload[k]] /\ body' = [body EXCEPT ![k] = "pending"]
    BY <1>2, <1>7 DEF BodyTo
  <2>2. "pending" \in BodySteps
    BY DEF BodySteps
  <2> QED
    BY <1>2, <1>3, <1>7, <2>1, <2>2, TransportLooks
<1> QED
  BY <1>4, <1>5, <1>6, <1>7 DEF Poll

(* The write timeout fails the upload and leaves the channel. *)
LEMMA WriteTimeoutKeeps ==
  ASSUME IInv, NEW k \in Attempts, WriteTimeout(k) PROVE IInv'
<1>1. /\ upload[k] \in Uploads /\ upload \in [Attempts -> Uploads] /\ body \in [Attempts -> BodySteps]
  BY DEF IInv, TypeInv
<1>2. PICK up : up = [upload[k] EXCEPT !.failed = TRUE]
  OBVIOUS
<1>3. upload' = [upload EXCEPT ![k] = up] /\ body' = [body EXCEPT ![k] = "ended"]
  BY <1>1, <1>2 DEF WriteTimeout, BodyTo
<1>4. /\ up \in Uploads /\ up.emitted = upload[k].emitted /\ up.inFlight = upload[k].inFlight
      /\ "ended" \in BodySteps
  BY <1>1, <1>2 DEF Uploads, BodySteps
<1> QED
  BY <1>3, <1>4, TransportLooks DEF WriteTimeout

(* The transport has flushed what was written. *)
LEMMA FlushKeeps ==
  ASSUME IInv, NEW k \in Attempts, Flush(k) PROVE IInv'
<1>1. /\ upload[k] \in Uploads /\ upload \in [Attempts -> Uploads] /\ body \in [Attempts -> BodySteps]
      /\ body[k] \in BodySteps
  BY DEF IInv, TypeInv
<1>2. PICK up : up = [upload[k] EXCEPT !.flushed = TRUE]
  OBVIOUS
<1>3. upload' = [upload EXCEPT ![k] = up] /\ body' = [body EXCEPT ![k] = body[k]]
  BY <1>1, <1>2 DEF Flush
<1>4. up \in Uploads /\ up.emitted = upload[k].emitted /\ up.inFlight = upload[k].inFlight
  BY <1>1, <1>2 DEF Uploads
<1> QED
  BY <1>1, <1>3, <1>4, TransportLooks DEF Flush

(* A frame that is written, or thrown away, is no longer on its way. *)
LEMMA ConsumeKeeps ==
  ASSUME IInv, NEW k \in Attempts, Consume(k) PROVE IInv'
<1>1. TypeInv /\ FeederInv(k) /\ LengthInv(k) /\ CountInv(k) /\ ProducerInv(k) /\ WakeInv(k)
  BY DEF IInv, AttemptInv
<1>2. upload[k] \in Uploads /\ channel[k] \in Channels
  BY <1>1 DEF TypeInv
<1>3. PICK up : up = [upload[k] EXCEPT !.inFlight = @ - 1]
  OBVIOUS
<1>4. PICK new : new = [channel[k] EXCEPT !.outstanding = @ - 1]
  OBVIOUS
<1>5. /\ upload[k].inFlight > 0
      /\ upload' = [upload EXCEPT ![k] = up] /\ channel' = [channel EXCEPT ![k] = new]
      /\ UNCHANGED <<modeVars, owner, closing, transport, due, body, feeder, intent, sent, broken,
                     cancelled, setPending>>
  BY <1>1, <1>3, <1>4 DEF Consume, TypeInv
<1>6. up.inFlight = upload[k].inFlight - 1 /\ up.emitted = upload[k].emitted /\ up \in Uploads
  BY <1>2, <1>3, <1>5 DEF Uploads
<1>7. /\ new.outstanding = channel[k].outstanding - 1 /\ new.queue = channel[k].queue
      /\ new.closed = channel[k].closed /\ new.producer = channel[k].producer /\ new \in Channels
  BY <1>2, <1>4 DEF Channels
<1>8. TypeInv'
  BY <1>1, <1>5, <1>6, <1>7 DEF TypeInv, modeVars
<1>9. upload'[k] = up /\ channel'[k] = new
  BY <1>1, <1>5 DEF TypeInv
<1>10. FeederInv(k)' /\ LengthInv(k)' /\ ProducerInv(k)' /\ WakeInv(k)'
  BY <1>1, <1>5, <1>7, <1>9 DEF FeederInv, LengthInv, ProducerInv, WakeInv, HasRoom, modeVars
<1>11. CountInv(k)'
  <2>1. /\ upload[k].inFlight \in Nat /\ upload[k].emitted \in Int /\ sent[k] \in Int
        /\ channel[k].outstanding \in Int
    BY <1>1, <1>2 DEF TypeInv, Uploads, Channels, Items
  <2>2. /\ up.inFlight <= up.emitted
        /\ new.outstanding = up.inFlight + (sent[k] - up.emitted)
    BY <1>1, <1>6, <1>7, <2>1 DEF CountInv
  <2> QED
    BY <1>1, <1>5, <1>6, <1>7, <1>9, <2>2 DEF CountInv
<1>12. AttemptInv(k)'
  BY <1>10, <1>11 DEF AttemptInv
<1>13. \A j \in Attempts \ {k} : LeftAlone(j)
  BY <1>1, <1>5 DEF LeftAlone, TypeInv
<1> QED
  BY <1>5, <1>7, <1>8, <1>9, <1>12, <1>13, LocalStep DEF modeVars

--------------------------------------------------------------------------------
(* Notifications. *)

(* A notification is taken off the list only with what it wakes. *)
LEMMA NotifyKeeps ==
  ASSUME IInv, NEW k \in Attempts, NEW what \in {"condvar", "waker", "callback"}, Notify(k, what)
  PROVE  IInv'
<1>1. TypeInv /\ FeederInv(k) /\ LengthInv(k) /\ CountInv(k) /\ ProducerInv(k) /\ WakeInv(k)
  BY DEF IInv, AttemptInv
<1>2. /\ due' = due \ {<<k, what>>} /\ setPending' = (setPending \/ what = "callback")
      /\ UNCHANGED <<modeVars, owner, closing, transport, channel, upload, intent, sent, broken,
                     cancelled>>
  BY DEF Notify
<1>3. PICK step \in FeederSteps :
        /\ feeder' = [feeder EXCEPT ![k] = step]
        /\ step = IF what = "condvar" /\ feeder[k] = "blocked" THEN "send" ELSE feeder[k]
  BY <1>1 DEF Notify, TypeInv, FeederSteps, Sending
<1>4. PICK where \in BodySteps :
        /\ body' = [body EXCEPT ![k] = where]
        /\ where = IF what = "waker" /\ body[k] = "pending" THEN "taken" ELSE body[k]
  <2>1. body \in [Attempts -> BodySteps] /\ body[k] \in BodySteps /\ "taken" \in BodySteps
    BY <1>1 DEF TypeInv, BodySteps
  <2>2. body' = IF what = "waker" /\ body[k] = "pending"
                THEN [body EXCEPT ![k] = "taken"] ELSE body
    BY DEF Notify
  <2>3. CASE what = "waker" /\ body[k] = "pending"
    BY <2>1, <2>2, <2>3
  <2>4. CASE ~(what = "waker" /\ body[k] = "pending")
    <3>1. body' = [body EXCEPT ![k] = body[k]]
      BY <2>1, <2>2, <2>4
    <3> QED
      BY <2>1, <2>4, <3>1
  <2> QED
    BY <2>3, <2>4
<1>5. feeder'[k] = step /\ body'[k] = where
  BY <1>1, <1>3, <1>4 DEF TypeInv
<1>6. TypeInv'
  BY <1>1, <1>2, <1>3, <1>4 DEF TypeInv, modeVars
<1>7. FeederInv(k)'
  BY <1>1, <1>2, <1>3, <1>5 DEF FeederInv, Sending, modeVars
<1>8. LengthInv(k)'
  BY <1>1, <1>2, <1>3, <1>5 DEF LengthInv, Sending, modeVars
<1>9. CountInv(k)'
  BY <1>1, <1>2 DEF CountInv
<1>10. ProducerInv(k)'
  BY <1>1, <1>2, <1>3, <1>5 DEF ProducerInv
<1>11. WakeInv(k)'
  <2>1. \A other \in {"condvar", "waker", "callback"} \ {what} :
          <<k, other>> \in due => <<k, other>> \in due'
    BY <1>2
  <2>2. setPending => setPending'
    BY <1>2
  <2>3. CASE what = "condvar"
    BY <1>1, <1>2, <1>3, <1>4, <1>5, <2>1, <2>2, <2>3 DEF WakeInv, HasRoom
  <2>4. CASE what = "waker"
    BY <1>1, <1>2, <1>3, <1>4, <1>5, <2>1, <2>2, <2>4 DEF WakeInv, HasRoom
  <2>5. CASE what = "callback"
    BY <1>1, <1>2, <1>3, <1>4, <1>5, <2>1, <2>2, <2>5 DEF WakeInv, HasRoom
  <2> QED
    BY <2>3, <2>4, <2>5
<1>12. AttemptInv(k)'
  BY <1>7, <1>8, <1>9, <1>10, <1>11 DEF AttemptInv
<1>13. \A j \in Attempts \ {k} : LeftAlone(j)
  BY <1>1, <1>2, <1>3, <1>4 DEF LeftAlone, TypeInv
<1>14. feeder[k] = "none" => feeder'[k] = "none"
  BY <1>3, <1>5
<1> QED
  BY <1>2, <1>6, <1>12, <1>13, <1>14, LocalStep DEF modeVars

(* One event wakes the feeders of all attempts, and no feeder is between its *)
(* failed send and its await when the loop sets it.                          *)
LEMMA LoopSetKeeps ==
  ASSUME IInv, LoopSet PROVE IInv'
<1>1. TypeInv /\ \A k \in Attempts : AttemptInv(k)
  BY DEF IInv
<1>2. /\ feeder' = [k \in Attempts |-> IF feeder[k] = "waiting" THEN "send" ELSE feeder[k]]
      /\ setPending' = FALSE /\ ~OnLoop
      /\ UNCHANGED <<modeVars, owner, closing, transport, channel, due, body, upload, intent, sent,
                     broken, cancelled>>
  BY DEF LoopSet
<1>3. TypeInv'
  <2>1. feeder' \in [Attempts -> FeederSteps]
    BY <1>1, <1>2 DEF TypeInv, FeederSteps, Sending
  <2> QED
    BY <1>1, <1>2, <2>1 DEF TypeInv, modeVars
<1>4. ASSUME NEW k \in Attempts PROVE AttemptInv(k)'
  <2>1. FeederInv(k) /\ LengthInv(k) /\ CountInv(k) /\ ProducerInv(k) /\ WakeInv(k)
    BY <1>1 DEF AttemptInv
  <2>2. feeder'[k] = IF feeder[k] = "waiting" THEN "send" ELSE feeder[k]
    BY <1>2
  <2>3. feeder[k] # "check"
    BY <1>2, <2>1 DEF OnLoop, FeederInv
  <2>4. FeederInv(k)'
    BY <1>2, <2>1, <2>2 DEF FeederInv, Sending, modeVars
  <2>5. LengthInv(k)'
    BY <1>2, <2>1, <2>2 DEF LengthInv, Sending, modeVars
  <2>6. CountInv(k)'
    BY <1>2, <2>1 DEF CountInv
  <2>7. ProducerInv(k)'
    BY <1>2, <2>1, <2>2 DEF ProducerInv
  <2>8. WakeInv(k)'
    BY <1>2, <2>1, <2>2, <2>3 DEF WakeInv, HasRoom
  <2> QED
    BY <2>4, <2>5, <2>6, <2>7, <2>8 DEF AttemptInv
<1>5. OwnerInv'
  <2>1. /\ \A k \in Attempts : channel[k].closed => channel'[k].closed
        /\ \A k \in Attempts : feeder[k] = "none" => feeder'[k] = "none"
    BY <1>2
  <2> QED
    BY <1>2, <2>1, OwnerSteady
<1> QED
  BY <1>3, <1>4, <1>5 DEF IInv

--------------------------------------------------------------------------------
(* The owner. *)

(* A step that moves the owner and the transport and no attempt. *)
LEMMA AttemptsStay ==
  ASSUME IInv, TypeInv', OwnerInv',
         UNCHANGED <<modeVars, channel, due, body, upload, feeder, intent, sent, broken, setPending>>
  PROVE  IInv'
<1>1. \A j \in Attempts : LeftAlone(j)
  BY DEF LeftAlone
<1>2. \A j \in Attempts : AttemptInv(j)'
  BY <1>1, AloneKeeps DEF modeVars
<1> QED
  BY <1>2 DEF IInv

(* A step that aborts attempt k on the owner's behalf. *)
LEMMA OwnerAborts ==
  ASSUME IInv, NEW k \in Attempts, Abort(k), TypeInv', OwnerInv', NEW where \in BodySteps,
         body' = [body EXCEPT ![k] = where], where = body[k] \/ where = "taken",
         UNCHANGED <<modeVars, upload, feeder, intent, sent, broken, setPending>>
  PROVE  IInv'
<1>1. TypeInv
  BY DEF IInv
<1>2. due \subseteq due' /\ \A j \in Attempts \ {k} : channel'[j] = channel[j]
  BY AbortFacts
<1>3. body'[k] = where
  BY <1>1 DEF TypeInv
<1>4. AttemptInv(k)'
  BY <1>3, AbortedAttempt DEF modeVars
<1>5. \A j \in Attempts \ {k} : LeftAlone(j)
  BY <1>1, <1>2 DEF LeftAlone, TypeInv
<1>6. \A j \in Attempts \ {k} : AttemptInv(j)'
  BY <1>5, AloneKeeps DEF modeVars
<1> QED
  BY <1>4, <1>6 DEF IInv

(* The owner hands out the first channel, makes the next one, or refuses. *)
LEMMA TakeReceiverKeeps ==
  ASSUME IInv, TakeReceiver PROVE IInv'
<1>1. TypeInv /\ OwnerInv
  BY DEF IInv
<1>2. /\ transport = "idle"
      /\ UNCHANGED <<modeVars, closing, channel, due, body, upload, feeder, intent, sent, broken,
                     cancelled, setPending>>
  BY DEF TakeReceiver
<1>3. PICK a \in Attempts, s \in 0 .. MaxAttempts, r \in BOOLEAN :
        owner = [attempt |-> a, sender |-> s, receiver |-> r]
  BY <1>1 DEF TypeInv
<1>4. a \in Nat /\ s \in Nat
  BY UploadAssumption DEF Attempts
<1>5. /\ s \in {0, a} /\ (closing # "closed" => s = a)
      /\ \A k \in Attempts : /\ k > a \/ (k = a /\ r) => feeder[k] = "none"
                             /\ k < a => channel[k].closed
      /\ closing = "closed" => channel[a].closed
  BY <1>1, <1>2, <1>3 DEF OwnerInv, Unstarted
<1>a. PICK left : left = [owner EXCEPT !.receiver = FALSE]
  OBVIOUS
<1>b. /\ left.attempt = a /\ left.sender = s /\ left.receiver = FALSE
      /\ left \in [attempt : Attempts, sender : 0 .. MaxAttempts, receiver : BOOLEAN]
  <2>1. owner \in [attempt : Attempts, sender : 0 .. MaxAttempts, receiver : BOOLEAN]
        /\ owner.attempt = a /\ owner.sender = s
    BY <1>1, <1>3 DEF TypeInv
  <2> QED
    BY <1>a, <2>1
<1>6. CASE r /\ owner' = left /\ transport' = "start"
  <2>1. TypeInv'
    BY <1>1, <1>2, <1>6, <1>b DEF TypeInv, modeVars
  <2>2. OwnerInv'
    BY <1>2, <1>5, <1>6, <1>b DEF OwnerInv, Unstarted
  <2> QED
    BY <1>2, <2>1, <2>2, AttemptsStay
<1>7. CASE /\ ~r /\ a < MaxAttempts
           /\ owner' = [attempt |-> a + 1, sender |-> a + 1, receiver |-> FALSE]
           /\ transport' = IF s # 0 THEN "closePrevious" ELSE "start"
  <2>1. PICK n \in Attempts : n = a + 1 /\ n > 1 /\ a = n - 1
    BY <1>4, <1>7, UploadAssumption DEF Attempts
  <2>2. /\ n \in 0 .. MaxAttempts
        /\ owner' = [attempt |-> n, sender |-> n, receiver |-> FALSE]
    BY <1>7, <2>1 DEF Attempts
  <2>3. TypeInv'
    BY <1>1, <1>2, <1>7, <2>2 DEF TypeInv, modeVars
  <2>4. ASSUME NEW k \in Attempts, k > n \/ k = n PROVE feeder[k] = "none"
    <3>1. k > a
      BY <2>1, <2>4 DEF Attempts
    <3> QED
      BY <1>5, <3>1
  <2>5. ASSUME NEW k \in Attempts, k < n, ~(s # 0 /\ k = n - 1) PROVE channel[k].closed
    <3>1. k < a \/ k = a
      BY <2>1, <2>5 DEF Attempts
    <3>2. CASE k < a
      BY <1>5, <3>2
    <3>3. CASE k = a
      <4>1. s = 0
        BY <2>1, <2>5, <3>3
      <4>2. closing = "closed"
        BY <1>4, <1>5, <4>1 DEF Attempts
      <4> QED
        BY <1>5, <3>3, <4>2
    <3> QED
      BY <3>1, <3>2, <3>3
  <2>6. OwnerInv'
    <3>1. \A k \in Attempts : Unstarted(k)' => feeder[k] = "none"
      BY <2>2, <2>4 DEF Unstarted
    <3>2. \A k \in Attempts : k < n /\ ~(transport' = "closePrevious" /\ k = n - 1) => channel[k].closed
      BY <1>7, <2>5
    <3> QED
      BY <1>2, <1>7, <2>1, <2>2, <3>1, <3>2 DEF OwnerInv
  <2> QED
    BY <1>2, <2>3, <2>6, AttemptsStay
<1>8. CASE owner' = left /\ transport' = "refused"
  <2>1. TypeInv'
    BY <1>1, <1>2, <1>8, <1>b DEF TypeInv, modeVars
  <2>2. OwnerInv'
    BY <1>2, <1>5, <1>8, <1>b DEF OwnerInv, Unstarted
  <2> QED
    BY <1>2, <2>1, <2>2, AttemptsStay
<1> QED
  <2>1. owner.attempt = a /\ owner.sender = s /\ owner.receiver = r
    BY <1>3
  <2> QED
    BY <1>6, <1>7, <1>8, <1>a, <2>1 DEF TakeReceiver

(* A replay aborts the attempt before it. *)
LEMMA ClosePreviousKeeps ==
  ASSUME IInv, ClosePrevious PROVE IInv'
<1>1. TypeInv /\ OwnerInv
  BY DEF IInv
<1>2. /\ transport = "closePrevious" /\ transport' = "start" /\ Abort(owner.attempt - 1)
      /\ UNCHANGED <<modeVars, owner, closing, body, upload, feeder, intent, sent, broken,
                     cancelled, setPending>>
  BY DEF ClosePrevious
<1>3. PICK k \in Attempts : k = owner.attempt - 1
  <2>1. owner.attempt \in Attempts /\ owner.attempt > 1
    BY <1>1, <1>2 DEF TypeInv, OwnerInv
  <2> QED
    BY <2>1, UploadAssumption DEF Attempts
<1>4. Abort(k)
  BY <1>2, <1>3
<1>5. /\ channel' \in [Attempts -> Channels]
      /\ due' \subseteq Attempts \X {"condvar", "waker", "callback"}
      /\ \A j \in Attempts \ {k} : channel'[j] = channel[j]
      /\ channel'[k].closed
  BY <1>4, AbortFacts
<1>6. TypeInv'
  BY <1>1, <1>2, <1>5 DEF TypeInv, modeVars
<1>7. OwnerInv'
  <2>1. \A j \in Attempts : Unstarted(j)' <=> Unstarted(j)
    BY <1>2 DEF Unstarted
  <2>2. \A j \in Attempts : j < owner.attempt => channel'[j].closed
    BY <1>1, <1>2, <1>3, <1>5 DEF OwnerInv
  <2> QED
    BY <1>1, <1>2, <2>1, <2>2 DEF OwnerInv
<1>8. body' = [body EXCEPT ![k] = body[k]] /\ body[k] \in BodySteps
  BY <1>1, <1>2 DEF TypeInv
<1> QED
  BY <1>2, <1>4, <1>6, <1>7, <1>8, OwnerAborts

(* The feeder of an attempt starts, unless the upload was closed: then, and  *)
(* when its factory raises, the attempt is aborted.                          *)
LEMMA StartKeeps ==
  ASSUME IInv, Start PROVE IInv'
<1>1. TypeInv /\ OwnerInv
  BY DEF IInv
<1>2. /\ transport = "start"
      /\ UNCHANGED <<modeVars, owner, closing, upload, intent, sent, broken, cancelled, setPending>>
  BY DEF Start
<1>3. PICK k \in Attempts : k = owner.attempt
  BY <1>1 DEF TypeInv
<1>4. ~owner.receiver /\ feeder[k] = "none"
  BY <1>1, <1>2, <1>3 DEF OwnerInv, Unstarted
<1>5. k \in Nat /\ \A j \in Attempts : j \in Nat
  BY UploadAssumption DEF Attempts
<1>6. CASE /\ closing = "open" /\ transport' = "idle" /\ UNCHANGED <<channel, due>>
           /\ feeder' = [feeder EXCEPT ![k] = "feed"] /\ body' = [body EXCEPT ![k] = "taken"]
  <2>1. FeederInv(k) /\ LengthInv(k) /\ CountInv(k) /\ ProducerInv(k) /\ WakeInv(k)
    BY DEF IInv, AttemptInv
  <2>2. feeder'[k] = "feed" /\ body'[k] = "taken"
        /\ \A j \in Attempts \ {k} : feeder'[j] = feeder[j] /\ body'[j] = body[j]
    BY <1>1, <1>6 DEF TypeInv
  <2>3. TypeInv'
    BY <1>1, <1>2, <1>6 DEF TypeInv, modeVars, FeederSteps, BodySteps
  <2>4. FeederInv(k)' /\ LengthInv(k)'
    BY <1>2, <1>4, <1>6, <2>1, <2>2 DEF FeederInv, LengthInv, Sending, modeVars
  <2>5. CountInv(k)' /\ ProducerInv(k)'
    BY <1>2, <1>4, <1>6, <2>1, <2>2 DEF CountInv, ProducerInv
  <2>6. WakeInv(k)'
    BY <1>2, <1>4, <1>6, <2>1, <2>2 DEF WakeInv, HasRoom
  <2>7. \A j \in Attempts \ {k} : LeftAlone(j)
    BY <1>2, <1>6, <2>2 DEF LeftAlone
  <2>8. \A j \in Attempts \ {k} : AttemptInv(j)'
    BY <1>2, <2>7, AloneKeeps DEF modeVars
  <2>9. OwnerInv'
    <3>1. \A j \in Attempts : Unstarted(j)' => j # k /\ Unstarted(j)
      BY <1>2, <1>3, <1>4, <1>5, <1>6 DEF Unstarted
    <3> QED
      BY <1>1, <1>2, <1>3, <1>6, <2>2, <3>1 DEF OwnerInv
  <2> QED
    BY <2>3, <2>4, <2>5, <2>6, <2>8, <2>9 DEF IInv, AttemptInv
<1>7. CASE /\ Abort(k) /\ transport' \in {"idle", "refused"} /\ UNCHANGED feeder
           /\ body' \in {body, [body EXCEPT ![k] = "taken"]}
  <2>1. /\ channel' \in [Attempts -> Channels]
        /\ due' \subseteq Attempts \X {"condvar", "waker", "callback"}
        /\ \A j \in Attempts \ {k} : channel'[j] = channel[j]
        /\ channel'[k].closed
    BY <1>7, AbortFacts
  <2>2. PICK where \in BodySteps : /\ body' = [body EXCEPT ![k] = where]
                                   /\ where = body[k] \/ where = "taken"
    BY <1>1, <1>7 DEF TypeInv, BodySteps
  <2>3. TypeInv'
    BY <1>1, <1>2, <1>7, <2>1, <2>2 DEF TypeInv, modeVars
  <2>4. OwnerInv'
    <3>1. \A j \in Attempts : Unstarted(j)' => Unstarted(j)
      BY <1>2, <1>3, <1>4, <1>5, <1>7 DEF Unstarted
    <3> QED
      BY <1>1, <1>2, <1>3, <1>4, <1>7, <2>1, <3>1 DEF OwnerInv
  <2> QED
    BY <1>2, <1>7, <2>2, <2>3, <2>4, OwnerAborts
<1> QED
  BY <1>3, <1>6, <1>7 DEF Start, FeederTo, BodyTo

(* RawUploadBody::close aborts the attempt whose sender the owner has. *)
LEMMA CloseRawKeeps ==
  ASSUME IInv, CloseRaw PROVE IInv'
<1>1. TypeInv /\ OwnerInv
  BY DEF IInv
<1>2. /\ closing = "set" /\ closing' = "closed" /\ Abort(owner.sender)
      /\ owner' = [owner EXCEPT !.sender = 0]
      /\ UNCHANGED <<modeVars, transport, body, upload, feeder, intent, sent, broken, cancelled,
                     setPending>>
  BY DEF CloseRaw
<1>3. PICK k \in Attempts : k = owner.attempt /\ k = owner.sender
  BY <1>1, <1>2 DEF TypeInv, OwnerInv
<1>4. Abort(k)
  BY <1>2, <1>3
<1>5. /\ channel' \in [Attempts -> Channels]
      /\ due' \subseteq Attempts \X {"condvar", "waker", "callback"}
      /\ \A j \in Attempts \ {k} : channel'[j] = channel[j]
      /\ channel'[k].closed
  BY <1>4, AbortFacts
<1>6. /\ owner'.attempt = owner.attempt /\ owner'.sender = 0 /\ owner'.receiver = owner.receiver
      /\ owner' \in [attempt : Attempts, sender : 0 .. MaxAttempts, receiver : BOOLEAN]
  BY <1>1, <1>2, UploadAssumption DEF TypeInv
<1>7. TypeInv'
  BY <1>1, <1>2, <1>5, <1>6 DEF TypeInv, modeVars
<1>8. OwnerInv'
  <2>1. \A j \in Attempts : Unstarted(j)' <=> Unstarted(j)
    BY <1>2, <1>6 DEF Unstarted
  <2> QED
    BY <1>1, <1>2, <1>3, <1>5, <1>6, <2>1 DEF OwnerInv
<1>9. body' = [body EXCEPT ![k] = body[k]] /\ body[k] \in BodySteps
  BY <1>1, <1>2 DEF TypeInv
<1> QED
  BY <1>2, <1>4, <1>7, <1>8, <1>9, OwnerAborts

(* The first and the last part of a close, and a stuttering step. *)
LEMMA CloseKeeps ==
  ASSUME IInv, Close \/ CancelFeeders \/ UNCHANGED vars PROVE IInv'
<1>1. TypeInv /\ OwnerInv
  BY DEF IInv
<1>2. /\ closing' = closing \/ (closing = "open" /\ closing' = "set")
      /\ cancelled' \in {cancelled, TRUE}
      /\ UNCHANGED <<modeVars, owner, transport, channel, due, body, upload, feeder, intent, sent,
                     broken, setPending>>
  BY DEF Close, CancelFeeders, vars
<1>3. TypeInv'
  BY <1>1, <1>2 DEF TypeInv, modeVars
<1>4. OwnerInv'
  <2>1. \A j \in Attempts : Unstarted(j)' <=> Unstarted(j)
    BY <1>2 DEF Unstarted
  <2> QED
    BY <1>1, <1>2, <2>1 DEF OwnerInv
<1> QED
  BY <1>2, <1>3, <1>4, AttemptsStay

--------------------------------------------------------------------------------
(* The invariant holds. *)

(* The invariant holds initially. *)
LEMMA InitIInv ==
  ASSUME Init PROVE IInv
<1>1. 1 \in Attempts /\ 0 \in Items /\ {0, 1} \subseteq 0 .. MaxAttempts /\ 0 \in Nat
  BY UploadAssumption DEF Attempts, Items
<1>2. <<>> \in Seq(Items) /\ Len(<<>>) = 0
  BY EmptySeq
<1>3. NewChannel \in Channels /\ NewUpload \in Uploads
  BY <1>1, <1>2 DEF NewChannel, NewUpload, Channels, Uploads, Producers
<1>4. /\ owner = [attempt |-> 1, sender |-> 1, receiver |-> TRUE] /\ closing = "open"
      /\ transport = "idle" /\ due = {} /\ broken = {} /\ cancelled = FALSE /\ setPending = FALSE
      /\ kind \in Kinds /\ expected \in Lengths /\ replayable \in BOOLEAN
      /\ channel = [k \in Attempts |-> NewChannel] /\ upload = [k \in Attempts |-> NewUpload]
      /\ body = [k \in Attempts |-> "none"] /\ feeder = [k \in Attempts |-> "none"]
      /\ intent = [k \in Attempts |-> "chunk"] /\ sent = [k \in Attempts |-> 0]
  BY DEF Init
<1>5. TypeInv
  BY <1>1, <1>3, <1>4 DEF TypeInv, BodySteps, FeederSteps, Sending, Intents
<1>6. OwnerInv
  <2>1. \A k \in Attempts : ~(k < 1)
    BY DEF Attempts
  <2> QED
    BY <1>4, <2>1 DEF OwnerInv, Unstarted
<1>7. ASSUME NEW k \in Attempts PROVE AttemptInv(k)
  <2>1. /\ channel[k].queue = <<>> /\ channel[k].closed = FALSE /\ channel[k].producer = "open"
        /\ channel[k].outstanding = 0 /\ upload[k].emitted = 0 /\ upload[k].inFlight = 0
        /\ body[k] = "none" /\ feeder[k] = "none" /\ intent[k] = "chunk" /\ sent[k] = 0
    BY <1>4 DEF NewChannel, NewUpload
  <2>2. FeederInv(k) /\ ProducerInv(k) /\ WakeInv(k)
    BY <1>4, <2>1 DEF FeederInv, ProducerInv, WakeInv, Sending
  <2>3. LengthInv(k)
    BY <1>4, <2>1, UploadAssumption DEF LengthInv, Sending
  <2>4. CountInv(k)
    <3>1. \A i \in 1 .. 0 : FALSE
      OBVIOUS
    <3>2. 0 <= Capacity
      BY UploadAssumption
    <3> QED
      BY <1>2, <2>1, <3>1, <3>2 DEF CountInv
  <2> QED
    BY <2>2, <2>3, <2>4 DEF AttemptInv
<1> QED
  BY <1>5, <1>6, <1>7 DEF IInv

(* Every step keeps the invariant. *)
LEMMA NextIInv ==
  ASSUME IInv, [Next]_vars PROVE IInv'
<1>1. CASE TakeReceiver \/ ClosePrevious \/ Start \/ CloseRaw \/ LoopSet
  BY <1>1, TakeReceiverKeeps, ClosePreviousKeeps, StartKeeps, CloseRawKeeps, LoopSetKeeps
<1>2. CASE Close \/ CancelFeeders \/ UNCHANGED vars
  BY <1>2, CloseKeeps
<1>3. ASSUME NEW k \in Attempts, FeederStep(k) PROVE IInv'
  BY <1>3, YieldKeeps, SourceEndsKeeps, SourceRaisesKeeps, SendKeeps, CheckKeeps,
     FinishFailedKeeps, CloseSourcesKeeps, CancelTaskKeeps DEF FeederStep
<1>4. ASSUME NEW k \in Attempts, Notifications(k) PROVE IInv'
  BY <1>4, NotifyKeeps DEF Notifications
<1>5. ASSUME NEW k \in Attempts, Poll(k) \/ WriteTimeout(k) \/ Consume(k) \/ Flush(k) \/ DropBody(k)
      PROVE  IInv'
  BY <1>5, PollKeeps, WriteTimeoutKeeps, ConsumeKeeps, FlushKeeps, DropBodyKeeps
<1> QED
  BY <1>1, <1>2, <1>3, <1>4, <1>5 DEF Next

(* The invariant holds in every state of every behaviour. *)
LEMMA Invariance == Spec => []IInv
<1>1. Init => IInv
  BY InitIInv
<1>2. IInv /\ [Next]_vars => IInv'
  BY NextIInv
<1> QED
  BY <1>1, <1>2, PTL DEF Spec

--------------------------------------------------------------------------------
(* The theorems. *)

(* Type correctness: in particular a channel stays within its capacity, and  *)
(* the counts of frames on their way never underflow, whatever is consumed,  *)
(* aborted or replayed (data_consumed, data_frame_consumed).                 *)
THEOREM TypeCorrect == Spec => []TypeOK
<1>1. IInv => TypeOK
  <2> SUFFICES ASSUME IInv PROVE TypeOK
    OBVIOUS
  <2>1. TypeInv
    BY DEF IInv
  <2>2. ASSUME NEW k \in Attempts
        PROVE  /\ channel[k].queue \in Seq(Items) /\ Len(channel[k].queue) <= Capacity
               /\ channel[k].closed \in BOOLEAN
               /\ channel[k].producer \in {"open", "finished", "failed", "aborted"}
               /\ channel[k].outstanding \in upload[k].inFlight .. MaxFrames
               /\ upload[k].emitted \in 0 .. MaxFrames /\ upload[k].inFlight \in Nat
               /\ body[k] \in {"none", "taken", "pending", "ended", "dropped"}
               /\ feeder[k] \in {"none", "feed", "send", "blocked", "check", "waiting", "finish",
                                 "closing", "done"}
               /\ intent[k] \in {"chunk", "final", "finish", "fail", "nothing"}
               /\ sent[k] \in 0 .. MaxFrames
    <3>1. CountInv(k)
      BY DEF IInv, AttemptInv
    <3>2. channel[k] \in Channels /\ upload[k] \in Uploads /\ sent[k] \in Items
      BY <2>1 DEF TypeInv
    <3>3. body[k] \in BodySteps /\ feeder[k] \in FeederSteps /\ intent[k] \in Intents
      BY <2>1 DEF TypeInv
    <3>4. channel[k].outstanding \in upload[k].inFlight .. MaxFrames
      BY <3>1, <3>2, UploadAssumption DEF CountInv, Channels, Uploads, Items
    <3> QED
      BY <3>1, <3>2, <3>3, <3>4
      DEF CountInv, Channels, Uploads, Producers, Items, BodySteps, FeederSteps, Sending, Intents
  <2> QED
    BY <2>1, <2>2 DEF TypeInv, TypeOK
<1> QED
  BY <1>1, Invariance, PTL

(* The last chunk of a body with a content length has left only from a       *)
(* producer that is finished, so that hyper's drop of the receiver aborts    *)
(* nothing.                                                                  *)
THEOREM LastChunkAlwaysFinishes == Spec => []LastChunkFinishes
<1>1. IInv => LastChunkFinishes
  <2> SUFFICES ASSUME IInv, NEW k \in Attempts, expected > 0, upload[k].emitted = expected
               PROVE  channel[k].producer = "finished"
    BY DEF LastChunkFinishes
  <2>1. LengthInv(k) /\ CountInv(k) /\ sent[k] \in Items /\ upload[k] \in Uploads
    BY DEF IInv, AttemptInv, TypeInv
  <2>2. upload[k].emitted \in Int /\ sent[k] \in Int
    BY <2>1 DEF Items, Uploads
  <2>3. sent[k] = expected
    BY <2>1, <2>2 DEF LengthInv, CountInv
  <2> QED
    BY <2>1, <2>3 DEF LengthInv
<1> QED
  BY <1>1, Invariance, PTL

(* An upload that is_complete calls complete is whole: its source ended and  *)
(* closed cleanly, every chunk has left, and the length is the promised one. *)
(* A connection is given back to the pool on the strength of it.             *)
THEOREM CompleteIsAlwaysWhole == Spec => []CompleteIsWhole
<1>1. IInv => CompleteIsWhole
  <2> SUFFICES ASSUME IInv, NEW k \in Attempts, IsComplete(k)
               PROVE  /\ k \notin broken /\ feeder[k] = "done"
                      /\ upload[k].emitted = sent[k] /\ channel[k].queue = <<>>
                      /\ expected > 0 => sent[k] = expected
    BY DEF CompleteIsWhole
  <2>1. LengthInv(k) /\ CountInv(k) /\ ProducerInv(k)
    BY DEF IInv, AttemptInv
  <2>2. sent[k] \in Items /\ upload[k] \in Uploads /\ channel[k] \in Channels
    BY DEF IInv, TypeInv
  <2>3. /\ upload[k].emitted \in Int /\ sent[k] \in Int /\ channel[k].queue \in Seq(Items)
    BY <2>2 DEF Items, Uploads, Channels
  <2>4. /\ channel[k].producer = "finished" /\ channel[k].outstanding = 0 /\ upload[k].inFlight = 0
        /\ expected > 0 => upload[k].emitted = expected
    BY DEF IsComplete, FinishedAndDrained, WireBodyEnded
  <2>5. k \notin broken /\ feeder[k] = "done"
    BY <2>1, <2>4 DEF ProducerInv
  <2>6. upload[k].emitted = sent[k]
    BY <2>1, <2>3, <2>4 DEF CountInv
  <2>7. channel[k].queue = <<>>
    <3>1. SUFFICES ASSUME channel[k].queue # <<>> PROVE FALSE
      OBVIOUS
    <3>2. PICK q \in Seq(Items) : q = channel[k].queue
      BY <2>3
    <3>3. Len(q) \in Nat /\ Len(q) # 0
      BY <3>1, <3>2, EmptySeq
    <3>4. 1 \in 1 .. Len(q)
      BY <3>3
    <3>5. q[1] = upload[k].emitted + 1 /\ q[1] <= sent[k]
      BY <2>1, <2>4, <3>2, <3>4 DEF CountInv
    <3> QED
      BY <2>3, <2>6, <3>5
  <2> QED
    BY <2>4, <2>5, <2>6, <2>7
<1> QED
  BY <1>1, Invariance, PTL

(* Nobody sleeps while what it waits for is there: neither a feeder, on its  *)
(* thread or on the event loop, nor the transport.                           *)
THEOREM NoWakeupIsLost == Spec => []NoLostWakeup
<1>1. IInv => NoLostWakeup
  BY DEF IInv, AttemptInv, WakeInv, HasRoom, NoLostWakeup
<1> QED
  BY <1>1, Invariance, PTL

(* A replay closes the attempt before it, and closing the upload closes the  *)
(* attempt that is under way or about to start.                              *)
THEOREM NoAttemptIsLeftOpen == Spec => []NoAttemptLeftOpen
<1>1. IInv => NoAttemptLeftOpen
  BY DEF IInv, OwnerInv, NoAttemptLeftOpen
<1> QED
  BY <1>1, Invariance, PTL

================================================================================
