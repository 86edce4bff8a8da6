--------------------------- MODULE TelemetryJournal ---------------------------
(***************************************************************************)
(* The native event journal of a client (core/telemetry.rs): a bounded     *)
(* channel that every task and connection of the client records into, that *)
(* Python drains, and that close_connections seals.                        *)
(*                                                                         *)
(* A producer is a connection (its connector's future, then the connection *)
(* itself), a request, or the closing thread.  A step is one atomic        *)
(* operation or one section under a mutex, split where others look at an   *)
(* atomic that it writes; the atomics are taken to be sequentially         *)
(* consistent.  What a request records, and when, is the subject of        *)
(* ConnectionUse: here a request records events 1, 2, ... under the lock   *)
(* of its RequestState, so never two at a time.                            *)
(***************************************************************************)
EXTENDS Integers, Sequences, FiniteSets, SequencesExt

CONSTANTS
  Opens,       \* connection attempts, and the connections they open
  Requests,
  Closer,      \* the thread that closes the client
  Capacity,    \* NATIVE_TELEMETRY_JOURNAL_CAPACITY
  MaxEvents,   \* bound of the model: events of all requests together
  NoOne, NoEvent

Producers == Opens \cup Requests \cup {Closer}

ASSUME JournalAssumption ==
  /\ Capacity \in Nat \ {0} /\ MaxEvents \in Nat
  /\ IsFiniteSet(Opens) /\ IsFiniteSet(Requests)
  /\ Opens \cap Requests = {} /\ Closer \notin Opens \cup Requests
  /\ NoOne \notin Producers

VARIABLES
  sealed,       \* ClientTelemetryInner.closed
  active,       \* the producers that active_producers counts
  channel,      \* sender and receiver
  retained,     \* TelemetryJournal.retained
  queued,       \* queued_events
  dropped,      \* dropped_events
  connections,  \* ClientTelemetryInner.connections
  lock,         \* who holds the mutex of connections across steps
  pending,      \* ClientTelemetryInner.pending_opens
  finished,     \* opens whose ConnectionOpenTelemetryInner.finished is set
  closed,       \* connections whose ConnectionEventTelemetryInner.closed is set
  life,         \* of an open: what its owner does next
  pc, event,    \* of a producer: where it is, and what it is about to record
  recorded,     \* how many events each request has produced
  toFinish, toClose,   \* what close_connections took out of the registries
  draining,     \* the drain under way
  owed,         \* events a drain has taken and not yet subtracted from queued
  \* history
  known,        \* opens that were registered before the seal
  slipped,      \* connections that went after the seal and before the upgrade
  delivered,    \* what was drained of each source, in order
  lost,         \* events that found the journal full
  reported      \* drops that were handed to Python

journalVars == <<channel, retained, queued, dropped, draining, owed, delivered, lost, reported>>
openVars == <<connections, pending, finished, closed, life, known, slipped>>
closerVars == <<toFinish, toClose>>
vars == <<sealed, active, lock, journalVars, openVars, pc, event, recorded, closerVars>>

Goto(p, step) == pc' = [pc EXCEPT ![p] = step]

Init ==
  /\ sealed = FALSE /\ active = {} /\ lock = NoOne
  /\ channel = <<>> /\ retained = <<>> /\ queued = 0 /\ dropped = 0
  /\ draining = "no" /\ owed = 0
  /\ connections = {} /\ pending = {} /\ finished = {} /\ closed = {}
  /\ known = {} /\ slipped = {}
  /\ life = [c \in Opens |-> "none"]
  /\ pc = [p \in Producers |-> "rest"] /\ event = [p \in Producers |-> NoEvent]
  /\ recorded = [r \in Requests |-> 0]
  /\ toFinish = {} /\ toClose = {}
  /\ delivered = [p \in Opens \cup Requests |-> <<>>] /\ lost = {} /\ reported = 0

--------------------------------------------------------------------------------
(* Producing an event. *)

(* What the owner of an open may do next, and what it leads to.              *)
NextLife(kind) == IF kind = "opened" THEN "live" ELSE "gone"

(* A producer is done with its event, recorded or not. *)
Rest(p) ==
  /\ Goto(p, IF p = Closer THEN "finish" ELSE "rest")
  /\ event' = [event EXCEPT ![p] = NoEvent]
  /\ life' = IF p \in Opens THEN [life EXCEPT ![p] = NextLife(event[p][2])] ELSE life

(* ConnectionOpenTelemetry::opened, failed and its drop, which is a failure  *)
(* as well; the drop that follows the other two finds the open finished, or  *)
(* the journal sealed.  InstrumentedConnection's drop closes.                *)
Begin(p, kind) ==
  /\ pc[p] = "rest"
  /\ \/ p \in Opens /\ life[p] = "opening" /\ kind \in {"opened", "failed"}
     \/ p \in Opens /\ life[p] = "live" /\ kind = "closed"
     \/ p \in Requests /\ kind = recorded[p] + 1 /\ MapThenSumSet(LAMBDA r : recorded[r], Requests) < MaxEvents
  /\ event' = [event EXCEPT ![p] = <<p, kind>>]
  /\ recorded' = IF p \in Requests THEN [recorded EXCEPT ![p] = kind] ELSE recorded
  /\ Goto(p, "check")
  /\ UNCHANGED <<sealed, active, lock, journalVars, openVars, closerVars>>

(* try_begin_production sees the seal: nothing is recorded.  A connection    *)
(* that is being dropped is gone then, whether or not close_connections has  *)
(* already upgraded its weak reference.                                      *)
Refuse(p) ==
  /\ Rest(p)
  /\ slipped' = IF pc[Closer] = "upgrade" /\ p \in connections THEN slipped \cup {p} ELSE slipped

(* The first look of try_begin_production. *)
Check(p) ==
  /\ pc[p] = "check"
  /\ IF sealed THEN Refuse(p) ELSE Goto(p, "count") /\ UNCHANGED <<event, life, slipped>>
  /\ UNCHANGED <<sealed, active, lock, journalVars, connections, pending, finished, closed,
                 known, recorded, closerVars>>

Count(p) ==
  /\ pc[p] = "count"
  /\ active' = active \cup {p}
  /\ Goto(p, "recheck")
  /\ UNCHANGED <<sealed, lock, journalVars, openVars, event, recorded, closerVars>>

(* A request records under its own lock and has nothing to claim. *)
Counted(p) == IF p \in Requests THEN "reserve" ELSE "claim"

(* Mutant: try_begin_production does not look again once it is counted. *)
RecheckNothing(p) ==
  /\ pc[p] = "recheck"
  /\ Goto(p, Counted(p))
  /\ UNCHANGED <<sealed, active, lock, journalVars, openVars, event, recorded, closerVars>>

Recheck(p) ==
  /\ pc[p] = "recheck"
  /\ IF sealed THEN Refuse(p) /\ active' = active \ {p}
     ELSE Goto(p, Counted(p)) /\ UNCHANGED <<event, life, slipped, active>>
  /\ UNCHANGED <<sealed, lock, journalVars, connections, pending, finished, closed, known,
                 recorded, closerVars>>

Leave(p) == Rest(p) /\ active' = active \ {p}

(* Mutant: opened_connection does not look at the seal under the mutex. *)
ClaimOpenedBlindly(c) ==
  /\ lock = NoOne
  /\ IF c \in finished THEN Leave(c) /\ UNCHANGED <<lock, finished, connections>>
     ELSE /\ lock' = c /\ finished' = finished \cup {c} /\ connections' = connections \cup {c}
          /\ Goto(c, "reserve") /\ UNCHANGED <<active, event, life>>
  /\ UNCHANGED closed

(* opened_connection, under the mutex of connections, which it keeps until   *)
(* its event is recorded.  The registry holds weak references: the dead ones *)
(* go when a new one comes.                                                  *)
ClaimOpened(c) ==
  /\ lock = NoOne
  /\ IF sealed \/ c \in finished
     THEN Leave(c) /\ UNCHANGED <<lock, finished, connections>>
     ELSE /\ lock' = c
          /\ finished' = finished \cup {c}
          /\ connections' = {d \in connections : life[d] = "live"} \cup {c}
          /\ Goto(c, "reserve")
          /\ UNCHANGED <<active, event, life>>
  /\ UNCHANGED closed

(* finish_before_seal *)
ClaimFailed(c) ==
  /\ IF c \in finished THEN Leave(c) /\ UNCHANGED finished
     ELSE finished' = finished \cup {c} /\ Goto(c, "reserve") /\ UNCHANGED <<active, event, life>>
  /\ UNCHANGED <<lock, connections, closed>>

(* ConnectionEventTelemetry::closed; a connection whose opening was not      *)
(* recorded has no telemetry.                                                *)
ClaimClosed(c) ==
  /\ IF c \in closed THEN Leave(c) /\ UNCHANGED closed
     ELSE closed' = closed \cup {c} /\ Goto(c, "reserve") /\ UNCHANGED <<active, event, life>>
  /\ UNCHANGED <<lock, connections, finished>>

Claim(c) ==
  /\ pc[c] = "claim"
  /\ \/ event[c][2] = "opened" /\ ClaimOpened(c)
     \/ event[c][2] = "failed" /\ ClaimFailed(c)
     \/ event[c][2] = "closed" /\ ClaimClosed(c)
  /\ UNCHANGED <<sealed, journalVars, pending, known, slipped, recorded, closerVars>>

Unlocked(p) == IF lock = p THEN NoOne ELSE lock

(* record_unchecked: reserve_event_slot, or note_dropped_event. *)
Reserve(p) ==
  /\ pc[p] = "reserve"
  /\ IF queued < Capacity
     THEN /\ queued' = queued + 1 /\ Goto(p, "send")
          /\ UNCHANGED <<active, lock, dropped, lost, event, life>>
     ELSE /\ dropped' = dropped + 1 /\ lost' = lost \cup {event[p]}
          /\ Leave(p) /\ lock' = Unlocked(p)
          /\ UNCHANGED queued
  /\ UNCHANGED <<sealed, channel, retained, draining, owed, delivered, reported, connections, pending,
                 finished, closed, known, slipped, recorded, closerVars>>

(* try_send, then the drops of the lock and of TelemetryProducer.  The       *)
(* channel has as many places as there are reservations; a full one would    *)
(* give the reservation back.                                                *)
Send(p) ==
  /\ pc[p] = "send"
  /\ IF Len(channel) < Capacity
     THEN channel' = Append(channel, event[p]) /\ UNCHANGED <<queued, dropped, lost>>
     ELSE /\ queued' = queued - 1 /\ dropped' = dropped + 1 /\ lost' = lost \cup {event[p]}
          /\ UNCHANGED channel
  /\ Leave(p) /\ lock' = Unlocked(p)
  /\ UNCHANGED <<sealed, retained, draining, owed, delivered, reported, connections, pending, finished,
                 closed, known, slipped, recorded, closerVars>>

--------------------------------------------------------------------------------
(* Opens and the seal. *)

(* ClientTelemetry::connection_open, called by the connector, under the      *)
(* mutex of pending_opens, which only the closer keeps across steps.         *)
ConnectionOpen(c) ==
  /\ pc[c] = "rest" /\ life[c] = "none" /\ lock # Closer
  /\ life' = [life EXCEPT ![c] = "opening"]
  /\ IF sealed
     THEN finished' = finished \cup {c} /\ pending' = pending \ finished /\ UNCHANGED known
     ELSE /\ pending' = (pending \ finished) \cup {c} /\ known' = known \cup {c}
          /\ UNCHANGED finished
  /\ UNCHANGED <<sealed, active, lock, journalVars, connections, closed, slipped, pc, event,
                 recorded, closerVars>>

(* close_connections stores the seal under both mutexes.  RawClient::close   *)
(* borrows the client exclusively: no drain is under way.                    *)
Seal ==
  /\ pc[Closer] = "rest" /\ lock = NoOne /\ draining = "no"
  /\ sealed' = TRUE /\ lock' = Closer
  /\ Goto(Closer, "upgrade")
  /\ UNCHANGED <<active, journalVars, openVars, event, recorded, closerVars>>

(* Still under the mutexes: Weak::upgrade of the registered connections,     *)
(* which takes the ones that live, and the opens that are pending.           *)
TakeRegistries ==
  /\ pc[Closer] = "upgrade"
  /\ toClose' = {c \in connections : life[c] = "live"} /\ connections' = {}
  /\ toFinish' = pending /\ pending' = {}
  /\ lock' = NoOne
  /\ Goto(Closer, "spin")
  /\ UNCHANGED <<sealed, active, journalVars, finished, closed, life, known, slipped, event, recorded>>

Spin ==
  /\ pc[Closer] = "spin" /\ active = {}
  /\ Goto(Closer, "finish")
  /\ UNCHANGED <<sealed, active, lock, journalVars, openVars, event, recorded, closerVars>>

(* finish_after_seal *)
FinishOpen(c) ==
  /\ pc[Closer] = "finish" /\ c \in toFinish
  /\ toFinish' = toFinish \ {c}
  /\ finished' = finished \cup {c}
  /\ IF c \in finished THEN UNCHANGED <<pc, event>>
     ELSE event' = [event EXCEPT ![Closer] = <<c, "failed">>] /\ Goto(Closer, "reserve")
  /\ UNCHANGED <<sealed, active, lock, journalVars, connections, pending, closed, life, known,
                 slipped, recorded, toClose>>

(* closed_after_seal *)
CloseConnection(c) ==
  /\ pc[Closer] = "finish" /\ toFinish = {} /\ c \in toClose
  /\ toClose' = toClose \ {c}
  /\ closed' = closed \cup {c}
  /\ IF c \in closed THEN UNCHANGED <<pc, event>>
     ELSE event' = [event EXCEPT ![Closer] = <<c, "closed">>] /\ Goto(Closer, "reserve")
  /\ UNCHANGED <<sealed, active, lock, journalVars, connections, pending, finished, life, known,
                 slipped, recorded, toFinish>>

CloseReturns ==
  /\ pc[Closer] = "finish" /\ toFinish = {} /\ toClose = {}
  /\ Goto(Closer, "done")
  /\ UNCHANGED <<sealed, active, lock, journalVars, openVars, event, recorded, closerVars>>

--------------------------------------------------------------------------------
(* Draining. *)

(* Events of a connection carry no request_id: any drain takes them. *)
Taken(scope, e) == e[1] \in Opens \/ scope = NoOne \/ e[1] = scope

(* The events of one connection or request. *)
Of(p, events) == SelectSeq(events, LAMBDA e : e[1] = p)

(* Mutant: what earlier drains have retained comes after the channel. *)
DrainNewestFirst(scope) ==
  LET Mine(e) == Taken(scope, e)
      Others(e) == ~Taken(scope, e)
      all == channel \o retained
      events == SelectSeq(all, Mine)
  IN  /\ draining = "no" /\ pc[Closer] \in {"rest", "done"}
      /\ draining' = IF scope = NoOne THEN "all" ELSE "request"
      /\ retained' = SelectSeq(all, Others) /\ channel' = <<>>
      /\ delivered' = [p \in Opens \cup Requests |-> delivered[p] \o Of(p, events)]
      /\ owed' = Len(events)
      /\ UNCHANGED <<sealed, active, lock, queued, dropped, lost, reported, openVars, pc, event,
                     recorded, closerVars>>

(* ClientTelemetry::drain under the journal's mutex: drain_request or, for   *)
(* NoOne, drain_all.  The GIL keeps drains apart.                            *)
Drain(scope) ==
  LET Mine(e) == Taken(scope, e)
      Others(e) == ~Taken(scope, e)
      all == retained \o channel
      events == SelectSeq(all, Mine)
  IN  /\ draining = "no" /\ pc[Closer] \in {"rest", "done"}
      /\ draining' = IF scope = NoOne THEN "all" ELSE "request"
      /\ retained' = SelectSeq(all, Others) /\ channel' = <<>>
      /\ delivered' = [p \in Opens \cup Requests |-> delivered[p] \o Of(p, events)]
      /\ owed' = Len(events)
      /\ UNCHANGED <<sealed, active, lock, queued, dropped, lost, reported, openVars, pc, event,
                     recorded, closerVars>>

(* The rest of it, outside the mutex; only a full drain reports the drops. *)
EndDrain ==
  /\ draining # "no" /\ draining' = "no"
  /\ queued' = queued - owed /\ owed' = 0
  /\ IF draining = "all" THEN reported' = reported + dropped /\ dropped' = 0
     ELSE UNCHANGED <<reported, dropped>>
  /\ UNCHANGED <<sealed, active, lock, channel, retained, delivered, lost, openVars, pc, event,
                 recorded, closerVars>>

Next ==
  \/ \E p \in Producers :
       \/ \E kind \in {"opened", "failed", "closed"} : p \in Opens /\ Begin(p, kind)
       \/ \E n \in 1 .. MaxEvents : p \in Requests /\ Begin(p, n)
       \/ Check(p) \/ Count(p) \/ Recheck(p) \/ Reserve(p) \/ Send(p)
  \/ \E c \in Opens : ConnectionOpen(c) \/ Claim(c) \/ FinishOpen(c) \/ CloseConnection(c)
  \/ Seal \/ TakeRegistries \/ Spin \/ CloseReturns
  \/ \E scope \in Requests \cup {NoOne} : Drain(scope)
  \/ EndDrain

Spec == Init /\ [][Next]_vars

--------------------------------------------------------------------------------
(* Properties. *)

(* What was recorded of one source, in the order it is or will be handed out. *)
Story(p) == delivered[p] \o Of(p, retained \o channel)

(* What was recorded or counted as dropped. *)
Produced == lost \cup UNION {ToSet(Story(p)) : p \in Opens \cup Requests}

(* What was produced or is just being recorded. *)
Claimed == Produced \cup {event[p] : p \in {q \in Producers : pc[q] \in {"reserve", "send"}}}

(* An open ends in one way, opened or failed, and a connection closes at     *)
(* most once and only if it was opened; when close has returned, every open  *)
(* that was under way at the seal has its end, and every connection that was *)
(* opened is closed, but for those whose drop saw the seal before            *)
(* close_connections had upgraded their weak references: of these, and of no *)
(* others, the end is never told.  The connector, the connection's drop and  *)
(* the closing thread race for each of these (telemetry.rs:239, 271, 275,    *)
(* 466, 470, 514).                                                           *)
OpensSettled ==
  /\ \A c \in Opens :
       /\ ~({<<c, "opened">>, <<c, "failed">>} \subseteq Claimed)
       /\ <<c, "closed">> \in Claimed => <<c, "opened">> \in Produced /\ c \notin slipped
  /\ pc[Closer] = "done" => \A c \in known :
       \/ <<c, "failed">> \in Produced
       \/ <<c, "opened">> \in Produced /\ (<<c, "closed">> \in Produced \/ c \in slipped)

(* The journal loses nothing silently: queued_events is what is in the       *)
(* channel or retained plus what is being sent or was just taken, within the *)
(* capacity; no event is handed out twice; the events of a request come in   *)
(* the order of their recording, also when other requests drain in between;  *)
(* and every drop is counted once (telemetry.rs:328, 356, 384).              *)
JournalAccounts ==
  /\ queued = Len(retained) + Len(channel) + owed
                + Cardinality({p \in Producers : pc[p] = "send"})
  /\ queued <= Capacity
  /\ dropped + reported = Cardinality(lost)
  /\ \A p \in Opens \cup Requests : \A i, j \in 1 .. Len(Story(p)) : i < j =>
       IF p \in Requests THEN Story(p)[i][2] < Story(p)[j][2]
       ELSE Story(p)[i][2] = "opened" /\ Story(p)[j][2] = "closed"

(* Once close has returned nothing is recorded any more, so that the drain   *)
(* which Python does after it is the last one: a producer is either waited   *)
(* for or sees the seal (telemetry.rs:280, 372).                             *)
SealedIsFinal == [][pc[Closer] = "done" => Produced' = Produced]_vars

================================================================================
