----------------------------- MODULE ConnectionUse -----------------------------
(***************************************************************************)
(* Who uses a pooled connection: ConnectionTelemetry, ConnectionUseGuard   *)
(* and InstrumentedConnection (core/client/telemetry/mod.rs), the capture  *)
(* of the assignment (py/client/transport/request.rs) and the request's    *)
(* own account of its phases and uses (RequestTelemetry,                   *)
(* core/telemetry.rs).                                                     *)
(*                                                                         *)
(* Three kinds of actors race: the tasks of requests, the task hyper runs  *)
(* for each connection, and the threads that cancel requests.  An actor's  *)
(* `todo` is what it still does before its next await; each of its steps   *)
(* is a section under one mutex.  hyper and the socket are external: hyper *)
(* hands a connection to the next request once it has read the response    *)
(* and written and flushed the request of the last one, without waiting    *)
(* for the guard of that request.                                          *)
(***************************************************************************)
EXTENDS Integers, Sequences, FiniteSets, SequencesExt

CONSTANTS
  Connections, Requests,
  MaxUses,      \* bound: how often connections are handed to requests in all
  None

Actors == Connections \cup Requests

(* A ConnectionUseGuard, the active request of a WriteTimeoutState and the   *)
(* token of a connection use; each is one in an Option.                      *)
Guards == [conn : Connections, use : Nat, token : BOOLEAN]
Writers == [use : Nat, request : Requests]
Tokens == Connections \X Nat

ASSUME UseAssumption ==
  /\ IsFiniteSet(Connections) /\ IsFiniteSet(Requests)
  /\ Connections \cap Requests = {} /\ None \notin Actors
  /\ None \notin Guards /\ None \notin Writers /\ None \notin Tokens
  /\ MaxUses \in Nat

VARIABLES
  traced,     \* whether the client has native telemetry
  \* ConnectionTelemetryInner
  conn,       \* of a connection: uses, idle, closed, aborted, waker (io_waker)
  timeout,    \* of a connection: WriteTimeoutState
  lock,       \* who holds the mutex of idle_since across steps
  \* hyper and the socket
  current,    \* the request a connection is serving
  woken,      \* connections whose task was woken and not polled since
  unflushed,  \* connections with bytes on their way to the socket
  response,   \* of a request: none, head, then keep or close
  wire,       \* requests whose body has left hyper: RequestBodyCompletionState
  produced,   \* requests whose body's producer has finished
  flushed,    \* requests with transport_flushed
  \* the actors
  at,         \* where a request is between its awaits
  todo,       \* what an actor does before its next await
  assigned,   \* of a request: the connection its capture shows
  guard,      \* of a request: its ConnectionUseGuard
  victim,     \* of an actor: whose use it aborts
  \* RequestTelemetry
  phase,      \* requests with an active phase: they wait for a slot
  use,        \* of a request: the token of its connection_use
  cancelled,
  \* history
  clean,      \* the uses that were finished, not aborted
  sent        \* of a connection: the requests whose bytes were written, in order

hyperVars == <<current, woken, unflushed, response, sent>>
bodyVars == <<wire, produced, flushed>>
storyVars == <<phase, use, cancelled, clean>>
taskVars == <<at, todo, assigned, guard, victim>>
vars == <<traced, conn, timeout, lock, hyperVars, bodyVars, taskVars, storyVars>>

(* WriteTimeoutState::default.  The clock is not modelled, nor is            *)
(* pending_waker: it wakes the task that io_waker wakes, which the task sets *)
(* whenever it is polled.                                                    *)
NoTimeout == [active |-> None, started |-> FALSE]

Init ==
  /\ traced \in BOOLEAN
  /\ conn = [k \in Connections |->
               [uses |-> 0, idle |-> FALSE, closed |-> FALSE, aborted |-> FALSE, waker |-> FALSE]]
  /\ timeout = [k \in Connections |-> NoTimeout]
  /\ lock = [k \in Connections |-> None]
  /\ current = [k \in Connections |-> None] /\ woken = {} /\ unflushed = {}
  /\ response = [r \in Requests |-> "none"]
  /\ wire \in SUBSET Requests    \* those have no body
  /\ produced = wire /\ flushed = {}
  /\ at = [r \in Requests |-> "start"] /\ todo = [a \in Actors |-> <<>>]
  /\ assigned = [r \in Requests |-> None]
  /\ guard = [r \in Requests |-> None] /\ victim = [a \in Actors |-> None]
  /\ phase = {} /\ use = [r \in Requests |-> None] /\ cancelled = {} /\ clean = {}
  /\ sent = [k \in Connections |-> <<>>]

(* RequestBodyCompletion::is_complete; is_wire_finished is r \in flushed.    *)
Complete(r) == r \in wire /\ r \in produced /\ r \in flushed

Does(a, step) == todo[a] # <<>> /\ Head(todo[a]) = step
Then(a, steps) == todo' = [todo EXCEPT ![a] = steps \o Tail(@)]
Done(a) == Then(a, <<>>)

(* Waking a task that is being polled has it polled again; a task whose      *)
(* connection is dropped is not polled any more.                             *)
Wake(k) == woken' = IF conn[k].waker /\ ~conn[k].closed THEN woken \cup {k} ELSE woken

--------------------------------------------------------------------------------
(* RequestTelemetry: every operation is one section under the state's lock.  *)

(* Nothing of this changes while a request waits for its slot. *)
outsideAcquire == <<traced, conn, timeout, lock, hyperVars, bodyVars, todo, assigned, guard, victim,
                    use, cancelled, clean>>

(* begin_phase, when acquire_request_slot begins. *)
BeginAcquire(r) ==
  /\ at[r] = "start" /\ at' = [at EXCEPT ![r] = "acquire"]
  /\ phase' = IF traced /\ r \notin cancelled THEN phase \cup {r} ELSE phase
  /\ UNCHANGED outsideAcquire

(* finish_phase, when it ends with a slot, a pool timeout or the total one. *)
EndAcquire(r) ==
  /\ at[r] = "acquire" /\ \E next \in {"send", "over"} : at' = [at EXCEPT ![r] = next]
  /\ phase' = phase \ {r}
  /\ UNCHANGED outsideAcquire

(* finish_connection_use with a terminal outcome, or for None                *)
(* abort_active_connection_use: the use is over with a connection_aborted.   *)
(* The event that the first abort of a connection records for a request      *)
(* without a use changes nothing here.                                       *)
AbortStory(v, token) ==
  use' = IF traced /\ v # None /\ token \in {use[v], None}
         THEN [use EXCEPT ![v] = None] ELSE use

Over(r) == at[r] = "over" /\ todo[r] = <<>>

(* A request holds its connection_assignment lock from the poll that hands   *)
(* it a connection until it has observed it.                                 *)
Assigning(r) == at[r] = "headers" /\ todo[r] # <<>>

(* RequestTelemetry::cancel, by the thread that cancels the request; the     *)
(* task is dropped later.                                                    *)
Cancel(r) ==
  /\ traced /\ ~Over(r) /\ r \notin cancelled /\ ~Assigning(r)
  /\ cancelled' = cancelled \cup {r}
  /\ phase' = phase \ {r} /\ use' = [use EXCEPT ![r] = None]
  /\ UNCHANGED <<traced, conn, timeout, lock, hyperVars, bodyVars, taskVars, clean>>

--------------------------------------------------------------------------------
(* A request is given a connection: await_response_headers, observe and      *)
(* request_started_with_body_completion.                                     *)

Down(k) == conn[k].closed \/ Does(k, "drop")
Opened(k) == conn[k].uses > 0 \/ current[k] # None
Supersede == <<"finishWrite", "finishUse">>
Observation == <<"observe", "beginUse", "beginTimeout", "wake">>

(* How often connections were handed to requests. *)
HandedOut ==
  FoldFunction(+, 0, [k \in Connections |-> conn[k].uses])
    + Cardinality({r \in Requests : Does(r, "observe")})

(* hyper publishes the connection while the response future is polled.  A    *)
(* request that was not written when its connection went down is given       *)
(* another one; its guard is superseded.  Bound: only the first connection   *)
(* and such a replacement are new, as requests on connections of their own   *)
(* share nothing.                                                            *)
Assign(r, k) ==
  /\ todo[r] = <<>> /\ ~Down(k) /\ current[k] = None
  /\ HandedOut < MaxUses
  /\ \/ at[r] = "send" /\ (Opened(k) \/ \A j \in Connections : ~Opened(j))
     \/ /\ at[r] = "headers" /\ Down(guard[r].conn)
        /\ r \notin ToSet(sent[guard[r].conn])
  /\ assigned' = [assigned EXCEPT ![r] = k]
  /\ current' = [current EXCEPT ![k] = r] /\ woken' = woken \cup {k}
  /\ at' = [at EXCEPT ![r] = "headers"]
  /\ todo' = [todo EXCEPT ![r] = (IF guard[r] = None THEN <<>> ELSE Supersede) \o Observation]
  /\ UNCHANGED <<traced, conn, timeout, lock, unflushed, response, sent, bodyVars, guard, victim,
                 storyVars>>

(* The connection leaves the idle state and counts the use. *)
Observe(r) ==
  LET k == assigned[r]
  IN  /\ Does(r, "observe") /\ lock[k] = None
      /\ guard' = [guard EXCEPT ![r] = [conn |-> k, use |-> conn[k].uses, token |-> FALSE]]
      /\ conn' = [conn EXCEPT ![k].idle = FALSE, ![k].uses = @ + 1]
      /\ Done(r)
      /\ UNCHANGED <<traced, timeout, lock, hyperVars, bodyVars, at, assigned, victim, storyVars>>

(* The token of a guard's use. *)
Token(g) == IF g.token THEN <<g.conn, g.use>> ELSE None

(* begin_connection_use *)
BeginUse(r) ==
  LET g == guard[r]
  IN  /\ Does(r, "beginUse")
      /\ IF traced /\ r \notin cancelled /\ use[r] = None
         THEN /\ use' = [use EXCEPT ![r] = <<g.conn, g.use>>]
              /\ guard' = [guard EXCEPT ![r].token = TRUE]
         ELSE UNCHANGED <<use, guard>>
      /\ Done(r)
      /\ UNCHANGED <<traced, conn, timeout, lock, hyperVars, bodyVars, at, assigned, victim,
                     phase, cancelled, clean>>

(* WriteTimeoutState::begin_request. *)
BeginRequest(r) ==
  [active |-> [use |-> guard[r].use, request |-> r], started |-> FALSE]

(* The upload of the use before is not over. *)
PreviousIncomplete(k) ==
  timeout[k].active # None /\ ~Complete(timeout[k].active.request)

(* begin_request_write_timeout *)
BeginTimeout(r) ==
  LET k == guard[r].conn
  IN  /\ Does(r, "beginTimeout")
      /\ IF conn[k].closed \/ conn[k].aborted
         THEN todo' = [todo EXCEPT ![r] = <<>>] /\ UNCHANGED <<timeout, victim>>
         ELSE IF PreviousIncomplete(k)
         THEN /\ victim' = [victim EXCEPT ![r] = timeout[k].active.request]
              /\ todo' = [todo EXCEPT ![r] = <<"abortPrevious">>]
              /\ UNCHANGED timeout
         ELSE /\ timeout' = [timeout EXCEPT ![k] = BeginRequest(r)]
              /\ Done(r) /\ UNCHANGED victim
      /\ UNCHANGED <<traced, conn, lock, hyperVars, bodyVars, at, assigned, guard, storyVars>>

WakeIo(r) ==
  LET k == guard[r].conn
  IN  /\ Does(r, "wake")
      /\ Wake(k)
      /\ Done(r)
      /\ UNCHANGED <<traced, conn, timeout, lock, current, unflushed, response, sent, bodyVars, at,
                     assigned, guard, victim, storyVars>>

--------------------------------------------------------------------------------
(* Aborting a connection, by a request or by the connection's own task.      *)

(* What no abort changes. *)
outsideAbort == <<traced, timeout, current, unflushed, response, sent, bodyVars, at, assigned,
                  guard, phase, cancelled, clean>>

(* abort_current_connection_use_locked, up to the io_waker: the mutex of     *)
(* idle_since stays locked.                                                  *)
AbortLocked(a, k, v, token) ==
  /\ lock[k] = None
  /\ IF conn[k].aborted
     THEN AbortStory(v, token) /\ Done(a) /\ UNCHANGED <<conn, lock, victim>>
     ELSE /\ conn' = [conn EXCEPT ![k].aborted = TRUE, ![k].idle = FALSE]
          /\ lock' = [lock EXCEPT ![k] = a]
          /\ victim' = [victim EXCEPT ![a] = v]
          /\ Then(a, <<"abortWake">>)
          /\ UNCHANGED use
  /\ UNCHANGED <<woken, outsideAbort>>

(* A request aborts in its own name with its token, in another's without. *)
AbortToken(a) == IF a \in Requests /\ victim[a] = a THEN Token(guard[a]) ELSE None

(* Mutant: the task that waits for the socket is not told. *)
AbortWakeNobody(a, k) ==
  /\ Does(a, "abortWake")
  /\ AbortStory(victim[a], AbortToken(a))
  /\ lock' = [lock EXCEPT ![k] = None]
  /\ victim' = [victim EXCEPT ![a] = None]
  /\ Done(a)
  /\ UNCHANGED <<conn, woken, outsideAbort>>

(* Its end: the io_waker is taken and woken, and the use reported. *)
AbortWake(a, k) ==
  /\ Does(a, "abortWake")
  /\ Wake(k)
  /\ conn' = [conn EXCEPT ![k].waker = FALSE]
  /\ AbortStory(victim[a], AbortToken(a))
  /\ lock' = [lock EXCEPT ![k] = None]
  /\ victim' = [victim EXCEPT ![a] = None]
  /\ Done(a)
  /\ UNCHANGED outsideAbort

IsCurrentUse(g) == conn[g.conn].uses = g.use + 1

(* abort_connection_use: a use that is not the current one only reports. *)
AbortUse(r) ==
  LET g == guard[r]
  IN  /\ Does(r, "abortUse") /\ lock[g.conn] = None
      /\ IF IsCurrentUse(g) THEN AbortLocked(r, g.conn, r, Token(g))
         ELSE /\ AbortStory(r, Token(g)) /\ Done(r)
              /\ UNCHANGED <<conn, lock, victim, woken, outsideAbort>>

(* abort_incomplete_connection_use, of whatever use is the current one. *)
AbortAny(r) == Does(r, "abortAny") /\ AbortLocked(r, guard[r].conn, r, Token(guard[r]))

(* The new use of a connection aborts it for the upload before. *)
AbortPrevious(r) == Does(r, "abortPrevious") /\ AbortLocked(r, guard[r].conn, victim[r], None)

--------------------------------------------------------------------------------
(* A use ends: ConnectionUseGuard.                                           *)

Headers(r) ==
  /\ at[r] = "headers" /\ todo[r] = <<>> /\ response[r] # "none"
  /\ at' = [at EXCEPT ![r] = "body"]
  /\ UNCHANGED <<traced, conn, timeout, lock, hyperVars, bodyVars, todo, assigned, guard, victim,
                 storyVars>>

Ends(r, steps) ==
  /\ at' = [at EXCEPT ![r] = "over"] /\ todo' = [todo EXCEPT ![r] = steps]
  /\ UNCHANGED <<traced, conn, timeout, lock, hyperVars, bodyVars, assigned, guard, victim,
                 storyVars>>

(* ConnectionUseGuard::finish, when the response body was read to its end. *)
Finish(r) ==
  /\ at[r] = "body" /\ todo[r] = <<>> /\ response[r] \in {"keep", "close"}
  /\ Ends(r, IF ~Complete(r) THEN <<"abortAny", "finishWrite">>
             ELSE <<"finishWrite", "finishUse">>
                    \o (IF response[r] = "keep" THEN <<"enterIdle">> ELSE <<>>))

(* ConnectionUseGuard::abort, after an error, a timeout or a close, and its  *)
(* drop, when the task of a cancelled request is dropped.                    *)
Abort(r) ==
  /\ at[r] \in {"headers", "body"} /\ todo[r] = <<>>
  /\ Ends(r, <<IF Complete(r) THEN "abortUse" ELSE "abortAny", "finishWrite">>)

(* WriteTimeoutState::finish_request. *)
FinishRequest(t, id) == IF t.active # None /\ t.active.use = id THEN NoTimeout ELSE t

(* request_write_finished *)
FinishWrite(r) ==
  LET g == guard[r]
  IN  /\ Does(r, "finishWrite") /\ Done(r)
      /\ timeout' = [timeout EXCEPT ![g.conn] = FinishRequest(@, g.use)]
      /\ UNCHANGED <<traced, conn, lock, hyperVars, bodyVars, at, assigned, guard, victim,
                     storyVars>>

(* Mutant: the guard of a superseded use forgets that use. *)
FinishUseForgotten(r) ==
  /\ Does(r, "finishUse") /\ Done(r)
  /\ UNCHANGED <<traced, conn, timeout, lock, hyperVars, bodyVars, at, assigned, guard, victim,
                 storyVars>>

(* response_finished: RequestConnectionUseTelemetry::finish.  A use that is  *)
(* over already, because its request was cancelled or its connection aborted *)
(* for it, aborts the connection.                                            *)
FinishUse(r) ==
  LET g == guard[r]
  IN  /\ Does(r, "finishUse")
      /\ IF ~g.token THEN Done(r) /\ UNCHANGED <<use, clean>>
         ELSE IF use[r] = Token(g)
         THEN /\ use' = [use EXCEPT ![r] = None] /\ clean' = clean \cup {Token(g)}
              /\ Done(r)
         ELSE /\ todo' = [todo EXCEPT ![r] = <<"abortUse">>
                             \o (IF Tail(@) = <<"enterIdle">> THEN <<>> ELSE Tail(@))]
              /\ UNCHANGED <<use, clean>>
      /\ UNCHANGED <<traced, conn, timeout, lock, hyperVars, bodyVars, at, assigned, guard, victim,
                     phase, cancelled>>

(* Mutant: a late guard marks the connection idle under the next use. *)
EnterIdleLate(r) ==
  LET c == conn[guard[r].conn]
  IN  /\ Does(r, "enterIdle") /\ lock[guard[r].conn] = None
      /\ conn' = IF c.closed \/ c.aborted THEN conn
                 ELSE [conn EXCEPT ![guard[r].conn].idle = TRUE]
      /\ Done(r)
      /\ UNCHANGED <<traced, timeout, lock, hyperVars, bodyVars, at, assigned, guard, victim,
                     storyVars>>

EnterIdle(r) ==
  LET g == guard[r]
      c == conn[g.conn]
  IN  /\ Does(r, "enterIdle") /\ lock[g.conn] = None
      /\ conn' = IF c.closed \/ c.aborted \/ ~IsCurrentUse(g) THEN conn
                 ELSE [conn EXCEPT ![g.conn].idle = TRUE]
      /\ Done(r)
      /\ UNCHANGED <<traced, timeout, lock, hyperVars, bodyVars, at, assigned, guard, victim,
                     storyVars>>

--------------------------------------------------------------------------------
(* The connection's task: hyper polls InstrumentedConnection.                *)

Gone(k) == conn[k].closed /\ todo[k] = <<>>

(* Steps of the connection's task change nothing of the requests' side. *)
requestVars == <<traced, produced, at, assigned, guard, victim, storyVars>>

Writes(k) ==
  LET r == current[k] IN r # None /\ ~(r \in wire /\ r \in ToSet(sent[k]))

(* What hyper does in the rest of a poll. *)
PollGoesOn(k) ==
  todo' = [todo EXCEPT ![k] = IF Writes(k) THEN <<"write">>
                              ELSE IF k \in unflushed THEN <<"flush">> ELSE <<>>]

Fails(k) == todo' = [todo EXCEPT ![k] = <<"drop", "clear", "leave">>]

(* prepare_io_poll keeps the waker, or refuses an aborted connection. *)
PrepareIoPoll(k) == ~conn[k].aborted /\ conn' = [conn EXCEPT ![k].waker = TRUE]
Refused(k) == conn[k].aborted /\ Fails(k) /\ UNCHANGED conn

(* hyper polls the connection, because it was woken, the socket or its own   *)
(* channel has something, or a timer of the write ran out.  poll_read gives  *)
(* nothing, the head or the end of a response, or an error; the pool may     *)
(* give the connection up.                                                   *)
Poll(k) ==
  LET r == current[k]
  IN  /\ todo[k] = <<>> /\ Opened(k) /\ ~Gone(k) /\ woken' = woken \ {k}
      /\ \/ Refused(k) /\ UNCHANGED response
         \/ /\ PrepareIoPoll(k)
            /\ \/ PollGoesOn(k) /\ UNCHANGED response
               \/ Fails(k) /\ UNCHANGED response
               \/ /\ r # None /\ r \in ToSet(sent[k]) /\ PollGoesOn(k)
                  /\ \/ response[r] = "none" /\ response' = [response EXCEPT ![r] = "head"]
                     \/ /\ response[r] = "head"
                        /\ \E end \in {"keep", "close"} : response' = [response EXCEPT ![r] = end]
      /\ UNCHANGED <<timeout, lock, current, unflushed, sent, wire, flushed, requestVars>>

(* Mutant: bytes go out whoever is active. *)
ReadyAlways(t) == TRUE

(* A write may go on for the active request, unless that one has left. *)
RequestReady(t) == t.active # None /\ t.active.request \notin flushed

(* poll_write up to the socket: prepare_io_poll and poll_request_ready. *)
Write(k) ==
  LET t == IF timeout[k].active # None /\ Complete(timeout[k].active.request)
           THEN NoTimeout ELSE timeout[k]
  IN  /\ Does(k, "write")
      /\ \/ Refused(k) /\ UNCHANGED timeout
         \/ /\ PrepareIoPoll(k)
            /\ IF RequestReady(t)
               THEN todo' = [todo EXCEPT ![k] = <<"socket">>]
               ELSE todo' = [todo EXCEPT ![k] = <<>>]
            /\ timeout' = [timeout EXCEPT ![k] = t]
      /\ UNCHANGED <<lock, hyperVars, wire, flushed, requestVars>>

(* WriteTimeoutState::record_write_progress. *)
Progress(t) == [t EXCEPT !.started = (t.active # None)]

(* The socket's poll_write: some bytes, perhaps the last ones of the body;   *)
(* nothing yet; or an error.                                                 *)
Socket(k) ==
  LET r == current[k]
  IN  /\ Does(k, "socket")
      /\ \/ /\ timeout' = [timeout EXCEPT ![k] = Progress(@)]
            /\ sent' = IF r \in ToSet(sent[k]) THEN sent ELSE [sent EXCEPT ![k] = Append(@, r)]
            /\ wire' \in {wire, wire \cup {r}}
            /\ unflushed' = unflushed \cup {k}
            /\ todo' = [todo EXCEPT ![k] = <<"flush">>]
         \/ todo' = [todo EXCEPT ![k] = <<"timer">>] /\ UNCHANGED <<timeout, sent, wire, unflushed>>
         \/ Fails(k) /\ UNCHANGED <<timeout, sent, wire, unflushed>>
      /\ UNCHANGED <<conn, lock, current, woken, response, flushed, requestVars>>

(* poll_pending: the write timeout of the active request, if it has one,     *)
(* runs or has run out; then InstrumentedConnection clears the state and     *)
(* aborts in the request's name.                                             *)
Timer(k) ==
  LET t == timeout[k]
  IN  /\ Does(k, "timer")
      /\ \/ todo' = [todo EXCEPT ![k] = <<>>] /\ UNCHANGED <<timeout, victim>>
         \/ /\ t.active # None
            /\ victim' = [victim EXCEPT ![k] = t.active.request]
            /\ timeout' = [timeout EXCEPT ![k] = NoTimeout]
            /\ todo' = [todo EXCEPT ![k] = <<"abortTimedOut", "drop", "clear", "leave">>]
      /\ UNCHANGED <<traced, conn, lock, hyperVars, bodyVars, at, assigned, guard, storyVars>>

AbortTimedOut(k) == Does(k, "abortTimedOut") /\ AbortLocked(k, k, victim[k], None)

(* mark_transport_flushed of the active request's completion. *)
FlushedBy(t) ==
  IF t.active # None /\ t.started /\ t.active.request \in wire
  THEN flushed \cup {t.active.request} ELSE flushed

(* WriteTimeoutState::transport_flushed, after the socket's flush. *)
TransportFlushed(k) ==
  LET t == timeout[k]
      over == t.started /\ t.active.request \in wire /\ t.active.request \in produced
  IN  IF t.active = None THEN UNCHANGED <<timeout, flushed>>
      ELSE /\ flushed' = FlushedBy(t)
           /\ timeout' = [timeout EXCEPT ![k] = IF over THEN NoTimeout ELSE t]

(* poll_flush *)
Flush(k) ==
  /\ Does(k, "flush")
  /\ \/ Refused(k) /\ UNCHANGED <<timeout, flushed, unflushed>>
     \/ /\ PrepareIoPoll(k)
        /\ \/ /\ TransportFlushed(k) /\ unflushed' = unflushed \ {k}
              /\ todo' = [todo EXCEPT ![k] = <<>>]
           \/ /\ todo' = [todo EXCEPT ![k] = <<"timer">>]
              /\ UNCHANGED <<timeout, flushed, unflushed>>
           \/ Fails(k) /\ UNCHANGED <<timeout, flushed, unflushed>>
  /\ UNCHANGED <<lock, current, woken, response, sent, wire, requestVars>>

(* InstrumentedConnection is dropped: connection_closed, in its three parts. *)
Drop(k) ==
  /\ Does(k, "drop") /\ Done(k)
  /\ conn' = [conn EXCEPT ![k].closed = TRUE]
  /\ woken' = woken \ {k} /\ unflushed' = unflushed \ {k}
  /\ UNCHANGED <<timeout, lock, current, response, sent, wire, flushed, requestVars>>

Clear(k) ==
  /\ Does(k, "clear") /\ Done(k)
  /\ timeout' = [timeout EXCEPT ![k] = NoTimeout]
  /\ conn' = [conn EXCEPT ![k].waker = FALSE]
  /\ UNCHANGED <<lock, hyperVars, wire, flushed, requestVars>>

LeaveIdle(k) ==
  /\ Does(k, "leave") /\ lock[k] = None /\ Done(k)
  /\ conn' = [conn EXCEPT ![k].idle = FALSE]
  /\ UNCHANGED <<timeout, lock, hyperVars, wire, flushed, requestVars>>

(* hyper puts the connection back into the pool. *)
Pooled(k) ==
  LET r == current[k]
  IN  /\ r # None /\ ~Down(k) /\ todo[k] = <<>>
      /\ response[r] = "keep" /\ ~Writes(k) /\ k \notin unflushed
      /\ current' = [current EXCEPT ![k] = None]
      /\ UNCHANGED <<conn, timeout, lock, woken, unflushed, response, sent, wire, flushed, todo,
                     requestVars>>

(* The producer of a body finishes; one that fails or is aborted never does  *)
(* (UploadBody).  It may finish earlier, but nobody looks at it before the   *)
(* body has left.                                                            *)
SourceFinishes(r) ==
  /\ r \in wire \ produced /\ produced' = produced \cup {r}
  /\ UNCHANGED <<traced, conn, timeout, lock, hyperVars, wire, flushed, taskVars, storyVars>>

TaskStep(k) ==
  \/ Write(k) \/ Socket(k) \/ Timer(k) \/ AbortTimedOut(k) \/ Flush(k)
  \/ Drop(k) \/ Clear(k) \/ LeaveIdle(k) \/ AbortWake(k, k)

RequestStep(r) ==
  \/ Observe(r) \/ BeginUse(r) \/ BeginTimeout(r) \/ WakeIo(r)
  \/ FinishWrite(r) \/ FinishUse(r) \/ EnterIdle(r)
  \/ AbortUse(r) \/ AbortAny(r) \/ AbortPrevious(r) \/ AbortWake(r, guard[r].conn)

Next ==
  \/ \E r \in Requests :
       \/ BeginAcquire(r) \/ EndAcquire(r) \/ Cancel(r)
       \/ \E k \in Connections : Assign(r, k)
       \/ Headers(r) \/ Finish(r) \/ Abort(r) \/ SourceFinishes(r) \/ RequestStep(r)
  \/ \E k \in Connections : Poll(k) \/ Pooled(k) \/ TaskStep(k)

Spec == Init /\ [][Next]_vars

--------------------------------------------------------------------------------
(* Properties. *)

(* The request of a connection's last use. *)
LastUser(k, r) == guard[r] # None /\ guard[r].conn = k /\ IsCurrentUse(guard[r])

(* A connection counts as idle only while it can be reused: it is not        *)
(* aborted or gone, the request of its last use is done with it, the upload  *)
(* of that one is complete and its use, where it is told, was finished and   *)
(* not aborted; also when guards finish after hyper has handed the           *)
(* connection on (mod.rs:275, 333).                                          *)
IdleIsReusable ==
  \A k \in Connections : conn[k].idle =>
    /\ ~conn[k].aborted /\ ~Gone(k)
    /\ \A r \in Requests : LastUser(k, r) =>
         /\ Complete(r) /\ at[r] = "over"
         /\ guard[r].token => Token(guard[r]) \in clean

(* No request's bytes follow an upload that is not complete: the assignment  *)
(* aborts the connection first, and until then its writes wait (mod.rs:377,  *)
(* 672).                                                                     *)
NoWriteOverIncomplete ==
  \A k \in Connections : \A i \in 1 .. Len(sent[k]) - 1 : Complete(sent[k][i])

(* No use of a request begins before the one before has ended, so that none  *)
(* is lost to the check in begin_connection_use, and a request that is over  *)
(* has no use left open, whether its guard, its cancellation, the next use   *)
(* of the connection or the connection's own write timeout ended it; its     *)
(* phase is over once it has left the queue or is cancelled, also when it    *)
(* was cancelled before it had queued (telemetry.rs:598, 630, 687, 715,      *)
(* 741).                                                                     *)
EveryUseEnds ==
  \A r \in Requests :
    /\ r \in phase => at[r] = "acquire" /\ r \notin cancelled
    /\ Does(r, "beginUse") => use[r] = None
    /\ Over(r) => use[r] = None

(* The task of an aborted connection never sleeps on: unless it runs, it has *)
(* been woken, or the abort that will wake it is under way.  Its next poll   *)
(* fails and drops the connection (mod.rs:517, 569).                         *)
AbortedIsWoken ==
  \A k \in Connections :
    conn[k].aborted /\ todo[k] = <<>> /\ ~Gone(k) => k \in woken \/ lock[k] # None

================================================================================
