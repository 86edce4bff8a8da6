---------------------------- MODULE ConnectionGate ----------------------------
(***************************************************************************)
(* The limit on physical connections (core/client/connection_limit.rs) and *)
(* the connector that asks for it (InstrumentedConnector, in               *)
(* core/client/telemetry/mod.rs).  A connect takes a permit of its origin, *)
(* then a global one, within one timeout; the connection keeps both until  *)
(* it is dropped, idle or not.                                             *)
(*                                                                         *)
(* A step is what a task does up to its next await, or one operation on a  *)
(* semaphore.  The semaphores are Tokio's: first in, first out, and a      *)
(* permit that comes back goes to the first waiter.  The counters of       *)
(* ConnectionAcquireTelemetry, which nothing reads but statistics, are     *)
(* left out.                                                               *)
(***************************************************************************)
EXTENDS Integers, Sequences, FiniteSets, SequencesExt

CONSTANTS
  Connects,           \* calls of the connector, and the connections they open
  Origins,
  Semaphores,         \* identities of the per-origin semaphore allocations
  Global,             \* the identity of the global one
  MaxConnections,     \* Limits.max_connections
  MaxPerHost,         \* Limits.max_connections_per_host
  CleanupThreshold,   \* ORIGIN_GATE_CLEANUP_THRESHOLD
  MaxAttempts,        \* bound of the model: calls of the connector
  NoSemaphore, NoOrigin

ASSUME ConnectionAssumption ==
  /\ MaxConnections \in Nat \ {0} /\ MaxPerHost \in Nat \ {0}
  /\ CleanupThreshold \in Nat /\ MaxAttempts \in Nat
  /\ IsFiniteSet(Connects) /\ IsFiniteSet(Semaphores)
  /\ Global \notin Semaphores /\ NoSemaphore \notin Semaphores \cup {Global}
  /\ NoOrigin \notin Origins

VARIABLES
  limited,    \* which of the two limits are set: "host", "all"
  pc, origin,
  gate,       \* the Arc of its origin's semaphore that a connect keeps alive
  gates,      \* OriginConnectionGates.gates
  permits,    \* available permits of each semaphore
  queue,      \* connects in the wait list of each semaphore, oldest first
  assigned,   \* waiters a permit was given to that have not been polled since
  attempts    \* calls of the connector so far

connectVars == <<pc, origin, gate>>
semaphoreVars == <<permits, queue, assigned>>
vars == <<limited, connectVars, gates, semaphoreVars, attempts>>

All == Semaphores \cup {Global}
Limit(s) == IF s = Global THEN MaxConnections ELSE MaxPerHost
Goto(c, step) == pc' = [pc EXCEPT ![c] = step]

Init ==
  /\ limited \in SUBSET {"host", "all"}
  /\ pc = [c \in Connects |-> "idle"] /\ origin = [c \in Connects |-> NoOrigin]
  /\ gate = [c \in Connects |-> NoSemaphore] /\ gates = [o \in Origins |-> NoSemaphore]
  /\ permits = [s \in All |-> Limit(s)] /\ queue = [s \in All |-> <<>>]
  /\ assigned = [s \in All |-> {}] /\ attempts = 0

--------------------------------------------------------------------------------
(* OriginConnectionGates::semaphore *)

(* Arc::strong_count(semaphore) > 1: somebody besides the map has it. *)
InUse(s) == \E c \in Connects : gate[c] = s

(* Mutant: a sweep looks at the permits only. *)
KeptByPermits(s) == permits[s] < MaxPerHost

(* A sweep keeps what is used. *)
Kept(s) == InUse(s) \/ permits[s] < MaxPerHost

Swept == [o \in Origins |-> IF gates[o] # NoSemaphore /\ Kept(gates[o]) THEN gates[o]
                            ELSE NoSemaphore]

Listed == {o \in Origins : gates[o] # NoSemaphore}

NewSemaphore(c, o, s) ==
  LET left == IF Cardinality(Listed) >= CleanupThreshold THEN Swept ELSE gates
  IN  /\ ~InUse(s) /\ \A p \in Origins : left[p] # s
      /\ gates' = [left EXCEPT ![o] = s]
      /\ gate' = [gate EXCEPT ![c] = s]
      /\ permits' = [permits EXCEPT ![s] = MaxPerHost]

Semaphore(c, o) ==
  IF gates[o] # NoSemaphore
  THEN gate' = [gate EXCEPT ![c] = gates[o]] /\ UNCHANGED <<gates, permits>>
  ELSE \E s \in Semaphores : NewSemaphore(c, o, s)

--------------------------------------------------------------------------------
(* The connector. *)

(* InstrumentedConnector::call and the start of ConnectionGate::acquire. *)
Start(c, o) ==
  /\ pc[c] = "idle" /\ attempts < MaxAttempts
  /\ attempts' = attempts + 1
  /\ origin' = [origin EXCEPT ![c] = o]
  /\ IF "host" \in limited
     THEN Semaphore(c, o) /\ Goto(c, "tryHost")
     ELSE Goto(c, "tryAll") /\ UNCHANGED <<gate, gates, permits>>
  /\ UNCHANGED <<limited, queue, assigned>>

(* The semaphore a connect is asking: its origin's, or the global one. *)
Asks(c) == IF pc[c] \in {"tryHost", "pollHost", "awaitHost", "leaveHost"} THEN gate[c] ELSE Global
After(c) == IF Asks(c) = Global THEN "connecting" ELSE "tryAll"
AtHost(c, host, all) == IF Asks(c) = Global THEN all ELSE host

(* try_acquire_owned of acquire_permit. *)
Try(c) ==
  LET s == Asks(c)
  IN  /\ pc[c] \in {"tryHost", "tryAll"} /\ (pc[c] = "tryAll" => "all" \in limited)
      /\ IF permits[s] > 0
         THEN permits' = [permits EXCEPT ![s] = @ - 1] /\ Goto(c, After(c))
         ELSE Goto(c, AtHost(c, "pollHost", "pollAll")) /\ UNCHANGED permits
      /\ UNCHANGED <<limited, origin, gate, gates, queue, assigned, attempts>>

(* Without a global limit there is nothing to take. *)
SkipAll(c) ==
  /\ pc[c] = "tryAll" /\ "all" \notin limited
  /\ Goto(c, "connecting")
  /\ UNCHANGED <<limited, origin, gate, gates, semaphoreVars, attempts>>

(* The first poll of acquire_owned takes a permit that came back since, or   *)
(* joins the wait list.                                                      *)
Poll(c) ==
  LET s == Asks(c)
  IN  /\ pc[c] \in {"pollHost", "pollAll"}
      /\ IF permits[s] > 0
         THEN permits' = [permits EXCEPT ![s] = @ - 1] /\ Goto(c, After(c)) /\ UNCHANGED queue
         ELSE /\ queue' = [queue EXCEPT ![s] = Append(@, c)]
              /\ Goto(c, AtHost(c, "awaitHost", "awaitAll"))
              /\ UNCHANGED permits
      /\ UNCHANGED <<limited, origin, gate, gates, assigned, attempts>>

(* A waiter that was given a permit is polled. *)
Resume(c) ==
  LET s == Asks(c)
  IN  /\ pc[c] \in {"awaitHost", "awaitAll"} /\ c \in assigned[s]
      /\ assigned' = [assigned EXCEPT ![s] = @ \ {c}]
      /\ Goto(c, After(c))
      /\ UNCHANGED <<limited, origin, gate, gates, permits, queue, attempts>>

(* The one timeout of both waits elapses: a waiter that finds no permit on   *)
(* its last poll gives up, but may still be given one before it has left.    *)
Timeout(c) ==
  /\ pc[c] \in {"awaitHost", "awaitAll"} /\ c \notin assigned[Asks(c)]
  /\ Goto(c, AtHost(c, "leaveHost", "leaveAll"))
  /\ UNCHANGED <<limited, origin, gate, gates, semaphoreVars, attempts>>

(* The connection is opened, or fails to: a failure drops the permits. *)
Connected(c) ==
  /\ pc[c] = "connecting"
  /\ Goto(c, "open") \/ Goto(c, "dropAll")
  /\ UNCHANGED <<limited, origin, gate, gates, semaphoreVars, attempts>>

(* The task of a connect is dropped at an await. *)
Cancel(c) ==
  /\ pc[c] \in {"awaitHost", "awaitAll", "connecting"}
  /\ Goto(c, CASE pc[c] = "awaitHost" -> "leaveHost"
               [] pc[c] = "awaitAll" -> "leaveAll"
               [] pc[c] = "connecting" -> "dropAll")
  /\ UNCHANGED <<limited, origin, gate, gates, semaphoreVars, attempts>>

(* InstrumentedConnection::drop, then its fields. *)
Close(c) ==
  /\ pc[c] = "open"
  /\ Goto(c, "dropAll")
  /\ UNCHANGED <<limited, origin, gate, gates, semaphoreVars, attempts>>

--------------------------------------------------------------------------------
(* A permit comes back: to the first waiter, or to the semaphore. *)
Release(s) ==
  IF queue[s] = <<>>
  THEN permits' = [permits EXCEPT ![s] = @ + 1] /\ UNCHANGED <<queue, assigned>>
  ELSE /\ queue' = [queue EXCEPT ![s] = Tail(@)]
       /\ assigned' = [assigned EXCEPT ![s] = @ \cup {Head(queue[s])}]
       /\ UNCHANGED permits

(* Mutant: a waiter that leaves with a permit keeps it. *)
LeaveWithPermit(c) ==
  /\ pc[c] \in {"leaveHost", "leaveAll"}
  /\ queue' = [queue EXCEPT ![Asks(c)] = Remove(@, c)]
  /\ assigned' = [assigned EXCEPT ![Asks(c)] = @ \ {c}]
  /\ Goto(c, AtHost(c, "forget", "dropHost"))
  /\ UNCHANGED <<limited, origin, gate, gates, permits, attempts>>

(* Tokio's Acquire::drop: a waiter leaves the list, or passes its permit on. *)
Leave(c) ==
  LET s == Asks(c)
  IN  /\ pc[c] \in {"leaveHost", "leaveAll"}
      /\ IF c \in assigned[s]
         THEN IF queue[s] = <<>>
              THEN /\ permits' = [permits EXCEPT ![s] = @ + 1]
                   /\ assigned' = [assigned EXCEPT ![s] = @ \ {c}]
                   /\ UNCHANGED queue
              ELSE /\ queue' = [queue EXCEPT ![s] = Tail(@)]
                   /\ assigned' = [assigned EXCEPT ![s] = (@ \ {c}) \cup {Head(queue[s])}]
                   /\ UNCHANGED permits
         ELSE /\ \E i \in 1 .. Len(queue[s]) : /\ queue[s][i] = c
                                               /\ queue' = [queue EXCEPT ![s] = RemoveAt(@, i)]
              /\ UNCHANGED <<permits, assigned>>
      /\ Goto(c, AtHost(c, "forget", "dropHost"))
      /\ UNCHANGED <<limited, origin, gate, gates, attempts>>

(* ConnectionPermit: the global permit goes first, then the origin's. *)
DropAll(c) ==
  /\ pc[c] = "dropAll"
  /\ IF "all" \in limited THEN Release(Global) ELSE UNCHANGED semaphoreVars
  /\ Goto(c, "dropHost")
  /\ UNCHANGED <<limited, origin, gate, gates, attempts>>

(* Mutant: an origin permit comes back without a look at who waits for it. *)
DropHostSilently(c) ==
  /\ pc[c] = "dropHost"
  /\ permits' = IF "host" \in limited THEN [permits EXCEPT ![gate[c]] = @ + 1] ELSE permits
  /\ Goto(c, "forget")
  /\ UNCHANGED <<limited, origin, gate, gates, queue, assigned, attempts>>

DropHost(c) ==
  /\ pc[c] = "dropHost"
  /\ IF "host" \in limited THEN Release(gate[c]) ELSE UNCHANGED semaphoreVars
  /\ Goto(c, "forget")
  /\ UNCHANGED <<limited, origin, gate, gates, attempts>>

(* The last Arc of the connect is dropped. *)
Forget(c) ==
  /\ pc[c] = "forget"
  /\ Goto(c, "idle")
  /\ gate' = [gate EXCEPT ![c] = NoSemaphore]
  /\ origin' = [origin EXCEPT ![c] = NoOrigin]
  /\ UNCHANGED <<limited, gates, semaphoreVars, attempts>>

--------------------------------------------------------------------------------
Step(c) == \/ Try(c) \/ SkipAll(c) \/ Poll(c) \/ Resume(c) \/ Connected(c)
           \/ Leave(c) \/ DropAll(c) \/ DropHost(c) \/ Forget(c)

Next ==
  \E c \in Connects : \/ \E o \in Origins : Start(c, o)
                      \/ Step(c) \/ Timeout(c) \/ Cancel(c) \/ Close(c)

Spec == Init /\ [][Next]_vars

(* Tasks run, a connect succeeds or fails, and every connection is closed at *)
(* last (the pool drops idle ones); timeouts need not help.                  *)
FairSpec == Spec /\ \A c \in Connects : WF_vars(Step(c)) /\ WF_vars(Close(c))

--------------------------------------------------------------------------------
(* Properties *)

Steps == {"idle", "tryHost", "pollHost", "awaitHost", "tryAll", "pollAll", "awaitAll",
          "connecting", "open", "leaveHost", "leaveAll", "dropAll", "dropHost", "forget"}

HoldsAll(c) == pc[c] \in {"connecting", "open", "dropAll"}
HoldsHost(c) == HoldsAll(c) \/ pc[c] \in {"tryAll", "pollAll", "awaitAll", "leaveAll", "dropHost"}
HostHolders(o) == {c \in Connects : HoldsHost(c) /\ origin[c] = o}

(* Every variable has its type, and no semaphore offers more than its limit. *)
TypeOK ==
  /\ pc \in [Connects -> Steps]
  /\ origin \in [Connects -> Origins \cup {NoOrigin}]
  /\ gate \in [Connects -> Semaphores \cup {NoSemaphore}]
  /\ gates \in [Origins -> Semaphores \cup {NoSemaphore}]
  /\ \A s \in All : permits[s] \in 0 .. Limit(s)
  /\ queue \in [All -> Seq(Connects)] /\ assigned \in [All -> SUBSET Connects]
  /\ attempts \in 0 .. MaxAttempts

(* max_connections and max_connections_per_host bound the connections that   *)
(* are open or being opened, although the map of origin semaphores is swept  *)
(* while connects are between two awaits.                                    *)
ConnectionLimits ==
  /\ "all" \in limited => Cardinality({c \in Connects : HoldsAll(c)}) <= MaxConnections
  /\ "host" \in limited => \A o \in Origins : Cardinality(HostHolders(o)) <= MaxPerHost

(* Permits are neither lost nor made up, whatever leaves at a timeout or is  *)
(* cancelled with a permit that was just given to it.                        *)
ConnectionPermitsConserved ==
  /\ "all" \in limited =>
       permits[Global] + Cardinality(assigned[Global])
         + Cardinality({c \in Connects : HoldsAll(c)}) = MaxConnections
  /\ "host" \in limited => \A s \in Semaphores : InUse(s) \/ (\E o \in Origins : gates[o] = s) =>
       permits[s] + Cardinality(assigned[s])
         + Cardinality({c \in Connects : HoldsHost(c) /\ gate[c] = s}) = MaxPerHost

(* Holding an origin permit while waiting for a global one makes no cycle:   *)
(* a waiter is served, or gives up, as long as connections are closed.       *)
WaitersServed ==
  \A c \in Connects : pc[c] \in {"awaitHost", "awaitAll"} ~> pc[c] \notin {"awaitHost", "awaitAll"}

================================================================================
