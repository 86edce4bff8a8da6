------------------------------ MODULE AcquireGate ------------------------------
(***************************************************************************)
(* The request-slot admission gate of a client (py/client/acquire): a      *)
(* global semaphore, one semaphore per origin behind a map of weak         *)
(* references, and one bounded FIFO queue of waiters shared by all         *)
(* origins.  Every request is a task that may run on its own thread; a     *)
(* step below is one critical section of the queue mutex, one atomic       *)
(* operation on a semaphore, or one wake-up.                               *)
(*                                                                         *)
(* The queue mutex protects the queue, not the semaphores: permits are     *)
(* taken only under the mutex and given back without it.                   *)
(***************************************************************************)
EXTENDS Integers, FiniteSets, Sequences, SequencesExt

CONSTANTS
  Requests,          \* tasks that ask for a request slot
  Origins,           \* origins a request may be sent to
  Semaphores,        \* identities of the per-origin semaphore allocations
  MaxActive,         \* Limits.max_active_requests
  OriginLimited,     \* is Limits.max_active_requests_per_origin set?
  MaxPerOrigin,      \* ... and its value
  MaxPending,        \* Limits.max_pending_requests
  CleanupThreshold,  \* ORIGIN_GATE_CLEANUP_THRESHOLD
  MaxAttempts,       \* bound of the model: acquire calls in one behaviour
  NoSemaphore, NoOrigin, NoRequest

ASSUME GateAssumption ==
  /\ MaxActive \in Nat \ {0} /\ MaxPerOrigin \in Nat \ {0}
  /\ MaxPending \in Nat /\ CleanupThreshold \in Nat /\ MaxAttempts \in Nat
  /\ OriginLimited \in BOOLEAN
  /\ IsFiniteSet(Requests) /\ IsFiniteSet(Origins)
  /\ NoSemaphore \notin Semaphores
  /\ NoOrigin \notin Origins
  /\ NoRequest \notin Requests

VARIABLES
  pc,             \* where each request is
  exit,           \* why a request runs its wake-up: what follows notify_head
  origin,         \* origin of the request's current acquire call
  semaphore,      \* the Arc<Semaphore> the request keeps alive
  originGates,    \* OriginGates.semaphores: origin -> Weak<Semaphore>
  originPermits,  \* available permits of each origin semaphore
  globalPermits,  \* available permits of the global semaphore
  lockOwner,      \* holder of PendingQueue.state between two steps
  waiters,        \* PendingQueueState.waiters, as waiter ids
  nextWaiterId,   \* PendingQueueState.next_waiter_id
  waiterId,       \* the id of a request's queue entry, 0 when it has none
  notified,       \* ids of the entries whose Notify holds a wake-up
  target,         \* the entry notify_head read before it unlocked, 0 if none
  activeRequests, \* OriginMetrics.active_requests (Metrics keeps the sum)
  pendingRequests,\* Metrics.pending_requests
  peakPending,    \* Metrics.peak_pending_requests
  attempts, immediate, waited, timeouts   \* pool_acquire_* counters

semaphoreVars == <<originGates, originPermits, globalPermits>>
queueVars     == <<lockOwner, waiters, nextWaiterId, waiterId>>
wakeVars      == <<notified, target>>
gaugeVars     == <<activeRequests, pendingRequests, peakPending>>
counterVars   == <<attempts, immediate, waited, timeouts>>
vars == <<pc, exit, origin, semaphore, semaphoreVars, queueVars, wakeVars,
          gaugeVars, counterVars>>

Max2(a, b) == IF a >= b THEN a ELSE b

--------------------------------------------------------------------------------
(* The program counter of a request.                                       *)
Steps == {"idle",
          "immediate", "immediateGlobal",            \* try_acquire_immediate
          "register",                                \* try_register
          "poll", "pollGlobal", "await",             \* acquire_permits
          "dropWaiter",                              \* PendingQueueWaiter::drop
          "dropPending",                             \* self.pending.take()
          "notify", "notifySend",                    \* notify_head
          "grant", "active",                         \* AcquirePermit
          "dropOrigin", "dropGlobal"}                \* AcquirePermit::drop

Exits == {"none", "immediate", "granted", "timeout", "cancel", "release"}

Goto(r, step) == pc' = [pc EXCEPT ![r] = step]

(* Requests that have the two permits of an AcquirePermit or AcquiredPermits. *)
Granted(r) == \/ pc[r] \in {"grant", "active", "dropOrigin"}
              \/ pc[r] \in {"dropPending", "notify", "notifySend"} /\ exit[r] = "granted"

HoldsGlobal(r) == Granted(r) \/ pc[r] = "dropGlobal"
HoldsOrigin(r) == OriginLimited /\ (Granted(r) \/ pc[r] \in {"immediateGlobal", "pollGlobal"})

Queued(r) == pc[r] \in {"poll", "pollGlobal", "await", "dropWaiter"}

(* strong_count > 0: some task still owns an Arc of the semaphore. *)
Alive(s) == \E r \in Requests : semaphore[r] = s

--------------------------------------------------------------------------------
Init ==
  /\ pc = [r \in Requests |-> "idle"]
  /\ exit = [r \in Requests |-> "none"]
  /\ origin = [r \in Requests |-> NoOrigin]
  /\ semaphore = [r \in Requests |-> NoSemaphore]
  /\ originGates = [o \in Origins |-> NoSemaphore]
  /\ originPermits = [s \in Semaphores |-> MaxPerOrigin]
  /\ globalPermits = MaxActive
  /\ lockOwner = NoRequest
  /\ waiters = <<>>
  /\ nextWaiterId = 1
  /\ waiterId = [r \in Requests |-> 0]
  /\ notified = {}
  /\ target = [r \in Requests |-> 0]
  /\ activeRequests = [o \in Origins |-> 0]
  /\ pendingRequests = 0
  /\ peakPending = 0
  /\ attempts = 0 /\ immediate = 0 /\ waited = 0 /\ timeouts = 0

(* OriginGates::semaphore: the semaphore the map's weak reference still      *)
(* reaches, or a new one; a full map first forgets the origins nobody uses.  *)
Upgrades(o) == originGates[o] # NoSemaphore /\ Alive(originGates[o])

ShareSemaphore(r, o) ==
  /\ OriginLimited /\ Upgrades(o)
  /\ semaphore' = [semaphore EXCEPT ![r] = originGates[o]]
  /\ UNCHANGED <<originGates, originPermits>>

NewSemaphore(r, o, s) ==
  /\ OriginLimited /\ ~Upgrades(o)
  /\ ~Alive(s) /\ \A p \in Origins \ {o} : originGates[p] # s
  /\ LET known == {p \in Origins : originGates[p] # NoSemaphore}
         kept  == IF Cardinality(known) >= CleanupThreshold
                  THEN {p \in known : Upgrades(p)} ELSE known
     IN  originGates' = [p \in Origins |-> IF p = o THEN s
                                           ELSE IF p \in kept THEN originGates[p]
                                           ELSE NoSemaphore]
  /\ semaphore' = [semaphore EXCEPT ![r] = s]
  /\ originPermits' = [originPermits EXCEPT ![s] = MaxPerOrigin]

OriginSemaphore(r, o) ==
  \/ ~OriginLimited /\ UNCHANGED <<semaphore, originGates, originPermits>>
  \/ ShareSemaphore(r, o)
  \/ \E s \in Semaphores : NewSemaphore(r, o, s)

(* AcquireGate::acquire up to try_acquire_immediate. *)
StartAcquire(r, o) ==
  /\ pc[r] = "idle"
  /\ attempts < MaxAttempts
  /\ attempts' = attempts + 1
  /\ origin' = [origin EXCEPT ![r] = o]
  /\ OriginSemaphore(r, o)
  /\ Goto(r, "immediate")
  /\ UNCHANGED <<exit, globalPermits, queueVars, wakeVars, gaugeVars,
                 immediate, waited, timeouts>>

--------------------------------------------------------------------------------
(* try_acquire_permits: the origin's permit first, then a global one; when   *)
(* the second fails the first goes back.  The mutex is held in between.      *)
OriginAvailable(r) == OriginLimited => originPermits[semaphore[r]] > 0

TakeOrigin(r) ==
  originPermits' = IF OriginLimited
                   THEN [originPermits EXCEPT ![semaphore[r]] = @ - 1]
                   ELSE originPermits

(* Mutant: the origin's permit is forgotten instead of dropped. *)
ForgetOrigin(r) == UNCHANGED originPermits

ReturnOrigin(r) ==
  originPermits' = IF OriginLimited
                   THEN [originPermits EXCEPT ![semaphore[r]] = @ + 1]
                   ELSE originPermits

(* Mutant: try_acquire_immediate does not look at the queue. *)
ImmediateBypass(r) ==
  /\ pc[r] = "immediate" /\ lockOwner = NoRequest
  /\ IF OriginAvailable(r)
     THEN TakeOrigin(r) /\ lockOwner' = r /\ Goto(r, "immediateGlobal")
     ELSE Goto(r, "register") /\ UNCHANGED <<originPermits, lockOwner>>
  /\ UNCHANGED <<exit, origin, semaphore, originGates, globalPermits, waiters,
                 nextWaiterId, waiterId, wakeVars, gaugeVars, counterVars>>

(* try_acquire_immediate, to the origin's permit: only when nobody waits.    *)
ImmediateOrigin(r) ==
  /\ pc[r] = "immediate" /\ lockOwner = NoRequest
  /\ \/ /\ waiters = <<>> /\ OriginAvailable(r)
        /\ TakeOrigin(r)
        /\ lockOwner' = r
        /\ Goto(r, "immediateGlobal")
     \/ /\ ~(waiters = <<>> /\ OriginAvailable(r))
        /\ Goto(r, "register")
        /\ UNCHANGED <<originPermits, lockOwner>>
  /\ UNCHANGED <<exit, origin, semaphore, originGates, globalPermits, waiters,
                 nextWaiterId, waiterId, wakeVars, gaugeVars, counterVars>>

(* ... and its global permit. *)
ImmediateGlobal(r) ==
  /\ pc[r] = "immediateGlobal"
  /\ lockOwner' = NoRequest
  /\ \/ /\ globalPermits > 0
        /\ globalPermits' = globalPermits - 1
        /\ exit' = [exit EXCEPT ![r] = "immediate"]
        /\ Goto(r, "grant")
        /\ UNCHANGED originPermits
     \/ /\ globalPermits = 0
        /\ ReturnOrigin(r)
        /\ Goto(r, "register")
        /\ UNCHANGED <<globalPermits, exit>>
  /\ UNCHANGED <<origin, semaphore, originGates, waiters, nextWaiterId, waiterId,
                 wakeVars, gaugeVars, counterVars>>

(* AcquireTelemetry::finish_success and AcquirePermit::new: the gauges are   *)
(* raised only once both permits are held.                                   *)
Grant(r) ==
  /\ pc[r] = "grant"
  /\ immediate' = IF exit[r] = "immediate" THEN immediate + 1 ELSE immediate
  /\ activeRequests' = [activeRequests EXCEPT ![origin[r]] = @ + 1]
  /\ exit' = [exit EXCEPT ![r] = "none"]
  /\ Goto(r, "active")
  /\ UNCHANGED <<origin, semaphore, semaphoreVars, queueVars, wakeVars,
                 pendingRequests, peakPending, attempts, waited, timeouts>>

--------------------------------------------------------------------------------
(* Mutant: the queue takes one waiter too many. *)
RegisterOneMore(r) ==
  /\ pc[r] = "register" /\ lockOwner = NoRequest
  /\ Len(waiters) <= MaxPending
  /\ waiters' = Append(waiters, nextWaiterId)
  /\ waiterId' = [waiterId EXCEPT ![r] = nextWaiterId]
  /\ nextWaiterId' = nextWaiterId + 1
  /\ pendingRequests' = pendingRequests + 1
  /\ peakPending' = Max2(peakPending, pendingRequests + 1)
  /\ waited' = waited + 1
  /\ Goto(r, "poll")
  /\ UNCHANGED <<exit, origin, semaphore, semaphoreVars, lockOwner, wakeVars,
                 activeRequests, attempts, immediate, timeouts>>

(* try_register and mark_waited, or the queue-full rejection.                *)
Register(r) ==
  /\ pc[r] = "register" /\ lockOwner = NoRequest
  /\ Len(waiters) < MaxPending
  /\ waiters' = Append(waiters, nextWaiterId)
  /\ waiterId' = [waiterId EXCEPT ![r] = nextWaiterId]
  /\ nextWaiterId' = nextWaiterId + 1
  /\ pendingRequests' = pendingRequests + 1
  /\ peakPending' = Max2(peakPending, pendingRequests + 1)
  /\ waited' = waited + 1
  /\ Goto(r, "poll")
  /\ UNCHANGED <<exit, origin, semaphore, semaphoreVars, lockOwner, wakeVars,
                 activeRequests, attempts, immediate, timeouts>>

QueueFull(r) ==
  /\ pc[r] = "register" /\ lockOwner = NoRequest
  /\ Len(waiters) >= MaxPending
  /\ timeouts' = timeouts + 1
  /\ semaphore' = [semaphore EXCEPT ![r] = NoSemaphore]
  /\ origin' = [origin EXCEPT ![r] = NoOrigin]
  /\ Goto(r, "idle")
  /\ UNCHANGED <<exit, semaphoreVars, queueVars, wakeVars, gaugeVars,
                 attempts, immediate, waited>>

(* try_acquire_for_waiter, to the origin's permit: only the head may try.    *)
PollOrigin(r) ==
  /\ pc[r] = "poll" /\ lockOwner = NoRequest
  /\ \/ /\ Head(waiters) = waiterId[r] /\ OriginAvailable(r)
        /\ TakeOrigin(r)
        /\ lockOwner' = r
        /\ Goto(r, "pollGlobal")
     \/ /\ ~(Head(waiters) = waiterId[r] /\ OriginAvailable(r))
        /\ Goto(r, "await")
        /\ UNCHANGED <<originPermits, lockOwner>>
  /\ UNCHANGED <<exit, origin, semaphore, originGates, globalPermits, waiters,
                 nextWaiterId, waiterId, wakeVars, gaugeVars, counterVars>>

(* ... and its global permit, and pop_front. *)
PollGlobal(r) ==
  /\ pc[r] = "pollGlobal"
  /\ lockOwner' = NoRequest
  /\ \/ /\ globalPermits > 0
        /\ globalPermits' = globalPermits - 1
        /\ waiters' = Tail(waiters)
        /\ notified' = notified \ {waiterId[r]}
        /\ waiterId' = [waiterId EXCEPT ![r] = 0]
        /\ exit' = [exit EXCEPT ![r] = "granted"]
        /\ Goto(r, "dropPending")
        /\ UNCHANGED originPermits
     \/ /\ globalPermits = 0
        /\ ReturnOrigin(r)
        /\ Goto(r, "await")
        /\ UNCHANGED <<globalPermits, waiters, notified, waiterId, exit>>
  /\ UNCHANGED <<origin, semaphore, originGates, nextWaiterId, target, gaugeVars,
                 counterVars>>

(* notified.await returns; the wake-up is used up and the loop polls again.  *)
Wake(r) ==
  /\ pc[r] = "await" /\ waiterId[r] \in notified
  /\ notified' = notified \ {waiterId[r]}
  /\ Goto(r, "poll")
  /\ UNCHANGED <<exit, origin, semaphore, semaphoreVars, queueVars, target,
                 gaugeVars, counterVars>>

--------------------------------------------------------------------------------
(* Timeouts.pool elapses.  tokio::time::timeout polls the wait first, so the *)
(* deadline wins only over a wait that has no wake-up to consume.            *)
PoolTimeout(r) ==
  /\ pc[r] = "await" /\ waiterId[r] \notin notified
  /\ exit' = [exit EXCEPT ![r] = "timeout"]
  /\ semaphore' = [semaphore EXCEPT ![r] = NoSemaphore]
  /\ Goto(r, "dropWaiter")
  /\ UNCHANGED <<origin, semaphoreVars, queueVars, wakeVars, gaugeVars, counterVars>>

(* The acquire future is dropped where it is suspended: the task is aborted  *)
(* or Timeouts.total elapses, whether or not a wake-up is on its way.        *)
Cancel(r) ==
  /\ pc[r] = "await"
  /\ exit' = [exit EXCEPT ![r] = "cancel"]
  /\ semaphore' = [semaphore EXCEPT ![r] = NoSemaphore]
  /\ Goto(r, "dropWaiter")
  /\ UNCHANGED <<origin, semaphoreVars, queueVars, wakeVars, gaugeVars, counterVars>>

(* PendingQueueWaiter::drop: remove_waiter. *)
RemoveWaiter(r) ==
  /\ pc[r] = "dropWaiter" /\ lockOwner = NoRequest
  /\ \E i \in 1 .. Len(waiters) :
       waiters[i] = waiterId[r] /\ waiters' = RemoveAt(waiters, i)
  /\ notified' = notified \ {waiterId[r]}
  /\ waiterId' = [waiterId EXCEPT ![r] = 0]
  /\ Goto(r, "dropPending")
  /\ UNCHANGED <<exit, origin, semaphore, semaphoreVars, lockOwner, nextWaiterId,
                 target, gaugeVars, counterVars>>

(* Mutant: a waiter that leaves the queue wakes nobody. *)
DropPendingSilently(r) ==
  /\ pc[r] = "dropPending"
  /\ pendingRequests' = pendingRequests - 1
  /\ IF exit[r] = "granted" THEN Goto(r, "grant") /\ UNCHANGED <<exit, origin>>
     ELSE /\ Goto(r, "idle")
          /\ exit' = [exit EXCEPT ![r] = "none"]
          /\ origin' = [origin EXCEPT ![r] = NoOrigin]
  /\ UNCHANGED <<semaphore, semaphoreVars, queueVars, wakeVars,
                 activeRequests, peakPending, counterVars>>

(* PendingAcquire::drop, after the queue was unlocked. *)
DropPending(r) ==
  /\ pc[r] = "dropPending"
  /\ pendingRequests' = pendingRequests - 1
  /\ Goto(r, "notify")
  /\ UNCHANGED <<exit, origin, semaphore, semaphoreVars, queueVars, wakeVars,
                 activeRequests, peakPending, counterVars>>

(* notify_head: read the head under the mutex, wake it after unlocking.      *)
NotifyHead(r) ==
  /\ pc[r] = "notify" /\ lockOwner = NoRequest
  /\ target' = [target EXCEPT ![r] = IF waiters = <<>> THEN 0 ELSE Head(waiters)]
  /\ Goto(r, "notifySend")
  /\ UNCHANGED <<exit, origin, semaphore, semaphoreVars, queueVars, notified,
                 gaugeVars, counterVars>>

(* notify_one on an entry nobody polls any more has no effect.  The request  *)
(* goes on with what called notify_capacity.                                 *)
NotifyOne(r) ==
  /\ pc[r] = "notifySend"
  /\ notified' = notified \cup {id \in {target[r]} : \E q \in Requests : waiterId[q] = id /\ id # 0}
  /\ target' = [target EXCEPT ![r] = 0]
  /\ IF exit[r] = "granted"
     THEN Goto(r, "grant") /\ UNCHANGED <<exit, origin, timeouts>>
     ELSE /\ Goto(r, "idle")
          /\ exit' = [exit EXCEPT ![r] = "none"]
          /\ origin' = [origin EXCEPT ![r] = NoOrigin]
          /\ timeouts' = IF exit[r] = "timeout" THEN timeouts + 1 ELSE timeouts
  /\ UNCHANGED <<semaphore, semaphoreVars, queueVars, gaugeVars,
                 attempts, immediate, waited>>

--------------------------------------------------------------------------------
(* AcquirePermit::drop: gauges, origin permit, global permit, wake-up.       *)
Release(r) ==
  /\ pc[r] = "active"
  /\ activeRequests' = [activeRequests EXCEPT ![origin[r]] = @ - 1]
  /\ exit' = [exit EXCEPT ![r] = "release"]
  /\ Goto(r, "dropOrigin")
  /\ UNCHANGED <<origin, semaphore, semaphoreVars, queueVars, wakeVars,
                 pendingRequests, peakPending, counterVars>>

DropOrigin(r) ==
  /\ pc[r] = "dropOrigin"
  /\ ReturnOrigin(r)
  /\ semaphore' = [semaphore EXCEPT ![r] = NoSemaphore]
  /\ Goto(r, "dropGlobal")
  /\ UNCHANGED <<exit, origin, originGates, globalPermits, queueVars, wakeVars,
                 gaugeVars, counterVars>>

(* Mutant: a freed slot wakes nobody. *)
DropGlobalSilently(r) ==
  /\ pc[r] = "dropGlobal"
  /\ globalPermits' = globalPermits + 1
  /\ Goto(r, "idle")
  /\ exit' = [exit EXCEPT ![r] = "none"]
  /\ origin' = [origin EXCEPT ![r] = NoOrigin]
  /\ UNCHANGED <<semaphore, originGates, originPermits, queueVars, wakeVars, gaugeVars,
                 counterVars>>

DropGlobal(r) ==
  /\ pc[r] = "dropGlobal"
  /\ globalPermits' = globalPermits + 1
  /\ Goto(r, "notify")
  /\ UNCHANGED <<exit, origin, semaphore, originGates, originPermits, queueVars,
                 wakeVars, gaugeVars, counterVars>>

--------------------------------------------------------------------------------
(* What a task does by itself, once it runs. *)
TaskStep(r) ==
  \/ ImmediateOrigin(r) \/ ImmediateGlobal(r) \/ Register(r) \/ QueueFull(r)
  \/ PollOrigin(r) \/ PollGlobal(r) \/ Wake(r)
  \/ RemoveWaiter(r) \/ DropPending(r) \/ NotifyHead(r) \/ NotifyOne(r)
  \/ Grant(r) \/ DropOrigin(r) \/ DropGlobal(r)

Next == \E r \in Requests :
          \/ \E o \in Origins : StartAcquire(r, o)
          \/ TaskStep(r)
          \/ PoolTimeout(r)
          \/ Cancel(r)
          \/ Release(r)

Spec == Init /\ [][Next]_vars

(* The runtime runs every woken task, and every exchange that holds a slot   *)
(* ends (Timeouts.total and the read timeout bound it).  Nothing forces a    *)
(* caller to start or cancel a request, nor a pool timeout to be short.      *)
Fairness == \A r \in Requests : WF_vars(TaskStep(r)) /\ WF_vars(Release(r))

FairSpec == Spec /\ Fairness

--------------------------------------------------------------------------------
(* Properties *)

(* Every variable has its type, no semaphore offers more than its limit and  *)
(* no unsigned gauge underflows.                                             *)
TypeOK ==
  /\ pc \in [Requests -> Steps]
  /\ exit \in [Requests -> Exits]
  /\ origin \in [Requests -> Origins \cup {NoOrigin}]
  /\ semaphore \in [Requests -> Semaphores \cup {NoSemaphore}]
  /\ originGates \in [Origins -> Semaphores \cup {NoSemaphore}]
  /\ originPermits \in [Semaphores -> 0 .. MaxPerOrigin]
  /\ globalPermits \in 0 .. MaxActive
  /\ lockOwner \in Requests \cup {NoRequest}
  /\ waiters \in Seq(Nat \ {0})
  /\ nextWaiterId \in Nat \ {0}
  /\ waiterId \in [Requests -> Nat]
  /\ notified \in SUBSET (Nat \ {0})
  /\ target \in [Requests -> Nat]
  /\ activeRequests \in [Origins -> Nat]
  /\ pendingRequests \in Nat /\ peakPending \in Nat
  /\ attempts \in Nat /\ immediate \in Nat /\ waited \in Nat /\ timeouts \in Nat

(* No permit is lost or made up by a race of try_acquire_permits with the    *)
(* unlocked drops of AcquirePermit: what is available and what is held add   *)
(* up to the limit, for the global semaphore and for every origin one.       *)
PermitsConserved ==
  /\ globalPermits + Cardinality({r \in Requests : HoldsGlobal(r)}) = MaxActive
  /\ \A s \in Semaphores :
       originPermits[s] + Cardinality({r \in Requests : HoldsOrigin(r) /\ semaphore[r] = s})
         = MaxPerOrigin

(* OriginGates keeps only weak references and forgets dead ones, yet two     *)
(* requests to one origin never count against two different semaphores.      *)
OneSemaphorePerOrigin ==
  \A r, q \in Requests :
    /\ origin[r] = origin[q]
    /\ semaphore[r] # NoSemaphore /\ semaphore[q] # NoSemaphore
    => semaphore[r] = semaphore[q]

(* Limits.max_active_requests(_per_origin) bound the requests that really    *)
(* hold a slot, and the active_requests gauge never shows more than that     *)
(* (AcquirePermit raises it after taking the permits, lowers it before).     *)
LimitsRespected ==
  /\ Cardinality({r \in Requests : Granted(r)}) <= MaxActive
  /\ \A o \in Origins :
       LET holders == {r \in Requests : Granted(r) /\ origin[r] = o}
       IN  /\ OriginLimited => Cardinality(holders) <= MaxPerOrigin
           /\ activeRequests[o] <= Cardinality(holders)

(* A slot that the head of the queue could take is never left unused with    *)
(* nobody about to wake it: capacity freed between a failed attempt and the  *)
(* registration, or handed to a waiter that is just timing out or being      *)
(* cancelled, reaches the next waiter (notify_capacity in PendingQueueWaiter *)
(* and AcquirePermit).                                                       *)
WakerOnTheWay(id) ==
  \E r \in Requests : \/ pc[r] \in {"dropGlobal", "dropPending", "notify"}
                      \/ pc[r] = "notifySend" /\ target[r] = id

NoLostWakeup ==
  \A r \in Requests :
    /\ pc[r] = "await" /\ Head(waiters) = waiterId[r]
    /\ OriginAvailable(r) /\ globalPermits > 0
    => waiterId[r] \in notified \/ WakerOnTheWay(waiterId[r])

(* "A later request does not bypass an earlier queued request even if its    *)
(* own origin currently has free capacity": whoever gets a slot is older     *)
(* than everybody who is still queued.                                       *)
NoBypass ==
  [][\A r, q \in Requests :
       ~Granted(r) /\ Granted(r)' /\ Queued(q) /\ q # r
       => waiterId[r] # 0 /\ waiterId[r] < waiterId[q]]_vars

(* The gate implements RequestSlots.  A slot changes hands at the step that  *)
(* takes the second permit and is given back when the first one is; a        *)
(* request leaves the queue when its entry does.                             *)
Phase(r) == IF Granted(r) THEN "holding"
            ELSE IF pc[r] \in {"immediate", "immediateGlobal", "register"} THEN "asking"
            ELSE IF Queued(r) THEN "queued"
            ELSE "idle"

Slots == INSTANCE RequestSlots WITH
           phase <- [r \in Requests |-> Phase(r)],
           wants <- [r \in Requests |-> IF Phase(r) = "idle" THEN NoOrigin ELSE origin[r]],
           ticket <- waiterId,
           queue <- waiters,
           nextTicket <- nextWaiterId

(* Callers cannot tell the gate, with its mutex, semaphores and wake-ups,    *)
(* from the atomic FIFO slots of RequestSlots: no interleaving of            *)
(* try_acquire_permits, AcquirePermit::drop and PendingQueueWaiter::drop     *)
(* exceeds a limit, skips the queue or refuses a request while it has room.  *)
ImplementsSlots == Slots!Spec

(* A queued request gets its slot or gives up; nobody waits forever.         *)
QueuedLeaves == \A r \in Requests : pc[r] = "await" ~> ~Queued(r)

================================================================================
