-------------------------- MODULE ConnectionGateProofs --------------------------
(***************************************************************************)
(* TLAPS proofs about the limit on physical connections (ConnectionGate),  *)
(* for every set of connects, origins and semaphores and every limit: the  *)
(* types, ConnectionPermitsConserved and ConnectionLimits.                 *)
(*                                                                         *)
(* The inductive invariant has four parts: the types, where a connect is   *)
(* and what it keeps alive (ControlInv), who is in a wait list (WaitInv)   *)
(* and where the permits of every semaphore are (Balance).                 *)
(***************************************************************************)
EXTENDS ConnectionGate, FiniteSetTheorems, SequenceTheorems, TLAPS

HostLimited == "host" \in limited

(* Who is in Tokio's wait list of s, or was given a permit of it, and has    *)
(* not been polled since.                                                    *)
Waits(s) == {c \in Connects : /\ pc[c] \in {"awaitHost", "leaveHost", "awaitAll", "leaveAll"}
                              /\ Asks(c) = s}

(* A wait list of members of W without repetition. *)
Orderly(q, W) == /\ \A i \in 1 .. Len(q) : q[i] \in W
                 /\ \A i, j \in 1 .. Len(q) : i # j => q[i] # q[j]

Holders(s) == {c \in Connects : IF s = Global THEN HoldsAll(c) ELSE HoldsHost(c) /\ gate[c] = s}

(* A semaphore that limits anybody: the global one, or one in the map. *)
Live(s) == IF s = Global THEN "all" \in limited ELSE \E o \in Origins : gates[o] = s

TypeWeak ==
  /\ pc \in [Connects -> Steps]
  /\ origin \in [Connects -> Origins \cup {NoOrigin}]
  /\ gate \in [Connects -> Semaphores \cup {NoSemaphore}]
  /\ gates \in [Origins -> Semaphores \cup {NoSemaphore}]
  /\ permits \in [All -> Nat]
  /\ queue \in [All -> Seq(Connects)] /\ assigned \in [All -> SUBSET Connects]
  /\ attempts \in 0 .. MaxAttempts

(* A connect keeps alive the semaphore its origin is mapped to, and asks for *)
(* nothing that is not limited.                                              *)
ConnectInv(c) ==
  /\ pc[c] = "idle" <=> origin[c] = NoOrigin
  /\ IF HostLimited /\ pc[c] # "idle"
     THEN gate[c] \in Semaphores /\ gates[origin[c]] = gate[c]
     ELSE gate[c] = NoSemaphore
  /\ ~HostLimited => pc[c] \notin {"tryHost", "pollHost", "awaitHost", "leaveHost"}
  /\ "all" \notin limited => pc[c] \notin {"pollAll", "awaitAll", "leaveAll"}

ControlInv ==
  /\ \A c \in Connects : ConnectInv(c)
  /\ \A o, p \in Origins : gates[o] = gates[p] /\ gates[o] # NoSemaphore => o = p

(* The wait list of a semaphore has those who wait for it and were not given *)
(* a permit, each once.                                                      *)
WaitInv == \A s \in All : /\ assigned[s] \subseteq Waits(s)
                          /\ Orderly(queue[s], Waits(s) \ assigned[s])

(* The permits of a live semaphore are in it, on their way to a waiter or    *)
(* held; any other semaphore has all of its permits.                         *)
Balanced(s) == IF Live(s)
               THEN permits[s] + Cardinality(assigned[s]) + Cardinality(Holders(s)) = Limit(s)
               ELSE permits[s] = Limit(s)

Balance == \A s \in All : Balanced(s)

IInv == TypeWeak /\ ControlInv /\ WaitInv /\ Balance

--------------------------------------------------------------------------------
(* Wait lists, and counting. *)

(* A newcomer joins at the end. *)
LEMMA JoinList ==
  ASSUME NEW q \in Seq(Connects), NEW W, Orderly(q, W), NEW c \in Connects, c \notin W
  PROVE  Append(q, c) \in Seq(Connects) /\ Orderly(Append(q, c), W \cup {c})
<1> DEFINE t == Append(q, c)
<1>1. /\ t \in Seq(Connects) /\ Len(t) = Len(q) + 1 /\ Len(q) \in Nat
      /\ \A i \in 1 .. Len(q) : t[i] = q[i]
      /\ t[Len(q) + 1] = c
  OBVIOUS
<1> HIDE DEF t
<1>2. \A i \in 1 .. Len(t) : i = Len(q) + 1 \/ i \in 1 .. Len(q)
  BY <1>1
<1>3. \A i \in 1 .. Len(t) : \/ i = Len(q) + 1 /\ t[i] = c
                             \/ i \in 1 .. Len(q) /\ t[i] = q[i] /\ q[i] \in W
  BY <1>1, <1>2 DEF Orderly
<1>4. \A i, j \in 1 .. Len(t) : i # j => t[i] # t[j]
  BY <1>3 DEF Orderly
<1> QED
  BY <1>1, <1>3, <1>4 DEF Orderly, t

(* The first waiter is taken out. *)
LEMMA PopList ==
  ASSUME NEW q \in Seq(Connects), NEW W, Orderly(q, W), q # <<>>
  PROVE  /\ Tail(q) \in Seq(Connects) /\ Orderly(Tail(q), W \ {Head(q)})
         /\ Head(q) \in W /\ Head(q) \in Connects
<1> DEFINE t == Tail(q)
<1>1. /\ t \in Seq(Connects) /\ Len(t) = Len(q) - 1 /\ Len(q) \in Nat \ {0}
      /\ \A i \in 1 .. Len(q) - 1 : t[i] = q[i + 1]
      /\ Head(q) = q[1] /\ Head(q) \in Connects
  OBVIOUS
<1> HIDE DEF t
<1> DEFINE old(j) == j + 1
<1>2. /\ \A j \in 1 .. Len(t) : old(j) \in 1 .. Len(q) /\ old(j) # 1 /\ t[j] = q[old(j)]
      /\ \A i, j \in 1 .. Len(t) : i # j => old(i) # old(j)
      /\ 1 \in 1 .. Len(q)
  BY <1>1
<1> HIDE DEF old
<1>3. Orderly(t, W \ {q[1]}) /\ q[1] \in W
  BY <1>2 DEF Orderly
<1> QED
  BY <1>1, <1>3 DEF t

(* A waiter leaves from the middle. *)
LEMMA LeaveList ==
  ASSUME NEW q \in Seq(Connects), NEW W, Orderly(q, W), NEW k \in 1 .. Len(q)
  PROVE  /\ RemoveAt(q, k) \in Seq(Connects)
         /\ Orderly(RemoveAt(q, k), W \ {q[k]})
<1> DEFINE front == SubSeq(q, 1, k - 1)
           back  == SubSeq(q, k + 1, Len(q))
           t == RemoveAt(q, k)
<1>0. Len(q) \in Nat
  OBVIOUS
<1>1. /\ front \in Seq(Connects) /\ Len(front) = k - 1
      /\ \A j \in 1 .. k - 1 : front[j] = q[j]
  BY LenProperties
<1>2. /\ back \in Seq(Connects) /\ Len(back) = Len(q) - k
      /\ \A j \in 1 .. Len(q) - k : back[j] = q[k + j]
  BY LenProperties
<1>3. t = front \o back
  BY DEF RemoveAt
<1> HIDE DEF front, back, t
<1>4. t \in Seq(Connects) /\ Len(t) = Len(q) - 1
  BY <1>1, <1>2, <1>3, LenProperties
<1> DEFINE old(j) == IF j < k THEN j ELSE j + 1
<1>5. ASSUME NEW j \in 1 .. Len(t) PROVE t[j] = q[old(j)]
  <2>1. CASE j < k
    BY <1>0, <1>1, <1>2, <1>3, <1>4, <2>1
  <2>2. CASE j >= k
    <3>1. j - (k - 1) \in 1 .. Len(back)
      BY <1>0, <1>2, <1>4, <2>2
    <3>2. (front \o back)[j] = back[j - (k - 1)]
      BY <1>0, <1>1, <1>2, <1>4, <2>2, <3>1
    <3> QED
      BY <1>0, <1>2, <1>3, <2>2, <3>1, <3>2
  <2> QED
    BY <1>0, <1>4, <2>1, <2>2
<1>6. /\ \A j \in 1 .. Len(t) : old(j) \in 1 .. Len(q) /\ old(j) # k
      /\ \A i, j \in 1 .. Len(t) : i # j => old(i) # old(j)
  BY <1>0, <1>4
<1> HIDE DEF old
<1> QED
  BY <1>4, <1>5, <1>6 DEF Orderly, t

(* One more in a set of connects. *)
LEMMA CountUp ==
  ASSUME NEW A \in SUBSET Connects, NEW c \in Connects, c \notin A
  PROVE  Cardinality(A \cup {c}) = Cardinality(A) + 1 /\ Cardinality(A) \in Nat
  BY ConnectionAssumption, FS_Subset, FS_AddElement, FS_CardinalityType

(* One less. *)
LEMMA CountDown ==
  ASSUME NEW A \in SUBSET Connects, NEW c \in A
  PROVE  Cardinality(A \ {c}) = Cardinality(A) - 1 /\ Cardinality(A) \in Nat
  BY ConnectionAssumption, FS_Subset, FS_RemoveElement, FS_CardinalityType

(* Sets of connects can be counted. *)
LEMMA CountNat == ASSUME NEW A \in SUBSET Connects PROVE Cardinality(A) \in Nat
  BY ConnectionAssumption, FS_Subset, FS_CardinalityType

--------------------------------------------------------------------------------
(* Where a connect is, and what that makes of it. *)

HostSteps == {"tryHost", "pollHost", "awaitHost", "leaveHost"}
WaitSteps == {"awaitHost", "leaveHost", "awaitAll", "leaveAll"}
AllSteps == {"connecting", "open", "dropAll"}
HeldSteps == AllSteps \cup {"tryAll", "pollAll", "awaitAll", "leaveAll", "dropHost"}

(* The semaphore a connect at this step asks. *)
AsksAt(c, step) == IF step \in HostSteps THEN gate[c] ELSE Global

(* What a connect asks is the global semaphore or the one it keeps alive.    *)
LEMMA AskFacts ==
  ASSUME TypeWeak, ControlInv, NEW c \in Connects
  PROVE  /\ Asks(c) = AsksAt(c, pc[c]) /\ Asks(c) \in All
         /\ pc[c] \in HostSteps => Asks(c) = gate[c] /\ gate[c] \in Semaphores /\ HostLimited
         /\ Asks(c) = Global <=> pc[c] \notin HostSteps
         /\ pc[c] # "idle" => gate[c] \in Semaphores \/ ~HostLimited
  BY ConnectionAssumption
     DEF Asks, AsksAt, HostSteps, ControlInv, ConnectInv, All, HostLimited, TypeWeak

(* A connect goes to a step: who waits and who holds afterwards.             *)
Placed(c, step, s) ==
  /\ Waits(s)' = IF step \in WaitSteps /\ AsksAt(c, step) = s
                 THEN Waits(s) \cup {c} ELSE Waits(s) \ {c}
  /\ Holders(s)' = IF \/ s = Global /\ step \in AllSteps
                      \/ s # Global /\ step \in HeldSteps /\ gate[c] = s
                   THEN Holders(s) \cup {c} ELSE Holders(s) \ {c}
  /\ c \in Waits(s) <=> pc[c] \in WaitSteps /\ Asks(c) = s
  /\ c \in Holders(s) <=> \/ s = Global /\ pc[c] \in AllSteps
                          \/ s # Global /\ pc[c] \in HeldSteps /\ gate[c] = s
  /\ Waits(s) \subseteq Connects /\ Holders(s) \subseteq Connects

(* Placed is what Goto does. *)
LEMMA Moved ==
  ASSUME TypeWeak, ControlInv, NEW c \in Connects, NEW step \in Steps,
         Goto(c, step), UNCHANGED gate
  PROVE  \A s \in All : Placed(c, step, s)
<1> TAKE s \in All
<1>1. \A d \in Connects : pc'[d] = IF d = c THEN step ELSE pc[d]
  BY DEF Goto, TypeWeak
<1>2. Waits(s)' = IF step \in WaitSteps /\ AsksAt(c, step) = s
                  THEN Waits(s) \cup {c} ELSE Waits(s) \ {c}
  BY <1>1 DEF Waits, Asks, AsksAt, HostSteps, WaitSteps
<1>3. Holders(s)' = IF \/ s = Global /\ step \in AllSteps
                       \/ s # Global /\ step \in HeldSteps /\ gate[c] = s
                    THEN Holders(s) \cup {c} ELSE Holders(s) \ {c}
  BY <1>1 DEF Holders, HoldsAll, HoldsHost, AllSteps, HeldSteps
<1>4. /\ c \in Waits(s) <=> pc[c] \in WaitSteps /\ Asks(c) = s
      /\ Waits(s) \subseteq Connects /\ Holders(s) \subseteq Connects
  BY DEF Waits, WaitSteps, Holders
<1>5. c \in Holders(s) <=> \/ s = Global /\ pc[c] \in AllSteps
                           \/ s # Global /\ pc[c] \in HeldSteps /\ gate[c] = s
  BY DEF Holders, HoldsAll, HoldsHost, AllSteps, HeldSteps
<1> QED
  BY <1>2, <1>3, <1>4, <1>5 DEF Placed

(* Every step but the first and the last of a connect: it stays with its     *)
(* origin and its semaphore, and the map is left alone.                      *)
LEMMA ControlMoved ==
  ASSUME TypeWeak, ControlInv, NEW c \in Connects, NEW step \in Steps \ {"idle"},
         pc[c] # "idle", Goto(c, step), UNCHANGED <<limited, origin, gate, gates>>,
         step \in HostSteps => HostLimited,
         step \in {"pollAll", "awaitAll", "leaveAll"} => "all" \in limited
  PROVE  ControlInv' /\ pc' \in [Connects -> Steps] /\ \A s \in All : Live(s)' <=> Live(s)
<1>1. pc' \in [Connects -> Steps] /\ \A d \in Connects : pc'[d] = IF d = c THEN step ELSE pc[d]
  BY DEF Goto, TypeWeak
<1>2. ControlInv'
  BY <1>1 DEF ControlInv, ConnectInv, HostLimited, HostSteps, TypeWeak
<1>3. \A s \in All : Live(s)' <=> Live(s)
  BY DEF Live
<1> QED
  BY <1>1, <1>2, <1>3

(* Only c's place among the waiters and holders of s changes, and nothing is *)
(* done to any other semaphore.                                              *)
LEMMA OthersStay ==
  ASSUME IInv, NEW s \in All,
         \A t \in All \ {s} : /\ Waits(t)' = Waits(t) /\ Holders(t)' = Holders(t)
                              /\ permits'[t] = permits[t] /\ queue'[t] = queue[t]
                              /\ assigned'[t] = assigned[t],
         \A t \in All : Live(t)' <=> Live(t),
         assigned'[s] \subseteq Waits(s)', Orderly(queue'[s], Waits(s)' \ assigned'[s]),
         Live(s) => permits'[s] + Cardinality(assigned'[s]) + Cardinality(Holders(s)') = Limit(s),
         ~Live(s) => permits'[s] = permits[s]
  PROVE  WaitInv' /\ Balance'
<1>1. WaitInv'
  BY DEF IInv, WaitInv
<1>2. ASSUME NEW t \in All PROVE Balanced(t)'
  <2>1. CASE t = s
    BY <2>1 DEF IInv, Balance, Balanced, Limit
  <2>2. CASE t # s
    BY <2>2 DEF IInv, Balance, Balanced, Limit
  <2> QED
    BY <2>1, <2>2
<1> QED
  BY <1>1, <1>2 DEF Balance

--------------------------------------------------------------------------------
(* One lemma for each way a step treats the permits. *)

(* A connect moves on, and neither waits nor holds more or less than before. *)
LEMMA MovesOn ==
  ASSUME IInv, NEW c \in Connects, NEW step \in Steps \ {"idle"}, pc[c] # "idle", Goto(c, step),
         UNCHANGED <<limited, origin, gate, gates, permits, queue, assigned, attempts>>,
         step \in HostSteps => HostLimited,
         step \in {"pollAll", "awaitAll", "leaveAll"} => "all" \in limited,
         pc[c] \in WaitSteps <=> step \in WaitSteps,
         step \in WaitSteps => (step \in HostSteps <=> pc[c] \in HostSteps),
         HostLimited => (pc[c] \in HeldSteps <=> step \in HeldSteps),
         "all" \in limited => (pc[c] \in AllSteps <=> step \in AllSteps)
  PROVE  IInv'
<1> USE DEF IInv
<1>1. /\ ControlInv' /\ pc' \in [Connects -> Steps]
      /\ \A s \in All : Live(s)' <=> Live(s)
  BY ControlMoved
<1>2. TypeWeak'
  BY <1>1 DEF TypeWeak
<1>3. \A s \in All : /\ Waits(s)' = Waits(s)
                     /\ (s = Global /\ "all" \notin limited) \/ Holders(s)' = Holders(s)
  <2> TAKE s \in All
  <2>1. Placed(c, step, s)
    BY Moved
  <2>2. Asks(c) = AsksAt(c, pc[c])
    BY AskFacts
  <2>3. Waits(s)' = Waits(s)
    BY <2>1, <2>2 DEF Placed, AsksAt
  <2>4. Holders(s)' = Holders(s) \/ (s = Global /\ "all" \notin limited)
    <3>1. HostLimited \/ gate[c] # s
      BY ConnectionAssumption DEF ControlInv, ConnectInv, All
    <3> QED
      BY <2>1, <3>1 DEF Placed
  <2> QED
    BY <2>3, <2>4
<1>4. WaitInv'
  BY <1>3 DEF WaitInv
<1>5. ASSUME NEW s \in All PROVE Balanced(s)'
  <2>1. CASE Live(s)
    BY <1>1, <1>3, <2>1 DEF Balance, Balanced, Limit, Live
  <2>2. CASE ~Live(s)
    BY <1>1, <2>2 DEF Balance, Balanced, Limit
  <2> QED
    BY <2>1, <2>2
<1> QED
  BY <1>1, <1>2, <1>4, <1>5 DEF Balance

(* A connect takes a permit of the semaphore it asks, out of the semaphore   *)
(* or because it was given to it.                                            *)
LEMMA TakesPermit ==
  ASSUME IInv, NEW c \in Connects, NEW s \in All, s = Asks(c),
         NEW step \in Steps, step = After(c), Goto(c, step),
         UNCHANGED <<limited, origin, gate, gates, queue, attempts>>,
         pc[c] \in {"tryHost", "pollHost", "awaitHost", "tryAll", "pollAll", "awaitAll"},
         pc[c] = "tryAll" => "all" \in limited,
         \/ /\ pc[c] \notin WaitSteps /\ permits[s] > 0 /\ UNCHANGED assigned
            /\ permits' = [permits EXCEPT ![s] = @ - 1]
         \/ /\ c \in assigned[s] /\ UNCHANGED permits
            /\ assigned' = [assigned EXCEPT ![s] = @ \ {c}]
  PROVE  IInv'
<1> USE DEF IInv
<1>1. /\ s \in All /\ (pc[c] \in HostSteps => s = gate[c] /\ s \in Semaphores)
      /\ s = Global <=> pc[c] \notin HostSteps
  BY AskFacts
<1>2. /\ step \in Steps \ {"idle"} /\ pc[c] # "idle"
      /\ step = IF s = Global THEN "connecting" ELSE "tryAll"
  BY DEF After, Steps
<1>3. /\ ControlInv' /\ pc' \in [Connects -> Steps]
      /\ \A t \in All : Live(t)' <=> Live(t)
  BY <1>2, ControlMoved DEF HostSteps
<1>4. Live(s)
  <2>1. CASE pc[c] \in HostSteps
    BY <1>1, <2>1, ConnectionAssumption
       DEF ControlInv, ConnectInv, Live, TypeWeak, HostSteps, HostLimited
  <2>2. CASE pc[c] \notin HostSteps
    BY <1>1, <2>2 DEF ControlInv, ConnectInv, Live, HostSteps
  <2> QED
    BY <2>1, <2>2
<1>5. \A t \in All :
        /\ Waits(t)' = Waits(t) \ {c}
        /\ t # s => Waits(t)' = Waits(t) /\ Holders(t)' = Holders(t)
        /\ t = s => Holders(t)' = Holders(t) \cup {c} /\ c \notin Holders(t)
        /\ Holders(t) \subseteq Connects
  <2> TAKE t \in All
  <2>1. Placed(c, step, t)
    BY Moved
  <2>2. step \notin WaitSteps /\ step \in HeldSteps /\ (step \in AllSteps <=> s = Global)
    BY <1>2 DEF WaitSteps, HeldSteps, AllSteps
  <2>3. /\ pc[c] \notin AllSteps /\ (pc[c] \in HeldSteps <=> s = Global)
        /\ s # Global => s = gate[c]
    BY <1>1 DEF HostSteps, HeldSteps, AllSteps
  <2> QED
    BY <2>1, <2>2, <2>3 DEF Placed
<1>6. /\ assigned[s] \subseteq Waits(s) /\ Orderly(queue[s], Waits(s) \ assigned[s])
      /\ permits[s] \in Nat /\ assigned[s] \in SUBSET Connects
      /\ permits[s] + Cardinality(assigned[s]) + Cardinality(Holders(s)) = Limit(s)
  BY <1>1, <1>4 DEF WaitInv, Balance, Balanced, TypeWeak
<1>7. Cardinality(Holders(s)') = Cardinality(Holders(s)) + 1 /\ Cardinality(Holders(s)) \in Nat
  BY <1>1, <1>5, CountUp
<1>8. CASE /\ pc[c] \notin WaitSteps /\ permits[s] > 0 /\ UNCHANGED assigned
           /\ permits' = [permits EXCEPT ![s] = @ - 1]
  <2>1. c \notin Waits(s)
    BY <1>8 DEF Waits, WaitSteps
  <2>2. /\ permits'[s] = permits[s] - 1 /\ permits' \in [All -> Nat]
        /\ \A t \in All \ {s} : permits'[t] = permits[t]
    BY <1>6, <1>8, <1>1 DEF TypeWeak
  <2>3. Cardinality(assigned[s]) \in Nat /\ Limit(s) \in Nat
    BY <1>6, CountNat, ConnectionAssumption DEF Limit
  <2>4. permits'[s] + Cardinality(assigned'[s]) + Cardinality(Holders(s)') = Limit(s)
    BY <1>6, <1>7, <1>8, <2>2, <2>3
  <2>5. Waits(s)' = Waits(s)
    BY <1>1, <1>5, <2>1
  <2>6. WaitInv' /\ Balance'
    <3>1. assigned'[s] \subseteq Waits(s)' /\ Orderly(queue'[s], Waits(s)' \ assigned'[s])
      BY <1>6, <1>8, <2>5
    <3> QED
      BY <1>3, <1>4, <1>5, <1>8, <2>2, <2>4, <3>1, OthersStay
  <2> QED
    BY <1>3, <1>8, <2>2, <2>6 DEF TypeWeak
<1>9. CASE /\ c \in assigned[s] /\ UNCHANGED permits
           /\ assigned' = [assigned EXCEPT ![s] = @ \ {c}]
  <2>1. /\ assigned'[s] = assigned[s] \ {c} /\ assigned' \in [All -> SUBSET Connects]
        /\ \A t \in All \ {s} : assigned'[t] = assigned[t]
    BY <1>1, <1>6, <1>9 DEF TypeWeak
  <2>2. Cardinality(assigned'[s]) = Cardinality(assigned[s]) - 1 /\ Cardinality(assigned[s]) \in Nat
    BY <1>6, <1>9, <2>1, CountDown
  <2>3. permits'[s] + Cardinality(assigned'[s]) + Cardinality(Holders(s)') = Limit(s)
    BY <1>6, <1>7, <1>9, <2>2
  <2>4. /\ assigned'[s] \subseteq Waits(s)'
        /\ Waits(s)' \ assigned'[s] = Waits(s) \ assigned[s]
    BY <1>1, <1>5, <1>6, <1>9, <2>1
  <2>5. WaitInv' /\ Balance'
    <3>1. Orderly(queue'[s], Waits(s)' \ assigned'[s])
      BY <1>6, <2>4
    <3> QED
      BY <1>3, <1>4, <1>5, <1>9, <2>1, <2>3, <2>4, <3>1, OthersStay
  <2> QED
    BY <1>3, <1>9, <2>1, <2>5 DEF TypeWeak
<1> QED
  BY <1>8, <1>9

(* A permit of s goes to the first waiter, or into the semaphore; A are those *)
(* that were given one before.                                               *)
ReturnedTo(s, A) ==
  \/ /\ queue[s] = <<>> /\ UNCHANGED queue
     /\ permits' = [permits EXCEPT ![s] = @ + 1]
     /\ assigned' = [assigned EXCEPT ![s] = A]
  \/ /\ queue[s] # <<>> /\ UNCHANGED permits
     /\ queue' = [queue EXCEPT ![s] = Tail(@)]
     /\ assigned' = [assigned EXCEPT ![s] = A \cup {Head(queue[s])}]

(* A permit of s comes back.  Those it may go to are the waiters in the      *)
(* list; A are the others that were given one.                               *)
LEMMA PermitReturns ==
  ASSUME IInv, NEW s \in All, Live(s), NEW A \in SUBSET Connects,
         A \subseteq Waits(s)', Waits(s)' \ A = Waits(s) \ assigned[s],
         Holders(s)' \in SUBSET Connects,
         Cardinality(A) + Cardinality(Holders(s)') + 1
           = Cardinality(assigned[s]) + Cardinality(Holders(s)),
         ReturnedTo(s, A),
         \A t \in All \ {s} : Waits(t)' = Waits(t) /\ Holders(t)' = Holders(t),
         \A t \in All : Live(t)' <=> Live(t)
  PROVE  /\ WaitInv' /\ Balance' /\ permits' \in [All -> Nat]
         /\ queue' \in [All -> Seq(Connects)] /\ assigned' \in [All -> SUBSET Connects]
<1> USE DEF IInv
<1>1. /\ permits \in [All -> Nat] /\ queue \in [All -> Seq(Connects)]
      /\ assigned \in [All -> SUBSET Connects]
      /\ Orderly(queue[s], Waits(s) \ assigned[s])
      /\ permits[s] + Cardinality(assigned[s]) + Cardinality(Holders(s)) = Limit(s)
  BY DEF TypeWeak, WaitInv, Balance, Balanced
<1>2. Holders(s) \subseteq Connects
  BY DEF Holders
<1>3. /\ Cardinality(A) \in Nat /\ Cardinality(assigned[s]) \in Nat
      /\ Cardinality(Holders(s)) \in Nat /\ Cardinality(Holders(s)') \in Nat
      /\ permits[s] \in Nat /\ Limit(s) \in Nat
  BY <1>1, <1>2, CountNat, ConnectionAssumption DEF Limit
<1>4. CASE /\ queue[s] = <<>> /\ UNCHANGED queue
           /\ permits' = [permits EXCEPT ![s] = @ + 1]
           /\ assigned' = [assigned EXCEPT ![s] = A]
  <2>1. /\ permits' \in [All -> Nat] /\ assigned' \in [All -> SUBSET Connects]
        /\ permits'[s] = permits[s] + 1 /\ assigned'[s] = A
        /\ \A t \in All \ {s} : permits'[t] = permits[t] /\ assigned'[t] = assigned[t]
    BY <1>1, <1>3, <1>4
  <2>2. permits'[s] + Cardinality(assigned'[s]) + Cardinality(Holders(s)') = Limit(s)
    <3>1. permits'[s] = permits[s] + 1 /\ Cardinality(assigned'[s]) = Cardinality(A)
      BY <2>1
    <3> QED
      BY <1>1, <1>3, <3>1
  <2>3. assigned'[s] \subseteq Waits(s)' /\ Orderly(queue'[s], Waits(s)' \ assigned'[s])
    BY <1>1, <1>4, <2>1
  <2>4. WaitInv' /\ Balance'
    BY <1>4, <2>1, <2>2, <2>3, OthersStay
  <2> QED
    BY <1>1, <1>4, <2>1, <2>4
<1>5. CASE /\ queue[s] # <<>> /\ UNCHANGED permits
           /\ queue' = [queue EXCEPT ![s] = Tail(@)]
           /\ assigned' = [assigned EXCEPT ![s] = A \cup {Head(queue[s])}]
  <2> DEFINE first == Head(queue[s])
             rest == Tail(queue[s])
  <2>1. /\ rest \in Seq(Connects) /\ Orderly(rest, (Waits(s) \ assigned[s]) \ {first})
        /\ first \in Waits(s) \ assigned[s] /\ first \in Connects
    BY <1>1, <1>5, PopList
  <2>2. queue' = [queue EXCEPT ![s] = rest] /\ assigned' = [assigned EXCEPT ![s] = A \cup {first}]
    BY <1>5
  <2> HIDE DEF rest
  <2>3. /\ queue' \in [All -> Seq(Connects)] /\ assigned' \in [All -> SUBSET Connects]
        /\ queue'[s] = rest /\ assigned'[s] = A \cup {first}
        /\ \A t \in All \ {s} : queue'[t] = queue[t] /\ assigned'[t] = assigned[t]
    BY <1>1, <2>1, <2>2
  <2>4. first \notin A /\ first \in Waits(s)'
    BY <2>1
  <2>5. Cardinality(assigned'[s]) = Cardinality(A) + 1
    BY <2>1, <2>3, <2>4, CountUp
  <2>6. permits'[s] + Cardinality(assigned'[s]) + Cardinality(Holders(s)') = Limit(s)
    <3>1. permits'[s] = permits[s] /\ Cardinality(assigned'[s]) = Cardinality(A) + 1
      BY <1>5, <2>5
    <3> QED
      BY <1>1, <1>3, <3>1
  <2>7. assigned'[s] \subseteq Waits(s)' /\ Orderly(queue'[s], Waits(s)' \ assigned'[s])
    <3>1. Waits(s)' \ (A \cup {first}) = (Waits(s) \ assigned[s]) \ {first}
      OBVIOUS
    <3> QED
      BY <2>1, <2>3, <2>4, <3>1
  <2>8. WaitInv' /\ Balance'
    BY <1>5, <2>3, <2>6, <2>7, OthersStay
  <2> QED
    BY <1>1, <1>5, <2>3, <2>8
<1> QED
  BY <1>4, <1>5 DEF ReturnedTo

(* A holder gives its permit of s back. *)
LEMMA GivesBack ==
  ASSUME IInv, NEW c \in Connects, NEW s \in All, Live(s), Release(s),
         NEW step \in Steps \ {"idle"}, Goto(c, step),
         UNCHANGED <<limited, origin, gate, gates, attempts>>,
         \/ s = Global /\ pc[c] = "dropAll" /\ step = "dropHost"
         \/ s = gate[c] /\ pc[c] = "dropHost" /\ step = "forget"
  PROVE  IInv'
<1> USE DEF IInv
<1>1. /\ ControlInv' /\ pc' \in [Connects -> Steps]
      /\ \A t \in All : Live(t)' <=> Live(t)
  BY ControlMoved DEF HostSteps
<1>2. s = gate[c] => s # Global
  BY ConnectionAssumption DEF TypeWeak, All
<1>3. /\ \A t \in All : Waits(t)' = Waits(t)
      /\ \A t \in All \ {s} : Holders(t)' = Holders(t)
      /\ Holders(s)' = Holders(s) \ {c} /\ c \in Holders(s) /\ Holders(s) \subseteq Connects
  <2>1. \A t \in All : Placed(c, step, t)
    BY Moved
  <2>2. /\ pc[c] \notin WaitSteps /\ step \notin WaitSteps /\ step \notin AllSteps
        /\ pc[c] \in HeldSteps /\ (step \in HeldSteps <=> s = Global)
        /\ pc[c] \in AllSteps <=> s = Global
    BY <1>2 DEF WaitSteps, AllSteps, HeldSteps
  <2>3. ASSUME NEW t \in All
        PROVE  Waits(t)' = Waits(t) /\ (t # s => Holders(t)' = Holders(t))
    BY <1>2, <2>1, <2>2 DEF Placed
  <2>4. Holders(s)' = Holders(s) \ {c} /\ c \in Holders(s) /\ Holders(s) \subseteq Connects
    BY <1>2, <2>1, <2>2 DEF Placed
  <2> QED
    BY <2>3, <2>4
<1>4. Cardinality(Holders(s)') + 1 = Cardinality(Holders(s))
  BY <1>3, CountDown
<1> DEFINE A == assigned[s]
<1>5. /\ A \in SUBSET Connects /\ A \subseteq Waits(s)' /\ Waits(s)' \ A = Waits(s) \ assigned[s]
      /\ assigned = [assigned EXCEPT ![s] = A]
  BY <1>3 DEF TypeWeak, WaitInv
<1>6. Cardinality(A) + Cardinality(Holders(s)') + 1
        = Cardinality(assigned[s]) + Cardinality(Holders(s))
  BY <1>3, <1>4, <1>5, CountNat
<1>7. ReturnedTo(s, A)
  BY <1>5 DEF Release, ReturnedTo
<1> HIDE DEF A
<1>8. /\ WaitInv' /\ Balance' /\ permits' \in [All -> Nat]
      /\ queue' \in [All -> Seq(Connects)] /\ assigned' \in [All -> SUBSET Connects]
  BY <1>1, <1>3, <1>5, <1>6, <1>7, PermitReturns
<1> QED
  BY <1>1, <1>8 DEF TypeWeak

(* A waiter that was given a permit leaves, and the permit goes on. *)
LEMMA PassesOn ==
  ASSUME IInv, NEW c \in Connects, NEW s \in All, s = Asks(c), c \in assigned[s],
         NEW step \in {"forget", "dropHost"}, Goto(c, step),
         (pc[c] = "leaveHost" /\ step = "forget") \/ (pc[c] = "leaveAll" /\ step = "dropHost"),
         UNCHANGED <<limited, origin, gate, gates, attempts>>,
         ReturnedTo(s, assigned[s] \ {c})
  PROVE  IInv'
<1> USE DEF IInv
<1>1. /\ ControlInv' /\ pc' \in [Connects -> Steps]
      /\ \A t \in All : Live(t)' <=> Live(t)
  BY ControlMoved DEF HostSteps, Steps
<1>2. Live(s) /\ (s = Global <=> pc[c] = "leaveAll") /\ (s # Global => s = gate[c])
  BY AskFacts, ConnectionAssumption
     DEF HostSteps, ControlInv, ConnectInv, Live, TypeWeak, HostLimited
<1>3. /\ \A t \in All : t # s => Waits(t)' = Waits(t)
      /\ \A t \in All : Holders(t)' = Holders(t)
      /\ Waits(s)' = Waits(s) \ {c}
  <2>1. \A t \in All : Placed(c, step, t)
    BY Moved DEF Steps
  <2>2. /\ pc[c] \in WaitSteps /\ step \notin WaitSteps
        /\ pc[c] \notin AllSteps /\ step \notin AllSteps
        /\ pc[c] \in HeldSteps <=> step \in HeldSteps
    BY DEF WaitSteps, AllSteps, HeldSteps
  <2>3. ASSUME NEW t \in All
        PROVE  /\ t # s => Waits(t)' = Waits(t)
               /\ Holders(t)' = Holders(t)
    <3>1. Placed(c, step, t)
      BY <2>1
    <3>2. t # s => Waits(t)' = Waits(t)
      BY <2>2, <3>1 DEF Placed
    <3>3. Holders(t)' = Holders(t)
      BY <2>2, <3>1 DEF Placed
    <3> QED
      BY <3>2, <3>3
  <2>4. Waits(s)' = Waits(s) \ {c}
    BY <2>1, <2>2 DEF Placed
  <2> QED
    BY <2>3, <2>4
<1> DEFINE A == assigned[s] \ {c}
<1>4. /\ A \in SUBSET Connects /\ A \subseteq Waits(s)' /\ Waits(s)' \ A = Waits(s) \ assigned[s]
      /\ assigned[s] \in SUBSET Connects
  BY <1>3 DEF TypeWeak, WaitInv
<1>5. Cardinality(A) = Cardinality(assigned[s]) - 1 /\ Cardinality(assigned[s]) \in Nat
  BY <1>4, CountDown
<1>6. Holders(s)' \in SUBSET Connects /\ Cardinality(Holders(s)') \in Nat
  BY <1>3, CountNat DEF Holders
<1> HIDE DEF A
<1>7. Cardinality(A) + Cardinality(Holders(s)') + 1
        = Cardinality(assigned[s]) + Cardinality(Holders(s))
  BY <1>3, <1>5, <1>6
<1>8. ReturnedTo(s, A)
  BY DEF A
<1>9. /\ WaitInv' /\ Balance' /\ permits' \in [All -> Nat]
      /\ queue' \in [All -> Seq(Connects)] /\ assigned' \in [All -> SUBSET Connects]
  BY <1>1, <1>2, <1>3, <1>4, <1>6, <1>7, <1>8, PermitReturns
<1> QED
  BY <1>1, <1>9 DEF TypeWeak

(* A connect joins or leaves the wait list of the semaphore it asks. *)
LEMMA ChangesList ==
  ASSUME IInv, NEW c \in Connects, NEW s \in All, s = Asks(c),
         NEW step \in Steps \ {"idle"}, Goto(c, step),
         UNCHANGED <<limited, origin, gate, gates, permits, assigned, attempts>>,
         NEW list \in Seq(Connects), queue' = [queue EXCEPT ![s] = list],
         \/ /\ (pc[c] = "pollHost" /\ step = "awaitHost") \/ (pc[c] = "pollAll" /\ step = "awaitAll")
            /\ list = Append(queue[s], c)
         \/ /\ (pc[c] = "leaveHost" /\ step = "forget") \/ (pc[c] = "leaveAll" /\ step = "dropHost")
            /\ c \notin assigned[s]
            /\ \E i \in 1 .. Len(queue[s]) : queue[s][i] = c /\ list = RemoveAt(queue[s], i)
  PROVE  IInv'
<1> USE DEF IInv
<1>1. /\ ControlInv' /\ pc' \in [Connects -> Steps]
      /\ \A t \in All : Live(t)' <=> Live(t)
  BY ControlMoved, AskFacts DEF HostSteps, ControlInv, ConnectInv
<1>2. Live(s) /\ (s = Global <=> pc[c] \in {"pollAll", "leaveAll"}) /\ (s # Global => s = gate[c])
  BY AskFacts, ConnectionAssumption
     DEF HostSteps, ControlInv, ConnectInv, Live, TypeWeak, HostLimited
<1>3. \A t \in All : Placed(c, step, t)
  BY Moved
<1>4. /\ pc[c] \notin AllSteps /\ step \notin AllSteps
      /\ pc[c] \in HeldSteps <=> step \in HeldSteps
      /\ pc[c] \in {"pollHost", "pollAll"} =>
           pc[c] \notin WaitSteps /\ step \in WaitSteps /\ (step \in HostSteps <=> pc[c] \in HostSteps)
      /\ pc[c] \notin {"pollHost", "pollAll"} => pc[c] \in WaitSteps /\ step \notin WaitSteps
  BY DEF WaitSteps, AllSteps, HeldSteps, HostSteps
<1>5. Asks(c) = AsksAt(c, pc[c])
  BY AskFacts
<1>6. ASSUME NEW t \in All
      PROVE  /\ t # s => Waits(t)' = Waits(t)
             /\ Holders(t)' = Holders(t)
  <2>1. Placed(c, step, t)
    BY <1>3
  <2>2. step \in WaitSteps => AsksAt(c, step) = s
    BY <1>4, <1>5 DEF AsksAt
  <2>3. t # s => Waits(t)' = Waits(t)
    BY <2>1, <2>2 DEF Placed
  <2>4. Holders(t)' = Holders(t)
    BY <1>4, <2>1 DEF Placed
  <2> QED
    BY <2>3, <2>4
<1>7. /\ queue' \in [All -> Seq(Connects)] /\ queue'[s] = list
      /\ \A t \in All : t # s => queue'[t] = queue[t]
      /\ queue[s] \in Seq(Connects)
      /\ assigned[s] \subseteq Waits(s) /\ Orderly(queue[s], Waits(s) \ assigned[s])
  BY DEF TypeWeak, WaitInv
<1>8. assigned[s] \subseteq Waits(s)' /\ Orderly(list, Waits(s)' \ assigned[s])
  <2>1. CASE pc[c] \in {"pollHost", "pollAll"}
    <3>1. c \notin Waits(s) /\ Waits(s)' = Waits(s) \cup {c}
      BY <1>3, <1>4, <1>5, <2>1 DEF Placed, AsksAt
    <3>2. Orderly(Append(queue[s], c), (Waits(s) \ assigned[s]) \cup {c})
      BY <1>7, <3>1, JoinList
    <3>3. (Waits(s) \ assigned[s]) \cup {c} = Waits(s)' \ assigned[s]
      BY <1>7, <3>1
    <3> QED
      BY <1>7, <2>1, <3>1, <3>2, <3>3
  <2>2. CASE pc[c] \notin {"pollHost", "pollAll"}
    <3>1. Waits(s)' = Waits(s) \ {c} /\ c \notin assigned[s]
      BY <1>3, <1>4, <2>2 DEF Placed
    <3>2. PICK i \in 1 .. Len(queue[s]) : queue[s][i] = c /\ list = RemoveAt(queue[s], i)
      BY <2>2
    <3>3. Orderly(list, (Waits(s) \ assigned[s]) \ {c})
      BY <1>7, <3>2, LeaveList
    <3>4. (Waits(s) \ assigned[s]) \ {c} = Waits(s)' \ assigned[s]
      BY <3>1
    <3> QED
      BY <1>7, <3>1, <3>3, <3>4
  <2> QED
    BY <2>1, <2>2
<1>9. permits[s] + Cardinality(assigned[s]) + Cardinality(Holders(s)') = Limit(s)
  BY <1>2, <1>6 DEF Balance, Balanced
<1>10. WaitInv' /\ Balance'
  BY <1>1, <1>2, <1>6, <1>7, <1>8, <1>9, OthersStay
<1> QED
  BY <1>1, <1>7, <1>10 DEF TypeWeak

(* A connect that neither waits nor holds, before and after: what it does    *)
(* to its own semaphore and step changes nothing for the others.             *)
LEMMA Aside ==
  ASSUME TypeWeak, NEW c \in Connects,
         \A d \in Connects \ {c} : pc'[d] = pc[d] /\ gate'[d] = gate[d],
         pc[c] \in {"idle", "forget"},
         pc'[c] \in {"idle", "tryHost"} \/ (pc'[c] = "tryAll" /\ gate'[c] = NoSemaphore)
  PROVE  \A s \in All : Waits(s)' = Waits(s) /\ Holders(s)' = Holders(s)
<1> TAKE s \in All
<1>1. Waits(s)' = Waits(s)
  BY DEF Waits, Asks
<1>2. Holders(s)' = Holders(s)
  BY ConnectionAssumption DEF Holders, HoldsAll, HoldsHost, All
<1> QED
  BY <1>1, <1>2

(* The last Arc of a connect is dropped. *)
LEMMA ForgetKeeps == ASSUME IInv, NEW c \in Connects, Forget(c) PROVE IInv'
<1> USE DEF IInv
<1>1. /\ pc[c] = "forget" /\ pc' = [pc EXCEPT ![c] = "idle"]
      /\ gate' = [gate EXCEPT ![c] = NoSemaphore] /\ origin' = [origin EXCEPT ![c] = NoOrigin]
      /\ UNCHANGED <<limited, gates, permits, queue, assigned, attempts>>
  BY DEF Forget, Goto, semaphoreVars
<1>2. TypeWeak'
  BY <1>1 DEF TypeWeak, Steps
<1>3. ControlInv'
  BY <1>1 DEF ControlInv, ConnectInv, TypeWeak, HostLimited
<1>4. \A s \in All : Waits(s)' = Waits(s) /\ Holders(s)' = Holders(s) /\ (Live(s)' <=> Live(s))
  <2>1. \A s \in All : Live(s)' <=> Live(s)
    BY <1>1 DEF Live
  <2>2. /\ \A d \in Connects \ {c} : pc'[d] = pc[d] /\ gate'[d] = gate[d]
        /\ pc'[c] = "idle"
    BY <1>1 DEF TypeWeak
  <2> QED
    BY <1>1, <2>1, <2>2, Aside
<1>5. WaitInv'
  BY <1>1, <1>4 DEF WaitInv
<1>6. Balance'
  BY <1>1, <1>4 DEF Balance, Balanced, Limit
<1> QED
  BY <1>2, <1>3, <1>5, <1>6

(* A semaphore nobody keeps alive has neither waiters nor holders.           *)
LEMMA NobodyLeft ==
  ASSUME IInv, NEW s \in Semaphores, ~InUse(s)
  PROVE  Waits(s) = {} /\ Holders(s) = {} /\ assigned[s] = {} /\ permits[s] = Limit(s)
<1> USE DEF IInv
<1>1. Waits(s) = {} /\ Holders(s) = {}
  BY ConnectionAssumption DEF Waits, Holders, InUse, Asks
<1>2. assigned[s] = {} /\ s \in All
  BY <1>1 DEF WaitInv, All
<1>3. permits[s] \in Nat
  BY <1>2 DEF TypeWeak
<1>4. permits[s] = Limit(s)
  <2>1. Cardinality({}) = 0 /\ Limit(s) \in Nat
    BY FS_EmptySet, ConnectionAssumption DEF Limit
  <2>2. Balanced(s)
    BY <1>2 DEF Balance
  <2>3. CASE Live(s)
    <3>1. permits[s] + Cardinality({}) + Cardinality({}) = Limit(s)
      BY <1>1, <1>2, <2>2, <2>3 DEF Balanced
    <3> QED
      BY <1>3, <2>1, <3>1
  <2>4. CASE ~Live(s)
    BY <2>2, <2>4 DEF Balanced
  <2> QED
    BY <2>3, <2>4
<1> QED
  BY <1>1, <1>2, <1>4

(* The map gets a new semaphore for an origin, and may lose those that       *)
(* nobody uses.                                                              *)
LEMMA NewSemaphoreFacts ==
  ASSUME IInv, HostLimited, NEW c \in Connects, NEW o \in Origins, NEW s \in Semaphores,
         gates[o] = NoSemaphore, NewSemaphore(c, o, s)
  PROVE  /\ ~InUse(s) /\ gates' \in [Origins -> Semaphores \cup {NoSemaphore}]
         /\ gates'[o] = s /\ gate' = [gate EXCEPT ![c] = s]
         /\ permits' = permits
         /\ \A p \in Origins \ {o} : gates'[p] # s
         /\ \A p \in Origins \ {o} : \/ gates'[p] = gates[p]
                                     \/ gates'[p] = NoSemaphore /\ ~InUse(gates[p])
<1> USE DEF IInv
<1> DEFINE left == IF Cardinality(Listed) >= CleanupThreshold THEN Swept ELSE gates
<1>1. /\ ~InUse(s) /\ \A p \in Origins : left[p] # s
      /\ gates' = [left EXCEPT ![o] = s] /\ gate' = [gate EXCEPT ![c] = s]
      /\ permits' = [permits EXCEPT ![s] = MaxPerHost]
  BY DEF NewSemaphore
<1>2. /\ left \in [Origins -> Semaphores \cup {NoSemaphore}]
      /\ \A p \in Origins : \/ left[p] = gates[p]
                            \/ left[p] = NoSemaphore /\ (gates[p] = NoSemaphore \/ ~InUse(gates[p]))
  BY DEF Swept, Kept, TypeWeak
<1> HIDE DEF left
<1>3. /\ gates' \in [Origins -> Semaphores \cup {NoSemaphore}] /\ gates'[o] = s
      /\ \A p \in Origins \ {o} : gates'[p] = left[p]
  BY <1>1, <1>2
<1>4. permits' = permits
  <2>1. permits[s] = MaxPerHost
    BY <1>1, NobodyLeft, ConnectionAssumption DEF Limit
  <2>2. permits \in [All -> Nat] /\ s \in All
    BY DEF TypeWeak, All
  <2> QED
    BY <1>1, <2>1, <2>2
<1> QED
  BY <1>1, <1>2, <1>3, <1>4

(* A connect begins: without a limit per origin, with the semaphore its      *)
(* origin is mapped to, or with a new one.                                   *)
LEMMA StartKeeps ==
  ASSUME IInv, NEW c \in Connects, NEW o \in Origins, Start(c, o) PROVE IInv'
<1> USE DEF IInv
<1>1. /\ pc[c] = "idle" /\ origin' = [origin EXCEPT ![c] = o] /\ attempts' \in 0 .. MaxAttempts
      /\ UNCHANGED <<limited, queue, assigned>>
  BY ConnectionAssumption DEF Start, TypeWeak
<1>2. /\ gate[c] = NoSemaphore
      /\ \A d \in Connects \ {c} : origin'[d] = origin[d]
      /\ origin'[c] = o /\ o # NoOrigin
      /\ origin' \in [Connects -> Origins \cup {NoOrigin}]
  BY <1>1, ConnectionAssumption DEF ControlInv, ConnectInv, TypeWeak
<1>3. CASE /\ ~HostLimited /\ pc' = [pc EXCEPT ![c] = "tryAll"]
           /\ UNCHANGED <<gate, gates, permits>>
  <2>1. /\ \A d \in Connects \ {c} : pc'[d] = pc[d] /\ gate'[d] = gate[d]
        /\ pc'[c] = "tryAll" /\ gate'[c] = NoSemaphore /\ pc' \in [Connects -> Steps]
    BY <1>2, <1>3 DEF TypeWeak, Steps
  <2>2. \A s \in All : Waits(s)' = Waits(s) /\ Holders(s)' = Holders(s)
    BY <1>1, <2>1, Aside
  <2>3. ControlInv'
    BY <1>1, <1>2, <1>3, <2>1 DEF ControlInv, ConnectInv, HostLimited
  <2>4. WaitInv' /\ Balance'
    BY <1>1, <1>3, <2>2 DEF WaitInv, Balance, Balanced, Limit, Live
  <2> QED
    BY <1>1, <1>2, <1>3, <2>1, <2>3, <2>4 DEF TypeWeak
<1>4. CASE /\ HostLimited /\ pc' = [pc EXCEPT ![c] = "tryHost"] /\ gates[o] # NoSemaphore
           /\ gate' = [gate EXCEPT ![c] = gates[o]] /\ UNCHANGED <<gates, permits>>
  <2>1. /\ \A d \in Connects \ {c} : pc'[d] = pc[d] /\ gate'[d] = gate[d]
        /\ pc'[c] = "tryHost" /\ gate'[c] = gates[o] /\ gates[o] \in Semaphores
        /\ pc' \in [Connects -> Steps] /\ gate' \in [Connects -> Semaphores \cup {NoSemaphore}]
    BY <1>4 DEF TypeWeak, Steps
  <2>2. \A s \in All : Waits(s)' = Waits(s) /\ Holders(s)' = Holders(s)
    BY <1>1, <2>1, Aside
  <2>3. ControlInv'
    BY <1>1, <1>2, <1>4, <2>1 DEF ControlInv, ConnectInv, HostLimited
  <2>4. WaitInv' /\ Balance'
    BY <1>1, <1>4, <2>2 DEF WaitInv, Balance, Balanced, Limit, Live
  <2> QED
    BY <1>1, <1>2, <1>4, <2>1, <2>3, <2>4 DEF TypeWeak
<1>5. ASSUME HostLimited, pc' = [pc EXCEPT ![c] = "tryHost"], gates[o] = NoSemaphore,
             NEW s \in Semaphores, NewSemaphore(c, o, s)
      PROVE  IInv'
  <2>1. /\ ~InUse(s) /\ gates' \in [Origins -> Semaphores \cup {NoSemaphore}]
        /\ gates'[o] = s /\ gate' = [gate EXCEPT ![c] = s]
        /\ permits' = permits
        /\ \A p \in Origins \ {o} : gates'[p] # s
        /\ \A p \in Origins \ {o} : \/ gates'[p] = gates[p]
                                    \/ gates'[p] = NoSemaphore /\ ~InUse(gates[p])
    BY <1>5, NewSemaphoreFacts
  <2>2. /\ \A d \in Connects \ {c} : pc'[d] = pc[d] /\ gate'[d] = gate[d]
        /\ pc'[c] = "tryHost" /\ gate'[c] = s
        /\ pc' \in [Connects -> Steps] /\ gate' \in [Connects -> Semaphores \cup {NoSemaphore}]
    BY <1>5, <2>1 DEF TypeWeak, Steps
  <2>3. \A t \in All : Waits(t)' = Waits(t) /\ Holders(t)' = Holders(t)
    BY <1>1, <2>2, Aside
  <2>4. ASSUME NEW d \in Connects \ {c}, pc[d] # "idle"
        PROVE  origin[d] \in Origins \ {o} /\ gates'[origin[d]] = gate[d]
    <3>1. origin[d] \in Origins /\ gate[d] \in Semaphores /\ gates[origin[d]] = gate[d]
      BY <1>5, <2>4 DEF ControlInv, ConnectInv, TypeWeak
    <3>2. InUse(gates[origin[d]]) /\ origin[d] # o
      BY <1>5, <3>1, ConnectionAssumption DEF InUse
    <3> QED
      BY <2>1, <3>1, <3>2
  <2>5. ControlInv'
    <3>1. ConnectInv(c)'
      BY <1>1, <1>2, <1>5, <2>1, <2>2 DEF ConnectInv, HostLimited
    <3>2. ASSUME NEW d \in Connects \ {c} PROVE ConnectInv(d)'
      BY <1>1, <1>2, <1>5, <2>2, <2>4 DEF ControlInv, ConnectInv, HostLimited
    <3>3. \A p, r \in Origins : gates'[p] = gates'[r] /\ gates'[p] # NoSemaphore => p = r
      BY <2>1 DEF ControlInv
    <3> QED
      BY <3>1, <3>2, <3>3 DEF ControlInv
  <2>6. WaitInv'
    BY <1>1, <2>3 DEF WaitInv
  <2>7. ASSUME NEW t \in All PROVE Balanced(t)'
    <3>1. CASE t = Global
      BY <1>1, <2>1, <2>3, <3>1 DEF Balance, Balanced, Live, Limit
    <3>2. CASE t # Global /\ (Live(t)' <=> Live(t))
      BY <1>1, <2>1, <2>3, <3>2 DEF Balance, Balanced, Limit
    <3>3. CASE t # Global /\ ~(Live(t)' <=> Live(t))
      <4>1. t \in Semaphores /\ ~InUse(t)
        <5>1. t \in Semaphores
          BY <3>3 DEF All
        <5>2. CASE Live(t)' /\ ~Live(t)
          <6>1. PICK p \in Origins : gates'[p] = t /\ gates[p] # t
            BY <3>3, <5>2 DEF Live
          <6>2. p = o
            BY <2>1, <5>1, <6>1, ConnectionAssumption
          <6> QED
            BY <2>1, <5>1, <6>1, <6>2
        <5>3. CASE Live(t) /\ ~Live(t)'
          <6>1. PICK p \in Origins : gates[p] = t /\ gates'[p] # t
            BY <3>3, <5>3 DEF Live
          <6>2. p # o
            BY <1>5, <5>1, <6>1, ConnectionAssumption
          <6> QED
            BY <2>1, <5>1, <6>1, <6>2
        <5> QED
          BY <3>3, <5>2, <5>3
      <4>2. /\ Holders(t) = {} /\ assigned[t] = {} /\ permits[t] = Limit(t) /\ Limit(t) \in Nat
        BY <4>1, NobodyLeft, ConnectionAssumption DEF Limit
      <4>3. /\ permits'[t] = Limit(t) /\ Limit(t) = Limit(t)'
            /\ Cardinality(assigned'[t]) = 0 /\ Cardinality(Holders(t)') = 0
        BY <1>1, <2>1, <2>3, <4>2, FS_EmptySet DEF Limit
      <4> QED
        BY <4>2, <4>3 DEF Balanced
    <3> QED
      BY <3>1, <3>2, <3>3
  <2> QED
    BY <1>1, <1>2, <2>1, <2>2, <2>5, <2>6, <2>7 DEF TypeWeak, Balance
<1> QED
  BY <1>3, <1>4, <1>5 DEF Start, Semaphore, Goto, HostLimited

--------------------------------------------------------------------------------
(* The invariant. *)

(* Nobody is connecting, and every semaphore has all of its permits. *)
LEMMA InitIInv == Init => IInv
<1> SUFFICES ASSUME Init PROVE IInv
  OBVIOUS
<1>1. TypeWeak
  BY ConnectionAssumption DEF Init, TypeWeak, Steps, Limit
<1>2. ControlInv
  BY DEF Init, ControlInv, ConnectInv, HostLimited
<1>3. ASSUME NEW s \in All
      PROVE  /\ queue[s] = <<>> /\ assigned[s] = {} /\ permits[s] = Limit(s)
             /\ Limit(s) \in Nat /\ Holders(s) = {}
  BY ConnectionAssumption DEF Init, Limit, Holders, HoldsAll, HoldsHost
<1>4. WaitInv
  BY <1>3 DEF WaitInv, Orderly
<1>5. ASSUME NEW s \in All PROVE Balanced(s)
  <2>1. Cardinality(assigned[s]) = 0 /\ Cardinality(Holders(s)) = 0
    BY <1>3, FS_EmptySet
  <2>2. permits[s] = Limit(s) /\ Limit(s) \in Nat
    BY <1>3
  <2> QED
    BY <2>1, <2>2 DEF Balanced
<1> QED
  BY <1>1, <1>2, <1>4, <1>5 DEF IInv, Balance

(* The semaphore a connect asks limits somebody. *)
LEMMA HostLive ==
  ASSUME IInv, NEW c \in Connects, HostLimited, pc[c] # "idle"
  PROVE  gate[c] \in Semaphores /\ gate[c] \in All /\ gate[c] # Global /\ Live(gate[c])
  BY ConnectionAssumption DEF IInv, ControlInv, ConnectInv, TypeWeak, Live, All

(* Try: a permit is free, or the connect goes on to wait. *)
LEMMA TryKeeps == ASSUME IInv, NEW c \in Connects, Try(c) PROVE IInv'
<1> USE DEF IInv
<1>1. PICK s \in All : s = Asks(c)
  BY AskFacts
<1>2. /\ pc[c] \in {"tryHost", "tryAll"} /\ (pc[c] = "tryAll" => "all" \in limited)
      /\ UNCHANGED <<limited, origin, gate, gates, queue, assigned, attempts>>
  BY DEF Try
<1>3. CASE permits[s] > 0
  <2>1. permits' = [permits EXCEPT ![s] = @ - 1] /\ Goto(c, After(c))
    BY <1>1, <1>3 DEF Try
  <2>2. PICK step \in Steps : step = After(c)
    BY DEF After, Steps
  <2>3. pc[c] \notin WaitSteps
    BY <1>2 DEF WaitSteps
  <2> QED
    BY <1>1, <1>2, <1>3, <2>1, <2>2, <2>3, TakesPermit
<1>4. CASE ~(permits[s] > 0)
  <2>1. Goto(c, AtHost(c, "pollHost", "pollAll")) /\ UNCHANGED permits
    BY <1>1, <1>4 DEF Try
  <2>2. Goto(c, IF pc[c] = "tryHost" THEN "pollHost" ELSE "pollAll")
    BY <1>2, <2>1, AskFacts DEF AtHost, HostSteps
  <2>3. pc[c] = "tryHost" => HostLimited
    BY DEF ControlInv, ConnectInv
  <2> QED
    BY <1>2, <2>1, <2>2, <2>3, MovesOn DEF Steps, HostSteps, WaitSteps, HeldSteps, AllSteps
<1> QED
  BY <1>3, <1>4

(* Poll: the same, once more, and the connect joins the wait list. *)
LEMMA PollKeeps == ASSUME IInv, NEW c \in Connects, Poll(c) PROVE IInv'
<1> USE DEF IInv
<1>1. PICK s \in All : s = Asks(c)
  BY AskFacts
<1>2. /\ pc[c] \in {"pollHost", "pollAll"}
      /\ UNCHANGED <<limited, origin, gate, gates, assigned, attempts>>
  BY DEF Poll
<1>3. CASE permits[s] > 0
  <2>1. permits' = [permits EXCEPT ![s] = @ - 1] /\ Goto(c, After(c)) /\ UNCHANGED queue
    BY <1>1, <1>3 DEF Poll
  <2>2. PICK step \in Steps : step = After(c)
    BY DEF After, Steps
  <2>3. pc[c] \notin WaitSteps /\ pc[c] # "tryAll"
    BY <1>2 DEF WaitSteps
  <2> QED
    BY <1>1, <1>2, <1>3, <2>1, <2>2, <2>3, TakesPermit
<1>4. CASE ~(permits[s] > 0)
  <2>1. /\ queue' = [queue EXCEPT ![s] = Append(queue[s], c)] /\ UNCHANGED permits
        /\ Goto(c, AtHost(c, "awaitHost", "awaitAll"))
    BY <1>1, <1>4 DEF Poll
  <2>2. PICK step \in Steps \ {"idle"} :
               step = IF pc[c] = "pollHost" THEN "awaitHost" ELSE "awaitAll"
    BY DEF Steps
  <2>3. Goto(c, step)
    BY <1>2, <2>1, <2>2, AskFacts DEF AtHost, HostSteps
  <2>4. PICK list \in Seq(Connects) : list = Append(queue[s], c)
    <3>1. queue[s] \in Seq(Connects)
      BY DEF TypeWeak
    <3> QED
      BY <3>1, AppendProperties
  <2>5. /\ queue' = [queue EXCEPT ![s] = list]
        /\ (pc[c] = "pollHost" /\ step = "awaitHost") \/ (pc[c] = "pollAll" /\ step = "awaitAll")
    BY <1>2, <2>1, <2>2, <2>4
  <2> QED
    BY <1>1, <1>2, <2>1, <2>3, <2>4, <2>5, ChangesList
<1> QED
  BY <1>3, <1>4

(* Resume: a waiter takes what it was given. *)
LEMMA ResumeKeeps == ASSUME IInv, NEW c \in Connects, Resume(c) PROVE IInv'
<1> USE DEF IInv
<1>1. PICK s \in All : s = Asks(c)
  BY AskFacts
<1>2. /\ pc[c] \in {"awaitHost", "awaitAll"} /\ c \in assigned[s]
      /\ assigned' = [assigned EXCEPT ![s] = @ \ {c}] /\ Goto(c, After(c))
      /\ UNCHANGED <<limited, origin, gate, gates, permits, queue, attempts>>
  BY <1>1 DEF Resume
<1>3. PICK step \in Steps : step = After(c)
  BY DEF After, Steps
<1> QED
  BY <1>1, <1>2, <1>3, TakesPermit

(* Leave: a waiter passes its permit on, or is taken out of the list. *)
LEMMA LeaveKeeps == ASSUME IInv, NEW c \in Connects, Leave(c) PROVE IInv'
<1> USE DEF IInv
<1>1. PICK s \in All : s = Asks(c)
  BY AskFacts
<1>2. PICK step \in {"forget", "dropHost"} :
             step = IF pc[c] = "leaveHost" THEN "forget" ELSE "dropHost"
  OBVIOUS
<1>3. /\ (pc[c] = "leaveHost" /\ step = "forget") \/ (pc[c] = "leaveAll" /\ step = "dropHost")
      /\ Goto(c, step) /\ UNCHANGED <<limited, origin, gate, gates, attempts>>
  <2>1. /\ pc[c] \in {"leaveHost", "leaveAll"} /\ Goto(c, AtHost(c, "forget", "dropHost"))
        /\ UNCHANGED <<limited, origin, gate, gates, attempts>>
    BY DEF Leave
  <2>2. AtHost(c, "forget", "dropHost") = step
    BY <1>2, <2>1, AskFacts DEF AtHost, HostSteps
  <2> QED
    BY <1>2, <2>1, <2>2
<1>4. CASE c \in assigned[s]
  <2>1. ReturnedTo(s, assigned[s] \ {c})
    BY <1>1, <1>4 DEF Leave, ReturnedTo
  <2> QED
    BY <1>1, <1>3, <1>4, <2>1, PassesOn
<1>5. CASE c \notin assigned[s]
  <2>1. PICK i \in 1 .. Len(queue[s]) : /\ queue[s][i] = c
                                         /\ queue' = [queue EXCEPT ![s] = RemoveAt(queue[s], i)]
    BY <1>1, <1>5 DEF Leave
  <2>2. UNCHANGED <<permits, assigned>>
    BY <1>1, <1>5 DEF Leave
  <2>3. PICK list \in Seq(Connects) : list = RemoveAt(queue[s], i)
    BY LeaveList DEF WaitInv, TypeWeak
  <2>4. step \in Steps \ {"idle"}
    BY DEF Steps
  <2> QED
    BY <1>1, <1>3, <1>5, <2>1, <2>2, <2>3, <2>4, ChangesList
<1> QED
  BY <1>4, <1>5

(* DropAll and DropHost: a permit of each limit that is set comes back. *)
LEMMA DropKeeps ==
  ASSUME IInv, NEW c \in Connects, DropAll(c) \/ DropHost(c) PROVE IInv'
<1> USE DEF IInv
<1>1. ASSUME DropAll(c) PROVE IInv'
  <2>1. /\ pc[c] = "dropAll" /\ Goto(c, "dropHost")
        /\ UNCHANGED <<limited, origin, gate, gates, attempts>>
    BY <1>1 DEF DropAll
  <2>2. CASE "all" \in limited
    <3>1. Release(Global) /\ Global \in All /\ Live(Global)
      BY <1>1, <2>2 DEF DropAll, All, Live
    <3> QED
      BY <2>1, <3>1, GivesBack DEF Steps
  <2>3. CASE "all" \notin limited
    <3>1. UNCHANGED <<permits, queue, assigned>>
      BY <1>1, <2>3 DEF DropAll, semaphoreVars
    <3> QED
      BY <2>1, <2>3, <3>1, MovesOn DEF Steps, HostSteps, WaitSteps, HeldSteps, AllSteps
  <2> QED
    BY <2>2, <2>3
<1>2. ASSUME DropHost(c) PROVE IInv'
  <2>1. /\ pc[c] = "dropHost" /\ Goto(c, "forget")
        /\ UNCHANGED <<limited, origin, gate, gates, attempts>>
    BY <1>2 DEF DropHost
  <2>2. CASE HostLimited
    <3>1. Release(gate[c])
      BY <1>2, <2>2 DEF DropHost, HostLimited
    <3>2. PICK s \in All : s = gate[c] /\ Live(s) /\ Release(s)
      BY <2>1, <2>2, <3>1, HostLive
    <3> QED
      BY <2>1, <3>2, GivesBack DEF Steps
  <2>3. CASE ~HostLimited
    <3>1. UNCHANGED <<permits, queue, assigned>>
      BY <1>2, <2>3 DEF DropHost, semaphoreVars, HostLimited
    <3> QED
      BY <2>1, <2>3, <3>1, MovesOn DEF Steps, HostSteps, WaitSteps, HeldSteps, AllSteps
  <2> QED
    BY <2>2, <2>3
<1> QED
  BY <1>1, <1>2

(* Every step that leaves the semaphores alone: SkipAll, Connected, Timeout, *)
(* Cancel and Close.                                                         *)
LEMMA QuietKeeps ==
  ASSUME IInv, NEW c \in Connects,
         SkipAll(c) \/ Connected(c) \/ Timeout(c) \/ Cancel(c) \/ Close(c)
  PROVE  IInv'
<1> USE DEF IInv
<1>1. UNCHANGED <<limited, origin, gate, gates, permits, queue, assigned, attempts>>
  BY DEF SkipAll, Connected, Timeout, Cancel, Close, semaphoreVars
<1>2. \/ pc[c] = "tryAll" /\ "all" \notin limited /\ Goto(c, "connecting")
      \/ pc[c] \in {"connecting", "open"} /\ (Goto(c, "open") \/ Goto(c, "dropAll"))
      \/ pc[c] = "awaitHost" /\ Goto(c, "leaveHost")
      \/ pc[c] = "awaitAll" /\ Goto(c, "leaveAll")
  BY AskFacts DEF SkipAll, Connected, Timeout, Cancel, Close, AtHost, HostSteps
<1>3. /\ pc[c] = "awaitHost" => HostLimited
      /\ pc[c] = "awaitAll" => "all" \in limited
  BY DEF ControlInv, ConnectInv
<1> QED
  BY <1>1, <1>2, <1>3, MovesOn DEF Steps, HostSteps, WaitSteps, HeldSteps, AllSteps

(* Every step keeps the invariant. *)
LEMMA NextIInv == IInv /\ [Next]_vars => IInv'
<1> SUFFICES ASSUME IInv, [Next]_vars PROVE IInv'
  OBVIOUS
<1>1. CASE Next
  <2>1. PICK c \in Connects : \/ \E o \in Origins : Start(c, o)
                              \/ Step(c) \/ Timeout(c) \/ Cancel(c) \/ Close(c)
    BY <1>1 DEF Next
  <2> QED
    BY <2>1, StartKeeps, TryKeeps, PollKeeps, ResumeKeeps, LeaveKeeps, DropKeeps, QuietKeeps,
       ForgetKeeps DEF Step
<1>2. CASE UNCHANGED vars
  <2>1. UNCHANGED <<limited, pc, origin, gate, gates, permits, queue, assigned, attempts>>
    BY <1>2 DEF vars, connectVars, semaphoreVars
  <2>2. TypeWeak' /\ ControlInv'
    BY <2>1 DEF IInv, TypeWeak, ControlInv, ConnectInv, HostLimited
  <2>3. \A s \in All : Waits(s)' = Waits(s) /\ Holders(s)' = Holders(s) /\ (Live(s)' <=> Live(s))
    BY <2>1 DEF Waits, Asks, Holders, HoldsAll, HoldsHost, Live
  <2>4. WaitInv' /\ Balance'
    BY <2>1, <2>3 DEF IInv, WaitInv, Balance, Balanced, Limit
  <2> QED
    BY <2>2, <2>4 DEF IInv
<1> QED
  BY <1>1, <1>2

(* The invariant holds always. *)
LEMMA Invariance == Spec => []IInv
  BY InitIInv, NextIInv, PTL DEF Spec

--------------------------------------------------------------------------------
(* What follows from it. *)

(* The permits of every semaphore, taken apart. *)
LEMMA Shares ==
  ASSUME IInv, NEW s \in All
  PROVE  /\ permits[s] \in Nat /\ Cardinality(assigned[s]) \in Nat
         /\ Cardinality(Holders(s)) \in Nat /\ Limit(s) \in Nat
         /\ permits[s] <= Limit(s)
         /\ Live(s) => /\ permits[s] + Cardinality(assigned[s]) + Cardinality(Holders(s)) = Limit(s)
                       /\ Cardinality(Holders(s)) <= Limit(s)
<1>1. /\ permits[s] \in Nat /\ assigned[s] \in SUBSET Connects /\ Holders(s) \in SUBSET Connects
      /\ Limit(s) \in Nat /\ Balanced(s)
  BY ConnectionAssumption DEF IInv, TypeWeak, Holders, Limit, Balance
<1>2. Cardinality(assigned[s]) \in Nat /\ Cardinality(Holders(s)) \in Nat
  BY <1>1, CountNat
<1>3. CASE Live(s)
  <2>1. permits[s] + Cardinality(assigned[s]) + Cardinality(Holders(s)) = Limit(s)
    BY <1>1, <1>3 DEF Balanced
  <2> QED
    BY <1>1, <1>2, <2>1
<1>4. CASE ~Live(s)
  <2>1. permits[s] = Limit(s)
    BY <1>1, <1>4 DEF Balanced
  <2> QED
    BY <1>1, <1>2, <1>4, <2>1
<1> QED
  BY <1>3, <1>4

(* Types, and no semaphore ever offers more permits than its limit: the      *)
(* permits that ConnectionPermit and Acquire::drop return are not too many.  *)
THEOREM TypeCorrect == Spec => []TypeOK
<1>1. IInv => TypeOK
  <2> SUFFICES ASSUME IInv PROVE TypeOK
    OBVIOUS
  <2>1. \A s \in All : permits[s] \in 0 .. Limit(s)
    BY Shares
  <2> QED
    BY <2>1 DEF IInv, TypeWeak, TypeOK
<1> QED
  BY <1>1, Invariance, PTL

(* ConnectionPermitsConserved holds always: timeouts, cancelled waits and    *)
(* sweeps of the map of origin semaphores neither lose nor make a permit.    *)
THEOREM Conservation == Spec => []ConnectionPermitsConserved
<1>1. IInv => ConnectionPermitsConserved
  <2> SUFFICES ASSUME IInv PROVE ConnectionPermitsConserved
    OBVIOUS
  <2>1. ASSUME "all" \in limited
        PROVE  permits[Global] + Cardinality(assigned[Global])
                 + Cardinality({c \in Connects : HoldsAll(c)}) = MaxConnections
    <3>1. Live(Global) /\ Global \in All /\ Limit(Global) = MaxConnections
      BY <2>1 DEF Live, All, Limit
    <3>2. Holders(Global) = {c \in Connects : HoldsAll(c)}
      BY DEF Holders
    <3> QED
      BY <3>1, <3>2, Shares
  <2>2. ASSUME HostLimited, NEW s \in Semaphores, InUse(s) \/ \E o \in Origins : gates[o] = s
        PROVE  permits[s] + Cardinality(assigned[s])
                 + Cardinality({c \in Connects : HoldsHost(c) /\ gate[c] = s}) = MaxPerHost
    <3>1. s # Global /\ s \in All /\ Limit(s) = MaxPerHost
      BY ConnectionAssumption DEF All, Limit
    <3>2. Live(s)
      <4>1. CASE \E o \in Origins : gates[o] = s
        BY <3>1, <4>1 DEF Live
      <4>2. CASE InUse(s)
        <5>1. PICK c \in Connects : gate[c] = s
          BY <4>2 DEF InUse
        <5>2. pc[c] # "idle"
          BY <5>1, ConnectionAssumption DEF IInv, ControlInv, ConnectInv
        <5> QED
          BY <2>2, <5>1, <5>2, HostLive
      <4> QED
        BY <2>2, <4>1, <4>2
    <3>3. Holders(s) = {c \in Connects : HoldsHost(c) /\ gate[c] = s}
      BY <3>1 DEF Holders
    <3> QED
      BY <3>1, <3>2, <3>3, Shares
  <2> QED
    BY <2>1, <2>2 DEF ConnectionPermitsConserved, HostLimited
<1> QED
  BY <1>1, Invariance, PTL

(* ConnectionLimits holds always: no more connections are open or being      *)
(* opened than max_connections and max_connections_per_host allow.           *)
THEOREM Limits == Spec => []ConnectionLimits
<1>1. IInv => ConnectionLimits
  <2> SUFFICES ASSUME IInv PROVE ConnectionLimits
    OBVIOUS
  <2>1. ASSUME "all" \in limited
        PROVE  Cardinality({c \in Connects : HoldsAll(c)}) <= MaxConnections
    <3>1. Live(Global) /\ Global \in All /\ Limit(Global) = MaxConnections
      BY <2>1 DEF Live, All, Limit
    <3>2. Holders(Global) = {c \in Connects : HoldsAll(c)}
      BY DEF Holders
    <3> QED
      BY <3>1, <3>2, Shares
  <2>2. ASSUME HostLimited, NEW o \in Origins
        PROVE  Cardinality(HostHolders(o)) <= MaxPerHost
    <3>1. ASSUME NEW c \in HostHolders(o)
          PROVE  c \in Connects /\ gate[c] = gates[o] /\ HoldsHost(c) /\ pc[c] # "idle"
      BY <2>2, <3>1 DEF HostHolders, HoldsHost, HoldsAll, IInv, ControlInv, ConnectInv
    <3>2. CASE HostHolders(o) = {}
      <4>1. Cardinality(HostHolders(o)) = 0
        BY <3>2, FS_EmptySet
      <4> QED
        BY <4>1, ConnectionAssumption
    <3>3. CASE HostHolders(o) # {}
      <4>1. PICK s \in Semaphores : /\ s = gates[o] /\ s \in All /\ Live(s)
                                    /\ Limit(s) = MaxPerHost /\ s # Global
        BY <2>2, <3>1, <3>3, HostLive DEF Limit
      <4>2. HostHolders(o) \subseteq Holders(s) /\ Holders(s) \in SUBSET Connects
        BY <3>1, <4>1 DEF Holders
      <4>3. IsFiniteSet(Holders(s))
        BY <4>2, FS_Subset, ConnectionAssumption
      <4>4. Cardinality(HostHolders(o)) <= Cardinality(Holders(s))
        BY <4>2, <4>3, FS_Subset
      <4>5. /\ Cardinality(Holders(s)) <= MaxPerHost /\ Cardinality(Holders(s)) \in Nat
        BY <4>1, Shares
      <4>6. Cardinality(HostHolders(o)) \in Nat
        BY <4>2, CountNat
      <4> QED
        BY <4>4, <4>5, <4>6, ConnectionAssumption
    <3> QED
      BY <3>2, <3>3
  <2> QED
    BY <2>1, <2>2 DEF ConnectionLimits, HostLimited
<1> QED
  BY <1>1, Invariance, PTL

================================================================================
