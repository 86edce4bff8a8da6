--------------------------- MODULE AcquireGateProofs ---------------------------
(***************************************************************************)
(* The safety invariants of AcquireGate, proved for every number of        *)
(* requests, origins and semaphores and every limit.  None of them is      *)
(* inductive by itself.  IInv adds what they rest on: what the program     *)
(* counter of a request says about its other variables (ControlInv), that  *)
(* the map of weak references names the semaphore in use (GateInv), that   *)
(* the queue holds exactly the entries of the queued requests, in order    *)
(* (QueueInv), and what each counter counts (GlobalCount, OriginCount,     *)
(* ActiveCount, PendingCount).  The refinement of RequestSlots and the     *)
(* order of the queue follow from it.                                      *)
(***************************************************************************)
EXTENDS AcquireGate, FiniteSetTheorems, SequenceTheorems, TLAPS

(* What RemoveAt does to a sequence: it stays in its type, loses one         *)
(* element, and the elements behind the removed one move up.                 *)
LEMMA RemoveAtFacts ==
  ASSUME NEW S, NEW s \in Seq(S), NEW i \in 1 .. Len(s)
  PROVE  /\ RemoveAt(s, i) \in Seq(S)
         /\ Len(RemoveAt(s, i)) = Len(s) - 1
         /\ \A j \in 1 .. Len(s) - 1 :
              RemoveAt(s, i)[j] = IF j < i THEN s[j] ELSE s[j + 1]
  <1> DEFINE front == SubSeq(s, 1, i - 1)
             back  == SubSeq(s, i + 1, Len(s))
  <1>1. /\ front \in Seq(S) /\ Len(front) = i - 1
        /\ \A j \in 1 .. i - 1 : front[j] = s[j]
    BY LenProperties
  <1>2. /\ back \in Seq(S) /\ Len(back) = Len(s) - i
        /\ \A j \in 1 .. Len(s) - i : back[j] = s[i + j]
    BY LenProperties
  <1>3. RemoveAt(s, i) = front \o back
    BY DEF RemoveAt
  <1> HIDE DEF front, back
  <1>4. /\ RemoveAt(s, i) \in Seq(S)
        /\ Len(RemoveAt(s, i)) = Len(s) - 1
    BY <1>1, <1>2, <1>3, LenProperties
  <1>5. ASSUME NEW j \in 1 .. Len(s) - 1
        PROVE  RemoveAt(s, i)[j] = IF j < i THEN s[j] ELSE s[j + 1]
    <2>1. CASE j < i
      BY <1>1, <1>2, <1>3, <2>1, LenProperties
    <2>2. CASE j >= i
      <3>1. j - (i - 1) \in 1 .. Len(back)
        BY <1>2, <2>2, LenProperties
      <3>2. (front \o back)[j] = back[j - (i - 1)]
        BY <1>1, <1>2, <2>2, <3>1, LenProperties
      <3>3. QED
        BY <1>2, <1>3, <2>2, <3>1, <3>2, LenProperties
    <2>3. QED
      BY <2>1, <2>2, LenProperties
  <1>6. QED
    BY <1>4, <1>5

(* Types of the variables, without the bounds that need counting arguments. *)
TypeWeak ==
  /\ pc \in [Requests -> Steps]
  /\ exit \in [Requests -> Exits]
  /\ origin \in [Requests -> Origins \cup {NoOrigin}]
  /\ semaphore \in [Requests -> Semaphores \cup {NoSemaphore}]
  /\ originGates \in [Origins -> Semaphores \cup {NoSemaphore}]
  /\ originPermits \in [Semaphores -> Int]
  /\ globalPermits \in Int
  /\ lockOwner \in Requests \cup {NoRequest}
  /\ activeRequests \in [Origins -> Int]
  /\ pendingRequests \in Int /\ peakPending \in Nat
  /\ attempts \in Nat /\ immediate \in Nat /\ waited \in Nat /\ timeouts \in Nat

(* What a request's program counter says about its other variables, about    *)
(* the holder of the queue mutex and about the semaphore it keeps alive.     *)
Asking(r) == pc[r] \in {"immediate", "immediateGlobal", "register", "poll", "pollGlobal", "await"}

ExitInv(r) ==
  /\ pc[r] \in {"idle", "active"} \/ Asking(r) => exit[r] = "none"
  /\ pc[r] = "grant" => exit[r] \in {"immediate", "granted"}
  /\ pc[r] = "dropWaiter" => exit[r] \in {"timeout", "cancel"}
  /\ pc[r] = "dropPending" => exit[r] \in {"granted", "timeout", "cancel"}
  /\ pc[r] \in {"notify", "notifySend"} => exit[r] \in {"granted", "timeout", "cancel", "release"}
  /\ pc[r] \in {"dropOrigin", "dropGlobal"} => exit[r] = "release"

ControlInv ==
  \A r \in Requests :
    /\ pc[r] \in {"immediateGlobal", "pollGlobal"} <=> lockOwner = r
    /\ ExitInv(r)
    /\ pc[r] # "idle" => origin[r] \in Origins
    /\ semaphore[r] # NoSemaphore <=> OriginLimited /\ (Asking(r) \/ Granted(r))

(* The types and the control invariant hold before the first acquire.        *)
LEMMA ControlInit == Init => TypeWeak /\ ControlInv
  BY GateAssumption DEF Init, ControlInv, TypeWeak, Steps, Exits, ExitInv, Asking, Granted

(* No step of the gate takes a variable out of its type.                     *)
LEMMA TypeWeakStep == ASSUME TypeWeak, ControlInv, [Next]_vars  PROVE TypeWeak'
  <1> USE GateAssumption DEF TypeWeak, Steps, Exits,
          Goto, semaphoreVars, queueVars, wakeVars, gaugeVars, counterVars
  <1>1. ASSUME NEW r \in Requests, NEW o \in Origins, StartAcquire(r, o)  PROVE TypeWeak'
    <2>1. semaphore' \in [Requests -> Semaphores \cup {NoSemaphore}]
      BY <1>1 DEF StartAcquire, OriginSemaphore, ShareSemaphore, NewSemaphore
    <2>2. originGates' \in [Origins -> Semaphores \cup {NoSemaphore}]
      <3>1. CASE UNCHANGED originGates
        BY <3>1
      <3>2. ASSUME NEW s \in Semaphores, NewSemaphore(r, o, s)
            PROVE  originGates' \in [Origins -> Semaphores \cup {NoSemaphore}]
        BY <3>2 DEF NewSemaphore
      <3>3. QED
        BY <1>1, <3>1, <3>2 DEF StartAcquire, OriginSemaphore, ShareSemaphore
    <2>3. originPermits' \in [Semaphores -> Int]
      BY <1>1 DEF StartAcquire, OriginSemaphore, ShareSemaphore, NewSemaphore
    <2>4. /\ pc' \in [Requests -> Steps] /\ attempts' \in Nat
          /\ origin' \in [Requests -> Origins \cup {NoOrigin}]
      BY <1>1 DEF StartAcquire
    <2>5. UNCHANGED <<exit, globalPermits, lockOwner, gaugeVars, immediate, waited, timeouts>>
      BY <1>1 DEF StartAcquire
    <2>6. QED
      BY <2>1, <2>2, <2>3, <2>4, <2>5
  <1>2. ASSUME NEW r \in Requests, ImmediateOrigin(r)  PROVE TypeWeak'
    BY <1>2 DEF ImmediateOrigin, TakeOrigin
  <1>3. ASSUME NEW r \in Requests, ImmediateGlobal(r)  PROVE TypeWeak'
    BY <1>3 DEF ImmediateGlobal, ReturnOrigin
  <1>4. ASSUME NEW r \in Requests, Register(r)  PROVE TypeWeak'
    BY <1>4 DEF Register, Max2
  <1>5. ASSUME NEW r \in Requests, QueueFull(r)  PROVE TypeWeak'
    BY <1>5 DEF QueueFull
  <1>6. ASSUME NEW r \in Requests, PollOrigin(r)  PROVE TypeWeak'
    BY <1>6 DEF PollOrigin, TakeOrigin
  <1>7. ASSUME NEW r \in Requests, PollGlobal(r)  PROVE TypeWeak'
    <2>1. originPermits' \in [Semaphores -> Int]
      BY <1>7 DEF PollGlobal, ReturnOrigin, ControlInv, Asking
    <2>2. pc' \in [Requests -> Steps]
      BY <1>7 DEF PollGlobal
    <2>2a. exit' \in [Requests -> Exits]
      BY <1>7 DEF PollGlobal
    <2>2b. globalPermits' \in Int /\ lockOwner' = NoRequest
      BY <1>7 DEF PollGlobal
    <2>3. UNCHANGED <<origin, semaphore, originGates, gaugeVars, counterVars>>
      BY <1>7 DEF PollGlobal
    <2>4. QED
      BY <2>1, <2>2, <2>2a, <2>2b, <2>3
  <1>8. ASSUME NEW r \in Requests, Wake(r)  PROVE TypeWeak'
    BY <1>8 DEF Wake
  <1>9. ASSUME NEW r \in Requests, RemoveWaiter(r)  PROVE TypeWeak'
    BY <1>9 DEF RemoveWaiter
  <1>10. ASSUME NEW r \in Requests, DropPending(r)  PROVE TypeWeak'
    BY <1>10 DEF DropPending
  <1>11. ASSUME NEW r \in Requests, NotifyHead(r)  PROVE TypeWeak'
    BY <1>11 DEF NotifyHead
  <1>12. ASSUME NEW r \in Requests, NotifyOne(r)  PROVE TypeWeak'
    BY <1>12 DEF NotifyOne
  <1>13. ASSUME NEW r \in Requests, Grant(r)  PROVE TypeWeak'
    BY <1>13 DEF Grant, ControlInv
  <1>14. ASSUME NEW r \in Requests, DropOrigin(r)  PROVE TypeWeak'
    <2>1. originPermits' \in [Semaphores -> Int]
      BY <1>14 DEF DropOrigin, ReturnOrigin, ControlInv, Granted
    <2>2. QED
      BY <1>14, <2>1 DEF DropOrigin
  <1>15. ASSUME NEW r \in Requests, DropGlobal(r)  PROVE TypeWeak'
    BY <1>15 DEF DropGlobal
  <1>16. ASSUME NEW r \in Requests, PoolTimeout(r)  PROVE TypeWeak'
    BY <1>16 DEF PoolTimeout
  <1>17. ASSUME NEW r \in Requests, Cancel(r)  PROVE TypeWeak'
    BY <1>17 DEF Cancel
  <1>18. ASSUME NEW r \in Requests, Release(r)  PROVE TypeWeak'
    BY <1>18 DEF Release, ControlInv
  <1>19. CASE UNCHANGED vars
    BY <1>19 DEF vars
  <1>20. QED
    BY <1>1, <1>2, <1>3, <1>4, <1>5, <1>6, <1>7, <1>8, <1>9, <1>10, <1>11, <1>12, <1>13, <1>14, <1>15, <1>16, <1>17, <1>18, <1>19 DEF Next, TaskStep

(* Every step leaves each request where its program counter says it is: with *)
(* the origin, the semaphore and the mutex that go with that step of         *)
(* acquire.                                                                  *)
LEMMA ControlStep == ASSUME TypeWeak, ControlInv, [Next]_vars  PROVE ControlInv'
  <1> USE GateAssumption DEF TypeWeak, ControlInv, ExitInv, Asking, Granted,
          Goto, semaphoreVars, queueVars, wakeVars, gaugeVars, counterVars
  <1>1. ASSUME NEW r \in Requests, NEW o \in Origins, StartAcquire(r, o)  PROVE ControlInv'
    BY <1>1 DEF StartAcquire, OriginSemaphore, ShareSemaphore, NewSemaphore, Upgrades, Alive
  <1>2. ASSUME NEW r \in Requests, ImmediateOrigin(r)  PROVE ControlInv'
    BY <1>2 DEF ImmediateOrigin, TakeOrigin
  <1>3. ASSUME NEW r \in Requests, ImmediateGlobal(r)  PROVE ControlInv'
    BY <1>3 DEF ImmediateGlobal, ReturnOrigin
  <1>4. ASSUME NEW r \in Requests, Register(r)  PROVE ControlInv'
    BY <1>4 DEF Register, Max2
  <1>5. ASSUME NEW r \in Requests, QueueFull(r)  PROVE ControlInv'
    BY <1>5 DEF QueueFull
  <1>6. ASSUME NEW r \in Requests, PollOrigin(r)  PROVE ControlInv'
    BY <1>6 DEF PollOrigin, TakeOrigin
  <1>7. ASSUME NEW r \in Requests, PollGlobal(r)  PROVE ControlInv'
    BY <1>7 DEF PollGlobal, ReturnOrigin
  <1>8. ASSUME NEW r \in Requests, Wake(r)  PROVE ControlInv'
    BY <1>8 DEF Wake
  <1>9. ASSUME NEW r \in Requests, RemoveWaiter(r)  PROVE ControlInv'
    BY <1>9 DEF RemoveWaiter
  <1>10. ASSUME NEW r \in Requests, DropPending(r)  PROVE ControlInv'
    BY <1>10 DEF DropPending
  <1>11. ASSUME NEW r \in Requests, NotifyHead(r)  PROVE ControlInv'
    BY <1>11 DEF NotifyHead
  <1>12. ASSUME NEW r \in Requests, NotifyOne(r)  PROVE ControlInv'
    BY <1>12 DEF NotifyOne
  <1>13. ASSUME NEW r \in Requests, Grant(r)  PROVE ControlInv'
    BY <1>13 DEF Grant
  <1>14. ASSUME NEW r \in Requests, DropOrigin(r)  PROVE ControlInv'
    BY <1>14 DEF DropOrigin, ReturnOrigin
  <1>15. ASSUME NEW r \in Requests, DropGlobal(r)  PROVE ControlInv'
    BY <1>15 DEF DropGlobal
  <1>16. ASSUME NEW r \in Requests, PoolTimeout(r)  PROVE ControlInv'
    BY <1>16 DEF PoolTimeout
  <1>17. ASSUME NEW r \in Requests, Cancel(r)  PROVE ControlInv'
    BY <1>17 DEF Cancel
  <1>18. ASSUME NEW r \in Requests, Release(r)  PROVE ControlInv'
    BY <1>18 DEF Release
  <1>19. CASE UNCHANGED vars
    BY <1>19 DEF vars
  <1>20. QED
    BY <1>1, <1>2, <1>3, <1>4, <1>5, <1>6, <1>7, <1>8, <1>9, <1>10, <1>11, <1>12, <1>13, <1>14, <1>15, <1>16, <1>17, <1>18, <1>19 DEF Next, TaskStep

(* The map of weak references: a request's semaphore is the one its origin    *)
(* is mapped to, and no two origins are mapped to the same one.               *)
GateInv ==
  /\ \A r \in Requests : semaphore[r] # NoSemaphore => originGates[origin[r]] = semaphore[r]
  /\ \A o, p \in Origins : o # p /\ originGates[o] # NoSemaphore => originGates[o] # originGates[p]

(* OriginGates::semaphore finds the semaphore that is in use, or makes one   *)
(* nobody uses: the map keeps naming the semaphore its origin's requests     *)
(* hold, sweep or no sweep.                                                  *)
LEMMA GateStep == ASSUME TypeWeak, ControlInv, GateInv, [Next]_vars  PROVE GateInv'
  <1> USE GateAssumption DEF TypeWeak, ControlInv, GateInv, Granted, Asking,
          Goto, semaphoreVars, queueVars, wakeVars, gaugeVars, counterVars
  <1>1. ASSUME NEW r \in Requests, NEW o \in Origins, StartAcquire(r, o)  PROVE GateInv'
    <2>1. CASE ~OriginLimited /\ UNCHANGED <<semaphore, originGates, originPermits>>
      BY <1>1, <2>1 DEF StartAcquire
    <2>2. CASE ShareSemaphore(r, o)
      BY <1>1, <2>2 DEF StartAcquire, ShareSemaphore, Upgrades
    <2>3. ASSUME NEW s \in Semaphores, NewSemaphore(r, o, s)
          PROVE  GateInv'
      <3>1. originGates'[o] = s /\ \A p \in Origins \ {o} : originGates'[p] \in {originGates[p], NoSemaphore}
        BY <2>3 DEF NewSemaphore
      <3>2. \A p \in Origins \ {o} : originGates[p] # s
        BY <2>3 DEF NewSemaphore
      <3>3. \A q \in Requests : semaphore[q] # NoSemaphore => origin[q] # o
        BY <2>3 DEF NewSemaphore, Upgrades, Alive
      <3>4. ASSUME NEW q \in Requests \ {r}, semaphore[q] # NoSemaphore
            PROVE  originGates'[origin[q]] = semaphore[q]
        <4>1. origin[q] \in Origins \ {o} /\ Upgrades(origin[q])
          BY <3>3, <3>4 DEF Upgrades, Alive, Asking, Granted
        <4>2. QED
          BY <2>3, <3>4, <4>1 DEF NewSemaphore
      <3>5. semaphore' = [semaphore EXCEPT ![r] = s] /\ origin' = [origin EXCEPT ![r] = o]
        BY <1>1, <2>3 DEF StartAcquire, NewSemaphore
      <3>6. QED
        BY <3>1, <3>2, <3>4, <3>5
    <2>4. QED
      BY <1>1, <2>1, <2>2, <2>3 DEF StartAcquire, OriginSemaphore
  <1>2. ASSUME NEW r \in Requests, ImmediateOrigin(r)  PROVE GateInv'
    BY <1>2 DEF ImmediateOrigin, TakeOrigin
  <1>3. ASSUME NEW r \in Requests, ImmediateGlobal(r)  PROVE GateInv'
    BY <1>3 DEF ImmediateGlobal, ReturnOrigin
  <1>4. ASSUME NEW r \in Requests, Register(r)  PROVE GateInv'
    BY <1>4 DEF Register, Max2
  <1>5. ASSUME NEW r \in Requests, QueueFull(r)  PROVE GateInv'
    BY <1>5 DEF QueueFull
  <1>6. ASSUME NEW r \in Requests, PollOrigin(r)  PROVE GateInv'
    BY <1>6 DEF PollOrigin, TakeOrigin
  <1>7. ASSUME NEW r \in Requests, PollGlobal(r)  PROVE GateInv'
    BY <1>7 DEF PollGlobal, ReturnOrigin
  <1>8. ASSUME NEW r \in Requests, Wake(r)  PROVE GateInv'
    BY <1>8 DEF Wake
  <1>9. ASSUME NEW r \in Requests, RemoveWaiter(r)  PROVE GateInv'
    BY <1>9 DEF RemoveWaiter
  <1>10. ASSUME NEW r \in Requests, DropPending(r)  PROVE GateInv'
    BY <1>10 DEF DropPending
  <1>11. ASSUME NEW r \in Requests, NotifyHead(r)  PROVE GateInv'
    BY <1>11 DEF NotifyHead
  <1>12. ASSUME NEW r \in Requests, NotifyOne(r)  PROVE GateInv'
    BY <1>12 DEF NotifyOne
  <1>13. ASSUME NEW r \in Requests, Grant(r)  PROVE GateInv'
    BY <1>13 DEF Grant
  <1>14. ASSUME NEW r \in Requests, DropOrigin(r)  PROVE GateInv'
    BY <1>14 DEF DropOrigin, ReturnOrigin
  <1>15. ASSUME NEW r \in Requests, DropGlobal(r)  PROVE GateInv'
    BY <1>15 DEF DropGlobal
  <1>16. ASSUME NEW r \in Requests, PoolTimeout(r)  PROVE GateInv'
    BY <1>16 DEF PoolTimeout
  <1>17. ASSUME NEW r \in Requests, Cancel(r)  PROVE GateInv'
    BY <1>17 DEF Cancel
  <1>18. ASSUME NEW r \in Requests, Release(r)  PROVE GateInv'
    BY <1>18 DEF Release
  <1>19. CASE UNCHANGED vars
    BY <1>19 DEF vars
  <1>20. QED
    BY <1>1, <1>2, <1>3, <1>4, <1>5, <1>6, <1>7, <1>8, <1>9, <1>10, <1>11, <1>12, <1>13, <1>14, <1>15, <1>16, <1>17, <1>18, <1>19 DEF Next, TaskStep

(* Sequences of increasing waiter ids, and what the three changes of the      *)
(* queue keep: push_back, pop_front and the removal of an entry.              *)
InOrder(s) == \A i, j \in 1 .. Len(s) : i < j => s[i] < s[j]
Below(s, n) == \A i \in 1 .. Len(s) : s[i] < n
Listed(s, x) == \E i \in 1 .. Len(s) : s[i] = x

(* Appending the next id to a queue in id order keeps it in order and keeps  *)
(* every entry.                                                              *)
LEMMA PushBack ==
  ASSUME NEW s \in Seq(Nat \ {0}), NEW n \in Nat \ {0}, InOrder(s), Below(s, n)
  PROVE  /\ Append(s, n) \in Seq(Nat \ {0})
         /\ InOrder(Append(s, n)) /\ Below(Append(s, n), n + 1) /\ Listed(Append(s, n), n)
         /\ \A x : Listed(s, x) => Listed(Append(s, n), x)
  <1> DEFINE t == Append(s, n)
  <1>1. /\ t \in Seq(Nat \ {0}) /\ Len(t) = Len(s) + 1 /\ Len(s) \in Nat
        /\ \A i \in 1 .. Len(s) : t[i] = s[i]
        /\ t[Len(s) + 1] = n
    OBVIOUS
  <1>2. \A i \in 1 .. Len(s) : s[i] \in Nat
    OBVIOUS
  <1> HIDE DEF t
  <1>3. ASSUME NEW i \in 1 .. Len(t), NEW j \in 1 .. Len(t), i < j  PROVE t[i] < t[j]
    <2>1. CASE j = Len(s) + 1
      <3>1. Len(t) = Len(s) + 1 /\ Len(s) \in Nat
        BY <1>1
      <3>2. i \in 1 .. Len(s)
        BY <1>3, <2>1, <3>1
      <3>3. t[i] = s[i] /\ s[i] < n /\ t[j] = n
        BY <1>1, <2>1, <3>2 DEF Below
      <3>4. QED
        BY <3>3
    <2>2. CASE j # Len(s) + 1
      <3>1. Len(t) = Len(s) + 1 /\ Len(s) \in Nat
        BY <1>1
      <3>2. i \in 1 .. Len(s) /\ j \in 1 .. Len(s)
        BY <1>3, <2>2, <3>1
      <3>3. QED
        BY <1>1, <1>3, <3>2 DEF InOrder
    <2>3. QED
      BY <2>1, <2>2
  <1>4. ASSUME NEW i \in 1 .. Len(t)  PROVE t[i] < n + 1
    <2>1. CASE i = Len(s) + 1
      BY <1>1, <2>1
    <2>2. CASE i # Len(s) + 1
      BY <1>1, <1>2, <2>2 DEF Below
    <2>3. QED
      BY <2>1, <2>2
  <1>5. Len(s) + 1 \in 1 .. Len(t) /\ \A i \in 1 .. Len(s) : i \in 1 .. Len(t)
    BY <1>1
  <1>6. Listed(t, n) /\ \A x : Listed(s, x) => Listed(t, x)
    BY <1>1, <1>5 DEF Listed
  <1>7. QED
    BY <1>1, <1>3, <1>4, <1>6 DEF t, InOrder, Below

(* pop_front keeps the order, and every entry but the head.                  *)
LEMMA PopFront ==
  ASSUME NEW s \in Seq(Nat \ {0}), NEW n \in Nat \ {0}, InOrder(s), Below(s, n), s # <<>>
  PROVE  /\ Tail(s) \in Seq(Nat \ {0})
         /\ InOrder(Tail(s)) /\ Below(Tail(s), n)
         /\ \A x : Listed(s, x) /\ x # Head(s) => Listed(Tail(s), x)
  <1> DEFINE t == Tail(s)
  <1>1. /\ t \in Seq(Nat \ {0}) /\ Len(t) = Len(s) - 1 /\ Len(s) \in Nat \ {0}
        /\ \A i \in 1 .. Len(s) - 1 : t[i] = s[i + 1]
        /\ Head(s) = s[1]
    OBVIOUS
  <1> HIDE DEF t
  <1>2. ASSUME NEW i \in 1 .. Len(t)
        PROVE  t[i] < n /\ \A j \in 1 .. Len(t) : i < j => t[i] < t[j]
    <2> DEFINE old(j) == j + 1
    <2>1. \A j \in 1 .. Len(t) : old(j) \in 1 .. Len(s) /\ (i < j => old(i) < old(j))
      BY <1>1
    <2>2. \A j \in 1 .. Len(t) : t[j] = s[old(j)]
      BY <1>1
    <2> HIDE DEF old
    <2>3. QED
      BY <2>1, <2>2 DEF InOrder, Below
  <1>3. ASSUME NEW x, Listed(s, x), x # Head(s)  PROVE Listed(t, x)
    <2>1. PICK i \in 1 .. Len(s) : s[i] = x
      BY <1>3 DEF Listed
    <2>2. i - 1 \in 1 .. Len(t) /\ t[i - 1] = x
      BY <1>1, <1>3, <2>1
    <2>3. QED
      BY <2>2 DEF Listed
  <1>4. QED
    BY <1>1, <1>2, <1>3 DEF t, InOrder, Below

(* remove_waiter keeps the order, and every entry but the removed one.       *)
LEMMA RemoveEntry ==
  ASSUME NEW s \in Seq(Nat \ {0}), NEW n \in Nat \ {0}, InOrder(s), Below(s, n),
         NEW k \in 1 .. Len(s)
  PROVE  /\ RemoveAt(s, k) \in Seq(Nat \ {0})
         /\ InOrder(RemoveAt(s, k)) /\ Below(RemoveAt(s, k), n)
         /\ \A x : Listed(s, x) /\ x # s[k] => Listed(RemoveAt(s, k), x)
  <1> DEFINE t == RemoveAt(s, k)
  <1>0. Len(s) \in Nat /\ \A i \in 1 .. Len(s) : s[i] \in Nat
    OBVIOUS
  <1> HIDE DEF t
  <1>1. /\ t \in Seq(Nat \ {0}) /\ Len(t) = Len(s) - 1
        /\ \A j \in 1 .. Len(s) - 1 : t[j] = IF j < k THEN s[j] ELSE s[j + 1]
    BY RemoveAtFacts DEF t
  <1>2. \A j \in 1 .. Len(t) : t[j] = s[IF j < k THEN j ELSE j + 1]
    BY <1>0, <1>1
  <1>3. ASSUME NEW i \in 1 .. Len(t)
        PROVE  t[i] < n /\ \A j \in 1 .. Len(t) : i < j => t[i] < t[j]
    <2> DEFINE old(j) == IF j < k THEN j ELSE j + 1
    <2>1. \A j \in 1 .. Len(t) : old(j) \in 1 .. Len(s) /\ (i < j => old(i) < old(j))
      BY <1>0, <1>1
    <2>2. \A j \in 1 .. Len(t) : t[j] = s[old(j)]
      BY <1>2
    <2> HIDE DEF old
    <2>3. QED
      BY <2>1, <2>2 DEF InOrder, Below
  <1>4. ASSUME NEW x, Listed(s, x), x # s[k]  PROVE Listed(t, x)
    <2>1. PICK i \in 1 .. Len(s) : s[i] = x
      BY <1>4 DEF Listed
    <2>2. CASE i < k
      <3>1. i \in 1 .. Len(t) /\ t[i] = x
        BY <1>0, <1>1, <2>1, <2>2
      <3>2. QED
        BY <3>1 DEF Listed
    <2>3. CASE i > k
      <3>1. i - 1 \in 1 .. Len(t) /\ t[i - 1] = x
        BY <1>0, <1>1, <2>1, <2>3
      <3>2. QED
        BY <3>1 DEF Listed
    <2>4. QED
      BY <1>4, <2>1, <2>2, <2>3
  <1>5. QED
    BY <1>1, <1>3, <1>4 DEF t, InOrder, Below

(* The queue: an entry for every queued request, in the order of their ids;   *)
(* the mutex is held between the two halves of try_acquire_permits.           *)
QueueInv ==
  /\ waiters \in Seq(Nat \ {0}) /\ nextWaiterId \in Nat \ {0}
  /\ waiterId \in [Requests -> Nat] /\ notified \in SUBSET (Nat \ {0})
  /\ target \in [Requests -> Nat]
  /\ InOrder(waiters) /\ Below(waiters, nextWaiterId)
  /\ \A r \in Requests : /\ waiterId[r] # 0 <=> Queued(r)
                         /\ waiterId[r] < nextWaiterId
                         /\ waiterId[r] # 0 => Listed(waiters, waiterId[r])
                         /\ pc[r] = "pollGlobal" => waiters # <<>> /\ Head(waiters) = waiterId[r]
                         /\ pc[r] = "immediateGlobal" => waiters = <<>>
  /\ \A r, q \in Requests : waiterId[r] = waiterId[q] /\ waiterId[r] # 0 => r = q

(* try_register adds the one entry of its request at the end of the queue.   *)
LEMMA QueueRegister ==
  ASSUME TypeWeak, ControlInv, QueueInv, NEW r \in Requests, Register(r)
  PROVE  QueueInv'
  <1>1. /\ waiters' \in Seq(Nat \ {0}) /\ InOrder(waiters') /\ Below(waiters', nextWaiterId')
        /\ Listed(waiters', nextWaiterId)
        /\ \A x : Listed(waiters, x) => Listed(waiters', x)
    BY PushBack DEF QueueInv, Register
  <1>2. /\ nextWaiterId' = nextWaiterId + 1 /\ UNCHANGED <<notified, target>>
        /\ waiterId' = [waiterId EXCEPT ![r] = nextWaiterId]
        /\ pc' = [pc EXCEPT ![r] = "poll"] /\ pc[r] = "register"
    BY DEF Register, Goto, wakeVars
  <1>3. \A q \in Requests : pc[q] \notin {"immediateGlobal", "pollGlobal"}
    BY GateAssumption DEF Register, ControlInv
  <1>4. QED
    BY <1>1, <1>2, <1>3 DEF QueueInv, TypeWeak, Queued

(* A waiter that gets its permits takes its own entry, the head, out of the  *)
(* queue.                                                                    *)
LEMMA QueuePollGlobal ==
  ASSUME TypeWeak, ControlInv, QueueInv, NEW r \in Requests, PollGlobal(r)
  PROVE  QueueInv'
  <1>1. CASE globalPermits = 0
    <2>1. /\ UNCHANGED <<waiters, nextWaiterId, waiterId, notified, target>>
          /\ pc' = [pc EXCEPT ![r] = "await"] /\ pc[r] = "pollGlobal"
      BY <1>1 DEF PollGlobal, Goto
    <2>2. QED
      BY <2>1 DEF QueueInv, TypeWeak, Queued
  <1>2. CASE globalPermits > 0
    <2>1. waiters # <<>> /\ Head(waiters) = waiterId[r]
      BY DEF PollGlobal, QueueInv
    <2>2. /\ nextWaiterId' = nextWaiterId /\ target' = target /\ waiters' = Tail(waiters)
          /\ waiterId' = [waiterId EXCEPT ![r] = 0] /\ notified' \in SUBSET notified
          /\ pc' = [pc EXCEPT ![r] = "dropPending"] /\ pc[r] = "pollGlobal"
      BY <1>2 DEF PollGlobal, Goto
    <2>3. /\ waiters' \in Seq(Nat \ {0}) /\ InOrder(waiters') /\ Below(waiters', nextWaiterId')
          /\ \A x : Listed(waiters, x) /\ x # waiterId[r] => Listed(waiters', x)
      BY <2>1, <2>2, PopFront DEF QueueInv
    <2>4. \A q \in Requests : q # r => pc[q] \notin {"immediateGlobal", "pollGlobal"}
      BY <2>2 DEF ControlInv
    <2>5. QED
      BY <2>2, <2>3, <2>4 DEF QueueInv, TypeWeak, Queued
  <1>3. QED
    BY <1>1, <1>2 DEF PollGlobal

(* A waiter that gives up takes its own entry out, wherever it is.           *)
LEMMA QueueRemoveWaiter ==
  ASSUME TypeWeak, ControlInv, QueueInv, NEW r \in Requests, RemoveWaiter(r)
  PROVE  QueueInv'
  <1>1. PICK k \in 1 .. Len(waiters) : waiters[k] = waiterId[r] /\ waiters' = RemoveAt(waiters, k)
    BY DEF RemoveWaiter
  <1>2. /\ nextWaiterId' = nextWaiterId /\ target' = target
        /\ waiterId' = [waiterId EXCEPT ![r] = 0] /\ notified' \in SUBSET notified
        /\ pc' = [pc EXCEPT ![r] = "dropPending"] /\ pc[r] = "dropWaiter"
    BY DEF RemoveWaiter, Goto
  <1>3. /\ waiters' \in Seq(Nat \ {0}) /\ InOrder(waiters') /\ Below(waiters', nextWaiterId')
        /\ \A x : Listed(waiters, x) /\ x # waiterId[r] => Listed(waiters', x)
    BY <1>1, <1>2, RemoveEntry DEF QueueInv
  <1>4. \A q \in Requests : pc[q] \notin {"immediateGlobal", "pollGlobal"}
    BY GateAssumption DEF RemoveWaiter, ControlInv
  <1>5. QED
    BY <1>2, <1>3, <1>4 DEF QueueInv, TypeWeak, Queued

(* The first half of try_acquire_for_waiter leaves the queue alone, and only *)
(* the head gets past it.                                                    *)
LEMMA QueuePollOrigin ==
  ASSUME TypeWeak, ControlInv, QueueInv, NEW r \in Requests, PollOrigin(r)
  PROVE  QueueInv'
  <1>1. /\ UNCHANGED <<waiters, nextWaiterId, waiterId, notified, target>> /\ pc[r] = "poll"
        /\ \/ pc' = [pc EXCEPT ![r] = "await"]
           \/ Head(waiters) = waiterId[r] /\ pc' = [pc EXCEPT ![r] = "pollGlobal"]
    BY DEF PollOrigin, Goto, wakeVars
  <1>2. waiters # <<>>
    BY <1>1 DEF QueueInv, Queued, Listed
  <1>3. QED
    BY <1>1, <1>2 DEF QueueInv, TypeWeak, Queued

(* A wake-up reaches only entries that are in the queue.                     *)
LEMMA QueueNotifyOne ==
  ASSUME TypeWeak, ControlInv, QueueInv, NEW r \in Requests, NotifyOne(r)
  PROVE  QueueInv'
  <1>1. /\ UNCHANGED <<waiters, nextWaiterId, waiterId>>
        /\ pc[r] = "notifySend"
        /\ pc' = [pc EXCEPT ![r] = "grant"] \/ pc' = [pc EXCEPT ![r] = "idle"]
    BY DEF NotifyOne, Goto, queueVars
  <1>2. target' \in [Requests -> Nat]
    BY DEF NotifyOne, QueueInv
  <1>3. notified' \in SUBSET (Nat \ {0})
    <2>1. \A id \in notified' : id \in notified \/ (id = target[r] /\ id # 0)
      BY DEF NotifyOne
    <2>2. target[r] \in Nat /\ notified \in SUBSET (Nat \ {0})
      BY DEF QueueInv
    <2>3. QED
      BY <2>1, <2>2
  <1>4. QED
    BY <1>1, <1>2, <1>3 DEF QueueInv, TypeWeak, Queued

(* Every queued request has exactly one entry, and the entries are in the    *)
(* order of their ids, after every step.                                     *)
LEMMA QueueStep == ASSUME TypeWeak, ControlInv, QueueInv, [Next]_vars  PROVE QueueInv'
  <1> USE GateAssumption DEF TypeWeak, ControlInv, QueueInv, Queued,
          Goto, semaphoreVars, queueVars, wakeVars, gaugeVars, counterVars
  <1>1. ASSUME NEW r \in Requests, NEW o \in Origins, StartAcquire(r, o)  PROVE QueueInv'
    BY <1>1 DEF StartAcquire, OriginSemaphore, ShareSemaphore, NewSemaphore, Upgrades, Alive
  <1>2. ASSUME NEW r \in Requests, ImmediateOrigin(r)  PROVE QueueInv'
    BY <1>2 DEF ImmediateOrigin, TakeOrigin
  <1>3. ASSUME NEW r \in Requests, ImmediateGlobal(r)  PROVE QueueInv'
    BY <1>3 DEF ImmediateGlobal, ReturnOrigin
  <1>4. ASSUME NEW r \in Requests, Register(r)  PROVE QueueInv'
    BY <1>4, QueueRegister
  <1>5. ASSUME NEW r \in Requests, QueueFull(r)  PROVE QueueInv'
    BY <1>5 DEF QueueFull
  <1>6. ASSUME NEW r \in Requests, PollOrigin(r)  PROVE QueueInv'
    BY <1>6, QueuePollOrigin
  <1>7. ASSUME NEW r \in Requests, PollGlobal(r)  PROVE QueueInv'
    BY <1>7, QueuePollGlobal
  <1>8. ASSUME NEW r \in Requests, Wake(r)  PROVE QueueInv'
    BY <1>8 DEF Wake
  <1>9. ASSUME NEW r \in Requests, RemoveWaiter(r)  PROVE QueueInv'
    BY <1>9, QueueRemoveWaiter
  <1>10. ASSUME NEW r \in Requests, DropPending(r)  PROVE QueueInv'
    BY <1>10 DEF DropPending
  <1>11. ASSUME NEW r \in Requests, NotifyHead(r)  PROVE QueueInv'
    BY <1>11 DEF NotifyHead
  <1>12. ASSUME NEW r \in Requests, NotifyOne(r)  PROVE QueueInv'
    BY <1>12, QueueNotifyOne
  <1>13. ASSUME NEW r \in Requests, Grant(r)  PROVE QueueInv'
    BY <1>13 DEF Grant
  <1>14. ASSUME NEW r \in Requests, DropOrigin(r)  PROVE QueueInv'
    BY <1>14 DEF DropOrigin, ReturnOrigin
  <1>15. ASSUME NEW r \in Requests, DropGlobal(r)  PROVE QueueInv'
    BY <1>15 DEF DropGlobal
  <1>16. ASSUME NEW r \in Requests, PoolTimeout(r)  PROVE QueueInv'
    BY <1>16 DEF PoolTimeout
  <1>17. ASSUME NEW r \in Requests, Cancel(r)  PROVE QueueInv'
    BY <1>17 DEF Cancel
  <1>18. ASSUME NEW r \in Requests, Release(r)  PROVE QueueInv'
    BY <1>18 DEF Release
  <1>19. CASE UNCHANGED vars
    BY <1>19 DEF vars
  <1>20. QED
    BY <1>1, <1>2, <1>3, <1>4, <1>5, <1>6, <1>7, <1>8, <1>9, <1>10, <1>11, <1>12, <1>13, <1>14, <1>15, <1>16, <1>17, <1>18, <1>19 DEF Next, TaskStep

(* A request more in a set of requests counts one more.                      *)
LEMMA CountUp ==
  ASSUME NEW A \in SUBSET Requests, NEW r \in Requests, r \notin A
  PROVE  Cardinality(A \cup {r}) = Cardinality(A) + 1 /\ Cardinality(A) \in Nat
  BY GateAssumption, FS_Subset, FS_AddElement, FS_CardinalityType

(* A request less counts one less.                                           *)
LEMMA CountDown ==
  ASSUME NEW A \in SUBSET Requests, NEW r \in A
  PROVE  Cardinality(A \ {r}) = Cardinality(A) - 1 /\ Cardinality(A) \in Nat
  BY GateAssumption, FS_Subset, FS_RemoveElement, FS_CardinalityType

(* A set of requests is counted by a natural number.                         *)
LEMMA CountNat ==
  ASSUME NEW A \in SUBSET Requests  PROVE Cardinality(A) \in Nat
  BY GateAssumption, FS_Subset, FS_CardinalityType

(* What the semaphores' counters and the gauges count. *)
GlobalHolders == {r \in Requests : HoldsGlobal(r)}
OriginHolders(s) == {r \in Requests : HoldsOrigin(r) /\ semaphore[r] = s}
ActiveOn(o) == {r \in Requests : pc[r] = "active" /\ origin[r] = o}
Pending == {r \in Requests : Queued(r) \/ pc[r] = "dropPending"}

GlobalCount == globalPermits + Cardinality(GlobalHolders) = MaxActive
OriginCount == \A s \in Semaphores :
                 originPermits[s] + Cardinality(OriginHolders(s)) = MaxPerOrigin
ActiveCount == \A o \in Origins : activeRequests[o] = Cardinality(ActiveOn(o))
PendingCount == pendingRequests = Cardinality(Pending)

(* Global permits and their holders add up to the limit after every step.    *)
LEMMA GlobalCountStep == ASSUME TypeWeak, ControlInv, GlobalCount, [Next]_vars  PROVE GlobalCount'
  <1> USE GateAssumption DEF Goto, semaphoreVars, queueVars, wakeVars, gaugeVars, counterVars
  <1>1. ASSUME NEW r \in Requests, NEW o \in Origins, StartAcquire(r, o)  PROVE GlobalCount'
    <2>1. GlobalHolders' = GlobalHolders
      BY <1>1 DEF StartAcquire, GlobalHolders, HoldsGlobal, Granted, TypeWeak, ControlInv, ExitInv, Asking
    <2>2. globalPermits' = globalPermits
      BY <1>1 DEF StartAcquire
    <2>3. QED
      BY <2>1, <2>2 DEF GlobalCount
  <1>2. ASSUME NEW r \in Requests, ImmediateOrigin(r)  PROVE GlobalCount'
    <2>1. GlobalHolders' = GlobalHolders
      BY <1>2 DEF ImmediateOrigin, GlobalHolders, HoldsGlobal, Granted, TypeWeak, ControlInv, ExitInv, Asking
    <2>2. globalPermits' = globalPermits
      BY <1>2 DEF ImmediateOrigin
    <2>3. QED
      BY <2>1, <2>2 DEF GlobalCount
  <1>3. ASSUME NEW r \in Requests, ImmediateGlobal(r)  PROVE GlobalCount'
    <2>1. CASE globalPermits = 0
      <3>1. GlobalHolders' = GlobalHolders
        BY <1>3, <2>1 DEF ImmediateGlobal, GlobalHolders, HoldsGlobal, Granted, TypeWeak, ControlInv, ExitInv, Asking
      <3>2. QED
        BY <1>3, <2>1, <3>1 DEF ImmediateGlobal, GlobalCount
    <2>2. CASE globalPermits > 0
      <3>1. GlobalHolders' = GlobalHolders \cup {r} /\ r \notin GlobalHolders
        BY <1>3, <2>2 DEF ImmediateGlobal, GlobalHolders, HoldsGlobal, Granted, TypeWeak, ControlInv, ExitInv, Asking
      <3>2. Cardinality(GlobalHolders') = Cardinality(GlobalHolders) + 1 /\ Cardinality(GlobalHolders) \in Nat
        BY <3>1, CountUp DEF GlobalHolders
      <3>3. globalPermits' = globalPermits - 1 /\ globalPermits \in Int
        BY <1>3, <2>2 DEF ImmediateGlobal, TypeWeak
      <3>4. QED
        BY <3>2, <3>3 DEF GlobalCount
    <2>3. QED
      BY <1>3, <2>1, <2>2 DEF ImmediateGlobal
  <1>4. ASSUME NEW r \in Requests, Register(r)  PROVE GlobalCount'
    <2>1. GlobalHolders' = GlobalHolders
      BY <1>4 DEF Register, GlobalHolders, HoldsGlobal, Granted, TypeWeak, ControlInv, ExitInv, Asking
    <2>2. globalPermits' = globalPermits
      BY <1>4 DEF Register
    <2>3. QED
      BY <2>1, <2>2 DEF GlobalCount
  <1>5. ASSUME NEW r \in Requests, QueueFull(r)  PROVE GlobalCount'
    <2>1. GlobalHolders' = GlobalHolders
      BY <1>5 DEF QueueFull, GlobalHolders, HoldsGlobal, Granted, TypeWeak, ControlInv, ExitInv, Asking
    <2>2. globalPermits' = globalPermits
      BY <1>5 DEF QueueFull
    <2>3. QED
      BY <2>1, <2>2 DEF GlobalCount
  <1>6. ASSUME NEW r \in Requests, PollOrigin(r)  PROVE GlobalCount'
    <2>1. GlobalHolders' = GlobalHolders
      BY <1>6 DEF PollOrigin, GlobalHolders, HoldsGlobal, Granted, TypeWeak, ControlInv, ExitInv, Asking
    <2>2. globalPermits' = globalPermits
      BY <1>6 DEF PollOrigin
    <2>3. QED
      BY <2>1, <2>2 DEF GlobalCount
  <1>7. ASSUME NEW r \in Requests, PollGlobal(r)  PROVE GlobalCount'
    <2>1. CASE globalPermits = 0
      <3>1. GlobalHolders' = GlobalHolders
        BY <1>7, <2>1 DEF PollGlobal, GlobalHolders, HoldsGlobal, Granted, TypeWeak, ControlInv, ExitInv, Asking
      <3>2. QED
        BY <1>7, <2>1, <3>1 DEF PollGlobal, GlobalCount
    <2>2. CASE globalPermits > 0
      <3>1. GlobalHolders' = GlobalHolders \cup {r} /\ r \notin GlobalHolders
        BY <1>7, <2>2 DEF PollGlobal, GlobalHolders, HoldsGlobal, Granted, TypeWeak, ControlInv, ExitInv, Asking
      <3>2. Cardinality(GlobalHolders') = Cardinality(GlobalHolders) + 1 /\ Cardinality(GlobalHolders) \in Nat
        BY <3>1, CountUp DEF GlobalHolders
      <3>3. globalPermits' = globalPermits - 1 /\ globalPermits \in Int
        BY <1>7, <2>2 DEF PollGlobal, TypeWeak
      <3>4. QED
        BY <3>2, <3>3 DEF GlobalCount
    <2>3. QED
      BY <1>7, <2>1, <2>2 DEF PollGlobal
  <1>8. ASSUME NEW r \in Requests, Wake(r)  PROVE GlobalCount'
    <2>1. GlobalHolders' = GlobalHolders
      BY <1>8 DEF Wake, GlobalHolders, HoldsGlobal, Granted, TypeWeak, ControlInv, ExitInv, Asking
    <2>2. globalPermits' = globalPermits
      BY <1>8 DEF Wake
    <2>3. QED
      BY <2>1, <2>2 DEF GlobalCount
  <1>9. ASSUME NEW r \in Requests, RemoveWaiter(r)  PROVE GlobalCount'
    <2>1. GlobalHolders' = GlobalHolders
      BY <1>9 DEF RemoveWaiter, GlobalHolders, HoldsGlobal, Granted, TypeWeak, ControlInv, ExitInv, Asking
    <2>2. globalPermits' = globalPermits
      BY <1>9 DEF RemoveWaiter
    <2>3. QED
      BY <2>1, <2>2 DEF GlobalCount
  <1>10. ASSUME NEW r \in Requests, DropPending(r)  PROVE GlobalCount'
    <2>1. GlobalHolders' = GlobalHolders
      BY <1>10 DEF DropPending, GlobalHolders, HoldsGlobal, Granted, TypeWeak, ControlInv, ExitInv, Asking
    <2>2. globalPermits' = globalPermits
      BY <1>10 DEF DropPending
    <2>3. QED
      BY <2>1, <2>2 DEF GlobalCount
  <1>11. ASSUME NEW r \in Requests, NotifyHead(r)  PROVE GlobalCount'
    <2>1. GlobalHolders' = GlobalHolders
      BY <1>11 DEF NotifyHead, GlobalHolders, HoldsGlobal, Granted, TypeWeak, ControlInv, ExitInv, Asking
    <2>2. globalPermits' = globalPermits
      BY <1>11 DEF NotifyHead
    <2>3. QED
      BY <2>1, <2>2 DEF GlobalCount
  <1>12. ASSUME NEW r \in Requests, NotifyOne(r)  PROVE GlobalCount'
    <2>1. GlobalHolders' = GlobalHolders
      BY <1>12 DEF NotifyOne, GlobalHolders, HoldsGlobal, Granted, TypeWeak, ControlInv, ExitInv, Asking
    <2>2. globalPermits' = globalPermits
      BY <1>12 DEF NotifyOne
    <2>3. QED
      BY <2>1, <2>2 DEF GlobalCount
  <1>13. ASSUME NEW r \in Requests, Grant(r)  PROVE GlobalCount'
    <2>1. GlobalHolders' = GlobalHolders
      BY <1>13 DEF Grant, GlobalHolders, HoldsGlobal, Granted, TypeWeak, ControlInv, ExitInv, Asking
    <2>2. globalPermits' = globalPermits
      BY <1>13 DEF Grant
    <2>3. QED
      BY <2>1, <2>2 DEF GlobalCount
  <1>14. ASSUME NEW r \in Requests, DropOrigin(r)  PROVE GlobalCount'
    <2>1. GlobalHolders' = GlobalHolders
      BY <1>14 DEF DropOrigin, GlobalHolders, HoldsGlobal, Granted, TypeWeak, ControlInv, ExitInv, Asking
    <2>2. globalPermits' = globalPermits
      BY <1>14 DEF DropOrigin
    <2>3. QED
      BY <2>1, <2>2 DEF GlobalCount
  <1>15. ASSUME NEW r \in Requests, DropGlobal(r)  PROVE GlobalCount'
    <2>1. GlobalHolders' = GlobalHolders \ {r} /\ r \in GlobalHolders
      BY <1>15 DEF DropGlobal, GlobalHolders, HoldsGlobal, Granted, TypeWeak, ControlInv, ExitInv, Asking
    <2>2. Cardinality(GlobalHolders') = Cardinality(GlobalHolders) - 1 /\ Cardinality(GlobalHolders) \in Nat
      BY <2>1, CountDown DEF GlobalHolders
    <2>3. globalPermits' = globalPermits + 1 /\ globalPermits \in Int
      BY <1>15 DEF DropGlobal, TypeWeak
    <2>4. QED
      BY <2>2, <2>3 DEF GlobalCount
  <1>16. ASSUME NEW r \in Requests, PoolTimeout(r)  PROVE GlobalCount'
    <2>1. GlobalHolders' = GlobalHolders
      BY <1>16 DEF PoolTimeout, GlobalHolders, HoldsGlobal, Granted, TypeWeak, ControlInv, ExitInv, Asking
    <2>2. globalPermits' = globalPermits
      BY <1>16 DEF PoolTimeout
    <2>3. QED
      BY <2>1, <2>2 DEF GlobalCount
  <1>17. ASSUME NEW r \in Requests, Cancel(r)  PROVE GlobalCount'
    <2>1. GlobalHolders' = GlobalHolders
      BY <1>17 DEF Cancel, GlobalHolders, HoldsGlobal, Granted, TypeWeak, ControlInv, ExitInv, Asking
    <2>2. globalPermits' = globalPermits
      BY <1>17 DEF Cancel
    <2>3. QED
      BY <2>1, <2>2 DEF GlobalCount
  <1>18. ASSUME NEW r \in Requests, Release(r)  PROVE GlobalCount'
    <2>1. GlobalHolders' = GlobalHolders
      BY <1>18 DEF Release, GlobalHolders, HoldsGlobal, Granted, TypeWeak, ControlInv, ExitInv, Asking
    <2>2. globalPermits' = globalPermits
      BY <1>18 DEF Release
    <2>3. QED
      BY <2>1, <2>2 DEF GlobalCount
  <1>19. CASE UNCHANGED vars
    BY <1>19 DEF vars, GlobalCount, GlobalHolders, HoldsGlobal, Granted
  <1>20. QED
    BY <1>1, <1>2, <1>3, <1>4, <1>5, <1>6, <1>7, <1>8, <1>9, <1>10, <1>11, <1>12, <1>13, <1>14, <1>15, <1>16, <1>17, <1>18, <1>19 DEF Next, TaskStep

(* active_requests of an origin counts its AcquirePermits after every step.  *)
LEMMA ActiveCountStep == ASSUME TypeWeak, ControlInv, ActiveCount, [Next]_vars  PROVE ActiveCount'
  <1> USE GateAssumption DEF Goto, semaphoreVars, queueVars, wakeVars, gaugeVars, counterVars
  <1>1. ASSUME NEW r \in Requests, NEW o \in Origins, StartAcquire(r, o)  PROVE ActiveCount'
    <2>1. \A x \in Origins : ActiveOn(x)' = ActiveOn(x)
      BY <1>1 DEF StartAcquire, ActiveOn, TypeWeak
    <2>2. activeRequests' = activeRequests
      BY <1>1 DEF StartAcquire
    <2>3. QED
      BY <2>1, <2>2 DEF ActiveCount
  <1>2. ASSUME NEW r \in Requests, ImmediateOrigin(r)  PROVE ActiveCount'
    <2>1. \A x \in Origins : ActiveOn(x)' = ActiveOn(x)
      BY <1>2 DEF ImmediateOrigin, ActiveOn, TypeWeak
    <2>2. activeRequests' = activeRequests
      BY <1>2 DEF ImmediateOrigin
    <2>3. QED
      BY <2>1, <2>2 DEF ActiveCount
  <1>3. ASSUME NEW r \in Requests, ImmediateGlobal(r)  PROVE ActiveCount'
    <2>1. \A x \in Origins : ActiveOn(x)' = ActiveOn(x)
      BY <1>3 DEF ImmediateGlobal, ActiveOn, TypeWeak
    <2>2. activeRequests' = activeRequests
      BY <1>3 DEF ImmediateGlobal
    <2>3. QED
      BY <2>1, <2>2 DEF ActiveCount
  <1>4. ASSUME NEW r \in Requests, Register(r)  PROVE ActiveCount'
    <2>1. \A x \in Origins : ActiveOn(x)' = ActiveOn(x)
      BY <1>4 DEF Register, ActiveOn, TypeWeak
    <2>2. activeRequests' = activeRequests
      BY <1>4 DEF Register
    <2>3. QED
      BY <2>1, <2>2 DEF ActiveCount
  <1>5. ASSUME NEW r \in Requests, QueueFull(r)  PROVE ActiveCount'
    <2>1. \A x \in Origins : ActiveOn(x)' = ActiveOn(x)
      BY <1>5 DEF QueueFull, ActiveOn, TypeWeak
    <2>2. activeRequests' = activeRequests
      BY <1>5 DEF QueueFull
    <2>3. QED
      BY <2>1, <2>2 DEF ActiveCount
  <1>6. ASSUME NEW r \in Requests, PollOrigin(r)  PROVE ActiveCount'
    <2>1. \A x \in Origins : ActiveOn(x)' = ActiveOn(x)
      BY <1>6 DEF PollOrigin, ActiveOn, TypeWeak
    <2>2. activeRequests' = activeRequests
      BY <1>6 DEF PollOrigin
    <2>3. QED
      BY <2>1, <2>2 DEF ActiveCount
  <1>7. ASSUME NEW r \in Requests, PollGlobal(r)  PROVE ActiveCount'
    <2>1. \A x \in Origins : ActiveOn(x)' = ActiveOn(x)
      BY <1>7 DEF PollGlobal, ActiveOn, TypeWeak
    <2>2. activeRequests' = activeRequests
      BY <1>7 DEF PollGlobal
    <2>3. QED
      BY <2>1, <2>2 DEF ActiveCount
  <1>8. ASSUME NEW r \in Requests, Wake(r)  PROVE ActiveCount'
    <2>1. \A x \in Origins : ActiveOn(x)' = ActiveOn(x)
      BY <1>8 DEF Wake, ActiveOn, TypeWeak
    <2>2. activeRequests' = activeRequests
      BY <1>8 DEF Wake
    <2>3. QED
      BY <2>1, <2>2 DEF ActiveCount
  <1>9. ASSUME NEW r \in Requests, RemoveWaiter(r)  PROVE ActiveCount'
    <2>1. \A x \in Origins : ActiveOn(x)' = ActiveOn(x)
      BY <1>9 DEF RemoveWaiter, ActiveOn, TypeWeak
    <2>2. activeRequests' = activeRequests
      BY <1>9 DEF RemoveWaiter
    <2>3. QED
      BY <2>1, <2>2 DEF ActiveCount
  <1>10. ASSUME NEW r \in Requests, DropPending(r)  PROVE ActiveCount'
    <2>1. \A x \in Origins : ActiveOn(x)' = ActiveOn(x)
      BY <1>10 DEF DropPending, ActiveOn, TypeWeak
    <2>2. activeRequests' = activeRequests
      BY <1>10 DEF DropPending
    <2>3. QED
      BY <2>1, <2>2 DEF ActiveCount
  <1>11. ASSUME NEW r \in Requests, NotifyHead(r)  PROVE ActiveCount'
    <2>1. \A x \in Origins : ActiveOn(x)' = ActiveOn(x)
      BY <1>11 DEF NotifyHead, ActiveOn, TypeWeak
    <2>2. activeRequests' = activeRequests
      BY <1>11 DEF NotifyHead
    <2>3. QED
      BY <2>1, <2>2 DEF ActiveCount
  <1>12. ASSUME NEW r \in Requests, NotifyOne(r)  PROVE ActiveCount'
    <2>1. \A x \in Origins : ActiveOn(x)' = ActiveOn(x)
      BY <1>12 DEF NotifyOne, ActiveOn, TypeWeak
    <2>2. activeRequests' = activeRequests
      BY <1>12 DEF NotifyOne
    <2>3. QED
      BY <2>1, <2>2 DEF ActiveCount
  <1>13. ASSUME NEW r \in Requests, Grant(r)  PROVE ActiveCount'
    <2>1. PICK o \in Origins : o = origin[r]
      BY <1>13 DEF Grant, ControlInv
    <2>2. /\ ActiveOn(o)' = ActiveOn(o) \cup {r} /\ r \notin ActiveOn(o)
          /\ \A x \in Origins \ {o} : ActiveOn(x)' = ActiveOn(x)
      BY <1>13, <2>1 DEF Grant, ActiveOn, TypeWeak
    <2>3. Cardinality(ActiveOn(o)') = Cardinality(ActiveOn(o)) + 1
      BY <2>2, CountUp DEF ActiveOn
    <2>4. /\ activeRequests'[o] = activeRequests[o] + 1
          /\ \A x \in Origins \ {o} : activeRequests'[x] = activeRequests[x]
      BY <1>13, <2>1 DEF Grant, TypeWeak
    <2>5. ASSUME NEW x \in Origins  PROVE activeRequests'[x] = Cardinality(ActiveOn(x)')
      BY <2>1, <2>2, <2>3, <2>4 DEF ActiveCount
    <2>6. QED
      BY <2>5 DEF ActiveCount
  <1>14. ASSUME NEW r \in Requests, DropOrigin(r)  PROVE ActiveCount'
    <2>1. \A x \in Origins : ActiveOn(x)' = ActiveOn(x)
      BY <1>14 DEF DropOrigin, ActiveOn, TypeWeak
    <2>2. activeRequests' = activeRequests
      BY <1>14 DEF DropOrigin
    <2>3. QED
      BY <2>1, <2>2 DEF ActiveCount
  <1>15. ASSUME NEW r \in Requests, DropGlobal(r)  PROVE ActiveCount'
    <2>1. \A x \in Origins : ActiveOn(x)' = ActiveOn(x)
      BY <1>15 DEF DropGlobal, ActiveOn, TypeWeak
    <2>2. activeRequests' = activeRequests
      BY <1>15 DEF DropGlobal
    <2>3. QED
      BY <2>1, <2>2 DEF ActiveCount
  <1>16. ASSUME NEW r \in Requests, PoolTimeout(r)  PROVE ActiveCount'
    <2>1. \A x \in Origins : ActiveOn(x)' = ActiveOn(x)
      BY <1>16 DEF PoolTimeout, ActiveOn, TypeWeak
    <2>2. activeRequests' = activeRequests
      BY <1>16 DEF PoolTimeout
    <2>3. QED
      BY <2>1, <2>2 DEF ActiveCount
  <1>17. ASSUME NEW r \in Requests, Cancel(r)  PROVE ActiveCount'
    <2>1. \A x \in Origins : ActiveOn(x)' = ActiveOn(x)
      BY <1>17 DEF Cancel, ActiveOn, TypeWeak
    <2>2. activeRequests' = activeRequests
      BY <1>17 DEF Cancel
    <2>3. QED
      BY <2>1, <2>2 DEF ActiveCount
  <1>18. ASSUME NEW r \in Requests, Release(r)  PROVE ActiveCount'
    <2>1. PICK o \in Origins : o = origin[r]
      BY <1>18 DEF Release, ControlInv
    <2>2. /\ ActiveOn(o)' = ActiveOn(o) \ {r} /\ r \in ActiveOn(o)
          /\ \A x \in Origins \ {o} : ActiveOn(x)' = ActiveOn(x)
      BY <1>18, <2>1 DEF Release, ActiveOn, TypeWeak
    <2>3. Cardinality(ActiveOn(o)') = Cardinality(ActiveOn(o)) - 1
      BY <2>2, CountDown DEF ActiveOn
    <2>4. /\ activeRequests'[o] = activeRequests[o] - 1
          /\ \A x \in Origins \ {o} : activeRequests'[x] = activeRequests[x]
      BY <1>18, <2>1 DEF Release, TypeWeak
    <2>5. ASSUME NEW x \in Origins  PROVE activeRequests'[x] = Cardinality(ActiveOn(x)')
      BY <2>1, <2>2, <2>3, <2>4 DEF ActiveCount
    <2>6. QED
      BY <2>5 DEF ActiveCount
  <1>19. CASE UNCHANGED vars
    BY <1>19 DEF vars, ActiveCount, ActiveOn
  <1>20. QED
    BY <1>1, <1>2, <1>3, <1>4, <1>5, <1>6, <1>7, <1>8, <1>9, <1>10, <1>11, <1>12, <1>13, <1>14, <1>15, <1>16, <1>17, <1>18, <1>19 DEF Next, TaskStep

(* pending_requests counts the PendingAcquires after every step.             *)
LEMMA PendingCountStep == ASSUME TypeWeak, ControlInv, PendingCount, [Next]_vars  PROVE PendingCount'
  <1> USE GateAssumption DEF Goto, semaphoreVars, queueVars, wakeVars, gaugeVars, counterVars
  <1>1. ASSUME NEW r \in Requests, NEW o \in Origins, StartAcquire(r, o)  PROVE PendingCount'
    <2>1. Pending' = Pending
      BY <1>1 DEF StartAcquire, Pending, Queued, TypeWeak, ControlInv, ExitInv, Asking
    <2>2. pendingRequests' = pendingRequests
      BY <1>1 DEF StartAcquire
    <2>3. QED
      BY <2>1, <2>2 DEF PendingCount
  <1>2. ASSUME NEW r \in Requests, ImmediateOrigin(r)  PROVE PendingCount'
    <2>1. Pending' = Pending
      BY <1>2 DEF ImmediateOrigin, Pending, Queued, TypeWeak, ControlInv, ExitInv, Asking
    <2>2. pendingRequests' = pendingRequests
      BY <1>2 DEF ImmediateOrigin
    <2>3. QED
      BY <2>1, <2>2 DEF PendingCount
  <1>3. ASSUME NEW r \in Requests, ImmediateGlobal(r)  PROVE PendingCount'
    <2>1. Pending' = Pending
      BY <1>3 DEF ImmediateGlobal, Pending, Queued, TypeWeak, ControlInv, ExitInv, Asking
    <2>2. pendingRequests' = pendingRequests
      BY <1>3 DEF ImmediateGlobal
    <2>3. QED
      BY <2>1, <2>2 DEF PendingCount
  <1>4. ASSUME NEW r \in Requests, Register(r)  PROVE PendingCount'
    <2>1. Pending' = Pending \cup {r} /\ r \notin Pending
      BY <1>4 DEF Register, Pending, Queued, TypeWeak, ControlInv, ExitInv, Asking
    <2>2. Cardinality(Pending') = Cardinality(Pending) + 1
      BY <2>1, CountUp DEF Pending
    <2>3. QED
      BY <1>4, <2>2 DEF Register, PendingCount
  <1>5. ASSUME NEW r \in Requests, QueueFull(r)  PROVE PendingCount'
    <2>1. Pending' = Pending
      BY <1>5 DEF QueueFull, Pending, Queued, TypeWeak, ControlInv, ExitInv, Asking
    <2>2. pendingRequests' = pendingRequests
      BY <1>5 DEF QueueFull
    <2>3. QED
      BY <2>1, <2>2 DEF PendingCount
  <1>6. ASSUME NEW r \in Requests, PollOrigin(r)  PROVE PendingCount'
    <2>1. Pending' = Pending
      BY <1>6 DEF PollOrigin, Pending, Queued, TypeWeak, ControlInv, ExitInv, Asking
    <2>2. pendingRequests' = pendingRequests
      BY <1>6 DEF PollOrigin
    <2>3. QED
      BY <2>1, <2>2 DEF PendingCount
  <1>7. ASSUME NEW r \in Requests, PollGlobal(r)  PROVE PendingCount'
    <2>1. Pending' = Pending
      BY <1>7 DEF PollGlobal, Pending, Queued, TypeWeak, ControlInv, ExitInv, Asking
    <2>2. pendingRequests' = pendingRequests
      BY <1>7 DEF PollGlobal
    <2>3. QED
      BY <2>1, <2>2 DEF PendingCount
  <1>8. ASSUME NEW r \in Requests, Wake(r)  PROVE PendingCount'
    <2>1. Pending' = Pending
      BY <1>8 DEF Wake, Pending, Queued, TypeWeak, ControlInv, ExitInv, Asking
    <2>2. pendingRequests' = pendingRequests
      BY <1>8 DEF Wake
    <2>3. QED
      BY <2>1, <2>2 DEF PendingCount
  <1>9. ASSUME NEW r \in Requests, RemoveWaiter(r)  PROVE PendingCount'
    <2>1. Pending' = Pending
      BY <1>9 DEF RemoveWaiter, Pending, Queued, TypeWeak, ControlInv, ExitInv, Asking
    <2>2. pendingRequests' = pendingRequests
      BY <1>9 DEF RemoveWaiter
    <2>3. QED
      BY <2>1, <2>2 DEF PendingCount
  <1>10. ASSUME NEW r \in Requests, DropPending(r)  PROVE PendingCount'
    <2>1. Pending' = Pending \ {r} /\ r \in Pending
      BY <1>10 DEF DropPending, Pending, Queued, TypeWeak, ControlInv, ExitInv, Asking
    <2>2. Cardinality(Pending') = Cardinality(Pending) - 1
      BY <2>1, CountDown DEF Pending
    <2>3. QED
      BY <1>10, <2>2 DEF DropPending, PendingCount
  <1>11. ASSUME NEW r \in Requests, NotifyHead(r)  PROVE PendingCount'
    <2>1. Pending' = Pending
      BY <1>11 DEF NotifyHead, Pending, Queued, TypeWeak, ControlInv, ExitInv, Asking
    <2>2. pendingRequests' = pendingRequests
      BY <1>11 DEF NotifyHead
    <2>3. QED
      BY <2>1, <2>2 DEF PendingCount
  <1>12. ASSUME NEW r \in Requests, NotifyOne(r)  PROVE PendingCount'
    <2>1. Pending' = Pending
      BY <1>12 DEF NotifyOne, Pending, Queued, TypeWeak, ControlInv, ExitInv, Asking
    <2>2. pendingRequests' = pendingRequests
      BY <1>12 DEF NotifyOne
    <2>3. QED
      BY <2>1, <2>2 DEF PendingCount
  <1>13. ASSUME NEW r \in Requests, Grant(r)  PROVE PendingCount'
    <2>1. Pending' = Pending
      BY <1>13 DEF Grant, Pending, Queued, TypeWeak, ControlInv, ExitInv, Asking
    <2>2. pendingRequests' = pendingRequests
      BY <1>13 DEF Grant
    <2>3. QED
      BY <2>1, <2>2 DEF PendingCount
  <1>14. ASSUME NEW r \in Requests, DropOrigin(r)  PROVE PendingCount'
    <2>1. Pending' = Pending
      BY <1>14 DEF DropOrigin, Pending, Queued, TypeWeak, ControlInv, ExitInv, Asking
    <2>2. pendingRequests' = pendingRequests
      BY <1>14 DEF DropOrigin
    <2>3. QED
      BY <2>1, <2>2 DEF PendingCount
  <1>15. ASSUME NEW r \in Requests, DropGlobal(r)  PROVE PendingCount'
    <2>1. Pending' = Pending
      BY <1>15 DEF DropGlobal, Pending, Queued, TypeWeak, ControlInv, ExitInv, Asking
    <2>2. pendingRequests' = pendingRequests
      BY <1>15 DEF DropGlobal
    <2>3. QED
      BY <2>1, <2>2 DEF PendingCount
  <1>16. ASSUME NEW r \in Requests, PoolTimeout(r)  PROVE PendingCount'
    <2>1. Pending' = Pending
      BY <1>16 DEF PoolTimeout, Pending, Queued, TypeWeak, ControlInv, ExitInv, Asking
    <2>2. pendingRequests' = pendingRequests
      BY <1>16 DEF PoolTimeout
    <2>3. QED
      BY <2>1, <2>2 DEF PendingCount
  <1>17. ASSUME NEW r \in Requests, Cancel(r)  PROVE PendingCount'
    <2>1. Pending' = Pending
      BY <1>17 DEF Cancel, Pending, Queued, TypeWeak, ControlInv, ExitInv, Asking
    <2>2. pendingRequests' = pendingRequests
      BY <1>17 DEF Cancel
    <2>3. QED
      BY <2>1, <2>2 DEF PendingCount
  <1>18. ASSUME NEW r \in Requests, Release(r)  PROVE PendingCount'
    <2>1. Pending' = Pending
      BY <1>18 DEF Release, Pending, Queued, TypeWeak, ControlInv, ExitInv, Asking
    <2>2. pendingRequests' = pendingRequests
      BY <1>18 DEF Release
    <2>3. QED
      BY <2>1, <2>2 DEF PendingCount
  <1>19. CASE UNCHANGED vars
    BY <1>19 DEF vars, PendingCount, Pending, Queued
  <1>20. QED
    BY <1>1, <1>2, <1>3, <1>4, <1>5, <1>6, <1>7, <1>8, <1>9, <1>10, <1>11, <1>12, <1>13, <1>14, <1>15, <1>16, <1>17, <1>18, <1>19 DEF Next, TaskStep

(* The permits of each origin semaphore and their holders add up to the      *)
(* limit after every step, a semaphore that is made anew included.           *)
LEMMA OriginCountStep == ASSUME TypeWeak, ControlInv, OriginCount, OriginLimited, [Next]_vars  PROVE OriginCount'
  <1> USE GateAssumption DEF Goto, semaphoreVars, queueVars, wakeVars, gaugeVars, counterVars
  <1>0. OriginLimited
    OBVIOUS
  <1>1. ASSUME NEW r \in Requests, NEW o \in Origins, StartAcquire(r, o)  PROVE OriginCount'
    <2>1. \A s \in Semaphores : OriginHolders(s)' = OriginHolders(s)
      BY <1>1 DEF StartAcquire, OriginSemaphore, ShareSemaphore, NewSemaphore, Alive, OriginHolders, HoldsOrigin, Granted, TypeWeak, ControlInv, ExitInv, Asking
    <2>2. CASE originPermits' = originPermits
      BY <2>1, <2>2 DEF OriginCount
    <2>3. ASSUME NEW s \in Semaphores, NewSemaphore(r, o, s)  PROVE OriginCount'
      <3>1. /\ \A x \in Semaphores \ {s} : originPermits'[x] = originPermits[x]
            /\ originPermits'[s] = MaxPerOrigin
        BY <2>3 DEF NewSemaphore, TypeWeak
      <3>2. OriginHolders(s) = {}
        BY <2>3 DEF NewSemaphore, Alive, OriginHolders
      <3>3. ASSUME NEW x \in Semaphores
            PROVE  originPermits'[x] + Cardinality(OriginHolders(x)') = MaxPerOrigin
        <4>1. CASE x = s
          BY <2>1, <3>1, <3>2, <4>1, FS_EmptySet, GateAssumption
        <4>2. CASE x # s
          BY <2>1, <3>1, <4>2 DEF OriginCount
        <4>3. QED
          BY <4>1, <4>2
      <3>4. QED
        BY <3>3 DEF OriginCount
    <2>4. QED
      BY <1>1, <1>0, <2>2, <2>3 DEF StartAcquire, OriginSemaphore, ShareSemaphore
  <1>2. ASSUME NEW r \in Requests, ImmediateOrigin(r)  PROVE OriginCount'
    <2>1. CASE ~(waiters = <<>> /\ OriginAvailable(r))
      <3>1. \A s \in Semaphores : OriginHolders(s)' = OriginHolders(s)
        BY <1>2, <2>1 DEF ImmediateOrigin, OriginHolders, HoldsOrigin, Granted, TypeWeak, ControlInv, ExitInv, Asking
      <3>2. originPermits' = originPermits
        BY <1>2, <2>1 DEF ImmediateOrigin
      <3>3. QED
        BY <3>1, <3>2 DEF OriginCount
    <2>2. CASE waiters = <<>> /\ OriginAvailable(r)
      <3>1. PICK s \in Semaphores : s = semaphore[r]
        BY <1>2, <2>2, <1>0 DEF ImmediateOrigin, OriginHolders, HoldsOrigin, Granted, TypeWeak, ControlInv, ExitInv, Asking
      <3>2. /\ OriginHolders(s)' = OriginHolders(s) \cup {r} /\ r \notin OriginHolders(s)
             /\ \A x \in Semaphores \ {s} : OriginHolders(x)' = OriginHolders(x)
        BY <1>2, <2>2, <1>0, <3>1 DEF ImmediateOrigin, OriginHolders, HoldsOrigin, Granted, TypeWeak, ControlInv, ExitInv, Asking
      <3>3. Cardinality(OriginHolders(s)') = Cardinality(OriginHolders(s)) + 1 /\ Cardinality(OriginHolders(s)) \in Nat
        BY <3>2, CountUp DEF OriginHolders
      <3>4. /\ originPermits'[s] = originPermits[s] - 1 /\ originPermits[s] \in Int
             /\ \A x \in Semaphores \ {s} : originPermits'[x] = originPermits[x]
        BY <1>2, <2>2, <1>0, <3>1 DEF ImmediateOrigin, TakeOrigin, TypeWeak
      <3>5. ASSUME NEW x \in Semaphores
             PROVE  originPermits'[x] + Cardinality(OriginHolders(x)') = MaxPerOrigin
        <4>1. CASE x = s
          BY <4>1, <3>3, <3>4, GateAssumption DEF OriginCount
        <4>2. CASE x # s
          BY <4>2, <3>2, <3>4 DEF OriginCount
        <4>3. QED
          BY <4>1, <4>2
      <3>6. QED
        BY <3>5 DEF OriginCount
    <2>3. QED
      BY <2>1, <2>2
  <1>3. ASSUME NEW r \in Requests, ImmediateGlobal(r)  PROVE OriginCount'
    <2>1. CASE globalPermits > 0
      <3>1. \A s \in Semaphores : OriginHolders(s)' = OriginHolders(s)
        BY <1>3, <2>1 DEF ImmediateGlobal, OriginHolders, HoldsOrigin, Granted, TypeWeak, ControlInv, ExitInv, Asking
      <3>2. originPermits' = originPermits
        BY <1>3, <2>1 DEF ImmediateGlobal
      <3>3. QED
        BY <3>1, <3>2 DEF OriginCount
    <2>2. CASE globalPermits = 0
      <3>1. PICK s \in Semaphores : s = semaphore[r]
        BY <1>3, <2>2, <1>0 DEF ImmediateGlobal, OriginHolders, HoldsOrigin, Granted, TypeWeak, ControlInv, ExitInv, Asking
      <3>2. /\ OriginHolders(s)' = OriginHolders(s) \ {r} /\ r \in OriginHolders(s)
             /\ \A x \in Semaphores \ {s} : OriginHolders(x)' = OriginHolders(x)
        BY <1>3, <2>2, <1>0, <3>1 DEF ImmediateGlobal, OriginHolders, HoldsOrigin, Granted, TypeWeak, ControlInv, ExitInv, Asking
      <3>3. Cardinality(OriginHolders(s)') = Cardinality(OriginHolders(s)) - 1 /\ Cardinality(OriginHolders(s)) \in Nat
        BY <3>2, CountDown DEF OriginHolders
      <3>4. /\ originPermits'[s] = originPermits[s] + 1 /\ originPermits[s] \in Int
             /\ \A x \in Semaphores \ {s} : originPermits'[x] = originPermits[x]
        BY <1>3, <2>2, <1>0, <3>1 DEF ImmediateGlobal, ReturnOrigin, TypeWeak
      <3>5. ASSUME NEW x \in Semaphores
             PROVE  originPermits'[x] + Cardinality(OriginHolders(x)') = MaxPerOrigin
        <4>1. CASE x = s
          BY <4>1, <3>3, <3>4, GateAssumption DEF OriginCount
        <4>2. CASE x # s
          BY <4>2, <3>2, <3>4 DEF OriginCount
        <4>3. QED
          BY <4>1, <4>2
      <3>6. QED
        BY <3>5 DEF OriginCount
    <2>3. QED
      BY <1>3, <2>1, <2>2 DEF ImmediateGlobal
  <1>4. ASSUME NEW r \in Requests, Register(r)  PROVE OriginCount'
    <2>1. \A s \in Semaphores : OriginHolders(s)' = OriginHolders(s)
      BY <1>4 DEF Register, OriginHolders, HoldsOrigin, Granted, TypeWeak, ControlInv, ExitInv, Asking
    <2>2. originPermits' = originPermits
      BY <1>4 DEF Register
    <2>3. QED
      BY <2>1, <2>2 DEF OriginCount
  <1>5. ASSUME NEW r \in Requests, QueueFull(r)  PROVE OriginCount'
    <2>1. \A s \in Semaphores : OriginHolders(s)' = OriginHolders(s)
      BY <1>5 DEF QueueFull, OriginHolders, HoldsOrigin, Granted, TypeWeak, ControlInv, ExitInv, Asking
    <2>2. originPermits' = originPermits
      BY <1>5 DEF QueueFull
    <2>3. QED
      BY <2>1, <2>2 DEF OriginCount
  <1>6. ASSUME NEW r \in Requests, PollOrigin(r)  PROVE OriginCount'
    <2>1. CASE ~(Head(waiters) = waiterId[r] /\ OriginAvailable(r))
      <3>1. \A s \in Semaphores : OriginHolders(s)' = OriginHolders(s)
        BY <1>6, <2>1 DEF PollOrigin, OriginHolders, HoldsOrigin, Granted, TypeWeak, ControlInv, ExitInv, Asking
      <3>2. originPermits' = originPermits
        BY <1>6, <2>1 DEF PollOrigin
      <3>3. QED
        BY <3>1, <3>2 DEF OriginCount
    <2>2. CASE Head(waiters) = waiterId[r] /\ OriginAvailable(r)
      <3>1. PICK s \in Semaphores : s = semaphore[r]
        BY <1>6, <2>2, <1>0 DEF PollOrigin, OriginHolders, HoldsOrigin, Granted, TypeWeak, ControlInv, ExitInv, Asking
      <3>2. /\ OriginHolders(s)' = OriginHolders(s) \cup {r} /\ r \notin OriginHolders(s)
             /\ \A x \in Semaphores \ {s} : OriginHolders(x)' = OriginHolders(x)
        BY <1>6, <2>2, <1>0, <3>1 DEF PollOrigin, OriginHolders, HoldsOrigin, Granted, TypeWeak, ControlInv, ExitInv, Asking
      <3>3. Cardinality(OriginHolders(s)') = Cardinality(OriginHolders(s)) + 1 /\ Cardinality(OriginHolders(s)) \in Nat
        BY <3>2, CountUp DEF OriginHolders
      <3>4. /\ originPermits'[s] = originPermits[s] - 1 /\ originPermits[s] \in Int
             /\ \A x \in Semaphores \ {s} : originPermits'[x] = originPermits[x]
        BY <1>6, <2>2, <1>0, <3>1 DEF PollOrigin, TakeOrigin, TypeWeak
      <3>5. ASSUME NEW x \in Semaphores
             PROVE  originPermits'[x] + Cardinality(OriginHolders(x)') = MaxPerOrigin
        <4>1. CASE x = s
          BY <4>1, <3>3, <3>4, GateAssumption DEF OriginCount
        <4>2. CASE x # s
          BY <4>2, <3>2, <3>4 DEF OriginCount
        <4>3. QED
          BY <4>1, <4>2
      <3>6. QED
        BY <3>5 DEF OriginCount
    <2>3. QED
      BY <2>1, <2>2
  <1>7. ASSUME NEW r \in Requests, PollGlobal(r)  PROVE OriginCount'
    <2>1. CASE globalPermits > 0
      <3>1. \A s \in Semaphores : OriginHolders(s)' = OriginHolders(s)
        BY <1>7, <2>1 DEF PollGlobal, OriginHolders, HoldsOrigin, Granted, TypeWeak, ControlInv, ExitInv, Asking
      <3>2. originPermits' = originPermits
        BY <1>7, <2>1 DEF PollGlobal
      <3>3. QED
        BY <3>1, <3>2 DEF OriginCount
    <2>2. CASE globalPermits = 0
      <3>1. PICK s \in Semaphores : s = semaphore[r]
        BY <1>7, <2>2, <1>0 DEF PollGlobal, OriginHolders, HoldsOrigin, Granted, TypeWeak, ControlInv, ExitInv, Asking
      <3>2. /\ OriginHolders(s)' = OriginHolders(s) \ {r} /\ r \in OriginHolders(s)
             /\ \A x \in Semaphores \ {s} : OriginHolders(x)' = OriginHolders(x)
        BY <1>7, <2>2, <1>0, <3>1 DEF PollGlobal, OriginHolders, HoldsOrigin, Granted, TypeWeak, ControlInv, ExitInv, Asking
      <3>3. Cardinality(OriginHolders(s)') = Cardinality(OriginHolders(s)) - 1 /\ Cardinality(OriginHolders(s)) \in Nat
        BY <3>2, CountDown DEF OriginHolders
      <3>4. /\ originPermits'[s] = originPermits[s] + 1 /\ originPermits[s] \in Int
             /\ \A x \in Semaphores \ {s} : originPermits'[x] = originPermits[x]
        BY <1>7, <2>2, <1>0, <3>1 DEF PollGlobal, ReturnOrigin, TypeWeak
      <3>5. ASSUME NEW x \in Semaphores
             PROVE  originPermits'[x] + Cardinality(OriginHolders(x)') = MaxPerOrigin
        <4>1. CASE x = s
          BY <4>1, <3>3, <3>4, GateAssumption DEF OriginCount
        <4>2. CASE x # s
          BY <4>2, <3>2, <3>4 DEF OriginCount
        <4>3. QED
          BY <4>1, <4>2
      <3>6. QED
        BY <3>5 DEF OriginCount
    <2>3. QED
      BY <1>7, <2>1, <2>2 DEF PollGlobal
  <1>8. ASSUME NEW r \in Requests, Wake(r)  PROVE OriginCount'
    <2>1. \A s \in Semaphores : OriginHolders(s)' = OriginHolders(s)
      BY <1>8 DEF Wake, OriginHolders, HoldsOrigin, Granted, TypeWeak, ControlInv, ExitInv, Asking
    <2>2. originPermits' = originPermits
      BY <1>8 DEF Wake
    <2>3. QED
      BY <2>1, <2>2 DEF OriginCount
  <1>9. ASSUME NEW r \in Requests, RemoveWaiter(r)  PROVE OriginCount'
    <2>1. \A s \in Semaphores : OriginHolders(s)' = OriginHolders(s)
      BY <1>9 DEF RemoveWaiter, OriginHolders, HoldsOrigin, Granted, TypeWeak, ControlInv, ExitInv, Asking
    <2>2. originPermits' = originPermits
      BY <1>9 DEF RemoveWaiter
    <2>3. QED
      BY <2>1, <2>2 DEF OriginCount
  <1>10. ASSUME NEW r \in Requests, DropPending(r)  PROVE OriginCount'
    <2>1. \A s \in Semaphores : OriginHolders(s)' = OriginHolders(s)
      BY <1>10 DEF DropPending, OriginHolders, HoldsOrigin, Granted, TypeWeak, ControlInv, ExitInv, Asking
    <2>2. originPermits' = originPermits
      BY <1>10 DEF DropPending
    <2>3. QED
      BY <2>1, <2>2 DEF OriginCount
  <1>11. ASSUME NEW r \in Requests, NotifyHead(r)  PROVE OriginCount'
    <2>1. \A s \in Semaphores : OriginHolders(s)' = OriginHolders(s)
      BY <1>11 DEF NotifyHead, OriginHolders, HoldsOrigin, Granted, TypeWeak, ControlInv, ExitInv, Asking
    <2>2. originPermits' = originPermits
      BY <1>11 DEF NotifyHead
    <2>3. QED
      BY <2>1, <2>2 DEF OriginCount
  <1>12. ASSUME NEW r \in Requests, NotifyOne(r)  PROVE OriginCount'
    <2>1. \A s \in Semaphores : OriginHolders(s)' = OriginHolders(s)
      BY <1>12 DEF NotifyOne, OriginHolders, HoldsOrigin, Granted, TypeWeak, ControlInv, ExitInv, Asking
    <2>2. originPermits' = originPermits
      BY <1>12 DEF NotifyOne
    <2>3. QED
      BY <2>1, <2>2 DEF OriginCount
  <1>13. ASSUME NEW r \in Requests, Grant(r)  PROVE OriginCount'
    <2>1. \A s \in Semaphores : OriginHolders(s)' = OriginHolders(s)
      BY <1>13 DEF Grant, OriginHolders, HoldsOrigin, Granted, TypeWeak, ControlInv, ExitInv, Asking
    <2>2. originPermits' = originPermits
      BY <1>13 DEF Grant
    <2>3. QED
      BY <2>1, <2>2 DEF OriginCount
  <1>14. ASSUME NEW r \in Requests, DropOrigin(r)  PROVE OriginCount'
    <2>1. PICK s \in Semaphores : s = semaphore[r]
      BY <1>14, <1>0 DEF DropOrigin, OriginHolders, HoldsOrigin, Granted, TypeWeak, ControlInv, ExitInv, Asking
    <2>2. /\ OriginHolders(s)' = OriginHolders(s) \ {r} /\ r \in OriginHolders(s)
           /\ \A x \in Semaphores \ {s} : OriginHolders(x)' = OriginHolders(x)
      BY <1>14, <1>0, <2>1 DEF DropOrigin, OriginHolders, HoldsOrigin, Granted, TypeWeak, ControlInv, ExitInv, Asking
    <2>3. Cardinality(OriginHolders(s)') = Cardinality(OriginHolders(s)) - 1 /\ Cardinality(OriginHolders(s)) \in Nat
      BY <2>2, CountDown DEF OriginHolders
    <2>4. /\ originPermits'[s] = originPermits[s] + 1 /\ originPermits[s] \in Int
           /\ \A x \in Semaphores \ {s} : originPermits'[x] = originPermits[x]
      BY <1>14, <1>0, <2>1 DEF DropOrigin, ReturnOrigin, TypeWeak
    <2>5. ASSUME NEW x \in Semaphores
           PROVE  originPermits'[x] + Cardinality(OriginHolders(x)') = MaxPerOrigin
      <3>1. CASE x = s
        BY <3>1, <2>3, <2>4, GateAssumption DEF OriginCount
      <3>2. CASE x # s
        BY <3>2, <2>2, <2>4 DEF OriginCount
      <3>3. QED
        BY <3>1, <3>2
    <2>6. QED
      BY <2>5 DEF OriginCount
  <1>15. ASSUME NEW r \in Requests, DropGlobal(r)  PROVE OriginCount'
    <2>1. \A s \in Semaphores : OriginHolders(s)' = OriginHolders(s)
      BY <1>15 DEF DropGlobal, OriginHolders, HoldsOrigin, Granted, TypeWeak, ControlInv, ExitInv, Asking
    <2>2. originPermits' = originPermits
      BY <1>15 DEF DropGlobal
    <2>3. QED
      BY <2>1, <2>2 DEF OriginCount
  <1>16. ASSUME NEW r \in Requests, PoolTimeout(r)  PROVE OriginCount'
    <2>1. \A s \in Semaphores : OriginHolders(s)' = OriginHolders(s)
      BY <1>16 DEF PoolTimeout, OriginHolders, HoldsOrigin, Granted, TypeWeak, ControlInv, ExitInv, Asking
    <2>2. originPermits' = originPermits
      BY <1>16 DEF PoolTimeout
    <2>3. QED
      BY <2>1, <2>2 DEF OriginCount
  <1>17. ASSUME NEW r \in Requests, Cancel(r)  PROVE OriginCount'
    <2>1. \A s \in Semaphores : OriginHolders(s)' = OriginHolders(s)
      BY <1>17 DEF Cancel, OriginHolders, HoldsOrigin, Granted, TypeWeak, ControlInv, ExitInv, Asking
    <2>2. originPermits' = originPermits
      BY <1>17 DEF Cancel
    <2>3. QED
      BY <2>1, <2>2 DEF OriginCount
  <1>18. ASSUME NEW r \in Requests, Release(r)  PROVE OriginCount'
    <2>1. \A s \in Semaphores : OriginHolders(s)' = OriginHolders(s)
      BY <1>18 DEF Release, OriginHolders, HoldsOrigin, Granted, TypeWeak, ControlInv, ExitInv, Asking
    <2>2. originPermits' = originPermits
      BY <1>18 DEF Release
    <2>3. QED
      BY <2>1, <2>2 DEF OriginCount
  <1>19. CASE UNCHANGED vars
    BY <1>19 DEF vars, OriginCount, OriginHolders, HoldsOrigin, Granted
  <1>20. QED
    BY <1>1, <1>2, <1>3, <1>4, <1>5, <1>6, <1>7, <1>8, <1>9, <1>10, <1>11, <1>12, <1>13, <1>14, <1>15, <1>16, <1>17, <1>18, <1>19 DEF Next, TaskStep

(* A request that waits has an entry in the queue. *)
LEMMA QueuedListed ==
  ASSUME QueueInv, NEW r \in Requests, Queued(r)  PROVE waiters # <<>> /\ waiterId[r] # 0
  BY DEF QueueInv, Listed

(* A step of a request that is not about to wake anybody disturbs no waker.   *)
LEMMA WakerStays ==
  ASSUME TypeWeak, NEW r \in Requests, NEW step, NEW id,
         pc[r] \notin {"dropGlobal", "dropPending", "notify", "notifySend"},
         pc' = [pc EXCEPT ![r] = step], target' = target,
         WakerOnTheWay(id)
  PROVE  WakerOnTheWay(id)'
  <1>1. PICK w \in Requests : \/ pc[w] \in {"dropGlobal", "dropPending", "notify"}
                              \/ pc[w] = "notifySend" /\ target[w] = id
    BY DEF WakerOnTheWay
  <1>2. w # r /\ pc'[w] = pc[w]
    BY <1>1 DEF TypeWeak
  <1>3. QED
    BY <1>1, <1>2 DEF WakerOnTheWay

(* A request that becomes a waker serves whoever is at the head.              *)
LEMMA NewWaker ==
  ASSUME NEW r \in Requests, pc'[r] \in {"dropGlobal", "dropPending", "notify"}
  PROVE  NoLostWakeup'
  BY DEF NoLostWakeup, WakerOnTheWay

(* A step that leaves every waiter, the queue and the wake-ups alone, and     *)
(* gives no waiter a permit it could not have had, keeps NoLostWakeup.        *)
LEMMA WakeupFrame ==
  ASSUME TypeWeak, NoLostWakeup, NEW r \in Requests, NEW step,
         pc[r] \notin {"dropGlobal", "dropPending", "notify", "notifySend"}, step # "await",
         pc' = [pc EXCEPT ![r] = step], target' = target,
         \A q \in Requests \ {r} : pc[q] = "await" =>
           /\ waiterId'[q] = waiterId[q]
           /\ waiterId[q] \in notified => waiterId[q] \in notified'
           /\ Head(waiters') = waiterId[q] => Head(waiters) = waiterId[q]
           /\ OriginAvailable(q)' /\ globalPermits' > 0 => OriginAvailable(q) /\ globalPermits > 0
  PROVE  NoLostWakeup'
  <1> SUFFICES ASSUME NEW q \in Requests, pc'[q] = "await", Head(waiters') = waiterId'[q],
                      OriginAvailable(q)', globalPermits' > 0
               PROVE  waiterId'[q] \in notified' \/ WakerOnTheWay(waiterId[q])'
    BY DEF NoLostWakeup
  <1>1. q # r /\ pc[q] = "await"
    BY DEF TypeWeak
  <1>2. PICK id : id = waiterId[q]
    OBVIOUS
  <1>3. id \in notified \/ WakerOnTheWay(id)
    BY <1>1, <1>2 DEF NoLostWakeup
  <1>4. WakerOnTheWay(id) => WakerOnTheWay(id)'
    BY WakerStays
  <1>5. id = waiterId'[q]
    BY <1>1, <1>2
  <1>6. QED
    BY <1>1, <1>2, <1>3, <1>4, <1>5

(* No step frees capacity for the head of the queue, or makes a waiter the   *)
(* head, without a wake-up on the way to it.                                 *)
LEMMA WakeupStep == ASSUME TypeWeak, ControlInv, QueueInv, NoLostWakeup, [Next]_vars  PROVE NoLostWakeup'
  <1> USE GateAssumption DEF Goto, semaphoreVars, queueVars, wakeVars, gaugeVars, counterVars
  <1>1. ASSUME NEW r \in Requests, NEW o \in Origins, StartAcquire(r, o)  PROVE NoLostWakeup'
    <2>1. /\ pc[r] \notin {"dropGlobal", "dropPending", "notify", "notifySend"}
          /\ pc' = [pc EXCEPT ![r] = "immediate"] /\ target' = target
      BY <1>1 DEF StartAcquire
    <2>2a. ASSUME NEW q \in Requests \ {r}, pc[q] = "await"
           PROVE  OriginAvailable(q)' => OriginAvailable(q)
      <3>1. semaphore'[q] = semaphore[q] /\ Alive(semaphore[q])
        BY <1>1 DEF StartAcquire, OriginSemaphore, ShareSemaphore, NewSemaphore, Alive, TypeWeak
      <3>2. OriginLimited => originPermits'[semaphore[q]] = originPermits[semaphore[q]]
        BY <1>1, <3>1, <2>2a, GateAssumption
           DEF StartAcquire, OriginSemaphore, ShareSemaphore, NewSemaphore, TypeWeak, ControlInv, Asking
      <3>3. QED
        BY <3>1, <3>2 DEF OriginAvailable
    <2>2. \A q \in Requests \ {r} : pc[q] = "await" =>
            /\ UNCHANGED <<waiters, notified, globalPermits>> /\ waiterId'[q] = waiterId[q]
            /\ OriginAvailable(q)' => OriginAvailable(q)
      BY <1>1, <2>2a DEF StartAcquire
    <2>3. QED
      BY <2>1, <2>2, WakeupFrame
  <1>2. ASSUME NEW r \in Requests, ImmediateOrigin(r)  PROVE NoLostWakeup'
    <2>1. CASE waiters = <<>>
      <3>1. \A q \in Requests : pc'[q] # "await"
        BY <1>2, <2>1, QueuedListed DEF ImmediateOrigin, Queued, TypeWeak
      <3>2. QED
        BY <3>1 DEF NoLostWakeup
    <2>2. CASE waiters # <<>>
      <3>1. /\ pc[r] \notin {"dropGlobal", "dropPending", "notify", "notifySend"}
            /\ pc' = [pc EXCEPT ![r] = "register"] /\ target' = target
            /\ UNCHANGED <<waiters, waiterId, notified, semaphore, originPermits, globalPermits>>
        BY <1>2, <2>2 DEF ImmediateOrigin
      <3>2. QED
        BY <3>1, WakeupFrame DEF OriginAvailable
    <2>3. QED
      BY <2>1, <2>2
  <1>3. ASSUME NEW r \in Requests, ImmediateGlobal(r)  PROVE NoLostWakeup'
    <2>1. waiters = <<>>
      BY <1>3 DEF ImmediateGlobal, QueueInv
    <2>2. \A q \in Requests : pc'[q] # "await"
      BY <1>3, <2>1, QueuedListed DEF ImmediateGlobal, Queued, TypeWeak
    <2>3. QED
      BY <2>2 DEF NoLostWakeup
  <1>4. ASSUME NEW r \in Requests, Register(r)  PROVE NoLostWakeup'
    <2>1. /\ pc[r] \notin {"dropGlobal", "dropPending", "notify", "notifySend"}
          /\ pc' = [pc EXCEPT ![r] = "poll"] /\ target' = target
      BY <1>4 DEF Register
    <2>2a. ASSUME NEW q \in Requests \ {r}, pc[q] = "await"  PROVE Head(waiters') = Head(waiters)
      <3>1. waiters # <<>> /\ waiters \in Seq(Nat \ {0}) /\ nextWaiterId \in Nat \ {0}
        BY <2>2a, QueuedListed DEF Queued, QueueInv
      <3>2. QED
        BY <1>4, <3>1 DEF Register
    <2>2. \A q \in Requests \ {r} : pc[q] = "await" =>
            /\ UNCHANGED <<semaphore, originPermits, notified, globalPermits>>
            /\ waiterId'[q] = waiterId[q] /\ Head(waiters') = Head(waiters)
            /\ OriginAvailable(q)' => OriginAvailable(q)
      BY <1>4, <2>2a DEF Register, QueueInv, OriginAvailable
    <2>3. QED
      BY <2>1, <2>2, WakeupFrame
  <1>5. ASSUME NEW r \in Requests, QueueFull(r)  PROVE NoLostWakeup'
    <2>1. /\ pc[r] \notin {"dropGlobal", "dropPending", "notify", "notifySend"}
          /\ pc' = [pc EXCEPT ![r] = "idle"] /\ target' = target
      BY <1>5 DEF QueueFull
    <2>2. \A q \in Requests \ {r} : pc[q] = "await" =>
            /\ UNCHANGED <<waiters, notified>> /\ waiterId'[q] = waiterId[q]
            /\ OriginAvailable(q)' /\ globalPermits' > 0 => OriginAvailable(q) /\ globalPermits > 0
      BY <1>5 DEF QueueFull, OriginAvailable, TypeWeak
    <2>3. QED
      BY <2>1, <2>2, WakeupFrame
  <1>6. ASSUME NEW r \in Requests, PollOrigin(r)  PROVE NoLostWakeup'
    <2>1. CASE Head(waiters) = waiterId[r] /\ OriginAvailable(r)
      <3>1. /\ pc[r] \notin {"dropGlobal", "dropPending", "notify", "notifySend"} /\ Queued(r)
            /\ pc' = [pc EXCEPT ![r] = "pollGlobal"] /\ target' = target
            /\ UNCHANGED <<waiters, waiterId, notified>>
        BY <1>6, <2>1 DEF PollOrigin, Queued
      <3>2. \A q \in Requests \ {r} : waiterId[q] # Head(waiters)
        BY <2>1, <3>1, QueuedListed DEF QueueInv
      <3>3. \A q \in Requests : pc'[q] = "await" => Head(waiters') # waiterId'[q]
        BY <3>1, <3>2 DEF TypeWeak
      <3>4. QED
        BY <3>3 DEF NoLostWakeup
    <2>2. CASE ~(Head(waiters) = waiterId[r] /\ OriginAvailable(r))
      <3>1. /\ pc[r] \notin {"dropGlobal", "dropPending", "notify", "notifySend"}
            /\ pc' = [pc EXCEPT ![r] = "await"] /\ target' = target
            /\ UNCHANGED <<waiters, waiterId, notified, semaphore, originPermits, globalPermits>>
        BY <1>6, <2>2 DEF PollOrigin
      <3> SUFFICES ASSUME NEW q \in Requests, pc'[q] = "await", Head(waiters') = waiterId'[q],
                          OriginAvailable(q)', globalPermits' > 0
                   PROVE  waiterId'[q] \in notified' \/ WakerOnTheWay(waiterId[q])'
        BY DEF NoLostWakeup
      <3>2. Head(waiters) = waiterId[q] /\ OriginAvailable(q) /\ globalPermits > 0
        BY <3>1 DEF OriginAvailable
      <3>3. q # r /\ pc[q] = "await"
        BY <2>2, <3>1, <3>2 DEF TypeWeak
      <3>4. PICK id : id = waiterId[q]
        OBVIOUS
      <3>5. id \in notified \/ WakerOnTheWay(id)
        BY <3>2, <3>3, <3>4 DEF NoLostWakeup
      <3>6. WakerOnTheWay(id) => WakerOnTheWay(id)'
        BY <3>1, WakerStays
      <3>7. QED
        BY <3>1, <3>4, <3>5, <3>6
    <2>3. QED
      BY <2>1, <2>2
  <1>7. ASSUME NEW r \in Requests, PollGlobal(r)  PROVE NoLostWakeup'
    <2>1. CASE globalPermits > 0
      BY <1>7, <2>1, NewWaker DEF PollGlobal, TypeWeak
    <2>2. CASE globalPermits = 0
      BY <1>7, <2>2 DEF PollGlobal, NoLostWakeup
    <2>3. QED
      BY <1>7, <2>1, <2>2 DEF PollGlobal
  <1>8. ASSUME NEW r \in Requests, Wake(r)  PROVE NoLostWakeup'
    <2>1. /\ pc[r] \notin {"dropGlobal", "dropPending", "notify", "notifySend"}
          /\ pc' = [pc EXCEPT ![r] = "poll"] /\ target' = target
      BY <1>8 DEF Wake
    <2>2. \A q \in Requests \ {r} : pc[q] = "await" =>
            /\ UNCHANGED <<waiters, waiterId, semaphore, originPermits, globalPermits>>
            /\ waiterId[q] \in notified => waiterId[q] \in notified'
            /\ OriginAvailable(q)' => OriginAvailable(q)
      BY <1>8, QueuedListed DEF Wake, QueueInv, Queued, OriginAvailable
    <2>3. QED
      BY <2>1, <2>2, WakeupFrame
  <1>9. ASSUME NEW r \in Requests, RemoveWaiter(r)  PROVE NoLostWakeup'
    BY <1>9, NewWaker DEF RemoveWaiter, TypeWeak
  <1>10. ASSUME NEW r \in Requests, DropPending(r)  PROVE NoLostWakeup'
    BY <1>10, NewWaker DEF DropPending, TypeWeak
  <1>11. ASSUME NEW r \in Requests, NotifyHead(r)  PROVE NoLostWakeup'
    <2>1. /\ pc' = [pc EXCEPT ![r] = "notifySend"] /\ pc[r] = "notify"
          /\ UNCHANGED <<waiters, waiterId, notified>>
          /\ waiters # <<>> => target'[r] = Head(waiters)
      BY <1>11 DEF NotifyHead, QueueInv
    <2>2. ASSUME NEW q \in Requests, pc'[q] = "await", Head(waiters') = waiterId'[q]
          PROVE  WakerOnTheWay(waiterId[q])'
      <3>1. waiters # <<>>
        BY <2>1, <2>2, QueuedListed DEF Queued, TypeWeak
      <3>2. QED
        BY <2>1, <2>2, <3>1 DEF WakerOnTheWay, TypeWeak
    <2>3. QED
      BY <2>2 DEF NoLostWakeup
  <1>12. ASSUME NEW r \in Requests, NotifyOne(r)  PROVE NoLostWakeup'
    <2>1. /\ pc[r] = "notifySend" /\ pc'[r] # "await"
          /\ \A q \in Requests \ {r} : pc'[q] = pc[q] /\ target'[q] = target[q]
          /\ UNCHANGED <<waiters, waiterId, semaphore, originPermits, globalPermits>>
      BY <1>12 DEF NotifyOne, TypeWeak, QueueInv
    <2>2. /\ notified \subseteq notified'
          /\ \A q \in Requests : waiterId[q] = target[r] /\ waiterId[q] # 0 => waiterId[q] \in notified'
      BY <1>12 DEF NotifyOne
    <2> SUFFICES ASSUME NEW q \in Requests, pc'[q] = "await", Head(waiters') = waiterId'[q],
                        OriginAvailable(q)', globalPermits' > 0
                 PROVE  waiterId'[q] \in notified' \/ WakerOnTheWay(waiterId[q])'
      BY DEF NoLostWakeup
    <2>3. /\ pc[q] = "await" /\ Head(waiters) = waiterId[q]
          /\ OriginAvailable(q) /\ globalPermits > 0 /\ waiterId[q] # 0
      BY <2>1, QueuedListed DEF OriginAvailable, Queued
    <2>4. CASE waiterId[q] \in notified \/ waiterId[q] = target[r]
      BY <2>1, <2>2, <2>3, <2>4
    <2>5. CASE waiterId[q] # target[r] /\ WakerOnTheWay(waiterId[q])
      <3>1. PICK w \in Requests : \/ pc[w] \in {"dropGlobal", "dropPending", "notify"}
                                  \/ pc[w] = "notifySend" /\ target[w] = waiterId[q]
        BY <2>5 DEF WakerOnTheWay
      <3>2. w # r
        BY <2>1, <2>5, <3>1
      <3>3. QED
        BY <2>1, <3>1, <3>2 DEF WakerOnTheWay
    <2>6. QED
      BY <2>3, <2>4, <2>5 DEF NoLostWakeup
  <1>13. ASSUME NEW r \in Requests, Grant(r)  PROVE NoLostWakeup'
    <2>1. /\ pc[r] \notin {"dropGlobal", "dropPending", "notify", "notifySend"}
          /\ pc' = [pc EXCEPT ![r] = "active"] /\ target' = target
      BY <1>13 DEF Grant
    <2>2. \A q \in Requests \ {r} : pc[q] = "await" =>
            /\ UNCHANGED <<waiters, notified>> /\ waiterId'[q] = waiterId[q]
            /\ OriginAvailable(q)' /\ globalPermits' > 0 => OriginAvailable(q) /\ globalPermits > 0
      BY <1>13 DEF Grant, OriginAvailable, TypeWeak
    <2>3. QED
      BY <2>1, <2>2, WakeupFrame
  <1>14. ASSUME NEW r \in Requests, DropOrigin(r)  PROVE NoLostWakeup'
    BY <1>14, NewWaker DEF DropOrigin, TypeWeak
  <1>15. ASSUME NEW r \in Requests, DropGlobal(r)  PROVE NoLostWakeup'
    BY <1>15, NewWaker DEF DropGlobal, TypeWeak
  <1>16. ASSUME NEW r \in Requests, PoolTimeout(r)  PROVE NoLostWakeup'
    <2>1. /\ pc[r] \notin {"dropGlobal", "dropPending", "notify", "notifySend"}
          /\ pc' = [pc EXCEPT ![r] = "dropWaiter"] /\ target' = target
      BY <1>16 DEF PoolTimeout
    <2>2. \A q \in Requests \ {r} : pc[q] = "await" =>
            /\ UNCHANGED <<waiters, notified>> /\ waiterId'[q] = waiterId[q]
            /\ OriginAvailable(q)' /\ globalPermits' > 0 => OriginAvailable(q) /\ globalPermits > 0
      BY <1>16 DEF PoolTimeout, OriginAvailable, TypeWeak
    <2>3. QED
      BY <2>1, <2>2, WakeupFrame
  <1>17. ASSUME NEW r \in Requests, Cancel(r)  PROVE NoLostWakeup'
    <2>1. /\ pc[r] \notin {"dropGlobal", "dropPending", "notify", "notifySend"}
          /\ pc' = [pc EXCEPT ![r] = "dropWaiter"] /\ target' = target
      BY <1>17 DEF Cancel
    <2>2. \A q \in Requests \ {r} : pc[q] = "await" =>
            /\ UNCHANGED <<waiters, notified>> /\ waiterId'[q] = waiterId[q]
            /\ OriginAvailable(q)' /\ globalPermits' > 0 => OriginAvailable(q) /\ globalPermits > 0
      BY <1>17 DEF Cancel, OriginAvailable, TypeWeak
    <2>3. QED
      BY <2>1, <2>2, WakeupFrame
  <1>18. ASSUME NEW r \in Requests, Release(r)  PROVE NoLostWakeup'
    <2>1. /\ pc[r] \notin {"dropGlobal", "dropPending", "notify", "notifySend"}
          /\ pc' = [pc EXCEPT ![r] = "dropOrigin"] /\ target' = target
      BY <1>18 DEF Release
    <2>2. \A q \in Requests \ {r} : pc[q] = "await" =>
            /\ UNCHANGED <<waiters, notified>> /\ waiterId'[q] = waiterId[q]
            /\ OriginAvailable(q)' /\ globalPermits' > 0 => OriginAvailable(q) /\ globalPermits > 0
      BY <1>18 DEF Release, OriginAvailable, TypeWeak
    <2>3. QED
      BY <2>1, <2>2, WakeupFrame
  <1>19. CASE UNCHANGED vars
    BY <1>19 DEF vars, NoLostWakeup, WakerOnTheWay, OriginAvailable
  <1>20. QED
    BY <1>1, <1>2, <1>3, <1>4, <1>5, <1>6, <1>7, <1>8, <1>9, <1>10, <1>11, <1>12, <1>13, <1>14, <1>15, <1>16, <1>17, <1>18, <1>19 DEF Next, TaskStep

(* Without a per-origin limit no step touches an origin semaphore.           *)
LEMMA UnlimitedCountStep ==
  ASSUME ~OriginLimited, OriginCount, [Next]_vars  PROVE OriginCount'
  <1>1. originPermits' = originPermits
    BY DEF Next, TaskStep, vars, OriginSemaphore, ShareSemaphore, NewSemaphore, TakeOrigin,
           ReturnOrigin, semaphoreVars,
           StartAcquire, ImmediateOrigin, ImmediateGlobal, Register, QueueFull, PollOrigin,
           PollGlobal, Wake, RemoveWaiter, DropPending,
           NotifyHead, NotifyOne, Grant, DropOrigin, DropGlobal, PoolTimeout, Cancel, Release
  <1>2. \A s \in Semaphores : OriginHolders(s) = {} /\ OriginHolders(s)' = {}
    BY DEF OriginHolders, HoldsOrigin
  <1>3. QED
    BY <1>1, <1>2 DEF OriginCount

(* try_acquire only takes a permit that is there. *)
NonNegative == globalPermits >= 0 /\ \A s \in Semaphores : originPermits[s] >= 0

(* try_acquire never takes a permit that is not there.                       *)
LEMMA NonNegativeStep == ASSUME TypeWeak, ControlInv, NonNegative, [Next]_vars  PROVE NonNegative'
  <1> USE GateAssumption DEF NonNegative, TypeWeak,
          Goto, semaphoreVars, queueVars, wakeVars, gaugeVars, counterVars
  <1>1. ASSUME NEW r \in Requests, NEW o \in Origins, StartAcquire(r, o)  PROVE NonNegative'
    <2>1. globalPermits' = globalPermits
      BY <1>1 DEF StartAcquire
    <2>2. \A s \in Semaphores : originPermits'[s] >= 0
      BY <1>1 DEF StartAcquire, OriginSemaphore, ShareSemaphore, NewSemaphore
    <2>3. QED
      BY <2>1, <2>2
  <1>2. ASSUME NEW r \in Requests, ImmediateOrigin(r)  PROVE NonNegative'
    <2>1. globalPermits' = globalPermits
      BY <1>2 DEF ImmediateOrigin
    <2>2. CASE UNCHANGED originPermits
      BY <2>1, <2>2
    <2>3. CASE OriginLimited /\ TakeOrigin(r) /\ OriginAvailable(r)
      <3>1. \A s \in Semaphores : originPermits'[s] = IF s = semaphore[r] THEN originPermits[s] - 1
                                                       ELSE originPermits[s]
        BY <2>3 DEF TakeOrigin
      <3>2. originPermits[semaphore[r]] > 0
        BY <2>3 DEF OriginAvailable
      <3>3. QED
        BY <2>1, <3>1, <3>2
    <2>4. QED
      BY <1>2, <2>2, <2>3 DEF ImmediateOrigin, TakeOrigin
  <1>3. ASSUME NEW r \in Requests, ImmediateGlobal(r)  PROVE NonNegative'
    <2>1. globalPermits' >= 0
      BY <1>3 DEF ImmediateGlobal
    <2>2. \A s \in Semaphores : originPermits'[s] >= 0
      BY <1>3 DEF ImmediateGlobal, ReturnOrigin
    <2>3. QED
      BY <2>1, <2>2
  <1>4. ASSUME NEW r \in Requests, Register(r)  PROVE NonNegative'
    BY <1>4 DEF Register, Max2
  <1>5. ASSUME NEW r \in Requests, QueueFull(r)  PROVE NonNegative'
    BY <1>5 DEF QueueFull
  <1>6. ASSUME NEW r \in Requests, PollOrigin(r)  PROVE NonNegative'
    BY <1>6 DEF PollOrigin, TakeOrigin, OriginAvailable, ControlInv, Asking
  <1>7. ASSUME NEW r \in Requests, PollGlobal(r)  PROVE NonNegative'
    <2>1. globalPermits' >= 0
      BY <1>7 DEF PollGlobal
    <2>2. \A s \in Semaphores : originPermits'[s] >= 0
      <3>1. CASE UNCHANGED originPermits
        BY <3>1
      <3>2. CASE OriginLimited /\ ReturnOrigin(r)
        BY <3>2 DEF ReturnOrigin
      <3>3. QED
        BY <1>7, <3>1, <3>2 DEF PollGlobal, ReturnOrigin
    <2>3. QED
      BY <2>1, <2>2
  <1>8. ASSUME NEW r \in Requests, Wake(r)  PROVE NonNegative'
    BY <1>8 DEF Wake
  <1>9. ASSUME NEW r \in Requests, RemoveWaiter(r)  PROVE NonNegative'
    BY <1>9 DEF RemoveWaiter
  <1>10. ASSUME NEW r \in Requests, DropPending(r)  PROVE NonNegative'
    BY <1>10 DEF DropPending
  <1>11. ASSUME NEW r \in Requests, NotifyHead(r)  PROVE NonNegative'
    BY <1>11 DEF NotifyHead
  <1>12. ASSUME NEW r \in Requests, NotifyOne(r)  PROVE NonNegative'
    BY <1>12 DEF NotifyOne
  <1>13. ASSUME NEW r \in Requests, Grant(r)  PROVE NonNegative'
    BY <1>13 DEF Grant
  <1>14. ASSUME NEW r \in Requests, DropOrigin(r)  PROVE NonNegative'
    <2>1. globalPermits' >= 0
      BY <1>14 DEF DropOrigin
    <2>2. \A s \in Semaphores : originPermits'[s] >= 0
      BY <1>14 DEF DropOrigin, ReturnOrigin
    <2>3. QED
      BY <2>1, <2>2
  <1>15. ASSUME NEW r \in Requests, DropGlobal(r)  PROVE NonNegative'
    BY <1>15 DEF DropGlobal
  <1>16. ASSUME NEW r \in Requests, PoolTimeout(r)  PROVE NonNegative'
    BY <1>16 DEF PoolTimeout
  <1>17. ASSUME NEW r \in Requests, Cancel(r)  PROVE NonNegative'
    BY <1>17 DEF Cancel
  <1>18. ASSUME NEW r \in Requests, Release(r)  PROVE NonNegative'
    BY <1>18 DEF Release
  <1>19. CASE UNCHANGED vars
    BY <1>19 DEF vars
  <1>20. QED
    BY <1>1, <1>2, <1>3, <1>4, <1>5, <1>6, <1>7, <1>8, <1>9, <1>10, <1>11, <1>12, <1>13, <1>14, <1>15, <1>16, <1>17, <1>18, <1>19 DEF Next, TaskStep

--------------------------------------------------------------------------------
(* The inductive invariant.  PermitsConserved, the limits and NoLostWakeup    *)
(* are about counts and wake-ups; they are inductive only together with what  *)
(* the program counters, the mutex and the queue say about each other.        *)
IInv == /\ TypeWeak /\ ControlInv /\ GateInv /\ QueueInv
        /\ GlobalCount /\ OriginCount /\ ActiveCount /\ PendingCount /\ NonNegative
        /\ NoLostWakeup

(* The inductive invariant holds initially.                                  *)
(* A new gate satisfies the inductive invariant. *)
LEMMA InitIInv == Init => IInv
  <1> SUFFICES ASSUME Init PROVE IInv
    OBVIOUS
  <1> USE GateAssumption DEF Init
  <1>1. TypeWeak /\ ControlInv
    BY ControlInit
  <1>2. GateInv /\ NonNegative /\ NoLostWakeup
    BY DEF GateInv, NonNegative, NoLostWakeup
  <1>3. QueueInv
    BY DEF QueueInv, InOrder, Below, Queued
  <1>4. /\ GlobalHolders = {} /\ Pending = {}
        /\ \A s \in Semaphores : OriginHolders(s) = {}
        /\ \A o \in Origins : ActiveOn(o) = {}
    BY DEF GlobalHolders, HoldsGlobal, Granted, Pending, Queued, OriginHolders, HoldsOrigin, ActiveOn
  <1>5. GlobalCount /\ OriginCount /\ ActiveCount /\ PendingCount
    <2>1. Cardinality({}) = 0
      BY FS_EmptySet
    <2>2. GlobalCount
      BY <1>4, <2>1 DEF GlobalCount
    <2>3. OriginCount
      <3>1. ASSUME NEW s \in Semaphores
            PROVE  originPermits[s] + Cardinality(OriginHolders(s)) = MaxPerOrigin
        <4>1. OriginHolders(s) = {} /\ originPermits[s] = MaxPerOrigin
          BY <1>4
        <4>2. QED
          BY <2>1, <4>1
      <3>2. QED
        BY <3>1 DEF OriginCount
    <2>4. ActiveCount
      BY <1>4, <2>1 DEF ActiveCount
    <2>5. PendingCount
      BY <1>4, <2>1 DEF PendingCount
    <2>6. QED
      BY <2>2, <2>3, <2>4, <2>5
  <1>6. QED
    BY <1>1, <1>2, <1>3, <1>5 DEF IInv

(* Every step keeps the inductive invariant.                                 *)
(* Every step of every request keeps the inductive invariant. *)
LEMMA NextIInv == IInv /\ [Next]_vars => IInv'
  <1> SUFFICES ASSUME IInv, [Next]_vars  PROVE IInv'
    OBVIOUS
  <1> USE DEF IInv
  <1>1. TypeWeak' /\ ControlInv' /\ GateInv' /\ QueueInv'
    BY TypeWeakStep, ControlStep, GateStep, QueueStep
  <1>2. GlobalCount' /\ ActiveCount' /\ PendingCount' /\ NonNegative'
    BY GlobalCountStep, ActiveCountStep, PendingCountStep, NonNegativeStep
  <1>3. OriginCount'
    BY OriginCountStep, UnlimitedCountStep
  <1>4. NoLostWakeup'
    BY WakeupStep
  <1>5. QED
    BY <1>1, <1>2, <1>3, <1>4

(* The inductive invariant holds in every state the gate reaches, for any    *)
(* number of requests, origins and semaphores and any limits.                *)
THEOREM Invariance == Spec => []IInv
  BY InitIInv, NextIInv, PTL DEF Spec

(* Every variable keeps its type; in particular no semaphore ever offers      *)
(* more permits than its limit and no gauge of AcquirePermit or               *)
(* PendingAcquire goes below zero.                                            *)
THEOREM TypeCorrect == Spec => []TypeOK
  <1>1. IInv => TypeOK
    <2> SUFFICES ASSUME IInv PROVE TypeOK
      OBVIOUS
    <2> USE DEF IInv
    <2>1. globalPermits \in 0 .. MaxActive
      <3>1. Cardinality(GlobalHolders) \in Nat
        BY CountNat DEF GlobalHolders
      <3>2. QED
        BY <3>1, GateAssumption DEF GlobalCount, NonNegative, TypeWeak
    <2>2. originPermits \in [Semaphores -> 0 .. MaxPerOrigin]
      <3>1. ASSUME NEW s \in Semaphores PROVE originPermits[s] \in 0 .. MaxPerOrigin
        <4>1. Cardinality(OriginHolders(s)) \in Nat
          BY CountNat DEF OriginHolders
        <4>2. QED
          BY <4>1, GateAssumption DEF OriginCount, NonNegative, TypeWeak
      <3>2. QED
        BY <3>1 DEF TypeWeak
    <2>3. activeRequests \in [Origins -> Nat]
      <3>1. \A o \in Origins : activeRequests[o] \in Nat
        BY CountNat DEF ActiveCount, ActiveOn
      <3>2. QED
        BY <3>1 DEF TypeWeak
    <2>4. pendingRequests \in Nat
      BY CountNat DEF PendingCount, Pending
    <2>5. QED
      BY <2>1, <2>2, <2>3, <2>4 DEF TypeOK, TypeWeak, QueueInv
  <1>2. QED
    BY <1>1, Invariance, PTL

(* Permits are neither lost nor duplicated, for every number of requests,     *)
(* origins and semaphores and every limit.                                    *)
THEOREM Conservation == Spec => []PermitsConserved
  <1>1. IInv => PermitsConserved
    BY DEF IInv, GlobalCount, GlobalHolders, OriginCount, OriginHolders, PermitsConserved
  <1>2. QED
    BY <1>1, Invariance, PTL

(* Requests to one origin share one semaphore, however often the map's weak   *)
(* references die and are swept.                                              *)
THEOREM UniqueSemaphore == Spec => []OneSemaphorePerOrigin
  <1>1. IInv => OneSemaphorePerOrigin
    BY DEF IInv, GateInv, OneSemaphorePerOrigin
  <1>2. QED
    BY <1>1, Invariance, PTL

(* From the permit counts and the one semaphore per origin: the requests     *)
(* that hold a slot are within both limits.                                  *)
LEMMA SlotBounds ==
  ASSUME IInv
  PROVE  /\ Cardinality({r \in Requests : Granted(r)}) <= MaxActive
         /\ \A o \in Origins : OriginLimited =>
              Cardinality({r \in Requests : Granted(r) /\ origin[r] = o}) <= MaxPerOrigin
  <1> USE DEF IInv
  <1>1. Cardinality({r \in Requests : Granted(r)}) <= MaxActive
    <2>1. {r \in Requests : Granted(r)} \subseteq GlobalHolders /\ GlobalHolders \in SUBSET Requests
      BY DEF GlobalHolders, HoldsGlobal
    <2>2. Cardinality({r \in Requests : Granted(r)}) <= Cardinality(GlobalHolders)
      BY <2>1, FS_Subset, GateAssumption
    <2>3. Cardinality(GlobalHolders) \in Nat /\ Cardinality({r \in Requests : Granted(r)}) \in Nat
      BY <2>1, CountNat
    <2>4. QED
      BY <2>2, <2>3, GateAssumption DEF GlobalCount, NonNegative, TypeWeak
  <1>2. ASSUME NEW o \in Origins, OriginLimited
        PROVE  Cardinality({r \in Requests : Granted(r) /\ origin[r] = o}) <= MaxPerOrigin
    <2> DEFINE H == {r \in Requests : Granted(r) /\ origin[r] = o}
    <2>1. CASE H = {}
      BY <2>1, FS_EmptySet, GateAssumption
    <2>2. CASE H # {}
      <3>1. PICK s \in Semaphores : s = originGates[o]
        BY <1>2, <2>2, GateAssumption DEF GateInv, ControlInv, TypeWeak
      <3>2. H \subseteq OriginHolders(s) /\ OriginHolders(s) \in SUBSET Requests
        BY <1>2, <3>1 DEF GateInv, ControlInv, TypeWeak, OriginHolders, HoldsOrigin
      <3>3. Cardinality(H) <= Cardinality(OriginHolders(s))
        BY <3>2, FS_Subset, GateAssumption
      <3>4. Cardinality(H) \in Nat /\ Cardinality(OriginHolders(s)) \in Nat
        BY <3>2, CountNat
      <3>5. originPermits[s] + Cardinality(OriginHolders(s)) = MaxPerOrigin /\ originPermits[s] >= 0
            /\ originPermits[s] \in Int
        BY DEF OriginCount, NonNegative, TypeWeak
      <3>6. QED
        BY <3>3, <3>4, <3>5, GateAssumption
    <2>3. QED
      BY <2>1, <2>2
  <1>3. QED
    BY <1>1, <1>2

(* The limits of the client hold for every interleaving, and the gauges never *)
(* overstate the slots in use.                                                *)
THEOREM Limits == Spec => []LimitsRespected
  <1>1. IInv => LimitsRespected
    <2> SUFFICES ASSUME IInv PROVE LimitsRespected
      OBVIOUS
    <2>1. ASSUME NEW o \in Origins
          PROVE  activeRequests[o] <= Cardinality({r \in Requests : Granted(r) /\ origin[r] = o})
      <3> DEFINE H == {r \in Requests : Granted(r) /\ origin[r] = o}
      <3>1. ActiveOn(o) \subseteq H /\ H \in SUBSET Requests
        BY DEF ActiveOn, Granted
      <3>2. QED
        BY <3>1, FS_Subset, GateAssumption DEF IInv, ActiveCount
    <2>2. QED
      BY <2>1, SlotBounds DEF LimitsRespected
  <1>2. QED
    BY <1>1, Invariance, PTL

(* No wake-up is lost, for any number of waiters. *)
THEOREM Wakeups == Spec => []NoLostWakeup
  <1>1. IInv => NoLostWakeup
    BY DEF IInv
  <1>2. QED
    BY <1>1, Invariance, PTL

--------------------------------------------------------------------------------
(* AcquireGate implements RequestSlots, and hands out slots in the order of  *)
(* its queue.  Both follow from the inductive invariant.                     *)

Wants(r) == IF Phase(r) = "idle" THEN NoOrigin ELSE origin[r]

(* A step of one request leaves what the callers see of the others alone.    *)
LEMMA OthersKeepPhase ==
  ASSUME TypeWeak, NEW r \in Requests, NEW step, pc' = [pc EXCEPT ![r] = step],
         \A q \in Requests \ {r} : exit'[q] = exit[q] /\ origin'[q] = origin[q]
  PROVE  \A q \in Requests \ {r} : Phase(q)' = Phase(q) /\ Wants(q)' = Wants(q)
  <1> SUFFICES ASSUME NEW q \in Requests \ {r}
               PROVE  Phase(q)' = Phase(q) /\ Wants(q)' = Wants(q)
    OBVIOUS
  <1>1. pc'[q] = pc[q] /\ exit'[q] = exit[q] /\ origin'[q] = origin[q]
    BY DEF TypeWeak
  <1>2. QED
    BY <1>1 DEF Phase, Wants, Granted, Queued

(* A step that keeps the phase of its own request, and the queue, is         *)
(* invisible in RequestSlots.                                                *)
LEMMA Invisible ==
  ASSUME TypeWeak, NEW r \in Requests, NEW step, pc' = [pc EXCEPT ![r] = step],
         \A q \in Requests \ {r} : exit'[q] = exit[q] /\ origin'[q] = origin[q],
         Phase(r)' = Phase(r), Wants(r)' = Wants(r),
         UNCHANGED <<waiterId, waiters, nextWaiterId>>
  PROVE  UNCHANGED Slots!slotVars
  <1>1. \A q \in Requests : Phase(q)' = Phase(q) /\ Wants(q)' = Wants(q)
    BY OthersKeepPhase
  <1>2. QED
    BY <1>1 DEF Slots!slotVars, Wants

(* A step that moves its own request is seen in RequestSlots as a change of  *)
(* that request's phase and wish only.                                       *)
LEMMA Visible ==
  ASSUME TypeWeak, NEW r \in Requests, NEW step, pc' = [pc EXCEPT ![r] = step],
         \A q \in Requests \ {r} : exit'[q] = exit[q] /\ origin'[q] = origin[q],
         NEW from, NEW to, Phase(r) = from, Phase(r)' = to
  PROVE  /\ Slots!Move(r, from, to)
         /\ [q \in Requests |-> IF Phase(q) = "idle" THEN NoOrigin ELSE origin[q]]'
              = [[q \in Requests |-> IF Phase(q) = "idle" THEN NoOrigin ELSE origin[q]]
                   EXCEPT ![r] = Wants(r)']
  <1>1. \A q \in Requests \ {r} : Phase(q)' = Phase(q) /\ Wants(q)' = Wants(q)
    BY OthersKeepPhase
  <1>2. QED
    BY <1>1 DEF Slots!Move, Wants

(* Both permits are there when the second one is taken, so RequestSlots has  *)
(* a slot free for the request.                                              *)
LEMMA FreeSlot ==
  ASSUME IInv, NEW r \in Requests, pc[r] \in {"immediateGlobal", "pollGlobal"}, globalPermits > 0
  PROVE  Slots!SlotFree(origin[r])
  <1> USE DEF IInv
  <1> DEFINE G == {q \in Requests : Granted(q)}
             H == {q \in Requests : Granted(q) /\ origin[q] = origin[r]}
  <1>1. ~Granted(r) /\ origin[r] \in Origins
    BY DEF Granted, ControlInv
  <1>2. \A q \in Requests : Phase(q) = "holding" <=> Granted(q)
    BY DEF Phase
  <1>3. {q \in Requests : [p \in Requests |-> Phase(p)][q] = "holding"} = G
    BY <1>2
  <1>4. Slots!Holders(origin[r]) = H
    BY <1>2, <1>1, GateAssumption DEF Slots!Holders
  <1>5. Cardinality(G) < MaxActive
    <2>1. G \subseteq GlobalHolders /\ GlobalHolders \in SUBSET Requests
      BY DEF GlobalHolders, HoldsGlobal
    <2>2. Cardinality(G) <= Cardinality(GlobalHolders)
      BY <2>1, FS_Subset, GateAssumption
    <2>3. Cardinality(GlobalHolders) \in Nat /\ Cardinality(G) \in Nat
      BY <2>1, CountNat
    <2>4. QED
      BY <2>2, <2>3, GateAssumption DEF GlobalCount, TypeWeak
  <1>6. ASSUME OriginLimited  PROVE Cardinality(H) < MaxPerOrigin
    <2>1. PICK s \in Semaphores : s = semaphore[r]
      BY <1>6 DEF ControlInv, Asking, TypeWeak
    <2>2. s = originGates[origin[r]]
      BY <2>1, GateAssumption DEF GateInv
    <2>3. H \cup {r} \subseteq OriginHolders(s) /\ OriginHolders(s) \in SUBSET Requests
      <3>1. r \in OriginHolders(s)
        BY <1>6, <2>1 DEF OriginHolders, HoldsOrigin
      <3>2. ASSUME NEW q \in H PROVE q \in OriginHolders(s)
        <4>1. semaphore[q] # NoSemaphore
          BY <1>6 DEF ControlInv
        <4>2. semaphore[q] = s
          BY <2>2, <4>1 DEF GateInv
        <4>3. QED
          BY <1>6, <4>2 DEF OriginHolders, HoldsOrigin
      <3>3. QED
        BY <3>1, <3>2 DEF OriginHolders
    <2>4. Cardinality(H \cup {r}) <= Cardinality(OriginHolders(s))
      BY <2>3, FS_Subset, GateAssumption
    <2>5. Cardinality(H \cup {r}) = Cardinality(H) + 1 /\ Cardinality(H) \in Nat
      BY <1>1, CountUp
    <2>6. Cardinality(OriginHolders(s)) \in Nat
      BY <2>3, CountNat
    <2>7. originPermits[s] + Cardinality(OriginHolders(s)) = MaxPerOrigin
          /\ originPermits[s] \in Int /\ originPermits[s] >= 0
      BY DEF OriginCount, NonNegative, TypeWeak
    <2>8. QED
      BY <2>4, <2>5, <2>6, <2>7, GateAssumption
  <1>7. \A S : Slots!Cardinality(S) = Cardinality(S)
    BY DEF Slots!Cardinality, Cardinality
  <1>8. QED
    BY <1>3, <1>4, <1>5, <1>6, <1>7 DEF Slots!SlotFree

(* Every step of the gate is a step of RequestSlots or invisible there.      *)
LEMMA SlotsStep == ASSUME IInv, [Next]_vars  PROVE [Slots!Next]_(Slots!slotVars)
  <1> USE DEF Goto, semaphoreVars, queueVars, wakeVars, gaugeVars, counterVars
  <1>0. TypeWeak /\ ControlInv /\ QueueInv
    BY DEF IInv
  <1> DEFINE Step(r) == /\ pc' = [pc EXCEPT ![r] = pc'[r]]
                        /\ \A q \in Requests \ {r} : exit'[q] = exit[q] /\ origin'[q] = origin[q]
             Same == UNCHANGED <<waiterId, waiters, nextWaiterId>>
  <1>1. ASSUME NEW r \in Requests, NEW o \in Origins, StartAcquire(r, o)  PROVE Slots!Next
    <2>1. Step(r) /\ Same
      BY <1>0, <1>1 DEF StartAcquire, TypeWeak
    <2>2. Phase(r) = "idle" /\ Phase(r)' = "asking" /\ Wants(r)' = o
      BY <1>0, <1>1 DEF StartAcquire, Phase, Wants, Granted, Queued, TypeWeak
    <2>3. Slots!Ask(r, o)
      BY <1>0, <2>1, <2>2, Visible DEF Slots!Ask
    <2>4. QED
      BY <2>3 DEF Slots!Next
  <1>2. ASSUME NEW r \in Requests, ImmediateOrigin(r)  PROVE UNCHANGED Slots!slotVars
    <2>1. Step(r) /\ Same
      BY <1>0, <1>2 DEF ImmediateOrigin, TypeWeak
    <2>2. Phase(r)' = Phase(r) /\ Wants(r)' = Wants(r)
      BY <1>0, <1>2 DEF ImmediateOrigin, Phase, Wants, Granted, Queued, TypeWeak, ControlInv, ExitInv, Asking
    <2>3. QED
      BY <1>0, <2>1, <2>2, Invisible
  <1>3. ASSUME NEW r \in Requests, ImmediateGlobal(r)
        PROVE  [Slots!Next]_(Slots!slotVars)
    <2>1. Step(r) /\ Same
      BY <1>0, <1>3 DEF ImmediateGlobal, TypeWeak
    <2>2. CASE globalPermits > 0
      <3>1. Phase(r) = "asking" /\ Phase(r)' = "holding" /\ Wants(r)' = origin[r] /\ Wants(r) = origin[r]
        BY <1>0, <1>3, <2>2 DEF ImmediateGlobal, Phase, Wants, Granted, Queued, TypeWeak
      <3>2. waiters = <<>> /\ Slots!SlotFree(origin[r])
        BY <1>0, <1>3, <2>2, FreeSlot DEF ImmediateGlobal, QueueInv
      <3>3. Slots!Admit(r)
        BY <1>0, <2>1, <3>1, <3>2, Visible DEF Slots!Admit, Wants
      <3>4. QED
        BY <3>3 DEF Slots!Next
    <2>3. CASE globalPermits = 0
      <3>1. Phase(r)' = Phase(r) /\ Wants(r)' = Wants(r)
        BY <1>0, <1>3, <2>3 DEF ImmediateGlobal, Phase, Wants, Granted, Queued, TypeWeak
      <3>2. QED
        BY <1>0, <2>1, <3>1, Invisible
    <2>4. QED
      BY <1>3, <2>2, <2>3 DEF ImmediateGlobal
  <1>4. ASSUME NEW r \in Requests, Register(r)  PROVE Slots!Next
    <2>1. Step(r)
      BY <1>0, <1>4 DEF Register, TypeWeak
    <2>2. Phase(r) = "asking" /\ Phase(r)' = "queued" /\ Wants(r)' = Wants(r)
      BY <1>0, <1>4 DEF Register, Phase, Wants, Granted, Queued, TypeWeak
    <2>3. /\ Slots!Move(r, "asking", "queued")
          /\ UNCHANGED [q \in Requests |-> IF Phase(q) = "idle" THEN NoOrigin ELSE origin[q]]
      BY <1>0, <2>1, <2>2, Visible, OthersKeepPhase DEF Wants
    <2>4. Slots!Enqueue(r)
      BY <1>4, <2>3 DEF Register, Slots!Enqueue
    <2>5. QED
      BY <2>4 DEF Slots!Next
  <1>5. ASSUME NEW r \in Requests, QueueFull(r)  PROVE Slots!Next
    <2>1. Step(r) /\ Same
      BY <1>0, <1>5 DEF QueueFull, TypeWeak
    <2>2. Phase(r) = "asking" /\ Phase(r)' = "idle" /\ Wants(r)' = NoOrigin
      BY <1>0, <1>5 DEF QueueFull, Phase, Wants, Granted, Queued, TypeWeak
    <2>3. Slots!Refuse(r)
      BY <1>0, <1>5, <2>1, <2>2, Visible DEF Slots!Refuse, QueueFull
    <2>4. QED
      BY <2>3 DEF Slots!Next
  <1>6. ASSUME NEW r \in Requests, PollOrigin(r)  PROVE UNCHANGED Slots!slotVars
    <2>1. Step(r) /\ Same
      BY <1>0, <1>6 DEF PollOrigin, TypeWeak
    <2>2. Phase(r)' = Phase(r) /\ Wants(r)' = Wants(r)
      BY <1>0, <1>6 DEF PollOrigin, Phase, Wants, Granted, Queued, TypeWeak, ControlInv, ExitInv, Asking
    <2>3. QED
      BY <1>0, <2>1, <2>2, Invisible
  <1>7. ASSUME NEW r \in Requests, PollGlobal(r)
        PROVE  [Slots!Next]_(Slots!slotVars)
    <2>1. Step(r)
      BY <1>0, <1>7 DEF PollGlobal, TypeWeak
    <2>2. CASE globalPermits > 0
      <3>1. Phase(r) = "queued" /\ Phase(r)' = "holding" /\ Wants(r)' = Wants(r) /\ Wants(r) = origin[r]
        BY <1>0, <1>7, <2>2 DEF PollGlobal, Phase, Wants, Granted, Queued, TypeWeak
      <3>2. waiters # <<>> /\ Head(waiters) = waiterId[r] /\ Slots!SlotFree(origin[r])
        BY <1>0, <1>7, <2>2, FreeSlot DEF PollGlobal, QueueInv
      <3>3. /\ Slots!Move(r, "queued", "holding")
            /\ UNCHANGED [q \in Requests |-> IF Phase(q) = "idle" THEN NoOrigin ELSE origin[q]]
        BY <1>0, <2>1, <3>1, Visible, OthersKeepPhase DEF Wants
      <3>4. /\ waiters' = Tail(waiters) /\ waiterId' = [waiterId EXCEPT ![r] = 0]
            /\ nextWaiterId' = nextWaiterId
        BY <1>7, <2>2 DEF PollGlobal
      <3>5. Slots!AdmitHead(r)
        BY <3>1, <3>2, <3>3, <3>4 DEF Slots!AdmitHead, Wants
      <3>6. QED
        BY <3>5 DEF Slots!Next
    <2>3. CASE globalPermits = 0
      <3>1. Phase(r)' = Phase(r) /\ Wants(r)' = Wants(r) /\ Same
        BY <1>0, <1>7, <2>3 DEF PollGlobal, Phase, Wants, Granted, Queued, TypeWeak
      <3>2. QED
        BY <1>0, <2>1, <3>1, Invisible
    <2>4. QED
      BY <1>7, <2>2, <2>3 DEF PollGlobal
  <1>8. ASSUME NEW r \in Requests, Wake(r)  PROVE UNCHANGED Slots!slotVars
    <2>1. Step(r) /\ Same
      BY <1>0, <1>8 DEF Wake, TypeWeak
    <2>2. Phase(r)' = Phase(r) /\ Wants(r)' = Wants(r)
      BY <1>0, <1>8 DEF Wake, Phase, Wants, Granted, Queued, TypeWeak, ControlInv, ExitInv, Asking
    <2>3. QED
      BY <1>0, <2>1, <2>2, Invisible
  <1>9. ASSUME NEW r \in Requests, RemoveWaiter(r)  PROVE Slots!Next
    <2>1. Step(r)
      BY <1>0, <1>9 DEF RemoveWaiter, TypeWeak
    <2>2. Phase(r) = "queued" /\ Phase(r)' = "idle" /\ Wants(r)' = NoOrigin
      BY <1>0, <1>9 DEF RemoveWaiter, Phase, Wants, Granted, Queued, TypeWeak, ControlInv, ExitInv
    <2>3. \A i \in 1 .. Len(waiters) : Slots!RemoveAt(waiters, i) = RemoveAt(waiters, i)
      BY DEF Slots!RemoveAt, RemoveAt
    <2>4. /\ \E i \in 1 .. Len(waiters) :
               waiters[i] = waiterId[r] /\ waiters' = Slots!RemoveAt(waiters, i)
          /\ waiterId' = [waiterId EXCEPT ![r] = 0] /\ nextWaiterId' = nextWaiterId
      BY <1>9, <2>3 DEF RemoveWaiter
    <2>5. Slots!GiveUp(r)
      BY <1>0, <2>1, <2>2, <2>4, Visible DEF Slots!GiveUp
    <2>6. QED
      BY <2>5 DEF Slots!Next
  <1>10. ASSUME NEW r \in Requests, DropPending(r)  PROVE UNCHANGED Slots!slotVars
    <2>1. Step(r) /\ Same
      BY <1>0, <1>10 DEF DropPending, TypeWeak
    <2>2. Phase(r)' = Phase(r) /\ Wants(r)' = Wants(r)
      BY <1>0, <1>10 DEF DropPending, Phase, Wants, Granted, Queued, TypeWeak, ControlInv, ExitInv, Asking
    <2>3. QED
      BY <1>0, <2>1, <2>2, Invisible
  <1>11. ASSUME NEW r \in Requests, NotifyHead(r)  PROVE UNCHANGED Slots!slotVars
    <2>1. Step(r) /\ Same
      BY <1>0, <1>11 DEF NotifyHead, TypeWeak
    <2>2. Phase(r)' = Phase(r) /\ Wants(r)' = Wants(r)
      BY <1>0, <1>11 DEF NotifyHead, Phase, Wants, Granted, Queued, TypeWeak, ControlInv, ExitInv, Asking
    <2>3. QED
      BY <1>0, <2>1, <2>2, Invisible
  <1>12. ASSUME NEW r \in Requests, NotifyOne(r)  PROVE UNCHANGED Slots!slotVars
    <2>1. Step(r) /\ Same
      BY <1>0, <1>12 DEF NotifyOne, TypeWeak
    <2>2. Phase(r)' = Phase(r) /\ Wants(r)' = Wants(r)
      BY <1>0, <1>12 DEF NotifyOne, Phase, Wants, Granted, Queued, TypeWeak, ControlInv, ExitInv, Asking
    <2>3. QED
      BY <1>0, <2>1, <2>2, Invisible
  <1>13. ASSUME NEW r \in Requests, Grant(r)  PROVE UNCHANGED Slots!slotVars
    <2>1. Step(r) /\ Same
      BY <1>0, <1>13 DEF Grant, TypeWeak
    <2>2. Phase(r)' = Phase(r) /\ Wants(r)' = Wants(r)
      BY <1>0, <1>13 DEF Grant, Phase, Wants, Granted, Queued, TypeWeak, ControlInv, ExitInv, Asking
    <2>3. QED
      BY <1>0, <2>1, <2>2, Invisible
  <1>14. ASSUME NEW r \in Requests, DropOrigin(r)  PROVE Slots!Next
    <2>1. Step(r) /\ Same
      BY <1>0, <1>14 DEF DropOrigin, TypeWeak
    <2>2. Phase(r) = "holding" /\ Phase(r)' = "idle" /\ Wants(r)' = NoOrigin
      BY <1>0, <1>14 DEF DropOrigin, Phase, Wants, Granted, Queued, TypeWeak
    <2>3. Slots!Return(r)
      BY <1>0, <2>1, <2>2, Visible DEF Slots!Return
    <2>4. QED
      BY <2>3 DEF Slots!Next
  <1>15. ASSUME NEW r \in Requests, DropGlobal(r)  PROVE UNCHANGED Slots!slotVars
    <2>1. Step(r) /\ Same
      BY <1>0, <1>15 DEF DropGlobal, TypeWeak
    <2>2. Phase(r)' = Phase(r) /\ Wants(r)' = Wants(r)
      BY <1>0, <1>15 DEF DropGlobal, Phase, Wants, Granted, Queued, TypeWeak, ControlInv, ExitInv, Asking
    <2>3. QED
      BY <1>0, <2>1, <2>2, Invisible
  <1>16. ASSUME NEW r \in Requests, PoolTimeout(r)  PROVE UNCHANGED Slots!slotVars
    <2>1. Step(r) /\ Same
      BY <1>0, <1>16 DEF PoolTimeout, TypeWeak
    <2>2. Phase(r)' = Phase(r) /\ Wants(r)' = Wants(r)
      BY <1>0, <1>16 DEF PoolTimeout, Phase, Wants, Granted, Queued, TypeWeak, ControlInv, ExitInv, Asking
    <2>3. QED
      BY <1>0, <2>1, <2>2, Invisible
  <1>17. ASSUME NEW r \in Requests, Cancel(r)  PROVE UNCHANGED Slots!slotVars
    <2>1. Step(r) /\ Same
      BY <1>0, <1>17 DEF Cancel, TypeWeak
    <2>2. Phase(r)' = Phase(r) /\ Wants(r)' = Wants(r)
      BY <1>0, <1>17 DEF Cancel, Phase, Wants, Granted, Queued, TypeWeak, ControlInv, ExitInv, Asking
    <2>3. QED
      BY <1>0, <2>1, <2>2, Invisible
  <1>18. ASSUME NEW r \in Requests, Release(r)  PROVE UNCHANGED Slots!slotVars
    <2>1. Step(r) /\ Same
      BY <1>0, <1>18 DEF Release, TypeWeak
    <2>2. Phase(r)' = Phase(r) /\ Wants(r)' = Wants(r)
      BY <1>0, <1>18 DEF Release, Phase, Wants, Granted, Queued, TypeWeak, ControlInv, ExitInv, Asking
    <2>3. QED
      BY <1>0, <2>1, <2>2, Invisible
  <1>19. CASE UNCHANGED vars
    BY <1>19 DEF vars, Slots!slotVars, Phase, Granted, Queued
  <1>20. QED
    BY <1>1, <1>2, <1>3, <1>4, <1>5, <1>6, <1>7, <1>8, <1>9, <1>10, <1>11, <1>12, <1>13, <1>14,
       <1>15, <1>16, <1>17, <1>18, <1>19 DEF Next, TaskStep

(* The gate implements the atomic FIFO slots, for every number of requests,  *)
(* origins and semaphores and every limit: no interleaving of the mutex,     *)
(* the semaphores and the unlocked drops shows the callers anything else.    *)
THEOREM Refinement == Spec => ImplementsSlots
  <1>1. Init => Slots!Init
    BY DEF Init, Slots!Init, Phase, Granted, Queued
  <1>2. IInv /\ [Next]_vars => [Slots!Next]_(Slots!slotVars)
    BY SlotsStep
  <1>3. QED
    BY <1>1, <1>2, Invariance, PTL DEF Spec, ImplementsSlots, Slots!Spec

(* A request whose entry is at the head of the queue is older than every     *)
(* other request in it.                                                      *)
LEMMA HeadIsOldest ==
  ASSUME QueueInv, NEW r \in Requests, NEW q \in Requests, q # r,
         Queued(r), Queued(q), Head(waiters) = waiterId[r]
  PROVE  waiterId[r] # 0 /\ waiterId[r] < waiterId[q]
  <1>1. waiters # <<>> /\ waiterId[r] # 0 /\ waiterId[q] # 0
    BY QueuedListed
  <1>2. PICK i \in 1 .. Len(waiters) : waiters[i] = waiterId[q]
    BY <1>1 DEF QueueInv, Listed
  <1>3. waiters[1] = waiterId[r] /\ 1 \in 1 .. Len(waiters)
    BY <1>1, <1>2 DEF QueueInv
  <1>4. i # 1
    BY <1>1, <1>2, <1>3 DEF QueueInv
  <1>5. QED
    BY <1>1, <1>2, <1>3, <1>4 DEF QueueInv, InOrder

(* Whoever gets a slot is older than everybody who stays in the queue:       *)
(* try_acquire_immediate yields to a nonempty queue and try_acquire_for_     *)
(* waiter serves the head only.                                              *)
THEOREM Fifo == Spec => NoBypass
  <1> DEFINE Fair == \A r, q \in Requests :
                       ~Granted(r) /\ Granted(r)' /\ Queued(q) /\ q # r
                       => waiterId[r] # 0 /\ waiterId[r] < waiterId[q]
  <1>1. IInv /\ [Next]_vars => [Fair]_vars
    <2> SUFFICES ASSUME IInv, Next, NEW r \in Requests, NEW q \in Requests,
                        ~Granted(r), Granted(r)', Queued(q), q # r
                 PROVE  waiterId[r] # 0 /\ waiterId[r] < waiterId[q]
      OBVIOUS
    <2>0. TypeWeak /\ ControlInv /\ QueueInv
      BY DEF IInv
    <2>1. PICK p \in Requests : (\E o \in Origins : StartAcquire(p, o)) \/ TaskStep(p)
                                \/ PoolTimeout(p) \/ Cancel(p) \/ Release(p)
      BY DEF Next
    <2>2. \A x \in Requests \ {p} : pc'[x] = pc[x] /\ exit'[x] = exit[x]
      BY <2>0, <2>1 DEF TypeWeak, TaskStep, Goto, semaphoreVars, queueVars, wakeVars, gaugeVars, counterVars,
         StartAcquire, ImmediateOrigin, ImmediateGlobal, Register, QueueFull, PollOrigin, PollGlobal,
         Wake, RemoveWaiter, DropPending, NotifyHead, NotifyOne, Grant, DropOrigin, DropGlobal,
         PoolTimeout, Cancel, Release
    <2>3. r = p
      BY <2>2 DEF Granted
    <2>3a. ImmediateGlobal(r) \/ PollGlobal(r)
      BY <2>0, <2>1, <2>3 DEF TypeWeak, ControlInv, ExitInv, Asking, Granted, TaskStep, Goto,
         StartAcquire, ImmediateOrigin, Register, QueueFull, PollOrigin,
         Wake, RemoveWaiter, DropPending, NotifyHead, NotifyOne, Grant, DropOrigin, DropGlobal,
         PoolTimeout, Cancel, Release
    <2>4. CASE ImmediateGlobal(r)
      BY <2>0, <2>4, QueuedListed DEF ImmediateGlobal, QueueInv
    <2>5. CASE PollGlobal(r)
      BY <2>0, <2>5, HeadIsOldest DEF PollGlobal, QueueInv, Queued
    <2>6. QED
      BY <2>3a, <2>4, <2>5
  <1>2. QED
    BY <1>1, Invariance, PTL DEF Spec, NoBypass

================================================================================
