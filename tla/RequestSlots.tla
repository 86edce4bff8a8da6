------------------------------ MODULE RequestSlots ------------------------------
(***************************************************************************)
(* What the acquire gate promises its callers, without threads, mutexes or *)
(* wake-ups: request slots limited globally and per origin, handed out in  *)
(* the order of one bounded queue.                                         *)
(***************************************************************************)
EXTENDS Integers, FiniteSets, Sequences, SequencesExt

CONSTANTS Requests, Origins, NoOrigin, MaxActive, OriginLimited, MaxPerOrigin, MaxPending

VARIABLES phase,      \* "idle", "asking", "queued" or "holding"
          wants,      \* origin of the slot a request asks for or holds
          ticket,     \* place of a queued request in the order of arrival
          queue,      \* tickets, first come first
          nextTicket

slotVars == <<phase, wants, ticket, queue, nextTicket>>

Holders(o) == {r \in Requests : phase[r] = "holding" /\ wants[r] = o}

SlotFree(o) == /\ Cardinality({r \in Requests : phase[r] = "holding"}) < MaxActive
               /\ OriginLimited => Cardinality(Holders(o)) < MaxPerOrigin

Init == /\ phase = [r \in Requests |-> "idle"]
        /\ wants = [r \in Requests |-> NoOrigin]
        /\ ticket = [r \in Requests |-> 0]
        /\ queue = <<>>
        /\ nextTicket = 1

Move(r, from, to) == phase[r] = from /\ phase' = [phase EXCEPT ![r] = to]

Ask(r, o) == /\ Move(r, "idle", "asking")
             /\ wants' = [wants EXCEPT ![r] = o]
             /\ UNCHANGED <<ticket, queue, nextTicket>>

(* A slot without waiting, only when nobody else is waiting. *)
Admit(r) == /\ queue = <<>> /\ SlotFree(wants[r])
            /\ Move(r, "asking", "holding")
            /\ UNCHANGED <<wants, ticket, queue, nextTicket>>

Enqueue(r) == /\ Len(queue) < MaxPending
              /\ Move(r, "asking", "queued")
              /\ queue' = Append(queue, nextTicket)
              /\ ticket' = [ticket EXCEPT ![r] = nextTicket]
              /\ nextTicket' = nextTicket + 1
              /\ UNCHANGED wants

Refuse(r) == /\ Len(queue) >= MaxPending
             /\ Move(r, "asking", "idle")
             /\ wants' = [wants EXCEPT ![r] = NoOrigin]
             /\ UNCHANGED <<ticket, queue, nextTicket>>

(* The head of the queue, and nobody else in it, may take a slot. *)
AdmitHead(r) == /\ queue # <<>> /\ Head(queue) = ticket[r] /\ SlotFree(wants[r])
                /\ Move(r, "queued", "holding")
                /\ queue' = Tail(queue)
                /\ ticket' = [ticket EXCEPT ![r] = 0]
                /\ UNCHANGED <<wants, nextTicket>>

GiveUp(r) == /\ Move(r, "queued", "idle")
             /\ wants' = [wants EXCEPT ![r] = NoOrigin]
             /\ \E i \in 1 .. Len(queue) :
                  queue[i] = ticket[r] /\ queue' = RemoveAt(queue, i)
             /\ ticket' = [ticket EXCEPT ![r] = 0]
             /\ UNCHANGED nextTicket

Return(r) == /\ Move(r, "holding", "idle")
             /\ wants' = [wants EXCEPT ![r] = NoOrigin]
             /\ UNCHANGED <<ticket, queue, nextTicket>>

Next == \E r \in Requests :
          \/ \E o \in Origins : Ask(r, o)
          \/ Admit(r) \/ Enqueue(r) \/ Refuse(r) \/ AdmitHead(r) \/ GiveUp(r) \/ Return(r)

Spec == Init /\ [][Next]_slotVars

================================================================================
