------------------------- MODULE ConnectionUseProofs -------------------------
(***************************************************************************)
(* TLAPS proofs about connection uses (ConnectionUse), for any set of      *)
(* connections and requests and any number of uses: the types and the four *)
(* invariants the run of ConnectionUse checks.                             *)
(***************************************************************************)
EXTENDS ConnectionUse, SequenceTheorems, TLAPS

--------------------------------------------------------------------------------
(* Control: what an actor can still have to do. *)

(* Of a request that was given a connection: while its guard, if it has one, *)
(* is still that of the connection before, and then up to beginTimeout.      *)
Superseding ==
  {<<"finishWrite", "finishUse", "observe", "beginUse", "beginTimeout", "wake">>,
   <<"finishUse", "observe", "beginUse", "beginTimeout", "wake">>}
Superseded ==
  {<<"abortUse", "observe", "beginUse", "beginTimeout", "wake">>,
   <<"abortWake", "observe", "beginUse", "beginTimeout", "wake">>,
   <<"observe", "beginUse", "beginTimeout", "wake">>}
Unobserved == Superseding \cup Superseded
Unbegun == Unobserved \cup {<<"beginUse", "beginTimeout", "wake">>, <<"beginTimeout", "wake">>}
Assigned == Unbegun \cup {<<"wake">>, <<"abortPrevious">>, <<"abortWake">>, <<>>}

(* Of a request that is over: while its use may still be open, and after. *)
Reusing == {<<"finishWrite", "finishUse", "enterIdle">>, <<"finishUse", "enterIdle">>}
Completing == Reusing \cup {<<"finishWrite", "finishUse">>, <<"finishUse">>}
Aborting == {<<"abortAny", "finishWrite">>, <<"abortUse", "finishWrite">>, <<"abortWake", "finishWrite">>}
Closing == {<<"enterIdle">>, <<"abortUse">>, <<"abortWake">>, <<"finishWrite">>, <<>>}
Ending == Completing \cup Aborting \cup Closing

(* Of a connection's task: in a poll, before the drop and after it. *)
Polling == {<<>>, <<"write">>, <<"socket">>, <<"timer">>, <<"flush">>}
Failing ==
  {<<"abortTimedOut", "drop", "clear", "leave">>, <<"abortWake", "drop", "clear", "leave">>,
   <<"drop", "clear", "leave">>}
Dropped == {<<"clear", "leave">>, <<"leave">>, <<>>}

Places == {"start", "acquire", "send", "headers", "body", "over"}
Responses == {"none", "head", "keep", "close"}
States == [uses : Nat, idle : BOOLEAN, closed : BOOLEAN, aborted : BOOLEAN, waker : BOOLEAN]
Timeouts == [active : Writers \cup {None}, started : BOOLEAN]

(* The types of the state. *)
TypeOK ==
  /\ traced \in BOOLEAN
  /\ conn \in [Connections -> States] /\ timeout \in [Connections -> Timeouts]
  /\ lock \in [Connections -> Actors \cup {None}]
  /\ current \in [Connections -> Requests \cup {None}]
  /\ woken \subseteq Connections /\ unflushed \subseteq Connections
  /\ response \in [Requests -> Responses]
  /\ wire \subseteq Requests /\ produced \subseteq Requests /\ flushed \subseteq Requests
  /\ at \in [Requests -> Places]
  /\ todo \in [Actors -> Ending \cup Assigned \cup Polling \cup Failing \cup Dropped]
  /\ assigned \in [Requests -> Connections \cup {None}]
  /\ guard \in [Requests -> Guards \cup {None}] /\ victim \in [Actors -> Requests \cup {None}]
  /\ phase \subseteq Requests /\ use \in [Requests -> Tokens \cup {None}]
  /\ cancelled \subseteq Requests /\ clean \subseteq Tokens
  /\ sent \in [Connections -> Seq(Requests)]

--------------------------------------------------------------------------------
(* The inductive invariant. *)

(* A connection whose task may still write. *)
Live(k) == ~conn[k].closed /\ todo[k] \notin Failing

(* Where a request is, what it has to do and which connection it has. *)
TaskInv(r) ==
  /\ at[r] \in {"start", "acquire", "send"} => assigned[r] = None /\ guard[r] = None
  /\ at[r] \notin {"headers", "over"} => todo[r] = <<>>
  /\ at[r] = "headers" => todo[r] \in Assigned /\ assigned[r] # None
  /\ at[r] = "over" => todo[r] \in Ending
  /\ todo[r] \in Unobserved \ {<<"observe", "beginUse", "beginTimeout", "wake">>} => guard[r] # None
  /\ guard[r] # None =>
       /\ guard[r].use < conn[guard[r].conn].uses
       /\ IF todo[r] \in Unobserved THEN guard[r].conn # assigned[r] /\ Down(guard[r].conn)
                                    ELSE guard[r].conn = assigned[r]
  /\ guard[r] = None => todo[r] \in {<<>>, <<"observe", "beginUse", "beginTimeout", "wake">>}
  /\ guard[r] = None /\ at[r] \in {"headers", "body"} => todo[r] # <<>>

(* Guards are of different uses. *)
GuardsDiffer ==
  \A q, r \in Requests :
    guard[q] # None /\ guard[r] # None /\ guard[q].conn = guard[r].conn /\ guard[q].use = guard[r].use
      => q = r

(* The use a request reports is its guard's, and a request that is over or   *)
(* is about to begin a use has ended it, or its guard is about to.           *)
UseInv(r) ==
  /\ r \in phase => at[r] = "acquire" /\ r \notin cancelled
  /\ use[r] # None => traced /\ guard[r] # None /\ guard[r].token /\ use[r] = <<guard[r].conn, guard[r].use>>
  /\ todo[r] \in Superseded \cup {<<"beginUse", "beginTimeout", "wake">>} => use[r] = None
  /\ at[r] = "over" /\ use[r] # None => todo[r] \in Completing \cup Aborting
  /\ todo[r] = <<"abortWake", "finishWrite">> => victim[r] = r

(* The uploads of the guards that finish or have finished. *)
FinishInv(r) ==
  /\ todo[r] \in Completing \cup {<<"enterIdle">>, <<"abortUse", "finishWrite">>} => Complete(r)
  /\ todo[r] \in {<<"finishWrite">>, <<"abortWake", "finishWrite">>} =>
       Complete(r) \/ conn[guard[r].conn].aborted
  /\ todo[r] = <<"enterIdle">> /\ guard[r].token => Token(guard[r]) \in clean

(* A task that is not polled has left its waker, or was woken. *)
WakerInv(k) ==
  Live(k) =>
    /\ conn[k].aborted /\ lock[k] = None => k \in woken
    /\ ~conn[k].waker /\ k \notin woken => conn[k].uses = 0 /\ \A r \in Requests : assigned[r] # k

IdleInv(k) ==
  conn[k].idle =>
    /\ ~conn[k].aborted /\ (conn[k].closed => todo[k] # <<>>)
    /\ \A r \in Requests : LastUser(k, r) =>
         /\ Complete(r) /\ at[r] = "over"
         /\ guard[r].token => Token(guard[r]) \in clean

(* The control of a connection's task. *)
ConnInv(k) ==
  /\ todo[k] \in Polling \cup Failing \cup Dropped
  /\ conn[k].closed => todo[k] \in Dropped
  /\ ~conn[k].closed => todo[k] \in Polling \cup Failing
  /\ todo[k] \in {<<"write">>, <<"socket">>} => current[k] # None

Active(k, r) == timeout[k].active # None /\ timeout[k].active.request = r

(* Which request writes to a connection: one that was given it and has begun *)
(* its timeout, once everything written before is complete.                  *)
WriteInv(k, r) ==
  /\ r \in ToSet(sent[k]) => assigned[r] = k /\ todo[r] \notin Unbegun
  /\ current[k] = r => assigned[r] = k \/ Down(k)
  /\ todo[r] \in Unbegun /\ assigned[r] = k => current[k] = r
  /\ Active(k, r) /\ Live(k) =>
       /\ guard[r] # None /\ todo[r] \notin Unbegun
       /\ guard[r].conn = k /\ guard[r].use = timeout[k].active.use
       /\ current[k] = r /\ r \in ToSet(sent[k]) => timeout[k].started
  /\ Active(k, r) /\ Live(k) /\ ~conn[k].aborted =>
       /\ r \notin flushed => current[k] = r
       /\ current[k] = r /\ r \in ToSet(sent[k]) /\ r \in wire /\ k \notin unflushed => r \in flushed
  /\ r \in ToSet(sent[k]) /\ Live(k) /\ ~conn[k].aborted => Complete(r) \/ Active(k, r)
  /\ todo[k] = <<"socket">> =>
       /\ r \in ToSet(sent[k]) => Complete(r) \/ current[k] = r
       /\ current[k] = r => todo[r] \notin Unbegun
       /\ current[k] = r /\ ~conn[k].aborted => Complete(r) \/ Active(k, r)

IInv ==
  /\ TypeOK /\ GuardsDiffer /\ NoWriteOverIncomplete
  /\ \A r \in Requests : TaskInv(r) /\ UseInv(r) /\ FinishInv(r)
  /\ \A k \in Connections : ConnInv(k) /\ WakerInv(k) /\ IdleInv(k)
  /\ \A k \in Connections, r \in Requests : WriteInv(k, r)

--------------------------------------------------------------------------------
(* What an actor does next is a tuple: concatenations of the lengths that    *)
(* occur.                                                                    *)

(* 1 and 1 steps. *)
LEMMA Concat11 ==
  ASSUME NEW a, NEW b
  PROVE  <<a>> \o <<b>> = <<a, b>>
<1>0. PICK S : S = {a, b}
  OBVIOUS
<1>1. <<a>> \in Seq(S) /\ <<b>> \in Seq(S) /\ <<a, b>> \in Seq(S)
  BY <1>0
<1>2. Len(<<a>> \o <<b>>) = 2 /\ <<a>> \o <<b>> \in Seq(S)
  BY <1>1
<1>3. \A i \in 1 .. 2 : (<<a>> \o <<b>>)[i] = <<a, b>>[i]
  BY <1>1
<1> QED
  BY <1>1, <1>2, <1>3, SeqEqual

(* 1 and 3 steps. *)
LEMMA Concat13 ==
  ASSUME NEW a, NEW b, NEW c, NEW d
  PROVE  <<a>> \o <<b, c, d>> = <<a, b, c, d>>
<1>0. PICK S : S = {a, b, c, d}
  OBVIOUS
<1>1. <<a>> \in Seq(S) /\ <<b, c, d>> \in Seq(S) /\ <<a, b, c, d>> \in Seq(S)
  BY <1>0
<1>2. Len(<<a>> \o <<b, c, d>>) = 4 /\ <<a>> \o <<b, c, d>> \in Seq(S)
  BY <1>1
<1>3. \A i \in 1 .. 4 : (<<a>> \o <<b, c, d>>)[i] = <<a, b, c, d>>[i]
  BY <1>1
<1> QED
  BY <1>1, <1>2, <1>3, SeqEqual

(* 1 and 4 steps. *)
LEMMA Concat14 ==
  ASSUME NEW a, NEW b, NEW c, NEW d, NEW e
  PROVE  <<a>> \o <<b, c, d, e>> = <<a, b, c, d, e>>
<1>0. PICK S : S = {a, b, c, d, e}
  OBVIOUS
<1>1. <<a>> \in Seq(S) /\ <<b, c, d, e>> \in Seq(S) /\ <<a, b, c, d, e>> \in Seq(S)
  BY <1>0
<1>2. Len(<<a>> \o <<b, c, d, e>>) = 5 /\ <<a>> \o <<b, c, d, e>> \in Seq(S)
  BY <1>1
<1>3. \A i \in 1 .. 5 : (<<a>> \o <<b, c, d, e>>)[i] = <<a, b, c, d, e>>[i]
  BY <1>1
<1> QED
  BY <1>1, <1>2, <1>3, SeqEqual

(* 2 and 1 steps. *)
LEMMA Concat21 ==
  ASSUME NEW a, NEW b, NEW c
  PROVE  <<a, b>> \o <<c>> = <<a, b, c>>
<1>0. PICK S : S = {a, b, c}
  OBVIOUS
<1>1. <<a, b>> \in Seq(S) /\ <<c>> \in Seq(S) /\ <<a, b, c>> \in Seq(S)
  BY <1>0
<1>2. Len(<<a, b>> \o <<c>>) = 3 /\ <<a, b>> \o <<c>> \in Seq(S)
  BY <1>1
<1>3. \A i \in 1 .. 3 : (<<a, b>> \o <<c>>)[i] = <<a, b, c>>[i]
  BY <1>1
<1> QED
  BY <1>1, <1>2, <1>3, SeqEqual

(* 2 and 4 steps. *)
LEMMA Concat24 ==
  ASSUME NEW a, NEW b, NEW c, NEW d, NEW e, NEW f
  PROVE  <<a, b>> \o <<c, d, e, f>> = <<a, b, c, d, e, f>>
<1>0. PICK S : S = {a, b, c, d, e, f}
  OBVIOUS
<1>1. <<a, b>> \in Seq(S) /\ <<c, d, e, f>> \in Seq(S) /\ <<a, b, c, d, e, f>> \in Seq(S)
  BY <1>0
<1>2. Len(<<a, b>> \o <<c, d, e, f>>) = 6 /\ <<a, b>> \o <<c, d, e, f>> \in Seq(S)
  BY <1>1
<1>3. \A i \in 1 .. 6 : (<<a, b>> \o <<c, d, e, f>>)[i] = <<a, b, c, d, e, f>>[i]
  BY <1>1
<1> QED
  BY <1>1, <1>2, <1>3, SeqEqual

--------------------------------------------------------------------------------
(* Control facts. *)

(* What a request is doing tells where it is and what it does next. *)
LEMMA RequestDoes ==
  ASSUME IInv, NEW r \in Requests
  PROVE  /\ Does(r, "observe") => todo[r] = <<"observe", "beginUse", "beginTimeout", "wake">>
         /\ Does(r, "beginUse") => todo[r] = <<"beginUse", "beginTimeout", "wake">>
         /\ Does(r, "beginTimeout") => todo[r] = <<"beginTimeout", "wake">>
         /\ Does(r, "wake") => todo[r] = <<"wake">>
         /\ Does(r, "abortPrevious") => todo[r] = <<"abortPrevious">>
         /\ Does(r, "abortAny") => todo[r] = <<"abortAny", "finishWrite">>
         /\ Does(r, "enterIdle") => todo[r] = <<"enterIdle">>
         /\ Does(r, "finishWrite") =>
              todo[r] \in {<<"finishWrite", "finishUse", "observe", "beginUse", "beginTimeout", "wake">>,
                           <<"finishWrite", "finishUse", "enterIdle">>, <<"finishWrite", "finishUse">>,
                           <<"finishWrite">>}
         /\ Does(r, "finishUse") =>
              todo[r] \in {<<"finishUse", "observe", "beginUse", "beginTimeout", "wake">>,
                           <<"finishUse", "enterIdle">>, <<"finishUse">>}
         /\ Does(r, "abortUse") =>
              todo[r] \in {<<"abortUse", "observe", "beginUse", "beginTimeout", "wake">>,
                           <<"abortUse", "finishWrite">>, <<"abortUse">>}
         /\ Does(r, "abortWake") =>
              todo[r] \in {<<"abortWake", "observe", "beginUse", "beginTimeout", "wake">>,
                           <<"abortWake", "finishWrite">>, <<"abortWake">>}
<1>1. todo[r] \in Ending \cup Assigned
  <2>1. at[r] \in Places /\ TaskInv(r)
    BY DEF IInv, TypeOK
  <2>2. todo[r] = <<>> \/ todo[r] \in Assigned \/ todo[r] \in Ending
    BY <2>1 DEF TaskInv, Places
  <2> QED
    BY <2>2 DEF Ending, Closing
<1> QED
  BY <1>1 DEF Does, Ending, Assigned, Unbegun, Unobserved, Superseding, Superseded, Completing, Reusing,
              Aborting, Closing

--------------------------------------------------------------------------------
(* What a step leaves alone. *)

(* What no step undoes. *)
Lasting ==
  /\ \A k \in Connections :
       /\ conn[k].uses <= conn'[k].uses /\ (conn[k].closed => conn'[k].closed)
       /\ conn[k].aborted => conn'[k].aborted
       /\ Down(k) => Down(k)'
  /\ wire \subseteq wire' /\ produced \subseteq produced' /\ flushed \subseteq flushed'
  /\ clean \subseteq clean' /\ traced' = traced
  /\ \A r \in Requests : at[r] = "over" => at'[r] = "over"

(* A request that a step leaves alone; its use may have been ended. *)
SameTask(r) ==
  /\ at'[r] = at[r] /\ todo'[r] = todo[r] /\ assigned'[r] = assigned[r] /\ guard'[r] = guard[r]
  /\ victim'[r] = victim[r] /\ use'[r] \in {use[r], None}
  /\ r \in phase' => r \in phase
  /\ r \in cancelled' => r \in cancelled

(* A complete upload stays complete. *)
LEMMA CompleteLasts ==
  ASSUME Lasting, NEW r, Complete(r)
  PROVE  Complete(r)'
BY DEF Lasting, Complete

(* A request that is left alone keeps its part of the invariant. *)
LEMMA TaskKeeps ==
  ASSUME IInv, TypeOK', Lasting, NEW r \in Requests, SameTask(r)
  PROVE  TaskInv(r)' /\ UseInv(r)' /\ FinishInv(r)'
<1>1. TaskInv(r) /\ UseInv(r) /\ FinishInv(r) /\ TypeOK
  BY DEF IInv
<1>2. Complete(r) => Complete(r)'
  BY CompleteLasts
<1>3. guard[r] # None => guard[r].conn \in Connections /\ guard[r].use \in Nat
  BY <1>1 DEF TypeOK, Guards
<1>4. TaskInv(r)'
  <2>1. guard[r] # None => /\ conn[guard[r].conn].uses \in Nat /\ conn'[guard[r].conn].uses \in Nat
                           /\ conn[guard[r].conn].uses <= conn'[guard[r].conn].uses
                           /\ Down(guard[r].conn) => Down(guard[r].conn)'
    BY <1>1, <1>3 DEF Lasting, SameTask, TypeOK, States, Down, Does
  <2>2. guard[r] # None => guard[r].use < conn'[guard[r].conn].uses
    BY <1>1, <1>3, <2>1 DEF TaskInv
  <2> QED
    BY <1>1, <2>1, <2>2 DEF TaskInv, SameTask
<1>5. UseInv(r)'
  BY <1>1 DEF UseInv, SameTask, Lasting
<1>6. FinishInv(r)'
  <2>1. /\ todo[r] \in {<<"finishWrite">>, <<"abortWake", "finishWrite">>} =>
             Complete(r)' \/ conn'[guard[r].conn].aborted
        /\ todo[r] \in Completing \cup {<<"enterIdle">>, <<"abortUse", "finishWrite">>} => Complete(r)'
    <3>1. todo[r] \in {<<"finishWrite">>, <<"abortWake", "finishWrite">>} => guard[r] # None
      BY <1>1 DEF TaskInv
    <3> QED
      BY <1>1, <1>2, <1>3, <3>1 DEF FinishInv, Lasting
  <2>2. todo[r] = <<"enterIdle">> /\ guard[r].token => Token(guard[r]) \in clean'
    BY <1>1 DEF FinishInv, Lasting
  <2> QED
    BY <2>1, <2>2 DEF FinishInv, SameTask, Token
<1> QED
  BY <1>4, <1>5, <1>6

(* The waker of a connection that is neither aborted nor polled. *)
LEMMA WakerKeeps ==
  ASSUME IInv, NEW k \in Connections, Live(k)' => Live(k),
         conn'[k].aborted <=> conn[k].aborted, conn[k].waker => conn'[k].waker \/ k \in woken',
         lock'[k] = lock[k], k \in woken => k \in woken',
         conn[k].uses = 0 /\ (\A r \in Requests : assigned[r] # k) =>
           conn'[k].uses = 0 /\ \A r \in Requests : assigned'[r] # k
  PROVE  WakerInv(k)'
<1>1. WakerInv(k)
  BY DEF IInv
<1> QED
  BY <1>1 DEF WakerInv

(* A connection that becomes neither idle nor aborted. *)
LEMMA IdleKeeps ==
  ASSUME IInv, Lasting, NEW k \in Connections, conn'[k].idle => conn[k].idle,
         conn'[k].idle /\ conn'[k].aborted => conn[k].aborted,
         conn'[k].idle /\ conn'[k].closed /\ todo'[k] = <<>> => conn[k].closed /\ todo[k] = <<>>,
         \A r \in Requests : conn'[k].idle /\ LastUser(k, r)' => LastUser(k, r) /\ guard'[r] = guard[r]
  PROVE  IdleInv(k)'
<1>1. IdleInv(k)
  BY DEF IInv
<1>2. \A r \in Requests : Complete(r) => Complete(r)'
  BY CompleteLasts
<1> QED
  BY <1>1, <1>2 DEF IdleInv, Lasting, Token

(* The writes of a connection and a request that a step leaves alone. *)
LEMMA WriteKeeps ==
  ASSUME IInv, Lasting, NEW k \in Connections, NEW r \in Requests,
         sent'[k] = sent[k], current'[k] = current[k], timeout'[k] = timeout[k],
         Live(k)' => Live(k), todo'[k] = <<"socket">> => todo[k] = <<"socket">>,
         assigned'[r] = assigned[r], todo'[r] \in Unbegun => todo[r] \in Unbegun,
         guard[r] # None /\ todo[r] \notin Unbegun =>
           guard'[r] # None /\ guard'[r].conn = guard[r].conn /\ guard'[r].use = guard[r].use,
         Live(k)' /\ current[k] = r /\ r \in wire' /\ k \notin unflushed' => r \in wire /\ k \notin unflushed
  PROVE  WriteInv(k, r)'
<1>1. WriteInv(k, r)
  BY DEF IInv
<1>2. Complete(r) => Complete(r)'
  BY CompleteLasts
<1>3. Active(k, r)' <=> Active(k, r)
  BY DEF Active
<1>4. /\ Down(k) => Down(k)'
      /\ conn[k].aborted => conn'[k].aborted
      /\ r \in flushed => r \in flushed'
  BY DEF Lasting
<1> QED
  BY <1>1, <1>2, <1>3, <1>4 DEF WriteInv

(* A connection that a step leaves alone. *)
SameConn(k) ==
  /\ conn'[k] = conn[k] /\ timeout'[k] = timeout[k] /\ lock'[k] = lock[k] /\ current'[k] = current[k]
  /\ todo'[k] = todo[k] /\ sent'[k] = sent[k]
  /\ (k \in woken' <=> k \in woken) /\ (k \in unflushed' <=> k \in unflushed)

(* A step changes requests of R and connections of K; the rest keeps its     *)
(* part of the invariant.                                                    *)
LEMMA StepKeeps ==
  ASSUME IInv, TypeOK', Lasting, GuardsDiffer', NoWriteOverIncomplete',
         NEW R \in SUBSET Requests, NEW K \in SUBSET Connections,
         \A r \in Requests \ R : SameTask(r),
         \A r \in R : TaskInv(r)' /\ UseInv(r)' /\ FinishInv(r)',
         \A k \in Connections \ K : SameConn(k),
         \A k \in K : ConnInv(k)' /\ WakerInv(k)' /\ IdleInv(k)',
         \A k \in Connections, r \in Requests : k \in K \/ r \in R => WriteInv(k, r)',
         \A k \in Connections \ K, r \in R : assigned'[r] = k => assigned[r] = k,
         \A k \in Connections \ K, r \in R :
           conn[k].idle /\ LastUser(k, r)' => LastUser(k, r) /\ guard'[r] = guard[r],
         \A k \in Connections \ K, r \in Requests \ R :
           Live(k) /\ current[k] = r /\ r \in wire' => r \in wire
  PROVE  IInv'
<1>1. \A r \in Requests : TaskInv(r)' /\ UseInv(r)' /\ FinishInv(r)'
  BY TaskKeeps
<1>2. ASSUME NEW k \in Connections \ K
      PROVE  ConnInv(k)' /\ WakerInv(k)' /\ IdleInv(k)'
  <2>1. SameConn(k) /\ ConnInv(k)
    BY DEF IInv
  <2>2. \A r \in Requests : assigned'[r] = k => assigned[r] = k
    BY DEF SameTask
  <2>3. Live(k)' <=> Live(k)
    BY <2>1 DEF Live, SameConn
  <2>4. WakerInv(k)'
    <3>1. conn[k].uses = 0 /\ (\A r \in Requests : assigned[r] # k) =>
            conn'[k].uses = 0 /\ \A r \in Requests : assigned'[r] # k
      BY <2>1, <2>2 DEF SameConn
    <3> QED
      BY <2>1, <2>3, <3>1, WakerKeeps DEF SameConn
  <2>5. ConnInv(k)'
    BY <2>1 DEF SameConn, ConnInv
  <2>6. \A r \in Requests : conn'[k].idle /\ LastUser(k, r)' => LastUser(k, r) /\ guard'[r] = guard[r]
    BY <2>1 DEF SameConn, SameTask, LastUser, IsCurrentUse
  <2>7. IdleInv(k)'
    BY <2>1, <2>6, IdleKeeps DEF SameConn
  <2> QED
    BY <2>4, <2>5, <2>7
<1>3. ASSUME NEW k \in Connections, NEW r \in Requests
      PROVE  WriteInv(k, r)'
  <2>1. CASE k \in K \/ r \in R
    BY <2>1
  <2>2. CASE k \notin K /\ r \notin R
    <3>1. SameConn(k) /\ SameTask(r)
      BY <2>2
    <3>2. Live(k)' <=> Live(k)
      BY <3>1 DEF Live, SameConn
    <3>3. Live(k)' /\ current[k] = r /\ r \in wire' /\ k \notin unflushed' => r \in wire /\ k \notin unflushed
      BY <2>2, <3>1, <3>2 DEF SameConn
    <3>4. guard[r] # None => /\ guard'[r] # None
                             /\ guard'[r].conn = guard[r].conn /\ guard'[r].use = guard[r].use
      BY <3>1 DEF SameTask
    <3> QED
      BY <3>1, <3>2, <3>3, <3>4, WriteKeeps DEF SameConn, SameTask
  <2> QED
    BY <2>1, <2>2
<1> QED
  BY <1>1, <1>2, <1>3 DEF IInv

(* A step of one request that changes nothing its connections know. *)
LEMMA LocalStep ==
  ASSUME IInv, TypeOK', Lasting, NEW r \in Requests, TaskInv(r)', UseInv(r)', FinishInv(r)',
         \A q \in Requests \ {r} : SameTask(q), \A k \in Connections : todo'[k] = todo[k],
         todo'[r] \in Unbegun <=> todo[r] \in Unbegun,
         UNCHANGED <<conn, timeout, lock, hyperVars, wire, assigned, guard>>
  PROVE  IInv'
<1>1. \A k \in Connections : SameConn(k)
  BY DEF SameConn, hyperVars
<1>2. GuardsDiffer'
  BY DEF IInv, GuardsDiffer
<1>3. NoWriteOverIncomplete'
  <2>1. \A q : Complete(q) => Complete(q)'
    BY CompleteLasts
  <2> QED
    BY <2>1 DEF IInv, NoWriteOverIncomplete, hyperVars
<1>4. \A k \in Connections : WriteInv(k, r)'
  <2> SUFFICES ASSUME NEW k \in Connections PROVE WriteInv(k, r)'
    OBVIOUS
  <2>1. Live(k)' <=> Live(k)
    BY <1>1 DEF Live, SameConn
  <2> QED
    BY <1>1, <2>1, WriteKeeps DEF SameConn
<1>5. \A k \in Connections : LastUser(k, r)' => LastUser(k, r)
  BY DEF LastUser, IsCurrentUse
<1> QED
  <2>1. PICK R, K : R = {r} /\ K = {}
    OBVIOUS
  <2> QED
    BY <1>1, <1>2, <1>3, <1>4, <1>5, <2>1, StepKeeps

--------------------------------------------------------------------------------
(* Steps of a request that its connection does not see. *)

(* The slot: begin_phase and finish_phase. *)
LEMMA AcquireKeeps ==
  ASSUME IInv, NEW r \in Requests, BeginAcquire(r) \/ EndAcquire(r)
  PROVE  IInv'
<1>1. TypeOK /\ TaskInv(r) /\ UseInv(r) /\ FinishInv(r)
  BY DEF IInv
<1>2. UNCHANGED <<traced, conn, timeout, lock, hyperVars, bodyVars, todo, assigned, guard, victim,
                  use, cancelled, clean>>
  BY DEF BeginAcquire, EndAcquire, outsideAcquire
<1>3. PICK next \in {"acquire", "send", "over"} : at' = [at EXCEPT ![r] = next]
  BY DEF BeginAcquire, EndAcquire
<1>4. /\ at[r] \in {"start", "acquire"} /\ at'[r] = next
      /\ \A q \in Requests \ {r} : at'[q] = at[q] /\ (q \in phase' => q \in phase)
      /\ r \in phase' => next = "acquire" /\ r \notin cancelled
  <2>1. at'[r] = next /\ \A q \in Requests \ {r} : at'[q] = at[q]
    BY <1>1, <1>3 DEF TypeOK
  <2>2. CASE BeginAcquire(r)
    <3>1. at[r] = "start" /\ at'[r] = "acquire" /\ r \notin phase
      BY <1>1, <2>2 DEF BeginAcquire, TypeOK, UseInv
    <3> QED
      BY <2>1, <2>2, <3>1 DEF BeginAcquire
  <2>3. CASE EndAcquire(r)
    BY <2>1, <2>3 DEF EndAcquire
  <2> QED
    BY <2>2, <2>3
<1>5. TypeOK'
  <2>1. at' \in [Requests -> Places] /\ phase' \subseteq Requests
    BY <1>1, <1>3 DEF TypeOK, Places, BeginAcquire, EndAcquire
  <2> QED
    BY <1>1, <1>2, <2>1 DEF TypeOK, hyperVars, bodyVars
<1>6. Lasting
  <2>1. \A k \in Connections : conn[k].uses \in Nat
    BY <1>1 DEF TypeOK, States
  <2>2. \A k \in Connections : Down(k) => Down(k)'
    BY <1>2 DEF Down, Does
  <2> QED
    BY <1>2, <1>4, <2>1, <2>2 DEF Lasting, bodyVars
<1>7. \A q \in Requests \ {r} : SameTask(q)
  BY <1>2, <1>4 DEF SameTask
<1>8. todo[r] = <<>> /\ guard[r] = None /\ use[r] = None
  BY <1>1, <1>4 DEF TaskInv, UseInv
<1>9. TaskInv(r)' /\ UseInv(r)' /\ FinishInv(r)'
  <2>1. TaskInv(r)'
    BY <1>1, <1>2, <1>4, <1>8 DEF TaskInv, Unobserved, Superseding, Superseded, Ending, Closing
  <2>2. UseInv(r)'
    BY <1>1, <1>2, <1>4, <1>8 DEF UseInv
  <2>3. FinishInv(r)'
    BY <1>2, <1>8 DEF FinishInv, Completing, Reusing
  <2> QED
    BY <2>1, <2>2, <2>3
<1> QED
  BY <1>2, <1>5, <1>6, <1>7, <1>9, LocalStep DEF hyperVars, bodyVars

(* RequestTelemetry::cancel. *)
LEMMA CancelKeeps ==
  ASSUME IInv, NEW r \in Requests, Cancel(r)
  PROVE  IInv'
<1>1. TypeOK /\ TaskInv(r) /\ UseInv(r) /\ FinishInv(r)
  BY DEF IInv
<1>2. /\ UNCHANGED <<traced, conn, timeout, lock, hyperVars, bodyVars, taskVars, clean>>
      /\ cancelled' = cancelled \cup {r} /\ phase' = phase \ {r} /\ use' = [use EXCEPT ![r] = None]
  BY DEF Cancel
<1>3. use'[r] = None /\ \A q \in Requests \ {r} : use'[q] = use[q]
  BY <1>1, <1>2 DEF TypeOK
<1>4. TypeOK'
  BY <1>1, <1>2 DEF TypeOK, hyperVars, bodyVars, taskVars
<1>5. Lasting
  <2>1. \A k \in Connections : conn[k].uses \in Nat
    BY <1>1 DEF TypeOK, States
  <2>2. \A k \in Connections : Down(k) => Down(k)'
    BY <1>2 DEF Down, Does, taskVars
  <2> QED
    BY <1>2, <2>1, <2>2 DEF Lasting, bodyVars, taskVars
<1>6. \A q \in Requests \ {r} : SameTask(q)
  BY <1>2, <1>3 DEF SameTask, taskVars
<1>7. TaskInv(r)' /\ UseInv(r)' /\ FinishInv(r)'
  <2>1. TaskInv(r)'
    BY <1>1, <1>2 DEF TaskInv, taskVars, Down, Does
  <2>2. UseInv(r)'
    BY <1>1, <1>2, <1>3 DEF UseInv, taskVars
  <2>3. FinishInv(r)'
    BY <1>1, <1>2 DEF FinishInv, Complete, Token, taskVars, bodyVars
  <2> QED
    BY <2>1, <2>2, <2>3
<1> QED
  BY <1>2, <1>4, <1>5, <1>6, <1>7, LocalStep DEF hyperVars, bodyVars, taskVars

(* A request moves on and leaves the connections alone. *)
Moves(r, place, steps) ==
  /\ at' = [at EXCEPT ![r] = place] /\ todo' = [todo EXCEPT ![r] = steps]
  /\ UNCHANGED <<traced, conn, timeout, lock, hyperVars, bodyVars, assigned, guard, victim, phase, cancelled>>

(* Such a step keeps the invariant when it keeps that of its request. *)
LEMMA MoveKeeps ==
  ASSUME IInv, NEW r \in Requests, NEW place \in {"headers", "body", "over"}, NEW steps \in Ending \cup Assigned,
         Moves(r, place, steps), at[r] \in {"headers", "body", "over"}, at[r] = "over" => place = "over",
         steps \in Unbegun <=> todo[r] \in Unbegun,
         TaskInv(r)', UseInv(r)', FinishInv(r)',
         use' \in [Requests -> Tokens \cup {None}], \A q \in Requests \ {r} : use'[q] = use[q],
         clean \subseteq clean', clean' \subseteq Tokens
  PROVE  IInv'
<1>1. TypeOK
  BY DEF IInv
<1>2. /\ at'[r] = place /\ todo'[r] = steps
      /\ \A q \in Requests \ {r} : at'[q] = at[q]
      /\ \A a \in Actors \ {r} : todo'[a] = todo[a]
  BY <1>1 DEF TypeOK, Moves, Actors
<1>3. TypeOK'
  <2>1. at' \in [Requests -> Places]
    BY <1>1 DEF TypeOK, Places, Moves
  <2>2. todo' \in [Actors -> Ending \cup Assigned \cup Polling \cup Failing \cup Dropped]
    BY <1>1 DEF TypeOK, Moves
  <2> QED
    BY <1>1, <2>1, <2>2 DEF TypeOK, Moves, hyperVars, bodyVars
<1>4. \A k \in Connections : todo'[k] = todo[k]
  BY <1>2, UseAssumption DEF Actors
<1>5. Lasting
  <2>1. \A k \in Connections : conn[k].uses \in Nat
    BY <1>1 DEF TypeOK, States
  <2>2. \A k \in Connections : Down(k) => Down(k)'
    BY <1>4 DEF Down, Does, Moves
  <2> QED
    BY <1>2, <2>1, <2>2 DEF Lasting, bodyVars, Moves
<1>6. \A q \in Requests \ {r} : SameTask(q)
  BY <1>2 DEF SameTask, Moves, Actors
<1> QED
  BY <1>2, <1>3, <1>4, <1>5, <1>6, LocalStep DEF Moves, hyperVars, bodyVars

(* The response's head is there. *)
LEMMA HeadersKeeps ==
  ASSUME IInv, NEW r \in Requests, Headers(r)
  PROVE  IInv'
<1>1. TypeOK /\ TaskInv(r) /\ UseInv(r) /\ FinishInv(r)
  BY DEF IInv
<1>2. /\ at[r] = "headers" /\ todo[r] = <<>> /\ at' = [at EXCEPT ![r] = "body"]
      /\ UNCHANGED <<traced, conn, timeout, lock, hyperVars, bodyVars, todo, assigned, guard, victim, storyVars>>
  BY DEF Headers
<1>3. at'[r] = "body"
  BY <1>1, <1>2 DEF TypeOK
<1>4. Moves(r, "body", <<>>)
  BY <1>1, <1>2 DEF TypeOK, Moves, storyVars, Actors
<1>5. TaskInv(r)'
  BY <1>1, <1>2, <1>3 DEF TaskInv, Down, Does, Unobserved, Superseding, Superseded
<1>6. UseInv(r)'
  BY <1>1, <1>2, <1>3 DEF UseInv, storyVars
<1>7. FinishInv(r)'
  BY <1>1, <1>2 DEF FinishInv, Complete, Token, storyVars, bodyVars
<1>8. <<>> \in Ending \cup Assigned
  BY DEF Ending, Closing
<1> QED
  BY <1>1, <1>2, <1>4, <1>5, <1>6, <1>7, <1>8, MoveKeeps DEF storyVars, TypeOK

(* ConnectionUseGuard::finish, abort and drop: what is left to do. *)
LEMMA EndsKeeps ==
  ASSUME IInv, NEW r \in Requests, Finish(r) \/ Abort(r)
  PROVE  IInv'
<1>1. TypeOK /\ TaskInv(r) /\ UseInv(r) /\ FinishInv(r)
  BY DEF IInv
<1>2. PICK steps \in {<<"abortAny", "finishWrite">>, <<"abortUse", "finishWrite">>, <<"finishWrite", "finishUse">>,
                      <<"finishWrite", "finishUse", "enterIdle">>} :
        /\ Ends(r, steps)
        /\ steps # <<"abortAny", "finishWrite">> => Complete(r)
  <2>1. CASE Finish(r)
    <3>1. CASE ~Complete(r)
      BY <2>1, <3>1 DEF Finish
    <3>2. CASE Complete(r) /\ response[r] = "keep"
      <4>1. <<"finishWrite", "finishUse">> \o <<"enterIdle">> = <<"finishWrite", "finishUse", "enterIdle">>
        BY Concat21
      <4> QED
        BY <2>1, <3>2, <4>1 DEF Finish
    <3>3. CASE Complete(r) /\ response[r] # "keep"
      <4>1. <<"finishWrite", "finishUse">> \o <<>> = <<"finishWrite", "finishUse">>
        OBVIOUS
      <4> QED
        BY <2>1, <3>3, <4>1 DEF Finish
    <3> QED
      BY <3>1, <3>2, <3>3
  <2>2. CASE Abort(r)
    BY <2>2 DEF Abort
  <2> QED
    BY <2>1, <2>2
<1>3. at[r] \in {"headers", "body"} /\ todo[r] = <<>> /\ guard[r] # None
  BY <1>1 DEF Finish, Abort, TaskInv
<1>4. Moves(r, "over", steps) /\ UNCHANGED <<use, clean>>
  BY <1>2 DEF Ends, Moves, storyVars
<1>5. at'[r] = "over" /\ todo'[r] = steps /\ guard' = guard /\ assigned' = assigned /\ conn' = conn
  BY <1>1, <1>4 DEF TypeOK, Moves, Actors
<1>6. steps \in Ending \cup Assigned /\ steps \notin Unobserved /\ steps \notin Unbegun /\ steps \in Ending
  BY DEF Ending, Completing, Reusing, Aborting, Unbegun, Unobserved, Superseding, Superseded
<1>7. todo[r] \notin Unobserved /\ todo[r] \notin Unbegun
  BY <1>3 DEF Unbegun, Unobserved, Superseding, Superseded
<1>8. TaskInv(r)'
  BY <1>1, <1>3, <1>5, <1>6, <1>7 DEF TaskInv
<1>9. UseInv(r)'
  <2>1. steps \in Completing \cup Aborting /\ steps \notin Superseded \cup {<<"beginUse", "beginTimeout", "wake">>}
        /\ steps # <<"abortWake", "finishWrite">>
    BY DEF Completing, Reusing, Aborting, Superseded
  <2> QED
    BY <1>1, <1>3, <1>4, <1>5, <2>1 DEF UseInv, Moves
<1>10. FinishInv(r)'
  <2>1. Complete(r) => Complete(r)'
    BY <1>4 DEF Moves, Complete, bodyVars
  <2>2. steps \notin {<<"finishWrite">>, <<"abortWake", "finishWrite">>, <<"enterIdle">>}
    OBVIOUS
  <2>3. steps \in Completing \cup {<<"enterIdle">>, <<"abortUse", "finishWrite">>} => steps # <<"abortAny", "finishWrite">>
    BY DEF Completing, Reusing
  <2> QED
    BY <1>2, <1>5, <2>1, <2>2, <2>3 DEF FinishInv
<1> QED
  BY <1>1, <1>3, <1>4, <1>6, <1>7, <1>8, <1>9, <1>10, MoveKeeps DEF TypeOK

(* RequestConnectionUseTelemetry::finish. *)
LEMMA FinishUseKeeps ==
  ASSUME IInv, NEW r \in Requests, FinishUse(r)
  PROVE  IInv'
<1>1. TypeOK /\ TaskInv(r) /\ UseInv(r) /\ FinishInv(r)
  BY DEF IInv
<1>2. PICK rest \in {<<"observe", "beginUse", "beginTimeout", "wake">>, <<"enterIdle">>, <<>>} :
        /\ rest = <<"observe", "beginUse", "beginTimeout", "wake">> =>
             todo[r] = <<"finishUse", "observe", "beginUse", "beginTimeout", "wake">>
        /\ rest = <<"enterIdle">> => todo[r] = <<"finishUse", "enterIdle">>
        /\ rest = <<>> => todo[r] = <<"finishUse">>
        /\ Tail(todo[r]) = rest /\ <<>> \o Tail(todo[r]) = rest
  <2>1. todo[r] \in {<<"finishUse", "observe", "beginUse", "beginTimeout", "wake">>,
                     <<"finishUse", "enterIdle">>, <<"finishUse">>}
    BY RequestDoes DEF FinishUse
  <2>2. CASE todo[r] = <<"finishUse", "observe", "beginUse", "beginTimeout", "wake">>
    BY <2>2
  <2>3. CASE todo[r] = <<"finishUse", "enterIdle">>
    BY <2>3
  <2>4. CASE todo[r] = <<"finishUse">>
    BY <2>4
  <2> QED
    BY <2>1, <2>2, <2>3, <2>4
<1>3. /\ at[r] \in {"headers", "over"} /\ guard[r] # None
      /\ (rest = <<"observe", "beginUse", "beginTimeout", "wake">> <=> at[r] = "headers")
  <2>1. todo[r] # <<>> /\ todo[r] # <<"observe", "beginUse", "beginTimeout", "wake">>
    BY <1>2
  <2>2. guard[r] # None /\ at[r] \in {"headers", "over"}
    BY <1>1, <2>1 DEF TaskInv, TypeOK, Places
  <2>3. CASE rest = <<"observe", "beginUse", "beginTimeout", "wake">>
    <3>0. todo[r] = <<"finishUse", "observe", "beginUse", "beginTimeout", "wake">>
      BY <1>2, <2>3
    <3>1. todo[r] \notin Ending
      BY <3>0 DEF Ending, Completing, Reusing, Aborting, Closing
    <3> QED
      BY <1>1, <2>2, <2>3, <3>1 DEF TaskInv
  <2>4. CASE rest # <<"observe", "beginUse", "beginTimeout", "wake">>
    <3>0. todo[r] \in {<<"finishUse", "enterIdle">>, <<"finishUse">>}
      BY <1>2, <2>4
    <3>1. todo[r] \notin Assigned
      BY <3>0 DEF Assigned, Unbegun, Unobserved, Superseding, Superseded
    <3> QED
      BY <1>1, <2>2, <2>4, <3>1 DEF TaskInv
  <2> QED
    BY <2>2, <2>3, <2>4
<1>4. PICK g : g = guard[r]
  OBVIOUS
<1>5. g \in Guards
  BY <1>1, <1>3, <1>4 DEF TypeOK
<1>6. PICK steps :
        /\ Moves(r, at[r], steps)
        /\ \/ steps = rest /\ ~g.token /\ UNCHANGED <<use, clean>>
           \/ /\ steps = rest /\ g.token /\ use[r] = Token(g) /\ use' = [use EXCEPT ![r] = None]
              /\ clean' = clean \cup {Token(g)}
           \/ /\ use[r] # Token(g) /\ g.token /\ UNCHANGED <<use, clean>>
              /\ \/ rest \in {<<>>, <<"enterIdle">>} /\ steps = <<"abortUse">>
                 \/ /\ rest = <<"observe", "beginUse", "beginTimeout", "wake">>
                    /\ steps = <<"abortUse", "observe", "beginUse", "beginTimeout", "wake">>
  <2>1. UNCHANGED <<traced, conn, timeout, lock, hyperVars, bodyVars, at, assigned, guard, victim, phase, cancelled>>
    BY DEF FinishUse
  <2>2. at' = [at EXCEPT ![r] = at[r]]
    BY <1>1, <2>1 DEF TypeOK
  <2>3. CASE ~g.token
    BY <1>2, <1>4, <2>1, <2>2, <2>3 DEF FinishUse, Done, Then, Moves
  <2>4. CASE g.token /\ use[r] = Token(g)
    BY <1>2, <1>4, <2>1, <2>2, <2>4 DEF FinishUse, Done, Then, Moves
  <2>5. CASE g.token /\ use[r] # Token(g)
    <3>1. todo' = [todo EXCEPT ![r] = <<"abortUse">> \o (IF Tail(todo[r]) = <<"enterIdle">> THEN <<>> ELSE Tail(todo[r]))]
          /\ UNCHANGED <<use, clean>>
      BY <1>4, <2>5 DEF FinishUse
    <3>2. <<"abortUse">> \o <<>> = <<"abortUse">>
      OBVIOUS
    <3>3. <<"abortUse">> \o <<"observe", "beginUse", "beginTimeout", "wake">>
            = <<"abortUse", "observe", "beginUse", "beginTimeout", "wake">>
      BY Concat14
    <3>4. CASE rest \in {<<>>, <<"enterIdle">>}
      BY <1>2, <2>1, <2>2, <2>5, <3>1, <3>2, <3>4 DEF Moves
    <3>5. CASE rest = <<"observe", "beginUse", "beginTimeout", "wake">>
      <4>1. rest # <<"enterIdle">>
        BY <3>5
      <4>2. todo' = [todo EXCEPT ![r] = <<"abortUse", "observe", "beginUse", "beginTimeout", "wake">>]
        BY <1>2, <3>1, <3>3, <3>5, <4>1
      <4> QED
        BY <2>1, <2>2, <2>5, <3>1, <3>5, <4>2 DEF Moves
    <3> QED
      BY <3>4, <3>5
  <2> QED
    BY <2>3, <2>4, <2>5
<1>7. /\ at' = at /\ todo'[r] = steps /\ guard' = guard /\ assigned' = assigned /\ conn' = conn /\ victim' = victim
      /\ \A q \in Requests \ {r} : use'[q] = use[q]
      /\ use'[r] = None
      /\ use' \in [Requests -> Tokens \cup {None}] /\ clean \subseteq clean' /\ clean' \subseteq Tokens
  <2>1. Token(g) \in Tokens \cup {None}
    BY <1>5 DEF Token, Guards, Tokens
  <2>2. use[r] # None => g.token /\ use[r] = Token(g)
    BY <1>1, <1>4 DEF UseInv, Token
  <2>3. at' = at /\ todo'[r] = steps /\ guard' = guard /\ assigned' = assigned /\ conn' = conn /\ victim' = victim
    BY <1>1, <1>6 DEF Moves, TypeOK, Actors
  <2>4. CASE UNCHANGED <<use, clean>>
    BY <1>1, <1>6, <2>2, <2>3, <2>4 DEF TypeOK
  <2>5. CASE g.token /\ use[r] = Token(g) /\ use' = [use EXCEPT ![r] = None] /\ clean' = clean \cup {Token(g)}
    <3>1. Token(g) \in Tokens
      BY <1>5, <2>5 DEF Token, Guards, Tokens
    <3> QED
      BY <1>1, <2>3, <2>5, <3>1 DEF TypeOK
  <2> QED
    BY <1>6, <2>4, <2>5
<1>8. steps \in {<<"observe", "beginUse", "beginTimeout", "wake">>,
                 <<"abortUse", "observe", "beginUse", "beginTimeout", "wake">>} <=> at[r] = "headers"
  BY <1>3, <1>6
<1>9. steps \in {<<"observe", "beginUse", "beginTimeout", "wake">>,
                <<"abortUse", "observe", "beginUse", "beginTimeout", "wake">>,
                <<"abortUse">>, <<"enterIdle">>, <<>>}
  BY <1>6
<1>10. /\ steps \in Ending \cup Assigned /\ (steps \in Unobserved <=> at[r] = "headers")
       /\ (steps \in Unbegun <=> at[r] = "headers")
       /\ (at[r] = "headers" => steps \in Assigned) /\ (at[r] = "over" => steps \in Ending)
  BY <1>3, <1>8, <1>9 DEF Ending, Completing, Reusing, Aborting, Closing, Assigned, Unbegun, Unobserved, Superseding, Superseded
<1>11. (todo[r] \in Unobserved <=> at[r] = "headers") /\ (todo[r] \in Unbegun <=> at[r] = "headers")
  <2>1. CASE at[r] = "headers"
    <3>1. todo[r] = <<"finishUse", "observe", "beginUse", "beginTimeout", "wake">>
      BY <1>2, <1>3, <2>1
    <3> QED
      BY <2>1, <3>1 DEF Unbegun, Unobserved, Superseding, Superseded
  <2>2. CASE at[r] # "headers"
    <3>1. todo[r] \in {<<"finishUse", "enterIdle">>, <<"finishUse">>}
      BY <1>2, <1>3, <2>2
    <3> QED
      BY <2>2, <3>1 DEF Unbegun, Unobserved, Superseding, Superseded
  <2> QED
    BY <2>1, <2>2
<1>12. TaskInv(r)'
  <2>1. todo' = [todo EXCEPT ![r] = steps]
    BY <1>6 DEF Moves
  <2>2. guard[r].conn \in Connections /\ guard[r].conn # r /\ guard[r].conn \in Actors
    BY <1>4, <1>5, UseAssumption DEF Guards, Actors
  <2>3. Down(guard[r].conn)' <=> Down(guard[r].conn)
    BY <1>1, <1>7, <2>1, <2>2 DEF Down, Does, TypeOK
  <2> QED
    BY <1>1, <1>3, <1>7, <1>10, <1>11, <2>3 DEF TaskInv
<1>13. UseInv(r)'
  <2>1. steps # <<"abortWake", "finishWrite">>
    BY <1>9
  <2>2. UNCHANGED <<phase, cancelled, traced>>
    BY <1>6 DEF Moves
  <2> QED
    BY <1>1, <1>7, <2>1, <2>2 DEF UseInv
<1>14. FinishInv(r)'
  <2>1. Complete(r)' <=> Complete(r)
    BY <1>6 DEF Moves, Complete, bodyVars
  <2>2. steps \notin {<<"finishWrite">>, <<"abortWake", "finishWrite">>} /\ steps \notin Completing
          /\ steps # <<"abortUse", "finishWrite">>
    BY <1>9 DEF Completing, Reusing
  <2>3. CASE steps # <<"enterIdle">>
    BY <1>7, <2>2, <2>3 DEF FinishInv
  <2>4. CASE steps = <<"enterIdle">>
    <3>1. todo[r] = <<"finishUse", "enterIdle">> /\ (~g.token \/ Token(g) \in clean')
      BY <1>2, <1>6, <2>4
    <3>2. Complete(r)
      BY <1>1, <3>1 DEF FinishInv, Completing, Reusing
    <3> QED
      BY <1>4, <1>7, <2>1, <2>2, <2>4, <3>1, <3>2 DEF FinishInv, Token
  <2> QED
    BY <2>3, <2>4
<1> QED
  BY <1>1, <1>3, <1>6, <1>7, <1>10, <1>11, <1>12, <1>13, <1>14, MoveKeeps

--------------------------------------------------------------------------------
(* Steps of a request on a connection. *)

(* What a step of request r on connection k has to keep. *)
LEMMA RequestStepKeeps ==
  ASSUME IInv, TypeOK', Lasting, GuardsDiffer', NEW r \in Requests, NEW k \in Connections,
         TaskInv(r)', UseInv(r)', FinishInv(r)', \A q \in Requests \ {r} : SameTask(q),
         \A j \in Connections : todo'[j] = todo[j], \A j \in Connections \ {k} : SameConn(j),
         UNCHANGED <<sent, wire>>, conn'[k].closed = conn[k].closed,
         current'[k] = current[k] \/ current[k] = None,
         guard'[r] = guard[r] \/ guard'[r].conn = k, assigned'[r] \in {assigned[r], k},
         WakerInv(k)', IdleInv(k)', \A q \in Requests : WriteInv(k, q)',
         \A j \in Connections \ {k} : WriteInv(j, r)'
  PROVE  IInv'
<1>1. PICK R, K : R = {r} /\ K = {k}
  OBVIOUS
<1>2. NoWriteOverIncomplete'
  <2>1. \A q : Complete(q) => Complete(q)'
    BY CompleteLasts
  <2> QED
    BY <2>1 DEF IInv, NoWriteOverIncomplete
<1>3. ConnInv(k)'
  <2>1. ConnInv(k) /\ TypeOK
    BY DEF IInv
  <2>2. todo[k] \in {<<"write">>, <<"socket">>} => current'[k] # None
    BY <2>1 DEF ConnInv
  <2> QED
    BY <2>1, <2>2 DEF ConnInv
<1>4. \A j \in Connections \ K, q \in R :
           conn[j].idle /\ LastUser(j, q)' => LastUser(j, q) /\ guard'[q] = guard[q]
  BY <1>1 DEF LastUser, IsCurrentUse, SameConn
<1>5. \A j \in Connections, q \in Requests : j \in K \/ q \in R => WriteInv(j, q)'
  BY <1>1
<1>6. \A j \in Connections \ K, q \in R : assigned'[q] = j => assigned[q] = j
  BY <1>1
<1> QED
  BY <1>1, <1>2, <1>3, <1>4, <1>5, <1>6, StepKeeps

(* A request r does its next step; the tasks of connections do nothing. *)
LEMMA TodoOf ==
  ASSUME TypeOK, NEW r \in Requests, NEW steps, todo' = [todo EXCEPT ![r] = steps]
  PROVE  /\ todo'[r] = steps /\ \A q \in Requests \ {r} : todo'[q] = todo[q]
         /\ \A k \in Connections : todo'[k] = todo[k]
BY UseAssumption DEF TypeOK, Actors

(* The guard of a request is of a connection. *)
LEMMA GuardConn ==
  ASSUME IInv, NEW r \in Requests, todo[r] # <<>>, todo[r] # <<"observe", "beginUse", "beginTimeout", "wake">>
  PROVE  /\ guard[r] # None /\ guard[r] \in Guards /\ guard[r].conn \in Connections
         /\ guard[r].use \in Nat /\ guard[r].token \in BOOLEAN
<1>1. TypeOK /\ TaskInv(r)
  BY DEF IInv
<1>2. guard[r] # None
  BY <1>1 DEF TaskInv
<1>3. guard[r] \in Guards
  BY <1>1, <1>2 DEF TypeOK
<1> QED
  BY <1>2, <1>3 DEF Guards

(* A step of request r on the connection of its guard: what the connection,  *)
(* its timeout and its lock become, and whom r aborts.                       *)
GuardStep(r, k, steps, c, t, l, v) ==
  /\ guard[r] # None /\ guard[r].conn = k /\ todo[r] # <<>>
  /\ todo' = [todo EXCEPT ![r] = steps] /\ conn' = [conn EXCEPT ![k] = c]
  /\ timeout' = [timeout EXCEPT ![k] = t] /\ lock' = [lock EXCEPT ![k] = l]
  /\ victim' = [victim EXCEPT ![r] = v]
  /\ UNCHANGED <<traced, current, unflushed, response, sent, bodyVars, at, assigned, guard, phase,
                 cancelled, clean>>
  /\ woken \subseteq woken' /\ woken' \subseteq woken \cup {k}
  /\ use' \in [Requests -> Tokens \cup {None}] /\ \A q \in Requests : use'[q] \in {use[q], None}
  /\ c.uses = conn[k].uses /\ c.closed = conn[k].closed /\ (conn[k].aborted => c.aborted)
  /\ (steps \in Unbegun => todo[r] \in Unbegun) /\ (steps \in Unobserved <=> todo[r] \in Unobserved)
  /\ (todo[r] \in Assigned => steps \in Assigned) /\ (todo[r] \in Ending => steps \in Ending)

(* What such a step leaves alone. *)
GuardStepDone(r, k, steps, c, t, l, v) ==
  /\ TypeOK' /\ Lasting /\ TaskInv(r)' /\ GuardsDiffer'
  /\ conn'[k] = c /\ timeout'[k] = t /\ lock'[k] = l /\ todo'[r] = steps /\ victim'[r] = v
  /\ \A q \in Requests \ {r} : SameTask(q)
  /\ \A j \in Connections \ {k} : SameConn(j)
  /\ \A j \in Connections : todo'[j] = todo[j] /\ (Down(j)' <=> Down(j)) /\ (Live(j)' <=> Live(j))
  /\ \A q \in Requests : todo'[q] \in Unbegun => todo[q] \in Unbegun
  /\ \A q \in Requests : LastUser(k, q)' <=> LastUser(k, q)

(* It leaves that alone indeed. *)
LEMMA GuardStepFacts ==
  ASSUME IInv, NEW r \in Requests, NEW k \in Connections, NEW steps \in Ending \cup Assigned,
         NEW c \in States, NEW t \in Timeouts, NEW l \in Actors \cup {None}, NEW v \in Requests \cup {None},
         GuardStep(r, k, steps, c, t, l, v)
  PROVE  GuardStepDone(r, k, steps, c, t, l, v)
<1>1. TypeOK /\ TaskInv(r)
  BY DEF IInv
<1>2. /\ UNCHANGED <<traced, current, unflushed, response, sent, bodyVars, at, assigned, guard, phase,
                     cancelled, clean>>
      /\ woken \subseteq woken' /\ woken' \subseteq woken \cup {k}
      /\ \A q \in Requests : use'[q] \in {use[q], None}
  BY DEF GuardStep
<1>3. /\ conn'[k] = c /\ timeout'[k] = t /\ lock'[k] = l
      /\ \A j \in Connections \ {k} : conn'[j] = conn[j] /\ timeout'[j] = timeout[j] /\ lock'[j] = lock[j]
  BY <1>1 DEF GuardStep, TypeOK
<1>4. victim'[r] = v /\ \A q \in Requests \ {r} : victim'[q] = victim[q]
  BY <1>1 DEF GuardStep, TypeOK, Actors
<1>5. todo'[r] = steps /\ (\A q \in Requests \ {r} : todo'[q] = todo[q]) /\ \A j \in Connections : todo'[j] = todo[j]
  BY <1>1, TodoOf DEF GuardStep
<1>6. TypeOK'
  <2>1. todo' \in [Actors -> Ending \cup Assigned \cup Polling \cup Failing \cup Dropped]
    BY <1>1 DEF TypeOK, GuardStep
  <2>2. /\ conn' \in [Connections -> States] /\ timeout' \in [Connections -> Timeouts]
        /\ lock' \in [Connections -> Actors \cup {None}]
    BY <1>1 DEF TypeOK, GuardStep
  <2>3. victim' \in [Actors -> Requests \cup {None}]
    BY <1>1 DEF TypeOK, GuardStep
  <2>4. use' \in [Requests -> Tokens \cup {None}]
    BY DEF GuardStep
  <2> QED
    BY <1>1, <1>2, <2>1, <2>2, <2>3, <2>4 DEF TypeOK, bodyVars
<1>7. c.uses = conn[k].uses /\ c.closed = conn[k].closed /\ (conn[k].aborted => c.aborted)
  BY DEF GuardStep
<1>8. \A j \in Connections : conn'[j].uses = conn[j].uses /\ conn'[j].closed = conn[j].closed
                             /\ (conn[j].aborted => conn'[j].aborted)
  BY <1>3, <1>7
<1>9. \A j \in Connections : (Down(j)' <=> Down(j)) /\ (Live(j)' <=> Live(j))
  BY <1>5, <1>8 DEF Down, Does, Live
<1>10. Lasting
  <2>1. \A j \in Connections : conn[j].uses \in Nat
    BY <1>1 DEF TypeOK, States
  <2> QED
    BY <1>2, <1>8, <1>9, <2>1 DEF Lasting, bodyVars
<1>11. \A q \in Requests \ {r} : SameTask(q)
  BY <1>2, <1>4, <1>5 DEF SameTask
<1>12. \A j \in Connections \ {k} : SameConn(j)
  BY <1>2, <1>3, <1>5 DEF SameConn
<1>13. guard[r] # None /\ guard[r].conn = k /\ todo[r] # <<>>
  BY DEF GuardStep
<1>14. TaskInv(r)'
  <2>1. at[r] \in {"headers", "over"}
    BY <1>1, <1>13 DEF TaskInv, TypeOK, Places
  <2>2. at[r] = "headers" => steps \in Assigned
    BY <1>1 DEF TaskInv, GuardStep
  <2>3. at[r] = "over" => steps \in Ending
    BY <1>1 DEF TaskInv, GuardStep
  <2>4. steps \in Unobserved <=> todo[r] \in Unobserved
    BY DEF GuardStep
  <2> QED
    BY <1>1, <1>2, <1>5, <1>8, <1>9, <1>13, <2>1, <2>2, <2>3, <2>4 DEF TaskInv
<1>15. GuardsDiffer'
  BY <1>2 DEF IInv, GuardsDiffer
<1>16. \A q \in Requests : todo'[q] \in Unbegun => todo[q] \in Unbegun
  BY <1>5 DEF GuardStep
<1>17. \A q \in Requests : LastUser(k, q)' <=> LastUser(k, q)
  BY <1>2, <1>8 DEF LastUser, IsCurrentUse
<1> QED
  BY <1>3, <1>4, <1>5, <1>6, <1>9, <1>10, <1>11, <1>12, <1>14, <1>15, <1>16, <1>17 DEF GuardStepDone

(* Such a step keeps the invariant when it keeps what r and k may lose. *)
LEMMA GuardStepKeeps ==
  ASSUME IInv, NEW r \in Requests, NEW k \in Connections, NEW steps \in Ending \cup Assigned,
         NEW c \in States, NEW t \in Timeouts, NEW l \in Actors \cup {None}, NEW v \in Requests \cup {None},
         GuardStep(r, k, steps, c, t, l, v),
         UseInv(r)', FinishInv(r)', WakerInv(k)', IdleInv(k)', \A q \in Requests : WriteInv(k, q)'
  PROVE  IInv'
<1>1. /\ TypeOK' /\ Lasting /\ TaskInv(r)' /\ GuardsDiffer' /\ conn'[k] = c
      /\ \A q \in Requests \ {r} : SameTask(q)
      /\ \A j \in Connections \ {k} : SameConn(j)
      /\ \A j \in Connections : todo'[j] = todo[j] /\ (Down(j)' <=> Down(j)) /\ (Live(j)' <=> Live(j))
      /\ todo'[r] \in Unbegun => todo[r] \in Unbegun
  <2>1. GuardStepDone(r, k, steps, c, t, l, v)
    BY GuardStepFacts
  <2> QED
    BY <2>1 DEF GuardStepDone
<1>2. UNCHANGED <<current, sent, wire, assigned, guard>> /\ c.closed = conn[k].closed
  BY DEF GuardStep, bodyVars
<1>3. ASSUME NEW j \in Connections \ {k} PROVE WriteInv(j, r)'
  <2>1. SameConn(j) /\ Live(j)' <=> Live(j)
    BY <1>1
  <2> QED
    BY <1>1, <1>2, <2>1, WriteKeeps DEF SameConn
<1> QED
  BY <1>1, <1>2, <1>3, RequestStepKeeps

(* The io_waker is woken after the new use's timeout has begun. *)
LEMMA WakeIoKeeps ==
  ASSUME IInv, NEW r \in Requests, WakeIo(r)
  PROVE  IInv'
<1>1. TypeOK /\ TaskInv(r) /\ UseInv(r) /\ FinishInv(r)
  BY DEF IInv
<1>2. todo[r] = <<"wake">>
  BY RequestDoes DEF WakeIo
<1>3. PICK k \in Connections : k = guard[r].conn /\ guard[r] # None
  BY <1>2, GuardConn
<1>4. PICK c \in States, t \in Timeouts, l \in Actors \cup {None}, v \in Requests \cup {None} :
        c = conn[k] /\ t = timeout[k] /\ l = lock[k] /\ v = victim[r]
  BY <1>1 DEF TypeOK, Actors
<1>5. /\ UNCHANGED <<traced, conn, timeout, lock, current, unflushed, response, sent, bodyVars, at,
                     assigned, guard, victim, storyVars>>
      /\ woken' \in {woken, woken \cup {k}}
  BY <1>3 DEF WakeIo, Wake
<1>6. todo' = [todo EXCEPT ![r] = <<>>]
  <2>1. <<>> \o Tail(<<"wake">>) = <<>>
    OBVIOUS
  <2> QED
    BY <1>2, <2>1 DEF WakeIo, Done, Then
<1>7. GuardStep(r, k, <<>>, c, t, l, v) /\ <<>> \in Ending \cup Assigned
  <2>1. /\ conn' = [conn EXCEPT ![k] = c] /\ timeout' = [timeout EXCEPT ![k] = t]
        /\ lock' = [lock EXCEPT ![k] = l] /\ victim' = [victim EXCEPT ![r] = v]
    BY <1>1, <1>4, <1>5 DEF TypeOK, Actors
  <2>2. /\ <<>> \in Ending \cup Assigned /\ <<>> \notin Unbegun /\ <<>> \notin Unobserved
        /\ todo[r] \notin Unbegun /\ todo[r] \notin Unobserved /\ <<>> \in Assigned /\ <<>> \in Ending
        /\ todo[r] # <<>>
    BY <1>2 DEF Unbegun, Unobserved, Superseding, Superseded, Assigned, Ending, Closing
  <2>3. use' \in [Requests -> Tokens \cup {None}] /\ use' = use
    BY <1>1, <1>5 DEF TypeOK, storyVars
  <2>4. woken \subseteq woken' /\ woken' \subseteq woken \cup {k}
    BY <1>5
  <2>5. UNCHANGED <<traced, current, unflushed, response, sent, bodyVars, at, assigned, guard, phase, cancelled, clean>>
    BY <1>5 DEF storyVars
  <2> QED
    BY <1>3, <1>4, <1>6, <2>1, <2>2, <2>3, <2>4, <2>5 DEF GuardStep
<1>8. /\ Lasting /\ todo'[r] = <<>>
      /\ \A j \in Connections : todo'[j] = todo[j] /\ (Down(j)' <=> Down(j)) /\ (Live(j)' <=> Live(j))
      /\ \A q \in Requests : todo'[q] \in Unbegun => todo[q] \in Unbegun
      /\ \A q \in Requests : LastUser(k, q)' <=> LastUser(k, q)
  <2>1. GuardStepDone(r, k, <<>>, c, t, l, v)
    BY <1>7, GuardStepFacts
  <2> QED
    BY <2>1 DEF GuardStepDone
<1>9. UseInv(r)' /\ FinishInv(r)'
  <2>1. at[r] = "headers"
    <3>1. todo[r] \notin Ending /\ todo[r] # <<>>
      BY <1>2 DEF Ending, Completing, Reusing, Aborting, Closing
    <3> QED
      BY <1>1, <3>1 DEF TaskInv, TypeOK, Places
  <2> QED
    BY <1>1, <1>5, <1>8, <2>1 DEF UseInv, FinishInv, storyVars, Superseded, Completing, Reusing
<1>10. \A q \in Requests : WriteInv(k, q)'
  BY <1>5, <1>8, WriteKeeps DEF bodyVars
<1>11. WakerInv(k)'
  BY <1>5, <1>8, WakerKeeps
<1>12. IdleInv(k)'
  BY <1>5, <1>8, IdleKeeps
<1> QED
  BY <1>7, <1>9, <1>10, <1>11, <1>12, GuardStepKeeps

(* enter_idle. *)
LEMMA EnterIdleKeeps ==
  ASSUME IInv, NEW r \in Requests, EnterIdle(r)
  PROVE  IInv'
<1>1. TypeOK /\ TaskInv(r) /\ UseInv(r) /\ FinishInv(r)
  BY DEF IInv
<1>2. todo[r] = <<"enterIdle">>
  BY RequestDoes DEF EnterIdle
<1>3. PICK k \in Connections : k = guard[r].conn /\ guard[r] # None
  BY <1>2, GuardConn
<1>4. PICK t \in Timeouts, l \in Actors \cup {None}, v \in Requests \cup {None} :
        t = timeout[k] /\ l = lock[k] /\ v = victim[r]
  BY <1>1 DEF TypeOK, Actors
<1>5. /\ UNCHANGED <<traced, timeout, lock, hyperVars, bodyVars, at, assigned, guard, victim, storyVars>>
  BY DEF EnterIdle
<1>6. PICK c \in States :
        /\ conn' = [conn EXCEPT ![k] = c]
        /\ c.uses = conn[k].uses /\ c.closed = conn[k].closed /\ c.aborted = conn[k].aborted /\ c.waker = conn[k].waker
        /\ c.idle = conn[k].idle \/ (~c.closed /\ ~c.aborted /\ conn[k].uses = guard[r].use + 1)
  <2>1. conn[k] \in States
    BY <1>1 DEF TypeOK
  <2>2. CASE conn' = conn
    <3>1. conn' = [conn EXCEPT ![k] = conn[k]]
      BY <1>1, <2>2 DEF TypeOK
    <3> QED
      BY <2>1, <3>1
  <2>3. CASE conn' # conn
    <3>1. PICK c : c = [conn[k] EXCEPT !.idle = TRUE]
      OBVIOUS
    <3>2. /\ c \in States /\ c.uses = conn[k].uses /\ c.closed = conn[k].closed
          /\ c.aborted = conn[k].aborted /\ c.waker = conn[k].waker
      BY <2>1, <3>1 DEF States
    <3>3. /\ conn' = [conn EXCEPT ![k] = c]
          /\ ~conn[k].closed /\ ~conn[k].aborted /\ conn[k].uses = guard[r].use + 1
      BY <1>3, <2>3, <3>1 DEF EnterIdle, IsCurrentUse
    <3> QED
      BY <3>2, <3>3
  <2> QED
    BY <2>2, <2>3
<1>7. todo' = [todo EXCEPT ![r] = <<>>]
  <2>1. <<>> \o Tail(<<"enterIdle">>) = <<>>
    OBVIOUS
  <2> QED
    BY <1>2, <2>1 DEF EnterIdle, Done, Then
<1>8. GuardStep(r, k, <<>>, c, t, l, v) /\ <<>> \in Ending \cup Assigned
  <2>1. /\ timeout' = [timeout EXCEPT ![k] = t]
        /\ lock' = [lock EXCEPT ![k] = l] /\ victim' = [victim EXCEPT ![r] = v]
    BY <1>1, <1>4, <1>5 DEF TypeOK, Actors
  <2>2. /\ <<>> \in Ending \cup Assigned /\ <<>> \notin Unbegun /\ <<>> \notin Unobserved
        /\ todo[r] \notin Unbegun /\ todo[r] \notin Unobserved /\ <<>> \in Assigned /\ <<>> \in Ending
        /\ todo[r] # <<>>
    BY <1>2 DEF Unbegun, Unobserved, Superseding, Superseded, Assigned, Ending, Closing
  <2>3. use' \in [Requests -> Tokens \cup {None}] /\ use' = use
    BY <1>1, <1>5 DEF TypeOK, storyVars
  <2>4. UNCHANGED <<traced, current, unflushed, response, sent, bodyVars, at, assigned, guard, phase, cancelled, clean>>
        /\ woken' = woken
    BY <1>5 DEF storyVars, hyperVars
  <2> QED
    BY <1>3, <1>6, <1>7, <2>1, <2>2, <2>3, <2>4 DEF GuardStep
<1>9. /\ Lasting /\ todo'[r] = <<>> /\ conn'[k] = c
      /\ \A j \in Connections : todo'[j] = todo[j] /\ (Down(j)' <=> Down(j)) /\ (Live(j)' <=> Live(j))
      /\ \A q \in Requests : todo'[q] \in Unbegun => todo[q] \in Unbegun
      /\ \A q \in Requests : LastUser(k, q)' <=> LastUser(k, q)
  <2>1. GuardStepDone(r, k, <<>>, c, t, l, v)
    BY <1>8, GuardStepFacts
  <2> QED
    BY <2>1 DEF GuardStepDone
<1>10. at[r] = "over" /\ use[r] = None
  <2>1. todo[r] \notin Assigned /\ todo[r] # <<>> /\ todo[r] \notin Completing /\ todo[r] \notin Aborting
    BY <1>2 DEF Assigned, Unbegun, Unobserved, Superseding, Superseded, Completing, Reusing, Aborting
  <2> QED
    BY <1>1, <2>1 DEF TaskInv, TypeOK, Places, UseInv
<1>11. UseInv(r)' /\ FinishInv(r)'
  BY <1>1, <1>5, <1>9, <1>10 DEF UseInv, FinishInv, storyVars, Superseded, Completing, Reusing
<1>12. \A q \in Requests : WriteInv(k, q)'
  BY <1>5, <1>9, WriteKeeps DEF bodyVars, hyperVars
<1>13. WakerInv(k)'
  BY <1>5, <1>6, <1>9, WakerKeeps DEF hyperVars
<1>14. IdleInv(k)'
  <2>1. CASE c.idle = conn[k].idle
    BY <1>5, <1>6, <1>9, <2>1, IdleKeeps
  <2>2. CASE ~c.closed /\ ~c.aborted /\ conn[k].uses = guard[r].use + 1
    <3>1. ASSUME NEW q \in Requests, LastUser(k, q)' PROVE q = r
      <4>1. LastUser(k, q)
        BY <1>9, <3>1
      <4>2. guard[q] # None /\ guard[q].conn = k /\ conn[k].uses = guard[q].use + 1
        BY <4>1 DEF LastUser, IsCurrentUse
      <4>3. guard[q].use \in Nat /\ guard[r].use \in Nat
        BY <1>1, <1>3, <4>2 DEF TypeOK, Guards
      <4>4. guard[q].use = guard[r].use
        BY <2>2, <4>2, <4>3
      <4> QED
        BY <1>3, <4>2, <4>4 DEF IInv, GuardsDiffer
    <3>2. Complete(r) /\ (guard[r].token => Token(guard[r]) \in clean)
      BY <1>1, <1>2 DEF FinishInv
    <3>3. Complete(r)' /\ at'[r] = "over" /\ (guard'[r].token => Token(guard'[r]) \in clean')
      BY <1>5, <1>10, <3>2 DEF Complete, bodyVars, storyVars
    <3> QED
      BY <1>9, <2>2, <3>1, <3>3 DEF IdleInv, Token
  <2> QED
    BY <1>6, <2>1, <2>2
<1> QED
  BY <1>8, <1>11, <1>12, <1>13, <1>14, GuardStepKeeps

(* request_write_finished.  The use that is active is cleared by its own     *)
(* guard only.                                                               *)
LEMMA FinishWriteKeeps ==
  ASSUME IInv, NEW r \in Requests, FinishWrite(r)
  PROVE  IInv'
<1>1. TypeOK /\ TaskInv(r) /\ UseInv(r) /\ FinishInv(r)
  BY DEF IInv
<1>2. todo[r] \in {<<"finishWrite", "finishUse", "observe", "beginUse", "beginTimeout", "wake">>,
                   <<"finishWrite", "finishUse", "enterIdle">>, <<"finishWrite", "finishUse">>,
                   <<"finishWrite">>}
  BY RequestDoes DEF FinishWrite
<1>3. PICK steps :
        /\ todo' = [todo EXCEPT ![r] = steps]
        /\ \/ /\ todo[r] = <<"finishWrite", "finishUse", "observe", "beginUse", "beginTimeout", "wake">>
              /\ steps = <<"finishUse", "observe", "beginUse", "beginTimeout", "wake">>
           \/ todo[r] = <<"finishWrite", "finishUse", "enterIdle">> /\ steps = <<"finishUse", "enterIdle">>
           \/ todo[r] = <<"finishWrite", "finishUse">> /\ steps = <<"finishUse">>
           \/ todo[r] = <<"finishWrite">> /\ steps = <<>>
  <2>1. todo' = [todo EXCEPT ![r] = <<>> \o Tail(todo[r])]
    BY DEF FinishWrite, Done, Then
  <2>2. CASE todo[r] = <<"finishWrite", "finishUse", "observe", "beginUse", "beginTimeout", "wake">>
    <3>1. <<>> \o Tail(todo[r]) = <<"finishUse", "observe", "beginUse", "beginTimeout", "wake">>
      BY <2>2
    <3> QED
      BY <2>1, <2>2, <3>1
  <2>3. CASE todo[r] = <<"finishWrite", "finishUse", "enterIdle">>
    <3>1. <<>> \o Tail(todo[r]) = <<"finishUse", "enterIdle">>
      BY <2>3
    <3> QED
      BY <2>1, <2>3, <3>1
  <2>4. CASE todo[r] = <<"finishWrite", "finishUse">>
    <3>1. <<>> \o Tail(todo[r]) = <<"finishUse">>
      BY <2>4
    <3> QED
      BY <2>1, <2>4, <3>1
  <2>5. CASE todo[r] = <<"finishWrite">>
    <3>1. <<>> \o Tail(todo[r]) = <<>>
      BY <2>5
    <3> QED
      BY <2>1, <2>5, <3>1
  <2> QED
    BY <1>2, <2>2, <2>3, <2>4, <2>5
<1>a. \/ /\ todo[r] = <<"finishWrite", "finishUse", "observe", "beginUse", "beginTimeout", "wake">>
         /\ steps = <<"finishUse", "observe", "beginUse", "beginTimeout", "wake">>
      \/ todo[r] = <<"finishWrite", "finishUse", "enterIdle">> /\ steps = <<"finishUse", "enterIdle">>
      \/ todo[r] = <<"finishWrite", "finishUse">> /\ steps = <<"finishUse">>
      \/ todo[r] = <<"finishWrite">> /\ steps = <<>>
  BY <1>3
<1>4. PICK k \in Connections : k = guard[r].conn /\ guard[r] # None
  <2>1. todo[r] # <<>> /\ todo[r] # <<"observe", "beginUse", "beginTimeout", "wake">>
    BY <1>2
  <2> QED
    BY <2>1, GuardConn
<1>5. PICK c \in States, l \in Actors \cup {None}, v \in Requests \cup {None} :
        c = conn[k] /\ l = lock[k] /\ v = victim[r]
  BY <1>1 DEF TypeOK, Actors
<1>6. UNCHANGED <<traced, conn, lock, hyperVars, bodyVars, at, assigned, guard, victim, storyVars>>
  BY DEF FinishWrite
<1>7. PICK t \in Timeouts :
        /\ timeout' = [timeout EXCEPT ![k] = t]
        /\ \/ t = timeout[k]
           \/ t = NoTimeout /\ timeout[k].active # None /\ timeout[k].active.use = guard[r].use
  <2>1. timeout[k] \in Timeouts /\ NoTimeout \in Timeouts
    BY <1>1 DEF TypeOK, NoTimeout, Timeouts
  <2>2. timeout' = [timeout EXCEPT ![k] = FinishRequest(timeout[k], guard[r].use)]
    BY <1>4 DEF FinishWrite
  <2> QED
    BY <2>1, <2>2 DEF FinishRequest
<1>8. /\ steps \in Ending \cup Assigned /\ (steps \in Unbegun <=> todo[r] \in Unbegun)
      /\ (steps \in Unobserved <=> todo[r] \in Unobserved) /\ todo[r] # <<>>
      /\ (todo[r] \in Assigned => steps \in Assigned) /\ (todo[r] \in Ending => steps \in Ending)
  <2>1. CASE /\ todo[r] = <<"finishWrite", "finishUse", "observe", "beginUse", "beginTimeout", "wake">>
             /\ steps = <<"finishUse", "observe", "beginUse", "beginTimeout", "wake">>
    BY <2>1 DEF Unbegun, Unobserved, Superseding, Superseded, Assigned, Ending, Closing, Completing, Reusing, Aborting
  <2>2. CASE todo[r] = <<"finishWrite", "finishUse", "enterIdle">> /\ steps = <<"finishUse", "enterIdle">>
    BY <2>2 DEF Unbegun, Unobserved, Superseding, Superseded, Assigned, Ending, Closing, Completing, Reusing, Aborting
  <2>3. CASE todo[r] = <<"finishWrite", "finishUse">> /\ steps = <<"finishUse">>
    BY <2>3 DEF Unbegun, Unobserved, Superseding, Superseded, Assigned, Ending, Closing, Completing, Reusing, Aborting
  <2>4. CASE todo[r] = <<"finishWrite">> /\ steps = <<>>
    BY <2>4 DEF Unbegun, Unobserved, Superseding, Superseded, Assigned, Ending, Closing, Completing, Reusing, Aborting
  <2> QED
    BY <1>a, <2>1, <2>2, <2>3, <2>4
<1>9. GuardStep(r, k, steps, c, t, l, v)
  <2>1. /\ conn' = [conn EXCEPT ![k] = c]
        /\ lock' = [lock EXCEPT ![k] = l] /\ victim' = [victim EXCEPT ![r] = v]
    BY <1>1, <1>5, <1>6 DEF TypeOK, Actors
  <2>2. use' \in [Requests -> Tokens \cup {None}] /\ use' = use
    BY <1>1, <1>6 DEF TypeOK, storyVars
  <2>3. UNCHANGED <<traced, current, unflushed, response, sent, bodyVars, at, assigned, guard, phase, cancelled, clean>>
        /\ woken' = woken
    BY <1>6 DEF storyVars, hyperVars
  <2> QED
    BY <1>3, <1>4, <1>5, <1>7, <1>8, <2>1, <2>2, <2>3 DEF GuardStep
<1>10. /\ Lasting /\ todo'[r] = steps /\ conn'[k] = c /\ timeout'[k] = t
       /\ \A j \in Connections : todo'[j] = todo[j] /\ (Down(j)' <=> Down(j)) /\ (Live(j)' <=> Live(j))
       /\ \A q \in Requests : todo'[q] \in Unbegun => todo[q] \in Unbegun
       /\ \A q \in Requests : LastUser(k, q)' <=> LastUser(k, q)
  <2>1. GuardStepDone(r, k, steps, c, t, l, v)
    BY <1>8, <1>9, GuardStepFacts
  <2> QED
    BY <2>1 DEF GuardStepDone
<1>b. /\ steps \notin Superseded \cup {<<"beginUse", "beginTimeout", "wake">>}
      /\ steps \notin {<<"finishWrite">>, <<"abortWake", "finishWrite">>, <<"enterIdle">>}
      /\ steps # <<"abortUse", "finishWrite">>
      /\ todo[r] \in Completing <=> steps \in Completing
      /\ todo[r] \notin Aborting
  <2>1. CASE /\ todo[r] = <<"finishWrite", "finishUse", "observe", "beginUse", "beginTimeout", "wake">>
             /\ steps = <<"finishUse", "observe", "beginUse", "beginTimeout", "wake">>
    BY <2>1 DEF Superseding, Superseded, Completing, Reusing, Aborting
  <2>2. CASE todo[r] = <<"finishWrite", "finishUse", "enterIdle">> /\ steps = <<"finishUse", "enterIdle">>
    BY <2>2 DEF Superseding, Superseded, Completing, Reusing, Aborting
  <2>3. CASE todo[r] = <<"finishWrite", "finishUse">> /\ steps = <<"finishUse">>
    BY <2>3 DEF Superseding, Superseded, Completing, Reusing, Aborting
  <2>4. CASE todo[r] = <<"finishWrite">> /\ steps = <<>>
    BY <2>4 DEF Superseding, Superseded, Completing, Reusing, Aborting
  <2> QED
    BY <1>a, <2>1, <2>2, <2>3, <2>4
<1>11. UseInv(r)'
  BY <1>1, <1>6, <1>10, <1>b DEF UseInv, storyVars
<1>12. FinishInv(r)'
  <2>2. Complete(r) => Complete(r)'
    BY <1>6 DEF Complete, bodyVars
  <2>3. steps \in Completing \cup {<<"enterIdle">>, <<"abortUse", "finishWrite">>} => todo[r] \in Completing
    BY <1>b
  <2> QED
    BY <1>1, <1>6, <1>10, <1>b, <2>2, <2>3 DEF FinishInv
<1>13. WakerInv(k)'
  BY <1>5, <1>6, <1>10, WakerKeeps DEF hyperVars
<1>14. IdleInv(k)'
  BY <1>5, <1>6, <1>10, IdleKeeps
<1>15. ASSUME NEW q \in Requests PROVE WriteInv(k, q)'
  <2>1. CASE t = timeout[k]
    BY <1>6, <1>10, <2>1, WriteKeeps DEF bodyVars, hyperVars
  <2>2. CASE t = NoTimeout /\ timeout[k].active # None /\ timeout[k].active.use = guard[r].use
    <3>1. ~Active(k, q)'
      BY <1>10, <2>2 DEF Active, NoTimeout
    <3>2. WriteInv(k, q) /\ (Complete(q) <=> Complete(q)')
      BY <1>6 DEF IInv, Complete, bodyVars
    <3>3. Active(k, q) /\ Live(k) => Complete(q) \/ conn[k].aborted
      <4> SUFFICES ASSUME Active(k, q), Live(k) PROVE Complete(q) \/ conn[k].aborted
        OBVIOUS
      <4>1. guard[q] # None /\ guard[q].conn = k /\ guard[q].use = guard[r].use
        BY <2>2, <3>2 DEF WriteInv
      <4>2. q = r
        BY <1>4, <4>1 DEF IInv, GuardsDiffer
      <4>3. todo[r] # <<"finishWrite", "finishUse", "observe", "beginUse", "beginTimeout", "wake">>
        BY <3>2, <4>2 DEF WriteInv, Unbegun, Unobserved, Superseding
      <4>4. todo[r] \in Completing \cup {<<"finishWrite">>}
        BY <1>a, <4>3 DEF Completing, Reusing
      <4> QED
        BY <1>1, <1>4, <4>2, <4>4 DEF FinishInv
    <3>4. /\ sent' = sent /\ assigned' = assigned /\ current' = current /\ guard' = guard /\ conn' = conn
          /\ flushed' = flushed /\ wire' = wire /\ unflushed' = unflushed
      BY <1>6 DEF hyperVars, bodyVars
    <3>5. /\ (Down(k)' <=> Down(k)) /\ (Live(k)' <=> Live(k)) /\ todo'[k] = todo[k]
          /\ (todo'[q] \in Unbegun => todo[q] \in Unbegun)
      BY <1>10
    <3>6. todo[k] = <<"socket">> => Live(k)
      <4>1. ConnInv(k)
        BY DEF IInv
      <4> QED
        BY <4>1 DEF ConnInv, Live, Failing, Dropped
    <3> QED
      BY <3>1, <3>2, <3>3, <3>4, <3>5, <3>6 DEF WriteInv
  <2> QED
    BY <1>7, <2>1, <2>2
<1> QED
  BY <1>8, <1>9, <1>11, <1>12, <1>13, <1>14, <1>15, GuardStepKeeps

--------------------------------------------------------------------------------
(* Aborts by requests. *)

(* A report ends uses and changes nothing else of them; one of a request in  *)
(* its own name ends its own.                                                *)
LEMMA AbortStoryFacts ==
  ASSUME IInv, NEW v, NEW token, AbortStory(v, token)
  PROVE  /\ use' \in [Requests -> Tokens \cup {None}]
         /\ \A q \in Requests : use'[q] \in {use[q], None}
         /\ \A r \in Requests : v = r /\ guard[r] # None /\ token = Token(guard[r]) => use'[r] = None
<1>1. use \in [Requests -> Tokens \cup {None}]
  BY DEF IInv, TypeOK
<1>2. use' \in [Requests -> Tokens \cup {None}] /\ \A q \in Requests : use'[q] \in {use[q], None}
  BY <1>1 DEF AbortStory
<1>3. ASSUME NEW r \in Requests, v = r, guard[r] # None, token = Token(guard[r])
      PROVE  use'[r] = None
  <2>1. CASE use[r] = None
    BY <1>2, <2>1
  <2>2. CASE use[r] # None
    <3>1. UseInv(r)
      BY DEF IInv
    <3>2. traced /\ use[r] = Token(guard[r]) /\ r # None
      BY <2>2, <3>1, UseAssumption DEF UseInv, Token, Actors
    <3> QED
      BY <1>1, <1>3, <3>2 DEF AbortStory
  <2> QED
    BY <2>1, <2>2
<1> QED
  BY <1>2, <1>3

(* What an abort leaves a request to do: the rest, or first the waking. *)
AbortRest(now, rest, waking) ==
  \/ /\ now = <<"abortUse", "observe", "beginUse", "beginTimeout", "wake">>
     /\ rest = <<"observe", "beginUse", "beginTimeout", "wake">>
     /\ waking = <<"abortWake", "observe", "beginUse", "beginTimeout", "wake">>
  \/ /\ now \in {<<"abortUse", "finishWrite">>, <<"abortAny", "finishWrite">>}
     /\ rest = <<"finishWrite">> /\ waking = <<"abortWake", "finishWrite">>
  \/ now \in {<<"abortUse">>, <<"abortPrevious">>} /\ rest = <<>> /\ waking = <<"abortWake">>

(* How that lies among the things a request can have to do. *)
LEMMA AbortRestFacts ==
  ASSUME NEW now, NEW rest, NEW waking, AbortRest(now, rest, waking)
  PROVE  /\ Tail(now) = rest /\ <<>> \o Tail(now) = rest /\ <<"abortWake">> \o Tail(now) = waking
         /\ now # <<>> /\ now # <<"observe", "beginUse", "beginTimeout", "wake">>
         /\ \A steps \in {rest, waking} :
              /\ steps \in Ending \cup Assigned
              /\ (steps \in Unbegun <=> now \in Unbegun) /\ (steps \in Unobserved <=> now \in Unobserved)
              /\ (now \in Assigned => steps \in Assigned) /\ (now \in Ending => steps \in Ending)
              /\ steps \in Superseded \cup {<<"beginUse", "beginTimeout", "wake">>} => now \in Superseded
              /\ steps \notin Completing \cup {<<"enterIdle">>, <<"abortUse", "finishWrite">>}
              /\ (steps \in {<<"finishWrite">>, <<"abortWake", "finishWrite">>} <=>
                    now \in {<<"abortUse", "finishWrite">>, <<"abortAny", "finishWrite">>})
         /\ rest \notin Aborting
         /\ now \notin Completing /\ (now \in Aborting => waking = <<"abortWake", "finishWrite">>)
<1> USE DEF Unbegun, Unobserved, Superseding, Superseded, Assigned, Ending, Closing, Completing, Reusing, Aborting
<1>1. CASE /\ now = <<"abortUse", "observe", "beginUse", "beginTimeout", "wake">>
           /\ rest = <<"observe", "beginUse", "beginTimeout", "wake">>
           /\ waking = <<"abortWake", "observe", "beginUse", "beginTimeout", "wake">>
  <2>1. <<"abortWake">> \o <<"observe", "beginUse", "beginTimeout", "wake">> = waking
    BY <1>1, Concat14
  <2>2. Tail(now) = rest /\ <<>> \o Tail(now) = rest
    BY <1>1
  <2>3. <<"abortWake">> \o Tail(now) = waking
    BY <1>1, <2>1, <2>2
  <2> QED
    BY <1>1, <2>2, <2>3
<1>2. CASE /\ now = <<"abortUse", "finishWrite">>
           /\ rest = <<"finishWrite">> /\ waking = <<"abortWake", "finishWrite">>
  <2>1. <<"abortWake">> \o <<"finishWrite">> = waking
    BY <1>2, Concat11
  <2>2. Tail(now) = rest /\ <<>> \o Tail(now) = rest
    BY <1>2
  <2>3. <<"abortWake">> \o Tail(now) = waking
    BY <1>2, <2>1, <2>2
  <2> QED
    BY <1>2, <2>2, <2>3
<1>3. CASE /\ now = <<"abortAny", "finishWrite">>
           /\ rest = <<"finishWrite">> /\ waking = <<"abortWake", "finishWrite">>
  <2>1. <<"abortWake">> \o <<"finishWrite">> = waking
    BY <1>3, Concat11
  <2>2. Tail(now) = rest /\ <<>> \o Tail(now) = rest
    BY <1>3
  <2>3. <<"abortWake">> \o Tail(now) = waking
    BY <1>3, <2>1, <2>2
  <2> QED
    BY <1>3, <2>2, <2>3
<1>4. CASE now = <<"abortUse">> /\ rest = <<>> /\ waking = <<"abortWake">>
  BY <1>4
<1>5. CASE now = <<"abortPrevious">> /\ rest = <<>> /\ waking = <<"abortWake">>
  BY <1>5
<1> QED
  BY <1>1, <1>2, <1>3, <1>4, <1>5 DEF AbortRest

(* An abort of a connection that is aborted already, or of a use that is not *)
(* the current one, only reports.                                            *)
LEMMA AbortReports ==
  ASSUME IInv, NEW r \in Requests, NEW rest, NEW waking, AbortRest(todo[r], rest, waking),
         NEW v, NEW token, AbortStory(v, token), Done(r),
         todo[r] # <<"abortPrevious">> => v = r /\ token = Token(guard[r]),
         todo[r] \in {<<"abortUse", "finishWrite">>, <<"abortAny", "finishWrite">>} =>
           Complete(r) \/ conn[guard[r].conn].aborted,
         UNCHANGED <<conn, lock, victim, woken, outsideAbort>>
  PROVE  IInv'
<1>1. TypeOK /\ TaskInv(r) /\ UseInv(r) /\ FinishInv(r)
  BY DEF IInv
<1>2. /\ todo' = [todo EXCEPT ![r] = rest]
      /\ rest \in Ending \cup Assigned /\ todo[r] # <<>>
      /\ todo[r] # <<"observe", "beginUse", "beginTimeout", "wake">>
      /\ (rest \in Unbegun <=> todo[r] \in Unbegun) /\ (rest \in Unobserved <=> todo[r] \in Unobserved)
      /\ (todo[r] \in Assigned => rest \in Assigned) /\ (todo[r] \in Ending => rest \in Ending)
  <2>1. PICK now : now = todo[r]
    OBVIOUS
  <2>2. /\ rest \in Ending \cup Assigned /\ now # <<>>
        /\ now # <<"observe", "beginUse", "beginTimeout", "wake">>
        /\ (rest \in Unbegun <=> now \in Unbegun) /\ (rest \in Unobserved <=> now \in Unobserved)
        /\ (now \in Assigned => rest \in Assigned) /\ (now \in Ending => rest \in Ending)
        /\ <<>> \o Tail(now) = rest
    BY <2>1, AbortRestFacts
  <2> QED
    BY <2>1, <2>2 DEF Done, Then
<1>3. PICK k \in Connections : k = guard[r].conn /\ guard[r] # None
  BY <1>2, GuardConn
<1>4. PICK c \in States, t \in Timeouts, l \in Actors \cup {None}, w \in Requests \cup {None} :
        c = conn[k] /\ t = timeout[k] /\ l = lock[k] /\ w = victim[r]
  BY <1>1 DEF TypeOK, Actors
<1>5. /\ UNCHANGED <<traced, conn, timeout, lock, woken, current, unflushed, response, sent, bodyVars, at,
                     assigned, guard, victim, phase, cancelled, clean>>
  BY DEF outsideAbort
<1>6. /\ use' \in [Requests -> Tokens \cup {None}] /\ \A q \in Requests : use'[q] \in {use[q], None}
      /\ todo[r] # <<"abortPrevious">> => use'[r] = None
  BY <1>3, AbortStoryFacts
<1>7. GuardStep(r, k, rest, c, t, l, w)
  <2>1. /\ conn' = [conn EXCEPT ![k] = c] /\ timeout' = [timeout EXCEPT ![k] = t]
        /\ lock' = [lock EXCEPT ![k] = l] /\ victim' = [victim EXCEPT ![r] = w]
    BY <1>1, <1>4, <1>5 DEF TypeOK, Actors
  <2>2. UNCHANGED <<traced, current, unflushed, response, sent, bodyVars, at, assigned, guard, phase, cancelled, clean>>
        /\ woken' = woken
    BY <1>5
  <2> QED
    BY <1>2, <1>3, <1>4, <1>6, <2>1, <2>2 DEF GuardStep
<1>8. /\ Lasting /\ todo'[r] = rest
      /\ \A j \in Connections : todo'[j] = todo[j] /\ (Down(j)' <=> Down(j)) /\ (Live(j)' <=> Live(j))
      /\ \A q \in Requests : todo'[q] \in Unbegun => todo[q] \in Unbegun
      /\ \A q \in Requests : LastUser(k, q)' <=> LastUser(k, q)
  <2>1. GuardStepDone(r, k, rest, c, t, l, w)
    BY <1>2, <1>7, GuardStepFacts
  <2> QED
    BY <2>1 DEF GuardStepDone
<1>9. /\ rest \in Superseded \cup {<<"beginUse", "beginTimeout", "wake">>} => todo[r] \in Superseded
      /\ rest \notin Completing \cup {<<"enterIdle">>, <<"abortUse", "finishWrite">>} /\ rest \notin Aborting
      /\ (rest \in {<<"finishWrite">>, <<"abortWake", "finishWrite">>} =>
            todo[r] \in {<<"abortUse", "finishWrite">>, <<"abortAny", "finishWrite">>})
      /\ (todo[r] = <<"abortPrevious">> => at[r] = "headers")
  <2>1. PICK now : now = todo[r]
    OBVIOUS
  <2>2. /\ rest \in Superseded \cup {<<"beginUse", "beginTimeout", "wake">>} => now \in Superseded
        /\ rest \notin Completing \cup {<<"enterIdle">>, <<"abortUse", "finishWrite">>} /\ rest \notin Aborting
        /\ (rest \in {<<"finishWrite">>, <<"abortWake", "finishWrite">>} =>
              now \in {<<"abortUse", "finishWrite">>, <<"abortAny", "finishWrite">>})
    BY <2>1, AbortRestFacts
  <2>3. now = <<"abortPrevious">> => at[r] = "headers"
    <3>1. now = <<"abortPrevious">> => now \notin Ending /\ now # <<>>
      BY DEF Ending, Completing, Reusing, Aborting, Closing
    <3> QED
      BY <1>1, <2>1, <3>1 DEF TaskInv, TypeOK, Places
  <2> QED
    BY <2>1, <2>2, <2>3
<1>10. UseInv(r)'
  <2>1. rest # <<"abortWake", "finishWrite">>
    BY <1>9 DEF Aborting
  <2>2. rest \in Superseded \cup {<<"beginUse", "beginTimeout", "wake">>} => use'[r] = None
    BY <1>1, <1>6, <1>9 DEF UseInv
  <2>3. at[r] = "over" => use'[r] = None
    BY <1>6, <1>9
  <2> QED
    BY <1>1, <1>5, <1>6, <1>8, <2>1, <2>2, <2>3 DEF UseInv
<1>11. FinishInv(r)'
  <2>1. Complete(r) => Complete(r)'
    BY <1>5 DEF Complete, bodyVars
  <2> QED
    BY <1>5, <1>8, <1>9, <2>1 DEF FinishInv
<1>12. \A q \in Requests : WriteInv(k, q)'
  BY <1>5, <1>8, WriteKeeps DEF bodyVars
<1>13. WakerInv(k)'
  BY <1>5, <1>8, WakerKeeps
<1>14. IdleInv(k)'
  BY <1>5, <1>8, IdleKeeps
<1> QED
  BY <1>2, <1>7, <1>10, <1>11, <1>12, <1>13, <1>14, GuardStepKeeps

(* The first abort of a connection: it keeps the lock until it has woken the *)
(* connection's task.                                                        *)
LEMMA AbortStarts ==
  ASSUME IInv, NEW r \in Requests, NEW rest, NEW waking, AbortRest(todo[r], rest, waking),
         NEW k \in Connections, k = guard[r].conn,
         NEW v \in Requests \cup {None}, todo[r] # <<"abortPrevious">> => v = r,
         conn' = [conn EXCEPT ![k].aborted = TRUE, ![k].idle = FALSE], lock' = [lock EXCEPT ![k] = r],
         victim' = [victim EXCEPT ![r] = v], Then(r, <<"abortWake">>), UNCHANGED use,
         UNCHANGED <<woken, outsideAbort>>
  PROVE  IInv'
<1>1. TypeOK /\ TaskInv(r) /\ UseInv(r) /\ FinishInv(r)
  BY DEF IInv
<1>2. /\ todo' = [todo EXCEPT ![r] = waking]
      /\ waking \in Ending \cup Assigned /\ todo[r] # <<>>
      /\ todo[r] # <<"observe", "beginUse", "beginTimeout", "wake">>
      /\ (waking \in Unbegun <=> todo[r] \in Unbegun) /\ (waking \in Unobserved <=> todo[r] \in Unobserved)
      /\ (todo[r] \in Assigned => waking \in Assigned) /\ (todo[r] \in Ending => waking \in Ending)
  <2>1. PICK now : now = todo[r]
    OBVIOUS
  <2>2. /\ waking \in Ending \cup Assigned /\ now # <<>>
        /\ now # <<"observe", "beginUse", "beginTimeout", "wake">>
        /\ (waking \in Unbegun <=> now \in Unbegun) /\ (waking \in Unobserved <=> now \in Unobserved)
        /\ (now \in Assigned => waking \in Assigned) /\ (now \in Ending => waking \in Ending)
        /\ <<"abortWake">> \o Tail(now) = waking
    BY <2>1, AbortRestFacts
  <2> QED
    BY <2>1, <2>2 DEF Done, Then
<1>3. guard[r] # None
  BY <1>2, GuardConn
<1>a. PICK c \in States : c = [conn[k] EXCEPT !.aborted = TRUE, !.idle = FALSE]
  <2>1. conn[k] \in States
    BY <1>1 DEF TypeOK
  <2> QED
    BY <2>1 DEF States
<1>4. PICK t \in Timeouts, l \in Actors \cup {None} : t = timeout[k] /\ l = r
  BY <1>1 DEF TypeOK, Actors
<1>5. UNCHANGED <<traced, timeout, woken, current, unflushed, response, sent, bodyVars, at,
                  assigned, guard, phase, cancelled, clean, use>>
  BY DEF outsideAbort
<1>6. /\ c \in States /\ c.uses = conn[k].uses /\ c.closed = conn[k].closed /\ c.waker = conn[k].waker
      /\ c.aborted = TRUE /\ c.idle = FALSE
  <2>1. conn[k] \in States
    BY <1>1 DEF TypeOK
  <2> QED
    BY <1>a, <2>1 DEF States
<1>7. GuardStep(r, k, waking, c, t, l, v)
  <2>1. /\ conn' = [conn EXCEPT ![k] = c] /\ timeout' = [timeout EXCEPT ![k] = t]
        /\ lock' = [lock EXCEPT ![k] = l] 
    BY <1>1, <1>a, <1>4, <1>5 DEF TypeOK
  <2>3. use' \in [Requests -> Tokens \cup {None}] /\ use' = use
    BY <1>1, <1>5 DEF TypeOK
  <2>2. UNCHANGED <<traced, current, unflushed, response, sent, bodyVars, at, assigned, guard, phase, cancelled, clean>>
        /\ woken' = woken
    BY <1>5
  <2> QED
    BY <1>2, <1>3, <1>4, <1>6, <2>1, <2>2, <2>3 DEF GuardStep
<1>8. /\ Lasting /\ todo'[r] = waking /\ conn'[k] = c /\ lock'[k] = l /\ victim'[r] = v
      /\ \A j \in Connections : todo'[j] = todo[j] /\ (Down(j)' <=> Down(j)) /\ (Live(j)' <=> Live(j))
      /\ \A q \in Requests : todo'[q] \in Unbegun => todo[q] \in Unbegun
      /\ \A q \in Requests : LastUser(k, q)' <=> LastUser(k, q)
  <2>1. GuardStepDone(r, k, waking, c, t, l, v)
    BY <1>2, <1>7, GuardStepFacts
  <2> QED
    BY <2>1 DEF GuardStepDone
<1>9. /\ waking \in Superseded \cup {<<"beginUse", "beginTimeout", "wake">>} => todo[r] \in Superseded
      /\ waking \notin Completing \cup {<<"enterIdle">>, <<"abortUse", "finishWrite">>}
      /\ (waking \in {<<"finishWrite">>, <<"abortWake", "finishWrite">>} =>
            todo[r] \in {<<"abortUse", "finishWrite">>, <<"abortAny", "finishWrite">>})
      /\ (todo[r] \in Aborting => waking = <<"abortWake", "finishWrite">>) /\ todo[r] \notin Completing
      /\ (todo[r] = <<"abortPrevious">> => todo[r] \notin {<<"abortUse", "finishWrite">>, <<"abortAny", "finishWrite">>})
  <2>1. PICK now : now = todo[r]
    OBVIOUS
  <2>2. /\ waking \in Superseded \cup {<<"beginUse", "beginTimeout", "wake">>} => now \in Superseded
        /\ waking \notin Completing \cup {<<"enterIdle">>, <<"abortUse", "finishWrite">>}
        /\ (waking \in {<<"finishWrite">>, <<"abortWake", "finishWrite">>} =>
              now \in {<<"abortUse", "finishWrite">>, <<"abortAny", "finishWrite">>})
        /\ (now \in Aborting => waking = <<"abortWake", "finishWrite">>) /\ now \notin Completing
    BY <2>1, AbortRestFacts
  <2>3. now = <<"abortPrevious">> => now \notin {<<"abortUse", "finishWrite">>, <<"abortAny", "finishWrite">>}
    OBVIOUS
  <2> QED
    BY <2>1, <2>2, <2>3
<1>10. UseInv(r)'
  <2>1. waking = <<"abortWake", "finishWrite">> => v = r
    BY <1>9
  <2>2. waking \in Superseded \cup {<<"beginUse", "beginTimeout", "wake">>} => use'[r] = None
    BY <1>1, <1>5, <1>9 DEF UseInv
  <2>3. at[r] = "over" /\ use'[r] # None => waking \in Aborting
    BY <1>1, <1>5, <1>9 DEF UseInv, Aborting
  <2> QED
    BY <1>1, <1>5, <1>8, <2>1, <2>2, <2>3 DEF UseInv
<1>11. FinishInv(r)'
  BY <1>5, <1>6, <1>8, <1>9 DEF FinishInv
<1>12. \A q \in Requests : WriteInv(k, q)'
  BY <1>5, <1>8, WriteKeeps DEF bodyVars
<1>13. WakerInv(k)'
  <2>1. WakerInv(k) /\ l # None
    BY <1>4, UseAssumption DEF IInv, Actors
  <2> QED
    BY <1>5, <1>6, <1>8, <2>1 DEF WakerInv
<1>14. IdleInv(k)'
  BY <1>6, <1>8 DEF IdleInv
<1> QED
  BY <1>2, <1>6, <1>7, <1>10, <1>11, <1>12, <1>13, <1>14, GuardStepKeeps

(* The aborts of requests. *)
LEMMA RequestAborts ==
  ASSUME IInv, NEW r \in Requests, AbortUse(r) \/ AbortAny(r) \/ AbortPrevious(r)
  PROVE  IInv'
<1>1. TypeOK /\ TaskInv(r) /\ FinishInv(r)
  BY DEF IInv
<1>2. todo[r] \in {<<"abortUse", "observe", "beginUse", "beginTimeout", "wake">>, <<"abortUse", "finishWrite">>,
                   <<"abortUse">>, <<"abortAny", "finishWrite">>, <<"abortPrevious">>}
  BY RequestDoes DEF AbortUse, AbortAny, AbortPrevious
<1>3. PICK rest, waking : AbortRest(todo[r], rest, waking)
  BY <1>2 DEF AbortRest
<1>4. PICK k \in Connections : k = guard[r].conn /\ guard[r] # None
  <2>1. todo[r] # <<>> /\ todo[r] # <<"observe", "beginUse", "beginTimeout", "wake">>
    BY <1>2
  <2> QED
    BY <2>1, GuardConn
<1>5. PICK v, token :
        /\ v \in Requests \cup {None}
        /\ todo[r] # <<"abortPrevious">> => v = r /\ token = Token(guard[r])
        /\ \/ AbortLocked(r, k, v, token)
           \/ /\ Does(r, "abortUse") /\ AbortStory(v, token) /\ Done(r)
              /\ UNCHANGED <<conn, lock, victim, woken, outsideAbort>>
  <2>1. CASE AbortUse(r)
    BY <1>4, <2>1 DEF AbortUse
  <2>2. CASE AbortAny(r)
    BY <1>4, <2>2 DEF AbortAny
  <2>3. CASE AbortPrevious(r)
    <3>1. todo[r] = <<"abortPrevious">>
      BY <2>3, RequestDoes DEF AbortPrevious
    <3>2. victim[r] \in Requests \cup {None}
      BY <1>1 DEF TypeOK, Actors
    <3> QED
      BY <1>4, <2>3, <3>1, <3>2 DEF AbortPrevious
  <2> QED
    BY <2>1, <2>2, <2>3
<1>6. CASE AbortLocked(r, k, v, token) /\ ~conn[k].aborted
  <2>1. /\ conn' = [conn EXCEPT ![k].aborted = TRUE, ![k].idle = FALSE] /\ lock' = [lock EXCEPT ![k] = r]
        /\ victim' = [victim EXCEPT ![r] = v] /\ Then(r, <<"abortWake">>) /\ UNCHANGED use
        /\ UNCHANGED <<woken, outsideAbort>>
    BY <1>6 DEF AbortLocked
  <2> QED
    BY <1>3, <1>4, <1>5, <2>1, AbortStarts
<1>7. CASE AbortLocked(r, k, v, token) /\ conn[k].aborted
  <2>1. AbortStory(v, token) /\ Done(r) /\ UNCHANGED <<conn, lock, victim, woken, outsideAbort>>
    BY <1>7 DEF AbortLocked
  <2> QED
    BY <1>3, <1>4, <1>5, <1>7, <2>1, AbortReports
<1>8. CASE /\ Does(r, "abortUse") /\ AbortStory(v, token) /\ Done(r)
           /\ UNCHANGED <<conn, lock, victim, woken, outsideAbort>>
  <2>1. todo[r] # <<"abortAny", "finishWrite">>
    BY <1>8 DEF Does
  <2>2. todo[r] \in {<<"abortUse", "finishWrite">>, <<"abortAny", "finishWrite">>} => Complete(r)
    BY <1>1, <2>1 DEF FinishInv
  <2> QED
    BY <1>3, <1>5, <1>8, <2>2, AbortReports
<1> QED
  BY <1>5, <1>6, <1>7, <1>8

(* The end of an abort by a request: the task is woken and the use reported. *)
LEMMA RequestAbortWakes ==
  ASSUME IInv, NEW r \in Requests, AbortWake(r, guard[r].conn)
  PROVE  IInv'
<1>1. TypeOK /\ TaskInv(r) /\ UseInv(r) /\ FinishInv(r)
  BY DEF IInv
<1>2. todo[r] \in {<<"abortWake", "observe", "beginUse", "beginTimeout", "wake">>,
                   <<"abortWake", "finishWrite">>, <<"abortWake">>}
  BY RequestDoes DEF AbortWake
<1>3. PICK k \in Connections : k = guard[r].conn /\ guard[r] # None
  <2>1. todo[r] # <<>> /\ todo[r] # <<"observe", "beginUse", "beginTimeout", "wake">>
    BY <1>2
  <2> QED
    BY <2>1, GuardConn
<1>a. PICK rest :
        /\ todo' = [todo EXCEPT ![r] = rest]
        /\ \/ /\ todo[r] = <<"abortWake", "observe", "beginUse", "beginTimeout", "wake">>
              /\ rest = <<"observe", "beginUse", "beginTimeout", "wake">>
           \/ todo[r] = <<"abortWake", "finishWrite">> /\ rest = <<"finishWrite">>
           \/ todo[r] = <<"abortWake">> /\ rest = <<>>
  <2>1. todo' = [todo EXCEPT ![r] = <<>> \o Tail(todo[r])]
    BY DEF AbortWake, Done, Then
  <2>2. CASE todo[r] = <<"abortWake", "observe", "beginUse", "beginTimeout", "wake">>
    <3>1. <<>> \o Tail(todo[r]) = <<"observe", "beginUse", "beginTimeout", "wake">>
      BY <2>2
    <3> QED
      BY <2>1, <2>2, <3>1
  <2>3. CASE todo[r] = <<"abortWake", "finishWrite">>
    <3>1. <<>> \o Tail(todo[r]) = <<"finishWrite">>
      BY <2>3
    <3> QED
      BY <2>1, <2>3, <3>1
  <2>4. CASE todo[r] = <<"abortWake">>
    <3>1. <<>> \o Tail(todo[r]) = <<>>
      BY <2>4
    <3> QED
      BY <2>1, <2>4, <3>1
  <2> QED
    BY <1>2, <2>2, <2>3, <2>4
<1>4. /\ todo' = [todo EXCEPT ![r] = rest] /\ rest \in Ending \cup Assigned
      /\ (rest \in Unbegun <=> todo[r] \in Unbegun) /\ (rest \in Unobserved <=> todo[r] \in Unobserved)
      /\ (todo[r] \in Assigned => rest \in Assigned) /\ (todo[r] \in Ending => rest \in Ending)
      /\ (rest \in Superseded \cup {<<"beginUse", "beginTimeout", "wake">>} => todo[r] \in Superseded)
      /\ rest \notin Completing \cup Aborting \cup {<<"enterIdle">>, <<"abortUse", "finishWrite">>}
      /\ (rest \in {<<"finishWrite">>, <<"abortWake", "finishWrite">>} => todo[r] = <<"abortWake", "finishWrite">>)
      /\ (todo[r] \in Completing \cup Aborting => todo[r] = <<"abortWake", "finishWrite">>)
      /\ todo[r] # <<>> /\ rest # <<"abortWake", "finishWrite">>
  <2> USE DEF Unbegun, Unobserved, Superseding, Superseded, Assigned, Ending, Closing, Completing, Reusing, Aborting
  <2>1. CASE /\ todo[r] = <<"abortWake", "observe", "beginUse", "beginTimeout", "wake">>
             /\ rest = <<"observe", "beginUse", "beginTimeout", "wake">>
    BY <1>a, <2>1
  <2>2. CASE todo[r] = <<"abortWake", "finishWrite">> /\ rest = <<"finishWrite">>
    BY <1>a, <2>2
  <2>3. CASE todo[r] = <<"abortWake">> /\ rest = <<>>
    BY <1>a, <2>3
  <2> QED
    BY <1>a, <2>1, <2>2, <2>3
<1>5. PICK c \in States : c = [conn[k] EXCEPT !.waker = FALSE]
  <2>1. conn[k] \in States
    BY <1>1 DEF TypeOK
  <2> QED
    BY <2>1 DEF States
<1>6. /\ c.uses = conn[k].uses /\ c.closed = conn[k].closed /\ c.aborted = conn[k].aborted
      /\ c.idle = conn[k].idle /\ c.waker = FALSE
  <2>1. conn[k] \in States
    BY <1>1 DEF TypeOK
  <2> QED
    BY <1>5, <2>1 DEF States
<1>7. PICK t \in Timeouts, l \in Actors \cup {None}, v \in Requests \cup {None} : t = timeout[k] /\ l = None /\ v = None
  BY <1>1 DEF TypeOK, Actors
<1>8. /\ UNCHANGED <<traced, timeout, current, unflushed, response, sent, bodyVars, at,
                     assigned, guard, phase, cancelled, clean>>
      /\ conn' = [conn EXCEPT ![k] = c] /\ lock' = [lock EXCEPT ![k] = l] /\ victim' = [victim EXCEPT ![r] = v]
      /\ woken' = IF conn[k].waker /\ ~conn[k].closed THEN woken \cup {k} ELSE woken
  BY <1>3, <1>5, <1>7 DEF AbortWake, Wake, outsideAbort
<1>9. /\ use' \in [Requests -> Tokens \cup {None}] /\ \A q \in Requests : use'[q] \in {use[q], None}
      /\ victim[r] = r => use'[r] = None
  <2>1. AbortStory(victim[r], AbortToken(r))
    BY DEF AbortWake
  <2>2. victim[r] = r => AbortToken(r) = Token(guard[r])
    BY DEF AbortToken
  <2> QED
    BY <1>3, <2>1, <2>2, AbortStoryFacts
<1>10. GuardStep(r, k, rest, c, t, l, v)
  <2>1. timeout' = [timeout EXCEPT ![k] = t]
    BY <1>1, <1>7, <1>8 DEF TypeOK
  <2>2. woken \subseteq woken' /\ woken' \subseteq woken \cup {k}
    BY <1>8
  <2> QED
    BY <1>3, <1>4, <1>6, <1>8, <1>9, <2>1, <2>2 DEF GuardStep
<1>11. /\ Lasting /\ todo'[r] = rest /\ conn'[k] = c /\ lock'[k] = l /\ victim'[r] = v
       /\ \A j \in Connections : todo'[j] = todo[j] /\ (Down(j)' <=> Down(j)) /\ (Live(j)' <=> Live(j))
       /\ \A q \in Requests : todo'[q] \in Unbegun => todo[q] \in Unbegun
       /\ \A q \in Requests : LastUser(k, q)' <=> LastUser(k, q)
  <2>1. GuardStepDone(r, k, rest, c, t, l, v)
    BY <1>4, <1>10, GuardStepFacts
  <2> QED
    BY <2>1 DEF GuardStepDone
<1>12. UseInv(r)'
  <2>1. rest \in Superseded \cup {<<"beginUse", "beginTimeout", "wake">>} => use'[r] = None
    BY <1>1, <1>4, <1>9 DEF UseInv
  <2>2. at[r] = "over" => use'[r] = None
    BY <1>1, <1>4, <1>9 DEF UseInv
  <2> QED
    BY <1>1, <1>4, <1>8, <1>9, <1>11, <2>1, <2>2 DEF UseInv
<1>13. FinishInv(r)'
  <2>1. Complete(r) => Complete(r)'
    BY <1>8 DEF Complete, bodyVars
  <2>2. todo[r] = <<"abortWake", "finishWrite">> => Complete(r) \/ conn[k].aborted
    BY <1>1, <1>3 DEF FinishInv
  <2> QED
    BY <1>3, <1>4, <1>6, <1>8, <1>11, <2>1, <2>2 DEF FinishInv
<1>14. \A q \in Requests : WriteInv(k, q)'
  BY <1>8, <1>11, WriteKeeps DEF bodyVars
<1>15. WakerInv(k)'
  <2>1. Live(k) => k \in woken'
    <3>1. conn[k].uses # 0
      <4>1. guard[r].use \in Nat /\ conn[k].uses \in Nat /\ guard[r].use < conn[k].uses
        BY <1>1, <1>3 DEF TaskInv, TypeOK, Guards, States
      <4> QED
        BY <4>1
    <3>2. WakerInv(k)
      BY DEF IInv
    <3> QED
      BY <1>8, <3>1, <3>2 DEF WakerInv, Live
  <2> QED
    BY <1>11, <2>1 DEF WakerInv
<1>16. IdleInv(k)'
  BY <1>6, <1>8, <1>11, IdleKeeps
<1> QED
  BY <1>4, <1>10, <1>12, <1>13, <1>14, <1>15, <1>16, GuardStepKeeps


(* begin_request_write_timeout: of a connection that is gone, one whose      *)
(* upload before is not over, and one that r may write to.                   *)
LEMMA BeginTimeoutKeeps ==
  ASSUME IInv, NEW r \in Requests, BeginTimeout(r)
  PROVE  IInv'
<1>1. TypeOK /\ TaskInv(r) /\ UseInv(r) /\ FinishInv(r)
  BY DEF IInv
<1>2. todo[r] = <<"beginTimeout", "wake">>
  BY RequestDoes DEF BeginTimeout
<1>3. PICK k \in Connections : k = guard[r].conn /\ guard[r] # None /\ guard[r] \in Guards
  BY <1>2, GuardConn
<1>4. PICK c \in States, l \in Actors \cup {None} : c = conn[k] /\ l = lock[k]
  BY <1>1 DEF TypeOK
<1>5. UNCHANGED <<traced, conn, lock, hyperVars, bodyVars, at, assigned, guard, storyVars>>
  BY DEF BeginTimeout
<1>6. /\ at[r] = "headers" /\ todo[r] \in Unbegun /\ todo[r] \notin Unobserved /\ todo[r] \notin Ending
      /\ todo[r] # <<>>
  <2>1. todo[r] \in Unbegun /\ todo[r] \notin Unobserved /\ todo[r] \notin Ending /\ todo[r] # <<>>
    BY <1>2 DEF Unbegun, Unobserved, Superseding, Superseded, Ending, Completing, Reusing, Aborting, Closing
  <2> QED
    BY <1>1, <2>1 DEF TaskInv, TypeOK, Places
<1>7. ASSUME NEW steps \in {<<>>, <<"abortPrevious">>, <<"wake">>}, NEW t \in Timeouts, NEW v \in Requests \cup {None},
             todo' = [todo EXCEPT ![r] = steps], timeout' = [timeout EXCEPT ![k] = t],
             victim' = [victim EXCEPT ![r] = v],
             \A q \in Requests : Lasting /\ todo'[r] = steps /\ timeout'[k] = t /\ WriteInv(k, q) => WriteInv(k, q)'
      PROVE  IInv'
  <2>1. /\ steps \in Assigned /\ steps \notin Unbegun /\ steps \notin Unobserved
        /\ steps \notin Superseded \cup {<<"beginUse", "beginTimeout", "wake">>}
        /\ steps \notin Completing \cup {<<"enterIdle">>, <<"abortUse", "finishWrite">>}
        /\ steps \notin {<<"finishWrite">>, <<"abortWake", "finishWrite">>}
    <3>1. \A s \in {<<>>, <<"abortPrevious">>, <<"wake">>} :
             /\ s \in Assigned /\ s \notin Unbegun /\ s \notin Unobserved
             /\ s \notin Superseded \cup {<<"beginUse", "beginTimeout", "wake">>}
             /\ s \notin Completing \cup {<<"enterIdle">>, <<"abortUse", "finishWrite">>}
             /\ s \notin {<<"finishWrite">>, <<"abortWake", "finishWrite">>}
      BY DEF Assigned, Unbegun, Unobserved, Superseding, Superseded, Completing, Reusing
    <3> QED
      BY <3>1
  <2>2. GuardStep(r, k, steps, c, t, l, v)
    <3>1. conn' = [conn EXCEPT ![k] = c] /\ lock' = [lock EXCEPT ![k] = l]
      BY <1>1, <1>4, <1>5 DEF TypeOK
    <3>2. use' \in [Requests -> Tokens \cup {None}] /\ use' = use
      BY <1>1, <1>5 DEF TypeOK, storyVars
    <3>3. /\ UNCHANGED <<traced, current, unflushed, response, sent, bodyVars, at, assigned, guard, phase, cancelled, clean>>
          /\ woken' = woken
      BY <1>5 DEF storyVars, hyperVars
    <3> QED
      BY <1>3, <1>4, <1>6, <1>7, <2>1, <3>1, <3>2, <3>3 DEF GuardStep
  <2>3. /\ Lasting /\ todo'[r] = steps /\ timeout'[k] = t
        /\ \A j \in Connections : todo'[j] = todo[j] /\ (Down(j)' <=> Down(j)) /\ (Live(j)' <=> Live(j))
        /\ \A q \in Requests : LastUser(k, q)' <=> LastUser(k, q)
    <3>1. GuardStepDone(r, k, steps, c, t, l, v)
      BY <2>1, <2>2, GuardStepFacts
    <3> QED
      BY <3>1 DEF GuardStepDone
  <2>4. UseInv(r)' /\ FinishInv(r)'
    BY <1>1, <1>5, <1>6, <2>1, <2>3 DEF UseInv, FinishInv, storyVars
  <2>5. \A q \in Requests : WriteInv(k, q)'
    BY <1>7, <2>3 DEF IInv
  <2>6. WakerInv(k)' /\ IdleInv(k)'
    <3>1. WakerInv(k)'
      BY <1>5, <2>3, WakerKeeps DEF hyperVars
    <3>2. IdleInv(k)'
      BY <1>5, <2>3, IdleKeeps
    <3> QED
      BY <3>1, <3>2
  <2> QED
    BY <2>1, <2>2, <2>4, <2>5, <2>6, GuardStepKeeps
<1>8. ASSUME NEW steps \in {<<>>, <<"abortPrevious">>}, Lasting, NEW q \in Requests,
             todo' = [todo EXCEPT ![r] = steps], timeout' = timeout
      PROVE  WriteInv(k, q)'
  <2>1. /\ todo'[r] = steps /\ \A p \in Requests \ {r} : todo'[p] = todo[p]
        /\ \A j \in Connections : todo'[j] = todo[j]
    BY <1>1, <1>8, TodoOf
  <2>2. todo'[q] \in Unbegun => todo[q] \in Unbegun
    BY <1>6, <2>1
  <2>3. Live(k)' <=> Live(k)
    BY <1>5, <2>1 DEF Live
  <2> QED
    BY <1>5, <1>8, <2>1, <2>2, <2>3, WriteKeeps DEF hyperVars, bodyVars
<1>9. CASE conn[k].closed \/ conn[k].aborted
  <2>1. todo' = [todo EXCEPT ![r] = <<>>] /\ UNCHANGED <<timeout, victim>>
    BY <1>3, <1>9 DEF BeginTimeout
  <2>2. PICK t \in Timeouts, v \in Requests \cup {None} : t = timeout[k] /\ v = victim[r]
    BY <1>1 DEF TypeOK, Actors
  <2>3. timeout' = [timeout EXCEPT ![k] = t] /\ victim' = [victim EXCEPT ![r] = v]
    BY <1>1, <2>1, <2>2 DEF TypeOK, Actors
  <2> QED
    BY <1>7, <1>8, <2>1, <2>3
<1>10. CASE ~conn[k].closed /\ ~conn[k].aborted /\ PreviousIncomplete(k)
  <2>1. PICK v \in Requests \cup {None} : v = timeout[k].active.request
    <3>1. timeout[k].active \in Writers
      BY <1>1, <1>10 DEF TypeOK, Timeouts, PreviousIncomplete
    <3> QED
      BY <3>1 DEF Writers
  <2>2. todo' = [todo EXCEPT ![r] = <<"abortPrevious">>] /\ timeout' = timeout /\ victim' = [victim EXCEPT ![r] = v]
    BY <1>3, <1>10, <2>1 DEF BeginTimeout
  <2>3. PICK t \in Timeouts : t = timeout[k]
    BY <1>1 DEF TypeOK
  <2>4. timeout' = [timeout EXCEPT ![k] = t]
    BY <1>1, <2>2, <2>3 DEF TypeOK
  <2> QED
    BY <1>7, <1>8, <2>2, <2>4
<1>11. CASE ~conn[k].closed /\ ~conn[k].aborted /\ ~PreviousIncomplete(k)
  <2>1. PICK t \in Timeouts : /\ t = BeginRequest(r) /\ t.active # None /\ t.started = FALSE
                              /\ t.active.request = r /\ t.active.use = guard[r].use
    <3>1. PICK w \in Writers : w = [use |-> guard[r].use, request |-> r]
      BY <1>3 DEF Guards, Writers
    <3>2. w # None /\ w.request = r /\ w.use = guard[r].use
      BY <3>1, UseAssumption
    <3>3. BeginRequest(r) = [active |-> w, started |-> FALSE]
      BY <3>1 DEF BeginRequest
    <3>4. PICK t : t = [active |-> w, started |-> FALSE]
      OBVIOUS
    <3>5. t \in Timeouts /\ t.active = w /\ t.started = FALSE
      BY <3>4 DEF Timeouts
    <3> QED
      BY <3>2, <3>3, <3>4, <3>5
  <2>2. /\ timeout' = [timeout EXCEPT ![k] = t] /\ victim' = victim
        /\ todo' = [todo EXCEPT ![r] = <<>> \o Tail(todo[r])]
    BY <1>3, <1>11, <2>1 DEF BeginTimeout, Done, Then
  <2>3. todo' = [todo EXCEPT ![r] = <<"wake">>]
    <3>1. <<>> \o Tail(<<"beginTimeout", "wake">>) = <<"wake">>
      OBVIOUS
    <3> QED
      BY <1>2, <2>2, <3>1
  <2>4. PICK v \in Requests \cup {None} : v = victim[r]
    BY <1>1 DEF TypeOK, Actors
  <2>5. victim' = [victim EXCEPT ![r] = v]
    BY <1>1, <2>2, <2>4 DEF TypeOK, Actors
  <2>6. assigned[r] = k /\ current[k] = r /\ r \notin ToSet(sent[k]) /\ todo[k] # <<"socket">>
    <3>1. assigned[r] = k
      BY <1>1, <1>3, <1>6 DEF TaskInv
    <3>2. WriteInv(k, r)
      BY DEF IInv
    <3> QED
      BY <1>6, <3>1, <3>2 DEF WriteInv
  <2>7. ASSUME NEW q \in Requests, Lasting, todo'[r] = <<"wake">>, timeout'[k] = t, WriteInv(k, q)
        PROVE  WriteInv(k, q)'
    <3>1. /\ todo'[r] = <<"wake">> /\ \A p \in Requests \ {r} : todo'[p] = todo[p]
          /\ \A j \in Connections : todo'[j] = todo[j]
      BY <1>1, <2>3, TodoOf
    <3>2. UNCHANGED <<conn, current, unflushed, sent, wire, flushed, produced, assigned, guard>>
      BY <1>5 DEF hyperVars, bodyVars
    <3>3. (Live(k)' <=> Live(k)) /\ (Down(k)' <=> Down(k)) /\ (Complete(q)' <=> Complete(q))
      BY <3>1, <3>2 DEF Live, Down, Does, Complete
    <3>4. Active(k, q)' <=> q = r
      BY <2>1, <2>7 DEF Active
    <3>5. CASE q = r
      <4>1. todo'[r] \notin Unbegun
        BY <2>7 DEF Unbegun, Unobserved, Superseding, Superseded
      <4> QED
        BY <1>3, <2>1, <2>6, <2>7, <3>1, <3>2, <3>3, <3>5, <4>1 DEF WriteInv
    <3>6. CASE q # r
      <4>1. Active(k, q) => Complete(q)
        BY <1>11 DEF Active, PreviousIncomplete
      <4> QED
        BY <2>6, <2>7, <3>1, <3>2, <3>3, <3>4, <3>6, <4>1 DEF WriteInv
    <3> QED
      BY <3>5, <3>6
  <2>8. <<"wake">> \in {<<>>, <<"abortPrevious">>, <<"wake">>}
    OBVIOUS
  <2> QED
    BY <1>7, <2>2, <2>3, <2>5, <2>7, <2>8
<1> QED
  BY <1>9, <1>10, <1>11

(* begin_connection_use. *)
LEMMA BeginUseKeeps ==
  ASSUME IInv, NEW r \in Requests, BeginUse(r)
  PROVE  IInv'
<1>1. TypeOK /\ TaskInv(r) /\ UseInv(r) /\ FinishInv(r)
  BY DEF IInv
<1>2. todo[r] = <<"beginUse", "beginTimeout", "wake">>
  BY RequestDoes DEF BeginUse
<1>3. /\ guard[r] # None /\ guard[r] \in Guards /\ guard[r].conn \in Connections
      /\ guard[r].use \in Nat /\ guard[r].token \in BOOLEAN
  BY <1>2, GuardConn
<1>4. UNCHANGED <<traced, conn, timeout, lock, hyperVars, bodyVars, at, assigned, victim, phase, cancelled, clean>>
  BY DEF BeginUse
<1>5. todo' = [todo EXCEPT ![r] = <<"beginTimeout", "wake">>]
  <2>1. <<>> \o Tail(<<"beginUse", "beginTimeout", "wake">>) = <<"beginTimeout", "wake">>
    OBVIOUS
  <2> QED
    BY <1>2, <2>1 DEF BeginUse, Done, Then
<1>6. /\ todo'[r] = <<"beginTimeout", "wake">> /\ \A q \in Requests \ {r} : todo'[q] = todo[q]
      /\ \A j \in Connections : todo'[j] = todo[j]
  BY <1>1, <1>5, TodoOf
<1>7. /\ at[r] = "headers" /\ todo[r] \in Unbegun /\ todo[r] \notin Unobserved /\ use[r] = None
      /\ todo'[r] \in Unbegun /\ todo'[r] \notin Unobserved /\ todo'[r] \in Assigned /\ todo'[r] # <<>>
      /\ todo'[r] \notin Superseded \cup {<<"beginUse", "beginTimeout", "wake">>}
      /\ todo'[r] \notin Completing \cup Aborting \cup Closing
  <2>1. todo[r] \in Unbegun /\ todo[r] \notin Unobserved /\ todo[r] \notin Ending /\ todo[r] # <<>>
    BY <1>2 DEF Unbegun, Unobserved, Superseding, Superseded, Ending, Completing, Reusing, Aborting, Closing
  <2>2. /\ todo'[r] \in Unbegun /\ todo'[r] \notin Unobserved /\ todo'[r] \in Assigned /\ todo'[r] # <<>>
        /\ todo'[r] \notin Superseded \cup {<<"beginUse", "beginTimeout", "wake">>}
        /\ todo'[r] \notin Completing \cup Aborting \cup Closing
    BY <1>6 DEF Unbegun, Unobserved, Superseding, Superseded, Assigned, Completing, Reusing, Aborting, Closing
  <2>3. at[r] = "headers"
    BY <1>1, <2>1 DEF TaskInv, TypeOK, Places
  <2>4. use[r] = None
    BY <1>1, <1>2 DEF UseInv
  <2> QED
    BY <2>1, <2>2, <2>3, <2>4
<1>8. /\ guard' \in [Requests -> Guards \cup {None}] /\ use' \in [Requests -> Tokens \cup {None}]
      /\ \A q \in Requests \ {r} : guard'[q] = guard[q] /\ use'[q] = use[q]
      /\ guard'[r] # None /\ guard'[r].conn = guard[r].conn /\ guard'[r].use = guard[r].use
      /\ use'[r] # None => traced /\ guard'[r].token /\ use'[r] = <<guard[r].conn, guard[r].use>>
  <2>1. CASE traced /\ r \notin cancelled /\ use[r] = None
    <3>1. PICK g \in Guards : g = [guard[r] EXCEPT !.token = TRUE]
      BY <1>3 DEF Guards
    <3>2. g.conn = guard[r].conn /\ g.use = guard[r].use /\ g.token /\ g # None
      BY <1>3, <3>1, UseAssumption DEF Guards
    <3>3. guard' = [guard EXCEPT ![r] = g] /\ use' = [use EXCEPT ![r] = <<guard[r].conn, guard[r].use>>]
      BY <2>1, <3>1 DEF BeginUse
    <3>4. <<guard[r].conn, guard[r].use>> \in Tokens
      BY <1>3 DEF Tokens
    <3> QED
      BY <1>1, <2>1, <3>1, <3>2, <3>3, <3>4 DEF TypeOK
  <2>2. CASE ~(traced /\ r \notin cancelled /\ use[r] = None)
    <3>1. guard' = guard /\ use' = use
      BY <2>2 DEF BeginUse
    <3> QED
      BY <1>1, <1>3, <1>7, <3>1 DEF TypeOK
  <2> QED
    BY <2>1, <2>2
<1>9. TypeOK'
  <2>1. todo' \in [Actors -> Ending \cup Assigned \cup Polling \cup Failing \cup Dropped]
    <3>1. <<"beginTimeout", "wake">> \in Assigned
      BY <1>6, <1>7
    <3> QED
      BY <1>1, <1>5, <3>1 DEF TypeOK
  <2> QED
    BY <1>1, <1>4, <1>8, <2>1 DEF TypeOK, hyperVars, bodyVars
<1>10. \A j \in Connections : SameConn(j) /\ (Live(j)' <=> Live(j)) /\ (Down(j)' <=> Down(j))
  BY <1>4, <1>6 DEF SameConn, Live, Down, Does, hyperVars
<1>11. Lasting
  <2>1. \A j \in Connections : conn[j].uses \in Nat
    BY <1>1 DEF TypeOK, States
  <2> QED
    BY <1>4, <1>10, <2>1 DEF Lasting, bodyVars
<1>12. \A q \in Requests \ {r} : SameTask(q)
  BY <1>4, <1>6, <1>8 DEF SameTask
<1>13. GuardsDiffer'
  <2>1. \A q \in Requests : (guard'[q] # None <=> guard[q] # None)
                            /\ guard'[q].conn = guard[q].conn /\ guard'[q].use = guard[q].use
    BY <1>3, <1>8
  <2> QED
    BY <2>1 DEF IInv, GuardsDiffer
<1>14. TaskInv(r)'
  <2>1. guard[r].use < conn[guard[r].conn].uses /\ guard[r].conn = assigned[r] /\ assigned[r] # None
    BY <1>1, <1>3, <1>7 DEF TaskInv
  <2>2. guard'[r].use < conn'[guard'[r].conn].uses /\ guard'[r].conn = assigned'[r]
    BY <1>4, <1>8, <2>1
  <2> QED
    BY <1>4, <1>7, <1>8, <2>1, <2>2 DEF TaskInv
<1>15. UseInv(r)'
  BY <1>1, <1>4, <1>6, <1>7, <1>8 DEF UseInv
<1>16. FinishInv(r)'
  <2>1. todo'[r] \notin {<<"finishWrite">>, <<"abortWake", "finishWrite">>, <<"enterIdle">>, <<"abortUse", "finishWrite">>}
    BY <1>6
  <2> QED
    BY <1>7, <2>1 DEF FinishInv
<1>17. \A j \in Connections : WriteInv(j, r)'
  BY <1>4, <1>7, <1>10, <1>11, WriteKeeps DEF SameConn, bodyVars
<1>18. \A j \in Connections : ~(conn[j].idle /\ LastUser(j, r)')
  <2> SUFFICES ASSUME NEW j \in Connections, conn[j].idle, LastUser(j, r)' PROVE FALSE
    OBVIOUS
  <2>1. LastUser(j, r)
    BY <1>3, <1>4, <1>8 DEF LastUser, IsCurrentUse
  <2>2. IdleInv(j)
    BY DEF IInv
  <2> QED
    BY <1>7, <2>1, <2>2 DEF IdleInv
<1>19. NoWriteOverIncomplete'
  BY <1>4 DEF IInv, NoWriteOverIncomplete, Complete, hyperVars, bodyVars
<1> QED
  <2>1. PICK R, K : R = {r} /\ K = {}
    OBVIOUS
  <2>2. wire' = wire /\ assigned' = assigned
    BY <1>4 DEF bodyVars
  <2> QED
    BY <1>9, <1>10, <1>11, <1>12, <1>13, <1>14, <1>15, <1>16, <1>17, <1>18, <1>19, <2>1, <2>2, StepKeeps

(* A connection that is down is not live, and only a live one is at the      *)
(* socket.                                                                   *)
LEMMA DownNotLive ==
  ASSUME IInv, NEW k \in Connections
  PROVE  (Down(k) => ~Live(k)) /\ (todo[k] = <<"socket">> => Live(k))
<1>1. ConnInv(k)
  BY DEF IInv
<1>2. todo[k] \in Polling => ~Does(k, "drop")
  BY DEF Polling, Does
<1>3. <<"socket">> \notin Failing /\ <<"socket">> \notin Dropped
  BY DEF Failing, Dropped
<1> QED
  BY <1>1, <1>2, <1>3 DEF Down, Live, ConnInv

(* The connection leaves the idle state for its new user. *)
LEMMA ObserveKeeps ==
  ASSUME IInv, NEW r \in Requests, Observe(r)
  PROVE  IInv'
<1>1. TypeOK /\ TaskInv(r) /\ UseInv(r) /\ FinishInv(r)
  BY DEF IInv
<1>2. todo[r] = <<"observe", "beginUse", "beginTimeout", "wake">>
  BY RequestDoes DEF Observe
<1>3. at[r] = "headers" /\ use[r] = None /\ todo[r] \in Unbegun
  <2>1. todo[r] \in Unbegun /\ todo[r] \in Superseded /\ todo[r] \notin Ending /\ todo[r] # <<>>
    BY <1>2 DEF Unbegun, Unobserved, Superseding, Superseded, Ending, Completing, Reusing, Aborting, Closing
  <2> QED
    BY <1>1, <2>1 DEF TaskInv, UseInv, TypeOK, Places
<1>4. PICK k \in Connections : k = assigned[r]
  BY <1>1, <1>3 DEF TypeOK, TaskInv
<1>5. UNCHANGED <<traced, timeout, lock, hyperVars, bodyVars, at, assigned, victim, storyVars>>
  BY DEF Observe
<1>6. todo' = [todo EXCEPT ![r] = <<"beginUse", "beginTimeout", "wake">>]
  <2>1. <<>> \o Tail(<<"observe", "beginUse", "beginTimeout", "wake">>) = <<"beginUse", "beginTimeout", "wake">>
    OBVIOUS
  <2> QED
    BY <1>2, <2>1 DEF Observe, Done, Then
<1>7. /\ todo'[r] = <<"beginUse", "beginTimeout", "wake">> /\ \A q \in Requests \ {r} : todo'[q] = todo[q]
      /\ \A j \in Connections : todo'[j] = todo[j]
  BY <1>1, <1>6, TodoOf
<1>8. /\ todo'[r] \in Unbegun /\ todo'[r] \notin Unobserved /\ todo'[r] \in Assigned /\ todo'[r] # <<>>
      /\ todo'[r] \notin Completing \cup Aborting \cup Closing
      /\ todo'[r] \notin {<<"enterIdle">>, <<"finishWrite">>, <<"abortUse", "finishWrite">>, <<"abortWake", "finishWrite">>}
  BY <1>7 DEF Unbegun, Unobserved, Superseding, Superseded, Assigned, Completing, Reusing, Aborting, Closing
<1>9. PICK g \in Guards : g = [conn |-> k, use |-> conn[k].uses, token |-> FALSE]
  BY <1>1 DEF Guards, TypeOK, States
<1>10. g.conn = k /\ g.use = conn[k].uses /\ g # None
  BY <1>9, UseAssumption
<1>11. /\ guard' = [guard EXCEPT ![r] = g] /\ guard'[r] = g
       /\ \A q \in Requests \ {r} : guard'[q] = guard[q]
  BY <1>1, <1>4, <1>9 DEF Observe, TypeOK
<1>12. PICK c \in States : c = [conn[k] EXCEPT !.idle = FALSE, !.uses = @ + 1]
  <2>1. conn[k] \in States
    BY <1>1 DEF TypeOK
  <2>2. PICK n \in Nat : n = conn[k].uses + 1
    BY <2>1 DEF States
  <2>3. PICK c : c = [conn[k] EXCEPT !.idle = FALSE, !.uses = n]
    OBVIOUS
  <2>4. c \in States
    BY <2>1, <2>3 DEF States
  <2> QED
    BY <2>2, <2>3, <2>4
<1>13. /\ c.uses = conn[k].uses + 1 /\ c.closed = conn[k].closed /\ c.aborted = conn[k].aborted
       /\ c.idle = FALSE /\ c.waker = conn[k].waker /\ conn[k].uses \in Nat
  <2>1. conn[k] \in States
    BY <1>1 DEF TypeOK
  <2> QED
    BY <1>12, <2>1 DEF States
<1>14. /\ conn' = [conn EXCEPT ![k] = c] /\ conn'[k] = c /\ \A j \in Connections \ {k} : conn'[j] = conn[j]
  BY <1>1, <1>4, <1>12 DEF Observe, TypeOK
<1>15. TypeOK'
  <2>1. todo' \in [Actors -> Ending \cup Assigned \cup Polling \cup Failing \cup Dropped]
    <3>1. <<"beginUse", "beginTimeout", "wake">> \in Assigned
      BY <1>7, <1>8
    <3> QED
      BY <1>1, <1>6, <3>1 DEF TypeOK
  <2>2. conn' \in [Connections -> States] /\ guard' \in [Requests -> Guards \cup {None}]
    BY <1>1, <1>11, <1>14 DEF TypeOK
  <2> QED
    BY <1>1, <1>5, <2>1, <2>2 DEF TypeOK, hyperVars, bodyVars, storyVars
<1>16. \A j \in Connections : (Live(j)' <=> Live(j)) /\ (Down(j)' <=> Down(j))
  BY <1>7, <1>13, <1>14 DEF Live, Down, Does
<1>17. Lasting
  <2>1. \A j \in Connections : conn[j].uses \in Nat /\ conn[j].uses <= conn'[j].uses
    <3>1. \A j \in Connections : conn[j].uses \in Nat
      BY <1>1 DEF TypeOK, States
    <3> QED
      BY <1>13, <1>14, <3>1
  <2>2. \A j \in Connections : conn'[j].closed = conn[j].closed /\ conn'[j].aborted = conn[j].aborted
    BY <1>13, <1>14
  <2> QED
    BY <1>5, <1>16, <2>1, <2>2 DEF Lasting, bodyVars, storyVars
<1>18. \A q \in Requests \ {r} : SameTask(q)
  BY <1>5, <1>7, <1>11 DEF SameTask, storyVars
<1>19. \A j \in Connections \ {k} : SameConn(j)
  BY <1>5, <1>7, <1>14 DEF SameConn, hyperVars
<1>20. GuardsDiffer'
  <2>1. \A q \in Requests \ {r} : guard[q] # None /\ guard[q].conn = k => guard[q].use # g.use
    <3> SUFFICES ASSUME NEW q \in Requests \ {r}, guard[q] # None, guard[q].conn = k PROVE guard[q].use # g.use
      OBVIOUS
    <3>1. TaskInv(q) /\ guard[q].use \in Nat
      BY <1>1 DEF IInv, TypeOK, Guards
    <3>2. guard[q].use < conn[k].uses
      BY <3>1 DEF TaskInv
    <3> QED
      BY <1>10, <1>13, <3>1, <3>2
  <2> QED
    BY <1>10, <1>11, <2>1 DEF IInv, GuardsDiffer
<1>21. TaskInv(r)'
  <2>1. guard'[r].use < conn'[guard'[r].conn].uses
    BY <1>10, <1>11, <1>13, <1>14
  <2>2. guard'[r] # None /\ guard'[r].conn = assigned'[r] /\ assigned'[r] # None /\ at'[r] = "headers"
    BY <1>1, <1>3, <1>4, <1>5, <1>10, <1>11 DEF TaskInv
  <2> QED
    BY <1>8, <2>1, <2>2 DEF TaskInv
<1>22. UseInv(r)'
  BY <1>1, <1>3, <1>5, <1>7 DEF UseInv, storyVars
<1>23. FinishInv(r)'
  BY <1>8 DEF FinishInv
<1>24. WakerInv(k)'
  <2>1. WakerInv(k)
    BY DEF IInv
  <2> QED
    BY <1>4, <1>5, <1>13, <1>14, <1>16, <2>1 DEF WakerInv, hyperVars
<1>25. IdleInv(k)'
  BY <1>13, <1>14 DEF IdleInv
<1>26. ASSUME NEW j \in Connections, NEW q \in Requests PROVE WriteInv(j, q)'
  <2>1. guard[q] # None /\ todo[q] \notin Unbegun => guard'[q] = guard[q]
    BY <1>3, <1>11
  <2>2. todo'[q] \in Unbegun => todo[q] \in Unbegun
    BY <1>3, <1>7
  <2> QED
    BY <1>5, <1>7, <1>16, <1>17, <2>1, <2>2, WriteKeeps DEF hyperVars, bodyVars
<1> QED
  <2>1. UNCHANGED <<sent, wire, current, assigned>>
    BY <1>5 DEF hyperVars, bodyVars
  <2>2. guard'[r].conn = k /\ conn'[k].closed = conn[k].closed
    BY <1>10, <1>11, <1>13, <1>14
  <2> QED
    BY <1>7, <1>15, <1>17, <1>18, <1>19, <1>20, <1>21, <1>22, <1>23, <1>24, <1>25, <1>26, <2>1, <2>2, RequestStepKeeps

(* hyper hands a request a connection, perhaps in place of one that is down. *)
LEMMA AssignKeeps ==
  ASSUME IInv, NEW r \in Requests, NEW k \in Connections, Assign(r, k)
  PROVE  IInv'
<1>1. TypeOK /\ TaskInv(r) /\ UseInv(r) /\ FinishInv(r)
  BY DEF IInv
<1>2. /\ todo[r] = <<>> /\ ~Down(k) /\ current[k] = None
      /\ assigned' = [assigned EXCEPT ![r] = k] /\ current' = [current EXCEPT ![k] = r] /\ woken' = woken \cup {k}
      /\ at' = [at EXCEPT ![r] = "headers"]
      /\ UNCHANGED <<traced, conn, timeout, lock, unflushed, response, sent, bodyVars, guard, victim, storyVars>>
  BY DEF Assign
<1>3. \/ at[r] = "send" /\ guard[r] = None /\ assigned[r] = None
      \/ /\ at[r] = "headers" /\ guard[r] # None /\ guard[r].conn = assigned[r] /\ assigned[r] # k
         /\ assigned[r] \in Connections /\ Down(assigned[r]) /\ r \notin ToSet(sent[assigned[r]])
  <2>1. CASE at[r] = "send"
    BY <1>1, <2>1 DEF TaskInv
  <2>2. CASE at[r] = "headers" /\ Down(guard[r].conn) /\ r \notin ToSet(sent[guard[r].conn])
    <3>1. guard[r] # None
      BY <1>1, <1>2, <2>2 DEF TaskInv
    <3>2. todo[r] \notin Unobserved
      BY <1>2 DEF Unobserved, Superseding, Superseded
    <3>3. guard[r].conn = assigned[r] /\ guard[r].conn \in Connections
      BY <1>1, <3>1, <3>2 DEF TaskInv, TypeOK, Guards
    <3> QED
      BY <1>2, <2>2, <3>1, <3>3
  <2> QED
    BY <2>1, <2>2 DEF Assign
<1>4. PICK steps :
        /\ todo' = [todo EXCEPT ![r] = steps]
        /\ \/ guard[r] = None /\ steps = <<"observe", "beginUse", "beginTimeout", "wake">>
           \/ guard[r] # None /\ steps = <<"finishWrite", "finishUse", "observe", "beginUse", "beginTimeout", "wake">>
  <2>1. CASE guard[r] = None
    <3>1. <<>> \o Observation = <<"observe", "beginUse", "beginTimeout", "wake">>
      BY DEF Observation
    <3> QED
      BY <2>1, <3>1 DEF Assign
  <2>2. CASE guard[r] # None
    <3>1. Supersede \o Observation = <<"finishWrite", "finishUse", "observe", "beginUse", "beginTimeout", "wake">>
      BY Concat24 DEF Observation, Supersede
    <3> QED
      BY <2>2, <3>1 DEF Assign
  <2> QED
    BY <2>1, <2>2
<1>5. /\ steps \in Unobserved /\ steps \in Assigned /\ steps \in Unbegun /\ steps # <<>>
      /\ steps \in Superseded \cup {<<"beginUse", "beginTimeout", "wake">>} => guard[r] = None
      /\ steps \notin Completing \cup Aborting \cup Closing
      /\ steps \notin {<<"enterIdle">>, <<"finishWrite">>, <<"abortUse", "finishWrite">>, <<"abortWake", "finishWrite">>}
      /\ steps \in Unobserved \ {<<"observe", "beginUse", "beginTimeout", "wake">>} => guard[r] # None
      /\ guard[r] = None => steps = <<"observe", "beginUse", "beginTimeout", "wake">>
  <2> USE DEF Unbegun, Unobserved, Superseding, Superseded, Assigned, Completing, Reusing, Aborting, Closing
  <2>1. CASE guard[r] = None /\ steps = <<"observe", "beginUse", "beginTimeout", "wake">>
    BY <2>1
  <2>2. CASE guard[r] # None /\ steps = <<"finishWrite", "finishUse", "observe", "beginUse", "beginTimeout", "wake">>
    BY <2>2
  <2> QED
    BY <1>4, <2>1, <2>2
<1>6. /\ todo'[r] = steps /\ \A q \in Requests \ {r} : todo'[q] = todo[q]
      /\ \A j \in Connections : todo'[j] = todo[j]
  BY <1>1, <1>4, TodoOf
<1>7. /\ assigned'[r] = k /\ at'[r] = "headers"
      /\ \A q \in Requests \ {r} : assigned'[q] = assigned[q] /\ at'[q] = at[q]
      /\ current'[k] = r /\ \A j \in Connections \ {k} : current'[j] = current[j]
  BY <1>1, <1>2 DEF TypeOK
<1>8. TypeOK'
  <2>1. todo' \in [Actors -> Ending \cup Assigned \cup Polling \cup Failing \cup Dropped]
    BY <1>1, <1>4, <1>5 DEF TypeOK
  <2>2. /\ at' \in [Requests -> Places] /\ assigned' \in [Requests -> Connections \cup {None}]
        /\ current' \in [Connections -> Requests \cup {None}] /\ woken' \subseteq Connections
    BY <1>1, <1>2 DEF TypeOK, Places
  <2> QED
    BY <1>1, <1>2, <2>1, <2>2 DEF TypeOK, bodyVars, storyVars
<1>9. \A j \in Connections : (Live(j)' <=> Live(j)) /\ (Down(j)' <=> Down(j))
  BY <1>2, <1>6 DEF Live, Down, Does
<1>10. Lasting
  <2>1. \A j \in Connections : conn[j].uses \in Nat
    BY <1>1 DEF TypeOK, States
  <2>2. \A q \in Requests : at[q] = "over" => at'[q] = "over"
    BY <1>3, <1>7
  <2> QED
    BY <1>2, <1>9, <2>1, <2>2 DEF Lasting, bodyVars, storyVars
<1>11. \A q \in Requests \ {r} : SameTask(q)
  BY <1>2, <1>6, <1>7 DEF SameTask, storyVars
<1>12. \A j \in Connections \ {k} : SameConn(j)
  BY <1>2, <1>6, <1>7 DEF SameConn
<1>13. GuardsDiffer'
  BY <1>2 DEF IInv, GuardsDiffer
<1>14. TaskInv(r)'
  <2>1. guard[r] # None => /\ guard[r].use < conn[guard[r].conn].uses /\ guard[r].conn # k
                           /\ guard[r].conn \in Connections /\ Down(guard[r].conn)
    BY <1>1, <1>3 DEF TaskInv
  <2>2. guard'[r] # None => Down(guard[r].conn)'
    <3>1. \A j \in Connections : j = guard[r].conn /\ Down(j) => Down(guard[r].conn)'
      BY <1>2, <1>9 DEF Down, Does
    <3> QED
      BY <1>2, <2>1, <3>1
  <2>3. k # None
    BY UseAssumption DEF Actors
  <2> QED
    BY <1>2, <1>5, <1>6, <1>7, <2>1, <2>2, <2>3 DEF TaskInv
<1>15. UseInv(r)'
  <2>1. r \notin phase
    BY <1>1, <1>3 DEF UseInv
  <2>2. guard[r] = None => use[r] = None
    BY <1>1 DEF UseInv
  <2> QED
    BY <1>1, <1>2, <1>5, <1>6, <1>7, <2>1, <2>2 DEF UseInv, storyVars
<1>16. FinishInv(r)'
  BY <1>5, <1>6 DEF FinishInv
<1>17. WakerInv(k)'
  BY <1>2 DEF WakerInv
<1>18. IdleInv(k)'
  <2>1. \A q \in Requests : LastUser(k, q)' <=> LastUser(k, q)
    BY <1>2 DEF LastUser, IsCurrentUse
  <2> QED
    BY <1>2, <1>6, <1>10, <2>1, IdleKeeps
<1>19. /\ todo[k] # <<"socket">> /\ r \notin ToSet(sent[k])
       /\ \A j \in Connections : Active(j, r) => ~Live(j)
       /\ \A j \in Connections : r \notin ToSet(sent[j])
       /\ \A j \in Connections : current[j] = r => Down(j)
  <2>1. todo[k] # <<"socket">>
    <3>1. ConnInv(k)
      BY DEF IInv
    <3> QED
      BY <1>2, <3>1 DEF ConnInv
  <2>2. ASSUME NEW j \in Connections
        PROVE  (Active(j, r) => ~Live(j)) /\ r \notin ToSet(sent[j]) /\ (current[j] = r => Down(j))
    <3>1. WriteInv(j, r) /\ (Down(j) => ~Live(j))
      BY DownNotLive DEF IInv
    <3>2. j # None
      BY UseAssumption DEF Actors
    <3> QED
      BY <1>2, <1>3, <3>1, <3>2 DEF WriteInv
  <2> QED
    BY <2>1, <2>2
<1>20. \A q \in Requests : (Complete(q)' <=> Complete(q)) /\ \A j \in Connections : Active(j, q)' <=> Active(j, q)
  BY <1>2 DEF Complete, Active, bodyVars
<1>21. ASSUME NEW q \in Requests PROVE WriteInv(k, q)'
  <2>1. WriteInv(k, q)
    BY DEF IInv
  <2>2. UNCHANGED <<conn, timeout, unflushed, sent, wire, flushed, guard>>
    BY <1>2 DEF bodyVars
  <2>3. CASE q = r
    BY <1>6, <1>7, <1>9, <1>19, <1>20, <2>2, <2>3 DEF WriteInv
  <2>4. CASE q # r
    <3>1. q # None
      BY UseAssumption DEF Actors
    <3> QED
      BY <1>2, <1>6, <1>7, <1>9, <1>19, <1>20, <2>1, <2>2, <2>4, <3>1 DEF WriteInv
  <2> QED
    BY <2>3, <2>4
<1>22. ASSUME NEW j \in Connections \ {k} PROVE WriteInv(j, r)'
  <2>1. UNCHANGED <<conn, timeout, unflushed, sent, wire, flushed, guard>>
    BY <1>2 DEF bodyVars
  <2>2. (todo[j] = <<"socket">> => Live(j)) /\ (Down(j) => ~Live(j))
    BY DownNotLive
  <2> QED
    BY <1>6, <1>7, <1>9, <1>19, <1>20, <2>1, <2>2 DEF WriteInv
<1> QED
  <2>1. UNCHANGED <<sent, wire, conn, guard>>
    BY <1>2 DEF bodyVars
  <2> QED
    BY <1>2, <1>6, <1>7, <1>8, <1>10, <1>11, <1>12, <1>13, <1>14, <1>15, <1>16, <1>17, <1>18, <1>21, <1>22, <2>1,
       RequestStepKeeps

--------------------------------------------------------------------------------
(* Steps of a connection's task. *)

(* What a task is doing. *)
LEMMA TaskDoes ==
  ASSUME IInv, NEW k \in Connections
  PROVE  /\ Does(k, "write") => todo[k] = <<"write">>
         /\ Does(k, "socket") => todo[k] = <<"socket">>
         /\ Does(k, "timer") => todo[k] = <<"timer">>
         /\ Does(k, "flush") => todo[k] = <<"flush">>
         /\ Does(k, "abortTimedOut") => todo[k] = <<"abortTimedOut", "drop", "clear", "leave">>
         /\ Does(k, "abortWake") => todo[k] = <<"abortWake", "drop", "clear", "leave">>
         /\ Does(k, "drop") => todo[k] = <<"drop", "clear", "leave">>
         /\ Does(k, "clear") => todo[k] = <<"clear", "leave">>
         /\ Does(k, "leave") => todo[k] = <<"leave">>
<1>1. todo[k] \in Polling \cup Failing \cup Dropped
  BY DEF IInv, ConnInv
<1> QED
  BY <1>1 DEF Does, Polling, Failing, Dropped

(* A task in a poll is live, and one that has begun to fail is not; one past *)
(* the drop is closed.                                                       *)
LEMMA TaskLives ==
  ASSUME IInv, NEW k \in Connections
  PROVE  /\ todo[k] \in {<<"write">>, <<"socket">>, <<"timer">>, <<"flush">>} => Live(k) /\ ~conn[k].closed
         /\ todo[k] \in Failing => ~conn[k].closed
         /\ todo[k] \in {<<"clear", "leave">>, <<"leave">>} => conn[k].closed
<1>1. ConnInv(k)
  BY DEF IInv
<1>2. ASSUME NEW s, s \in {<<"write">>, <<"socket">>, <<"timer">>, <<"flush">>}
      PROVE  s \notin Failing /\ s \notin Dropped
  BY <1>2 DEF Failing, Dropped
<1>3. \A s \in Failing : s \notin Dropped
  BY DEF Failing, Dropped
<1>4. ASSUME NEW s, s \in {<<"clear", "leave">>, <<"leave">>}
      PROVE  s \notin Polling /\ s \notin Failing
  BY <1>4 DEF Failing, Polling
<1> QED
  BY <1>1, <1>2, <1>3, <1>4 DEF ConnInv, Live

(* A step of the task of k: what it does next, what the connection, its      *)
(* timeout, its lock and what was written become, and whom it aborts.        *)
TaskMove(k, steps, c, t, l, v, s) ==
  /\ todo' = [todo EXCEPT ![k] = steps] /\ conn' = [conn EXCEPT ![k] = c]
  /\ timeout' = [timeout EXCEPT ![k] = t] /\ lock' = [lock EXCEPT ![k] = l]
  /\ victim' = [victim EXCEPT ![k] = v] /\ sent' = [sent EXCEPT ![k] = s]
  /\ UNCHANGED <<traced, current, produced, at, assigned, guard, phase, cancelled, clean>>
  /\ woken' \subseteq Connections /\ unflushed' \subseteq Connections
  /\ \A j \in Connections \ {k} : (j \in woken' <=> j \in woken) /\ (j \in unflushed' <=> j \in unflushed)
  /\ response' \in [Requests -> Responses]
  /\ wire \subseteq wire' /\ wire' \subseteq Requests /\ flushed \subseteq flushed' /\ flushed' \subseteq Requests
  /\ use' \in [Requests -> Tokens \cup {None}] /\ \A q \in Requests : use'[q] \in {use[q], None}
  /\ c.uses = conn[k].uses /\ (conn[k].closed => c.closed) /\ (conn[k].aborted => c.aborted)
  /\ Does(k, "drop") => c.closed
  /\ (c.closed => steps \in Dropped) /\ (~c.closed => steps \in Polling \cup Failing)
  /\ steps \in {<<"write">>, <<"socket">>} => current[k] # None
  /\ \A j \in Connections \ {k}, q \in Requests : Live(j) /\ current[j] = q /\ q \in wire' => q \in wire

(* What such a step leaves alone. *)
TaskMoveDone(k, steps, c, t, l, v, s) ==
  /\ TypeOK' /\ Lasting /\ ConnInv(k)'
  /\ conn'[k] = c /\ timeout'[k] = t /\ lock'[k] = l /\ todo'[k] = steps /\ sent'[k] = s
  /\ \A q \in Requests : SameTask(q)
  /\ \A j \in Connections \ {k} : SameConn(j)
  /\ Live(k)' <=> ~c.closed /\ steps \notin Failing
  /\ \A q \in Requests : LastUser(k, q)' <=> LastUser(k, q)

(* It leaves that alone indeed. *)
LEMMA TaskMoveFacts ==
  ASSUME IInv, NEW k \in Connections, NEW steps, NEW c \in States, NEW t \in Timeouts,
         NEW l \in Actors \cup {None}, NEW v \in Requests \cup {None}, NEW s \in Seq(Requests),
         TaskMove(k, steps, c, t, l, v, s)
  PROVE  TaskMoveDone(k, steps, c, t, l, v, s)
<1>1. TypeOK
  BY DEF IInv
<1>2. UNCHANGED <<traced, current, produced, at, assigned, guard, phase, cancelled, clean>>
  BY DEF TaskMove
<1>3. /\ conn'[k] = c /\ timeout'[k] = t /\ lock'[k] = l /\ sent'[k] = s
      /\ \A j \in Connections \ {k} : /\ conn'[j] = conn[j] /\ timeout'[j] = timeout[j]
                                      /\ lock'[j] = lock[j] /\ sent'[j] = sent[j]
  BY <1>1 DEF TaskMove, TypeOK
<1>4. /\ todo'[k] = steps /\ \A j \in Connections \ {k} : todo'[j] = todo[j]
      /\ \A q \in Requests : todo'[q] = todo[q] /\ victim'[q] = victim[q]
  BY <1>1, UseAssumption DEF TaskMove, TypeOK, Actors
<1>5. steps \in Polling \cup Failing \cup Dropped
  BY DEF TaskMove, States
<1>6. TypeOK'
  <2>1. todo' \in [Actors -> Ending \cup Assigned \cup Polling \cup Failing \cup Dropped]
    BY <1>1, <1>5 DEF TypeOK, TaskMove
  <2>2. /\ conn' \in [Connections -> States] /\ timeout' \in [Connections -> Timeouts]
        /\ lock' \in [Connections -> Actors \cup {None}] /\ sent' \in [Connections -> Seq(Requests)]
    BY <1>1 DEF TypeOK, TaskMove
  <2>3. victim' \in [Actors -> Requests \cup {None}]
    BY <1>1 DEF TypeOK, TaskMove
  <2>4. /\ woken' \subseteq Connections /\ unflushed' \subseteq Connections /\ response' \in [Requests -> Responses]
        /\ wire' \subseteq Requests /\ flushed' \subseteq Requests /\ use' \in [Requests -> Tokens \cup {None}]
    BY DEF TaskMove
  <2> QED
    BY <1>1, <1>2, <2>1, <2>2, <2>3, <2>4 DEF TypeOK
<1>7. /\ c.uses = conn[k].uses /\ (conn[k].closed => c.closed) /\ (conn[k].aborted => c.aborted)
      /\ Does(k, "drop") => c.closed
      /\ (c.closed => steps \in Dropped) /\ (~c.closed => steps \in Polling \cup Failing)
      /\ steps \in {<<"write">>, <<"socket">>} => current[k] # None
  BY DEF TaskMove
<1>8. \A j \in Connections : Down(j) => Down(j)'
  BY <1>3, <1>4, <1>7 DEF Down, Does
<1>9. Lasting
  <2>1. \A j \in Connections : conn[j].uses \in Nat /\ conn'[j].uses = conn[j].uses
    BY <1>1, <1>3, <1>7 DEF TypeOK, States
  <2>2. \A j \in Connections : (conn[j].closed => conn'[j].closed) /\ (conn[j].aborted => conn'[j].aborted)
    BY <1>3, <1>7
  <2>3. wire \subseteq wire' /\ flushed \subseteq flushed'
    BY DEF TaskMove
  <2> QED
    BY <1>2, <1>8, <2>1, <2>2, <2>3 DEF Lasting
<1>10. \A q \in Requests : SameTask(q)
  <2>1. \A q \in Requests : use'[q] \in {use[q], None}
    BY DEF TaskMove
  <2> QED
    BY <1>2, <1>4, <2>1 DEF SameTask
<1>11. \A j \in Connections \ {k} : SameConn(j)
  <2>1. \A j \in Connections \ {k} : (j \in woken' <=> j \in woken) /\ (j \in unflushed' <=> j \in unflushed)
    BY DEF TaskMove
  <2> QED
    BY <1>2, <1>3, <1>4, <2>1 DEF SameConn
<1>12. Live(k)' <=> ~c.closed /\ steps \notin Failing
  BY <1>3, <1>4 DEF Live
<1>13. ConnInv(k)'
  BY <1>2, <1>3, <1>4, <1>5, <1>7 DEF ConnInv
<1>14. \A q \in Requests : LastUser(k, q)' <=> LastUser(k, q)
  BY <1>2, <1>3, <1>7 DEF LastUser, IsCurrentUse
<1> QED
  BY <1>3, <1>4, <1>6, <1>9, <1>10, <1>11, <1>12, <1>13, <1>14 DEF TaskMoveDone

(* Such a step keeps the invariant when it keeps what k may lose. *)
LEMMA TaskMoveKeeps ==
  ASSUME IInv, NEW k \in Connections, NEW steps, NEW c \in States, NEW t \in Timeouts,
         NEW l \in Actors \cup {None}, NEW v \in Requests \cup {None}, NEW s \in Seq(Requests),
         TaskMove(k, steps, c, t, l, v, s),
         c.idle => conn[k].idle /\ (c.aborted => conn[k].aborted) /\ (c.closed => steps # <<>>),
         s = sent[k] \/ NoWriteOverIncomplete', WakerInv(k)', \A q \in Requests : WriteInv(k, q)'
  PROVE  IInv'
<1>1. /\ TypeOK' /\ Lasting /\ ConnInv(k)' /\ conn'[k] = c /\ sent'[k] = s /\ todo'[k] = steps
      /\ \A q \in Requests : SameTask(q)
      /\ \A j \in Connections \ {k} : SameConn(j)
      /\ \A q \in Requests : LastUser(k, q)' <=> LastUser(k, q)
  <2>1. TaskMoveDone(k, steps, c, t, l, v, s)
    BY TaskMoveFacts
  <2> QED
    BY <2>1 DEF TaskMoveDone
<1>2. GuardsDiffer' /\ guard' = guard
  BY DEF TaskMove, IInv, GuardsDiffer
<1>3. NoWriteOverIncomplete'
  <2>1. CASE s = sent[k]
    <3>1. \A q : Complete(q) => Complete(q)'
      BY <1>1, CompleteLasts
    <3>2. \A j \in Connections : sent'[j] = sent[j]
      BY <1>1, <2>1 DEF SameConn
    <3> QED
      BY <3>1, <3>2 DEF IInv, NoWriteOverIncomplete
  <2> QED
    BY <2>1
<1>4. IdleInv(k)'
  BY <1>1, <1>2, IdleKeeps
<1> QED
  <2>1. PICK R, K : R = {} /\ K = {k}
    OBVIOUS
  <2>2. \A j \in Connections \ {k}, q \in Requests : Live(j) /\ current[j] = q /\ q \in wire' => q \in wire
    BY DEF TaskMove
  <2>3. /\ \A j \in Connections, q \in Requests : j \in K \/ q \in R => WriteInv(j, q)'
        /\ \A j \in K : ConnInv(j)' /\ WakerInv(j)' /\ IdleInv(j)'
        /\ \A j \in Connections \ K : SameConn(j)
        /\ \A q \in Requests \ R : SameTask(q)
        /\ \A j \in Connections \ K, q \in Requests \ R : Live(j) /\ current[j] = q /\ q \in wire' => q \in wire
        /\ R \in SUBSET Requests /\ K \in SUBSET Connections /\ \A q : q \notin R
    BY <1>1, <1>4, <2>1, <2>2
  <2> QED
    BY <1>1, <1>2, <1>3, <2>3, StepKeeps

(* A step by which the task begins to fail, or goes on failing: nothing is   *)
(* written any more.                                                         *)
LEMMA TaskFailsKeeps ==
  ASSUME IInv, NEW k \in Connections, NEW steps, NEW c \in States, NEW t \in Timeouts,
         NEW l \in Actors \cup {None}, NEW v \in Requests \cup {None},
         TaskMove(k, steps, c, t, l, v, sent[k]), c.closed \/ steps \in Failing,
         c.idle => conn[k].idle /\ (c.aborted => conn[k].aborted) /\ (c.closed => steps # <<>>)
  PROVE  IInv'
<1>0. PICK s \in Seq(Requests) : s = sent[k]
  BY DEF IInv, TypeOK
<1>1. /\ Lasting /\ sent'[k] = s /\ todo'[k] = steps /\ ~Live(k)'
      /\ \A q \in Requests : SameTask(q)
  <2>1. TaskMoveDone(k, steps, c, t, l, v, s)
    BY <1>0, TaskMoveFacts
  <2> QED
    BY <2>1 DEF TaskMoveDone
<1>2. WakerInv(k)'
  BY <1>1 DEF WakerInv
<1>3. steps # <<"socket">> /\ current' = current
  <2>1. steps \in Failing \/ steps \in Dropped
    BY DEF TaskMove
  <2>2. <<"socket">> \notin Failing /\ <<"socket">> \notin Dropped
    BY DEF Failing, Dropped
  <2> QED
    BY <2>1, <2>2 DEF TaskMove
<1>4. \A q \in Requests : WriteInv(k, q)'
  <2>1. Down(k) => Down(k)'
    BY <1>1 DEF Lasting
  <2> QED
    BY <1>0, <1>1, <1>3, <2>1 DEF IInv, WriteInv, SameTask
<1> QED
  BY <1>0, <1>2, <1>4, TaskMoveKeeps

(* A step of a live task that writes nothing and changes no timeout. *)
LEMMA TaskGoesOnKeeps ==
  ASSUME IInv, NEW k \in Connections, NEW steps, NEW c \in States,
         TaskMove(k, steps, c, timeout[k], lock[k], victim[k], sent[k]),
         steps # <<"socket">>, Live(k), c.idle = conn[k].idle, c.closed = conn[k].closed, c.aborted = conn[k].aborted,
         wire' = wire, k \in unflushed => k \in unflushed', WakerInv(k)'
  PROVE  IInv'
<1>0. PICK s \in Seq(Requests), t \in Timeouts, l \in Actors \cup {None}, v \in Requests \cup {None} :
        s = sent[k] /\ t = timeout[k] /\ l = lock[k] /\ v = victim[k]
  BY DEF IInv, TypeOK, Actors
<1>1. /\ Lasting /\ sent'[k] = s /\ timeout'[k] = t /\ todo'[k] = steps
      /\ \A q \in Requests : SameTask(q)
  <2>1. TaskMoveDone(k, steps, c, t, l, v, s)
    BY <1>0, TaskMoveFacts
  <2> QED
    BY <2>1 DEF TaskMoveDone
<1>2. current' = current
  BY DEF TaskMove
<1>3. \A q \in Requests : WriteInv(k, q)'
  BY <1>0, <1>1, <1>2, WriteKeeps DEF SameTask
<1>4. TaskMove(k, steps, c, t, l, v, s)
  BY <1>0
<1>5. ~c.closed
  BY DEF Live
<1> QED
  BY <1>0, <1>3, <1>4, <1>5, TaskMoveKeeps

(* A task fails: what is left to do is the drop. *)
LEMMA Dropping ==
  ASSUME NEW s, s = <<"drop", "clear", "leave">>
  PROVE  s \in Failing /\ s \notin {<<"write">>, <<"socket">>} /\ s # <<>>
BY DEF Failing

(* Fails, with the connection as it is or its waker set. *)
LEMMA FailsKeeps ==
  ASSUME IInv, NEW k \in Connections, Live(k), Fails(k), conn' = conn \/ PrepareIoPoll(k),
         woken' \in {woken, woken \ {k}},
         UNCHANGED <<timeout, lock, current, unflushed, sent, wire, flushed, response, requestVars>>
  PROVE  IInv'
<1>1. TypeOK
  BY DEF IInv
<1>2. PICK c \in States : /\ conn' = [conn EXCEPT ![k] = c]
                          /\ c.uses = conn[k].uses /\ c.closed = conn[k].closed /\ c.aborted = conn[k].aborted
                          /\ c.idle = conn[k].idle
  <2>1. conn[k] \in States
    BY <1>1 DEF TypeOK
  <2>2. CASE conn' = conn
    <3>1. conn' = [conn EXCEPT ![k] = conn[k]]
      BY <1>1, <2>2 DEF TypeOK
    <3> QED
      BY <2>1, <3>1
  <2>3. CASE PrepareIoPoll(k)
    <3>1. PICK c : c = [conn[k] EXCEPT !.waker = TRUE]
      OBVIOUS
    <3>2. /\ c \in States /\ c.uses = conn[k].uses /\ c.closed = conn[k].closed
          /\ c.aborted = conn[k].aborted /\ c.idle = conn[k].idle
      BY <2>1, <3>1 DEF States
    <3>3. conn' = [conn EXCEPT ![k] = c]
      BY <2>3, <3>1 DEF PrepareIoPoll
    <3> QED
      BY <3>2, <3>3
  <2> QED
    BY <2>2, <2>3
<1>3. PICK steps : steps = <<"drop", "clear", "leave">> /\ todo' = [todo EXCEPT ![k] = steps]
  BY DEF Fails
<1>4. PICK t \in Timeouts, l \in Actors \cup {None}, v \in Requests \cup {None} :
        t = timeout[k] /\ l = lock[k] /\ v = victim[k]
  BY <1>1 DEF TypeOK, Actors
<1>5. steps \in Failing /\ steps \notin {<<"write">>, <<"socket">>} /\ steps # <<>>
  BY <1>3, Dropping
<1>6. TaskMove(k, steps, c, t, l, v, sent[k])
  <2>1. /\ timeout' = [timeout EXCEPT ![k] = t] /\ lock' = [lock EXCEPT ![k] = l]
        /\ victim' = [victim EXCEPT ![k] = v] /\ sent' = [sent EXCEPT ![k] = sent[k]]
    BY <1>1, <1>4 DEF TypeOK, Actors, requestVars
  <2>2. /\ UNCHANGED <<traced, current, produced, at, assigned, guard, phase, cancelled, clean>>
        /\ use' = use /\ use' \in [Requests -> Tokens \cup {None}]
        /\ UNCHANGED <<response, wire, flushed, unflushed>> /\ response' \in [Requests -> Responses]
        /\ wire' \subseteq Requests /\ flushed' \subseteq Requests /\ unflushed' \subseteq Connections
    BY <1>1 DEF TypeOK, requestVars, storyVars
  <2>3. woken' \subseteq Connections /\ \A j \in Connections \ {k} : j \in woken' <=> j \in woken
    BY <1>1 DEF TypeOK
  <2>4. ~c.closed /\ ~Does(k, "drop")
    BY <1>2, DownNotLive DEF Live, Down
  <2> QED
    BY <1>2, <1>3, <1>5, <2>1, <2>2, <2>3, <2>4 DEF TaskMove
<1> QED
  BY <1>2, <1>5, <1>6, TaskFailsKeeps DEF Live

(* prepare_io_poll keeps the waker of a connection that is not aborted. *)
LEMMA PreparedConn ==
  ASSUME IInv, NEW k \in Connections, PrepareIoPoll(k)
  PROVE  \E c \in States :
           /\ conn' = [conn EXCEPT ![k] = c] /\ ~conn[k].aborted /\ conn'[k].waker /\ ~conn'[k].aborted
           /\ c.uses = conn[k].uses /\ c.closed = conn[k].closed /\ c.aborted = conn[k].aborted
           /\ c.idle = conn[k].idle
<1>1. conn \in [Connections -> States] /\ conn[k] \in States
  BY DEF IInv, TypeOK
<1>2. PICK c : c = [conn[k] EXCEPT !.waker = TRUE]
  OBVIOUS
<1>3. /\ c \in States /\ c.uses = conn[k].uses /\ c.closed = conn[k].closed
      /\ c.aborted = conn[k].aborted /\ c.idle = conn[k].idle /\ c.waker
  BY <1>1, <1>2 DEF States
<1>4. conn' = [conn EXCEPT ![k] = c] /\ ~conn[k].aborted
  BY <1>2 DEF PrepareIoPoll
<1>5. conn'[k] = c
  BY <1>1, <1>4
<1> QED
  BY <1>3, <1>4, <1>5

(* The poll of a connection that goes on. *)
LEMMA PollsKeeps ==
  ASSUME IInv, NEW k \in Connections, NEW steps \in Polling, steps # <<"socket">>,
         steps = <<"write">> => current[k] # None, Live(k), PrepareIoPoll(k) \/ (conn' = conn /\ woken' = woken),
         todo' = [todo EXCEPT ![k] = steps], response' \in [Requests -> Responses],
         woken' \in {woken, woken \ {k}},
         UNCHANGED <<timeout, lock, current, unflushed, sent, wire, flushed, requestVars>>
  PROVE  IInv'
<1>1. TypeOK
  BY DEF IInv
<1>2. PICK c \in States : /\ conn' = [conn EXCEPT ![k] = c]
                          /\ c.uses = conn[k].uses /\ c.closed = conn[k].closed /\ c.aborted = conn[k].aborted
                          /\ c.idle = conn[k].idle
  <2>1. CASE PrepareIoPoll(k)
    BY <2>1, PreparedConn
  <2>2. CASE conn' = conn
    BY <1>1, <2>2 DEF TypeOK
  <2> QED
    BY <2>1, <2>2
<1>3. ~c.closed /\ ~Does(k, "drop")
  BY <1>2, DownNotLive DEF Live, Down
<1>4. TaskMove(k, steps, c, timeout[k], lock[k], victim[k], sent[k])
  <2>1. /\ timeout' = [timeout EXCEPT ![k] = timeout[k]] /\ lock' = [lock EXCEPT ![k] = lock[k]]
        /\ victim' = [victim EXCEPT ![k] = victim[k]] /\ sent' = [sent EXCEPT ![k] = sent[k]]
    BY <1>1 DEF TypeOK, Actors, requestVars
  <2>2. /\ UNCHANGED <<traced, current, produced, at, assigned, guard, phase, cancelled, clean>>
        /\ use' = use /\ use' \in [Requests -> Tokens \cup {None}]
        /\ UNCHANGED <<wire, flushed, unflushed>>
        /\ wire' \subseteq Requests /\ flushed' \subseteq Requests /\ unflushed' \subseteq Connections
    BY <1>1 DEF TypeOK, requestVars, storyVars
  <2>3. woken' \subseteq Connections /\ \A j \in Connections \ {k} : j \in woken' <=> j \in woken
    BY <1>1 DEF TypeOK
  <2>4. steps \in {<<"write">>, <<"socket">>} => current[k] # None
    OBVIOUS
  <2> QED
    BY <1>2, <1>3, <2>1, <2>2, <2>3, <2>4 DEF TaskMove
<1>5. WakerInv(k)'
  <2>1. CASE PrepareIoPoll(k)
    <3>1. conn'[k].waker /\ ~conn'[k].aborted
      BY <2>1, PreparedConn
    <3> QED
      BY <3>1 DEF WakerInv
  <2>2. CASE conn' = conn /\ woken' = woken
    <3>1. WakerInv(k) /\ UNCHANGED <<assigned, lock>>
      BY DEF IInv, requestVars
    <3> QED
      BY <2>2, <3>1 DEF WakerInv
  <2> QED
    BY <2>1, <2>2
<1> QED
  BY <1>2, <1>4, <1>5, TaskGoesOnKeeps

(* hyper polls the connection. *)
LEMMA PollKeeps ==
  ASSUME IInv, NEW k \in Connections, Poll(k)
  PROVE  IInv'
<1>1. TypeOK /\ ConnInv(k)
  BY DEF IInv
<1>2. /\ todo[k] = <<>> /\ ~Gone(k) /\ woken' = woken \ {k}
      /\ UNCHANGED <<timeout, lock, current, unflushed, sent, wire, flushed, requestVars>>
  BY DEF Poll
<1>3. Live(k)
  <2>1. <<>> \notin Failing
    BY DEF Failing
  <2> QED
    BY <1>2, <2>1 DEF Live, Gone
<1>4. CASE Refused(k) /\ UNCHANGED response
  BY <1>2, <1>3, <1>4, FailsKeeps DEF Refused
<1>5. CASE PrepareIoPoll(k) /\ Fails(k) /\ UNCHANGED response
  BY <1>2, <1>3, <1>5, FailsKeeps
<1>6. CASE PrepareIoPoll(k) /\ PollGoesOn(k) /\ response' \in [Requests -> Responses]
  <2>1. PICK steps : /\ todo' = [todo EXCEPT ![k] = steps]
                     /\ steps = IF Writes(k) THEN <<"write">> ELSE IF k \in unflushed THEN <<"flush">> ELSE <<>>
    BY <1>6 DEF PollGoesOn
  <2>2. steps \in Polling /\ steps # <<"socket">> /\ (steps = <<"write">> => Writes(k))
    BY <2>1 DEF Polling
  <2>3. Writes(k) => current[k] # None
    BY DEF Writes
  <2> QED
    BY <1>2, <1>3, <1>6, <2>1, <2>2, <2>3, PollsKeeps
<1>7. ASSUME NEW r \in Requests, NEW x \in Responses, response' = [response EXCEPT ![r] = x]
      PROVE  response' \in [Requests -> Responses]
  BY <1>1, <1>7 DEF TypeOK
<1>8. current[k] # None => current[k] \in Requests
  BY <1>1 DEF TypeOK
<1>9. "head" \in Responses /\ "keep" \in Responses /\ "close" \in Responses
  BY DEF Responses
<1>10. UNCHANGED response => response' \in [Requests -> Responses]
  BY <1>1 DEF TypeOK
<1>11. \/ Refused(k) /\ UNCHANGED response
       \/ PrepareIoPoll(k) /\ Fails(k) /\ UNCHANGED response
       \/ PrepareIoPoll(k) /\ PollGoesOn(k) /\ response' \in [Requests -> Responses]
  BY <1>7, <1>8, <1>9, <1>10 DEF Poll
<1> QED
  BY <1>4, <1>5, <1>6, <1>11

(* A poll of the connection that is not refused: what its task does next and *)
(* what its timeout becomes.                                                 *)
Prepared(k, steps, t) ==
  /\ PrepareIoPoll(k) /\ todo' = [todo EXCEPT ![k] = steps] /\ timeout' = [timeout EXCEPT ![k] = t]
  /\ steps \in Polling /\ (steps \in {<<"write">>, <<"socket">>} => current[k] # None)
  /\ flushed \subseteq flushed' /\ flushed' \subseteq Requests /\ unflushed' \in {unflushed, unflushed \ {k}}
  /\ UNCHANGED <<lock, current, woken, response, sent, wire, requestVars>>

(* What it leaves alone. *)
LEMMA PreparedFacts ==
  ASSUME IInv, NEW k \in Connections, Live(k), NEW steps, NEW t \in Timeouts, Prepared(k, steps, t)
  PROVE  /\ Lasting /\ todo'[k] = steps /\ timeout'[k] = t /\ ~conn[k].aborted /\ ~conn'[k].aborted
         /\ UNCHANGED <<current, sent, wire, produced, assigned, guard>> /\ \A q \in Requests : todo'[q] = todo[q]
         /\ (\A q \in Requests : WriteInv(k, q)') => IInv'
<1>1. TypeOK
  BY DEF IInv
<1>2. PICK c \in States : /\ conn' = [conn EXCEPT ![k] = c] /\ ~conn[k].aborted /\ conn'[k].waker /\ ~conn'[k].aborted
                          /\ c.uses = conn[k].uses /\ c.closed = conn[k].closed /\ c.aborted = conn[k].aborted
                          /\ c.idle = conn[k].idle
  BY PreparedConn DEF Prepared
<1>3. PICK l \in Actors \cup {None}, v \in Requests \cup {None}, s \in Seq(Requests) :
        l = lock[k] /\ v = victim[k] /\ s = sent[k]
  BY <1>1 DEF TypeOK, Actors
<1>4. ~c.closed /\ ~Does(k, "drop")
  BY <1>2, DownNotLive DEF Live, Down
<1>5. TaskMove(k, steps, c, t, l, v, s)
  <2>1. /\ timeout' = [timeout EXCEPT ![k] = t] /\ lock' = [lock EXCEPT ![k] = l]
        /\ victim' = [victim EXCEPT ![k] = v] /\ sent' = [sent EXCEPT ![k] = s]
    BY <1>1, <1>3 DEF TypeOK, Actors, requestVars, Prepared
  <2>2. /\ UNCHANGED <<traced, current, produced, at, assigned, guard, phase, cancelled, clean>>
        /\ use' = use /\ use' \in [Requests -> Tokens \cup {None}]
        /\ UNCHANGED <<wire, woken, response>> /\ flushed \subseteq flushed' /\ response' \in [Requests -> Responses]
        /\ wire' \subseteq Requests /\ flushed' \subseteq Requests
    BY <1>1 DEF TypeOK, requestVars, storyVars, Prepared
  <2>3. /\ unflushed' \subseteq Connections /\ woken' \subseteq Connections
        /\ \A j \in Connections \ {k} : j \in unflushed' <=> j \in unflushed
    BY <1>1, <2>2 DEF TypeOK, Prepared
  <2>4. /\ todo' = [todo EXCEPT ![k] = steps] /\ steps \in Polling
        /\ steps \in {<<"write">>, <<"socket">>} => current[k] # None
    BY DEF Prepared
  <2> QED
    BY <1>2, <1>4, <2>1, <2>2, <2>3, <2>4 DEF TaskMove
<1>6. Lasting /\ todo'[k] = steps /\ timeout'[k] = t /\ \A q \in Requests : SameTask(q)
  <2>1. TaskMoveDone(k, steps, c, t, l, v, s)
    BY <1>5, TaskMoveFacts
  <2> QED
    BY <2>1 DEF TaskMoveDone
<1>7. UNCHANGED <<current, sent, wire, produced, assigned, guard>> /\ \A q \in Requests : todo'[q] = todo[q]
  BY <1>6 DEF Prepared, requestVars, SameTask
<1>8. WakerInv(k)'
  BY <1>2 DEF WakerInv
<1>9. ASSUME \A q \in Requests : WriteInv(k, q)' PROVE IInv'
  BY <1>2, <1>3, <1>4, <1>5, <1>8, <1>9, TaskMoveKeeps
<1> QED
  BY <1>2, <1>6, <1>7, <1>9

(* The state of a connection without a request that writes. *)
LEMMA NoTimeoutType == NoTimeout \in Timeouts /\ NoTimeout.active = None /\ NoTimeout.started = FALSE
BY DEF NoTimeout, Timeouts

(* poll_write up to the socket. *)
LEMMA WriteStepKeeps ==
  ASSUME IInv, NEW k \in Connections, Write(k)
  PROVE  IInv'
<1>1. TypeOK /\ ConnInv(k)
  BY DEF IInv
<1>2. todo[k] = <<"write">>
  BY TaskDoes DEF Write
<1>3. Live(k) /\ current[k] # None
  BY <1>1, <1>2, TaskLives DEF ConnInv
<1>4. UNCHANGED <<lock, current, woken, unflushed, response, sent, wire, flushed, requestVars>>
  BY DEF Write, hyperVars
<1>5. CASE Refused(k) /\ UNCHANGED timeout
  BY <1>3, <1>4, <1>5, FailsKeeps DEF Refused
<1>6. CASE PrepareIoPoll(k) /\ ~(Refused(k) /\ UNCHANGED timeout)
  <2>1. PICK t \in Timeouts :
          /\ timeout' = [timeout EXCEPT ![k] = t]
          /\ IF RequestReady(t) THEN todo' = [todo EXCEPT ![k] = <<"socket">>]
                                ELSE todo' = [todo EXCEPT ![k] = <<>>]
          /\ \/ t = NoTimeout /\ timeout[k].active # None /\ Complete(timeout[k].active.request)
             \/ t = timeout[k]
    <3>1. CASE timeout[k].active # None /\ Complete(timeout[k].active.request)
      <4>1. NoTimeout \in Timeouts
        BY NoTimeoutType
      <4> QED
        BY <1>6, <3>1, <4>1 DEF Write
    <3>2. CASE ~(timeout[k].active # None /\ Complete(timeout[k].active.request))
      <4>1. timeout[k] \in Timeouts
        BY <1>1 DEF TypeOK
      <4> QED
        BY <1>6, <3>2, <4>1 DEF Write
    <3> QED
      BY <3>1, <3>2
  <2>2. ASSUME NEW steps \in {<<>>, <<"socket">>}, todo' = [todo EXCEPT ![k] = steps]
        PROVE  Prepared(k, steps, t)
    <3>1. steps \in Polling
      BY <2>2 DEF Polling
    <3>2. flushed \subseteq flushed' /\ flushed' \subseteq Requests /\ unflushed' \in {unflushed, unflushed \ {k}}
      BY <1>1, <1>4 DEF TypeOK
    <3> QED
      BY <1>3, <1>4, <1>6, <2>1, <2>2, <3>1, <3>2 DEF Prepared
  <2>3. \A q \in Requests : Complete(q)' <=> Complete(q)
    BY <1>4 DEF Complete, requestVars
  <2>4. CASE RequestReady(t)
    <3>1. todo' = [todo EXCEPT ![k] = <<"socket">>] /\ t = timeout[k]
      BY <2>1, <2>4, NoTimeoutType DEF RequestReady
    <3>2. PICK steps : steps = <<"socket">>
      OBVIOUS
    <3>3. Prepared(k, steps, t)
      BY <2>2, <3>1, <3>2
    <3>4. /\ Lasting /\ todo'[k] = steps /\ timeout'[k] = t /\ ~conn[k].aborted /\ ~conn'[k].aborted
          /\ UNCHANGED <<current, sent, wire, produced, assigned, guard>> /\ \A q \in Requests : todo'[q] = todo[q]
          /\ (\A q \in Requests : WriteInv(k, q)') => IInv'
      BY <1>3, <3>3, PreparedFacts
    <3>5. PICK p \in Requests : Active(k, p) /\ p \notin flushed
      <4>1. t.active \in Writers
        BY <2>4 DEF RequestReady, Timeouts
      <4> QED
        BY <2>4, <3>1, <4>1 DEF RequestReady, Active, Writers
    <3>6. /\ current[k] = p /\ todo[p] \notin Unbegun
          /\ \A q \in Requests : Active(k, q) => q = p
      <4>1. WriteInv(k, p)
        BY DEF IInv
      <4> QED
        BY <1>3, <3>4, <3>5, <4>1 DEF WriteInv, Active
    <3>7. ASSUME NEW q \in Requests PROVE WriteInv(k, q)'
      <4>1. WriteInv(k, q)
        BY DEF IInv
      <4>2. (Active(k, q)' <=> Active(k, q)) /\ (Live(k)' => Live(k)) /\ (Down(k) => Down(k)')
        BY <1>3, <3>1, <3>4 DEF Active, Lasting
      <4>3. UNCHANGED <<unflushed, flushed>>
        BY <1>4
      <4>4. /\ q \in ToSet(sent[k]) => Complete(q) \/ Active(k, q)
            /\ Active(k, q) <=> q = p
        BY <1>3, <3>4, <3>5, <3>6, <4>1 DEF WriteInv
      <4>5. /\ q \in ToSet(sent[k]) => Complete(q)' \/ current[k] = q
            /\ current[k] = q => todo[q] \notin Unbegun /\ Active(k, q)'
        BY <2>3, <3>6, <4>2, <4>4
      <4>6. UNCHANGED <<current, sent, wire, assigned, guard>> /\ todo'[q] = todo[q] /\ timeout'[k] = timeout[k]
        BY <3>1, <3>4
      <4> QED
        BY <1>3, <2>3, <3>4, <4>1, <4>2, <4>3, <4>5, <4>6 DEF WriteInv
    <3> QED
      BY <3>4, <3>7
  <2>5. CASE ~RequestReady(t)
    <3>1. PICK steps : steps = <<>>
      OBVIOUS
    <3>2. Prepared(k, steps, t)
      BY <2>1, <2>2, <2>5, <3>1
    <3>3. /\ Lasting /\ todo'[k] = steps /\ timeout'[k] = t /\ ~conn[k].aborted /\ ~conn'[k].aborted
          /\ UNCHANGED <<current, sent, wire, produced, assigned, guard>> /\ \A q \in Requests : todo'[q] = todo[q]
          /\ (\A q \in Requests : WriteInv(k, q)') => IInv'
      BY <1>3, <3>2, PreparedFacts
    <3>4. todo'[k] # <<"socket">>
      BY <3>1, <3>3
    <3>5. ASSUME NEW q \in Requests PROVE WriteInv(k, q)'
      <4>1. CASE t = timeout[k]
        BY <1>3, <1>4, <3>3, <3>4, <4>1, WriteKeeps
      <4>2. CASE t = NoTimeout /\ timeout[k].active # None /\ Complete(timeout[k].active.request)
        <5>1. WriteInv(k, q) /\ (Down(k) => Down(k)')
          BY <3>3 DEF IInv, Lasting
        <5>2. ~Active(k, q)' /\ (Active(k, q) => Complete(q)')
          BY <2>3, <3>3, <4>2, NoTimeoutType DEF Active
        <5> QED
          BY <1>3, <2>3, <3>3, <3>4, <5>1, <5>2 DEF WriteInv
      <4> QED
        BY <2>1, <4>1, <4>2
    <3> QED
      BY <3>3, <3>5
  <2> QED
    BY <2>4, <2>5
<1> QED
  BY <1>5, <1>6 DEF Write

(* What appending adds to a sequence. *)
LEMMA AppendAdds ==
  ASSUME NEW S, NEW s \in Seq(S), NEW x \in S
  PROVE  /\ Append(s, x) \in Seq(S) /\ Len(Append(s, x)) = Len(s) + 1
         /\ \A i \in 1 .. Len(s) : Append(s, x)[i] = s[i] /\ s[i] \in ToSet(s)
         /\ \A y : y \in ToSet(Append(s, x)) <=> y \in ToSet(s) \/ y = x
<1>1. /\ Append(s, x) \in Seq(S) /\ Len(Append(s, x)) = Len(s) + 1 /\ Len(s) \in Nat
      /\ \A i \in 1 .. Len(s) : Append(s, x)[i] = s[i]
      /\ Append(s, x)[Len(s) + 1] = x /\ DOMAIN s = 1 .. Len(s)
      /\ DOMAIN Append(s, x) = 1 .. Len(s) + 1
  OBVIOUS
<1>2. \A i \in 1 .. Len(s) : s[i] \in ToSet(s)
  BY <1>1 DEF ToSet
<1>3. ASSUME NEW y PROVE y \in ToSet(Append(s, x)) <=> y \in ToSet(s) \/ y = x
  <2>1. ASSUME y \in ToSet(Append(s, x)) PROVE y \in ToSet(s) \/ y = x
    <3>1. PICK i \in 1 .. Len(s) + 1 : y = Append(s, x)[i]
      BY <1>1, <2>1 DEF ToSet
    <3>2. i \in 1 .. Len(s) \/ i = Len(s) + 1
      BY <1>1
    <3> QED
      BY <1>1, <1>2, <3>1, <3>2
  <2>2. ASSUME y \in ToSet(s) PROVE y \in ToSet(Append(s, x))
    <3>1. PICK i \in 1 .. Len(s) : y = s[i]
      BY <1>1, <2>2 DEF ToSet
    <3>2. i \in 1 .. Len(s) + 1 /\ y = Append(s, x)[i]
      BY <1>1, <3>1
    <3> QED
      BY <1>1, <3>2 DEF ToSet
  <2>3. x \in ToSet(Append(s, x))
    <3>1. Len(s) + 1 \in 1 .. Len(s) + 1
      BY <1>1
    <3> QED
      BY <1>1, <3>1 DEF ToSet
  <2> QED
    BY <2>1, <2>2, <2>3
<1> QED
  BY <1>1, <1>2, <1>3

(* The socket takes bytes of the current request, which follow only complete *)
(* uploads.                                                                  *)
LEMMA SocketTakesKeeps ==
  ASSUME IInv, NEW k \in Connections, todo[k] = <<"socket">>,
         timeout' = [timeout EXCEPT ![k] = Progress(@)],
         sent' = IF current[k] \in ToSet(sent[k]) THEN sent ELSE [sent EXCEPT ![k] = Append(@, current[k])],
         wire' \in {wire, wire \cup {current[k]}}, unflushed' = unflushed \cup {k},
         todo' = [todo EXCEPT ![k] = <<"flush">>],
         UNCHANGED <<conn, lock, current, woken, response, flushed, requestVars>>
  PROVE  IInv'
<1>1. TypeOK /\ ConnInv(k) /\ WakerInv(k)
  BY DEF IInv
<1>2. PICK r \in Requests : r = current[k]
  BY <1>1 DEF ConnInv, TypeOK
<1>3. Live(k) /\ ~Down(k) /\ ~conn[k].closed
  BY DownNotLive DEF Live
<1>4. assigned[r] = k /\ todo[r] \notin Unbegun /\ (~conn[k].aborted => Complete(r) \/ Active(k, r))
  <2>1. WriteInv(k, r)
    BY DEF IInv
  <2> QED
    BY <1>2, <1>3, <2>1 DEF WriteInv
<1>5. PICK s \in Seq(Requests) :
        /\ sent' = [sent EXCEPT ![k] = s]
        /\ \A q : q \in ToSet(s) <=> q \in ToSet(sent[k]) \/ q = r
        /\ \/ s = sent[k]
           \/ r \notin ToSet(sent[k]) /\ s = Append(sent[k], r)
  <2>1. sent[k] \in Seq(Requests)
    BY <1>1 DEF TypeOK
  <2>2. CASE r \in ToSet(sent[k])
    <3>1. sent' = [sent EXCEPT ![k] = sent[k]]
      BY <1>1, <1>2, <2>2 DEF TypeOK
    <3> QED
      BY <2>1, <2>2, <3>1
  <2>3. CASE r \notin ToSet(sent[k])
    <3>1. sent' = [sent EXCEPT ![k] = Append(sent[k], r)]
      BY <1>2, <2>3
    <3>2. Append(sent[k], r) \in Seq(Requests) /\ \A q : q \in ToSet(Append(sent[k], r)) <=> q \in ToSet(sent[k]) \/ q = r
      BY <2>1, AppendAdds
    <3> QED
      BY <2>3, <3>1, <3>2
  <2> QED
    BY <2>2, <2>3
<1>6. PICK t \in Timeouts : /\ timeout' = [timeout EXCEPT ![k] = t]
                            /\ t.active = timeout[k].active /\ t.started = (timeout[k].active # None)
  <2>1. timeout[k] \in Timeouts
    BY <1>1 DEF TypeOK
  <2>2. PICK t : t = Progress(timeout[k])
    OBVIOUS
  <2>3. t \in Timeouts /\ t.active = timeout[k].active /\ t.started = (timeout[k].active # None)
    BY <2>1, <2>2 DEF Progress, Timeouts
  <2> QED
    BY <2>2, <2>3
<1>7. PICK c \in States, l \in Actors \cup {None}, v \in Requests \cup {None}, steps \in Polling :
        c = conn[k] /\ l = lock[k] /\ v = victim[k] /\ steps = <<"flush">>
  BY <1>1 DEF TypeOK, Actors, Polling
<1>8. UNCHANGED <<traced, produced, at, assigned, guard, victim, phase, use, cancelled, clean>>
  BY DEF requestVars, storyVars
<1>9. TaskMove(k, steps, c, t, l, v, s)
  <2>1. /\ conn' = [conn EXCEPT ![k] = c] /\ lock' = [lock EXCEPT ![k] = l] /\ victim' = [victim EXCEPT ![k] = v]
        /\ todo' = [todo EXCEPT ![k] = steps]
    BY <1>1, <1>7, <1>8 DEF TypeOK, Actors
  <2>2. /\ use' \in [Requests -> Tokens \cup {None}] /\ response' \in [Requests -> Responses]
        /\ wire \subseteq wire' /\ wire' \subseteq Requests /\ flushed' \subseteq Requests
        /\ woken' \subseteq Connections /\ unflushed' \subseteq Connections
    BY <1>1, <1>2, <1>8 DEF TypeOK
  <2>3. ASSUME NEW j \in Connections \ {k}, NEW q \in Requests, Live(j), current[j] = q, q \in wire'
        PROVE  q \in wire
    <3>1. CASE q # r
      BY <1>2, <2>3, <3>1
    <3>2. CASE q = r
      <4>1. WriteInv(j, r) /\ ~Down(j)
        BY <2>3, DownNotLive DEF IInv
      <4> QED
        BY <1>4, <2>3, <3>2, <4>1 DEF WriteInv
    <3> QED
      BY <3>1, <3>2
  <2>4. ~Does(k, "drop") /\ steps \notin {<<"write">>, <<"socket">>}
    BY <1>3, <1>7 DEF Down
  <2>5. \A j \in Connections \ {k} : (j \in woken' <=> j \in woken) /\ (j \in unflushed' <=> j \in unflushed)
    OBVIOUS
  <2> QED
    BY <1>3, <1>5, <1>6, <1>7, <1>8, <2>1, <2>2, <2>3, <2>4, <2>5 DEF TaskMove
<1>10. /\ Lasting /\ todo'[k] = steps /\ timeout'[k] = t /\ sent'[k] = s /\ conn'[k] = c
       /\ \A q \in Requests : SameTask(q)
       /\ \A j \in Connections \ {k} : SameConn(j)
  <2>1. TaskMoveDone(k, steps, c, t, l, v, s)
    BY <1>9, TaskMoveFacts
  <2> QED
    BY <2>1 DEF TaskMoveDone
<1>11. \A q : Complete(q) => Complete(q)'
  BY <1>10, CompleteLasts
<1>12. s = sent[k] \/ NoWriteOverIncomplete'
  <2> SUFFICES ASSUME s # sent[k] PROVE NoWriteOverIncomplete'
    OBVIOUS
  <2>1. r \notin ToSet(sent[k]) /\ s = Append(sent[k], r)
    BY <1>5
  <2>2. /\ sent[k] \in Seq(Requests) /\ Len(sent[k]) \in Nat /\ Len(s) = Len(sent[k]) + 1
        /\ \A i \in 1 .. Len(sent[k]) : s[i] = sent[k][i] /\ sent[k][i] \in ToSet(sent[k])
    <3>1. sent[k] \in Seq(Requests)
      BY <1>1 DEF TypeOK
    <3>2. Len(sent[k]) \in Nat
      BY <3>1
    <3> QED
      BY <2>1, <3>1, <3>2, AppendAdds
  <2>3. \A i \in 1 .. Len(s) - 1 : Complete(s[i])
    <3> SUFFICES ASSUME NEW i \in 1 .. Len(s) - 1 PROVE Complete(s[i])
      OBVIOUS
    <3>1. i \in 1 .. Len(sent[k])
      BY <2>2
    <3>2. s[i] \in ToSet(sent[k]) /\ s[i] \in Requests
      <4>1. sent[k][i] \in Requests
        BY <2>2, <3>1
      <4> QED
        BY <2>2, <3>1, <4>1
    <3>3. WriteInv(k, s[i])
      BY <3>2 DEF IInv
    <3> QED
      BY <1>2, <2>1, <3>2, <3>3 DEF WriteInv
  <2>4. \A j \in Connections \ {k} : sent'[j] = sent[j]
    BY <1>10 DEF SameConn
  <2>5. ASSUME NEW j \in Connections, NEW i \in 1 .. Len(sent'[j]) - 1
        PROVE  Complete(sent[j][i])'
    <3>1. CASE j = k
      <4>1. Complete(s[i])
        BY <1>10, <2>3, <2>5, <3>1
      <4>2. sent'[j][i] = s[i]
        BY <1>10, <3>1
      <4> QED
        BY <1>11, <4>1, <4>2 DEF Complete
    <3>2. CASE j # k
      <4>1. Complete(sent[j][i]) /\ sent'[j][i] = sent[j][i]
        BY <2>4, <2>5, <3>2 DEF IInv, NoWriteOverIncomplete
      <4> QED
        BY <1>11, <4>1 DEF Complete
    <3> QED
      BY <3>1, <3>2
  <2> QED
    BY <2>5 DEF NoWriteOverIncomplete
<1>13. WakerInv(k)'
  <2>1. Live(k)
    BY <1>3
  <2> QED
    BY <1>1, <1>8, <2>1 DEF WakerInv
<1>14. ASSUME NEW q \in Requests PROVE WriteInv(k, q)'
  <2>1. WriteInv(k, q) /\ (Down(k) => Down(k)') /\ (Complete(q) => Complete(q)')
    BY <1>10, <1>11 DEF IInv, Lasting
  <2>2. (Active(k, q)' <=> Active(k, q)) /\ (Active(k, q) => timeout'[k].started)
    BY <1>6, <1>10 DEF Active
  <2>3. todo'[q] = todo[q] /\ todo'[k] # <<"socket">> /\ k \in unflushed'
    BY <1>7, <1>10 DEF SameTask
  <2>4. q \in ToSet(sent'[k]) <=> q \in ToSet(sent[k]) \/ q = r
    BY <1>5, <1>10
  <2>5. Live(k)' => Live(k)
    BY <1>3
  <2>6. timeout'[k].active = timeout[k].active /\ UNCHANGED <<conn, current, assigned, guard, flushed>>
    BY <1>6, <1>8, <1>10
  <2> QED
    BY <1>3, <1>4, <2>1, <2>2, <2>3, <2>4, <2>5, <2>6 DEF WriteInv
<1>15. c.idle => conn[k].idle /\ (c.aborted => conn[k].aborted) /\ (c.closed => steps # <<>>)
  BY <1>3, <1>7
<1> QED
  BY <1>9, <1>12, <1>13, <1>14, <1>15, TaskMoveKeeps

(* The socket's poll_write. *)
LEMMA SocketKeeps ==
  ASSUME IInv, NEW k \in Connections, Socket(k)
  PROVE  IInv'
<1>1. todo[k] = <<"socket">> /\ TypeOK
  BY TaskDoes DEF Socket, IInv
<1>2. UNCHANGED <<conn, lock, current, woken, response, flushed, requestVars>>
  BY DEF Socket
<1>3. Live(k)
  BY <1>1, TaskLives
<1>4. CASE /\ timeout' = [timeout EXCEPT ![k] = Progress(@)]
           /\ sent' = IF current[k] \in ToSet(sent[k]) THEN sent ELSE [sent EXCEPT ![k] = Append(@, current[k])]
           /\ wire' \in {wire, wire \cup {current[k]}}
           /\ unflushed' = unflushed \cup {k}
           /\ todo' = [todo EXCEPT ![k] = <<"flush">>]
  BY <1>1, <1>2, <1>4, SocketTakesKeeps
<1>5. CASE todo' = [todo EXCEPT ![k] = <<"timer">>] /\ UNCHANGED <<timeout, sent, wire, unflushed>>
  <2>1. PICK steps \in Polling : steps = <<"timer">>
    BY DEF Polling
  <2>2. steps # <<"socket">> /\ steps # <<"write">> /\ response' \in [Requests -> Responses]
    BY <1>1, <1>2, <2>1 DEF TypeOK
  <2> QED
    BY <1>2, <1>3, <1>5, <2>1, <2>2, PollsKeeps
<1>6. CASE Fails(k) /\ UNCHANGED <<timeout, sent, wire, unflushed>>
  BY <1>2, <1>3, <1>6, FailsKeeps
<1> QED
  BY <1>4, <1>5, <1>6 DEF Socket

(* poll_pending: the write timeout runs, or has run out. *)
LEMMA TimerKeeps ==
  ASSUME IInv, NEW k \in Connections, Timer(k)
  PROVE  IInv'
<1>1. todo[k] = <<"timer">> /\ TypeOK
  BY TaskDoes DEF Timer, IInv
<1>2. UNCHANGED <<traced, conn, lock, hyperVars, bodyVars, at, assigned, guard, storyVars>>
  BY DEF Timer
<1>3. Live(k) /\ ~conn[k].closed /\ ~Does(k, "drop")
  BY <1>1, TaskLives DEF Does
<1>4. CASE todo' = [todo EXCEPT ![k] = <<>>] /\ UNCHANGED <<timeout, victim>>
  <2>1. PICK steps \in Polling : steps = <<>>
    BY DEF Polling
  <2>2. steps # <<"socket">> /\ steps # <<"write">> /\ response' \in [Requests -> Responses]
    BY <1>1, <1>2, <2>1 DEF TypeOK, hyperVars
  <2>3. UNCHANGED <<timeout, lock, current, unflushed, sent, wire, flushed, requestVars>> /\ woken' = woken /\ conn' = conn
    BY <1>2, <1>4 DEF hyperVars, bodyVars, requestVars
  <2> QED
    BY <1>2, <1>3, <1>4, <2>1, <2>2, <2>3, PollsKeeps
<1>5. CASE /\ timeout[k].active # None
           /\ victim' = [victim EXCEPT ![k] = timeout[k].active.request]
           /\ timeout' = [timeout EXCEPT ![k] = NoTimeout]
           /\ todo' = [todo EXCEPT ![k] = <<"abortTimedOut", "drop", "clear", "leave">>]
  <2>1. PICK v \in Requests \cup {None} : v = timeout[k].active.request
    <3>1. timeout[k].active \in Writers
      BY <1>1, <1>5 DEF TypeOK, Timeouts
    <3> QED
      BY <3>1 DEF Writers
  <2>2. PICK c \in States, t \in Timeouts, l \in Actors \cup {None} : c = conn[k] /\ t = NoTimeout /\ l = lock[k]
    BY <1>1, NoTimeoutType DEF TypeOK
  <2>3. PICK steps \in Failing : steps = <<"abortTimedOut", "drop", "clear", "leave">>
    BY DEF Failing
  <2>4. TaskMove(k, steps, c, t, l, v, sent[k])
    <3>1. /\ timeout' = [timeout EXCEPT ![k] = t] /\ lock' = [lock EXCEPT ![k] = l] /\ conn' = [conn EXCEPT ![k] = c]
          /\ victim' = [victim EXCEPT ![k] = v] /\ sent' = [sent EXCEPT ![k] = sent[k]]
          /\ todo' = [todo EXCEPT ![k] = steps]
      BY <1>1, <1>2, <1>5, <2>1, <2>2, <2>3 DEF TypeOK, hyperVars
    <3>2. /\ UNCHANGED <<traced, current, produced, at, assigned, guard, phase, cancelled, clean>>
          /\ use' = use /\ use' \in [Requests -> Tokens \cup {None}]
          /\ UNCHANGED <<response, wire, flushed, unflushed, woken>> /\ response' \in [Requests -> Responses]
          /\ wire' \subseteq Requests /\ flushed' \subseteq Requests /\ unflushed' \subseteq Connections
          /\ woken' \subseteq Connections
      BY <1>1, <1>2 DEF TypeOK, hyperVars, bodyVars, storyVars
    <3>3. steps \notin {<<"write">>, <<"socket">>}
      BY <2>3
    <3> QED
      BY <1>3, <2>2, <2>3, <3>1, <3>2, <3>3 DEF TaskMove
  <2> QED
    BY <1>3, <2>2, <2>3, <2>4, TaskFailsKeeps
<1> QED
  BY <1>4, <1>5 DEF Timer

(* poll_flush after the socket has flushed: the active request's body, when  *)
(* it has left, is flushed.                                                  *)
LEMMA FlushedKeeps ==
  ASSUME IInv, NEW k \in Connections, Live(k), PrepareIoPoll(k), TransportFlushed(k),
         unflushed' = unflushed \ {k}, todo' = [todo EXCEPT ![k] = <<>>],
         UNCHANGED <<lock, current, woken, response, sent, wire, requestVars>>
  PROVE  IInv'
<1>1. TypeOK
  BY DEF IInv
<1>2. PICK t \in Timeouts :
        /\ timeout' = [timeout EXCEPT ![k] = t] /\ flushed' = FlushedBy(timeout[k])
        /\ t = timeout[k] \/ /\ t = NoTimeout /\ timeout[k].active # None /\ timeout[k].started
                             /\ timeout[k].active.request \in wire /\ timeout[k].active.request \in produced
  <2>1. timeout[k] \in Timeouts /\ NoTimeout \in Timeouts
    BY <1>1, NoTimeoutType DEF TypeOK
  <2>2. CASE timeout[k].active = None
    <3>1. timeout' = timeout /\ flushed' = flushed
      BY <2>2 DEF TransportFlushed
    <3>2. timeout' = [timeout EXCEPT ![k] = timeout[k]]
      BY <1>1, <3>1 DEF TypeOK
    <3> QED
      BY <2>1, <2>2, <3>1, <3>2 DEF FlushedBy
  <2>3. CASE timeout[k].active # None
    BY <2>1, <2>3 DEF TransportFlushed
  <2> QED
    BY <2>2, <2>3
<1>3. /\ flushed \subseteq flushed' /\ flushed' \subseteq Requests
      /\ \A q \in Requests : Active(k, q) /\ timeout[k].started /\ q \in wire => q \in flushed'
  <2>1. timeout[k].active # None => timeout[k].active.request \in Requests
    BY <1>1 DEF TypeOK, Timeouts, Writers
  <2> QED
    BY <1>1, <1>2, <2>1 DEF FlushedBy, Active, TypeOK
<1>4. PICK steps \in Polling : steps = <<>>
  BY DEF Polling
<1>5. Prepared(k, steps, t)
  BY <1>2, <1>3, <1>4 DEF Prepared
<1>6. /\ Lasting /\ todo'[k] = steps /\ timeout'[k] = t /\ ~conn[k].aborted /\ ~conn'[k].aborted
      /\ UNCHANGED <<current, sent, wire, produced, assigned, guard>> /\ \A q \in Requests : todo'[q] = todo[q]
      /\ (\A q \in Requests : WriteInv(k, q)') => IInv'
  BY <1>5, PreparedFacts
<1>7. ASSUME NEW q \in Requests PROVE WriteInv(k, q)'
  <2>1. WriteInv(k, q) /\ (Down(k) => Down(k)') /\ (Complete(q) => Complete(q)')
    BY <1>6, CompleteLasts DEF IInv, Lasting
  <2>2. todo'[k] # <<"socket">> /\ todo'[q] = todo[q]
    BY <1>4, <1>6
  <2>3. Active(k, q)' => Active(k, q) /\ timeout'[k] = timeout[k]
    BY <1>2, <1>6, NoTimeoutType DEF Active
  <2>4. Active(k, q) => Active(k, q)' \/ Complete(q)'
    <3>1. CASE t = timeout[k]
      BY <1>6, <3>1 DEF Active
    <3>2. CASE t # timeout[k]
      BY <1>2, <1>3, <1>6, <3>2 DEF Active, Complete
    <3> QED
      BY <3>1, <3>2
  <2>5. /\ Active(k, q) /\ current[k] = q /\ q \in ToSet(sent[k]) /\ q \in wire => q \in flushed'
        /\ q \in flushed => q \in flushed'
    BY <1>3, <2>1 DEF WriteInv
  <2> QED
    BY <1>6, <2>1, <2>2, <2>3, <2>4, <2>5 DEF WriteInv
<1> QED
  BY <1>6, <1>7

(* poll_flush. *)
LEMMA FlushKeeps ==
  ASSUME IInv, NEW k \in Connections, Flush(k)
  PROVE  IInv'
<1>1. todo[k] = <<"flush">> /\ TypeOK
  BY TaskDoes DEF Flush, IInv
<1>2. UNCHANGED <<lock, current, woken, response, sent, wire, requestVars>>
  BY DEF Flush
<1>3. Live(k)
  BY <1>1, TaskLives
<1>4. CASE Refused(k) /\ UNCHANGED <<timeout, flushed, unflushed>>
  BY <1>2, <1>3, <1>4, FailsKeeps DEF Refused
<1>5. CASE PrepareIoPoll(k) /\ TransportFlushed(k) /\ unflushed' = unflushed \ {k} /\ todo' = [todo EXCEPT ![k] = <<>>]
  BY <1>2, <1>3, <1>5, FlushedKeeps
<1>6. CASE PrepareIoPoll(k) /\ todo' = [todo EXCEPT ![k] = <<"timer">>] /\ UNCHANGED <<timeout, flushed, unflushed>>
  <2>1. PICK steps \in Polling : steps = <<"timer">>
    BY DEF Polling
  <2>2. steps # <<"socket">> /\ steps # <<"write">> /\ response' \in [Requests -> Responses]
    BY <1>1, <1>2, <2>1 DEF TypeOK
  <2> QED
    BY <1>2, <1>3, <1>6, <2>1, <2>2, PollsKeeps
<1>7. CASE PrepareIoPoll(k) /\ Fails(k) /\ UNCHANGED <<timeout, flushed, unflushed>>
  BY <1>2, <1>3, <1>7, FailsKeeps
<1> QED
  BY <1>4, <1>5, <1>6, <1>7 DEF Flush

(* A connection that fails is closed in three parts. *)
LEMMA CloseKeeps ==
  ASSUME IInv, NEW k \in Connections, Drop(k) \/ Clear(k) \/ LeaveIdle(k)
  PROVE  IInv'
<1>1. TypeOK /\ conn[k] \in States
  BY DEF IInv, TypeOK
<1>2. UNCHANGED <<lock, current, response, sent, wire, flushed, requestVars>>
  BY DEF Drop, Clear, LeaveIdle, hyperVars
<1>3. /\ woken' \subseteq Connections /\ unflushed' \subseteq Connections
      /\ \A j \in Connections \ {k} : (j \in woken' <=> j \in woken) /\ (j \in unflushed' <=> j \in unflushed)
  BY <1>1 DEF TypeOK, Drop, Clear, LeaveIdle, hyperVars
<1>4. PICK steps : /\ todo' = [todo EXCEPT ![k] = steps] /\ steps \in Dropped
                   /\ steps = <<>> => LeaveIdle(k)
                   /\ Drop(k) \/ conn[k].closed
  <2>1. todo' = [todo EXCEPT ![k] = <<>> \o Tail(todo[k])]
    BY DEF Drop, Clear, LeaveIdle, Done, Then
  <2>2. CASE Drop(k)
    <3>1. todo[k] = <<"drop", "clear", "leave">>
      BY <2>2, TaskDoes DEF Drop
    <3>2. <<>> \o Tail(todo[k]) = <<"clear", "leave">>
      BY <3>1
    <3>3. <<"clear", "leave">> \in Dropped /\ <<"clear", "leave">> # <<>>
      BY DEF Dropped
    <3> QED
      BY <2>1, <2>2, <3>2, <3>3
  <2>3. CASE Clear(k)
    <3>1. todo[k] = <<"clear", "leave">>
      BY <2>3, TaskDoes DEF Clear
    <3>2. <<>> \o Tail(todo[k]) = <<"leave">> /\ conn[k].closed
      BY <3>1, TaskLives
    <3>3. <<"leave">> \in Dropped /\ <<"leave">> # <<>>
      BY DEF Dropped
    <3> QED
      BY <2>1, <2>3, <3>2, <3>3
  <2>4. CASE LeaveIdle(k)
    <3>1. todo[k] = <<"leave">>
      BY <2>4, TaskDoes DEF LeaveIdle
    <3>2. <<>> \o Tail(todo[k]) = <<>> /\ conn[k].closed
      BY <3>1, TaskLives
    <3>3. <<>> \in Dropped
      BY DEF Dropped
    <3> QED
      BY <2>1, <2>4, <3>2, <3>3
  <2> QED
    BY <2>2, <2>3, <2>4
<1>5. PICK c \in States : /\ conn' = [conn EXCEPT ![k] = c] /\ c.uses = conn[k].uses /\ c.closed
                          /\ c.aborted = conn[k].aborted
                          /\ c.idle => conn[k].idle /\ ~LeaveIdle(k)
  <2>1. CASE Drop(k)
    <3>1. PICK c : c = [conn[k] EXCEPT !.closed = TRUE]
      OBVIOUS
    <3>2. c \in States /\ c.uses = conn[k].uses /\ c.closed /\ c.aborted = conn[k].aborted /\ c.idle = conn[k].idle
      BY <1>1, <3>1 DEF States
    <3>3. conn' = [conn EXCEPT ![k] = c]
      BY <2>1, <3>1 DEF Drop
    <3>4. ~LeaveIdle(k)
      <4>1. todo[k] = <<"drop", "clear", "leave">> /\ (LeaveIdle(k) => todo[k] = <<"leave">>)
        BY <2>1, TaskDoes DEF Drop, LeaveIdle
      <4> QED
        BY <4>1
    <3> QED
      BY <3>2, <3>3, <3>4
  <2>2. CASE Clear(k)
    <3>1. PICK c : c = [conn[k] EXCEPT !.waker = FALSE]
      OBVIOUS
    <3>2. todo[k] = <<"clear", "leave">>
      BY <2>2, TaskDoes DEF Clear
    <3>3. conn[k].closed
      BY <3>2, TaskLives
    <3>4. c \in States /\ c.uses = conn[k].uses /\ c.closed /\ c.aborted = conn[k].aborted /\ c.idle = conn[k].idle
      BY <1>1, <3>1, <3>3 DEF States
    <3>5. conn' = [conn EXCEPT ![k] = c]
      BY <2>2, <3>1 DEF Clear
    <3>6. ~LeaveIdle(k)
      <4>1. LeaveIdle(k) => todo[k] = <<"leave">>
        BY TaskDoes DEF LeaveIdle
      <4> QED
        BY <3>2, <4>1
    <3> QED
      BY <3>4, <3>5, <3>6
  <2>3. CASE LeaveIdle(k)
    <3>1. PICK c : c = [conn[k] EXCEPT !.idle = FALSE]
      OBVIOUS
    <3>2. todo[k] = <<"leave">>
      BY <2>3, TaskDoes DEF LeaveIdle
    <3>3. conn[k].closed
      BY <3>2, TaskLives
    <3>4. c \in States /\ c.uses = conn[k].uses /\ c.closed /\ c.aborted = conn[k].aborted /\ c.idle = FALSE
      BY <1>1, <3>1, <3>3 DEF States
    <3>5. conn' = [conn EXCEPT ![k] = c]
      BY <2>3, <3>1 DEF LeaveIdle
    <3> QED
      BY <3>4, <3>5
  <2> QED
    BY <2>1, <2>2, <2>3
<1>6. PICK t \in Timeouts : timeout' = [timeout EXCEPT ![k] = t]
  <2>1. timeout[k] \in Timeouts /\ NoTimeout \in Timeouts
    BY <1>1, NoTimeoutType DEF TypeOK
  <2>2. CASE Clear(k)
    BY <2>1, <2>2 DEF Clear
  <2>3. CASE ~Clear(k)
    <3>1. timeout' = timeout
      BY <2>3 DEF Drop, LeaveIdle
    <3>2. timeout' = [timeout EXCEPT ![k] = timeout[k]]
      BY <1>1, <3>1 DEF TypeOK
    <3> QED
      BY <2>1, <3>2
  <2> QED
    BY <2>2, <2>3
<1>7. PICK l \in Actors \cup {None}, v \in Requests \cup {None} : l = lock[k] /\ v = victim[k]
  BY <1>1 DEF TypeOK, Actors
<1>8. TaskMove(k, steps, c, t, l, v, sent[k])
  <2>1. /\ lock' = [lock EXCEPT ![k] = l] /\ victim' = [victim EXCEPT ![k] = v] /\ sent' = [sent EXCEPT ![k] = sent[k]]
    BY <1>1, <1>2, <1>7 DEF TypeOK, Actors, requestVars
  <2>2. /\ UNCHANGED <<traced, current, produced, at, assigned, guard, phase, cancelled, clean>>
        /\ use' = use /\ use' \in [Requests -> Tokens \cup {None}]
        /\ UNCHANGED <<response, wire, flushed>> /\ response' \in [Requests -> Responses]
        /\ wire' \subseteq Requests /\ flushed' \subseteq Requests
    BY <1>1, <1>2 DEF TypeOK, requestVars, storyVars
  <2>3. steps \notin {<<"write">>, <<"socket">>}
    <3>1. <<"write">> \notin Dropped /\ <<"socket">> \notin Dropped
      BY DEF Dropped
    <3> QED
      BY <1>4, <3>1
  <2> QED
    BY <1>3, <1>4, <1>5, <1>6, <2>1, <2>2, <2>3 DEF TaskMove
<1> QED
  BY <1>4, <1>5, <1>8, TaskFailsKeeps

(* The task aborts its connection for a write that timed out, and wakes      *)
(* itself.                                                                   *)
LEMMA TaskAbortKeeps ==
  ASSUME IInv, NEW k \in Connections, AbortTimedOut(k) \/ AbortWake(k, k)
  PROVE  IInv'
<1>1. TypeOK /\ conn[k] \in States
  BY DEF IInv, TypeOK
<1>2. UNCHANGED <<traced, timeout, current, unflushed, response, sent, bodyVars, at, assigned,
                  guard, phase, cancelled, clean>>
  BY DEF AbortTimedOut, AbortLocked, AbortWake, outsideAbort
<1>3. PICK steps \in Failing : todo' = [todo EXCEPT ![k] = steps]
  <2>1. CASE AbortTimedOut(k)
    <3>1. todo[k] = <<"abortTimedOut", "drop", "clear", "leave">>
      BY <2>1, TaskDoes DEF AbortTimedOut
    <3>2. <<>> \o Tail(todo[k]) = <<"drop", "clear", "leave">> /\ Tail(todo[k]) = <<"drop", "clear", "leave">>
      BY <3>1
    <3>3. <<"abortWake">> \o Tail(todo[k]) = <<"abortWake", "drop", "clear", "leave">>
      BY <3>2, Concat13
    <3>4. \/ todo' = [todo EXCEPT ![k] = <<>> \o Tail(todo[k])]
          \/ todo' = [todo EXCEPT ![k] = <<"abortWake">> \o Tail(todo[k])]
      BY <2>1 DEF AbortTimedOut, AbortLocked, Done, Then
    <3> QED
      BY <3>2, <3>3, <3>4 DEF Failing
  <2>2. CASE AbortWake(k, k)
    <3>1. todo[k] = <<"abortWake", "drop", "clear", "leave">>
      BY <2>2, TaskDoes DEF AbortWake
    <3>2. <<>> \o Tail(todo[k]) = <<"drop", "clear", "leave">>
      BY <3>1
    <3>3. todo' = [todo EXCEPT ![k] = <<>> \o Tail(todo[k])]
      BY <2>2 DEF AbortWake, Done, Then
    <3> QED
      BY <3>2, <3>3 DEF Failing
  <2> QED
    BY <2>1, <2>2
<1>4. ~conn[k].closed /\ ~Does(k, "drop")
  <2>1. todo[k] = <<"abortTimedOut", "drop", "clear", "leave">> \/ todo[k] = <<"abortWake", "drop", "clear", "leave">>
    BY TaskDoes DEF AbortTimedOut, AbortWake
  <2>2. todo[k] \in Failing
    BY <2>1 DEF Failing
  <2>3. ~Does(k, "drop")
    BY <2>1 DEF Does
  <2> QED
    BY <2>2, <2>3, TaskLives
<1>5. PICK c \in States : /\ conn' = [conn EXCEPT ![k] = c] /\ c.uses = conn[k].uses /\ c.closed = conn[k].closed
                          /\ conn[k].aborted => c.aborted
                          /\ c.idle => conn[k].idle /\ c.aborted = conn[k].aborted
  <2>1. CASE conn' = conn
    <3>1. conn' = [conn EXCEPT ![k] = conn[k]]
      BY <1>1, <2>1 DEF TypeOK
    <3> QED
      BY <1>1, <3>1
  <2>2. CASE conn' = [conn EXCEPT ![k].aborted = TRUE, ![k].idle = FALSE]
    <3>1. PICK c : c = [conn[k] EXCEPT !.aborted = TRUE, !.idle = FALSE]
      OBVIOUS
    <3>2. c \in States /\ c.uses = conn[k].uses /\ c.closed = conn[k].closed /\ c.aborted /\ ~c.idle
      BY <1>1, <3>1 DEF States
    <3>3. conn' = [conn EXCEPT ![k] = c]
      BY <1>1, <2>2, <3>1 DEF TypeOK
    <3> QED
      BY <3>2, <3>3
  <2>3. CASE conn' = [conn EXCEPT ![k].waker = FALSE]
    <3>1. PICK c : c = [conn[k] EXCEPT !.waker = FALSE]
      OBVIOUS
    <3>2. c \in States /\ c.uses = conn[k].uses /\ c.closed = conn[k].closed /\ c.aborted = conn[k].aborted /\ c.idle = conn[k].idle
      BY <1>1, <3>1 DEF States
    <3>3. conn' = [conn EXCEPT ![k] = c]
      BY <2>3, <3>1
    <3> QED
      BY <3>2, <3>3
  <2> QED
    BY <2>1, <2>2, <2>3 DEF AbortTimedOut, AbortLocked, AbortWake
<1>6. use' \in [Requests -> Tokens \cup {None}] /\ \A q \in Requests : use'[q] \in {use[q], None}
  <2>1. CASE \E v, token : AbortStory(v, token)
    BY <2>1, AbortStoryFacts
  <2>2. CASE use' = use
    BY <1>1, <2>2 DEF TypeOK
  <2> QED
    BY <2>1, <2>2 DEF AbortTimedOut, AbortLocked, AbortWake
<1>7. PICK l \in Actors \cup {None}, v \in Requests \cup {None} :
        lock' = [lock EXCEPT ![k] = l] /\ victim' = [victim EXCEPT ![k] = v]
  <2>1. CASE UNCHANGED <<lock, victim>>
    <3>1. lock' = [lock EXCEPT ![k] = lock[k]] /\ victim' = [victim EXCEPT ![k] = victim[k]]
      BY <1>1, <2>1 DEF TypeOK, Actors
    <3>2. lock[k] \in Actors \cup {None} /\ victim[k] \in Requests \cup {None}
      BY <1>1 DEF TypeOK, Actors
    <3> QED
      BY <3>1, <3>2
  <2>2. CASE lock' = [lock EXCEPT ![k] = k] /\ victim' = [victim EXCEPT ![k] = victim[k]]
    <3>1. k \in Actors \cup {None} /\ victim[k] \in Requests \cup {None}
      BY <1>1 DEF TypeOK, Actors
    <3> QED
      BY <2>2, <3>1
  <2>3. CASE lock' = [lock EXCEPT ![k] = None] /\ victim' = [victim EXCEPT ![k] = None]
    BY <2>3
  <2> QED
    BY <2>1, <2>2, <2>3 DEF AbortTimedOut, AbortLocked, AbortWake
<1>8. woken' \subseteq Connections /\ \A j \in Connections \ {k} : j \in woken' <=> j \in woken
  BY <1>1 DEF TypeOK, AbortTimedOut, AbortLocked, AbortWake, Wake
<1>9. PICK t \in Timeouts : t = timeout[k]
  BY <1>1 DEF TypeOK
<1>10. TaskMove(k, steps, c, t, l, v, sent[k])
  <2>1. timeout' = [timeout EXCEPT ![k] = t] /\ sent' = [sent EXCEPT ![k] = sent[k]]
    BY <1>1, <1>2, <1>9 DEF TypeOK
  <2>2. /\ UNCHANGED <<traced, current, produced, at, assigned, guard, phase, cancelled, clean>>
        /\ UNCHANGED <<response, wire, flushed, unflushed>> /\ response' \in [Requests -> Responses]
        /\ wire' \subseteq Requests /\ flushed' \subseteq Requests /\ unflushed' \subseteq Connections
    BY <1>1, <1>2 DEF TypeOK, bodyVars
  <2>3. steps \notin {<<"write">>, <<"socket">>}
    <3>1. <<"write">> \notin Failing /\ <<"socket">> \notin Failing
      BY DEF Failing
    <3> QED
      BY <3>1
  <2> QED
    BY <1>3, <1>4, <1>5, <1>6, <1>7, <1>8, <2>1, <2>2, <2>3 DEF TaskMove
<1> QED
  BY <1>4, <1>5, <1>10, TaskFailsKeeps

(* hyper puts the connection back into the pool: everything its request has  *)
(* written is flushed.                                                       *)
LEMMA PooledKeeps ==
  ASSUME IInv, NEW k \in Connections, Pooled(k)
  PROVE  IInv'
<1>1. TypeOK /\ ConnInv(k) /\ WakerInv(k)
  BY DEF IInv
<1>2. PICK r \in Requests : r = current[k]
  BY <1>1 DEF Pooled, TypeOK
<1>3. /\ todo[k] = <<>> /\ r \in wire /\ r \in ToSet(sent[k]) /\ k \notin unflushed
      /\ current' = [current EXCEPT ![k] = None]
      /\ UNCHANGED <<conn, timeout, lock, woken, unflushed, response, sent, wire, flushed, todo, requestVars>>
  BY <1>2 DEF Pooled, Writes
<1>4. UNCHANGED <<traced, produced, at, assigned, guard, victim, phase, use, cancelled, clean>>
  BY <1>3 DEF requestVars, storyVars
<1>5. current'[k] = None /\ \A j \in Connections \ {k} : current'[j] = current[j]
  BY <1>1, <1>3 DEF TypeOK
<1>6. TypeOK'
  <2>1. current' \in [Connections -> Requests \cup {None}]
    BY <1>1, <1>3 DEF TypeOK
  <2> QED
    BY <1>1, <1>3, <1>4, <2>1 DEF TypeOK
<1>7. \A j \in Connections : (Live(j)' <=> Live(j)) /\ (Down(j)' <=> Down(j))
  BY <1>3 DEF Live, Down, Does
<1>8. Lasting
  <2>1. \A j \in Connections : conn[j].uses \in Nat
    BY <1>1 DEF TypeOK, States
  <2> QED
    BY <1>3, <1>4, <1>7, <2>1 DEF Lasting
<1>9. \A q \in Requests : SameTask(q)
  BY <1>3, <1>4 DEF SameTask
<1>10. \A j \in Connections \ {k} : SameConn(j)
  BY <1>3, <1>5 DEF SameConn
<1>11. GuardsDiffer' /\ NoWriteOverIncomplete'
  BY <1>3, <1>4 DEF IInv, GuardsDiffer, NoWriteOverIncomplete, Complete
<1>12. ConnInv(k)'
  BY <1>1, <1>3 DEF ConnInv
<1>13. WakerInv(k)'
  BY <1>1, <1>3, <1>4, <1>7 DEF WakerInv
<1>14. IdleInv(k)'
  <2>1. \A q \in Requests : LastUser(k, q)' <=> LastUser(k, q)
    BY <1>3, <1>4 DEF LastUser, IsCurrentUse
  <2> QED
    BY <1>3, <1>4, <1>8, <2>1, IdleKeeps
<1>15. ASSUME NEW q \in Requests PROVE WriteInv(k, q)'
  <2>1. WriteInv(k, q) /\ WriteInv(k, r) /\ q # None
    BY UseAssumption DEF IInv, Actors
  <2>2. (Active(k, q)' <=> Active(k, q)) /\ (Complete(q)' <=> Complete(q))
    BY <1>3, <1>4 DEF Active, Complete
  <2>3. todo[k] # <<"socket">> /\ current'[k] # q
    BY <1>3, <1>5, <2>1
  <2>4. current[k] = q => todo[q] \notin Unbegun
    BY <1>2, <1>3, <2>1 DEF WriteInv
  <2>5. Active(k, q) /\ Live(k) /\ ~conn[k].aborted => q \in flushed
    BY <1>2, <1>3, <2>1 DEF WriteInv
  <2> QED
    BY <1>3, <1>4, <1>7, <2>1, <2>2, <2>3, <2>4, <2>5 DEF WriteInv
<1> QED
  <2>1. PICK R, K : R = {} /\ K = {k}
    OBVIOUS
  <2>2. /\ \A j \in Connections, q \in Requests : j \in K \/ q \in R => WriteInv(j, q)'
        /\ \A j \in K : ConnInv(j)' /\ WakerInv(j)' /\ IdleInv(j)'
        /\ \A j \in Connections \ K : SameConn(j)
        /\ \A q \in Requests \ R : SameTask(q)
        /\ R \in SUBSET Requests /\ K \in SUBSET Connections /\ \A q : q \notin R
    BY <1>9, <1>10, <1>12, <1>13, <1>14, <1>15, <2>1
  <2>3. wire' = wire
    BY <1>3
  <2> QED
    BY <1>6, <1>8, <1>11, <2>2, <2>3, StepKeeps

(* The producer of a body finishes. *)
LEMMA SourceFinishesKeeps ==
  ASSUME IInv, NEW r \in Requests, SourceFinishes(r)
  PROVE  IInv'
<1>1. TypeOK
  BY DEF IInv
<1>2. /\ produced' = produced \cup {r}
      /\ UNCHANGED <<traced, conn, timeout, lock, hyperVars, wire, flushed, taskVars, storyVars>>
  BY DEF SourceFinishes
<1>3. TypeOK'
  BY <1>1, <1>2 DEF TypeOK, hyperVars, taskVars, storyVars
<1>4. Lasting
  <2>1. \A j \in Connections : conn[j].uses \in Nat
    BY <1>1 DEF TypeOK, States
  <2>2. \A j \in Connections : Down(j) => Down(j)'
    BY <1>2 DEF Down, Does, taskVars
  <2> QED
    BY <1>2, <2>1, <2>2 DEF Lasting, taskVars, storyVars
<1>5. (\A q \in Requests : SameTask(q)) /\ \A j \in Connections : SameConn(j)
  BY <1>2 DEF SameTask, SameConn, taskVars, storyVars, hyperVars
<1>6. GuardsDiffer'
  BY <1>2 DEF IInv, GuardsDiffer, taskVars
<1>7. NoWriteOverIncomplete'
  <2>1. \A q : Complete(q) => Complete(q)'
    BY <1>4, CompleteLasts
  <2> QED
    BY <1>2, <2>1 DEF IInv, NoWriteOverIncomplete, hyperVars
<1> QED
  <2>1. PICK R, K : R = {} /\ K = {}
    OBVIOUS
  <2>2. wire' = wire
    BY <1>2
  <2> QED
    BY <1>3, <1>4, <1>5, <1>6, <1>7, <2>1, <2>2, StepKeeps

--------------------------------------------------------------------------------
(* The invariant holds in every state. *)

(* Initially: no request has a connection. *)
LEMMA InitIInv == Init => IInv
<1> SUFFICES ASSUME Init PROVE IInv
  OBVIOUS
<1>1. TypeOK
  <2>1. todo \in [Actors -> Ending \cup Assigned \cup Polling \cup Failing \cup Dropped]
    BY DEF Init, Polling
  <2>2. conn \in [Connections -> States]
    BY DEF Init, States
  <2>3. timeout \in [Connections -> Timeouts]
    BY NoTimeoutType DEF Init
  <2>4. sent \in [Connections -> Seq(Requests)]
    BY DEF Init
  <2>5. response \in [Requests -> Responses] /\ at \in [Requests -> Places]
    BY DEF Init, Responses, Places
  <2> QED
    BY <2>1, <2>2, <2>3, <2>4, <2>5 DEF Init, TypeOK
<1>2. \A k \in Connections :
        /\ todo[k] = <<>> /\ sent[k] = <<>> /\ current[k] = None /\ ~conn[k].idle /\ ~conn[k].closed
        /\ ~conn[k].aborted /\ conn[k].uses = 0 /\ timeout[k] = NoTimeout
  BY DEF Init, Actors
<1>3. \A r \in Requests :
        /\ at[r] = "start" /\ todo[r] = <<>> /\ assigned[r] = None /\ guard[r] = None /\ use[r] = None
        /\ r \notin phase
  BY DEF Init, Actors
<1>4. \A r \in Requests : r # None
  BY UseAssumption DEF Actors
<1>5. \A k \in Connections : k # None
  BY UseAssumption DEF Actors
<1>6. GuardsDiffer
  BY <1>3 DEF GuardsDiffer
<1>7. NoWriteOverIncomplete
  <2>1. \A k \in Connections : Len(sent[k]) = 0
    BY <1>2
  <2> QED
    BY <2>1 DEF NoWriteOverIncomplete
<1>8. ASSUME NEW r \in Requests PROVE TaskInv(r) /\ UseInv(r) /\ FinishInv(r)
  <2>1. TaskInv(r)
    BY <1>3 DEF TaskInv, Unobserved, Superseding, Superseded
  <2>2. UseInv(r)
    BY <1>3 DEF UseInv
  <2>3. FinishInv(r)
    BY <1>3 DEF FinishInv, Completing, Reusing
  <2> QED
    BY <2>1, <2>2, <2>3
<1>9. ASSUME NEW k \in Connections PROVE ConnInv(k) /\ WakerInv(k) /\ IdleInv(k)
  <2>1. ConnInv(k)
    BY <1>2 DEF ConnInv, Polling
  <2>2. WakerInv(k)
    BY <1>2, <1>3, <1>5 DEF WakerInv
  <2>3. IdleInv(k)
    BY <1>2 DEF IdleInv
  <2> QED
    BY <2>1, <2>2, <2>3
<1>10. ASSUME NEW k \in Connections, NEW r \in Requests PROVE WriteInv(k, r)
  <2>1. r \notin ToSet(sent[k])
    BY <1>2 DEF ToSet
  <2>2. ~Active(k, r)
    BY <1>2, NoTimeoutType DEF Active
  <2>3. todo[r] \notin Unbegun /\ current[k] # r /\ todo[k] # <<"socket">>
    BY <1>2, <1>3, <1>4 DEF Unbegun, Unobserved, Superseding, Superseded
  <2> QED
    BY <2>1, <2>2, <2>3 DEF WriteInv
<1> QED
  BY <1>1, <1>6, <1>7, <1>8, <1>9, <1>10 DEF IInv

(* A step that changes nothing. *)
LEMMA StutterKeeps ==
  ASSUME IInv, UNCHANGED vars
  PROVE  IInv'
<1>1. TypeOK
  BY DEF IInv
<1>2. UNCHANGED <<traced, conn, timeout, lock, current, woken, unflushed, response, sent, wire, produced, flushed,
                  at, todo, assigned, guard, victim, phase, use, cancelled, clean>>
  BY DEF vars, hyperVars, bodyVars, taskVars, storyVars
<1>3. TypeOK'
  BY <1>1, <1>2 DEF TypeOK
<1>4. Lasting
  <2>1. \A j \in Connections : conn[j].uses \in Nat
    BY <1>1 DEF TypeOK, States
  <2>2. \A j \in Connections : Down(j) => Down(j)'
    BY <1>2 DEF Down, Does
  <2> QED
    BY <1>2, <2>1, <2>2 DEF Lasting
<1>5. (\A q \in Requests : SameTask(q)) /\ \A j \in Connections : SameConn(j)
  BY <1>2 DEF SameTask, SameConn
<1>6. GuardsDiffer' /\ NoWriteOverIncomplete'
  BY <1>2 DEF IInv, GuardsDiffer, NoWriteOverIncomplete, Complete
<1> QED
  <2>1. PICK R, K : R = {} /\ K = {}
    OBVIOUS
  <2>2. wire' = wire
    BY <1>2
  <2> QED
    BY <1>3, <1>4, <1>5, <1>6, <2>1, <2>2, StepKeeps

(* Every step keeps it. *)
LEMMA NextIInv == IInv /\ [Next]_vars => IInv'
<1> SUFFICES ASSUME IInv, [Next]_vars PROVE IInv'
  OBVIOUS
<1>1. CASE UNCHANGED vars
  BY <1>1, StutterKeeps
<1>2. ASSUME NEW r \in Requests, RequestStep(r) PROVE IInv'
  <2>1. CASE Observe(r)
    BY <2>1, ObserveKeeps
  <2>2. CASE BeginUse(r)
    BY <2>2, BeginUseKeeps
  <2>3. CASE BeginTimeout(r)
    BY <2>3, BeginTimeoutKeeps
  <2>4. CASE WakeIo(r)
    BY <2>4, WakeIoKeeps
  <2>5. CASE FinishWrite(r)
    BY <2>5, FinishWriteKeeps
  <2>6. CASE FinishUse(r)
    BY <2>6, FinishUseKeeps
  <2>7. CASE EnterIdle(r)
    BY <2>7, EnterIdleKeeps
  <2>8. CASE AbortUse(r) \/ AbortAny(r) \/ AbortPrevious(r)
    BY <2>8, RequestAborts
  <2>9. CASE AbortWake(r, guard[r].conn)
    BY <2>9, RequestAbortWakes
  <2> QED
    BY <1>2, <2>1, <2>2, <2>3, <2>4, <2>5, <2>6, <2>7, <2>8, <2>9 DEF RequestStep
<1>3. ASSUME NEW r \in Requests,
             \/ BeginAcquire(r) \/ EndAcquire(r) \/ Cancel(r)
             \/ \E k \in Connections : Assign(r, k)
             \/ Headers(r) \/ Finish(r) \/ Abort(r) \/ SourceFinishes(r)
      PROVE  IInv'
  <2>1. CASE BeginAcquire(r) \/ EndAcquire(r)
    BY <2>1, AcquireKeeps
  <2>2. CASE Cancel(r)
    BY <2>2, CancelKeeps
  <2>3. CASE \E k \in Connections : Assign(r, k)
    BY <2>3, AssignKeeps
  <2>4. CASE Headers(r)
    BY <2>4, HeadersKeeps
  <2>5. CASE Finish(r) \/ Abort(r)
    BY <2>5, EndsKeeps
  <2>6. CASE SourceFinishes(r)
    BY <2>6, SourceFinishesKeeps
  <2> QED
    BY <1>3, <2>1, <2>2, <2>3, <2>4, <2>5, <2>6
<1>4. ASSUME NEW k \in Connections, Poll(k) \/ Pooled(k) \/ TaskStep(k) PROVE IInv'
  <2>1. CASE Poll(k)
    BY <2>1, PollKeeps
  <2>2. CASE Pooled(k)
    BY <2>2, PooledKeeps
  <2>3. CASE Write(k)
    BY <2>3, WriteStepKeeps
  <2>4. CASE Socket(k)
    BY <2>4, SocketKeeps
  <2>5. CASE Timer(k)
    BY <2>5, TimerKeeps
  <2>6. CASE AbortTimedOut(k) \/ AbortWake(k, k)
    BY <2>6, TaskAbortKeeps
  <2>7. CASE Flush(k)
    BY <2>7, FlushKeeps
  <2>8. CASE Drop(k) \/ Clear(k) \/ LeaveIdle(k)
    BY <2>8, CloseKeeps
  <2> QED
    BY <1>4, <2>1, <2>2, <2>3, <2>4, <2>5, <2>6, <2>7, <2>8 DEF TaskStep
<1> QED
  BY <1>1, <1>2, <1>3, <1>4 DEF Next

(* The inductive invariant, of every reachable state. *)
LEMMA Invariance == Spec => []IInv
BY InitIInv, NextIInv, PTL DEF Spec

--------------------------------------------------------------------------------
(* The theorems. *)

(* The state keeps its types. *)
THEOREM TypeCorrect == Spec => []TypeOK
<1>1. IInv => TypeOK
  BY DEF IInv
<1> QED
  BY <1>1, Invariance, PTL

(* A connection counts as idle only while it can be reused: it is not        *)
(* aborted or gone, and the request of its last use is done with it, with a  *)
(* complete upload and a use that was finished; also when the guards of      *)
(* earlier uses finish late.                                                 *)
THEOREM IdleIsAlwaysReusable == Spec => []IdleIsReusable
<1>1. IInv => IdleIsReusable
  BY DEF IInv, IdleInv, IdleIsReusable, Gone
<1> QED
  BY <1>1, Invariance, PTL

(* No request's bytes follow an upload that is not complete, in any          *)
(* interleaving of the guard that begins a use, the guard of the use before  *)
(* and the polls of the connection.                                          *)
THEOREM NothingIsWrittenOverIncomplete == Spec => []NoWriteOverIncomplete
<1>1. IInv => NoWriteOverIncomplete
  BY DEF IInv
<1> QED
  BY <1>1, Invariance, PTL

(* A use has ended before the next one of its request begins and when the    *)
(* request is over, whoever ends it, and a phase ends with the wait for the  *)
(* slot or the cancellation.                                                 *)
THEOREM EveryUseAlwaysEnds == Spec => []EveryUseEnds
<1>1. IInv => EveryUseEnds
  <2> SUFFICES ASSUME IInv, NEW r \in Requests
               PROVE  /\ r \in phase => at[r] = "acquire" /\ r \notin cancelled
                      /\ Does(r, "beginUse") => use[r] = None
                      /\ Over(r) => use[r] = None
    BY DEF EveryUseEnds
  <2>1. UseInv(r)
    BY DEF IInv
  <2>2. Does(r, "beginUse") => todo[r] = <<"beginUse", "beginTimeout", "wake">>
    BY RequestDoes
  <2>3. <<>> \notin Completing \cup Aborting
    BY DEF Completing, Reusing, Aborting
  <2> QED
    BY <2>1, <2>2, <2>3 DEF UseInv, Over
<1> QED
  BY <1>1, Invariance, PTL

(* The task of an aborted connection never sleeps on: unless it runs, it has *)
(* been woken, or the abort that will wake it is under way.                  *)
THEOREM AbortedIsAlwaysWoken == Spec => []AbortedIsWoken
<1>1. IInv => AbortedIsWoken
  <2> SUFFICES ASSUME IInv, NEW k \in Connections, conn[k].aborted, todo[k] = <<>>, ~Gone(k)
               PROVE  k \in woken \/ lock[k] # None
    BY DEF AbortedIsWoken
  <2>1. WakerInv(k)
    BY DEF IInv
  <2>2. Live(k)
    <3>1. <<>> \notin Failing
      BY DEF Failing
    <3> QED
      BY <3>1 DEF Live, Gone
  <2> QED
    BY <2>1, <2>2 DEF WakerInv
<1> QED
  BY <1>1, Invariance, PTL

================================================================================
