---------------------------- MODULE RequestLoopProofs ----------------------------
(***************************************************************************)
(* TLAPS proofs about one logical request (RequestLoop), for every set of  *)
(* origins, headers, statuses and calls and every limit on redirects and   *)
(* retries: the types and the six invariants the run of RequestLoop checks. *)
(*                                                                         *)
(* The inductive invariant has a part for each concern of the loop; every  *)
(* part says what the property it implies needs to know at the steps where *)
(* nothing is sent yet.                                                    *)
(***************************************************************************)
EXTENDS RequestLoop, SequenceTheorems, TLAPS

(* The steps of an attempt before its request is sent. *)
Before == {"route", "auth", "yield", "attach", "acquire"}
Results == {"none", "response", "stream", "error", "cancelled"}
Methods == {"GET", "POST", "QUERY", "PUT"}
Bodies == {"empty", "replayable", "nonReplayable"}
AuthNames == HookNames \cup {"authorization"}

(* The task has a result when it is done, and a slot when it talks. *)
FlowInv ==
  /\ config \in Configs /\ pc \in Steps /\ result \in Results
  /\ url \in Origins /\ method \in Methods /\ body \in Bodies /\ history \in Seq(Origins)
  /\ retries \in Nat /\ sends \in Nat /\ taken \in Nat
  /\ result = "none" <=> pc # "done"
  /\ SlotMatchesExchange

(* A redirect that was decided on is about the URL of the response. *)
Follows == [kind : {"follow"}, method : Methods, url : Origins, cross : BOOLEAN, drop : BOOLEAN]

Sound(a, from) == /\ a \in Follows
                  /\ a.cross <=> a.url # from
                  /\ a.cross => a.drop
                  /\ from \in Https => a.url \in Https

ActionInv ==
  \/ action = NoAction
  \/ action = [kind |-> "block"] /\ pc \in {"reading", "done"}
  \/ Sound(action, url) /\ pc \in {"reading", "done"}

(* Auth is on as long as the request has stayed at its first origin, and the *)
(* headers it starts from are the caller's; what auth or the jar added is    *)
(* known as theirs.                                                          *)
AuthStates ==
  [present : {TRUE}, base : SUBSET Headers, active : SUBSET AuthNames,
   sensitive : SUBSET AuthNames, owned : SUBSET CallerNames, removed : SUBSET HookNames]

Clean(hs) == \A h \in hs : h[2] = "caller"

AuthInv == \/ auth = NoAuth
           \/ auth \in AuthStates /\ Clean(auth.base) /\ ~Crossed

Accounted(h) ==
  \/ h[2] = "caller" /\ (Crossed => h[1] \notin CrossOriginHeaders)
  \/ h[2] = "auth" /\ h[3] = url /\ auth # NoAuth /\ auth.active # {}
  \/ h[2] = "jar" /\ h[1] = "cookie" /\ h[3] = url /\ managed

HeaderInv ==
  /\ headers \subseteq Headers /\ managed \in BOOLEAN /\ jar \subseteq Origins
  /\ AuthInv
  /\ \A h \in headers : Accounted(h)
  /\ pc \in {"auth", "yield"} => auth # NoAuth /\ ~managed

(* A body that cannot be replayed is taken at the only send; a body that was *)
(* dropped is described neither in the headers nor in those auth keeps.      *)
BodyInv ==
  /\ body # "empty" => ~Crossed
  /\ body = "nonReplayable" => /\ taken <= 1 /\ (pc \in Before => taken = 0)
                               /\ pc \notin {"draining", "backoff"}
  /\ taken > 0 /\ body = "empty" => /\ CallersContent(headers) = {}
                                    /\ auth # NoAuth => CallersContent(auth.base) = {}

(* From the decision on a route to the send, nothing the decision was made   *)
(* of changes.                                                               *)
PolicyInv ==
  /\ route \in {"none", "direct", "proxy"}
  /\ config.proxy = "environment" => url = First
  /\ pc \in {"auth", "yield", "attach", "acquire", "sending"} /\ config.ssrf =>
       url \notin Forbidden /\ route = "direct"
  /\ \A i \in 1 .. Len(history) : history[i] \in Https => url \in Https

(* Each send is paid for by the first attempt, a retry or a redirect. *)
CountInv ==
  /\ retries <= MaxRetries /\ Len(history) <= MaxRedirects
  /\ pc \in {"draining", "backoff"} => retries < MaxRetries /\ config.retry
  /\ sends <= 1 + retries + Len(history)
  /\ pc \in Before => sends <= retries + Len(history)

(* The trace: an entry for every attempt that was retried, and one for the   *)
(* last attempt once it is decided.                                          *)
Entries == [attempt : Nat, decision : {"none", "retry", "stop"},
            completion : {"pending", "complete"}]

Numbered(t) == t \in Seq(Entries) /\ \A i \in 1 .. Len(t) : t[i].attempt = i
Retried(t, n) == \A i \in 1 .. n : t[i].completion = "complete" /\ t[i].decision = "retry"

(* No decision on the current attempt, the n + 1st; or one. *)
Undecided(t, n) == Numbered(t) /\ Len(t) = n /\ Retried(t, n)
DecidedOn(t, n) == Numbered(t) /\ Len(t) = n + 1 /\ Retried(t, n)

TraceInv ==
  /\ Numbered(trace)
  /\ ~config.retry => trace = <<>> /\ retries = 0
  /\ config.retry =>
       /\ pc \in Before \cup {"sending", "draining"} => Undecided(trace, retries)
       /\ pc = "reading" =>
            \/ Undecided(trace, retries)
            \/ /\ action = NoAction /\ DecidedOn(trace, retries)
               /\ trace[retries + 1].decision = "stop"
       /\ pc = "backoff" => Undecided(trace, retries + 1)
       /\ pc = "done" /\ result # "cancelled" =>
            /\ DecidedOn(trace, retries)
            /\ trace[retries + 1].completion = "complete"
            /\ result # "error" => trace[retries + 1].decision # "retry"

IInv == FlowInv /\ ActionInv /\ HeaderInv /\ BodyInv /\ PolicyInv /\ CountInv /\ TraceInv

--------------------------------------------------------------------------------
(* The policies. *)

(* A method that a redirect may lead to is one, and says whether the body is *)
(* dropped.                                                                  *)
LEMMA RedirectMethodType ==
  ASSUME NEW m \in Methods, NEW status \in RedirectStatuses, RedirectMethod(m, status) # <<>>
  PROVE  RedirectMethod(m, status)[1] \in Methods /\ RedirectMethod(m, status)[2] \in BOOLEAN
  BY DEF RedirectMethod, Methods, RedirectStatuses

(* Whatever the response says, a redirect that is followed keeps https, and  *)
(* takes no body to another origin.                                          *)
LEMMA RedirectDecisionFacts ==
  ASSUME url \in Origins, method \in Methods, NEW status, NEW location \in Origins \cup {NoOrigin}
  PROVE  \/ RedirectDecision(status, location) = NoAction
         \/ RedirectDecision(status, location) = [kind |-> "block"]
         \/ Sound(RedirectDecision(status, location), url)
<1> DEFINE next == RedirectMethod(method, status)
           cross == location # url
           follow == [kind |-> "follow", method |-> next[1], url |-> location,
                      cross |-> cross, drop |-> next[2] \/ cross]
<1>1. CASE status \notin RedirectStatuses \/ location = NoOrigin \/ next = <<>>
  BY <1>1 DEF RedirectDecision
<1>2. CASE status \in RedirectStatuses /\ location # NoOrigin /\ next # <<>>
  <2>1. CASE url \in Https /\ location \notin Https
    BY <1>2, <2>1 DEF RedirectDecision
  <2>2. CASE ~(url \in Https /\ location \notin Https)
    <3>1. RedirectDecision(status, location) = follow
      BY <1>2, <2>2 DEF RedirectDecision
    <3>2. next[1] \in Methods /\ next[2] \in BOOLEAN /\ location \in Origins
      BY <1>2, RedirectMethodType
    <3>3. cross \in BOOLEAN /\ (next[2] \/ cross) \in BOOLEAN
      OBVIOUS
    <3> HIDE DEF next
    <3>4. /\ follow \in Follows /\ follow.cross = cross /\ follow.url = location
          /\ follow.drop = (next[2] \/ cross)
      BY <3>2, <3>3 DEF Follows
    <3> QED
      BY <2>2, <3>1, <3>4 DEF Sound
  <2> QED
    BY <2>1, <2>2
<1> QED
  BY <1>1, <1>2

(* What a redirect keeps of the headers. *)
LEMMA RedirectHeadersFacts ==
  ASSUME NEW hs, NEW drop, NEW cross
  PROVE  /\ RedirectHeaders(hs, drop, cross) \subseteq hs
         /\ cross => \A h \in RedirectHeaders(hs, drop, cross) : h[1] \notin CrossOriginHeaders
         /\ drop => \A h \in RedirectHeaders(hs, drop, cross) : h[1] \notin ContentMetadata
  BY DEF RedirectHeaders, Without

(* The two ways a redirect response is dealt with. *)
Hop ==
  /\ pc = "reading" /\ pc' = "route" /\ Sound(action, url) /\ action' = NoAction
  /\ MayFollow /\ OnRedirect
  /\ method' = action.method /\ url' = action.url /\ managed' = FALSE
  /\ body' = (IF action.drop THEN "empty" ELSE body)
  /\ history' = Append(history, url) /\ slot' = NoOrigin
  /\ UNCHANGED <<config, result, jar, route, retries, trace, sends, taken>>

GivesUp ==
  /\ pc = "reading" /\ action # NoAction /\ action' = NoAction
  /\ End("error", trace)
  /\ UNCHANGED <<config, headerVars, jar, route, history, retries, sends, taken>>

(* A redirect is followed to the URL it was decided for, or ends the loop.   *)
LEMMA Redirected == ASSUME IInv, FollowRedirect PROVE Hop \/ GivesUp
<1>1. CASE End("error", trace) /\ UNCHANGED <<headerVars, history>>
  BY <1>1 DEF FollowRedirect, GivesUp
<1>2. CASE ~(End("error", trace) /\ UNCHANGED <<headerVars, history>>)
  <2>1. MayFollow /\ action.kind = "follow" /\ action # NoAction
    BY <1>2 DEF FollowRedirect, MayFollow
  <2>2. Sound(action, url)
    BY <2>1 DEF IInv, ActionInv
  <2> QED
    BY <1>2, <2>2 DEF FollowRedirect, Hop, Goto
<1> QED
  BY <1>1, <1>2

(* A hop is at another origin than the first, or has been, when one of the   *)
(* hops up to it crossed.                                                    *)
LEMMA CrossedAfter ==
  ASSUME IInv, Hop
  PROVE  /\ Crossed' <=> Crossed \/ action.cross
         /\ history' \in Seq(Origins) /\ Len(history') = Len(history) + 1
         /\ \A i \in 1 .. Len(history') : history'[i] = url \/ \E j \in 1 .. Len(history) : history'[i] = history[j]
<1>1. /\ history \in Seq(Origins) /\ url \in Origins /\ Len(history) \in Nat
      /\ url' = action.url /\ (action.cross <=> action.url # url)
      /\ history' = Append(history, url)
  BY DEF IInv, FlowInv, Hop, Sound
<1>2. /\ history' \in Seq(Origins) /\ Len(history') = Len(history) + 1
      /\ \A i \in 1 .. Len(history) : history'[i] = history[i]
      /\ history'[Len(history) + 1] = url
  BY <1>1
<1>3. \A i \in 1 .. Len(history') : i = Len(history) + 1 \/ i \in 1 .. Len(history)
  BY <1>1, <1>2
<1>4. \A i \in 1 .. Len(history) : i \in 1 .. Len(history')
  BY <1>1, <1>2
<1>5. Len(history) + 1 \in 1 .. Len(history')
  BY <1>1, <1>2
<1>6. CASE Crossed
  <2>1. CASE url # First
    BY <1>2, <1>5, <2>1, <1>6 DEF Crossed
  <2>2. CASE \E i \in 1 .. Len(history) : history[i] # First
    BY <1>2, <1>4, <2>2, <1>6 DEF Crossed
  <2> QED
    BY <1>6, <2>1, <2>2 DEF Crossed
<1>7. CASE ~Crossed
  BY <1>1, <1>2, <1>3, <1>7 DEF Crossed
<1> QED
  BY <1>2, <1>3, <1>6, <1>7

--------------------------------------------------------------------------------
(* One lemma for each part of the invariant. *)

(* The task holds a slot while it talks, and nothing afterwards but for the  *)
(* stream it hands out.                                                      *)
LEMMA FlowStep == ASSUME IInv, Next PROVE FlowInv'
<1> USE DEF IInv, FlowInv, SlotMatchesExchange, Steps, Results, Goto
<1>1. CASE TransportRoute
  BY <1>1 DEF TransportRoute, End
<1>2. CASE Authenticate
  BY <1>2 DEF Authenticate, End
<1>3. CASE Resume
  BY <1>3 DEF Resume, headerVars, countVars
<1>4. CASE AttachCookies
  BY <1>4 DEF AttachCookies, End
<1>5. CASE AcquireSlot
  BY <1>5 DEF AcquireSlot, End, headerVars
<1>6. CASE SendFails
  BY <1>6 DEF SendFails, RetryNetworkError, End, headerVars
<1>7. ASSUME NEW status \in Statuses, NEW location \in Origins \cup {NoOrigin},
             ResponseHeaders(status, location)
      PROVE  FlowInv'
  BY <1>7 DEF ResponseHeaders, End, headerVars
<1>8. CASE Drain
  BY <1>8 DEF Drain, End, headerVars
<1>9. CASE Backoff
  BY <1>9 DEF Backoff, End, headerVars
<1>10. CASE ReadLast
  BY <1>10 DEF ReadLast, End, headerVars
<1>11. CASE FollowRedirect
  <2>1. CASE Hop
    <3>1. history' \in Seq(Origins) /\ action \in Follows
      BY <2>1, CrossedAfter DEF Hop, Sound
    <3> QED
      BY <2>1, <3>1 DEF Hop, Follows, Bodies
  <2>2. CASE GivesUp
    BY <2>2 DEF GivesUp, End, headerVars
  <2> QED
    BY <1>11, <2>1, <2>2, Redirected
<1>12. CASE Cancel
  BY <1>12 DEF Cancel, headerVars, countVars
<1> QED
  BY <1>1, <1>2, <1>3, <1>4, <1>5, <1>6, <1>7, <1>8, <1>9, <1>10, <1>11, <1>12 DEF Next

(* A redirect is decided on when a response comes, and taken when its body   *)
(* was read; nothing changes the URL in between.                             *)
LEMMA ActionStep == ASSUME IInv, Next PROVE ActionInv'
<1> USE DEF IInv, ActionInv, Goto
<1>1. CASE TransportRoute \/ Authenticate \/ Resume \/ AttachCookies \/ AcquireSlot \/ SendFails
           \/ Drain \/ Backoff
  BY <1>1 DEF TransportRoute, Authenticate, Resume, AttachCookies, AcquireSlot, SendFails, Drain,
              Backoff, Sound, NoAction
<1>2. ASSUME NEW status \in Statuses, NEW location \in Origins \cup {NoOrigin},
             ResponseHeaders(status, location)
      PROVE  ActionInv'
  <2> DEFINE decided == IF config.follow THEN RedirectDecision(status, location) ELSE NoAction
  <2>1. decided = NoAction \/ decided = [kind |-> "block"] \/ Sound(decided, url)
    BY RedirectDecisionFacts DEF FlowInv
  <2> HIDE DEF decided
  <2>2. /\ UNCHANGED url /\ pc = "sending"
        /\ \/ action' = decided /\ (decided = NoAction \/ pc' = "reading")
           \/ action' = action
    BY <1>2 DEF ResponseHeaders, headerVars, decided
  <2>3. action = NoAction
    BY <2>2
  <2> QED
    BY <2>1, <2>2, <2>3
<1>3. CASE ReadLast
  BY <1>3 DEF ReadLast, End
<1>4. CASE FollowRedirect
  BY <1>4 DEF FollowRedirect
<1>5. CASE Cancel
  BY <1>5 DEF Cancel, headerVars
<1> QED
  BY <1>1, <1>2, <1>3, <1>4, <1>5 DEF Next

(* Which states of auth are on. *)
LEMMA Present ==
  /\ ~NoAuth.present
  /\ \A a \in AuthStates : a.present /\ a # NoAuth
<1>1. ~NoAuth.present
  BY DEF NoAuth
<1>2. \A a \in AuthStates : a.present
  BY DEF AuthStates
<1> QED
  BY <1>1, <1>2

(* The steps that leave the headers alone. *)
LEMMA HeadersStay ==
  ASSUME IInv, UNCHANGED <<headers, managed, auth, url, history>>, jar' \subseteq Origins,
         pc' \in {"auth", "yield"} => pc \in {"auth", "yield"}
  PROVE  HeaderInv'
<1>1. Crossed' <=> Crossed
  BY DEF Crossed
<1>2. AuthInv'
  BY <1>1 DEF IInv, HeaderInv, AuthInv
<1>3. ASSUME NEW h \in headers PROVE Accounted(h)'
  BY <1>1 DEF IInv, HeaderInv, Accounted
<1> QED
  BY <1>2, <1>3 DEF IInv, HeaderInv

(* Where auth starts from there is nothing but what the caller set: that is  *)
(* what a hook sees.                                                         *)
LEMMA AuthFreeClean ==
  ASSUME IInv, pc = "auth"
  PROVE  /\ auth \in AuthStates /\ ~Crossed /\ AuthFree \subseteq Headers
         /\ \A h \in AuthFree : h[2] = "caller"
<1>1. auth \in AuthStates /\ Clean(auth.base) /\ ~Crossed /\ ~managed
  BY DEF IInv, HeaderInv, AuthInv
<1>2. auth.base \subseteq Headers /\ headers \subseteq Headers
  BY <1>1 DEF AuthStates, IInv, HeaderInv
<1>3. CASE auth.active # {}
  BY <1>1, <1>2, <1>3 DEF AuthFree, Clean
<1>4. CASE auth.active = {}
  BY <1>1, <1>2, <1>4 DEF AuthFree, IInv, HeaderInv, Accounted
<1> QED
  BY <1>1, <1>3, <1>4

(* Auth adds headers of its own for the current URL. *)
LEMMA AuthApplies ==
  ASSUME IInv, pc = "auth", NEW updates \in SUBSET AuthNames, AuthApply(updates)
  PROVE  /\ headers' \subseteq Headers /\ auth' \in AuthStates /\ auth'.base = auth.base
         /\ \A h \in headers' : \/ h \in AuthFree /\ h[2] = "caller"
                                \/ h[2] = "auth" /\ h[3] = url /\ auth'.active # {}
<1> DEFINE applied == {n \in updates : CanApply(n)}
<1>1. /\ headers' = Without(AuthFree, applied) \cup {<<n, "auth", url>> : n \in applied}
      /\ auth' = [auth EXCEPT !.sensitive = @ \cup applied, !.active = applied]
  BY DEF AuthApply
<1>2. applied \in SUBSET AuthNames
  OBVIOUS
<1> HIDE DEF applied
<1>3. auth' \in AuthStates /\ auth'.active = applied /\ auth'.base = auth.base
  BY <1>1, <1>2, AuthFreeClean DEF AuthStates
<1>4. ASSUME NEW h \in headers'
      PROVE  /\ h \in Headers
             /\ \/ h \in AuthFree /\ h[2] = "caller"
                \/ h[2] = "auth" /\ h[3] = url /\ auth'.active # {}
  <2>1. CASE h \in Without(AuthFree, applied)
    BY <2>1, AuthFreeClean DEF Without
  <2>2. CASE h \in {<<n, "auth", url>> : n \in applied}
    <3>1. PICK n \in applied : h = <<n, "auth", url>>
      BY <2>2
    <3>2. n \in AuthNames /\ url \in Origins
      BY <1>2 DEF IInv, FlowInv
    <3> QED
      BY <1>3, <3>1, <3>2 DEF Headers, AuthNames
  <2> QED
    BY <1>1, <1>4, <2>1, <2>2
<1> QED
  BY <1>3, <1>4

(* No credential is forwarded: every header of a hop is the caller's, or was *)
(* made for it.                                                              *)
LEMMA HeaderStep == ASSUME IInv, Next PROVE HeaderInv'
<1> USE DEF IInv, Goto
<1>1. CASE TransportRoute
  <2>1. /\ headers' \subseteq headers /\ managed' = FALSE
        /\ managed => \A h \in headers' : h[1] # "cookie"
        /\ UNCHANGED <<url, auth, jar, history>>
        /\ pc' \in {"auth", "yield"} => auth.present
    BY <1>1 DEF TransportRoute, RemoveManaged, Without, End
  <2>2. Crossed' <=> Crossed
    BY <2>1 DEF Crossed
  <2>3. AuthInv'
    BY <2>1, <2>2 DEF HeaderInv, AuthInv
  <2>4. ASSUME NEW h \in headers' PROVE Accounted(h)'
    BY <2>1, <2>2, <2>4 DEF HeaderInv, Accounted
  <2> QED
    BY <2>1, <2>3, <2>4, Present DEF HeaderInv
<1>2. CASE Authenticate
  <2>1. pc = "auth" /\ UNCHANGED <<url, managed, jar, history>> /\ pc' \in {"attach", "yield", "done"}
    BY <1>2 DEF Authenticate, End
  <2>2. CASE UNCHANGED <<headers, auth>>
    BY <2>1, <2>2, HeadersStay DEF HeaderInv
  <2>3. ASSUME NEW updates \in SUBSET AuthNames, AuthApply(updates) PROVE HeaderInv'
    <3>1. Crossed' <=> Crossed
      BY <2>1 DEF Crossed
    <3>2. auth' \in AuthStates /\ auth'.base = auth.base /\ ~Crossed /\ auth' # NoAuth /\ ~managed
      <4>1. auth' \in AuthStates /\ auth'.base = auth.base /\ ~Crossed
        BY <2>1, <2>3, AuthApplies, AuthFreeClean
      <4>2. auth' # NoAuth
        BY <4>1, Present
      <4> QED
        BY <2>1, <4>1, <4>2 DEF HeaderInv
    <3>3. AuthInv'
      <4>1. Clean(auth.base)
        BY <2>1 DEF HeaderInv, AuthInv
      <4> QED
        BY <3>1, <3>2, <4>1 DEF AuthInv
    <3>4. ASSUME NEW h \in headers' PROVE h \in Headers /\ Accounted(h)'
      BY <2>1, <2>3, <3>1, <3>2, <3>4, AuthApplies DEF Accounted
    <3> QED
      BY <2>1, <3>2, <3>3, <3>4 DEF HeaderInv
  <2>4. UNCHANGED <<headers, auth>> \/ \E updates \in SUBSET AuthNames : AuthApply(updates)
    BY <1>2 DEF Authenticate, AuthNames
  <2> QED
    BY <2>2, <2>3, <2>4
<1>3. CASE AttachCookies
  <2>1. /\ UNCHANGED <<url, auth, jar, history>> /\ pc' \notin {"auth", "yield"}
        /\ \/ headers' = headers /\ managed' = managed
           \/ headers' = headers \cup {<<"cookie", "jar", url>>} /\ managed' = TRUE
    BY <1>3 DEF AttachCookies, End, HeaderInv
  <2>2. Crossed' <=> Crossed
    BY <2>1 DEF Crossed
  <2>3. AuthInv'
    BY <2>1, <2>2 DEF HeaderInv, AuthInv
  <2>4. ASSUME NEW h \in headers' PROVE h \in Headers /\ Accounted(h)'
    <3>1. CASE h \in headers
      BY <2>1, <2>2, <3>1 DEF HeaderInv, Accounted
    <3>2. CASE h = <<"cookie", "jar", url>> /\ managed' = TRUE
      BY <2>1, <3>2 DEF Accounted, Headers, FlowInv
    <3> QED
      BY <2>1, <2>4, <3>1, <3>2
  <2> QED
    BY <2>1, <2>3, <2>4 DEF HeaderInv
<1>4. CASE Resume \/ AcquireSlot \/ SendFails \/ Drain \/ Backoff \/ ReadLast \/ Cancel
  <2>1. /\ UNCHANGED <<headers, managed, auth, url, history, jar>>
        /\ pc' \notin {"auth", "yield"}
    BY <1>4 DEF Resume, AcquireSlot, SendFails, RetryNetworkError, Drain, Backoff, ReadLast, Cancel,
                End, headerVars, countVars
  <2> QED
    BY <2>1, HeadersStay DEF HeaderInv
<1>5. ASSUME NEW status \in Statuses, NEW location \in Origins \cup {NoOrigin},
             ResponseHeaders(status, location)
      PROVE  HeaderInv'
  <2>1. UNCHANGED <<headers, managed, auth, url, history>> /\ pc' \notin {"auth", "yield"}
    BY <1>5 DEF ResponseHeaders, End, headerVars
  <2>2. jar' \subseteq Origins
    BY <1>5 DEF ResponseHeaders, HeaderInv, FlowInv
  <2> QED
    BY <2>1, <2>2, HeadersStay
<1>6. CASE FollowRedirect
  <2>1. CASE GivesUp
    <3>1. UNCHANGED <<headers, managed, auth, url, history, jar>> /\ pc' \notin {"auth", "yield"}
      BY <2>1 DEF GivesUp, End, headerVars
    <3> QED
      BY <3>1, HeadersStay DEF HeaderInv
  <2>2. CASE Hop
    <3>1. Crossed' <=> Crossed \/ action.cross
      BY <2>2, CrossedAfter
    <3>2. pc' = "route" /\ managed' = FALSE /\ UNCHANGED jar
      BY <2>2 DEF Hop
    <3>3. CASE auth # NoAuth
      <4> DEFINE kept == RedirectHeaders(auth.base, action.drop, action.cross)
      <4>1. auth \in AuthStates /\ auth.present /\ Clean(auth.base) /\ ~Crossed
        BY <3>3 DEF HeaderInv, AuthInv, AuthStates
      <4>2. /\ kept \subseteq auth.base
            /\ action.cross => \A h \in kept : h[1] \notin CrossOriginHeaders
        BY RedirectHeadersFacts
      <4>3. IF action.cross THEN headers' = Without(kept, auth.sensitive) /\ auth' = NoAuth
            ELSE headers' = kept /\ auth' = [auth EXCEPT !.base = kept, !.active = {}]
        BY <2>2, <4>1 DEF Hop, OnRedirect
      <4> HIDE DEF kept
      <4>4. headers' \subseteq kept /\ kept \subseteq Headers /\ Clean(kept)
        BY <4>1, <4>2, <4>3 DEF Without, AuthStates, Clean
      <4>5. AuthInv'
        <5>1. CASE action.cross
          BY <4>3, <5>1 DEF AuthInv
        <5>2. CASE ~action.cross
          <6>1. auth' \in AuthStates /\ auth'.base = kept
            BY <4>1, <4>3, <4>4, <5>2 DEF AuthStates
          <6> QED
            BY <3>1, <4>1, <4>4, <5>2, <6>1 DEF AuthInv
        <5> QED
          BY <5>1, <5>2
      <4>6. ASSUME NEW h \in headers' PROVE Accounted(h)'
        BY <3>1, <4>1, <4>2, <4>4, <4>6 DEF Accounted, Clean
      <4> QED
        BY <3>2, <4>4, <4>5, <4>6 DEF HeaderInv
    <3>4. CASE auth = NoAuth
      <4> DEFINE own == IF managed THEN Without(headers, {"cookie"}) ELSE headers
      <4>1. headers' = RedirectHeaders(own, action.drop, action.cross) /\ auth' = NoAuth
        BY <2>2, <3>4 DEF Hop, OnRedirect, NoAuth
      <4>2. own \subseteq headers /\ \A h \in own : managed => h[1] # "cookie"
        BY DEF Without
      <4> HIDE DEF own
      <4>3. headers' \subseteq own /\ (action.cross => \A h \in headers' : h[1] \notin CrossOriginHeaders)
        BY <4>1, RedirectHeadersFacts
      <4>4. ASSUME NEW h \in headers' PROVE Accounted(h)'
        BY <3>1, <3>4, <4>2, <4>3, <4>4 DEF Accounted, HeaderInv
      <4> QED
        BY <3>2, <4>1, <4>2, <4>3, <4>4 DEF HeaderInv, AuthInv
    <3> QED
      BY <3>3, <3>4
  <2> QED
    BY <1>6, <2>1, <2>2, Redirected
<1> QED
  BY <1>1, <1>2, <1>3, <1>4, <1>5, <1>6 DEF Next

(* Steps that neither change the body nor add a header of the caller's. *)
LEMMA BodyStays ==
  ASSUME IInv, UNCHANGED <<body, taken, url, history>>,
         CallersContent(headers') \subseteq CallersContent(headers)
           \/ (auth # NoAuth /\ CallersContent(headers') \subseteq CallersContent(auth.base)),
         auth' = auth \/ (auth # NoAuth /\ auth'.base = auth.base),
         pc' \in Before => pc \in Before \/ (pc = "backoff" /\ body # "nonReplayable"),
         pc' \in {"draining", "backoff"} => body # "nonReplayable"
  PROVE  BodyInv'
<1>1. Crossed' <=> Crossed
  BY DEF Crossed
<1> QED
  BY <1>1 DEF IInv, BodyInv

(* A body leaves neither its origin nor its description, and is taken once   *)
(* if it cannot be replayed.                                                 *)
LEMMA BodyStep == ASSUME IInv, Next PROVE BodyInv'
<1> USE DEF IInv, Goto
<1>1. CASE TransportRoute
  <2>1. /\ headers' \subseteq headers /\ UNCHANGED <<body, taken, url, history, auth>>
        /\ pc = "route" /\ pc' \notin {"draining", "backoff"}
    BY <1>1 DEF TransportRoute, RemoveManaged, Without, End
  <2>2. CallersContent(headers') \subseteq CallersContent(headers) /\ pc \in Before
    BY <2>1 DEF CallersContent, Before
  <2> QED
    BY <2>1, <2>2, BodyStays
<1>2. CASE Authenticate
  <2>1. /\ pc = "auth" /\ UNCHANGED <<body, taken, url, history>>
        /\ pc' \notin {"draining", "backoff"} /\ pc \in Before
    BY <1>2 DEF Authenticate, End, Before
  <2>2. CASE UNCHANGED <<headers, auth>>
    BY <2>1, <2>2, BodyStays
  <2>3. ASSUME NEW updates \in SUBSET AuthNames, AuthApply(updates) PROVE BodyInv'
    <3>1. auth # NoAuth /\ auth'.base = auth.base
      BY <2>1, <2>3, AuthApplies DEF HeaderInv
    <3>2. \A h \in headers' : h[2] = "caller" => h \in AuthFree
      BY <2>1, <2>3, AuthApplies
    <3>3. CallersContent(headers') \subseteq CallersContent(AuthFree)
      BY <3>2 DEF CallersContent
    <3> QED
      BY <2>1, <3>1, <3>3, BodyStays DEF AuthFree
  <2>4. UNCHANGED <<headers, auth>> \/ \E updates \in SUBSET AuthNames : AuthApply(updates)
    BY <1>2 DEF Authenticate, AuthNames
  <2> QED
    BY <2>2, <2>3, <2>4
<1>3. CASE AttachCookies
  <2>1. /\ UNCHANGED <<body, taken, url, history, auth>>
        /\ headers' \subseteq headers \cup {<<"cookie", "jar", url>>}
        /\ pc \in Before /\ pc' \notin {"draining", "backoff"}
    BY <1>3 DEF AttachCookies, End, Before
  <2>2. CallersContent(headers') \subseteq CallersContent(headers)
    BY <2>1 DEF CallersContent
  <2> QED
    BY <2>1, <2>2, BodyStays
<1>4. CASE AcquireSlot
  <2>1. /\ UNCHANGED <<body, headers, url, history, auth>>
        /\ pc = "acquire" /\ pc' \in {"sending", "done"}
        /\ taken' = taken \/ (body # "empty" /\ taken' = taken + 1)
    BY <1>4 DEF AcquireSlot, End, headerVars
  <2>2. Crossed' <=> Crossed
    BY <2>1 DEF Crossed
  <2>3. body = "nonReplayable" => taken = 0
    BY <2>1 DEF BodyInv, Before
  <2> QED
    BY <2>1, <2>2, <2>3 DEF BodyInv, Before, FlowInv
<1>5. CASE Resume \/ SendFails \/ Drain \/ Backoff \/ ReadLast \/ Cancel \/ GivesUp
  <2>1. UNCHANGED <<body, taken, headers, url, history, auth>>
    BY <1>5 DEF Resume, SendFails, Drain, Backoff, ReadLast, Cancel, GivesUp, headerVars, countVars
  <2>2. /\ pc' \in Before => pc \in {"yield", "backoff"}
        /\ pc' \in {"draining", "backoff"} => pc = "draining" \/ RetryDecision = "retry"
    BY <1>5 DEF Resume, SendFails, RetryNetworkError, Drain, Backoff, ReadLast, Cancel, GivesUp,
                End, Before
  <2>3. /\ RetryDecision = "retry" => body # "nonReplayable"
        /\ pc \in {"draining", "backoff"} => body # "nonReplayable"
    BY DEF RetryDecision, BodyInv
  <2> QED
    BY <2>1, <2>2, <2>3, BodyStays DEF Before
<1>6. ASSUME NEW status \in Statuses, NEW location \in Origins \cup {NoOrigin},
             ResponseHeaders(status, location)
      PROVE  BodyInv'
  <2>1. UNCHANGED <<body, taken, headers, url, history, auth>>
    BY <1>6 DEF ResponseHeaders, headerVars
  <2>2. pc' \notin Before \cup {"backoff"} /\ (pc' = "draining" => RetryDecision = "retry")
    BY <1>6 DEF ResponseHeaders, End, Before
  <2>3. RetryDecision = "retry" => body # "nonReplayable"
    BY DEF RetryDecision
  <2> QED
    BY <2>1, <2>2, <2>3, BodyStays
<1>7. CASE Hop
  <2>1. /\ Crossed' <=> Crossed \/ action.cross
        /\ action.cross => action.drop
        /\ action.drop \/ body # "nonReplayable"
        /\ body' = IF action.drop THEN "empty" ELSE body
        /\ UNCHANGED taken
    BY <1>7, CrossedAfter DEF Hop, MayFollow, Sound
  <2>2. ASSUME taken > 0, body' = "empty"
        PROVE  /\ CallersContent(headers') = {}
               /\ auth' # NoAuth => CallersContent(auth'.base) = {}
    <3>1. action.drop \/ (body = "empty" /\ taken > 0)
      BY <2>1, <2>2
    <3>2. CASE auth # NoAuth
      <4> DEFINE kept == RedirectHeaders(auth.base, action.drop, action.cross)
      <4>1. auth \in AuthStates /\ auth.present
        BY <3>2 DEF HeaderInv, AuthInv, AuthStates
      <4>2. kept \subseteq auth.base /\ (action.drop => \A h \in kept : h[1] \notin ContentMetadata)
        BY RedirectHeadersFacts
      <4>3. IF action.cross THEN headers' = Without(kept, auth.sensitive) /\ auth' = NoAuth
            ELSE headers' = kept /\ auth' = [auth EXCEPT !.base = kept, !.active = {}]
        BY <1>7, <4>1 DEF Hop, OnRedirect
      <4> HIDE DEF kept
      <4>4. headers' \subseteq kept /\ (auth' # NoAuth => auth'.base = kept)
        BY <4>1, <4>3 DEF Without, AuthStates
      <4>5. CallersContent(kept) = {}
        BY <3>1, <3>2, <4>2 DEF BodyInv, CallersContent
      <4> QED
        BY <4>4, <4>5 DEF CallersContent
    <3>3. CASE auth = NoAuth
      <4> DEFINE own == IF managed THEN Without(headers, {"cookie"}) ELSE headers
      <4>1. headers' = RedirectHeaders(own, action.drop, action.cross) /\ auth' = NoAuth
        BY <1>7, <3>3 DEF Hop, OnRedirect, NoAuth
      <4>2. own \subseteq headers
        BY DEF Without
      <4> HIDE DEF own
      <4>3. headers' \subseteq own /\ (action.drop => \A h \in headers' : h[1] \notin ContentMetadata)
        BY <4>1, RedirectHeadersFacts
      <4> QED
        BY <3>1, <4>1, <4>2, <4>3 DEF BodyInv, CallersContent
    <3> QED
      BY <3>2, <3>3
  <2>3. body' # "nonReplayable" /\ (body' # "empty" => ~Crossed')
    BY <2>1 DEF BodyInv
  <2> QED
    BY <2>1, <2>2, <2>3 DEF BodyInv
<1> QED
  BY <1>1, <1>2, <1>3, <1>4, <1>5, <1>6, <1>7, Redirected DEF Next

(* A route that is not refused: what the SSRF policy then knows of the hop.  *)
LEMMA Allowed ==
  ASSUME FlowInv, ~Refused
  PROVE  /\ Route(config.proxy, config.useProxy, url) \in {"direct", "proxy"}
         /\ config.ssrf => /\ url \notin Forbidden
                           /\ Route(config.proxy, config.useProxy, url) = "direct"
<1>1. config.proxy \in {"direct", "explicit", "environment"}
  BY DEF FlowInv, Configs
<1>2. Route(config.proxy, config.useProxy, url) \in {"direct", "proxy", "refused"}
  BY <1>1 DEF Route
<1> QED
  BY <1>2 DEF Refused

(* The policies are applied to every hop. *)
LEMMA PolicyStep == ASSUME IInv, Next PROVE PolicyInv'
<1> USE DEF IInv, Goto
<1>1. CASE TransportRoute
  <2>1. UNCHANGED <<config, url, history>> /\ pc' \in {"auth", "attach", "done"}
    BY <1>1 DEF TransportRoute, End
  <2>2. CASE Refused
    BY <1>1, <2>1, <2>2 DEF TransportRoute, End, PolicyInv
  <2>3. CASE ~Refused
    <3>1. route' = Route(config.proxy, config.useProxy, url)
      BY <1>1, <2>3 DEF TransportRoute
    <3> QED
      BY <2>1, <2>3, <3>1, Allowed DEF PolicyInv
  <2> QED
    BY <2>2, <2>3
<1>2. CASE Authenticate \/ Resume \/ AttachCookies \/ AcquireSlot
  <2>1. /\ UNCHANGED <<config, url, history, route>>
        /\ pc \in {"auth", "yield", "attach", "acquire"}
    BY <1>2 DEF Authenticate, Resume, AttachCookies, AcquireSlot, headerVars, countVars
  <2> QED
    BY <2>1 DEF PolicyInv
<1>3. CASE SendFails \/ Drain \/ Backoff \/ ReadLast \/ Cancel \/ GivesUp
  <2>1. /\ UNCHANGED <<config, url, history, route>>
        /\ pc' \notin {"auth", "yield", "attach", "acquire", "sending"}
    BY <1>3 DEF SendFails, RetryNetworkError, Drain, Backoff, ReadLast, Cancel, GivesUp, End,
                headerVars, countVars
  <2> QED
    BY <2>1 DEF PolicyInv
<1>4. ASSUME NEW status \in Statuses, NEW location \in Origins \cup {NoOrigin},
             ResponseHeaders(status, location)
      PROVE  PolicyInv'
  <2>1. /\ UNCHANGED <<config, url, history, route>>
        /\ pc' \notin {"auth", "yield", "attach", "acquire", "sending"}
    BY <1>4 DEF ResponseHeaders, End, headerVars
  <2> QED
    BY <2>1 DEF PolicyInv
<1>5. CASE Hop
  <2>1. /\ UNCHANGED <<config, route>> /\ pc' = "route" /\ url' = action.url
        /\ url \in Https => action.url \in Https
        /\ config.proxy = "environment" => action.url = First
    BY <1>5 DEF Hop, MayFollow, Sound
  <2>2. ASSUME NEW i \in 1 .. Len(history'), history'[i] \in Https PROVE url' \in Https
    <3>1. history'[i] = url \/ \E j \in 1 .. Len(history) : history'[i] = history[j]
      BY <1>5, CrossedAfter
    <3> QED
      BY <2>1, <2>2, <3>1 DEF PolicyInv
  <2> QED
    BY <2>1, <2>2 DEF PolicyInv
<1> QED
  BY <1>1, <1>2, <1>3, <1>4, <1>5, Redirected DEF Next

(* The requests that are sent are counted by the retries and the redirects.  *)
LEMMA CountStep == ASSUME IInv, Next PROVE CountInv'
<1> USE DEF IInv, Goto
<1>0. /\ retries \in Nat /\ sends \in Nat /\ Len(history) \in Nat
      /\ MaxRetries \in Nat /\ MaxRedirects \in Nat
  BY LoopAssumption DEF FlowInv
<1>1. CASE TransportRoute \/ Authenticate \/ Resume \/ AttachCookies
  <2>1. /\ UNCHANGED <<config, retries, history, sends>> /\ pc \in Before
        /\ pc' \notin {"draining", "backoff"}
    BY <1>1 DEF TransportRoute, Authenticate, Resume, AttachCookies, End, headerVars, countVars, Before
  <2> QED
    BY <1>0, <2>1 DEF CountInv
<1>2. CASE AcquireSlot
  <2>1. /\ UNCHANGED <<config, retries, history>> /\ pc \in Before /\ pc' \in {"sending", "done"}
        /\ sends' \in {sends, sends + 1}
    BY <1>2 DEF AcquireSlot, End, headerVars, Before
  <2> QED
    BY <1>0, <2>1 DEF CountInv, Before
<1>3. CASE SendFails \/ Drain \/ ReadLast \/ Cancel \/ GivesUp
  <2>1. /\ UNCHANGED <<config, retries, history, sends>> /\ pc' \notin Before
        /\ pc' \in {"draining", "backoff"} =>
             pc = "draining" \/ (config.retry /\ RetryDecision = "retry")
    BY <1>3 DEF SendFails, RetryNetworkError, Drain, ReadLast, Cancel, GivesUp, End,
                headerVars, countVars, Before
  <2>2. RetryDecision = "retry" => retries < MaxRetries
    BY <1>0 DEF RetryDecision
  <2> QED
    BY <1>0, <2>1, <2>2 DEF CountInv
<1>4. ASSUME NEW status \in Statuses, NEW location \in Origins \cup {NoOrigin},
             ResponseHeaders(status, location)
      PROVE  CountInv'
  <2>1. /\ UNCHANGED <<config, retries, history, sends>> /\ pc' \notin Before \cup {"backoff"}
        /\ pc' = "draining" => config.retry /\ RetryDecision = "retry"
    BY <1>4 DEF ResponseHeaders, End, headerVars, Before
  <2>2. RetryDecision = "retry" => retries < MaxRetries
    BY <1>0 DEF RetryDecision
  <2> QED
    BY <1>0, <2>1, <2>2 DEF CountInv
<1>5. CASE Backoff
  <2>1. /\ UNCHANGED <<config, history, sends>> /\ pc = "backoff" /\ pc' \in {"route", "done"}
        /\ retries' = retries + 1 \/ (retries' = retries /\ pc' = "done")
    BY <1>5 DEF Backoff, End, headerVars
  <2> QED
    BY <1>0, <2>1 DEF CountInv, Before
<1>6. CASE Hop
  <2>1. /\ UNCHANGED <<config, retries, sends>> /\ pc' = "route" /\ Len(history) < MaxRedirects
        /\ Len(history') = Len(history) + 1
    BY <1>6, CrossedAfter DEF Hop, MayFollow
  <2> QED
    BY <1>0, <2>1 DEF CountInv, Before
<1> QED
  BY <1>1, <1>2, <1>3, <1>4, <1>5, <1>6, Redirected DEF Next

--------------------------------------------------------------------------------
(* The retry trace. *)

(* A decision is recorded for the current attempt. *)
LEMMA Recording ==
  ASSUME NEW n \in Nat, NEW t, Undecided(t, n), NEW e \in Entries, e.attempt = n + 1
  PROVE  /\ DecidedOn(Append(t, e), n) /\ Append(t, e)[n + 1] = e
         /\ e.decision = "retry" /\ e.completion = "complete" => Undecided(Append(t, e), n + 1)
<1>1. PICK u : u = Append(t, e)
  OBVIOUS
<1>2. /\ t \in Seq(Entries) /\ Len(t) = n
      /\ u \in Seq(Entries) /\ Len(u) = n + 1 /\ u[n + 1] = e
      /\ \A i \in 1 .. n : u[i] = t[i]
  BY <1>1 DEF Undecided, Numbered
<1>3. \A i \in 1 .. n + 1 : i = n + 1 \/ i \in 1 .. n
  OBVIOUS
<1>4. Numbered(u) /\ Retried(u, n)
  BY <1>2, <1>3 DEF Undecided, Numbered, Retried
<1>5. e.decision = "retry" /\ e.completion = "complete" => Retried(u, n + 1)
  BY <1>2, <1>3, <1>4 DEF Retried
<1> QED
  BY <1>1, <1>2, <1>4, <1>5 DEF DecidedOn, Undecided

(* What is recorded. *)
LEMMA AttemptFacts ==
  ASSUME FlowInv, NEW d \in {"none", "retry", "stop"}, NEW k \in {"pending", "complete"}
  PROVE  /\ Attempt(d, k) \in Entries /\ Attempt(d, k).attempt = retries + 1
         /\ Attempt(d, k).decision = d /\ Attempt(d, k).completion = k
  BY DEF Attempt, RetryAttempt, Entries, FlowInv

(* RetryTraceRecorder::finish leaves one completed entry per attempt. *)
LEMMA Finishing ==
  ASSUME FlowInv, config.retry, NEW t, Undecided(t, retries) \/ DecidedOn(t, retries),
         NEW u, u = FinishTrace(t)
  PROVE  /\ DecidedOn(u, retries) /\ u[retries + 1].completion = "complete"
         /\ u[retries + 1].decision = IF Len(t) = retries THEN "none" ELSE t[retries + 1].decision
<1>0. retries \in Nat /\ RetryAttempt = retries + 1 /\ Numbered(t) /\ Len(t) \in Nat
  BY DEF FlowInv, RetryAttempt, Undecided, DecidedOn, Numbered
<1>1. CASE Undecided(t, retries)
  <2>1. Len(t) = retries /\ ~(t # <<>> /\ t[Len(t)].attempt = RetryAttempt)
    BY <1>0, <1>1 DEF Undecided, Numbered
  <2>2. PICK e : e = Attempt("none", "complete")
    OBVIOUS
  <2>3. e \in Entries /\ e.attempt = retries + 1 /\ e.decision = "none" /\ e.completion = "complete"
    BY <2>2, AttemptFacts
  <2>4. u = Append(t, e)
    BY <2>1, <2>2 DEF FinishTrace
  <2>5. retries \in Nat
    BY <1>0
  <2>6. DecidedOn(Append(t, e), retries) /\ Append(t, e)[retries + 1] = e
    BY <1>1, <2>3, <2>5, Recording
  <2> QED
    BY <2>1, <2>3, <2>4, <2>6
<1>2. CASE DecidedOn(t, retries)
  <2> DEFINE e == [t[retries + 1] EXCEPT !.completion = "complete"]
  <2>1. /\ t \in Seq(Entries) /\ Len(t) = retries + 1 /\ t[retries + 1].attempt = retries + 1
        /\ t[retries + 1] \in Entries /\ retries + 1 \in 1 .. Len(t) /\ t # <<>>
    BY <1>0, <1>2 DEF DecidedOn, Numbered
  <2>2. u = [t EXCEPT ![retries + 1] = e]
    BY <1>0, <2>1 DEF FinishTrace
  <2>3. /\ e \in Entries /\ e.attempt = retries + 1 /\ e.completion = "complete"
        /\ e.decision = t[retries + 1].decision
    BY <2>1 DEF Entries
  <2> HIDE DEF e
  <2>4. /\ u \in Seq(Entries) /\ Len(u) = retries + 1 /\ u[retries + 1] = e
        /\ \A i \in 1 .. retries : u[i] = t[i]
    <3>1. u \in Seq(Entries) /\ Len(u) = Len(t) /\ \A i \in 1 .. Len(t) : u[i] = IF i = retries + 1 THEN e ELSE t[i]
      BY <2>1, <2>2, <2>3, ExceptSeq
    <3> QED
      BY <1>0, <2>1, <3>1
  <2>5. \A i \in 1 .. retries + 1 : i = retries + 1 \/ i \in 1 .. retries
    BY <1>0
  <2>6. Numbered(u) /\ Retried(u, retries)
    BY <1>2, <2>1, <2>3, <2>4, <2>5 DEF DecidedOn, Numbered, Retried
  <2> QED
    BY <1>0, <2>1, <2>3, <2>4, <2>6 DEF DecidedOn
<1> QED
  BY <1>1, <1>2

(* A way out with no decision on the last attempt, or with one that is not   *)
(* to retry unless the outcome is an error.                                  *)
LEMMA Ending ==
  ASSUME IInv, UNCHANGED <<config, retries>>, NEW outcome \in {"response", "stream", "error"},
         NEW t, End(outcome, t),
         ~config.retry => t = <<>>,
         config.retry => \/ Undecided(t, retries)
                         \/ /\ DecidedOn(t, retries)
                            /\ outcome = "error" \/ t[retries + 1].decision # "retry"
  PROVE  TraceInv'
<1>1. pc' = "done" /\ result' = outcome /\ trace' = FinishTrace(t)
  BY DEF End
<1>2. CASE ~config.retry
  <2>1. trace' = <<>> /\ retries' = 0
    BY <1>1, <1>2 DEF FinishTrace, IInv, TraceInv
  <2> QED
    BY <1>1, <1>2, <2>1 DEF TraceInv, Numbered, Before
<1>3. CASE config.retry
  <2>1. retries \in Nat
    BY DEF IInv, FlowInv
  <2>2. /\ DecidedOn(trace', retries) /\ trace'[retries + 1].completion = "complete"
        /\ trace'[retries + 1].decision = IF Len(t) = retries THEN "none" ELSE t[retries + 1].decision
    BY <1>1, <1>3, Finishing DEF IInv
  <2>3. Undecided(t, retries) => Len(t) = retries
    BY DEF Undecided
  <2>4. outcome # "error" => trace'[retries + 1].decision # "retry"
    BY <1>3, <2>1, <2>2, <2>3 DEF DecidedOn
  <2> QED
    BY <1>1, <1>3, <2>2, <2>4 DEF TraceInv, DecidedOn, Before
<1> QED
  BY <1>2, <1>3

(* The trace tells the attempts. *)
LEMMA TraceStep == ASSUME IInv, Next PROVE TraceInv'
<1> USE DEF IInv, Goto
<1>0. /\ retries \in Nat /\ (~config.retry => trace = <<>> /\ retries = 0)
      /\ config.retry => /\ pc \in Before \cup {"sending", "draining"} => Undecided(trace, retries)
                         /\ pc = "backoff" => Undecided(trace, retries + 1)
  BY DEF FlowInv, TraceInv
<1>1. ASSUME pc \in Before \cup {"sending", "draining"}, End("error", trace), UNCHANGED <<config, retries>>
      PROVE  TraceInv'
  BY <1>0, <1>1, Ending
<1>2. ASSUME pc \in Before \cup {"sending", "draining"}, UNCHANGED <<config, retries, trace>>,
             pc' \in Before \cup {"sending", "draining", "reading"}
      PROVE  TraceInv'
  BY <1>2 DEF TraceInv, Before
<1>3. CASE TransportRoute \/ Authenticate \/ Resume \/ AttachCookies \/ AcquireSlot
  <2>1. /\ pc \in Before /\ UNCHANGED <<config, retries>>
        /\ End("error", trace) \/ (pc' \in Before \cup {"sending"} /\ UNCHANGED trace)
    BY <1>3 DEF TransportRoute, Authenticate, Resume, AttachCookies, AcquireSlot, countVars, Before
  <2> QED
    BY <1>1, <1>2, <2>1
<1>4. ASSUME pc \in {"sending", "draining"}, UNCHANGED <<config, retries>>, config.retry,
             trace' = Recorded("retry", "complete"), pc' = "backoff"
      PROVE  TraceInv'
  <2>1. PICK e : e = Attempt("retry", "complete")
    OBVIOUS
  <2>2. e \in Entries /\ e.attempt = retries + 1 /\ e.decision = "retry" /\ e.completion = "complete"
    BY <2>1, AttemptFacts
  <2>3. trace' = Append(trace, e)
    BY <1>4, <2>1 DEF Recorded
  <2>4. Undecided(trace', retries + 1)
    BY <1>0, <1>4, <2>2, <2>3, Recording
  <2> QED
    BY <1>4, <2>4 DEF TraceInv, Before, Undecided
<1>5. ASSUME pc = "sending", config.retry, NEW k \in {"pending", "complete"}
      PROVE  /\ DecidedOn(Recorded("stop", k), retries)
             /\ Recorded("stop", k)[retries + 1].decision = "stop"
  <2>1. PICK e : e = Attempt("stop", k)
    OBVIOUS
  <2>2. e \in Entries /\ e.attempt = retries + 1 /\ e.decision = "stop"
    BY <1>5, <2>1, AttemptFacts
  <2>3. Recorded("stop", k) = Append(trace, e)
    BY <1>5, <2>1 DEF Recorded
  <2>4. DecidedOn(Append(trace, e), retries) /\ Append(trace, e)[retries + 1] = e
    BY <1>0, <1>5, <2>2, Recording
  <2> QED
    BY <2>2, <2>3, <2>4
<1>6. CASE SendFails
  <2>1. pc = "sending" /\ UNCHANGED <<config, retries>>
    BY <1>6 DEF SendFails
  <2>2. \/ End("error", trace)
        \/ config.retry /\ trace' = Recorded("retry", "complete") /\ pc' = "backoff"
        \/ config.retry /\ End("error", Recorded("stop", "complete"))
    BY <1>6 DEF SendFails, RetryNetworkError
  <2>3. CASE config.retry /\ End("error", Recorded("stop", "complete"))
    BY <1>5, <2>1, <2>3, Ending
  <2> QED
    BY <1>1, <1>4, <2>1, <2>2, <2>3
<1>7. ASSUME NEW status \in Statuses, NEW location \in Origins \cup {NoOrigin},
             ResponseHeaders(status, location)
      PROVE  TraceInv'
  <2>1. pc = "sending" /\ UNCHANGED <<config, retries>>
    BY <1>7 DEF ResponseHeaders
  <2> DEFINE decided == IF config.follow THEN RedirectDecision(status, location) ELSE NoAction
             retry == IF decided = NoAction /\ config.retry /\ status \in RetryStatuses
                      THEN RetryDecision ELSE "none"
             k == IF config.stream THEN "complete" ELSE "pending"
             stopped == IF retry = "stop" THEN Recorded("stop", k) ELSE trace
  <2>2. /\ \/ /\ action' = decided
              /\ \/ pc' = "draining" /\ UNCHANGED trace
                 \/ pc' = "reading" /\ trace' = stopped
                 \/ \E outcome \in {"stream", "error"} : End(outcome, stopped)
           \/ End("error", trace)
        /\ stopped = trace \/ (config.retry /\ decided = NoAction /\ stopped = Recorded("stop", k))
        /\ k \in {"pending", "complete"}
    BY <1>7 DEF ResponseHeaders
  <2> HIDE DEF decided, retry, k, stopped
  <2>3. CASE End("error", trace)
    BY <1>1, <2>1, <2>3
  <2>4. CASE pc' = "draining" /\ UNCHANGED trace
    BY <1>2, <2>1, <2>4
  <2>5. CASE stopped = trace /\ (\/ pc' = "reading" /\ trace' = stopped
                                 \/ \E outcome \in {"stream", "error"} : End(outcome, stopped))
    <3>1. CASE pc' = "reading" /\ trace' = stopped
      BY <1>2, <2>1, <2>5, <3>1
    <3>2. ASSUME NEW outcome \in {"stream", "error"}, End(outcome, stopped) PROVE TraceInv'
      BY <1>0, <2>1, <2>5, <3>2, Ending
    <3> QED
      BY <2>5, <3>1, <3>2
  <2>6. CASE /\ config.retry /\ stopped = Recorded("stop", k) /\ action' = NoAction
             /\ \/ pc' = "reading" /\ trace' = stopped
                \/ \E outcome \in {"stream", "error"} : End(outcome, stopped)
    <3>1. DecidedOn(stopped, retries) /\ stopped[retries + 1].decision = "stop"
      BY <1>5, <2>1, <2>2, <2>6
    <3>2. CASE pc' = "reading" /\ trace' = stopped
      BY <2>1, <2>6, <3>1, <3>2 DEF TraceInv, DecidedOn, Before
    <3>3. ASSUME NEW outcome \in {"stream", "error"}, End(outcome, stopped) PROVE TraceInv'
      BY <2>1, <2>6, <3>1, <3>3, Ending
    <3> QED
      BY <2>6, <3>2, <3>3
  <2> QED
    BY <2>2, <2>3, <2>4, <2>5, <2>6
<1>8. CASE Drain
  <2>1. pc = "draining" /\ UNCHANGED <<config, retries>> /\ config.retry
    BY <1>8 DEF Drain, CountInv
  <2>2. End("error", trace) \/ (trace' = Recorded("retry", "complete") /\ pc' = "backoff")
    BY <1>8 DEF Drain
  <2> QED
    BY <1>1, <1>4, <2>1, <2>2
<1>9. CASE Backoff
  <2>1. pc = "backoff" /\ UNCHANGED config /\ config.retry /\ Undecided(trace, retries + 1)
    BY <1>0, <1>9 DEF Backoff, CountInv
  <2>2. CASE retries' = retries + 1 /\ pc' = "route" /\ UNCHANGED trace
    BY <1>0, <2>1, <2>2 DEF TraceInv, Before, Undecided
  <2>3. CASE End("error", trace) /\ UNCHANGED retries
    <3>1. DecidedOn(trace, retries)
      BY <1>0, <2>1 DEF Undecided, DecidedOn, Retried
    <3> QED
      BY <2>1, <2>3, <3>1, Ending
  <2> QED
    BY <1>9, <2>2, <2>3 DEF Backoff
<1>10. CASE ReadLast
  <2>1. /\ pc = "reading" /\ UNCHANGED <<config, retries>>
        /\ config.retry => \/ Undecided(trace, retries)
                           \/ DecidedOn(trace, retries) /\ trace[retries + 1].decision = "stop"
    BY <1>10 DEF ReadLast, TraceInv
  <2>2. PICK outcome \in {"response", "error"} : End(outcome, trace)
    BY <1>10 DEF ReadLast
  <2> QED
    BY <1>0, <2>1, <2>2, Ending
<1>11. CASE GivesUp
  <2>1. /\ UNCHANGED <<config, retries>> /\ End("error", trace)
        /\ config.retry => Undecided(trace, retries)
    BY <1>11 DEF GivesUp, TraceInv
  <2> QED
    BY <1>0, <2>1, Ending
<1>12. CASE Hop
  <2>1. /\ UNCHANGED <<config, retries, trace>> /\ pc' = "route"
        /\ config.retry => Undecided(trace, retries)
    <3>1. action # NoAction
      BY <1>12 DEF Hop, MayFollow, NoAction
    <3> QED
      BY <1>12, <3>1 DEF Hop, TraceInv
  <2> QED
    BY <2>1 DEF TraceInv, Before
<1>13. CASE Cancel
  BY <1>13 DEF Cancel, countVars, TraceInv, Before
<1> QED
  BY <1>3, <1>6, <1>7, <1>8, <1>9, <1>10, <1>11, <1>12, <1>13, Redirected DEF Next

--------------------------------------------------------------------------------
(* The invariant. *)

(* A request starts at its own URL with what the caller gave it. *)
LEMMA InitIInv == Init => IInv
<1> SUFFICES ASSUME Init PROVE IInv
  OBVIOUS
<1>1. PICK call \in Calls :
        /\ config = call.config /\ method = call.method /\ body = call.body
        /\ headers = {<<n, "caller", First>> : n \in call.names}
        /\ IF config.auth = "none" THEN auth = NoAuth
           ELSE \E owned \in SUBSET call.names, removed \in SUBSET (HookNames \ call.names) :
                  auth = [present |-> TRUE, base |-> headers, active |-> {}, sensitive |-> {},
                          owned |-> owned, removed |-> removed]
  BY DEF Init
<1>2. /\ config \in Configs /\ method \in Methods /\ body \in Bodies
      /\ call.names \subseteq CallerNames
  BY <1>1, LoopAssumption DEF CallType, Methods, Bodies
<1>3. /\ pc = "route" /\ result = "none" /\ url = First /\ First \in Origins /\ managed = FALSE
      /\ jar \subseteq Origins /\ route = "none" /\ slot = NoOrigin /\ action = NoAction
      /\ history = <<>> /\ retries = 0 /\ trace = <<>> /\ sends = 0 /\ taken = 0
      /\ Len(history) = 0 /\ history \in Seq(Origins)
  BY LoopAssumption DEF Init
<1>4. ~Crossed
  BY <1>3 DEF Crossed
<1>5. ASSUME NEW h \in headers PROVE h \in Headers /\ h[2] = "caller"
  <2>1. PICK n \in call.names : h = <<n, "caller", First>>
    BY <1>1, <1>5
  <2> QED
    BY <1>2, <2>1 DEF Headers
<1>6. AuthInv
  <2>1. CASE config.auth = "none"
    BY <1>1, <2>1 DEF AuthInv
  <2>2. CASE config.auth # "none"
    <3>1. PICK owned \in SUBSET call.names, removed \in SUBSET (HookNames \ call.names) :
            auth = [present |-> TRUE, base |-> headers, active |-> {}, sensitive |-> {},
                    owned |-> owned, removed |-> removed]
      BY <1>1, <2>2
    <3>2. headers \in SUBSET Headers /\ owned \in SUBSET CallerNames /\ removed \in SUBSET HookNames
      BY <1>2, <1>5
    <3>3. auth \in AuthStates /\ auth.base = headers
      BY <3>1, <3>2 DEF AuthStates
    <3> QED
      BY <1>4, <1>5, <3>3 DEF AuthInv, Clean
  <2> QED
    BY <2>1, <2>2
<1>7. FlowInv
  BY <1>2, <1>3 DEF FlowInv, SlotMatchesExchange, Steps, Results
<1>8. HeaderInv
  BY <1>3, <1>4, <1>5, <1>6 DEF HeaderInv, Accounted
<1>9. ActionInv /\ BodyInv /\ PolicyInv
  BY <1>3, <1>4 DEF ActionInv, BodyInv, PolicyInv
<1>10. CountInv
  BY <1>3, LoopAssumption DEF CountInv
<1>11. TraceInv
  BY <1>3 DEF TraceInv, Numbered, Undecided, Retried, Before
<1> QED
  BY <1>7, <1>8, <1>9, <1>10, <1>11 DEF IInv

(* Every step keeps the invariant. *)
LEMMA NextIInv == IInv /\ [Next]_vars => IInv'
<1> SUFFICES ASSUME IInv, [Next]_vars PROVE IInv'
  OBVIOUS
<1>1. CASE Next
  BY <1>1, FlowStep, ActionStep, HeaderStep, BodyStep, PolicyStep, CountStep, TraceStep DEF IInv
<1>2. CASE UNCHANGED vars
  <2>1. UNCHANGED <<config, pc, result, method, url, headers, body, managed, auth, jar, route, slot,
                    action, history, retries, trace, sends, taken>>
    BY <1>2 DEF vars, headerVars, countVars
  <2>2. Crossed' <=> Crossed
    BY <2>1 DEF Crossed
  <2>3. FlowInv' /\ ActionInv' /\ PolicyInv' /\ CountInv' /\ TraceInv'
    BY <2>1 DEF IInv, FlowInv, SlotMatchesExchange, ActionInv, PolicyInv, CountInv, TraceInv
  <2>4. HeaderInv'
    BY <2>1, HeadersStay DEF IInv, HeaderInv
  <2>5. BodyInv'
    BY <2>1, <2>2 DEF IInv, BodyInv
  <2> QED
    BY <2>3, <2>4, <2>5 DEF IInv
<1> QED
  BY <1>1, <1>2

(* The invariant holds always. *)
LEMMA Invariance == Spec => []IInv
  BY InitIInv, NextIInv, PTL DEF Spec

--------------------------------------------------------------------------------
(* What follows from it. *)

(* Types, and the debug_asserts of RetryTraceRecorder::record: the entries   *)
(* of the trace are numbered 1, 2, ... without a repetition.                 *)
THEOREM TypeCorrect == Spec => []TypeOK
<1>1. IInv => TypeOK
  <2> SUFFICES ASSUME IInv PROVE TypeOK
    OBVIOUS
  <2>1. slot \in Origins \cup {NoOrigin}
    BY DEF IInv, FlowInv, SlotMatchesExchange
  <2>2. auth.present => auth.base \subseteq Headers
    BY Present DEF IInv, HeaderInv, AuthInv, AuthStates
  <2>3. retries \in 0 .. MaxRetries /\ sends \in 0 .. 1 + retries + Len(history)
    BY LoopAssumption DEF IInv, FlowInv, CountInv
  <2> QED
    BY <2>1, <2>2, <2>3
       DEF IInv, FlowInv, HeaderInv, PolicyInv, CountInv, TraceInv, Numbered, TypeOK, Results,
           Methods, Bodies
<1> QED
  BY <1>1, Invariance, PTL

(* CredentialsStayHome holds always: whatever chain of retries and redirects *)
(* apply_policy_mutation goes through, no auth header or credential of the   *)
(* caller's leaves the first origin, and a cookie of the jar goes home.      *)
THEOREM CredentialsNeverLeave == Spec => []CredentialsStayHome
<1>1. IInv => CredentialsStayHome
  <2> SUFFICES ASSUME IInv, NEW h \in headers
               PROVE  /\ h[2] \in {"auth", "jar"} => h[3] = url
                      /\ Crossed => h[2] # "auth" /\ ~(h[2] = "caller" /\ h[1] \in CrossOriginHeaders)
    BY DEF CredentialsStayHome
  <2> QED
    BY DEF IInv, HeaderInv, Accounted, AuthInv
<1> QED
  BY <1>1, Invariance, PTL

(* BodyStaysHome holds always: redirect_decision lets no body cross, and a   *)
(* body that cannot be replayed is taken at most once.                       *)
THEOREM BodyNeverLeaves == Spec => []BodyStaysHome
<1>1. IInv => BodyStaysHome
  BY DEF IInv, BodyInv, BodyStaysHome
<1> QED
  BY <1>1, Invariance, PTL

(* AuthSeesCleanHeaders holds always: the snapshot RequestAuthState gives to *)
(* a hook has nothing of an earlier attempt in it.                           *)
THEOREM AuthAlwaysSeesCleanHeaders == Spec => []AuthSeesCleanHeaders
<1>1. IInv => AuthSeesCleanHeaders
  BY AuthFreeClean DEF AuthSeesCleanHeaders
<1> QED
  BY <1>1, Invariance, PTL

(* SlotMatchesExchange holds always: send_request gives the slot of a hop    *)
(* back before it waits for a retry, follows a redirect or returns.          *)
THEOREM SlotAlwaysMatches == Spec => []SlotMatchesExchange
<1>1. IInv => SlotMatchesExchange
  BY DEF IInv, FlowInv
<1> QED
  BY <1>1, Invariance, PTL

(* FailsClosed holds always: before_send is asked for every hop, and what it *)
(* refuses is not sent.                                                      *)
THEOREM AlwaysFailsClosed == Spec => []FailsClosed
<1>1. IInv => FailsClosed
  BY DEF IInv, PolicyInv, FailsClosed
<1> QED
  BY <1>1, Invariance, PTL

(* TraceTellsAttempts holds always: the trace RetryTraceRecorder::finish     *)
(* returns has one completed entry per attempt, and retries and redirects    *)
(* bound the sends.                                                          *)
THEOREM TraceAlwaysTells == Spec => []TraceTellsAttempts
<1>1. IInv => TraceTellsAttempts
  <2> SUFFICES ASSUME IInv PROVE TraceTellsAttempts
    OBVIOUS
  <2>1. retries \in Nat /\ RetryAttempt = retries + 1
    BY DEF IInv, FlowInv, RetryAttempt
  <2>2. ASSUME result \in {"response", "stream", "error"}, config.retry
        PROVE  /\ Len(trace) = RetryAttempt
               /\ \A i \in 1 .. Len(trace) : /\ trace[i].completion = "complete"
                                             /\ i < Len(trace) => trace[i].decision = "retry"
               /\ result # "error" => trace[Len(trace)].decision # "retry"
    <3>1. /\ Len(trace) = retries + 1 /\ Retried(trace, retries)
          /\ trace[retries + 1].completion = "complete"
          /\ result # "error" => trace[retries + 1].decision # "retry"
      BY <2>2 DEF IInv, FlowInv, TraceInv, DecidedOn
    <3>2. \A i \in 1 .. retries + 1 : i = retries + 1 \/ (i \in 1 .. retries /\ i < retries + 1)
      BY <2>1
    <3>3. ~(retries + 1 < retries + 1)
      BY <2>1
    <3> QED
      BY <2>1, <3>1, <3>2, <3>3 DEF Retried
  <2> QED
    BY <2>2 DEF TraceTellsAttempts, IInv, CountInv
<1> QED
  BY <1>1, Invariance, PTL

================================================================================
