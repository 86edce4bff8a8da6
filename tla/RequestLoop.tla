------------------------------ MODULE RequestLoop ------------------------------
(***************************************************************************)
(* One logical request (py/client/transport): the attempt loop of          *)
(* send_request and send_stream_request with its redirects and retries,    *)
(* the policy pipeline that decides on them (core/policy), the headers     *)
(* that the caller, the auth provider and the cookie jar contribute to     *)
(* each hop, and the request slot each hop takes and gives back.           *)
(*                                                                         *)
(* A step is one stretch of the task between two awaits.  A header is a    *)
(* triple <<name, who set it, for which origin>>; one origin stands for    *)
(* all the URLs below it, one name for every name the policy treats alike. *)
(***************************************************************************)
EXTENDS Integers, Sequences, FiniteSets

CONSTANTS
  Origins, Https,   \* origins, and those with the https scheme
  First,            \* origin of the request's URL
  Forbidden,        \* origins an SSRF policy refuses
  RetryMethods, RetryStatuses,
  CallerNames,      \* headers a caller may set
  HookNames,        \* headers an auth hook may return
  Calls,            \* calls of the model, see CallType
  MaxRedirects, MaxRetries,
  NoOrigin

(* What the client is configured to do, and what a call asks for. *)
Configs == [stream : BOOLEAN, follow : BOOLEAN, retry : BOOLEAN, networkErrors : BOOLEAN,
            cookies : BOOLEAN, ssrf : BOOLEAN, useProxy : BOOLEAN,
            proxy : {"direct", "explicit", "environment"}, auth : {"none", "basic", "hook"}]
CallType == [config : Configs, method : {"GET", "POST", "QUERY", "PUT"},
             body : {"empty", "replayable", "nonReplayable"}, names : SUBSET CallerNames]

ASSUME LoopAssumption ==
  /\ Https \subseteq Origins /\ Forbidden \subseteq Origins
  /\ First \in Origins /\ NoOrigin \notin Origins
  /\ MaxRedirects \in Nat /\ MaxRetries \in Nat
  /\ RetryStatuses \subseteq Nat
  /\ Calls \subseteq CallType

VARIABLES
  config,     \* what the client and the caller asked for
  pc, result,
  method, url, headers,
  body,       \* RequestState.body and body_policy
  managed,    \* RequestCookieState.managed_header
  auth,       \* RequestAuthState, or NoAuth
  jar,        \* origins the client's cookie jar has a cookie for
  route,
  slot,       \* origin of the AcquirePermit the task holds
  action,     \* the pending redirect decision
  history,    \* origins of the redirect responses
  retries,    \* completed_retries
  trace,      \* RetryTraceRecorder.attempts
  sends, taken   \* requests sent, request bodies taken

headerVars == <<method, url, headers, body, managed, auth>>
countVars  == <<history, retries, trace, sends, taken>>
vars == <<config, pc, result, headerVars, jar, route, slot, action, countVars>>

NoAuth == [present |-> FALSE]
NoAction == [kind |-> "none"]
Names(hs) == {h[1] : h \in hs}
Without(hs, names) == {h \in hs : h[1] \notin names}
RetryAttempt == retries + 1
Goto(step) == pc' = step

--------------------------------------------------------------------------------
(* The header classes of core/policy/redirect/headers.rs, by the names that  *)
(* stand for them.                                                           *)
AlwaysRebuilt == {"connection", "host"}
ConnectionOptions(hs) == IF "connection" \in Names(hs) THEN {"x-hop"} ELSE {}
Conditional == {"if-match"}
ContentMetadata == {"content-type"}
CrossOriginHeaders == {"authorization", "cookie", "referer"}

(* redirect_headers *)
RedirectHeaders(hs, drop, cross) ==
  Without(hs, AlwaysRebuilt \cup ConnectionOptions(hs) \cup Conditional
              \cup (IF drop THEN ContentMetadata ELSE {})
              \cup (IF cross THEN CrossOriginHeaders ELSE {}))

(* redirect_method: 301 stands for 302, 307 for 308.                         *)
RedirectStatuses == {301, 303, 307}

RedirectMethod(m, status) ==
  CASE m = "GET"                            -> <<"GET", FALSE>>
    [] m = "POST" /\ status \in {301, 303}  -> <<"GET", TRUE>>
    [] m = "POST" /\ status = 307           -> <<"POST", FALSE>>
    [] m = "QUERY" /\ status \in {301, 307} -> <<"QUERY", FALSE>>
    [] m = "QUERY" /\ status = 303          -> <<"GET", TRUE>>
    [] OTHER                                -> <<>>

(* Mutant: a body that is to be preserved is preserved everywhere. *)
RedirectDecisionKeepsBody(status, location) ==
  LET next == RedirectMethod(method, status)
      cross == location # url
  IN  IF status \notin RedirectStatuses \/ location = NoOrigin \/ next = <<>> THEN NoAction
      ELSE IF url \in Https /\ location \notin Https THEN [kind |-> "block"]
      ELSE [kind |-> "follow", method |-> next[1], url |-> location,
            cross |-> cross, drop |-> next[2]]

(* redirect_decision and redirect_security_policy: a body never crosses to   *)
(* another origin, and https never becomes http.                             *)
RedirectDecision(status, location) ==
  LET next == RedirectMethod(method, status)
      cross == location # url
  IN  IF status \notin RedirectStatuses \/ location = NoOrigin \/ next = <<>> THEN NoAction
      ELSE IF url \in Https /\ location \notin Https THEN [kind |-> "block"]
      ELSE [kind |-> "follow", method |-> next[1], url |-> location,
            cross |-> cross, drop |-> next[2] \/ cross]

(* RetryPolicy::decision *)
RetryDecision ==
  IF body = "nonReplayable" \/ method \notin RetryMethods \/ retries >= MaxRetries
  THEN "stop" ELSE "retry"

(* ProxyPolicy::route, with the SSRF policy of before_send.                  *)
Route(policy, useProxy, origin) ==
  CASE policy = "direct" -> "direct"
    [] policy = "explicit" -> "proxy"
    [] policy = "environment" /\ origin = First -> IF useProxy THEN "proxy" ELSE "direct"
    [] OTHER -> "refused"

(* Mutant: the policy looks at the first hop only. *)
RefusedFirst ==
  LET r == Route(config.proxy, config.useProxy, url)
  IN  r = "refused" \/ (config.ssrf /\ history = <<>> /\ (url \in Forbidden \/ r = "proxy"))

Refused ==
  LET r == Route(config.proxy, config.useProxy, url)
  IN  r = "refused" \/ (config.ssrf /\ (url \in Forbidden \/ r = "proxy"))

--------------------------------------------------------------------------------
(* RequestState::try_from.  Names the caller set may come from the client's  *)
(* defaults, which auth may replace, or be the request's own.                *)
Init ==
  /\ pc = "route" /\ result = "none" /\ url = First
  /\ \E call \in Calls :
       /\ config = call.config /\ method = call.method /\ body = call.body
       /\ headers = {<<n, "caller", First>> : n \in call.names}
       /\ IF config.auth = "none" THEN auth = NoAuth
          ELSE \E owned \in SUBSET call.names, removed \in SUBSET (HookNames \ call.names) :
                 auth = [present |-> TRUE, base |-> headers, active |-> {}, sensitive |-> {},
                         owned |-> owned, removed |-> removed]
  /\ managed = FALSE
  /\ jar \in {{}, {First}}
  /\ route = "none" /\ slot = NoOrigin /\ action = NoAction
  /\ history = <<>> /\ retries = 0 /\ trace = <<>> /\ sends = 0 /\ taken = 0

(* RetryTraceRecorder::record *)
Attempt(decision, completion) ==
  [attempt |-> RetryAttempt, decision |-> decision, completion |-> completion]

Recorded(decision, completion) ==
  IF config.retry THEN Append(trace, Attempt(decision, completion)) ELSE trace

(* Mutant: a recorded attempt is left as it is. *)
FinishTracePending(t) ==
  IF ~config.retry \/ (t # <<>> /\ t[Len(t)].attempt = RetryAttempt) THEN t
  ELSE Append(t, Attempt("none", "complete"))

(* RetryTraceRecorder::finish, on every way out but cancellation: the last   *)
(* attempt is completed, or added when no decision was recorded for it.      *)
FinishTrace(t) ==
  IF ~config.retry THEN t
  ELSE IF t # <<>> /\ t[Len(t)].attempt = RetryAttempt
       THEN [t EXCEPT ![Len(t)].completion = "complete"]
       ELSE Append(t, Attempt("none", "complete"))

(* The task ends; whatever it holds is dropped.                              *)
End(outcome, t) ==
  /\ pc' = "done" /\ result' = outcome
  /\ trace' = FinishTrace(t)
  /\ slot' = IF outcome = "stream" THEN slot ELSE NoOrigin

--------------------------------------------------------------------------------
(* Mutant: the cookie of the last hop stays. *)
RemoveManagedNothing == UNCHANGED <<headers, managed>>

(* remove_managed_header *)
RemoveManaged ==
  /\ headers' = IF managed THEN Without(headers, {"cookie"}) ELSE headers
  /\ managed' = FALSE

(* begin_transport_hop and transport_route, to PolicyPipeline::before_send.  *)
TransportRoute ==
  /\ pc = "route"
  /\ RemoveManaged
  /\ IF Refused THEN End("error", trace) /\ UNCHANGED route
     ELSE /\ route' = Route(config.proxy, config.useProxy, url)
          /\ Goto(IF auth.present THEN "auth" ELSE "attach")
          /\ UNCHANGED <<result, trace, slot>>
  /\ UNCHANGED <<config, method, url, body, auth, jar, action, history, retries, sends, taken>>

(* The headers without what auth added to them.                              *)
AuthFree == IF auth.active # {} THEN auth.base ELSE headers

CanApply(name) ==
  name \notin auth.removed /\ ~(name \in auth.owned /\ name \in Names(AuthFree))

(* RequestAuthState::apply; a hook may raise, and yields to aborts after it. *)
AuthApply(updates) ==
  LET applied == {n \in updates : CanApply(n)}
  IN  /\ headers' = Without(AuthFree, applied) \cup {<<n, "auth", url>> : n \in applied}
      /\ auth' = [auth EXCEPT !.sensitive = @ \cup applied, !.active = applied]

Authenticate ==
  /\ pc = "auth"
  /\ \/ /\ config.auth = "basic"
        /\ AuthApply({"authorization"})
        /\ Goto("attach")
        /\ UNCHANGED <<result, trace, slot>>
     \/ /\ config.auth = "hook"
        /\ \E updates \in SUBSET HookNames : AuthApply(updates)
        /\ Goto("yield")
        /\ UNCHANGED <<result, trace, slot>>
     \/ /\ config.auth = "hook"
        /\ End("error", trace)
        /\ UNCHANGED <<headers, auth>>
  /\ UNCHANGED <<config, method, url, body, managed, jar, route, action, history, retries,
                 sends, taken>>

Resume ==
  /\ pc = "yield"
  /\ Goto("attach")
  /\ UNCHANGED <<config, result, headerVars, jar, route, slot, action, countVars>>

(* RequestCookieState::attach and the before_send hook, which may raise.     *)
AttachCookies ==
  /\ pc = "attach"
  /\ LET attaches == config.cookies /\ "cookie" \notin Names(headers) /\ url \in jar
     IN  /\ headers' = IF attaches THEN headers \cup {<<"cookie", "jar", url>>} ELSE headers
         /\ managed' = (managed \/ attaches)
  /\ \/ Goto("acquire") /\ UNCHANGED <<result, trace, slot>>
     \/ End("error", trace)
  /\ UNCHANGED <<config, method, url, body, auth, jar, route, action, history, retries,
                 sends, taken>>

(* acquire_request_slot, and send_current_hop up to its await.  Taking the   *)
(* receiver of an upload twice fails in the code; here it is counted.        *)
AcquireSlot ==
  /\ pc = "acquire"
  /\ \/ /\ slot' = url
        /\ Goto("sending")
        /\ sends' = sends + 1
        /\ taken' = IF body = "empty" THEN taken ELSE taken + 1
        /\ UNCHANGED <<result, trace>>
     \/ End("error", trace) /\ UNCHANGED <<sends, taken>>
  /\ UNCHANGED <<config, headerVars, jar, route, action, history, retries>>

--------------------------------------------------------------------------------
(* retry_after_network_error: the decision is recorded, the slot given back  *)
(* before the backoff.                                                       *)
RetryNetworkError(retryable) ==
  IF retryable /\ config.retry /\ config.networkErrors
  THEN IF RetryDecision = "retry"
       THEN /\ trace' = Recorded("retry", "complete")
            /\ slot' = NoOrigin
            /\ Goto("backoff") /\ UNCHANGED result
       ELSE End("error", Recorded("stop", "complete"))
  ELSE End("error", trace)

(* The response headers do not come: a transport error or Timeouts.total.    *)
SendFails ==
  /\ pc = "sending"
  /\ \E retryable \in BOOLEAN : RetryNetworkError(retryable)
  /\ UNCHANGED <<config, headerVars, jar, route, action, history, retries, sends, taken>>

(* on_response_headers: the jar first, then the redirect decision, then the  *)
(* hook, which may raise; only a response that is no redirect is retried.    *)
Statuses == {200} \cup RedirectStatuses \cup RetryStatuses

ResponseHeaders(status, location) ==
  /\ pc = "sending"
  /\ \E stored \in {{}, {url}} : jar' = IF config.cookies THEN jar \cup stored ELSE jar
  /\ LET decided == IF config.follow THEN RedirectDecision(status, location) ELSE NoAction
         retry == IF decided = NoAction /\ config.retry /\ status \in RetryStatuses
                  THEN RetryDecision ELSE "none"
         completion == IF config.stream THEN "complete" ELSE "pending"
         stopped == IF retry = "stop"
                    THEN Recorded("stop", completion)
                    ELSE trace
     IN  \/ /\ action' = decided
            /\ \/ retry = "retry" /\ Goto("draining") /\ UNCHANGED <<result, slot, trace>>
               \/ /\ retry # "retry" /\ (decided # NoAction \/ ~config.stream)
                  /\ Goto("reading") /\ trace' = stopped /\ UNCHANGED <<result, slot>>
               \/ /\ retry # "retry" /\ decided = NoAction /\ config.stream
                  /\ \E outcome \in {"stream", "error"} : End(outcome, stopped)
         \/ End("error", trace) /\ UNCHANGED action
  /\ UNCHANGED <<config, headerVars, route, history, retries, sends, taken>>

(* Mutant: the slot goes back only when the retry is over. *)
DrainHoldingSlot ==
  /\ pc = "draining"
  /\ trace' = Recorded("retry", "complete") /\ Goto("backoff") /\ UNCHANGED <<result, slot>>
  /\ UNCHANGED <<config, headerVars, jar, route, action, history, retries, sends, taken>>

(* retry_after_response: drain, give the slot back, record, wait.            *)
Drain ==
  /\ pc = "draining"
  /\ \/ /\ slot' = NoOrigin
        /\ trace' = Recorded("retry", "complete")
        /\ Goto("backoff") /\ UNCHANGED result
     \/ End("error", trace)
  /\ UNCHANGED <<config, headerVars, jar, route, action, history, retries, sends, taken>>

(* wait_for_retry and advance_retry_attempt. *)
Backoff ==
  /\ pc = "backoff"
  /\ \/ retries' = retries + 1 /\ Goto("route") /\ UNCHANGED <<result, trace, slot>>
     \/ End("error", trace) /\ UNCHANGED retries
  /\ UNCHANGED <<config, headerVars, jar, route, action, history, sends, taken>>

(* raw_response of a response that ends the loop. *)
ReadLast ==
  /\ pc = "reading" /\ action = NoAction
  /\ \E outcome \in {"response", "error"} : End(outcome, trace)
  /\ UNCHANGED <<config, headerVars, jar, route, action, history, retries, sends, taken>>

(* PolicyPipeline::after_response_body *)
MayFollow ==
  /\ Len(history) < MaxRedirects
  /\ action.kind = "follow"
  /\ action.drop \/ body # "nonReplayable"
  /\ config.proxy = "environment" => action.url = First

(* Mutant: only the headers known to be credentials end at another origin. *)
OnRedirectKeepsAuth ==
  LET kept == RedirectHeaders(IF auth.present /\ ~action.cross THEN auth.base ELSE headers,
                              action.drop, action.cross)
  IN  /\ headers' = kept
      /\ auth' = IF ~auth.present \/ action.cross THEN NoAuth
                 ELSE [auth EXCEPT !.base = kept, !.active = {}]

(* apply_policy_mutation with RequestAuthState::on_redirect: auth continues  *)
(* from its own base headers, and ends at the first other origin.            *)
OnRedirect ==
  IF auth.present
  THEN LET kept == RedirectHeaders(auth.base, action.drop, action.cross)
       IN  IF action.cross
           THEN headers' = Without(kept, auth.sensitive) /\ auth' = NoAuth
           ELSE headers' = kept /\ auth' = [auth EXCEPT !.base = kept, !.active = {}]
  ELSE /\ headers' = RedirectHeaders(IF managed THEN Without(headers, {"cookie"}) ELSE headers,
                                     action.drop, action.cross)
       /\ UNCHANGED auth

(* raw_response of a redirect, and after_response_body, whose hook may raise. *)
FollowRedirect ==
  /\ pc = "reading" /\ action # NoAction
  /\ \/ /\ MayFollow
        /\ OnRedirect
        /\ method' = action.method /\ url' = action.url
        /\ managed' = FALSE
        /\ body' = IF action.drop THEN "empty" ELSE body
        /\ history' = Append(history, url)
        /\ slot' = NoOrigin
        /\ Goto("route") /\ UNCHANGED <<result, trace>>
     \/ End("error", trace) /\ UNCHANGED <<headerVars, history>>
  /\ action' = NoAction
  /\ UNCHANGED <<config, jar, route, retries, sends, taken>>

(* The task is aborted at an await. *)
Cancel ==
  /\ pc \in {"yield", "acquire", "sending", "reading", "draining", "backoff"}
  /\ pc' = "done" /\ result' = "cancelled" /\ slot' = NoOrigin
  /\ UNCHANGED <<config, headerVars, jar, route, action, countVars>>

--------------------------------------------------------------------------------
Next ==
  \/ TransportRoute \/ Authenticate \/ Resume \/ AttachCookies \/ AcquireSlot
  \/ SendFails
  \/ \E status \in Statuses, location \in Origins \cup {NoOrigin} :
       ResponseHeaders(status, location)
  \/ Drain \/ Backoff \/ ReadLast \/ FollowRedirect
  \/ Cancel

Spec == Init /\ [][Next]_vars

--------------------------------------------------------------------------------
(* Properties *)

Steps == {"route", "auth", "yield", "attach", "acquire", "sending", "draining", "reading",
          "backoff", "done"}
Headers == (CallerNames \X {"caller"} \X {First})
           \cup ((HookNames \cup {"authorization"}) \X {"auth"} \X Origins)
           \cup ({"cookie"} \X {"jar"} \X Origins)

(* Every variable has its type, and nothing is recorded twice for one        *)
(* attempt: the entries of the retry trace are numbered 1, 2, ...  (the      *)
(* debug_asserts of RetryTraceRecorder::record).                             *)
TypeOK ==
  /\ pc \in Steps
  /\ result \in {"none", "response", "stream", "error", "cancelled"}
  /\ method \in {"GET", "POST", "QUERY", "PUT"} /\ url \in Origins
  /\ headers \subseteq Headers
  /\ body \in {"empty", "replayable", "nonReplayable"}
  /\ managed \in BOOLEAN
  /\ auth.present => auth.base \subseteq Headers
  /\ jar \subseteq Origins
  /\ route \in {"none", "direct", "proxy"}
  /\ slot \in Origins \cup {NoOrigin}
  /\ history \in Seq(Origins)
  /\ retries \in 0 .. MaxRetries
  /\ Len(history) <= MaxRedirects
  /\ sends \in 0 .. 1 + retries + Len(history)
  /\ \A i \in 1 .. Len(trace) : trace[i].attempt = i

(* The request has been to another origin than its first. *)
Crossed == url # First \/ \E i \in 1 .. Len(history) : history[i] # First

(* "On the first cross-origin redirect, FogHTTP removes every header         *)
(* actually managed by auth [...] and disables auth for the rest of that     *)
(* logical request", and "never blindly forwards a managed cookie": whatever *)
(* chain of retries and redirects leads there, and also back at the first    *)
(* origin, a request that has crossed carries no auth header and none of the *)
(* caller's credentials, and a cookie of the jar goes to its own origin.     *)
CredentialsStayHome ==
  pc = "sending" => \A h \in headers :
    /\ h[2] \in {"auth", "jar"} => h[3] = url
    /\ Crossed => h[2] # "auth" /\ ~(h[2] = "caller" /\ h[1] \in CrossOriginHeaders)

(* What the caller said of the body. *)
CallersContent(hs) == {h \in hs : h[1] \in ContentMetadata /\ h[2] = "caller"}

(* "For cross-origin method-preserving redirects, FogHTTP preserves the      *)
(* method but drops any body and its content metadata": no body leaves its   *)
(* origin, and what the caller said of a body never goes out without it (an  *)
(* auth hook may name a content type of its own for any request).            *)
(* A body that cannot be replayed is taken once (STREAMING_BODY_CONSUMED),   *)
(* whatever mix of retries and redirects follows the first send.             *)
BodyStaysHome ==
  /\ pc = "sending" => /\ body # "empty" => ~Crossed
                       /\ taken > 0 /\ body = "empty" => CallersContent(headers) = {}
  /\ body = "nonReplayable" => taken <= 1

(* "refresh logic never sees or permanently replaces its stale output": the  *)
(* snapshot an auth hook gets holds what the caller set, nothing that auth   *)
(* or the jar added on an earlier attempt.                                   *)
AuthSeesCleanHeaders ==
  pc = "auth" => \A h \in AuthFree : h[2] = "caller"

(* "sleeping retries do not occupy active transport capacity": a slot is     *)
(* held exactly while its origin is talked to, or by the stream handed out.  *)
SlotMatchesExchange ==
  IF pc \in {"sending", "reading", "draining"} \/ result = "stream"
  THEN slot = url ELSE slot = NoOrigin

(* The policies hold on every hop, not only the first: no request goes to an *)
(* origin the SSRF policy refuses or through a proxy it cannot see behind,   *)
(* to an origin whose environment proxy is unknown, or from https to http.   *)
FailsClosed ==
  pc = "sending" =>
    /\ config.ssrf => url \notin Forbidden /\ route = "direct"
    /\ config.proxy = "environment" => url = First
    /\ \A i \in 1 .. Len(history) : history[i] \in Https => url \in Https

(* The trace a caller gets has one completed entry per attempt, and says     *)
(* "retry" for each one but the last: a retry that was decided but whose     *)
(* backoff timed out is the only one that may end the trace.  "retries is    *)
(* the number of additional sends allowed by retry decisions across one      *)
(* logical request", and "redirect hops are bounded separately": both        *)
(* together bound the requests that are sent.                                *)
TraceTellsAttempts ==
  /\ sends <= 1 + retries + Len(history)
  /\ retries <= MaxRetries /\ Len(history) <= MaxRedirects
  /\ result \in {"response", "stream", "error"} /\ config.retry =>
       /\ Len(trace) = RetryAttempt
       /\ \A i \in 1 .. Len(trace) : /\ trace[i].completion = "complete"
                                     /\ i < Len(trace) => trace[i].decision = "retry"
       /\ result # "error" => trace[Len(trace)].decision # "retry"

================================================================================
