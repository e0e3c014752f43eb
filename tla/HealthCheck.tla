----------------------------- MODULE HealthCheck -----------------------------
(***************************************************************************)
(* The health checker of the toolbox: the page (src/browser/toolbox/       *)
(* api-health.ts), the route (src/routes/toolbox.ts), which calls every    *)
(* endpoint at once with #guardedFetch (src/routes/http-request.ts) under  *)
(* the network policy (src/security.ts), and the verdicts                  *)
(* (src/toolbox/health.ts).  DNS and the endpoints answer as they like:    *)
(* the policy asks DNS about a hop, and fetch() asks it again.             *)
(***************************************************************************)
EXTENDS Positions, SequencesExt

CONSTANTS
  Host,           \* the hosts of the URLs one may type or be redirected to
  DnsAnswer,        \* what DNS may answer
  Blocked,        \* the addresses of #BLOCKED_ADDRESSES
  MAX_HEALTH_CHECKS,
  MAX_REDIRECTS,
  AllowPrivate    \* #config.allowPrivateTargets, over which TLC varies

Blank == ""

ASSUME HealthCheckAssumption ==
  /\ Blank \notin Host
  /\ Blocked \subseteq DnsAnswer /\ AllowPrivate \subseteq BOOLEAN
  /\ MAX_HEALTH_CHECKS \in Nat \ {0} /\ MAX_REDIRECTS \in Nat

VARIABLES
  allowed,    \* the configuration of this server
  rows,       \* the rows of the form: a host, or Blank
  request,    \* "none", "sent", "checking" or "answered"; the button is disabled but in "none"
  checks,     \* the endpoints of the last request
  calls,      \* #guardedFetch of each: where it is, its hop, what it waits for, the answers its guard keeps
  outcomes,   \* what the page lists
  panel,      \* whether the list is shown
  contacted,  \* the hops that were fetched: <<check, hop, host, answer the policy was given>>
  reached     \* the blocked addresses those fetches connected to

healthVars == <<allowed, rows, request, checks, calls, outcomes, panel, contacted, reached>>
pageVars == <<rows, outcomes, panel>>

Unresolved == {}
HealthInit ==
  /\ allowed \in AllowPrivate
  /\ rows = <<Blank>> /\ request = "none" /\ checks = <<>> /\ calls = <<>>
  /\ outcomes = <<>> /\ panel = FALSE /\ contacted = {} /\ reached = {}

\* Bound: rows are typed between requests; a request has taken its rows when it left.
TypeUrl(i, h) ==
  /\ request = "none" /\ i \in DOMAIN rows /\ rows' = [rows EXCEPT ![i] = h]
  /\ UNCHANGED <<allowed, request, checks, calls, outcomes, panel, contacted, reached>>

AddRow ==
  /\ request = "none" /\ Len(rows) < MAX_HEALTH_CHECKS /\ rows' = Append(rows, Blank)
  /\ UNCHANGED <<allowed, request, checks, calls, outcomes, panel, contacted, reached>>

\* The last row removed leaves a blank one.
RemoveRow(i) ==
  /\ request = "none" /\ i \in DOMAIN rows
  /\ rows' = IF Len(rows) = 1 THEN <<Blank>> ELSE RemoveAt(rows, i)
  /\ UNCHANGED <<allowed, request, checks, calls, outcomes, panel, contacted, reached>>

\* #health-clear does not stop a request under way.
ClearAll ==
  /\ rows' = <<Blank>> /\ outcomes' = <<>> /\ panel' = FALSE
  /\ UNCHANGED <<allowed, request, checks, calls, contacted, reached>>

Filled == Picked(rows, {i \in DOMAIN rows : rows[i] # Blank})

Run ==
  /\ request = "none" /\ Filled # <<>>
  /\ request' = "sent" /\ checks' = Filled /\ calls' = <<>> /\ contacted' = {} /\ reached' = {}
  /\ UNCHANGED <<allowed, rows, outcomes, panel>>

\* No session where one is required, the rate limit, or a body the route refuses.
RefuseChecks ==
  /\ request = "sent"
  /\ request' = "none" /\ panel' = FALSE
  /\ UNCHANGED <<allowed, rows, checks, calls, outcomes, contacted, reached>>

\* The guard's answers start empty: one PublicNetworkGuard per call.
StartChecks ==
  /\ request = "sent"
  /\ request' = "checking"
  /\ calls' = [i \in DOMAIN checks |-> [at |-> checks[i], hop |-> 0, waits |-> "guard", pinned |-> [h \in Host |-> Unresolved], reply |-> "none"]]
  /\ UNCHANGED <<allowed, checks, contacted, reached>> /\ UNCHANGED pageVars

\* Mutant: each hop is judged alone, whatever the host answered before.
PublicNow(c, answer) == answer # {} /\ answer \cap Blocked = {}

\* #publicResolution and PublicNetworkGuard.resolve: every address, and the answer before; a
\* name refused for itself, or that DNS does not know, is one with no address.
Public(c, answer) ==
  /\ answer # {} /\ answer \cap Blocked = {}
  /\ c.pinned[c.at] \in {Unresolved, answer}

AssertPublic(i, answer) ==
  /\ request = "checking" /\ calls[i].waits = "guard"
  /\ calls' = [calls EXCEPT ![i] =
       IF allowed THEN [@ EXCEPT !.waits = "fetch"]
       ELSE IF Public(@, answer) THEN [@ EXCEPT !.waits = "fetch", !.pinned[@.at] = answer]
       ELSE [@ EXCEPT !.waits = "done", !.reply = "unreached"]]
  /\ UNCHANGED <<allowed, request, checks, contacted, reached>> /\ UNCHANGED pageVars

Fetched(i) == contacted' = contacted \cup {<<i, calls[i].hop, calls[i].at, calls[i].pinned[calls[i].at]>>}

\* fetch(currentUrl) resolves the name again: the answer the guard keeps binds the guard alone.
Connects == \E address \in DnsAnswer : reached' = reached \cup ({address} \cap Blocked)

\* A redirect is followed up to #MAX_REDIRECTS times.
Redirected(i, h) ==
  /\ request = "checking" /\ calls[i].waits = "fetch" /\ Fetched(i) /\ Connects
  /\ calls' = [calls EXCEPT ![i] = IF @.hop = MAX_REDIRECTS
       THEN [@ EXCEPT !.waits = "done", !.reply = "unreached"]
       ELSE [@ EXCEPT !.at = h, !.hop = calls[i].hop + 1, !.waits = "guard"]]
  /\ UNCHANGED <<allowed, request, checks>> /\ UNCHANGED pageVars

\* The expected status in time, late, another status, or nothing before the timeout.
Replies == {"expected", "late", "other", "unreached"}
Replied(i, reply) ==
  /\ request = "checking" /\ calls[i].waits = "fetch" /\ Fetched(i)
  /\ \/ Connects
     \/ reply = "unreached" /\ reached' = reached
  /\ calls' = [calls EXCEPT ![i].waits = "done", ![i].reply = reply]
  /\ UNCHANGED <<allowed, request, checks>> /\ UNCHANGED pageVars

\* #evaluateHealth, and the catch of the route.
EvaluateHealth(reply) == CASE reply = "expected" -> "healthy" [] reply = "late" -> "degraded" [] OTHER -> "failed"

\* #summarizeHealth: an environment is worth its worst service.
SummarizeHealth(list) ==
  LET states == {list[i].state : i \in DOMAIN list}
  IN  IF "failed" \in states THEN "failed" ELSE IF "degraded" \in states THEN "degraded" ELSE "healthy"

\* Promise.all: one answer, when every call has ended, in the order of the request.
AnswerChecks ==
  /\ request = "checking" /\ \A i \in DOMAIN calls : calls[i].waits = "done"
  /\ request' = "answered"
  /\ UNCHANGED <<allowed, checks, calls, contacted, reached>> /\ UNCHANGED pageVars

ChecksArrive ==
  /\ request = "answered"
  /\ request' = "none" /\ panel' = TRUE
  /\ outcomes' = [i \in DOMAIN checks |-> [name |-> checks[i], state |-> EvaluateHealth(calls[i].reply)]]
  /\ UNCHANGED <<allowed, rows, checks, calls, contacted, reached>>

ChecksLost ==
  /\ request \in {"checking", "answered"} /\ request' = "none" /\ panel' = FALSE
  /\ UNCHANGED <<allowed, rows, checks, calls, outcomes, contacted, reached>>

HealthNext ==
  \/ \E i \in 1..MAX_HEALTH_CHECKS : RemoveRow(i) \/ \E h \in Host : TypeUrl(i, h)
  \/ AddRow \/ ClearAll \/ Run \/ RefuseChecks \/ StartChecks \/ AnswerChecks \/ ChecksArrive \/ ChecksLost
  \/ \E i \in DOMAIN calls :
       \/ \E answer \in SUBSET DnsAnswer : AssertPublic(i, answer)
       \/ \E h \in Host : Redirected(i, h)
       \/ \E reply \in Replies : Replied(i, reply)

HealthSpec == HealthInit /\ [][HealthNext]_healthVars

-----------------------------------------------------------------------------
(***************************************************************************)
(* Under the public-network policy no hop, the redirected ones too, is     *)
(* fetched before the policy was given addresses for its host, none of     *)
(* them blocked and the same ones on every hop of the call; no call makes  *)
(* more than one request and its redirects; and the list shown answers for *)
(* all the endpoints of the last request, healthy only where that very     *)
(* endpoint gave the expected status in time, and never worth more than    *)
(* its worst (#guardedFetch, the route's Promise.all, #run,                *)
(* #summarizeHealth).                                                      *)
(***************************************************************************)
HopsWereAllowed ==
  ~allowed => \A f \in contacted :
    /\ f[4] # {} /\ f[4] \cap Blocked = {}
    /\ \A g \in contacted : g[1] = f[1] /\ g[3] = f[3] => g[4] = f[4]

HealthReportIsSound ==
  /\ HopsWereAllowed
  /\ \A f \in contacted : f[2] \in 0..MAX_REDIRECTS
  /\ panel /\ request = "none" =>
       /\ Len(outcomes) = Len(checks)
       /\ \A i \in DOMAIN checks :
            outcomes[i].name = checks[i] /\ (outcomes[i].state = "healthy" => \E f \in contacted : f[1] = i)
       /\ (SummarizeHealth(outcomes) = "healthy") = (\A i \in DOMAIN checks : calls[i].reply = "expected")

\* Not so, and no run claims it: the address a fetch connects to is one the policy allowed.
\* DNS may give fetch() another answer than it gave the guard.
NothingBlockedIsReached == ~allowed => reached = {}
=============================================================================
