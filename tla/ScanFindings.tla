----------------------------- MODULE ScanFindings -----------------------------
(* What a scan makes of what it observed: the listeners' findings             *)
(* (scanner-events.ts), which of them are one problem (scanner-evidence.ts),  *)
(* their fingerprints (fingerprint.ts), duplicates and the gate (quality.ts), *)
(* the comparison with the baseline (baseline.ts).  A finding is abstracted   *)
(* to its kind and the address it is about; a rejected cookie, whose reports  *)
(* are grouped by its name before, to its kind and that name.                 *)
EXTENDS Naturals, FiniteSets, SequencesExt

CONSTANTS Address, Unknown, MaxFindings   \* Unknown: an address nobody gave

ASSUME ScanFindingsAssumption == Unknown \in Address /\ MaxFindings \in Nat

Kind == {
  "http", "warn", "network",  \* an answer in error (two severities), a request that failed
  "cors", "load", "console",  \* console: CORS, "Failed to load resource", another error
  "cookie",                   \* console: a cookie rejected
  "image", "dom", "script"}   \* a broken image, another element, an exception

Category(kind) ==
  CASE kind \in {"http", "warn"} -> "http" [] kind = "network" -> "network"
    [] kind \in {"cors", "load", "console", "cookie"} -> "console"
    [] kind \in {"image", "dom"} -> "element" [] OTHER -> "javascript"

Severity(kind) == IF kind \in {"warn", "cookie", "dom"} THEN "warning" ELSE "error"

Observation == [kind : Kind, url : Address]

-----------------------------------------------------------------------------
(* correlateIssues                                                            *)

\* Any console error about a failed resource gives way, CORS included.
DropsAnyConsole(o) == Category(o.kind) = "console" \/ o.kind = "image"

\* Of the findings about one resource, those that only repeat the transport's.
RepeatsTransport(o) == o.kind = "load" \/ o.kind = "image"

SomeOther(seen, i, P(_)) == \E j \in 1..Len(seen) : j # i /\ seen[j].url = seen[i].url /\ P(seen[j].kind)

Dropped(seen, i) ==
  /\ seen[i].url # Unknown
  /\ \/ /\ seen[i].kind = "network"
        /\ SomeOther(seen, i, LAMBDA k : k = "cors")
     \/ /\ RepeatsTransport(seen[i])
        /\ SomeOther(seen, i, LAMBDA k : Category(k) \in {"http", "network"})

Kept(seen) == {i \in 1..Len(seen) : ~Dropped(seen, i)}

\* identifyIssue and deduplicateIssues: one issue per identity, counting.  An
\* issue is [kind, url, occurrences]; kind and address are its fingerprint.
Fingerprint(o) == <<o.kind, o.url>>

Identities(seen) == {Fingerprint(seen[i]) : i \in Kept(seen)}

\* Only the first of a group is counted.
CountOnce(seen, f) == 1

Occurrences(seen, f) == Cardinality({i \in Kept(seen) : Fingerprint(seen[i]) = f})

Issues(seen) == {[kind |-> f[1], url |-> f[2], occurrences |-> Occurrences(seen, f)] : f \in Identities(seen)}

\* deduplicateIssues sorts: errors, then the rest.
Ordered(issues) ==
  SetToSeq({i \in issues : Severity(i.kind) = "error"}) \o SetToSeq({i \in issues : Severity(i.kind) # "error"})

-----------------------------------------------------------------------------
(* summarizeIssues, compareWithBaseline, passesQualityGate                    *)

Summary(issues) ==
  [errors |-> Cardinality({i \in issues : Severity(i.kind) = "error"}),
   warnings |-> Cardinality({i \in issues : Severity(i.kind) = "warning"})]

NewIssues(issues, baseline) == {i \in issues : <<i.kind, i.url>> \notin baseline}

Compare(issues, baseline) ==
  [new |-> Cardinality(NewIssues(issues, baseline)),
   existing |-> Cardinality(issues) - Cardinality(NewIssues(issues, baseline)),
   resolved |-> Cardinality(baseline \ {<<i.kind, i.url>> : i \in issues})]

\* The gate of a regressions-only scan counts every issue.
GateOfAll(issues, baseline, regressionsOnly) == Summary(issues)

GateSummary(issues, baseline, regressionsOnly) ==
  Summary(IF regressionsOnly THEN NewIssues(issues, baseline) ELSE issues)

Passes(summary, failOn) ==
  CASE failOn = "none" -> TRUE
    [] failOn = "warning" -> summary.errors + summary.warnings = 0
    [] OTHER -> summary.errors = 0

-----------------------------------------------------------------------------
(* Scan after scan of one project, each compared with the accepted baseline.  *)

VARIABLES seen, accepted, scans

findingsVars == <<seen, accepted, scans>>

FindingsInit == seen = <<>> /\ accepted = {} /\ scans = 0

\* The scan before this one becomes the baseline when storeRun promotes it.
NextScan ==
  /\ scans < 2 /\ scans' = scans + 1
  /\ \/ accepted' = Identities(seen) /\ Passes(Summary(Issues(seen)), "error")
     \/ UNCHANGED accepted
  /\ seen' \in BoundedSeq(Observation, IF scans = 0 THEN 1 ELSE MaxFindings)

FindingsSpec == FindingsInit /\ [][NextScan]_findingsVars

\* Correlating never loses a problem: whatever was observed about an address
\* is still represented by an issue about it.
AddressKept ==
  \A i \in 1..Len(seen) : \E j \in Issues(seen) : j.url = seen[i].url

\* The counters of the comparison add up: an issue is new or existing, and what
\* the baseline holds is existing or resolved.
ComparisonAddsUp ==
  LET compared == Compare(Issues(seen), accepted) IN
  /\ compared.new + compared.existing = Cardinality(Issues(seen))
  /\ compared.existing + compared.resolved = Cardinality(accepted)

\* Nothing is counted twice or lost on the way from the kept findings to the
\* issues, nor between the issues and the counters of the comparison.
CountsAddUp ==
  /\ Cardinality(UNION {{i} \X (1..i.occurrences) : i \in Issues(seen)}) = Cardinality(Kept(seen))
  /\ ComparisonAddsUp
  /\ Len(Ordered(Issues(seen))) = Cardinality(Issues(seen))
  /\ \A a, b \in 1..Len(Ordered(Issues(seen))) :
       a < b /\ Severity(Ordered(Issues(seen))[b].kind) = "error" => Severity(Ordered(Issues(seen))[a].kind) = "error"

\* A regressions-only gate fails exactly for an issue the baseline lacks.
GateIsOfRegressions ==
  \A failOn \in {"error", "warning"} :
    ~Passes(GateSummary(Issues(seen), accepted, TRUE), failOn) <=>
      \E i \in Issues(seen) : /\ Fingerprint(i) \notin accepted
                              /\ failOn = "warning" \/ Severity(i.kind) = "error"

FindingsAreSound == AddressKept /\ CountsAddUp /\ GateIsOfRegressions
=============================================================================
