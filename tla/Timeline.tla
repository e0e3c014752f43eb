------------------------------ MODULE Timeline ------------------------------
(***************************************************************************)
(* The account's timeline (src/execution-history.ts): one page merges the  *)
(* rows of three tables, and three readers walk the pages - the client of  *)
(* GET /api/executions, the quality summary and the list of recent         *)
(* failures - while rows keep arriving, ending and expiring.               *)
(*                                                                         *)
(* The instant of a row is [ms, frac]: analyses and code executions are    *)
(* stamped in JavaScript, in whole milliseconds, while api_runs takes the  *)
(* database's now(), whose fraction of a millisecond is lost when the row  *)
(* becomes a Date (code-execution-repository.ts:122, :219 of the runs).    *)
(***************************************************************************)
EXTENDS Positions, SequencesExt

CONSTANTS
  Row,           \* the rows, by id: naturals, ordered as their uuids are
  Stored,        \* what a row may be: [source, mine, ms, frac, outcome], the outcome it comes to
  PageLimit,     \* rows of a page (MAX_HISTORY_PAGE)
  EntryLimit,    \* MAX_QUALITY_ENTRIES
  FailureLimit,  \* MAX_ALERT_FAILURES
  CurrentSince, PreviousSince   \* the two windows of the summary, in ms

TimelineSource == {"scan", "journey", "api"}

ASSUME TimelineAssumption ==
  /\ Row \subseteq Nat /\ IsFiniteSet(Row) /\ {PageLimit, EntryLimit, FailureLimit} \subseteq Nat \ {0}
  /\ {CurrentSince, PreviousSince} \subseteq Nat /\ PreviousSince <= CurrentSince /\ Stored # {}
  /\ \A s \in Stored : /\ s.source \in TimelineSource /\ s.ms \in Nat /\ s.frac \in Nat /\ (s.source # "api" => s.frac = 0)
                       /\ s.outcome \in {"passed", "failed"}

VARIABLES
  row,       \* what each row is, once written
  open,      \* the analyses that have not ended
  fate,      \* "stood" (there when the walk began), "future", "new", "gone"
  reader,    \* who walks: "pages", "summary" or "failures"
  part,      \* what each table answered for the page being read
  readAs,      \* the outcome each row had when it was last read, or NotRead
  cursor,    \* (created_at, id) of the last row returned, or NoCursor
  returned,  \* the rows returned so far, in order
  walk       \* "reading", "done" or "truncated"

lineVars == <<row, open, fate, reader, part, readAs, cursor, returned, walk>>

Unread == {-1}
NotRead == "not read"
NoCursor == [ms |-> -1, id |-> -1]

----------------------------------------------------------------------------
(* The two orders: the tables sort by the stored instant, the merge by what *)
(* is left of it in the ISO text.                                          *)

StoredLater(a, b) ==
  \/ row[a].ms > row[b].ms
  \/ row[a].ms = row[b].ms /\ row[a].frac > row[b].frac
  \/ row[a].ms = row[b].ms /\ row[a].frac = row[b].frac /\ a > b

ShownLater(a, b) == row[a].ms > row[b].ms \/ (row[a].ms = row[b].ms /\ a > b)

Newest(S, Later(_, _)) == {r \in S : Cardinality({q \in S : Later(q, r)}) < PageLimit}

\* a plausible bug: a cursor of the instant alone
InstantBeforeCursor(r) == cursor = NoCursor \/ row[r].ms < cursor.ms

BeforeCursor(r) ==
  \/ cursor = NoCursor
  \/ row[r].ms < cursor.ms
  \/ row[r].ms = cursor.ms /\ row[r].frac = 0 /\ r < cursor.id

ReaderSince == IF reader = "failures" THEN CurrentSince ELSE IF reader = "summary" THEN PreviousSince ELSE 0

MatchesHistory(src) ==
  {r \in Row : fate[r] \in {"stood", "new"} /\ row[r].source = src /\ row[r].mine /\ row[r].ms >= ReaderSince /\ BeforeCursor(r)}

\* an analysis has a row while it runs; the row of anything else comes with its
\* outcome
OutcomeNow(r) == IF r \in open THEN "running" ELSE row[r].outcome

Failures(rs) == Picked(rs, {i \in DOMAIN rs : readAs[rs[i]] = "failed"})

\* the rows of S in the order of the page
Descending(S) == [n \in 1..Cardinality(S) |-> CHOOSE r \in S : Cardinality({q \in S : ShownLater(q, r)}) = n - 1]

----------------------------------------------------------------------------

LineInit ==
  /\ row \in [Row -> Stored]
  /\ open \in SUBSET {r \in Row : row[r].source = "scan"}
  /\ fate \in [Row -> {"stood", "future"}]
  /\ reader \in {"pages", "summary", "failures"}
  /\ part = [s \in TimelineSource |-> Unread]
  /\ readAs = [r \in Row |-> NotRead]
  /\ cursor = NoCursor
  /\ returned = <<>>
  /\ walk = "reading"

\* a row is written once, when its analysis is created or its execution ends,
\* possibly long after the instant it is stamped with
RowArrives(r) ==
  /\ walk = "reading" /\ fate[r] = "future"
  /\ fate' = [fate EXCEPT ![r] = "new"]
  /\ UNCHANGED <<row, open, reader, part, readAs, cursor, returned, walk>>

\* an analysis ends: its row gets the outcome, and keeps its instant
RowEnds(r) ==
  /\ walk = "reading" /\ r \in open /\ fate[r] \in {"stood", "new"}
  /\ open' = open \ {r}
  /\ UNCHANGED <<row, fate, reader, part, readAs, cursor, returned, walk>>

\* retention, the prune of api_runs, an erasure
RowRemoved(r) ==
  /\ walk = "reading" /\ fate[r] = "stood"
  /\ fate' = [fate EXCEPT ![r] = "gone"]
  /\ UNCHANGED <<row, open, reader, part, readAs, cursor, returned, walk>>

\* the three queries run side by side, each over the table as it is then
ReadSource(s) ==
  /\ walk = "reading" /\ part[s] = Unread
  /\ part' = [part EXCEPT ![s] = Newest(MatchesHistory(s), StoredLater)]
  /\ readAs' = [r \in Row |-> IF r \in part'[s] THEN OutcomeNow(r) ELSE readAs[r]]
  /\ UNCHANGED <<row, open, fate, reader, cursor, returned, walk>>

\* a plausible bug: only what the merge left out promises a next page
OnlyCut == Cardinality(UNION {part[s] : s \in TimelineSource}) > PageLimit

MaybeMore ==
  \/ Cardinality(UNION {part[s] : s \in TimelineSource}) > PageLimit
  \/ \E s \in TimelineSource : Cardinality(part[s]) = PageLimit

\* what the reader does with a page that has a next one
GoesOn(rs) ==
  CASE reader = "pages"    -> "reading"
    [] reader = "summary"  -> IF Len(rs) >= EntryLimit THEN "truncated" ELSE "reading"
    [] reader = "failures" -> IF Len(Failures(rs)) >= FailureLimit THEN "done"
                              ELSE IF Len(rs) >= EntryLimit THEN "truncated" ELSE "reading"

MergePage ==
  LET entries == UNION {part[s] : s \in TimelineSource}
      page == Descending(Newest(entries, ShownLater))
      all == returned \o page
  IN /\ walk = "reading" /\ \A s \in TimelineSource : part[s] # Unread
     /\ returned' = all
     /\ part' = [s \in TimelineSource |-> Unread]
     /\ IF MaybeMore /\ page # <<>>
        THEN /\ cursor' = [ms |-> row[Last(page)].ms, id |-> Last(page)]
             /\ walk' = GoesOn(all)
        ELSE walk' = "done" /\ UNCHANGED cursor
     /\ UNCHANGED <<row, open, fate, reader, readAs>>

LineNext ==
  \/ \E r \in Row : RowArrives(r) \/ RowEnds(r) \/ RowRemoved(r)
  \/ \E s \in TimelineSource : ReadSource(s)
  \/ MergePage

LineSpec == LineInit /\ [][LineNext]_lineVars

----------------------------------------------------------------------------
(* The summary and the alerts, computed from what the walk returned.       *)

CurrentWindow == Picked(returned, {i \in DOMAIN returned : row[returned[i]].ms >= CurrentSince})
PreviousWindow == Picked(returned, {i \in DOMAIN returned : PreviousSince <= row[returned[i]].ms /\ row[returned[i]].ms < CurrentSince})

Counted(rs) ==
  LET with(o) == Cardinality({i \in DOMAIN rs : readAs[rs[i]] = o})
      decided == with("passed") + with("failed")
  IN [total |-> Len(rs), passed |-> with("passed"), failed |-> with("failed"), running |-> with("running"),
      \* Math.round of a percentage; -1 stands for undefined
      passRate |-> IF decided = 0 THEN -1 ELSE (200 * with("passed") + decided) \div (2 * decided)]

OfKind(rs, s) == Picked(rs, {i \in DOMAIN rs : row[rs[i]].source = s})

ListedFailures == UpTo(Failures(returned), FailureLimit)

----------------------------------------------------------------------------

\* a row the reader is owed: there all along, the account's, in the window
Owed == {r \in Row : fate[r] = "stood" /\ row[r].mine /\ row[r].ms >= ReaderSince}
Shown == ToSet(returned)

\* Another row of the same millisecond, one of the two with a fraction of it:
\* the tables and the cursor order such rows differently.
Ambiguous(r) ==
  \E q \in Row \ {r} : fate[q] # "future" /\ row[q].mine /\ row[q].ms = row[r].ms /\ row[q].frac + row[r].frac > 0

\* A walk through the pages, whoever arrives or expires meanwhile, goes
\* strictly down the timeline (so returns nothing twice), and one that ends
\* untruncated has returned every row there all along that shares its
\* millisecond with none (or with none that has a fraction of it); the summary counts each of them in exactly one window,
\* and the failures listed are the most recent ones, whatever ended meanwhile:
\* what is missing of them had not ended when it was read, or is older.
\* (execution-history.ts readExecutionHistory, quality-summary.ts, alerts.ts)
WalkIsSound ==
  /\ \A i \in 1..Len(returned) - 1 : ShownLater(returned[i], returned[i + 1])
  /\ walk = "done" /\ reader # "failures" =>
       \A r \in Owed : Ambiguous(r) \/ r \in Shown
  /\ walk = "done" /\ reader = "summary" =>
       /\ Counted(CurrentWindow).total + Counted(PreviousWindow).total = Len(returned)
       /\ Counted(CurrentWindow).total = Len(OfKind(CurrentWindow, "scan")) + Len(OfKind(CurrentWindow, "journey")) + Len(OfKind(CurrentWindow, "api"))
  /\ walk = "done" /\ reader = "failures" =>
       \A r \in Owed : OutcomeNow(r) = "failed" /\ readAs[r] # "running" /\ ~Ambiguous(r) /\ r \notin ToSet(ListedFailures) =>
         Len(ListedFailures) = FailureLimit /\ \A q \in ToSet(ListedFailures) : ShownLater(q, r)

\* "O id vai junto porque duas execuções cabem no mesmo milissegundo: sem ele,
\* as empatadas com a última linha da página eram puladas de vez"
\* (routes/executions.ts:36): no row there all along is skipped.
NoTiedRowIsSkipped == walk = "done" /\ reader = "pages" => Owed \subseteq Shown

=============================================================================
