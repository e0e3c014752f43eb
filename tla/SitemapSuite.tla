----------------------------- MODULE SitemapSuite -----------------------------
(***************************************************************************)
(* An analysis of the addresses a site publishes: the sitemaps are read    *)
(* one after the other (src/sitemap.ts), each page is analysed, and the    *)
(* results are made into one report (src/suite.ts).  What a sitemap says   *)
(* and where an address redirects to are the site's (external); a location *)
(* is an address as it is written, fragment and credentials included.      *)
(***************************************************************************)
EXTENDS Positions, SequencesExt

CONSTANTS
  Place,              \* addresses of the site, and of others
  Origin,             \* those of the site that is analysed
  Private,            \* those the network policy refuses
  Fickle,             \* those whose name is looked up again and may then be one of the private network
  FirstSitemap,       \* /sitemap.xml
  Location,           \* what a sitemap may list
  PlaceOf,            \* the address of each location
  Sites,              \* the sitemaps a site may have: what each address answers
  MAX_SITEMAP_FILES,  \* 10 in the code
  MAX_SITEMAP_HOPS,   \* redirects followed, 5 in the code
  MaxPages,           \* --max-pages, 20 unless it is given
  SuiteIssue          \* problems a page may have

ASSUME SuiteAssumption ==
  /\ Origin \subseteq Place /\ IsFiniteSet(Origin) /\ Private \subseteq Place /\ Fickle \subseteq Place \ Private /\ FirstSitemap \in Origin
  /\ PlaceOf \in [Location -> Place]
  /\ {MAX_SITEMAP_FILES, MAX_SITEMAP_HOPS, MaxPages} \subseteq Nat \ {0}
  /\ \A s \in Sites, p \in Place :
       /\ s[p].kind \in {"index", "pages"} => s[p].locations \in Seq(Location)
       /\ s[p].kind = "redirect" => s[p].to \in Place

VARIABLES
  site,       \* what the site answers
  options,    \* publicNetworkOnly, regressionsOnly, and the issues of the baseline
  suiteAt,    \* "choosing", "checking", "fetching", "analysing", "writing", "comparing", "reported", "failed"
  pending,    \* sitemaps to read
  visited,    \* visitedSitemaps
  hop,        \* the address being fetched, and the redirects followed to it
  asked,      \* addresses requested, by name: fetch looks the name up again
  pages,      \* pages found
  crowded,    \* history: was a sitemap left out for want of room in pending?
  reports,    \* what was reported of each page
  progress,   \* the last onProgress: pages completed of pages discovered
  suiteStopped, passed

suiteVars == <<site, options, suiteAt, pending, visited, hop, asked, pages, crowded, reports, progress, suiteStopped, passed>>
discoveryVars == <<pending, visited, hop, asked, pages, crowded>>
resultVars == <<reports, progress, passed>>

NoHop == <<>>

SuiteInit ==
  /\ site \in Sites
  /\ options \in [publicOnly : BOOLEAN, regressionsOnly : BOOLEAN, known : SUBSET SuiteIssue]
  /\ suiteAt = "choosing"
  /\ pending = <<FirstSitemap>> /\ visited = {} /\ hop = NoHop /\ asked = {}
  /\ pages = <<>> /\ crowded = FALSE /\ reports = <<>>
  /\ progress = [completed |-> 0, discovered |-> 0] /\ suiteStopped = FALSE /\ passed = FALSE

-----------------------------------------------------------------------------
\* discoverSitemapUrls

Reads == pending # <<>> /\ Cardinality(visited) < MAX_SITEMAP_FILES /\ Len(pages) < MaxPages

\* a sitemap already read is passed over; an abort is seen between two of them
NextSitemap ==
  /\ suiteAt = "choosing" /\ Reads /\ ~suiteStopped
  /\ pending' = Tail(pending)
  /\ IF Head(pending) \in visited THEN UNCHANGED <<suiteAt, visited, hop>>
     ELSE suiteAt' = "checking" /\ visited' = visited \cup {Head(pending)} /\ hop' = <<Head(pending), 0>>
  /\ UNCHANGED <<site, options, asked, pages, crowded, resultVars, suiteStopped>>

\* a plausible bug: only the first address goes through the policy
AllowedAtFirst(place) == hop[2] > 0 \/ ~options.publicOnly \/ place \notin Private

\* assertPublicUrl, of every address a sitemap redirects to
AllowedSitemap(place) == ~options.publicOnly \/ place \notin Private

\* fetchSitemap: the address is resolved and checked, then asked for; what was
\* resolved is not what fetch connects to, which resolves the name again
CheckAddress ==
  /\ suiteAt = "checking" /\ AllowedSitemap(hop[1])
  /\ suiteAt' = "fetching"
  /\ UNCHANGED <<site, options, discoveryVars, resultVars, suiteStopped>>

\* an address that redirects takes one hop, and is checked in its turn
FollowRedirect ==
  /\ suiteAt = "fetching" /\ ~suiteStopped
  /\ site[hop[1]].kind = "redirect" /\ hop[2] < MAX_SITEMAP_HOPS
  /\ asked' = asked \cup {hop[1]} /\ hop' = <<site[hop[1]].to, hop[2] + 1>> /\ suiteAt' = "checking"
  /\ UNCHANGED <<site, options, pending, visited, pages, crowded, resultVars, suiteStopped>>

\* a plausible bug: the address is taken as it was written
AsWritten(location) == location

\* normalizedPage: the address without fragment or credentials
Normalized(location) == PlaceOf[location]

\* what a sitemap lists of this site, in its order
Listed(place) ==
  LET all == site[place].locations
      own == Picked(all, {i \in DOMAIN all : PlaceOf[all[i]] \in Origin})
  IN [n \in DOMAIN own |-> Normalized(own[n])]

\* of an index, sitemaps to read while there is room; of any other, pages,
\* each the first time it is listed
Unvisited(places) == Picked(places, {i \in DOMAIN places : places[i] \notin visited})
WithSitemaps(places) == pending \o UpTo(Unvisited(places), MAX_SITEMAP_FILES - Len(pending))

NewPages(places) ==
  Picked(places, {i \in DOMAIN places : places[i] \notin ToSet(pages) /\ \A j \in DOMAIN places : j < i => places[j] # places[i]})
WithPages(places) == pages \o UpTo(NewPages(places), MaxPages - Len(pages))

SitemapRead ==
  /\ suiteAt = "fetching"
  /\ site[hop[1]].kind \in {"index", "pages"}
  /\ asked' = asked \cup {hop[1]}
  /\ IF site[hop[1]].kind = "index"
     THEN /\ pending' = WithSitemaps(Listed(hop[1]))
          /\ crowded' = (crowded \/ ~(ToSet(Listed(hop[1])) \subseteq visited \cup ToSet(pending')))
          /\ UNCHANGED pages
     ELSE pages' = WithPages(Listed(hop[1])) /\ UNCHANGED <<pending, crowded>>
  /\ hop' = NoHop /\ suiteAt' = "choosing"
  /\ UNCHANGED <<site, options, visited, resultVars, suiteStopped>>

\* refused before it is asked for; then an error, too many redirects, too large,
\* too late, or aborted: any of them ends the whole analysis
SitemapFails ==
  /\ suiteAt \in {"checking", "fetching"}
  /\ asked' = IF suiteAt = "fetching" THEN asked \cup {hop[1]} ELSE asked
  /\ suiteAt' = "failed"
  /\ UNCHANGED <<site, options, pending, visited, hop, pages, crowded, resultVars, suiteStopped>>

\* onProgress with the pages discovered; no page is an error
DiscoveryEnds ==
  /\ suiteAt = "choosing" /\ ~Reads
  /\ IF pages = <<>> THEN suiteAt' = "failed" /\ UNCHANGED progress
     ELSE suiteAt' = "analysing" /\ progress' = [completed |-> 0, discovered |-> Len(pages)]
  /\ UNCHANGED <<site, options, discoveryVars, reports, passed, suiteStopped>>

-----------------------------------------------------------------------------
\* scanSitemap

\* scan of the next page, its own gate and baseline left out
ScanOnePage ==
  /\ suiteAt = "analysing" /\ Len(reports) < Len(pages) /\ ~suiteStopped
  /\ \E issues \in SUBSET SuiteIssue, status \in {"completed", "partial"} :
       reports' = Append(reports, [of |-> pages[Len(reports) + 1], issues |-> issues, status |-> status])
  /\ suiteAt' = "writing"
  /\ UNCHANGED <<site, options, discoveryVars, progress, passed, suiteStopped>>

PageWritten ==
  /\ suiteAt = "writing"
  /\ progress' = [progress EXCEPT !.completed = Len(reports)]
  /\ suiteAt' = IF Len(reports) = Len(pages) THEN "comparing" ELSE "analysing"
  /\ UNCHANGED <<site, options, discoveryVars, reports, passed, suiteStopped>>

\* what throws ends the analysis of all pages: a scan, an abort before one, a
\* report that cannot be written, a baseline that cannot be read
SuiteThrows ==
  /\ suiteAt \in {"analysing", "writing", "comparing"} \/ (suiteAt = "choosing" /\ Reads /\ suiteStopped)
  /\ suiteAt' = "failed"
  /\ UNCHANGED <<site, options, discoveryVars, resultVars, suiteStopped>>

AllIssues == UNION {r.issues : r \in ToSet(reports)}

\* the pages together: one that was partial fails them all, and issues are
\* compared with the baseline of the whole
Consolidate ==
  /\ suiteAt = "comparing"
  /\ passed' = (/\ \A r \in ToSet(reports) : r.status = "completed"
                /\ (IF options.regressionsOnly THEN AllIssues \ options.known ELSE AllIssues) = {})
  /\ suiteAt' = "reported"
  /\ UNCHANGED <<site, options, discoveryVars, reports, progress, suiteStopped>>

StopSuite ==
  /\ suiteAt \notin {"reported", "failed"} /\ ~suiteStopped
  /\ suiteStopped' = TRUE
  /\ UNCHANGED <<site, options, suiteAt, discoveryVars, resultVars>>

SuiteNext ==
  \/ NextSitemap \/ CheckAddress \/ FollowRedirect \/ SitemapRead \/ SitemapFails \/ DiscoveryEnds
  \/ ScanOnePage \/ PageWritten \/ SuiteThrows \/ Consolidate \/ StopSuite

SuiteSpec == SuiteInit /\ [][SuiteNext]_suiteVars

-----------------------------------------------------------------------------

\* a way of redirects that starts at p
Way(path, n, p) ==
  path[0] = p /\ \A i \in 0..(n - 1) : site[path[i]].kind = "redirect" /\ path[i + 1] = site[path[i]].to

\* the addresses p leads to, within the redirects followed: one, or none
Ends(p, n) == {path[n] : path \in {way \in [0..n -> Place] : Way(way, n, p)}}
Leads(p) == {q \in UNION {Ends(p, n) : n \in 0..MAX_SITEMAP_HOPS} : site[q].kind # "redirect"}
Lists(p, kind) == UNION {ToSet(Listed(q)) : q \in {r \in Leads(p) : site[r].kind = kind}}

\* the sitemaps reached from the first one
Closed(S) == FirstSitemap \in S /\ \A p \in S : Lists(p, "index") \subseteq S
AllSitemaps == {p \in Origin : \A S \in SUBSET Origin : Closed(S) => p \in S}
Published == UNION {Lists(p, "pages") : p \in AllSitemaps}

\* Each page is analysed once and belongs to the site, within the limits; a
\* site within the limits has every page it publishes analysed, however its
\* sitemaps refer to each other, unless repetitions filled the queue of
\* sitemaps to read (sitemap.ts 100); no name the policy refuses when it looks is
\* requested, redirects included; and the
\* suite reports only when every page has its result, its verdict never better
\* than that of a page (suite.ts 38-112, sitemap.ts 81-111).
SuiteIsSound ==
  /\ IsInjective(pages) /\ ToSet(pages) \subseteq Origin \cap Published
  /\ Len(pages) <= MaxPages /\ Cardinality(visited) <= MAX_SITEMAP_FILES
  /\ options.publicOnly => asked \cap Private = {}
  /\ suiteAt \notin {"choosing", "checking", "fetching", "failed"} /\ ~crowded /\ Cardinality(AllSitemaps) <= MAX_SITEMAP_FILES /\ Cardinality(Published) <= MaxPages =>
       ToSet(pages) = Published
  /\ suiteAt = "reported" =>
       /\ [i \in DOMAIN reports |-> reports[i].of] = pages /\ progress = [completed |-> Len(pages), discovered |-> Len(pages)]
       /\ passed => \A r \in ToSet(reports) : r.status = "completed" /\ (r.issues = {} \/ (options.regressionsOnly /\ r.issues \subseteq options.known))

\* What the network policy is for, that nothing of the private network is ever
\* reached: not so of a name that answers otherwise when fetch looks it up again
\* (sitemap.ts 49 and 51).
NothingPrivateIsReached == options.publicOnly => asked \cap (Private \cup Fickle) = {}
=============================================================================
