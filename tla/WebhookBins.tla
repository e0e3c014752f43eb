---------------------------- MODULE WebhookBins ----------------------------
(***************************************************************************)
(* The webhook bins of the Toolbox (src/webhook-bin-store.ts, the routes   *)
(* of src/routes/toolbox.ts) behind the rate limiter that guards their     *)
(* creation (src/rate-limit.ts): both keep expiring entries in a map of    *)
(* the process, against one clock.                                         *)
(***************************************************************************)
EXTENDS Positions, SequencesExt

CONSTANTS
  Bin,            \* ids the random generator will hand out
  Webhook,        \* requests third parties send
  Client,         \* keys of the rate limiter (addresses)
  MaxBins, MaxRequestsPerBin, BinTtl,
  RateLimit, RateWindow,
  PruneAbove,     \* entries above which consume() prunes (10,000)
  LastInstant     \* bound of the clock

ASSUME BinsAssumption ==
  {MaxBins, MaxRequestsPerBin, BinTtl, RateLimit, RateWindow} \subseteq Nat \ {0} /\ {PruneAbove, LastInstant} \subseteq Nat

VARIABLES
  instant,
  bins,        \* the map, in insertion order: [id, createdAt, expiresAt, requests, received]
  minted,      \* ids handed out so far
  hook,        \* of each webhook: [at |-> "unsent"/"reading"/"stored"/"refused", bin]
  entries,     \* the rate limiter's map: client -> [count, resetAt] or NoEntry
  granted      \* instants at which each client was let through (for the properties)

binVars == <<instant, bins, minted, hook, entries, granted>>

NoEntry == [count |-> 0, resetAt |-> 0]
NoHook == [at |-> "unsent", bin |-> ""]

BinsInit ==
  /\ instant = 1
  /\ bins = <<>> /\ minted = {}
  /\ hook = [w \in Webhook |-> NoHook]
  /\ entries = [c \in Client |-> NoEntry]
  /\ granted = [c \in Client |-> <<>>]

----------------------------------------------------------------------------
(* RateLimiter.consume                                                     *)

Known == {c \in Client : entries[c] # NoEntry}

\* a plausible bug: the prune makes room whatever it drops
PruneAll == IF Cardinality(Known) > PruneAbove THEN [c \in Client |-> NoEntry] ELSE entries

PruneEntries ==
  IF Cardinality(Known) > PruneAbove
  THEN [c \in Client |-> IF entries[c].resetAt <= instant THEN NoEntry ELSE entries[c]]
  ELSE entries

Entry(c) ==
  IF PruneEntries[c].resetAt <= instant THEN [count |-> 0, resetAt |-> instant + RateWindow] ELSE PruneEntries[c]

Allowed(c) == Entry(c).count + 1 <= RateLimit

\* the count saturates one past the limit, where it stops mattering
TakeToken(c) ==
  /\ entries' = [PruneEntries EXCEPT ![c] = [Entry(c) EXCEPT !.count = IF Entry(c).count > RateLimit THEN Entry(c).count ELSE Entry(c).count + 1]]
  /\ granted' = IF Allowed(c) THEN [granted EXCEPT ![c] = Append(@, instant)] ELSE granted

----------------------------------------------------------------------------
(* WebhookBinStore                                                         *)

\* a plausible bug: a bin is kept during the instant it expires at
SweptLate == Picked(bins, {i \in DOMAIN bins : bins[i].expiresAt >= instant})

Swept == Picked(bins, {i \in DOMAIN bins : bins[i].expiresAt > instant})

Ids(bs) == {bs[i].id : i \in 1..Len(bs)}

\* the first of the oldest, as the stable sort by createdAt gives it
Oldest(bs) == CHOOSE i \in 1..Len(bs) : \A j \in 1..Len(bs) : bs[i].createdAt < bs[j].createdAt \/ (bs[i].createdAt = bs[j].createdAt /\ i <= j)

WithRoom(bs) == IF Len(bs) >= MaxBins THEN RemoveAt(bs, Oldest(bs)) ELSE bs

\* POST /api/toolbox/webhooks
CreateBin(c, b) ==
  /\ b \notin minted
  /\ TakeToken(c)
  /\ IF Allowed(c)
     THEN /\ minted' = minted \cup {b}
          /\ bins' = Append(WithRoom(Swept), [id |-> b, createdAt |-> instant, expiresAt |-> instant + BinTtl, requests |-> <<>>, received |-> 0])
     ELSE UNCHANGED <<bins, minted>>
  /\ UNCHANGED <<instant, hook>>

\* GET: the sweep is the only change
ReadBin(b) ==
  /\ b \in minted
  /\ bins' = Swept
  /\ UNCHANGED <<instant, minted, hook, entries, granted>>

\* POST .../clear
ClearBin(b) ==
  /\ b \in minted
  /\ bins' = [i \in 1..Len(Swept) |-> IF Swept[i].id = b THEN [Swept[i] EXCEPT !.requests = <<>>] ELSE Swept[i]]
  /\ UNCHANGED <<instant, minted, hook, entries, granted>>

\* any other call: its body is read to the end before the bin is looked up
WebhookArrives(w, b) ==
  /\ hook[w].at = "unsent" /\ b \in minted
  /\ hook' = [hook EXCEPT ![w] = [at |-> "reading", bin |-> b]]
  /\ UNCHANGED <<instant, bins, minted, entries, granted>>

Received(b, w) ==
  [b EXCEPT !.received = @ + 1, !.requests = UpTo(<<w>> \o @, MaxRequestsPerBin)]

BodyRead(w) ==
  LET b == hook[w].bin
      at == IF b \in Ids(Swept) THEN "stored" ELSE "refused"
  IN /\ hook[w].at = "reading"
     /\ bins' = [i \in 1..Len(Swept) |-> IF Swept[i].id = b THEN Received(Swept[i], w) ELSE Swept[i]]
     /\ hook' = [hook EXCEPT ![w].at = at]
     /\ UNCHANGED <<instant, minted, entries, granted>>

BinsTick ==
  /\ instant < LastInstant
  /\ instant' = instant + 1
  /\ UNCHANGED <<bins, minted, hook, entries, granted>>

BinsNext ==
  \/ \E c \in Client, b \in Bin : CreateBin(c, b)
  \/ \E b \in Bin : ReadBin(b) \/ ClearBin(b)
  \/ \E w \in Webhook, b \in Bin : WebhookArrives(w, b)
  \/ \E w \in Webhook : BodyRead(w)
  \/ BinsTick

BinsSpec == BinsInit /\ [][BinsNext]_binVars

----------------------------------------------------------------------------

WithinLimits ==
  /\ Len(bins) <= MaxBins
  /\ \A i \in 1..Len(bins) : Len(bins[i].requests) <= MaxRequestsPerBin /\ bins[i].received >= Len(bins[i].requests)
  /\ \A c \in Client : \A i \in 1..Len(granted[c]) - 2 * RateLimit :
       granted[c][i + 2 * RateLimit] - granted[c][i] >= RateWindow

OnlyLivingStore ==
  \A i \in 1..Len(bins'), k \in 1..Len(bins) :
    bins'[i].id = bins[k].id /\ bins'[i].received # bins[k].received => bins[k].expiresAt > instant

DroppedByAge ==
  \A k \in 1..Len(bins) : bins[k].id \notin {bins'[i].id : i \in 1..Len(bins')} =>
    \/ bins[k].expiresAt <= instant
    \/ Len(bins') = MaxBins /\ \A i \in 1..Len(bins') : bins'[i].createdAt >= bins[k].createdAt

\* A bin takes calls only while it lives (its body may take longer to arrive
\* than the bin to expire) and a living one is dropped only by younger ones
\* when the map is full; map and bins never grow past their limits; and no
\* client is let through more than twice the limit in less than a window,
\* whoever's call prunes the entries (webhook-bin-store.ts 24-68,
\* rate-limit.ts 25-47).
BinsStaySound == []WithinLimits /\ [][OnlyLivingStore /\ DroppedByAge]_binVars

=============================================================================
