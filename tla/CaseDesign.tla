----------------------------- MODULE CaseDesign -----------------------------
(***************************************************************************)
(* The two generators of test cases of the toolbox.  The pairwise one      *)
(* (src/toolbox/pairwise.ts) is IPOG of strength 2: a parameter is its     *)
(* number of values, its name and the text of its values decide nothing    *)
(* (a name given twice is refused, like too many values).                  *)
(* In the boundary one (src/toolbox/boundary-values.ts) numbers, lengths   *)
(* and dates are integers: a decimal is counted in a unit finer than its   *)
(* step, and Grain of these are one unit of the step's last decimal place. *)
(* A date is its day; toISOString() writes the years 0 to 9999 with four   *)
(* digits and the others with six and a sign, of which slice(0, 10) keeps  *)
(* no date.  Doubles are exact up to ExactInteger.                         *)
(***************************************************************************)
EXTENDS Positions

CONSTANTS
  MaxParameters,  \* MAX_PAIRWISE_PARAMETERS, 12 in the code
  MaxValues,      \* MAX_PAIRWISE_VALUES, 25 in the code
  MaxTyped,       \* bound: parameters typed, refused ones included
  Bounds,         \* minima and maxima typed
  Steps,          \* steps typed for a decimal, in multiples of Grain
  Grain,
  FirstDate,      \* 0000-01-01
  LastDate,       \* 9999-12-31
  EarlyText,      \* "-000001-12", what is kept of the day before it
  LateText,       \* "+010000-01", what is kept of the day after it
  ExactInteger,   \* 2^53
  LongestText     \* the longest string there can be

ASSUME PairwiseAssumption == {MaxParameters, MaxValues, MaxTyped} \subseteq Nat
\* one unit of a step's last decimal place goes into the step a whole number of
\* times (roundToStep reads that place only of a step not written with an exponent)
ASSUME BoundaryAssumption == Bounds \subseteq Int /\ Grain \in Nat \ {0} /\ \A s \in Steps : s \in Int /\ s % Grain = 0
\* no limit typed is beyond ExactInteger, and a decimal has no more digits than a double keeps
ASSUME WrittenAssumption ==
  /\ FirstDate \in Int /\ LastDate \in Int /\ FirstDate <= LastDate
  /\ EarlyText \notin Int /\ LateText \notin Int /\ EarlyText # LateText
  /\ ExactInteger \in Nat /\ LongestText \in Nat

VARIABLES
  sizes,      \* values of each parameter, once normalised
  matrix,     \* the rows so far
  uncovered,  \* pairs not covered yet
  column,     \* the parameter being added
  grown,      \* rows that already have it
  wanted,     \* the pair a new row is for
  newRow,     \* that row, as far as it is filled in
  kept,       \* rows found to cover a pair of their own
  casesAt     \* "refused", "horizontal", "vertical", "row", "reduce", "done"

pairVars == <<sizes, matrix, uncovered, column, grown, wanted, newRow, kept, casesAt>>

\* parameters without a value are dropped, too few, too many or too long refused
WithValues(typed) == Picked(typed, {i \in DOMAIN typed : typed[i] > 0})
Accepted(ns) == Len(ns) \in 2..MaxParameters /\ \A i \in DOMAIN ns : ns[i] <= MaxValues

\* parameter i with value a and parameter j > i with value b are <<i, a, j, b>>
Pair(ns) == {p \in (1..Len(ns)) \X (1..MaxValues) \X (1..Len(ns)) \X (1..MaxValues) : p[1] < p[3]}

RequiredPairs(ns) == {p \in Pair(ns) : p[2] <= ns[p[1]] /\ p[4] <= ns[p[3]]}

\* row has the pair p, one of rows has it
HasPair(row, p) == p[3] \in DOMAIN row /\ row[p[1]] = p[2] /\ row[p[3]] = p[4]
Covers(rows, p) == \E k \in DOMAIN rows : HasPair(rows[k], p)

\* what markCovered leaves uncovered
Unmarked(row) == {p \in uncovered : ~HasPair(row, p)}

\* pairs with the columns before that a value of this column would cover
Gain(row, c, v) == Cardinality({p \in uncovered : p[3] = c /\ p[4] = v /\ row[p[1]] = p[2]})

\* the value that covers most, the first of a tie
Best(row, c) == {v \in 1..sizes[c] : \A w \in 1..sizes[c] : Gain(row, c, w) <= Gain(row, c, v)}
BestValue(row, c) == CHOOSE v \in Best(row, c) : \A w \in Best(row, c) : v <= w

\* the two first parameters start with their product
Seed(ns) == [k \in 1..(ns[1] * ns[2]) |-> <<((k - 1) \div ns[2]) + 1, ((k - 1) % ns[2]) + 1>>]

PairwiseRefused ==
  /\ sizes = <<>> /\ matrix = <<>> /\ uncovered = {} /\ column = 0 /\ grown = 0
  /\ wanted = <<>> /\ newRow = <<>> /\ kept = <<>> /\ casesAt = "refused"

Seeded(ns) ==
  /\ sizes = ns
  /\ matrix = Seed(ns)
  /\ uncovered = {p \in RequiredPairs(ns) : ~Covers(Seed(ns), p)}
  /\ column = 3 /\ grown = 0 /\ wanted = <<>> /\ newRow = <<>> /\ kept = <<>>
  /\ casesAt = IF Len(ns) = 2 THEN "reduce" ELSE "horizontal"

PairwiseInit ==
  \E typed \in UNION {[1..n -> 0..(MaxValues + 1)] : n \in 0..MaxTyped} :
    LET ns == WithValues(typed) IN IF Accepted(ns) THEN Seeded(ns) ELSE PairwiseRefused

\* the next row takes the value that covers most
GrowHorizontally ==
  /\ casesAt = "horizontal" /\ grown < Len(matrix)
  /\ LET row == matrix[grown + 1]
         longer == Append(row, BestValue(row, column))
     IN matrix' = [matrix EXCEPT ![grown + 1] = longer] /\ uncovered' = Unmarked(longer)
  /\ grown' = grown + 1
  /\ UNCHANGED <<sizes, column, wanted, newRow, kept, casesAt>>

RowsGrown ==
  /\ casesAt = "horizontal" /\ grown = Len(matrix)
  /\ casesAt' = "vertical"
  /\ UNCHANGED <<sizes, matrix, uncovered, column, grown, wanted, newRow, kept>>

\* pairs of the column being added with those left of it
LeftOver == {p \in uncovered : p[3] = column}

\* uncovered keeps the order of requiredPairs, which is that of the numbers:
\* these pairs differ by the first column and the two values
Before(p, q) == p[1] < q[1] \/ (p[1] = q[1] /\ (p[2] < q[2] \/ (p[2] = q[2] /\ p[4] < q[4])))

\* a pair still uncovered gets a row of its own
StartRow ==
  /\ casesAt = "vertical" /\ LeftOver # {}
  /\ wanted' = CHOOSE p \in LeftOver : \A q \in LeftOver \ {p} : Before(p, q)
  /\ newRow' = <<>> /\ casesAt' = "row"
  /\ UNCHANGED <<sizes, matrix, uncovered, column, grown, kept>>

\* filled in from left to right, beside the two values of the pair
FillRow ==
  /\ casesAt = "row" /\ Len(newRow) < column
  /\ LET c == Len(newRow) + 1
     IN newRow' = Append(newRow, IF c = wanted[1] THEN wanted[2] ELSE IF c = wanted[3] THEN wanted[4] ELSE BestValue(newRow, c))
  /\ UNCHANGED <<sizes, matrix, uncovered, column, grown, wanted, kept, casesAt>>

AddRow ==
  /\ casesAt = "row" /\ Len(newRow) = column
  /\ matrix' = Append(matrix, newRow) /\ uncovered' = Unmarked(newRow)
  /\ newRow' = <<>> /\ wanted' = <<>> /\ casesAt' = "vertical"
  /\ UNCHANGED <<sizes, column, grown, kept>>

NextColumn ==
  /\ casesAt = "vertical" /\ LeftOver = {}
  /\ IF column < Len(sizes)
     THEN column' = column + 1 /\ grown' = 0 /\ casesAt' = "horizontal"
     ELSE casesAt' = "reduce" /\ UNCHANGED <<column, grown>>
  /\ UNCHANGED <<sizes, matrix, uncovered, wanted, newRow, kept>>

\* a plausible bug: the later rows kept are forgotten
CoveredBefore ==
  \A p \in RequiredPairs(sizes) : HasPair(matrix[Len(matrix)], p) => Covers(SubSeq(matrix, 1, Len(matrix) - 1), p)

\* neither the rows before it nor the later ones kept lack a pair of the last row
Redundant ==
  \A p \in RequiredPairs(sizes) :
    HasPair(matrix[Len(matrix)], p) => Covers(SubSeq(matrix, 1, Len(matrix) - 1), p) \/ Covers(kept, p)

\* from the last row to the first, a row that covers no pair of its own goes
Reduce ==
  /\ casesAt = "reduce" /\ matrix # <<>>
  /\ kept' = IF Redundant THEN kept ELSE <<matrix[Len(matrix)]>> \o kept
  /\ matrix' = SubSeq(matrix, 1, Len(matrix) - 1)
  /\ UNCHANGED <<sizes, uncovered, column, grown, wanted, newRow, casesAt>>

WriteRows ==
  /\ casesAt = "reduce" /\ matrix = <<>>
  /\ matrix' = kept /\ kept' = <<>> /\ casesAt' = "done"
  /\ UNCHANGED <<sizes, uncovered, column, grown, wanted, newRow>>

PairwiseNext == GrowHorizontally \/ RowsGrown \/ StartRow \/ FillRow \/ AddRow \/ NextColumn \/ Reduce \/ WriteRows

PairwiseSpec == PairwiseInit /\ [][PairwiseNext]_pairVars

-----------------------------------------------------------------------------

\* the rows of the product of all parameters: "exhaustive" is their number
CompleteRows == {row \in [1..Len(sizes) -> 1..MaxValues] : \A c \in 1..Len(sizes) : row[c] <= sizes[c]}

\* a pair of the row k that no other row has
HasItsOwn(rows, k) == \E p \in RequiredPairs(sizes) : HasPair(rows[k], p) /\ \A l \in DOMAIN rows \ {k} : ~HasPair(rows[l], p)

\* The suite keeps what docs/qa-toolbox.md 131-136 promises: every pair of
\* values is in some case, every case is complete and covers a pair no other
\* case covers, so that there are never more cases than the product has; and
\* while it is built a pair counts as covered exactly when a row has it.
SuiteCoversEveryPair ==
  casesAt # "refused" =>
    /\ uncovered = {p \in RequiredPairs(sizes) : ~Covers(matrix, p) /\ ~Covers(kept, p)}
    /\ casesAt = "done" =>
         /\ uncovered = {}
         /\ \A k \in DOMAIN matrix : matrix[k] \in CompleteRows /\ HasItsOwn(matrix, k)
         /\ Len(matrix) <= Cardinality(CompleteRows)

-----------------------------------------------------------------------------
VARIABLES
  limits,   \* the field: its type, minimum, maximum and step
  points,   \* the six points not classified yet
  byPosition, \* the point of each position taken
  cases,    \* the cases written
  casesDone \* has the list been written?

boundaryVars == <<limits, points, byPosition, cases, casesDone>>

FieldType == {"integer", "decimal", "string-length", "date"}
POSITION_ORDER == <<"below-minimum", "minimum", "above-minimum", "below-maximum", "maximum", "above-maximum">>
VALID_POSITIONS == {"minimum", "above-minimum", "below-maximum", "maximum"}

\* toFixed: to the nearest decimal the step has, halves away from zero
RoundToStep(v) ==
  LET up == ((IF v < 0 THEN -v ELSE v) * 2 + Grain) \div (2 * Grain)
  IN Grain * (IF v < 0 THEN -up ELSE up)

\* the number an expression with the limits comes to: past the last exact integer the
\* next double is two away and the tie goes back to it
NumberAt(type, v) ==
  CASE type = "decimal" -> RoundToStep(v)
    [] type = "integer" /\ v > ExactInteger -> ExactInteger
    [] type = "integer" /\ v < -ExactInteger -> -ExactInteger
    [] OTHER -> v

\* isoDate
IsoDate(v) == IF v < FirstDate THEN EarlyText ELSE IF v > LastDate THEN LateText ELSE v

\* what the case is written as
Text(type, v) == CASE type = "decimal" -> RoundToStep(v) [] type = "date" -> IsoDate(v) [] OTHER -> v

StepOf(l) == IF l.type = "decimal" THEN l.step ELSE 1

\* rangeFor: crossed limits, a step that is not positive, a negative length, one
\* repeat() cannot make, and a date not written with a year of four digits are refused
InRange(l) ==
  /\ l.minimum <= l.maximum
  /\ l.type = "decimal" => l.step > 0
  /\ l.type = "string-length" => l.minimum >= 0 /\ l.maximum + 1 <= LongestText
  /\ l.type = "date" => l.minimum >= FirstDate /\ l.maximum <= LastDate
\* bound: integers beyond the exact ones are not typed
Exact(l) == l.type = "integer" => l.minimum >= -ExactInteger /\ l.maximum <= ExactInteger

PointAt(l, v, position) == [measure |-> v, input |-> Text(l.type, v), from |-> position]

\* what the six points measure, in the order of the positions
Measures(l) ==
  LET number(v) == NumberAt(l.type, v)
  IN <<number(l.minimum - StepOf(l)), l.minimum, number(l.minimum + StepOf(l)),
       number(l.maximum - StepOf(l)), l.maximum, number(l.maximum + StepOf(l))>>

\* a text of negative length is no point
PointsFor(l) ==
  Picked([i \in 1..6 |-> PointAt(l, Measures(l)[i], POSITION_ORDER[i])],
         {i \in 1..6 : l.type = "string-length" => Measures(l)[i] >= 0})

BoundaryInit ==
  /\ limits \in {l \in [type : FieldType, minimum : Bounds, maximum : Bounds, step : Steps] : InRange(l) /\ Exact(l)}
  /\ points = PointsFor(limits)
  /\ byPosition = <<>> /\ cases = <<>> /\ casesDone = FALSE

\* a plausible bug: a point keeps the position it was generated for
PositionOfOrigin(p) == p.from

\* the position the value really has, whichever point it came from
PositionOf(p) ==
  IF p.measure < limits.minimum THEN "below-minimum"
  ELSE IF p.measure > limits.maximum THEN "above-maximum"
  ELSE IF p.measure = limits.minimum THEN "minimum"
  ELSE IF p.measure = limits.maximum THEN "maximum" ELSE p.from

\* a value already listed, or whose position is taken, is left out
IsFree(p) == PositionOf(p) \notin DOMAIN byPosition /\ \A q \in DOMAIN byPosition : byPosition[q].input # p.input

PlacePoint ==
  /\ points # <<>>
  /\ points' = Tail(points)
  /\ LET p == Head(points)
     IN byPosition' = IF IsFree(p)
                      THEN [q \in DOMAIN byPosition \cup {PositionOf(p)} |-> IF q = PositionOf(p) THEN p ELSE byPosition[q]]
                      ELSE byPosition
  /\ UNCHANGED <<limits, cases, casesDone>>

\* the cases in the order of the positions
WriteCases ==
  /\ points = <<>> /\ ~casesDone
  /\ casesDone' = TRUE
  /\ LET taken == Picked(POSITION_ORDER, {i \in DOMAIN POSITION_ORDER : POSITION_ORDER[i] \in DOMAIN byPosition})
     IN cases' = [n \in DOMAIN taken |-> [input |-> byPosition[taken[n]].input, position |-> taken[n]]]
  /\ UNCHANGED <<limits, points, byPosition>>

BoundaryNext == PlacePoint \/ WriteCases

BoundarySpec == BoundaryInit /\ [][BoundaryNext]_boundaryVars

Valid(c) == c.position \in VALID_POSITIONS

-----------------------------------------------------------------------------

OnGrain == limits.type = "decimal" => limits.minimum % Grain = 0 /\ limits.maximum % Grain = 0

\* There is a value beyond a limit: a text of negative length is none, a day that is not
\* written as a date is none, and an integer the doubles do not tell from the limit is none.
SomethingBelow(l) ==
  /\ l.type = "string-length" => l.minimum > 0
  /\ l.type = "date" => l.minimum > FirstDate
  /\ l.type = "integer" => l.minimum > -ExactInteger
SomethingAbove(l) == (l.type = "date" => l.maximum < LastDate) /\ (l.type = "integer" => l.maximum < ExactInteger)

\* The cases are those the technique asks for (the comments at
\* boundary-values.ts 187-208): a value is expected to be accepted exactly when
\* it is within the limits, its position says where it is, both limits are
\* there and nothing is listed twice, and each side has a value beyond it
\* where there is one.  Of decimals this is said when the limits have no more
\* decimal places than the step.
CasesAreTheBoundaries ==
  casesDone /\ OnGrain =>
    LET inputs == {cases[i].input : i \in DOMAIN cases} IN
      /\ \A i \in DOMAIN cases : Valid(cases[i]) <=> cases[i].input \in limits.minimum..limits.maximum
      /\ {limits.minimum, limits.maximum} \subseteq inputs
      /\ \A i, j \in DOMAIN cases : i # j => cases[i].input # cases[j].input /\ cases[i].position # cases[j].position
      /\ SomethingAbove(limits) => \E v \in inputs : v \notin {EarlyText, LateText} /\ v > limits.maximum
      /\ SomethingBelow(limits) => \E v \in inputs : v \notin {EarlyText, LateText} /\ v < limits.minimum
      /\ \A i \in DOMAIN cases :
           /\ cases[i].position = "minimum" => cases[i].input = limits.minimum
           /\ cases[i].position = "maximum" => cases[i].input = limits.maximum

\* Not so, and no run claims it: every case is a value the field can be given.  Beside the
\* first and the last date a text is listed that is no date.
EveryCaseIsAValue == casesDone => \A i \in DOMAIN cases : cases[i].input \notin {EarlyText, LateText}

\* The two suites the toolbox designs: every pair of values is in some case and
\* no case is superfluous (pairwise.ts 67-205), and the values at the limits of
\* a field are all there and classified by where they are (boundary-values.ts).
CasesAreDesigned == SuiteCoversEveryPair /\ CasesAreTheBoundaries
=============================================================================
