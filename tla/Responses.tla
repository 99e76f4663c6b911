-------------------------------- MODULE Responses --------------------------------
(***************************************************************************)
(* Two frequency and level exports compared (model/compare.cpp).  A        *)
(* frequency is the number of its step on a logarithmic grid, so that the  *)
(* interpolation in log frequency is linear; a level is a whole number and *)
(* an interpolated one is rounded down to one.                             *)
(* A row of a file that gives no point, a comment, a heading, a row of one *)
(* field, a level that is not finite, has usable |-> FALSE.                *)
(***************************************************************************)
EXTENDS Integers, Sequences, FiniteSets, Functions

\* stable_sort, point by point: one goes behind those it is not below.
Rank(points, hz) == CHOOSE i \in 0 .. Len(points) :
  /\ \A j \in 1 .. i : points[j].hz <= hz
  /\ \A j \in i + 1 .. Len(points) : points[j].hz > hz

Sorted(points, point) ==
  LET i == Rank(points, point.hz)
  IN  SubSeq(points, 1, i) \o <<point>> \o SubSeq(points, i + 1, Len(points))

\* Response::parse: the usable rows in order of frequency, ties as they came.
Parse(rows) ==
  LET parsed[n \in 0 .. Len(rows)] ==
        IF n = 0 THEN <<>>
        ELSE IF ~rows[n].usable THEN parsed[n - 1]
        ELSE Sorted(parsed[n - 1], [hz |-> rows[n].hz, db |-> rows[n].db])
  IN  parsed[Len(rows)]

\* partition_point: the first point not below hz.
FirstFrom(points, hz) == CHOOSE i \in DOMAIN points :
  points[i].hz >= hz /\ \A j \in 1 .. i - 1 : points[j].hz < hz

\* Response::level_at has a level within the span of the points and nowhere else.
HasLevel(points, hz) ==
  /\ points # <<>>
  /\ points[1].hz <= hz /\ hz <= points[Len(points)].hz

LevelAt(points, hz) ==
  LET i == FirstFrom(points, hz)
      high == points[i]
      low == points[i - 1]
  IN  IF high.hz = hz THEN high.db
      ELSE low.db + ((hz - low.hz) * (high.db - low.db)) \div (high.hz - low.hz)

\* The points of the subject that are compared, and by how much each is off.
Differences(subject, reference, from, to) ==
  LET compared(point) == from <= point.hz /\ point.hz <= to /\ HasLevel(reference, point.hz)
      off[n \in 0 .. Len(subject)] ==
        IF n = 0 THEN <<>>
        ELSE IF ~compared(subject[n]) THEN off[n - 1]
        ELSE Append(off[n - 1], [hz |-> subject[n].hz,
                                 db |-> subject[n].db - LevelAt(reference, subject[n].hz)])
  IN  off[Len(subject)]

Unsigned(n) == IF n < 0 THEN -n ELSE n

\* worst: the place of the largest magnitude, the last of several equal.
Worst(levels) == CHOOSE i \in DOMAIN levels : \A j \in DOMAIN levels :
  \/ Unsigned(levels[j]) < Unsigned(levels[i])
  \/ Unsigned(levels[j]) = Unsigned(levels[i]) /\ j <= i

Total(differences) ==
  LET sum[n \in 0 .. Len(differences)] ==
        IF n = 0 THEN 0 ELSE sum[n - 1] + differences[n].db
  IN  sum[Len(differences)]

\* compare, of the differences: what is left of each when their mean is taken
\* away is counted in n-ths.
Summary(differences, reference) ==
  LET n == Len(differences)
      total == Total(differences)
      as_measured == [i \in DOMAIN differences |-> differences[i].db]
      offset_removed == [i \in DOMAIN differences |-> n * differences[i].db - total]
      exact == {i \in DOMAIN differences :
                  \E j \in DOMAIN reference : reference[j].hz = differences[i].hz}
      max == Worst(as_measured)
      after == Worst(offset_removed)
  IN  IF n = 0 THEN [compared |-> 0]
      ELSE [compared |-> n, interpolated |-> n - Cardinality(exact), offset |-> total,
            max |-> as_measured[max], maxHz |-> differences[max].hz,
            maxAfter |-> Unsigned(offset_removed[after]), maxAfterHz |-> differences[after].hz]

Compare(subject, reference, from, to) ==
  Summary(Differences(subject, reference, from, to), reference)

\* A mistake easily made: no difference found, none there.
AgreesOnNothing(comparison, tolerance) ==
  comparison.compared = 0 \/ comparison.maxAfter <= tolerance * comparison.compared

\* Comparison::agrees_within: nothing compared agrees with nothing.
AgreesWithin(comparison, tolerance) ==
  /\ comparison.compared > 0
  /\ comparison.maxAfter <= tolerance * comparison.compared

==================================================================================
