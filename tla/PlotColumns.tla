------------------------------- MODULE PlotColumns -------------------------------
(***************************************************************************)
(* A spectrum drawn on the columns of a plot (plot/reduce.cpp), and the    *)
(* gridlines under it (plot/axis.cpp, ffi/axis.cpp).                       *)
(*                                                                         *)
(* Values are a function from bins, numbered from 0, and bin k lies at k   *)
(* times the spacing.  A place is a whole number of some fraction of a     *)
(* hertz.  An axis of n columns is an ascending function on 0..2n: column  *)
(* c lies between 2c-2 and 2c, its middle at 2c-1.  What a column shows is *)
(* a fraction, or what it was filled with when there is nothing to show.   *)
(***************************************************************************)
EXTENDS Integers, FiniteSets, Sequences, SequencesExt, FiniteSetsExt

Empty == [of |-> 0, by |-> 0]
Ratio(of, by) == [of |-> of, by |-> by]
Whole(x) == Ratio(x, 1)

LastBin(values) == Cardinality(DOMAIN values) - 1

(* The bins between two places, DC left out.                               *)
BinsBetween(left, right, spacing, last) ==
  Max({(left + spacing - 1) \div spacing, 1})..Min({right \div spacing, last})

(* interpolate: between the values on either side, and level beyond them.  *)
Interpolated(values, spacing, at) ==
  LET lower == at \div spacing
  IN  IF at <= spacing THEN Whole(values[1])
      ELSE IF lower >= LastBin(values) THEN Whole(values[LastBin(values)])
      ELSE Ratio(values[lower] * spacing
                     + (values[lower + 1] - values[lower]) * (at - lower * spacing), spacing)

Nearest(values, spacing, at) ==
  LET bin == Max({(2 * at + spacing) \div (2 * spacing), 1})
  IN  IF bin \in DOMAIN values THEN Whole(values[bin]) ELSE Empty

(* circular_mean_degrees, of angles in quarters of a turn: the direction   *)
(* the angles sum to, or none.                                             *)
Circular(values, bins) ==
  LET Along(quarter) == Cardinality({bin \in bins : values[bin] % 4 = quarter})
  IN  Ratio(Along(1) - Along(3), Along(0) - Along(2))

(* The bins inside a column as the mode combines them.  A mean of levels   *)
(* is one of powers, which is what the values then are.                    *)
Dense(mode, values, bins) ==
  CASE mode = "Max" -> Whole(Max({values[bin] : bin \in bins}))
    [] mode = "Min" -> Whole(Min({values[bin] : bin \in bins}))
    [] mode = "Circular" -> Circular(values, bins)
    [] OTHER -> Ratio(MapThenSumSet(LAMBDA bin : values[bin], bins), Cardinality(bins))

Sparse(mode, values, spacing, at) ==
  IF mode = "Circular" THEN Nearest(values, spacing, at) ELSE Interpolated(values, spacing, at)

ColumnsOf(axis) == (Cardinality(DOMAIN axis) - 1) \div 2

(* walk_columns *)
BinsOf(axis, column, spacing, last) ==
  BinsBetween(axis[2 * column - 2], axis[2 * column], spacing, last)

WalkColumns(values, spacing, axis, mode) ==
  [column \in 1..ColumnsOf(axis) |->
     LET bins == BinsOf(axis, column, spacing, LastBin(values))
     IN  IF bins # {} THEN Dense(mode, values, bins)
         ELSE Sparse(mode, values, spacing, axis[2 * column - 1])]

(* reduce, reduce_linear *)
Reduce(values, spacing, axis, mode) ==
  IF LastBin(values) < 1 \/ spacing <= 0 THEN [column \in 1..ColumnsOf(axis) |-> Empty]
  ELSE WalkColumns(values, spacing, axis, mode)

-----------------------------------------------------------------------------
(* Gridlines, of whole hertz and whole decibels. *)

(* FrequencyAxis::ticks: every step of each decade within the range.       *)
FrequencyTicks(low, high, decades) ==
  {[value |-> step * 10^decade, major |-> step = 1] :
     <<decade, step>> \in {<<d, s>> \in decades \X (1..9) : low <= s * 10^d /\ s * 10^d <= high}}

MostTicks == 1024

(* LevelAxis::ticks: multiples of the step, so that they stay where they   *)
(* are when the range moves.                                               *)
LevelTicks(low, high, step) ==
  LET first == (low + step - 1) \div step
      count == Min({Max({(high \div step) - first, 0}), MostTicks})
  IN  SelectSeq([i \in 1..count + 1 |->
                   [value |-> (first + i - 1) * step, major |-> (first + i - 1) % 2 = 0]],
                LAMBDA tick : low <= tick.value /\ tick.value <= high)

(* write_ticks: as many as the host has room for.                          *)
WriteTicks(ticks, capacity) == SubSeq(ticks, 1, Min({Len(ticks), capacity}))
==================================================================================
