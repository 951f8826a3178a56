---------------------------- MODULE MCTXScheduler ----------------------------
(***************************************************************************)
(* Small instances of TXScheduler.                                         *)
(***************************************************************************)
EXTENDS TXScheduler, TLC

\* The rate NewTXScheduler computes for a duty cycle of one per cent: MCHour
\* is an hour in the unit of the capacity.
MCHour == 100 * Capacity
CodeRate == ConstructorRefillRate(Capacity, MCHour)

\* The rate scheduler_test.go sets by hand, scaled to one unit per tick.
TestRate == 1

ProducerSymmetry == Permutations(Producers)
=============================================================================
