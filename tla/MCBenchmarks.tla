---------------------------- MODULE MCBenchmarks ----------------------------
(***************************************************************************)
(* Instance of Benchmarks for TLC: all numbers of orders divided by 10000, *)
(* SPACE_RESERVE (100000) included, so that the pool of a match20 book     *)
(* runs out halfway, as it does in the program.                            *)
(***************************************************************************)
EXTENDS Benchmarks

\* 500000 and 1000000
MCNumOrders == [insert |-> 50, match20 |-> 100]

=============================================================================
