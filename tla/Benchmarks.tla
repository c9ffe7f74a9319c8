----------------------------- MODULE Benchmarks -----------------------------
(***************************************************************************)
(* The order streams of the main programs, as one of their books gets      *)
(* them.  bench_insert_s and bench_insert_m send the same commands, and so *)
(* do bench_match20_s and bench_match20_m; with one worker or with five, a *)
(* book is handed the commands of its instrument in the order of           *)
(* submission (OneBookPerInstrument of module Engine).                     *)
(***************************************************************************)
EXTENDS DepthTable

CONSTANT NumOrders   \* NUM_ORDERS of each program

ASSUME NumOrdersAssumption == NumOrders \in [{"insert", "match20"} -> Nat]

VARIABLES
    program,     \* which of the two streams
    instrument,  \* the book's instrument, an index into instruments
    next         \* i, the index of the next command

benchVars == <<program, instrument, next>>

NumInstruments == [insert |-> 10, match20 |-> 5]

\* The i-th command of bench_insert_*; prices are in hundredths.
InsertCommand(i) ==
    [instrument |-> i % NumInstruments["insert"],
     side |-> IF i % 2 = 0 THEN "BUY" ELSE "SELL",
     price |-> IF i % 2 = 0 THEN 9999 - (i % 5) ELSE 10001 + (i % 5),
     quantity |-> 200]

\* Sells that start two steps lower
BugLowSells(i) ==
    LET j == i % 10
    IN  [instrument |-> (i \div 10 + 1) % NumInstruments["match20"],
         side |-> IF j < 5 THEN "BUY" ELSE "SELL",
         price |-> IF j < 5 THEN 600 + 100 * j ELSE 300 + 100 * j,
         quantity |-> 1000]

\* The i-th command of bench_match20_*: ten orders per instrument in turn, and
\* instrument_idx is incremented before it is first used.
MatchCommand(i) ==
    LET j == i % 10
    IN  [instrument |-> (i \div 10 + 1) % NumInstruments["match20"],
         side |-> IF j < 5 THEN "BUY" ELSE "SELL",
         price |-> IF j < 5 THEN 600 + 100 * j ELSE 500 + 100 * j,
         quantity |-> 1000]

Command(i) == IF program = "insert" THEN InsertCommand(i) ELSE MatchCommand(i)

BenchInit ==
    /\ Init
    /\ program \in {"insert", "match20"}
    /\ instrument \in 0 .. NumInstruments[program] - 1
    /\ next = 0

\* Worker::run hands over the next command, if it is this book's.
Deliver ==
    LET cmd == Command(next)
    IN  /\ next < NumOrders[program]
        /\ IF cmd.instrument = instrument
           THEN AddOrder(cmd.side, cmd.price, cmd.quantity)
           ELSE Idle /\ UNCHANGED vars
        /\ next' = next + 1
        /\ UNCHANGED <<program, instrument>>

Finished == Idle /\ next = NumOrders[program]

BenchNext ==
    \/ Deliver
    \/ TryMatch /\ UNCHANGED benchVars
    \/ Finished /\ UNCHANGED <<vars, benchVars>>

BenchSpec == BenchInit /\ [][BenchNext]_<<vars, benchVars>>

-----------------------------------------------------------------------------
\* What Worker::run prints of a book when it stops
Report == [trades |-> trades_completed, bids |-> TotalOrders("BUY"),
           asks |-> TotalOrders("SELL")]

\* The benchmarks measure what they say they measure: nothing matches in the
\* insert programs (README.md:59 "no matching"), and a fifth of the orders in
\* the others (README.md:61 "20% match rate"): of every ten orders of a book
\* two trade with each other and four of each side stay.  Stale flags, the
\* levels left by earlier rounds and the pool that grows halfway do not skew it.
MatchRate ==
    Idle =>
        /\ program = "insert" => trades_completed = 0
        /\ program = "match20" /\ Len(orders) % 10 = 0 =>
                LET rounds == Len(orders) \div 10
                IN  Report = [trades |-> rounds, bids |-> 4 * rounds, asks |-> 4 * rounds]

=============================================================================
