------------------------------ MODULE MCEngine ------------------------------
(***************************************************************************)
(* Instance of Engine for TLC.                                             *)
(***************************************************************************)
EXTENDS Engine

\* With two workers "A" has a book with each of them, and worker 0 has two
\* books; with one worker "A" has one book.
MCInstruments == <<"A", "A", "B">>

Config(program, num_workers, queue_cap) ==
    [program |-> program, num_workers |-> num_workers, queue_cap |-> queue_cap]

\* Queues that fill up, the NUM_ORDERS + 2 slots of the main programs, and the
\* fewest slots that take all their orders
MCConfigs ==
    {Config("live", 2, 3), Config("threads", 2, 3), Config("live", 2, NumOrders + 2),
     Config("threads", 2, NumOrders + 1), Config("threads", 2, NumOrders + 2),
     Config("single", 1, NumOrders + 2)}

=============================================================================
