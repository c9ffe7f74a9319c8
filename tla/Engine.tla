------------------------------- MODULE Engine -------------------------------
(***************************************************************************)
(* The engine around the order books: OrderRoutingSystem                   *)
(* (include/order_routing_system.h), Producer (include/producer.h), Worker *)
(* (include/worker.h) and the main programs under src/ that drive them.    *)
(*                                                                         *)
(* The main thread submits NumOrders commands, then the shutdown commands, *)
(* then waits for the workers.  The programs differ in when workers run:   *)
(*   "threads"  one thread per worker, started after the last submit       *)
(*              (src/bench_insert_m.cpp, src/bench_match20_m.cpp);         *)
(*   "single"   main runs its only worker itself, after the shutdown       *)
(*              command (src/bench_insert_s.cpp, src/bench_match20_s.cpp); *)
(*   "live"     threads that are running before the first submit, as a     *)
(*              client of the library would have them ("Order Flow" in     *)
(*              README.md).                                                *)
(*                                                                         *)
(* A queue between the two is the bounded first-in first-out queue that    *)
(* SPSCQueue implements, with one refinement: the producer may not yet     *)
(* have seen that the worker freed a slot, and then still finds the queue  *)
(* full (unseen).  A book is the sequence of commands it was handed; what  *)
(* it does with them is module OrderBook.                                  *)
(***************************************************************************)
EXTENDS Integers, Sequences, FiniteSets

CONSTANTS
    Instruments,  \* the instruments argument, a sequence
    Unlisted,     \* an instrument that is not among them
    NumOrders,    \* NUM_ORDERS, the commands main submits
    Configs       \* the programs considered, each with its number of workers
                  \* and the size of its ring buffers

\* build_order_routing_system divides by the number of instruments and by the
\* number of workers.  A main that runs its worker itself has one, and must
\* get all its orders and the poison pill into the queue before that.
ASSUME InstrumentsAssumption ==
    /\ Len(Instruments) \in Nat \ {0}
    /\ DOMAIN Instruments = 1 .. Len(Instruments)
    /\ \A i \in DOMAIN Instruments : Instruments[i] # Unlisted
ASSUME NumOrdersAssumption == NumOrders \in Nat \ {0}
ASSUME ConfigsAssumption ==
    \A c \in Configs :
        /\ c.num_workers \in Nat \ {0} /\ c.queue_cap \in Nat \ {0}
        /\ \/ c.program \in {"threads", "live"}
           \/ /\ c.program = "single" /\ c.num_workers = 1
              /\ c.queue_cap >= NumOrders + 2

VARIABLES
    config,     \* which of Configs this is
    main,       \* the main program's position
    submitted,  \* number of calls of submit so far
    accepted,   \* history: the commands for which submit returned true
    refused,    \* history: commands lost because the queue seemed full
    queue,      \* queue[w]: the commands in worker w's queue
    unseen,     \* unseen[w]: pops of w's queue the producer has not seen yet
    asked,      \* shutdown_commands_submitted
    scan,       \* the index i of submit_all_shutdown_commands
    started,    \* number of workers started
    stopped,    \* workers that have left run()
    handed      \* handed[w][instrument]: commands given to that book of w

mainVars == <<config, main, submitted, accepted, refused, asked, scan, started>>
vars == <<mainVars, queue, unseen, stopped, handed>>

Program == config.program
NumWorkers == config.num_workers   \* num_workers
QueueCap == config.queue_cap       \* queue_cap

Workers == 0 .. NumWorkers - 1

\* The workers of all configurations
AnyWorkers == UNION {0 .. c.num_workers - 1 : c \in Configs}

Listed == {Instruments[i] : i \in DOMAIN Instruments}

-----------------------------------------------------------------------------
(***************************************************************************)
(* build_order_routing_system                                              *)
(***************************************************************************)

\* The worker of the i-th instrument, counting from 1
WorkerOf(i) == (i - 1) % NumWorkers

\* The books Worker's constructor takes over from its context: an instrument
\* listed twice gives its worker one book, or two workers a book each.
BooksOf(w) == {Instruments[i] : i \in {j \in DOMAIN Instruments : WorkerOf(j) = w}}

\* The least loaded worker chosen
BugRoute(instrument) ==
    CHOOSE w \in Workers : \A v \in Workers : Len(queue[w]) <= Len(queue[v])

\* instrument_router; emplace keeps the first entry of an instrument.
Route(instrument) ==
    WorkerOf(CHOOSE i \in DOMAIN Instruments :
                /\ Instruments[i] = instrument
                /\ \A j \in 1 .. i - 1 : Instruments[j] # instrument)

-----------------------------------------------------------------------------
\* Two slots kept free, and none
BugTwoFree(w) == Len(queue[w]) + unseen[w] < QueueCap - 2
BugNoneFree(w) == Len(queue[w]) + unseen[w] < QueueCap

\* push of worker w's queue: one slot always stays free.
HasSlot(w) == Len(queue[w]) + unseen[w] < QueueCap - 1
Push(w, cmd) == queue' = [queue EXCEPT ![w] = Append(@, cmd)]

Command(n, instrument) == [type |-> "REQUEST", number |-> n, instrument |-> instrument]
Shutdown == [type |-> "SHUTDOWN"]

Init ==
    /\ config \in Configs
    /\ main = IF Program = "live" THEN "start" ELSE "submit"
    /\ submitted = 0 /\ accepted = {} /\ refused = 0
    /\ queue = [w \in Workers |-> <<>>]
    /\ unseen = [w \in Workers |-> 0]
    /\ asked = {} /\ scan = 0
    /\ started = 0 /\ stopped = {}
    /\ handed = [w \in Workers |-> [instrument \in BooksOf(w) |-> <<>>]]

AfterSubmits == IF Program = "threads" THEN "start" ELSE "shutdown"
AfterStarts == IF Program = "live" THEN "submit" ELSE "shutdown"

\* Producer::submit, and main's loop, which drops the result
Submit(instrument) ==
    LET cmd == Command(submitted + 1, instrument)
    IN  /\ main = "submit"
        /\ \/ /\ instrument \notin Listed
              /\ UNCHANGED <<queue, accepted, refused>>
           \/ /\ instrument \in Listed /\ HasSlot(Route(instrument))
              /\ Push(Route(instrument), cmd)
              /\ accepted' = accepted \cup {cmd}
              /\ UNCHANGED refused
           \/ /\ instrument \in Listed /\ ~ HasSlot(Route(instrument))
              /\ refused' = refused + 1
              /\ UNCHANGED <<queue, accepted>>
        /\ submitted' = submitted + 1
        /\ main' = IF submitted' = NumOrders THEN AfterSubmits ELSE "submit"
        /\ UNCHANGED <<config, unseen, asked, scan, started, stopped, handed>>

\* worker_threads.emplace_back of the next worker
StartWorker ==
    /\ main = "start"
    /\ started' = started + 1
    /\ main' = IF started' = NumWorkers THEN AfterStarts ELSE "start"
    /\ UNCHANGED <<config, submitted, accepted, refused, queue, unseen, asked, scan,
                   stopped, handed>>

\* The retry of a queue that was full left out, and the flags not looked at
BugAskOnce(i) ==
    /\ asked' = asked \cup {i}
    /\ IF i \notin asked /\ HasSlot(i) THEN Push(i, Shutdown) ELSE UNCHANGED queue
BugAskAgain(i) ==
    IF HasSlot(i) THEN Push(i, Shutdown) /\ asked' = asked \cup {i}
                  ELSE UNCHANGED <<queue, asked>>

\* The body of the loop of submit_all_shutdown_commands for worker i
Ask(i) ==
    IF i \notin asked /\ HasSlot(i)
    THEN Push(i, Shutdown) /\ asked' = asked \cup {i}
    ELSE UNCHANGED <<queue, asked>>

\* One iteration of that loop.  The outer loop's condition is only looked at
\* after a full pass over the workers.
AskShutdown ==
    LET last == scan = NumWorkers - 1
    IN  /\ main = "shutdown"
        /\ Ask(scan)
        /\ scan' = IF last THEN 0 ELSE scan + 1
        /\ IF last /\ Cardinality(asked') = NumWorkers
           THEN /\ main' = "join"
                /\ started' = NumWorkers     \* "single" calls run() now
           ELSE UNCHANGED <<main, started>>
        /\ UNCHANGED <<config, submitted, accepted, refused, unseen, stopped, handed>>

\* All threads joined, or run() returned
Join ==
    /\ main = "join"
    /\ stopped = Workers
    /\ main' = "exit"
    /\ UNCHANGED <<config, submitted, accepted, refused, asked, scan, started, queue,
                   unseen, stopped, handed>>

-----------------------------------------------------------------------------
Running(w) == w \in Workers /\ w < started /\ w \notin stopped

\* A successful pop
Pop(w) ==
    /\ Running(w) /\ queue[w] # <<>>
    /\ queue' = [queue EXCEPT ![w] = Tail(@)]
    /\ unseen' = [unseen EXCEPT ![w] = @ + 1]

\* Worker::run and process_command: the command goes to the book of its
\* instrument; run() ignores that there may be none.
ProcessCommand(w) ==
    LET cmd == Head(queue[w])
    IN  /\ Pop(w)
        /\ cmd.type # "SHUTDOWN"
        /\ handed' = IF cmd.instrument \in BooksOf(w)
                     THEN [handed EXCEPT ![w][cmd.instrument] = Append(@, cmd)]
                     ELSE handed
        /\ UNCHANGED <<mainVars, stopped>>

\* The poison pill
Stop(w) ==
    /\ Pop(w)
    /\ Head(queue[w]).type = "SHUTDOWN"
    /\ stopped' = stopped \cup {w}
    /\ UNCHANGED <<mainVars, handed>>

\* The producer sees one more of the worker's stores to _tail.
SeePop(w) ==
    /\ w \in Workers /\ unseen[w] > 0
    /\ unseen' = [unseen EXCEPT ![w] = @ - 1]
    /\ UNCHANGED <<mainVars, queue, stopped, handed>>

Main == (\E instrument \in Listed \cup {Unlisted} : Submit(instrument))
            \/ StartWorker \/ AskShutdown \/ Join
Work(w) == ProcessCommand(w) \/ Stop(w)

Next == Main \/ \E w \in AnyWorkers : Work(w) \/ SeePop(w)

Spec == Init /\ [][Next]_vars

\* Every thread keeps running, and stores become visible in finite time.
FairSpec ==
    /\ Spec
    /\ WF_vars(Main)
    /\ \A w \in AnyWorkers : WF_vars(Work(w)) /\ WF_vars(SeePop(w))

-----------------------------------------------------------------------------
(***************************************************************************)
(* Properties                                                              *)
(***************************************************************************)

Requests(instrument) ==
    {cmd \in accepted : cmd.instrument = instrument}

Logged(log) == {log[i] : i \in DOMAIN log}

\* A book's log holds requests in the order of their numbers, each once, and
\* every request that is not in it has a greater number than all that are.
InSubmissionOrder(log, requests) ==
    /\ Logged(log) \subseteq requests
    /\ \A i, j \in DOMAIN log : i < j => log[i].number < log[j].number
    /\ \A cmd \in requests : \A i \in DOMAIN log :
            cmd.number < log[i].number => cmd \in Logged(log)

Owners(instrument) == {w \in Workers : instrument \in BooksOf(w)}

Commands == {Command(n, instrument) : n \in 1 .. NumOrders, instrument \in Listed}

\* Values each variable can take; what the producer knows to be in a ring
\* buffer leaves one slot free.
TypeOK ==
    /\ config \in Configs
    /\ main \in {"submit", "start", "shutdown", "join", "exit"}
    /\ submitted \in 0 .. NumOrders /\ refused \in 0 .. NumOrders
    /\ accepted \subseteq Commands
    /\ asked \subseteq Workers /\ stopped \subseteq Workers
    /\ scan \in Workers /\ started \in 0 .. NumWorkers
    /\ queue \in [Workers -> Seq(Commands \cup {Shutdown})]
    /\ unseen \in [Workers -> Nat]
    /\ DOMAIN handed = Workers
    /\ \A w \in Workers :
            /\ Len(queue[w]) + unseen[w] <= QueueCap - 1
            /\ handed[w] \in [BooksOf(w) -> Seq(Commands)]

\* Main ignores what submit returns, so the queues must be large enough: with
\* more slots than orders no order is lost, wherever the orders are routed and
\* however late the producer sees that slots are free again.
\* src/bench_insert_s.cpp:29 "ensure that the consumer loads all orders".
NoOrderRefused == NumOrders < QueueCap => refused = 0

\* All accepted commands of an instrument go to one and the same book, each
\* once and in the order of their submission, even when the instrument is
\* listed twice and two workers have a book for it.  README.md:101 "Each symbol
\* is assigned to exactly one worker".
OneBookPerInstrument ==
    \A instrument \in Listed :
        \E w \in Owners(instrument) :
            /\ InSubmissionOrder(handed[w][instrument], Requests(instrument))
            /\ \A v \in Owners(instrument) \ {w} : handed[v][instrument] = <<>>

\* When main exits ("All workers stopped cleanly."), no worker has left a
\* command behind the poison pill: all that was accepted was processed.
NothingLeftAtExit ==
    main = "exit" =>
        /\ \A w \in Workers : queue[w] = <<>>
        /\ \A instrument \in Listed :
                \E w \in Owners(instrument) :
                    Logged(handed[w][instrument]) = Requests(instrument)

\* The program ends: submit_all_shutdown_commands gets its poison pills into
\* queues that were full, and every worker finds its own.
Terminates == <>(main = "exit")

=============================================================================
