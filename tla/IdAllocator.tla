---------------------------- MODULE IdAllocator ----------------------------
(***************************************************************************)
(* IdAllocator of include/id_allocator.h and its clients, the order books: *)
(* an atomic counter hands out blocks of order ids, and each book numbers  *)
(* its orders from its current block (OrderBook::get_order_id).  Books on  *)
(* different worker threads share nothing but the counter.                 *)
(*                                                                         *)
(* Ids are uint64_t in the code; here they are counted modulo Word.        *)
(***************************************************************************)
EXTENDS Integers

CONSTANTS
    Books,      \* the order books that share the allocator
    BlockSize,  \* _block_size
    Word,       \* number of values of an OrderId, 2^64 in the code
    MaxReserved \* bound: ids reserved in blocks, counted without wrap-around

\* With a block size of 0 every book would number its orders from 1.
ASSUME BlockSizeAssumption == BlockSize \in Nat \ {0}
ASSUME WordAssumption == Word \in Nat /\ Word > 2
ASSUME MaxReservedAssumption == MaxReserved \in Nat

VARIABLES
    counter,   \* _global_counter
    next_id,   \* _next_available_order_id of each book constructed so far
    block_end, \* _order_id_block._end of each book constructed so far
    reserved,  \* history: what counter would be without wrap-around
    uses       \* history: how many orders, of all books, were given each id

vars == <<counter, next_id, block_end, reserved, uses>>

OrderIds == 0 .. Word - 1

DEFAULT_ORDER_ID == 0
INVALID_ORDER_ID == Word - 1

\* The first block starting at the id that means "no id yet"
BugFirstOrderId == 0
FIRST_ORDER_ID == 1

Init ==
    /\ counter = FIRST_ORDER_ID
    /\ next_id = <<>> /\ block_end = <<>>
    /\ reserved = FIRST_ORDER_ID
    /\ uses = [id \in OrderIds |-> 0]

\* The counter read and written back without fetch_add, another book's
\* allocation falling in between
BugLostUpdate ==
    /\ reserved + BlockSize <= MaxReserved
    /\ counter' \in {counter, (counter + BlockSize) % Word}
    /\ reserved' = reserved + BlockSize

\* get_next_id_block: the block is [counter, counter + BlockSize).
GetNextIdBlock ==
    /\ reserved + BlockSize <= MaxReserved
    /\ counter' = (counter + BlockSize) % Word
    /\ reserved' = reserved + BlockSize

With(f, b, value) == [c \in DOMAIN f \cup {b} |-> IF c = b THEN value ELSE f[c]]

\* The constructor of OrderBook takes the first block.
Construct(b) ==
    /\ b \notin DOMAIN next_id
    /\ GetNextIdBlock
    /\ next_id' = With(next_id, b, counter)
    /\ block_end' = With(block_end, b, (counter + BlockSize) % Word)
    /\ UNCHANGED uses

\* The next id kept in an integer wider than OrderId
BugWiderId(b) ==
    /\ b \in DOMAIN next_id
    /\ next_id[b] # block_end[b]
    /\ uses' = [uses EXCEPT ![next_id[b]] = @ + 1]
    /\ next_id' = [next_id EXCEPT ![b] = @ + 1]
    /\ UNCHANGED <<counter, block_end, reserved>>

\* OrderBook::get_order_id within the block
NextInBlock(b) ==
    /\ b \in DOMAIN next_id
    /\ next_id[b] # block_end[b]
    /\ uses' = [uses EXCEPT ![next_id[b]] = @ + 1]
    /\ next_id' = [next_id EXCEPT ![b] = (@ + 1) % Word]
    /\ UNCHANGED <<counter, block_end, reserved>>

\* OrderBook::get_order_id with the block used up
NextInNewBlock(b) ==
    /\ b \in DOMAIN next_id
    /\ next_id[b] = block_end[b]
    /\ GetNextIdBlock
    /\ uses' = [uses EXCEPT ![counter] = @ + 1]
    /\ next_id' = [next_id EXCEPT ![b] = (counter + 1) % Word]
    /\ block_end' = [block_end EXCEPT ![b] = (counter + BlockSize) % Word]

Next == \E b \in Books : Construct(b) \/ NextInBlock(b) \/ NextInNewBlock(b)

Spec == Init /\ [][Next]_vars

-----------------------------------------------------------------------------
\* Values each variable can take.
TypeOK ==
    /\ counter \in OrderIds
    /\ DOMAIN next_id = DOMAIN block_end /\ DOMAIN next_id \subseteq Books
    /\ \A b \in DOMAIN next_id :
            next_id[b] \in OrderIds /\ block_end[b] \in OrderIds
    /\ reserved \in Nat \ {0}
    /\ uses \in [OrderIds -> Nat]

\* No two orders of any books get the same id, whatever the interleaving of
\* the books' allocations, until the counter has gone round once.  The registry
\* (_order_registry[id] = order) and the levels' maps rely on it.
UniqueIds ==
    reserved <= Word => \A id \in OrderIds : uses[id] <= 1

\* No order gets an id that means "not assigned" or "invalid", up to the last
\* block before the counter reaches 2^64 (core.h).
NoReservedId ==
    reserved < Word =>
        \A id \in {DEFAULT_ORDER_ID, INVALID_ORDER_ID} : uses[id] = 0

\* The ids book b can still hand out of its block
Pending(b) ==
    IF next_id[b] = block_end[b]
    THEN {}
    ELSE next_id[b] .. (IF block_end[b] = 0 THEN Word ELSE block_end[b]) - 1

\* The blocks do not overlap, every id a book still holds is below the counter
\* and has not been issued, and an id that was issued was issued once and is
\* below the counter too.
Disjoint ==
    /\ counter = reserved % Word
    /\ \A b \in DOMAIN next_id :
            /\ next_id[b] # block_end[b] => next_id[b] \in Pending(b)
            /\ \A id \in Pending(b) : id \in 1 .. reserved - 1 /\ uses[id] = 0
            /\ \A c \in DOMAIN next_id \ {b} : Pending(b) \cap Pending(c) = {}
    /\ \A id \in OrderIds :
            uses[id] # 0 => uses[id] = 1 /\ id \in 1 .. reserved - 1

\* Until the counter of IdAllocator wraps, what the books may still issue from
\* their blocks is theirs alone and new.
BlocksDisjoint == reserved <= Word => Disjoint

=============================================================================
