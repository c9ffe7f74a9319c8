------------------------- MODULE IdAllocatorProofs -------------------------
(***************************************************************************)
(* Order ids are unique for every number of books, every block size and    *)
(* every word size.  The inductive invariant is TypeOK /\ BlocksDisjoint.  *)
(***************************************************************************)
EXTENDS IdAllocator, TLAPS

IInv == TypeOK /\ BlocksDisjoint

USE BlockSizeAssumption, WordAssumption

\* Arithmetic modulo Word on the values that the counter takes.
LEMMA ModWord ==
    /\ \A n \in Nat : n % Word \in OrderIds
    /\ \A n \in Nat : n < Word => n % Word = n
    /\ Word % Word = 0
  BY DEF OrderIds

\* The block that get_next_id_block hands out before the counter wraps: the
\* counter has its unwrapped value, and the block ends at its new one.
LEMMA FreshBlock ==
    ASSUME IInv, GetNextIdBlock
    PROVE  /\ counter' \in OrderIds /\ reserved' \in Nat \ {0}
           /\ (counter + BlockSize) % Word \in OrderIds
           /\ reserved' <= Word =>
                /\ reserved < Word /\ counter = reserved
                /\ counter' = reserved' % Word
                /\ reserved' < Word => (counter + BlockSize) % Word = reserved'
                /\ reserved' = Word => (counter + BlockSize) % Word = 0
  <1>1. counter \in Nat /\ reserved \in Nat \ {0}
    BY DEF IInv, TypeOK, OrderIds
  <1>2. counter + BlockSize \in Nat /\ reserved + BlockSize \in Nat
    BY <1>1
  <1>3. reserved + BlockSize <= Word => reserved < Word
    BY <1>1
  <1>4. reserved + BlockSize <= Word => counter = reserved
    BY <1>1, <1>3, ModWord DEF IInv, BlocksDisjoint, Disjoint
  <1> QED
    BY <1>1, <1>2, <1>3, <1>4, ModWord DEF GetNextIdBlock

\* Before any book exists nothing is reserved or issued.
LEMMA InitInv == Init => IInv
  BY ModWord DEF Init, IInv, TypeOK, BlocksDisjoint, Disjoint, Pending, OrderIds,
                 FIRST_ORDER_ID

\* What the three actions have in common: book b goes on with the ids in mine,
\* which come from its own block or are new, and the id in taken, if any, is
\* used for the first time.
Moves(b, mine, taken, r) ==
    /\ r \in Nat /\ reserved' = r /\ reserved <= r /\ reserved <= Word
    /\ counter' = r % Word
    /\ DOMAIN next_id' = DOMAIN next_id \cup {b}
    /\ \A c \in DOMAIN next_id : c # b =>
            /\ next_id'[c] = next_id[c] /\ block_end'[c] = block_end[c]
            /\ Pending(c)' = Pending(c)
    /\ Pending(b)' = mine
    /\ next_id'[b] # block_end'[b] => next_id'[b] \in mine
    /\ taken \cap mine = {}
    /\ \A id \in mine \cup taken :
            /\ id \in OrderIds
            /\ \/ b \in DOMAIN next_id /\ id \in Pending(b)
               \/ id \in reserved .. r - 1
    /\ \A id \in OrderIds :
            uses'[id] = IF id \in taken THEN uses[id] + 1 ELSE uses[id]

\* Such a step keeps the blocks disjoint.
LEMMA StepDisjoint ==
    ASSUME IInv, NEW b, NEW mine, NEW taken, NEW r, Moves(b, mine, taken, r)
    PROVE  Disjoint'
  <1> USE DEF Moves
  <1>1. TypeOK /\ Disjoint /\ reserved \in Nat \ {0}
    BY DEF IInv, BlocksDisjoint, TypeOK
  <1>2. \A id \in mine \cup taken : id \in 1 .. r - 1 /\ uses[id] = 0
    <2> SUFFICES ASSUME NEW id \in mine \cup taken
                 PROVE  id \in 1 .. r - 1 /\ uses[id] = 0
      OBVIOUS
    <2>1. CASE b \in DOMAIN next_id /\ id \in Pending(b)
      BY <1>1, <2>1 DEF Disjoint
    <2>2. CASE id \in reserved .. r - 1
      <3>1. id \in 1 .. r - 1 /\ id \notin 1 .. reserved - 1
        BY <1>1, <2>2
      <3> QED
        BY <1>1, <3>1 DEF Disjoint
    <2> QED
      BY <2>1, <2>2
  <1>3. \A c \in DOMAIN next_id : c # b => Pending(c) \cap (mine \cup taken) = {}
    <2> SUFFICES ASSUME NEW c \in DOMAIN next_id, c # b,
                        NEW id \in mine \cup taken, id \in Pending(c)
                 PROVE  FALSE
      OBVIOUS
    <2>1. CASE b \in DOMAIN next_id /\ id \in Pending(b)
      BY <1>1, <2>1 DEF Disjoint
    <2>2. CASE id \in reserved .. r - 1
      BY <1>1, <2>2 DEF Disjoint
    <2> QED
      BY <2>1, <2>2
  <1>4. ASSUME NEW c \in DOMAIN next_id'
        PROVE  /\ next_id'[c] # block_end'[c] => next_id'[c] \in Pending(c)'
               /\ \A id \in Pending(c)' : id \in 1 .. r - 1 /\ uses'[id] = 0
               /\ \A d \in DOMAIN next_id' \ {c} : Pending(c)' \cap Pending(d)' = {}
    <2>1. CASE c = b
      <3>1. \A id \in Pending(c)' : id \in 1 .. r - 1 /\ uses'[id] = 0
        BY <2>1, <1>2
      <3>2. \A d \in DOMAIN next_id' \ {c} : Pending(c)' \cap Pending(d)' = {}
        BY <2>1, <1>3
      <3> QED
        BY <2>1, <3>1, <3>2
    <2>2. CASE c # b
      <3>0. c \in DOMAIN next_id /\ Pending(c)' = Pending(c)
        BY <2>2
      <3>1. next_id'[c] # block_end'[c] => next_id'[c] \in Pending(c)'
        BY <2>2, <3>0, <1>1 DEF Disjoint
      <3>2. \A id \in Pending(c) : id \in 1 .. r - 1 /\ uses'[id] = 0
        <4> SUFFICES ASSUME NEW id \in Pending(c)
                     PROVE  id \in 1 .. r - 1 /\ uses'[id] = 0
          OBVIOUS
        <4>1. id \in 1 .. reserved - 1 /\ uses[id] = 0
          BY <3>0, <1>1 DEF Disjoint
        <4>2. id \in OrderIds /\ id \notin taken
          BY <4>1, <3>0, <2>2, <1>1, <1>3 DEF OrderIds
        <4>3. uses'[id] = 0
          BY <4>1, <4>2
        <4>4. id \in 1 .. r - 1
          BY <4>1, <1>1
        <4> QED
          BY <4>3, <4>4
      <3>3. ASSUME NEW d \in DOMAIN next_id' \ {c}
            PROVE  Pending(c)' \cap Pending(d)' = {}
        <4>1. CASE d = b
          BY <4>1, <3>0, <2>2, <1>3
        <4>2. CASE d # b
          BY <4>2, <3>0, <1>1 DEF Disjoint
        <4> QED
          BY <4>1, <4>2
      <3> QED
        BY <3>0, <3>1, <3>2, <3>3
    <2> QED
      BY <2>1, <2>2
  <1>5. ASSUME NEW id \in OrderIds, uses'[id] # 0
        PROVE  uses'[id] = 1 /\ id \in 1 .. r - 1
    BY <1>1, <1>2, <1>5 DEF Disjoint
  <1> QED
    BY <1>4, <1>5 DEF Disjoint

\* The constructor of OrderBook keeps the invariant: its first block is new.
LEMMA ConstructInv ==
    ASSUME IInv, NEW b \in Books, Construct(b)
    PROVE  IInv'
  <1>1. TypeOK'
    BY FreshBlock DEF Construct, IInv, TypeOK, With
  <1>2. BlocksDisjoint'
    <2> SUFFICES ASSUME reserved' <= Word PROVE Disjoint'
      BY DEF BlocksDisjoint
    <2> DEFINE mine == reserved .. reserved' - 1
    <2>1. /\ reserved \in Nat \ {0} /\ reserved < Word /\ counter = reserved
          /\ reserved' = reserved + BlockSize
          /\ counter' = reserved' % Word
          /\ uses' = uses
      BY FreshBlock DEF Construct, GetNextIdBlock, IInv, TypeOK
    <2>2. DOMAIN next_id' = DOMAIN next_id \cup {b}
      BY DEF Construct, With
    <2>3. Pending(b)' = mine /\ next_id'[b] \in mine
      BY <2>1, <2>2, FreshBlock DEF Construct, With, Pending
    <2>4. \A c \in DOMAIN next_id : c # b =>
                next_id'[c] = next_id[c] /\ block_end'[c] = block_end[c]
      BY DEF Construct, With, IInv, TypeOK
    <2>5. \A c \in DOMAIN next_id : c # b => Pending(c)' = Pending(c)
      BY <2>4 DEF Pending
    <2>6. \A id \in mine : id \in OrderIds
      BY <2>1 DEF OrderIds
    <2> HIDE DEF mine
    <2>7. \A id \in mine : id \in reserved .. reserved' - 1
      BY DEF mine
    <2> QED
      <3>1. Moves(b, mine, {}, reserved + BlockSize)
        BY <2>1, <2>2, <2>3, <2>4, <2>5, <2>6, <2>7 DEF Moves
      <3> QED
        BY <3>1, StepDisjoint
  <1> QED
    BY <1>1, <1>2 DEF IInv

\* get_order_id within a block keeps it: the book gives away its own next id.
LEMMA NextInBlockInv ==
    ASSUME IInv, NEW b \in Books, NextInBlock(b)
    PROVE  IInv'
  <1>0. b \in DOMAIN next_id /\ next_id[b] \in OrderIds /\ block_end[b] \in OrderIds
    BY DEF NextInBlock, IInv, TypeOK
  <1>1. TypeOK'
    <2>1. (next_id[b] + 1) % Word \in OrderIds
      BY <1>0, ModWord DEF OrderIds
    <2>2. uses' \in [OrderIds -> Nat]
      BY <1>0 DEF NextInBlock, IInv, TypeOK
    <2> QED
      BY <2>1, <2>2 DEF NextInBlock, IInv, TypeOK
  <1>2. BlocksDisjoint'
    <2> SUFFICES ASSUME reserved' <= Word PROVE Disjoint'
      BY DEF BlocksDisjoint
    <2> DEFINE mine == Pending(b) \ {next_id[b]}
    <2>1. /\ reserved' = reserved /\ reserved \in Nat \ {0}
          /\ counter' = reserved' % Word
          /\ DOMAIN next_id' = DOMAIN next_id \cup {b}
      <3>1. reserved' = reserved /\ counter' = counter
        BY DEF NextInBlock
      <3>3. counter = reserved % Word
        BY <3>1 DEF IInv, BlocksDisjoint, Disjoint
      <3>2. DOMAIN next_id' = DOMAIN next_id
        BY DEF NextInBlock
      <3> QED
        BY <1>0, <3>1, <3>2, <3>3 DEF IInv, TypeOK
    <2>2. /\ next_id[b] \in Pending(b)
          /\ \A id \in Pending(b) : id \in OrderIds
      BY <1>0, <2>1 DEF NextInBlock, IInv, BlocksDisjoint, Disjoint, OrderIds
    <2>3. Pending(b)' = mine /\ (next_id'[b] # block_end'[b] => next_id'[b] \in mine)
      <3>1. next_id'[b] = (next_id[b] + 1) % Word /\ block_end'[b] = block_end[b]
        BY <1>0 DEF NextInBlock
      <3>2. next_id[b] + 1 < Word => next_id'[b] = next_id[b] + 1
        BY <1>0, <3>1, ModWord DEF OrderIds
      <3>3. next_id[b] + 1 = Word => next_id'[b] = 0
        BY <1>0, <3>1, ModWord DEF OrderIds
      <3> QED
        BY <1>0, <2>2, <3>1, <3>2, <3>3 DEF NextInBlock, Pending, OrderIds
    <2>4. \A c \in DOMAIN next_id : c # b =>
                next_id'[c] = next_id[c] /\ block_end'[c] = block_end[c]
      BY DEF NextInBlock, IInv, TypeOK
    <2>5. \A c \in DOMAIN next_id : c # b => Pending(c)' = Pending(c)
      BY <2>4 DEF Pending
    <2>6. \A id \in OrderIds :
                uses'[id] = IF id \in {next_id[b]} THEN uses[id] + 1 ELSE uses[id]
      BY <1>0 DEF NextInBlock, IInv, TypeOK
    <2>7. /\ {next_id[b]} \cap mine = {}
          /\ \A id \in mine \cup {next_id[b]} : id \in Pending(b)
      BY <2>2
    <2> HIDE DEF mine
    <2> QED
      <3>1. Moves(b, mine, {next_id[b]}, reserved)
        BY <1>0, <2>1, <2>2, <2>3, <2>4, <2>5, <2>6, <2>7 DEF Moves
      <3> QED
        BY <3>1, StepDisjoint
  <1> QED
    BY <1>1, <1>2 DEF IInv

\* get_order_id with a new block keeps it.
LEMMA NextInNewBlockInv ==
    ASSUME IInv, NEW b \in Books, NextInNewBlock(b)
    PROVE  IInv'
  <1>0. b \in DOMAIN next_id /\ counter \in OrderIds
    BY DEF NextInNewBlock, IInv, TypeOK
  <1>1. TypeOK'
    <2>1. (counter + 1) % Word \in OrderIds
      BY <1>0, ModWord DEF OrderIds
    <2>2. uses' \in [OrderIds -> Nat]
      BY <1>0 DEF NextInNewBlock, IInv, TypeOK
    <2> QED
      BY <2>1, <2>2, FreshBlock DEF NextInNewBlock, IInv, TypeOK
  <1>2. BlocksDisjoint'
    <2> SUFFICES ASSUME reserved' <= Word PROVE Disjoint'
      BY DEF BlocksDisjoint
    <2> DEFINE mine == reserved + 1 .. reserved' - 1
    <2>1. /\ reserved \in Nat \ {0} /\ reserved < Word /\ counter = reserved
          /\ reserved' = reserved + BlockSize
          /\ counter' = reserved' % Word
          /\ DOMAIN next_id' = DOMAIN next_id \cup {b}
      BY <1>0, FreshBlock DEF NextInNewBlock, GetNextIdBlock, IInv, TypeOK
    <2>2. Pending(b)' = mine /\ (next_id'[b] # block_end'[b] => next_id'[b] \in mine)
      <3>1. /\ next_id'[b] = (reserved + 1) % Word
            /\ block_end'[b] = (reserved + BlockSize) % Word
        BY <1>0, <2>1 DEF NextInNewBlock, IInv, TypeOK
      <3>2. /\ reserved + 1 < Word => next_id'[b] = reserved + 1
            /\ reserved + 1 = Word => next_id'[b] = 0
        BY <2>1, <3>1, ModWord
      <3>3. /\ reserved' < Word => block_end'[b] = reserved'
            /\ reserved' = Word => block_end'[b] = 0
        BY <2>1, <3>1, ModWord
      <3> QED
        BY <2>1, <3>2, <3>3, SMTT(20) DEF Pending
    <2>3. \A c \in DOMAIN next_id : c # b =>
                next_id'[c] = next_id[c] /\ block_end'[c] = block_end[c]
      BY DEF NextInNewBlock, IInv, TypeOK
    <2>4. \A c \in DOMAIN next_id : c # b => Pending(c)' = Pending(c)
      BY <2>3 DEF Pending
    <2>5. \A id \in OrderIds :
                uses'[id] = IF id \in {reserved} THEN uses[id] + 1 ELSE uses[id]
      BY <1>0, <2>1 DEF NextInNewBlock, IInv, TypeOK
    <2>6. /\ {reserved} \cap mine = {}
          /\ \A id \in mine \cup {reserved} :
                id \in OrderIds /\ id \in reserved .. reserved' - 1
      BY <2>1 DEF OrderIds
    <2> HIDE DEF mine
    <2> QED
      <3>1. Moves(b, mine, {reserved}, reserved + BlockSize)
        BY <2>1, <2>2, <2>3, <2>4, <2>5, <2>6 DEF Moves
      <3> QED
        BY <3>1, StepDisjoint
  <1> QED
    BY <1>1, <1>2 DEF IInv

\* TypeOK and BlocksDisjoint hold in every state IdAllocator and its books can
\* reach.
THEOREM Blocks == Spec => [](TypeOK /\ BlocksDisjoint)
  <1>1. IInv /\ [Next]_vars => IInv'
    <2> SUFFICES ASSUME IInv, [Next]_vars PROVE IInv'
      OBVIOUS
    <2>1. ASSUME NEW b \in Books, Construct(b) PROVE IInv'
      BY <2>1, ConstructInv
    <2>2. ASSUME NEW b \in Books, NextInBlock(b) PROVE IInv'
      BY <2>2, NextInBlockInv
    <2>3. ASSUME NEW b \in Books, NextInNewBlock(b) PROVE IInv'
      BY <2>3, NextInNewBlockInv
    <2>4. CASE UNCHANGED vars
      BY <2>4 DEF IInv, TypeOK, BlocksDisjoint, Disjoint, Pending, vars
    <2> QED
      BY <2>1, <2>2, <2>3, <2>4 DEF Next
  <1> QED
    BY <1>1, InitInv, PTL DEF Spec, IInv

\* Counter, block ends and ids stay within the width of OrderId.
THEOREM IdTypes == Spec => []TypeOK
  BY Blocks, PTL

\* No two orders get the same id before the counter has gone round once.
THEOREM Unique == Spec => []UniqueIds
  <1>1. TypeOK /\ BlocksDisjoint => UniqueIds
    BY DEF TypeOK, BlocksDisjoint, Disjoint, UniqueIds
  <1> QED
    BY <1>1, Blocks, PTL

\* No order gets DEFAULT_ORDER_ID or INVALID_ORDER_ID before that.
THEOREM NotReserved == Spec => []NoReservedId
  <1>1. TypeOK /\ BlocksDisjoint => NoReservedId
    BY DEF TypeOK, BlocksDisjoint, Disjoint, NoReservedId, OrderIds,
           DEFAULT_ORDER_ID, INVALID_ORDER_ID
  <1> QED
    BY <1>1, Blocks, PTL

=============================================================================
