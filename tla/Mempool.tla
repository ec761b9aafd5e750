------------------------------ MODULE Mempool ------------------------------
(***************************************************************************)
(* The two-level element allocator of core/mempool.c and inc/kns/mempool.h.*)
(*                                                                         *)
(* A datastore owns the elements and keeps a list of chunks under a spin   *)
(* lock; each pool (one per CPU) keeps a list of free elements and one     *)
(* private chunk.  Lists are threaded through the elements' own headers    *)
(* (struct mempool_hdr), which belong to the caller while an element is    *)
(* allocated: the model keeps the two header words next and nextChunk and  *)
(* overwrites them with Dirty when an element is handed out.               *)
(***************************************************************************)
EXTENDS Integers, FiniteSetsExt, Functions

CONSTANTS
    Pools,         \* one per CPU
    NrElems,       \* nr_elems of mempool_create_datastore
    ElemsPerPage,  \* PAGE_SIZE_2MB / elem_len
    ChunkSize,     \* chunk_size
    Nostraddle,    \* nostraddle
    BugOnTraps,    \* FALSE: BUG_ON compiled to nothing (CONFIG_BUG unset)
    MaxDeficit,    \* bound: how far below 0 num_free may go
    NULL, Dirty    \* a null pointer; the caller's data where a pointer was

\* The BUG_ONs at the top of mempool_create_datastore, read as the assertions
\* they were ported from, are what its callers pass.
ASSUME GeometryAssumption ==
    /\ NrElems \in Nat \ {0} /\ ElemsPerPage \in Nat \ {0}
    /\ ChunkSize \in Nat \ {0}
    /\ NrElems % ChunkSize = 0
    /\ MaxDeficit \in Nat
    /\ Nostraddle \in BOOLEAN /\ BugOnTraps \in BOOLEAN

VARIABLES
    dsMagic,       \* mds->magic == MEMPOOL_MAGIC
    chunkHead,     \* mds->chunk_head
    freeChunks,    \* mds->free_chunks
    lock,          \* the pool that holds mds->lock, or NULL
    next,          \* next[e]: the header's next
    nextChunk,     \* nextChunk[e]: the header's next_chunk
    magic,         \* magic[m]: m->magic == MEMPOOL_MAGIC
    head,          \* head[m]: m->head
    privateChunk,  \* privateChunk[m]: m->private_chunk
    numFree,       \* numFree[m]: m->num_free
    pc,            \* pc[m]: where the pool's CPU is
    reg,           \* reg[m]: h of mempool_alloc_2, elem of mempool_free_2
    chunked,       \* the elements mempool_init_buf_with_pages put in chunks
    held           \* elements in the hands of the callers

store == <<dsMagic, chunkHead, freeChunks, chunked, lock>>
links == <<next, nextChunk>>
pools == <<magic, head, privateChunk, numFree>>
vars  == <<dsMagic, chunkHead, freeChunks, lock, next, nextChunk,
           magic, head, privateChunk, numFree, pc, reg, chunked, held>>

\* DIV_ROUND_UP(nr_elems, elems_per_page).
nr_pages == (NrElems + ElemsPerPage - 1) \div ElemsPerPage

\* Elements laid out in the buffer, and whole chunks of them.
LastElem   == IF Nostraddle THEN nr_pages * ElemsPerPage ELSE NrElems
num_chunks == LastElem \div ChunkSize

\* The elements of mds->buf, in the order of their addresses.
Elems == 1..LastElem

ASSUME PointerAssumption == NULL \notin Elems /\ Dirty \notin Elems /\ NULL # Dirty

Init ==
    /\ dsMagic = FALSE /\ chunkHead = NULL /\ freeChunks = 0 /\ lock = NULL
    /\ next = [e \in Elems |-> NULL]
    /\ nextChunk = [e \in Elems |-> NULL]
    /\ magic = [m \in Pools |-> FALSE]
    /\ head = [m \in Pools |-> NULL]
    /\ privateChunk = [m \in Pools |-> NULL]
    /\ numFree = [m \in Pools |-> 0]
    /\ pc = [m \in Pools |-> "idle"]
    /\ reg = [m \in Pools |-> NULL]
    /\ chunked = {}
    /\ held = {}

\* BUG_ON of a condition that holds: the CPU stops.
Bug(m) ==
    /\ pc' = [pc EXCEPT ![m] = "BUG"]
    /\ UNCHANGED <<store, links, pools, reg, held>>

-----------------------------------------------------------------------------
\* The position of the first element of the k-th chunk.
First(k) == (k - 1) * ChunkSize + 1

\* Mutant of mempool_init_buf: chunk_count is reset one element late.
InitBufLate ==
    /\ next' = [e \in Elems |->
         IF e % (ChunkSize + 1) # 0 /\ e < LastElem THEN e + 1 ELSE next[e]]
    /\ nextChunk' = [e \in Elems |->
         IF \E k \in 2..num_chunks : e = First(k) THEN e - ChunkSize ELSE nextChunk[e]]
    /\ chunkHead' = IF num_chunks = 0 THEN NULL ELSE First(num_chunks)
    /\ freeChunks' = num_chunks
    /\ chunked' = 1..num_chunks * ChunkSize

\* mempool_init_buf_with_pages.  Every chunk_size elements form a chunk, which
\* goes to the front of the chunk list; the elements behind the last whole
\* chunk are linked to each other and to nothing else.  The last next of a
\* chunk and the last next_chunk are what the pages hold: zeroes.
mempool_init_buf ==
    /\ next' = [e \in Elems |->
         IF e % ChunkSize # 0 /\ e < LastElem THEN e + 1 ELSE next[e]]
    /\ nextChunk' = [e \in Elems |->
         IF \E k \in 2..num_chunks : e = First(k) THEN e - ChunkSize ELSE nextChunk[e]]
    /\ chunkHead' = IF num_chunks = 0 THEN NULL ELSE First(num_chunks)
    /\ freeChunks' = num_chunks
    /\ chunked' = 1..num_chunks * ChunkSize

\* The module's start on CPU m: page_alloc may fail.
mempool_create_datastore(m) ==
    /\ pc[m] = "idle"
    /\ ~dsMagic
    /\ \/ BugOnTraps /\ Bug(m)
       \/ /\ ~BugOnTraps
          /\ dsMagic' = TRUE
          /\ \/ mempool_init_buf
             \/ UNCHANGED <<links, chunkHead, freeChunks, chunked>>
          /\ UNCHANGED <<lock, pools, pc, reg, held>>

kns_mempool_create(m) ==
    /\ pc[m] = "idle"
    /\ dsMagic /\ ~magic[m]
    /\ \/ BugOnTraps /\ Bug(m)
       \/ /\ ~BugOnTraps
          /\ magic' = [magic EXCEPT ![m] = TRUE]
          /\ head' = [head EXCEPT ![m] = NULL]
          /\ UNCHANGED <<store, links, privateChunk, numFree, pc, reg, held>>

-----------------------------------------------------------------------------
\* e is handed to the caller, who uses all of it.
HandOut(e) ==
    /\ held' = held \cup {e}
    /\ next' = [next EXCEPT ![e] = Dirty]
    /\ nextChunk' = [nextChunk EXCEPT ![e] = Dirty]

\* kns_mempool_alloc with an element on the pool's own list.  num_free counts
\* down without bound in a pool whose elements other pools free.
kns_mempool_alloc(m) ==
    /\ pc[m] = "idle" /\ magic[m]
    /\ head[m] # NULL
    /\ numFree[m] > -MaxDeficit
    /\ head' = [head EXCEPT ![m] = next[head[m]]]
    /\ numFree' = [numFree EXCEPT ![m] = @ - 1]
    /\ HandOut(head[m])
    /\ UNCHANGED <<store, magic, privateChunk, pc, reg>>

\* mempool_alloc_2: the private chunk becomes the list, or the datastore is
\* asked for a chunk.
mempool_alloc_2(m) ==
    /\ pc[m] = "idle" /\ magic[m]
    /\ head[m] = NULL
    /\ \/ BugOnTraps /\ Bug(m)
       \/ /\ ~BugOnTraps
          /\ privateChunk[m] # NULL
          /\ head' = [head EXCEPT ![m] = next[privateChunk[m]]]
          /\ privateChunk' = [privateChunk EXCEPT ![m] = NULL]
          /\ HandOut(privateChunk[m])
          /\ UNCHANGED <<store, magic, numFree, pc, reg>>
       \/ /\ ~BugOnTraps
          /\ privateChunk[m] = NULL
          /\ pc' = [pc EXCEPT ![m] = "allocSpin"]
          /\ UNCHANGED <<store, links, pools, reg, held>>

\* spin_lock_irqsave, and the read of chunk_head.
AllocLock(m) ==
    /\ pc[m] = "allocSpin"
    /\ lock = NULL
    /\ lock' = m
    /\ pc' = [pc EXCEPT ![m] = "allocHeld"]
    /\ reg' = [reg EXCEPT ![m] = chunkHead]
    /\ UNCHANGED <<dsMagic, chunkHead, freeChunks, chunked, links, pools, held>>

\* Mutant of AllocTake: retries until the datastore has a chunk.
AllocTakeRetries(m) ==
    LET h == reg[m] IN
    /\ pc[m] = "allocHeld"
    /\ pc' = [pc EXCEPT ![m] = IF h = NULL THEN "allocSpin" ELSE "idle"]
    /\ reg' = [reg EXCEPT ![m] = NULL]
    /\ lock' = NULL
    /\ \/ /\ h = NULL
          /\ UNCHANGED <<chunkHead, freeChunks, head, links, held>>
       \/ /\ h # NULL
          /\ chunkHead' = nextChunk[h]
          /\ head' = [head EXCEPT ![m] = next[h]]
          /\ freeChunks' = freeChunks - 1
          /\ HandOut(h)
    /\ UNCHANGED <<dsMagic, chunked, magic, privateChunk, numFree>>

\* The rest of the locked section and the return: the chunk's first element is
\* the result and the others are the list (num_free stays what it was).
AllocTake(m) ==
    LET h == reg[m] IN
    /\ pc[m] = "allocHeld"
    /\ pc' = [pc EXCEPT ![m] = "idle"]
    /\ reg' = [reg EXCEPT ![m] = NULL]
    /\ lock' = NULL
    /\ \/ /\ h = NULL
          /\ UNCHANGED <<chunkHead, freeChunks, head, links, held>>
       \/ /\ h # NULL
          /\ chunkHead' = nextChunk[h]
          /\ head' = [head EXCEPT ![m] = next[h]]
          /\ freeChunks' = freeChunks - 1
          /\ HandOut(h)
    /\ UNCHANGED <<dsMagic, chunked, magic, privateChunk, numFree>>

-----------------------------------------------------------------------------
\* kns_mempool_free while the pool counts fewer than a chunk of free elements.
kns_mempool_free(m, e) ==
    /\ pc[m] = "idle" /\ magic[m]
    /\ e \in held
    /\ numFree[m] < ChunkSize
    /\ numFree' = [numFree EXCEPT ![m] = @ + 1]
    /\ next' = [next EXCEPT ![e] = head[m]]
    /\ head' = [head EXCEPT ![m] = e]
    /\ held' = held \ {e}
    /\ UNCHANGED <<store, nextChunk, magic, privateChunk, pc, reg>>

\* The list becomes the private chunk and e starts a new list.
Rotate(m, e) ==
    /\ privateChunk' = [privateChunk EXCEPT ![m] = head[m]]
    /\ head' = [head EXCEPT ![m] = e]
    /\ numFree' = [numFree EXCEPT ![m] = 1]
    /\ UNCHANGED magic

\* mempool_free_2: a private chunk the pool already has goes back to the
\* datastore first.
mempool_free_2(m, e) ==
    /\ pc[m] = "idle" /\ magic[m]
    /\ e \in held
    /\ numFree[m] >= ChunkSize
    /\ \/ BugOnTraps /\ Bug(m)
       \/ /\ ~BugOnTraps
          /\ next' = [next EXCEPT ![e] = NULL]
          /\ held' = held \ {e}
          /\ \/ /\ privateChunk[m] = NULL
                /\ Rotate(m, e)
                /\ UNCHANGED <<pc, reg>>
             \/ /\ privateChunk[m] # NULL
                /\ pc' = [pc EXCEPT ![m] = "freeSpin"]
                /\ reg' = [reg EXCEPT ![m] = e]
                /\ UNCHANGED pools
          /\ UNCHANGED <<store, nextChunk>>

\* spin_lock_irqsave, and the chunk's link to the front of the list.
FreeLock(m) ==
    /\ pc[m] = "freeSpin"
    /\ lock = NULL
    /\ lock' = m
    /\ pc' = [pc EXCEPT ![m] = "freeHeld"]
    /\ nextChunk' = [nextChunk EXCEPT ![privateChunk[m]] = chunkHead]
    /\ UNCHANGED <<dsMagic, chunkHead, freeChunks, chunked, next, pools, reg, held>>

FreePush(m) ==
    /\ pc[m] = "freeHeld"
    /\ chunkHead' = privateChunk[m]
    /\ freeChunks' = freeChunks + 1
    /\ lock' = NULL
    /\ pc' = [pc EXCEPT ![m] = "idle"]
    /\ reg' = [reg EXCEPT ![m] = NULL]
    /\ Rotate(m, reg[m])
    /\ UNCHANGED <<dsMagic, chunked, links, held>>

-----------------------------------------------------------------------------
Locking(m) == AllocLock(m) \/ FreeLock(m)
Locked(m)  == AllocTake(m) \/ FreePush(m)

Next ==
    \E m \in Pools :
       \/ mempool_create_datastore(m) \/ kns_mempool_create(m)
       \/ kns_mempool_alloc(m) \/ mempool_alloc_2(m)
       \/ \E e \in held : kns_mempool_free(m, e) \/ mempool_free_2(m, e)
       \/ Locking(m) \/ Locked(m)

Spec == Init /\ [][Next]_vars

\* A CPU in the locked section goes on (interrupts are off), and the kernel's
\* queued spin lock is granted in turn to a CPU that waits for it.
Fairness == \A m \in Pools : SF_vars(Locking(m)) /\ WF_vars(Locked(m))

FairSpec == Spec /\ Fairness

-----------------------------------------------------------------------------
(* Properties.                                                             *)

Ptr == Elems \cup {NULL, Dirty}

\* Every variable holds a value of its C type; no pool pointer is ever the
\* caller's data.
TypeOK ==
    /\ dsMagic \in BOOLEAN /\ chunkHead \in Elems \cup {NULL}
    /\ freeChunks \in Nat /\ lock \in Pools \cup {NULL}
    /\ next \in [Elems -> Ptr] /\ nextChunk \in [Elems -> Ptr]
    /\ magic \in [Pools -> BOOLEAN] /\ numFree \in [Pools -> Int]
    /\ head \in [Pools -> Elems \cup {NULL}]
    /\ privateChunk \in [Pools -> Elems \cup {NULL}]
    /\ pc \in [Pools -> {"idle", "allocSpin", "allocHeld", "freeSpin",
                         "freeHeld", "BUG"}]
    /\ reg \in [Pools -> Elems \cup {NULL}]
    /\ chunked \subseteq Elems /\ held \subseteq Elems

\* What following the links f from x visits.
Visits(f, x) ==
    LET walk[k \in 0..LastElem] ==
          IF k = 0 THEN {x}
          ELSE LET seen == walk[k - 1]
               IN  seen \cup {f[e] : e \in seen \cap Elems}
    IN  walk[LastElem]

List(x) == Visits(next, x) \cap Elems

Chunks == Visits(nextChunk, chunkHead) \cap Elems

\* The places that hold a list of free elements, each with its first element:
\* a pool's list, its private chunk, the element being freed, and the chunks
\* of the datastore.
FreeLists ==
    {l \in UNION {{<<"list", m, head[m]>> : m \in Pools},
                  {<<"private", m, privateChunk[m]>> : m \in Pools},
                  {<<"chunk", NULL, c>> : c \in Chunks},
                  {<<"freed", m, reg[m]>> :
                      m \in {q \in Pools : pc[q] \in {"freeSpin", "freeHeld"}}}} :
        l[3] # NULL}

FreeElems == UNION {List(l[3]) : l \in FreeLists}

\* The free lists are well formed, no element is on two of them or also
\* allocated, and none is lost: whatever the pools and callers do, every
\* element of a whole chunk is free on exactly one list or held by a caller.
Conserved ==
    LET chunks == Visits(nextChunk, chunkHead)
        visits == [l \in FreeLists |-> Visits(next, l[3])]
        free   == UNION Range(visits) \ {NULL}
    IN    /\ NULL \in chunks /\ Dirty \notin chunks
          /\ \A l \in DOMAIN visits : NULL \in visits[l]
          /\ MapThenSumSet(LAMBDA l : Cardinality(visits[l]) - 1, DOMAIN visits)
               = Cardinality(free)
          /\ free \cap held = {}
          /\ free \cup held = chunked

\* free_chunks counts the chunks on the list whenever the lock is free.
FreeChunksExact == lock = NULL => freeChunks = Cardinality(Chunks)

\* mempool_create_datastore: "will create a pool with at least @nr_elems,
\* but possibly more depending on page alignment" - also when the pages do
\* not divide into chunks.
AtLeastNrElems ==
    chunked # {} => Cardinality(FreeElems \cup held) >= NrElems

\* Every call of the allocator returns: no CPU waits forever for the lock.
CallsReturn == \A m \in Pools : pc[m] # "idle" ~> pc[m] = "idle"

\* kns_mempool_alloc "Returns a pointer to the allocated element or NULL if
\* unsuccessful": no call, and no set-up before it, ends in a BUG.
NoBug == \A m \in Pools : pc[m] # "BUG"

\* tcp_api.c on the first word of its elements: it "overlaps with mempool_hdr
\* so we can tell if this pcb is allocated or not": the word of a free element
\* is a pointer, which is neither 0 nor 1.
FreeLooksFree == \A e \in FreeElems : next[e] # NULL
=============================================================================
