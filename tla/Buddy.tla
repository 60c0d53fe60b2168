------------------------------- MODULE Buddy -------------------------------
(***************************************************************************)
(* BuddyMalloc/BuddyMalloc.c: the per-thread memory allocator every thread *)
(* of the server uses.  A thread's context holds standard areas of         *)
(* 2^k_size bytes cut into blocks of 2^k bytes, and one doubly linked list *)
(* of free blocks for every k (MemDesc).  A block freed by another thread  *)
(* is chained on the owner's ToBeFreed_list, and merged by the owner at    *)
(* its next allocation.  BuddyDestroy releases the context of a thread     *)
(* that ends, or leaves that to the thread that frees its last block.      *)
(*                                                                         *)
(* The memory is modelled by the block headers it holds: hdr[<<a, o>>] is  *)
(* the header at offset o of area a.  A header that is no longer the start *)
(* of a block stays in memory, as in the program.  status and MagicNumber  *)
(* are always written together and are one field; NextToBeFreed shares     *)
(* the memory of NextBlock, and so does its field.  OwnerThread and        *)
(* OwnerThreadContext, which every reserved block carries, are those of    *)
(* the thread whose context got the area, the only one that ever cuts it:  *)
(* they are kept per area.  Watermarks and log messages are left out.      *)
(***************************************************************************)
EXTENDS Integers, Sequences, FiniteSetsExt

CONSTANTS
  Threads,         \* the threads that called BuddyInit
  Allocating,      \* those of them that allocate; all of them free
  MaxHeld,         \* bound: the blocks the program uses at a time
  Areas,           \* what malloc() of the C library can return
  KPage,           \* context->k_size
  HeaderSize,      \* size_header64
  MinAlloc,        \* MIN_ALLOC_SIZE
  Sizes,           \* the sizes asked for
  ReallocSizes,    \* the sizes given to BuddyRealloc
  Shrinking,       \* whether BuddyRealloc may be asked for less
  OnDemandAlloc, ExtraAlloc, FreeAreas, KeepMinimum, KeepFactor,  \* Config
  MaxLog2,         \* BUDDY_MAX_LOG2_SIZE, the width of a size_t
  IntBits,         \* the width of the int in "1 << k"
  NULL             \* the null pointer, and "no request"

ASSUME BuddyAssumption ==
  /\ IntBits \in Nat \ {0} /\ MaxLog2 \in Nat \ {0}
  /\ KPage \in 0..MaxLog2 - 1 /\ HeaderSize \in Nat \ {0} /\ MinAlloc \in Nat \ {0}
  /\ HeaderSize + MinAlloc <= 2^KPage
  /\ Allocating \subseteq Threads
  /\ Sizes \subseteq Nat /\ ReallocSizes \subseteq Nat
  /\ {OnDemandAlloc, ExtraAlloc, FreeAreas, Shrinking} \subseteq BOOLEAN
  /\ KeepMinimum \in Nat /\ KeepFactor \in Nat

VARIABLES
  hdr,        \* the block headers in memory
  owner,      \* owner[a]: the thread malloc() gave area a to, or NULL
  desc,       \* desc[t][k]: context->MemDesc[k], the first free block
  toBeFreed,  \* toBeFreed[t]: context->ToBeFreed_list
  pending,    \* pending[t]: context->destroy_pending
  ctx,        \* ctx[t]: "none", "live" or "freed": the context itself
  stats,      \* stats[t]: context->Stats
  pc,         \* pc[t]: where thread t is in the allocator
  want,       \* want[t]: the size it asks for
  old,        \* old[t]: the block BuddyRealloc replaces, or NULL
  new,        \* new[t]: the block it copies to
  held        \* the blocks the program uses

vars == <<hdr, owner, desc, toBeFreed, pending, ctx, stats, pc, want, old, new, held>>

(* Log2Ceil: the least k with 2^k >= n, or 0 *)
Log2Ceil(n) ==
  LET K == {k \in 0..MaxLog2 - 1 : 2^k >= n}
  IN  IF K = {} THEN 0 ELSE CHOOSE k \in K : \A j \in K : k <= j

KMin == Log2Ceil(MinAlloc + HeaderSize)

(* sizelog2 of __BuddyMalloc *)
SizeLog2(n) == Log2Ceil((IF n < MinAlloc THEN MinAlloc ELSE n) + HeaderSize)

(* "1 << k" on an int of IntBits bits, converted to size_t: the hardware   *)
(* takes the shift count modulo the width, the top bit is the sign         *)
ShiftedOne(k) ==
  IF k % IntBits = IntBits - 1
  THEN 2^MaxLog2 - 2^(IntBits - 1)
  ELSE 2^(k % IntBits)

Addr == Areas \X {o \in 0..2^KPage - 1 : o % 2^KMin = 0}

NoHeader == [base |-> FALSE, k |-> 0, status |-> "none", next |-> NULL, prev |-> NULL]

IS_EXTRA_BLOCK(h, b) == ~h[b].base

IsPage(h, b) == b[2] = 0 /\ h[b].k = KPage

(* the bytes a block takes, and those its user may write *)
RegionOf(b) == [block |-> b, size |-> IF hdr[b].base THEN 2^hdr[b].k ELSE hdr[b].k]

Capacity(r) == r.size - HeaderSize

(* Get_BuddyBlock: the offset with bit k flipped *)
Get_BuddyBlock(h, b) ==
  LET size == 2^h[b].k
  IN  <<b[1], IF (b[2] \div size) % 2 = 0 THEN b[2] + size ELSE b[2] - size>>

-----------------------------------------------------------------------------
(* A context is handled as a record c of the memory and of what belongs to *)
(* one thread, so that the steps of an operation compose.                  *)

Ctx(t) == [hdr |-> hdr, owner |-> owner, desc |-> desc[t],
           tbf |-> toBeFreed[t], stats |-> stats[t]]

Store(t, c) ==
  /\ hdr' = c.hdr
  /\ owner' = c.owner
  /\ desc' = [desc EXCEPT ![t] = c.desc]
  /\ toBeFreed' = [toBeFreed EXCEPT ![t] = c.tbf]
  /\ stats' = [stats EXCEPT ![t] = c.stats]

Insert_FreeBlock(c, b) ==
  LET k == c.hdr[b].k
      next == c.desc[k]
      linked == [c.hdr EXCEPT ![b].next = next, ![b].prev = NULL]
  IN  [c EXCEPT !.desc[k] = b,
                !.hdr = IF next = NULL THEN linked
                        ELSE [linked EXCEPT ![next].prev = b]]

(* Mistake: the next block still points back to b.                         *)
Remove_FreeBlock_OneWay(c, b) ==
  LET prev == c.hdr[b].prev
      next == c.hdr[b].next
      h1 == IF prev = NULL THEN c.hdr ELSE [c.hdr EXCEPT ![prev].next = next]
  IN  [c EXCEPT !.hdr = [h1 EXCEPT ![b].next = NULL, ![b].prev = NULL],
                !.desc[c.hdr[b].k] = IF prev = NULL THEN next ELSE @]

Remove_FreeBlock(c, b) ==
  LET prev == c.hdr[b].prev
      next == c.hdr[b].next
      h1 == IF prev = NULL THEN c.hdr ELSE [c.hdr EXCEPT ![prev].next = next]
      h2 == IF next = NULL THEN h1 ELSE [h1 EXCEPT ![next].prev = prev]
  IN  [c EXCEPT !.hdr = [h2 EXCEPT ![b].next = NULL, ![b].prev = NULL],
                !.desc[c.hdr[b].k] = IF prev = NULL THEN next ELSE @]

UpdateStats_InsertStdPage(c) == [c EXCEPT !.stats.pages = @ + 1]
UpdateStats_RemoveStdPage(c) == [c EXCEPT !.stats.pages = @ - 1]
UpdateStats_UseStdPage(c) == [c EXCEPT !.stats.used = @ + 1]
UpdateStats_FreeStdPage(c) == [c EXCEPT !.stats.used = @ - 1]
UpdateStats_UseStdMemSpace(c, n) == [c EXCEPT !.stats.space = @ + n]
UpdateStats_FreeStdMemSpace(c, n) == [c EXCEPT !.stats.space = @ - n]
UpdateStats_AddExtraPage(c, n) == [c EXCEPT !.stats.extra = @ + 1, !.stats.extraSpace = @ + n]
UpdateStats_RemoveExtraPage(c, n) == [c EXCEPT !.stats.extra = @ - 1, !.stats.extraSpace = @ - n]

(* what malloc() of the C library can return *)
Unused == {a \in Areas : owner[a] = NULL}

(* NewStdPage: malloc() returned area a to thread t *)
NewStdPage(c, a, t) ==
  UpdateStats_InsertStdPage(Insert_FreeBlock(
    [c EXCEPT !.owner[a] = t,
              !.hdr[<<a, 0>>] = [@ EXCEPT !.base = TRUE, !.k = KPage, !.status = "free"]],
    <<a, 0>>))

(* free() of the C library: what the area holds is lost *)
Unmap(c, a) ==
  [c EXCEPT !.owner[a] = NULL,
            !.hdr = [b \in Addr |-> IF b[1] = a THEN NoHeader ELSE @[b]]]

(* the loop of __BuddyMalloc that cuts block b down to 2^k bytes *)
RECURSIVE Split(_, _, _)
Split(c, b, k) ==
  IF c.hdr[b].k <= k THEN c
  ELSE LET c1 == [c EXCEPT !.hdr[b].k = @ - 1]
           buddy == Get_BuddyBlock(c1.hdr, b)
           c2 == [c1 EXCEPT !.hdr[buddy] = [@ EXCEPT !.base = TRUE, !.status = "free",
                                                     !.k = c1.hdr[b].k]]
       IN  Split(Insert_FreeBlock(c2, buddy), b, k)

(* the end of __BuddyMalloc: free block b of the context becomes a block   *)
(* of 2^k bytes reserved for its thread                                    *)
Reserve(c, b, k) ==
  LET c1 == Remove_FreeBlock(c, b)
      c2 == IF IsPage(c.hdr, b) THEN UpdateStats_UseStdPage(c1) ELSE c1
      c3 == Split(c2, b, k)
  IN  UpdateStats_UseStdMemSpace([c3 EXCEPT !.hdr[b].status = "reserved"], ShiftedOne(k))

RECURSIVE Merge(_, _)

(* Mistake: the size of the buddy is not compared.                         *)
Merge_AnySize(c, b) ==
  LET buddy == Get_BuddyBlock(c.hdr, b)
  IN  IF c.hdr[b].k >= KPage \/ c.hdr[buddy].status = "reserved" THEN <<c, b>>
      ELSE LET low == IF buddy[2] < b[2] THEN buddy ELSE b
           IN  Merge([Remove_FreeBlock(c, buddy) EXCEPT !.hdr[low].k = @ + 1], low)

(* the loop of __BuddyFree: <<context, block>> once free block b is merged *)
(* with its free buddies                                                   *)
Merge(c, b) ==
  LET buddy == Get_BuddyBlock(c.hdr, b)
  IN  IF c.hdr[b].k >= KPage THEN <<c, b>>
      ELSE IF c.hdr[buddy].status = "reserved" \/ c.hdr[buddy].k # c.hdr[b].k
      THEN <<c, b>>
      ELSE LET low == IF buddy[2] < b[2] THEN buddy ELSE b
           IN  Merge([Remove_FreeBlock(c, buddy) EXCEPT !.hdr[low].k = @ + 1], low)

(* Mistake: UpdateStats_RemoveStdPage is not called.                       *)
Garbage_StdPages_NotCounted(c, b) ==
  IF ~FreeAreas \/ c.stats.pages <= KeepMinimum
     \/ c.stats.pages <= KeepFactor * c.stats.used
  THEN c
  ELSE Unmap(Remove_FreeBlock(c, b), b[1])

(* Garbage_StdPages: gives page b back when more pages are kept than the   *)
(* configuration asks for                                                  *)
Garbage_StdPages(c, b) ==
  IF ~FreeAreas \/ c.stats.pages <= KeepMinimum
     \/ c.stats.pages <= KeepFactor * c.stats.used
  THEN c
  ELSE UpdateStats_RemoveStdPage(Unmap(Remove_FreeBlock(c, b), b[1]))

FreeLargeBlock(c, b) ==
  UpdateStats_RemoveExtraPage(Unmap(c, b[1]), c.hdr[b].k)

(* __BuddyFree.  The range check on the address never fails for a block    *)
(* that __BuddyMalloc returned.                                            *)
FreeBlock(c, b) ==
  IF IS_EXTRA_BLOCK(c.hdr, b) THEN FreeLargeBlock(c, b)
  ELSE LET freed == UpdateStats_FreeStdMemSpace([c EXCEPT !.hdr[b].status = "free"],
                                                ShiftedOne(c.hdr[b].k))
           merged == Merge(freed, b)
           b1 == merged[2]
           c1 == Insert_FreeBlock(merged[1], b1)
       IN  IF IsPage(c1.hdr, b1)
           THEN Garbage_StdPages(UpdateStats_FreeStdPage(c1), b1)
           ELSE c1

(* CheckBlocksToBeFreed: one turn of its loop, and the whole of it when    *)
(* the caller holds ToBeFreed_mutex                                        *)
FreeFirst(c) == FreeBlock([c EXCEPT !.tbf = c.hdr[c.tbf].next], c.tbf)

RECURSIVE FreeAllForeign(_)
FreeAllForeign(c) == IF c.tbf = NULL THEN c ELSE FreeAllForeign(FreeFirst(c))

(* the loop of TryContextCleanup that gives back the pages wholly free *)
RECURSIVE ReleasePages(_)
ReleasePages(c) ==
  LET b == c.desc[KPage]
  IN  IF b = NULL THEN c
      ELSE ReleasePages(UpdateStats_RemoveStdPage(Unmap(Remove_FreeBlock(c, b), b[1])))

-----------------------------------------------------------------------------
Init ==
  /\ hdr = [b \in Addr |-> NoHeader]
  /\ owner = [a \in Areas |-> NULL]
  /\ desc = [t \in Threads |-> [k \in 0..KPage |-> NULL]]
  /\ toBeFreed = [t \in Threads |-> NULL]
  /\ pending = [t \in Threads |-> FALSE]
  /\ ctx = [t \in Threads |-> "none"]
  /\ stats = [t \in Threads |-> [pages |-> 0, used |-> 0, space |-> 0,
                                 extra |-> 0, extraSpace |-> 0]]
  /\ pc = [t \in Threads |-> "start"]
  /\ want = [t \in Threads |-> NULL]
  /\ old = [t \in Threads |-> NULL]
  /\ new = [t \in Threads |-> NULL]
  /\ held = {}

(* A thread whose first page cannot be allocated stops the server. *)
BuddyInit(t) ==
  /\ pc[t] = "start"
  /\ \E a \in Unused : Store(t, NewStdPage(Ctx(t), a, t))
  /\ ctx' = [ctx EXCEPT ![t] = "live"]
  /\ pc' = [pc EXCEPT ![t] = "idle"]
  /\ UNCHANGED <<pending, want, old, new, held>>

BuddyMalloc(t, n) ==
  /\ pc[t] = "idle"
  /\ pc' = [pc EXCEPT ![t] = "malloc"]
  /\ want' = [want EXCEPT ![t] = n]
  /\ UNCHANGED <<hdr, owner, desc, toBeFreed, pending, ctx, stats, old, new, held>>

(* BuddyRealloc of a block for n bytes: it begins with BuddyMalloc(n) *)
BuddyRealloc(t, b, n) ==
  /\ pc[t] = "idle"
  /\ b \in held /\ n # 0
  /\ Shrinking \/ n > Capacity(RegionOf(b))
  /\ pc' = [pc EXCEPT ![t] = "malloc"]
  /\ want' = [want EXCEPT ![t] = n]
  /\ old' = [old EXCEPT ![t] = b]
  /\ held' = held \ {b}
  /\ UNCHANGED <<hdr, owner, desc, toBeFreed, pending, ctx, stats, new>>

(* CheckBlocksToBeFreed, run by __BuddyMalloc before it looks for a block: *)
(* one turn of the loop, the mutex being released between two turns        *)
CheckBlocksToBeFreed(t) ==
  /\ pc[t] = "malloc"
  /\ toBeFreed[t] # NULL
  /\ Store(t, FreeFirst(Ctx(t)))
  /\ UNCHANGED <<pending, ctx, pc, want, old, new, held>>

(* __BuddyMalloc once ToBeFreed_list was seen empty *)
Searching(t) == pc[t] = "malloc" /\ toBeFreed[t] = NULL

IsLarge(n) == ShiftedOne(SizeLog2(n)) > 2^KPage

Available(t, n) == {k \in SizeLog2(n)..KPage : desc[t][k] # NULL}

Returns(t, b) ==
  /\ want' = [want EXCEPT ![t] = NULL]
  /\ IF old[t] = NULL
     THEN /\ held' = held \cup {b}
          /\ pc' = [pc EXCEPT ![t] = "idle"]
          /\ UNCHANGED new
     ELSE /\ new' = [new EXCEPT ![t] = b]
          /\ pc' = [pc EXCEPT ![t] = "copy"]
          /\ UNCHANGED held
  /\ UNCHANGED <<pending, ctx, old>>

(* Mistake: the header is forgotten.                                       *)
AllocLargeBlock_NoHeader(t) ==
  /\ Searching(t)
  /\ want[t] # 0 /\ IsLarge(want[t]) /\ ExtraAlloc
  /\ \E a \in Unused :
       LET b == <<a, 0>>
           total == want[t]
           c == [Ctx(t) EXCEPT !.owner[a] = t,
                   !.hdr[b] = [@ EXCEPT !.base = FALSE, !.k = total, !.status = "reserved"]]
       IN  /\ Store(t, UpdateStats_AddExtraPage(c, total))
           /\ Returns(t, b)

AllocLargeBlock(t) ==
  /\ Searching(t)
  /\ want[t] # 0 /\ IsLarge(want[t]) /\ ExtraAlloc
  /\ \E a \in Unused :
       LET b == <<a, 0>>
           total == want[t] + HeaderSize
           c == [Ctx(t) EXCEPT !.owner[a] = t,
                   !.hdr[b] = [@ EXCEPT !.base = FALSE, !.k = total, !.status = "reserved"]]
       IN  /\ Store(t, UpdateStats_AddExtraPage(c, total))
           /\ Returns(t, b)

AllocFreeBlock(t) ==
  /\ Searching(t)
  /\ want[t] # 0 /\ ~IsLarge(want[t])
  /\ \E k \in Available(t, want[t]) :
       /\ \A j \in Available(t, want[t]) : k <= j
       /\ Store(t, Reserve(Ctx(t), desc[t][k], SizeLog2(want[t])))
       /\ Returns(t, desc[t][k])

AllocNewPage(t) ==
  /\ Searching(t)
  /\ want[t] # 0 /\ ~IsLarge(want[t])
  /\ Available(t, want[t]) = {} /\ OnDemandAlloc
  /\ \E a \in Unused :
       /\ Store(t, Reserve(NewStdPage(Ctx(t), a, t), <<a, 0>>, SizeLog2(want[t])))
       /\ Returns(t, <<a, 0>>)

(* __BuddyMalloc returns NULL; BuddyRealloc then leaves the old block be.  *)
(* BuddyMallocExit ends the server instead.                                *)
AllocFails(t) ==
  /\ Searching(t)
  /\ \/ want[t] = 0
     \/ IsLarge(want[t]) /\ (~ExtraAlloc \/ Unused = {})
     \/ /\ ~IsLarge(want[t]) /\ Available(t, want[t]) = {}
        /\ ~OnDemandAlloc \/ Unused = {}
  /\ pc' = [pc EXCEPT ![t] = "idle"]
  /\ want' = [want EXCEPT ![t] = NULL]
  /\ old' = [old EXCEPT ![t] = NULL]
  /\ held' = held \cup ({old[t]} \ {NULL})
  /\ UNCHANGED <<hdr, owner, desc, toBeFreed, pending, ctx, stats, new>>

(* Mistake: the blocks that other threads freed are not looked at.         *)
TryContextCleanup_NoCheck(o, c) ==
  LET c1 == ReleasePages(c)
      inUse == \E k \in 0..KPage : c1.desc[k] # NULL
  IN  /\ Store(o, c1)
      /\ pending' = [pending EXCEPT ![o] = @ \/ inUse]
      /\ ctx' = [ctx EXCEPT ![o] = IF inUse THEN @ ELSE "freed"]

(* TryContextCleanup of the context c of thread o, under ToBeFreed_mutex *)
TryContextCleanup(o, c) ==
  LET c1 == ReleasePages(FreeAllForeign(c))
      inUse == \E k \in 0..KPage : c1.desc[k] # NULL
  IN  /\ Store(o, c1)
      /\ pending' = [pending EXCEPT ![o] = @ \/ inUse]
      /\ ctx' = [ctx EXCEPT ![o] = IF inUse THEN @ ELSE "freed"]

(* BuddyFree of a block of thread o's context by thread t.  Once context o *)
(* is freed the call reads freed memory: it is not followed further.       *)
Release(t, b) ==
  LET o == owner[b[1]]
      chained == [Ctx(o) EXCEPT !.hdr[b].next = toBeFreed[o], !.tbf = b]
  IN  IF o = t
      THEN Store(t, FreeBlock(Ctx(t), b)) /\ UNCHANGED <<pending, ctx>>
      ELSE /\ ctx[o] = "live"
           /\ IF pending[o] THEN TryContextCleanup(o, chained)
              ELSE Store(o, chained) /\ UNCHANGED <<pending, ctx>>

BuddyFree(t, b) ==
  /\ pc[t] = "idle"
  /\ b \in held
  /\ Release(t, b)
  /\ held' = held \ {b}
  /\ UNCHANGED <<pc, want, old, new>>

(* the end of BuddyRealloc: memcpy of the whole old block, BuddyFree of it *)
ReallocCopy(t) ==
  /\ pc[t] = "copy"
  /\ Release(t, old[t])
  /\ held' = held \cup {new[t]}
  /\ old' = [old EXCEPT ![t] = NULL]
  /\ new' = [new EXCEPT ![t] = NULL]
  /\ pc' = [pc EXCEPT ![t] = "idle"]
  /\ UNCHANGED want

(* BuddyDestroy, the last call of a thread that ends *)
BuddyDestroy(t) ==
  /\ pc[t] = "idle"
  /\ TryContextCleanup(t, Ctx(t))
  /\ pc' = [pc EXCEPT ![t] = "gone"]
  /\ UNCHANGED <<want, old, new, held>>

Next ==
  \E t \in Threads :
    \/ BuddyInit(t)
    \/ t \in Allocating /\ Cardinality(held) < MaxHeld /\ \E n \in Sizes : BuddyMalloc(t, n)
    \/ t \in Allocating /\ \E b \in held, n \in ReallocSizes : BuddyRealloc(t, b, n)
    \/ CheckBlocksToBeFreed(t)
    \/ AllocLargeBlock(t)
    \/ AllocFreeBlock(t)
    \/ AllocNewPage(t)
    \/ AllocFails(t)
    \/ \E b \in held : BuddyFree(t, b)
    \/ ReallocCopy(t)
    \/ BuddyDestroy(t)

Spec == Init /\ [][Next]_vars

-----------------------------------------------------------------------------
(* the blocks chained from b, followed n steps at most *)
RECURSIVE Chain(_, _)
Chain(b, n) == IF b = NULL \/ n = 0 THEN <<>> ELSE <<b>> \o Chain(hdr[b].next, n - 1)

Members(s) == {s[i] : i \in DOMAIN s}

FreeList(t, k) == Chain(desc[t][k], Cardinality(Addr) + 1)

FreeBlocks(t) == UNION {Members(FreeList(t, k)) : k \in 0..KPage}

ForeignFreed(t) == Members(Chain(toBeFreed[t], Cardinality(Addr) + 1))

Existing == {t \in Threads : ctx[t] = "live"}

InUse == held \cup (({old[t] : t \in Threads} \cup {new[t] : t \in Threads}) \ {NULL})

Reserved == InUse \cup UNION {ForeignFreed(t) : t \in Existing}

Free == UNION {FreeBlocks(t) : t \in Existing}

(* The variables have the types of BuddyThreadContext_t and BuddyHeader_t. *)
TypeOK ==
  /\ hdr \in [Addr -> [base : BOOLEAN, k : Nat, status : {"none", "free", "reserved"},
                       next : Addr \cup {NULL}, prev : Addr \cup {NULL}]]
  /\ owner \in [Areas -> Threads \cup {NULL}]
  /\ desc \in [Threads -> [0..KPage -> Addr \cup {NULL}]]
  /\ toBeFreed \in [Threads -> Addr \cup {NULL}]
  /\ pending \in [Threads -> BOOLEAN]
  /\ ctx \in [Threads -> {"none", "live", "freed"}]
  /\ stats \in [Threads -> [pages : Nat, used : Nat, space : Nat,
                            extra : Nat, extraSpace : Nat]]
  /\ pc \in [Threads -> {"start", "idle", "malloc", "copy", "gone"}]
  /\ want \in [Threads -> Sizes \cup ReallocSizes \cup {NULL}]
  /\ old \in [Threads -> Addr \cup {NULL}]
  /\ new \in [Threads -> Addr \cup {NULL}]
  /\ held \subseteq Addr

(* Every byte of every standard area a thread still has belongs to exactly *)
(* one block, free or reserved: splitting, merging, frees by other threads *)
(* and the collection of pages lose no memory and never let two blocks     *)
(* overlap.                                                                *)
AreasTiled ==
  LET Covers(b, o) == b[2] <= o /\ o < b[2] + 2^hdr[b].k
      std == {b \in Free \cup Reserved : hdr[b].base}
  IN  /\ Free \cap Reserved = {}
      /\ \A a \in {b[1] : b \in std}, o \in 0..2^KPage - 1 :
           Cardinality({b \in std : b[1] = a /\ Covers(b, o)}) = 1
      /\ {b[1] : b \in Free \cup Reserved} = Areas \ Unused

(* The free lists are what every "CRITICAL WARNING" of Insert_FreeBlock,   *)
(* Remove_FreeBlock and TryContextCleanup checks: MemDesc[k] is a chain    *)
(* without a loop, linked both ways, of free blocks of 2^k bytes of this   *)
(* context, those of k_size being whole pages.  No free block has a free   *)
(* buddy of its size: what can be merged is merged, even when its last     *)
(* piece was freed by another thread.                                      *)
FreeListsSound ==
  /\ \A t \in Existing, k \in 0..KPage :
       LET s == FreeList(t, k)
       IN  /\ Cardinality(Members(s)) = Len(s)
           /\ \A i \in DOMAIN s :
                /\ hdr[s[i]].status = "free" /\ hdr[s[i]].base /\ hdr[s[i]].k = k
                /\ hdr[s[i]].prev = IF i = 1 THEN NULL ELSE s[i - 1]
                /\ k = KPage => s[i][2] = 0
  /\ \A b \in Free : hdr[b].k < KPage =>
       LET buddy == Get_BuddyBlock(hdr, b)
       IN  ~(buddy \in Free /\ hdr[buddy].k = hdr[b].k)

(* The statistics, on which the collection of pages decides, count what    *)
(* the lists hold: NbStdPages the areas of the context, NbStdUsed those    *)
(* with a reserved block, StdUsedSpace the bytes of the reserved blocks.   *)
StatsExact ==
  \A t \in Existing :
    LET mine == {b \in Reserved : owner[b[1]] = t}
        std == {b \in mine : hdr[b].base}
        Size(b) == RegionOf(b).size
    IN  /\ stats[t].used = Cardinality({b[1] : b \in std})
        /\ stats[t].pages = Cardinality({b[1] : b \in std \cup FreeBlocks(t)})
        /\ stats[t].space = MapThenSumSet(Size, std)
        /\ stats[t].extra = Cardinality(mine \ std)
        /\ stats[t].extraSpace = MapThenSumSet(Size, mine \ std)

(* A context left to be cleaned later always has a block that some thread  *)
(* still has to free: the last BuddyFree does the cleaning and no pending  *)
(* context is forgotten.                                                   *)
PendingIsAwaited ==
  \A t \in Existing : pending[t] =>
    /\ toBeFreed[t] = NULL
    /\ \E b \in InUse : owner[b[1]] = t

(* "The last free() from another thread will do the cleaning": no block is *)
(* ever left with a freed context.                                         *)
ContextOutlivesBlocks == \A b \in InUse : ctx[owner[b[1]]] # "freed"

(* BuddyRealloc copies no more than the new block holds. *)
CopyFits ==
  \A t \in Threads : pc[t] = "copy" =>
    Capacity(RegionOf(old[t])) <= Capacity(RegionOf(new[t]))

Overlap(r, s) ==
  /\ r.block[1] = s.block[1]
  /\ r.block[2] < s.block[2] + s.size
  /\ s.block[2] < r.block[2] + r.size

Abstract == INSTANCE Allocator WITH
  Regions <- [block : Addr, size : {2^k : k \in 0..KPage}
                                   \cup {n + HeaderSize : n \in Sizes \cup ReallocSizes}],
  Sizes <- Sizes \cup ReallocSizes,
  None <- NULL,
  asked <- want,
  live <- {RegionOf(b) : b \in InUse}

(* BuddyMalloc gives each caller a region that is large enough and that    *)
(* nobody else uses, and takes back only what it is given, whatever the    *)
(* threads that allocate and free.                                         *)
ImplementsAllocator == Abstract!Spec
=============================================================================
