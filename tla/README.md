# Models, checks and proofs for the operating-systems course repository

The repository collects course work in C. Most of its logic is the malloc lab
(`src/22-Lab3-malloclab`): an explicit-free-list allocator, the simulated memory
it lives in, and the driver that judges it. Around it stand a small file-backed
database in two versions (`lecture-5/ex17.c`, `ex17-old.c`), a generic bubble sort
(`lecture-6/ex18.c`), the K-best timing scheme the driver can be built with
(`fcyc.c`, `clock.c`), the bit puzzles of the data lab (`22-Lab1-datalab-bits.c`),
and a number of exercises without state.

Paths below are relative to `src/`; `mm.c`, `memlib.c`, `mdriver.c`, `fcyc.c`,
`clock.c`, `fsecs.c` and `ftimer.c` are in `22-Lab3-malloclab`.

## 1. Inventory

| component | state it keeps | operations | depends on |
|---|---|---|---|
| allocator `mm.c` | headers, footers, list words in the arena; `free_list` | `mm_init`, `mm_malloc`, `mm_free`, `mm_realloc`, `mm_check`; inside: `find_fit`, `place`, `coalesce`, `extend_heap`, `add_to_free_list`, `remove_from_free_list` | `memlib.c` |
| simulated memory `memlib.c` | the arena, `mem_brk` | `mem_init`, `mem_sbrk`, `mem_reset_brk`, heap bounds | the C library |
| range list (`mdriver.c`) | list of payload extents | `add_range`, `remove_range`, `clear_ranges` | heap bounds |
| driver `mdriver.c` | trace, its block pointers and sizes, errors, totals | `eval_mm_valid`, `eval_mm_util`, `eval_mm_speed`, `read_trace`, `main`; the same for the C library's malloc | all of the above, `fsecs` |
| K-best timer `fcyc.c` | K, limit, tolerance, the K best times, sample count, the buffer that clears the cache | setters, `fcyc`, `add_sample`, `has_converged` | `clock.c` |
| clocks `clock.c`, `ftimer.c`, `fsecs.c` | the counter's value at the start, the cost of an interrupt | `start_counter`, `get_counter`, compensated counter, clock rate, interval timers | rdtsc, `times`, `setitimer`, `gettimeofday` |
| address database `ex17.c`, `ex17-old.c` | a file of rows, a process's copy of it | create, get, set, delete, list | stdio |
| bubble sort `ex18.c` | the copy being sorted, two counters | `bubble_sort`, three comparisons | - |
| data lab `22-Lab1-datalab-bits.c` | none | eight pure functions on an int | - |
| exercises (`ex1`, `ex3`, `ex7`, `ex16`, `ex19`), attack lab | none | straight-line code | - |

How they interact. `main` replays each trace in three phases. Each phase rewinds
the break (`mem_reset_brk`) *without clearing the arena or* `free_list`, calls
`mm_init`, and then one package function per trace line. The allocator reaches
memory only through `mem_sbrk` and through pointers it computes from words it
wrote itself; the driver writes payloads and reads them back after a realloc. In
the first phase every returned pointer goes through `add_range`. The timer is
called back from the speed phase. The database shares nothing but its file; every
command is a process of its own.

What is hard here:

* **Long call sequences** over a data structure whose only redundancy is what its
  own previous calls wrote: boundary tags, a doubly linked list inside free
  payloads, coalescing that trusts the bits of both neighbours (`mm.c:338-351`).
* **State that outlives a restart**: `free_list` and the arena's words survive
  `mem_reset_brk` (`mm.c:327`).
* **Running out of arena**: `extend_heap` reports it, `mm_malloc` does not look
  (`mm.c:168-173`).
* **Input that need not be what its header says**: `read_trace` stores first and
  asserts later (`mdriver.c:525-552`), a short line leaves the numbers of the line
  before, and `trace->blocks` starts uninitialized and keeps the pointers of one
  phase for the next (`mdriver.c:509`, 635, 672).
* **A checker that must not be wrong itself**: the overlap test (`mdriver.c:409`),
  the byte comparison (`mdriver.c:656`), the totals (`mdriver.c:727-769`).
* **Concurrency and crashes** of database commands: whole-image read-modify-write
  with no lock, buffered writes that a kill or a device error cuts off
  (`ex17.c:42-97`).
* **Termination** of a measurement whose samples need not converge (`fcyc.c:144-152`)
  and, compensated, may be negative; counters that wrap (`clock.c:63-66`).

What makes each part correct:

* allocator: the blocks tile the heap; the list holds exactly the free blocks;
  no two free blocks are neighbours; every other block is held by the client and
  large enough; a call disturbs no payload but its own; the heap grows only when
  it must; seen from the client, payloads are aligned, in the heap and disjoint.
* memory: the break stays in the arena.
* range list: the records are the payloads held; none meet.
* driver: it finds no fault with a correct package and no fault that is not there;
  utilization is at most one, and the sizes it adds up are those of the trace; no
  trace file makes it run a phase on requests or blocks beyond its arrays; with a
  proper trace no package sees a pointer it does not hold; each trace is counted as correct or as an error, once; it ends.
* timer: the least K of all samples are held, the least of all is returned,
  a measurement ends, and nothing is read behind the buffer.
* database: what a command that returned has stored stays stored until a delete;
  a command that reports a failure has changed nothing.
* sort: the result is a rearrangement of the input, in order.
* data lab: each function is the one its comment names, for every word.

## 2. Modules

| module | models | notes |
|---|---|---|
| `MallocSpec` | what a malloc package promises its client | abstract; no blocks, no lists |
| `BlockHeap` | `mm.c` as blocks and a free list, with an arbitrary client | implements `MallocSpec`; proved about |
| `BlockHeapProofs` | - | theorems and lemmas about `BlockHeap` |
| `MemLib` | `memlib.c`: words, break, `mem_sbrk` | operators on a machine state |
| `MMWords` | `mm.c` word by word | extends `MemLib` |
| `MMWordsProofs` | - | each function of `MMWords` implements its operator of `BlockHeap` |
| `RangeList` | the driver's list of extents | alone against any package; instantiated by `MMDriver` |
| `MMDriver` | the phases of `mdriver.c` over `MMWords` | implements `BlockHeap` |
| `MMDriverProofs` | - | theorems about `MMDriver` and its words |
| `Driver` | `main` of `mdriver.c`: `read_trace`, both passes, all phases, errors, report | over abstract packages |
| `Clock`, `KBest` | `get_counter`, `get_comp_counter`; `fcyc` and all its setters | |
| `Database` | `ex17.c` and `ex17-old.c`: commands as processes on one file | |
| `BubbleSort` | `ex18.c`: `main`'s three sorts | |
| `DataLab` | `22-Lab1-datalab-bits.c` | operators only |
| `CInt` | C's int, for the two above | `IntMax` is a constant |
| `ExerciseProofs` | - | theorems about `BubbleSort` and `DataLab` |
| `RangeListProofs`, `DriverProofs`, `DatabaseProofs`, `KBestProofs` | - | theorems about the module each is named after |

`MC*` modules only give the constants small values.

### The allocator on two levels

`BlockHeap` keeps a record `heap` with `brk`, `size` (block pointer to size),
`free` and `fl` (the explicit list in order), and `live`, the client's pointers
with the sizes asked for. Each function of `mm.c` that changes the heap is an
operator from heaps to heaps, with the order of list operations of the code, so
that which block `find_fit` returns next is exact: `Push`, `Unlink`, `FindFit`,
`Join`/`Coalesce`, `Extend`, `Place`, `Malloc`, `Free`. Each way through
`mm_malloc`, `mm_free` and `mm_realloc` is an action (`MallocCall`, `FreeCall`,
`ReallocFits`, `ReallocGrows`, `ReallocMoves`), and so is each way out of memory
(`MallocCrash`, `ReallocCrash`), after which nothing happens. `Restart` is the
driver's rewind with `mm_init`. A malloc of zero bytes changes nothing in `mm.c`
and is a stutter; a realloc to zero is a `FreeCall`.

`MMWords` has one operator per function of `mm.c` on a record with the arena's
words, the break, `free_list` and `ok`, which is FALSE once a wild access has
killed the process. The pointer type is a word: the code stores pointers in four
bytes (`mm.c:391-405`), so only a 32-bit build is meaningful, and `size_t` is
taken modulo `SizeT`. `HeapOf` reads blocks and list back
from the words, `LiveOf` of `MMDriver` the client from the trace's tables, and with
them every behaviour of `MMDriver` is one of `BlockHeap` (`ImplementsBlocks`, checked
and proved). What is proved about `BlockHeap` so holds of the words.

The header comment of `mm.c` says of the footer that "it only exists for free
blocks" (`mm.c:17`); the code writes it for allocated blocks too (`mm.c:296-307`),
and `coalesce` relies on it. The models follow the code, and `BoundaryTags`
states it.

### The driver

`Alloc`, `Realloc` and `Free` are the bodies of the three cases of the loops,
with what the valid and the util phase do around the call; `EvalMMValid`,
`EvalMMUtil` and `EvalMMSpeed` start a phase. A payload word filled with byte b is
written b. `Ids` double as fill bytes. A trace is any sequence of requests that
allocates an id before it resizes or frees it. `Balanced = TRUE` makes a phase
start only when the trace has freed all it allocated, which is what the `-bal`
traces of the repository do; what happens otherwise is the subject of the run
`stale_init`. Each phase may see a different trace here, where `main` replays the
same one; the model so allows more than the program.

`Driver` looks at the same program from the other side: real trace files, and
packages of which only what a driver must assume is known. A file is a header and
a sequence of lines, each a type and the numbers it has (two, one or none, as
`fscanf` finds them; a number too many would be the type of the next line, a bogus
one). `OpenTrace`, `ReadLine` and `CloseTrace` are `read_trace`;
a store beyond `trace->ops` kills the process or goes unnoticed until the
assertions, and `blocks` starts as zeros or as junk. `Begin` starts a phase,
`Alloc`, `Realloc` and `Free` are one request of whichever of the five evaluation
functions runs, `Judged` is what `add_range` and the comparison may object to,
`NextPhase` and `EndTrace` are the steps of `main` and of the timer's loop, which
calls the speed phase a bounded number of times. `Account` is what `eval_mm_valid` and
`eval_mm_util` do with `trace->block_sizes` (`block_sizes`, junk at first, never
reset between phases) and `eval_mm_util` with `total_size` and `max_total_size`
(`total`, `peak`). A block that is handed out (`Fresh`) is any that is not held, also
one that a stale entry still points to. With `run_libc` a pass over the
C library's malloc comes first, which is never reset: what it still holds from one
phase to the next stays held. A call with a pointer that is not held, or an entry
beyond `blocks`, is a `Misuse`: the process dies, goes on, or (realloc) the call
fails, and `misused` remembers the trace. A failing package ends the trace with
an error in the valid phase, and the program everywhere else.

### The database

A file is a sequence of cells, two to a row. `Open` is `Database_open` (create
truncates there and then), `Die` is the refusal inside `main` or `Database_set`,
`Fwrite` makes the change in memory and lets any prefix of the image reach the
file, `Fflush` the rest or, on a device error, a part of it, `Kill` ends a process
anywhere. Both versions of the program are this module: `version` chooses what
create and delete lay out (`BlankEntry`) and which results of `fflush` the program
takes for a success (`Accepts`; for `ex17-old.c` none that occurs). A negative row
number indexes memory before the rows (`Wild`): whether that "row" is set is
anything, and the image is written back without a change of its own. The memory that
such a command overwrites is not modelled: it dies of it, or what it overwrites is
nothing it reads again; a layout in which that is `conn` is left out. `kept` and
`told` are not in the program: they record what the user was told. No command of
`ex17-old.c` ever reports a success, so `AcknowledgedIsStored` says something of the
newer program only.

### Timer and sort

`KBest!Round` is a round of the loop of `fcyc`, `Start` its initialisation, the
`Set...` actions are the setters between calls, and `NoBuffer` is the exit when
`clear` gets no memory. In a round the function takes any of `Times` cycles from
where the counter stood; with compensation interrupts fall into it, and their cost,
which `callibrate` estimated at any rate it may have seen, is taken off. `seen` is
not in the program: it says for each value how many of the samples taken were no
greater, counted as far as the largest K, so that the i-th least sample is at most v
exactly when `seen[v]` is at least i. `Clock!Elapsed` is the two-word
subtraction of `get_counter`; the model starts the counter close to an overflow of
either word. Sizes and blocks are counted in ints: a cache block of less than one
int, which no caller sets, would make `clear` loop for ever (`fcyc.c:109`) and is
excluded by `KBestAssumption`. The default build selects `gettimeofday`
(`config.h:70`), so this code runs only when built with `USE_FCYC`; `init_fsecs`
then asks for compensation and for clearing.
`BubbleSort` has one action for a round of the inner loop, one for its end and one
for `main`'s step to the next comparison.

### The data lab

The functions are operators. Where the code works on single bits a word is the set
of positions that hold a one (`&` is intersection, `>>` repeats position 31, adding
one carries through the ones below); where it adds, a word is the number, with the
sum wrapped as the hardware does (`negate`, `isLessOrEqual`; in C an overflow of
either is undefined). The largest int is a constant of `CInt`.

## 3. Runs

| run | module | states | question |
|---|---|---|---|
| `blockheap` | `MCBlockHeap` | 22178 | invariants, action properties and `MallocSpec` for the block-level allocator |
| `mmdriver` | `MCMMDriver` | 122623 | tags, list, payloads, driver's verdicts, refinement of `BlockHeap` |
| `rangelist` | `MCRangeList` | 10811 | what the list holds when the package returns anything |
| `driver` | `MCDriver` | 153593 | any trace files, packages that may fail: arrays, stale pointers and sizes, error count, termination |
| `database` | `MCDatabase` | 20563 | either version, commands one at a time, killed or failing anywhere |
| `kbest` | `MCKBest` | 26080 | sampler, result, cache buffer, termination |
| `bubblesort` | `MCBubbleSort` | 15666 | every array, the three sorts |
| `realloc_oom` | `MCMMDriver` | - | violation, see findings |
| `stale_init` | `MCMMDriver` | - | violation |
| `signed_char` | `MCMMDriver` | - | violation |
| `enclosure` | `MCRangeList` | - | violation |
| `lost_update` | `MCDatabase` | - | violation |

Bounds and why they are enough:

* **`blockheap`**: chunks of 32 bytes, an arena of four, requests whose blocks take
  16, 32 and 48 bytes, and zero. A block can be split twice, both neighbours of a
  block can be free, a request can exceed a chunk, and the arena runs out. The
  state space is finite without further bound.
* **`mmdriver`**: an arena of three chunks, two ids, at most eight requests and phase
  starts (`MaxSteps`). Two blocks and the rest of the arena give all four cases
  of `coalesce`, all four ways through `mm_realloc`, both branches of `place`,
  both of `remove_from_free_list`, and running out of memory. Eight steps reach
  all three phases with blocks allocated and freed in each. `SizeT` is 1024,
  beyond all sums that occur: no run asks for sizes near the top of `size_t`.
* **`rangelist`**: eight addresses, among them one misaligned, one below and one
  above the heap, and lengths up to 33 that overlap, touch and enclose.
* **`driver`**: every file of up to two lines under every header of up to two ids
  and two requests, and of three lines under the header for two ids and three
  requests, the lines of nine kinds: whole ones for two ids, a request for nothing,
  short ones, a bogus one; a longer proper trace that resizes a block and uses an
  id again; and all pairs of five short files,
  so that a failed trace is followed by another. The timer runs the speed phase once
  or twice (`MaxRuns`), so that a run meets the pointers of the one before it.
  Two ids suffice for an id to stay unallocated or out of range beside one that is
  used; three lines for an allocation, its free and a use after it.
* **`database`**: two rows (a write covers a row the command was not about), two
  values, row numbers from -1 up to and including the first that is too large.
  `lost_update` runs the newer version alone.
* **`kbest`**: K of one and three, limits below and above K, equal and different
  times, words of four bits, no interrupt or one per call, a rate that is not
  recorded and one that makes samples negative, caches of one and three ints, blocks
  of one and two.
* **`bubblesort`**: all arrays of one to four of four numbers of a four-bit int,
  with its least, -1 and zero.

Deadlock: the allocator stops when out of memory, the driver at its bound or when
the process died; these configurations say `CHECK_DEADLOCK FALSE`. So do the
sort and `Driver`, which come to their ends, and `KBest`, which exits when there is
no memory for its buffer. The others never stop.

Fairness. `KBest` assumes weak fairness of a round: the function timed returns,
and the loop goes on. `BubbleSort` and `Driver` assume it of their next step: one
thread that waits for nobody; that a package's calls return is what `MMDriver` and
`BlockHeap` have them do. No other property is a liveness property and no other specification
assumes fairness: nothing obliges a client to call, or a process to survive.

Each property of a passing run has a mutant: a variant of one modelled
definition, defined just above it and marked `mutant` in its comment, with a
plausible slip (a forgotten unlink, an unrewound position, a lost borrow), under
which the property fails on the same bounds.

## 4. What the violations show

* **`realloc_oom`**: `mm.c:251` says that when realloc fails the old block is left
  untouched. When the arena is used up, `mm_malloc` passes NULL to
  `remove_from_free_list`, which reads address 4: the process dies.
* **`stale_init`**: `mm_init` uses `free_list` before it sets it (`mm.c:136-141`).
  After a trace that ends with blocks allocated, the stale pointer makes
  `extend_heap` and `coalesce` write into the new heap, which then differs from
  that of a fresh process.
* **`signed_char`**: the driver compares a plain `char` with a value up to 255
  (`mdriver.c:656`): where `char` is signed it reports lost data that is there.
* **`enclosure`**: `add_range` accepts a payload that encloses a recorded one
  (`mdriver.c:409`), though its comment says payloads must not overlap. That this is the
  only overlap it misses is `MeetOnlyByEnclosing`.
* **`lost_update`**: two database commands at the same time undo each other
  (`ex17.c:90`), so a row that is set changes although nobody deleted it.

## 5. Proofs

### The blocks

`BlockHeapProofs` proves, for every chunk size, arena and set of requests that
satisfy the assumptions below:

| theorem | states |
|---|---|
| `TypeCorrect` | the type invariant |
| `HeapWellFormed` | blocks tile the heap, the list is exact, no free neighbours |
| `BlocksAccounted` | every block is free or held, with room for the request |
| `EmptyHeapIsOneBlock` | when nothing is held one free block is left |
| `GrowthIsNeeded` | the break moves only for a request no free block could hold |
| `OthersKeepTheirBlocks` | a call resizes no block of another pointer |
| `Refinement` | `BlockHeap` implements `MallocSpec` |

Assumptions: `ChunkAssumption` (the chunk is a multiple of 8 and at least a
minimal block), `ArenaAssumption` (the arena starts aligned and has room for
`mm_init`), `RequestAssumption` (requests are natural numbers). `mm.c` and
`memlib.c` satisfy them with 4096 and 20 MB.

Argument. The inductive invariant is

    Inv == Settled(heap) /\ Base + Chunk <= heap.brk <= MaxHeap
           /\ Held(heap, live) /\ crashed \in BOOLEAN

where `Settled` says the heap is well typed, tiled, has an exact list (`Sound`) and
no free neighbours (`Coalesced`), and `Held` that the blocks which are not free
are those of the client, with room. Neither half is inductive alone: without
`Held`, a free or a realloc could be handed something that is no allocated block;
without `Coalesced`, a single merge in `coalesce` would not restore it; without
the exact list, `remove_from_free_list` and `find_fit` mean nothing. Inside a
call the heap is `Sound` but not coalesced, which is why the lemmas about single
operators (`JoinFacts`, `CoalesceFacts`, `ExtendFacts`, `PlaceFacts`) ask for and
give `Sound`, and say separately where free neighbours may be left. `MallocFacts`,
`FreeFacts`, `GrowFacts` and `InitHeapFacts` compose them to whole functions; the
`...Step` lemmas carry them to the actions, one each; `InductiveInvariant` collects
these. `FindFitFacts` and `NoFitFacts` rest on the existence of a least index
(`LeastElement`), `EmptyHeapIsOneBlock` on the fact that each block but the first
ends another one, `Refinement` on `PayloadsApart` and `RefusalIsLegal`.

### The words

`MMWordsProofs` proves of each function of `mm.c`, run on any words that hold a
well-formed heap, of any size, that the words it leaves hold what the operator of
`BlockHeap` makes of that heap:

| theorem | states |
|---|---|
| `MallocWords` | `mm_malloc` does what `Malloc` does and returns the payload of that block, or the process dies, which happens exactly when `OutOfMemory`; it writes only in free blocks and above the old break |
| `FreeWords` | `mm_free` does what `Free` does, and writes in the freed block and in free ones |
| `GrowWords`, `MoveWords` | the two ways through `mm_realloc` that change the heap, and that they carry the contents along and touch no other payload |
| `InitWords` | `mm_init` leaves `InitHeap`, if `free_list` is NULL or where the first block will be |
| `HeapOfWords` | headers and list read back give the heap the words hold |

The words hold a heap (`Holds`) if its boundary tags (`Tags`) are those of its
blocks and the list words thread its free list (`Linked`). Inside a function tags or
links are briefly wrong: `HoldsBut` excepts the tags of some blocks and takes the
list separately from the heap, so that the lemmas about single operators can be put
in the order of the code. What makes their composition work is that they say where
they write (`SameWords` outside a set of words; `Zones` are the words of a set of
blocks from header to footer): the list words of a free block lie between its tags
(`Fits` leaves at least 16 bytes), so linking disturbs no tag and tagging no link.
The walk along the list is a recursive function, but no induction over data is needed:
`Linked` says what its k-th element is, and a walk that left the list would leave
it at a least k.

`MMDriverProofs` carries this to the driver:

| theorem | states |
|---|---|
| `InductiveInvariant`, `TypeCorrect` | the invariant `Inv`, `TypeOK` |
| `TagsAgree`, `LinksAgree` | `BoundaryTags`, `ListDoublyLinked` |
| `CheckerNeverReports` | `CheckerSilent` |
| `RangesAreBlocks`, `UtilizationBounded` | `RangesMatchBlocks`, `UtilAtMostOne` |
| `BalancedInitForgets` | the action property `InitForgetsThePast` |
| `PayloadsStayIntact`, `DriverIsSatisfied` | `PayloadsIntact`, `DriverSatisfied`; also assumes `SmallIds` |
| `WordsImplementBlocks` | the refinement `ImplementsBlocks`; likewise |
| `WordsKeepPromise`, `WordsWellFormed`, `WordsGrowWhenFull` | `KeepsPromise`, `WellFormed`, `GrowsOnlyWhenFull` of the words; likewise |

The invariant is

    Inv == Mapped /\ Sits(h, view.heap)
           /\ OnRecord(h, view.heap, block, ranges, phase, verdict)
           /\ Totals(view.heap, block, phase, verdict, total, peak)
           /\ steps \in 0 .. MaxSteps

`Sits` is `Holds` with a process that may have died; `Mapped` says that `view` is
what is read back. `OnRecord` relates the driver's tables to the heap: each
allocated block is held under exactly one id, with room (`Books`), the extents on
record are those of the table (`Recorded`), and payloads hold their fill bytes
(`Filled`). `Books` is what makes every pointer in the table one that `mm_free` and
`mm_realloc` may be given; `Recorded` what keeps `add_range` from complaining;
`Filled` what keeps the comparison from complaining. `Totals` says `total` is the sum
of the sizes held (`Tally`, as a function that adds up address by address), and
`peak` at most the heap: the sum is at most the allocated part of the heap, because
blocks do not overlap (`Apart`). `WordsKeepPromise` and the two after it come from
`WordsImplementBlocks` and the theorems of `BlockHeapProofs`, instantiated with `view`.

All of these assume `Balanced`, that a trace has freed all it allocated when
the next phase starts, since otherwise `mm_init` uses a pointer into the old heap
and `Sits` is not even true of what it leaves (run `stale_init`). The second
group also assumes `SmallIds`: the fill byte of every id, `i % 256`, is below 128
and so is what a signed `char` reads back. Without it the driver may report lost
data that is there (run `signed_char`), and it then gives the trace up with the old
pointer of the moved block in its table, which `BlockHeap`'s client does not do. The first
group holds for all ids. Of the sizes `TraceAssumption` says that they are
multiples of a word and below half of `size_t` (the field is an int), of the
memory `MemAssumption` and `ChunkAssumption` of `MMWords` that the arena is aligned,
smaller than half of `size_t`, with room for `mm_init`.

### The other components

`ExerciseProofs` proves what the data lab's functions compute:

| theorem | states |
|---|---|
| `BitXorIsXor`, `TminIsSign`, `AllOddBitsIsRight` | each is what its comment names |
| `ConditionalChooses`, `LogicalNegIsNot` | so are these, by the masks `Masks` computes |
| `HowManyBitsIsLeast` | so many bits represent the word, and one less does not |
| `NegateNegates`, `IsLessOrEqualCompares` | for ints of any width, overflow included |

A word is any subset of 32 positions, so the theorems speak of all 2^32 words; the
last two assume of `IntMax` only that it is a natural number. The argument for
`howManyBits`: `abs` has ones where the word differs from its sign
(`AbsIsDifference`); a word that is not zero has a highest one (`TopExists`, by
halving the positions as the code does); and a step that looks n places up when
that one is below 2n returns n or 0, and leaves it below n (`SearchStep`). After
five steps nothing but the number 1 is left, and the results add up to the position.

The rest, by module:

| module | theorem | states |
|---|---|---|
| `RangeListProofs` | `TypeCorrect`, `OnlyEnclosureIsMissed`, `OneRecordPerStart` | `TypeOK`, `MeetOnlyByEnclosing`, `StartsUnique` |
| `DriverProofs` | `TypeCorrect`, `AssertionsSuffice` | `TypeOK`, `StoresFit` |
| | `ProperTracesAreHarmless`, `ResultsAddUp` | `ProperTracesAreSafe`, `ErrorsAddUp` |
| | `UtilizationIsRight` | `UtilityIsOfTheTrace` |
| `DatabaseProofs` | `TypeCorrect` | `TypeOK`, also when commands overlap |
| | `CommandsKeepTheirWord`, `IdsAreRight` | `AcknowledgedIsStored`, `RowsKnowTheirIds`, one command at a time |
| | `OnlyDeleteTakesARow`, `FailedCommandsChangeNothing` | the action properties `OnlyDeleteClears`, `FailureChangesNothing`, likewise |
| `KBestProofs` | `TypeCorrect`, `ClearStaysInBuffer`, `LeastAreHeld` | `TypeOK`, `SweepsInBuffer`, `HoldsBest` |
| | `LeastIsReturned` | the action property `ResultIsLeast` |
| | `ElapsedIsRight` | two words subtracted with a borrow give the time between two readings |
| `ExerciseProofs` | `TypeCorrect`, `SortRearranges`, `PassesPlaceElements` | `TypeOK`, `SameNumbers`, `PassesPlace` |
| | `SortedAtTheEnd` | after the last pass the array is in order |

With these every safety property a passing run checks is proved, for any number of
addresses, trace files and lines, rows and processes, samples and numbers.

* **Range list.** The invariant is about pairs of records, the later against the
  earlier: they do not meet, or the later encloses the earlier and starts before
  it. The test of `add_range` looks at the two ends of the new extent only, which
  gives that for the new record; removing one keeps the order of the others.
* **Driver.** `Reading` says that what has been read of the file is in `ops`, as
  far as that reaches, and that `max_index` bounds every index a block is stored at;
  with the two assertions this gives `Replaying`, all requests there and in range.
  For stale pointers its part `Safe` is needed: the ids that the lines done so far
  leave allocated have blocks that are held, each its own. That needs a block
  handed out to differ from every entry of a live id (`FreshFacts`), and what
  the lines leave allocated to be known one line further (`AllocatedNext`). It starts
  true in each phase, since then no id is live, whatever the entries hold. `Counted`
  makes `errors` the number of traces done whose `valid` is not set, from which
  `ErrorsAddUp` follows by counting the two halves of the set of traces.
  A second invariant on top of it, `Tallied`, says of the stale sizes what `Safe` says of
  the pointers: `block_sizes` has what was asked for of each live id, and junk may stay
  in the others. A line changes what is asked for under its own id only
  (`AskedForNext`), so the sum over all ids changes by that difference (`SumOfOther`,
  by partial sums), which is what `eval_mm_util` adds. This needs that no id
  is allocated twice without a free (`NoDoubles`): the code would add the second size
  and forget the first.
* **Database.** While a command runs the file is neither the old image nor the new
  one. `InStep` says what it is: the loaded image, with the new one laid over its first
  cells as far as has been written (`Mixture`). What the user may rely on is then kept
  twice over, in the file between commands and in the image the running command
  loaded (`HoldsKept`); a cut-off write puts old or new cells into each row, and
  those of a row the command is not about are the same. All this needs that at most
  one command runs, `Exclusive`, which these theorems assume and `lost_update`
  shows to be necessary.
* **Timer.** `SamplerOK` ranks the array: for the places filled, `values[i] <= v`
  exactly when `seen[v]` is at least i. Inserting a sample at the end and bubbling it
  up keeps that for every K. `BufferFits`, that a buffer has the size now set, is what
  `clear` rests on. The sets of settings are assumed finite: `Max` of them bounds the
  counters.
* **Sort.** `PassesPlace` is not inductive in the middle of a pass: `Placed` adds that
  the element the last comparison of a pass puts down is in place from then on, and
  `Carried` that the one carried along is beyond those it has passed. `SameNumbers` is proved
  from a bijection between the positions of two arrays that differ by a swap.

Assumptions of these: `ExtentAssumption`, `DriverAssumption`, `DatabaseAssumption`,
`KBestAssumption`, `SortAssumption` and `IntAssumption`, which say what kind of thing each constant
is, that no value is one of the marks `Empty`, `Unset`, `Unknown`, and that no
extent is empty (`assert(size > 0)`, `mdriver.c:388`). Where a proof wants the least
element of a set or an induction over the naturals, it takes a counterexample that
is minimal (`WFMin`), as the library's induction theorems cannot be instantiated.

Only model-checked: liveness (`MeasurementEnds`, `EndsSorted`, `DriverEnds`), since
the prover handles neither fairness nor ENABLED; and the disagreements of section 4,
which are counterexamples.

## 6. Not modelled

* The driver's options and its check of the team record, which precede the first
  trace and only set or print, or end the program; `printresults`, `usage`, and
  the arithmetic of the performance index.
* What stands in a trace file character by character: a line is its type and the
  numbers `fscanf` finds. Ids and sizes near the top of `unsigned`.
* Requests in the upper half of `size_t`, where `calc_block_size` would wrap: a
  trace's sizes are ints, and what a negative one means to the driver is not settled
  by its code. Below that, `MallocWords` and its companions show that nothing wraps.
* `heapdump` and the printing helpers of `mm.c`; `mem_deinit`, `mem_pagesize`.
* The Alpha counter, the estimates of clock rate and of the counter's overhead, and
  the interval timers: numbers from outside on which nothing else in the code
  depends.
* `get` and `list` of the database, which change nothing; what `strncpy` cuts off.
* `ex19.c`, whose every branch is a macro of `dbg.h`, a file the repository does not
  contain; `ex16.c` and the first exercises, which run straight through once; the
  attack lab, which holds notes and generated code about another program.

## 7. Plan

1. `ImplementsBlocks` without `SmallIds`, as far as the step in which the driver
   gives up a trace for lost data: every step before it is one of `BlockHeap`.
2. `BlocksAccounted`, `EmptyHeapIsOneBlock` and `OthersKeepTheirBlocks` for the words,
   by the same instance that gives `WordsWellFormed`.
3. Unbalanced traces: from which stale values of `free_list` `mm_init` still leaves
   `InitHeap` (`InitWords` has two), as a theorem next to the run `stale_init`.
