# Specifications of the TILT runtime

TILT compiles Standard ML to native code. The part of it that runs
concurrently, and that tests reach badly, is the runtime in
`src/Runtime/sparc`: system threads ("processors") that run ML threads,
allocate from shared heaps, and collect garbage in parallel with lock-free
protocols built from `FetchAndAdd`, `CompareAndSwap` and barriers. These
modules specify that runtime: its synchronization, its scheduler, its parallel
and concurrent collectors and the data structures under them. TLC checks them on
small instances. TLAPS proves, for every instance, the safety of the rooms (that
they implement their abstract specification included), of the barriers, of the
scheduler, of copying and of the data structures in the heap.

## The system

| Part | Source | State | Operations | What makes it correct |
|---|---|---|---|---|
| Rooms | `rooms.c` | `which`, per room `cur`, `wait`, `prev` | enterRoom, exitRoom, changeRoom | one room open at a time; exit code runs alone; every ticket is admitted, in order |
| Barriers | `barriers.c` | ring of counters, `lastUsed`, a phase per processor | weakBarrier, strongBarrier, checkBarrier | nobody passes a strong barrier early, though counters are recycled; one first processor per collection |
| Shared work stack | `gc_para.c` | shared sets with a cursor each, `numLocalStack`, local sets, `hasShared` | pop, push, isEmpty, reset | work is neither lost nor duplicated; "empty" means nobody has any |
| Parallel semispace collector | `gc_semi_para.c` | barriers, the shared stack, the job cursor, copied objects | stop_copy, GCPoll, GC | everything reachable is copied and scanned; the collection ends |
| Scheduler | `thread.c` | `JobQueue`, `status` of threads, `EmptyPlain`, `NumActiveProc` | spawn, yield, finish, fetch, thread_go | one processor per thread; Yield joins; all processors and the main thread stop |
| Concurrent collectors | `gc_semi_conc.c`, `gc_gen_conc.c` | `GCStatus`, the work of each processor and the shared stack, write lists, the offsets that say which space is primary | phase functions between barriers, do_work quanta, GCRelease, flips | processors change phase together; no work is left at a flip; mutators never see the old space; a collection ends |
| Copying and scanning | `forward.c`, `gcinline.h` | tags (own tag, STALL, forwarding pointer), replicas, copy ranges | acquireOwnership, genericAlloc, genericScan, the write barrier | one replica per object; replicas agree with primaries when nothing is left to do; spaces can be parsed |
| Stacklets | `memobj.c`, `stack.c`, `gc.c`, `exn.c` | copy state, reference count and two halves of each stack segment | Stacklet_Copy, Stacklet_KillReplica, root scans, new, pop, raise | a snapshot is never torn; at the flip the replica is what the thread left |
| Heaps and allocation areas | `sparc.h`, `gc.c`, `memobj.c` | heap cursor, an area per processor | GetHeapArea, GCSatisfiable, requests | areas lie in fromSpace and do not overlap |
| Large objects, sets | `gc_large.c`, `bitmap.c`, `queue.c` | two bitmaps; arrays with `first` and `last` | allocate, mark, sweep; push, pop, dequeue, copy | arrays do not overlap; a hole is found if there is one; a set is the sequence pushed |
| Sequential collectors, heap policy | `gc_semi.c`, `gc_gen.c`, `gc.c` | nursery, tenured space, sizes | major and minor collections, ComputeHeapSize | what is live has room; a request is met or memory is out |
| Compiler | `src/Top`, `src/Parser`, `src/Elaborator`, `src/Nil`, `src/Lil`, ... | none shared; the build has a master and slaves that talk through files | passes over programs; compile jobs | out of reach as a whole; the master/slave protocol is a candidate |

How they interact: mutators stop and enter `work` of the scheduler, which calls
`GCPoll` while idle and the collector on a request. A collection is a fixed
sequence of barriers: one weak one that elects a first processor, then strong
ones. Between them the processors take threads from the job queue, scan their
stacks, and share work through the shared stack, whose pops and pushes are kept
apart by rooms. The exit code of the push room decides whether all work is done.
The concurrent collectors use the same barriers and the same stack, but meet
only to change phase: in between every entry into the collector does a quantum
of work, and mutators run. A mutator logs its writes, and GCRelease applies them
to the replicas. Stacks are snapshots: a stacklet is Pending from the root scan
on, and whoever comes first, the collector or the thread that returns to it,
copies it.

What is hard: several processors in the middle of enterRoom and exitRoom at
once; counters reset while slow processors still use them; pops that take a
cursor below zero and put it back; a verdict of termination while others hold
work; status counters changed with and without the lock; a wake-up that comes
too early; copies, scans and writes of one array that overlap; pointers that are
overwritten between two quanta; stack segments that are reused while they are in
a work list; sizes and alignments at the edge of a page, a chunk or a heap.
`PROJECT.json` lists each hazard at its line.

## Modules

| Module | Models | Composition |
|---|---|---|
| `RoomsAbs` | what the rooms promise: queues of tickets, batches, exit code | abstract specification |
| `Rooms` | `rooms.c`, one action per shared memory access | implements `RoomsAbs` by the refinement `Abs` |
| `Barriers` | `barriers.c` under the barrier sequence of a collection | |
| `SharedStack` | `gc_para.c`, the operations of the shared stack | extends `RoomsAbs` |
| `SemiPara` | `stop_copy` of `gc_semi_para.c` | extends `SharedStack` |
| `Jobs` | the job queue and scheduler of `thread.c` | |
| `Copying` | one object graph under copiers, scanners and writers: `forward.c`, `gcinline.h`, `GCRelease_SemiConc` | |
| `Concurrent` | what the concurrent collectors share: phases, barriers, quanta, the shared stack by items | |
| `SemiConc`, `GenConc` | the phase functions, the release and the switch of `gc_semi_conc.c` and `gc_gen_conc.c` | extend `Concurrent` |
| `ConcCollectors` | a program run with either of them | extends both |
| `Stacklets` | the stacklets of threads and their snapshots | |
| `HeapAreas` | allocation areas and requests of mutators | |
| `CopyRanges` | where copies are put, and gray regions | |
| `LargeObjects` | the space of large arrays over two bitmaps | |
| `Sets` | `Set_t` against a sequence | |
| `HeapPolicy` | heap sizes and reserves of `gc.c` | |
| `Sequential` | the spaces of the two collectors for one processor | extends `HeapPolicy` |
| `Storage` | one of these six, chosen at the start | extends them |
| `MC*` | instances for TLC | |
| `NatLemmas` | arithmetic the proofs share: least and greatest elements of sets of numbers | |
| `Rooms_proofs`, `Barriers_proofs`, `SemiPara_proofs`, `Jobs_proofs`, `Copying_proofs`, `ConcCollectors_proofs` | inductive invariants and theorems | extend the module they are about |
| `Storage_proofs` | the invariants of `Stacklets`, `HeapAreas`, `CopyRanges`, `LargeObjects` and `Sets`, the theorems of `Storage`, and that of `HeapPolicy` | extends `Storage` |

**Rooms.** `pc[p]` is the position of a processor in the three functions; the
actions from `EnterRoom` to `WriteCur` are enterRoom, those from `ExitRoom` to
`CloseRooms` are exitRoom and, with `change[p]`, changeRoom (`TakeTicket` before
leaving, `Spin` after). `cur[i] = wait[i]` is two actions, `which` and `cur` are
written in two more. The exit code itself belongs to the caller and is one step.
Memory is sequentially consistent: the code targets SPARC with total store order
and issues `memBarrier` where it matters. The logger is left out, as nobody
installs one.

**Barriers.** One action per access of strongBarrier, which resets the counters
of earlier barriers one by one while it leaves. `Program` is the sequence of
kinds of one collection. A processor starts a collection by itself
(`StartRound`) or because its poll sees the counter of its phase above zero
(`PollRound`).

**SharedStack** has the steps of the operations of `gc_para.c`, and its client
says when they run. A set is an array with a cursor; positions count words.
The eight sets are numbered in the order popSharedStack visits them, and an
instance chooses how many there are (two: roots and objects). A memcpy is one
step, after the FetchAndAdd that reserves or claims its words, so reserved words
stay unfilled while others run. MakeFraction is exact: it divides integers with
rounding towards 0, where the code goes through double. The words between the
cursor and the data of a local set are a sequence.

**SemiPara** is one collection. The barriers are single steps here (`stage`
counts the strong ones), which is what `Barriers` shows them to provide, and the
rooms are those of `RoomsAbs`, which `Rooms` implements. Copying is one step per
root or object: processors race by CompareAndSwap on the tag and exactly one
copies. The objects copied by one such step become local work in any order, which
includes the order of the fields. An item is worked on completely before reachCheckWork is asked; a
processor may push after any positive amount of work. Every assertion on the
emptiness of the stack that can fail is an outcome (`aborted`).

**Jobs.** Sections under LocalLock are one step; accesses to `status` outside it
are steps of their own, so DeleteJob is six actions. `Code` gives the client
programs: the calls a thread makes, then it returns. FetchJob scans from the
highest slot, AddJob takes the lowest free one, and thread structures are reused.
An assertion or DIE that fails ends the behaviour (`stopped`).

**Copying** has an action per access to a tag or a field. A processor is a
mutator and a collector in turn: it takes quanta (`Idle`, `Root`, `Gray`) and
releases its write list (`TakeEntry` to `Finish`). `Copy` and `Scan` go field by
field. The three variants chosen at the start are the stop-and-copy collector
and the two ways in which the concurrent ones gray (primaries or replicas). The
work lists are one set. Entries that carry a global are not followed.

**Concurrent** keeps for each processor the list `todo` of the steps it still has
to do; a phase function of the code is such a list in `SemiConc` or `GenConc`,
and a step is everything between two barriers or two accesses to the shared
stack. The strong barrier is `arrived`, as `Barriers` justifies; the weak one
elects the first. A piece of work is an item that may produce others; what
copying does is in `Copying`. In `GenConc` one field of a tenured array exists
twice (`mirror`), each copy with the generation of the pointer in it, so a
pointer into a nursery that has been emptied shows. A release learns from the
first word of an array whether it has been scanned (`gc_gen_conc.c:812`); a tenured
array that holds itself there passes for one that has not, and the release ends
after the graying. The field of the model is another one, and with `SelfPointers`
any release of a minor collection may end so (`Skips`). When a collection starts,
which type it has, and how long a quantum is are free choices, so every policy
of the code is included.

**Stacklets.** The content of a stacklet is a bit that its thread toggles, and
Stacklet_Copy reads it twice, so a copy that overlaps with running is torn.
`KillReplica` follows `MapThread`, `PopStacklet` and `RestoreStack`, as in the
code, before the thread runs on the stacklet. The root scans are `InitialRootScan`,
`TakeStacklet` with `ScanReplica`, and `CompleteRootScan`.

**HeapAreas** separates the two `FetchAndAdd`s of GetHeapArea; a collection is
one step that all processors join (`SemiPara` has it in detail). **CopyRanges**
places copies word by word with alignment and padding. **LargeObjects** searches
the bitmap as AllocBitmapRange does, wrapping included, and computes lengths the
way gc_large_alloc and gc_large_addRoot do, which differ. `MutatorsRun` says whether
programs go on while a major collection marks: in `gc_gen.c` and `gc_gen_para.c`
they do not, in `gc_gen_conc.c` they do, and may ask for arrays. **Sets** moves words as
SetNormalizeExpand does, with `contents` as the sequence a caller expects.

**HeapPolicy** is integer arithmetic with the rounding of `sparc.h`; the ratios
are exact fractions where the code uses doubles. **Sequential** keeps a space as
the sequence of its blocks; which of them survive a collection, and in which
order they are copied, depends on the program and is free (`Survivals`).
`outcome` is how the program ends when an assertion fails or memory is out.
**Storage** puts six modules that share nothing side by side: a behaviour
exercises the one `which` names.

## Runs

| Run | Instance | Shows |
|---|---|---|
| `rooms` | 3 processors, 2 rooms, 2 tickets per room | `RoomExclusion`, `ExitCodeAlone`, `ChangeRoomNeverDies`, the refinement `BatchesInTicketOrder`, and `EveryTicketAdmitted` |
| `barriers` | 3 processors, ring of 5, 3 collections of 4 barriers | `StrongBarrierHolds`, `CounterStillFull`, `OneFirst`, `PollMeansCollection`, `EveryCollectionCompletes` |
| `semipara` | 2 processors, 2 roots, 3 objects | `WorkConserved`, `EmptyMeansDone`, `EmptyAfterCollection`, `CollectionEnds` |
| `jobs` | 3 processors, 3 thread structures, a main program that spawns a child which spawns another | `OneProcessor`, `StatusCounts`, `EmptyMeansNoJobs`, `YieldJoins`, `ProcessorsStop` |
| `copying` | 2 processors, a segmented array, a record, a new object; 3 variants | `OneReplica`, `ReplicasUpToDate`, `CopyingEnds` |
| `concurrent` | 2 processors, 1 thread, 2 collections, 1 write; both collectors, one or two phases per type; no array stored in itself | `EmptyAtFlip`, `RootsFlipped`, `NoNurseryPointer`, `CollectorTurnsOff` |
| `storage` | six structures, see below; no program runs during a major collection of the large space | `ReplicaWhole`, `ReplicaAtFlip`, `AreaInFromSpace`, `HeapParsable`, `GrayConserved`, `LargeDisjoint`, `NextFitComplete`, `SetIsSequence`, `HeapHoldsLive` |
| `copy_snapshot` | as `copying` | finding: a release that skips an array not yet scanned loses the pointer that was overwritten (`gc_semi_conc.c:516`) |
| `genconc_mirror` | 1 collection, 2 writes | finding: the mirror of a back location can end with the older of two values (`gc_gen_conc.c:558`) |
| `stack_reuse` | as `storage` | finding: the assertion at `memobj.c:251` can fail for a stacklet that is reused |
| `big_array` | as `storage` | finding: a big array of pointers is refused without a major collection (`gc_gen.c:18`) |
| `jobs_wake` | 2 processors, one thread | finding: the main thread can miss its wake-up (`thread.c:1164-1168`) |

Further configurations, each with one property that the code does not have, are
kept beside the runs. TLC finds the steps within seconds:

| Configuration | Property | What happens |
|---|---|---|
| `MCSemiParaStart.cfg` | `EmptyBeforeCollection` | the assertion at `gc_semi_para.c:65` is read while others reset the stack |
| `MCStaleSize.cfg` | `PopsNeverIncrement` | a request computed from a cursor below zero moves a cursor up, against `gc_para.c:74-77` |
| `MCJobsParent.cfg` | `ParentNotFinished` | the assertion at `thread.c:260` fails for a parent that joins |
| `MCJobsHeld.cfg` | `HeldOnce` | the assertion at `thread.c:991` fails for a thread that needs memory |
| `MCJobsStart.cfg` | `ProcessorsStopFirst` | the main thread returns while a processor has not counted itself yet |
| `MCCopyingStall.cfg` | `WriterNeverDies` | a release reads STALL_TAG as the tag of a short array, as it waits for SEGSTALL_TAG only (`gc_semi_conc.c:519-522`), and comes to DIE |
| `MCCopyingSelf.cfg` | `ReplicasUpToDate` | an array that holds itself in its first field: the scan stores the raw pointer in the replica (`gcinline.h:651-652`) before the self test replaces it (`gcinline.h:660-664`), and meanwhile it looks like the back pointer of an object not yet scanned, so a release skips its write (`gc_semi_conc.c:515-517`) and the write is lost |
| `MCMirrorLost.cfg` | `NoNurseryPointer` | the same for the generational collector: a tenured array that holds itself in its first field passes the test for one not scanned yet (`gc_gen_conc.c:812-813`), and a write released in a minor collection neither reaches the mirror nor is recorded, against `gc_gen_conc.c:788-793`; two flips later mutators see a pointer into the nursery that was emptied (checking `MirrorUpToDate` instead shows the older value after one) |
| `MCLargeLost.cfg` | `LargeDisjoint` | in `gc_gen_conc.c`, an array made while a major collection marks is not marked, and its chunks are given away (`gc_gen_conc.c:296-460`) |
| `MCHeapOverlap.cfg` | `AreasDisjoint` | with three processors, an area given back lowers the cursor below one that was granted meanwhile (`sparc.h:1735-1738`) |
| `MCExactRequest.cfg` | `RequestSatisfied` | a request of exactly a page gets a page, which GCSatisfiable, being strict, refuses (`gc.c:745`, `gc_semi_para.c:179`) |
| `MCRaise.cfg` | `ReplicaWhole` | an exception frees several stacklets at once; one is reused while it is being copied (`exn.c:81`) |

*Bounds.* Three processors in `rooms` are enough for a claimer, a last leaver and
a new entrant at once; two tickets per room give a batch that is admitted while
another room drains, and a second visit. Fifteen positions pass over the ring of
five in `barriers`, so every counter is recycled at least twice. In `semipara`
the roots share objects, the objects form a cycle, and a pop fetches two items at
a time: pops that meet their request, fall short, or overreach while another one
puts the cursor back all occur. With fetch size 2 the stale length of a set makes
a request at worst 0; negative requests need the larger sizes of `MCStaleSize.cfg`,
and the default of 100 is such a size: what `semipara` shows, it shows of pops whose
request is not negative.
The table of 3 threads in `jobs` is too small for the 4 threads its programs may
have at once, so behaviours that reuse a structure and behaviours that run out of
threads both occur. `MaxTicket` and `MaxRounds` are bounds of the models only.

In `copying` the array has two segments, is in the registers of both mutators and
on a cycle with the record; one mutator takes two steps, so that it can store
what it has just loaded or allocated, and both processors scan, copy and release
in every order. The races need two processors and one array; the second object is
what an overwritten pointer leads to. In `concurrent` two collections are needed
for what is carried over a flip (next back locations, the space of registers),
and one write for either to be stale; `MCOptions` has each type of collection
with one and with two phases, but not all four combinations. Both `concurrent` and
the theorem `MirrorSafe` are about programs that store no array in itself;
`MCMirrorLost.cfg` is about the others. In `storage` two
threads share three stacklets, so one is reused, and two snapshots let a state be
left over from the one before; two processors share a heap of four pages with
requests below, at and above a page; copies are smaller than, equal to and larger
than the remainder of a page and include misaligned doubles; arrays take one to
three of six chunks, and are made and dropped between the collections of the large
space only, as in `gc_gen.c` and `gc_gen_para.c`; a set starts with 16 words and grows
once; and the spaces of `Sequential` hold up to four blocks, with big arrays
below and above what a nursery holds. A set is asked for with 16 words or more:
SetInit gives smaller ones a size past their memory (`queue.c:9`). Only the two
sets of global roots may be smaller, and they never hold more than they were asked
for (`stack.c:659`).

Deadlock is not checked: a processor may stop calling, and every collection,
program or bounded count comes to an end. That nothing ends too soon is what the
liveness properties say.

*Fairness.* Every system thread is scheduled forever by the operating system:
weak fairness of the steps of each processor. Nobody has to start a call of
enterRoom (`Rooms`) or a collection (`Barriers`), but whoever is inside a room
leaves it, and a processor that is not collecting polls (`work` calls GCPoll, and
StopAllThreads sends running mutators there). In `SemiPara` the admission to a
room is strongly fair, which abstracts `EveryTicketAdmitted`. In `Jobs` the
client programs are finite, so a running thread comes to its next call; spurious
wake-ups of the main thread are possible and not fair. CompareAndSwap in
enterRoom needs no strong fairness: it is retried by whoever spins, and a ticket
is admitted by the last leaver anyway. In `Copying` and `Concurrent` the steps of
a processor inside the runtime are weakly fair and those of mutators are not; a
processor that runs ML code comes to the collector, because StopAllThreads sets
its heap limit when a phase is pending, and an idle one polls. `storage` has no
liveness and states no fairness.

## Proofs

Every theorem but `HeapSizesHold` is about a specification the runs check, and its
invariant is inductive: the initial states satisfy it, and each action keeps it (one lemma per
action, or per group of actions that touch the same state). A property that a run
checks is seldom inductive by itself; what follows says what had to be added, and
why. `PROJECT.json` lists the theorems.

**Rooms** (`Rooms_proofs`; any finite set of processors, any number of rooms, any
ticket bound). `InductiveInvariant` is `Spec => []IInv`; `TypeCorrect`, `Exclusion`,
`ExitCodeRunsAlone` and `NeverDies` follow. `RoomExclusion` alone is not
inductive: why must nobody be in another room when the last leaver moves `which`?
Because it is the last, which it knows from a count only. So `IInv` says what the
counters mean: `cur[r] - prev[r]` is the number of occupants of `r`
(`OccupantsCounted`), the tickets from `cur[r] + 1` to `wait[r]` are each held by
exactly one waiting processor (`TicketsIssued`, `TicketsDistinct`, `TicketsHeld`),
and a *boss* (the one that has claimed closed rooms, or the leaver whose position
equals `cur`) is unique and alone (`BossAlone`). The remaining parts tie the
registers of a boss to the counters (`CopyPending`, `ScanPassed`, `TicketAhead`,
`PositionPast`).

Steps that change neither tickets nor occupancy share the lemmas `OthersKeep`,
`TicketsKeep` and `QuietKeeps`. Four steps carry the weight. `ClaimRoomsKeeps`:
with `which = -1` nobody is inside and nobody is a boss (`Closed`).
`LeaveRoomKeeps`: one occupant fewer and `prev` one higher; when the position
reaches `cur` the count is 0. `Admitted`, for both writes of `cur`: the holders of
the tickets between the old and the new `cur` are as many as the difference
(`BatchSize`, by a bijection). `ScanKeeps`: a caller of changeRoom holds a ticket
for a room that the ring must reach (`RingCovers`), so the scan does not end
empty-handed.

`Refines` is `Spec => BatchesInTicketOrder`: the code implements `RoomsAbs`. The
n-th in the queue of a room is the one holder of ticket `cur + n` (`QueueIs`, from
`TicketsHeld` and `TicketsDistinct`). Taking a ticket appends to the queue
(`TicketArrives`); both writes of `cur` are Admit (`BatchAdmits`, which needs that
nobody is inside and no exit code is pending: `BossAlone`); the FetchAndAdd on
`prev` is Leave, and leaves the exit code to the caller exactly when it was the
last (`LeaverLeaves`, by the count); every other step stutters (`QuietIsUnseen`).

**Barriers** (`Barriers_proofs`; any finite set of processors, any number of
collections). `BInv` places every state between two strong barriers: `l`, the last
that anybody has passed, and `n`, the next. Every processor is at `l` or beyond and
none is past `n`; the counters of `l` to `n` hold the arrivals, and those of
earlier barriers are 0 already, so that a slow processor still in its reset takes
nothing away (`m` is where that reset began). `StrongHolds`, `AssertionHolds` and
`PollIsTrue` follow. `FirstIsUnique` has the hypothesis `WeakFirst`: the program of
a collection has two barriers or more, and the first one only is weak, which is the
shape of every collection and every phase in `gc_semi_para.c`, `gc_gen_para.c`,
`gc_semi_conc.c` and `gc_gen_conc.c`.

The proof needs `RecyclingAssumption`: after any barrier there are two strong ones
within the ring. The code neither states nor checks it, but its rings (createBarriers
is called with 5, 7, 10 and 14) satisfy it. The assumption is not idle: with a ring
of 3 and the program weak, strong, strong, strong, which the assertion
`b->phase >= 3` accepts, TLC finds a collection that never completes.

**Parallel collection** (`SemiPara_proofs`; any finite sets of processors and
threads, any number of shared sets and fetch sizes, any graph of objects).
`WorkConserved` counts the places an item is in; no step can be judged by a count.
`Inv` says where each piece of work is, and what the processors are in the middle
of:

- `RoomsOK`: everyone who pops is inside room 0, everyone who pushes or looks is
  inside room 1, and one room only is occupied, so no push overlaps a pop;
- `Claims`, `ClaimsApart`: the words a push has reserved lie below the cursor, those
  a pop has taken lie at or above it, and the words of two processors are apart;
- `Cursors`: a cursor is below its data only while a processor that has overreached
  is still to put it back;
- `SharedIsWork`, `LocalIsWork`, `SharedOnce`, `LocalOnce`, `NotBoth`,
  `WorkIsSomewhere` (`Conserved`): words and local items are exactly the pending
  work, each once;
- `Counted`, `Count`: `numLocalStack` is the number of processors that may hold work
  outside the stack, and whoever is at a barrier or between two operations without
  being counted has none;
- `Phases`, `Done`: no thread is left to scan once anybody has pushed its roots, and
  no work is left once anybody knows the stack to be empty.

The weight is in `FetchKeeps` (five ways for a request to meet the cursor),
`CopyKeeps`, `FillKeeps` and `WorkOnKeeps`, and in `Finalizer`: the count and the
cursors are 0, so by `Counted` and `WorkIsSomewhere` nothing is pending, which is
`EmptyStackMeansDone`.

`StackTypes`, `NothingLostOrTwice`, `EmptyStackMeansDone` and `AssertionAfterHolds`
read `Spec /\ PopsNeverIncrement => []...`. The hypothesis is what the comment at
`gc_para.c:74-77` takes for granted, "ok since there are no increments". The code
does not give it: the request for objs is computed from a cursor that another pop
may have moved far below the data, and can come out negative (`MCStaleSize.cfg`,
with the default fetch sizes and two processors). So the theorems are about the
behaviours in which no pop makes such a request, and say nothing of the others; that
those are all behaviours for some sizes, and not only by chance, is the lemma
`PopsAreSafe`: it derives the hypothesis from `SmallFetch`, that is
`FetchSize[ObjKind] * (NumProc - 1) < 2 * NumProc`. At most `NumProc - 1` others have
overreached objs, each moved the cursor down by its request at most (`NotTooLow`, a
bound by the number of those processors), so the length read is above `-2 * NumProc`,
and `1 + length / NumProc`, rounded towards 0, is not negative. This covers one
processor with any fetch size and any number with a fetch size of 2, and not two
processors with the default of 100 (`gc.c:80`): with the sizes the runtime is shipped
with, the four theorems are no more than conditional, and `gc_para.c:74-77` is where
the condition should have been established.

**Scheduler** (`Jobs_proofs`; any finite set of processors, any table of threads,
any client programs). `StatusCounts` says what a status is the number of.
`JInv` says it in terms a step changes (`StatusIs`): the unfinished children, one
if a processor holds the thread, and one more while it is being unmapped, where
`OneProcessor` makes "a processor holds it" a matter of yes or no. It adds where a
thread is: in the queue, held by a processor (`Hands`), or created and on its way
into the queue (`ChildOK`). Whoever has unfinished children is in the queue and not
being freed (`ParentOK`), so a child's decrement never reaches a structure that has
been reused. `QueueOK` has the count of the queue exact, and the queue empty once
it was declared so, from which `EmptyIsFinal` follows; the action property
`YieldIsJoin` is a consequence of `StatusIs`.

**Copying** (`Copying_proofs`; any finite sets of processors and objects, any
initial graph, the three collectors). `LockInv` says who is at work on an object:
a STALL tag has exactly one copier, which has not published yet (`CopierOK`); a
forwarding pointer leads to a replica of its own primary (`NamesOK`, `StoreOK`);
a replica, and each segment of a long one, is scanned by one processor (`ScanOnce`),
and the stalled tags are those of arrays being scanned (`StallOK`); a replica that
waits to be scanned has its back pointer (`BackThere`); a release that has passed
the tests of the tags deals with an array that has been scanned, or is being scanned
(`WriteOK`). `OneReplicaHolds` follows. `UpToDateHolds` needs `CopyInv`: a field of
a replica is up to date, or a copier or scanner has still to reach it, or an entry
of a write list names it (`FieldsOK`, `CopiedOK`), and a value that has been read
and not stored yet is fresh or will be overwritten (`FreshOK`). A release that is
allowed to skip a field, because it finds the back pointer, leaves it to the scan
(`BackOK`). That is where the proof failed at first, and TLC showed why: an array
whose first field holds the array itself has a raw self pointer in that place for
one step, which a release takes for a back pointer. `MCCopyingSelf.cfg` is the
counterexample; the build may also drop that store, as the target of the pointer
is not volatile (`sparc.h:29`). So the theorem reads
`Spec /\ []NoSelf => []ReplicasUpToDate`: it holds of every behaviour in which no
array holds itself in its first field. The invariant `OneReplica` needs no such
hypothesis.

**Concurrent collectors** (`ConcCollectors_proofs`; any finite sets of processors and
threads, both collectors, one or two phases per type, any number of collections and
writes). In `Concurrent` a processor is a list of steps, and the tails of the lists
of different phase functions are alike: "strong" may be the last barrier of
CollectorOn or of CollectorOff. So what is known of a processor is not a function of
the state, and the invariant is `Inv == \E pl : Known(pl)`: there are places `pl`,
a function and a step of it for each processor, that agree with the lists (`Placed`)
and for which the rest holds. A step of a processor moves its place, and the proof
names the new one.

- `Together`: processors that are in a phase function are in the same one, the
  barriers each has arrived at differ by what it has still to pass, and who is beyond
  a strong barrier has seen all arrive. `Phase`: the status is the one that function
  announces, or the one it has set at its end. These two are what keeps processors
  from mixing phases, and `TypeCorrect` with them.
- `OneFirst`: of those beyond the weak barrier exactly one does the work of the
  first. `RootsKnown`: while stacks are completed the threads not yet handed out
  still have the old space, all others the new one; `RootsFlippedAlways` follows.
- `WorkKnown`: whoever holds work outside the stack will put it there before it joins
  CollectorOff, and as long as there is work in the stack there is such a processor;
  `NoWorkAtFlip` follows, since all have joined when the first strong barrier of
  CollectorOff is passed.
- `ReplicasKnown`: a nursery pointer in the copy that mutators do not see is about to
  be overwritten in this collection (`Due`: a back location or a held value), one in
  the copy they see will be in the next (`Deferred`: a log entry or a back location
  for the next collection). At the flip the two copies change roles, and so do the
  two lists; `MirrorSafe` follows. Its hypothesis is `~ SelfPointers`: a release that skips
  the write records neither, and `MCMirrorLost.cfg` shows what comes of it. The other
  three theorems hold of all programs.

**Data structures in the heap** (`Storage_proofs`). `Storage` runs one of six parts, and the steps of a part leave
the variables of the others alone, so the invariant of each part is one of
`Storage`.

- `AreasHold` (`AInv`): an area with room is in fromSpace. A processor that joins a
  collection gives its area back, and one that gets an area during its request
  reads fromSpace again.
- `HeapIsParsable`, `GrayIsConserved` (`CInv`): the blocks, the gray regions and
  the open slices of the ranges are apart; every word below the cursor is in a
  block or in the room of a range, until the range ends; a slice begins and ends
  at a block; and an object is scanned or waits in exactly one slice. One slow
  allocation passes through several states of the heap between two actions, so the
  invariant is an operator of a heap (`GoodHeap`), kept by each of the helpers.
- `LargeAreDisjoint`, `NextFitIsComplete` (`LInv`): arrays have their chunks for
  themselves, which are in the allocation bitmap, and during a collection in the
  mark bitmap exactly if the array has been reached. Without that the sweep would
  free chunks in use. The lengths that gc_large_alloc and gc_large_addRoot compute
  differ by a word but not in chunks. `LargeAreDisjoint` has the hypothesis
  `~ MutatorsRun`, as an array that is made while a major collection marks is in neither
  bitmap after it (`MCLargeLost.cfg`): it is a theorem about `gc_gen.c` and
  `gc_gen_para.c`, and `gc_gen_conc.c` does not have the property. `NextFitIsComplete`
  holds of all three. The search finds a row if there is one,
  from the position where it begins and again from 0.
- `SetsAreSequences` (`SInv`): the items between `first` and `last` are the
  sequence pushed, within the memory allocated.
- `ReplicasAreWhole`, `ReplicasAtFlip` (`KInv`): a stacklet that waits to be copied
  or is being copied is in a chain (`Promise`), one processor copies it, and no
  thread runs on it (`Doing`, `NoTwo`); what has been copied and not run on since is
  up to date, and by the end of the scans that is all of them (`Phases`). The
  hypothesis is `~ Raises`: an exception may free several stacklets at once, one of
  them while it is being copied, and the next thread to get it writes to it.
  `MCRaise.cfg` shows the violation.
- `HeapSizesHold` (`SizeHolds`, about `HeapPolicy` alone and so without a state): the
  size that `ComputeHeapSize` computes is enough for what is to be in the heap and
  within the largest heap, for every ratio, reserve, page size and number of
  processors, unless memory is out. The terms are products of variables, which the
  solver does not handle alone, so each conversion has a lemma that gives its value as
  a multiple and bounds it (`QuotientIs`, `UpIs`, `DownIs`, `ReserveIs`, `PagesAre`).
  The heart is `ExpandedIsEnough`: a size, expanded with the reserve and the requests in
  flight and then rounded, is met again when any larger size is reduced. So taking the
  least heap because the wanted one is smaller loses nothing of what was wanted.

*Assumptions.* Each module states the assumptions on its constants by name, and
TLC evaluates them in every run. Those a reader should know of: `NumStacklet` is at
least the number of threads (a thread starts with a stacklet); copies have at least
one word and pages an even number of words (`CopyRangesAssumption`); a set starts with
16 words or more (`SetsAssumption`); two mutators write to different fields of an array
they share (`CopyingAssumption`), as two unsynchronized writes of one field have no
order that the collector could preserve; shared sets are larger than all the work there
can be, and a location of a stack is listed once (`SemiParaAssumption`): a push that
overflows a set stops the program (`gc_para.c:54-58`), which is not modelled.

*Only model-checked.* Liveness, which the provers do not reach: `EveryTicketAdmitted`,
`EveryCollectionCompletes`, `CollectionEnds`, `ProcessorsStop`, `CopyingEnds`,
`CollectorTurnsOff`. `HeapHoldsLive`, whose sums over blocks are inductions over
data (of it, `SizeHolds` is proved, for every size). And the findings, of course, which are about what does not hold.

## Observations

Found while modelling, in code where no document, comment or assertion says
otherwise, or where the model stops short:

- `gc_gen_para.c:254`: an array request that is larger than the nursery and asks
  for a major collection is tried again for ever.
- `gc_large.c:22` asserts a size of 1024 bytes, `gc.c:644` only one of 512.
- `gc.c:239`: HeapAdjust asserts that no more was copied than was occupied.
  Arrays of doubles may need a word of padding in their new place that they did
  not need in the old one, so `CopiedWithinOccupied` of `Sequential` is false in
  some states; so is `CollectionSatisfies` (`gc_gen.c:185`) when an array is larger
  than the nursery.
- `gc.c:247` accepts a heap that has exactly the room requested, `gc.c:745` refuses
  it.
- Nothing marks a large array that is allocated while a major collection of
  `gc_gen_conc.c` is on, unless the collection comes across it, and its chunks are
  free afterwards while a program uses it (`MCLargeLost.cfg`).
- SetCopy tests `first` of the target where it means `last` (`queue.c:59-90`), and
  work_root_scan tests `ActiveCopied` twice (`stack.c:544`).
- `gc_gen_conc.c:871-876`: a request for room in the write list returns without
  joining a phase that is pending.
- A stacklet that is twice in the work lists may be scanned by two processors at
  once, with one callinfo stack.
- computeReserve keeps rate / (rate + 1) of the heap with one phase, which is more
  than with two (`gc.c:134`).
- addMaxWork relies on the wrap-around of signed integers (`sparc.h:1863`), and
  AllocFromHeap ignores the heap it is given (`gc.c:630`).

## Not modelled

- Timers and statistics; UpdateJob appears as the binding of thread and processor
  only, and the stop request of StopAllThreads against mapThread (`thread.c:277`,
  `thread.c:940`) is covered by fairness, not by a model.
- Thread pinning, the global roots of `global.c`, and hash tables, which only the
  paranoid checks use.
- `gc_gen_para.c` beyond its large arrays: it repeats `gc_semi_para.c` with a
  nursery and back objects.
- When a concurrent collection starts, and running out of memory while one is on:
  `Concurrent` lets a collection start at any time and always finds room.
- The walk over stack frames with the compiler's tables: a stacklet is its copy
  state and a bit.
- Overflow of shared sets: `Capacity` exceeds the work that exists; and the
  wrap-around of tickets after 2^31 entries.
- Weak memory: the code targets SPARC with total store order, and the models are
  sequentially consistent.
- Sequential and stateless parts (start-up, printing, system calls), the assembly
  entry points, and the compiler.

## Plan

Done: rooms, barriers, shared stack, the parallel and both concurrent collectors,
copying, stacklets, allocation areas, copy ranges, large objects, sets, heap sizes
and the sequential collectors, the scheduler; and proofs of every safety property the
runs check, under the hypotheses stated above, except `HeapHoldsLive` (of which the heap
sizes are proved), with the refinement of the rooms. Left, in this
order:

1. the stop request of StopAllThreads in `Jobs`, with allocation limits;
2. `gc_gen_para.c` on the shared stack, with the back sets that it carries from one
   collection to the next;
3. the master and slaves of the parallel build in `src/Top`.
