# Verification of the hierarchical prefetching project

TLA+ models, model-checking runs and machine-checked proofs for the programs of
this repository: a multithreaded server simulator, the two prefetchers linked
into it, and the tools that find the code bundles those prefetchers use.

Line numbers refer to the sources; `PROJECT.json` maps every definition to them.

## 1. Inventory

### How the parts work together

```
server_sim.c --clang--> server_sim.ll --callgraph_bundle--> bundles.json
                                                                |
binary --objdump--> labels -----------map_bundles_to_pcs--------+
                                                                v
                                                         bundles_pc.json
                                                                |  read once, at start
                                                                v
generator_fn x 4 --enqueue--> request queue --dequeue--> worker_fn x 4 --> db table
     |                                                      |                |
     +---------- bundles_prefetch_for_pc(entry label) ------+----------------+
```

`bundle_analyzer` (checkpoint 1, gcc) is an earlier, separate tool: it works on a
binary instead of LLVM IR and writes a bundles.json of its own.

| Component | Source | State | Operations | Hard parts |
|---|---|---|---|---|
| Request queue and its threads | `server_sim_prefetch.c` 16-39, 72-90, 210-272 | ring, `q_head`, `q_tail`, `qlock`, `qcond` | `enqueue_request`, `dequeue_request`, thread loops | interleaving; stolen, spurious and lost wakeups; full ring |
| Key-value table | `server_sim_prefetch.c` 42-43, 146-171, 275-288 | `db_table`, `db_lock`, the entries | `db_init`, `db_lookup_update` | read-modify-write under a lock with two exits; duplicate insertion; chain integrity |
| Request processing | `server_sim_prefetch.c` 56-69, 93-143, 174-249 | buffers of one worker | make, parse, compute, compress, log | copy loops and header limits, a loop that writes 8 bytes at a time |
| Prefetching server (improved) | `server_sim_prefetch.c` 274-324 and the prefetch calls | all of the above and the replay table | `main`: load, fill, create threads | a table read without a lock; a bundle file that is missing or fails half way |
| Bundle replay by pc (improved) | `checkpoint_2_improved/bundle_replay.c` | table, capacity, page size, load base; parser locals | `bundles_init`, `bundles_free`, `bundles_prefetch_for_pc` | key order; modular addresses; table growth; page and line rounding |
| Bundle replay by name (initial) | `checkpoint_2_initial/bundle_replay.c` | array of bundles | `load_bundles_json`, `bundle_prefetch_by_name` | pairing of keys; page cap |
| PC mapping script | `map_bundles_to_pcs.py` | `func_order`, `func_ranges`, the output | three loops | repeated names, aliases, ends of functions, key order |
| LLVM call-graph analyser | `callgraph_bundle.cpp` | sizes, instruction numbers, bundles | four loops | inclusive threshold, call sites counted, two output files |
| ELF bundle analyser | `bundle_analyzer.cpp` | symbols, call graph, memo table, bundles | read, build, search, select | recursion, memoisation, unstable sort, thresholds |
| Baseline servers | `server_sim.c`, `server.c` | as the first three rows | `main`, generators and workers without prefetching | clients that share a database key; requests lost or answered twice |
| Prefetching server (initial) | `checkpoint_2_initial/server_sim_prefetch.c` | as the baseline, and the array of bundles | as the improved one, by name | the same |
| Statistics scripts | `m5out_stats.py`, `m5_comparison.py` | a dict of counters | parse, divide, plot | last value wins, missing counters |
| Data and prose | `m5out*`, `server_sim.ll`, readmes, papers | - | - | - |

### What makes each component correct

* Queue: requests come out once each, in order, as some client made them; no
  worker reads an empty ring; no request waits while every worker sleeps.
* Table: every call takes effect exactly once, between its start and its return;
  no entry is lost, doubled or unreachable; every call returns.
* Replay: the bundle found for a pc is a bundle of the file and contains the pc;
  the hints cover that bundle and stay inside it; the array is never overrun.
* Request processing: the parser keeps what the text says, up to its limits; no
  request the server makes for itself is refused; no buffer is overrun.
* Server: a request is answered once, or wiped by an overrun, never forgotten;
  the value of an entry counts the updates of all clients that share it, every one;
  every thread gets its hints from one table, loaded to its end, or gets none.
* Mapping: an address belongs to the function whose label precedes it; entries
  keep their order, and their keys.
* Analysers: the files agree with the program and with each other; sizes do not
  depend on the order of the search; large code is part of some bundle.

`PROJECT.json` lists the hazards of the code under "hazards", each at its line
with the properties that would catch it.

## 2. Modules

Each component has a module with the program's variables under their own names,
one action per statement or loop iteration that matters, and an `MC...` module
with `.cfg` files that make it finite. A definition commented `Fault` is a
plausible bug; it takes the place of the definition it follows or precedes when a
property is tested for being able to fail, and is no part of any specification.

```
RequestFifo  <-implements- RequestQueue          Database -implements-> KeyValueStore
      ^                                                                      ^
      +------------------------------- Server -------------------------------+
                                          ^ extends
RequestProcessing (one worker)   PrefetchingServer -instance-> BundleReplay

CallGraphBundles <-extends- Toolchain -instance-> PcMapping      both extend Maps
BundleReplayByName (initial prefetcher)           BundleAnalyzer (checkpoint 1)
```

A module's theorems are in a module named after it with `Proofs` behind it (those about the three
tools, `CallGraphBundles`, `PcMapping` and `BundleAnalyzer`, in `ToolchainProofs`, those about
`PrefetchingServer` in `ServerProofs`); `DataTheorems` has the lemmas about data they share.

The detailed modules show that the ring and the hash table implement `RequestFifo` and
`KeyValueStore`; the compositions are built on those two, so that the state of the
whole server stays small.

### RequestQueue, RequestFifo

`RequestQueue` has one action per statement of `enqueue_request` and
`dequeue_request` (`EnqueueLock`, `EnqueueStore`, ..., `DequeueWait`,
`DequeueRelock`, ...), because mutexes and condition variables are exactly what
lies between statements. A request is its `client_id`; a slot nobody has written
is `NoRequest`. `pthread_cond_wait` is three things: the atomic unlock-and-sleep
(`DequeueWait`), the wakeup, by a signal to *some* sleeper (`EnqueueSignal`) or by
none (`SpuriousWakeup`), and the second acquisition of the mutex, for which the
worker competes with everyone (`DequeueRelock`). The loop of `generator_fn` is
`Generate`; the work of `worker_fn` on one request, which does not touch the
queue, is the single step `Serve`.

`RequestFifo` is the promise: a sequence with `Put`, `Take` and `Finish`, plus the
one thing the code adds to it: a `Put` that fills the ring empties it.
`FifoSpec` is the refinement, with the queue read off the ring between `q_head`
and `q_tail`.

### Database, KeyValueStore

`Database` models `db_init`, which main runs alone, and `db_lookup_update` for any
number of threads, one action per statement that reads or writes the table. The
entries are a sequence `heap` and a pointer is an index into it, 0 being NULL;
entries are never freed. A new entry is private until `LinkEntry`. `malloc`
succeeds (the code does not look at its result).

`KeyValueStore` is the promise: a map and calls that take effect at one instant.
`AtomicStore` is the refinement. A call takes effect where the code reads a value
it leaves (`ScanFound`), writes one back (`StoreValue`) or links an entry
(`LinkEntry`).

### RequestProcessing

What a worker does between two calls of `dequeue_request`, all of it on its own
buffers. The parser can tell apart the length of a text and the places of
its spaces, its CRs, those of them with an LF behind, and the header "X-Client", so that is what a text is; what is copied
out of it is a slice, a pair of positions. The two copy loops are `CopyWord`, each turn
of the header loop is `ParseHeader` (it goes on to the next CRLF, but stops at a line that begins with any CR), each word of `fake_compress` is `CompressWord`.
The response's length is what `snprintf` returns, which may be more than it wrote.
The hash of a word and the sums of `business_logic_sim` are left out.

### Server, PrefetchingServer

`Server` is `server_sim.c`: `DbInit` once per entry, `CreateThread` once per
`pthread_create` (of each pair the worker first), `Generate`, and a worker's `TakeRequest`, `ParseRequest`,
`Lookup`, `LookupActs`, `Respond`. The request that is taken has only its client:
`make_request_text` picks the path anew in the worker. The key is `client_id` XOR the
length of the path, and the decision to update is the parity of a floating-point sum
that depends on the loop count alone, so the loop counts that give an even one are
a constant. `MaxRequests` bounds how often a client asks. `lost` records what an overrun wiped, and `firstUpdates` whether
the request that created an entry asked for an update, which the code ignores (it writes 1 either way).

`PrefetchingServer` adds what `server_sim_prefetch.c` has more: main looks for
the bundle file, loads it with `BundleReplay`'s parser, goes on whatever became
of it (`BundlesInitReturns`, `BundleFileMissing`), and each function asks for its entry label. A call
only reads the table, and is one step with the first step of the function that makes it.
Its steps are those of `Server` with a lookup added, or leave the variables of `Server` alone; so it implements `Server` by
the way it is built, which says nothing of the code beyond that the hints are lookups.

### BundleReplay

The parser reads the file line by line; a line is a key of an entry and its
number, or `Unreadable` where there is no colon or `strtoull` fails. Addresses are
modulo `AddrSpace`. The array is its contents, `g_capacity`, and `allocated`, the number of entries it
really has room for (0 when `g_bundles` is NULL); the code keeps no such number. `StoreFails` is a
failing `realloc`, after which `bundles_init` frees the array and leaves
`g_capacity`, which is then stale. `PrefetchForPc` records in `last` what a call found and advised.
Loading and lookups never overlap, as in main (:297 before :311).

### BundleReplayByName

The initial prefetcher reads the file in one piece and finds its way with `strstr`. A file is the
sequence of its fields, each a key, a value, and whether the value is quoted: the loader looks for
a quote behind the colon, so a bare number reads as 0 (`Number`). It takes `start_pc` and
`end_pc` from the next places they occur behind the name, in this entry or a later one.

### BundleAnalyzer

One action per iteration of each loop of `bundle_analyzer.cpp`. The recursive
lambda of `compute_reachable` is an explicit stack; more than `MaxDepth` frames is
the end of the process. `std::sort` leaves equal addresses in any order. A binary
is its `.text` section, its symbols and its direct calls (`Binary`): what libelf and Capstone
report. `Fail` stands for every early return of `read_elf_symbols` and
`build_call_graph`. The names of its specification begin with `Analyzer`, because one
module proves things about it and about `Toolchain`.

### CallGraphBundles

One action per iteration of each loop of `callgraph_bundle.cpp`. A module is its
functions with the number of their instructions and the names their call sites
call, as LLVM reports them. `std::map` iterates by name. `callgraph` is the set of the
lines of callgraph.txt, each with its call site, so that two calls of one function are two
lines; their order is left out. `Maps` has the maps of both tools.

### PcMapping

One action per iteration of the script's loops. The disassembly is its label
lines; a Python dict is its keys in insertion order and their values, because the
C parser downstream depends on that order. The stable sort by address is given by the
place each label comes to (`Rank`).

### Toolchain

The two tools in sequence: `CallGraphBundles` runs to its end, its bundles are written with their keys
sorted (`Written`), and `PcMapping` is started on them and on the labels of a binary
(`HandOver`). The binary is built apart from the module, so its labels are an input of
their own: functions may be inlined, split, repeated or listed in any order.

## 3. Runs

All runs together finish in a few minutes; none needs more than about a minute and a half.

| Run | What it checks | Bounds |
|---|---|---|
| `queue` | types, no underrun, no lost wakeup, no unwritten slot served, the ring implements the FIFO, the head request is taken in the end | 2 generators, 2 workers, 3 slots |
| `queue_overrun` | **violated**: `enqueue_request` keeps what is queued | the same |
| `database` | types, chains whole, one entry per key, atomic map, every call returns | 3 threads, 2 keys, 2 buckets, 2 initial entries, values to 2 |
| `request_processing` | types and array bounds, the parser keeps what is written, made requests pass, compression covers its input | 18 made texts, and texts at and over each limit of the parser or with a bare CR; the buffer of `fake_compress` is 44 |
| `server` | types, entries count exactly the updates of all who share them, no request unaccounted for, one table for all threads, hints only from a table loaded to its end, every request answered | 2 clients, 2 workers, 2 requests each, 3 slots, a file of 3 entries |
| `replay_hints` | types, nothing is written behind what is allocated, the right bundle is found, its pages and lines are advised | all files of up to 3 of 6 entries, 64 addresses, pages of 8, first allocation 1 |
| `replay_sorted_keys` | **violated**: the same lookup with the toolchain's key order | the same |
| `replay_page_end` | **violated**: `end_page` lies after the bundle | bundles that end on the first byte of a page |
| `replay_by_name` | types and array bounds, a function's pages are advised | files of up to 3 entries in both orders, odd ones, 64 addresses, pages of 8, 2 bundles, 4 pages |
| `replay_by_name_sorted_keys` | **violated**: a call by name prefetches the bundle of that name in a file of the toolchain | the files in the toolchain's order |
| `analyzer` | types, sizes add up, only mutual recursion is fatal, heavy code is bundled, the analysis ends | 3 functions, every set of up to 4 calls, 3 thresholds, stack of 3 |
| `toolchain` | types, numbers tile the module, both files of the analyser agree, addresses fall to one function, entries keep their order and their keys, bundles get the range of one function, the files of the repository come out | 2 functions around the threshold with every pair of calls; up to 3 labels in any order; `server_sim.ll` with its binary |

Why these bounds are enough to meet the interesting cases:

* Three slots hold two requests, so a ring wraps, fills and overruns within a few
  steps. With two workers, one can be woken and the other steal its request, and both can
  sleep while two generators signal.
* The keys 3 and 7919 fall in one bucket of two; 7919 is loaded by `db_init`, 3 is
  created by whoever comes first. Three threads allow two missing the same
  key while a third updates. `MaxValue` only limits how often an update is asked for.
* The texts of `request_processing` have methods of 7, 8, 14 and 15 characters around the array of 8 (15
  needs a second copy to be cut), paths of 255 and 256 around the array of 256, headers of 63, 64 and 65,
  16 headers and more with the client's in the last place kept or behind it, texts cut
  off inside their last lines, and bare CRs at the beginning of a line, inside one, right in front of its CRLF,
  in the request line, and left over where a text is cut between a CR and its LF. A response is far shorter than the 1024 bytes of `compbuf`; with 44 the loop
  ends both ways, full or at the end of its input, and 44 is no multiple of 8.
* Clients 1 and 3 share both their entries, since 1 XOR 9 = 3 XOR 11 and 1 XOR 11 = 3 XOR 9; only
  two of the four pairs of a client and a path update. Two more requests than slots make the queue overrun.
  The bundle file can be missing, unreadable, too large for memory at any entry, or loaded.
* The first allocation of one entry makes the table grow, and fail to grow, twice in a
  file of three entries. 64 addresses with a load base of 24 make addresses
  wrap; the entries lie inside a page, across pages, at both ends of one, and are
  single addresses. `Lines` and `CacheLine` are 4 instead of 8 and 64, to keep the same
  relation to a page of 8 that matters: ranges shorter and longer than `Lines`.
* For the replay by name, an entry covers more pages than the cap of 4, a file has more functions than
  the array of 2, and names repeat.
* A stack of 3 frames just holds a chain of all 3 functions, so only recursion can exhaust
  it; that is what `OnlyMutualRecursionIsFatal` checks.
* `ServerSim` and `ServerSimLabels` in `MCToolchain` list the functions, sizes and calls of
  `server_sim.ll` and the labels of the binary `server_sim`; the run compares the results with all nine
  entries of `bundles.json` and of `bundles_pc.json` in `checkpoint_2_improved`: a check of the models against real output.

### Fairness

* `RequestQueue!Fairness`: a thread that can run does (weak fairness of its
  statements). Acquiring `qlock` needs strong fairness: another holder may come in
  between again and again, but each holds it for a few statements and then sleeps
  in `usleep` or waits, so the mutex is free infinitely often and default mutexes
  do not starve a waiter for ever under the scheduler's fair time slices. Spurious
  wakeups are never required, and neither is another request: were generators made
  to go on, an overrun would in the end excuse every request that nobody took.
* `Database!Fairness`: the same for `db_lock`. No thread has to make a call.
* `Server!FairSpec`, `PrefetchFairSpec`: main and each worker run on (weak fairness). What may block a
  worker is an empty queue, and the two mutexes, which are free again and again by `HeadIsTaken`
  and `CallReturns`. No client has to make a request.
* `BundleAnalyzer!AnalyzerFairSpec`: a single thread that runs on.

## 4. What the runs found

* **The queue has no full test** (`queue_overrun`, :74). The request that takes
  the last slot makes `q_tail` equal `q_head`: the ring counts as empty and all
  its requests are gone. Everything else said of the queue is therefore stated for
  a FIFO that may overrun, or up to an overrun.
* **The parser cannot read the toolchain's files** (`replay_sorted_keys`,
  bundle_replay.c:80). The JSON library writes `end_pc` before `start_pc`, the
  mapping script keeps that order (`BundlesBecomeRanges`), and the parser wants the
  opposite one. It pairs the start of an entry with the end of the next one. With
  start first it is right (`replay_hints`).
* **end_page is not after the bundle** when the inclusive `end_pc` is the first byte
  of a page (`replay_page_end`); `AdvisesTheBundle` shows that this page is the only
  one missed, except in the last page of the address space, where the sum wraps.
* **The first loader cannot read them either** (`replay_by_name_sorted_keys`, checkpoint_2_initial/bundle_replay.c:86).
  bundle_replay.h:13 promises the bundle "identified by function name", but the loader looks for both addresses behind the
  name, and the toolchain writes `end_pc` in front of it: every function gets the end of the entry after it, and the last
  one the end 0, so that it is never prefetched (`EndsAreShifted` proves this of every such file). With each function
  in front of its addresses, and each address there once, it is right (`AdvisesThePagesOfTheFunction`).

Two more things the passing runs state as they are:

* The line prefetch leaves a bundle of fewer addresses than lines: its step falls back to 64 (bundle_replay.c:147), although
  the comment at :142 says "inside the range". `LinesInBundle` is therefore about longer bundles. A prefetch beyond a
  bundle has no effect the program could observe.
* The repository's `bundles_pc.json` gives `fake_compress` 32 bytes (`AgreesWithRepository`): the compiler moved its loop to
  `fake_compress.part.0`, a label the script has no bundle for. No document says otherwise.

## 5. Proofs

Checked by TLAPS for every value of the constants that satisfies the named
assumptions of the modules, which TLC evaluates in the runs. What they ask for:

* `QueueAssumption`, `ServerAssumption`: the sets of threads, clients and paths are finite, because the
  proofs count. `KeysAssumption`: no request shares an entry with `db_init`; clients are 1 to 4, paths have 6, 9 or
  11 characters, so a key is neither 0 nor 7919 or more. `HintAssumption`: the first allocation has room for an entry.
* `DatabaseAssumption`, `ReplayAssumption`, `ByNameAssumption`: sizes are positive, marks such as
  `Unreadable` are no numbers, a file has addresses or marks where it has values.
* `CallGraphAssumption`, `ModulesAssumption`, `ToolchainAssumption`: modules and labels have the form LLVM
  and objdump give them; the functions of a module have different names.
* `ProcessingAssumption`, `MadeAssumption`: the place behind the CR of a CRLF is no CR; a text counts as made
  by the server (`IsMade`) when its words fit the arrays and leave room for the response, and no CR is bare.

### The request queue: `RequestQueueProofs` (any ring size, any sets of threads)

* `TypeCorrect`; `QueueInvariant`, the inductive invariant `QueueInv`. The refinement and
  `NoUnderrun` are not inductive: that the head is still where a worker saw it needs
  the exclusion of critical sections (`LockInv`); that a served request is real
  needs every slot between head and tail to hold one, and that in turn needs the
  stored but not yet announced request to be still in its slot at `EnqueueAdvance`.
* `NeverUnderruns`, `ServesRealRequests` from it. The second excludes slots nobody has written; that no worker
  serves an old request is the first and `ImplementsFifo`.
* `NoLostWakeup`: an argument by counting. While a worker sleeps, the backlog is at most the number
  of workers on their way plus generators about to signal: `EnqueueAdvance` raises
  both sides by one (or empties the ring), a signal turns a signaller into a
  woken worker, a worker goes to sleep only on an empty ring, and one leaves the
  count only by taking a request.
* `ImplementsFifo`: `EnqueueAdvance` maps to `Put`, `DequeueAdvance` to `Take`,
  `Serve` to `Finish`, every other statement to a stutter.

### The table: `DatabaseProofs` (any threads, keys, buckets, initial entries)

* `TableInvariant`: `TypeOK` and `DbInv` together. Types alone are not inductive
  here: that `StoreValue` does not write through NULL is part of `WalkInv`. `DbInv` says who
  holds the mutex, that `db_init` runs alone with ever larger keys (hence fresh
  ones), that chains list their bucket newest first, and what a walk knows: no
  node newer than `e` has the key; past the end, none has. Steps of
  other threads cannot disturb a walk because only the holder of the mutex changes
  the table (`WalkOther`).
* `TypeCorrect`, `ChainsAreWhole`, `NoDuplicateKey` follow. `NoDuplicateKey` is the reason the
  second read of `db_table[idx]` in `FillEntry` is still the head when `LinkEntry` writes.
* `ImplementsStore`: with one node per key, what a walk finds is the value of the
  map (`ValueOfNode`), so reads, writes and links are `Hit` and `Miss` of the map.

### The servers: `ServerProofs` (any threads, clients, paths and keys, any bundle file)

* `TypeCorrect`; it needs to know what a call in progress looks like (`CallInv`: its client and path are
  there, and it asks for their key with their decision).
* `RequestsAccounted`: what a client has asked is in the queue, in a worker's hands, in the log or lost,
  and the four counts add up (`AccountInv`). A `Put` that overruns moves the whole queue to what is
  lost; `OccursAppend`, `OccursTail` and `SumIncrement` say what a step does to a count or a sum.
* `ValuesCount`: the value of a shared entry is the sum of its updating requests that have acted, and one
  more exactly if the first was no update (`firstUpdates`). Inductive only with what holds before the threads start
  (`ValuesInv`: entries of `db_init` have their first values, others are absent, nobody has asked), and with the
  fact that one step changes one entry and one count.
* `OneTableForAllThreads`: as long as main has not come to `Loaded`, nobody has entered a function; from then on
  no step changes the table. Hence the invariant that every answer given so far is the answer
  `FindBundle` gives now.
* `HintsOfALoadedTable`: while the file is read nobody has entered a function, and a load that does not come to its
  end leaves no bundle to be found, so an answer with a bundle is one of a whole table. The bundles lie in what is
  allocated by the same argument as for `TableNeverOverflows`, which is made again here because main calls the loader's
  steps one by one.

### Replay by pc: `BundleReplayProofs` (any files, key order, page size and address space)

* `TypeCorrect`: that a number read is an address needs that the line read lies inside the file, a fact
  about division (`LineOfEntry`); that a call's bundle is in the table needs that the call is
  forgotten when the table is filled again (`TypeInv`).
* `TableNeverOverflows`: as long as a file is read, `g_capacity` is what is allocated (`TableInv`); after a failed growth it
  is not, and it is again only because the next `bundles_init` resets it. Doubling a capacity of at least one makes room for one more.
* `AnswersComeFromTheTable`: the invariant `AnswerInv` behind the next two. What a call advised is what
  the table would have it advise, and the pages of every bundle stored are those of its addresses.
* `BundleIsAdvised`, `LinesAreInBundle`: the page loop and the line loop, by division with remainder
  (`Quotient`, `Division`, `TimesLess`: the page size is a parameter, so products of it are not linear).
* `BundleOfPcIsPrefetched`: the parser stores exactly the readable entries. Its invariant follows the parser
  line by line through an entry. The theorem is about files that name start before end and whose
  starts can be read. Both hypotheses are needed: with the keys the other way round the property is
  the finding of `replay_sorted_keys`; and behind an end that cannot be read the start before it stays pending, so
  that, if the next start cannot be read either, it is paired with the next entry's end.

### Replay by name: `BundleReplayByNameProofs` (any files, page size and limits)

* `TypeCorrect`: the array holds at most `MAX_BUNDLES` bundles, and what is looked up is one of them.
* `EndsAreShifted`, the reason for the finding of `replay_by_name_sorted_keys`, and `FunctionsPagesAreAdvised` (`AdvisesThePagesOfTheFunction`): by
  `LoadInv`, the nth bundle is that of the nth function in front of the parser's place, and when loading has ended a
  function is in the array exactly if fewer than `MAX_BUNDLES` are in front of it. What `strstr`
  finds from there on is then compared with what the entry gives (`EntryGives`, `EndIsShifted`), and the
  pages with the pages of its addresses (`PagesBetween`, `RowSize`).

### Request processing: `RequestProcessingProofs` (any texts and array sizes)

* `TypeCorrect`: `TypeOK` is not inductive. The length of the response is a number only because a path has
  no negative length, and that holds because the parser comes to the path at most one place behind the text (`TypeInv`).
* `CompressesTheInput`: the place in the input is eight times the number of words written (`CompressInv`),
  so byte b is in word (b - 1) div 8 + 1 (`PieceOfByte`).
* `KeepsWhatIsWritten`, `MadeRequestsAreServed` from `ParsedInv`: in each loop, what has been copied is
  what the text has up to the parser's place, and that place is the end of a word or of a line
  (`WordsInv`, `LinesInv`); the response is measured from the words kept (`ResponseInv`).

### The toolchain: `ToolchainProofs` (any module, any labels)

* `AnalyserCorrect`: the analyser alone. `NumbersTileTheModule` is part of its invariant; the two files
  agree because both follow from how far the loops are (`SizesInv`, `LinesInv`, `NumbersInv`, `BundlesInv`).
  That the size of a bundle is the sum over the lines of callgraph.txt uses `SumRenamed`: a sum does not
  depend on the names of what it is over.
* `ToolchainTypeCorrect`, `NumbersTile`, `FilesAgree`, `OneFunctionPerAddress`, `KnownBundlesAreMapped`,
  `RangesReachTheLoader`: the script behind the analyser, with the invariant `ToolchainInv`. Sorted labels are a
  permutation of the labels (`OrderInv`), a range ends where the next label begins (`RangesInv`),
  and the nth known bundle is at place n of the output (`OutInv`).

### The ELF analyser: `ToolchainProofs` (any binaries, thresholds and depth of the stack)

Assumed is only that addresses, sizes and thresholds are natural numbers, that `Unknown` is none of them, and
that the stack holds at least one frame (`AnalyzerAssumption`). Mutual recursion is not excluded.

* `AnalyzerTypeCorrect`: `AnalyzerTypeOK` becomes inductive with the stage each variable is set at (`StageInv`) and
  the shape of the stack (`ChainInv`): each frame but the top one waits for the callee whose frame is above it.
* `SizesAddUp` (`ReachableAddsUp`) from `SearchInv`. A frame's total is its function's size and the sizes of
  the callees it has done, all of them noted, while its own function is not (`StackInv`). The step that matters is
  `DfsReturn`, which changes a size that other frames and functions may have counted. It does
  not, by `ReturnsOnce`: if the function that returns were on the stack a second time, the lower frame would
  wait for one of its callees, which has no size, but the upper frame has added up them all. So a size is noted
  once, by a function that was `Unknown`, and nobody adds up an `Unknown`.
* `OnlyRecursionKills` (`OnlyMutualRecursionIsFatal`). One direction: when the search ends every function has
  a size (`ProgressInv`), sizes are positive, so a caller's is greater than its callees' (`CalleeSmaller`) and all that a
  function reaches is smaller than it (`VisitedSmaller`); two functions cannot each be smaller than the other. The
  other: an overflow leaves a chain of calls through more frames than there are functions (`OverflowInv`); by the
  pigeonhole principle a function is in it twice, and as no edge is a loop (`EdgesInv`) another is in between.
* `HeavyBundled` (`HeavyCodeIsBundled`): of the functions that reach f, take one of greatest size. A caller of it
  would reach f too and be greater, so it has none (`RootAbove`); its size is at least f's, so the
  inclusive test makes it an entry, and its bundle has all it reaches (`SelectInv`).

### `DataTheorems`

What the community modules' `Min`, `Max` and `SumFunctionOnSet` compute, how often a value occurs in a
function or a sequence, and division. Induction over data is induction on a set of numbers
(`SetInduction`, from the well-foundedness of `<`), the sizes for which all data have the fact. So
`AddsToSmall` and `AddsUnique` show that the recursive function behind a sum exists and is unique.

### What the proofs changed in the models

Some properties failed outside the bounds of the runs, and are now stated as they are meant:
`Complete` allowed an entry to have a key twice; and nothing said that two CRLFs of a text do not overlap, without
which `ParsedAsWritten` fails. `OnlyMutualRecursionIsFatal` said of every stack that only recursion overflows it,
which a chain of `MaxDepth` + 1 calls refutes; it is now about a stack with room for every function, and the run has the
smallest such stack. Nothing said what a `Binary` is. callgraph.txt became a set of lines and the sort a rank, because the folds they
were written with could not be reasoned about.

### Only model-checked

* Liveness (`HeadIsTaken`, `CallReturns`, `EveryRequestIsAnswered`, `AnalysisEnds`), which is outside the prover's reach.
* `AgreesWithRepository`, which is about one module and one binary, and the runs that expect a violation.

## 6. Not modelled

* The statistics scripts: regular expressions over `stats.txt`, divisions and plots, with no state from one step
  to the next. What could be wrong in them is layout and wording, which the models leave out everywhere else.
* `checkpoint_2_initial/server_sim_prefetch.c` as a composition: its server is `Server`, its prefetcher
  `BundleReplayByName`, and its main loads before it creates threads, as in `PrefetchingServer`.
* `malloc` returning NULL, `fopen` races, failing `pthread_create`: the code does not
  look, and what follows is a crash.
* What libelf, Capstone, LLVM, objdump and the JSON libraries compute: inputs of
  the models, in the shapes the code relies on.
* Integer overflow of values and of reachable sizes: the models use naturals;
  both need numbers of steps out of any model checker's reach.
* Names longer than `MAX_NAME` and numbers longer than 63 characters in the first loader: no writer of the
  toolchain produces them.
* Whether a prefetch is fast or useful: gem5's subject.

## 7. Order of the work, and what could follow

Written in this order: the concurrent core (`RequestQueue`, `Database`) with abstract specifications and proofs; the
prefetcher (`BundleReplay`) and the three tools; the rest of the server (`RequestProcessing`, `Server`,
`PrefetchingServer`), the first prefetcher, the composition of the tools; and the proofs about these, down to the
parsers, the sums and the recursion of the ELF analyser. Every safety property the runs check is a theorem, but for
`AgreesWithRepository`. What is left:

1. A composition from `Toolchain` through the loader to a lookup in the running server, once a loader
   reads the order of keys the toolchain writes.
2. Sizes of 64 bits in `BundleAnalyzer`: `SizesAddUp` is about numbers without a bound, and the sums of the
   program agree with them below 2^64.
