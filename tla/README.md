# A TLA+ model of the DRAM Bender host software

This directory models the software of this repository: the C++ API that builds programs for
the FPGA (`src/api/program`), encodes their instructions, sends them to the board and reads
back what the DRAM returned (`src/api/platform`, `src/api/board`); the generators that write the
programs of the experiments (`src/programs`); the Python scripts that run characterization
campaigns with them (`python`); and the binding library between the two, which is part of the
repository (`ext/nanobind`). The modules are checked with TLC on small instances and, where
section 5 says so, proved with TLAPS for all values of the constants. Paths are relative to the
repository's root directory, and `nanobind/` stands for `ext/nanobind/`.

## 1. The system

| Part | Source | State | Operations | Hard about it |
|---|---|---|---|---|
| Platform | `src/api/platform/platform.cpp`, `platform.h` | send buffer, receiver thread, ring buffer | `execute` (one program, a queue), `receiveData`, `readRegisterDump`, `close`, `resetFPGA`, `setAREF`, destructor | two threads and the card; blocking in both directions; end of data known by a short transfer |
| Board, XDMA | `src/api/board/xdma.cpp`, `board.h` | two file descriptors, two buffers | `init`, `sendData`, `recvData` | partial and failed I/O |
| Instructions | `src/api/program/instruction.cpp`, `.h` | none | `SMC_*`, classifiers, `decode_*` | C integer conversions, overlapping fields |
| Program | `src/api/program/program.cpp`, `.h` | words, labels, branches, warnings, pending commands, `spc` | `add_*`, `pack_minprogram`, `dump_registers`, `add_below`, `conclude`, `get_inst_array`, `save_*` | positions that must survive insertion; passes that are run twice |
| Debugger | `Program::debug` | Vivado child, two FIFOs, a timing file | command loop | child failure, FIFO open order |
| Generators | `src/programs/*.cpp` | none | fourteen programs: write, read, activate, refresh, hammer, clone, two experiments | loops that test at their end, registers left by other programs, sleeps as sums of cycles |
| Bindings | `python-bindings/pyDRAMBender.cpp` | none | `get_bitflips`, and one call for one call | receives what it expects, not what was read |
| Row mapping | `python/utils/row.py` | none | `type1`, `type2`, patterns | neighbours across blocks |
| Campaigns | `python/run.sh`, `python/di_*.py` | results, files | five scripts | files and arguments handed on, failures at any step, values of earlier rounds |
| Reference counters | `nanobind/include/nanobind/intrusive` | one word | `inc_ref`, `dec_ref`, `set_self_py` | compare-and-swap, hand-over to Python |
| Instances | `nanobind/src/nb_type.cpp`, `stl/unique_ptr.h`, `stl/shared_ptr.h` | table of instances, state of each, `keep_alive` | return value policies, taking and giving back ownership, deallocation | who deletes; several instances at an address; calls back from destructors |
| Types | `nanobind/src/nb_type.cpp`, `nb_enum.cpp`, `nb_internals.cpp` | two tables, type data | registration, lookup, deallocation, shutdown | two importing threads, copies of a `type_info` |
| Functions | `nanobind/src/nb_func.cpp` | chains of overloads | definition, dispatch, implicit conversion | two passes, two paths, functions that lose their overloads |
| Arrays | `nanobind/src/nb_ndarray.cpp` | handles, tensors, capsules | import, export, copy, wrap | who frees, which strides are in order |
| Hash table | `nanobind/ext/robin_map` | buckets with distances | insert, erase, find, rehash | displacement and shifting across the end |
| Bound containers | `stl/bind_vector.h`, `bind_map.h`, `make_iterator.h` | a container, its views, iterators | methods of list and dict | slices, iterators that became invalid |
| Casters | `stl/detail/nb_*.h`, `pair.h`, `tuple.h`, `nb_cast.h`, `common.cpp` | one conversion | `from_python` | temporaries, Python code in the middle |
| Exceptions | `nanobind/src/error.cpp`, `nb_error.h`, `nb_func.cpp` | error indicator, `python_error`s, translators | fetch, restore, copy, raise, translate | references, errors during errors |
| Numbers, enumerations | `nanobind/src/common.cpp`, `nb_enum.cpp` | two maps per enumeration | conversions both ways | widths, signs, aliases |
| Trampolines | `nanobind/src/trampoline.cpp` | cache per object, tickets, the interpreter's lock | virtual calls | two threads in one cache, calls to the base |

How they interact. A generator builds a `Program` and concludes it. `execute` copies its words,
one per 32-byte beat, into the send buffer, joins the receiver thread of the previous program,
starts a new one and writes the buffer to the card. The receiver reads chunks of 1024 beats
from the card and pushes their words into a lock-free single-producer single-consumer queue; a
chunk that comes back short ends with one beat that is not data, and ends the thread.
`receiveData` pops the queue until it has all the caller asked for. Both sides poll. `setAREF`
and `resetFPGA` use the same send buffer for one-beat commands. A script of the campaign calls
`execute` with three programs (write, disturb, read) and then `get_bitflips`, which receives the
rows by `receiveData` and returns the bits that differ as an array that Python owns. Every one of
these calls passes nanobind: the dispatch of the call, the casters of its arguments, the
instance behind `self`, and the translation of what is thrown.

What makes each part correct:

* Platform: readback data arrives in order, complete, without the end markers; programs do not
  overlap on the card; every call comes back if the host keeps to a rule (section 4).
* Instructions: what is encoded is what the hardware and the decoder read.
* Program: the passes keep every word, resolve every branch, and announce exactly the reads.
* Generators: every access finds its row open, activations are those asked for, for the time
  asked for, and what is read is what the caller receives.
* Campaigns: the rows measured are the physical neighbours of the victim, the result stored is
  that of the row, the pattern and the count that was measured, and no part of a file passes for
  the whole.
* nanobind: every object is deleted once, by its last user; every reference is counted; a call
  reaches the overload, the override or the translator that the rules name; conversions keep
  values or refuse them.

## 2. Modules

| Module | Models |
|---|---|
| `Readback` | abstract: what the platform promises about readback |
| `Platform`, `PlatformInv` | `IPlatform`, its receiver thread, `XDMA::sendData/recvData`; the card is external. Its inductive invariants |
| `Instruction` | encoders, classifiers, decoders |
| `Builder` | class `Program` as operators from records to records |
| `Program` | a client that calls the builder, the passes and the savers in any order |
| `Generators` | the programs of `src/programs`, built by `Builder` |
| `Machine` | sessions of generated programs on the core and the DRAM (external), and `get_bitflips` |
| `RowMapping` | `row.py` |
| `Campaign` | `run.sh` and the five scripts |
| `Counter`, `Instances`, `Lowlevel`, `Types`, `Calls`, `Ndarray`, `RobinHash`, `Containers`, `Casters`, `Errors`, `Conversions`, `Trampoline` | the parts of nanobind, one each |
| `PlatformProofs`, `InstructionProofs`, `ProgramProofs`, `CampaignProofs`, `OwnershipProofs`, `ClassesProofs` | theorems |
| `NaturalFacts`, `BitFacts` | lemmas: least numbers and induction, stated with sets, and sizes of sets; bits of numbers and fields of words |
| `MCPlatform`, `MCInstruction`, `MCProgram`, `MCMachine`, `MCCampaign`, `MCClasses`, `MCNanobind` | instances for TLC |

`Builder` extends `Instruction`, `Generators` extends `Builder`, `Machine` extends `Generators`: a
generated program is assembled by the operators that `Program` checks, and the words that come
out are decoded as `Instruction` says before they are executed. `Platform` is refined to
`Readback` (`INSTANCE ... WITH`). `Campaign` extends `RowMapping`. `MCProgram`
extends `Program` and `MCInstruction`, `MCClasses` extends
`Trampoline`, `Lowlevel` and `Types`, and `MCNanobind` extends `Counter`, `Instances` and `Ndarray`, whose
constants have assumptions that TLC so evaluates; it instantiates the models of nanobind's other parts.

Operators that a comment calls a *mutant* are faulty variants of the definition that follows
them. They are not part of the specifications; substituting one for the definition makes the
property it is paired with in `PROJECT.json` fail, which is how we know the property can.

### Platform

One behaviour is one script of API calls, chosen in `Init`. `pc` says where the host thread is
inside a call, `receiver` where the receiver thread is. The granularity is that of the visible
effects: `execute` is `Execute` (assertions, copy into the send buffer), `JoinAndSpawn` (join,
new thread) and `Send` (write, partial `memset`); `receiveData` is `ReceiveData`, any number of
`Pop`, `ReceiveReturns`; the thread is `Recv`, any number of `Push`, `ChunkDone`. A push or pop
moves any non-empty part of what is possible, because the lock-free queue compares with an
index that may be out of date. `execute(queue)` is consecutive `execute` calls.

The card is modelled from how the code uses it: a beat whose control lane is zero belongs to a
program; the data of a DRAM read is two beats; after the last read of a program comes one more
beat; `read()` returns a full chunk, or less when it meets the end of a packet; the FIFO holds
one chunk and reads stall when it is full. Words are numbered as they are produced, 0 stands
for the words of a marker. A program is represented by its number of instructions and of reads.

What the asserts do: the build has no `NDEBUG`, so a failing one ends the process
(`pc = "abort"`). Destroying the platform with a joinable thread is `std::terminate`.

### Instruction, Builder and Program

A word is the set of positions of its 1 bits: bitwise or is union, masks are intersections and
shifts move the set. The conversions of C are kept: an `int` is sign-extended when it becomes a
64-bit `Inst`, an unsigned immediate is cut at 32 bits after its shift and not at the width of
its field, a `Mininst` keeps 16 bits.

The object is one record, `this`, with the private members as fields; each method is an operator
from records to records, and `conclude` and `get_inst_array` are the composition of the three
passes. `linear_analysis` is a function of the words scanned so far and `insert_generated` one of the
keys of `warnings` gone through, in ascending order; `warnings` is never cleared. Targets of branches
are compared as the bits of their field (`TargetOf`). A client adds no INFO words, branches only
with an empty target, and programs that keep to the same (`Built`). The cap of 1024 announced reads is the constant
`MaxInfoReads`. History variables (`source`, `marks`, `dumps`, `stage`) record what the client
asked for, independently of `spc`. A failed assertion or `exit` ends the behaviour (`ended`).
`Program(fname)` starts from a program left by `smc_parser`, with `dumpRegsCalled` either value,
because the constructor does not initialize it.

### Generators and Machine

Each generator is the sequence of its builder calls, loops, labels and conditional sleeps
included. A cache line is `CacheLines`-th part of a row and a pattern has `WideWords` words, where
the hardware has 128 and 16. `Machine` executes the concluded words: registers, memory, wide data
register, branches that take six cycles, four command slots in a cycle, the open row of each
bank, and time in slots since the bank was last opened or closed. Registers start with whatever
an earlier program left (`Junk`), and a bank may have a row open. Between two programs a bit of a
row may flip (`MaxFlips`). `get_bitflips` receives as many rows as it was given patterns, and
gives the places that differ. Broken rules of the DRAM (activation of an open bank, access to a
closed row, a read that no INFO announced) are collected in `faults`.

### Campaign

One behaviour is one run of `run.sh`. A script imports its packages, parses its arguments, connects,
reads its input files, goes through the cases of its loops in their order, one action for each
round (write, disturb, read, compare, record), and ends in three steps: it writes its results
(`WriteCsv`), dumps the masks of the flips (`DumpFlips`) and closes the board (`Close`). It may stop at any
step, and in the middle of a write: `to_csv` empties the file first, and what is left of it is no
header, or some rows of which the last may be cut (`TornFiles`). `di_rd_ber.py` ends at its imports: one is
commented out and the package of the other is not in the repository (`ImportsMissing`), so the model
has no rounds of it. `../data` may hold the files of an earlier campaign, as the repository's does
(`Data`); a file's `kind` tells one from those that this campaign wrote.

The chip is external: it gives, for a script, victim, pattern and hammer, the number of flips after
so many activations since the victim was written. That number may grow with the count or not, so
that a pattern may flip at one count and not at the next, as real chips do. It also says how many
bits a row loses in a wait. `di_retention.py` takes its numbers of rows for addresses, while the other
scripts compute addresses from the rows' places (`map_row`); `di_ds_sweep.py` compares its physical victims
with those addresses, as `AntiRows` does. What a script computes (the least count, the flips, the list
of anti-cell rows) is compared with what the chip shows by itself, over the physical rows.

### nanobind

`Counter` has the word of an intrusive counter, with a count in its upper bits or a Python
object's address, and threads inside the loops of `inc_ref` and `dec_ref`: the load and the
exchange are two steps, and the exchange may fail. `set_self_py` loads and stores without an
exchange; a count that changes between the two is recorded (`raced`).

`Instances` has two instances and two addresses, of an object and of its first field, so that
one address has several instances. C++ may own an object by a pointer or by shares; the policies
of `nb_type_put`, `nb_type_relinquish_ownership`, `nb_type_put_unique`, the destructors of smart
pointers, `keep_alive` and `inst_dealloc` are actions, and a deallocation is a stack of frames, in
whose
middle Python code may make or look up instances (`Reenter`). A failed check of the code
ends the behaviour (`"aborted"`), and so does an object that an older instance of the same
address hides (`"shadowed"`), where the code gives the object to nobody, and one that
`rv_policy::none` gives a second owner (`"doubled"`).

`Lowlevel` is the interface `nb_inst_*` for C++ code that handles instances itself: allocation,
construction in place, copies, moves, replacement, `nb_inst_set_state` and the passing on of
ownership, called in every order that `docs/lowlevel.rst` allows. The functions check little;
the guards are what the documentation asks of callers, and the state keeps which side has to
destroy the object and to free its memory.

`Types` has modules imported by several threads, in the steps between which Python code, and so
another thread, may run: `init` looks for the internals, makes them and stores them (`LoadLook`,
`LoadSet`); `nb_type_new` claims the entry of a type, makes the type object, and fills the tables; and
where the entry is there already it warns and then returns what the entry has (`Again`, `Return`). Two
modules may so make internals of their own (`raced`). The tables are those of one of the internals:
the slow one is keyed by internals and type. There are also libraries with their own copies of each `type_info`,
classes derived in Python, deallocation and shutdown. A behaviour ends where the code reads a null entry
or uses a stale iterator.

`Calls` defines functions by overloads, extends, aliases and deletes them, and makes one
call, computed by the two dispatch paths as functions of the arguments; conversions that call
converting constructors nest up to `MaxDepth`. `Ndarray` counts the users of handles, tensors,
capsules and owners; an import is compared with its request by the code's rule for strides.
`RobinHash` is the table bucket by bucket. `Containers` has one vector or map, one view and one
iterator; a method's outcome is compared with that of a Python list. `Casters` is one conversion
of one source. `Errors` has exceptions with references, the error indicator, slots with
`python_error` objects, and the list of translators. `Conversions` loads numbers at the limits of
small widths. `Trampoline` has virtual calls of two threads under the interpreter's lock. A slot of the
cache is two words: the sweep without the lock reads the name and then the value (`SweepName`,
`SweepValue`), and a lookup writes the one and then the other (`StoreName`, `StoreValue`), so that a sweep may
see the name of one function with the value of another.

## 3. Runs

| Run | Instance | Shows |
|---|---|---|
| `platform` | all scripts of 1 to 3 calls out of 14, also followed by the destructor; orderly scripts of up to 4 calls out of 9, and three longer ones shaped like the Python experiments; one-word beats, two beats per read, chunks of 4 beats, a ring of 5 words | types, `HostFits` (which implies `IInv`), idle card at each send, the card got what was called, only fitting scripts finish, `Readback` is implemented; under fairness, orderly hosts get every call back |
| `platform_faults` | three scripts, beats of two words, failing write, failing read, read of 0 at any time | order and conservation survive faults |
| `platform_queue` | one queue that overfills the ring | **violated**: `execute` does not come back |
| `program` | three parts. Encoders: registers 0, 1, 10, 15; extreme immediates, targets (0 to 2^19 - 1), waits (3 to 2^30 - 1); every DDR command in each slot. Calls: 4 of every kind, `dump_registers` too, one label, commands pending, a loaded and an appended loop. Loops: 5 calls out of two labels, branches, reads, an appended loop | decoding gives back the call; classifiers agree with the decoder, `is_sleep` excepted; bookkeeping while building; passes keep the words; only a program that was changed after its passes fails their assertion; branches resolve, INFO is accurate |
| `program_save` | the same | **violated**: `save_bin` leaves out the last words of a concluded program |
| `generators` | every generator, lists of 0 to 3 rows, ranges, counts 0 to 3, on and off times; three rows of two lines | no access breaks the DRAM's rules; rows are activated as asked, for the time asked; each flip is reported at its place; nothing is left unread |
| `generators_ontime` | double-sided hammers with different on-times | **violated**: each aggressor is open for the other one's time |
| `campaign` | two victims at the border of a block; two chips, one of each mapping, with flips that come, go and never come, and losses of 0, 3, 4 and 9 to 12 bits; with and without earlier files; all failures; any argument | rows reached, least counts, flips, sweeps and anti-cell rows are those of the chip; files are whole, old or accounted for; the campaign ends |
| `campaign_files` | `run.sh` and the files as they are | **violated**: not all experiments are run |
| `nanobind_none` | the instances of `nanobind` | **violated**: `rv_policy::none` makes a second owner |
| `classes`, `nanobind` | the parts of nanobind, chosen by the initial state | the properties listed below |

The last two check one property for each part, the conjunction of those that its module states.
The run `classes`:

* `OverridesCalled`, trampolines: `LockBalanced`, `CallsArrive`. Two objects, two functions, two
  slots, two threads, calls nested to a depth of two, lookups that may fail.
* `DestroyedOnce`, the low-level interface. Three instances: two that are copied or moved from
  each other, and one that is not.
* `TypesRegistered`, types: `TablesAgree`, `RegisteredOnce`, `InternalsShared`, `ListsOwned`, `Provides`,
  `FreedWhenUnused`. A class, one derived from it, an enumeration; two libraries, two importing
  threads, three type objects.

Threads, importing threads and libraries are told apart by nothing but their names, no operator chooses
among them, and the properties quantify over all of them: hence the run's symmetry (`Alike`).

The run `nanobind`:

* `Counted`, counters: `Exact` (the count is the number of references), `DeletedInTime` (the last
  release deletes, no earlier one). Three threads, three references.
* `CallsDispatched`, calls: `ArgumentsConserved`, `StrictFirst` (no overload that converts takes a
  call from one that fits), `PathsAgree`, `ConversionsEnd`, `FuncsExact` (every overload belongs to
  one live function). Five functions and three constructors to define from, three definitions,
  four function objects.
* `ArraysShared`, arrays: `DataLives`, `NothingLeaks`. Two handles and two tensors, three uses.
* `InstancesOwned`, instances: `TableExact`, `OwnedOnce`, `TwiceByNoneOnly`, `ReadyIsLive`,
  `RefsExact`, `AbortsOnlyOnStale`. Two instances (interchangeable, hence the symmetry), two addresses, one heap
  cell to be used again.
* `KeysFound`, hash table: `FindsExactly`, `HasRoom`. Six keys that collide at the end, across the end
  and at the start of 16 and 32 buckets, with a distance limit of 1, so that tables grow by
  distance.
* `ContainersKept`, containers: `LikeAList`, `UndefinedOnlyWhenChanged`, `IterationComplete`. Up to
  four elements of two values, all indices from -4 to 4, slices in both directions beyond both
  ends, values of a slice that differ. `LikeAList` compares the elements and the result of every method with
  those of a list, which `ListDoes` computes from the indices that the slice selects. And casters: `NothingLeftBehind`, `PointersLive`, `AllOrNothing`. Sources of every kind with
  up to three elements of five kinds, seven containers.
* `ErrorsArrive`, exceptions: `ReferencesExact`, `ErrorSurvives`, `FailsAsThrown`, `NewestTranslates`.
  Three exception objects, two slots, two translators of which one catches a part of what the
  other does.
* `ValuesKept`, conversions: `NumbersExact`, `EnumerationsAgree`. Integers at the limits of 2, 3, 5 and
  7 bits and of a digit of 4: one width below a digit, one above, and the word. And what an array is
  refused or copied for, `OrderExact`: shapes with a dimension of one, an empty one, with strides
  that are no order, and without strides.

The parts are checked together because they have no state in common in these models; the
variables `s1` to `s9` of `MCNanobind` serve the part that the initial state chose, and `Counter`,
`Instances`, `Ndarray` and `Errors` have their own.

Why the bounds are enough. In the platform the lengths matter only relative to each other: a
program with no read, one below a chunk, one that fills a chunk exactly (two reads) and one
above it (three) are the four ways in which the end of a program can meet the chunk boundary,
and a ring of a chunk and one word can fill up, take a part of a push and stop the receiver, with
pushes that end in the middle of a cache line. Three calls are enough for a program, its successor and a call in between. In the builder, five calls hold two
labels with branches over an INFO in either direction, and a cap of 3 is exceeded by two words
of two reads; four calls of every kind are a program, what goes in behind its passes, and the passes again. For the generators, two cache lines are the first and the last, with one increment
of the column between; three rows are a victim with two aggressors; counts of 0, 1 and more
are the ways a loop that tests at its end can go. The victims 7 and 8 of the campaign have
neighbours in another block of eight under both mappings, and counts of two and three steps let
a flip come at the first, a later and no count, and go away at the next. Losses of 9 and 10 bits are on both
sides of what makes an anti-cell row. For nanobind the bounds are given above: two of
each thing that can be confused with another, and one more where a third can get in between.

Deadlock is checked in `generators`, whose sessions must not stop (one that ends repeats its last
state, and one that hangs in a loop of the core would be seen as a stop or an endless growth of
its trace). In the other runs a client may stop at any point. The platform
does stop where a host asks for what never comes: that hosts which keep to the rule do not is
`OrderlyCompletes`.

Fairness. `FairSpec` of `Platform` asks weak fairness of the host thread, of the receiver thread
and of the card, each as a whole. The two threads poll without blocking each other, on an operating
system that runs both; the card runs by itself. Nothing is asked of faults, nor of single actions.
`OrderlyCompletes` and `ExecuteReturns` use it. `Campaign` asks that a script goes on when it can
(`WF_vars(Runs)`), failures excepted: nothing but the interpreter is needed for that.
`CampaignEnds` uses it, and a failure may come at any step. Nothing is asked of a builder's
client, of Python code, or of threads in nanobind, and no liveness is claimed of them.

## 4. What the checks say about the code

The rule of use that the platform's interface leaves unsaid, `Fits`: when a call joins the receiver
(`execute`, `close`), what has been read and not received must fit in the ring buffer; and
`receiveData` must not ask for more than the programs executed so far read. Hosts that keep to
it, accept only what `execute` accepts, and close before they reset or destroy get every call
back (`OrderlyCompletes`); hosts that break it never finish (`OnlyFittingFinishes`).

The builder's rule: nothing may be added behind the passes, which are not run twice. `OnlyReworkedFails` says
that only programs that break it fail the assertion. `save_bin` keeps no rule: it writes `spc` words, and the
INFO words are not counted in `spc`, so a concluded program loses its end (`SavedWhole`, violated;
`SavesFirstWords` says how much it loses). `is_sleep` (`instruction.cpp:381`) compares all bits from 48 on with
19, where a SLEEP has bit 62 and the code 3. It recognizes no word, so a SLEEP ends a run of reads in
`linear_analysis` (`program.cpp:274`), where the code spares it; `ClassifiersAgree` states this.
`BranchesResolve` speaks of labels that were set once: appending a program whose label has the name of one
there moves the branches of both to the later, and nothing is claimed of these.

The generators test their loops at the end: an empty list of rows still reads one, and a count of
zero hammers once. `ActivatesAsAsked` and `NothingLeftOver` say so (`AtLeast1`, `EmptyList`), since the
scripts never pass such arguments. None of them has a label inside a run of reads, so what a loop
back into such a run would do to the data announced is not checked.

The scripts of the campaign compare what may not be comparable, and the properties say what they do
compare. `di_ds_sweep.py` keeps the flips of an earlier count for a pattern that does not flip at the
present one (`:108`), so the two numbers it compares may be of different counts (`SweepExact`). It looks for
its physical victims among the addresses of `di_retention.py`, and finds no anti-cell row at all when no row
lost ones, since pandas then reads the patterns as numbers (`AntiRowsExact`). A retention file that was cut
off while it was written is still read: it holds the zeros before the ones, so it gives all the
anti-cell rows or none. Files of an earlier campaign are taken as they are.

Where the models of nanobind end and claim nothing beyond:

* an object returned at an address where an older instance stands, which gets it without taking
  it over (`nb_type.cpp:1605`, `:1756`; "shadowed");
* a null entry, or a stale iterator, in the table of types while two threads import
  (`nb_type.cpp:326`, `nb_enum.cpp:72`);
* a call by its other name of a function whose overloads another has taken over
  (`nb_func.cpp:298`), and a constructor deleted from its class (`:397`), which is not modelled;
* a conversion that runs Python code which empties the list it is part of (`nb_list.h:45`), and
  pairs of pointers made by `nb::cast` of objects that convert (`pair.h:42`);
* an object that cannot be iterated passed for a set: `obj_iter` throws out of a function that is
  `noexcept` (`nb_set.h:27`);
* a sequence of another length passed for an array, whose temporary stays (`nb_array.h:26`);
* a DLPack capsule of an imported array, whose destructor takes the producer's context for a
  handle of nanobind's (`nb_ndarray.cpp:750`);
* a count that changes between load and store of a hand-over to Python (`counter.inl:123`).

What the properties of nanobind except:

* `CallsArrive`: a call that the sweep without the lock decides, on an object whose lookups by two threads have
  overlapped. Both may have chosen one slot (`trampoline.cpp:86`, `:104`), the one fills it over the other's words, and
  the sweep (`:42-46`) may read the name of one function and the override of another. It is then the wrong
  override that is called. Calls decided under the lock arrive all the same.
* `InternalsShared`: two modules imported at once. Both may find no internals (`nb_internals.cpp:359`) and make their own
  (`:479`); types that one registers are unknown to the other.
* `OwnedOnce`: `rv_policy::none` for an object whose address has an entry of another type only. The cast is not refused,
  and makes an instance that destroys what C++ owns (`nb_type.cpp:1590`, `:1549`; "doubled").
  `TwiceByNoneOnly` says that nothing else does so, at the ends listed above either.
* `OrderExact`: a request with an order F and no shape. The code counts one element then (`nb_ndarray.cpp:396`) and takes an
  array without strides, which is in order C, for one in order F (`:425`; `Mistaken`).
* `LikeAList`: `v.extend(v)`, which inserts `v`'s own iterators into `v` (`bind_vector.h:126`), undefined behaviour when the memory
  moves, and `v[::-1] = v`, which reads elements it has overwritten (`:164`).

Five disagreements between the code and what its headers or documentation say are recorded under
`findings` in `PROJECT.json`, each with the run that shows it.

## 5. Proofs

The theorems hold for every value of the constants that satisfies the assumptions of the modules;
each assumption is named where the constant is declared and evaluated by TLC in a run.

### Platform

`PlatformProofs` proves, for every set of scripts and every size that satisfies
`SizesAssumption`, `ScriptsAssumption` and `FaultsAssumption`, and whatever the files of the board
do:

* `TypeCorrect`: `Spec => []TypeOK`;
* `DeliveredInOrder` and `NothingLost`: `Spec => []InOrder` and `Spec => []Conservation`;
* `CardGetsTheCalls`: `Spec => []CardMatchesCalls`;

and, as long as `read()` does not return 0 early (`NoEmptyReads`):

* `InvariantHolds` and `HostInvariantHolds`: `Spec => []IInv`, `Spec => []HostFits`;
* `SentOnlyWhenIdle`: `Spec => []SendOnlyWhenIdle`;
* `OnlyFittingHostsFinish`: `Spec => []OnlyFittingFinishes`;
* `ImplementsReadback`: `Spec => ServiceSpec`, by `IInv`: the initial states map to initial states and
  every action to an action of `Readback` or to a stutter.

The arguments. `InOrder` and `Conservation` speak of what has been delivered or is under way, so
neither is inductive: the words about to be delivered must be the next ones. `FlowInv` says where
the whole stream is: what the caller has, the ring, the rest of the chunk in the receiver's hands
and the FIFO of the card are consecutive (`WordsInv`, `PacketsInv`), and which part of a chunk the
receiver still has to copy (`HandsInv`). That holds after any fault, since a fault cuts a chunk or
ends the thread and the words stay where they are.

`SendOnlyWhenIdle` and the refinement need more, `IInv`: at most one program is on the card, and when
the receiver has ended, or has a short chunk in its hands, nothing is left there (`CardInv`,
`ReceiverInv`, `HostInv`). The last clause is the one a wrong transfer length would break, and rests
on a fact about the sizes, `MarkerLeavesShortChunk`: a chunk is a whole number of DRAM reads, so
whole reads followed by one marker never fill chunks exactly, and a full chunk can never end with
the marker. This uses that a DRAM read returns at least two beats (`ReadBeats >= 2`).
`NoEmptyReads` is needed: if a read returned 0 early the thread would end with data on the card,
and the next program would be sent to a card that is not idle.

`CardMatchesCalls` compares what the card has got with what the calls asked for. Between the two is
the send buffer, which all calls share and clear in part: `BufferInv` says which part of it belongs
to the call that is running, and `SentInv` that the card has what the calls before it say, and the
bytes of this one that have been written.

`OnlyFittingFinishes` adds up a whole script. `FitInv` says it of the calls so far: those that came back
kept to the rule, the caller has what it asked for, and what the card has read is what the caller
has or may still take (`Left`), except for what a reset took (`Abandoned`). Sums over a script
are described by the function of their partial sums (`RunningSum`), which exists and unfolds by
induction over a set of naturals (`NaturalFacts`). `HostFits`, the conjunction of `IInv`, `SentInv` and
`FitInv`, is an invariant of the run `platform`.

### Instruction

`InstructionProofs` proves `EncodersAreReversible` (`Spec => []DecodesToItself`) and `ClassifiersAreRight`
(`Spec => []ClassifiersAgree`), for every call that satisfies `OperandsAssumption`: any registers, flags,
ranks and slots, immediates of any 16 or 32 bits, targets that fit the 19 bits of their field, and
waits from 3 to below 2^30. The code's waits go up to 2^32; the bound is that of the model, whose numbers
have 31 bits because TLC's do.

The argument. A word is a union of sets of bits, each moved up to its field (`Placed`). `Made` says what a
reader sees of one: the bits of its unit, its function code, and what is below; the lemmas on the
encoders (`OperandEncoders`, `LoadImmediate`, `BranchWords`, `NumberWords`, `RefreshWords`) show that a word is made
of the unit and code of its operation and that each operand stays within its field, so that no
shift cuts a bit, or-ing adds no bit to another field and no sign is extended. A field of such a word is
the operand's bits (`HasField`, `FieldIs`), and a number is the value of its bits (`ValueOfBits`), by induction
over its 31 bits with `n % 2p = n % p`, plus `p` if that bit is set (`DoubleRemainder`). It follows that
codes that differ have different bits, so that the name found for a code is the one encoded
(`NamesFound`). `MiniFields` and `PackedParts` are the same for the 16 bits of a DDR command and the four commands
of a word. `Answered` is the invariant: a state holds a call and the word of it.

### Program

`ProgramProofs` proves `BuildsInStep`: `Spec => []BuildInv`, for all labels, words, slots, waits,
appended and loaded programs that satisfy `LabelsAssumption`, `WordsAssumption` and
`OthersAssumption`, and any number of calls.

The argument. `BuildInv` adds up lengths and shifts pcs, so it needs the types of what is added:
`IInv` says that while the program is built its fields have the types of `BuildType` and that
what was asked for is a sequence of words with their labels. Each way of adding has a lemma:
`AddWordsInStep` (`add_inst`, both kinds, `pack_minprogram`, `dump_registers`, which add words that
are no branches), `AddBranchInStep`, `AddLabelInStep`, and `BelowInStep`, where the two maps of the
appended program move by the length of the first and meet no key of it because every branch of
a program in step lies below its `spc`. The encoders are shown to make words and the packers to
make sequences of them.

On top of it are five theorems about the passes, for programs of any length:

* `OnlyReworkedAsserts`: `Spec => []OnlyReworkedFails`;
* `PassesKeepWords`: `Spec => [](Len(this.program) < 2^19 => SourceKept)`;
* `BranchesGoWhereAsked`: `Spec => [](Len(this.program) < 2^19 => BranchesResolve)`;
* `InfosAnnounceRuns`: `Spec => []InfoAccurate`;
* `SavesFirstWords`: that `save_bin` writes the first words, and how many the INFO words cost it.

The bound `2^19` is the code's: a conditional branch has 19 bits for its target
(`program.cpp:241`), and a pc beyond is or-ed into the fields above them.

The argument. A recursive function over the words or keys exists and unfolds by induction over a set
of naturals (`Iterates`). `Analysed` says that `linear_analysis` leaves everything but `warnings` alone
and gives INFO words to pcs of the program. `Spread` follows `insert_generated` from key to key: the
words that were added stand in order at places `e[1] < e[2] < ...`, everything else is INFO, and the
branches are those of the words they were added with; `Led` adds that two of these words have at most
one INFO between them, and that each label a branch names has moved to just behind the word that was
before it. The second needs the first, since a label at a key stays (`>`) and a branch at a key moves
(`>=`), which agree only when each key goes in behind all words of the lower ones. `KeptAreSpread` then
finds the places again in the finished words (`Kept`), `TargetBits` shows that or-ing a target into a
branch adds bits in its field alone and can be read back, and `LabelSits` that the label is where
`LabelAt` asks for it. `PassesKeep` puts this together for one run of the passes, and `Settled` is the
invariant: what `IInv` says, that the labels are where they were asked for until the passes run, and
afterwards what `PassesKeep` gives. `InfosBeyond` counts the INFO words for `SavesFirstWords`.

`InfosAnnounceRuns` says that the INFO words are where runs of DDR words begin, and count their reads.
It has to go back from the finished words to what `linear_analysis` saw. `Told` is the invariant
of the analysis: after the words up to any pc, the runs that ended there have a warning at their first
pc, with the number of their reads up to the cap, and nothing else has; `VisitTells` keeps it, from lemmas
on the sum of reads (`ReadsAddUp`, `ReadsGrow`) and on where a run starts (`StartsOnce`, `RunNext`).
`Headed` follows `insert_generated` and says which INFO word stands before which word, and `Stretched`
that the finished words are the analysed ones with one INFO word put in at each key and branches that
now name a target. No key lies inside a run, so a run stays whole (`RunsStayWhole`), and no run
appears that was not there (`RunsAreRuns`), since filling in a target does not change the class of a word.
No bound on the length is needed: a target that is too large may spoil other fields of a branch, and
leaves it a branch.

### Campaign

`CampaignProofs` proves for all rows that both mappings are their own inverses
(`MappingIsInvolution`) and so map no two rows to one (`MappingIsInjective`). A row is split at the
bits the mappings touch (`Exchange`, `HighBits`), where the exchange of bits is undone by itself.

For every chip, list of victims and counts, and every failure, it proves `ReachesRows`
(`Spec => []RowsReached`, from the involution: the address that a script computes for
a neighbour names that neighbour) and `AccountsForAll` (`Spec => []Accounted`). `Accounted` speaks of
statuses and files; `Progress` adds which script is running, that the ones before have left a
status each, and for each script (`Kept`) that masks are there only with whole results, that both are
there behind a status of 0, and that a script that has not begun to write has left its files alone. The
steps of the end need what the phase says: results are whole from `WriteCsv` on, masks from `DumpFlips`
on. The other actions leave all that alone (`StaysInScript`) except those by which a script exits
(`ExitsOnce`).

What the files hold is proved next: `HcfFound` (`Spec => []HcfExact`), `RpComplete` (`Spec => []RpExact`),
`SweepFound` (`Spec => []SweepExact`), all three given the mapping of the chip (`Mapped`), and
`AntiRowsTaken` (`Spec => []AntiRowsExact`). The properties compare what is
recorded with what the chip shows by itself, so the first fact is `RoundFlips`: a round shows the
flips of its own activations whatever was in the rows before, because the round writes the victim
and both neighbours, and reaches exactly these three by the involution. `ResultsInv` then has one part
for each script, which says what its loops have done so far:

* `RpInv`: one line for each case passed;
* `HcfInv`: the lines of the cases passed, and `Searched`: no count tried for the present case flips,
  but for the last if the case is found;
* `SweepInv`: the lines of the victims passed, and `Sweeping`: no count since the start is in order, and
  `bers` has for each pattern the flips of the last count that had any. A round that flips no bit of a pattern
  leaves its number as it was, and the two sets of counts that the property speaks of grow by one
  count in each round, whether the chip's flips do or not;
* `RetentionInv` and `AntiInv`: the file of `di_retention`, if it is whole, has a line for every row and wait that
  loses bits and no other. A part of it gives all anti-cell rows or none: the lines of the zeros come
  first (`OnesLast`), so that if there is a line of ones all of them are there, and if there is none the patterns
  are read as numbers. The cut of a last line cannot matter, since it is of ones or there are none. And the file
  does not change while `di_ds_sweep` uses it.

`StepOf` lets each part look at a step as one of its own script, the reading of its inputs, its end,
or one that leaves it alone. The lines are flattened sequences of sequences. The library's
`FlattenSeq` is recursive; `Flattened` shows that it unfolds at its end with the function that has the
flattenings of all first parts, which exists by induction over a set of naturals.

The assumptions are those of the scripts and of the model's chip: victims and their neighbours are
rows, each victim once (`VictimAssumption`); the counts go up and none is above the bound on
activations (`HammerAssumption`); there is a last wait (`WaitAssumption`); no row flips
without a disturbance (`ChipAssumption`), and no more is asked of how flips depend on the count; and
`ds_hcf`, if it is there, has counts that the double-sided hammer of `di_rd_hc` comes by (`DataAssumption`), since the
model's sweep takes its counts from that grid (`range(hc_min, 500000, 1000)` in the code). Of the other
files of an earlier campaign it asks nothing but that they have the columns.

### nanobind

`OwnershipProofs` has the theorems about who holds an object: reference counters, instances and
arrays. It proves `CountedThroughout`: `Spec => []Counted`, for any finite set of threads and any
number of references. The count is the number of references held and of those being released,
so the invariant has to say what a thread inside a loop knows: `Words` says that a thread that saw a
Python object's address sees it for good, and that a thread in a hand-over saw a count; `Claims`,
until a race in a hand-over, that whoever copies a reference has one, that who releases one did not
see an empty counter, and that a hand-over still has the present count. `Moving` counts the threads
that go into or out of a call, by the cardinality of sets.

`OwnershipIsExact` is `InstSpec => []InstancesOwned`, for any finite set of instances, any addresses and any
bounds on what is held and kept. It assumes only that instances, addresses and the words "raw", "shared" and
"none" are told apart, and that the bounds on types name types (`InstsAssumption`, `PlacesAssumption`).
The property speaks of states before the ends that `stopped` names, of why a check failed, and of who may
be a second owner at such an end. `Owns` is inductive: as long as the model goes on it is `Sound`, a check fails only on a
stale instance, and at an end other than "doubled" no object has two owners (`Single`). What is
`Sound` has one owner of each object (`SoundOwners`); each step to an end either changes no owners
(`OwnersStay`), or gives one instance the object that C++ gave up (`OwnerTakes`). `Sound` has these parts:

* `Numbers`: references and shares are counted, by the places at which an instance or a share stands
  in what instances keep and in what the deallocations still have to give up. `KeepChange`, `TodoAppend`
  and their like say how these numbers move, from the cardinality of sets of places.
* `Lives`: an instance is there while it is referred to or being deallocated, once, and not both.
* `Table`: the list of an address has exactly its instances, and none stands before one of its own type
  or derived from it. So an instance that is looked up by its address and type finds itself
  (`FindsItself`), which `PutUnique` and the deleter rely on, and an instance that is added was not found
  before (`NoneMatches`).
* `Memory`, `Fields`, `OneInternal`: what the flags of an instance say about the memory at its address and
  the object there, and that an object within an instance is within one.
* `Sole`: one instance at most will destroy the object, and none if C++ will; someone will.
* `Alive`: an instance that is in use fits the object and has a hold on it. `Rooted` says which: it will
  destroy it, C++ has it by a pointer, it keeps a share, or it is a first member and keeps the
  instance that holds the whole. That the object lives is not enough to go on from, because when
  an instance or a pointer goes it must be known that nothing in use depended on it.

Each action has a lemma that it keeps `Owns` (or `Sound`), and they share lemmas about kinds of steps. What
happens to objects and owners: an instance goes (`DyingKeeps`, `GoingKeeps`, `ShareGoingKeeps`), comes
(`NewInternalKeeps`, `NewReferenceKeeps`, `NewOwnerKeeps`) or changes hands (`PassingKeeps`,
`ReturningKeeps`), an object appears or disappears (`AppearingKeeps`, `DisappearingKeeps`). What happens to
the table and the numbers: an entry is added (`Listing`) or taken out (`TableShrinks`), a reference is added
(`AgainKeeps`) or given up (`DecrefKeeps`), where the last one begins a deallocation, a frame that owes
the references on its list (`DeallocCounts`, `PopCounts`, `FrontCounts`).

`ArraysAreShared` is `NdSpec => []ArraysShared`, for any finite sets of handles and tensors, any arrays,
owners and offers, and any bound on uses. It assumes that "none" names none of them
(`ArraysAssumption`). Like the property, the invariant `ArraysTracked` speaks of states before a capsule is
made of a tensor that its handle does not manage (`misled`). There the store is `Good`:

* `HandleGood`: the count of a handle is the number of its direct users, and for the handle that made a tensor
  also the tensor's users and the other handles that took it. Only a handle that took a tensor from
  elsewhere calls its deleter.
* `TensorGood`: a tensor of a producer has exactly one user or taker, and one that nanobind made points
  back to the handle that it belongs to.
* `RefsGood`: the count of an object is the number of names, owners, wrapped objects and tensors that
  hold it.

That the data is there for each user would not be enough to go on from: when a handle goes, it must be
known that nobody else came by its tensor. A function changes one handle and one tensor, so the lemmas
show what such a change needs for the others not to notice (`LocalChange`, `TensorChange`, `NamesKeep`),
and how a count follows its users (`CountChange`, `RefsChange`). On these rest what the code's functions
do: `DecOwnKeeps` and `DecRefKeeps` (the last reference frees the handle, and by the deleter the
producer's tensor), `ProducerFreed`, `DeleterKeeps`, `ProducedKeeps`, `TakenKeeps`, `MadeKeeps`,
`OwnerKeeps`. There is one lemma for each action, and `TrackedIsShared` concludes.

`ClassesProofs` has the theorems about trampolines, low-level instances, types and exceptions. It proves
`CallsGoWhereDue`: `Spec => []OverridesCalled`, for any number of threads and
names and, as the documentation asks, a slot for each name that can be overridden
(`NamesAssumption`, `ThreadsAssumption`, `SlotsAssumption`). What a call does is decided by the cache of
its object, whose slots are two words each that one thread writes while others read. `Cached` says
that a slot tells about the class, unless a call is between its two writes; `Told` what a call
relies on in every step (`Agrees`): one that writes a slot has the lock, and while lookups of its object have not overlapped
the name it has read in a slot stays there until it has read the value, which then is the key of that very function.
`Apart` says of such objects that no two slots are of one function and that a function that is looked up is in none.
For the others nothing of the sweep without the lock is known, but what is decided under the lock
rests on `Cached` alone: who has the lock finds no slot half-written.

`DestroyedByOneSide` is `LowSpec => []DestroyedOnce`, for any number of instances and any
order of calls. `Sound` relates the flags of one instance to the objects at its address and to who has
to destroy them; each function changes one instance (`OneInstanceChanges`) and keeps it sound.

`RegistryAgrees` is `TypesSpec => []TypesRegistered`, for any types, bases, flags,
libraries and importing threads. Its invariant has the types of all parts, which types descend from
which (`Lineage`), who owns the lists of implicit conversions (`Owned`) and what each thread in the
middle of a function relies on (`Claims`). The two tables are kept by `SlowRight`, `FastRight` and
`EntriesKept`: an entry names a type that is alive, the slow table has every type, and the fast table
an alias for each library that has looked it up. `LoadIInv` is about the internals: whoever is in
a table is in a library that has loaded (`Placed`), and its internals do not change after that
(`LoadsRight`: a library makes them once), so that entries stay where they were; a type
and its base use the same (`Kin`); and as long as no two imports have raced one module makes
internals while there are none (`OneMakes`). `FreedWhenUnused` rests on `Buried`: internals that are
deleted had no entries, and nothing is registered after the first clean-up; with `Lineage` and `Kin` a class derived
in Python, which is in no table, has a bound type above it that is.

`ErrorsAlwaysArrive` is `ErrSpec => []ErrorsArrive`, for any finite sets of exceptions and of `python_error`
objects, any translators, whatever each of them catches, and messages of any length. It assumes that null
and an empty slot are told apart from exceptions, and that "default" names no registered translator
(`ErrorsAssumption`). `ErrorsSound` is inductive, and has three parts:

* `Reckoned`: an exception has as many references as slots, causes (twice, with the context) and
  the indicator hold, and as are still to be given up; one without references has no cause. When an
  exception goes, so may its cause, and the cause of that. `SettledReckons` is one step of this, where
  what was owed to one exception is then owed to the next, and `DroppedReckons` the whole of it: each step but
  the last takes a life, so that there are no more steps than exceptions (`Iterates`).
  `Transferred`, `PassedOn`, `IncrefReckons` and `ChainedReckons` say how references change hands.
* `Listed`: where the nodes of the list of translators are. The first one is overwritten with the
  newest translator and what it had moves to a new node (`InsertedListed`), so that the nodes are not in the
  order of the list. `NewestFirst` follows the search along it: it ends at the translator that was
  registered last among those that catch the exception.
* `Underway`: what is thrown is still held by its slot, or has its whole message, and no other error is set.

### What is only model-checked

* Liveness (`OrderlyCompletes`, `ExecuteReturns`, `CampaignEnds`): the prover has no rules for `ENABLED`
  and fairness.
* What a generated program does on `Machine`, which executes one instruction after the other: induction
  over data.
* The other parts of nanobind (`KeysFound`, `ContainersKept`, `ValuesKept`, `CallsDispatched`) are for the
  most part recursive functions on tables, lists and numbers, and so is `OrderExact`, which compares
  strides.

## 6. Not modelled

* `Program::debug` and its Vivado child, `pretty_print`, `print_bits`, the texts of the decoders.
* `src/programs/hammer_pattern.cpp`, `multirow_act.cpp` and `HBM2.cpp`, which are not in the build; the
  empty `ethernet.cpp` and `qdma.cpp`; `fullReset`, which only throws; the board registry and the
  reset of the device files; `src/test.cpp`, a client.
* `python/utils/bitutils.py` and `utils.py`, the layout of the result files, and the loops of
  `di_rd_ber.py`, which it does not reach.
* Of instances: `enable_shared_from_this`, nurses of other libraries.
* Of types: static properties, `nb_type_setattro`, slots of metaclasses, supplements.
* Of functions: docstrings, the call policies other than `keep_alive`.
* Of arrays: buffer format strings, devices other than the CPU.
* Of the hash table: erasure of ranges, clear, copies and moves, reserve, serialization.
* Of casters: `from_cpp`, variants, strings, functions, paths, chrono, eigen.
* Of exceptions: the text that `python_error::what` composes, `exception_new`.
* Of numbers: rounding of floating point numbers.
* The stub generator, which prints text, and the class templates of the headers that pass their
  arguments on to the functions that are modelled.

The list of hazards in `PROJECT.json` has those that matter most. Others, at their lines, that no
property is about: commands pending at `conclude` are dropped (`program.cpp:693`); a branch to a
label that is never set goes to 0 (`program.cpp:242`); `ADD r0, r0, r0` is the word of END
(`instruction.cpp:10`); an element that
does not convert in `__init__` leaves a vector that is never destroyed (`bind_vector.h:94`,
`bind_map.h:109`); a static property is set by a global switch around a call into Python
(`nb_type.cpp:437`); `what()` formats into a buffer that all errors share (`error.cpp:152`); the
translator of `nb::exception` has a borrowed pointer to its class (`nb_error.h:145`).

What could follow: the composition of `Campaign` with `Platform`.
