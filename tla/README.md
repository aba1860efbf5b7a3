# Gamegine's core: a TLA+ model

Specifications of the C++ core of Gamegine (`src/gamegine/include/engine/core/`), checked with
TLC and, where it can be, proved with TLAPS.

## The system

Gamegine is a game engine at its beginning. What exists is a header-only core of thirteen
components, and the Lua programs that check, benchmark and build it. The rendering engine the
documentation describes is not written yet. The core's one concurrent program is its logger;
the rest of the core makes the 16-byte records the logger carries, and the text of its lines.

| Component | State | Operations | What is hard about it |
|---|---|---|---|
| `SpscRing` (`core_spsc_ring.h`) | two counters, a private copy of each, the slots | `try_push` of one value, of a span; `try_pop` | lock-free: release/acquire only, stale copies, counters that wrap, plain memory in between |
| `Logger` (`core_log.h`) | the slots, one producer per registered thread (ring, phase, drop count), the shared ring and its mutex, the batch | `register_current_thread`, `~Handle`, `log_*`, `log_*_locked`, the logger thread's pass, `~Logger` | every thread of the engine calls it; producers are freed by another thread than their user; overflow, stop and the last drain |
| batch of `Logger` | `d_batch`, `d_batch_size` | `write_record`, `write_loss`, `flush` | interrupted, short and failed `write(2)`; the room a line needs |
| `LogRecord`, `Error`, `LogMessage` | one or two words | `make`, accessors | fields share words |
| `LogMessageCatalog`, `ErrorCatalog` | constant tables | `is_valid`, split, lookup | all byte sequences; numbers nobody declared |
| `LineWriter` (`core_format.h`) | a buffer, a size, a truncation flag | appends | never past the end; eight bytes at a time |
| `Clock` | start, ratio | `ns_elapsed_since_start` | 64-bit products |
| `Logger::Handle`, `Result`, `GAMEGINE_ERROR_TRY` | the objects of the calling functions | construct, move, destroy; return early with an error | who closes a producer, once, when functions fail around the handle |
| text formatting | none | `append_*`, format specifications | five files have to agree on what a number means; room in a line |
| CI (`src/ci`, `src/xmake.lua`) | files; the machine's state is read, not changed | checks, benchmarks, pins, bundles | sequential scripts; not modelled |

How they interact: a thread calls its `Handle`, which makes a `LogRecord` and pushes it into the
`SpscRing` of its `Producer`. The logger thread reads the producer's slot and phase, pops the
ring, formats each record through the catalogs into the batch, and writes the batch. The only
shared memory is: the slots (`d_slots`), the phase and the drop count of each producer, and the
two counters and slots of each ring. A thread without a handle takes the mutex and pushes into
the shared ring.

## The modules

| Module | What it is |
|---|---|
| `SpscFifo` | The promise of the ring, as its documentation and interface state it: a bounded FIFO whose two ends may each lag behind the other |
| `SpscRing` | The ring's code, one shared access per step, under C++ release/acquire |
| `SpscRingMC` | Instances of `SpscRing` for TLC |
| `SpscRingProofs` | Its theorems for every capacity and counter width, among them that it implements `SpscFifo` |
| `Logger` | Registration, logging, draining, freeing and shutdown, over rings as `SpscFifo` promises them |
| `LoggerMC` | Instances of `Logger` for TLC |
| `LoggerProofs` | Who owns a producer, how the rings are used and the order of records, proved for every number of threads, slots, registrations and records |
| `LoggerAccountProofs` | The accounts of records and the end of the logger, proved likewise, and that `Logger` implements `ProducerLife` and `LoggerPass`. Extends `LoggerProofs` |
| `LoggerPass` | The passes of the draining thread among threads that never stop logging; `Logger` implements it |
| `LoggerPassProofs` | Its theorem, for every number of slots and every capacity |
| `ProducerLife` | The promise of a registered ring: live, closed, freed, and every record settled by then |
| `Handles` | The callers: where a handle is made, moved and destroyed, and how errors return. Implements `ProducerLife` from their side, as `Logger` does from its own |
| `HandlesMC` | Its instance |
| `HandlesProofs` | Its theorems, for every depth of calls and number of locals |
| `LogBatch` | The logger thread's batch and `write(2)` |
| `LogBatchProofs` | Its theorems, for every size |
| `Words` | Unsigned words as sets of bits |
| `Enumerations` | The enumerators of errors, messages and records |
| `LogRecord` | The packing of records, errors and messages, and what compiles |
| `LogRecordProofs` | Its theorems |
| `LogMessageText` | Validity and split of a message's text |
| `Tables` | The tables of names, arguments and texts, and what the build asserts of them. Extends `Enumerations` and `LogMessageText` |
| `LogLine` | From a record to a line: catalogs, layouts, columns, `std::format` specifications. Extends `LogRecord` and `Tables` |
| `LogLineMC` | Instances of the three for TLC |
| `LineWriter` | Bounded appends, and the word-at-a-time search for control characters |
| `LineWriterMC` | Its instance, with the texts whose search is checked |
| `TickClock` | From a reading of the clock, through a record, to a shown time |
| `TickClockMC`, `TickClockProofs` | Its instance, and its theorems |

An operator named `X_Fault` (for example `TryPop_NoRefresh`) is the operator `X` with a bug a
programmer could plausibly write. No specification uses it: substituted for `X`, it shows that a
property notices. `PROJECT.json` names one for every property.

### SpscRing

`d_head`, `d_cached_tail`, `d_tail`, `d_cached_head` and `d_slots` are the class's data. The
counters count modulo `Modulus` (2^64 in the program), and `slot` takes the low bits as the code
does. A call is a sequence of actions, one per shared access: `TryPush` or `TryPushSpan` decides
from the copy alone, `RefreshTail` or `RefreshTailForSpan` loads the other counter and decides
again, `CopyIn` is one `memcpy`, `Publish` is the release store and the return; `TryPop`,
`RefreshHead`, `CopyOut` and `Reclaim` mirror them.

*Memory.* A load of the other side's counter may return any value stored there that is not older
than what this side has read or been told of: `head_stores` and `tail_stores` are those values.
An acquire load of a release store also moves `pushes_known` or `pops_known`, the counter up to
which the other side's accesses happen before this side's next step. The four memory orders are
operators (`PublishOrder`...), so weakening one in the code means weakening it in the model.
Between two calls a side may learn of the other's progress by other means
(`ProducerSynchronizes`, `ConsumerSynchronizes`), as it does when the logger reads a closed
phase or a test joins a thread.

*Properties.* `NoDataRace`: every copy into a slot happens after the copy out of it one turn
before, and every copy out after the copy in; this is what the two pairs the header calls A and
B are for. `RingInvariant`: the copies and knowledge of both sides stand in one order around
`d_head`, no further back than the capacity, and what a call found stays true until it ends.
`ImplementsFifo`: the ring refines `SpscFifo`, with the queue read out of the slots between
`d_tail` and `d_head`. That one property carries order, no loss, no duplication, batches whole
or not at all, refusal only when the ring is full as far as the producer can know after a fresh
load, and emptiness likewise.

*Liveness.* The specification assumes no fairness; each liveness property names the scheduling it
needs as its premise. `CallsReturn` says of each side that its calls return if the steps within
them are taken, whatever the other side does: wait-freedom as the header claims it.
`PushedIsPopped` and `PushesGoOn` assume `BothKeepCalling`: both sides keep calling and finish
their calls, and a load tried for ever returns the latest store at last, which C++ asks of
atomics.

### Logger

`d_slots`, `d_phase`, `d_dropped`, `d_reported` and `d_shared_lock` are the class's data; a
producer is named by its thread and the number of that thread's registration, and `heap` holds
those that are allocated. Each ring is a record of the variables of `SpscFifo`.

A registering thread makes its producer (`RegisterBegin`) and tries the slots one at a time
(`TrySlot`, a compare-exchange each), or frees the producer and returns an error
(`RegisterFails`). A logging call offers a record, looks at the ring again while its copy says
full (`LearnPops`), is accepted or refused, and counts a refusal with a load and a store
(`LoadDropped`, `StoreDropped`). `Close` is `~Handle`. The logger thread loads a slot, reads the
phase, pops (`LearnPushes`, `PopRecord`) until the ring gives nothing or a whole pass's worth,
takes the drops, and frees a closed producer (`FreeProducer`, then `ClearSlot`). `RequestStop`
and `Join` are the destructor, which then runs the same pass itself. A thread with two handles
is two threads here: a handle's records depend on nothing else of its thread.

Loads of slots, phases and drop counts return the latest value: an older value would be the same
load made earlier, since the logger thread makes each of them once per pass and learns nothing in
between that the older value could contradict. The lag of the rings is modelled, since the code
relies on a closed phase ending it (`Synchronized`).

*Properties.* `EveryRecordIsAccounted`: what was logged through a ring is written, queued, in
hand or counted as dropped. `FreedIsWritten`: nothing is freed unread, the hazard the header
explains the order of phase and pops with. `HandleOrder`, `NoUseAfterFree`,
`RegisteredIsInOneSlot`, and `DestroyedLeavesNothing`, which includes the destructor's
assertion.

*Composition.* `RingsAreUsedAsPromised`: every step the threads take with a ring is a step of
`SpscFifo`, so the ring has one producer and one consumer at a time and the two modules fit.
`ImplementsLife`: seen from a registered thread, the slots, phases, heap and drop counts are the
four-step life of `ProducerLife`, and a ring is freed with every record of it written or reported
lost. `ImplementsPass`: the steps of the draining thread and of the others are steps of
`LoggerPass` or change nothing it speaks of.

*Liveness.* `CallsReturn` schedules one logging thread and nobody else, as a premise of the
property; of a foreign thread it says that the mutex, once taken, is given back. What the draining
thread does at last, among threads that never stop, is said of `LoggerPass`.

### LoggerPass

`Logger` bounds the records of a ring, so in it no flood lasts. `LoggerPass` keeps of a ring only
how many records wait in it and how many of those the draining thread knows of, and of a slot
whether it is free, live, closed or just freed; its state is finite while threads register, log and
unregister for ever. The draining actions have the names and the order of `Logger`'s.

`FloodStarvesNobody`, `ClosedIsCleared` and `DestroyedAtLast` are what the limit of a pass and the
visit of every slot are for. They hold under `FairSpec`: the draining thread takes its steps (weak
fairness, since its only waits are a sleep, `write(2)` and the join) and sees a push in a finite
time if it looks for one again and again (strong fairness of `LearnPushes`, ring by ring, since a
thread may see the pushes of one ring late and those of another early). No fairness is assumed of
the threads that log. `PassInvariant` is the safety side: whatever is in a ring when it is closed
is popped before it is freed (`RingsAreEmptied`), and a ring is not taken from under the thread
that drains it (`SlotIsHeld`).

The mapping of `ImplementsPass` carries the steps; `Logger` assumes no fairness, so that what
`LoggerPass` does at last is done by `Logger` too is argued, by the same scheduling, and not
checked. Its safety carries over: `LoggerImplementsPass` proves the mapping, `PassesAreRight` the
invariant.

### Handles and ProducerLife

`Handles` has the other side of a registration. A thread is the stack of the functions it is in,
a function its locals in the order of construction, and an object a handle, a `Result` or a
`Status`: the producer it points at, its owner and its error. Construction, the move constructor
and the destructor are `Handle`, `Moved` and `MovedFrom`, and `Destroyed`, after the three members
of `Logger::Handle`; `TryReturns`, `Try` and `TryAssign` are the two macros of `core_error.h`, with
the temporary that each leaves in its scope. When a function returns, from its end or early, its
locals are destroyed one step at a time, the last constructed first, while the other threads and
the logger thread go on. What functions do besides, and when they choose to fail, is any order of
the statements: the callers are external, and their actions are what C++ lets a program do with a
type that can be moved and not copied.

`LiveIsHeldOnce`: a producer is live exactly while one object holds it, so it is closed once and at
the right time. `ErrorsArrive`: an error that was made is somewhere on its way to a caller that
looks at it, unchanged. `ImplementsLife`: what the callers do is what `ProducerLife` allows, which
is what `Logger` assumes of its threads when it lets them log only while registered and close once.
`ProducerLife` is an abstract specification and stands for no code of its own.

### LogBatch

`d_batch`, `d_batch_size` are the class's data; `written` and `result` are the locals of `flush`.
A character is its number in the order the lines were made, so the batch and the file say by
themselves whether one was skipped, repeated or overtaken. `MakeLine` is `write_record` or
`write_loss` up to the decision to flush, `AppendLine` what follows the flush, `EndPass` the flush
of `consume` and of the destructor; `Write` is one `write(2)`, which takes any part of what it is
offered, or fails with `EINTR` or another error, and leaves `errno` alone when it does not fail;
`GoOn`, `Retry`, `GiveUp` and `Written` are the branches of the loop.

`EachCharacterIsOnce`: in the file in order, or waiting, or given up. `ResumesAtALine`: after a
failure the file goes on at the start of a line, so a failure tears at most one. `LinesAreWhole`:
no line the formats make is cut, which is why the threshold exceeds the longest line by the mark
of a cut, and every line ends in a newline. `MadeIsSettled`, under fairness of the logger thread's
steps and strong fairness of an uninterrupted `write(2)`: a signal may interrupt any number of
calls but not all of them, which is the one thing `flush` itself relies on. It would not hold if
the retry looked at `errno` after a call that took nothing.

### LogRecord, LogLine and LogMessageText

`LogRecord` keeps the two words of a record and, as history, what it was made from. Words are sets
of bits (`Words`), so `|` is union, `&` intersection, and a shift drops what leaves the word, at the
real widths. `MakeMessage` may only be taken with arguments that compile (`Compiles`, after
`LogMessageId`); `MakeFromRaw` takes any 64 bits, as `from_raw` does.

`LogLine` adds the lines: it looks names and texts up as the catalogs do, and lays the pieces out
as `LogFormat`, `ErrorFormat` and `LogMessageFormat` do. A piece has its size and the newlines in
it, and an argument is its bits together with the way they are read, so that `ShownAsLogged` can
follow an argument from the type the call compiled with to the reading its text gives it: the
check at compile time, the packing, the catalog and the format have to agree. `PayloadColumn` is
the column the header of `core_log_format.h` promises. `LinesFit` adds up the longest names, texts
and numbers against the sizes of the buffers.

A line is made from a *source*: enumerations and tables as someone could write them. `Tables` holds
those of the repository and what the compiler asserts of any (`Builds`); the run adds a source with
messages of every argument, one whose names and texts take all the room there is, and seven with a
mistake each, which must not build. What the code does not assert is an assumption of the model,
`LogLineAssumption`: how long names and texts may be. A payload is also shown through `std::format`,
with the specifications that `EmptySpecParser` and `AlternateFlagParser` accept.

`LogMessageText` has no state. `is_valid` counts braces and looks for `{}` in one pass;
`WellFormed` is what its comment says. `LogLine` states that the two agree on every text up to
`MaxText` characters and that the parts of a split make up the text (`WellFormedAndWhole`); it
splits the texts of its sources with the same operator.

### LineWriter

A writer is its view, its truncation flag and how far its buffer was touched. Every append is an
operator from a writer to a writer, with the source's name, and an action of the same name with
`Do`. `said` is what the appends promise, written from their comments on a buffer without an end;
`ViewIsWhatFits` says the view is its beginning and the flag tells whether it is all of it.
`copy_plain` is modelled with its arithmetic: the words, the subtraction that borrows from byte to
byte, the flags, and the lowest flag being the only one trusted. `NothingPastTheBuffer` is about
the words it copies before it checks them. Of `append_float` the buffer and the append are
modelled; which characters a float is written with is the standard library's, so any text is.

### TickClock

Threads read the clock when they log; a record keeps the low bits of the tick (`ticks_of`); the
logger thread shows its time (`Show`). Sums and products are modulo `WordSpace`. `ExactTime` is the
exact quotient, computed here without wrapping; `NeverLate` covers what the cut of a tick leaves.

## The runs

| Run | Instance | What it shows |
|---|---|---|
| `spsc_ring` | capacity 2, counters modulo 4, two values, every span of 0 to 3 values | types, absence of races, the inductive invariant, refinement of `SpscFifo`; calls return, values are popped, the ring does not stay full |
| `logger` | 2 threads, 2 registrations each, 2 slots, rings of 1, 2 records per registration | the safety properties |
| `logger_shared` | 1 thread with 2 registrations and 2 foreign threads, 2 slots, rings of 1, 1 record per registration and 3 in the shared ring | the shared ring's counts, the use of every ring as promised, `ProducerLife` and `LoggerPass` implemented; calls return alone |
| `logger_pass` | 2 slots and the shared ring, rings of 2; no bound on registrations or records | rings are emptied before they are freed; nobody starves, closed slots are cleared, the destructor returns |
| `handles` | 2 threads, 1 slot, 1 registration and 1 record each, functions 3 deep with 2 locals | handles and errors in every order of calls, moves, failures and returns |
| `log_batch` | batch of 10, threshold 5, longest line 2, records of 2 or 7, 4 lines | order, loss, tearing and room; what is in the batch is settled |
| `line_writer` | words of 3 bytes, buffer of 7; 3 appends from 5 texts, 5 numbers and 2 floats; one append of every pair of characters with a letter before or after, and of every text of up to 6 of 8 edge characters | each append against its promise; the search finds control characters and only those; borrows across bytes, words ahead of the check |
| `log_line` | no bit, every bit, lowest and highest bit of each field, at real widths; messages of every argument, corrupt domains, reasons and ids, ten sources of which seven must not build, every specification of up to two characters, names shorter and longer than their column; every text up to 5 characters of 5 classes | packing, validity and split of texts, and the whole way from call to line |
| `tick_clock` | words modulo 64, terms below 8, ticks of a record modulo 32, 6 rates, starts 0 to 40 | the conversion |
| `log_line_names` | thread names with a newline | violated, see Findings |
| `logger_refusal` | 3 threads, 2 slots, no records | violated, see Findings |
| `logger_thread_order` | 2 threads, 2 registrations each, 2 slots, 1 record each | violated, see Findings |

*Why the bounds are enough.* A ring of two is the smallest that can be partly full, and with
counters modulo 4 both counters wrap many times in a run. The states repeat, so nothing is cut
off. Two values suffice, since the code never looks at a value; they tell a lost, repeated or
swapped value apart from the right one within the two a ring of two holds. In the logger, a ring
of one with two records per registration makes every mix of accepted and dropped records; two
slots and two registrations make threads wait for, reuse and swap slots. Three records in a shared
ring of one let two foreign threads be refused at once. `MaxRegistrations`, `MaxRecords` and
`MaxSharedRecords` are bounds of the model and appear only as guards of `RegisterBegin` and
`Offer`. `LoggerPass` has no bound; two slots let one be passed, flooded or closed while the other
is drained, and rings of two can be partly drained. That a ring behaves alike at every capacity is
the theorem `RingImplementsFifo`.

In `Handles` a function three deep can be returned to by an early return that passes through
another, two locals are what `GAMEGINE_ERROR_TRY_ASSIGN` makes, and one slot for two threads makes
registrations fail. `MaxDepth`, `MaxLocals`, `MaxRegistrations` and `MaxRecords` are its bounds.

The batch keeps the inequalities the class asserts between its sizes, with the smallest numbers
that satisfy them; a record of 7 is one that no format makes today, larger than the room a flush
may leave, and shows the mark of a cut. `MaxLines` ends a run. The search of `copy_plain` treats
the bytes of a word alike, and a borrow only reaches the next byte through a byte that is itself
flagged or borrowed from; neighbouring bytes with every value, and three with every value next to
a limit, contain each way a byte can act on the next and the next but one. The clock's run keeps the
inequalities between the widths (a product of two terms fits a word; a record's tick is narrower
than a word) and starts on both sides of what a record can hold. `MaxAppends`, `MaxText`,
`LastTick` and `MaxPending` are the bounds of their modules.

## Findings

* `logger_refusal`: a registration can be refused although the slots were never all taken.
  `register_current_thread` tries one slot after the other; a slot it has passed is freed before
  another thread takes the last one. The header (`core_log.h:62-64`) says it fails "when
  [k_MAX_THREADS] threads are registered at once".
* `logger_thread_order`: a thread that destroys its handle and registers again may get a lower
  slot than the one its old records wait in, and the next pass writes the new ones first. The
  header (`core_log.h:40`) says "the records of one thread come out in the order it logged them".
* `log_line_names`: the name of a thread is copied into each of its lines as it is
  (`core_log_format.h:178`), and `register_current_thread` accepts any name, so a name with a
  newline in its first eight characters gives records of two lines. The header
  (`core_log_format.h:29`) says "a record is never more than one line, so a line starting with
  ['['] always begins a record". Message texts are held to that by `LogMessageText::is_valid`.

## The proofs

`SpscRingProofs` proves, for every `Capacity`, every `Modulus` that is a larger multiple of it,
and every set of values and batches (`RingAssumption`):

* `RingIsInOrder`: `Spec => []RingInvariant`
* `RingTypes`: `Spec => []TypeOK`
* `RingIsRaceFree`: `Spec => []NoDataRace`
* `RingImplementsFifo`: `Spec => ImplementsFifo`, the refinement of `SpscFifo`

`RingAssumption` is all the code guarantees about its parameters: a capacity with a single bit
divides 2^64 and is smaller. `NoDataRace` is not inductive: that a slot is free to write at
`Publish` time depends on what `RefreshTail` found several steps before and on the consumer not
having moved back. The strengthening measures every counter and copy by its distance behind
`d_head`, modulo `Modulus`, and states that these distances stand in one chain, `pushes_known`,
`d_cached_head`, `d_tail`, `pops_known`, `d_cached_tail`, bounded by `Capacity`
(`CountersInOrder`); that loads can only return values between what is known and the latest
(`StoresInOrder`); and what a call in progress has established (`PushInOrder`, `PopInOrder`). The
proof has one lemma per action. Wrapping is confined to a few lemmas about distances
(`DistanceGrows`, `DistanceShrinks`, `DistancesAdd`), and the masking of counters to
`SlotsDiffer`: two counters less than a capacity apart have different slots.

The refinement rests on the same invariant. The queue has `Behind(d_tail)` values, its `i`-th one
in the slot of `d_tail + i - 1` (`QueueType`); what the consumer may see is a set of lengths counted
from `d_tail`, and the pops the producer has not seen are a difference of two distances. One lemma
per action (`TryPushRefines` ... `ReclaimRefines`) shows which step of the queue it is: `Publish`
appends the batch because the room found by the call is still its own, `Reclaim` drops the first
value because the value copied out is the one still in its slot, and the copies in between touch no
slot of the queue.

`LoggerPassProofs` proves, for every number of slots and every capacity above zero
(`LoggerPassAssumption`), with threads that never stop:

* `PassesAreRight`: `Spec => []PassInvariant`

`RingsAreEmptied` is not inductive by itself. That a closed ring is empty when its pops end needs
that everything in it was known when its phase was read, that nobody logs through it since, which
is because its slot stays closed until it is freed, and that its slot is not free when its phase is
read: `SlotIsHeld`. The proof has one lemma per action; `ReadPhaseKeeps` is where reading the phase
before the pops matters, and `LogKeeps` where a closed ring's silence does.

`LoggerProofs` proves, for every number of threads, slots, registrations and records
(`LoggerAssumption`, and `NullAssumption`: the null pointer is no producer):

* `OwnersAgree`: `Spec => []OwnerInvariant`
* `FreedIsNotUsed`: `Spec => []NoUseAfterFree`
* `ProducerIsInOneSlot`: `Spec => []RegisteredIsInOneSlot`

A producer has no lock and three users. Neither property is inductive, since each use is some steps
after what made it safe. `OwnerInvariant` says who has a producer at each moment: its thread while
it registers or is registered, and then it is live (`ThreadsOwn`); one slot, once it is registered
(`SlotsOwn`, `Registrations`); and the thread that drains while it is at that slot, which frees it
only after it has read its phase as closed (`DrainerHolds`). A closed phase is final and a closed
producer has no thread, so the free meets no user; and a slot whose producer is freed is cleared
by the thread that freed it before anybody finds it free.

Upon these rest, in the same module:

* `RingsAreInOrder`: `Spec => []RingInvariant`
* `RingsAreFifos`: `Spec => RingsAreUsedAsPromised`
* `RecordsComeOutInOrder`: `Spec => []HandleOrder`

Each action of `Logger` is, for each ring, a step of `SpscFifo` or a stutter: one lemma for each
thing a thread does to a ring (`OfferIsFifo`, `AcceptIsFifo`, ...). What has to be proved is that
a ring has one pusher at a time: a registered thread is alone with its producer (`OwnersAgree`),
and the foreign threads have the mutex from the first step of a push to the last (`OnePusher`).
Together with `RingImplementsFifo` this is the composition: the ring's code keeps `SpscFifo` if it
has one producer and one consumer, and the logger gives it one of each. The order of the records
needs that a ring's records come after those of it in the log and before the one in hand
(`RecordsInOrder`), so that what is popped next can be appended.

`LoggerAccountProofs` proves, from the same assumptions and on top of these invariants, what is
said of a ring from its first record to its last:

* `AccountsAreKept`, `EndsAreClean`: `Spec => []AccountInvariant`, `Spec => []EndInvariant`
* `RecordsAreAccounted`: `Spec => []EveryRecordIsAccounted`
* `FreedIsSettled`: `Spec => []FreedIsWritten`
* `NothingIsLeft`: `Spec => []DestroyedLeavesNothing`
* `LoggerIsTyped`: `Spec => []TypeOK`
* `LoggerImplementsLife`: `Spec => ImplementsLife`
* `LoggerImplementsPass`: `Spec => ImplementsPass`

*The accounts.* A drop is counted with a load and a store, so the count is right only if nobody
stores in between: a thread that is about to store has loaded the latest count (`Counting`), which
holds because a ring has one record in hand at a time (`Held`; for the shared ring that is the
mutex again). The draining thread only moves `d_reported` up to a count it has read.

*The ends.* `FreedIsWritten` is not inductive: between the reading of a phase and the free lie the
pops and the taking of the drops. `FreedIsEmpty` follows them: from the moment a phase is read as
closed the draining thread knows of every record in the ring, when its pops end the ring is empty,
and when it frees the producer the last drops have been taken. For that a closed producer must have
no thread left (`OwnersAgree`), and a live one must have its own (`LiveHasItsThread`). Of the
destructor `StopIsLast` says that no thread is within a call any more, and `LastPass` what its pass
has done by each step: slots behind it are clear, and the shared ring, read last and popped up to
its capacity, is empty, since nothing is pushed and a ring holds no more.

*The refinements.* For `ProducerLife` each action is the abstract step of one producer, or of none:
one lemma for each group of actions. That a record is settled only after it was logged
(`SettledBound`) and that a producer freed is settled (`FreedIsSettled`) are the guards of the
abstract steps. For `LoggerPass` the slots, rings and positions of the pass are mapped; the lemmas
say that a step on one ring leaves the view of every other alone, also when slots change owners
(`RingsOwn`, `ViewsStay`), and that a ring found live gives no more than a whole pass's worth
(`PassIsBounded`), which is what makes the count of the abstract pass enough.

`HandlesProofs` proves, for every number of threads, slots, registrations and records, every
depth of calls and number of locals (`HandlesAssumption`, and `NullAssumption`: the null pointer is
no thread, producer or error, and the absence of an error is no error):

* `HandlesAreKept`: `Spec => []HandleInvariant`
* `HandlesAreTyped`: `Spec => []TypeOK`
* `OneObjectHolds`: `Spec => []LiveIsHeldOnce`
* `NoErrorIsDropped`: `Spec => []ErrorsArrive`
* `HandlesImplementLife`: `Spec => ImplementsLife`

`LiveIsHeldOnce` counts objects on stacks that grow and shrink. The proof names the places instead:
a thread, a depth and a position, with depth 0 for the result on its way and the one being looked
at. `HeldOnce` says that what the places hold is a one-to-one map onto the live producers, so each
statement has to be shown to move an entry from one place to another, to remove one as it closes
its producer, or to add the one that is registered, which was nobody's (`RegistersProducer`). Two
more parts make it inductive. An object that holds a producer belongs to its thread and is no error
(`Kept`), so an early return with an error leaves no handle behind in the result; and where
something was returned there is room to keep it (`RoomForResults`), so that keeping it loses
nothing. `ErrorsArrive` needs that a thread has at most one result on its way (`Results`).

`LogBatchProofs` proves, for every size of the batch, every threshold and longest line as the
class asserts them, and every size of the lines (`BatchAssumption`):

* `BatchStaysInBounds`: `Spec => []TypeOK`
* `NoCharacterTwice`: `Spec => []EachCharacterIsOnce`
* `FileResumesAtALine`: `Spec => []ResumesAtALine`
* `BatchHoldsWholeLines`: `Spec => []LinesAreWhole`

The invariant counts: `Base` characters came before the batch, and `Sent` is how far `write(2)` has
been followed. The batch holds the characters after `Base`, and `Base` ends a line (`BatchHolds`);
the file and what is lost are together `1..Sent` and have no character in common (`FileHolds`). A
gap in the file can then only be behind a batch that was given up, which ends with a line
(`LeaveFlushKeeps`, `TakenWriteKeeps`). `LineFits` is where the static assertions are used.

`LogRecordProofs` proves, for every tick width that leaves five bits and every set of inputs
(`LogRecordAssumption`, whose parts about enumerators the code asserts as it compiles):

* `HeadersReadBack`: `Spec => []HeaderReadsBack`
* `PayloadsReadBack`: `Spec => []PayloadReadsBack`
* `FieldsReadBack`, `HeaderFields`: the packing by itself, for every value of every field.

The argument goes bit by bit: a bit of a packed word is a bit of exactly one field (`PackedBit`),
because the fields are shifted by the widths of those below them; a field read back is the set of
the bits that stand in its place (`LeftBit`, `RightBit`).

`TickClockProofs` proves, for every word and term width with `TermSpace^2 <= WordSpace`, every
rate, any number of threads and any start (`TickClockAssumption`):

* `TimesAreExact`: `Spec => []ExactTime`
* `TimesAreNeverLate`: `Spec => []NeverLate`
* `ScalingIsExact`: the split computation by itself.

`elapsed = q * denom + r` gives `elapsed * num = q * num * denom + r * num`, so the quotient is
`q * num` plus that of `r * num` (`Split`); `r < denom` keeps the latter below `WordSpace`
(`RestFits`), and a wrap of the sum can only make it smaller. The inductive invariant
(`TimeInvariant`) adds that no record waits that is older than the start, without which a cut tick
could compare as late.

Only model-checked: `LineWriter` (`ViewIsWhatFits`, `NothingPastTheBuffer`) and `LogLine`
(`WellFormedAndWhole`, `ShownAsLogged`, `PayloadColumn`, `LinesFit`), whose definitions recurse over
the characters of a text, and induction over data is outside the prover's reach; and all liveness,
for the same reason. Every other safety property and every refinement that a passing run checks is
also a theorem. The three properties under Findings are violated, and each has its run.

## What is not modelled, and the plan

In order:

1. The search of `copy_plain` by itself, as lemmas about one word of any size: the lowest flag is
   that of a control character, and a word without flags has none.
2. Lemmas about the lines that need no induction, such as the columns of a payload.

Left out for good: reading the hardware clock, the digits of a float, cache line layout,
third-party code, the build files, and the Lua programs of `src/ci`, which are sequential scripts
over files and processes: they keep no state from one task to the next, and `machine.lua` reads and
records the machine's state without changing it.
