# A verification of the CS 238P programs

The repository holds five programs of an operating systems course. They share
no state and are built apart from each other; `p4`, a key-value database over an
append-only log, has the logic most worth verifying, then `p3`, a balanced tree
in storage class memory with a line editor in front. This directory holds TLA+
models of them, TLC runs on small instances, and proofs that TLAPS checks for
every value of the constants.

Contents: 1 inventory, 2 the modules and how they correspond to the code, 3 the
runs, 4 fairness, 5 the proofs, 6 what the runs found wrong, 7 what is not
modelled, 8 the plan.

## 1. Inventory

### p4: the database

`kvdb.c` → `kvraw.c` → `logfs.c` → `device.c`, and `kvdb.c` → `index.c`. One
thread calls; there are no locks. Nothing survives a close: `kvraw_open` starts
a new log.

| part | state | operations | correct when |
|---|---|---|---|
| `kvdb.c` | `size`, `waste`, a log, an index | open, close, insert, update, replace, remove, lookup, size, waste | it is a map from keys to values; the counters agree with it |
| `kvraw.c` | `size`, where the next record starts | open, close, lookup (by offset), append | what was appended at an offset is read back there |
| `index.c` | a hash table: `size`, `capacity`, `maps` | open, close, update, lookup; internally grow | every hash code stored is found again, through every rehash |
| `logfs.c` | stub, no code | (header) random read, append | external |
| `device.c` | `fd`, `size`, `block` | open, close, read, write | unused in the repository |
| `main.c` | test program | | its expectations are used as properties |

Keys with one hash code share a chain: the index holds the offset of the newest
record of the code, each record holds the offset of the one before.
`chain_lookup` walks it, comparing only the first 8 bytes of the key in its
first read (`sizeof` of a pointer) and reading the record again for a longer
key; its first read also puts into the caller's buffer the value of a record
that may turn out to be another key's. `mutate` walks, decides, appends, and
moves the counters, each of which may fail part of the way: three appends make
one record.

Hard: a call is a loop over a structure that earlier calls built, any read or
append may fail in the middle of it; an append that fails after part of the
record leaves log and `kvraw->size` in disagreement; the chain mixes keys that
share a code, old values and tombstones; rehashing moves the cells that
pointers point into; the probe is arithmetic modulo the width of an integer
modulo the capacity.

### p3: words in storage class memory

`main.c` → `shell.c` (reads a line) → `main.c: shell_fnc` → `avl.c` → `scm.c`.

| part | state | operations | correct when |
|---|---|---|---|
| `avl.c` | in SCM: nodes, root, `items`, `unique` | open (truncating or not), close, insert, exists, traverse, items, unique | it is a bag of words, listed in order; the tree is balanced |
| `scm.c` | stub, no code | (header) open, malloc, strdup | external |
| `shell.c` | `history[H][N]`, `n`, saved `termios` | one per key; the loop of `shell()` | editor and bytes agree, old lines stay, a command gets its line |
| `main.c` | none | seven commands | |

Hard: SCM outlives the process, so a process that dies inside a rotation leaves
the tree as it is at that store, and the next process goes on with it; an
allocation fails at the bottom of a recursion whose every frame stores a
result; strings are bytes up to a zero that may be in the next slot.

### p2: threads

`scheduler.c` keeps a list of threads and `cur_thread`, and switches by
`setjmp`/`longjmp`: create, execute, yield. Correct when `scheduler_execute`
returns after all threads have terminated. Hard: the order of the first
scheduling, freeing what is still linked, frames that no longer exist.

### p1: expressions compiled and run

`main.c` → `lexer.c` → `parser.c` (recursive descent, a tree) → `main.c`
(`reflect` generates C) → `jitc.c` (fork, gcc, dlopen).

| part | state | operations | correct when |
|---|---|---|---|
| `lexer.c` | array of tokens, `size` | open, close, lookup | the array holds what is written to it |
| `parser.c` | `i`, `n`, `id`, `dag` | open (parses), close (frees) | it accepts the grammar in its comments and builds its tree; nodes are freed once |
| `main.c` | `out.c`, `out.so` at fixed paths | reflect, generate, main | the C generated computes the tree; the value printed is that of its own expression |
| `jitc.c` | the handle of the module | compile, open, lookup, close | what it hands out is alive or NULL |

Hard: every frame of the recursion has an error path, and what was built before
it is dropped there; an array of two messages is indexed with 2 and 3; the two
files are shared by all processes and outlive them; the handle after a failed
`dlopen`.

### p5: CPU monitor

`main.c`: a loop over `/proc/stat` (open, read a line, sleep half a second,
close) until the handler of SIGINT sets `done`; `cpu_util` keeps the counters of
the last sample. Correct when it ends after the signal with its file closed, and
its differences are the true ones. Hard: a signal at any point, also within
`nanosleep`; unsigned counters that wrap, and that the kernel may take back from.

## 2. Modules

| module | models | built on |
|---|---|---|
| `KVMap` | what `kvdb.h` promises: a map and the reply of the last call | |
| `KVDB` | `kvdb.c`, record by record | implements `KVMap` |
| `KVDBProofs` | proofs about `KVDB`: its invariants; that it implements `KVMap` | extends `KVDB` |
| `RecordLog` | what `kvdb.c` relies on below: records are added and never change | |
| `KVRaw` | `kvraw.c` over the log's bytes | implements `RecordLog` |
| `KVRawProofs` | proofs about `KVRaw` | extends `KVRaw` |
| `IndexMap` | a map from hash codes to cells, and the cell a caller holds | |
| `Index` | `index.c`, probe by probe | implements `IndexMap` |
| `IndexProofs` | proofs about `Index` | extends `Index` |
| `Database` | `kvdb.c` over `KVRaw` and `Index` as they are | instances of both; implements `KVDB` |
| `DatabaseProofs` | that the steps of `Database` are steps of `KVRaw` and `Index`, what joins the two, and that `Database` implements `KVDB`, and so `KVMap` | extends `Database`, instances of `KVRawProofs`, `IndexProofs` and `KVDBProofs` |
| `AVL` | `avl.c`, store by store | |
| `AVLProofs` | proofs about `AVL` | extends `AVL` |
| `Shell` | `shell.c`, key by key, and the dispatch of `main.c` | |
| `ShellProofs` | proofs about `Shell` | extends `Shell` |
| `Scheduler` | `scheduler.c` up to its first scheduling decision | |
| `Parser` | `lexer.c`, `parser.c` and the code `main.c` generates | |
| `Jitc` | `main()` from the generated file on, and `jitc.c`, for several processes | |
| `P1Proofs` | proofs about `Parser` and `Jitc`, the two parts of p1 | extends `Parser` and `Jitc` |
| `Monitor` | `p5/main.c` and `us_sleep` | |
| `MonitorProofs` | proofs about `Monitor` | extends `Monitor` |
| `MC...` | values of constants for TLC | extend the module named |

**KVDB.** A position in `log` stands for a byte offset of the code: position 0
is the sentinel that `kvraw_open` appends, which is how the code ends a chain.
`pc` is where the running call is: `chain` and `full` are the two reads of
`chain_lookup`, `finish` what the caller does after the walk. Every
`kvraw_lookup` is a step and may fail; `buf` is the caller's buffer, including
the value of a record that was not the one. `Prefix` is what the first read
compares, the length and the first 8 bytes. Each of the modes of `mutate` moves
the counters where the code does: `kvdb_update` before the append that may
fail. `last` and `drift` are history. No writer is called on a handle whose
append failed part of the way (`torn`): what that does is a question about
bytes, and `KVRaw` answers it.

**KVRaw.** `disk` is the log, one number per byte of a key or value; a field of
`struct meta` is one cell, so the header has 5 cells: nothing in the module
depends on how a field's bytes look, only on which cells are read where. A cell
read as a field is cut to the field's width (`WORD` for 2^64, `KEY_LENS` and
`VAL_LENS` for 2^16 and 2^32), and `read_meta`, `KEY_OFF` and `VAL_OFF` add modulo
`WORD` as the code does in `uint64_t`. A read from behind what was appended may fail or
give anything (`Past`): on a torn log a misread link can be so near 2^64 that the sum
of `kvraw.c:36` wraps, passes the check, and leads there. The log never exceeds
`Capacity`, the device. An
append that fails leaves any prefix of the record's cells. Offsets that are
asked for are those the code can have: returned by an earlier append, or read
from a record. `Junk` is the uninitialized `off` that `kvraw_open` writes into
the sentinel.

**Index.** Keys are hash codes, the mixing inside `hash()` is left to TLC's
choice of `Code`. `Width` is 2^64, `Slack` and the load are the constants of
`grow`. A rehash is a step per slot; lookups use the old table until it is
complete. `ref` is the pointer `index_update` returned and `Store` what
`kvraw_append` writes through it.

**Database.** The same calls as in `KVDB`, but the log is `KVRaw`'s bytes, the
map is `Index`'s table, and the pointer `ref` that `index_update` returned is
written by `kvraw_append` at the end of the walk. `mutate` is cut where its code
is: `index_update`, whose rehash takes its own steps inside the call, the walk,
and the append. `ImplementsKVDB` maps a byte offset to the position of the record
there, decodes the log's bytes into records, reads the map through
`index_lookup`, and shows the whole to be `KVDB`. The run checks that on its
instance, `DatabaseProofs` proves it for all of them; so what is proved of
`KVDB` over records holds over bytes and slots. A hash code of `KVDB` is one of
the table, where 0 has been replaced by 1: keys whose `hash()` gives 0 and 1
share a chain.

**AVL.** `mem`, `root`, `items` and `unique` are in SCM; the rest is the
process. `path` holds the frames of the recursion of `update()`, `todo` the
stores up to its next decision, of which each is a step, so `Crash` can fall
between any two; stores are made in the order of the program. Pointers are
indices into `mem`, scm is taken to map the region where it was. A node whose
word could not be allocated is not put into `mem`: nothing points to it, and
only `scm_utilized` would tell.

**Shell.** `mem` is the memory of `state` from `history` on: slots, the termios
that the struct has behind them, and the rest of one slot. `strlen`, `memmove`
and `strncpy` work on it as the C functions do, through slot boundaries. One
action is one key, `Enter` includes trimming, advancing the history and the
command. Commands have faces of one letter, which is enough to have one that
quits and one that takes an argument.

**Scheduler.** `main()` creating its threads, each call succeeding or failing
at one of its two allocations, and the first scheduling decision. That decision
reads through NULL, so nothing behind it can be reached, and it is left out.

**Parser.** `stk` has a frame per call of the descent, with the variables `left`
and `dag` of `expr_additive_` and `expr_multiplicative_`; these two, and the two
that call them, are the same but for their operators and callee, and are one
here with a level. A token is a lexeme, so `strtod` is one step; "?" stands for
text it takes nothing of. Nodes are never reused, which makes a second `free` of
one visible. `Trees` is the grammar of the comments, written down a second time
as sets of trees over intervals of tokens, and `AcceptsTheGrammar` compares.
`Variables` is what C makes of the declarations. Numbers have values (`Units`), and
`Printed` rounds them to six decimals, as `%f` does: of 1.0000001, 1.0000007 and
0.0000004 the first is generated as 1, the second as 1.000001 and the third as 0; an
infinite one comes out as `inf`, which is no C. `CodeComputesTree` compares what the
declarations compute with the tree twice, over the nearest numbers of six decimals
and over the numbers themselves: the first always agrees, the second only when all
numbers of the text have six decimals.

**Jitc.** Its specification is `JitcSpec`, with names of its own, so that one module can
extend it and `Parser`. Processes share `out.c` and `out.so`. A program is its chunks, each
written where the process's own file offset is, so that two processes can leave
a mixture or a hole. Every system call may fail. When a write fails, in `fprintf` or in
`fclose`, the chunk is `lost` and `main.c`, which looks at neither result, goes on:
the next one is written in its place. Text put together like that may happen to
compile. gcc is external: it reads `out.c` at one moment, and if that
compiled, replaces `out.so` by a new file and fills it. gcc may fail or be killed, and
so may `main()` with its child going on.
`disturbed` is history: another process changed a file while this one was between
its `fopen` and its `dlopen`. (As committed `main.c` declares `sigmoid` twice, as
a type and as a function, and does not compile; the model takes the function.)

**Monitor.** A signal may fall between any two steps and into any part of the
sleep. `p5` is compiled with `-ansi`, where glibc's `signal()` resets the handler
when it is entered: a second SIGINT ends the process wherever it is, which the
module has. Idle time is one counter and the six others are one: `cpu_util`
only adds them. `scanf` takes a counter modulo 2^32, `Width`.

## 3. Runs

| run | config | states | shows |
|---|---|---|---|
| `kvdb` | `MCKVDB.cfg` | 460 000 | chains, walks, counters, that the store is `KVMap`, and that a call which no storage failure ends returns |
| `kvdb_size` | `MCKVDBSize.cfg` | | violated: `kvdb_size` after a failed update |
| `kvraw` | `MCKVRaw.cfg` | 111 000 | reads are faithful, walks stay on records, also after the log was torn; nothing is read from outside `kvraw->size` but through a link that wraps |
| `kvraw_torn` | `MCKVRawTorn.cfg` | | violated: an append to a torn log reads back |
| `index` | `MCIndex.cfg` | 51 000 | every code is found, none is lost, the table is `IndexMap`, the probe exits only where a sum wraps |
| `database` | `MCDatabase.cfg` | 35 000 | the three together implement `KVDB`; the pointer into the table is current when it is written through |
| `avl` | `MCAVL.cfg` | 2 900 000 | balance, heights and counts; what a dead process leaves is a search tree |
| `shell` | `MCShell.cfg` | 717 000 | the editor until the history is full |
| `parser` | `MCParser.cfg` | 437 000 | the grammar, its trees, the code generated, what is freed, and that it ends |
| `jitc` | `MCJitc.cfg` | 115 000 | whose value a process prints, and when freed memory is used |
| `monitor` | `MCMonitor.cfg` | 20 000 | exact differences; the loop ends after the signal, with its file closed |
| `scheduler` | `MCScheduler.cfg` | | violated: `scheduler_execute` returns |

Bounds, and why they are enough:

- `kvdb`: three keys of one hash code, two of which are long and share their
  first bytes, so every kind of mismatch is on one chain; a chain of four
  records has room for an older value, a tombstone and two other keys. Two
  values tell a stale value from the current one. `MaxDrift` is a bound for
  `kvdb_update` calls that failed after moving a counter. The second hash code
  has no key: chains of different codes do not interact, which the proof of
  `ChainsComplete` shows for all of them.
- `kvraw`: three appends, one of which may be torn anywhere, with keys that
  look like the mark of a record, a value and a tombstone. `KeyRooms` and
  `ValRooms` are the rooms of the callers' buffers, too small for a key or a
  value and large enough. Offsets are modulo 100 (`WORD`), well above what the log can hold
  (`Capacity`, 26 cells), so only a misread link wraps; the value 97 is one, since
  97 + `META_LEN` does. What is read from behind the log is the bytes of the mark, in any order.
- `index`: `Slack = 1` makes the capacities 1, 3, 6 and 10; the codes collide
  modulo these; code 0 is among them, and its substitute 1. The width is 16, so
  that for the codes 14 and 15 the sum wraps, and does so in the way that matters:
  the width is no multiple of a capacity. With 2^64 and the capacities of the code
  (145, 363, ...) it is the same: 2^64 modulo 363 is 214, and at that capacity
  the probe of a code near the top can miss every free slot. Only one offset is
  stored, since cells are compared as a whole.
- `database`: two long keys of one length and with the same first bytes, with the
  codes 0 and 1, which share a chain, and a short one with another code; room for
  any value in the callers' buffers (`ROOM`); offsets modulo 100 on a device of 40
  cells; two appends, one of which may be torn, so a chain has at
  most two records. The table begins without slots and grows before the first and
  the second use, so rehashes fall into calls with the slot of another code or of
  the same one to move.
- `parser`: all 19 608 texts of up to five of seven lexemes, and of the longer ones
  those with three operators in a row, or with groups and signs next to operators,
  which is where grouping could go wrong. The lexer's array grows by three, so it
  grows twice or three times in most texts.
- `jitc`: two processes, programs of one and of three chunks: one can be a mixture,
  have a hole or lose a chunk between two others, and an old file can be longer than the new one. Each process runs
  `main()` once; an earlier, finished or killed run is the other process.
- `monitor`: counters up to 6 with a width of 4, growth of up to 3 between two
  samples, which is any difference that unsigned arithmetic can tell; a sleep in
  two parts, so that a signal can fall inside it.
- `avl`: six words give every rotation at the root and below it, with subtrees
  on all sides. A history in which the process dies has up to four inserts
  (`MaxCrashInserts`), enough for it to die in a rotation and for the next one
  to fail in both places where `update()` reads through a child.
- `shell`: three slots, so there is one that is neither first nor last; four
  bytes, so a line can be shorter than a slot, leave just room for its end or,
  with blanks, fill it, and be recalled like that. One letter, so that the line
  "q" quits and "qq" is a command with an argument; settings of two bytes.
  No bound on the number of keys.

Deadlock is checked in the runs `kvdb`, `kvraw`, `avl`, `shell`, `parser` and
`database`. In the others the program ends: `index` by `EXIT`, `jitc`, `monitor`
and `scheduler` by returning from `main()`.

Every property of a passing run has a mutant in PROJECT.json: a changed
definition, as a plausible slip would change the code, that makes TLC find the
property violated. The mutants are the definitions commented as such.

## 4. Fairness

- `KVDB`, `CallsReturn`: the program is sequential: a call that was made runs to
  its end, which is weak fairness of its steps. A failure of the storage ends a
  call as well, but nothing owes the program a failure, so fairness is on
  `Progress`, the steps that do not fail (`FairSpec == Spec /\ WF_vars(Progress)`);
  without failures the walk must end on its own, because every link leads to an
  older record.
- `Parser`, `Ends`: one process that is scheduled: weak fairness of `Step`, every
  step of which is the program's own. Whether it ends is then a question of its
  loops and of its recursion only.
- `Monitor`, `SignalEnds`: weak fairness of the program's steps; nothing owes it a
  signal, so `SIGINT` has no fairness, and the property is about what follows one.

## 5. Proofs

TLAPS checks these for all values of the constants: any number of keys, any
hash function, any prefix relation, any length of the log, any table width, any
number of processes and lengths of their programs, any expressions, any words,
inserts and crashes.
The assumptions are
`KVDBAssumption` (finite set of keys; keys that share length and first 8 bytes are
equal unless longer than 8), `KVRawAssumption` (a key is not empty; the lengths of keys
and values fit into their fields; the device is smaller than 2^64 by more than
the longest record; no bound on the callers' buffers), `IndexAssumption`
(`0 < LOAD < 1`), `DatabaseAssumption` (those of the parts; finite set of keys,
which may be of any length and collide in any way; a caller's buffer holds any
value), `MonitorAssumption` (no counter grows by its width or more between two
samples), `JitcAssumption` (a program has at least one chunk; `Nobody` is no
process), `ParserAssumption` (expressions are sequences of lexemes, any set of them
and of any length; the lexer's array grows by at least one), `AVLAssumption` (words are positive numbers, any set of them, 0 being "no
word"; the bounds are numbers, and the one for histories with a crash is not above
the other) and `ShellAssumption` (at least one slot, of two bytes or more; the
settings are no longer than a slot, 60 bytes against 160 in the code; letters are
no blanks). `DatabaseProofs` does not take `KVDBAssumption` for granted: it
proves it of the bytes (`StoreAssumes`).

| theorem | module | says |
|---|---|---|
| `TypeCorrect` | `KVDBProofs` | `TypeOK` |
| `ChainsAreComplete` | `KVDBProofs` | every record is on the chain of its hash code, newest first |
| `WalksFindTheNewest` | `KVDBProofs` | a walk passes over no record of its key |
| `CountersAreExact` | `KVDBProofs` | size and waste, up to failed updates |
| `Refinement` | `KVDBProofs` | `KVDB` implements `KVMap` |
| `TypeCorrect` | `KVRawProofs` | `TypeOK` |
| `ReadsAreFaithful` | `KVRawProofs` | a record appended to a whole log is read back, also after the log was torn |
| `ReadsStayInLog` | `KVRawProofs` | no read goes beyond `kvraw->size`, unless the log is torn and the offset within `META_LEN` of 2^64 |
| `WalksStayOnRecords` | `KVRawProofs` | a link read leads to an earlier record or ends the chain |
| `BytesImplementLog` | `KVRawProofs` | `KVRaw` implements `RecordLog` |
| `IndexTypeCorrect` | `IndexProofs` | `TypeOK` |
| `EveryCodeIsFindable` | `IndexProofs` | a lookup arrives at every used slot |
| `RehashLosesNothing` | `IndexProofs` | `size` counts the used slots; at every moment of a rehash the codes already passed, and no others, are found in the new table with their offsets |
| `ExitNeedsWrap` | `IndexProofs` | the probe gives up only where its sum wraps |
| `TableImplementsMap` | `IndexProofs` | `Index` implements `IndexMap` |
| `RunsKVRaw`, `RunsIndex` | `DatabaseProofs` | every behaviour of `Database` is one of `KVRaw` and one of `Index` |
| `RefStaysCurrent` | `DatabaseProofs` | the pointer of `index_update` is to the cell of its key when it is written through |
| `ImplementsStore` | `DatabaseProofs` | `Database` implements `KVDB` |
| `BytesImplementMap` | `DatabaseProofs` | `Database` implements `KVMap` |
| `ParserInvariant` | `P1Proofs` | the calls of the descent divide the nodes among them |
| `ParserTypes` | `P1Proofs` | `TypeOK` of `Parser`: the lexer's array, the places in the tokens, the links |
| `FreesEachNodeOnce` | `P1Proofs` | what the descent allocates is freed, once |
| `JitcTypes` | `P1Proofs` | `JitcTypeOK` |
| `UndisturbedPrintOwn` | `P1Proofs` | `OwnValue` |
| `UseOnlyAfterFailure` | `P1Proofs` | `UseNeedsFailure` |
| `TypeCorrect` | `ShellProofs` | `TypeOK` |
| `CursorStaysInLine` | `ShellProofs` | the editor's cursor and length are those of the string in memory |
| `HistoryStaysKept`, `SettingsStayKept` | `ShellProofs` | earlier lines, and the settings until the last slot is edited, stay as they were |
| `CommandsSeeTheirLine` | `ShellProofs` | a command is given the line that was typed |
| `Invariant` | `AVLProofs` | between any two stores a search tree that the frames lead down, complete and with the heights of that phase as long as no process died |
| `RegionTyped` | `AVLProofs` | `TypeOK` |
| `NoFaultWithoutCrash` | `AVLProofs` | `update()` reads through NULL only in a tree that a dead process left |
| `BalancedAlways` | `AVLProofs` | heights are true and no node leans by more than one, without a crash |
| `NothingInventedAlways` | `AVLProofs` | no count is too high, through all crashes |
| `ListingSortedAlways` | `AVLProofs` | a traversal is in order, and a lookup finds what it lists, within rotations and after crashes too |
| `TypeCorrect` | `MonitorProofs` | `TypeOK`: the file is closed on every way out |
| `UtilIsExact` | `MonitorProofs` | wrapped differences are the true ones |

*KVDB.* None of the properties is inductive alone. A walk that starts at the
index finds the newest record only if the index has the newest of the code and
the links skip none (`ChainsComplete`); the decision at its end is right only
if the record it stands on is the newest of the key (`WalkFindsNewest`), and
the counters can be compared with the records only through the position of the
newest record of each key (`LastIsNewest`). `IInv` is their conjunction with
`TypeOK` and `CountersExact`. Appending is the one step that changes the log:
one lemma says what it does to the sets `WithHash`, `WithKey`, `LiveKeys` and
`DeadRecords`, another that all else leaves them alone. For the refinement
`BufferHoldsValue` is added, that the caller's buffer has the value of the
record the walk stopped at; then each step maps to the step of `KVMap` of the
same outcome, and the reads to stuttering.

*Index.* `EveryCodeFindable` is carried by `Tight`: for each used slot there is
a step of the probe of its code that arrives there, before which every slot
is used by another code. Filling the first unused slot of a probe keeps that for
all the others, since it only makes a used slot of an unused one. The arithmetic
of the probe is used only in that a probe is a function into the slots, so the
theorem holds also where the sum wraps.

For the rest `IInv2` is added: that the counter `size` is the number of used slots
(`Counted`), that the new table of a rehash holds exactly the slots passed so far
(`Filling`), and that the pointer given out is to the cell asked for (`Held`).
`NothingLost` is about lookups: it follows from `Filling` with `EveryCodeFindable`, since
a lookup of a code that is in the new table arrives at its slot, and the slot there is
equal to the one passed. That the table in use loses nothing when the rehash ends is then
part of the refinement. A
probe that does not wrap meets every slot: its steps are as many as the slots and
no two of them arrive at one (a pigeonhole argument, over the cardinality of the
slots met), so it cannot miss a free slot, which `Counted` and the load say there
is; this is `ExitNeedsWrap`. For the refinement, what a lookup returns is first
shown to be a function of the *contents* of a table, wherever they are; then
a rehash, which keeps the contents, is a stutter of the map.

*KVRaw.* `LookupFaithful` is about the last read, so it says nothing of the next
one; what is inductive is `Kept`, that the cells of every record appended to a
whole log are still where its caller was told that it starts. Appending keeps
it because a log only grows; but it must also *establish* it, which needs that
`kvraw->size` is the end of the log until an append fails (`Typed`). The lemmas
say where in `disk` the cells of `Meta(...) \o key \o value` come to lie, and that within
`Capacity` no sum wraps and no field is cut (`ModSmall`, `MetaFields`), so a record
written is the record read (`CleanIsRead`). `ReadsWithinSize` needs no more than
arithmetic for an offset below `WORD - META_LEN` (`AcceptedIsWithin`: then the sums
of `read_meta` do not wrap either), but for the others that they are asked for on
a torn log only (`AskedFor`, from `LinkRead`). Records
of a torn log are where no one knows, so `CleanFirst` separates: they all come
after the ones written before. `Linked` says of those that a link leads to an
earlier one, which is what walks and the mapping to `RecordLog` rest on: the
abstract log is the clean prefix of what was appended, decoded from the bytes.

*Monitor.* `cpu_util` remembers remainders; `Remembers` says of which counters.
The difference of two remainders, taken modulo the width, is the difference of
the counters if that is not negative and below the width, which is arithmetic
over `\div` and `%` (`DivMod` and the lemmas behind it).

*Database.* The proof is by composition. Each action is shown to be a step of
`KVRaw` and a step of `Index`, or to leave one of them alone (`RunsKVRaw`,
`RunsIndex`): that is not immediate, since `KVRaw` answers only for offsets it gave
out, and `Index` does not allow a pointer to be written through after a rehash.
`Joined` is what makes it so: `Asking` (the table was asked for the code of the
running call, and a torn log is not written to), `Offsets` (all offsets in the
table, and in the one being filled, are starts of records), `Walk` (a walk is at
such a start, at or below the head of its chain) and `Phase`. With
that, the invariants of the parts are carried along by the theorems of the parts.

*Database implements the store, and the map.* The records, the positions and the counters' drift that
`Database` gives to `KVDB` are `CHOOSE`s and sets over decoded bytes. They are
first put in the form of a view, functions of the sequence of appends only
(`LogOf`, `PlaceIn`, `LastOf`): `ViewHolds` shows the two equal wherever the
invariants hold, and the lemmas about appending to a sequence say how the view
moves. `ReadsHold` says what a successful read tells of a record. `Ext` is what
the mapping needs beyond `Inv`: later records start at greater offsets
(`Ordered`), what the walk has read so far is of the record it stands on
(`WalkRead`), a request put off by a rehash is one `KVDB` knows, and each unit of drift is
a failed append, so the bound `MaxDrift` of `KVDB` never forbids a step.
`RInv` is `Inv`, `Ext` and the invariant of `KVDB` itself, which is available
because each step has been shown to be one of `KVDB`: the three are one induction.
There is a lemma for each action; `index_update` with a rehash becomes a stutter,
followed by the step of `KVDB` when the cell has been found.
`BytesImplementMap` is then the composition with `Refinement` of `KVDBProofs`:
over bytes that are torn, slots that are moved and keys that collide,
each call takes effect once, with the reply of the map.

*Parser.* `FreedOnce` speaks of the end, where `free_dag` walks a tree; that the walk
meets each node once is a fact about how the descent linked them. What is inductive is
an observation about the order of `malloc`s: nodes are allocated in the order of the
operators and operands in the text, so the nodes at and below a node `n` have
consecutive numbers `lo[n] .. hi[n]`, the left operand just before `n` and the right
one just behind it (`Spans`, `Blocks`). There are such `lo` and `hi` in every state,
and a sequence `st` of numbers that go up, one for each frame (`Susp`): the call at
`k` makes the tree of all nodes from `st[k]` on. A call that waits for a right operand
has its node, and the operand begins behind it; all others wait for an operand that
begins where their own tree does (`Hangs`). `Descent` says so for the three ways a
parse can be: in a call that runs (`Goes`), handing on a tree (`Comes`), or failing,
where only the kinds of the frames matter (`Fails`). Two lemmas say what the stores of
the code do to the intervals: `Added` for a new node above the tree just made,
`Joined` for the link to a right operand. When the recursion of an operator's loop
has returned, the loop goes on with the tree it made but with `left` as it was
(`parser.c:185`): a further operator would be given an operand that already has a
parent, and `free_dag` would come to it twice. That cannot be, since the recursion returns
only when the next token is none of its operators; `Active` and `Comes` say so of the
loop and of the frame above it.

When `top()` has returned a tree, it is of all the nodes (`Whole`). The recursion of
`free_dag` is defined because the intervals of the children are smaller
(`VisitsExist`), and lists the interval of each node without repetition
(`VisitsLists`), both by the smallest counterexample as in *AVL*.

*Jitc.* `OwnValue` speaks of the value printed only, which comes from the module
loaded, that from `out.so`, that from what the compiler read, and that from the
writes. `JitcInv` follows that chain backwards: `Stage` says, from where a process is,
how much it has written, how its child ended and what handle it holds; `OwnText`
and `OwnFiles` that the files of an undisturbed process are its own as far as
it and its child have come; `Loaded` and `Excused` carry that on after the
open. All that is said only of a process that has lost no write; one that has was failed by
the system, which is all that `UseNeedsFailure` asks (`LostInvariant`). A step of
another process at a shared file sets `disturbed` of everyone who
is using it, so it has to be shown only that no step reaches the files of a
process in any other way. That the compiler takes no other program for this one
rests on chunks naming their author: the text of `p` is that of no other.

*Shell.* The editor counts with `i` and `n` what `strlen` measures, and each key
either measures again or moves bytes and counts along. `IInv` has `Cursor`
for that (also after the loop has ended), and `Unused`: slots behind the line being
edited are empty, so the next line starts as one. Strings are looked at
as `Line(m, p, l)`, an end at `p + l` and none before, and the lemmas of the C
functions (`TakenOut`, `PutIn`, `CopiedIs`, `TrimIs`) say which line is at which
place after them and which bytes they leave. That earlier lines stay then rests on
one fact, that every key stores from the start of the edited slot on
(`EditKeeps`); that the settings stay on the other end, that the line and
the zero moved with it end within the next slot; what a command sees on the
zero which clears the next slot being stored behind the trimmed line or cutting it
at `N`. Returning from the last slots, where these ends coincide, are lemmas of
their own (`FullKeeps`).

*AVL.* The properties speak of the tree between calls, or of what a traversal meets;
what is inductive speaks of every moment between two stores. The proof looks at the
region as a table of references, a reference being a node and a side or
`state->root`, with what each holds (`kids`), and the words, heights and counts of
the nodes. `Tree(..., S, W)` says that the nodes `S` are a search tree, where `W`
gives for each reference the words that may be below it: no reachability, no
recursion, and a rotation changes `W` at two references only. `IInv` says that
there are such `S` and `W`, and `Shape` which kind of tree it is for each phase:
`Going` down, `Checking` and `Returning`, and for a rotation the points between its
stores. Some of them are loose (one reference is out of date, and `cur` is what
belongs there), in some a subtree hangs free (`Hanging`): it is linked from nowhere
until the next store. `Stack` says that the frames lead down the tree.

Without a crash `S` is all nodes and the heights are those of the phase: how much the
subtree just left has grown, and that everything above awaits at most that. This
gives that a node which leans has the child, and the grandchild, that the rotation
lifts: with it `FaultNeedsCrash`, and at the end `Balanced`. With a crash nothing is
kept of heights; `S` becomes the nodes that are still linked (`Survives`), a
subset, on which the tree is still ordered. There is a lemma for the stores of each
phase. `NothingInvented` needs no more than that a node's count is not above `bag`
and that no two nodes of `S` have the same word.

`Find`, `avl_traverse` and `Height` iterate once per node, as in the code the
recursion ends at the leaves. That such an iteration exists, with its two equations,
is proved once (`Iterates`); what it computes is proved by a least counterexample,
as a set of numbers (`Inductive`, from well-foundedness), never by an induction
over formulas. That `Len(mem)` rounds are enough is counted over `W`: the words
below a child are fewer than those below its parent.

Model-checked only:

- `CallsReturn`, `Ends` and `SignalEnds`: liveness is out of the prover's reach.
- `CountsExact` of `AVL`: its totals are folds over the words, and its `Len` of a
  traversal a sum over subtrees. What is proved of it is that no count is too high.
- `Parser`. `AcceptsTheGrammar` and `CodeComputesTree` compare with the grammar, a
  recursive definition over intervals of tokens, which is induction over data. What
  is proved of the tree is its shape and its nodes, not which tree it is.

The scheduler has one finding and nothing to prove.

## 6. What the runs found

Violated by the code, each in a run of its own:

- `p4/kvdb.c:172`: `kvdb_update` moves a counter before the append that may
  fail; the counter stays off (`kvdb_size`).
- `p4/kvraw.c:144`: after an append that failed part of the way, later records
  are not where `kvraw_append` says (`kvraw_torn`).
- `p2/scheduler.c:51`: the first scheduling reads through NULL (`scheduler`).

Seen in passing runs, whose properties say exactly how far the code is right:

- `p4/index.c:83`: the probe wraps at 2^64, and then may exit with slots free
  (`ExitsOnlyWhenWrapped`).
- `p3/avl.c:111`: a failed allocation below the root is not reported, avl_insert
  returns 0; tree and counts stay as they were (`CountsExact`).
- A process that dies inside an insertion can lose words (the subtree being lifted
  is linked from nowhere for two stores) and leaves totals that no longer agree;
  what holds is that the tree stays ordered and that no count is too high.
- `p3/shell.c:191`: once all H slots are used, the slot being edited is one past
  the history, over the saved terminal settings, and is cleared before a command
  sees its line (`CommandSeesLine` and `SettingsKept` hold until then).
- `p3/shell.c:158`: blanks are accepted where letters are not: a line of N
  characters ends in the next slot.
- `p3/shell.c:100`: such a line is recalled with all its N characters and, by
  `strncpy`, without an end; in the last slot the line being edited then goes
  on into the saved settings (`CursorInLine` says where a line may be longer
  than its slot).
- `p4/kvraw.c:36`: on a torn log a link misread from a value may be near 2^64; the sum
  with the length of a struct meta wraps, passes the check, and the log is read
  there (`ReadsWithinSize` says exactly when).
- `p1/main.c:25`: numbers are generated with six decimals, so the value printed is that
  of rounded numbers: `1/(1.0000001-1)` comes to 0 (`CodeComputesTree`).
- `p1/parser.c:237`: a missing operand of + or - reads past an array of two
  (`AcceptsTheGrammar` allows that end only to texts that have one).
- `p1/jitc.c:91`: after a failed `dlopen` the freed handle is returned, where
  `jitc.h` has "an opaque handle or NULL on error", and used
  (`UseNeedsFailure`).
- `p1/main.c:121`: nobody looks at whether the generated program reached `out.c`; one
  that has lost a part and still compiles is run (`OwnValue` holds for those that
  lost none).
- `p1/main.c:92`: processes that run at once can print each other's values, or
  that of a mixture (`OwnValue` holds for those that are not disturbed).
- `p1/parser.c:177`: the nodes of a rejected text are never freed; those of an
  accepted one all are, once (`FreedOnce`).

## 7. Not modelled

- `p4/logfs.c` and `p3/scm.c` are stubs without code; their headers are the
  external contracts of `KVRaw` and `AVL`.
- `term.c`, `system.c` (each program has its own), the makefiles: escape
  sequences and wrappers of libc.
- Messages, layout and tracing, in all programs.
- Stores to SCM that the compiler or the hardware reorders: `AVL` has the order
  of the program, which is what a process that is killed leaves.
- `p4/device.c`: nothing in the repository calls it, `logfs.c` would; there is no
  use of it to take inputs or an order of calls from.
- `p2/scheduler.c` beyond the first scheduling decision, which ends the process.
- `p3/shell.c:92`: at the end of the input `getchar()` returns EOF for ever and the
  loop ignores it. No state changes, so there is nothing to check about it.

## 8. Plan

Done, in the order of importance: `KVMap` and `KVDB` with their proofs,
`RecordLog` and `KVRaw`, `IndexMap` and `Index` with its proofs, `Database`, `AVL`,
`Shell`, `Parser`, `Jitc` and `Monitor` with their proofs, `Scheduler`. Left: `WordBag`, a bag of words
as abstract specification, with `AVL` shown to implement it in histories without a
crash.

Proofs done: `KVDB` and its refinement, `Index` and its refinement, `KVRaw` and its
refinement, `Database` by composition and its refinement of `KVDB` and the map,
`Shell`, `Jitc`, `Monitor`, `TypeOK` and `FreedOnce` of `Parser`, `AVL` except for
`CountsExact`. Left: in `AVL`, that every node is linked without a crash, as a count
of words below it, which is what `CountsExact` and the refinement of `WordBag` need.
