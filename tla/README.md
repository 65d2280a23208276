# CinPy in TLA+

CinPy (`src/`) calls C functions from Python. It parses a C header with
libclang, keeps the declarations as an *IR*, stores the IR in a `.cpyc` file,
and calls a function by preparing a libffi call interface (`ffi_cif`) from its
declaration. Prepared calls are kept in a cache.

This directory holds TLA+ models of its parts, TLC configurations that check
them on small instances, and TLAPS proofs of what holds for every instance.
`PROJECT.json` lists components, runs, mutants, findings, hazards and theorems,
and maps each definition to the lines it models.

    tlc -config MCDispatch_agree.cfg MCDispatch.tla     # one run
    tlapm DispatchProofs.tla                            # one module's proofs

## Inventory

| part | source | state | operations | talks to |
|---|---|---|---|---|
| call cache | `src/src/cache.c` | `g_entries` (array, allocated once), LRU list, `g_count`, `g_cap`, `g_timeout`; owns a heap vector `arg_types` per entry | get, put, evict_all, config; expiry and LRU eviction inside get and put | called by dispatch, `_cache_evict`, `_config` |
| call dispatch | `src/src/call.c` | locals of `cinpy_call`: a copy of the cif, the function pointer, converted arguments | one call, from lookup to `ffi_call`, with six early returns | cache, marshalling, libffi, dlsym |
| marshalling, format rewriting | `src/src/marshal.c`, `src/cinpy/_fmt.py` | none | Python object to C argument, C result to Python object, `{field}`s of a format | the Python API: conversions run `__bool__`, `__index__`, `__float__` |
| extension module | `src/src/cinpy_core.c` | capsules around IRs and records, references between them | `_parse_header`, `_gen_cpyc`, `_load_cpyc`, `_InternalFunction`, `_cache_evict`, `_config`, ... | all C parts |
| IR | `src/src/ir.c` | array of function records | new, push, free, map_type_kind | parser, loader, emitter |
| parser, libclang bridge | `src/src/parser.c`, `clang_bridge.c` | `g_clang`: a handle and a table of libclang's functions, filled once | initialise (may fail at any symbol), parse a header to an IR | libclang |
| `.cpyc` files | `src/src/emitter.c`, `loader.c` | files in `__cpyc__/`, shared by processes | emit (truncate and write), load | IR, the file system |
| Python front end | `src/cinpy/__init__.py`, `_proxy.py` | `_clang_initialized`, a memo of record capsules per header, proxies | `LoadHeader`, `GenCPyC`, `LoadCPyC`, `config`, `evict` | all of the above |
| the rest | `_libproxy.py`, `_libloader.py`, `_resolver.py`, `_conly.py` | memo of library functions, value holders | searching, calling through ctypes, holding values | ctypes, compilers |

### What is hard, and what makes each part correct

*Concurrency inside a process.* All C code runs under the GIL. It lets go of
it in one place that matters: converting an argument calls the object's Python
methods, and with them any Python code of any thread. That code may call C
functions, evict, reconfigure, or let entries expire, in the middle of a
`cinpy_call`. Dispatch is correct if the cif it passes to `ffi_call` describes
the function, its argument types are allocated, as many arguments were
converted as it names, no exception is pending, and every call returns.

*A data structure kept by hand.* The cache is an array, a doubly linked list
through it, a counter and owned heap blocks, changed by six functions. It is
correct if list, array and counter say the same, each block has one owner and
is freed once, the entry evicted is the one used longest ago, a new key finds
room, a name has one entry, and every walk ends. The hard inputs are a
capacity that changes, a clock that is set back and memory that runs out.

*Files shared by processes.* A `.cpyc` is rewritten in place. Processes crash,
disks fill up, a load meets a file half written, two processes write at once,
two headers have one base name. The store is correct if a load gets the whole
IR of the header that was asked for, or an error.

*Objects that refer to each other.* A `HeaderProxy` holds the capsule of an IR
and a memo of record capsules, which point into the IR's array and hold its
capsule too; a `FnProxy` holds a record capsule, and so does a call. Threads
fill the memo side by side and let go of anything at any time. It is correct
if an IR is freed once, when nothing refers to it any more, and the memo has under
each name the record of that function in that header.

*Initialisation that fails and is tried again.* Of eighteen symbols any may be
missing; the attempt then fails, with the pointers before it set, and the next
`LoadHeader` tries again, in any thread and with another library perhaps. It is
correct if the parser only ever meets a whole table of one open library.

*Tables and boundaries.* `cinpy_map_type_kind` must agree with libclang's
enumeration. Strings are read into a buffer of 4096 bytes, parameters counted in
eight bits, the byte 255 means three things, integers change their widths on
the way to C and back, and every failure of the loader frees by hand what was
read so far. It is correct if a load gives back the declarations that were
written, or fails without a leak, and values arrive as what they were.

`PROJECT.json` lists these as hazards, each at its line, with the properties
that cover it or a note where none does yet.

## Modules

| module | models | abstracts |
|---|---|---|
| `Recency` | the order of the LRU list: `lru_remove`, `lru_push_front`, the tail's neighbour | the links, which `LruList` has |
| `Cache` | `cache.c`: one action per outcome of get and put, and evict_all, config, the clock | a cif is a value, a block of argument types an address |
| `LruSpec` | the promise of the cache: a table that forgets names unused too long and, when full, the one used longest ago | array, list, counter, heap |
| `CacheLru` | the refinement mapping from `Cache` to `LruSpec` | |
| `LruList` | `cache.c` again, with `lru_prev` and `lru_next`, each round of each loop, and `strdup` | |
| `Dispatch` | `cinpy_call`, any number of calls at once, with `cinpy_py_to_ffi`, over `Cache` | values of arguments and results |
| `CpycStore` | `LoadHeader`, `GenCPyC`, `LoadCPyC` over `cinpy_emit_cpyc` and `cinpy_load_cpyc`, in several processes | bytes: a file is a sequence of tokens |
| `CinPyTypes` | `CinPyType` and `cinpy_map_type_kind` | |
| `TypeKinds` | the kinds of the vendored `Index.h`, compared with it | |
| `ClangBridge` | `clang_bridge_init`: one action for each way it returns | what dlopen returns is a number |
| `FrontEnd` | `_ensure_clang`, `LoadHeader`, `GenCPyC`, `LoadCPyC`, the proxies and the capsules of `cinpy_core.c`, in threads, over `ClangBridge` | what an IR contains |
| `Parser` | `cinpy_parse_header` and `visit_fn`, cursor by cursor | libclang; the comparison of file names |
| `CpycFormat` | the bytes `cinpy_emit_cpyc` writes, `cinpy_load_cpyc` reading them, the blocks it allocates and frees | the magic and the Python version are a byte each |
| `CTypes` | the C integer types by their kinds: ranges, what a function reads in a register and leaves in one | floating-point values |
| `Formats` | Python values, and `rewrite_fmt_args` | a string is a sequence of tokens: a field, a conversion, a NUL, a surrogate, other text |
| `CallValues` | one call: the argument count, the conversions of `marshal.c` both ways, the C function by its own declaration | floating-point values |
| `HeaderToCall` | `Parser`, `CpycFormat` and `CallValues` one after the other | |
| `RecencyProofs`, `CacheProofs`, `LruListProofs`, `DispatchProofs`, `CpycStoreProofs`, `FrontEndProofs`, `CpycFormatProofs`, `HeaderToCallProofs` | theorems | |
| `MCCache`, `MCCacheRefinement`, `MCDispatch`, `MCCpycStore`, `MCFrontEnd`, `MCHeaderToCall` | instances | |

**Cache.** `slot` is `g_entries`, `NoEntry` an element whose key is NULL;
`order` the list as a relation "nearer to the head"; `heap` the allocated
`arg_types`. `Stale` is what `evict_expired` evicts, `Found` and `Empty` what
`find_slot` and `find_empty` choose the first of, `Victims` what
`evict_lru_one` takes. `GetHit`, `GetMiss`, `PutReplace`, `PutInsert` and
`PutReject` are the outcomes of the two functions; each begins with expiry, as
the code does. Counters are `size_t`, modulo `SizeMod`. Scans read `g_cap`
elements: with a capacity above the allocation their outcome is undefined and
the model stops there (`InBounds`). Each function is one action, because it runs
no Python code; the clock does not move within one.

**LruSpec and CacheLru.** `recency` is the order of last use as a relation
between names, and `table` what a lookup returns. A name is kept when another is
stored if fewer than `Capacity` live names were used after it, itself included:
the specification counts, where the code has a counter, and never speaks of a
tail. The mapping renames: `NameOrder` is the list with each element replaced by
the name in it, `NameTable` the array read by name.

**LruList** justifies both abstractions of `Cache`. A helper of `cache.c` is an
operator from memory to memory (`LruRemove`, `LruPushFront`, `EvictEntry`), with
the assignments in their order; a round of `evict_expired`'s loop or of
`evict_all`'s is a step, and `op` says where the call is. `seen` is a history
variable, the memory as the last call left it with the order in place of the
links; the mapping to `Cache` reads it, so a call takes effect when it returns.

**Dispatch.** `frame[c]` holds the locals of activation `c` of `cinpy_call`
and `running` the activation that has the GIL (`NoCall`: Python code has it).
`LookUpHit` copies the cif, and the address of argument types it does not own.
`EnterPython` and `LeavePython` bracket a conversion that runs a method; in
between any other action is possible. `Converted` is one round of the loop,
with `raised` standing for what the method or the Python API did; its guard
`Rejects` follows marshal.c case by case, including the BOOL case, which
ignores the -1 of `PyObject_IsTrue`. A nested call (a method that calls a C
function) is another member of `Calls`: its caller waits for it, which is one of
the interleavings of two threads.

**CpycStore.** A client is one activation in a process of its own. Tokens are
the head (magic, versions, header name), the records and the sentinel; a write
of a token is a stdio buffer reaching the file at the writer's own position, so
after another process truncates the file the gap reads as zero bytes (`Hole`).
`Close` may find the disk full and not tell. A token stands for the bytes of one
buffer; encodings shorter than one buffer are written in one go and their readers
see an empty or a whole file.

**ClangBridge and FrontEnd.** A function of `cinpy_core` holds the GIL from its
first line to its last and runs no Python code (calls apart), so it is one
action; between two of them, and between two operations of the Python code, any
other thread may run. `frame[t]` is where thread `t` is and its locals. `handle`
is the number of a `dlopen`, `table` says of which one each pointer is, and
`mapped` which libraries are not closed: a pointer left by a failed attempt is
thus told from one of the library that is open. `InitIncomplete` follows
`LOAD_SYM`: the first symbol that is missing is set to NULL, the pointers before
it stay. `Ensure` and `SetInitialized` are the test and the assignment of
`_clang_initialized`, with `_init_clang` as `InitClang` between them; the user
may set `CINPY_LIBCLANG` or install a library meanwhile.
`capRefs` and `recRefs` are the reference counts of the capsules, which the
actions change where CPython and the code do (`DecCapsule` and `DecRecord` with
the destructors); `CapsuleHolders` and `RecordHolders` say who holds
references, from the rest of the state, and `CountsExact` compares. A
`HeaderProxy` that nothing holds is deallocated before any other step
(`Settled`), its capsule first and then its memo, entry by entry. While a call
runs, its arguments hold the record capsule; `RecordsAlive` asks whether the
IR behind it is there, whatever the others have dropped.

**Parser, CpycFormat, CallValues, HeaderToCall.** One thread, step by step, for
what matters here is data at its limits. A name is a sequence of bytes, the
capacity of `read_str`'s buffer, of the IR's array and of a record's parameters
are constants. `StrLen` is how many bytes `read_str` takes, at a NUL, at the end
of its buffer, or none at the end of the file. `owned` counts the heap blocks of
the loader; each early return subtracts those the code frees there. `Store`
keeps any number of the bytes that were written, as a full disk does, and
`StoreStale` writes the head of another version. The types of a record are
`MapTypeKind` of the kinds that libclang gives (`TypedParams`), right or not.
`VisitUnknown` is a function of which libclang knows no parameters.

`CallValues` computes with integers and the number of values each C type has.
`Accepts` is the check that the Python API makes (a range; UTF-8 for a string),
`CValues` the narrowing after it. A string reaches C up to its first NUL. `callee`
is the C function by its own declaration: it reads the low bits of what was passed
(`CReads`), and `Return` gives any `word` of a register, of which `FromC` reads as
much as the record's type has, and `EchoComesBack` asks about those words that the
declaration allows (`CReturns`). The text at an address that is returned is
unknown (`Memory`) and may be no UTF-8.

## Runs

| run | instance | shows |
|---|---|---|
| `cache_implements_lru` | 4 names, 3 elements, times 0..3, capacity fixed | `Cache` implements `LruSpec`; counter, names, ownership, room, order of eviction |
| `lru_links` | 2 names, 2 elements, capacity 1 or 2, clock set back | the pointers implement `Cache`; the links mirror each other; every walk ends |
| `dispatch_agree` | 2 calls, 2 functions, 2 elements, capacity 1 or 2, expiry | right cif, live signature until Python code runs, pending exceptions, the cache's structure under interleaved calls |
| `dispatch_fair` | 2 calls, 1 element | every call returns; nothing is lost |
| `store_one_writer` | 2 processes, one only loads; crashes, full disk; 2 headers, one without functions | a load gets the whole IR or an error, an error only while the file is unfinished |
| `front_end` | 2 threads, 2 IRs, 2 record capsules, 2 names, 3 symbols, 2 paths, a whole library and one without the second symbol, 2 dlopens | one whole library for every parser, whatever failed before; exact reference counts; an IR lives as long as anything refers to it; the memo is right |
| `header_to_call` | 23 units of at most 3 functions, among them one for each kind that is mapped and for some that are not; strings of at most 2 bytes in the buffer and one too long; 3 parameters at most; files cut at every byte or of another version; 1, 2, 3 and 4 bits for a byte, a short, an int and a long; 37 argument tuples with the numbers at every limit, and formats with fields, conversions of their own, NULs and surrogates | what was declared is loaded, with the mapped types, or the load fails and frees all; cut files are refused; every load ends; the C function reads the number that was given, and what it returns comes back in the bits it has; the conversions of a format find what was given for them |
| `cache_grow`, `dispatch_evicted`, `dispatch_disagree`, `store_two_writers`, `type_kinds` | as small as shows it | the findings below |

*Why the bounds are enough.* Three elements are the fewest with a head, a
middle and a tail of the list, so that a hit in the middle is distinct from one
at either end; one name more than elements makes every insertion into a full
cache evict. Times 0..3 with timeouts 1 and 2 let entries be fresh, just at the
timeout, and expired, and let two expire together or one without the other. Two
elements do for `lru_links`, whose operations touch one entry and its two
neighbours, sentinels included. Two calls give every order of two lookups, an
eviction and a conversion; a third adds an evictor, which `Evict` and expiry
are already. The prototypes contain each kind of conversion whose treatment
differs on the paths to `ffi_call` (by truth value, by number, by pointer), and
the argument tuples one that fits, one that raises and one of the wrong length.
In `CpycStore` two records and an empty header are the shortest encodings in
which a prefix, a hole and a whole file are told apart. Blocks are one more
than elements and pending calls need. The sets the proofs are about have no
bounds.

Two threads with two record capsules do for `front_end`: both resolve one name
before either stores it, one overwrites the other's capsule, and the last reference
goes while a call runs. A third capsule would serve a third name. An IR is never
reused, so two let one be loaded while another is dropped. `MaxOpens` = 2 allows one
attempt that opens a library and fails, and one that succeeds; more failures leave a
table like the first one's, as the theorems of `FrontEndProofs` show without a
bound. Three symbols are one before the missing one, itself, and one after it that
must not be resolved. `VIEW` leaves out what nothing reads any more once a library
is open: the disk, the variable and the numbers of older handles; symmetry is over
threads, IRs, capsules and names, and the run checks no liveness property. In
`header_to_call`, `BufSize` = 4 takes names of two characters, of which the units
have one and two, and one of three that the buffer cuts; `ParamCap` = 3 stands for
255 and a function has four parameters; `InitCap` = 1 makes the second function need
`realloc`, which may fail. A byte, a short, an int and a long of 2, 4, 8 and 16
values have the same order as those of 8, 16, 32 and 64 bits, with every limit and
its neighbours among the arguments; the register that a function returns has every
value; the theorems of `HeaderToCallProofs` need none of these bounds.

*Fairness.* `FairDispatch`: weak fairness of the C steps of each call, for a
thread in C code that has the GIL is not stopped by other Python code; and
strong fairness of `LeavePython`, which says that the argument's method
returns and that its thread gets the GIL again and again, as CPython's
switch interval makes the holder give way. Nothing is assumed of `Begin`,
`Evict`, `Reconfigure` or the clock. `FairSpec` of `LruList`: a call in C code
goes on. `FairHeaderToCall`: the parser, the loader and the call are sequential
code of one thread and go on; that a file is stored, or a call made, is not
assumed. Safety runs assume no fairness.

*Deadlock* is checked everywhere except in `cache_grow` and `type_kinds`, which
stop where the model has nothing more to say, and in `header_to_call`, where the
sequence is over when the load failed or the call returned.

## Findings

1. `dispatch_evicted`: the argument types of a pending call can be freed by the
   Python code that converts its arguments; `ffi_call` then reads freed memory.
   `SignatureLiveUntilPythonRuns` and the theorem `SignatureSafe` say that this
   is the only way.
2. `dispatch_disagree`: the cache is keyed by name alone, so with two headers
   that declare a name differently a call is checked against one prototype and
   made with the other.
3. `cache_grow`: `config(cache_size=n)` beyond 64 makes the scans leave the
   array.
4. `store_two_writers`: a process can truncate the file behind another, whose
   next write leaves a gap that loads as nameless functions.
5. `type_kinds`: the numbers of `cinpy_map_type_kind` are not those of the
   vendored libclang; `int`, `long` and `long long` become UNKNOWN, and
   arguments of such parameters are refused. What the wrong types of the other kinds
   do to a call is the subject of `CalleeReadsGiven` and `EchoComesBack`.

What the models show of the code besides, without a run of its own:

* When `strdup` fails in `cinpy_cache_put`, the same element is linked twice and
  `evict_expired` never ends (`StrdupMayFail = TRUE` in `LruList` refutes
  `WalksEnd`).
* After the capacity was reduced below the number of entries, `evict()` leaves
  the entries beyond it in the array and resets the counter, which wraps when
  they expire (`EvictAll`; the reason for `cap = AllocCap` in `Settled`). List
  and ownership survive that (`dispatch_agree`).
* `g_count` wraps there (a reduced capacity, `evict()`, then expiry): `Cache` counts
  modulo a bound as the code does, and no property claims anything of the counter at
  such capacities.
* Headers with one base name share a `.cpyc` file: with `CpycPath` mapping two
  headers to one path, `LoadsRequested` fails at once.
* A disk that fills up at `fclose` leaves an incomplete file that was reported as
  written; loads refuse it (`CutFileIsRefused`).
* `_ensure_clang` takes the first candidate that exists; if it cannot be loaded,
  the others are not tried (`Chosen`).
* A function whose record cannot be stored for want of memory is missing from
  the IR without an error, in the parser and in the loader (`VisitFails`,
  `PushFails`).
* A string longer than 4094 bytes is written whole, read back in pieces, and
  the functions behind it are read out of step (`StrLen`; the reason for
  `Storable`).
* No header gives a CHARPTR or a SIZE_T (`MapTypeKind`): a pointer of any kind is a
  PTR, so a `char *` result comes back as the number of its address. The branches of
  `marshal.c` for the two types are in the model and in the theorems, and no call of
  a parsed function takes them.
* A function whose result has a kind that is taken for a wider type (`unsigned int`,
  a 9, is taken for a LONG) need not set the upper bits of the register, and these are in
  the result (`EchoComesBack` says which bits are the function's).
* The values of a format's fields are moved to the front of the arguments. If the
  format has another conversion before a field, they no longer line up:
  `f("%p {x}", None, 7)` calls with `"%p %s"`, `"None"`, 7, and `%s` takes 7 for an
  address (`FieldsFirst` is the hypothesis of `ConversionsGetTheirs`).
* A `str` with a NUL reaches C cut short; one with a lone surrogate is refused.
* A `COnly` value is not unwrapped by a `FnProxy` and is refused as a number or
  a pointer (`Holder` in `Accepts`); in a format it becomes its `repr`.
* A format whose fields have no values gains arguments (`Rewritten`), so that
  the call is refused by its argument count.

## Proofs

All theorems hold for every value of the constants under the assumptions the
modules name: sizes and timeouts positive, `SizeMod > AllocCap` (a `size_t`
counts more entries than the array has), records that name known functions and
prototypes, `NoEntry`, `NoCall` and `None` outside the sets they are told apart
from, finitely many threads, IRs, record capsules and names, and, for `LruList`,
two sentinels and a null pointer that are no elements and capacities within the
array (`CapsWithinArray`: module `Cache` has what happens above it).

* `CacheStructure` (`CacheProofs`): types, `ListThreadsEntries`, `OwnedOnce`, at
  any capacity setting. The invariant `Structure` is their conjunction and is
  inductive as it stands: that the list threads exactly the occupied elements
  is what makes `Stale` and `Victims` sets of occupied elements, and that each
  block has one owner is what makes freeing a victim's block harmless to the
  others. Every action evicts a set and then fills at most one element, so the
  lemmas `Evicting` and `Filling` carry all of them; `RecencyProofs` has the
  facts about the order (removing, pushing, the oldest).
* `CacheExact` (`CacheProofs`): if the capacity stays the allocated one, the
  counter is exact, names are unique, no block is lost and a new name finds room.
  The invariant `Settled` adds `cap = AllocCap` to these: the counter
  is exact only while evict_all sees every element, room is only certain while
  the counter is exact, and nothing is lost only while there is room. A
  capacity that is reduced with entries above it breaks the first link.
  `config(cache_size=...)` is public, so this and what follows from it is about
  programs that leave the capacity alone.
* `CacheImplementsLru` (`CacheProofs`): the cache implements `LruSpec`, if the
  capacity stays the allocated one, whatever the clock does. `Settled` makes the
  mapping sound: names are unique, so an order of elements is an order of names
  and back (`NameOrderAt`, `NameTableAt`). Again every action evicts and then
  fills: `EvictingNames` says that the other names keep their order and values,
  `FillingNames` that the filled one becomes the last used. `VictimIsLast` is the
  heart: `g_count >= g_cap` and the tail of the list pick exactly the entry that
  has `AllocCap` live entries ahead, itself included. `PutReject` has no
  counterpart in `LruSpec`, and `RoomForOne` shows that it does not happen.
* `ListIsInOrderOfUse`: while the clock is not set back (`~ClockMayStepBack`), an
  entry nearer to the head was not used before one nearer to the tail, at any
  capacity. `OldestGivesWay` is `EvictsTheOldest` for the allocated capacity: a
  step that drops an entry that has not expired drops the tail
  (`DropsTheOldest`), and only from a full table without expired entries
  (`VictimMeansFull`). `g_timeout` and expiry use `time(NULL)`, so the hypothesis
  is about the system's clock; when that is set back, an entry used later can
  carry an earlier time, and the property fails.
* `LinksAgree` (`LruListProofs`): `LinksMirror`, if `strdup` does not fail
  (`~StrdupMayFail`; the hypothesis is needed, see above). `Listed` follows the
  links, so the invariant `LinksInv` says instead that there is a list of
  different cells from the head to the tail (`Chain`) of which the links are those
  of neighbours (`Threads`) and the members are the entries (`Linked`); `ListedIs`
  shows that the walk then finds that list, in `AllocCap + 1` hops at most. The
  functions of the file take an element out of the list or put one
  behind the head (`LruRemoveThreads`, `LruPushFrontThreads`, `EraseThreads`), and
  a walk always stands on an entry or the head, for it reads `prev` before it
  erases.
* `ListImplementsCache` (`LruListProofs`): `ImplementsCache`, under the same
  hypothesis. `ViewInv` relates the memory in the middle of a call to the memory
  the last call left: a walk has evicted a set of expired entries, all that are
  left of them stand between it and the head (`Ahead`), and the counter has
  gone down, modulo `SizeMod`, by the size of the set; the loop of `evict_all` has
  erased the entries below its index (`Erased`). So at the head the set is `Stale`
  (`WalkEnds`), and each function's last step is one action of `Cache`. With this
  the theorems about `Cache` are theorems about the pointers, as every return of a
  function leaves them.
* `SignatureSafe` (`DispatchProofs`): `DispatchTypeOK` and
  `SignatureLiveUntilPythonRuns`. The invariant `CallInv` adds `Structure`, for
  a copied block is live because an entry owns it, and `PythonYields`: a call
  that is inside a Python method has let the others run and relies on nothing.
  So at most the one call that holds the GIL relies on anything, and no cache
  operation but its own runs before it lets go; `Resuming` states that
  once for all steps of a call.
* `DispatchImplementsCache`: the variables of the cache change only by steps of
  `CacheNext`. `DispatchExact` follows: with the capacity fixed, no
  interleaving of calls loses argument types, and `DispatchImplementsLru`: what
  calls see of the cache is always `LruSpec`.
* `PendingFromTruthValues` (`DispatchProofs`): `PendingOnlyFromBool`, for all
  headers: a call that is made with an exception pending converted an argument
  by its truth value (marshal.c:28), which raised it. And every call that
  has a cif has one that some record of its function was given. The invariant
  `RecordInv` says this of the entries too (`EntriesHaveRecords`), and of a call
  between two arguments with `raised` set what made it so (`Explained`).
* `AgreeingHeaders`: `CifIsTheRecords` and `ArityIsTheCifs`, if the loaded headers
  declare a name alike (`RecordsAgree`). That is the hypothesis the code needs:
  `dispatch_disagree` refutes `ArityIsTheCifs` without it.

* `StoreTypeCorrect` (`CpycStoreProofs`): the types of the store, for any number of
  writers. `FilesAreBeginnings`: with one writer (`OneWriter`), every file is empty
  or a beginning of an encoding of a header that has this path, whatever crashes
  and full disks leave; the writer's own position is the file's length
  (`WriterInv`), which is what a second writer breaks (finding 4).
  `LoadsAreWhole`: `LoadsRequested`, if headers also have files of their own
  (`OwnFiles`): what a reader has read, while the writer truncates and rewrites the
  file under it, is a beginning of the one encoding it can be (`StoreInv`), and
  the sentinel ends it. `CompleteFilesLoad`: `RefusesOnlyUnfinished`. Both hypotheses
  are what the runs assume; without either the code fails (finding 4, and headers
  with one base name below).

* `ParserFindsOneLibrary` (`FrontEndProofs`): `SymbolsReady` and `OneLibraryOpen`,
  for every set of paths, builds, candidates and threads and any number of
  attempts. The invariant `LibraryInv` adds that a handle that is set stands for a
  whole table, and that a thread between `_init_clang` and the assignment to
  `_clang_initialized`, or about to parse, knows it to be set; the stale
  pointers of failed attempts are harmless because the handle is NULL then.
* `OneLibraryForEver`: `LibraryStays`. Once the table is whole the only step that
  could change it returns at once.

* `CountsAreExact` (`FrontEndProofs`): `CountsExact`, `IrLivesWithCapsule` and
  `MemoIsOfTheName`, for every set of threads, IRs, record capsules and names.
  The invariant `MemoryInv` adds what a frame relies on between its steps
  (`FrameHolds`): a header whose method runs still has its capsule, the memo entry
  it goes on to fetch is there, and the record capsule it holds is still of the
  IR and the name it was made for; that a capsule on its way to a `HeaderProxy` is
  in one frame (`OneFrame`); and that an unused address has no references. An
  action adds a holder, takes one away or exchanges one for another (`Gains`,
  `Loses`, `Swaps`), and changes the counts by as much: `RecordLetGo` and
  `CapsuleLetGo` say so for the destructors, of which the first may call the second,
  and `RecordStep`, `CountStep` and `CapsuleStep` carry the actions. The dangerous
  one is `Store`: the memo entry it overwrites may be the last reference to
  another thread's record, or be of the very record it stores.
* `CallsFindTheirRecord`: `RecordsAlive`. A call holds its record's capsule, so
  it is counted and not freed; it is a holder of the IR's capsule, so the IR lives.
* `FrontEndTypeCorrect`: `FrontEndTypeOK`.

* `LoadedIsWrittenHolds`, `CutFileIsRefusedHolds`, `FailureFreesAllHolds`,
  `HeaderToCallTypeCorrect` (`HeaderToCallProofs`): for any translation units, any
  number of functions and parameters, and a file cut anywhere. The assumptions are
  that bytes are numbers below 256, that strings have no NUL in them and that no
  function's name begins with 0xFF (a C identifier in UTF-8 does not), that the
  buffer of `read_str` has room for a character, and that another version's head
  differs from this one's. `Storable`, `~dropped` and `~skipped` are hypotheses of
  the properties, and needed: without them the code does what is said under
  Findings. The invariant `HeaderToCallInv` has a part for each component:
  * `ParserInv` says that the records so far are those of the cursors so far
    (`Declared`), unless memory ran out.
  * `BlocksInv` says how many blocks there are at each point of the loader
    (`Accounted`): those of the IR, and those of the record under construction.
    It holds on any file, and each early return subtracts that number.
  * `FileInv` says that the file is a beginning of an encoding, or one with another
    head (`Stale`), which is refused before anything is made; and, of an encoding
    whose strings are `Storable`, where the loader is (`Reading`): the k
    functions read so far are the first k written, and the position is where
    the next starts (`Start`), or the next of its parameters (`ParamStart`). `StringReadsBack` is
    what `read_str` takes there, and `FirstByte` why the loader meets the sentinel
    only at the end: no function's bytes begin with it, so a file with anything
    missing ends before.
  * `CallInv` says that each converted value is one that its type allows for its
    argument, that the arguments are the rewritten ones, and that the result is what
    the record's type makes of the word. Range checks and narrowing are then
    arithmetic modulo the number of values of a type (`ReducedIs`, `SignedIs`,
    `UnsignedIs`).
* `LoadedDeclaresHolds`: `LoadedDeclares`, from `Declared` and `FileInv`: the IR that
  was parsed is the one that was loaded, and its types are the mapped ones.
* `NumbersArriveAlways`, `CalleeReadsGivenAlways`, `EchoComesBackAlways`: from
  `CallInv`, for an LP64 machine (`long`, `long long` and pointers have one width)
  and any even numbers of values for a byte, a short, an int and a long, each of
  which divides the next and is below it. `KindIs` lists what each kind is mapped
  to, unless the argument is refused: a type whose width the kind's divides. What is
  passed differs from what was given by a multiple of the mapped type's width, hence
  of the kind's (`PassedCongruent`), and the kind's range has one such number
  (`SignedBack`, `UnsignedBack`). `Agrees` restricts both to a record that was made
  from the function's own declaration; functions that pass arguments on the stack or
  in several registers are not covered.
* `ConversionsGetTheirsAlways`: from `CallInv`, for any format. `FormatIs` says where
  the conversions of the rewritten format are, `RewrittenIs` where each argument is,
  `CTextIs` that C reads a beginning of the format.
* `LoadedIsWrittenHolds` and `LoadedDeclaresHolds` need facts about the loops that
  write the file, whose function `Concat` is recursive. Induction over data is not
  to be had as a theorem to cite, so `CpycFormatProofs` argues from the least number
  of elements for which a fact fails: `ConcatRound` (one round more), `ConcatHas`
  (the bytes of an element are where its predecessors end).

*Only model-checked:* liveness (`EveryCallReturns`, `WalksEnd`, `LoaderEnds`), which is
beyond the prover. Every other property of the passing runs is a theorem.

## Plan

Done: the call cache at three levels, dispatch over it, the store, the type
kinds, the bridge and the front end with its capsules, and the way of a
declaration and of values from a header to a call and back, with the safety of
all of them proved. What is left: of `ImplementsCache`, what holds when `strdup`
may fail, where the memory is a list until the first entry without a key is
linked again.

## Not modelled

libclang, libffi and the C functions called (external; what they do to memory is not
described). The values of float and double, which conversions round; that they are
passed is modelled. In a format, conversions that take more than one argument
(`%*d`) and a lone `%` before a field. `_call_fn` and `cinpy_cache_free` and
`clang_bridge_close`, which nothing calls. Header search (`_resolver.py`,
`_loader.py`) and library search and proxies (`_libloader.py`, `_libproxy.py`): they
run compilers, look for files in an order and call through ctypes, and keep no state
beyond a memo whose entries are all alike. The `COnly` holders themselves, which
keep the last value assigned. The vendored headers and libraries, except the kinds
of `Index.h`: third-party code, almost all of the repository's lines. Threads that
do not take the GIL.
