# fast_io: formal model

fast_io is a header-only C++20 library for input and output. This directory holds TLA+ modules
that model the parts of it whose correctness depends on order, failure, interleaving, ownership
or arithmetic at its limits, the TLC configurations that check them on small instances, and TLAPS
proofs of the most important properties for every value of the constants. Paths below are
relative to `src/include/` unless they start with `src/`; file names without a directory are
those of the table in section 1.

1. [The system](#1-the-system): its components, their state, and what is hard about them
2. [The modules](#2-the-modules): how each one corresponds to the code
3. [The runs](#3-the-runs): what each one asks, its bounds and its fairness
4. [The proofs](#4-the-proofs)
5. [Where the code and its documents disagree](#5-where-the-code-and-its-documents-disagree)
6. [What is not modelled](#6-what-is-not-modelled)
7. [The plan](#7-the-plan)

## 1. The system

A fast_io stream is a small object around a device. Layers are templates, put together by the
user: a platform handle (`posix_file`), a buffer in front of it (`basic_obuf`, `basic_ibuf`,
`basic_iobuf`), a mutex around it (`basic_iomutex`), a function over it (`otransform`,
`itransform`). All of them answer the same free functions (`write`, `read`, `put`, `flush`,
`seek`, `obuffer_curr`, ...), and the front end (`print`, `scan`, `transmit`) picks the best way
that the stream at hand offers. There is no run-time system and no thread of the library's own,
except in `thread_pool_accept` and `parallel.h`.

| component | state | operations | what it calls | what is hard |
|---|---|---|---|---|
| output buffer, `fast_io_freestanding_impl/iobuf.h:280-531` | block, `beg <= curr <= end` | put, overflow, write, fill_nc, oreserve/orelease, flush, seek, destructor | `write` and `seek` of its handle | device writes that throw in the middle of a call, or are short; five branches by length |
| POSIX descriptors, `fast_io_hosted/platforms/posix.h` | one `fd` per object, the kernel's table | open, dup, dup2, move, detach, close, pipe | system calls | numbers are reused at once by other threads; copies where moves are expected; failure in a delegating constructor |
| stream ownership, `iobuf.h` over `posix.h` | blocks, descriptors and pending characters of several streams | construct, move, assign, destroy | both of the above | three things change hands in three steps, in `noexcept` functions |
| buffered input, `iobuf.h:82-278` with `fast_io_core_impl/{igenerator,skip,read_write_all}.h` | block, `beg <= curr <= end`, what the client has read | read, read_all, iteration, skip_until, skip_line | `read` of its handle | direct reads that bypass the block; two device reads in one call; short reads; the end |
| mutex streams, `fast_io_hosted/iomutex.h` with `print_scan.h`, `transmit.h` | one mutex per stream | print, scan, transmit and everything else under the lock | the unlocked handle | two mutexes in one call; exceptions under a lock |
| thread pool, `fast_io_network/thread_pool.h` | slots, condition variables, workers | accept loop, worker loop | `accept`, `close` | slots are shared without a lock; lost notifications; failure of accept |
| processes and pipes, `fast_io_hosted/process/posix.h`, `posix.h` | `pid`, pipe ends, a descriptor table in every process | pipe, fork, redirect, exec, join, detach, moves, the waiting destructor | system calls | ends that stay open in a process nobody thinks of; a reader waits for all of them; exceptions in the child; numbers of children that come back |
| transforms, `fast_io_freestanding_impl/transformers/` | block and position, on either side | write, put, flush, move, close; read, underflow | a function and the stream below | functions that take part of their input; pairs of characters that fall into two blocks |
| print front end, `fast_io_core_impl/{print_scan,internal_temporary_buffer,overflow,ospan}.h` | a temporary buffer that grows | print, println | `write` of the device | growth; devices that take less than they are given |
| parallel print, `fast_io_hosted/parallel.h` | shares, spans, threads | spawn, work, join, collect | threads, the stream | which share takes the remainder; results that live in the caller; a thread that cannot be made |
| transmit, `fast_io_core_impl/{transmit,transmit_once,read_write_all}.h` | the source's block | transmit_once, write_all | `underflow`, `write` | a call that throws between writing and forgetting |
| synchronised output, `fast_io_core_impl/sync.h` | a string, a flag | write, flush, move, destroy | `write` of a log | what a moved-from stream still does |
| mapped output, `fast_io_hosted/omap.h`, `platforms/posix_mapping.h` | mapping, position, file length | construct, write, put, grow, move, destroy | mmap, fallocate, truncate | the file is longer than the text until it is closed; a moved-from object still cuts it |
| open modes, `fast_io_core_impl/mode.h`, `platforms/{posix,win32,nt}.h` | none | four tables | `open`, `CreateFileW`, `NtCreateFile`, `fdopen` | one mode, four tables |
| Windows handles, `platforms/{win32,win32_mapping}.h`, `fast_io_driver/{win32_memory,win32_internet}.h`, `fast_io_network/win32_library.h` | a handle per object | construct, copy, move, assign, close, detach, destroy | `DuplicateHandle`, `CloseHandle` | seven classes, no two of which declare the same; numbers that are used again |
| Windows processes, `fast_io_hosted/process/win32.h` | flags of shared handles; two handles per object | guard, create, join, detach, moves | `SetHandleInformation`, `CreateProcessA` | the flag belongs to the handle, not to the thread that raised it |
| C streams, `fast_io_legacy_impl/c/` | glibc's `FILE` | open, write, put, print, flush, seek, close | stdio and its pointers | two libraries write into one buffer |
| numbers, `natural.h`, `fast_io_core_impl/{unsigned_extension.h,integers/}` | none | arithmetic on several words, print and scan of integers, size headers | none | carries, overflow, sizes |
| text conversions, `fast_io_freestanding_impl/code_cvt/utf.h` | none | UTF-8 to UTF-16 | none | bad encodings, signed characters, chunks |
| floating point, `fast_io_freestanding_impl/floating_point/` | none | shortest text, text of a precision, reading | tables of powers | rounding, half to even, the ends of every range |
| ciphers, `fast_io_crypto/` | round keys; the counter or the last block of a mode | speck, rc6, aes; ecb, cbc, ctr | the processor's instructions for AES | key schedules; that the inverse undoes each round; what a mode carries from call to call |

Components interact in three ways. A layer calls the one below (buffer to handle, mutex stream
to buffer, print to device), so an exception or a short count of the lower one is an outcome of
every call above it. Layers own each other by value, so copying, moving and destroying a stream
copies, moves and destroys a handle and a block. Threads share a stream only through
`basic_iomutex`, a process only through its descriptors, a parallel print through the spans of
its caller, and the pool's threads share slots directly.

What makes a component correct:

* output buffer: it cannot be told from the plain file behind it, by content or by offset, as
  long as the device takes what it is given;
* descriptors: open descriptors and owners match one to one, and a call on one object changes
  what no other object refers to;
* stream ownership: each character is in its file or pending for it, exactly once, and each
  block has one stream that frees it;
* buffered input: clients read the source in order, without gaps, and are told of its end only
  there;
* mutex streams: each call takes effect at once, and every call returns;
* thread pool: a connection has one owner, and is served;
* processes: every process has the descriptors that redirection promises and no others of its
  pipes, a child has one object that waits for it, and no wait is for ever;
* transforms: each character goes through the function once, in order, in the pieces that the
  function wants, whatever pieces it came in; and comes back through the inverse;
* print, parallel print and transmit: what reaches the device is what was given, in order and
  once, unless a call met trouble; memory is there for what is stored in it; every call ends;
* synchronised and mapped output: what was written is in the file, once, at the latest when the
  object goes away, and what is lost has a named reason;
* open modes: the tables agree on what becomes of a file;
* Windows handles and processes: what is open has one owner, whatever the class; a child inherits
  its streams, and the flags are afterwards what they were;
* C streams: a FILE shared with stdio has what both wrote, in order;
* numbers, text and floating point: the result is the one of the integers, of Unicode, of the
  rational numbers, for exactly the operands that the property names;
* ciphers: what was enciphered is deciphered by the inverse with the same key, in every mode, and
  the round keys are those of the published cipher for the keys that the property names.

`PROJECT.json` lists every component, the modelled and the other ones, and under "hazards" the
lines of the code where something can go wrong that a test hardly reaches, with the properties
that watch over them.

## 2. The modules

| module | what it is |
|---|---|
| `Spans` | `Copy` and `Run`: copying a range of characters, filling one |
| `FileStream` | abstract: an unbuffered output device |
| `Obuf` | `basic_obuf`, implements `FileStream` |
| `FdTable` | the kernel's descriptor table, as the system calls in posix.h use it |
| `FileRefs` | abstract: objects that refer to files, or to what a handle of Windows stands for |
| `PosixFile` | the handle classes of posix.h, over `FdTable`, implements `FileRefs` |
| `ObufMove` | several `basic_obuf` over POSIX files: an instance of `PosixFile` plus blocks and pending characters |
| `InputStream` | abstract: an input that is read in order to its end |
| `Ibuf` | `basic_ibuf` under its clients, implements `InputStream` |
| `AtomicStreams` | abstract: calls that take effect in one step |
| `MutexStream` | `basic_iomutex` under print, scan and transmit, implements `AtomicStreams` |
| `ThreadPool` | `thread_pool_accept` |
| `Process` | `posix_jprocess` and pipes, over an `FdTable` for every process |
| `Transforms` | `otransform` with its functions, and an `itransform` that reads back what it made |
| `Printing`, `Console` | the stream without a buffer and the temporary one, print, println and parallel print; these with transmit_once and write_all in one program |
| `CStream` | open modes, and a `FILE` opened with them |
| `SyncedFile`, `MappedFile` | `basic_fsync`; `basic_omap` |
| `Win32Handles` | the classes that own a handle of Windows, implements `FileRefs` |
| `Win32Process` | `basic_win32_process` and `priviledge_guard`, in several threads |
| `Devices` | a program that uses what one of the last four rows has |
| `Words`, `BigNumbers` | machine words; `natural` and `basic_unsigned_extension` |
| `TextConversions` | writing and reading integers, size headers; UTF-8 to UTF-16 |
| `Floats` | formats, the arithmetic of Ryu and printing; reading, and a caller of both |
| `Ciphers` | block ciphers, their key schedules and modes |
| `Numbers` | a caller of everything in the last four rows |
| `ObufProofs`, `PosixFileProofs`, `ObufMoveProofs`, `StreamProofs` (of `Ibuf` and `Transforms`), `MutexStreamProofs`, `ThreadProofs` (of `ThreadPool` and `Console`), `DevicesProofs`, `ProcessProofs` | theorems |
| `MCObuf`, `MCPosixFile`, `MCObufMove`, `MCIbuf`, `MCMutexStream`, `MCProcess`, `MCTransforms`, `MCConsole`, `MCNumbers` | instances for TLC |

The definition-by-definition correspondence with source lines is the "map" of `PROJECT.json`.
Operators whose parameters are operators themselves (`Ripple`, `FrontWord`, `BitsWide`,
`BitsWideWord` and `Places` of `BigNumbers`, `While` of `Floats`, `Four` of `Ciphers`) are shared
shapes of loops and are mapped through the definitions that use them. Some modules have operators
introduced by the comment "A bug:". They are what an action would be if the code had that bug, are
not part of the specification, and show that a property notices.

Pointers are offsets: a block is a function on `1..Size`, `curr` is the number of characters
before the pointer. Characters are model values or the numbers of their places in a text. History
variables (named so where they are declared) record what happened; a guard reads one only to
bound the model, or to keep a client to what it may do.

### Obuf

`warm`, `mem`, `curr` are `obuffer` (null until the first call that needs it: "cold"), `file`
and `pos` the device. An action per call, with one disjunct for each branch of the code: `Put`
(store, `overflow` cold and warm), `Write` (`details::obuf_write`: the text fits; the buffer is
cold and the text goes straight through, or starts the block; the block is completed and written
and the rest is kept, or written with a second device write), `PrintReserve` (`oreserve` grants
the place only when *more* than n characters are free), `FillNc` and `FillStep` (the loop of
`fill_nc_bad_path`, one step per device write), `Flush`, `Seek`, `Close`. A device write takes
everything, or, as far as `Faults` allows, throws (nothing taken) or takes a proper prefix and
says so in a return value that iobuf.h does not look at.

`want` and `wpos` are the file and offset that the same calls leave without a buffer. A call
that throws counts for the part of its text that the buffer or the device has taken: nothing for
`write` and `put`, the characters already filled for `fill_nc`. `fault` names the first event
after which nothing can be promised: a short write ("short"), characters still counted as
pending although the device has them ("stale"), an exception swallowed by the destructor
("swallowed").

### PosixFile, FdTable, FileRefs

`table` maps descriptors to open file descriptions, `ref` gives the `fd` of each object.
`basic_posix_file` declares a destructor, so it has no implicit moves: moving one duplicates it
(`CopyConstruct`, `CopyAssign`), while its base `basic_posix_io_handle` moves (`MoveConstruct`,
`MoveAssign`) and has no destructor. `detach` puts a number into `loose`, from where the
constructors that take an `int` adopt it. An open with `ate` (`OpenAte`, `SeekEndLocal`,
`Unwind`) takes as many steps as it makes system calls, because other threads may be given the
number in between; `harmed` records that this happened. A `basic_posix_io_handle` is dropped only
when it holds nothing: it has no destructor, so dropping one with a descriptor leaks by design.

### ObufMove

Objects, descriptors and the table are an instance of `PosixFile` in which every file is the
handle of a stream. To them it adds the heap of blocks, each stream's block and the characters
pending in it, and what is on disk. It abstracts the branches of `write` (module `Obuf` has
them) and keeps the order of the three steps of a move assignment: write what is pending, then
`dup2`, then `basic_buf_handler::operator=`. An exception in a `noexcept` operation ends the
program (`up`). Because assigning one stream to another redirects the descriptor and does not
replace it, a character's destination is the description its stream names when it is *written*;
`EachCharacterOnce` says that this is still the one it was written for.

### Ibuf

`curr`, `end`, `mem` and `warm` are `ibuffer`, `at` is how much of `Source` the device gave.
`call` is the call in progress for those that loop: `read_all`, an iteration, `skip_until`,
`skip_line`. Each step makes at most one device read (`details::ibuf_read` can make two, in
`Ample`, and no other call can run between them). The branches of `ibuf_read` are `FromBlock`,
`Straight`, `Patched`, `Short` and `Ample`. The client's side is `got` and `taken`, and `told`
says that the last step told it of the end. A device read returns one character up to what was
asked for, none at the end, or throws; `gap` records that the second read of a call threw after
the first had taken characters.

### MutexStream, AtomicStreams

`owner` is the mutex of each stream, `pc` and `call` where each thread is. `print` and `scan` hold
one mutex for all their arguments; `transmit` prints to its output an argument that locks the
input, and so takes the output's first, then the input's, and gives them back in reverse. A round
of a transmit has two halves with `pc` "half" in between: from a `basic_ibuf` (`Buffered`), it
writes the block (`WriteBlock`) and then refills it (`Underflow`), which is when the block counts
as read; from a handle it reads an array (`ReadArray`) and then writes it (`WriteArray`). `block`
is what is in either. An exception may come at every step under a lock, so a refill that throws
leaves characters that are delivered and not consumed, which the next call delivers again, and a
write of an array that throws leaves characters that are consumed and not delivered.
`AtomicStreams` allows exactly that, of a call that threw: at most what one read of the device
gave. `log` and `taken` are what was written and read, step by step; `log0` and `taken0` are the
same without the call that is still in progress, updated when it gives its inner mutex back: the
step in which `AtomicStreams` lets the call happen.

### ThreadPool

A slot is a `std::optional`: `full` is its flag, `value` its payload. The caller touches slots
without their mutexes and each worker locks only its own, so the mutexes exclude nobody and are
left out; every access to a flag or a payload is a step, and a worker's way from looking at its
flag to sleeping takes two (`Look`, `Sleep`). `flagFirst`, chosen in the initial state, is the
order in which `optional::reset` lowers the flag and destroys the payload, which the C++ standard
leaves open: libstdc++, the library of the compiler that readme:68 names, lowers the flag first.
Between the two the caller may fill the slot, and then the destructor closes what it finds there;
`cut` records the descriptors that were closed in this way.
The flags are plain variables in the code and reading them is a data race; they are treated as
atomic here, so the model shows what goes wrong on the friendliest build. When `accept` throws,
the caller's objects are destroyed in reverse (`AcceptFails`, `Unwind`): the slots, the condition
variables, whose destructors wait for those asleep on them, and the joinable threads, which
terminates the program.

### Process

`tab` is the descriptor table of every process, each an `FdTable` (the system calls of
`PosixFile` and `ObufMove` are the same operators). `scope` holds the parent's pipes and
`posix_jprocess` objects in the order of their construction, in which its end destroys them in
reverse. `Spawn` is the constructor: the child gets a copy of the table and of the numbers
(`copy`), while the parent closes the ends it gave away (`redirect<n, true>`) and sets their
numbers to -1. `Exec` performs the redirections in the order of the code and starts the
program or throws in the child; the program then copies its input to its output, a character at a
time, as the one of `src/examples/0016.process` does. Calls that may block (`Join`,
`MoveAssign`, `Destroy`, `BeginRead`) set `pc` and return in another step, so that children run
meanwhile. `number` is what `waitpid` knows a child by: a child may get the number of one that
was reaped, which is what makes a second wait for it dangerous. Nothing closes on exec, as in the
code. An end is closed by a move assignment of the base class, `basic_posix_io_handle`, from an
empty handle (`posix.h:265`). The `close()` that the example calls is not a member of the class, and
assigning an empty `posix_file` copies, as the class declares a destructor: that is `dup2(-1, fd)`,
which fails and throws.

### Transforms

A character is named by its place in the text and carries the numbers of the cipher calls it
went through, so that one handed over twice, dropped, or enciphered twice or out of turn shows.
`Write` copies what fits with room to spare; otherwise `Turn` is one round of the loop of
`otransform_write`: fill, hand over, keep what the function left. `Put` has the branch of
`overflow`, which ignores what the function left; `Flush` leaves `position` where it is; `Close`
is common to the destructor and the move assignment, and swallows exceptions. The functions
are `AsText` (binary_to_text), `WholeBlocks` and `FlushProxy` (block_processor). `FlushProxy`
runs wild when there is no rest to pad (`pkcs7_padding.h:15`), and nothing follows a wild store.
The second half reads the finished text back through `text_to_binary` (`ReadProxy`), by `ReadBack`
and by `Underflow`, with a `\r` and its `\n` in any two blocks.

### Printing, Console

`out` is a device, whose writes may take a part or throw (bounded by `MaxTrouble`), or a span of
memory, which the program makes large enough. A character is its place in what the call is given
(or in the source of a relay), so that "in order" and "each once" are statements about numbers, and
a text is an interval of places (`Text(a, b)`). A temporary buffer is a record of text, capacity and
the fact that a store left it (`wild`). `Write` grows it to twice its size or to the length of the
text, as `write_bad_case` does, so `wild` is reached in the model as in the code, and nothing
follows it. `print` and `println` are given one of the lists of arguments in `Calls`: four kinds,
each with the places where it, and each element of a range, begins and ends (`cuts`). They choose
whether the arguments go to the stream directly;
`PrintArg` handles one, `PutNext` a character of one that is put character by character, and
`Return` hands over what was collected. A range is printed in parallel by
`Spawn` (a span and a thread), `PrintOut` (a thread prints its share and stores the span at its
end), `OwnElement` and `Own` (the caller's share), `Join`, `Collect`, with an exception at every
step that can throw (`SpawnThrows`,
`OwnThrows`, `ParallelThrows`) and the unwinding that joins the threads. `Console` adds
`transmit_once`, as three steps (write the rest of the block, refill, write the block), and
`write_all`, a step for each device write, and lets a program make call after call without a
bound: what a call gave is forgotten when the next begins, so the state space stays finite.

### CStream

`Flags` are the flags of `open_mode` that decide what becomes of a file. Each of the four tables is
an operator from a mode to what its system call does (opens or not, leaves the text or not, gives
which rights), and `Asked` is what mode.h's own comment table says of the C name of the mode.
Flags that pass through are left out. The FILE has glibc's buffer as pending text and an offset;
`WriteEnd` is the end that glibc keeps for each kind of buffering, which `put`, `write` and `print`
compare with, each in its own way. What stdio itself does (`Fwrite`, `Stdio`, `Deliver`) is
external and modelled from its promise.

### SyncedFile, MappedFile

The streams of `SyncedFile` share a log that is opened for appending. A move copies the descriptor
(posix.h has no move for a file), clears the flag of the source, and never sets that of the target;
`late` records what was given to such a stream. In `MappedFile` a store is in the file at once;
growing maps again; the destructor cuts the file at its position. A moved-from object still has its
descriptor and cuts the file at its own position, 0: `state` records that.

### Win32Handles, Win32Process, Devices

`kind` says of which class the objects at a place are, and `Copies`, `Moves`, `Destroys`, `Detaches`
and `Adopts` what each class declares: `basic_win32_file` has a destructor and no move, so that
moving it duplicates its handle; `basic_win32_io_handle`, its base, has moves and no destructor;
mappings, views, internet handles and libraries are moved and not copied. `hd` is the handle in
an object, `open` what the system has under each number. Calls of the system are steps, so that a
number that one object closed can be another's before the first closes it again. Two members
close twice: `close()` of a file, whose test of `CloseHandle` is the wrong way round (`CloseFile`;
`shut` records the objects that keep the number), and the constructor that attaches a file to a
completion port (`OpenAsync`, `Attach`, `UnwindAsync`). `harmed` becomes true when that hits
another's number, and nothing follows.

`Win32Process` has the constructor a call at a time (`Begin`, `Look`, `Raise` for each of the
three guards, `Create`, `Lower`, and `Throws` before any of them), in two threads with the same
handles. `alone` and `undone` record which constructors no other overlapped and which lost a
flag to another's guard. The objects then join, detach, move and end (`jn` is the parameter of the
class, whether its destructor waits); a wait is a guard on the child's end.

`Devices` picks the FILE, the log, the mapped file, the handles or the processes at the start;
they share nothing but the file system's promises.

### Words, BigNumbers, TextConversions

Numbers are calls of functions without state: `Numbers` and `Floats` pick an operation and operands
that a program can have, and the next state has the result. The functions are translated limb by
limb, with the carry and borrow tests of the code as they are (`Carried`, `Borrowed`), shifts by
the width of a word as a processor that masks the count does or one that does not (undefined
behaviour: both), and words of `2 * HalfBits` bits that wrap. Digits come in groups as the tables
give them. Reading has the detection of overflow for unsigned and signed types and the path for
types of 128 bits. The second part of `TextConversions` has the automaton of `utf_util_table`, as
transitions between classes of bytes, the chunks of SSE, and signed characters.

### Floats

A format is a record of the bits and limits of `floating_traits`; `kind` selects the
branches that differ between float, double and long double. `Start` and `Shorten` are the
beginning and the loop of `output_shortest`, with the flags for trailing zeros that decide the
rounding; `FixedLayout`, `ScientificLayout` and `Layout` place the digits. The text of a given
precision is made of blocks from the first of the whole part and from the point of the fraction,
cut and rounded, with a carry that goes back through the text. Reading gathers a significand and
an exponent of a type that wraps and rounds them to bits. Abstractions: the products with an
entry of a table are exact (`Scaled`), where the code multiplies by an entry of 128 bits, which is
enough for float and double and is not for long double (`generic_compute_pow5_inv`,
`operations.h:128`, uses the wrong correction table); the factors of `log10` have fewer bits,
enough for the formats of the instance; entries are computed for each exponent and not for each
group of 16; blocks have 2 digits and not 9.

### Ciphers

A block is a pair or a quadruple of words, a column of AES a quadruple of bytes. Keys are
expanded and rounds made as in the code, in the order in which it makes them. What the
instructions for AES do (`aesenc`, `aesimc`, `aeskeygenassist`, ...) is external and follows their
definition, on a state of 4 by 4 bytes whose field has 16 elements and whose substitution box is
a constant. `Cbc`, `CbcInverse` and `Ctr` carry a block from one to the next, and the first
counter is made of a nonce and a byte-swapped number (`CtrStart`). Which characters reach a
cipher, and when, is the subject of `Transforms`.

## 3. The runs

| run | result | properties | distinct states |
|---|---|---|---|
| `obuf` | holds | `TypeOK`, `BufferingIsInvisible`, `SmallWritesAreGathered`, `ImplementsFileStream` | 7,517 |
| `posix_file` | holds | `TypeOK`, `DescriptorsAreOwned`, `ImplementsFileRefs` | 9,450 |
| `obuf_move` | holds | `EachCharacterOnce`, `BlocksAreOwned` | 1,560 |
| `ibuf` | holds | `TypeOK`, `BlockFollowsSource`, `ImplementsInputStream`, and no deadlock | 3,186 |
| `mutex_stream` | holds | `TypeOK`, `ImplementsAtomicStreams`, `EveryCallReturns` | 292,583 |
| `thread_pool` | holds | `TypeOK`, `ConnectionsAreOwned`, `ServedOrForgotten` | 309,684 |
| `thread_pool_lost_wakeup` | violated | `EveryConnectionServed` | |
| `process` | holds | `DescriptorsAreCurrent`, `OneWaiter`, `CallsEnd` | 392,344 |
| `transforms` | holds | `EachOnce`, `NothingDropped`, `RoundTrip` | 958,282 |
| `console` | holds | `TextInOrder`, `MemoryIsThere`, `RelayedOnce`, `CallsReturn` | 162,270 |
| `devices` | holds | `ModesAgree`, `SharedFileAgrees`, `LogIsComplete`, `MapIsText`, `HandlesAreOwned`, `HandlesImplementFileRefs`, `ChildrenAreInOrder` | 611,546 |
| `numbers` | holds | `NaturalArithmetic`, `ExtensionArithmetic`, `TextIsConverted`, `FloatsAsText`, `TextIsDeciphered`, and no deadlock | 527,543 |

To run one: `tlc -config MCObuf.cfg MCObuf`.

In the last five runs most properties are conjunctions of named parts, each with a comment of its
own; one of them contains the type invariant of the module (`TypeOK`), as `BlocksAreOwned` does.
`PROJECT.json` lists, under "mutants", for each property at least one changed definition that it
notices, and for most of the parts one.

**Bounds, and why they are enough.**

* `obuf`: a block of 2, texts of 1, 2 and 3 characters, reserves of 1 and 3, fill counts of 1, 4
  and 5, a file of 5. Every comparison in `obuf_write` is between a length and the free space or
  the block size, so texts on both sides of each, at each fill level, take every branch, the two
  device writes of `SpillAndPass` included; the fill counts run the loop zero, one and two times,
  with and without a rest. `Limit` bounds the offset: a call is made only when its text fits.
* `posix_file`: five objects and three descriptors, so that the table fills, numbers are reused
  between the two closes of a failed open, and dup2 hits a shared description.
* `obuf_move`: three streams, two files, three descriptors, blocks of one character: two
  characters in one stream already make it write. Characters are distinct and used once, so a
  lost, repeated or misrouted one is visible.
* `ibuf`: a block of 3, a source of three blocks, requests of 1, 3, 5 and 7: less than a block,
  exactly one, more than what is left and a block. Every split of the source by the device is
  explored, so all fill levels occur with all requests.
* `mutex_stream`: three threads, one call each, over three streams, two of which have a block: a
  chain of two transmits with a print or a scan in the middle of it, transmits between the same two
  streams in opposite orders, and one of a stream to itself. Streams have one or two characters and
  a read gives one or two, so a transmit takes one round or two, and a call that comes after one
  that threw finds what that left in the block.
* `thread_pool`: either order of reset, two workers, three descriptors: connections are served,
  wait in slots and in the caller's hand at once, all slots can be full, and a number comes back
  while older connections are around. The run that is violated has the same bounds, without
  failures.
* `process`: two pipes, two objects, two children, seven descriptors, which is as many as the three
  standard streams and both pipes need; a pipe takes one character. That is a pipeline of two
  programs, in which the first can be started before or after the second, an object can be
  assigned over, and a number of a reaped child comes back. The arguments are those of
  `src/examples/0016.process`. With a third object `OneWaiter` has one more case (section 4); that
  instance (`Obj = {1, 2, 3}`, without `CallsEnd`) has 1.84 million states and was checked as well.
* `transforms`: two objects, blocks of three characters for a cipher of two (so a block of the
  stream is no multiple of the cipher's), an input block of 2, writes up to 4, reads up to 3, one
  flush or exception. Texts hold the line ends that fall on both sides of a block's end.
* `console`: a temporary buffer of two characters, texts on both sides of it, one and three
  threads (which divides ranges with and without a remainder), every list of one or two of five
  arguments, one write that comes short or throws, a source of two blocks.
* `devices`: a FILE of four characters and five to write, numbers of up to two, so that it fills,
  overflows and is passed by; every open mode, on a file that is there and one that is not; two
  synchronised streams with four characters and one spoiled write; two objects and two files that
  are mapped, from one character to four, which grows the mapping twice and meets the end of the
  device. Three objects of one class, or io handles and files, over three numbers and two things to
  open, so that the numbers run out and come back and a pair of a pipe is closed under a third
  object; two threads that each build a process, with the same two handles in either order, and two
  objects, used when no constructor runs, which looks at no object.
* `numbers`: words of 4 bits with the limbs 0, 1, 7, 8 and 15 (zero, one, both sides of the top
  bit, all ones), up to three limbs, shifts up to two words and one; bases 2 to 4; integer types of
  4 to 10 bits, of which every text is read, and the edges of one of 29 bits with the path of 128;
  texts of at most four bytes out of fifteen, of each class of the automaton and both ends of it,
  with chunks of two; and three floating point formats of 5 or 6 bits of mantissa and 5 of
  exponent, every number of which is printed in every mode and with precisions up to 8, beyond all
  their digits. Nothing in the code depends on the width of a word or a format but the tables.
  The ciphers have words of four bits (a column of AES four such bytes), six rounds of speck,
  three of rc6, and the 10, 12 and 14 of AES; messages are two or three blocks, so a mode carries
  its block on twice.

**Constraints.** `Intact` (obuf), `Unharmed` (posix_file), `Tight` (obuf_move) and `NoGap` (ibuf)
cut off what comes after the *first* fault of a kind that section 5 describes: the state in which
the fault shows is still checked, its successors are not. Each property is stated relative to that
fault. The later models say the same in their guards: nothing follows a store outside a block
(`wild`), and properties name the history under which they hold.

**Symmetry** is used in the instances of `PosixFile` and `ObufMove`, in which objects,
descriptions, blocks and characters are interchangeable, and which check invariants and a
refinement without fairness. Descriptors are numbers and compared (`open` returns the lowest), so
they are not permuted. The liveness runs use none.

**Deadlock** is checked in `ibuf`, whose client can always read on, and in `numbers`, whose caller
can always call. In the other runs the system may stop: all objects are destroyed or the bound on
the file is reached, every thread has made its calls, the program has terminated or stored outside
its memory.

**Fairness.** `Obuf`, `PosixFile`, `ObufMove`, `Ibuf`, `Transforms`, `Devices` and `Numbers` are
safety only: they are called, and nothing obliges a client to call. `MutexStream` assumes weak
fairness of each thread's steps inside a call (`Step`), which says that a thread that can run,
runs; not that threads begin calls, and not that a mutex is fair, which finitely many calls do not
need. `ThreadPool` assumes it of the caller and of each worker, which includes that `func` returns,
which the code cannot do without; it assumes nothing of clients (`Accept`), of failures, and of
spurious wakeups, which the C++ standard permits and does not promise. `Process` assumes it of the
parent inside a call or a destructor (`ParentGoesOn`) and of each child (`KidStep`): the kernel
runs what can run, and a program at the end of its input ends. `Console` assumes it of the steps
inside a call and of the threads of a parallel print; a write of `write_all` that takes nothing is
a stuttering step there, so weak fairness says that the device takes something again and again.

**What they show.** The passing runs show that buffering, in either direction, cannot be seen by a
client until one of the named faults; that descriptors have one owner through every sequence of
copies, moves and detaches; that characters keep their destination through moves of streams; that
locked calls are atomic, but for a block that a transmit that threw repeats or loses, and return
unless transmits wait for one another in a ring (`InRing`); and that a pool serves every connection
unless it loses a notification, and each has one owner but those that a reset has cut.
`SmallWritesAreGathered` is the reason the buffer exists: a call that adds characters and touches
the device gives it at least a block. They show that a pipeline ends in any order of its steps when
its program gives its ends away, and that no process holds an end it should not; that a transform's
output does not depend on the pieces in which its input comes; that a print on a device that fails
is still in order and without repetition; that the FILE of glibc can be written by two libraries
unless it is line-buffered; and for which operands, exactly, the arithmetic and the conversions are
right. Where a property is an equivalence (`<=>` with the case that fails), the run shows both that
the other cases are right and that this one is wrong.

## 4. The proofs

| theorem | statement |
|---|---|
| `ObufProofs!TypeCorrect`, `Invisible` | `Spec => []TypeOK`, `Spec => []BufferingIsInvisible` |
| `ObufProofs!Refinement`, `Gathered` | `Spec => ImplementsFileStream`, `Spec => SmallWritesAreGathered` |
| `PosixFileProofs!TypeCorrect`, `NoLeakNoDoubleClose`, `Refinement` | `[]TypeOK`, `[]DescriptorsAreOwned`, `ImplementsFileRefs` |
| `StreamProofs!TypeCorrect`, `BlockFollows`, `Refinement` | `[]TypeOK`, `[]BlockFollowsSource`, `ImplementsInputStream` of `Ibuf` |
| `StreamProofs!HandedOverOnce`, `NothingIsDropped`, `TextComesBack` | `PipeSpec => []EachOnce`, `[]NothingDropped`, `[]RoundTrip` of `Transforms` |
| `MutexStreamProofs!TypeCorrect`, `Refinement` | `[]TypeOK`, `ImplementsAtomicStreams` |
| `ThreadProofs!TypeCorrect`, `OneOwner` | `[]TypeOK`, `[]ConnectionsAreOwned` of `ThreadPool`, for either order of `optional::reset` |
| `ThreadProofs!TextKept`, `MemoryKept`, `RelayKept` | `ConsoleSpec => []TextInOrder`, `[]MemoryIsThere`, `[]RelayedOnce` |
| `ObufMoveProofs!CharactersKept`, `BlocksOwned`, `HandlesKept` | `[]EachCharacterOnce`, `[]BlocksAreOwned`, and `DescriptorsAreOwned` and `ImplementsFileRefs` of its handles |
| `DevicesProofs!ModesKept`, `FileShared`, `LogComplete`, `TextMapped` | `[]ModesAgree`, `[]SharedFileAgrees`, `[]LogIsComplete`, `[]MapIsText` |
| `DevicesProofs!HandlesOwned`, `HandlesRefine`, `ChildrenKept` | `[]HandlesAreOwned`, `HandlesImplementFileRefs`, `[]ChildrenAreInOrder` |
| `ProcessProofs!WaitersKept`, `DescriptorsKept` | `[]OneWaiter`, `[]DescriptorsAreCurrent` |

They hold for every block size, alphabet, source, text, set of threads, objects, pipes, children,
descriptors, handles, files and arguments, from the `ASSUME`s of the modules and nothing else.
These say that sizes are positive, bounds and file lengths are natural numbers, texts are
sequences, a block of a cipher is no longer than the buffer of its stream, handles of Windows and
the objects of `Transforms` are numbers other than 0, and the values that stand for nothing differ
from the others; `MutexStream` also assumes that the streams that are scanned have a block, without
which the code does not compile, and `Printing` that a type which announces how much it may print
(`print_reserve_size`) does not print more, which is its contract and what every reservation of the
library rests on (`Honest`).

* **Obuf.** The invariant is not inductive as it stands, because in the loop of
  `fill_nc_bad_path` the block holds characters that are sent several times: a step of the loop
  must know that they are all the fill character. `IInv` is `TypeOK`, that fact (`FillInv`), and
  `Faithful`, which is `BufferingIsInvisible` said entry by entry. Every branch is then a fact
  about `Copy`: two copies one after the other are one copy of the concatenation. The refinement
  adds that each step changes `want` by one text, a prefix of a fill, or a seek. `Gathered` needs
  only `TypeOK` and `WholeWrite`: a device write that was not short
  took all it was given or nothing.
* **PosixFile.** `TypeOK /\ DescriptorsAreOwned` is inductive: one owner, what is owned is open,
  what is open is owned. Each of the three needs the other two: a `dup` result is unowned because
  it was free, a `close` leaves no other owner behind because there was only one. The refinement
  uses them to show that closing or overwriting one entry changes what no other object refers to.
* **Ibuf.** `IInv` says where characters are: the client has `at - (end - curr)` of them, the
  first ones of the source, and the block continues them. After a gap only the lengths remain
  true, which is what `TypeOK` needs from then on.
* **MutexStream.** Besides who holds what (`Owned`), `IInv` says for each thread inside its locks
  what its call has added so far to `log` and `taken`, compared with `log0` and `taken0` (`Fine`):
  a print its pieces, a scan or a transmit the characters after `taken0`, as many as are `Given`. In
  the middle of a round that is what was taken and the block besides, or less the array (`Does`).
  Nothing differs where no call runs (`Settled`), and a block is never beyond the source
  (`Bounds`). Mutual exclusion gives that two running calls have different streams
  (`Disjoint`), and so a step leaves the other threads' part alone (`OthersFine`). A step inside the
  locks is then one lemma about the call itself (`GoesOn`), and the ways a call ends another
  (`PrintEnds`, `TakerEnds`): the refinement maps the release of the inner mutex to the abstract
  call and all other steps to stuttering. A thread that would transmit a stream to itself never gets
  past its second lock.
* **ThreadPool.** The slots, the hand of the caller and the workers are one function from places
  to connections (`Owned`), changed by three kinds of steps (`Comes`, `Moves`, `Closes`).
  `SlotsAreClean` says which slots are empty: the caller moves into an empty place because a flag
  that is down has no payload behind it. With a reset that destroys first, `Destroy` closes
  nothing, because its payload was moved out and its flag is still up; with one that lowers the flag
  first it may close what the caller has just put there, and that number joins `cut` (`IsCut`), about
  which no more is said. The ownership of all the others does not depend on it, since the steps
  about one number leave the others alone.

* **ObufMove.** Its handles are an instance of `PosixFile` with streams for objects: every
  behaviour of the streams is one of that module, and its theorems are cited through the
  instance. What the buffers add has an invariant of its own, `Inv`. It says where every
  character that was written is (`Accounted`: in one block, or in the file it was written for, and
  nowhere twice), that blocks have one owner, and that a stream's descriptor is open and its own
  (`HeldIsOpen`), so that what is pending reaches the file it was written for.
  A move changes the block, the descriptor and the characters of two streams in three steps, and
  each step is a lemma about where the characters then are.
* **Handles of Windows.** `Owned` (one owner, what is owned is open) is inductive only together
  with who is in the middle of a call (`Unfinished`) and which numbers a failed `close()` left in
  its object (`ShutHaveHandles`), and holds until `harmed`. For the refinement each action is
  mapped by itself: which references appear, which go, and that the others keep what they refer
  to. It uses `owns`, the handles without the ones that are only borrowed, since a number in an
  object that does not own it may be closed under it.
* **Synchronised output.** `LoggedOnce` needs that a stream holds only characters that were
  written and are not logged (`LoggedInOrder`), and `OnlyLateTextIsLost` that what a stream without
  its flag holds is `late` (`LateIsStale`). Three lemmas carry all actions: text that goes from a
  stream to the log or the lost (`TextGoes`), from one stream to another (`TextMoves`), and a text
  that is cut in two (`CutText`).
* **Mapped output.** `InOrder` says of each file which object writes it: there is one, or none any
  more, it is at the end of the text, inside its mapping, and the mapping inside the file. The
  lemmas are about one file with the objects as a parameter: its writer stays (`WriterStays`), is
  replaced (`WriterMoves`), calls (`WriterCalls`), or goes (`WriterGoes`), so that an assignment,
  which ends one file and hands over another, is two of them.
* **C streams.** With `trouble = "none"`, what is on disk overwritten with what is pending is what
  an unbuffered file would have (`StdioAgrees`). That is inductive together with `Counted`, which
  keeps the offset inside the file, and `Buffered`, which says when nothing may be pending. The
  step common to all calls is `OverTwice`: a text written over a file from an offset, and another
  behind it, is their concatenation written there. `InsideTheBuffer` follows for the paths that
  check for room, since a number is no longer than the room that is reserved for it.
* **Open modes.** A mode is six flags; the proof restates each table flag by flag (`NameIs`,
  `PosixFlags`, `DispositionIs`), reduces each system to what it does with a file that is there and
  one that is not (`PosixIs`, `Win32Is`, `NtIs`), and compares.
* **Windows processes.** `BuildersInv` follows the three guards of a constructor: the flags that a
  thread must still lower are the ones it raised (`FlagsAreGuarded`), a constructor that no other
  overlapped has undone nothing (`AloneIsAlone`), and those that are passed are up until it has
  created its child (`PassedAreUp`, `CreatedInherit`). `ObjectsInv` says for each object which
  handles it has (`Fits`) and that they are kept until closed (`LiveAreKept`).
* **Who waits for a child.** `OneWaiter` follows from what is true of numbers (`WaitInv`): children
  that can be waited for have different ones (`NumbersDiffer`), a child's owner has its number
  (`OwnersWait`), and an object that is not spent has a child (`UnspentHaveChildren`), so that the
  number it holds cannot be another's. An assignment that blocks must remember that its two objects
  are there and differ (`Assigning`). `UnspentHaveChildren` was not an invariant of the first
  model, in which only an object's own calls made it spent: with three objects, a `join` of one
  that was moved from reaps the child of the second, and the third forks one with the same number
  (section 5). The objects whose child a wait reaped are now counted as spent (`Bereft`).
* **Descriptors of processes.** `TabInv` says that the ends in the parent's table are where its
  numbers say (`Current`), that the same is true of a child's table and its copy of the numbers
  until it calls exec (`Forked`), and what each child has afterwards (`Streams`). Closing the ends
  of a set and forgetting their numbers keeps the first, whatever the set (`Forgets`), which
  covers the assignment, the destructor and what a fork gives away. A redirection is a lemma about
  one table (`RedirectionStep`): nothing appears in it that was not there, the standard streams
  besides its own stay, and a pipe's other end is gone. Three in a row give the streams
  (`RedirectedGives`); that no later one brings a writing end back behind a reading one is
  `ReadersOnly`.

* **Console.** `IInv` has one idea: the place in the text which a call has come to (`Reached`).
  What is still to be printed begins there and ends with the text (`TodoOK`), and what the stream
  has, or the temporary buffer if the call collects, is the text up to there (`TextOK`): all of it
  if nothing went wrong, and otherwise in order and nothing beyond it (`Has`). Every
  action then moves the place over one text, and `Takes` is the lemma about it. In a parallel
  print the place is a cut of the range; that the shares of the threads meet, the first at the
  first cut and the last at the last one, is arithmetic about a quotient and its remainder
  (`Shares`), and that a share is no longer than the span it is printed into is `ShareFits`, which
  is why the second thread gets the remainder's room with the remainder. `JobOK` says at each
  stage how many threads there are: an exception can leave any number, and the spans go only when
  none runs. `TmpOK` is `InsideTheBlock` with the capacity, which never falls
  below the static block: a copy that leaves the buffer is of a text longer than the doubled
  capacity less what is stored, hence longer than the static block. `RelayOK` says that what was
  relayed is before the block, or, between the write of the rest and the refill, before its end;
  the second is what a refill that throws takes back, as the block is still there.

* **Transforms, writing.** `TransformInv` says for each object that is used what its block is, with
  the number `n` of the characters that are below it (`HeldAt`): the block holds the characters
  after the first `n` up to those that were given, each of the first `n` is below unless something
  was dropped, and if nothing disturbed the stream then what is below is exactly what the function
  makes of the first `n` (`Handed`), which for a cipher are whole blocks (`Whole`). For a stream that
  no object holds any more it says the same of all that was given, with the padded end (`LeftAt`).
  `Calm`, that nothing ran wild, and `Holders`, that no two objects hold one stream, go with it: a
  move hands the number `n` on with the block. What an action does with a function is one lemma
  about all results of it, with and without an exception (`ResultsOK`), and one about what
  follows on what is below (`HandedOver`, `Finished`): a text enciphered in two parts, the first of
  whole blocks, is the text enciphered at once.
* **Transforms, reading.** `ReaderAt(d, b, c)` says that the block of the reader is the text from
  `b` to `c`, that the function has taken what was made of the first `c` characters, and that the
  reader got the first `b + position`. One lemma carries both ways of reading: from such a place
  `ReadProxy` gives the next characters, and at least one unless all were read (`ReadProxyReads`).
  It goes by the room that is left in the block, with a case for each of the ways the function has
  with a carriage return. The premise that no carriage return stands before a newline is used where
  one meets the carriage return that the writer put in.
* **Induction over data.** The library's induction takes an operator, which the provers cannot
  instantiate. It is stated here for a set: of the numbers in a set there is a least one
  (`LeastNumber`, from the well-foundedness of the order), so a set that has 0 and with each number
  the next has them all (`AllNumbers`, `AllNumbersFromLess`). With it the recursive functions are
  shown to exist (`FlattenSeq`, and the function in `ReadProxy`), and what they compute is shown
  for texts of every length.

**Only model-checked:** the properties of the run `numbers`, and liveness (`EveryCallReturns`,
`ServedOrForgotten`, `CallsEnd`, `CallsReturn`). Liveness under fairness and `ENABLED` are beyond
the installed prover, and so are RECURSIVE operators, so that no module that is proved about
declares one. `numbers` compares values: a number is a sum over its words or digits, with
powers of a base. Its loops are operators that take operators, or folds, which the provers cannot
instantiate, and the powers `2^w` of a symbolic `w` and the products they stand in are outside the
arithmetic that the provers decide.

## 5. Where the code and its documents disagree

Found while modelling. One is a violation that a run shows:

* **A notification can be lost** (`thread_pool.h:36`, run `thread_pool_lost_wakeup`): the caller
  notifies without the mutex, between the worker's look and its sleep. The connection waits
  forever; no later one comes to that slot. `src/examples/0018.tcp_thread_pool/server.cc:8-10`.

Most of the others are in the passing runs: each is a named case (a fault, a history, one side of
an equivalence) in which the property does not promise anything, or promises the opposite. Those
marked "(read)" are in code that no module has; they were seen in the source only.

*Against a line of `src/readme.md`:*

* A write that throws repeats characters (`iobuf.h:442`). A text longer than the free space and a
  block takes two device writes; `curr` is reset after the second. If that one throws, the block,
  which the device has, is still pending, and is written again. readme:39 "Exception Safe &
  Exception neutral". (`fault = "stale"` in `Obuf`.)
* A long read that throws loses characters (`iobuf.h:224`): the block is refilled after the
  request was met, and when that read throws what the first one took is gone. readme:39. (`gap` in
  `Ibuf`.)
* A failed open with `ate` closes twice (`posix.h:397`), and the second close may hit another
  thread's file. readme:27 "RAII". (`harmed` in `PosixFile`.)
* An assignment loses a block (`iobuf.h:54`): the source's block is tested where the target's is
  meant. readme:27, readme:34. (`ObufMove`.)
* Moving a default-constructed stream terminates (`iobuf.h:323`), since the move duplicates a
  descriptor that is -1, in a `noexcept` constructor. readme:34 "can be natively put in C++
  containers". (`up` in `ObufMove`.)

*Threads and descriptors:*

* `transmit(a,b)` and `transmit(b,a)` in two threads take two mutexes in opposite orders and can
  wait for each other for good; a transmit of a stream to itself locks one mutex twice. Nothing
  in the documents forbids either. (`InRing` in `EveryCallReturns`; the instance has both.)
* A transmit whose refill throws has written a block that it has not consumed, and the next one
  writes it again (`transmit.h:22`); from a handle, a write that throws loses what was read into
  the array (`transmit.h:38`). readme:39. (`Transmit` of `AtomicStreams`.)
* A worker's reset can close a new connection (`thread_pool.h:26`): built with g++, whose libstdc++
  lowers the flag before it destroys the payload, the caller, which looks at the flag without the
  mutex, may fill the slot in between, and the destructor closes the connection that was just
  accepted. readme:27 "RAII", readme:68 `g++`. (`cut` in `ConnectionsAreOwned`.)
* When `accept` throws in the pool the program hangs, or terminates, according to whether a
  worker sleeps (`AcceptFails`, `Unwind`). It cannot return to its caller.
* `join` of a process waits and leaves `pid` set, so that the destructor waits for the number again
  (`process/posix.h:209`); after a detach or a move it waits for any child, and another object's
  wait may then meet a number that is a third one's (`spent` in `OneWaiter`); the example calls a
  `close()` that its pipe does not have; with 126 arguments or more the vector of `posix_exec.h:68`
  is one entry too short (read).
* `basic_posix_pipe::swap` is `noexcept` but makes copies that may throw (`posix.h:570`; read); the
  move constructor of the epoll pool makes another pool (`epoll.h:53`), and its wait passes a
  comparison as the timeout (`epoll.h:190`; both read).

*Output:*

* Short writes are ignored by `basic_obuf` (the fault "short"), by print on an unbuffered device
  (`print_scan.h:305`) and by `basic_fsync`; exceptions of the last write by destructors.
* A write into the temporary buffer of print grows it to the length of the text, not of the text
  and what is there (`internal_temporary_buffer.h:73`), and copies past its end.
* `transmit_once` repeats the rest of a block when the refill throws (`transmit_once.h:24`).
* `otransform`: flush hands the block over and keeps it (`otransform.h:185`); overflow drops what
  the function left (`otransform.h:216`); the padding of a cipher stream that ends at a block
  boundary runs wild (`pkcs7_padding.h:15`).
* A `basic_fsync` that was moved from never synchronises again, not even after an assignment
  (`sync.h:116`). An `omap` that was moved from cuts the file of the new one (`omap.h:44`).
* `close()` of a `basic_win32_file` throws when it succeeded and forgets the handle when it failed
  (`win32.h:639`; win32_memory.h:359 has the test the other way); a file that cannot be attached to
  a completion port is closed twice (`win32.h:628`). Both end in `harmed` of `Win32Handles`.
* Of two threads that create processes with the same handles, one child may miss a handle that the
  other thread's guard lowered, or inherit what was raised for the other (`process/win32.h:73`;
  `undone` and `alone` of `Win32Process`).
* `put` on a line-buffered FILE stores past the buffer and flushes no line (`overflow.h:25`).
* Open modes (`Departs` in `CStream` lists the cases): POSIX does not create the file of "w+";
  win32.h and nt.h refuse some modes with `trunc` and want the file of "a+" to be there, and nt.h
  opens an existing file for `excl`; `{in, trunc}` has no C name.

*Numbers and text* (sides of an `<=>` or conditions of a property in `Numbers` or `Floats`):

* `natural`: `+=` loses a carry that meets a limb of all ones (`natural.h:77`); `-=` takes an equal
  difference for a borrow (`:137`); shifts by a multiple of 64 shift a word by 64 (`:345`);
  division by a number with a zero limb, and powers that become zero, use an empty number.
  `basic_unsigned_extension`: `*=` loses the carry out of a column (`unsigned_extension.h:538`);
  `&=` of a word keeps the high word.
* Reading integers: as many digits as the largest number has wrap without a word unless what
  is left is at most the base; zeros in front count as digits (`sto.h:14`); the first digits of
  128 bits are gathered in 64, whatever the base (`sto.h:86`). A size header of ten bytes may carry
  more than 64 bits (`send_receive.h:17`).
* UTF-8: where `char` is signed, bytes from 0x80 on become wrong units or an endless loop
  (`utf.h:185`).
* Printing floating point with a precision: whole numbers from 2^52 on whose digits end before
  the precision does print their last block again, or fill a negative number of characters
  (`ryu/fixed.h:330-356`); general has 512 characters for up to 1024 digits (`floating.h:79`) and
  ignores its upper-case flag (`ryu/default.h:7`); the upper-case letter of an exponent is `A`
  (`fixed.h:137`); zero in scientific form with precision 0 has no exponent (`fixed.h:215`).
* Reading floating point: 2.2250738585072012e-308 reads 0 (`ryu/sto.h:154`: a significand that
  rounds up to the least normal number), "1e4294967295" reads 0.1 (`:114`), "-0" and "-1e-400" read
  9.2e18 (`:123`), "100000000000000000000e-5" reads 1e7 (`:112`), and a text without digits reads 0.
  These were reproduced with g++ 12 on the numbers given. Not all powers of two of a long
  double are read back (`ryu/tos.h:164`).

## 6. What is not modelled

* *Data.* Tables of powers of five, error messages of Windows (`nt_error_*.h`), EBCDIC,
  hashes; they are a large part of the lines of the repository. `grisu_exact.h` is
  included by nothing.
* *Code that no program can instantiate at this commit:* `seek` and `overflow` of `basic_ibuf`
  and its `discard(in,n)` name members that do not exist; `zero_copy_transmit`
  (`posix.h:642-748`) is declared where `transmit.h:102` does not find it; a sized transmit from
  a `basic_ibuf` and the random-access transmit of mutex streams do not compile; nor do the
  printing of IPv6 addresses, the tests of the ciphers, and the examples for DNS, HTTP and epoll.
* *Other kernels.* The native handles of nt.h can be neither copied nor moved; `nt_fork` uses calls
  that no system documents, and is included by nothing; `basic_socket` does not compile on Windows
  (`socket.h:71` gives a number of 64 bits to `CloseHandle`). Reading and writing through a handle of
  Windows is as through a descriptor. The buffer, input, mutex and pool modules do not depend on
  the platform.
* *Adapters* to C++ streams, OpenSSL, Asio and MFC: the state is the other library's. Of C
  streams, input, cookies and the C libraries of Windows are left out.
* *Dynamic streams* (`io_io_file.h`): a virtual table that forwards. *tie* and mapped inputs: one
  call each. *Event loops*: one descriptor and one system call. *Sockets*: addresses and options
  are data, listening and connecting one call each.
* Inside modelled components: `swap` of two mutex streams takes no lock and is left out, as are
  `scan` with `report_eof` and reads of other element types; `truncate` and `redirect_handle` of
  POSIX files; `posix_process`, which is `posix_jprocess` without waits; `seek` of transforms;
  `oreserve` of `omap`, which no caller can use; widths and the comparisons of `natural` with a
  word. What a thread of a parallel print or `func` of a pool throws terminates the program.

## 7. The plan

The order was: what every program uses (output buffer), what it stands on (descriptors), the two
together (ownership), then input, then threads; then processes, transforms, print and transmit,
the devices, and the pure functions. What is left, in this order:

1. **Proofs** about `BigNumbers` and `TextConversions`: their loops written as recursive functions,
   then by induction over limbs and digits as for `ReadProxy`, with the laws of powers as lemmas.
2. **Refinements** of the newer modules: `Transforms` implements `FileStream` with a transformed
   content; `CStream` implements it as it is.
3. **Compositions**: `Ibuf` and `Obuf` under `transmit`; `Process` with `MappedFile`.
4. **Dynamic streams** and the epoll pool, once a program can instantiate them.
