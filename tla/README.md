# Verification of cjit

cjit compiles C sources in memory with an embedded TinyCC and runs the result, or writes an
executable or an object file. This directory holds TLA+ models of the program, the
configurations with which TLC checks them on small instances, and theorems that TLAPS checks
for every instance. Paths are relative to the root of the repository below `src/`, so that
`src/main.c` is `src/src/main.c` in `PROJECT.json`, which also gives the lines each definition
stands for.

    tlc -workers 2 -config cache_overlap.cfg MCRuntimeCache     # a run
    tlapm RuntimeCacheProofs.tla                                # a proof

Contents: [the system](#the-system), [modules](#modules), [runs](#runs), [proofs](#proofs),
[where code and documents disagree](#where-code-and-documents-disagree),
[what is not modelled](#what-is-not-modelled), [plan](#plan).

## The system

cjit is a sequential program. What makes it hard is what it shares with others: a cache
directory on disk that every run on the machine uses without a lock, a child process with a
life of its own, a pid file, the terminal and the files of the user; and the state of a
compiler that it drives through a fixed order of calls, any of which may fail.

    command line -> filter, ketopt, option loop, route          src/main.c, adapters/cli
                        |
                        v  request
    slices: execute, build, object, status, extract             src/app
        |               |                  |
        v               v                  v
    compiler port   library resolver   filesystem port          src/ports
        |               |                  |
    CJITState, TinyCC   ld.so.conf,    cache directory, archive,
        |               -L, cwd        temporary files
        v
    fork, pid file, waitpid                                     adapters/platform

| Component | State it keeps | Operations | What is hard | What makes it correct |
|---|---|---|---|---|
| Runtime cache (`adapters/fs/local_filesystem.c`, `build/*.sh`, `muntarfs/muntar.c`) | the tree `$TMPDIR/cjit/VERSION`, `CJITState.fresh` | `cjit_mkdtemp` (default and `--xass`), completeness check, `remove_tree`, extraction | runs overlap at every system call; a run is killed or the disk is full half-way | a run alone in the directory gets whole files; a whole cache is never touched; damage is never silent; every run ends |
| Platform execution (`adapters/platform/runtime_platform.c`) | pid file, child process | `cjit_platform_exec` | the child exits, dies, stops and continues at any moment; runs share a pid file; fork and fopen fail | the exit status tells what became of the program; the file names the process; the run returns |
| Command line (`main.c`, `adapters/cli`) | `argv`, `ketopt_t`, option fields, `arg_separator` | filter, `ketopt` with permutation, option loop, route | options move over files while they are read, clusters, values, `--` | no argument lost, doubled or given to another reader; it ends |
| Session (`cjit.c`) | `CJITState` | `cjit_prepare`, `cjit_status`, adding files, stdin and libraries | a set-up that fails half-way and is tried again | set up once, on one TinyCC output |
| Compiler adapter (`adapters/compiler/tinycc_adapter.c`) | none of its own | `link_executable`, `compile_object`, `execute_program`, `resolve_symbol` | TinyCC forgets its errors at output and relocation | nothing is written or run after a refusal |
| Slices (`app/*.c`) | none | one function each | early returns | exit status 0 means that it was done |
| Library resolver, POSIX (`adapters/platform/library_resolver_posix.c`) | `libpaths`, `reallibs`, the parser of a linker script | search, links, linker scripts, `ld.so.conf` | includes without a guard, buffers sized by another string, nested lists that break off | each library from the first place that has it, a malformed script adds nothing of its list, it ends |
| Archive extraction (`lib/muntarfs`) | offset, buffer | `raw_to_header`, `mtar_next`, `muntar_to_path`, `muntargz_to_path` | two passes, a buffer grown by retries, allocation and writes that fail | reads stay inside the text; nothing is made from a broken archive; success means everything; a small enough archive is not refused |
| File loading (`file.c`) | none | `file_load`, `load_stdin`, `new_abspath`, `write_to_file` | an editor saves, replaces or removes the file between size, byte order mark, open and each read | memory is never overrun; a file left alone is read whole; a replaced one is never mixed |
| String lists (`array.c`, `support/string_list.c`) | slots, their number, the strings behind them | new, add, get, contains, free | growth and every failing allocation, while strings are in use | an append-only sequence; nothing leaks or moves |
| ar tool (`cjit-ar.c`) | an archive file and a temporary one | create, list, extract | the old archive is cut first; a kill or a full disk half-way; the next command on what is left | members and symbol table agree; what is broken is not taken for whole |
| TinyCC, tinf, cwalk, `io.c`, Windows files | | | | external, or not built here |

Interactions: `main` fills a `CJITState` and calls one slice. The slice asks the compiler port
for everything else; the port's first use of the state calls `cjit_prepare`, which calls the
filesystem port to extract the assets, configures TinyCC and completes the search path. The
resolver is called by status and by the linking operations and appends to `reallibs`. The
execute slice ends in `cjit_platform_exec`, whose result is the exit status of the process.

`PROJECT.json` lists the hazards of each component at the line where they bite, with the
properties that would show them; the one hazard without a property says why.

## Modules

| Module | Models | Size of its instance |
|---|---|---|
| `RuntimeCache` | the cache directory and the runs that share it | `MCRuntimeCache` |
| `RuntimeCacheInv` | its inductive invariants, for a run alone and for runs that overlap | the same |
| `RuntimeCacheProofs` | theorems about it | every instance |
| `ProgramExec` | fork, pid file, waitpid, the program as a process | `MCProgramExec` |
| `ProgramExecProofs` | theorems about it | every instance |
| `CliArgs` | filter, ketopt, option loop, route | `MCCliArgs` |
| `CliArgsProofs` | theorems about it, the refinement among them | every instance |
| `ArgReader` | abstract: the arguments read in order, nothing moved | implemented by `CliArgs` |
| `Session` | one run from its route to its exit status | `MCSession` |
| `SessionProofs` | theorems about it | every instance |
| `Muntar` | the unpacking of a bundle: buffer, headers, both walks, the disk | `MCMuntar` |
| `MuntarProofs` | theorems about it | every instance |
| `LibResolver` | `ld.so.conf`, the search, links, linker scripts | `MCLibResolver` |
| `LibResolverProofs` | theorems about it | every instance |
| `FileLoad` | a file read while it is saved, replaced or removed | `MCFileLoad` |
| `CjitAr` | ar commands on one archive, one after the other | `MCCjitAr` |
| `CjitArProofs` | theorems about it | every instance |
| `StringList` | abstract: an append-only list of strings | implemented by `XArray` |
| `XArray` | the growing array of pointers and the memory behind it | `MCXArray` |
| `SupportProofs` | theorems about `FileLoad` and `XArray`, the refinement among them | every instance |

### RuntimeCache

An element of `Procs` is one run of the program; those in `Explicit` were given `--xass PATH`
with the shared directory. The variables `dirs` and `disk` are the directory tree, `obstacle`
a plain file in the place of a directory, and the rest is what each run knows: `pc`, `fresh`,
`probe` (the loop of `cjit_runtime_cache_is_complete`), `listed` and `todo` (what `nftw` has
read and not yet removed), `step` (the entry of the archives it has come to) and `handle` (the
FILE it writes).

One action is one system call, because that is where runs interleave: `StatBase` is the
`stat` of `cjit_mkdtemp` with its cases, `ProbeFile` one `stat` of the completeness check,
`ListDir`, `RemoveFile` and `RemoveDir` are the calls `nftw` and `remove_tree_entry` make in
depth order, `MakeDir`, `LstatDir`, `CheckFile`, `OpenFile`, `Flush` and `Close` are those of
`muntar_to_path` for an entry. The contents of a file are abstracted to what the code and the
properties tell apart: absent, below the minimum size of the check, above it but not whole,
and whole. `handle` keeps what POSIX does with a file that is unlinked or cut while it is open
("lost", "torn"), so that a reader of the model sees how a race leaves a hole in a header.
`Crash` and `WriteFails` may strike at every step, `MaxFaults` times in all.

`dirs` includes the parent directory `$TMPDIR/cjit` ("root"): a default run makes it, a `--xass` run
does not, and ends in "noparent" when it is missing (`MakeExplicit`).

`Script` is the order in which `extract_assets` makes things. For each archive `muntar_to_path` first
makes its directories, while it validates, and then in a second pass its files; the steps of both
passes interleave with other runs and are steps of `Script`. What the first pass does about broken
archives is in `Muntar`: the embedded ones are good.

### ProgramExec

An element of `Runs` is one run of cjit with its child. `Fork`, `OpenPidFile`, `WritePid` and
`Wait` are the parent's steps, with every early return. The child exits, is killed, stopped
and continued by actions of its own. `life` is the state the kernel keeps, `report` a change
`waitpid` has not told yet; a later change replaces an earlier one, as the kernel does.
Reading `status` after a fork that failed, when `waitpid` has not set it, is a choice over all
status words. A run that is killed leaves its child and the pid file behind. Nothing looks at the
results of `fprintf` and `fclose`, so that the pid file may stay empty while the run waits; `unwritten`
are the runs to which that has happened.

### CliArgs

An argument is a record with what the code makes of its spelling; letters behind one dash are
kept one by one because `ketopt` returns them one by one. `FilterArgument` is one turn of
`cli_remove_ignored_arguments`, the option actions are one call of `ketopt` each together with
the turn of the loop in `main` that it feeds. `Read` moves an option, with its value, over the
files passed so far, which is what the repeated `ketopt_permute` amounts to. Positions are
those of the code plus one. The section "The command line as the manual reads it" is the
reference: it computes files, values and application arguments from the command line without
moving anything, and the properties compare.

`ArgReader` is what `main` relies on: arguments are read from left to right, each once, files
being passed over and kept in their order. `CliArgs` is mapped to it by taking the `n` arguments
before position `i` for the files passed and the rest of `argv` for what is still to be read; that
a step of `ketopt`, whatever it moves, is a step of the reader is the property `ReadsInOrder`.

### Session

`request` is what the command line asks for, `cjit` is `CJITState` with a record of what
TinyCC has been told: output type, how often its sections were started, whether it has counted
an error, compiled units and libraries. `Prepare` yields every outcome of `cjit_prepare`; a
failure leaves what was done up to it, and the next call starts over. The slices are
`PrintStatus`, `AddSource` and `AddStdin` (one turn of their loop), `LinkExecutable`,
`CompileObject` and `ExecuteProgram`. Extraction, startup files, output, relocation and the
program's own exit status are choices: `RuntimeCache` and `ProgramExec` look into the first
and the last, `LibResolver` into the search, `FileLoad` into the reading of a source.

### Muntar

`input` is the bundle: its compressed length, the size its trailer announces, whether its data is
sound, and its text as a sequence of blocks. The text's blocks are headers (type, name, size,
whether the name is safe), broken headers, end records and data. `FirstGuess`, `TryInflate` and
`OutOfMemory` are the loop of `muntargz_to_path` over a buffer that doubles up to a cap, with the
width of `unsigned int`; `DirEntry` and `FileEntry` are one turn of the first and the second walk
of `muntar_to_path` with everything they call on the disk; `Rewind` is the step between them. The
disk is a tree of names that are absent, a directory, a file, a link, or impossible to make.
Allocation and each `fwrite` may fail. `RuntimeCache` has the same disk calls one by one, because
there others interleave with them; here the archive itself is what varies.

### LibResolver

`world` is everything outside: the libraries asked for, the configuration files with their lines,
and the files and links of each directory. `stack` are the calls of `read_ldsoconf` on top of
each other, one per include; a process may have `MaxOpen` files open, which is what ends files
that include each other. `TryFile` is one turn of the search with `find_library` up to the guess
whether a file is a script; `Command`, `Item`, `LibraryItem`, `FormatOpens` and `Skip` are the
parser, token by token, with `script` for its nesting and for what it has named so far. A link's
target is cut at the length the code gives its buffer.

### FileLoad

A byte of the file is the pair of its version and its place, so that a text made of two versions
can be told from one. The reader's steps are its calls (`TakeSize`, `DetectBom`, `Open`, `Read`,
`fread` returning any part at a time); the editor's are the two ways programs save files, a new
file under the name (`Replace`) and truncating and writing the old one (`Truncate`, `Write`), and
`Unlink`. What `malloc` returned and nothing was read into is `Junk`. `file_load` refuses a length
above `UintMax` (`Accepted`) and hands the length on in an `unsigned int` (`Narrowed`).

### CjitAr

`archive` and `tmp` are on disk between commands, so that a command meets what an earlier one
left: whole, empty, or cut anywhere by a full disk or a kill. `AddObject` is one turn of the loop
over the objects, with the padding, the symbol table and the offsets; `WriteArchive` writes magic,
index and members; `ReadMember` is one turn of the loop of listing and extraction. `Kill` may
strike at any point: also while the archive is written (`HalfCreated`), while a failure is cleaned up
(`HalfRemoved`) and between the opening and the closing of a member's file (`HalfExtracted`), which is
then cut and whose name is in `torn`. The end of a creation removes the temporary file only if this
command has opened it (`Cleanup`).

### StringList and XArray

`StringList` is a sequence to which strings are appended and pointers that were handed out.
`XArray` has the slots, the part in use, and the memory behind the pointers; each allocation may
fail. The mapping takes the strings behind the slots in use, in order, for the list.

## Runs

| Run | Instance and bounds | Distinct states | Shows |
|---|---|---|---|
| `cache_overlap` | 3 default runs, 3 files, 1 fault, symmetry | 2.2 million | `LoneRunWorks`, `BrokenCacheWasReported`, `CacheStays` |
| `cache_explicit` | a default and a `--xass` run, 2 faults | 12 thousand | `ExplicitRunWorks`, `EveryRunEnds` |
| `cache_after_crash` | 2 default runs, 1 fault | violation | `LoneReadyComplete` |
| `exec_status` | 2 runs with `-p`, 2 pids, exit codes 3 and 256, one signal of each kind | 695 thousand | `SuccessIsExitZero`, `UnstoppedIsReported`, `PidFileIsCurrent`, `EveryExecReturns` |
| `exec_fork_fails` | the same | violation | `PidFileNamesProcess` |
| `cli_parse` | up to 4 of 18 arguments | 884 thousand | `TypeOK`, `HandedOnAsGiven`, `RouteFollowsOptions`, `ParsingEnds`, `ReadsInOrder` |
| `session_slices` | up to 2 files of 5 and 2 libraries of 3, all routes | 449 thousand | `OutcomeIsWhole`, `LibrariesInOrder`, `ExitTells`, `NothingAfterRefusal`, `SetUpOnce` |
| `tar_extract` | texts of up to 3 blocks, trees of 4 entries in every order, sizes around each limit, 8 destinations | 247 thousand | `InsideText`, `NoFalseRefusal`, `NothingFromBroken`, `ExistingKept`, `TreeExtracts`, `ExtractionEnds` |
| `resolve_libraries` | 3 configuration files, 2 directories, scripts of up to 3 tokens and longer lists, 4 open files | 129 thousand | `TypeOK`, `DirsInOrder`, `ResolvedInOrder`, `ResolutionEnds` |
| `file_load` | 5 versions, 3 edits, a limit of 4 bytes | 267 thousand | `InsideMemory`, `UndisturbedIsWhole`, `NeverMixed`, `ReadingEnds` |
| `ar_commands` | 3 commands, 8 objects, up to 3 of them at once | 1.5 million | `TypeOK`, `ArchiveWhole`, `IndexPointsToMember`, `ReadToTheBreak`, `CleanEnd` |
| `string_list` | 2 strings, memory for 5, symmetry | 11 thousand | `MemoryOwned`, `ImplementsList` |

A property that names several facts of one subject (`LoneRunWorks`, `HandedOnAsGiven`,
`TreeExtracts`, `ReadToTheBreak`) is a conjunction of named parts.

Why the bounds are enough.

* Cache. The archives have a file at the top, a header the completeness check looks at and one
  it does not, so that each of the check's verdicts exists with the tree whole and not whole;
  `MCScript` and `MCScript2` pack the unchecked header before and after the checked one, the
  two orders in which a directory may be packed. Three runs allow one that removes, one that
  writes and one that takes the result for complete. One fault in every interleaving of three
  runs, two in the smaller instance: a second fault can strike the run that repairs the damage
  of the first. Symmetry exchanges default runs only and is not used where liveness is checked.
* Execution. Two runs meet on one pid file before, during and after each other, and two
  identifiers let the second reuse the first's. Exit code 256 is the smallest one that
  `WEXITSTATUS` turns into 0. `CHECK_DEADLOCK FALSE`, since all runs may have returned.
* Command line. Four arguments hold an option, its value, a file before or after it and a
  separator or a second option; the eighteen cover each branch of `ketopt` and of the filter.
* Session. Two files distinguish order, doubling and a refusal before or after success; the
  libraries distinguish a name in two directories, in the last only, and one that TinyCC will
  not load.

* Archives. Three blocks hold a header, its data and what follows, so that every broken or cut
  place lies in the first, a middle and the last entry; four entries are two levels of a tree with
  a file in each. The sizes are those at which the code decides: below the shortest gzip, at and
  past each doubling, the cap, the widest ratio deflate reaches, and the width of the type. `Block`
  is 2 instead of 512, and `Cap` scaled to the first guess so that all eight tries are made.
* Libraries. Two directories give a first and a second choice; three configuration files an
  include, one within it and a cycle. Four open files let a cycle hit the limit inside a cycle.
  Every token can begin, end and interrupt a list of every kind at depth 0, 1 and 2.
* Reading. The versions are empty, one byte, exactly a byte order mark, one at the limit of an
  `unsigned int`, which is 4 here, and one beyond it, so that each save can cut or extend a file or
  take it over the limit and back. Three edits can fall before, between and
  after any two of the reader's calls. The proofs need none of these bounds.
* ar. The objects are odd and even in length, with no, one and two symbols, with and without a
  symbol table and equal in name. Three commands are one that fails or is killed, one that
  follows on its remains and one that reads the result.
* Lists. Five strings make the array grow twice, from two slots to four to eight. The proofs
  need no bound.

Fairness. `RuntimeCache` and `ProgramExec` assume weak fairness of each run of cjit: every
process is scheduled and no call in them blocks for ever except `waitpid`. `ProgramExec` assumes
in addition that a program that keeps running exits, which is an assumption about the program;
it is not assumed that a stopped one is continued, and cjit returns nevertheless because
`waitpid` reports stops. `CliArgs` assumes that the only process is not stopped. Crashes,
signals and the start of a run are never forced. `Muntar` and `LibResolver` assume that the only
process goes on, `FileLoad` that the reader does: the editor may stop at any point, half-way
through a save included. `Session`, `CjitAr` and `XArray` state no liveness and no fairness: their
loops are over finite lists. `CHECK_DEADLOCK FALSE` stands where everybody may have finished.

Each property has a mutant in `PROJECT.json`: a definition changed as a plausible bug would,
under which the run finds the property violated. Mutated forms stand beside the definitions they
replace and are used by nothing else.

## Proofs

Each proof module holds for every instance of its constants within the module's assumption:

| Module | For any |
|---|---|
| `RuntimeCacheProofs` | number of runs and of faults, any archives in which `include/` comes before what it holds no file comes twice, and the completeness check looks at some file (`CacheAssumption`) |
| `ProgramExecProofs` | number of runs, identifiers, exit codes and signals (`ExecAssumption`) |
| `CliArgsProofs` | set of arguments and length of the command line; only the last letter of a cluster takes a value (`ArgsAssumption`) |
| `SessionProofs` | files, libraries, places and exit values; a source is not an object (`SessionAssumption`) |
| `MuntarProofs` | bundle, destination, block size and buffer cap: twice the cap fits an `unsigned int`, and the first guess for the shortest gzip is within the cap (`SizesAssumption`, `InputsAssumption`, `PlacesAssumption`) |
| `LibResolverProofs` | number of worlds and of files that may be open, each world with any configuration, files, scripts and libraries (`WorldsAssumption`: lists are sequences; lines, files and tokens are of the kinds the code tells apart, and a name that begins with `l` does not begin with `/`) |
| `CjitArProofs` | objects of any size with any symbols, archives of any length and any commands (`ArAssumption`: an archive that breaks off does so in one of its members) |
| `SupportProofs` | versions of the file and number of edits (`FileAssumption`); strings and addresses (`MemoryAssumption`) |

| Theorem | States |
|---|---|
| `TypeCorrect` | types; files and directories form a tree; no FILE is open outside `write` |
| `IInvHolds` | the inductive invariant |
| `LoneFreshCompleteHolds` | a run alone that extracts leaves every file whole |
| `LoneRunNeverFailsHolds` | a run alone is not refused because of what others left; `--xass` only if the parent directory is missing |
| `LoneReadyRequiredHolds` | a run alone that succeeds has the files of the check |
| `LoneRunWorksHolds` | the three together, the property of the run |
| `ExplicitRunWorksHolds` | a `--xass` run alone is refused for a file in its way or a missing parent only; when all runs are done and a `--xass` run extracted, the cache is whole, although default runs made and removed the directory beside it |
| `CacheStaysHolds` | once the cache is whole and nobody extracts, it never changes |
| `OverlapHolds` | until a run has reported an error or was killed, each file is whole or some run still has to write it |
| `BrokenCacheWasReportedHolds` | when all runs are done and none reported an error or was killed, the cache is whole |
| `ExecTypeCorrect` | types; no two living processes with one identifier |
| `SuccessIsExitZeroHolds` | 0 is returned only for a program that ended with 0 |
| `UnstoppedIsReportedHolds` | a program that is never stopped is waited for to its end |
| `PidFileIsCurrentHolds` | while an undisturbed run with `-p` waits for its child, the file names that child, or is empty because the number could not be written |
| `IInvHolds`, `TypeOKHolds` (command line) | the parser is inside `argv`, and in the middle of an option it is at that option |
| `ReadsInOrderHolds` | `CliArgs` implements `ArgReader`: what is moved is read all the same as if nothing were |
| `HandsHolds` | what filter and parser have dealt with, step by step, of a well-formed command line |
| `HandedOnAsGivenHolds` | values, sources and the program's arguments are handed on as they were given |
| `RouteFollowsOptionsHolds` | the route depends on the options given, not on their order or their clusters |
| `IInvHolds` (session) | the inductive invariant |
| `SetUpOnceHolds` | the search path is completed once, however often the set-up is tried |
| `OutcomeIsWholeHolds` | what is written or run is made of every file, in order, on one TinyCC output |
| `ExitTellsHolds` | exit status 0 says that it was done, and only then is a file left |
| `NothingAfterRefusalHolds` | after a refusal nothing is written or run |
| `LibrariesInOrderHolds` | each library is the one of the first place that holds it |
| `IInvHolds`, `TypeOKHolds` (archives) | both walks are at an entry of the archive, the second only of an intact one |
| `InsideTextHolds` | no write takes bytes beyond the text, no buffer exceeds the cap |
| `NoFalseRefusalHolds` | a sound bundle is not refused for its size |
| `NothingFromBrokenHolds` | no file is made from an archive that is broken anywhere |
| `ExistingKeptHolds` | what was at the destination stays, and no file is written twice |
| `TreeExtractsHolds` | success means every file once, in order, from its own bytes; a tree in a fresh place has it unless a write fails |
| `IInvHolds`, `TypeOKHolds` (libraries) | each call reads the file that the call below includes; no more files are open than may be; the parser's depth follows its lists |
| `DirsInOrderHolds` | each directory is searched once, in the order in which the configuration lists them |
| `ResolvedInOrderHolds` | TinyCC gets, library by library, what the first directory that has it has, whatever links and scripts it meets |
| `IInvHolds` (reading) | the inductive invariant |
| `InsideMemoryHolds` | reading never overruns its memory, `file_load` returns only what was read |
| `UndisturbedIsWholeHolds` | a file left alone is read whole, or refused because it is empty or its length exceeds an `unsigned int` |
| `NeverMixedHolds` | a file that is only replaced is never mixed with another version |
| `IInvHolds`, `TypeOKHolds` (ar) | temporary file and index hold the objects so far; `fpos` is the length of the file |
| `ArchiveWholeHolds` | a creation that succeeds leaves the index and all objects in order |
| `IndexPointsToMemberHolds` | each symbol of the index has the offset of the member that defines it |
| `ReadToTheBreakHolds` | listing and extraction stop at the first broken member, and leave no file cut but one that a kill came upon |
| `CleanEndHolds` | a creation that ends removes the temporary file it has opened, and one that fails the archive as well |
| `ShapeKept` | the slots in use come first, the others are NULL |
| `MemoryIsOwned` | every string is in exactly one slot; none leaks or is freed while held |
| `ArrayIsAList` | `XArray` implements `StringList` |

The argument for the cache. None of the three guarantees is inductive. `LoneFreshComplete`
speaks of the end of a run; to prove it one has to know at every step of that run what is on
the disk, and that depends on nobody else having touched it. `IInv` therefore says: a run in
`alone` that is active is the only active one (`AloneInv`); the counters of a run agree with
where it is (`Counters`); and for a run that is alone, `LoneInv` gives the disk at each of its
steps: while it removes, what `nftw` has read and not removed is exactly what exists
(`Removing`); after that nothing does (`NothingThere`); while it extracts, precisely the first
`step - 1` entries are whole (`Extracted`). The lemmas `LoneMkdtemp`, `LoneRemove` and
`LoneExtract` carry `LoneInv` over the three groups of actions, `OthersStay` and `AloneStep`
deal with the other runs: the moment a second one starts, both leave `alone` for good.
`ExplicitRunWorks` follows from `IInv`
and from `OverlapInv` below. `CacheStays` is an action property of a state from which no
step leads out: on a whole cache every probe succeeds, so that no run leaves the path from `stat`
to `ready` (`SettledStep`, with `TypeOK`).

The argument for runs that overlap. `BrokenCacheWasReported` speaks of the end of all runs, and a hole
that one run leaves may be filled by another. `OverlapInv` therefore says, at every step and as long
as no run has failed (`Reported`), that each file that is not whole is some run's business
(`Accounted`): a run `Owes` a file if it has yet to come to it, or is writing the file that is there.
A run that removes or cuts a file has yet to write all of them or this one; a FILE cut under its
writer is no longer that writer's business but that of the run that cut it; and a write that did not
reach the file is noticed by nobody only if another run has taken the file over. Before the first
extraction nothing exists and nobody owes anything (`Untouched`); then, because the completeness
check looks at some file, no default run can take the directory for complete.

The argument for execution. `SuccessIsExitZero` needs that of all status words only an exit
with 0 decodes to 0 (`EndWords`, `StopWords`), and that a child that ended stays ended.
`UnstoppedIsReported` needs `QuietInv`: a child that was never stopped has nothing to report.
`PidFileIsCurrent` needs `SingleInv`: a run still in `single` is the only one with `-p` that is
busy, so that the file it has emptied stays empty until it writes, and what it writes stays.

The argument for the command line. `ketopt` moves an option over the files passed before it, one
exchange at a time; `MoveProperties` gives the result of all of them, argument by argument. From it
`TakeProperties` follows: the files passed stay what they were, and what is still to be read loses
exactly the option and its value. Every action of the parser is then such a step of `ArgReader` or
a stutter (`LetterStep`, `LongOptionStep`, `SeparatorStep`, ...). The invariant says that a parser
in the middle of a cluster is at an argument that is one (`ParserInv`), which `ArgReader` needs to
know that a letter remains; that only the last letter takes a value keeps it there.

For a well-formed command line `Hands` says what each step has done so far. While the filter is at
work, `argv` holds `Kept`, the arguments that are not dropped, and `Filtered` is all of it with what
follows `--`. While the parser is at work before the argument m, the files passed are `FilesTo` m, the
values `GivenTo` m, and the options set are those whose letter was `Seen` before m, within a cluster
those before the position too; what is still to be read is as the filter left it (`Unread`). One lemma
for each kind of argument carries this over a call of `ketopt`; `KeptRest` and its neighbours relate
positions behind the filter to positions in the command line. At the end, with m behind the last
argument before `--`, this is what the references `Given`, `Files` and `Letters` select.

The argument for the session. `Started` says what a set-up that failed has left: either nothing has
been told to TinyCC, or the output was started and then TinyCC has counted an error, or the CFLAGS
are refused whenever they are tried. Without the last two a later, successful set-up could start
the output a second time. `Progress` says that TinyCC has exactly the files accepted so far, so
that at the end it has all of them. For the libraries, `PathShape` gives the three forms the search
path can have, `PathInOrder` that each is in the order of the manual, and `FirstPlace` that the
first hit in it is the first place; every resolution therefore finds the same pairs, and a second
one (`-v`) adds nothing new (`LibInv`).

The argument for archives. The entries are defined by a recursion over offsets. `EntriesExist` solves
it, `EntriesChain` says that the k-th entry is at the offset that the k-1 before it lead to, so that
`Walking` can say which entry an iteration has at hand. The first walk reaches the end only if every
header on the way was good (`Intact`); the second meets only what the first has seen, and a write
therefore begins and ends inside the text. A buffer that is doubled at every try is `Share` of the
text; after eight tries it is 1280 times as long, more than deflate can shrink, so that giving up
is no false refusal. For a tree in a fresh place `TreeDisk` is the disk at each entry of each walk.

The argument for libraries. That no directory is searched twice is inductive with little more than
the types (`AddPathOnce`). For the order, `IInv` first places the calls of `read_ldsoconf`: each is
at a line of its file, or behind the last, and reads the file that the call below includes there
(`Placed`, `Above`). The reference `DirsIn` is recursive over the number of files that may still be
opened, and within one over lines and over the matches of an include. `Part` is what a call has
listed so far: the lines before the one it is at, and of this one the matches it is done with.
`ConfInv` says that what all open calls have listed so far, each continuing what had been listed when
it was opened (`Heard`, `Since`), has its directories in `dirs` in the order of their first mention.
Opening a file begins an empty part (`PartBegins`), a line or a match extends it (`PartNext`), and at
the end of a file its part is all that `DirsIn` says of it (`PartEnds`), which is what the call below
has then heard of one match more. Files that cannot be read, cycles among them, make every call
below fail at once; `Readable` is the case without any, and with it the limit is never met, since
every open call reads a file whose includes end within the files that are left (`Whole`).

The argument for linker scripts. The reference reads a script as a whole: `Depth` counts the
parentheses, `InForce` is the command that a token is an argument of, `Fits` says of a token that it
may be where it is. The code reads one token at a time and sees only the next. `Remains` and `Read`
say that after k tokens every one of them fits, as far as can be told before the next is seen, and
that the parser has named exactly the files among them (`Items`); `AtMode` gives, for each mode of
the parser, the token it has read last and the depth it is at. One lemma for each mode takes this
one token further (`CommandReads` to `SkipReads`), and `ScriptReads` puts them together: each token
goes on, or ends the script with all it lists, or is refused, and then the script is malformed or a
file that it names with its directory is missing (`Outcome`). A script that is left open in the
middle of a format ends with success, which is why `Clear` sets malformed scripts with such a
command apart (see below). `SearchedInv` then carries the search: what is resolved is the
paths of the libraries before the i-th (`Paths`), and no directory before the ii-th has the i-th
(`Searched`). Proving this changed the reference: it had taken `OUTPUT_FORMAT(x)(y)` for
well-formed, a second list that the parser refuses; the run now has such a script.

The argument for reading. That a file left alone is read whole says nothing about the steps on the
way. `Undisturbed` does: while nothing has moved, the descriptor is that of the name, the size and
the mark seen earlier are still the file's, and the memory is a prefix of it. For a file that is
only replaced, `FileInv` says that every inode holds one version to its end, and `Prefix` that the
memory is the beginning of the inode that is open; the text is that prefix and `Junk`. The editor's
steps are dealt with once (`EditorStep`): they leave the reader's memory alone, and an inode
changes only after `inPlace`.

The argument for the ar tool. The sums over members, symbols and names are recursive functions;
`RecExists` shows once that such an equation has a solution, and `SpanSteps`, `SymbolsSteps` and
`NamesSteps` apply it. `Written` says that the temporary file holds the objects so far and `Indexed`
that the index has their symbols, each at the offset of its object in that file; `Indexed` is only
claimed of a command whose objects all have a symbol table (`Regular`), because one without takes
the table of the object before. Writing puts magic and index in front: `Hofs` is the length of
both (`IndexMemberIs`), and a member in front moves all others by its bytes (`SpanCons`), the offset
in the archive. For reading, `Made` says what the files hold after n members; a file that is removed
because it could not be written has the name of the member at hand, which is later than any that
had made it (`Kept`). A kill puts a cut file in the place of a name that is then in `torn`, and
ends the command; the next extraction starts from `Made` of no member (`KillInv`, `ReadArchiveInv`).

The argument for lists. `ArrayTypeOK` and `MemoryOwned` are inductive only together: that the slot
written to is empty, so that no pointer is lost, needs the shape; that an address is in one slot
only needs that it was free. The refinement then follows action by action (`ArrayIsAList`):
growing copies the slots in use, appending extends the mapped sequence by one, and a failed
allocation is a step that answers "no" and changes nothing.

Induction over data is done by the least counterexample: the provers cannot apply the induction rule
of the library to a predicate, but that a set of numbers that is not empty has a least element
(`NatLeast`) is a theorem about sets, from which induction over a set follows (`SetInduction`).
Recursion in the modules with proofs is therefore written as recursive functions over numbers, and
`RecExists` constructs the solution of their equations.

Only model-checked:

* everything about liveness (`EveryRunEnds`, `EveryExecReturns`, `ParsingEnds`, `ExtractionEnds`,
  `ResolutionEnds`, `ReadingEnds`), which is beyond TLAPS. Every other property of a passing run is
  stated by a theorem.

## Where code and documents disagree

Two are runs of kind "violation", with the quoted line in `PROJECT.json`.

1. `cache_after_crash`: the completeness check looks at four files and their minimum sizes. A
   run cut short after these leaves a cache that later runs take for complete, against the
   purpose stated at `adapters/fs/local_filesystem.c:156`.
2. `exec_fork_fails`: the result of `fork` is not examined; `-1` is written to the pid file and
   an uninitialised status becomes the exit status.

The others were met while modelling. The models follow the code, so each can be seen in them:

* Command line. For an argument that begins like two long options (`--x`, `--=`) `ketopt` returns
  '?' without moving on, and the option loop prints "unknown opt" for ever (`AmbiguousOption`;
  `ParsingEnds` is stated of all other command lines). With `--` exactly one file is a source,
  whatever stands before it: a second file goes to the program as an argument, and with none the
  first argument is compiled (`Left`, `Sources`). The bare flags `-g`, `-W` and `-f` are dropped
  together with the argument after them, so that `cjit -g a.c` has no source (`Swallows`).
* Cache. `--xass` with the path of an existing directory succeeds and extracts nothing
  (`StatBase`), where the manual says that the assets are extracted to that location. With a path
  whose parent does not exist it fails (`MakeExplicit`); below `$TMPDIR/cjit` the parent is there only
  after a default run.
* Execution. On a full disk the pid file is left empty and the run goes on (`WritePid`).
* Session. With `-v` every library is handed to the linker twice, from the same places, so that
  `LibrariesInOrder` compares sets; a missing `-l` library is only warned about; the status route
  exits with 0 although the set-up has failed; `-v` together with sources to run prints no status.
* Libraries. `test/library_resolver_unit.c` says that "malformed ld scripts add no partial library
  result". That holds of the list in which the script breaks off; a script whose list is complete
  and whose next command is a format without a '(' or without an end adds the list all the same
  (`FormatOpens`, `Skip`).
* Sources. A file that became shorter after its size was taken is compiled with bytes at its end
  that nothing was read into, and one that became longer is cut (`AcceptShort`, `Padding`);
  `file_load` refuses the first.
* ar. Objects without a global symbol also give the archive that the comment at `cjit-ar.c:152`
  keeps for no objects at all, with success; an object without a symbol table takes that of the
  object before it (`SymtabOf`); writes are not checked, so that a full disk gives success; GNU's
  archives with long names are refused, and members whose names agree in the first fifteen
  characters overwrite each other when extracted. A temporary file that a killed creation has left
  stays when the next creation cannot open it, and a killed extraction leaves a file under the
  member's name that is cut.
* What nothing calls was only read: `XArray_Remove` shrinks with the size before removal,
  `XArray_BubbleSort` swaps on any result of the comparison but zero, an insertion past the part in
  use is lost; `write_to_file` does not look at `fclose`.

## What is not modelled

* TinyCC, cwalk and the Windows headers: vendored, and nine tenths of the lines under `src/`. TinyCC
  is an environment that fails at any call; a model of the compiler would be a project of its own.
  Of the program's own logic what is left out is listed here.
* tinf: `Muntar` has what `tinf_gzip_uncompress` answers and when; inflating itself is a pure function
  of its input.
* The Windows branches, `library_resolver_windows.c` and `win-compat.c`: other system calls,
  no fork; the `.dylib` names of macOS.
* The text of messages, help and version; `-ar`, `conftest.c` and `--src` in `main`; failing
  allocations outside `Muntar` and `XArray`.
* `new_abspath` and the comparison of extensions in `support/source_files.c`: pure functions of
  strings. `write_to_file`, the unused operations of `array.c`, the accessors of muntarfs and
  `posix_ldscript_parse_buffer`: nothing in the program calls them.
* `io.c`, which no build links.

## Plan

Done, in this order: `RuntimeCache`, `ProgramExec`, `CliArgs`, `Session`, `Muntar`, `LibResolver`,
`FileLoad`, `XArray`, `CjitAr`, each with its run, and the proofs above. Left to prove: an abstract
cache ("absent", "being made", "whole") that `RuntimeCache` implements for runs that do not overlap.
