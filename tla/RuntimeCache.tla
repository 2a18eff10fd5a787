---------------------------- MODULE RuntimeCache ----------------------------
(***************************************************************************)
(* The runtime cache of cjit: the directory $TMPDIR/cjit/VERSION into      *)
(* which every run of the program unpacks libtcc1.a and the compiler's     *)
(* headers, or which it reuses when an earlier run has filled it.  The     *)
(* directory is shared by every run on the machine and no lock protects    *)
(* it.                                                                     *)
(*                                                                         *)
(* An element of Procs is one run of the program.  Its actions are the     *)
(* system calls of cjit_mkdtemp (src/src/adapters/fs/local_filesystem.c),  *)
(* of the generated extract_assets (src/build/init-assets.sh and           *)
(* src/build/embed-asset-path.sh) and of the two passes of muntar_to_path  *)
(* (src/lib/muntarfs/muntar.c), in the order in which the code makes them. *)
(* The module follows the POSIX branches of the code.                      *)
(***************************************************************************)
EXTENDS Naturals, Sequences

CONSTANTS
  Procs,     \* the runs of the program
  Explicit,  \* the runs that name the directory (--xass PATH)
  Files,     \* the files of the embedded archives
  IncFiles,  \* those of them that live in the subdirectory include/
  Required,  \* the files cjit_runtime_cache_is_complete looks at, in order
  Script,    \* directories and files in the order extract_assets makes them
  MaxFaults  \* bound: crashes and write errors in one behaviour

Dirs == {"base", "include"}    \* $TMPDIR/cjit/VERSION and its include/
Places == Dirs \cup {"root"}    \* and the parent, $TMPDIR/cjit
Steps == 1 .. Len(Script)

\* Every archive starts by making its directory, every file is in the
\* archives exactly once, below a directory that comes before it.
ASSUME CacheAssumption ==
  /\ Explicit \subseteq Procs
  /\ IncFiles \subseteq Files
  /\ Files \cap Places = {}
  /\ Required \in Seq(Files) /\ Required # <<>>
  /\ Script \in Seq(Files \cup Dirs)
  /\ Len(Script) > 0 /\ Script[1] = "base"
  /\ \A f \in Files : \E i \in Steps : Script[i] = f
  /\ \A i, j \in Steps : Script[i] \in Files /\ Script[i] = Script[j] => i = j
  /\ \A i \in Steps : Script[i] \in IncFiles =>
       \E j \in Steps : j < i /\ Script[j] = "include"
  /\ MaxFaults \in Nat

VARIABLES
  dirs,      \* the directories that exist
  disk,      \* what each file of the cache holds
  obstacle,  \* a file found where a directory should be, or "none"
  pc,        \* where each run is
  fresh,     \* the runs whose CJITState.fresh is true
  probe,     \* next file of Required to be looked at
  listed,    \* the directories nftw has read
  todo,      \* the entries nftw has read and not yet removed
  step,      \* the position in Script
  handle,    \* the FILE being written
  alone,     \* history: the runs during which no other run was active
  faults     \* number of crashes and write errors so far

diskVars == <<dirs, disk>>
scanVars == <<probe, listed, todo>>
vars == <<dirs, disk, obstacle, pc, fresh, probe, listed, todo, step, handle,
          alone, faults>>

\* "short" is below the size the completeness check asks for, "long" is above
\* it but is not the file of the archive (cut, or with a hole).
Content == {"absent", "short", "long", "full"}

\* "flushed": a first part has reached the file; "torn": the file was cut by
\* another run after that; "lost": the file was unlinked.
Handle == {"none", "new", "flushed", "torn", "lost"}

Finished == {"done", "failed", "noparent", "ioerror", "crashed"}
Working == {"root", "stat", "probe", "remove", "ensure", "ensure2", "mkdir",
            "entry", "lstat", "open", "write"}

Active(p) == pc[p] \in Working \cup {"ready"}

Parent(n) == IF n \in IncFiles THEN "include" ELSE "base"
Present(n) == IF n \in Dirs THEN n \in dirs ELSE disk[n] # "absent"
Children(d) == {n \in Files \cup {"include"} : Parent(n) = d /\ Present(n)}

AllFull == \A f \in Files : disk[f] = "full"

-----------------------------------------------------------------------------
Goto(p, s) == pc' = [pc EXCEPT ![p] = s]

SetFresh(p, b) == fresh' = IF b THEN fresh \cup {p} ELSE fresh \ {p}

\* A cold start: the directory is missing, without its parent or in it, or it is
\* empty, or a file is in the way.
Init ==
  /\ dirs \in {{}, {"root"}, {"root", "base"}}
  /\ disk = [f \in Files |-> "absent"]
  /\ obstacle \in {"none", "root", "base"}
  /\ obstacle = "base" => dirs = {"root"}
  /\ obstacle = "root" => dirs = {}
  /\ pc = [p \in Procs |-> "idle"]
  /\ fresh = {}
  /\ probe = [p \in Procs |-> 1]
  /\ listed = [p \in Procs |-> {}]
  /\ todo = [p \in Procs |-> {}]
  /\ step = [p \in Procs |-> 1]
  /\ handle = [p \in Procs |-> "none"]
  /\ alone = Procs
  /\ faults = 0

-----------------------------------------------------------------------------
(* cjit_mkdtemp *)

\* A run begins.  It shares the directory with every run that is active now.
Start(p) ==
  /\ pc[p] = "idle"
  /\ Goto(p, IF p \in Explicit THEN "stat" ELSE "root")
  /\ LET others == {q \in Procs : Active(q)} IN
     alone' = alone \ (IF others = {} THEN {} ELSE others \cup {p})
  /\ UNCHANGED <<diskVars, obstacle, fresh, scanVars, step, handle, faults>>

\* ensure_directory($TMPDIR/cjit)
EnsureRoot(p) ==
  /\ pc[p] = "root"
  /\ IF obstacle = "root"
     THEN Goto(p, "failed") /\ UNCHANGED dirs
     ELSE Goto(p, "stat") /\ dirs' = dirs \cup {"root"}
  /\ UNCHANGED <<disk, obstacle, fresh, scanVars, step, handle, alone, faults>>

\* Mutation of StatBase: a directory that exists is always refreshed.
StatBaseRefreshes(p) ==
  /\ pc[p] = "stat"
  /\ SetFresh(p, TRUE)
  /\ Goto(p, IF "base" \in dirs THEN "remove" ELSE "ensure2")
  /\ UNCHANGED <<diskVars, obstacle, scanVars, step, handle, alone, faults>>

\* stat(temp_dir): the three cases of both branches of cjit_mkdtemp.
StatBase(p) ==
  /\ pc[p] = "stat"
  /\ \/ /\ obstacle = "base"
        /\ Goto(p, "failed")
        /\ UNCHANGED fresh
     \/ /\ obstacle # "base" /\ "base" \notin dirs
        /\ SetFresh(p, TRUE)
        /\ Goto(p, IF p \in Explicit THEN "mkdir" ELSE "ensure2")
     \/ /\ obstacle # "base" /\ "base" \in dirs
        /\ SetFresh(p, FALSE)
        /\ Goto(p, IF p \in Explicit THEN "ready" ELSE "probe")
  /\ UNCHANGED <<diskVars, obstacle, scanVars, step, handle, alone, faults>>

\* Mutation of MakeExplicit: what mkdir returns is not looked at.
MakeExplicitUnseen(p) ==
  /\ pc[p] = "mkdir"
  /\ Goto(p, "entry")
  /\ dirs' = IF "root" \in dirs THEN dirs \cup {"base"} ELSE dirs
  /\ UNCHANGED <<disk, obstacle, fresh, scanVars, step, handle, alone, faults>>

\* mkdir(temp_dir) of the --xass branch: here EEXIST is an error, and so is a
\* parent that is missing ("noparent"), since only a default run makes that.
MakeExplicit(p) ==
  /\ pc[p] = "mkdir"
  /\ IF "root" \in dirs /\ "base" \notin dirs
     THEN Goto(p, "entry") /\ dirs' = dirs \cup {"base"}
     ELSE Goto(p, IF "root" \in dirs \/ obstacle = "root" THEN "failed" ELSE "noparent")
          /\ UNCHANGED dirs
  /\ UNCHANGED <<disk, obstacle, fresh, scanVars, step, handle, alone, faults>>

\* The file is a regular file of at least the minimum size.
BigEnough(f) == disk[f] \in {"long", "full"}

\* Mutation of ProbeFile: an incomplete tree is extracted over, not removed.
ProbeKeepsTree(p) ==
  /\ pc[p] = "probe"
  /\ \/ /\ probe[p] > Len(Required)
        /\ Goto(p, "ready")
        /\ UNCHANGED <<fresh, probe>>
     \/ /\ probe[p] <= Len(Required)
        /\ BigEnough(Required[probe[p]])
        /\ probe' = [probe EXCEPT ![p] = @ + 1]
        /\ UNCHANGED <<pc, fresh>>
     \/ /\ probe[p] <= Len(Required)
        /\ ~BigEnough(Required[probe[p]])
        /\ SetFresh(p, TRUE)
        /\ Goto(p, "ensure")
        /\ UNCHANGED probe
  /\ UNCHANGED <<diskVars, obstacle, listed, todo, step, handle, alone, faults>>

\* One stat of the loop of cjit_runtime_cache_is_complete.
ProbeFile(p) ==
  /\ pc[p] = "probe"
  /\ \/ /\ probe[p] > Len(Required)            \* complete: reuse it
        /\ Goto(p, "ready")
        /\ UNCHANGED <<fresh, probe>>
     \/ /\ probe[p] <= Len(Required)
        /\ BigEnough(Required[probe[p]])
        /\ probe' = [probe EXCEPT ![p] = @ + 1]
        /\ UNCHANGED <<pc, fresh>>
     \/ /\ probe[p] <= Len(Required)
        /\ ~BigEnough(Required[probe[p]])      \* incomplete: refresh it
        /\ SetFresh(p, TRUE)
        /\ Goto(p, "remove")
        /\ UNCHANGED probe
  /\ UNCHANGED <<diskVars, obstacle, listed, todo, step, handle, alone, faults>>

\* ensure_directory(temp_dir): present, or made now, or made by another run
\* since it was looked for.
EnsureBase(p) ==
  /\ pc[p] \in {"ensure", "ensure2"}
  /\ dirs' = dirs \cup {"base"}
  /\ Goto(p, IF pc[p] = "ensure" THEN "ensure2" ELSE "entry")
  /\ UNCHANGED <<disk, obstacle, fresh, scanVars, step, handle, alone, faults>>

-----------------------------------------------------------------------------
(* remove_tree: nftw reads a directory, removes what it has read, then the   *)
(* directory itself, and stops at the first remove() that fails.             *)

\* Mutation of RemoveFails: the remove() that failed is tried again.
RemoveRetries(p) == UNCHANGED <<pc, diskVars, listed, todo, handle>>

RemoveFails(p) ==
  /\ Goto(p, "failed")
  /\ UNCHANGED <<diskVars, listed, todo, handle>>

\* nftw opens directory d and reads its entries.
ListDir(p, d) ==
  /\ pc[p] = "remove" /\ d \notin listed[p]
  /\ d = "base" \/ (d \in todo[p] /\ "base" \in listed[p])
  /\ IF d \in dirs
     THEN /\ listed' = [listed EXCEPT ![p] = @ \cup {d}]
          /\ todo' = [todo EXCEPT ![p] = @ \cup Children(d)]
          /\ UNCHANGED <<pc, diskVars, handle>>
     ELSE RemoveFails(p)
  /\ UNCHANGED <<obstacle, fresh, probe, step, alone, faults>>

\* The entries of the directory nftw is in: include/ once it has entered it.
Current(p) ==
  IF "include" \in listed[p] \cap todo[p] THEN IncFiles ELSE Files

\* remove() of a file; a FILE another run has open on it goes on living.
RemoveFile(p, f) ==
  /\ pc[p] = "remove" /\ f \in todo[p] \cap Current(p)
  /\ IF disk[f] # "absent"
     THEN /\ disk' = [disk EXCEPT ![f] = "absent"]
          /\ todo' = [todo EXCEPT ![p] = @ \ {f}]
          /\ handle' = [q \in Procs |->
                          IF handle[q] # "none" /\ Script[step[q]] = f
                          THEN "lost" ELSE handle[q]]
          /\ UNCHANGED <<pc, dirs, listed>>
     ELSE RemoveFails(p)
  /\ UNCHANGED <<obstacle, fresh, probe, step, alone, faults>>

\* remove() of a directory whose entries have been removed: it fails when the
\* directory is gone or when another run has put something into it.
RemoveDir(p, d) ==
  /\ pc[p] = "remove" /\ d \in listed[p]
  /\ \A n \in todo[p] : Parent(n) # d
  /\ d = "include" => d \in todo[p]
  /\ IF d \in dirs /\ Children(d) = {}
     THEN /\ dirs' = dirs \ {d}
          /\ todo' = [todo EXCEPT ![p] = @ \ {d}]
          /\ Goto(p, IF d = "base" THEN "ensure" ELSE "remove")
          /\ UNCHANGED <<disk, listed, handle>>
     ELSE RemoveFails(p)
  /\ UNCHANGED <<obstacle, fresh, probe, step, alone, faults>>

-----------------------------------------------------------------------------
(* extract_assets and muntar_to_path *)

\* The next entry of the archives, or the end of the last of them.
Advance(p) ==
  /\ step' = [step EXCEPT ![p] = @ + 1]
  /\ Goto(p, IF step[p] = Len(Script) THEN "ready" ELSE "entry")

\* make_directory: a mkdir that fails, for whatever reason, counts as success;
\* one that succeeds is followed by an lstat.
MakeDir(p) ==
  /\ pc[p] = "entry"
  /\ LET d == Script[step[p]] IN
     /\ d \in Dirs
     /\ IF d \notin dirs /\ (IF d = "base" THEN "root" ELSE "base") \in dirs
        THEN /\ dirs' = dirs \cup {d}
             /\ Goto(p, "lstat")
             /\ UNCHANGED step
        ELSE Advance(p) /\ UNCHANGED dirs
  /\ UNCHANGED <<disk, obstacle, fresh, scanVars, handle, alone, faults>>

LstatDir(p) ==
  /\ pc[p] = "lstat"
  /\ IF Script[step[p]] \in dirs
     THEN Advance(p)
     ELSE Goto(p, "failed") /\ UNCHANGED step
  /\ UNCHANGED <<diskVars, obstacle, fresh, scanVars, handle, alone, faults>>

\* A file that exists is never replaced.
CheckFile(p) ==
  /\ pc[p] = "entry"
  /\ Script[step[p]] \in Files
  /\ Goto(p, IF disk[Script[step[p]]] = "absent" THEN "open" ELSE "failed")
  /\ UNCHANGED <<diskVars, obstacle, fresh, scanVars, step, handle, alone,
                 faults>>

\* fopen(tpath, "wb"): makes the file, or cuts one made since the check.
OpenFile(p) ==
  /\ pc[p] = "open"
  /\ LET f == Script[step[p]] IN
     IF Parent(f) \in dirs
     THEN /\ disk' = [disk EXCEPT ![f] = "short"]
          /\ handle' = [q \in Procs |->
                          IF q = p THEN "new"
                          ELSE IF handle[q] = "flushed" /\ Script[step[q]] = f
                          THEN "torn" ELSE handle[q]]
          /\ Goto(p, "write")
     ELSE Goto(p, "failed") /\ UNCHANGED <<disk, handle>>
  /\ UNCHANGED <<dirs, obstacle, fresh, scanVars, step, alone, faults>>

\* fwrite hands a first part of the contents to the file.
Flush(p) ==
  /\ pc[p] = "write" /\ handle[p] = "new"
  /\ LET f == Script[step[p]] IN
     disk' = [disk EXCEPT ![f] = IF @ = "full" THEN @ ELSE "long"]
  /\ handle' = [handle EXCEPT ![p] = "flushed"]
  /\ UNCHANGED <<dirs, obstacle, pc, fresh, scanVars, step, alone, faults>>

\* fclose writes the rest.  What was written before a cut is not there.
Close(p) ==
  /\ pc[p] = "write"
  /\ LET f == Script[step[p]] IN
     disk' = [disk EXCEPT ![f] =
                IF handle[p] = "lost" THEN @
                ELSE IF handle[p] = "torn" /\ @ # "full" THEN "long"
                ELSE "full"]
  /\ handle' = [handle EXCEPT ![p] = "none"]
  /\ Advance(p)
  /\ UNCHANGED <<dirs, obstacle, fresh, scanVars, alone, faults>>

\* Mutation of WriteFails: what fwrite and fclose return is not looked at.
WriteFailsUnseen(p) ==
  /\ pc[p] = "write" /\ faults < MaxFaults
  /\ faults' = faults + 1
  /\ handle' = [handle EXCEPT ![p] = "none"]
  /\ Advance(p)
  /\ UNCHANGED <<diskVars, obstacle, fresh, scanVars, alone>>

\* fwrite or fclose cannot write (disk full): the run gives up.
WriteFails(p) ==
  /\ pc[p] = "write" /\ faults < MaxFaults
  /\ faults' = faults + 1
  /\ handle' = [handle EXCEPT ![p] = "none"]
  /\ Goto(p, "ioerror")
  /\ UNCHANGED <<diskVars, obstacle, fresh, scanVars, step, alone>>

-----------------------------------------------------------------------------
\* The run compiles what it was asked to compile, and ends.
Finish(p) ==
  /\ pc[p] = "ready"
  /\ Goto(p, "done")
  /\ UNCHANGED <<diskVars, obstacle, fresh, scanVars, step, handle, alone,
                 faults>>

\* The run is killed.
Crash(p) ==
  /\ Active(p) /\ faults < MaxFaults
  /\ faults' = faults + 1
  /\ handle' = [handle EXCEPT ![p] = "none"]
  /\ Goto(p, "crashed")
  /\ UNCHANGED <<diskVars, obstacle, fresh, scanVars, step, alone>>

Mkdtemp(p) ==
  EnsureRoot(p) \/ StatBase(p) \/ MakeExplicit(p) \/ ProbeFile(p) \/ EnsureBase(p)
RemoveTree(p) ==
  \/ \E d \in Dirs : ListDir(p, d) \/ RemoveDir(p, d)
  \/ \E f \in Files : RemoveFile(p, f)
Extract(p) ==
  MakeDir(p) \/ LstatDir(p) \/ CheckFile(p) \/ OpenFile(p) \/ Flush(p) \/ Close(p)

Run(p) == Mkdtemp(p) \/ RemoveTree(p) \/ Extract(p) \/ Finish(p)

Ended == \A p \in Procs : pc[p] \in Finished

Next ==
  \/ \E p \in Procs : Start(p) \/ Run(p) \/ WriteFails(p) \/ Crash(p)
  \/ Ended /\ UNCHANGED vars

\* The operating system schedules every process; nothing obliges the user to
\* start a run, and nothing obliges a run to crash.
Fairness == \A p \in Procs : WF_vars(Run(p))

Spec == Init /\ [][Next]_vars /\ Fairness

-----------------------------------------------------------------------------
(* Properties *)

Typed ==
  /\ dirs \in SUBSET Places
  /\ disk \in [Files -> Content]
  /\ obstacle \in {"none", "root", "base"}
  /\ pc \in [Procs -> {"idle", "ready"} \cup Working \cup Finished]
  /\ fresh \in SUBSET Procs
  /\ probe \in [Procs -> 1 .. Len(Required) + 1]
  /\ listed \in [Procs -> SUBSET Dirs]
  /\ todo \in [Procs -> SUBSET (Files \cup Dirs)]
  /\ step \in [Procs -> 1 .. Len(Script) + 1]
  /\ handle \in [Procs -> Handle]
  /\ alone \in SUBSET Procs
  /\ faults \in 0 .. MaxFaults

Tree ==
  /\ "include" \in dirs => "base" \in dirs
  /\ "base" \in dirs => "root" \in dirs
  /\ \A f \in Files : disk[f] # "absent" => Parent(f) \in dirs

\* A default run has made sure of the root before it goes on.
Rooted ==
  \A p \in Procs :
    pc[p] \in {"ensure", "ensure2"} \/ (pc[p] = "stat" /\ p \notin Explicit) => "root" \in dirs

\* A FILE is open exactly while a run is writing it, on a file of the
\* archives; unless it was unlinked since, that file exists.
Streams ==
  \A p \in Procs :
    /\ pc[p] \in Working \cup {"idle"} => step[p] \in Steps
    /\ pc[p] \in {"open", "write"} => Script[step[p]] \in Files
    /\ handle[p] # "none" <=> pc[p] = "write"
    /\ handle[p] \notin {"none", "lost"} => disk[Script[step[p]]] # "absent"

\* Every variable has its type, the files and directories that exist form a
\* tree, whose root a default run has made sure of before it makes a directory
\* there, and no run has a FILE open that it is not writing.
TypeOK == Typed /\ Tree /\ Rooted /\ Streams

\* A run that had the directory to itself, decided to extract and got through
\* has every file of the archives in place: whatever crashed, overlapping or
\* interrupted runs had left there is gone (remove_tree, then extract_assets,
\* whose every failure must be reported).
LoneFreshComplete ==
  \A p \in Procs : pc[p] = "ready" /\ p \in fresh \cap alone => AllFull

\* A run that had the directory to itself is never refused by what earlier
\* runs left in it: only a file in the place of a directory, a write error, or
\* a parent directory that --xass finds missing ("noparent") makes cjit_mkdtemp
\* or extract_assets fail.
LoneRunNeverFails ==
  \A p \in Procs : pc[p] = "failed" /\ p \in alone => obstacle # "none"

\* A run that had the default directory to itself finds at least the files the
\* completeness check names, at the sizes it asks for, extracted or reused.
LoneReadyRequired ==
  \A p \in Procs \ Explicit : pc[p] = "ready" /\ p \in alone =>
    \A i \in 1 .. Len(Required) : disk[Required[i]] \in {"long", "full"}

\* A run that has the directory to itself works, whatever it finds there.
LoneRunWorks == LoneFreshComplete /\ LoneRunNeverFails /\ LoneReadyRequired

\* However the runs overlapped: when all have ended without one of them being
\* killed or reporting an error, the cache is whole.  A cache that races have
\* damaged has cost at least one run its success.
BrokenCacheWasReported ==
  LET quiet == \A p \in Procs : pc[p] \in {"idle", "done"}
      used == \E p \in Procs \ Explicit : pc[p] = "done"
  IN  quiet /\ used => AllFull

\* A run that is given the directory by --xass makes it, or says that it could not:
\* one that was alone is refused only for a file in the way, or for a parent that
\* is missing; and when every run that has begun is done and one of those with
\* --xass decided to extract, everything is in place, although a default run may
\* have made the directory, or removed it again, in between.
ExplicitRunWorks ==
  /\ \A p \in Explicit \cap alone : pc[p] = "failed" => obstacle # "none"
  /\ (\A p \in Procs : pc[p] \in {"idle", "done"}) /\ (\E p \in Explicit \cap fresh : pc[p] = "done")
       => AllFull

\* The cache is whole, and no run is refreshing or extracting any more.
Settled ==
  /\ AllFull /\ dirs = Places /\ obstacle = "none"
  /\ \A p \in Procs : pc[p] \in {"idle", "root", "stat", "probe", "ready"} \cup Finished

\* Once the cache has settled, no run changes anything in it, however many runs
\* there are, however they overlap and wherever they are killed.
CacheStays == [][Settled => UNCHANGED diskVars /\ Settled']_vars

\* Every run ends, whatever the runs beside it do to the directory while it
\* walks through it.
EveryRunEnds == \A p \in Procs : Active(p) ~> pc[p] \in Finished

-----------------------------------------------------------------------------
(* A statement of the documentation that the code does not keep *)

\* docs/manpage.md, --xass: "Extracts runtime assets required by CJIT to run
\* your program."  A run that had the default directory to itself and
\* succeeded has all of them.
LoneReadyComplete ==
  \A p \in Procs \ Explicit : pc[p] = "ready" /\ p \in alone => AllFull
=============================================================================
