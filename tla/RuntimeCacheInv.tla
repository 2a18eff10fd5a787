-------------------------- MODULE RuntimeCacheInv ---------------------------
(***************************************************************************)
(* The inductive invariants of RuntimeCache: IInv, from which              *)
(* LoneFreshComplete, LoneRunNeverFails and LoneReadyRequired follow, and  *)
(* OverlapInv, from which BrokenCacheWasReported does.                     *)
(***************************************************************************)
EXTENDS RuntimeCache

Before == {"idle", "root", "stat"}
Writing == {"entry", "lstat", "open", "write"}

\* A run that is alone while it is active is the only active one.
AloneInv ==
  \A p \in Procs : p \in alone /\ Active(p) =>
    \A q \in Procs : Active(q) => q = p

\* Where each run has not yet started to probe, to remove or to extract.
Counters(p) ==
  /\ pc[p] \in (Working \cup {"idle"}) \ Writing => step[p] = 1
  /\ pc[p] \in Before \cup {"probe"} => listed[p] = {} /\ todo[p] = {}
  /\ pc[p] \in Before => probe[p] = 1
  /\ pc[p] \in Writing \cup {"mkdir", "remove", "ensure", "ensure2"} => p \in fresh
  /\ pc[p] = "probe" => p \notin fresh

NothingThere == \A f \in Files : disk[f] = "absent"

\* Exactly the first k entries of the archives have been made; the contents
\* of entry w, if it is a file, are being written.
Extracted(k, w) ==
  /\ "base" \in dirs
  /\ \A i \in Steps : Script[i] \in Files /\ i # w =>
       disk[Script[i]] = IF i <= k THEN "full" ELSE "absent"
  /\ \A i \in Steps : i <= k /\ Script[i] = "include" => "include" \in dirs

\* What nftw has read and not yet removed is what is there.
Removing(p) ==
  /\ "base" \in dirs
  /\ "base" \notin listed[p] => listed[p] = {} /\ todo[p] = {}
  /\ "base" \in listed[p] =>
       /\ "base" \notin todo[p]
       /\ \A f \in Files \ IncFiles : f \in todo[p] <=> disk[f] # "absent"
       /\ "include" \in todo[p] <=> "include" \in dirs
  /\ "include" \notin listed[p] => todo[p] \cap IncFiles = {}
  /\ "include" \in listed[p] =>
       \A f \in IncFiles : f \in todo[p] <=> disk[f] # "absent"

\* What a run that is alone knows of the directory at each of its steps.
LoneInv(p) ==
  /\ pc[p] = "probe" =>
       /\ "base" \in dirs
       /\ \A i \in 1 .. probe[p] - 1 : disk[Required[i]] \in {"long", "full"}
  /\ pc[p] = "remove" => Removing(p)
  /\ pc[p] = "mkdir" => "base" \notin dirs
  /\ pc[p] \in {"ensure", "ensure2", "mkdir"} => NothingThere
  /\ pc[p] = "entry" => Extracted(step[p] - 1, 0)
  /\ pc[p] = "lstat" => /\ Extracted(step[p] - 1, 0)
                        /\ Script[step[p]] \in dirs
  /\ pc[p] = "open" => /\ Extracted(step[p] - 1, 0)
                       /\ Script[step[p]] \in Files
  /\ pc[p] = "write" => /\ Extracted(step[p] - 1, step[p])
                        /\ Script[step[p]] \in Files
                        /\ handle[p] \in {"new", "flushed"}
  /\ pc[p] = "ready" /\ p \in fresh => AllFull
  /\ pc[p] = "ready" /\ p \notin Explicit =>
       \A i \in 1 .. Len(Required) : disk[Required[i]] \in {"long", "full"}

IInv ==
  /\ TypeOK
  /\ AloneInv
  /\ \A p \in Procs : Counters(p)
  /\ \A p \in Procs : p \in alone /\ Active(p) => LoneInv(p)
  /\ LoneRunNeverFails

-----------------------------------------------------------------------------
(* Runs that overlap *)

\* Run p is going to have written all of file f when it is done with the
\* archives: it has yet to come to f, or it is writing the file that is there.
\* A FILE that was cut under it, or unlinked, is no longer its business.
Owes(p, f) ==
  \/ pc[p] \in {"mkdir", "remove", "ensure", "ensure2"}
  \/ /\ pc[p] \in Writing
     /\ \E i \in Steps :
          /\ Script[i] = f /\ step[p] <= i
          /\ pc[p] = "write" /\ step[p] = i => handle[p] \in {"new", "flushed"}

\* A run that was killed or that reported an error.
Reported == \E p \in Procs : pc[p] \in {"failed", "noparent", "ioerror", "crashed"}

\* No run has begun to extract; only runs that name the directory have passed,
\* which found it there.
Untouched ==
  /\ NothingThere
  /\ \A p \in Procs :
       /\ pc[p] \in Before \cup {"probe"} \/ (p \in Explicit \ fresh /\ pc[p] \in {"ready", "done"})
       /\ probe[p] = 1

\* Every file that is not whole is some run's business still.
Accounted == \A f \in Files : disk[f] = "full" \/ \E p \in Procs : Owes(p, f)

OverlapInv ==
  /\ \A p \in Procs : pc[p] = "lstat" => Script[step[p]] \in Dirs
  /\ Reported \/ Untouched \/ Accounted
=============================================================================
