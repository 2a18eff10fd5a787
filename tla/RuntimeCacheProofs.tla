------------------------- MODULE RuntimeCacheProofs -------------------------
(***************************************************************************)
(* What holds of RuntimeCache for any number of runs, any archives that    *)
(* satisfy CacheAssumption and any number of crashes and write errors: its *)
(* type invariant, what a run that has the directory to itself can rely    *)
(* on (by the inductive invariant IInv of RuntimeCacheInv), and that a     *)
(* whole cache is never touched.                                           *)
(***************************************************************************)
EXTENDS RuntimeCacheInv, TLAPS

\* What CacheAssumption says of single positions.
LEMMA Constants ==
  /\ Len(Script) \in Nat /\ Len(Required) \in Nat
  /\ \A i \in Steps : Script[i] \in Files \cup Dirs
  /\ \A i \in 1 .. Len(Required) : Required[i] \in Files
  /\ 1 \in Steps
  /\ IncFiles \subseteq Files /\ MaxFaults \in Nat
  /\ "base" \notin Files /\ "include" \notin Files /\ "root" \notin Files
BY CacheAssumption DEF CacheAssumption, Steps, Dirs, Places

\* A cold start is well typed, with no file outside a directory and no open FILE.
LEMMA TypeInit == Init => TypeOK
BY Constants, CacheAssumption
DEF Init, TypeOK, Typed, Tree, Rooted, Streams, CacheAssumption, Dirs, Places, Content, Handle, Finished, Working, Steps

\* No step of a run takes a variable out of its type.
LEMMA TypedStep ==
  ASSUME TypeOK, NEW p \in Procs, Run(p) \/ Start(p) \/ WriteFails(p) \/ Crash(p)
  PROVE  Typed'
<1> USE DEF Run, Mkdtemp, RemoveTree, Extract, EnsureRoot, StatBase, MakeExplicit,
        ProbeFile, EnsureBase, ListDir, RemoveFile, RemoveDir, MakeDir, LstatDir,
        CheckFile, OpenFile, Flush, Close, Finish, Start, WriteFails, Crash,
        RemoveFails, Advance, Goto, SetFresh, diskVars, scanVars
<1>1. dirs' \in SUBSET Places
  <2>1. dirs' = dirs \/ \E d \in Places : dirs' = dirs \cup {d} \/ dirs' = dirs \ {d}
    BY DEF Dirs, Places
  <2> HIDE DEF Run, Start, WriteFails, Crash
  <2> QED BY <2>1 DEF TypeOK, Typed
<1>2. disk' \in [Files -> Content]
  <2>1. disk' = disk \/ \E f \in Files, c \in Content : disk' = [disk EXCEPT ![f] = c]
    BY DEF Content, TypeOK, Typed, Streams
  <2> HIDE DEF Run, Start, WriteFails, Crash
  <2> QED BY <2>1 DEF TypeOK, Typed
<1>3. pc' \in [Procs -> {"idle", "ready"} \cup Working \cup Finished]
  <2>1. pc' = pc \/ \E s \in {"ready"} \cup Working \cup Finished : pc' = [pc EXCEPT ![p] = s]
    BY DEF Working, Finished
  <2> HIDE DEF Run, Start, WriteFails, Crash
  <2> QED BY <2>1 DEF TypeOK, Typed
<1>4. fresh' \in SUBSET Procs
  <2>1. fresh' = fresh \/ fresh' = fresh \cup {p} \/ fresh' = fresh \ {p}
    OBVIOUS
  <2> HIDE DEF Run, Start, WriteFails, Crash
  <2> QED BY <2>1 DEF TypeOK, Typed
<1>5. probe' \in [Procs -> 1 .. Len(Required) + 1]
  <2>1. \/ probe' = probe
        \/ probe[p] <= Len(Required) /\ probe' = [probe EXCEPT ![p] = probe[p] + 1]
    OBVIOUS
  <2>2. Len(Required) \in Nat /\ probe \in [Procs -> 1 .. Len(Required) + 1]
    BY Constants DEF TypeOK, Typed
  <2> HIDE DEF Run, Start, WriteFails, Crash
  <2> QED BY <2>1, <2>2
<1>6. listed' \in [Procs -> SUBSET Dirs]
  <2>1. listed' = listed \/ \E d \in Dirs : listed' = [listed EXCEPT ![p] = listed[p] \cup {d}]
    OBVIOUS
  <2>2. listed \in [Procs -> SUBSET Dirs]
    BY DEF TypeOK, Typed
  <2> HIDE DEF Run, Start, WriteFails, Crash
  <2> QED BY <2>1, <2>2
<1>7. todo' \in [Procs -> SUBSET (Files \cup Dirs)]
  <2>1. todo' = todo \/ \E t \in SUBSET (Files \cup Dirs) :
          \/ todo' = [todo EXCEPT ![p] = todo[p] \cup t]
          \/ todo' = [todo EXCEPT ![p] = todo[p] \ t]
    BY DEF Children, Dirs
  <2>2. todo \in [Procs -> SUBSET (Files \cup Dirs)]
    BY DEF TypeOK, Typed
  <2> HIDE DEF Run, Start, WriteFails, Crash
  <2> QED BY <2>1, <2>2
<1>8. step' \in [Procs -> 1 .. Len(Script) + 1]
  <2>1. \/ step' = step
        \/ step[p] \in Steps /\ step' = [step EXCEPT ![p] = step[p] + 1]
    BY DEF TypeOK, Streams, Working
  <2>2. step \in [Procs -> 1 .. Len(Script) + 1]
    BY DEF TypeOK, Typed
  <2>3. Steps = 1 .. Len(Script) /\ Len(Script) \in Nat
    BY Constants DEF Steps
  <2> HIDE DEF Run, Start, WriteFails, Crash
  <2> QED BY <2>1, <2>2, <2>3
<1>9. handle' \in [Procs -> Handle]
  <2>1. \A q \in Procs : handle'[q] \in Handle
    BY DEF TypeOK, Typed, Handle
  <2>2. \E h : handle' = [q \in Procs |-> h[q]]
    BY DEF TypeOK, Typed
  <2> HIDE DEF Run, Start, WriteFails, Crash
  <2> QED BY <2>1, <2>2
<1>10. alone' \in SUBSET Procs
  BY DEF TypeOK, Typed
<1>11. faults' \in 0 .. MaxFaults
  BY Constants DEF TypeOK, Typed
<1>12. obstacle' = obstacle
  OBVIOUS
<1> QED
  BY <1>1, <1>2, <1>3, <1>4, <1>5, <1>6, <1>7, <1>8, <1>9, <1>10, <1>11, <1>12
  DEF TypeOK, Typed

\* No step of a run leaves a file or include/ without its directory.
LEMMA TreeStep ==
  ASSUME TypeOK, NEW p \in Procs, Run(p) \/ Start(p) \/ WriteFails(p) \/ Crash(p)
  PROVE  Tree'
<1> USE Constants DEF TypeOK, Tree, Parent, diskVars
<1>1. CASE UNCHANGED diskVars
  BY <1>1
<1>2. CASE MakeExplicit(p) \/ EnsureBase(p) \/ EnsureRoot(p)
  BY <1>2 DEF MakeExplicit, EnsureBase, EnsureRoot, Rooted
<1>3. ASSUME NEW f \in Files, RemoveFile(p, f) PROVE Tree'
  BY <1>3 DEF RemoveFile, RemoveFails, Typed
<1>4. ASSUME NEW d \in Dirs, RemoveDir(p, d) PROVE Tree'
  BY <1>4 DEF RemoveDir, RemoveFails, Children, Present, Dirs
<1>5. CASE MakeDir(p)
  BY <1>5 DEF MakeDir, Dirs
<1>6. CASE OpenFile(p)
  BY <1>6 DEF OpenFile, Typed
<1>7. CASE Flush(p) \/ Close(p)
  <2>1. dirs' = dirs /\ \A f \in Files : disk'[f] # "absent" => disk[f] # "absent"
    BY <1>7 DEF Flush, Close, Streams, Typed, Handle
  <2> QED
    BY <2>1
<1>8. CASE StatBase(p) \/ ProbeFile(p)
  <2>1. UNCHANGED diskVars
    BY <1>8 DEF StatBase, ProbeFile
  <2> QED
    BY <1>1, <2>1
<1>9. CASE LstatDir(p) \/ CheckFile(p) \/ Finish(p) \/ Start(p) \/ WriteFails(p) \/ Crash(p)
  <2>1. UNCHANGED diskVars
    BY <1>9 DEF LstatDir, CheckFile, Finish, Start, WriteFails, Crash
  <2> QED
    BY <1>1, <2>1
<1>10. ASSUME NEW d \in Dirs, ListDir(p, d) PROVE Tree'
  <2>1. UNCHANGED diskVars
    BY <1>10 DEF ListDir, RemoveFails
  <2> QED
    BY <1>1, <2>1
<1> HIDE DEF Tree, TypeOK, Parent, diskVars
<1>11. CASE Mkdtemp(p)
  BY <1>2, <1>8, <1>11 DEF Mkdtemp
<1>12. CASE RemoveTree(p)
  BY <1>3, <1>4, <1>10, <1>12 DEF RemoveTree
<1>13. CASE Extract(p)
  BY <1>5, <1>6, <1>7, <1>9, <1>13 DEF Extract
<1> QED
  BY <1>9, <1>11, <1>12, <1>13 DEF Run

\* The root is never removed, and a default run is past it only when it is there.
LEMMA RootedStep ==
  ASSUME TypeOK, NEW p \in Procs, Run(p) \/ Start(p) \/ WriteFails(p) \/ Crash(p)
  PROVE  Rooted'
<1> USE DEF TypeOK, Typed, Rooted, Goto, diskVars
<1>1. "root" \in dirs => "root" \in dirs'
  BY DEF Run, Mkdtemp, RemoveTree, Extract, EnsureRoot, StatBase, MakeExplicit, ProbeFile,
     EnsureBase, ListDir, RemoveFile, RemoveDir, MakeDir, LstatDir, CheckFile, OpenFile,
     Flush, Close, Finish, Start, WriteFails, Crash, RemoveFails, Dirs
<1>2. \A q \in Procs \ {p} : pc'[q] = pc[q]
  BY DEF Run, Mkdtemp, RemoveTree, Extract, EnsureRoot, StatBase, MakeExplicit, ProbeFile,
     EnsureBase, ListDir, RemoveFile, RemoveDir, MakeDir, LstatDir, CheckFile, OpenFile,
     Flush, Close, Finish, Start, WriteFails, Crash, RemoveFails, Advance
<1>3. pc'[p] \in {"ensure", "ensure2"} \/ (pc'[p] = "stat" /\ p \notin Explicit) =>
        "root" \in dirs'
  <2>1. CASE EnsureRoot(p) \/ StatBase(p) \/ EnsureBase(p)
    BY <2>1 DEF EnsureRoot, StatBase, EnsureBase
  <2>2. ASSUME NEW d \in Dirs, RemoveDir(p, d) PROVE <1>3
    BY <2>2 DEF RemoveDir, RemoveFails, Tree, Dirs
  <2>3. CASE ~(EnsureRoot(p) \/ StatBase(p) \/ EnsureBase(p) \/ \E d \in Dirs : RemoveDir(p, d))
    BY <2>3 DEF Run, Mkdtemp, RemoveTree, Extract, MakeExplicit, ProbeFile, ListDir, RemoveFile,
       MakeDir, LstatDir, CheckFile, OpenFile, Flush, Close, Finish, Start, WriteFails, Crash,
       RemoveFails, Advance
  <2> QED
    BY <2>1, <2>2, <2>3
<1> QED
  BY <1>1, <1>2, <1>3

\* No step of a run leaves a FILE open that the run is not writing.
LEMMA StreamsStep ==
  ASSUME TypeOK, NEW p \in Procs, Run(p) \/ Start(p) \/ WriteFails(p) \/ Crash(p)
  PROVE  Streams'
<1> USE Constants DEF TypeOK, Typed, Streams, diskVars, scanVars, Goto, Working
<1>1. CASE EnsureRoot(p) \/ StatBase(p) \/ MakeExplicit(p) \/ ProbeFile(p) \/ EnsureBase(p)
  <2>1. CASE EnsureRoot(p) \/ EnsureBase(p)
    BY <2>1 DEF EnsureRoot, EnsureBase
  <2>2. CASE StatBase(p)
    BY <2>2 DEF StatBase
  <2>3. CASE ProbeFile(p)
    BY <2>3 DEF ProbeFile
  <2>4. CASE MakeExplicit(p)
    BY <2>4 DEF MakeExplicit
  <2> QED
    BY <1>1, <2>1, <2>2, <2>3, <2>4
<1>2. ASSUME NEW d \in Dirs, ListDir(p, d) \/ RemoveDir(p, d) PROVE Streams'
  BY <1>2 DEF ListDir, RemoveDir, RemoveFails
<1>3. ASSUME NEW f \in Files, RemoveFile(p, f) PROVE Streams'
  BY <1>3 DEF RemoveFile, RemoveFails
<1>4. CASE MakeDir(p) \/ LstatDir(p)
  <2>1. step[p] \in Steps /\ handle' = handle /\ disk' = disk /\ pc[p] \in {"entry", "lstat"}
    BY <1>4 DEF MakeDir, LstatDir
  <2>2. \/ step' = step /\ \E s \in {"lstat", "failed"} : pc' = [pc EXCEPT ![p] = s]
        \/ /\ step' = [step EXCEPT ![p] = step[p] + 1]
           /\ pc' = [pc EXCEPT ![p] = IF step[p] = Len(Script) THEN "ready" ELSE "entry"]
    BY <1>4 DEF MakeDir, LstatDir, Advance
  <2>3. CASE step' = step
    BY <2>1, <2>2, <2>3
  <2>4. CASE step' = [step EXCEPT ![p] = step[p] + 1]
    BY <2>1, <2>2, <2>4 DEF Steps
  <2> QED
    BY <2>2, <2>3, <2>4
<1>5. CASE CheckFile(p)
  BY <1>5 DEF CheckFile
<1>6. CASE OpenFile(p)
  <2>1. step' = step /\ Script[step[p]] \in Files
    BY <1>6 DEF OpenFile
  <2>2. CASE UNCHANGED <<disk, handle>> /\ pc' = [pc EXCEPT ![p] = "failed"]
    BY <1>6, <2>1, <2>2 DEF OpenFile
  <2>3. CASE pc' = [pc EXCEPT ![p] = "write"]
    <3>1. disk' = [disk EXCEPT ![Script[step[p]]] = "short"]
      BY <1>6, <2>3 DEF OpenFile
    <3>2. \A q \in Procs \ {p} :
            handle'[q] \in {handle[q], "torn"} /\ (handle[q] = "none" <=> handle'[q] = "none")
                                            /\ (handle[q] = "lost" <=> handle'[q] = "lost")
      BY <1>6, <2>3 DEF OpenFile
    <3>3. handle'[p] = "new"
      BY <1>6, <2>3 DEF OpenFile
    <3> QED
      BY <1>6, <2>1, <2>3, <3>1, <3>2, <3>3 DEF OpenFile
  <2> QED
    BY <1>6, <2>2, <2>3 DEF OpenFile
<1>7. CASE Flush(p)
  BY <1>7 DEF Flush
<1>8. CASE Close(p)
  BY <1>8 DEF Close, Advance, Steps
<1>9. CASE Finish(p) \/ Start(p) \/ WriteFails(p) \/ Crash(p)
  BY <1>9 DEF Finish, Start, WriteFails, Crash, Active
<1> QED
  BY <1>1, <1>2, <1>3, <1>4, <1>5, <1>6, <1>7, <1>8, <1>9
  DEF Run, Mkdtemp, RemoveTree, Extract

\* TypeOK is inductive by itself.
LEMMA TypeStep ==
  ASSUME TypeOK, [Next]_vars
  PROVE  TypeOK'
<1>1. CASE UNCHANGED vars
  BY <1>1 DEF vars, TypeOK, Typed, Tree, Rooted, Streams
<1>2. ASSUME NEW p \in Procs, Run(p) \/ Start(p) \/ WriteFails(p) \/ Crash(p)
      PROVE  TypeOK'
  BY <1>2, TypedStep, TreeStep, RootedStep, StreamsStep DEF TypeOK
<1> QED
  BY <1>1, <1>2 DEF Next

-----------------------------------------------------------------------------
\* A step of one run leaves the others where they are.
LEMMA OthersStay ==
  ASSUME TypeOK, NEW p \in Procs, Run(p) \/ WriteFails(p) \/ Crash(p)
  PROVE  /\ Active(p) /\ alone' = alone /\ obstacle' = obstacle
         /\ \A q \in Procs \ {p} :
              /\ pc'[q] = pc[q] /\ step'[q] = step[q] /\ probe'[q] = probe[q]
              /\ listed'[q] = listed[q] /\ todo'[q] = todo[q]
              /\ q \in fresh' <=> q \in fresh
BY DEF TypeOK, Typed, Run, Mkdtemp, RemoveTree, Extract, EnsureRoot, StatBase,
       MakeExplicit, ProbeFile, EnsureBase, ListDir, RemoveFile, RemoveDir, MakeDir,
       LstatDir, CheckFile, OpenFile, Flush, Close, Finish, WriteFails, Crash,
       RemoveFails, Advance, Goto, SetFresh, diskVars, scanVars, Active, Working

\* A run that is alone stays the only active one as long as it is alone.
LEMMA AloneStep ==
  ASSUME TypeOK, AloneInv, [Next]_vars
  PROVE  AloneInv'
<1>1. CASE UNCHANGED vars
  BY <1>1 DEF vars, AloneInv, Active
<1>2. ASSUME NEW p \in Procs, Run(p) \/ WriteFails(p) \/ Crash(p)
      PROVE  AloneInv'
  BY <1>2, OthersStay DEF AloneInv, Active
<1>3. ASSUME NEW p \in Procs, Start(p)
      PROVE  AloneInv'
  <2>1. \A q \in Procs : Active(q)' => Active(q) \/ q = p
    BY <1>3 DEF Start, Goto, Active, TypeOK, Typed
  <2>2. ASSUME NEW q \in Procs, q \in alone', Active(q)' PROVE q = p /\ \A r \in Procs : ~Active(r)
    BY <1>3, <2>1, <2>2 DEF Start
  <2> QED
    BY <2>1, <2>2 DEF AloneInv
<1> QED
  BY <1>1, <1>2, <1>3 DEF Next

\* No step takes a run to a phase with counters left over from another.
LEMMA CounterStep ==
  ASSUME TypeOK, \A q \in Procs : Counters(q), [Next]_vars
  PROVE  \A q \in Procs : Counters(q)'
<1> USE DEF Counters, TypeOK, Typed, Before, Writing, Working
<1>1. CASE UNCHANGED vars
  BY <1>1 DEF vars
<1>2. ASSUME NEW p \in Procs, Start(p)
      PROVE  \A q \in Procs : Counters(q)'
  BY <1>2 DEF Start, Goto, diskVars, scanVars
<1>3. ASSUME NEW p \in Procs, Run(p) \/ WriteFails(p) \/ Crash(p)
      PROVE  \A q \in Procs : Counters(q)'
  <2>1. ASSUME NEW q \in Procs \ {p}
        PROVE  Counters(q)'
    BY <1>3, OthersStay
  <2>2. Counters(p)'
    <3> USE DEF Goto, SetFresh, diskVars, scanVars
    <3>1. CASE Mkdtemp(p)
      <4>1. CASE EnsureRoot(p) \/ StatBase(p) \/ ProbeFile(p)
        BY <4>1 DEF EnsureRoot, StatBase, ProbeFile
      <4>2. CASE MakeExplicit(p) \/ EnsureBase(p)
        BY <4>2 DEF MakeExplicit, EnsureBase
      <4> QED
        BY <3>1, <4>1, <4>2 DEF Mkdtemp
    <3>2. CASE RemoveTree(p)
      BY <3>2 DEF RemoveTree, ListDir, RemoveFile, RemoveDir, RemoveFails
    <3>3. CASE Extract(p)
      BY <3>3 DEF Extract, MakeDir, LstatDir, CheckFile, OpenFile, Flush, Close, Advance
    <3>4. CASE Finish(p) \/ WriteFails(p) \/ Crash(p)
      BY <3>4 DEF Finish, WriteFails, Crash
    <3> QED
      BY <1>3, <3>1, <3>2, <3>3, <3>4 DEF Run
  <2> QED
    BY <2>1, <2>2
<1> QED
  BY <1>1, <1>2, <1>3 DEF Next

\* cjit_mkdtemp keeps what a run that is alone knows of the directory, and
\* fails only where a file is in the way, or for want of the parent.
LEMMA LoneMkdtemp ==
  ASSUME TypeOK, NEW p \in Procs, Counters(p), LoneInv(p), Mkdtemp(p)
  PROVE  /\ Active(p)' => LoneInv(p)'
         /\ pc'[p] = "failed" => obstacle # "none"
<1> USE Constants DEF TypeOK, Typed, Goto, diskVars, scanVars, Active, Working
<1>1. CASE EnsureRoot(p)
  BY <1>1 DEF EnsureRoot, LoneInv
<1>2. CASE StatBase(p)
  BY <1>2 DEF StatBase, LoneInv, SetFresh, Counters, Before, NothingThere, Tree, Parent
<1>3. CASE MakeExplicit(p)
  <2>1. step[p] = 1 /\ NothingThere /\ "base" \notin dirs
    BY <1>3 DEF MakeExplicit, LoneInv, Counters, Writing
  <2>2. \/ pc'[p] = "failed" /\ "root" \notin dirs /\ obstacle = "root"
        \/ pc'[p] = "noparent"
        \/ pc'[p] = "entry" /\ "base" \in dirs' /\ disk' = disk /\ step' = step
    BY <1>3, <2>1 DEF MakeExplicit
  <2>3. pc'[p] = "entry" => Extracted(step[p] - 1, 0)'
    BY <2>1, <2>2 DEF Extracted, NothingThere, Steps
  <2> QED
    BY <2>2, <2>3 DEF LoneInv, Finished
<1>4. CASE ProbeFile(p)
  <2>1. UNCHANGED <<dirs, disk, listed, todo>> /\ "base" \in dirs
    BY <1>4 DEF ProbeFile, LoneInv
  <2>2. CASE /\ probe[p] > Len(Required) /\ UNCHANGED fresh
             /\ pc' = [pc EXCEPT ![p] = "ready"]
    <3>1. p \notin fresh' /\ pc'[p] = "ready"
      BY <1>4, <2>2 DEF ProbeFile, Counters
    <3>2. \A i \in 1 .. Len(Required) : disk'[Required[i]] \in {"long", "full"}
      BY <1>4, <2>1, <2>2 DEF ProbeFile, LoneInv
    <3> QED
      BY <3>1, <3>2 DEF LoneInv
  <2>3. CASE /\ BigEnough(Required[probe[p]])
             /\ probe' = [probe EXCEPT ![p] = probe[p] + 1] /\ UNCHANGED pc
    BY <1>4, <2>1, <2>3 DEF ProbeFile, LoneInv, BigEnough
  <2>4. CASE pc' = [pc EXCEPT ![p] = "remove"] /\ SetFresh(p, TRUE)
    BY <1>4, <2>1, <2>4 DEF ProbeFile, LoneInv, SetFresh, Counters, Removing
  <2> QED
    BY <1>4, <2>2, <2>3, <2>4 DEF ProbeFile
<1>5. CASE EnsureBase(p)
  <2>1. step[p] = 1 /\ NothingThere /\ p \in fresh
    BY <1>5 DEF EnsureBase, LoneInv, Counters, Writing
  <2>2. /\ pc'[p] \in {"ensure2", "entry"}
        /\ "base" \in dirs' /\ disk' = disk /\ step' = step /\ fresh' = fresh
    BY <1>5 DEF EnsureBase
  <2>3. NothingThere' /\ Extracted(step[p] - 1, 0)'
    BY <2>1, <2>2 DEF Extracted, NothingThere, Steps
  <2> QED
    BY <2>1, <2>2, <2>3 DEF LoneInv
<1> QED
  BY <1>1, <1>2, <1>3, <1>4, <1>5 DEF Mkdtemp

\* remove_tree of a run that is alone removes all that is there and never fails.
LEMMA LoneRemove ==
  ASSUME TypeOK, NEW p \in Procs, Counters(p), LoneInv(p), RemoveTree(p)
  PROVE  /\ Active(p)' => LoneInv(p)'
         /\ pc'[p] = "failed" => obstacle # "none"
<1> USE Constants DEF TypeOK, Typed, Goto, diskVars, scanVars, Active, Working
<1>1. ASSUME NEW d \in Dirs, ListDir(p, d) PROVE pc' = pc /\ Removing(p)'
  <2>1. Removing(p) /\ d \in dirs
    <3>1. Removing(p)
      BY <1>1 DEF ListDir, LoneInv
    <3>2. d = "base" \/ (d = "include" /\ d \in todo[p] /\ "base" \in listed[p])
      BY <1>1 DEF ListDir, Dirs
    <3> QED
      BY <3>1, <3>2 DEF Removing
  <2>2. /\ UNCHANGED <<pc, dirs, disk>>
        /\ listed' = [listed EXCEPT ![p] = listed[p] \cup {d}]
        /\ todo' = [todo EXCEPT ![p] = todo[p] \cup Children(d)]
    BY <1>1, <2>1 DEF ListDir
  <2>3. CASE d = "base"
    <3>1. \A n : n \in Children(d) <=> \/ n \in Files \ IncFiles /\ disk[n] # "absent"
                                       \/ n = "include" /\ "include" \in dirs
      BY <2>3 DEF Children, Present, Parent, Dirs
    <3>2. listed[p] = {} /\ todo[p] = {}
      BY <1>1, <2>1, <2>3 DEF ListDir, Removing
    <3> QED
      BY <2>1, <2>2, <2>3, <3>1, <3>2 DEF Removing
  <2>4. CASE d = "include"
    <3>1. \A n : n \in Children(d) <=> n \in IncFiles /\ disk[n] # "absent"
      BY <2>4 DEF Children, Present, Parent, Dirs
    <3>2. "base" \in listed[p] /\ todo[p] \cap IncFiles = {}
      BY <1>1, <2>1, <2>4 DEF ListDir, Removing
    <3> QED
      BY <2>1, <2>2, <2>4, <3>1, <3>2 DEF Removing
  <2> QED
    BY <2>3, <2>4 DEF Dirs
<1>2. ASSUME NEW f \in Files, RemoveFile(p, f) PROVE pc' = pc /\ Removing(p)'
  <2>1. Removing(p)
    BY <1>2 DEF RemoveFile, LoneInv
  <2>2. disk[f] # "absent"
    BY <1>2, <2>1 DEF RemoveFile, Removing, Current
  <2>3. /\ UNCHANGED <<pc, dirs, listed>>
        /\ disk' = [disk EXCEPT ![f] = "absent"]
        /\ todo' = [todo EXCEPT ![p] = todo[p] \ {f}]
    BY <1>2, <2>2 DEF RemoveFile
  <2> QED
    BY <2>1, <2>3 DEF Removing
<1>3. ASSUME NEW d \in Dirs, RemoveDir(p, d)
      PROVE  \/ pc' = pc /\ Removing(p)'
             \/ pc' = [pc EXCEPT ![p] = "ensure"] /\ NothingThere'
  BY <1>3 DEF RemoveDir, RemoveFails, LoneInv, Removing, Children, Present, Parent, Dirs, Tree, NothingThere
<1> QED
  BY <1>1, <1>2, <1>3 DEF RemoveTree, LoneInv, ListDir, RemoveFile, RemoveDir

\* extract_assets of a run that is alone makes the entries of the archives one
\* after the other and never finds one of them in place.
LEMMA LoneExtract ==
  ASSUME TypeOK, NEW p \in Procs, Counters(p), LoneInv(p), Extract(p)
  PROVE  /\ Active(p)' => LoneInv(p)'
         /\ pc'[p] # "failed"
<1> USE Constants DEF TypeOK, Typed, diskVars, scanVars, Active, Working
<1>1. PICK k \in Nat : k = step[p] /\ k \in Steps /\ Len(Script) \in Nat
  BY DEF Extract, MakeDir, LstatDir, CheckFile, OpenFile, Flush, Close, Streams, Steps
\* After the last entry every file of the archives has been written.
<1>2. ASSUME Advance(p), Extracted(k, 0)'
      PROVE  LoneInv(p)' /\ pc'[p] # "failed"
  <2>1. CASE step[p] = Len(Script)
    <3>1. AllFull'
      BY <1>1, <1>2, <2>1, CacheAssumption DEF AllFull, Extracted, CacheAssumption, Steps
    <3> QED
      BY <1>2, <2>1, <3>1 DEF Advance, Goto, LoneInv, AllFull
  <2>2. CASE step[p] # Len(Script)
    <3>1. pc'[p] = "entry" /\ step'[p] - 1 = k
      BY <1>1, <1>2, <2>2 DEF Advance, Goto
    <3>2. Extracted(step[p] - 1, 0)'
      BY <1>2, <3>1
    <3> QED
      BY <3>1, <3>2 DEF LoneInv
  <2> QED
    BY <2>1, <2>2
\* Every file has its directory when its turn comes, and no entry comes twice.
<1>3. ASSUME NEW w \in {0, step[p]}, Extracted(step[p] - 1, w), Script[step[p]] \in Files
      PROVE  /\ Parent(Script[step[p]]) \in dirs
             /\ \A i \in Steps : i # step[p] => Script[i] # Script[step[p]]
  <2>1. Script[step[p]] \in IncFiles =>
          \E i \in Steps : i <= step[p] - 1 /\ Script[i] = "include"
    BY <1>1, CacheAssumption DEF CacheAssumption, Steps
  <2>2. Parent(Script[step[p]]) \in dirs
    BY <1>3, <2>1 DEF Extracted, Parent
  <2> QED
    BY <1>1, <1>3, <2>2, CacheAssumption DEF CacheAssumption
<1>4. CASE MakeDir(p)
  <2>1. Extracted(step[p] - 1, 0) /\ Script[step[p]] \in Dirs /\ disk' = disk
    BY <1>4 DEF MakeDir, LoneInv
  <2>2. Script[step[p]] \notin Files
    BY <2>1 DEF Dirs
  <2>3. CASE Advance(p) /\ dirs' = dirs
    <3>1. Script[step[p]] \in dirs
      BY <1>4, <2>1, <2>3 DEF MakeDir, Extracted, Advance, Tree, Dirs
    <3>2. Extracted(k, 0)'
      BY <1>1, <2>1, <2>2, <2>3, <3>1 DEF Extracted, Steps
    <3> QED
      BY <1>2, <2>3, <3>2
  <2>4. CASE pc' = [pc EXCEPT ![p] = "lstat"] /\ step' = step /\ dirs' = dirs \cup {Script[step[p]]}
    <3>1. Extracted(step[p] - 1, 0)'
      BY <2>1, <2>4 DEF Extracted
    <3> QED
      BY <2>4, <3>1 DEF LoneInv
  <2> QED
    BY <1>4, <2>3, <2>4 DEF MakeDir, Goto
<1>5. CASE LstatDir(p)
  <2>1. Extracted(step[p] - 1, 0) /\ Script[step[p]] \in dirs
    BY <1>5 DEF LstatDir, LoneInv
  <2>2. Advance(p) /\ UNCHANGED diskVars
    BY <1>5, <2>1 DEF LstatDir
  <2>3. Script[step[p]] \notin Files
    BY <2>1 DEF Places, Dirs
  <2>4. Extracted(k, 0)'
    BY <1>1, <2>1, <2>2, <2>3 DEF Extracted, Steps
  <2> QED
    BY <1>2, <2>2, <2>4
<1>6. CASE CheckFile(p)
  <2>1. Extracted(step[p] - 1, 0) /\ Script[step[p]] \in Files
    BY <1>6 DEF CheckFile, LoneInv
  <2>2. disk[Script[step[p]]] = "absent"
    BY <1>1, <2>1 DEF Extracted, Steps
  <2>3. pc' = [pc EXCEPT ![p] = "open"] /\ UNCHANGED <<dirs, disk, step>>
    BY <1>6, <2>2 DEF CheckFile, Goto
  <2>4. Extracted(step[p] - 1, 0)'
    BY <2>1, <2>3 DEF Extracted
  <2> QED
    BY <2>1, <2>3, <2>4 DEF LoneInv
<1>7. CASE OpenFile(p)
  <2>1. Extracted(step[p] - 1, 0) /\ Script[step[p]] \in Files
    BY <1>7 DEF OpenFile, LoneInv
  <2>2. /\ pc' = [pc EXCEPT ![p] = "write"] /\ UNCHANGED <<dirs, step>>
        /\ disk' = [disk EXCEPT ![Script[step[p]]] = "short"]
        /\ handle'[p] = "new"
    BY <1>3, <1>7, <2>1 DEF OpenFile, Goto
  <2>3. Extracted(step[p] - 1, step[p])'
    BY <1>1, <1>3, <2>1, <2>2 DEF Extracted, Steps
  <2> QED
    BY <2>1, <2>2, <2>3 DEF LoneInv
<1>8. CASE Flush(p)
  <2>1. /\ Extracted(step[p] - 1, step[p]) /\ Script[step[p]] \in Files
        /\ UNCHANGED <<pc, dirs, step>> /\ handle'[p] = "flushed"
        /\ \E c : disk' = [disk EXCEPT ![Script[step[p]]] = c]
    BY <1>8 DEF Flush, LoneInv
  <2>2. Extracted(step[p] - 1, step[p])'
    BY <1>1, <1>3, <2>1 DEF Extracted, Steps
  <2> QED
    BY <1>8, <2>1, <2>2 DEF LoneInv, Flush
<1>9. CASE Close(p)
  <2>1. /\ Extracted(step[p] - 1, step[p]) /\ Script[step[p]] \in Files
        /\ handle[p] \in {"new", "flushed"}
    BY <1>9 DEF Close, LoneInv
  <2>2. Advance(p) /\ dirs' = dirs /\ disk' = [disk EXCEPT ![Script[step[p]]] = "full"]
    BY <1>9, <2>1 DEF Close
  <2>3. Extracted(k, 0)'
    <3>1. \A i \in Steps : i # k => Script[i] # Script[k]
      BY <1>1, <1>3, <2>1
    <3>2. ASSUME NEW i \in Steps, Script[i] \in Files
          PROVE  disk'[Script[i]] = IF i <= k THEN "full" ELSE "absent"
      <4>1. /\ Script[k] \in Files /\ Script[i] \in DOMAIN disk /\ k \in Nat /\ i \in Nat
            /\ i # k => disk[Script[i]] = IF i <= k - 1 THEN "full" ELSE "absent"
        BY <1>1, <2>1, <3>2 DEF Extracted, Steps
      <4>2. CASE i = k
        BY <1>1, <2>2, <4>1, <4>2 DEF Steps
      <4>3. CASE i # k
        <5>1. disk'[Script[i]] = disk[Script[i]] /\ (i <= k - 1 <=> i <= k)
          BY <1>1, <2>2, <3>1, <3>2, <4>1, <4>3
        <5> QED
          BY <4>1, <4>3, <5>1
      <4> QED
        BY <4>2, <4>3
    <3>3. "base" \in dirs' /\ \A i \in Steps : i <= k /\ Script[i] = "include" => "include" \in dirs'
      BY <1>1, <2>1, <2>2 DEF Extracted, Steps
    <3> QED
      BY <3>2, <3>3 DEF Extracted
  <2> QED
    BY <1>2, <2>2, <2>3
<1> QED
  BY <1>4, <1>5, <1>6, <1>7, <1>8, <1>9 DEF Extract

-----------------------------------------------------------------------------
\* The inductive invariant holds of a cold start.
THEOREM IInvInit == Init => IInv
BY TypeInit, Constants
DEF Init, IInv, AloneInv, Active, Counters, Before, Writing, Working, LoneRunNeverFails

\* Every step of every run preserves the inductive invariant.
THEOREM IInvStep == IInv /\ [Next]_vars => IInv'
<1> SUFFICES ASSUME IInv, [Next]_vars PROVE IInv'
  OBVIOUS
<1> USE DEF IInv
<1>1. TypeOK'
  BY TypeStep
<1>2. AloneInv'
  BY AloneStep
<1>3. \A p \in Procs : Counters(p)'
  BY CounterStep
<1>4. /\ \A p \in Procs : p \in alone' /\ Active(p)' => LoneInv(p)'
      /\ LoneRunNeverFails'
  <2>1. CASE UNCHANGED vars
    BY <2>1 DEF vars, LoneInv, Removing, Extracted, NothingThere, AllFull, Active,
                LoneRunNeverFails
  <2>2. ASSUME NEW p \in Procs, Start(p)
        PROVE  /\ \A q \in Procs : q \in alone' /\ Active(q)' => LoneInv(q)'
               /\ LoneRunNeverFails'
    <3>1. pc' = [pc EXCEPT ![p] = pc'[p]] /\ pc'[p] \in {"root", "stat"}
      BY <2>2 DEF Start, Goto, TypeOK, Typed
    <3>2. LoneInv(p)'
      BY <3>1 DEF LoneInv
    <3>3. alone' \subseteq alone /\ \A q \in Procs \ {p} : q \in alone' => ~Active(q)
      BY <2>2 DEF Start
    <3>4. \A q \in Procs \ {p} : q \in alone' => ~Active(q)'
      BY <3>1, <3>3 DEF Active, TypeOK, Typed
    <3>5. LoneRunNeverFails'
      BY <2>2, <3>1, <3>3 DEF LoneRunNeverFails, Start, TypeOK, Typed
    <3> QED
      BY <3>2, <3>4, <3>5
  <2>3. ASSUME NEW p \in Procs, Run(p) \/ WriteFails(p) \/ Crash(p)
        PROVE  /\ \A q \in Procs : q \in alone' /\ Active(q)' => LoneInv(q)'
               /\ LoneRunNeverFails'
    <3>1. /\ Active(p) /\ alone' = alone /\ obstacle' = obstacle
          /\ \A q \in Procs \ {p} : pc'[q] = pc[q]
      BY <2>3, OthersStay
    <3>2. \A q \in Procs \ {p} : ~(q \in alone' /\ Active(q)')
      BY <3>1 DEF AloneInv, Active
    <3>3. p \in alone => LoneInv(p)
      BY <3>1
    <3>4. p \in alone => /\ Active(p)' => LoneInv(p)'
                         /\ pc'[p] = "failed" => obstacle # "none"
      <4>1. CASE Mkdtemp(p)
        BY <3>3, <4>1, LoneMkdtemp
      <4>2. CASE RemoveTree(p)
        BY <3>3, <4>2, LoneRemove
      <4>3. CASE Extract(p)
        BY <3>3, <4>3, LoneExtract
      <4>4. CASE Finish(p) \/ WriteFails(p) \/ Crash(p)
        BY <4>4 DEF Finish, WriteFails, Crash, Goto, Active, Working, TypeOK, Typed
      <4> QED
        BY <2>3, <4>1, <4>2, <4>3, <4>4 DEF Run
    <3>5. LoneRunNeverFails'
      <4>1. \A q \in Procs : pc[q] = "failed" /\ q \in alone => obstacle # "none"
        BY DEF LoneRunNeverFails
      <4>2. ASSUME NEW q \in Procs, pc'[q] = "failed", q \in alone
            PROVE  obstacle # "none"
        BY <3>1, <3>4, <4>1, <4>2
      <4> QED
        BY <3>1, <4>2 DEF LoneRunNeverFails
    <3>6. ASSUME NEW q \in Procs, q \in alone', Active(q)'
          PROVE  LoneInv(q)'
      <4>1. q = p
        BY <3>2, <3>6
      <4>2. p \in alone /\ Active(p)'
        BY <3>1, <3>6, <4>1
      <4> QED
        BY <3>4, <4>1, <4>2
    <3> QED
      BY <3>5, <3>6
  <2> QED
    BY <2>1, <2>2, <2>3 DEF Next
<1> QED
  BY <1>1, <1>2, <1>3, <1>4

\* IInv holds at every moment of every behaviour of the cache.
THEOREM IInvHolds == Spec => []IInv
BY IInvInit, IInvStep, PTL DEF Spec

\* TypeOK: the types, the tree and the open files.
THEOREM TypeCorrect == Spec => []TypeOK
BY IInvHolds, PTL DEF IInv

\* A lone run that extracted and succeeded left every file in place.
THEOREM LoneFreshCompleteHolds == Spec => []LoneFreshComplete
<1>1. IInv => LoneFreshComplete
  BY DEF IInv, LoneFreshComplete, LoneInv, Active
<1> QED
  BY <1>1, IInvHolds, PTL

\* A lone run is never refused by what earlier runs left behind; a missing parent
\* is what no run has left yet.
THEOREM LoneRunNeverFailsHolds == Spec => []LoneRunNeverFails
BY IInvHolds, PTL DEF IInv

\* A lone run that succeeded finds the files of the completeness check.
THEOREM LoneReadyRequiredHolds == Spec => []LoneReadyRequired
<1>1. IInv => LoneReadyRequired
  BY DEF IInv, LoneReadyRequired, LoneInv, Active
<1> QED
  BY <1>1, IInvHolds, PTL

\* A run that has the directory to itself works, whatever it finds there.
THEOREM LoneRunWorksHolds == Spec => []LoneRunWorks
<1>1. LoneFreshComplete /\ LoneRunNeverFails /\ LoneReadyRequired => LoneRunWorks
  BY DEF LoneRunWorks
<1> QED
  BY <1>1, LoneFreshCompleteHolds, LoneRunNeverFailsHolds, LoneReadyRequiredHolds, PTL

-----------------------------------------------------------------------------
\* What another run owes does not change while its FILE is left alone.
LEMMA OwesStays ==
  ASSUME NEW q, NEW f, Owes(q, f),
         pc'[q] = pc[q], step'[q] = step[q], handle'[q] = handle[q]
  PROVE  Owes(q, f)'
BY DEF Owes

\* A step of run p that leaves the files and the other runs alone keeps every
\* file accounted for, if p still owes what it owed.
LEMMA AccountedStays ==
  ASSUME Accounted, NEW p \in Procs, disk' = disk,
         \A q \in Procs \ {p} : pc'[q] = pc[q] /\ step'[q] = step[q] /\ handle'[q] = handle[q],
         \A f \in Files : Owes(p, f) => Owes(p, f)'
  PROVE  Accounted'
<1> SUFFICES ASSUME NEW f \in Files, disk[f] # "full" PROVE \E q \in Procs : Owes(q, f)'
  BY DEF Accounted
<1>1. PICK q \in Procs : Owes(q, f)
  BY DEF Accounted
<1>2. CASE q = p
  BY <1>1, <1>2
<1>3. CASE q # p
  BY <1>1, <1>3, OwesStays
<1> QED
  BY <1>2, <1>3

\* When a run goes on to the next entry of the archives it still owes all it
\* owed, but for the entry it has done.
LEMMA OwesNext ==
  ASSUME TypeOK, NEW p \in Procs, pc[p] \in Writing, Advance(p),
         NEW f \in Files, f # Script[step[p]], Owes(p, f)
  PROVE  Owes(p, f)'
<1>1. PICK k \in Nat : k = step[p] /\ k \in Steps /\ Len(Script) \in Nat
  BY Constants DEF TypeOK, Streams, Steps, Writing, Working
<1>2. PICK j \in Steps : Script[j] = f /\ k <= j /\ j # k
  BY <1>1 DEF Owes, Writing
<1>3. j \in Nat /\ j <= Len(Script) /\ k + 1 <= j /\ k # Len(Script)
  BY <1>1, <1>2 DEF Steps
<1>4. pc'[p] = "entry" /\ step'[p] = k + 1
  BY <1>1, <1>3 DEF Advance, Goto, TypeOK, Typed
<1> QED
  BY <1>2, <1>3, <1>4 DEF Owes, Writing

\* cjit_mkdtemp: a run that finds the directory incomplete makes every file its
\* business; one that leaves it to the others had nothing to answer for.
LEMMA OverlapMkdtemp ==
  ASSUME TypeOK, NEW p \in Procs, Counters(p), Mkdtemp(p), Untouched \/ Accounted
  PROVE  Untouched' \/ Accounted' \/ pc'[p] \in {"failed", "noparent"}
<1> USE DEF TypeOK, Typed, Goto, diskVars, scanVars
<1>1. /\ UNCHANGED <<disk, step, handle>>
      /\ \A q \in Procs \ {p} :
           pc'[q] = pc[q] /\ probe'[q] = probe[q] /\ (q \in fresh' <=> q \in fresh)
  BY DEF Mkdtemp, EnsureRoot, StatBase, MakeExplicit, ProbeFile, EnsureBase, SetFresh
<1>2. CASE pc'[p] \in {"mkdir", "remove", "ensure", "ensure2"} \/ (pc'[p] = "entry" /\ step[p] = 1)
  <2>1. ASSUME NEW f \in Files PROVE Owes(p, f)'
    <3>1. CASE pc'[p] \in {"mkdir", "remove", "ensure", "ensure2"}
      BY <3>1 DEF Owes
    <3>2. CASE pc'[p] = "entry" /\ step[p] = 1
      <4>1. PICK j \in Steps : Script[j] = f
        BY CacheAssumption DEF CacheAssumption, Steps
      <4>2. 1 <= j
        BY <4>1, Constants DEF Steps
      <4>3. step'[p] = 1
        BY <1>1, <3>2
      <4> QED
        BY <3>2, <4>1, <4>2, <4>3 DEF Owes, Writing
    <3> QED
      BY <1>2, <3>1, <3>2
  <2> QED
    BY <2>1 DEF Accounted
<1>3. CASE EnsureRoot(p)
  <2>1. pc[p] = "root" /\ pc'[p] \in {"failed", "stat"} /\ probe' = probe /\ fresh' = fresh
    BY <1>3 DEF EnsureRoot
  <2>2. \A f \in Files : ~Owes(p, f)
    BY <2>1 DEF Owes, Writing
  <2> QED
    BY <1>1, <2>1, <2>2, AccountedStays DEF Untouched, NothingThere, Before
<1>4. CASE StatBase(p)
  <2>1. /\ pc[p] = "stat" /\ probe' = probe
        /\ \/ pc'[p] \in {"failed", "mkdir", "ensure2", "probe"}
           \/ p \in Explicit \ fresh' /\ pc'[p] = "ready"
    BY <1>4 DEF StatBase, SetFresh
  <2>2. \A f \in Files : ~Owes(p, f)
    BY <2>1 DEF Owes, Writing
  <2>3. CASE pc'[p] = "probe" \/ (p \in Explicit \ fresh' /\ pc'[p] = "ready")
    BY <1>1, <2>1, <2>2, <2>3, AccountedStays DEF Untouched, NothingThere, Before
  <2> QED
    BY <1>2, <2>1, <2>3
<1>5. CASE ProbeFile(p)
  <2>1. pc[p] = "probe" /\ pc'[p] \in {"probe", "ready", "remove"}
    BY <1>5 DEF ProbeFile
  <2>2. \A f \in Files : ~Owes(p, f)
    BY <2>1 DEF Owes, Writing
  <2>3. CASE Accounted
    BY <1>1, <2>2, <2>3, AccountedStays
  <2>4. CASE Untouched
    <3>1. probe[p] = 1
      BY <2>4 DEF Untouched
    <3>2. 1 <= Len(Required) /\ Required[1] \in Files
      BY CacheAssumption, Constants DEF CacheAssumption
    <3>3. ~BigEnough(Required[probe[p]])
      BY <2>4, <3>1, <3>2 DEF Untouched, NothingThere, BigEnough
    <3>4. pc'[p] = "remove"
      <4>1. ~(probe[p] > Len(Required))
        BY <3>1, <3>2, Constants
      <4>2. pc' = [pc EXCEPT ![p] = "remove"]
        BY <1>5, <3>3, <4>1 DEF ProbeFile
      <4> QED
        BY <4>2
    <3> QED
      BY <1>2, <3>4
  <2> QED
    BY <2>3, <2>4
<1>6. CASE MakeExplicit(p) \/ EnsureBase(p)
  <2>1. pc[p] \in {"mkdir", "ensure", "ensure2"} /\ pc'[p] \in {"failed", "noparent", "ensure2", "entry"}
    BY <1>6 DEF MakeExplicit, EnsureBase
  <2>2. step[p] = 1
    BY <2>1 DEF Counters, Working, Writing
  <2> QED
    BY <1>2, <2>1, <2>2
<1> QED
  BY <1>3, <1>4, <1>5, <1>6 DEF Mkdtemp

\* remove_tree: the run that removes a file is going to write it again, also
\* for those that lose the FILE they had open on it.
LEMMA OverlapRemove ==
  ASSUME TypeOK, NEW p \in Procs, Counters(p), RemoveTree(p)
  PROVE  Accounted' \/ pc'[p] = "failed"
<1>1. pc'[p] \in {"remove", "ensure", "failed"}
  BY DEF RemoveTree, ListDir, RemoveFile, RemoveDir, RemoveFails, Goto, TypeOK, Typed
<1>2. CASE pc'[p] \in {"remove", "ensure"}
  BY <1>2 DEF Accounted, Owes
<1> QED
  BY <1>1, <1>2

\* extract_assets: a run is rid of a file when it has written it whole into the
\* file that is there, or when another run has made that file its business.
LEMMA OverlapExtract ==
  ASSUME TypeOK, NEW p \in Procs, Extract(p), Accounted,
         pc[p] = "lstat" => Script[step[p]] \in Dirs
  PROVE  Accounted' \/ pc'[p] = "failed"
<1> USE DEF TypeOK, Typed, diskVars, scanVars
<1>1. pc[p] \in Writing /\ step[p] \in Steps
  BY DEF Extract, MakeDir, LstatDir, CheckFile, OpenFile, Flush, Close, Writing, Streams, Working
<1>2. \A q \in Procs \ {p} : pc'[q] = pc[q] /\ step'[q] = step[q]
  BY DEF Extract, MakeDir, LstatDir, CheckFile, OpenFile, Flush, Close, Advance, Goto
<1>3. CASE MakeDir(p) \/ LstatDir(p)
  <2>1. UNCHANGED <<disk, handle>> /\ Script[step[p]] \in Dirs /\ pc[p] # "write"
    BY <1>3 DEF MakeDir, LstatDir
  <2>2. CASE pc' = [pc EXCEPT ![p] = "lstat"] /\ step' = step
    <3>1. \A f \in Files : Owes(p, f) => Owes(p, f)'
      BY <1>1, <2>1, <2>2 DEF Owes, Writing
    <3> QED
      BY <1>2, <2>1, <3>1, AccountedStays
  <2>3. CASE Advance(p)
    <3>1. Script[step[p]] \notin Files
      BY <2>1, Constants DEF Dirs
    <3>2. \A f \in Files : Owes(p, f) => Owes(p, f)'
      BY <1>1, <2>3, <3>1, OwesNext
    <3> QED
      BY <1>2, <2>1, <3>2, AccountedStays
  <2> QED
    BY <1>3, <2>2, <2>3 DEF MakeDir, LstatDir, Goto
<1>4. CASE CheckFile(p)
  <2>1. UNCHANGED <<disk, handle, step>> /\ pc[p] = "entry" /\ pc'[p] \in {"open", "failed"}
    BY <1>4 DEF CheckFile, Goto
  <2>2. pc'[p] = "open" => \A f \in Files : Owes(p, f) => Owes(p, f)'
    BY <2>1 DEF Owes, Writing
  <2> QED
    BY <1>2, <2>1, <2>2, AccountedStays
<1>5. CASE OpenFile(p) /\ pc'[p] # "failed"
  <2> PICK g \in Files : g = Script[step[p]]
    BY <1>5 DEF OpenFile, Streams
  <2>1. /\ step' = step /\ pc[p] = "open" /\ pc'[p] = "write"
        /\ handle'[p] = "new"
        /\ \A f \in Files \ {g} : disk'[f] = disk[f]
    <3>1. pc[p] = "open" /\ step' = step
      BY <1>5 DEF OpenFile
    <3>2. /\ disk' = [disk EXCEPT ![g] = "short"]
          /\ handle' = [q \in Procs |-> IF q = p THEN "new"
                          ELSE IF handle[q] = "flushed" /\ Script[step[q]] = g
                          THEN "torn" ELSE handle[q]]
          /\ Goto(p, "write")
      BY <1>5 DEF OpenFile, Goto
    <3> QED
      BY <3>1, <3>2 DEF Goto
  <2>2. \A f \in Files : Owes(p, f) => Owes(p, f)'
    BY <2>1 DEF Owes, Writing
  <2>3. Owes(p, g)'
    BY <1>1, <2>1, Constants DEF Owes, Writing, Steps
  <2>4. ASSUME NEW q \in Procs, q # p, NEW f \in Files, f # g, Owes(q, f)
        PROVE  Owes(q, f)'
    <3>1. handle'[q] = handle[q] \/ Script[step[q]] = g
      BY <1>5, <2>4 DEF OpenFile
    <3>2. pc'[q] = pc[q] /\ step'[q] = step[q]
      BY <1>2, <2>4
    <3> QED
      BY <2>4, <3>1, <3>2 DEF Owes
  <2>5. ASSUME NEW f \in Files, f # g, disk'[f] # "full"
        PROVE  \E q \in Procs : Owes(q, f)'
    <3>1. PICK q \in Procs : Owes(q, f)
      BY <2>1, <2>5 DEF Accounted
    <3> QED
      BY <2>2, <2>4, <2>5, <3>1
  <2>6. ASSUME NEW f \in Files, disk'[f] # "full"
        PROVE  \E q \in Procs : Owes(q, f)'
    BY <2>3, <2>5, <2>6
  <2> QED
    BY <2>6 DEF Accounted
<1>6. CASE Flush(p)
  <2> DEFINE g == Script[step[p]]
  <2>1. /\ UNCHANGED <<pc, step>> /\ handle[p] = "new" /\ handle'[p] = "flushed"
        /\ \A q \in Procs \ {p} : handle'[q] = handle[q]
        /\ \A f \in Files : disk[f] = "full" => disk'[f] = "full"
    BY <1>6 DEF Flush
  <2>2. \A f \in Files : Owes(p, f) => Owes(p, f)'
    BY <2>1 DEF Owes
  <2>3. ASSUME NEW f \in Files, disk'[f] # "full"
        PROVE  \E q \in Procs : Owes(q, f)'
    <3>1. PICK q \in Procs : Owes(q, f)
      BY <2>1, <2>3 DEF Accounted
    <3> QED
      BY <2>1, <2>2, <3>1, OwesStays
  <2> QED
    BY <2>3 DEF Accounted
<1>7. CASE Close(p)
  <2> DEFINE g == Script[step[p]]
  <2>1. /\ pc[p] = "write" /\ Advance(p) /\ g \in Files
        /\ \A q \in Procs \ {p} : handle'[q] = handle[q]
        /\ \A f \in Files : disk[f] = "full" => disk'[f] = "full"
        /\ handle[p] \in {"new", "flushed"} => disk'[g] = "full"
    BY <1>7 DEF Close, Streams
  <2>2. ASSUME NEW f \in Files, Owes(p, f), disk'[f] # "full"
        PROVE  Owes(p, f)'
    <3>1. CASE f # g
      BY <1>1, <2>1, <2>2, <3>1, OwesNext
    <3>2. CASE f = g
      <4>1. handle[p] \notin {"new", "flushed"}
        BY <2>1, <2>2, <3>2
      <4>2. PICK j \in Steps : Script[j] = g /\ step[p] <= j /\ step[p] # j
        BY <2>1, <2>2, <3>2, <4>1 DEF Owes
      <4>3. j = step[p]
        BY <1>1, <2>1, <4>2, CacheAssumption DEF CacheAssumption
      <4> QED
        BY <4>2, <4>3
    <3> QED
      BY <3>1, <3>2
  <2>3. ASSUME NEW f \in Files, disk'[f] # "full"
        PROVE  \E q \in Procs : Owes(q, f)'
    <3>1. PICK q \in Procs : Owes(q, f)
      BY <2>1, <2>3 DEF Accounted
    <3> QED
      BY <1>2, <2>1, <2>2, <2>3, <3>1, OwesStays
  <2> QED
    BY <2>3 DEF Accounted
<1> QED
  BY <1>3, <1>4, <1>5, <1>6, <1>7 DEF Extract

\* No step of any run leaves a file that is not whole to nobody, unless a run
\* is killed or reports an error by it.
LEMMA OverlapStep ==
  ASSUME TypeOK, \A q \in Procs : Counters(q), OverlapInv, [Next]_vars
  PROVE  OverlapInv'
<1>1. CASE UNCHANGED vars
  <2>1. Reported => Reported'
    BY <1>1 DEF vars, Reported
  <2>2. Untouched => Untouched'
    BY <1>1 DEF vars, Untouched, NothingThere
  <2>3. Accounted => Accounted'
    BY <1>1 DEF vars, Accounted, Owes
  <2> QED
    BY <1>1, <2>1, <2>2, <2>3 DEF vars, OverlapInv
<1>2. ASSUME NEW p \in Procs, Start(p)
      PROVE  OverlapInv'
  <2>1. /\ pc[p] = "idle" /\ pc' = [pc EXCEPT ![p] = pc'[p]] /\ pc'[p] \in {"root", "stat"}
        /\ UNCHANGED <<disk, probe, step, handle, fresh>>
    BY <1>2 DEF Start, Goto, diskVars, scanVars, TypeOK, Typed
  <2>2. \A q \in Procs \ {p} : pc'[q] = pc[q]
    BY <2>1 DEF TypeOK, Typed
  <2>3. Reported => Reported'
    BY <2>1, <2>2 DEF Reported
  <2>4. Untouched => Untouched'
    BY <2>1, <2>2 DEF Untouched, NothingThere, Before
  <2>5. \A f \in Files : ~Owes(p, f)
    BY <2>1 DEF Owes, Writing
  <2>6. Accounted => Accounted'
    BY <2>1, <2>2, <2>5, AccountedStays
  <2> QED
    BY <2>1, <2>2, <2>3, <2>4, <2>6 DEF OverlapInv
<1>3. ASSUME NEW p \in Procs, Run(p) \/ WriteFails(p) \/ Crash(p)
      PROVE  OverlapInv'
  <2>1. /\ Active(p)
        /\ \A q \in Procs \ {p} : pc'[q] = pc[q] /\ step'[q] = step[q] /\ probe'[q] = probe[q]
    BY <1>3, OthersStay
  <2>2. pc'[p] = "lstat" => Script[step'[p]] \in Dirs
    BY <1>3, <2>1
    DEF OverlapInv, TypeOK, Typed, Run, Mkdtemp, RemoveTree, Extract, EnsureRoot, StatBase,
        MakeExplicit, ProbeFile, EnsureBase, ListDir, RemoveFile, RemoveDir, MakeDir,
        LstatDir, CheckFile, OpenFile, Flush, Close, Finish, WriteFails, Crash,
        RemoveFails, Advance, Goto
  <2>3. Reported => Reported'
    BY <2>1 DEF Reported, Active, Working
  <2>4. pc'[p] \in {"failed", "noparent", "ioerror", "crashed"} => Reported'
    BY DEF Reported
  <2>5. Untouched \/ Accounted => Untouched' \/ Accounted' \/ Reported'
    <3>1. CASE Mkdtemp(p)
      BY <2>4, <3>1, OverlapMkdtemp
    <3>2. CASE RemoveTree(p)
      BY <2>4, <3>2, OverlapRemove
    <3>3. CASE Extract(p)
      <4>1. ~Untouched
        BY <3>3 DEF Untouched, Before, Extract, MakeDir, LstatDir, CheckFile, OpenFile, Flush, Close
      <4> QED
        BY <2>4, <3>3, <4>1, OverlapExtract DEF OverlapInv
    <3>4. CASE Finish(p)
      <4>1. /\ pc[p] = "ready" /\ pc'[p] = "done"
            /\ UNCHANGED <<disk, probe, step, handle, fresh>>
        BY <3>4 DEF Finish, Goto, diskVars, scanVars, TypeOK, Typed
      <4>2. \A f \in Files : ~Owes(p, f)
        BY <4>1 DEF Owes, Writing
      <4>3. Untouched => Untouched'
        BY <2>1, <4>1 DEF Untouched, NothingThere, Before
      <4>4. Accounted => Accounted'
        BY <2>1, <4>1, <4>2, AccountedStays
      <4> QED
        BY <4>3, <4>4
    <3>5. CASE WriteFails(p) \/ Crash(p)
      <4>1. pc'[p] \in {"ioerror", "crashed"}
        BY <3>5 DEF WriteFails, Crash, Goto, TypeOK, Typed
      <4> QED
        BY <2>4, <4>1
    <3> QED
      BY <1>3, <3>1, <3>2, <3>3, <3>4, <3>5 DEF Run
  <2> QED
    BY <2>1, <2>2, <2>3, <2>5 DEF OverlapInv
<1> QED
  BY <1>1, <1>2, <1>3 DEF Next

\* A cold start is untouched.
LEMMA OverlapInit == Init => OverlapInv
BY DEF Init, OverlapInv, Untouched, NothingThere, Before

\* At every moment every file that is not whole is the business of a run that
\* is still at work, or some run has been killed or has reported an error, or
\* nothing has been extracted yet.
THEOREM OverlapHolds == Spec => []OverlapInv
<1>1. IInv /\ OverlapInv /\ [Next]_vars => OverlapInv'
  BY OverlapStep DEF IInv
<1> QED
  BY <1>1, OverlapInit, IInvHolds, PTL DEF Spec

\* A cache that runs have damaged by overlapping has cost at least one of them
\* its success.
THEOREM BrokenCacheWasReportedHolds == Spec => []BrokenCacheWasReported
<1>1. OverlapInv => BrokenCacheWasReported
  <2> SUFFICES ASSUME OverlapInv, \A p \in Procs : pc[p] \in {"idle", "done"},
                      NEW q \in Procs \ Explicit, pc[q] = "done"
               PROVE  AllFull
    BY DEF BrokenCacheWasReported
  <2>1. ~Reported
    BY DEF Reported
  <2>2. ~Untouched
    BY DEF Untouched, Before
  <2>3. \A p \in Procs, f \in Files : ~Owes(p, f)
    BY DEF Owes, Writing
  <2> QED
    BY <2>1, <2>2, <2>3 DEF OverlapInv, Accounted, AllFull
<1> QED
  BY <1>1, OverlapHolds, PTL

\* A run that is given the directory makes it or says that it could not, and when
\* it has decided to extract, everything is in place.
THEOREM ExplicitRunWorksHolds == Spec => []ExplicitRunWorks
<1>1. IInv /\ OverlapInv => ExplicitRunWorks
  <2>1. IInv => \A p \in Explicit \cap alone : pc[p] = "failed" => obstacle # "none"
    BY CacheAssumption DEF IInv, LoneRunNeverFails, CacheAssumption
  <2>2. ASSUME OverlapInv, \A p \in Procs : pc[p] \in {"idle", "done"},
               NEW q \in Explicit \cap fresh, pc[q] = "done"
        PROVE  AllFull
    <3>1. ~Reported
      BY <2>2 DEF Reported
    <3>2. ~Untouched
      BY <2>2, CacheAssumption DEF Untouched, Before, CacheAssumption
    <3>3. \A p \in Procs, f \in Files : ~Owes(p, f)
      BY <2>2 DEF Owes, Writing
    <3> QED
      BY <2>2, <3>1, <3>2, <3>3 DEF OverlapInv, Accounted, AllFull
  <2> QED
    BY <2>1, <2>2 DEF ExplicitRunWorks
<1> QED
  BY <1>1, IInvHolds, OverlapHolds, PTL

-----------------------------------------------------------------------------
\* A step from a settled cache leaves it settled, and leaves it alone: on a
\* whole cache every run only looks.
LEMMA SettledStep == TypeOK /\ Settled /\ [Next]_vars => Settled' /\ UNCHANGED diskVars
<1> SUFFICES ASSUME TypeOK, Settled, [Next]_vars PROVE Settled' /\ UNCHANGED diskVars
  OBVIOUS
<1>1. /\ UNCHANGED <<diskVars, obstacle>>
      /\ \A p \in Procs : pc'[p] \in {"idle", "root", "stat", "probe", "ready"} \cup Finished
  <2>1. CASE UNCHANGED vars
    BY <2>1 DEF vars, diskVars, Settled
  <2>2. ASSUME NEW p \in Procs, Start(p) \/ Run(p) \/ WriteFails(p) \/ Crash(p)
        PROVE  /\ UNCHANGED <<diskVars, obstacle>>
               /\ \E s \in {"root", "stat", "probe", "ready"} \cup Finished :
                    pc' = pc \/ pc' = [pc EXCEPT ![p] = s]
    <3> USE DEF Settled, Finished, TypeOK, Typed, Goto
    <3>1. CASE Start(p) \/ WriteFails(p) \/ Crash(p) \/ Finish(p)
      BY <3>1 DEF Start, WriteFails, Crash, Finish
    <3>2. CASE EnsureRoot(p) \/ StatBase(p)
      <4>1. dirs \cup {"root"} = dirs
        BY DEF Places
      <4> QED
        BY <3>2, <4>1 DEF EnsureRoot, StatBase, Places, Dirs, diskVars
    <3>3. CASE ProbeFile(p)
      <4>1. probe[p] <= Len(Required) => BigEnough(Required[probe[p]])
        <5>1. probe[p] <= Len(Required) => probe[p] \in 1 .. Len(Required)
          BY Constants
        <5>2. probe[p] <= Len(Required) => Required[probe[p]] \in Files
          BY <5>1, Constants
        <5> QED
          BY <5>2 DEF BigEnough, AllFull
      <4>2. UNCHANGED <<diskVars, obstacle>>
        BY <3>3 DEF ProbeFile
      <4>3. pc' = pc \/ pc' = [pc EXCEPT ![p] = "ready"]
        BY <3>3, <4>1 DEF ProbeFile
      <4> QED
        BY <4>2, <4>3
    <3>4. CASE MakeExplicit(p) \/ EnsureBase(p) \/ RemoveTree(p) \/ Extract(p)
      BY <3>4 DEF MakeExplicit, EnsureBase, RemoveTree, ListDir, RemoveFile, RemoveDir,
                  Extract, MakeDir, LstatDir, CheckFile, OpenFile, Flush, Close
    <3> QED
      BY <2>2, <3>1, <3>2, <3>3, <3>4 DEF Run, Mkdtemp
  <2> QED
    BY <2>1, <2>2 DEF Next, Settled, TypeOK, Typed
<1> QED
  BY <1>1 DEF Settled, AllFull, diskVars

\* Nothing in a settled cache changes, whatever the runs do.
THEOREM CacheStaysHolds == Spec => CacheStays
BY TypeCorrect, SettledStep, PTL DEF Spec, CacheStays
=============================================================================
