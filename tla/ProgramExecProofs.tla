------------------------- MODULE ProgramExecProofs -------------------------
(***************************************************************************)
(* Proofs about ProgramExec, for any number of runs, process identifiers,  *)
(* exit codes and signals: the types, what an exit status says of the      *)
(* program, and what the pid file says of it.                              *)
(***************************************************************************)
EXTENDS ProgramExec, TLAPS

\* A child that was never stopped has nothing to report before its end.
QuietInv == \A r \in Runs \ halted : report[r] = NoReport /\ life[r] \notin Stops

\* Only a run with -p is at the pid file, and while no other run with -p has
\* overlapped it, none is busy, so that the file it has emptied stays empty
\* until it writes.
SingleInv ==
  /\ \A r \in Runs : pc[r] \in {"open", "write"} => r \in Writers
  /\ \A r \in Writers \cap single : Busy(r) => \A q \in Writers : Busy(q) => q = r
  /\ \A r \in Writers \cap single : pc[r] = "write" => pidFile = Empty
  /\ \A r \in unwritten : pc[r] = "wait"

IInv ==
  /\ TypeOK
  /\ QuietInv /\ SingleInv
  /\ SuccessIsExitZero /\ UnstoppedIsReported /\ PidFileIsCurrent

-----------------------------------------------------------------------------
\* The status words: what tells them apart, and the range of what the parent
\* makes of them.
LEMMA EndWords ==
  ASSUME NEW w \in Ends
  PROVE  /\ w \notin Stops /\ w # Running /\ w # Unborn
         /\ w.n \in 0 .. 255 /\ Decode(w) = w.n
         /\ w.n = 0 => w = Exited(0)
<1>1. Exited(0) = [how |-> "exited", n |-> 0]
  BY DEF Exited
<1>2. CASE w \in [how : {"exited"}, n : 0 .. 255]
  <2>1. w = [how |-> "exited", n |-> w.n] /\ w.how = "exited" /\ w.n \in 0 .. 255
    BY <1>2
  <2> QED
    BY <2>1, <1>1 DEF Stops, Running, Unborn, Decode, Continued
<1>3. CASE w \in [how : {"signaled"}, n : Signals]
  <2>1. w.how = "signaled" /\ w.n \in 1 .. 127
    BY <1>3, ExecAssumption DEF ExecAssumption
  <2> QED
    BY <2>1 DEF Stops, Running, Unborn, Decode, Continued
<1> QED
  BY <1>2, <1>3 DEF Ends

LEMMA StopWords ==
  ASSUME NEW w \in Stops \cup {Continued}
  PROVE  w # Running /\ w # Unborn /\ w # NoReport /\ w \notin Ends
         /\ Decode(w) \in 1 .. 127
<1>1. CASE w \in Stops
  <2>1. w.how = "stopped" /\ w.n \in 1 .. 127
    BY <1>1, ExecAssumption DEF ExecAssumption, Stops
  <2> QED
    BY <2>1 DEF Ends, Running, Unborn, NoReport, Decode, Continued
<1>2. CASE w = Continued
  BY <1>2 DEF Ends, Running, Unborn, NoReport, Decode, Continued
<1> QED
  BY <1>1, <1>2

LEMMA AnyWord == ASSUME NEW w \in Words PROVE Decode(w) \in 0 .. 255
<1>1. CASE w \in Ends
  BY <1>1, EndWords
<1>2. CASE w \in Stops \cup {Continued}
  BY <1>2, StopWords
<1> QED
  BY <1>1, <1>2 DEF Words

\* exit(c) leaves the low eight bits of c.
LEMMA ExitWord == ASSUME NEW c \in Int PROVE Exited(c) \in Ends
<1>1. c % 256 \in 0 .. 255
  OBVIOUS
<1> QED
  BY <1>1 DEF Exited, Ends

\* The names of the states of a child are distinct.
LEMMA Names ==
  /\ Running # Unborn /\ Running \notin Stops \cup Ends /\ Unborn \notin Stops \cup Ends
  /\ NoReport \notin Stops
BY DEF Running, Unborn, Stops, Ends, NoReport

-----------------------------------------------------------------------------
\* The invariant holds at the start.
THEOREM ExecInit == Init => IInv
BY ExecAssumption, Names
DEF Init, IInv, TypeOK, QuietInv, SingleInv, SuccessIsExitZero, UnstoppedIsReported,
    PidFileIsCurrent, ExecAssumption, Alive, Busy, NoPid, Absent

\* What the child does leaves cjit alone: once it has ended nothing more
\* happens to it, and the first stop is noted.
LEMMA ChildStep ==
  ASSUME IInv, NEW r \in Runs, Child(r)
  PROVE  IInv'
<1> USE DEF IInv
<1>1. /\ Alive(r) /\ life[r] # Unborn /\ UNCHANGED cjitVars
      /\ \A q \in Runs \ {r} : life'[q] = life[q] /\ report'[q] = report[q]
      /\ life'[r] \in {Running} \cup Stops \cup Ends
      /\ report'[r] \in {NoReport, Continued} \cup Stops
      /\ life' \in [Runs -> {Unborn, Running} \cup Stops \cup Ends]
      /\ report' \in [Runs -> {NoReport, Continued} \cup Stops]
      /\ halted \subseteq halted' /\ halted' \subseteq Runs
  <2>1. CASE ChildExits(r)
    BY <2>1, ExitWord, ExecAssumption, Names DEF ChildExits, ExecAssumption, Alive, TypeOK
  <2>2. CASE ChildIsKilled(r)
    <3>1. \A s \in Signals : Signaled(s) \in Ends
      BY DEF Signaled, Ends
    <3> QED
      BY <2>2, <3>1, Names DEF ChildIsKilled, Alive, TypeOK
  <2>3. CASE ChildStops(r)
    <3>1. \A s \in StopSignals : Stopped(s) \in Stops
      BY DEF Stopped, Stops
    <3> QED
      BY <2>3, <3>1, Names DEF ChildStops, Alive, TypeOK
  <2>4. CASE ChildContinues(r)
    BY <2>4, Names DEF ChildContinues, Alive, TypeOK
  <2> QED
    BY <2>1, <2>2, <2>3, <2>4 DEF Child
<1>2. TypeOK'
  BY <1>1, Names DEF TypeOK, cjitVars, Alive
<1>3. QuietInv'
  <2>1. r \in halted' \/ (life'[r] \notin Stops /\ report'[r] = report[r])
    <3>1. CASE ChildExits(r)
      BY <3>1, EndWords, ExitWord, ExecAssumption DEF ChildExits, ExecAssumption, TypeOK
    <3>2. CASE ChildIsKilled(r)
      <4>1. \A s \in Signals : Signaled(s) \notin Stops
        BY DEF Signaled, Stops
      <4> QED
        BY <3>2, <4>1 DEF ChildIsKilled, TypeOK
    <3>3. CASE ChildStops(r)
      BY <3>3 DEF ChildStops
    <3>4. CASE ChildContinues(r)
      BY <3>4, Names DEF ChildContinues, QuietInv
    <3> QED
      BY <3>1, <3>2, <3>3, <3>4 DEF Child
  <2> QED
    BY <1>1, <2>1 DEF QuietInv
<1>4. SingleInv'
  BY <1>1 DEF SingleInv, cjitVars, Busy
<1>5. \A q \in Runs : life[q] \in Ends => life'[q] = life[q]
  BY <1>1, EndWords DEF Alive
<1>6. SuccessIsExitZero'
  <2>1. Exited(0) \in Ends
    BY ExitWord
  <2> QED
    BY <1>1, <1>5, <2>1 DEF SuccessIsExitZero, cjitVars
<1>7. UnstoppedIsReported'
  BY <1>1, <1>5 DEF UnstoppedIsReported, cjitVars
<1>8. PidFileIsCurrent'
  BY <1>1 DEF PidFileIsCurrent, cjitVars
<1> QED
  BY <1>2, <1>3, <1>4, <1>6, <1>7, <1>8

\* fork hands out an identifier that no living process has, and the run is
\* from here on no longer alone if another one with -p is on its way.
LEMMA ForkStep ==
  ASSUME IInv, NEW r \in Runs, Fork(r)
  PROVE  IInv'
<1> USE DEF IInv, Goto
<1>1. /\ pc[r] = "fork" /\ pc'[r] = IF r \in Writers THEN "open" ELSE "wait"
      /\ \A q \in Runs \ {r} : pc'[q] = pc[q] /\ child'[q] = child[q] /\ life'[q] = life[q]
      /\ child[r] = NoPid /\ life[r] = Unborn
      /\ UNCHANGED <<report, pidFile, result, halted, refused, unwritten>>
  BY ExecAssumption DEF Fork, TypeOK, NoPid, ExecAssumption
<1>2. \/ child'[r] \in Pids \ Taken /\ life'[r] = Running
      \/ child'[r] = -1 /\ life'[r] = Unborn
  BY <1>1 DEF Fork, TypeOK
<1>3. TypeOK'
  <2>1. /\ pc' \in [Runs -> {"fork", "open", "write", "wait", "returned", "killed"}]
        /\ child' \in [Runs -> Pids \cup {NoPid, -1}]
        /\ life' \in [Runs -> {Unborn, Running} \cup Stops \cup Ends]
        /\ single' \subseteq Runs
    BY <1>1, <1>2 DEF Fork, Overlap, TypeOK
  <2>2. \A q \in Runs : life'[q] # Unborn <=> child'[q] \in Pids
    BY <1>1, <1>2, Names, ExecAssumption DEF TypeOK, ExecAssumption
  <2>3. \A q \in Runs : pc'[q] = "fork" <=> child'[q] = NoPid
    BY <1>1, <1>2, ExecAssumption DEF TypeOK, ExecAssumption, NoPid
  <2>4. ASSUME NEW q \in Runs, NEW s \in Runs, q # s, Alive(q)', Alive(s)'
        PROVE  child'[q] # child'[s]
    <3>1. \A t \in Runs \ {r} : Alive(t)' => Alive(t) /\ child[t] \in Taken
      BY <1>1 DEF Alive, Taken
    <3>2. Alive(r)' => child'[r] \notin Taken
      BY <1>2, Names DEF Alive
    <3> QED
      BY <1>1, <2>4, <3>1, <3>2 DEF TypeOK
  <2> QED
    BY <1>1, <2>1, <2>2, <2>3, <2>4 DEF TypeOK
<1>4. QuietInv'
  BY <1>1, <1>2, Names DEF QuietInv
<1>5. SingleInv'
  BY <1>1, ExecAssumption DEF SingleInv, Fork, Overlap, Busy, ExecAssumption
<1>6. SuccessIsExitZero' /\ UnstoppedIsReported'
  BY <1>1 DEF SuccessIsExitZero, UnstoppedIsReported
<1>7. PidFileIsCurrent'
  <2>1. single' \subseteq single
    BY DEF Fork, Overlap
  <2>2. \A q \in Writers : pc'[q] = "wait" => q # r
    BY <1>1
  <2> QED
    BY <1>1, <2>1, <2>2, ExecAssumption DEF PidFileIsCurrent, ExecAssumption
<1> QED
  BY <1>3, <1>4, <1>5, <1>6, <1>7

\* The pid file: a run that opens or writes it is, as long as it counts as
\* single, the only one that does.
LEMMA PidFileStep ==
  ASSUME IInv, NEW r \in Runs, OpenPidFile(r) \/ WritePid(r)
  PROVE  IInv'
<1> USE DEF IInv, OpenPidFile, WritePid, Return, Goto
<1>1. /\ UNCHANGED <<child, life, report, halted, single>>
      /\ pc[r] \in {"open", "write"} /\ r \in Writers /\ Busy(r)
      /\ \A q \in Runs \ {r} : pc'[q] = pc[q] /\ result'[q] = result[q]
      /\ pc'[r] \in {"write", "wait", "returned"}
  BY DEF TypeOK, SingleInv, Busy
<1>2. TypeOK'
  BY <1>1, ExecAssumption DEF TypeOK, Alive, ExecAssumption
<1>3. QuietInv'
  BY <1>1 DEF QuietInv
<1>4. SingleInv'
  <2>1. \A q \in Runs : Busy(q)' => Busy(q)
    BY <1>1 DEF Busy
  <2>2. \A q \in Writers \cap single' : Busy(q)' => \A p \in Writers : Busy(p)' => p = q
    BY <1>1, <2>1, ExecAssumption DEF SingleInv, ExecAssumption
  <2>3. ASSUME NEW q \in Writers \cap single', pc'[q] = "write" PROVE pidFile' = Empty
    <3>1. CASE q = r
      BY <1>1, <2>3, <3>1 DEF TypeOK
    <3>2. CASE q # r
      BY <1>1, <2>3, <3>2, ExecAssumption DEF SingleInv, Busy, ExecAssumption
    <3> QED
      BY <3>1, <3>2
  <2>4. \A q \in unwritten' : pc'[q] = "wait"
    BY <1>1 DEF SingleInv, TypeOK
  <2> QED
    BY <1>1, <2>2, <2>3, <2>4 DEF SingleInv
<1>5. SuccessIsExitZero' /\ UnstoppedIsReported'
  BY <1>1 DEF SuccessIsExitZero, UnstoppedIsReported, TypeOK
<1>6. PidFileIsCurrent'
  <2>1. pc'[r] = "wait" /\ r \in single => pidFile' = IF r \in unwritten' THEN Empty ELSE child'[r]
    BY <1>1 DEF TypeOK, SingleInv
  <2> QED
    BY <1>1, <2>1, ExecAssumption DEF PidFileIsCurrent, SingleInv, Busy, ExecAssumption
<1> QED
  BY <1>2, <1>3, <1>4, <1>5, <1>6

\* waitpid tells of a child that has ended, or of one that was stopped.
LEMMA WaitStep ==
  ASSUME IInv, NEW r \in Runs, Wait(r)
  PROVE  IInv'
<1> USE DEF IInv, Return, Goto
<1>1. /\ UNCHANGED <<child, life, report, pidFile, halted, refused, single>>
      /\ unwritten' = unwritten \ {r}
      /\ pc[r] = "wait" /\ pc'[r] = "returned"
      /\ \A q \in Runs \ {r} : pc'[q] = pc[q] /\ result'[q] = result[q]
  BY DEF Wait, TypeOK
<1>2. result'[r] \in 0 .. 255
  <2>1. CASE child[r] = -1 /\ \E w \in Words : Return(r, Decode(w))
    BY <2>1, AnyWord DEF TypeOK
  <2>2. CASE life[r] \in Ends /\ Return(r, Decode(life[r]))
    BY <2>2, AnyWord DEF TypeOK, Words
  <2>3. CASE report[r] # NoReport /\ Return(r, Decode(report[r]))
    BY <2>3, AnyWord DEF TypeOK, Words
  <2> QED
    BY <2>1, <2>2, <2>3 DEF Wait
<1>3. child[r] \in Pids =>
        \/ life[r] \in Ends /\ result'[r] = life[r].n
        \/ r \in halted /\ result'[r] # 0
  <2>1. child[r] \in Pids => child[r] # -1
    BY ExecAssumption DEF ExecAssumption
  <2>2. CASE life[r] \in Ends /\ Return(r, Decode(life[r]))
    BY <2>2, EndWords DEF TypeOK
  <2>3. CASE report[r] # NoReport /\ Return(r, Decode(report[r]))
    BY <2>3, StopWords DEF TypeOK, QuietInv
  <2> QED
    BY <2>1, <2>2, <2>3 DEF Wait
<1>4. TypeOK'
  <2>1. result' \in [Runs -> -1 .. 255] /\ pc' = [pc EXCEPT ![r] = "returned"]
    BY <1>1, <1>2 DEF Wait, TypeOK
  <2> QED
    BY <1>1, <2>1 DEF TypeOK, Alive
<1>5. QuietInv'
  BY <1>1 DEF QuietInv
<1>6. SingleInv'
  <2>1. \A q \in Runs : Busy(q)' => Busy(q)
    BY <1>1 DEF Busy
  <2>2. \A q \in Runs : pc'[q] = "write" => pc[q] = "write"
    BY <1>1
  <2>3. \A q \in unwritten' : pc'[q] = "wait"
    BY <1>1 DEF SingleInv, TypeOK
  <2> QED
    BY <1>1, <2>1, <2>2, <2>3, ExecAssumption DEF SingleInv, ExecAssumption
<1>7. SuccessIsExitZero'
  BY <1>1, <1>3, EndWords DEF SuccessIsExitZero
<1>8. UnstoppedIsReported'
  BY <1>1, <1>3 DEF UnstoppedIsReported
<1>9. PidFileIsCurrent'
  <2>1. \A q \in Runs : pc'[q] = "wait" => pc[q] = "wait"
    BY <1>1
  <2> QED
    BY <1>1, <2>1, ExecAssumption DEF PidFileIsCurrent, ExecAssumption
<1> QED
  BY <1>4, <1>5, <1>6, <1>7, <1>8, <1>9

\* A run that is killed returns nothing.
LEMMA KilledStep ==
  ASSUME IInv, NEW r \in Runs, Killed(r)
  PROVE  IInv'
BY DEF IInv, Killed, Goto, TypeOK, Alive, QuietInv, SingleInv, Busy, SuccessIsExitZero,
       UnstoppedIsReported, PidFileIsCurrent

\* Every step of every run and of every program preserves the invariant.
THEOREM ExecStep == IInv /\ [Next]_vars => IInv'
<1> SUFFICES ASSUME IInv, [Next]_vars PROVE IInv'
  OBVIOUS
<1>1. CASE UNCHANGED vars
  BY <1>1 DEF vars, IInv, TypeOK, Alive, QuietInv, SingleInv, Busy, SuccessIsExitZero,
     UnstoppedIsReported, PidFileIsCurrent
<1>2. ASSUME NEW r \in Runs, Parent(r) PROVE IInv'
  BY <1>2, ForkStep, PidFileStep, WaitStep DEF Parent
<1>3. ASSUME NEW r \in Runs, Killed(r) \/ Child(r) PROVE IInv'
  BY <1>3, KilledStep, ChildStep
<1> QED
  BY <1>1, <1>2, <1>3 DEF Next

-----------------------------------------------------------------------------
\* In every behaviour, for any number of runs, the invariant holds.
THEOREM ExecInvariant == Spec => []IInv
BY ExecInit, ExecStep, PTL DEF Spec

\* TypeOK: the types, and no two living processes with one identifier.
THEOREM ExecTypeCorrect == Spec => []TypeOK
BY ExecInvariant, PTL DEF IInv

\* SuccessIsExitZero: 0 is returned only for a program that has ended with 0,
\* whatever signals it was sent and whatever became of other runs.
THEOREM SuccessIsExitZeroHolds == Spec => []SuccessIsExitZero
BY ExecInvariant, PTL DEF IInv

\* UnstoppedIsReported: a program that is never stopped is waited for to its
\* end and its status or signal is returned.
THEOREM UnstoppedIsReportedHolds == Spec => []UnstoppedIsReported
BY ExecInvariant, PTL DEF IInv

\* PidFileIsCurrent: while a run with -p that no other one overlaps waits for its
\* program, the file names that program or, if the disk was full, none.
THEOREM PidFileIsCurrentHolds == Spec => []PidFileIsCurrent
BY ExecInvariant, PTL DEF IInv
=============================================================================
