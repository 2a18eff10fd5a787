---------------------------- MODULE ProgramExec ----------------------------
(***************************************************************************)
(* cjit_platform_exec (src/src/adapters/platform/runtime_platform.c): the  *)
(* compiled program runs in a forked child while cjit writes the file of   *)
(* option -p and waits for one report of the child's state.                *)
(*                                                                         *)
(* An element of Runs is one run of cjit together with its child.  Runs    *)
(* follow each other or overlap, and those of Writers were given -p with   *)
(* one and the same path, as a script that restarts the program does.  The *)
(* module follows the POSIX branch of the code.                            *)
(***************************************************************************)
EXTENDS Integers

CONSTANTS
  Runs,       \* runs of cjit that reach cjit_platform_exec
  Writers,    \* the runs with option -p
  Pids,       \* the process identifiers the system hands out
  ExitCodes,  \* what the program's main may return or pass to exit
  Signals,    \* signals that end a process
  StopSignals \* signals that stop one

ASSUME ExecAssumption ==
  /\ Writers \subseteq Runs
  /\ Pids \subseteq Nat \ {0}
  /\ ExitCodes \subseteq Int
  /\ Signals \subseteq 1 .. 127 /\ StopSignals \subseteq 1 .. 127

VARIABLES
  pc,       \* where each run of cjit is
  child,    \* what fork returned to it
  life,     \* the state of its child
  report,   \* a change of that state waitpid has not yet told
  pidFile,  \* the pid file: absent, just truncated, or the number in it
  result,   \* what cjit_platform_exec returned
  halted,   \* history: the runs whose child was stopped at least once
  refused,  \* history: the runs whose pid file could not be opened
  unwritten, \* the runs that wait although the pid file did not get the number
  single    \* history: the runs that no other run with -p has overlapped

vars == <<pc, child, life, report, pidFile, result, halted, refused, unwritten, single>>
cjitVars == <<pc, child, pidFile, result, refused, unwritten, single>>

NoPid == 0
Absent == -3
Empty == -2

\* The three macros WIFEXITED, WIFSIGNALED and WIFSTOPPED, and none of them.
Exited(n) == [how |-> "exited", n |-> n % 256]
Signaled(n) == [how |-> "signaled", n |-> n]
Stopped(n) == [how |-> "stopped", n |-> n]
Continued == [how |-> "continued", n |-> 0]
Unborn == [how |-> "unborn", n |-> 0]
Running == [how |-> "running", n |-> 0]
NoReport == [how |-> "nothing", n |-> 0]

Ends == [how : {"exited"}, n : 0 .. 255] \cup [how : {"signaled"}, n : Signals]
Stops == [how : {"stopped"}, n : StopSignals]
Words == Ends \cup Stops \cup {Continued}

Alive(r) == life[r] = Running \/ life[r] \in Stops
Reaped(r) == pc[r] \in {"returned", "killed"}
Busy(r) == pc[r] \in {"open", "write", "wait"}

\* The identifiers of processes that run or have not been waited for.
Taken == {child[r] : r \in {s \in Runs : Alive(s) \/ (life[s] \in Ends /\ ~Reaped(s))}}

Init ==
  /\ pc = [r \in Runs |-> "fork"]
  /\ child = [r \in Runs |-> NoPid]
  /\ life = [r \in Runs |-> Unborn]
  /\ report = [r \in Runs |-> NoReport]
  /\ pidFile = Absent
  /\ result = [r \in Runs |-> -1]
  /\ halted = {}
  /\ refused = {}
  /\ unwritten = {}
  /\ single = Runs

-----------------------------------------------------------------------------
(* The parent *)

Goto(r, s) == pc' = [pc EXCEPT ![r] = s]

Return(r, n) ==
  /\ Goto(r, "returned")
  /\ result' = [result EXCEPT ![r] = n]

\* A run of cjit begins its part; from here on it may overlap with others.
Overlap(r) ==
  LET others == {q \in Writers : Busy(q)} IN
  single' = single \ (IF others = {} THEN {} ELSE others \cup {r})

\* fork(): -1 when there is no process to be had.  Nothing looks at that.
Fork(r) ==
  /\ pc[r] = "fork"
  /\ \/ \E q \in Pids \ Taken :
          /\ child' = [child EXCEPT ![r] = q]
          /\ life' = [life EXCEPT ![r] = Running]
     \/ child' = [child EXCEPT ![r] = -1] /\ UNCHANGED life
  /\ Goto(r, IF r \in Writers THEN "open" ELSE "wait")
  /\ Overlap(r)
  /\ UNCHANGED <<report, pidFile, result, halted, refused, unwritten>>

\* Mutation of OpenPidFile: a file that exists is not opened for writing.
OpenKeeps(r) ==
  /\ pc[r] = "open"
  /\ IF pidFile = Absent THEN Goto(r, "write") /\ pidFile' = Empty
                         ELSE Goto(r, "wait") /\ UNCHANGED pidFile
  /\ UNCHANGED <<child, life, report, result, halted, refused, unwritten, single>>

\* fopen(write_pid, "w"); when it fails the run returns at once and leaves
\* the child to itself.
OpenPidFile(r) ==
  /\ pc[r] = "open"
  /\ \/ Goto(r, "write") /\ pidFile' = Empty /\ UNCHANGED <<result, refused>>
     \/ /\ Return(r, -1)
        /\ refused' = refused \cup {r}
        /\ UNCHANGED pidFile
  /\ UNCHANGED <<child, life, report, halted, unwritten, single>>

\* fprintf and fclose, whose results nothing looks at: on a full disk the file
\* stays empty and the run goes on.
WritePid(r) ==
  /\ pc[r] = "write"
  /\ \/ pidFile' = child[r] /\ UNCHANGED unwritten
     \/ unwritten' = unwritten \cup {r} /\ UNCHANGED pidFile
  /\ Goto(r, "wait")
  /\ UNCHANGED <<child, life, report, result, halted, refused, single>>

\* Mutation of Decode: res starts at 0.
DecodeZero(w) == IF w = Continued THEN 0 ELSE w.n

\* What the parent makes of a status word.
Decode(w) == IF w = Continued THEN 1 ELSE w.n

\* Mutation of Wait: WUNTRACED is not passed.
WaitMissesStop(r) ==
  /\ pc[r] = "wait"
  /\ child[r] \in Pids /\ life[r] \in Ends /\ Return(r, Decode(life[r]))
  /\ unwritten' = unwritten \ {r}
  /\ UNCHANGED <<child, life, report, pidFile, halted, refused, single>>

\* Mutation of Wait: waitpid does not block (WNOHANG) and returns 0.
WaitPolls(r) ==
  /\ pc[r] = "wait"
  /\ Return(r, IF life[r] \in Ends THEN Decode(life[r]) ELSE -1)
  /\ unwritten' = unwritten \ {r}
  /\ UNCHANGED <<child, life, report, pidFile, halted, refused, single>>

\* waitpid(pid, &status, WUNTRACED | WCONTINUED) returns at the first thing it
\* has to tell.  After a fork that failed it waits for child -1, fails, and
\* returns -1, which is pid: status is then whatever was on the stack.
Wait(r) ==
  /\ pc[r] = "wait"
  /\ \/ child[r] = -1 /\ \E w \in Words : Return(r, Decode(w))
     \/ child[r] \in Pids /\ life[r] \in Ends /\ Return(r, Decode(life[r]))
     \/ child[r] \in Pids /\ life[r] \notin Ends /\ report[r] # NoReport
        /\ Return(r, Decode(report[r]))
  /\ unwritten' = unwritten \ {r}
  /\ UNCHANGED <<child, life, report, pidFile, halted, refused, single>>

\* cjit itself is killed; its child goes on.
Killed(r) ==
  /\ Busy(r)
  /\ Goto(r, "killed")
  /\ unwritten' = unwritten \ {r}
  /\ UNCHANGED <<child, life, report, pidFile, result, halted, refused, single>>

-----------------------------------------------------------------------------
(* The child: the program, and the signals the rest of the system sends it *)

\* The program ends by itself: entrypoint returns, or calls exit.
ChildExits(r) ==
  /\ life[r] = Running
  /\ \E c \in ExitCodes : life' = [life EXCEPT ![r] = Exited(c)]
  /\ UNCHANGED <<cjitVars, report, halted>>

ChildIsKilled(r) ==
  /\ Alive(r)
  /\ \E s \in Signals : life' = [life EXCEPT ![r] = Signaled(s)]
  /\ UNCHANGED <<cjitVars, report, halted>>

ChildStops(r) ==
  /\ life[r] = Running
  /\ \E s \in StopSignals :
       /\ life' = [life EXCEPT ![r] = Stopped(s)]
       /\ report' = [report EXCEPT ![r] = Stopped(s)]
  /\ halted' = halted \cup {r}
  /\ UNCHANGED cjitVars

ChildContinues(r) ==
  /\ life[r] \in Stops
  /\ life' = [life EXCEPT ![r] = Running]
  /\ report' = [report EXCEPT ![r] = Continued]
  /\ UNCHANGED <<cjitVars, halted>>

Parent(r) == Fork(r) \/ OpenPidFile(r) \/ WritePid(r) \/ Wait(r)
Child(r) == ChildExits(r) \/ ChildIsKilled(r) \/ ChildStops(r) \/ ChildContinues(r)

Next == \E r \in Runs : Parent(r) \/ Killed(r) \/ Child(r)

\* Every process is scheduled.  That the program ever ends is an assumption
\* about the program; a stopped one need not be continued.
Fairness == \A r \in Runs : WF_vars(Parent(r)) /\ WF_vars(ChildExits(r))

Spec == Init /\ [][Next]_vars /\ Fairness

-----------------------------------------------------------------------------
(* Properties *)

\* Every variable has its type; a run has a child exactly when its fork has
\* succeeded, and no two processes of the system have one identifier.
TypeOK ==
  /\ pc \in [Runs -> {"fork", "open", "write", "wait", "returned", "killed"}]
  /\ child \in [Runs -> Pids \cup {NoPid, -1}]
  /\ life \in [Runs -> {Unborn, Running} \cup Stops \cup Ends]
  /\ report \in [Runs -> {NoReport, Continued} \cup Stops]
  /\ pidFile \in Pids \cup {Absent, Empty, -1}
  /\ result \in [Runs -> -1 .. 255]
  /\ halted \subseteq Runs /\ refused \subseteq Runs
  /\ unwritten \subseteq Runs /\ single \subseteq Runs
  /\ \A r \in Runs : life[r] # Unborn <=> child[r] \in Pids
  /\ \A r \in Runs : pc[r] = "fork" <=> child[r] = NoPid
  /\ \A r, s \in Runs : r # s /\ Alive(r) /\ Alive(s) => child[r] # child[s]

\* cjit_platform_exec returns 0 for a program it has started only if that
\* program has ended, with exit status 0: never for one that was killed, that
\* is stopped or that is still running.
SuccessIsExitZero ==
  \A r \in Runs : pc[r] = "returned" /\ child[r] \in Pids /\ result[r] = 0 =>
    life[r] = Exited(0)

\* A program that is never stopped is waited for to its end, and its exit
\* status or the signal that ended it is what cjit_platform_exec returns;
\* only a pid file that cannot be opened cuts the wait short.
UnstoppedIsReported ==
  \A r \in Runs : pc[r] = "returned" /\ child[r] \in Pids /\ r \notin halted \cup refused =>
    life[r] \in Ends /\ result[r] = life[r].n

\* While a run with -p waits for a program it has started, and no other run
\* with -p has overlapped it, the file names that program; or, if the number did
\* not reach the file, no process.  Never does it name another one, whatever
\* earlier runs and killed runs left there.
PidFileIsCurrent ==
  \A r \in Writers \cap single : pc[r] = "wait" /\ child[r] \in Pids =>
    pidFile = IF r \in unwritten THEN Empty ELSE child[r]

\* A run of cjit whose program ends, or is stopped, returns.
EveryExecReturns == \A r \in Runs : pc[r] = "fork" ~> Reaped(r)

-----------------------------------------------------------------------------
(* A statement of the documentation that the code does not keep *)

\* src/src/main.c, usage: "-p pid write execution process ID to (+) pid".
\* The number in the file is the identifier of a process.
PidFileNamesProcess == pidFile \in Pids \cup {Absent, Empty}
=============================================================================
