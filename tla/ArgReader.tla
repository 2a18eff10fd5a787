----------------------------- MODULE ArgReader ------------------------------
(***************************************************************************)
(* What main relies on when it calls ketopt: that the arguments are read   *)
(* from left to right, each once, files being passed over and kept in      *)
(* their order.  Nothing is ever moved here.                               *)
(*                                                                         *)
(* An argument has the fields kind, letters, name and value of CliArgs.    *)
(***************************************************************************)
EXTENDS Integers, Sequences, FiniteSetsExt

CONSTANTS
  Arguments,
  Valued,       \* the letters that take a value
  Attached(_)   \* the value attached to an option, as an argument

VARIABLES
  stage,    \* "given", "reading" or "done"
  todo,     \* the arguments that have not been read
  passed,   \* the files passed over
  letter,   \* the next letter of the first option of todo, 0 for its first
  values    \* the options with their values, as main has been told of them

vars == <<stage, todo, passed, letter, values>>

Init == stage = "given" /\ todo = <<>> /\ passed = <<>> /\ letter = 0 /\ values = <<>>

\* How many files come before the next option.
Lead == Min({k \in 0 .. Len(todo) : k = Len(todo) \/ todo[k + 1].kind # "plain"})

Opt == todo[Lead + 1]
Letter == Opt.letters[IF letter = 0 THEN 1 ELSE letter]
AtLast == letter = Len(Opt.letters) \/ (letter = 0 /\ Len(Opt.letters) = 1)

\* The files are passed over and k arguments after them are read.
Take(k) ==
  /\ passed' = passed \o SubSeq(todo, 1, Lead)
  /\ todo' = SubSeq(todo, Lead + k + 1, Len(todo))

Begin == stage = "given" /\ todo' \in Seq(Arguments) /\ UNCHANGED <<passed, letter, values>>

\* One of the letters behind a dash: a flag, or one with a value attached to
\* it, or after it, or missing at the end.
TakeLetter ==
  /\ Lead < Len(todo) /\ Opt.letters # <<>>
  /\ \/ Letter \notin Valued /\ AtLast /\ Take(1) /\ letter' = 0 /\ UNCHANGED values
     \/ /\ Letter \notin Valued /\ ~AtLast /\ Take(0)
        /\ letter' = (IF letter = 0 THEN 2 ELSE letter + 1) /\ UNCHANGED values
     \/ /\ Letter \in Valued /\ Opt.value # "" /\ Take(1) /\ letter' = 0
        /\ values' = Append(values, <<Letter, Attached(Opt.value)>>)
     \/ /\ Letter \in Valued /\ Opt.value = "" /\ Lead + 1 < Len(todo) /\ Take(2) /\ letter' = 0
        /\ values' = Append(values, <<Letter, todo[Lead + 2]>>)
     \/ /\ Letter \in Valued /\ Opt.value = "" /\ Lead + 1 = Len(todo) /\ Take(1) /\ letter' = 0
        /\ UNCHANGED values

\* A long option, with or without a value of its own, or "--"; an argument
\* that is none is not read.
TakeLong ==
  /\ Lead < Len(todo) /\ Opt.letters = <<>>
  /\ \E k \in 0 .. 2 : Take(k) /\ (k = 0 => Opt.name = "ambiguous") /\ (k = 2 => Opt.name = "xtgz")
  /\ UNCHANGED <<letter, values>>

Finish == Lead = Len(todo) /\ Take(0) /\ stage' = "done" /\ UNCHANGED <<letter, values>>

Next ==
  \/ Begin /\ stage' = "reading"
  \/ stage = "reading" /\ (TakeLetter \/ TakeLong) /\ stage' \in {"reading", "done"}
  \/ stage = "reading" /\ Finish

Spec == Init /\ [][Next]_vars
=============================================================================
