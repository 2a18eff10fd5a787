------------------------------ MODULE CliArgs ------------------------------
(***************************************************************************)
(* From the command line to a route: the filter of compiler-driver         *)
(* arguments, the option parser ketopt, which moves the options in front   *)
(* of the files while it reads them, the option loop of main and           *)
(* parse_cli_route.                                                        *)
(*                                                                         *)
(* An argument is a record that says what the code makes of its spelling.  *)
(* Positions count argv[0] as 1, so they are the code's plus one.          *)
(***************************************************************************)
EXTENDS Integers, SequencesExt

CONSTANTS
  Arguments,  \* the arguments a user may give
  MaxArgs,    \* bound: how many of them
  BadDefines  \* the values cli_parse_define_value refuses

\* A file or a value, by its name.
Plain(x) == [kind |-> "plain", letters |-> <<>>, name |-> x, value |-> ""]
\* The bare "--".
Sep == [kind |-> "sep", letters |-> <<>>, name |-> "", value |-> ""]
\* "-q", "-qlssl": letters behind one dash; the last may have a value attached.
Short(ls, v) == [kind |-> "short", letters |-> ls, name |-> "", value |-> v]
\* "--verb", "--xtgz=f".
Long(x, v) == [kind |-> "long", letters |-> <<>>, name |-> x, value |-> v]
\* An argument of ignored_args; name tells a bare one, such as "-MF" or "-g",
\* that the patterns with ":" drop together with the argument after it.
Driver(ls, x) == [kind |-> "driver", letters |-> ls, name |-> x, value |-> ""]

Valued == {"D", "L", "l", "C", "I", "e", "p", "o", "a"}
Self == Plain("cjit")

\* What is attached to a short option belongs to its last letter.
ASSUME ArgsAssumption ==
  /\ MaxArgs \in Nat
  /\ Arguments \subseteq [kind : STRING, letters : Seq(STRING), name : STRING, value : STRING]
  /\ \A a \in Arguments :
       /\ a.kind \in {"short", "driver"} <=> a.letters # <<>>
       /\ \A k \in 1 .. Len(a.letters) - 1 : a.letters[k] \notin Valued

VARIABLES
  cmd,      \* the command line
  phase,    \* "filter", "options", "routed", "help" or "invalid"
  argv,     \* the arguments that remain, as the parser has ordered them
  after,    \* the filter has met "--"
  i, pos, n, ind,  \* ketopt_t: the fields i, pos, n_args and ind
  set,      \* the fields of CJITState that options set
  values,   \* the values given to options, in order
  forced,   \* forced_route
  sep       \* arg_separator, 0 when there is none

parser == <<i, pos, n, ind>>
outcome == <<set, values, forced, sep>>
vars == <<cmd, phase, argv, after, i, pos, n, ind, set, values, forced, sep>>

Init ==
  /\ \E k \in 0 .. MaxArgs : cmd \in [1 .. k -> Arguments]
  /\ phase = "filter" /\ argv = <<Self>> /\ after = FALSE
  /\ i = 1 /\ pos = 0 /\ n = 0 /\ ind = 2
  /\ set = {} /\ values = <<>> /\ forced = "none" /\ sep = 0

-----------------------------------------------------------------------------
(* cli_remove_ignored_arguments; i is its index *)

Swallows(a) == a.kind = "driver" /\ a.name = "bare"

\* Mutation of FilterArgument: arguments after "--" are filtered too.
FilterAll ==
  /\ phase = "filter" /\ i <= Len(cmd)
  /\ IF cmd[i].kind = "driver"
     THEN /\ i' = IF Swallows(cmd[i]) /\ i < Len(cmd) THEN i + 2 ELSE i + 1
          /\ UNCHANGED <<argv, after>>
     ELSE /\ argv' = Append(argv, cmd[i])
          /\ after' = (after \/ cmd[i] = Sep)
          /\ i' = i + 1
  /\ UNCHANGED <<cmd, phase, pos, n, ind, outcome>>

FilterArgument ==
  /\ phase = "filter" /\ i <= Len(cmd)
  /\ IF cmd[i].kind = "driver" /\ ~after
     THEN /\ i' = IF Swallows(cmd[i]) /\ i < Len(cmd) THEN i + 2 ELSE i + 1
          /\ UNCHANGED <<argv, after>>
     ELSE /\ argv' = Append(argv, cmd[i])
          /\ after' = (after \/ cmd[i] = Sep)
          /\ i' = i + 1
  /\ UNCHANGED <<cmd, phase, pos, n, ind, outcome>>

FilterEnds ==
  /\ phase = "filter" /\ i > Len(cmd)
  /\ phase' = "options"
  /\ i' = 2
  /\ UNCHANGED <<cmd, argv, after, pos, n, ind, outcome>>

-----------------------------------------------------------------------------
(* ketopt *)

Argc == Len(argv)

\* The next argument that is not a file, and the files there are before it.
At == LET others == {k \in i .. Argc : argv[k].kind # "plain"} IN
      IF others = {} THEN Argc + 1 ELSE Min(others)
NArgs == n + (At - i)

\* ketopt_permute for each of from .. to: they move over k files to the left.
Move(s, from, to, k) ==
  SubSeq(s, 1, from - k - 1) \o SubSeq(s, from, to)
    \o SubSeq(s, from - k, from - 1) \o SubSeq(s, to + 1, Len(s))

\* Mutation of Read: the position is not moved on.
ReadStays(to) ==
  /\ argv' = Move(argv, At, to, NArgs)
  /\ i' = At /\ pos' = 0 /\ n' = NArgs
  /\ ind' = to + 1 - NArgs

\* Mutation of Read: the files are counted once more with the next option.
ReadUncounted(to) ==
  /\ argv' = Move(argv, At, to, NArgs)
  /\ i' = to + 1 /\ pos' = 0 /\ n' = n
  /\ ind' = to + 1 - NArgs

\* The parser has read the arguments up to position to.
Read(to) ==
  /\ argv' = Move(argv, At, to, NArgs)
  /\ i' = to + 1 /\ pos' = 0 /\ n' = NArgs
  /\ ind' = to + 1 - NArgs

\* Mutation of NoMoreOptions: the files are taken to begin where reading ended.
NoMoreOptionsEnd ==
  /\ phase = "options" /\ At > Argc
  /\ phase' = "routed"
  /\ i' = At /\ n' = NArgs /\ ind' = At
  /\ UNCHANGED <<cmd, argv, after, pos, outcome>>

\* -1: every argument has been read.
NoMoreOptions ==
  /\ phase = "options" /\ At > Argc
  /\ phase' = "routed"
  /\ i' = At /\ n' = NArgs /\ ind' = At - NArgs
  /\ UNCHANGED <<cmd, argv, after, pos, outcome>>

\* '-': main notes the position after the one ketopt gives, and stops.
Separator ==
  /\ phase = "options" /\ At <= Argc /\ argv[At] = Sep
  /\ Read(At)
  /\ sep' = ind' + 1
  /\ phase' = "routed"
  /\ UNCHANGED <<cmd, after, set, values, forced>>

\* "--x", "--=": the beginning of two long options.  ketopt returns '?' and
\* leaves the position where it is.
AmbiguousOption ==
  /\ phase = "options" /\ At <= Argc
  /\ argv[At].kind = "long" /\ argv[At].name = "ambiguous"
  /\ i' = At /\ pos' = -1 /\ n' = NArgs
  /\ UNCHANGED <<cmd, phase, argv, after, ind, outcome>>

LongOption ==
  /\ phase = "options" /\ At <= Argc
  /\ argv[At].kind = "long" /\ argv[At].name # "ambiguous"
  /\ LET a == argv[At]
         next == a.name = "xtgz" /\ a.value = "" /\ At < Argc
         missing == a.name = "xtgz" /\ a.value = "" /\ At = Argc
     IN  /\ Read(IF next THEN At + 1 ELSE At)
         /\ set' = IF a.name = "verb" THEN (set \ {"quiet"}) \cup {"verbose"} ELSE set
         /\ forced' = IF a.name \in {"xass", "xtgz"} /\ ~missing THEN a.name ELSE forced
         /\ phase' = IF a.name = "help" THEN "help"
                     ELSE IF forced' # "none" THEN "routed" ELSE phase
  /\ UNCHANGED <<cmd, after, values, sep>>

\* cli_parse_define_value refuses what is not a name, an "=" and a value.
BadDefine(a) == a.kind # "plain" \/ a.name \in BadDefines

\* The option loop of main for the letter l.
Flag(l) ==
  /\ set' = set \cup CASE l = "q" /\ "verbose" \notin set -> {"quiet"}
                       [] l = "v" -> {"status"}
                       [] l = "c" -> {"quiet", "obj"}
                       [] OTHER -> {}
  /\ phase' = IF l = "h" THEN "help" ELSE phase
  /\ UNCHANGED values

Value(l, a) ==
  /\ set' = IF l = "o" THEN set \cup {"outfile"} ELSE set
  /\ values' = Append(values, <<l, a>>)
  /\ phase' = IF l = "D" /\ BadDefine(a) THEN "invalid" ELSE phase

ShortOption ==
  /\ phase = "options" /\ At <= Argc /\ argv[At].kind \in {"short", "driver"}
  /\ LET a == argv[At]
         k == IF pos = 0 THEN 1 ELSE pos
         l == a.letters[k]
     IN  \/ /\ l \in Valued /\ a.value # ""
            /\ Value(l, Plain(a.value)) /\ Read(At)
         \/ /\ l \in Valued /\ a.value = "" /\ At < Argc
            /\ Value(l, argv[At + 1]) /\ Read(At + 1)
         \/ /\ l \in Valued /\ a.value = "" /\ At = Argc
            /\ UNCHANGED <<set, values, phase>> /\ Read(At)
         \/ /\ l \notin Valued /\ k = Len(a.letters)
            /\ Flag(l) /\ Read(At)
         \/ /\ l \notin Valued /\ k < Len(a.letters)
            /\ Flag(l)
            /\ i' = At /\ pos' = k + 1 /\ n' = NArgs /\ ind' = At - NArgs
            /\ UNCHANGED argv
  /\ UNCHANGED <<cmd, after, forced, sep>>

-----------------------------------------------------------------------------
(* parse_cli_route *)

Left == IF sep # 0 THEN sep ELSE Argc + 1

\* argv[ind .. Left - 1]; the NULL behind the last argument may be among them.
Sources == [k \in 1 .. Left - ind |->
              IF ind + k - 1 <= Argc THEN argv[ind + k - 1] ELSE Plain("NULL")]

AppArgv == SubSeq(argv, Left - 1, Argc)

\* Mutation of Route: an output file comes before -c.
RouteOutputFirst ==
  IF forced # "none" THEN forced
  ELSE IF ind > Argc /\ "status" \in set THEN "status"
  ELSE IF "outfile" \in set THEN "build"
  ELSE IF "obj" \in set THEN "object" ELSE "execute"

Route ==
  IF forced # "none" THEN forced
  ELSE IF ind > Argc /\ "status" \in set THEN "status"
  ELSE IF "obj" \in set THEN "object"
  ELSE IF "outfile" \in set THEN "build" ELSE "execute"

-----------------------------------------------------------------------------
Ended == phase \in {"routed", "help", "invalid"}

Step == FilterArgument \/ FilterEnds \/ NoMoreOptions \/ Separator
        \/ AmbiguousOption \/ LongOption \/ ShortOption

Next == Step \/ (Ended /\ UNCHANGED vars)

\* The parser runs alone and is never stopped.
Spec == Init /\ [][Next]_vars /\ WF_vars(Step)

-----------------------------------------------------------------------------
(* The command line as the manual reads it *)

\* The options that take the argument after them, and what the filter drops
\* with the argument after it.
Needs(a) ==
  \/ a.kind = "short" /\ a.value = "" /\ Last(a.letters) \in Valued
  \/ a.kind = "long" /\ a.name = "xtgz" /\ a.value = ""
  \/ Swallows(a)

SepIn(s) == LET seps == {k \in DOMAIN s : s[k] = Sep} IN
            IF seps = {} THEN Len(s) + 1 ELSE Min(seps)
SepAt == SepIn(cmd)

\* Every option that takes a value is given one.
WellFormed ==
  \A k \in 1 .. SepAt - 1 : Needs(cmd[k]) => k < Len(cmd) /\ cmd[k + 1].kind = "plain"

IsValue(s, k) == k > 1 /\ Needs(s[k - 1])

FileAt(s, k) == s[k].kind = "plain" /\ ~IsValue(s, k)
ValuedAt(s, k) == s[k].kind = "short" /\ Last(s[k].letters) \in Valued

\* For every k up to len: what v has at the positions of S that are not after
\* k, in order.  A function where SelectSeq is an operator, so that the proofs
\* can go through it position by position.
Picked(v, S, len) ==
  LET picked[k \in 0 .. len] ==
        IF k = 0 THEN <<>>
        ELSE IF k \in S THEN Append(picked[k - 1], v[k]) ELSE picked[k - 1]
  IN  picked

\* The files, and the options with their values, among the first arguments of s.
FilesOf(s, len) == Picked(s, {k \in 1 .. len : FileAt(s, k)}, len)
GivenOf(s, len) ==
  Picked([k \in 1 .. len |->
            LET a == s[k] IN
            IF ~ValuedAt(s, k) THEN <<>>
            ELSE <<Last(a.letters), IF a.value # "" THEN Plain(a.value) ELSE s[k + 1]>>],
         {k \in 1 .. len : ValuedAt(s, k)}, len)

Files == FilesOf(cmd, SepAt - 1)[SepAt - 1]
Given == GivenOf(cmd, SepAt - 1)[SepAt - 1]

Rest == SubSeq(cmd, SepAt + 1, Len(cmd))

Letters == UNION {Range(cmd[k].letters) : k \in {x \in 1 .. SepAt - 1 : cmd[x].kind = "short"}}

Routed == phase = "routed" /\ forced = "none"

-----------------------------------------------------------------------------
(* Properties *)

\* Every variable has its type and the parser stays inside argv: the files it
\* has passed over are the n arguments before position i, and ind is where
\* they begin.
TypeOK ==
  /\ phase \in {"filter", "options", "routed", "help", "invalid"}
  /\ argv \in Seq(Arguments \cup {Self})
  /\ set \subseteq {"quiet", "verbose", "status", "obj", "outfile"}
  /\ forced \in {"none", "xass", "xtgz"}
  /\ phase # "filter" =>
       /\ argv[1] = Self
       /\ n \in 0 .. i - 2 /\ i <= Argc + 1
       /\ \A k \in i - n .. i - 1 : argv[k].kind = "plain" \/ (sep # 0 /\ k = i - 1)
  /\ Ended => ind = i - n

SourcesAsGiven ==
  SepAt > Len(cmd) \/ Len(Files) = 1 => Sources = Files
AppArgsAsGiven ==
  SepAt <= Len(cmd) /\ Len(Files) = 1 => AppArgv = Files \o Rest

\* A well-formed command line is handed on as it was written.  Every option
\* before "--" reaches cjit with its own value, in order and once, and nothing
\* after "--" does.  Without "--", or with one file before it, the sources are
\* the files in the order given, wherever the options stand.  What follows
\* "--" is what the program gets, unread and unfiltered, after the file that
\* stands for argv[0].
HandedOnAsGiven ==
  Routed /\ WellFormed => values = Given /\ SourcesAsGiven /\ AppArgsAsGiven

\* -c decides over -o, -o over running; -v alone prints the status.
RouteFollowsOptions ==
  Routed /\ WellFormed =>
    Route = IF "v" \in Letters /\ Files = <<>> /\ Rest = <<>> THEN "status"
            ELSE IF "c" \in Letters THEN "object"
            ELSE IF "o" \in Letters THEN "build" ELSE "execute"

\* The files passed over are the n arguments before position i, what is still
\* to be read begins there.
Passed == IF phase = "filter" THEN <<>> ELSE SubSeq(argv, i - n, i - 1)
Todo == IF phase = "filter" THEN <<>> ELSE SubSeq(argv, i, Argc)
Stage == IF phase = "filter" THEN "given" ELSE IF Ended THEN "done" ELSE "reading"

Reader == INSTANCE ArgReader
  WITH Attached <- Plain, stage <- Stage, todo <- Todo, passed <- Passed,
       letter <- IF pos < 0 THEN 0 ELSE pos

\* ketopt, which moves options in front of files while it reads them, reads as
\* if it moved nothing: every argument once, from left to right, each option
\* with its own value, and the files in their order.
ReadsInOrder == Reader!Spec

\* A command line is read to an end, unless an argument begins like two long
\* options: ketopt reports that one for ever.
ParsingEnds == (\A k \in DOMAIN cmd : cmd[k].name # "ambiguous") => <>Ended
=============================================================================
