---------------------------- MODULE LibResolver -----------------------------
(***************************************************************************)
(* The POSIX library resolver: the directories that the files of           *)
(* ld.so.conf list, and the search of each library in them, through        *)
(* symbolic links and linker scripts, to the list of paths that TinyCC is  *)
(* given.                                                                  *)
(*                                                                         *)
(* A path is a directory and a name.  A line of a configuration file and   *)
(* a token of a script are records that say what the code makes of their   *)
(* spelling.                                                               *)
(***************************************************************************)
EXTENDS Integers, SequencesExt

CONSTANTS
  Worlds,  \* what there is on the disk and what is asked for: see below
  MaxOpen  \* bound: the files a process may have open at once

\* Lines: a directory, "include" with the files its pattern matches, a pattern
\* that cannot be expanded, or anything else.
Lines == {"dir", "include", "badglob", "other"}
\* Files: a link has "to", and "how" its target is spelled: "plain", "long"
\* (longer than the link's own path) or "absolute".
Kinds == {"none", "elf", "dir", "script", "link"}
None == [kind |-> "none"]
\* Tokens: a name has what follows an "l" that it begins with as "lib", and as
\* "path" where it leads if it begins with a "/".
IsToken(x) ==
  \/ x.t \in {"(", ")", "comma", "-", "other"}
  \/ x.t = "name" /\ (x.lib # "" => x.path = <<>> /\ x.name # "AS_NEEDED")

IsSeq(s) == s \in Seq(Range(s))

\* conf: configuration files as sequences of lines; parts: those of
\* ld.so.conf.d; paths: the directories before them; libs: the names asked
\* for; disk: the files at some paths.
ASSUME WorldsAssumption ==
  /\ MaxOpen \in Nat \ {0}
  /\ \A w \in Worlds :
       /\ IsSeq(w.parts) /\ IsSeq(w.paths) /\ IsSeq(w.libs)
       /\ \A f \in DOMAIN w.conf :
            /\ IsSeq(w.conf[f])
            /\ \A x \in Range(w.conf[f]) : x.line \in Lines /\ (x.line = "include" => IsSeq(x.files))
       /\ \A p \in DOMAIN w.disk :
            /\ w.disk[p].kind \in Kinds
            /\ w.disk[p].kind = "script" =>
                 IsSeq(w.disk[p].tokens) /\ \A x \in Range(w.disk[p].tokens) : IsToken(x)

VARIABLES
  world,
  phase,     \* "conf", "search", "script", "done"
  file,      \* the number of the configuration file to be read next
  stack,     \* the calls of read_ldsoconf: file, line and match of each
  dirs,      \* cjit->libpaths
  i, ii,     \* of posix_resolve_library_lists
  resolved,  \* cjit->reallibs
  script     \* the call of resolve_ldscript

vars == <<world, phase, file, stack, dirs, i, ii, resolved, script>>

NoScript == [path |-> <<>>, tokens |-> <<>>, mode |-> "command", depth |-> 0,
             unset |-> TRUE, libs |-> <<>>]

Init ==
  /\ world \in Worlds
  /\ phase = "conf" /\ file = 1 /\ stack = <<>> /\ dirs = world.paths
  /\ i = 1 /\ ii = 1 /\ resolved = <<>> /\ script = NoScript

-----------------------------------------------------------------------------
(* read_ldsoconf and read_ldsoconf_dir *)

ConfFiles == <<"ld.so.conf">> \o world.parts
Top == Last(stack)
Line == world.conf[Top.file][Top.line]
Frame(f) == [file |-> f, line |-> 1, match |-> 1]

\* Mutation of CanOpen: a file is closed before those it includes are read.
CanOpenAlways(f) == f \in DOMAIN world.conf

\* fopen: every call below keeps its own file open.
CanOpen(f) == f \in DOMAIN world.conf /\ Len(stack) < MaxOpen

\* The calls below, the last of them at its next line.
NextLine == [stack EXCEPT ![Len(stack)] = [file |-> Top.file, line |-> Top.line + 1, match |-> 1]]
NextMatch ==
  [stack EXCEPT ![Len(stack)] = [file |-> Top.file, line |-> Top.line, match |-> Top.match + 1]]

\* A call that fails makes every call below it fail.
Failing == <<>>

\* One of the files that cjit_platform_setup_runtime names.
OpenConf ==
  /\ phase = "conf" /\ stack = <<>> /\ file <= Len(ConfFiles)
  /\ stack' = IF CanOpen(ConfFiles[file]) THEN <<Frame(ConfFiles[file])>> ELSE <<>>
  /\ file' = file + 1
  /\ UNCHANGED <<world, phase, dirs, i, ii, resolved, script>>

\* Mutation of AddPath: a directory that is there already is added again.
AddPathAgain(d) == dirs' = Append(dirs, d)

\* add_ldso_path
AddPath(d) == dirs' = IF Contains(dirs, d) THEN dirs ELSE Append(dirs, d)

ReadLine ==
  /\ phase = "conf" /\ stack # <<>> /\ Top.line <= Len(world.conf[Top.file])
  /\ \/ Line.line = "dir" /\ AddPath(Line.dir) /\ stack' = NextLine
     \/ Line.line = "other" /\ stack' = NextLine /\ UNCHANGED dirs
     \/ Line.line = "badglob" /\ stack' = Failing /\ UNCHANGED dirs
     \/ /\ Line.line = "include" /\ Top.match > Len(Line.files)
        /\ stack' = NextLine /\ UNCHANGED dirs
     \/ /\ Line.line = "include" /\ Top.match <= Len(Line.files)
        /\ LET f == Line.files[Top.match] IN
           stack' = IF CanOpen(f) THEN Append(NextMatch, Frame(f)) ELSE Failing
        /\ UNCHANGED dirs
  /\ UNCHANGED <<world, phase, file, i, ii, resolved, script>>

CloseConf ==
  /\ phase = "conf" /\ stack # <<>> /\ Top.line > Len(world.conf[Top.file])
  /\ stack' = Front(stack)
  /\ UNCHANGED <<world, phase, file, dirs, i, ii, resolved, script>>

ConfRead ==
  /\ phase = "conf" /\ stack = <<>> /\ file > Len(ConfFiles)
  /\ phase' = "search"
  /\ UNCHANGED <<world, file, stack, dirs, i, ii, resolved, script>>

-----------------------------------------------------------------------------
(* The search of one file *)

At(p) == IF p \in DOMAIN world.disk THEN world.disk[p] ELSE None

\* What open finds behind a link, and behind a link to a link.
Behind(p) == IF At(p).kind = "link" THEN At(p).to ELSE p
Opened(p) == At(Behind(Behind(p)))

\* A path that does not exist: a target put where it does not belong.
Misplaced(p) == <<"misplaced", p>>

\* new_solve_symlink: a target longer than the link's path is cut, an absolute
\* one is put behind the link's directory.
SolveLink(p) ==
  CASE At(p).kind = "link" /\ At(p).how = "plain" -> At(p).to
    [] At(p).kind = "link" /\ At(p).how # "plain" -> Misplaced(At(p).to)
    [] At(p).kind \in {"elf", "script"} -> p
    [] OTHER -> <<>>

Candidate == <<dirs[ii], world.libs[i]>>

NextLibrary == i' = i + 1 /\ ii' = 1
NextDirectory == i' = i /\ ii' = ii + 1

\* posix_resolve_library_lists and find_library, up to the guess whether the
\* file is a script; what opens and is empty, a directory too, is taken for one.
TryFile ==
  /\ phase = "search" /\ i <= Len(world.libs) /\ ii <= Len(dirs)
  /\ LET real == SolveLink(Candidate) IN
     \/ /\ real = <<>> \/ Opened(real).kind = "none"
        /\ NextDirectory /\ UNCHANGED <<phase, resolved, script>>
     \/ /\ real # <<>> /\ Opened(real).kind = "elf"
        /\ resolved' = Append(resolved, real)
        /\ NextLibrary /\ UNCHANGED <<phase, script>>
     \/ /\ real # <<>> /\ Opened(real).kind \in {"script", "dir"}
        /\ script' = [NoScript EXCEPT !.path = real, !.tokens =
                        IF Opened(real).kind = "dir" THEN <<>> ELSE Opened(real).tokens]
        /\ phase' = "script" /\ UNCHANGED <<i, ii, resolved>>
  /\ UNCHANGED <<world, file, stack, dirs>>

\* A library that no directory has is reported and passed over.
GiveUp ==
  /\ phase = "search" /\ i <= Len(world.libs) /\ ii > Len(dirs)
  /\ NextLibrary
  /\ UNCHANGED <<world, phase, file, stack, dirs, resolved, script>>

Done ==
  /\ phase = "search" /\ i > Len(world.libs)
  /\ phase' = "done"
  /\ UNCHANGED <<world, file, stack, dirs, i, ii, resolved, script>>

-----------------------------------------------------------------------------
(* resolve_ldscript, token by token *)

Eof == [t |-> "eof"]
Token == IF script.tokens = <<>> THEN Eof ELSE Head(script.tokens)
Rest == IF script.tokens = <<>> THEN <<>> ELSE Tail(script.tokens)
IsCommand(names) == Token.t = "name" /\ Token.name \in names

\* The parser goes on in this mode; the token has been read.
Go(mode) ==
  /\ script' = [script EXCEPT !.mode = mode, !.tokens = Rest]
  /\ UNCHANGED <<phase, i, ii, resolved>>

\* find_library, once the parser has returned.
Succeed ==
  /\ resolved' = resolved \o script.libs
  /\ phase' = "search" /\ script' = NoScript /\ NextLibrary

\* Mutation of Fail: what the script has named so far is kept.
FailKeeps ==
  /\ resolved' = resolved \o script.libs
  /\ phase' = "search" /\ script' = NoScript /\ NextDirectory

Fail ==
  /\ phase' = "search" /\ script' = NoScript /\ NextDirectory
  /\ UNCHANGED resolved

ListCommands == {"INPUT", "GROUP"}
FormatCommands == {"OUTPUT_FORMAT", "TARGET"}

Command ==
  /\ script.mode = "command"
  /\ \/ Token = Eof /\ Succeed
     \/ IsCommand(ListCommands) /\ Go("list")
     \/ IsCommand(FormatCommands) /\ Go("format")
     \/ Token # Eof /\ ~IsCommand(ListCommands \cup FormatCommands) /\ Fail

\* ld_add_file_list begins; AS_NEEDED calls it again.
ListOpens ==
  /\ script.mode = "list"
  /\ \/ /\ Token.t = "("
        /\ script' = [script EXCEPT !.mode = "item", !.tokens = Rest, !.depth = @ + 1]
        /\ UNCHANGED <<phase, i, ii, resolved>>
     \/ Token.t # "(" /\ Fail

\* ld_add_file with a relative name: the first directory that has it, or else
\* the path tried last, whether or not it exists.
Joined(d, n) ==
  CASE At(<<d, n>>).kind = "link" /\ At(<<d, n>>).how # "absolute" -> At(<<d, n>>).to
    [] At(<<d, n>>).kind = "link" /\ At(<<d, n>>).how = "absolute" -> Misplaced(At(<<d, n>>).to)
    [] OTHER -> <<d, n>>
LookUp(n) ==
  LET has == {j \in DOMAIN dirs : At(<<dirs[j], n>>).kind \in {"elf", "script", "link"}} IN
  IF has = {} THEN <<Last(dirs), n>> ELSE Joined(dirs[Min(has)], n)

\* ld_add_file with an absolute name p: a link is replaced by its target as
\* it is spelled.
CanAdd(p) == At(p).kind \in {"elf", "script", "link"}
Absolute(p) ==
  CASE At(p).kind = "link" /\ At(p).how # "absolute" -> Misplaced(At(p).to)
    [] At(p).kind = "link" /\ At(p).how = "absolute" -> At(p).to
    [] OTHER -> p

\* After an item: a comma may follow.
After(tokens) == IF tokens # <<>> /\ Head(tokens).t = "comma" THEN Tail(tokens) ELSE tokens

Added(p) ==
  /\ script' = [script EXCEPT !.mode = "item", !.tokens = After(Rest), !.libs = Append(@, p)]
  /\ UNCHANGED <<phase, i, ii, resolved>>

\* An item of ld_add_file_list: a file, -l and a library, AS_NEEDED or the end.
Item ==
  /\ script.mode = "item"
  /\ \/ /\ Token.t = ")"
        /\ script' = [script EXCEPT !.depth = @ - 1, !.unset = @ /\ script.depth # 1,
                        !.mode = IF script.depth = 1 THEN "command" ELSE "item",
                        !.tokens = IF script.depth = 1 THEN Rest ELSE After(Rest)]
        /\ UNCHANGED <<phase, i, ii, resolved>>
     \/ Token.t = "-" /\ Go("library")
     \/ IsCommand({"AS_NEEDED"}) /\ Go("list")
     \/ /\ Token.t = "name" /\ Token.name # "AS_NEEDED"
        /\ IF Token.path = <<>> THEN Added(LookUp(Token.name))
           ELSE IF CanAdd(Token.path) THEN Added(Absolute(Token.path))
           ELSE Fail
     \/ Token.t \in {"eof", "(", "comma", "other"} /\ Fail

LibraryItem ==
  /\ script.mode = "library"
  /\ \/ Token.t = "name" /\ Token.lib # "" /\ Added(LookUp(Token.lib))
     \/ (Token.t = "name" => Token.lib = "") /\ Fail

\* OUTPUT_FORMAT and TARGET.  Without a parenthesis the parser returns ret,
\* which the last list has set to 0 or nothing has set.
FormatOpens ==
  /\ script.mode = "format"
  /\ \/ Token.t = "(" /\ Go("skip")
     \/ Token.t # "(" /\ Succeed
     \/ Token.t # "(" /\ script.unset /\ Fail

\* Mutation of Skip: the end of the file is not looked for.
SkipOn ==
  /\ script.mode = "skip"
  /\ \/ Token.t = ")" /\ Go("command")
     \/ Token.t # ")" /\ Go("skip")

Skip ==
  /\ script.mode = "skip"
  /\ \/ Token.t = ")" /\ Go("command")
     \/ Token = Eof /\ Succeed
     \/ Token.t # ")" /\ Token # Eof /\ Go("skip")

Script ==
  /\ phase = "script"
  /\ Command \/ ListOpens \/ Item \/ LibraryItem \/ FormatOpens \/ Skip
  /\ UNCHANGED <<world, file, stack, dirs>>

-----------------------------------------------------------------------------
Step == OpenConf \/ ReadLine \/ CloseConf \/ ConfRead \/ TryFile \/ GiveUp \/ Done \/ Script

Next == Step \/ (phase = "done" /\ UNCHANGED vars)

\* The resolver runs alone and is never stopped.
Spec == Init /\ [][Next]_vars /\ WF_vars(Step)

-----------------------------------------------------------------------------
(* The configuration and the scripts as one reads them *)

\* The sequences of ss one after the other, up to each of them.
Flat(ss) ==
  LET flat[k \in 0 .. Len(ss)] == IF k = 0 THEN <<>> ELSE flat[k - 1] \o ss[k]
  IN  flat
Flattened(ss) == Flat(ss)[Len(ss)]

\* The configuration files that can be read to their end, for every number of
\* files that may still be opened.
LineRead(x, files) == x.line \in {"dir", "other"} \/ (x.line = "include" /\ Range(x.files) \subseteq files)
Whole(w) ==
  LET whole[n \in 0 .. MaxOpen] ==
        IF n = 0 THEN {}
        ELSE {f \in DOMAIN w.conf : \A x \in Range(w.conf[f]) : LineRead(x, whole[n - 1])}
  IN  whole

\* The directories that each of them lists, in order, those of the files it
\* includes in their place; names has what the included files list.
ListedBy(x, names) ==
  CASE x.line = "dir" -> <<x.dir>>
    [] x.line = "include" -> Flattened([k \in DOMAIN x.files |-> names[x.files[k]]])
    [] OTHER -> <<>>
DirsIn(w) ==
  LET names[n \in 0 .. MaxOpen] ==
        [f \in DOMAIN w.conf |->
           IF f \notin Whole(w)[n] THEN <<>>
           ELSE Flattened([l \in DOMAIN w.conf[f] |-> ListedBy(w.conf[f][l], names[n - 1])])]
  IN  names

Readable == Range(ConfFiles) \subseteq Whole(world)[MaxOpen]
AllListed == Flattened([k \in DOMAIN ConfFiles |-> DirsIn(world)[MaxOpen][ConfFiles[k]]])

\* listed has d before it has e.
HasFirst(listed, d, e) ==
  \E x \in DOMAIN listed : listed[x] = d /\ \A y \in 1 .. x : listed[y] # e

\* ds has what before and listed have; what it has after before, it has in the
\* order in which listed has it first.
InOrder(ds, before, listed) ==
  /\ Range(ds) = Range(before) \cup Range(listed)
  /\ \A j, k \in Len(before) + 1 .. Len(ds) : j < k => HasFirst(listed, ds[j], ds[k])

Depth(tokens, k) ==
  Cardinality({j \in 1 .. k : tokens[j].t = "("}) - Cardinality({j \in 1 .. k : tokens[j].t = ")"})

\* The command that token k is an argument of.
InForce(tokens, k) ==
  LET names == {j \in 1 .. k - 1 : tokens[j].t = "name" /\ Depth(tokens, j) = 0} IN
  IF names = {} THEN "" ELSE tokens[Max(names)].name

Listed(tokens, k) == Depth(tokens, k) > 0 /\ InForce(tokens, k) \in ListCommands

TokenIs(tokens, k, t) == k \in DOMAIN tokens /\ tokens[k].t = t
NameIs(tokens, k, names) == TokenIs(tokens, k, "name") /\ tokens[k].name \in names

\* Token k is where it may be: a command before its list, in a list of files
\* one of them, or anything but another list in that of a format.
Fits(tokens, k) ==
  \/ /\ Depth(tokens, k) = 0
     /\ \/ TokenIs(tokens, k, ")")
        \/ NameIs(tokens, k, ListCommands \cup FormatCommands) /\ TokenIs(tokens, k + 1, "(")
  \/ /\ Listed(tokens, k)
     /\ \/ /\ TokenIs(tokens, k, "name") /\ ~TokenIs(tokens, k - 1, "-")
           /\ tokens[k].name = "AS_NEEDED" <=> TokenIs(tokens, k + 1, "(")
        \/ /\ TokenIs(tokens, k, "name") /\ TokenIs(tokens, k - 1, "-")
           /\ tokens[k].lib # "" /\ ~TokenIs(tokens, k + 1, "(")
        \/ TokenIs(tokens, k, "(") /\ TokenIs(tokens, k - 1, "name")
        \/ TokenIs(tokens, k, ")")
        \/ TokenIs(tokens, k, "-") /\ TokenIs(tokens, k + 1, "name") /\ tokens[k + 1].lib # ""
        \/ /\ TokenIs(tokens, k, "comma")
           /\ TokenIs(tokens, k - 1, "name") \/ TokenIs(tokens, k - 1, ")")
  \/ /\ Depth(tokens, k) = 1 /\ InForce(tokens, k) \in FormatCommands
     /\ TokenIs(tokens, k, "(") => TokenIs(tokens, k - 1, "name")

\* A script of commands, each with its list in parentheses.
WellFormed(tokens) ==
  /\ Depth(tokens, Len(tokens)) = 0
  /\ \A k \in DOMAIN tokens : Depth(tokens, k) >= 0 /\ Fits(tokens, k)

\* Token k is a file that the script lists.
IsItem(tokens, k) == Listed(tokens, k) /\ tokens[k].t = "name" /\ tokens[k].name # "AS_NEEDED"

ItemOf(tokens, k) ==
  CASE tokens[k].path # <<>> -> Absolute(tokens[k].path)
    [] tokens[k].path = <<>> /\ TokenIs(tokens, k - 1, "-") -> LookUp(tokens[k].lib)
    [] OTHER -> LookUp(tokens[k].name)

\* The files that the script lists.
ItemsOf(tokens) ==
  Flattened([k \in DOMAIN tokens |->
               IF IsItem(tokens, k) THEN <<ItemOf(tokens, k)>> ELSE <<>>])

\* No file that it lists by an absolute name is missing.
AllThere(tokens) ==
  \A k \in DOMAIN tokens : IsItem(tokens, k) => tokens[k].path = <<>> \/ CanAdd(tokens[k].path)

\* What directory d has under the name of library l, if anything.
Yields(d, l) ==
  LET real == SolveLink(<<d, l>>)
      f == Opened(real)
  IN  IF real = <<>> THEN {}
      ELSE CASE f.kind = "elf" -> {<<real>>}
             [] f.kind = "dir" -> {<<>>}
             [] f.kind = "script" /\ WellFormed(f.tokens) /\ AllThere(f.tokens) ->
                  {ItemsOf(f.tokens)}
             [] OTHER -> {}

\* The paths of a library: those of the first directory that has it.
PathsOf(l) ==
  LET has == {j \in DOMAIN dirs : Yields(dirs[j], l) # {}} IN
  IF has = {} THEN <<>> ELSE CHOOSE ps \in Yields(dirs[Min(has)], l) : TRUE

AllPaths == Flattened([k \in DOMAIN world.libs |-> PathsOf(world.libs[k])])

\* The scripts are well-formed, or malformed without a format command.
Clear ==
  \A p \in DOMAIN world.disk : world.disk[p].kind = "script" =>
    LET tokens == world.disk[p].tokens IN
    \/ WellFormed(tokens)
    \/ \A k \in DOMAIN tokens :
         tokens[k].t = "name" => tokens[k].name \notin FormatCommands

-----------------------------------------------------------------------------
(* Properties *)

\* Every variable has its type: the calls of read_ldsoconf never hold more
\* files open than a process may have, the search stays inside its lists, and
\* the parser is inside a list exactly where it looks for items.
TypeOK ==
  /\ phase \in {"conf", "search", "script", "done"}
  /\ Len(stack) <= MaxOpen
  /\ i \in 1 .. Len(world.libs) + 1 /\ ii \in 1 .. Len(dirs) + 1
  /\ script.mode \in {"command", "list", "item", "library", "format", "skip"}
  /\ script.mode \in {"item", "library"} => script.depth > 0
  /\ script.mode \in {"command", "format", "skip"} => script.depth = 0

\* A directory that several configuration files list is searched once, and one
\* that -L has named is not searched again; when every file can be read, the
\* directories are searched in the order in which ld.so.conf, what it includes,
\* and ld.so.conf.d list them first.
DirsInOrder ==
  /\ IsPrefix(world.paths, dirs)
  /\ \A j \in Len(world.paths) + 1 .. Len(dirs) : \A k \in 1 .. j - 1 : dirs[j] # dirs[k]
  /\ phase # "conf" /\ Readable => InOrder(dirs, world.paths, AllListed)

\* TinyCC is given, library by library, what the first directory that has it
\* has: a library that is missing costs the others nothing, and a script that
\* is malformed adds nothing and gives way to the next directory.
ResolvedInOrder ==
  phase # "conf" /\ Clear =>
    /\ IsPrefix(resolved, AllPaths)
    /\ phase = "done" => resolved = AllPaths

\* Configuration files that include each other, comments, scripts that break
\* off: the resolver is done with every one of them.
ResolutionEnds == <>(phase = "done")
=============================================================================
