------------------------------ MODULE Session ------------------------------
(***************************************************************************)
(* One run of cjit from its route to its exit status: the slices of        *)
(* src/src/app, the session they drive through the compiler port           *)
(* (src/src/cjit.c, tinycc_adapter.c) and the state of TinyCC that this    *)
(* builds up.                                                              *)
(*                                                                         *)
(* Extraction of the runtime assets, TinyCC, the library files and the     *)
(* program that is run are external: they succeed or fail, each time they  *)
(* are asked.  RuntimeCache and ProgramExec look into the first and last.  *)
(***************************************************************************)
EXTENDS Integers, SequencesExt

CONSTANTS
  Sources,    \* files that cjit_classify_source_path takes for sources
  Objects,    \* the other files a user may give: objects and libraries
  Broken,     \* those of both that are missing or do not compile
  Mains,      \* those that define the entry function
  Libraries,  \* names a user may give to -l
  Holds,      \* the libraries each directory holds, as a function
  Loadable,   \* those that TinyCC can load
  Exits,      \* what cjit_platform_exec may return
  MaxFiles    \* bound: the files and the libraries of a command line

Files == Sources \cup Objects
Stdin == "-"

\* The order in which a library is to be looked for: the directories of -L,
\* then the working directory, then those of ld.so.conf.
Given == "given"
Setup == <<"pwd", "system">>

ASSUME SessionAssumption ==
  /\ Sources \cap Objects = {} /\ Stdin \notin Files
  /\ Broken \subseteq Files /\ Mains \subseteq Files \cup {Stdin}
  /\ Holds \in [{Given} \cup ToSet(Setup) -> SUBSET Libraries]
  /\ Loadable \subseteq Libraries
  /\ Exits \subseteq -1 .. 255 /\ MaxFiles \in Nat

MEM == 1
EXE == 2
OBJ == 3

VARIABLES
  request,  \* what the command line asks for
  phase,    \* "status", "sources" or "done"
  next,     \* the index of the next source
  cjit,     \* CJITState, with what TinyCC has been given in TCC
  stdin,    \* whether the standard input is still unread
  file,     \* the output file this run has written
  ran,      \* the program it has run, and what became of it
  exit      \* the exit status, -1 before there is one

vars == <<request, phase, next, cjit, stdin, file, ran, exit>>

Nothing == [type |-> 0, units |-> <<>>, libs |-> <<>>, exit |-> -2]

NewTCC == [type |-> 0, inits |-> 0, errors |-> FALSE, units |-> <<>>, libs |-> <<>>]

Routes == {"status", "object", "build", "execute"}
Prints(q) == q.status /\ q.route # "execute"

\* What parse_cli_route can ask for: the status alone only without a file.
\* stdin is what the standard input would give.
Requests ==
  {q \in [route : Routes, status : BOOLEAN, cflags : {"none", "good", "bad"},
          stdin : {"program", "nonsense", "nothing"},
          sources : BoundedSeq(Files \cup {Stdin}, MaxFiles),
          libs : BoundedSeq(Libraries, MaxFiles)] :
     q.route = "status" <=> q.status /\ q.sources = <<>>}

\* The option loop of main has filled the state; a -C that TinyCC refuses has
\* left an error behind, which nothing looks at.
Init ==
  /\ request \in Requests
  /\ phase = IF Prints(request) THEN "status" ELSE "sources"
  /\ next = 1
  /\ \E dirs \in {<<>>, <<Given>>}, refused \in BOOLEAN :
       cjit = [tcc_output |-> CASE request.route = "object" -> OBJ
                                [] request.route = "build" -> EXE
                                [] OTHER -> MEM,
               done_setup |-> FALSE, done_exec |-> FALSE,
               libs |-> request.libs, libpaths |-> dirs, reallibs |-> <<>>,
               TCC |-> [NewTCC EXCEPT !.errors = refused]]
  /\ stdin = TRUE
  /\ file = Nothing /\ ran = Nothing /\ exit = -1

-----------------------------------------------------------------------------
(* cjit_prepare *)

Outcome(ok, c) == [ok |-> ok, cjit |-> c]

\* tcc_set_output_type: every call starts the sections anew.  For an executable
\* the startup files may be missing, and an error stays until the next output.
Typed(c, missing) ==
  [c EXCEPT !.TCC.type = c.tcc_output, !.TCC.inits = @ + 1,
            !.TCC.errors = @ \/ (missing /\ c.tcc_output = EXE)]

\* The working directory may be out of reach.
SetUp(c) == {[c EXCEPT !.libpaths = @ \o dirs, !.done_setup = TRUE] : dirs \in {Setup, Tail(Setup)}}

\* From the output type on: an error TinyCC has counted before is found here,
\* unless the output is an object.
Configure(c) ==
  UNION {LET t == Typed(c, missing) IN
         IF t.TCC.errors /\ t.TCC.type # OBJ THEN {Outcome(FALSE, t)}
         ELSE IF request.cflags = "bad" THEN {Outcome(FALSE, [t EXCEPT !.TCC.errors = TRUE])}
         ELSE {Outcome(TRUE, d) : d \in SetUp(t)} : missing \in BOOLEAN}

\* Mutation of Prepare: the state counts as set up before it is.
PrepareEarly(c) ==
  LET d == [c EXCEPT !.done_setup = TRUE] IN
  IF c.done_setup THEN {Outcome(TRUE, c)} ELSE {Outcome(FALSE, d)} \cup Configure(d)

\* Mutation of Prepare: the output type is set before the assets are there.
PrepareTypeFirst(c) ==
  IF c.done_setup THEN {Outcome(TRUE, c)}
  ELSE {Outcome(FALSE, Typed(c, FALSE))} \cup Configure(c)

\* What cjit_prepare may return, and the state it leaves.  It stops at the
\* first of extraction, output type and CFLAGS that fails, and the next call
\* begins again.
Prepare(c) ==
  IF c.done_setup THEN {Outcome(TRUE, c)}
  ELSE {Outcome(FALSE, c)} \cup Configure(c)

-----------------------------------------------------------------------------
(* Libraries: posix_resolve_library_lists and what the adapter does with it *)

\* The elements of s that are in S, in order: SelectSeq with a set in the place
\* of a test, which the proofs can take apart.
Among(s, S) ==
  LET kept[k \in 0 .. Len(s)] ==
        IF k = 0 THEN <<>>
        ELSE IF s[k] \in S THEN Append(kept[k - 1], s[k]) ELSE kept[k - 1]
  IN  kept[Len(s)]

\* The directories that hold the library, in the order of the search.
Places(c, l) == Among(c.libpaths, {d \in DOMAIN Holds : l \in Holds[d]})

\* The libraries that are found, in the order of the command line.
Found(c) == Among(c.libs, {l \in Libraries : Places(c, l) # <<>>})

\* Mutation of Resolve: the directories are gone through from the last.
ResolveLast(c) ==
  LET found == Found(c) IN
  [c EXCEPT !.reallibs = @ \o [k \in DOMAIN found |-> <<Last(Places(c, found[k])), found[k]>>]]

\* Every resolution appends to what the ones before have found.
Resolve(c) ==
  LET found == Found(c) IN
  [c EXCEPT !.reallibs = @ \o [k \in DOMAIN found |-> <<Head(Places(c, found[k])), found[k]>>]]

\* Every path of reallibs goes to tcc_add_file, whose result is dropped.
LoadLibraries(c) ==
  LET r == Resolve(c) IN
  [r EXCEPT !.TCC.libs = @ \o Among(r.reallibs, (DOMAIN Holds) \X Loadable)]

-----------------------------------------------------------------------------
(* The slices *)

Exit(n) == phase' = "done" /\ exit' = n % 256

\* Source or object f, or the standard input: compiled if nothing was refused
\* before; otherwise TinyCC may have counted an error.
Compile(c, f) ==
  IF f \in Broken \/ (f = Stdin /\ request.stdin = "nonsense") \/ (f \notin Objects /\ c.TCC.errors)
  THEN {Outcome(FALSE, c), Outcome(FALSE, [c EXCEPT !.TCC.errors = TRUE])}
  ELSE {Outcome(TRUE, [c EXCEPT !.TCC.units = Append(@, f)])}

Add(c, f) == UNION {IF p.ok THEN Compile(p.cjit, f) ELSE {p} : p \in Prepare(c)}

\* cjit_status before, or instead of, the slice; its result is not looked at.
PrintStatus ==
  /\ phase = "status"
  /\ \E p \in Prepare(cjit) : cjit' = IF p.ok THEN Resolve(p.cjit) ELSE p.cjit
  /\ IF request.route = "status" THEN Exit(0) ELSE phase' = "sources" /\ UNCHANGED exit
  /\ UNCHANGED <<request, next, stdin, file, ran>>

\* The files the build and execute slices add: without one, execute reads the
\* standard input.
ToAdd == IF request.route = "execute" /\ request.sources = <<>> THEN <<Stdin>>
         ELSE request.sources

Adding == phase = "sources" /\ request.route \in {"build", "execute"} /\ next <= Len(ToAdd)

\* One turn of the loop; a file that is refused ends the run.  The build slice
\* leaves "-" to tcc_add_file, which reads the standard input as well.
AddSource ==
  /\ Adding
  /\ ToAdd[next] # Stdin \/ request.route = "build"
  /\ \E p \in Add(cjit, ToAdd[next]) :
       /\ cjit' = p.cjit
       /\ IF p.ok THEN next' = next + 1 /\ UNCHANGED <<phase, exit>>
                  ELSE Exit(1) /\ UNCHANGED next
  /\ stdin' = (stdin /\ ToAdd[next] # Stdin)
  /\ UNCHANGED <<request, file, ran>>

\* load_stdin reads up to the end: a second time there is nothing.
AddStdin ==
  /\ Adding
  /\ ToAdd[next] = Stdin /\ request.route = "execute"
  /\ stdin' = FALSE
  /\ IF ~stdin \/ request.stdin = "nothing" THEN Exit(1) /\ UNCHANGED <<next, cjit>>
     ELSE \E p \in Add(cjit, Stdin) :
            /\ cjit' = p.cjit
            /\ IF p.ok THEN next' = next + 1 /\ UNCHANGED <<phase, exit>>
                       ELSE Exit(1) /\ UNCHANGED next
  /\ UNCHANGED <<request, file, ran>>

Artefact(c, n) == [type |-> c.TCC.type, units |-> c.TCC.units, libs |-> c.TCC.libs, exit |-> n]

\* Mutation of Output: its result is dropped.
OutputUnseen(c) ==
  \/ /\ file' = Artefact(c, -2)
     /\ cjit' = [c EXCEPT !.TCC.errors = FALSE]
     /\ Exit(0)
  \/ /\ cjit' = [c EXCEPT !.TCC.errors = TRUE]
     /\ Exit(0) /\ UNCHANGED file

\* tcc_output_file forgets the errors there have been; it may fail.
Output(c) ==
  \/ /\ file' = Artefact(c, -2)
     /\ cjit' = [c EXCEPT !.TCC.errors = FALSE]
     /\ Exit(0)
  \/ /\ cjit' = [c EXCEPT !.TCC.errors = TRUE]
     /\ Exit(1) /\ UNCHANGED file

Finished(r) == phase = "sources" /\ request.route = r /\ next > Len(ToAdd)

\* link_executable
LinkExecutable ==
  /\ Finished("build")
  /\ IF ~cjit.done_setup THEN Exit(1) /\ UNCHANGED <<cjit, file>>
                         ELSE Output(LoadLibraries(cjit))
  /\ UNCHANGED <<request, next, stdin, ran>>

\* Mutation of CompileObject: the result of cjit_add_file_result is dropped.
CompileObjectAnyway ==
  /\ phase = "sources" /\ request.route = "object"
  /\ IF Len(request.sources) # 1 \/ ~(ToSet(request.sources) \subseteq Sources)
     THEN Exit(1) /\ UNCHANGED <<cjit, file>>
     ELSE \E p \in Add(cjit, request.sources[1]) : Output(p.cjit)
  /\ UNCHANGED <<request, next, stdin, ran>>

\* compile_object: one file, and it must be a source.
CompileObject ==
  /\ phase = "sources" /\ request.route = "object"
  /\ IF Len(request.sources) # 1 \/ ~(ToSet(request.sources) \subseteq Sources)
     THEN Exit(1) /\ UNCHANGED <<cjit, file>>
     ELSE \E p \in Add(cjit, request.sources[1]) :
            IF p.ok THEN Output(p.cjit) ELSE cjit' = p.cjit /\ Exit(1) /\ UNCHANGED file
  /\ UNCHANGED <<request, next, stdin, ran>>

\* execute_program: relocation may fail, the entry function may be missing.
ExecuteProgram ==
  /\ Finished("execute")
  /\ IF ~cjit.done_setup \/ cjit.done_exec THEN Exit(1) /\ UNCHANGED <<cjit, ran>>
     ELSE LET c == LoadLibraries(cjit)
              linked == [c EXCEPT !.TCC.errors = FALSE]
          IN  \/ cjit' = [c EXCEPT !.TCC.errors = TRUE] /\ Exit(-1) /\ UNCHANGED ran
              \/ /\ ToSet(c.TCC.units) \cap Mains = {}
                 /\ cjit' = linked /\ Exit(-1) /\ UNCHANGED ran
              \/ /\ ToSet(c.TCC.units) \cap Mains # {}
                 /\ cjit' = [linked EXCEPT !.done_exec = TRUE]
                 /\ \E n \in Exits : ran' = Artefact(c, n) /\ Exit(n)
  /\ UNCHANGED <<request, next, stdin, file>>

Next ==
  \/ PrintStatus \/ AddSource \/ AddStdin
  \/ LinkExecutable \/ CompileObject \/ ExecuteProgram
  \/ (phase = "done" /\ UNCHANGED vars)

Spec == Init /\ [][Next]_vars

-----------------------------------------------------------------------------
(* Properties *)

\* Every variable has its type; TinyCC is given no other output type than the
\* options asked for, and the exit status is one a process can have.
TypeOK ==
  /\ request \in Requests
  /\ phase \in {"status", "sources", "done"}
  /\ next \in 1 .. Len(ToAdd) + 1
  /\ cjit.tcc_output \in {MEM, EXE, OBJ} /\ cjit.TCC.type \in {0, cjit.tcc_output}
  /\ cjit.done_setup \in BOOLEAN /\ cjit.done_exec \in BOOLEAN
  /\ exit \in -1 .. 255 /\ (exit # -1 <=> phase = "done")

\* The directories a library may be taken from, and those of all libraries.
Order == <<Given>> \o Setup
Holding(l) == {j \in DOMAIN Order : Order[j] \in ToSet(cjit.libpaths) /\ l \in Holds[Order[j]]}

Wanted == {<<Order[Min(Holding(l))], l>> :
             l \in {x \in ToSet(request.libs) \cap Loadable : Holding(x) # {}}}

\* Built from every file of the command line, in order, on sections that were
\* started once and for this kind of output.
Whole(a, type) == a.type = type /\ a.units = ToAdd /\ cjit.TCC.inits = 1

\* An output file is made of everything the command line names, whatever
\* failed, was tried again or was printed on the way; so is a program that is
\* run.
OutcomeIsWhole ==
  /\ file # Nothing => Whole(file, IF request.route = "object" THEN OBJ ELSE EXE)
  /\ ran # Nothing => Whole(ran, MEM)

\* The libraries a program or an executable is linked with are those the
\* command line names that can be loaded, each from the first directory of the
\* search order that holds it.
LibrariesInOrder ==
  /\ ran # Nothing => ToSet(ran.libs) = Wanted
  /\ file # Nothing /\ request.route = "build" => ToSet(file.libs) = Wanted

\* Exit status 0 says that what was asked for has been done, and an output
\* file is left only by a run that says so.
ExitTells ==
  phase = "done" =>
    /\ request.route \in {"object", "build"} => (exit = 0 <=> file # Nothing)
    /\ request.route = "execute" /\ exit = 0 => ran # Nothing /\ ran.exit = 0
    /\ ran # Nothing => exit = ran.exit % 256

\* A run that was refused its CFLAGS, one of its files or a second reading of
\* the standard input neither writes nor runs anything.
NothingAfterRefusal ==
  \/ request.cflags = "bad"
  \/ ToSet(ToAdd) \cap Broken # {}
  \/ request.route = "execute" /\ Cardinality({k \in DOMAIN ToAdd : ToAdd[k] = Stdin}) > 1
  \/ Stdin \in ToSet(ToAdd) /\ request.stdin = "nonsense"
  => file = Nothing /\ ran = Nothing

\* However often the set-up is tried, the search path is completed once and
\* the state stays one that cjit_prepare can be called on again.
SetUpOnce ==
  /\ TypeOK
  /\ IsInjective(cjit.libpaths)
  /\ cjit.done_setup <=> Last(Setup) \in ToSet(cjit.libpaths)
=============================================================================
