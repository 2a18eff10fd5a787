------------------------------- MODULE CjitAr -------------------------------
(***************************************************************************)
(* The archive tool, cjit -ar: one command after the other on one archive. *)
(* A command creates the archive from objects, lists its members, or       *)
(* extracts them; tcc_tool_ar is its whole program.                        *)
(*                                                                         *)
(* An archive is the sequence of its members; sizes and offsets are those  *)
(* of the file, so that what the symbol index says of them can be checked. *)
(***************************************************************************)
EXTENDS Integers, SequencesExt

CONSTANTS
  Objects,   \* what there is under each name a command may give: see below
  Archives,  \* what may be there as the archive before the first command
  Commands,  \* [op, ok, objs]: ok is whether the arguments are accepted
  Stored,    \* the name of a member: the first 15 characters of an object's
  SymSize,   \* the bytes of a symbol in the index, with its end
  MaxCommands  \* bound

Magic == 8       \* ARMAG
HeaderSize == 60
Word == 4        \* sizeof(int)

\* An object: "obj", "class" (of another ELF class) or "none"; its size and
\* the global symbols it defines; symtab is FALSE when it has been stripped.
\* A member: its name, its size, whose bytes it holds; the index has symbols.
\* An archive: whether it begins as one, its members, and where it breaks off:
\* "no", or in the last member's "header", "data" or "padding".
None == [kind |-> "none"]
Archive(members, cut) == [kind |-> "ar", members |-> members, cut |-> cut]
Member(name, size, data) ==
  [name |-> name, good |-> "yes", size |-> size, data |-> data, symbols |-> <<>>]

Symbols == DOMAIN SymSize

\* No object is called like a part of one and no symbol like the lack of any;
\* an archive that breaks off does so in a member.
ASSUME ArAssumption ==
  /\ MaxCommands \in Nat
  /\ SymSize \in [Symbols -> Nat] /\ "unset" \notin Symbols /\ "part" \notin DOMAIN Objects
  /\ \A o \in DOMAIN Objects :
       /\ Objects[o].kind \in {"obj", "class", "none"}
       /\ Objects[o].kind = "obj" => /\ Objects[o].size \in Nat
                                     /\ Objects[o].syms \in Seq(Symbols)
  /\ \A c \in Commands : c.op \in {"create", "table", "extract"} /\ c.objs \in Seq(DOMAIN Objects)
  /\ \A a \in Archives :
       a.kind = "ar" => /\ a.members \in Seq(Range(a.members))
                        /\ \A m \in Range(a.members) : m.data # "part"
                        /\ a.cut # "no" => a.members # <<>>

VARIABLES
  count,    \* the commands that have been given
  cmd,      \* the command that runs or ran last
  phase,    \* "idle", "begin", "temporary", "objects", "members", "killed"
  archive,  \* the file: None, an archive, or "broken": no archive
  tmp,      \* whether the temporary file exists
  files,    \* the files extraction has made, by name
  torn,     \* history: the names of those that a kill came upon half-written
  k,        \* the next object or the next member
  symtab,   \* the symbols of the last symbol table, "unset" before
  index, body, fpos,  \* anames with afpos, the temporary file, fpos
  printed,  \* the names printed
  full,     \* history: a write of the archive was cut short, unnoticed
  ret

disk == <<archive, tmp, files, torn>>
building == <<symtab, index, body, fpos>>
vars == <<count, cmd, phase, archive, tmp, files, torn, k, symtab, index, body, fpos, printed, full, ret>>

Unset == <<"unset">>

Init ==
  /\ count = 0 /\ cmd = [op |-> "table", ok |-> FALSE, objs |-> <<>>]
  /\ phase = "idle" /\ archive \in Archives /\ tmp = FALSE /\ files = <<>> /\ torn = {}
  /\ k = 1 /\ symtab = Unset /\ index = <<>> /\ body = <<>> /\ fpos = 0
  /\ printed = <<>> /\ full = FALSE /\ ret = 0

Return(r) == phase' = "idle" /\ ret' = r

\* A command is given; arguments that are refused end it with the usage text.
Start ==
  /\ phase \in {"idle", "killed"} /\ count < MaxCommands
  /\ count' = count + 1
  /\ \E c \in Commands : cmd' = c
  /\ k' = 1 /\ symtab' = Unset /\ index' = <<>> /\ body' = <<>> /\ fpos' = 0 /\ printed' = <<>>
  /\ IF cmd'.ok THEN phase' = "begin" /\ ret' = 2 ELSE Return(1)
  /\ UNCHANGED <<disk, full>>

-----------------------------------------------------------------------------
(* Creation *)

\* Mutation of Cleanup: the archive stays.
CleanupKeeps(r, a) == archive' = a /\ tmp' = (tmp /\ phase # "objects") /\ Return(r)

\* The end of a creation that has opened the archive, which goes if something
\* went wrong.  The temporary file goes if the command has opened it: one that
\* an earlier command has left stays when it could not be.
Cleanup(r, a) ==
  /\ archive' = IF r # 0 THEN None ELSE a
  /\ tmp' = (tmp /\ phase # "objects")
  /\ Return(r)

\* fopen "wb": what was there is gone from here on.
OpenArchive ==
  /\ phase = "begin" /\ cmd.op = "create"
  /\ \/ /\ archive' = [kind |-> "broken"] /\ phase' = "temporary" /\ full' = FALSE
        /\ UNCHANGED ret
     \/ Return(2) /\ UNCHANGED <<archive, full>>
  /\ UNCHANGED <<count, cmd, tmp, files, torn, k, building, printed>>

OpenTemporary ==
  /\ phase = "temporary"
  /\ \/ tmp' = TRUE /\ phase' = "objects" /\ UNCHANGED <<archive, ret>>
     \/ Cleanup(2, archive)
  /\ UNCHANGED <<count, cmd, files, torn, k, building, printed, full>>

\* An odd size is made even.
Padded(size) == size + (size % 2)

\* Mutation of Following: the padding is not counted.
NextUnpadded(pos, size) == pos + HeaderSize + size

\* The position of the member after one of this size at pos.
Following(pos, size) == pos + HeaderSize + Padded(size)

\* The symbol table that is read for object o.  It is not reset: an object
\* without one has that of the object before, whose memory has been freed, and
\* reads what is there now; it may also crash there, which is Kill.
SymtabOf(o) ==
  IF Objects[o].symtab THEN {Objects[o].syms}
  ELSE IF symtab = Unset THEN {Unset}
  ELSE {symtab, <<>>}

AddObject ==
  /\ phase = "objects" /\ k <= Len(cmd.objs)
  /\ LET o == cmd.objs[k] IN
     \/ /\ Objects[o].kind # "obj"
        /\ Cleanup(2, archive) /\ UNCHANGED <<k, building>>
     \/ /\ Objects[o].kind = "obj"
        /\ \E syms \in SymtabOf(o) :
             /\ symtab' = syms
             /\ index' = IF syms = Unset THEN index
                         ELSE index \o [j \in DOMAIN syms |-> [sym |-> syms[j], at |-> fpos]]
        /\ body' = Append(body, Member(Stored[o], Objects[o].size, o))
        /\ fpos' = Following(fpos, Objects[o].size)
        /\ k' = k + 1
        /\ UNCHANGED <<archive, tmp, phase, ret>>
  /\ UNCHANGED <<count, cmd, files, torn, printed, full>>

Names ==
  LET sum[j \in 0 .. Len(index)] == IF j = 0 THEN 0 ELSE sum[j - 1] + SymSize[index[j].sym]
  IN  sum[Len(index)]
IndexSize == Names + (Len(index) + 1) * Word

\* Mutation of Hofs: the index is not padded to an even size.
HofsOdd == Magic + HeaderSize + IndexSize

\* Where the first object begins.
Hofs == Magic + HeaderSize + Padded(IndexSize)

IndexMember ==
  [Member("/", Padded(IndexSize), "index") EXCEPT !.symbols =
     [j \in DOMAIN index |-> [index[j] EXCEPT !.at = @ + Hofs]]]

\* Mutation of Contents: the objects are written in front of the index.
ContentsFirst == IF index = <<>> THEN <<>> ELSE body \o <<IndexMember>>

\* Without a symbol there is no member at all.
Contents == IF index = <<>> THEN <<>> ELSE <<IndexMember>> \o body

\* What there is of the archive when its writing ends before it is complete.
CutShort ==
  {[kind |-> "broken"]}
  \cup {Archive(SubSeq(Contents, 1, n), cut) :
          n \in DOMAIN Contents, cut \in {"no", "header", "data", "padding"}}

\* The results of fwrite are not looked at: on a full disk the archive breaks
\* off, and the command is successful all the same.
WriteArchive ==
  /\ phase = "objects" /\ k > Len(cmd.objs)
  /\ \/ Cleanup(0, Archive(Contents, "no")) /\ UNCHANGED full
     \/ \E a \in CutShort : Cleanup(0, a) /\ full' = TRUE
  /\ UNCHANGED <<count, cmd, files, torn, k, building, printed>>

-----------------------------------------------------------------------------
(* Listing and extraction *)

ReadArchive ==
  /\ phase = "begin" /\ cmd.op # "create"
  /\ IF archive.kind = "ar" THEN phase' = "members" /\ UNCHANGED ret ELSE Return(2)
  /\ UNCHANGED <<count, cmd, disk, k, building, printed, full>>

Current == archive.members[k]

\* The archive breaks off inside this member.
CutHere == k = Len(archive.members) /\ archive.cut # "no"

\* The header is whole and valid and the data and the padding are there.
Readable == Current.good # "no" /\ ~CutHere

\* What fread leaves in the buffer.
Data == IF CutHere THEN "part" ELSE Current.data

IsIndex(m) == m.name \in {"/", "/SYM64/"}

Put(name, data) ==
  files' = [n \in DOMAIN files \cup {name} |-> IF n = name THEN data ELSE files[n]]

\* Mutation of WriteFile: a file that could not be written stays.
WriteFileKeeps(m) ==
  \/ Put(m.name, Data) /\ k' = k + 1 /\ UNCHANGED <<phase, ret>>
  \/ UNCHANGED files /\ Return(2) /\ UNCHANGED k
  \/ Put(m.name, "part") /\ Return(2) /\ UNCHANGED k

\* The file cannot be made, or is made and written, or is removed again.
WriteFile(m) ==
  \/ Put(m.name, Data) /\ k' = k + 1 /\ UNCHANGED <<phase, ret>>
  \/ UNCHANGED files /\ Return(2) /\ UNCHANGED k
  \/ /\ files' = [n \in DOMAIN files \ {m.name} |-> files[n]]
     /\ Return(2) /\ UNCHANGED k

ReadMember ==
  /\ phase = "members" /\ k <= Len(archive.members)
  /\ \/ /\ ~Readable \/ (Current.good = "unsafe" /\ ~IsIndex(Current))
        /\ Return(2) /\ UNCHANGED <<files, k, printed>>
     \/ /\ Readable /\ IsIndex(Current)
        /\ k' = k + 1 /\ UNCHANGED <<files, phase, ret, printed>>
     \/ /\ Readable /\ Current.good = "yes" /\ ~IsIndex(Current)
        /\ printed' = IF cmd.op = "table" THEN Append(printed, Current.name) ELSE printed
        /\ IF cmd.op = "extract" THEN WriteFile(Current)
           ELSE k' = k + 1 /\ UNCHANGED <<files, phase, ret>>
  /\ UNCHANGED <<count, cmd, archive, tmp, torn, building, full>>

AllRead ==
  /\ phase = "members" /\ k > Len(archive.members)
  /\ Return(0)
  /\ UNCHANGED <<count, cmd, disk, k, building, printed, full>>

-----------------------------------------------------------------------------
\* A creation that is about to fail, with its files half removed.
HalfRemoved ==
  /\ \/ phase = "temporary"
     \/ phase = "objects" /\ k <= Len(cmd.objs) /\ Objects[cmd.objs[k]].kind # "obj"
  /\ archive' = None

\* A creation that writes the archive, or has just written it.
HalfCreated ==
  /\ phase = "objects" /\ k > Len(cmd.objs)
  /\ archive' \in CutShort \cup {Archive(Contents, "no")}

\* An extraction between the fopen and the fclose of a member's file.
HalfExtracted ==
  /\ phase = "members" /\ cmd.op = "extract" /\ k <= Len(archive.members)
  /\ Readable /\ Current.good = "yes" /\ ~IsIndex(Current)
  /\ Put(Current.name, "part") /\ torn' = torn \cup {Current.name}

\* The process is killed.  Files stay as they are, also one that is half-way.
Kill ==
  /\ phase \in {"begin", "temporary", "objects", "members"}
  /\ phase' = "killed"
  /\ \/ UNCHANGED <<archive, files, torn>>
     \/ (HalfRemoved \/ HalfCreated) /\ UNCHANGED <<files, torn>>
     \/ HalfExtracted /\ UNCHANGED archive
  /\ UNCHANGED <<count, cmd, tmp, k, building, printed, full, ret>>

-----------------------------------------------------------------------------
Next == \/ Start \/ OpenArchive \/ OpenTemporary \/ AddObject \/ WriteArchive \/ Kill
        \/ ReadArchive \/ ReadMember \/ AllRead

Spec == Init /\ [][Next]_vars

-----------------------------------------------------------------------------
(* Archives as one reads them *)

\* The bytes of a member, and of the first n members one after the other.
Bytes(m) == HeaderSize + m.size + (m.size % 2)
SpanTo(members, n) ==
  LET sum[j \in 0 .. Len(members)] == IF j = 0 THEN 0 ELSE sum[j - 1] + Bytes(members[j])
  IN  sum[n]

Span(members) == SpanTo(members, Len(members))
Position(n) == Magic + SpanTo(archive.members, n - 1)

MembersOf(objs) == [j \in DOMAIN objs |-> Member(Stored[objs[j]], Objects[objs[j]].size, objs[j])]

\* The symbols of the first n objects.
SymbolsTo(objs, n) ==
  LET syms[j \in 0 .. Len(objs)] == IF j = 0 THEN <<>> ELSE syms[j - 1] \o Objects[objs[j]].syms
  IN  syms[n]

SymbolsOf(objs) == SymbolsTo(objs, Len(objs))

\* The names of the first n members, without the index.
NamesTo(members, n) ==
  LET names[j \in 0 .. Len(members)] ==
        IF j = 0 THEN <<>>
        ELSE IF IsIndex(members[j]) THEN names[j - 1]
        ELSE Append(names[j - 1], members[j].name)
  IN  names[n]

\* Every object of the command has a symbol table.
AllTabled == \A j \in DOMAIN cmd.objs : Objects[cmd.objs[j]].symtab

\* A creation has just been successful, and nothing was lost on a full disk.
Created == phase = "idle" /\ cmd.op = "create" /\ cmd.ok /\ ret = 0 /\ ~full

-----------------------------------------------------------------------------
(* Properties *)

\* Every variable has its type, and fpos is always the length of what has been
\* written to the temporary file, with every entry of the index inside it.
TypeOK ==
  /\ phase \in {"idle", "begin", "temporary", "objects", "members", "killed"}
  /\ ret \in 0 .. 2 /\ tmp \in BOOLEAN /\ count \in 0 .. MaxCommands
  /\ k \in 1 .. Len(cmd.objs) + 1 \/ phase \in {"members", "idle", "killed"}
  /\ fpos = Span(body) /\ \A j \in DOMAIN index : index[j].at < fpos

\* A creation that is successful and has a symbol to index leaves an archive
\* of the index and the objects, all of them and in order, whatever an earlier
\* command that failed or was killed had left behind.
ArchiveWhole ==
  Created /\ AllTabled /\ SymbolsOf(cmd.objs) # <<>> =>
    /\ archive.kind = "ar" /\ archive.cut = "no"
    /\ IsIndex(Head(archive.members)) /\ Tail(archive.members) = MembersOf(cmd.objs)

\* The index names every global symbol of every object in order, each at the
\* position of the member that defines it: the linker reads that member.
IndexPointsToMember ==
  Created /\ AllTabled /\ archive.members # <<>> =>
    LET symbols == Head(archive.members).symbols IN
    /\ [j \in DOMAIN symbols |-> symbols[j].sym] = SymbolsOf(cmd.objs)
    /\ \A j \in DOMAIN symbols : \E n \in 2 .. Len(archive.members) :
         /\ symbols[j].at = Position(n)
         /\ symbols[j].sym \in Range(Objects[archive.members[n].data].syms)

\* A creation that fails on the way removes what it has begun, so that no
\* later command takes a part of an archive for one; and however it ends, it
\* leaves no temporary file that it has opened.
CleanEndStep ==
  phase \in {"temporary", "objects"} /\ phase' = "idle" =>
    /\ phase = "objects" => ~tmp'
    /\ ret' # 0 => archive' = None
CleanEnd == [][CleanEndStep]_vars

ExtractsWhole ==
  /\ \A n \in DOMAIN files : files[n] = "part" => n \in torn
  /\ phase = "idle" /\ cmd.op = "extract" /\ cmd.ok /\ archive.kind = "ar" =>
       /\ ret = 0 => k > Len(archive.members)
       /\ \A j \in 1 .. k - 1 :
            LET m == archive.members[j] IN
            \/ IsIndex(m)
            \/ \E n \in j + 1 .. k : n <= Len(archive.members) /\ archive.members[n].name = m.name
            \/ m.name \in DOMAIN files /\ files[m.name] = m.data

ListsInOrder ==
  phase = "idle" /\ cmd.op = "table" /\ cmd.ok /\ archive.kind = "ar" =>
    /\ printed = NamesTo(archive.members, k - 1)
    /\ ret = 0 => k > Len(archive.members) /\ archive.cut = "no"

\* An archive is read to the first member that is broken, truncated or cannot
\* be written, and success means that there is none.  Extraction makes every
\* member up to there, each whole and the last of a name winning, also over what
\* a killed extraction has left; a file that is cut is one that a kill came upon.
\* A listing names the members in order.
ReadToTheBreak == ExtractsWhole /\ ListsInOrder
=============================================================================
