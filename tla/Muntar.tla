------------------------------- MODULE Muntar -------------------------------
(***************************************************************************)
(* The extraction of a tar.gz bundle: muntargz_to_path, which guesses how  *)
(* large the text will be, and muntar_to_path, which walks the archive     *)
(* twice, once for its directories and once for its files.                 *)
(*                                                                         *)
(* The archive is a tape of blocks; a block is a header or anything else.  *)
(* Offsets count bytes from 0, as in the code; Block stands for its 512.   *)
(* inflate is external: an input says what its text is and whether it is   *)
(* sound.                                                                  *)
(***************************************************************************)
EXTENDS Integers, Sequences, FiniteSets

CONSTANTS
  Inputs,   \* the bundles: see InputsAssumption
  Places,   \* what may be found at the destination: functions on Paths
  Paths,    \* the paths below the destination, <<>> being itself
  Block,    \* 512 in the code
  Cap,      \* MUNTARFS_MAX_DECOMPRESSED_SIZE
  MaxUInt   \* UINT_MAX

MinLen == 18
Ratio == 10
Attempts == 8
Deflate == 1032   \* the most that deflate shrinks a text by

\* What raw_to_header can say of a block that is not a header.
Broken == {"badchksum", "invalid", "null"}
None == -1

ASSUME SizesAssumption ==
  /\ Block \in Nat \ {0} /\ Cap \in Nat \ {0} /\ MaxUInt \in Nat
  /\ 2 * Cap <= MaxUInt /\ MinLen * Ratio <= Cap

\* len: bytes of the bundle, isize: the size in its trailer, size: bytes of
\* the text, tape: the blocks of the text, "null" beyond.
ASSUME InputsAssumption ==
  \A x \in Inputs :
    /\ x.len \in 0 .. MaxUInt /\ x.isize \in 0 .. MaxUInt /\ x.size \in Nat
    /\ x.sound \in BOOLEAN
    /\ \A k \in DOMAIN x.tape :
         \/ x.tape[k].type \in Broken
         \/ /\ x.tape[k].type \in {"reg", "dir", "other"}
            /\ x.tape[k].size \in Nat
            /\ x.tape[k].safe => x.tape[k].name \in Paths \ {<<>>}

\* The paths are sequences of names, with each the directories it lies in.
ASSUME PlacesAssumption ==
  /\ <<>> \in Paths /\ Paths \subseteq Seq(STRING)
  /\ \A p \in Paths : \A k \in 0 .. Len(p) : SubSeq(p, 1, k) \in Paths
  /\ Places \subseteq [Paths -> {"none", "dir", "file", "link", "never"}]

VARIABLES
  input,     \* the bundle
  found,     \* history: what was at the destination
  disk,      \* what is there now
  phase,     \* "gunzip", "load", "dirs", "files", "done"
  attempts, destlen,        \* of muntargz_to_path
  offset, header,           \* of mtar_iterator_t; the cursor is offset + 512
  written,   \* history: the files made, each with the bytes it was given
  result

gunzip == <<attempts, destlen>>
vars == <<input, found, disk, phase, attempts, destlen, offset, header, written, result>>

Smaller(a, b) == IF a < b THEN a ELSE b
max == input.size
cursor == offset + Block

NoHeader == [type |-> "null"]

Init ==
  /\ input \in Inputs /\ found \in Places /\ disk = found
  /\ phase = "gunzip" /\ attempts = 0 /\ destlen = 0
  /\ offset = None /\ header = NoHeader
  /\ written = <<>> /\ result = "none"

Return(r) == phase' = "done" /\ result' = r

-----------------------------------------------------------------------------
(* muntargz_to_path *)

\* What is refused before anything is allocated.
Refusal ==
  CASE input.len = 0 -> "failure"
    [] input.len \in 1 .. MinLen - 1 -> "data"
    [] input.len >= MinLen /\ (input.isize > Cap \/ input.len > MaxUInt \div Ratio) -> "buf"
    [] OTHER -> "none"

Refuse ==
  /\ phase = "gunzip" /\ Refusal # "none"
  /\ Return(Refusal)
  /\ UNCHANGED <<input, found, disk, gunzip, offset, header, written>>

FirstGuess ==
  /\ phase = "gunzip" /\ Refusal = "none" /\ destlen = 0
  /\ destlen' = Smaller(input.len * Ratio, Cap)
  /\ UNCHANGED <<input, found, disk, phase, attempts, offset, header, written, result>>

\* tinf_gzip_uncompress into d bytes: the trailer's size is looked at first.
Inflate(d) ==
  CASE input.isize > d -> "buf"
    [] input.isize <= d /\ input.sound /\ input.size = input.isize -> "ok"
    [] OTHER -> "data"

\* Mutation of Exhausted: one try too few.
ExhaustedEarly == attempts + 1 = Attempts - 1

\* The tries that are left after one more.
Exhausted == attempts + 1 = Attempts

\* The buffer of the next try.
Grown == Smaller(destlen * 2, Cap)

OutOfMemory ==
  /\ phase = "gunzip" /\ destlen > 0
  /\ Return("failure")
  /\ UNCHANGED <<input, found, disk, gunzip, offset, header, written>>

TryInflate ==
  /\ phase = "gunzip" /\ destlen > 0
  /\ \/ /\ Inflate(destlen) = "ok"
        /\ phase' = "load" /\ UNCHANGED <<gunzip, result>>
     \/ /\ Inflate(destlen) = "data"
        /\ Return("data") /\ UNCHANGED gunzip
     \/ /\ Inflate(destlen) = "buf"
        /\ IF destlen >= Cap \/ destlen > MaxUInt \div 2
           THEN Return("buf") /\ UNCHANGED gunzip
           ELSE /\ destlen' = Grown
                /\ attempts' = attempts + 1
                /\ IF Exhausted THEN Return("buf") ELSE UNCHANGED <<phase, result>>
  /\ UNCHANGED <<input, found, disk, offset, header, written>>

-----------------------------------------------------------------------------
(* The tar reader *)

BlockAt(o) ==
  LET k == (o \div Block) + 1 IN
  IF k \in DOMAIN input.tape THEN input.tape[k] ELSE NoHeader

\* mtar_seek and mtar_read_header at offset o: "ok", or why not.
HeaderAt(o) ==
  CASE o > max -> "seekfail"
    [] o <= max /\ Block > max - o -> "failure"
    [] o <= max /\ Block <= max - o ->
         IF BlockAt(o).type \in Broken THEN BlockAt(o).type ELSE "ok"

\* The offset of the header after an entry of this size at offset o.
Following(o, size) == ((o + Block + size + Block - 1) \div Block) * Block

\* Mutation of NextEntry: an entry that is too large is taken for the last.
NextEntryLenient ==
  LET o == Following(offset, header.size) IN
  CASE header.size > max - cursor -> [res |-> "null", offset |-> None]
    [] header.size <= max - cursor ->
         [res |-> HeaderAt(o), offset |-> IF HeaderAt(o) = "ok" THEN o ELSE None]

\* mtar_next: its result and the offset it leaves.  An entry that is too
\* large for the buffer leaves the offset where it was.
NextEntry ==
  LET o == Following(offset, header.size) IN
  CASE header.size > max - cursor -> [res |-> "readfail", offset |-> offset]
    [] header.size <= max - cursor ->
         [res |-> HeaderAt(o), offset |-> IF HeaderAt(o) = "ok" THEN o ELSE None]

\* Mutation of Fatal: an entry that is too large is left to the end of the loop.
FatalButSize(res) == res \notin {"ok", "null", "readfail"}
\* Mutation of Fatal: a checksum that is wrong only ends the archive.
FatalButChecksum(res) == res \notin {"ok", "null", "badchksum"}

\* The results of mtar_next that end the extraction.
Fatal(res) == res \notin {"ok", "null"}

\* The end of an iteration of either loop.
Advance ==
  /\ offset' = NextEntry.offset
  /\ header' = IF NextEntry.res = "ok" THEN BlockAt(NextEntry.offset) ELSE header
  /\ IF Fatal(NextEntry.res) THEN Return(NextEntry.res) ELSE UNCHANGED <<phase, result>>

Stop(r) == Return(r) /\ UNCHANGED <<offset, header>>

-----------------------------------------------------------------------------
(* The disk *)

Parent(p) == SubSeq(p, 1, Len(p) - 1)
Ancestors(p) == {SubSeq(p, 1, k) : k \in 0 .. Len(p) - 1}

\* mkdir succeeds; the directory around the destination is there unless the
\* destination is "never".
CanMake(p) == disk[p] = "none" /\ (p = <<>> \/ disk[Parent(p)] = "dir")

\* Mutation of DirectoryRefused: the result of mkdir is reported.
DirectoryThere(p) == ~CanMake(p)

\* make_directory: a mkdir that fails is a success, one that succeeds is
\* looked at again.
MakeDirectory(p) == disk' = IF CanMake(p) THEN [disk EXCEPT ![p] = "dir"] ELSE disk
DirectoryRefused(p) == FALSE

\* path_contains_link
ThroughLink(ps) == \E q \in ps : disk[q] = "link"

-----------------------------------------------------------------------------
(* muntar_to_path *)

Load ==
  /\ phase = "load"
  /\ IF max = 0
     THEN Stop("failure") /\ UNCHANGED disk
     ELSE IF HeaderAt(0) # "ok"
     THEN Stop("openfail") /\ UNCHANGED disk
     ELSE IF DirectoryRefused(<<>>)
     THEN Stop("writefail") /\ UNCHANGED disk
     ELSE /\ MakeDirectory(<<>>)
          /\ offset' = 0 /\ header' = BlockAt(0)
          /\ phase' = "dirs" /\ UNCHANGED result
  /\ UNCHANGED <<input, found, gunzip, written>>

\* One iteration of the first loop.
DirEntry ==
  /\ phase = "dirs" /\ offset # None
  /\ \/ /\ header.type # "dir"
        /\ Advance /\ UNCHANGED disk
     \/ /\ header.type = "dir" /\ ~header.safe
        /\ Stop("invalid") /\ UNCHANGED disk
     \/ /\ header.type = "dir" /\ header.safe
        /\ IF \/ ThroughLink(Ancestors(header.name) \cup {header.name})
              \/ DirectoryRefused(header.name)
           THEN Stop("writefail") /\ UNCHANGED disk
           ELSE MakeDirectory(header.name) /\ Advance
  /\ UNCHANGED <<input, found, gunzip, written>>

\* mtar_rewind: the header that could be read the first time can be again.
Rewind ==
  /\ phase = "dirs" /\ offset = None
  /\ phase' = "files" /\ offset' = 0 /\ header' = BlockAt(0)
  /\ UNCHANGED <<input, found, disk, gunzip, written, result>>

\* Mutation of CanCreate: a file that is there is replaced.
CanReplace(p) == disk[p] \in {"none", "file"} /\ disk[Parent(p)] = "dir"

\* The file can be made: nothing is there yet, and the directory is.
CanCreate(p) == disk[p] = "none" /\ disk[Parent(p)] = "dir"

\* One iteration of the second loop; fwrite and fclose may fail.
FileEntry ==
  /\ phase = "files" /\ offset # None
  /\ \/ /\ header.type # "reg"
        /\ Advance /\ UNCHANGED <<disk, written>>
     \/ /\ header.type = "reg" /\ ~header.safe
        /\ Stop("invalid") /\ UNCHANGED <<disk, written>>
     \/ /\ header.type = "reg" /\ header.safe
        /\ ThroughLink(Ancestors(header.name)) \/ ~CanCreate(header.name)
        /\ Stop("writefail") /\ UNCHANGED <<disk, written>>
     \/ /\ header.type = "reg" /\ header.safe
        /\ ~ThroughLink(Ancestors(header.name)) /\ CanCreate(header.name)
        /\ disk' = [disk EXCEPT ![header.name] = "file"]
        /\ \E wrote \in BOOLEAN :
             /\ written' = Append(written, [path |-> header.name, from |-> cursor,
                                            size |-> header.size, whole |-> wrote])
             /\ IF wrote THEN Advance ELSE Stop("writefail")
  /\ UNCHANGED <<input, found, gunzip>>

Finish ==
  /\ phase = "files" /\ offset = None
  /\ Return("success")
  /\ UNCHANGED <<input, found, disk, gunzip, offset, header, written>>

-----------------------------------------------------------------------------
Step == Refuse \/ FirstGuess \/ OutOfMemory \/ TryInflate \/ Load \/ DirEntry
        \/ Rewind \/ FileEntry \/ Finish

Next == Step \/ (phase = "done" /\ UNCHANGED vars)

\* The extraction runs alone and is never stopped.
Spec == Init /\ [][Next]_vars /\ WF_vars(Step)

-----------------------------------------------------------------------------
(* The archive as one reads it *)

\* The offsets of the headers from o on.
Entries[o \in 0 .. max] ==
  IF HeaderAt(o) # "ok" THEN <<>>
  ELSE LET next == Following(o, BlockAt(o).size) IN
       <<o>> \o (IF next <= max THEN Entries[next] ELSE <<>>)

Walk == IF max = 0 THEN <<>> ELSE Entries[0]
Entry(k) == BlockAt(Walk[k])
Regular(k) == Entry(k).type = "reg"

\* Every entry has its bytes, and the last is followed by an end record.
Intact ==
  /\ Walk # <<>>
  /\ LET k == Len(Walk) IN
     /\ Entry(k).size <= max - Walk[k] - Block
     /\ HeaderAt(Following(Walk[k], Entry(k).size)) = "null"

\* As tar writes a tree: safe names, each once, a directory before what is
\* in it among the directories; the files may come in any order.
TarOrdered ==
  /\ \A k \in DOMAIN Walk : Entry(k).type \in {"reg", "dir"} /\ Entry(k).safe
  /\ \A j, k \in DOMAIN Walk : j # k => Entry(j).name # Entry(k).name
  /\ \A k \in DOMAIN Walk :
       Len(Entry(k).name) = 1 \/ \E j \in DOMAIN Walk :
         /\ Entry(j).type = "dir" /\ Entry(j).name = Parent(Entry(k).name)
         /\ Regular(k) \/ j < k

Fresh == found[<<>>] \in {"none", "dir"} /\ \A p \in Paths \ {<<>>} : found[p] = "none"

-----------------------------------------------------------------------------
(* Properties *)

\* Every variable has its type; while an entry is at hand its header is the
\* block at the offset and lies inside the text.
TypeOK ==
  /\ phase \in {"gunzip", "load", "dirs", "files", "done"}
  /\ attempts \in 0 .. Attempts
  /\ disk \in [Paths -> {"none", "dir", "file", "link", "never"}]
  /\ phase \in {"dirs", "files"} /\ offset # None =>
       /\ offset \in 0 .. max - Block /\ header = BlockAt(offset)
       /\ header.type \notin Broken

\* A sound bundle whose text is within the budget is not refused for its size:
\* the first guess and the tries cover every ratio that deflate reaches.
NoFalseRefusal ==
  /\ input.sound /\ input.size = input.isize /\ input.size <= Cap
  /\ input.size <= Deflate * input.len /\ input.len <= MaxUInt \div Ratio
  => result # "buf"

\* The extraction stays inside its memory: the buffer is never larger than the
\* budget and its size does not wrap around, and fwrite is given bytes of the
\* text only, although it runs before the check of mtar_next on the same
\* header: the first walk has made it.
InsideText ==
  /\ TypeOK
  /\ destlen \in 0 .. Cap
  /\ \A k \in DOMAIN written : written[k].from + written[k].size <= max

\* No file is made from an archive with a broken header, a missing end or an
\* entry that is too large anywhere in it.
NothingFromBroken == written # <<>> => Intact

\* The regular entries up to the k-th: that many files have been made by then.
FilesTo(k) == {j \in 1 .. k : Regular(j)}

SuccessIsAll ==
  result = "success" =>
    /\ Len(written) = Cardinality(FilesTo(Len(Walk)))
    /\ \A k \in DOMAIN Walk : Regular(k) =>
         written[Cardinality(FilesTo(k))] =
           [path |-> Entry(k).name, from |-> Walk[k] + Block, size |-> Entry(k).size, whole |-> TRUE]

TreeSucceeds ==
  /\ phase = "done" /\ Fresh /\ Intact /\ TarOrdered
  /\ result \notin {"failure", "buf", "data"}
  /\ \A k \in DOMAIN written : written[k].whole
  => result = "success"

\* What was at the destination stays as it was, and no file is written twice.
ExistingKept ==
  /\ \A p \in Paths : found[p] # "none" => disk[p] = found[p]
  /\ \A k \in DOMAIN written :
       /\ found[written[k].path] = "none"
       /\ \A j \in DOMAIN written : j # k => written[j].path # written[k].path

\* A success means that every regular file of the archive has been made, once
\* each and in order, from its own bytes; and the archive of a tree meets it in
\* a fresh destination, wherever its files stand before or after their
\* directories, unless a write fails.
TreeExtracts == SuccessIsAll /\ TreeSucceeds

\* Every bundle is done with.
ExtractionEnds == <>(phase = "done")
=============================================================================
