------------------------------ MODULE FileLoad ------------------------------
(***************************************************************************)
(* The two ways cjit reads a file into memory while an editor, or a build, *)
(* saves it: file_load, for archives, and the reading of a source in       *)
(* cjit_add_source_result.  Both take the size of the file through one     *)
(* descriptor and read it through another, opened later by name.           *)
(*                                                                         *)
(* A byte is its version of the file and its place there, so that texts    *)
(* made of several versions can be told.                                   *)
(***************************************************************************)
EXTENDS Integers, Sequences

CONSTANTS
  Length,     \* the length of each version of the file, by its number
  WithBom,    \* the versions that begin with a byte order mark
  UintMax,    \* UINT_MAX: file_load gives the length as an unsigned int
  MaxEdits    \* bound

ASSUME FileAssumption ==
  /\ Length \in Seq(Nat)
  /\ \A v \in WithBom : v \in DOMAIN Length /\ Length[v] >= 3
  /\ UintMax \in Nat /\ MaxEdits \in Nat

Versions == DOMAIN Length
Text(v) == [i \in 1 .. Length[v] |-> <<v, i>>]
Junk == <<"junk">>   \* memory from malloc that nothing was read into
None == 0            \* no such file

\* What the reader gives its caller.
Refused(why) == [status |-> why, text |-> <<>>]
Given(text) == [status |-> "ok", text |-> text]

VARIABLES
  \* The file system and who saves the file
  name,     \* the inode under the name, or None
  inodes,   \* the bytes of each inode
  saving,   \* the version that is being written and its inode, or None twice
  edits,    \* how often the file has been saved or removed
  inPlace,  \* history: it has been written over, not only replaced
  moved,    \* history: it has changed since the reader began
  \* The reader
  kind,     \* "source" or "load"
  pc,
  fd, size, \* its descriptor and the size it has asked for
  buf,      \* what fread has read so far
  result    \* the text, or the error

fileVars == <<name, inodes, saving, edits, inPlace, moved>>
readVars == <<kind, pc, fd, size, buf, result>>
vars == <<fileVars, readVars>>

Init ==
  /\ inodes \in {<<Text(v)>> : v \in Versions} /\ name \in {None, 1}
  /\ saving = [version |-> None, inode |-> None] /\ edits = 0
  /\ inPlace = FALSE /\ moved = FALSE
  /\ kind \in {"source", "load"} /\ pc = "size"
  /\ fd = None /\ size = 0 /\ buf = <<>> /\ result = Refused("none")

-----------------------------------------------------------------------------
(* The editor *)

Idle == saving.version = None

Edit ==
  /\ edits' = edits + 1 /\ edits < MaxEdits
  /\ moved' = (pc # "size")
  /\ UNCHANGED readVars

\* The file is replaced by a new one.
Replace(v) ==
  /\ Idle /\ Edit
  /\ inodes' = Append(inodes, Text(v)) /\ name' = Len(inodes')
  /\ UNCHANGED <<saving, inPlace>>

Unlink ==
  /\ Idle /\ name # None /\ Edit
  /\ name' = None
  /\ UNCHANGED <<inodes, saving, inPlace>>

\* The file is emptied, to be written over.
Truncate(v) ==
  /\ Idle /\ name # None /\ Edit
  /\ inodes' = [inodes EXCEPT ![name] = <<>>]
  /\ saving' = [version |-> v, inode |-> name] /\ inPlace' = TRUE
  /\ UNCHANGED name

\* The next byte of the version is written, or it is complete.
Write ==
  /\ ~Idle
  /\ LET written == Len(inodes[saving.inode]) IN
     IF written < Length[saving.version]
     THEN /\ inodes' = [inodes EXCEPT ![saving.inode] =
                          Append(@, Text(saving.version)[written + 1])]
          /\ UNCHANGED saving
     ELSE saving' = [version |-> None, inode |-> None] /\ UNCHANGED inodes
  /\ moved' = (pc # "size")
  /\ UNCHANGED <<name, edits, inPlace, readVars>>

-----------------------------------------------------------------------------
(* The reader *)

Done(r) == pc' = "done" /\ result' = r

\* The sizes that each of them goes on with.
Accepted(length) == kind = "load" => length >= 1 /\ length <= UintMax

\* The file is opened and its size taken.
TakeSize ==
  /\ pc = "size"
  /\ moved' = ~Idle
  /\ IF name = None
     THEN Done(Refused("error")) /\ UNCHANGED <<fd, size>>
     ELSE /\ size' = Len(inodes[name])
          /\ IF Accepted(size')
             THEN /\ pc' = IF kind = "load" THEN "open" ELSE "bom"
                  /\ fd' = name /\ UNCHANGED result
             ELSE Done(Refused("error")) /\ UNCHANGED fd
  /\ UNCHANGED <<name, inodes, saving, edits, inPlace, kind, buf>>

\* detect_bom reads three bytes: a file that is shorter is no source.
IsBom(bytes) == \E v \in WithBom : bytes = SubSeq(Text(v), 1, 3)

DetectBom ==
  /\ pc = "bom"
  /\ IF Len(inodes[fd]) < 3 THEN Done(Refused("error"))
     ELSE IF IsBom(SubSeq(inodes[fd], 1, 3)) THEN Done(Refused("encoding"))
     ELSE pc' = "open" /\ UNCHANGED result
  /\ UNCHANGED <<fileVars, kind, fd, size, buf>>

Open ==
  /\ pc = "open"
  /\ IF name = None THEN Done(Refused("error")) /\ UNCHANGED fd
     ELSE pc' = "read" /\ fd' = name /\ UNCHANGED result
  /\ UNCHANGED <<fileVars, kind, size, buf>>

\* Mutation of Input: each part is read from what the name stands for by then.
InputByName == IF name = None THEN <<>> ELSE inodes[name]

Input == inodes[fd]

\* Mutation of AcceptShort: file_load takes what there is, as the sources do.
AcceptShortAlways == TRUE

\* A source that is shorter than its size was is compiled all the same, unless
\* nothing at all was read.
AcceptShort == kind = "source" /\ buf # <<>>

\* Mutation of Asked: room for the terminator is asked for as well.
AskedOneMore == size + 1

\* The bytes that fread is to read.
Asked == size

\* Mutation of Ended: fread is called again until it has read all of it.
EndedFull == Len(buf) = Asked

\* fread returns: it has what it was asked for, or there is no more.
Ended == Len(buf) = Asked \/ Len(buf) >= Len(Input)

\* What is left of a length in an unsigned int.
Narrowed(length) == length % (UintMax + 1)

\* file_load tells its caller how long the text is.
Received(text) == IF kind = "load" THEN SubSeq(text, 1, Narrowed(size)) ELSE text

Padding == [i \in 1 .. size - Len(buf) |-> Junk]

\* fread takes a part at a time, of any length, and the text is made of it.
Read ==
  /\ pc = "read"
  /\ \/ /\ ~Ended
        /\ \E n \in Len(buf) + 1 .. Asked :
             n <= Len(Input) /\ buf' = buf \o SubSeq(Input, Len(buf) + 1, n)
        /\ UNCHANGED <<pc, result>>
     \/ /\ Ended
        /\ IF (Len(buf) = Asked /\ size > 0) \/ AcceptShort
           THEN Done(Given(Received(buf \o Padding))) ELSE Done(Refused("error"))
        /\ UNCHANGED buf
  /\ UNCHANGED <<fileVars, kind, fd, size>>

-----------------------------------------------------------------------------
Reader == TakeSize \/ DetectBom \/ Open \/ Read
Editor == Unlink \/ Write \/ \E v \in Versions : Replace(v) \/ Truncate(v)
Next == Reader \/ Editor

\* The reader is a running process; the editor need not go on.
Spec == Init /\ [][Next]_vars /\ WF_vars(Reader)

-----------------------------------------------------------------------------
(* Properties *)

Loaded == pc = "done" /\ result.status = "ok"

\* Every variable has its type.
TypeOK ==
  /\ name \in 0 .. Len(inodes) /\ fd \in 0 .. Len(inodes)
  /\ saving.inode \in 0 .. Len(inodes) /\ edits \in 0 .. MaxEdits
  /\ pc \in {"size", "bom", "open", "read", "done"}

\* fread never writes past the size that the memory was made for; and an
\* archive that file_load returns has all of the bytes its size promised, each
\* of them read from the file, however it was changed in between.
InsideMemory ==
  /\ TypeOK
  /\ Len(buf) <= size
  /\ kind = "load" /\ Loaded => 
       Len(result.text) = size /\ \A i \in 1 .. size : result.text[i] # Junk

\* A file that does not change while it is read is read whole; and it is
\* refused when it is missing, when it is empty or too long for file_load, and
\* for a source when it is shorter than three bytes or of an encoding that is
\* not supported.
UndisturbedIsWhole ==
  pc = "done" /\ ~moved =>
    IF name = None THEN result = Refused("error")
    ELSE LET file == inodes[name] IN
         IF kind = "load" /\ Len(file) \notin 1 .. UintMax THEN result = Refused("error")
         ELSE IF kind = "source" /\ Len(file) < 3 THEN result = Refused("error")
         ELSE IF kind = "source" /\ IsBom(SubSeq(file, 1, 3)) THEN result = Refused("encoding")
         ELSE result = Given(file)

\* As long as the file is only replaced, and never written over, what is read
\* is of one version, from its beginning: cut, or followed by memory that
\* nothing was read into when a source has become shorter, but never mixed.
NeverMixed ==
  Loaded /\ ~inPlace =>
    \E v \in Versions : \A i \in DOMAIN result.text : result.text[i] \in {<<v, i>>, Junk}

\* The reading comes to an end, whatever the editor does or leaves undone.
ReadingEnds == <>(pc = "done")
=============================================================================
