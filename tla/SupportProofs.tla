---------------------------- MODULE SupportProofs ---------------------------
(***************************************************************************)
(* What the rest of the program stands on: the loading of files and the    *)
(* lists of strings.                                                       *)
(***************************************************************************)
EXTENDS FileLoad, XArray, SequenceTheorems, TLAPS

(***************************************************************************)
(* FileLoad.  For a file of any versions and any number of edits: what is  *)
(* read stays inside its memory, a file that is left alone is read whole,  *)
(* and one that is only ever replaced is never mixed.                      *)
(***************************************************************************)

Bytes == Versions \X Nat

\* What the editor keeps to: as long as nothing has been written over, every
\* inode holds one version of the file.
FileInv ==
  /\ inodes \in Seq(Seq(Bytes))
  /\ name \in 0 .. Len(inodes)
  /\ saving \in [version : Versions \cup {None}, inode : 0 .. Len(inodes)]
  /\ saving.version # None => saving.inode # None
  /\ edits \in 0 .. MaxEdits /\ moved \in BOOLEAN /\ inPlace \in BOOLEAN
  /\ ~inPlace => Idle /\ \A k \in 1 .. Len(inodes) : \E v \in Versions : inodes[k] = Text(v)

\* Where the reader is, and what it has in memory there.
ReaderInv ==
  /\ kind \in {"source", "load"}
  /\ pc \in {"size", "bom", "open", "read", "done"}
  /\ fd \in 0 .. Len(inodes) /\ (pc \in {"bom", "open", "read"} => fd # None)
  /\ size \in Nat /\ buf \in Seq(Bytes) /\ Len(buf) <= size
  /\ pc \in {"size", "bom", "open"} => buf = <<>>
  /\ kind = "load" => pc # "bom" /\ (pc \in {"open", "read"} => size \in 1 .. UintMax)
  /\ kind = "load" /\ Loaded => Len(result.text) = size /\ result.text \in Seq(Bytes)

\* The first Len(buf) bytes of what the descriptor stands for.
Prefix == Len(buf) <= Len(inodes[fd]) /\ \A i \in 1 .. Len(buf) : buf[i] = inodes[fd][i]

\* Nothing has changed since the size was taken: the descriptor is that of the
\* name, and the size and the mark are still those of the file.
Undisturbed ==
  ~moved /\ pc \in {"bom", "open", "read"} =>
    /\ name # None /\ fd = name
    /\ size = Len(inodes[name])
    /\ kind = "source" /\ pc # "bom" => size >= 3 /\ ~IsBom(SubSeq(inodes[name], 1, 3))
    /\ Prefix

IInv ==
  /\ FileInv /\ ReaderInv
  /\ Undisturbed /\ UndisturbedIsWhole
  /\ ~inPlace /\ pc = "read" => Prefix
  /\ NeverMixed

-----------------------------------------------------------------------------
\* Versions are numbers other than None, and each has a text of bytes.
LEMMA TextsAre ==
  ASSUME NEW v \in Versions
  PROVE  /\ v # None /\ Length[v] \in Nat
         /\ Text(v) \in Seq(Bytes) /\ Len(Text(v)) = Length[v]
         /\ \A k \in 1 .. Length[v] : Text(v)[k] = <<v, k>>
<1>1. v \in 1 .. Len(Length) /\ Length[v] \in Nat
  BY FileAssumption DEF FileAssumption, Versions
<1>2. \A k \in 1 .. Length[v] : <<v, k>> \in Bytes
  BY <1>1 DEF Bytes
<1>3. Text(v) \in Seq(Bytes) /\ Len(Text(v)) = Length[v]
  BY <1>1, <1>2 DEF Text
<1>4. \A k \in 1 .. Length[v] : Text(v)[k] = <<v, k>>
  BY DEF Text
<1> QED
  BY <1>1, <1>3, <1>4 DEF None

LEMMA JunkIsNoByte == Junk \notin Bytes
BY DEF Junk, Bytes

LEMMA InitInv == Init => IInv
<1> SUFFICES ASSUME Init PROVE IInv
  OBVIOUS
<1>1. PICK v \in Versions : inodes = <<Text(v)>>
  BY DEF Init
<1>2. FileInv
  <2>1. inodes \in Seq(Seq(Bytes)) /\ Len(inodes) = 1 /\ inodes[1] = Text(v)
    BY <1>1, TextsAre
  <2>2. /\ name \in {None, 1} /\ saving = [version |-> None, inode |-> None]
        /\ edits = 0 /\ inPlace = FALSE /\ moved = FALSE
    BY DEF Init
  <2>3. \A k \in 1 .. Len(inodes) : \E w \in Versions : inodes[k] = Text(w)
    BY <2>1
  <2>4. saving \in [version : Versions \cup {None}, inode : 0 .. Len(inodes)]
    BY <2>1, <2>2 DEF None
  <2>5. name \in 0 .. Len(inodes) /\ edits \in 0 .. MaxEdits
    BY <2>1, <2>2, FileAssumption DEF None, FileAssumption
  <2> QED
    BY <2>1, <2>2, <2>3, <2>4, <2>5 DEF FileInv, Idle
<1>3. ReaderInv
  BY <1>1, EmptySeq DEF Init, ReaderInv, None, Loaded
<1> QED
  BY <1>2, <1>3 DEF Init, IInv, Undisturbed, UndisturbedIsWhole, NeverMixed, Loaded

-----------------------------------------------------------------------------
(* The editor *)

\* A step of the editor after the size has been taken is noticed in moved, and
\* the reader keeps what it has.
LEMMA EditorStep == IInv /\ Editor => IInv'
<1> SUFFICES ASSUME IInv, Editor PROVE IInv'
  OBVIOUS
<1>1. UNCHANGED readVars /\ moved' = (pc # "size")
  BY DEF Editor, Replace, Unlink, Truncate, Write, Edit, readVars
<1>2. /\ FileInv'
      /\ Len(inodes') >= Len(inodes)
      /\ ~inPlace' => ~inPlace /\ \A k \in 1 .. Len(inodes) : inodes'[k] = inodes[k]
  <2> USE DEF IInv, FileInv
  <2>1. ASSUME NEW v \in Versions, Replace(v)
        PROVE <1>2!1 /\ <1>2!2 /\ <1>2!3
    <3>1. inodes' = Append(inodes, Text(v)) /\ name' = Len(inodes')
      BY <2>1 DEF Replace
    <3>2. /\ inodes' \in Seq(Seq(Bytes)) /\ Len(inodes') = Len(inodes) + 1
          /\ \A k \in 1 .. Len(inodes) : inodes'[k] = inodes[k]
          /\ inodes'[Len(inodes) + 1] = Text(v)
      BY <3>1, TextsAre, AppendProperties
    <3> QED
      BY <2>1, <3>1, <3>2, FileAssumption DEF Replace, Edit, Idle, FileAssumption
  <2>2. CASE Unlink
    BY <2>2, FileAssumption DEF Unlink, Edit, Idle, None, FileAssumption
  <2>3. ASSUME NEW v \in Versions, Truncate(v)
        PROVE <1>2!1 /\ <1>2!2 /\ <1>2!3
    <3>1. name \in 1 .. Len(inodes) /\ inodes' = [inodes EXCEPT ![name] = <<>>]
      BY <2>3 DEF Truncate, None
    <3>2. inodes' \in Seq(Seq(Bytes)) /\ Len(inodes') = Len(inodes)
      BY <3>1, EmptySeq, ExceptSeq
    <3> QED
      BY <2>3, <3>1, <3>2, FileAssumption DEF Truncate, Edit, None, FileAssumption
  <2>4. CASE Write
    <3>1. saving.version \in Versions /\ saving.inode \in 1 .. Len(inodes) /\ inPlace
      BY <2>4 DEF Write, Idle, None
    <3>2. CASE UNCHANGED inodes
      BY <2>4, <3>1, <3>2 DEF Write, None
    <3>3. CASE inodes' # inodes
      <4> DEFINE n == Len(inodes[saving.inode])
                 b == Text(saving.version)[n + 1]
      <4>1. n < Length[saving.version] /\ UNCHANGED saving
            /\ inodes' = [inodes EXCEPT ![saving.inode] = Append(@, b)]
        BY <2>4, <3>3 DEF Write
      <4>2. inodes[saving.inode] \in Seq(Bytes) /\ n \in Nat
        BY <3>1
      <4>3. b \in Bytes
        BY <3>1, <4>1, <4>2, TextsAre, ElementOfSeq
      <4>4. Append(inodes[saving.inode], b) \in Seq(Bytes)
        BY <4>2, <4>3, AppendProperties
      <4>5. inodes' \in Seq(Seq(Bytes)) /\ Len(inodes') = Len(inodes)
        BY <3>1, <4>1, <4>4, ExceptSeq
      <4> QED
        BY <2>4, <3>1, <4>1, <4>5 DEF Write
    <3> QED
      BY <3>2, <3>3
  <2> QED
    BY <2>1, <2>2, <2>3, <2>4 DEF Editor
<1>3. ReaderInv'
  BY <1>1, <1>2 DEF IInv, ReaderInv, FileInv, readVars, Loaded
<1>4. Undisturbed' /\ UndisturbedIsWhole'
  BY <1>1 DEF Undisturbed, UndisturbedIsWhole, readVars
<1>5. NeverMixed'
  BY <1>1, <1>2 DEF IInv, NeverMixed, Loaded, readVars
<1>6. ~inPlace' /\ pc' = "read" => Prefix'
  <2> SUFFICES ASSUME ~inPlace', pc' = "read" PROVE Prefix'
    OBVIOUS
  <2>1. Prefix /\ fd \in 1 .. Len(inodes) /\ inodes'[fd] = inodes[fd]
    BY <1>1, <1>2 DEF IInv, ReaderInv, readVars, None
  <2> QED
    BY <1>1, <2>1 DEF Prefix, readVars
<1> QED
  BY <1>2, <1>3, <1>4, <1>5, <1>6 DEF IInv

-----------------------------------------------------------------------------
(* The reader *)

LEMMA TakeSizeStep == IInv /\ TakeSize => IInv'
<1> SUFFICES ASSUME IInv, TakeSize PROVE IInv'
  OBVIOUS
<1> USE DEF IInv, TakeSize, Accepted
<1>1. FileInv'
  BY DEF FileInv, Idle
<1>2. ReaderInv'
  BY DEF ReaderInv, FileInv, Done, Loaded, Refused, None
<1>3. Undisturbed'
  BY DEF ReaderInv, FileInv, Undisturbed, Done, Prefix, None
<1>4. UndisturbedIsWhole'
  BY DEF ReaderInv, FileInv, UndisturbedIsWhole, Done, None
<1>5. NeverMixed' /\ pc' # "read"
  BY DEF NeverMixed, Loaded, Done, Refused
<1> QED
  BY <1>1, <1>2, <1>3, <1>4, <1>5

LEMMA DetectBomStep == IInv /\ DetectBom => IInv'
<1> SUFFICES ASSUME IInv, DetectBom PROVE IInv'
  OBVIOUS
<1> USE DEF IInv, DetectBom, fileVars
<1>1. FileInv'
  BY DEF FileInv, Idle
<1>2. ReaderInv'
  BY DEF ReaderInv, Done, Loaded, Refused
<1>3. Undisturbed'
  BY DEF ReaderInv, FileInv, Undisturbed, Done, Prefix, None, IsBom
<1>4. UndisturbedIsWhole'
  BY DEF ReaderInv, Undisturbed, UndisturbedIsWhole, Done, IsBom
<1>5. NeverMixed' /\ pc' # "read"
  BY DEF NeverMixed, Loaded, Done, Refused
<1> QED
  BY <1>1, <1>2, <1>3, <1>4, <1>5

LEMMA OpenStep == IInv /\ Open => IInv'
<1> SUFFICES ASSUME IInv, Open PROVE IInv'
  OBVIOUS
<1> USE DEF IInv, Open, fileVars
<1>1. FileInv'
  BY DEF FileInv, Idle
<1>2. ReaderInv'
  BY DEF ReaderInv, FileInv, Done, Loaded, Refused, None
<1>3. Prefix'
  BY EmptySeq DEF ReaderInv, FileInv, Prefix, None
<1>4. Undisturbed'
  BY <1>3 DEF ReaderInv, Undisturbed, Done, IsBom
<1>5. UndisturbedIsWhole'
  BY DEF ReaderInv, Undisturbed, UndisturbedIsWhole, Done
<1>6. NeverMixed'
  BY DEF NeverMixed, Loaded, Done, Refused
<1> QED
  BY <1>1, <1>2, <1>3, <1>4, <1>5, <1>6

\* Another part has been read: it is the next part of the file, as long as the
\* descriptor stands for a file that has not been written over.
LEMMA ReadPart ==
  ASSUME IInv, pc = "read",
         NEW n \in Len(buf) + 1 .. Asked, n <= Len(Input),
         buf' = buf \o SubSeq(Input, Len(buf) + 1, n), UNCHANGED <<fileVars, fd, size>>
  PROVE  buf' \in Seq(Bytes) /\ Len(buf') <= size' /\ (Prefix => Prefix')
<1> DEFINE part == SubSeq(Input, Len(buf) + 1, n)
<1>1. buf \in Seq(Bytes) /\ Input \in Seq(Bytes) /\ size \in Nat
  BY DEF IInv, ReaderInv, FileInv, Input, None
<1>2. /\ part \in Seq(Bytes) /\ Len(part) = n - Len(buf)
      /\ \A i \in 1 .. n - Len(buf) : part[i] = Input[Len(buf) + i]
  BY <1>1, SubSeqProperties
<1>3. /\ buf' \in Seq(Bytes) /\ Len(buf') = n
      /\ \A i \in 1 .. n : buf'[i] = IF i <= Len(buf) THEN buf[i] ELSE part[i - Len(buf)]
  BY <1>1, <1>2, ConcatProperties
<1>4. ASSUME Prefix, NEW i \in 1 .. n PROVE buf'[i] = Input[i]
  BY <1>1, <1>2, <1>3, <1>4 DEF Prefix, Input
<1> QED
  BY <1>3, <1>4 DEF Prefix, Input, Asked, fileVars

\* The text that is given when fread has come to its end.
LEMMA GivenText ==
  ASSUME IInv
  PROVE  /\ Len(buf \o Padding) = size
         /\ \A i \in 1 .. size :
              (buf \o Padding)[i] = IF i <= Len(buf) THEN buf[i] ELSE Junk
<1>1. buf \in Seq(Bytes \cup {Junk}) /\ size \in Nat /\ Len(buf) <= size
  BY DEF IInv, ReaderInv
<1>2. /\ Padding \in Seq(Bytes \cup {Junk}) /\ Len(Padding) = size - Len(buf)
      /\ \A i \in 1 .. size - Len(buf) : Padding[i] = Junk
  BY <1>1 DEF Padding
<1> QED
  BY <1>1, <1>2, ConcatProperties

LEMMA GivenType == IInv => buf \o Padding \in Seq(Bytes \cup {Junk})
BY DEF IInv, ReaderInv, Padding

\* A length that an unsigned int can tell is what is left of it there.
LEMMA NarrowedFits ==
  ASSUME NEW n \in 1 .. UintMax
  PROVE  Narrowed(n) = n
BY FileAssumption DEF FileAssumption, Narrowed

\* So the caller receives all of the text.
LEMMA ReceivedAll ==
  ASSUME IInv, pc = "read"
  PROVE  Received(buf \o Padding) = buf \o Padding
<1> DEFINE text == buf \o Padding
<1>1. text \in Seq(Bytes \cup {Junk}) /\ Len(text) = size /\ size \in Nat
  BY GivenText, GivenType DEF IInv, ReaderInv
<1>2. CASE kind = "load"
  <2>1. Narrowed(size) = size
    BY <1>2, NarrowedFits DEF IInv, ReaderInv
  <2>2. SubSeq(text, 1, size) = text
    BY <1>1
  <2> QED
    BY <1>2, <2>1, <2>2 DEF Received
<1> QED
  BY <1>2 DEF Received

LEMMA ReadStep == IInv /\ Read => IInv'
<1> SUFFICES ASSUME IInv, Read PROVE IInv'
  OBVIOUS
<1>1. pc = "read" /\ UNCHANGED <<fileVars, kind, fd, size>>
  BY DEF Read
<1>2. FileInv'
  BY <1>1 DEF IInv, FileInv, Idle, fileVars
<1>3. ASSUME NEW n \in Len(buf) + 1 .. Asked, n <= Len(Input),
             buf' = buf \o SubSeq(Input, Len(buf) + 1, n), UNCHANGED <<pc, result>>
      PROVE IInv'
  <2>1. buf' \in Seq(Bytes) /\ Len(buf') <= size' /\ (Prefix => Prefix')
    BY <1>1, <1>3, ReadPart
  <2>2. ReaderInv' /\ Undisturbed'
    BY <1>1, <1>3, <2>1 DEF IInv, ReaderInv, Undisturbed, fileVars, Loaded, IsBom
  <2> QED
    BY <1>1, <1>2, <1>3, <2>1, <2>2
    DEF IInv, UndisturbedIsWhole, NeverMixed, Loaded, fileVars, IsBom
<1>4. ASSUME Ended, buf' = buf, pc' = "done",
             result' = Refused("error"), ~((Len(buf) = Asked /\ size > 0) \/ AcceptShort)
      PROVE IInv'
  <2>1. ReaderInv' /\ Undisturbed' /\ NeverMixed'
    BY <1>1, <1>4 DEF IInv, ReaderInv, Undisturbed, NeverMixed, Loaded, Refused, fileVars
  <2>2. moved
    BY <1>1, <1>4
    DEF IInv, FileInv, ReaderInv, Undisturbed, Prefix, Ended, Asked, Input, AcceptShort, None
  <2> QED
    BY <1>1, <1>2, <1>4, <2>1, <2>2 DEF IInv, UndisturbedIsWhole, fileVars
<1>5. ASSUME Ended, buf' = buf, pc' = "done", result' = Given(buf \o Padding),
             (Len(buf) = Asked /\ size > 0) \/ AcceptShort
      PROVE IInv'
  <2> DEFINE text == buf \o Padding
  <2>1. /\ Len(text) = size
        /\ \A i \in 1 .. size : text[i] = IF i <= Len(buf) THEN buf[i] ELSE Junk
    BY GivenText
  <2>2. result' = [status |-> "ok", text |-> text]
    BY <1>5 DEF Given
  <2>3. ReaderInv' /\ Undisturbed'
    BY <1>1, <1>5, <2>1, <2>2
    DEF IInv, ReaderInv, Undisturbed, Loaded, fileVars, AcceptShort, Asked, Padding
  <2>4. UndisturbedIsWhole'
    <3> SUFFICES ASSUME ~moved PROVE UndisturbedIsWhole'
      BY <1>1 DEF UndisturbedIsWhole, fileVars
    <3>1. /\ name \in 1 .. Len(inodes) /\ fd = name /\ size = Len(inodes[name]) /\ Prefix
          /\ kind = "load" => size >= 1
          /\ kind = "source" => size >= 3 /\ ~IsBom(SubSeq(inodes[name], 1, 3))
      BY <1>1 DEF IInv, FileInv, ReaderInv, Undisturbed, None
    <3>2. inodes[name] \in Seq(Bytes) /\ Len(buf) = size
      BY <1>1, <1>5, <3>1 DEF IInv, FileInv, ReaderInv, Ended, Asked, Input
    <3>3. text = inodes[name]
      <4>1. text \in Seq(Bytes \cup {Junk})
        BY GivenType
      <4>2. \A k \in 1 .. size : text[k] = inodes[name][k]
        BY <2>1, <3>1, <3>2 DEF Prefix
      <4> QED
        BY <2>1, <3>1, <3>2, <4>1, <4>2, SeqEqual
    <3> QED
      BY <1>1, <1>5, <3>1, <3>3 DEF UndisturbedIsWhole, fileVars, IsBom, Given, IInv, ReaderInv, None
  <2>5. NeverMixed'
    <3> SUFFICES ASSUME ~inPlace
                 PROVE \E v \in Versions : \A k \in DOMAIN text : text[k] \in {<<v, k>>, Junk}
      BY <1>1, <2>2 DEF NeverMixed, fileVars
    <3>1. Prefix /\ fd \in 1 .. Len(inodes)
      BY <1>1 DEF IInv, ReaderInv, None
    <3>2. PICK v \in Versions : inodes[fd] = Text(v)
      BY <3>1 DEF IInv, FileInv
    <3>3. \A k \in 1 .. Len(buf) : buf[k] = <<v, k>>
      BY <3>1, <3>2, TextsAre DEF Prefix, IInv, ReaderInv
    <3>4. DOMAIN text = 1 .. size
      BY <2>1, GivenType
    <3>5. ASSUME NEW k \in DOMAIN text PROVE text[k] \in {<<v, k>>, Junk}
      <4>1. k \in 1 .. size /\ Len(buf) \in Nat
        BY <3>4 DEF IInv, ReaderInv
      <4>2. CASE k <= Len(buf)
        <5>1. k \in 1 .. Len(buf) /\ text[k] = buf[k]
          BY <2>1, <4>1, <4>2
        <5>2. buf[k] = <<v, k>>
          BY <3>3, <5>1
        <5> QED
          BY <5>1, <5>2
      <4>3. CASE k > Len(buf)
        BY <2>1, <4>1, <4>3
      <4> QED
        BY <4>1, <4>2, <4>3
    <3> QED
      BY <3>5
  <2> QED
    BY <1>1, <1>2, <1>5, <2>3, <2>4, <2>5 DEF IInv
<1> QED
  BY <1>1, <1>3, <1>4, <1>5, ReceivedAll DEF Read, Done

-----------------------------------------------------------------------------
THEOREM IInvHolds == Spec => []IInv
<1>1. IInv /\ [Next]_vars => IInv'
  <2> SUFFICES ASSUME IInv, [Next]_vars PROVE IInv'
    OBVIOUS
  <2>1. CASE UNCHANGED vars
    BY <2>1
    DEF vars, fileVars, readVars, IInv, FileInv, ReaderInv, Undisturbed, UndisturbedIsWhole,
        NeverMixed, Prefix, Loaded, Idle, IsBom
  <2> QED
    BY <2>1, EditorStep, TakeSizeStep, DetectBomStep, OpenStep, ReadStep DEF Next, Reader
<1> QED
  BY <1>1, InitInv, PTL DEF Spec

\* For files of any versions and any number of edits, fread stays inside the
\* memory made for it, and file_load returns nothing that was not read.
THEOREM InsideMemoryHolds == Spec => []InsideMemory
<1>1. IInv => InsideMemory
  BY JunkIsNoByte DEF IInv, FileInv, ReaderInv, InsideMemory, TypeOK
<1> QED
  BY <1>1, IInvHolds, PTL

\* A file that does not change while it is read is read whole, or refused for
\* what it is.
THEOREM UndisturbedIsWholeHolds == Spec => []UndisturbedIsWhole
BY IInvHolds, PTL DEF IInv

\* A file that is only ever replaced is never mixed.
THEOREM NeverMixedHolds == Spec => []NeverMixed
BY IInvHolds, PTL DEF IInv

-----------------------------------------------------------------------------
(***************************************************************************)
(* XArray.  For any strings and any amount of memory, the array keeps its  *)
(* shape, owns what it has allocated and implements the list it stands     *)
(* for.                                                                    *)
(***************************************************************************)

\* ArrayTypeOK is inductive together with MemoryOwned: that the slot written to is
\* empty, so that no string is lost, follows from the first; that the address
\* written to it is in no other slot follows from the second.
ArrayInv == ArrayTypeOK /\ MemoryOwned

\* The slots that are written to have room for one more string, the same slots
\* in use as before, and NULL in the others.
LEMMA SpaceForOne ==
  ASSUME ArrayTypeOK, live, nSize > 0
  PROVE  /\ Space \in Seq(Addresses \cup {NULL})
         /\ Len(Space) > nUsed
         /\ \A i \in 1 .. nUsed : Space[i] = pData[i]
         /\ \A i \in nUsed + 1 .. Len(Space) : Space[i] = NULL
  BY SMTT(30) DEF ArrayTypeOK, Space, Full, Enlarged, NewSize, nSize

\* The slots after a string has been stored.
LEMMA StoredSlots ==
  ASSUME ArrayInv, live, NEW a \in Addresses \ DOMAIN heap, NEW s \in Strings, Stored(a, s)
  PROVE  /\ pData' \in Seq(Addresses \cup {NULL})
         /\ nUsed' = nUsed + 1 /\ nUsed' <= Len(pData')
         /\ \A i \in 1 .. nUsed : pData'[i] = pData[i]
         /\ pData'[nUsed + 1] = a
         /\ \A i \in nUsed + 2 .. Len(pData') : pData'[i] = NULL
  <1>1. nSize > 0
    BY DEF ArrayInv, ArrayTypeOK, MemoryOwned, nSize
  <1>2. nUsed \in Nat
    BY DEF ArrayInv, ArrayTypeOK
  <1> DEFINE sp == Space
  <1>3. /\ sp \in Seq(Addresses \cup {NULL}) /\ Len(sp) > nUsed
        /\ \A i \in 1 .. nUsed : sp[i] = pData[i]
        /\ \A i \in nUsed + 1 .. Len(sp) : sp[i] = NULL
    BY <1>1, SpaceForOne DEF ArrayInv
  <1>4. pData' = [sp EXCEPT ![nUsed + 1] = a] /\ nUsed' = nUsed + 1
    BY DEF Stored
  <1> HIDE DEF sp
  <1> QED
    BY <1>2, <1>3, <1>4

\* The invariant holds at the start.
LEMMA ArrayInitInv == ArrayInit => ArrayInv
  <1> SUFFICES ASSUME ArrayInit PROVE ArrayInv
    OBVIOUS
  <1>2. DOMAIN heap = {} /\ 1 .. nUsed = {} /\ nSize = 0
    BY DEF ArrayInit, nSize
  <1>1. ArrayTypeOK
    <2>1. heap \in [DOMAIN heap -> Strings]
      BY DEF ArrayInit
    <2>2. pData \in Seq(Addresses \cup {NULL})
      BY EmptySeq DEF ArrayInit
    <2>3. \A i \in 1 .. nSize : i <= nUsed <=> pData[i] # NULL
      BY <1>2
    <2>4. live \in BOOLEAN /\ DOMAIN heap \subseteq Addresses
      BY <1>2 DEF ArrayInit
    <2>5. nUsed \in Nat /\ nUsed <= nSize
      BY <1>2 DEF ArrayInit
    <2> QED
      BY <2>1, <2>2, <2>3, <2>4, <2>5 DEF ArrayTypeOK
  <1>3. MemoryOwned
    BY <1>2 DEF ArrayInit, MemoryOwned
  <1> QED
    BY <1>1, <1>3 DEF ArrayInv

\* Storing a string keeps the invariant.
LEMMA StoredInv ==
  ASSUME ArrayInv, live, NEW a \in Addresses \ DOMAIN heap, NEW s \in Strings, Stored(a, s),
         UNCHANGED <<live, held>>
  PROVE  ArrayInv'
  <1> USE MemoryAssumption
  <1>1. /\ pData' \in Seq(Addresses \cup {NULL})
        /\ nUsed' = nUsed + 1 /\ nUsed' <= Len(pData')
        /\ \A i \in 1 .. nUsed : pData'[i] = pData[i]
        /\ pData'[nUsed + 1] = a
        /\ \A i \in nUsed + 2 .. Len(pData') : pData'[i] = NULL
    BY StoredSlots
  <1>2. heap' = [x \in DOMAIN heap \cup {a} |-> IF x = a THEN s ELSE heap[x]]
    BY DEF Stored
  <1>3. nUsed \in Nat /\ \A i \in 1 .. nUsed : pData[i] \in DOMAIN heap /\ pData[i] # NULL
    BY DEF ArrayInv, ArrayTypeOK, MemoryOwned, nSize
  <1>4. ArrayTypeOK'
    <2>1. heap' \in [DOMAIN heap' -> Strings] /\ DOMAIN heap' \subseteq Addresses
      BY <1>2 DEF ArrayInv, ArrayTypeOK
    <2>2. \A i \in 1 .. Len(pData') : i <= nUsed + 1 <=> pData'[i] # NULL
      BY <1>1, <1>3
    <2> QED
      BY <1>1, <1>3, <2>1, <2>2 DEF ArrayInv, ArrayTypeOK, nSize
  <1>5. MemoryOwned'
    <2>1. DOMAIN heap' = {pData'[i] : i \in 1 .. nUsed'}
      BY <1>1, <1>2, <1>3 DEF ArrayInv, MemoryOwned
    <2>2. \A i, j \in 1 .. nUsed' : pData'[i] = pData'[j] => i = j
      BY <1>1, <1>3 DEF ArrayInv, MemoryOwned
    <2>3. held' \subseteq DOMAIN heap' /\ (live' <=> pData' # <<>>)
      BY <1>1, <1>2, <1>3 DEF ArrayInv, MemoryOwned
    <2> QED
      BY <2>1, <2>2, <2>3 DEF MemoryOwned
  <1> QED
    BY <1>4, <1>5 DEF ArrayInv

\* Every step keeps the invariant.
LEMMA ArrayNextInv == ArrayInv /\ [ArrayNext]_arrayVars => ArrayInv'
  <1> SUFFICES ASSUME ArrayInv, [ArrayNext]_arrayVars PROVE ArrayInv'
    OBVIOUS
  <1> USE MemoryAssumption
  <1>1. CASE New
    <2>1. CASE UNCHANGED <<live, pData, nUsed, heap, held>>
      BY <2>1 DEF ArrayInv, ArrayTypeOK, MemoryOwned, nSize
    <2>2. CASE /\ ~live /\ live' = TRUE /\ nUsed' = 0 /\ UNCHANGED <<heap, held>>
               /\ pData' = [i \in 1 .. InitialSize |-> NULL]
      <3>1. pData' \in Seq(Addresses \cup {NULL}) /\ Len(pData') = 2
        BY <2>2 DEF InitialSize
      <3>2. nUsed = 0 /\ nUsed' = 0
        BY <2>2 DEF ArrayInv, ArrayTypeOK, MemoryOwned, nSize
      <3>3. ArrayTypeOK'
        BY <2>2, <3>1, <3>2 DEF ArrayInv, ArrayTypeOK, nSize, InitialSize
      <3>4. pData' # <<>>
        BY <3>1
      <3>5. MemoryOwned'
        BY <2>2, <3>2, <3>4 DEF ArrayInv, MemoryOwned
      <3> QED
        BY <3>3, <3>5 DEF ArrayInv
    <2> QED
      BY <1>1, <2>1, <2>2 DEF New
  <1>2. CASE Free
    <2>1. DOMAIN heap \subseteq {pData[i] : i \in 1 .. nSize}
      BY DEF ArrayInv, ArrayTypeOK, MemoryOwned, nSize
    <2>2. heap' = [x \in {} |-> heap[x]]
      BY <1>2, <2>1 DEF Free
    <2>3. live' = FALSE /\ pData' = <<>> /\ nUsed' = 0 /\ held' = {}
      BY <1>2 DEF Free
    <2>5. DOMAIN heap' = {} /\ 1 .. nUsed' = {} /\ nSize' = 0
      BY <2>2, <2>3 DEF nSize
    <2>4. ArrayTypeOK'
      <3>1. heap' \in [DOMAIN heap' -> Strings]
        BY <2>2
      <3>2. pData' \in Seq(Addresses \cup {NULL})
        BY <2>3, EmptySeq
      <3>3. \A i \in 1 .. nSize' : i <= nUsed' <=> pData'[i] # NULL
        BY <2>5
      <3>4. live' \in BOOLEAN /\ DOMAIN heap' \subseteq Addresses
        BY <2>3, <2>5
      <3>5. nUsed' \in Nat /\ nUsed' <= nSize'
        BY <2>3, <2>5
      <3> QED
        BY <3>1, <3>2, <3>3, <3>4, <3>5 DEF ArrayTypeOK
    <2>6. MemoryOwned'
      BY <2>3, <2>5 DEF MemoryOwned
    <2> QED
      BY <2>4, <2>6 DEF ArrayInv
  <1>3. ASSUME NEW s \in Strings, Add(s) PROVE ArrayInv'
    <2>1. CASE UNCHANGED <<live, pData, nUsed, heap, held>>
      BY <2>1 DEF ArrayInv, ArrayTypeOK, MemoryOwned, nSize
    <2>2. ASSUME NEW a \in Addresses \ DOMAIN heap, Stored(a, s) PROVE ArrayInv'
      BY <1>3, <2>2, StoredInv DEF Add
    <2> QED
      BY <1>3, <2>1, <2>2 DEF Add, Dropped
  <1>4. ASSUME NEW i \in 0 .. nUsed, Get(i) PROVE ArrayInv'
    <2>1. UNCHANGED <<live, pData, nUsed, heap>>
      BY <1>4 DEF Get
    <2>2. ArrayTypeOK'
      BY <2>1 DEF ArrayInv, ArrayTypeOK, nSize
    <2>3. i < nSize /\ pData[i + 1] # NULL => pData[i + 1] \in DOMAIN heap
      BY DEF ArrayInv, ArrayTypeOK, MemoryOwned, nSize
    <2>4. held' \subseteq DOMAIN heap
      BY <1>4, <2>3 DEF Get, ArrayInv, MemoryOwned
    <2> QED
      BY <2>1, <2>2, <2>4 DEF ArrayInv, MemoryOwned
  <1>5. ASSUME NEW s \in Strings, Contains(s) PROVE ArrayInv'
    BY <1>5 DEF Contains, ArrayInv, ArrayTypeOK, MemoryOwned, nSize
  <1>6. CASE UNCHANGED arrayVars
    BY <1>6 DEF arrayVars, ArrayInv, ArrayTypeOK, MemoryOwned, nSize
  <1> QED
    BY <1>1, <1>2, <1>3, <1>4, <1>5, <1>6 DEF ArrayNext

\* The invariant holds throughout.
LEMMA AlwaysArrayInv == ArraySpec => []ArrayInv
  BY ArrayInitInv, ArrayNextInv, PTL DEF ArraySpec

\* In every behaviour the slots in use come first and the others are NULL.
THEOREM ShapeKept == ArraySpec => []ArrayTypeOK
  <1>1. ArrayInv => ArrayTypeOK
    BY DEF ArrayInv
  <1> QED
    BY <1>1, AlwaysArrayInv, PTL

\* In every behaviour each string in memory is in exactly one slot in use, and
\* the pointers handed out are to strings that are still there.
THEOREM MemoryIsOwned == ArraySpec => []MemoryOwned
  <1>1. ArrayInv => MemoryOwned
    BY DEF ArrayInv
  <1> QED
    BY <1>1, AlwaysArrayInv, PTL

\* What the list stands for is a sequence of strings.
LEMMA ItemsAreStrings ==
  ASSUME ArrayInv
  PROVE  Items \in Seq(Strings) /\ Len(Items) = nUsed
  <1>1. \A i \in 1 .. nUsed : heap[pData[i]] \in Strings
    BY DEF ArrayInv, ArrayTypeOK, MemoryOwned
  <1>2. nUsed \in Nat
    BY DEF ArrayInv, ArrayTypeOK
  <1> QED
    BY <1>1, <1>2 DEF Items

\* To store a string in the array is to append it to the list.
LEMMA StoredAppends ==
  ASSUME ArrayInv, live, NEW a \in Addresses \ DOMAIN heap, NEW s \in Strings, Stored(a, s),
         UNCHANGED held
  PROVE  Items' = Append(Items, s) /\ Texts' = Texts
  <1>1. /\ nUsed' = nUsed + 1 /\ pData'[nUsed + 1] = a
        /\ \A i \in 1 .. nUsed : pData'[i] = pData[i]
    BY StoredSlots
  <1>2. heap' = [x \in DOMAIN heap \cup {a} |-> IF x = a THEN s ELSE heap[x]]
    BY DEF Stored
  <1>3. nUsed \in Nat /\ \A i \in 1 .. nUsed : pData[i] \in DOMAIN heap
    BY DEF ArrayInv, ArrayTypeOK, MemoryOwned
  <1>4. Items \in Seq(Strings) /\ Len(Items) = nUsed
    BY ItemsAreStrings
  <1>5. \A i \in 1 .. nUsed : heap'[pData'[i]] = Items[i]
    BY <1>1, <1>2, <1>3 DEF Items
  <1>6. heap'[pData'[nUsed + 1]] = s
    BY <1>1, <1>2
  <1>7. Items' \in Seq(Strings) /\ Len(Items') = nUsed + 1
    BY <1>1, <1>3, <1>4, <1>5, <1>6 DEF Items
  <1>8. /\ Append(Items, s) \in Seq(Strings) /\ Len(Append(Items, s)) = nUsed + 1
        /\ \A i \in 1 .. nUsed : Append(Items, s)[i] = Items[i]
        /\ Append(Items, s)[nUsed + 1] = s
    BY <1>4, AppendProperties
  <1>11. \A i \in 1 .. nUsed + 1 : Items'[i] = Append(Items, s)[i]
    BY <1>1, <1>3, <1>5, <1>6, <1>8 DEF Items
  <1>12. Items' = Append(Items, s)
    <2> DEFINE new == Items'  all == Append(Items, s)
    <2>1. /\ new \in Seq(Strings) /\ all \in Seq(Strings) /\ Len(new) = Len(all)
          /\ \A i \in 1 .. Len(new) : new[i] = all[i]
      BY <1>7, <1>8, <1>11
    <2> HIDE DEF new, all
    <2>2. new = all
      BY <2>1, SeqEqual
    <2> QED
      BY <2>2 DEF new, all
  <1>9. held \subseteq DOMAIN heap
    BY DEF ArrayInv, MemoryOwned
  <1>10. Texts' = Texts
    BY <1>2, <1>9 DEF Texts
  <1> QED
    BY <1>12, <1>10

\* Every step of the array is a step of the list, or none.
LEMMA ListStep ==
  ASSUME ArrayInv, ArrayInv', [ArrayNext]_arrayVars
  PROVE  [List!Next]_List!vars
  <1>1. CASE New
    <2>1. nUsed = 0 /\ nUsed' = 0 /\ ~live
      <3>1. ~live /\ pData = <<>> /\ nUsed \in Nat /\ nUsed <= Len(pData)
        BY <1>1 DEF New, ArrayInv, ArrayTypeOK, MemoryOwned, nSize
      <3>2. nUsed = 0
        BY <3>1
      <3> QED
        BY <1>1, <3>1, <3>2 DEF New
    <2>2. Items = <<>> /\ Items' = <<>> /\ Texts' = Texts
      BY <1>1, <2>1 DEF New, Items, Texts
    <2>3. List!New
      BY <1>1, <2>1, <2>2 DEF New, Answer, List!New, List!Answer, ArrayInv, ArrayTypeOK
    <2> QED
      BY <2>3 DEF List!Next
  <1>2. CASE Free
    <2>1. Items' = <<>> /\ Texts' = {}
      BY <1>2 DEF Free, Items, Texts
    <2>2. List!Free
      BY <1>2, <2>1 DEF Free, Answer, List!Free, List!Answer
    <2> QED
      BY <2>2 DEF List!Next
  <1>3. ASSUME NEW s \in Strings, Add(s) PROVE List!Next
    <2>1. CASE Answer("add", s, FALSE) /\ UNCHANGED <<live, pData, nUsed, heap, held>>
      <3>1. Items' = Items /\ Texts' = Texts
        BY <2>1 DEF Items, Texts
      <3>2. List!Add(s)
        BY <1>3, <2>1, <3>1 DEF Add, Answer, List!Add, List!Answer
      <3> QED
        BY <3>2 DEF List!Next
    <2>2. ASSUME NEW a \in Addresses \ DOMAIN heap, Stored(a, s) PROVE List!Next
      <3>1. Items' = Append(Items, s) /\ Texts' = Texts
        BY <1>3, <2>2, StoredAppends DEF Add
      <3>2. List!Add(s)
        BY <1>3, <2>2, <3>1 DEF Add, Stored, Answer, List!Add, List!Answer
      <3> QED
        BY <3>2 DEF List!Next
    <2> QED
      BY <1>3, <2>1, <2>2 DEF Add, Dropped
  <1>4. ASSUME NEW i \in 0 .. nUsed, Get(i) PROVE List!Next
    <2>1. Items' = Items /\ Len(Items) = nUsed /\ i \in 0 .. Len(Items)
      BY <1>4, ItemsAreStrings DEF Get, Items
    <2>2. CASE i < nUsed
      <3>1. i + 1 \in 1 .. nUsed /\ i < nSize /\ pData[i + 1] # NULL
        BY <2>2 DEF ArrayInv, ArrayTypeOK, nSize
      <3>2. Items[i + 1] = heap[pData[i + 1]]
        BY <3>1 DEF Items
      <3>3. Texts' = Texts \cup {Items[i + 1]}
        BY <1>4, <3>1, <3>2 DEF Get, Texts
      <3>4. List!Get(i)
        BY <1>4, <2>1, <2>2, <3>1, <3>2, <3>3 DEF Get, Answer, List!Get, List!Answer
      <3> QED
        BY <2>1, <3>4 DEF List!Next
    <2>3. CASE i = nUsed
      <3>1. ~(i < nSize /\ pData[i + 1] # NULL)
        BY <2>3 DEF ArrayInv, ArrayTypeOK, nSize
      <3>2. Texts' = Texts
        BY <1>4, <3>1 DEF Get, Texts
      <3>3. ~(i < Len(Items))
        BY <2>1, <2>3 DEF ArrayInv, ArrayTypeOK
      <3>4. List!Get(i)
        BY <1>4, <2>1, <3>1, <3>2, <3>3 DEF Get, Answer, List!Get, List!Answer
      <3> QED
        BY <2>1, <3>4 DEF List!Next
    <2> QED
      BY <2>2, <2>3 DEF ArrayInv, ArrayTypeOK
  <1>5. ASSUME NEW s \in Strings, Contains(s) PROVE List!Next
    <2>1. Items' = Items /\ Texts' = Texts /\ DOMAIN Items = 1 .. nUsed
      BY <1>5 DEF Contains, Items, Texts
    <2>2. (\E i \in 1 .. nUsed : pData[i] # NULL /\ heap[pData[i]] = s)
          <=> \E i \in DOMAIN Items : Items[i] = s
      BY <2>1 DEF Items, ArrayInv, ArrayTypeOK, nSize
    <2>3. List!Contains(s)
      BY <1>5, <2>1, <2>2 DEF Contains, Answer, List!Contains, List!Answer
    <2> QED
      BY <2>3 DEF List!Next
  <1>6. CASE UNCHANGED arrayVars
    BY <1>6 DEF arrayVars, List!vars, Items, Texts
  <1> QED
    BY <1>1, <1>2, <1>3, <1>4, <1>5, <1>6 DEF ArrayNext

\* The array of pointers implements the list of strings.
THEOREM ArrayIsAList == ArraySpec => ImplementsList
  <1>1. ArrayInit => List!Init
    BY DEF ArrayInit, List!Init, Items, Texts
  <1> QED
    BY <1>1, ListStep, AlwaysArrayInv, PTL DEF ArraySpec, ImplementsList, List!Spec
=============================================================================
