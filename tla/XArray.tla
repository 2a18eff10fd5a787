------------------------------- MODULE XArray -------------------------------
(***************************************************************************)
(* A StringList as it is: an array of pointers that doubles when it is     *)
(* full, to strings that are copied into memory of their own.  Every       *)
(* malloc may fail, and may return memory that has been freed before.      *)
(*                                                                         *)
(* These are the operations the program uses.  Nothing reads eStatus, and  *)
(* no list of the program is of a fixed size.                              *)
(***************************************************************************)
EXTENDS Integers, Sequences

CONSTANTS
  Strings,
  Addresses,  \* where a string can be in memory
  NULL,
  Garbage     \* what memory holds before anything is written to it

ASSUME MemoryAssumption == NULL \notin Addresses /\ Garbage \notin Addresses /\ NULL # Garbage

InitialSize == 2   \* string_list_new: XArray_New(2, 0)

VARIABLES
  live,    \* whether there is a list
  pData,   \* its slots
  nUsed,   \* how many of them are in use
  heap,    \* the strings in memory, by address
  held,    \* the addresses string_list_get has handed out
  ret

arrayVars == <<live, pData, nUsed, heap, held, ret>>

nSize == Len(pData)

ArrayInit ==
  /\ live = FALSE /\ pData = <<>> /\ nUsed = 0 /\ heap = [x \in {} |-> NULL] /\ held = {}
  /\ ret = [op |-> "none", arg |-> NULL, answer |-> FALSE]

Answer(op, arg, a) == ret' = [op |-> op, arg |-> arg, answer |-> a]

\* One of three allocations fails, and what was allocated is freed.
New ==
  /\ ~live
  /\ \/ /\ live' = TRUE /\ pData' = [i \in 1 .. InitialSize |-> NULL] /\ nUsed' = 0
        /\ Answer("new", NULL, TRUE)
     \/ Answer("new", NULL, FALSE) /\ UNCHANGED <<live, pData, nUsed>>
  /\ UNCHANGED <<heap, held>>

\* XArray_CheckSpace: no slot is left.
Full == nUsed >= nSize

NewSize ==
  IF nUsed = nSize THEN nSize * 2 ELSE IF 4 * nUsed < nSize THEN nSize \div 2 ELSE 0

\* The old slots are copied to the new ones, and those not in use are cleared.
Enlarged ==
  [i \in 1 .. NewSize |->
     IF i > nUsed THEN NULL ELSE IF i <= nSize THEN pData[i] ELSE Garbage]

\* The slots to write to, unless there is no memory for more of them.
Space == IF Full THEN Enlarged ELSE pData

\* Mutation of Dropped: the string that finds no slot is not freed.
DroppedLeaks(a, s) ==
  /\ heap' = [x \in DOMAIN heap \cup {a} |-> IF x = a THEN s ELSE heap[x]]
  /\ Answer("add", s, FALSE) /\ UNCHANGED <<pData, nUsed>>

\* Mutation of Dropped: the caller is told that the string was added.
DroppedUntold(a, s) == Answer("add", s, TRUE) /\ UNCHANGED <<pData, nUsed, heap>>

\* The copy of s, made at address a, finds no slot and is freed.
Dropped(a, s) == Answer("add", s, FALSE) /\ UNCHANGED <<pData, nUsed, heap>>

Stored(a, s) ==
  /\ heap' = [x \in DOMAIN heap \cup {a} |-> IF x = a THEN s ELSE heap[x]]
  /\ pData' = [Space EXCEPT ![nUsed + 1] = a]
  /\ nUsed' = nUsed + 1
  /\ Answer("add", s, TRUE)

Add(s) ==
  /\ live
  /\ \/ Answer("add", s, FALSE) /\ UNCHANGED <<pData, nUsed, heap>>
     \/ \E a \in Addresses \ DOMAIN heap : Stored(a, s) \/ (Full /\ Dropped(a, s))
  /\ UNCHANGED <<live, held>>

Get(i) ==
  /\ live
  /\ IF i < nSize /\ pData[i + 1] # NULL
     THEN /\ Answer("get", i, heap[pData[i + 1]])
          /\ held' = held \cup {pData[i + 1]}
     ELSE Answer("get", i, NULL) /\ UNCHANGED held
  /\ UNCHANGED <<live, pData, nUsed, heap>>

Contains(s) ==
  /\ live
  /\ Answer("contains", s, \E i \in 1 .. nUsed : pData[i] # NULL /\ heap[pData[i]] = s)
  /\ UNCHANGED <<live, pData, nUsed, heap, held>>

\* Every slot that is not NULL is freed, the array with them.
Free ==
  /\ live
  /\ heap' = [x \in DOMAIN heap \ {pData[i] : i \in 1 .. nSize} |-> heap[x]]
  /\ live' = FALSE /\ pData' = <<>> /\ nUsed' = 0 /\ held' = {}
  /\ Answer("free", NULL, TRUE)

ArrayNext ==
  \/ New \/ Free
  \/ \E s \in Strings : Add(s) \/ Contains(s)
  \/ \E i \in 0 .. nUsed : Get(i)

ArraySpec == ArrayInit /\ [][ArrayNext]_arrayVars

-----------------------------------------------------------------------------
(* Properties *)

\* The slots in use come first and hold addresses, the others are NULL: freeing
\* the list goes through all of them.
ArrayTypeOK ==
  /\ live \in BOOLEAN
  /\ nUsed \in Nat /\ nUsed <= nSize
  /\ pData \in Seq(Addresses \cup {NULL})
  /\ DOMAIN heap \subseteq Addresses /\ heap \in [DOMAIN heap -> Strings]
  /\ \A i \in 1 .. nSize : i <= nUsed <=> pData[i] # NULL

\* Every string in memory is in exactly one slot in use, also after calls that
\* failed: none leaks, none is freed twice, and no pointer that was handed out
\* is to memory that has been freed.
MemoryOwned ==
  /\ DOMAIN heap = {pData[i] : i \in 1 .. nUsed}
  /\ \A i, j \in 1 .. nUsed : pData[i] = pData[j] => i = j
  /\ held \subseteq DOMAIN heap
  /\ live <=> pData # <<>>

\* The strings of the list, and those under the pointers handed out.
Items == [i \in 1 .. nUsed |-> heap[pData[i]]]
Texts == {heap[a] : a \in held}

List == INSTANCE StringList WITH items <- Items, held <- Texts

\* The array implements the list: appended strings stay in their place and keep
\* their text through every growth and every failure, and each call answers
\* what it would answer of a plain sequence.
ImplementsList == List!Spec
=============================================================================
