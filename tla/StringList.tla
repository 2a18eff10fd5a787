----------------------------- MODULE StringList -----------------------------
(***************************************************************************)
(* What the rest of the program relies on when it uses a StringList: a     *)
(* sequence that strings are appended to, which may fail but then says so  *)
(* and changes nothing, and whose strings stay what they were, under the   *)
(* pointers handed out, until the list is freed.                           *)
(***************************************************************************)
EXTENDS Integers, Sequences

CONSTANTS
  Strings,
  NULL     \* the null pointer

VARIABLES
  live,    \* whether the list exists
  items,   \* its strings
  held,    \* the strings whose pointers have been handed out
  ret      \* the last call, its argument and its answer

vars == <<live, items, held, ret>>

Init ==
  /\ live = FALSE /\ items = <<>> /\ held = {}
  /\ ret = [op |-> "none", arg |-> NULL, answer |-> FALSE]

\* The call returns.
Answer(op, arg, a) == ret' = [op |-> op, arg |-> arg, answer |-> a]

New ==
  /\ ~live
  /\ \E ok \in BOOLEAN : live' = ok /\ Answer("new", NULL, ok)
  /\ UNCHANGED <<items, held>>

Add(s) ==
  /\ live
  /\ \/ items' = Append(items, s) /\ Answer("add", s, TRUE)
     \/ UNCHANGED items /\ Answer("add", s, FALSE)
  /\ UNCHANGED <<live, held>>

\* Callers go through the indices below string_list_count.
Get(i) ==
  /\ live
  /\ IF i < Len(items)
     THEN Answer("get", i, items[i + 1]) /\ held' = held \cup {items[i + 1]}
     ELSE Answer("get", i, NULL) /\ UNCHANGED held
  /\ UNCHANGED <<live, items>>

Contains(s) ==
  /\ live
  /\ Answer("contains", s, \E i \in DOMAIN items : items[i] = s)
  /\ UNCHANGED <<live, items, held>>

Free ==
  /\ live
  /\ live' = FALSE /\ items' = <<>> /\ held' = {} /\ Answer("free", NULL, TRUE)

Next ==
  \/ New \/ Free
  \/ \E s \in Strings : Add(s) \/ Contains(s)
  \/ \E i \in 0 .. Len(items) : Get(i)

Spec == Init /\ [][Next]_vars
=============================================================================
