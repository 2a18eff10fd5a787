------------------------------ MODULE MCCjitAr ------------------------------
(***************************************************************************)
(* Objects of even and odd sizes, with none to two symbols, one stripped,  *)
(* two whose names are the same for the first 15 characters; archives that *)
(* were there before, broken in every way the reader looks for.            *)
(***************************************************************************)
EXTENDS CjitAr

Obj(size, syms) == [kind |-> "obj", size |-> size, syms |-> syms, symtab |-> TRUE]
MCObjects ==
  ("one" :> Obj(3, <<"f">>)) @@ ("two" :> Obj(4, <<"f", "gg">>)) @@ ("silent" :> Obj(1, <<>>))
  @@ ("stripped" :> [Obj(2, <<>>) EXCEPT !.symtab = FALSE])
  @@ ("long1" :> Obj(2, <<"gg">>)) @@ ("long2" :> Obj(5, <<>>))
  @@ ("other" :> [kind |-> "class"]) @@ ("gone" :> [kind |-> "none"])
MCStored == [o \in DOMAIN MCObjects |-> IF o \in {"long1", "long2"} THEN "long" ELSE o]
MCSymSize == ("f" :> 2) @@ ("gg" :> 3)

Create(objs) == [op |-> "create", ok |-> TRUE, objs |-> objs]
MCCommands ==
  {Create(<<a>>) : a \in DOMAIN MCObjects}
  \cup {Create(<<a, b>>) : a \in DOMAIN MCObjects, b \in {"one", "silent", "stripped", "long1", "gone"}}
  \cup {Create(<<"two", a, "one">>) : a \in DOMAIN MCObjects}
  \cup {Create(<<>>)}
  \cup {[op |-> o, ok |-> b, objs |-> <<>>] : o \in {"table", "extract"}, b \in BOOLEAN}

Mem(n, size) == Member(n, size, n)
Good == {Mem("one", 3), Mem("p", 2)}
Bad == {[Mem("b", 2) EXCEPT !.good = g] : g \in {"no", "unsafe"}} \cup {Mem("/SYM64/", 2)}
MCArchives ==
  {[kind |-> "none"], [kind |-> "broken"]}
  \cup {Archive(ms, cut) : ms \in UNION {[1 .. n -> Good \cup Bad] : n \in 1 .. 2},
                           cut \in {"no", "header", "data", "padding"}}
=============================================================================
