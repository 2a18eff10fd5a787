--------------------------- MODULE MCLibResolver ----------------------------
(***************************************************************************)
(* Small worlds for LibResolver: configurations with includes, cycles and  *)
(* files that are missing; two directories with every kind of file; and    *)
(* scripts, every short one and longer ones put together.                  *)
(***************************************************************************)
EXTENDS LibResolver

Dir(d) == [line |-> "dir", dir |-> d]
Include(fs) == [line |-> "include", files |-> fs]
Other == [line |-> "other"]
BadGlob == [line |-> "badglob"]
Upto(S, n) == UNION {[1 .. k -> S] : k \in 0 .. n}

Conf(top, x, y) == ("ld.so.conf" :> top) @@ ("x" :> x) @@ ("y" :> y)
ConfWorlds ==
  {[conf |-> Conf(top, x, y), parts |-> parts, paths |-> <<"d1">>, libs |-> <<>>, disk |-> <<>>] :
     top \in Upto({Dir("d1"), Dir("d2"), Other, BadGlob, Include(<<"x", "y">>), Include(<<"missing">>)}, 2)
             \cup {<<Include(<<"y", "x">>), Dir("d3")>>},
     x \in Upto({Dir("d2"), Dir("d3"), Include(<<"y">>), Include(<<"ld.so.conf">>)}, 2),
     y \in {<<>>, <<Dir("d3")>>, <<Dir("d4"), Include(<<"x">>), Dir("d2")>>},
     parts \in {<<>>, <<"x", "y">>}}

Tok(c) == [t |-> c]
Name(n, l, p) == [t |-> "name", name |-> n, lib |-> l, path |-> p]
Word(n) == Name(n, "", <<>>)
Open == Tok("(")
Shut == Tok(")")
File == Word("a")
Lib == Name("la", "a", <<>>)
Full == Name("/d2/b", "", <<"d2", "b">>)
Gone == Name("/d2/none", "", <<"d2", "none">>)
NoFile == Word("none")
In(s) == <<Word("INPUT"), Open>> \o s \o <<Shut>>
AsNeeded(s) == <<Word("AS_NEEDED"), Open>> \o s \o <<Shut>>
Format == Word("OUTPUT_FORMAT")

Tokens == {Word("INPUT"), Word("AS_NEEDED"), Format, Open, Shut, File, Lib, Tok("-"), Tok("comma"), Tok("other")}
Short == Upto(Tokens, 3) \cup {<<Format>> \o s : s \in Upto(Tokens, 3)}
         \cup {<<Word("INPUT")>> \o s : s \in Upto(Tokens, 2)}
         \cup {<<Word("INPUT"), Open>> \o s : s \in Upto(Tokens, 3)}
Item3 == {<<File>>, <<Tok("-"), Lib>>, <<Full>>, <<Gone>>, <<NoFile>>, AsNeeded(<<File>>),
          AsNeeded(<<Full, Tok("comma"), File>>), AsNeeded(<<File>> \o AsNeeded(<<Full>>))}
Commas == {<<>>, <<Tok("comma")>>, <<Tok("comma"), Tok("comma")>>}
Long == {In(x \o c \o y) : x \in Item3, y \in Item3, c \in Commas}
        \cup {In(x) \o y : x \in Item3, y \in {<<Format, Open, File, Shut>>, <<Format, Open>>, <<Format>>, In(<<Full>>), <<Open>>}}
        \cup {<<Format, Open, Open, Shut>> \o In(<<File>>), <<Format, Open, File, Shut, Open, File, Shut>>,
            <<Format, Open, File, Shut>> \o In(<<File>>)}

Elf == [kind |-> "elf"]
AScript(ts) == [kind |-> "script", tokens |-> ts]
Link(to, how) == [kind |-> "link", to |-> to, how |-> how]

\* Where the library "s" is found, and the others that scripts name.
Disk(f1, f2, a1) ==
  (<<"d1", "s">> :> f1) @@ (<<"d2", "s">> :> f2) @@ (<<"d1", "a">> :> a1)
  @@ (<<"d2", "a">> :> Elf) @@ (<<"d2", "b">> :> Link(<<"d2", "a">>, "plain"))
  @@ (<<"d1", "c">> :> AScript(In(<<File>>))) @@ (<<"d1", "d">> :> Link(<<"d1", "c">>, "plain"))
Search(libs, disk) ==
  [conf |-> <<>>, parts |-> <<>>, paths |-> <<"d1", "d2">>, libs |-> libs, disk |-> disk]

Places == {None, Elf, [kind |-> "dir"], AScript(<<>>), AScript(In(<<File, Full>>)), AScript(<<File>>),
           Link(<<"d2", "a">>, "plain"), Link(<<"d2", "a">>, "long"), Link(<<"d2", "a">>, "absolute"),
           Link(<<"d2", "b">>, "plain"), Link(<<"d1", "c">>, "plain"), Link(<<"d1", "d">>, "plain"), Link(<<"d1", "gone">>, "plain")}
OtherA == {None, Elf, [kind |-> "dir"], Link(<<"d2", "a">>, "absolute")}

MCWorlds ==
  ConfWorlds
  \cup {Search(<<"s">>, Disk(AScript(ts), Elf, None)) : ts \in Short}
  \cup {Search(<<"s">>, Disk(AScript(ts), Elf, a)) : ts \in Long, a \in OtherA}
  \cup {Search(libs, Disk(f, g, a)) : f \in Places, g \in Places, a \in OtherA,
          libs \in {<<"s", "a">>, <<"a", "none", "s", "s">>}}
=============================================================================
