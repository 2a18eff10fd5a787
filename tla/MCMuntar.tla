------------------------------ MODULE MCMuntar ------------------------------
(***************************************************************************)
(* Small bundles for Muntar: every tape of up to three blocks, every tape  *)
(* of five that ends in the end record and has a smaller alphabet before   *)
(* it, and sizes around every limit of the decompression.                  *)
(***************************************************************************)
EXTENDS Muntar

A == <<"a">>
B == <<"b">>
AB == <<"a", "b">>
MCPaths == {<<>>, A, B, AB}

Header(t, n, s) == [type |-> t, safe |-> TRUE, name |-> n, size |-> s]
Unsafe(t) == [type |-> t, safe |-> FALSE, name |-> <<"..">>, size |-> 0]
Bad(t) == [type |-> t]

\* A tape without the last cut bytes, in a bundle that inflate takes.
Bundle(t, cut) ==
  LET n == Len(t) * Block - cut IN
  [len |-> MinLen, isize |-> n, size |-> n, sound |-> TRUE, tape |-> t]

Small == {Header("reg", p, s) : p \in {A, AB}, s \in {0, 3}} \cup {Header("dir", A, 0), Header("other", B, 2)}
Blocks == Small \cup {Unsafe("reg"), Unsafe("dir")} \cup {Bad(t) : t \in Broken}
Tree == {Header("reg", B, 0), Header("reg", AB, 1), Header("dir", A, 0), Header("dir", AB, 0)}

Tapes == UNION {[1 .. k -> Blocks] : k \in 0 .. 3}
Ended == {t \o <<Bad("null")>> : t \in [1 .. 4 -> Tree]}

\* Bundles whose text is of any size and no archive.
Sizes == {0, 1, 180, 181, 11520, 11521, 18576, 18577, 40000, 40001, 100001}
Blobs == {[len |-> l, isize |-> i, size |-> s, sound |-> d, tape |-> <<>>] :
            l \in {0, 1, 17, 18, 19, 39, 4000, 10000, 10001}, i \in Sizes \ {100001}, s \in Sizes, d \in BOOLEAN}

MCInputs == {Bundle(t, 0) : t \in Tapes} \cup {Bundle(t, 1) : t \in Tapes \ {<<>>}} \cup {Bundle(t, 0) : t \in Ended} \cup Blobs

\* A place: what the destination is, and what is at a and b below it.
Place(d, a, b) == [p \in MCPaths |-> CASE p = <<>> -> d [] p = A -> a [] p = B -> b [] p = AB -> "none"]
MCPlaces == {Place(d, "none", "none") : d \in {"none", "never", "link", "file"}}
            \cup {Place("dir", a, "none") : a \in {"none", "dir", "file", "link"}}
=============================================================================
