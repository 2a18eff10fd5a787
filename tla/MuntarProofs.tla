---------------------------- MODULE MuntarProofs ----------------------------
(***************************************************************************)
(* For any bundle, any destination and any size of a block: the extraction *)
(* stays inside its memory, makes nothing from a broken archive, keeps     *)
(* what it finds, and makes every file of a tree.                          *)
(***************************************************************************)
EXTENDS Muntar, SequenceTheorems, FiniteSetTheorems, WellFoundedInduction, TLAPS

Fits == Fresh /\ Intact /\ TarOrdered

\* The entry that an iteration looks at is the k-th of the archive.
AtEntry(k) ==
  /\ k \in 1 .. Len(Walk) + 1
  /\ k = Len(Walk) + 1 => offset = None
  /\ k # Len(Walk) + 1 => offset = Walk[k] /\ header = BlockAt(offset)

\* What has been made of the regular entries before the k-th.
FileOf(j) == [path |-> Entry(j).name, from |-> Walk[j] + Block, size |-> Entry(j).size, whole |-> TRUE]
WrittenTo(k) ==
  /\ Len(written) = Cardinality(FilesTo(k - 1))
  /\ \A j \in FilesTo(k - 1) : written[Cardinality(FilesTo(j))] = FileOf(j)

\* The destination of a tree, when the directories before the d-th entry and
\* the files before the f-th have been made.
Names(t, k) == {Entry(j).name : j \in {x \in 1 .. k - 1 : Entry(x).type = t}}
TreeDisk(d, f) ==
  [p \in Paths |-> IF p = <<>> \/ p \in Names("dir", d) THEN "dir"
                   ELSE IF p \in Names("reg", f) THEN "file" ELSE "none"]

Shape ==
  /\ input \in Inputs /\ found \in Places
  /\ disk \in [Paths -> {"none", "dir", "file", "link", "never"}]
  /\ phase \in {"gunzip", "load", "dirs", "files", "done"}
  /\ attempts \in 0 .. Attempts /\ destlen \in 0 .. Cap
  /\ phase # "done" => result = "none"
  /\ phase \in {"gunzip", "load"} => disk = found
  /\ phase \notin {"files", "done"} => written = <<>>

\* The buffer has been doubled at every try, up to the budget.
Share(k) == <<10, 20, 40, 80, 160, 320, 640, 1280>>[k + 1]
Guess ==
  phase = "gunzip" =>
    \/ destlen = 0 /\ attempts = 0
    \/ /\ destlen > 0 /\ attempts < Attempts
       /\ destlen = Smaller(Share(attempts) * input.len, Cap)

\* The first loop has seen every entry before the second begins.
Walking ==
  /\ phase = "dirs" => \E k \in 1 .. Len(Walk) + 1 :
       AtEntry(k) /\ (k = Len(Walk) + 1 => Intact) /\ (Fits => disk = TreeDisk(k, 1))
  /\ phase = "files" => \E k \in 1 .. Len(Walk) + 1 :
       /\ AtEntry(k) /\ Intact /\ WrittenTo(k)
       /\ Fits => disk = TreeDisk(Len(Walk) + 1, k)

Kept ==
  /\ \A p \in Paths : found[p] # "none" => disk[p] = found[p]
  /\ written \in Seq([path : Paths, from : Nat, size : Nat, whole : BOOLEAN])
  /\ \A j \in DOMAIN written :
       /\ found[written[j].path] = "none" /\ disk[written[j].path] = "file"
       /\ written[j].from + written[j].size <= max
       /\ \A k \in DOMAIN written : j # k => written[j].path # written[k].path
  /\ written # <<>> => Intact

IInv == Shape /\ Guess /\ Walking /\ Kept /\ NoFalseRefusal /\ SuccessIsAll /\ TreeSucceeds

-----------------------------------------------------------------------------
(* The walk over the archive *)

\* A set of numbers that is not empty has a smallest one.
LEMMA NatLeast ==
  ASSUME NEW T, T \subseteq Nat, T # {}
  PROVE  \E m \in T : \A k \in T : m <= k
<1> DEFINE R == {p \in Nat \X Nat : p[1] < p[2]}
<1>1. IsWellFoundedOn(R, Nat)
  BY NatLessThanWellFounded DEF OpToRel
<1> HIDE DEF R
<1>2. PICK m \in T : \A y \in T : ~(<<y, m>> \in R)
  BY <1>1, WFMin
<1>3. ASSUME NEW k \in T PROVE m <= k
  <2>1. k \in Nat /\ m \in Nat /\ ~(<<k, m>> \in R)
    BY <1>2
  <2> QED
    BY <2>1 DEF R
<1> QED
  BY <1>3

LEMMA SetInduction ==
  ASSUME NEW P, 0 \in P, \A n \in Nat : n \in P => n + 1 \in P
  PROVE  \A n \in Nat : n \in P
<1> SUFFICES ASSUME NEW n \in Nat, n \notin P PROVE FALSE
  OBVIOUS
<1> DEFINE T == {k \in Nat : k \notin P}
<1>1. PICK m \in T : \A k \in T : m <= k
  BY NatLeast
<1>2. m # 0 /\ m - 1 \in Nat /\ m - 1 \in P
  BY <1>1
<1> QED
  BY <1>1, <1>2

\* The next header lies behind the entry.
LEMMA FollowingAfter ==
  ASSUME NEW o \in Nat, NEW size \in Nat
  PROVE  Following(o, size) \in Nat /\ Following(o, size) >= o + Block + size
<1> DEFINE a == o + Block + size + Block - 1
           q == a \div Block
<1>1. Block \in Nat \ {0} /\ a \in Nat
  BY SizesAssumption DEF SizesAssumption
<1>2. q \in Nat /\ q * Block <= a /\ a < q * Block + Block
  BY <1>1, Z3
<1> HIDE DEF q
<1>3. q * Block \in Nat
  BY <1>1, <1>2
<1>4. Following(o, size) = q * Block
  BY DEF Following, q
<1> QED
  BY <1>1, <1>2, <1>3, <1>4

\* What a header that can be read is.
LEMMA HeaderType ==
  ASSUME input \in Inputs, NEW o \in Nat
  PROVE  /\ max \in Nat /\ Block \in Nat \ {0}
         /\ HeaderAt(o) \in {"seekfail", "failure", "ok"} \cup Broken
         /\ HeaderAt(o) = "ok" =>
              /\ o \in 0 .. max - Block
              /\ BlockAt(o).type \in {"reg", "dir", "other"} /\ BlockAt(o).size \in Nat
              /\ BlockAt(o).safe => BlockAt(o).name \in Paths \ {<<>>}
<1>1. max \in Nat /\ Block \in Nat \ {0}
  BY InputsAssumption, SizesAssumption DEF InputsAssumption, SizesAssumption, max
<1>2. /\ HeaderAt(o) \in {"seekfail", "failure", "ok"} \cup Broken
      /\ HeaderAt(o) = "ok" => o <= max - Block /\ BlockAt(o).type \notin Broken
  BY <1>1 DEF HeaderAt, Broken
<1>3. ASSUME BlockAt(o).type \notin Broken
      PROVE  /\ BlockAt(o).type \in {"reg", "dir", "other"} /\ BlockAt(o).size \in Nat
             /\ BlockAt(o).safe => BlockAt(o).name \in Paths \ {<<>>}
  <2> DEFINE k == (o \div Block) + 1
  <2>1. NoHeader.type \in Broken
    BY DEF NoHeader, Broken
  <2>2. k \in DOMAIN input.tape /\ BlockAt(o) = input.tape[k]
    BY <1>3, <2>1 DEF BlockAt
  <2> QED
    BY <1>3, <2>2, InputsAssumption DEF InputsAssumption
<1> QED
  BY <1>1, <1>2, <1>3

\* The recursive equation of Entries, and that it has a solution.
Unfold(f, o) ==
  IF HeaderAt(o) # "ok" THEN <<>>
  ELSE LET next == Following(o, BlockAt(o).size) IN
       <<o>> \o (IF next <= max THEN f[next] ELSE <<>>)

LEMMA NextIsBehind ==
  ASSUME input \in Inputs, NEW o \in Nat, HeaderAt(o) = "ok"
  PROVE  /\ Following(o, BlockAt(o).size) \in Nat
         /\ Following(o, BlockAt(o).size) >= o + Block + BlockAt(o).size
         /\ Following(o, BlockAt(o).size) > o
<1>1. BlockAt(o).size \in Nat /\ Block \in Nat \ {0}
  BY HeaderType
<1>2. /\ Following(o, BlockAt(o).size) \in Nat
      /\ Following(o, BlockAt(o).size) >= o + Block + BlockAt(o).size
  BY <1>1, FollowingAfter
<1> QED
  BY <1>1, <1>2

LEMMA EntriesExist ==
  ASSUME input \in Inputs
  PROVE  \E f : f = [o \in 0 .. max |-> Unfold(f, o)]
<1>1. max \in Nat
  BY HeaderType
<1> DEFINE Solves(f, n) == f = [o \in max - n .. max |-> Unfold(f, o)]
           P == {n \in Nat : n <= max => \E f : Solves(f, n)}
<1>2. 0 \in P
  <2> DEFINE f == [o \in max - 0 .. max |-> <<>>]
  <2>1. ASSUME NEW o \in max - 0 .. max PROVE Unfold(f, o) = <<>>
    <3>1. o = max /\ HeaderAt(o) # "ok"
      BY <1>1, HeaderType
    <3> QED
      BY <3>1 DEF Unfold
  <2>2. Solves(f, 0)
    BY <2>1
  <2> QED
    BY <2>2
<1>3. ASSUME NEW n \in Nat, n \in P PROVE n + 1 \in P
  <2> SUFFICES ASSUME n + 1 <= max PROVE \E g : Solves(g, n + 1)
    BY <1>1
  <2>1. PICK f : Solves(f, n)
    BY <1>1, <1>3
  <2> DEFINE D == max - (n + 1) .. max
             g == [o \in D |-> IF o \in max - n .. max THEN f[o] ELSE Unfold(f, o)]
  <2>2. ASSUME NEW o \in D PROVE Unfold(g, o) = Unfold(f, o)
    <3>1. CASE HeaderAt(o) # "ok"
      BY <3>1 DEF Unfold
    <3>2. CASE HeaderAt(o) = "ok"
      <4> DEFINE next == Following(o, BlockAt(o).size)
      <4>1. o \in Nat /\ o >= max - (n + 1)
        BY <1>1
      <4>2. next \in Nat /\ next > o
        BY <3>2, <4>1, NextIsBehind
      <4> HIDE DEF next
      <4>3. next <= max => next \in D /\ next \in max - n .. max
        BY <1>1, <4>1, <4>2
      <4>4. next <= max => g[next] = f[next]
        BY <4>3
      <4> HIDE DEF g
      <4>5. CASE next <= max
        <5>1. Unfold(g, o) = <<o>> \o g[next] /\ Unfold(f, o) = <<o>> \o f[next]
          BY <3>2, <4>5 DEF Unfold, next
        <5> QED
          BY <4>4, <4>5, <5>1
      <4>6. CASE ~(next <= max)
        BY <3>2, <4>6 DEF Unfold, next
      <4> QED
        BY <4>5, <4>6
    <3> QED
      BY <3>1, <3>2
  <2>3. ASSUME NEW o \in D PROVE g[o] = Unfold(g, o)
    <3>1. o \in max - n .. max => f[o] = Unfold(f, o)
      BY <2>1
    <3> QED
      BY <2>2, <3>1
  <2>4. Solves(g, n + 1)
    BY <2>3
  <2> QED
    BY <2>4
<1> HIDE DEF P
<1>4. \A n \in Nat : n \in P
  BY <1>2, <1>3, SetInduction
<1>5. PICK f : Solves(f, max)
  BY <1>1, <1>4 DEF P
<1> QED
  BY <1>1, <1>5

LEMMA EntriesUnfold ==
  ASSUME input \in Inputs, NEW o \in 0 .. max
  PROVE  Entries[o] = Unfold(Entries, o)
<1>1. Entries = [x \in 0 .. max |-> Unfold(Entries, x)]
  BY EntriesExist DEF Entries, Unfold
<1> QED
  BY <1>1

\* What the walk from o on is: from header to header, to the last.
Chain(w, o) ==
  /\ w \in Seq(0 .. max)
  /\ w # <<>> <=> HeaderAt(o) = "ok"
  /\ w # <<>> => w[1] = o /\ HeaderAt(Following(w[Len(w)], BlockAt(w[Len(w)]).size)) # "ok"
  /\ \A k \in 1 .. Len(w) : HeaderAt(w[k]) = "ok"
  /\ \A k \in 1 .. Len(w) - 1 : w[k + 1] = Following(w[k], BlockAt(w[k]).size)

LEMMA ChainLonger ==
  ASSUME input \in Inputs, NEW o \in 0 .. max, HeaderAt(o) = "ok",
         NEW w, Chain(w, Following(o, BlockAt(o).size))
  PROVE  Chain(<<o>> \o w, o)
<1> DEFINE next == Following(o, BlockAt(o).size)
           v == <<o>> \o w
<1>1. w \in Seq(0 .. max) /\ Len(w) \in Nat /\ (w # <<>> <=> Len(w) # 0)
  <2>1. w \in Seq(0 .. max)
    BY DEF Chain
  <2> QED
    BY <2>1, LenProperties, EmptySeq
<1>2. /\ v \in Seq(0 .. max) /\ Len(v) = 1 + Len(w) /\ v[1] = o
      /\ \A k \in 1 .. Len(w) : v[k + 1] = w[k]
  <2>1. <<o>> \in Seq(0 .. max) /\ Len(<<o>>) = 1 /\ <<o>>[1] = o
    OBVIOUS
  <2>2. /\ v \in Seq(0 .. max) /\ Len(v) = 1 + Len(w)
        /\ \A k \in 1 .. 1 + Len(w) : v[k] = IF k <= 1 THEN <<o>>[k] ELSE w[k - 1]
    BY <1>1, <2>1, ConcatProperties
  <2> HIDE DEF v
  <2>3. ASSUME NEW k \in 1 .. Len(w) PROVE v[k + 1] = w[k]
    <3>1. k + 1 \in 1 .. 1 + Len(w) /\ ~(k + 1 <= 1) /\ k + 1 - 1 = k
      BY <1>1
    <3> QED
      BY <2>2, <3>1
  <2> QED
    BY <1>1, <2>1, <2>2, <2>3
<1> HIDE DEF v
<1>3. v # <<>> /\ Len(v) # 0
  BY <1>1, <1>2, EmptySeq
<1>4. ASSUME NEW k \in 1 .. Len(v) PROVE HeaderAt(v[k]) = "ok"
  <2>1. CASE k = 1
    BY <1>2, <2>1
  <2>2. CASE k # 1
    <3>1. k - 1 \in 1 .. Len(w) /\ k - 1 + 1 = k
      BY <1>1, <1>2, <2>2
    <3> QED
      BY <1>2, <3>1 DEF Chain
  <2> QED
    BY <2>1, <2>2
<1>5. ASSUME NEW k \in 1 .. Len(v) - 1 PROVE v[k + 1] = Following(v[k], BlockAt(v[k]).size)
  <2>1. k \in 1 .. Len(w) /\ v[k + 1] = w[k]
    BY <1>1, <1>2
  <2>2. CASE k = 1
    <3>1. w[1] = next /\ v[1] = o
      BY <1>1, <1>2, <2>1 DEF Chain
    <3> QED
      BY <2>1, <2>2, <3>1
  <2>3. CASE k # 1
    <3>1. k - 1 \in 1 .. Len(w) - 1 /\ k - 1 \in 1 .. Len(w) /\ k - 1 + 1 = k
      BY <1>1, <2>1, <2>3
    <3>2. v[k] = w[k - 1] /\ w[k] = Following(w[k - 1], BlockAt(w[k - 1]).size)
      BY <1>2, <3>1 DEF Chain
    <3> QED
      BY <2>1, <3>2
  <2> QED
    BY <2>2, <2>3
<1>6. HeaderAt(Following(v[Len(v)], BlockAt(v[Len(v)]).size)) # "ok"
  <2>1. CASE w = <<>>
    <3>1. v[Len(v)] = o
      BY <1>1, <1>2, <2>1
    <3> QED
      BY <2>1, <3>1 DEF Chain
  <2>2. CASE w # <<>>
    <3>1. Len(w) \in 1 .. Len(w) /\ Len(v) = Len(w) + 1
      BY <1>1, <1>2, <2>2
    <3>2. v[Len(v)] = w[Len(w)]
      BY <1>2, <3>1
    <3> QED
      BY <2>2, <3>2 DEF Chain
  <2> QED
    BY <2>1, <2>2
<1>7. Chain(v, o)
  BY <1>2, <1>3, <1>4, <1>5, <1>6 DEF Chain
<1> QED
  BY <1>7 DEF v

LEMMA EntriesChain ==
  ASSUME input \in Inputs
  PROVE  \A o \in 0 .. max : Chain(Entries[o], o)
<1>1. max \in Nat
  BY HeaderType
<1> SUFFICES ASSUME NEW x \in 0 .. max, ~Chain(Entries[x], x) PROVE FALSE
  OBVIOUS
\* The last offset from which it is not.
<1> DEFINE T == {n \in Nat : n <= max /\ ~Chain(Entries[max - n], max - n)}
<1>2. T # {}
  <2>1. max - x \in Nat /\ max - x <= max /\ max - (max - x) = x
    BY <1>1
  <2> QED
    BY <2>1
<1>3. PICK m \in T : \A k \in T : m <= k
  BY <1>2, NatLeast
<1> DEFINE o == max - m
           next == Following(o, BlockAt(o).size)
<1>4. o \in 0 .. max /\ o \in Nat /\ ~Chain(Entries[o], o)
  BY <1>1, <1>3
<1>5. Entries[o] = Unfold(Entries, o)
  BY <1>4, EntriesUnfold
<1>6. HeaderAt(o) = "ok"
  <2>1. ASSUME HeaderAt(o) # "ok" PROVE FALSE
    <3>1. Entries[o] = <<>>
      BY <1>5, <2>1 DEF Unfold
    <3>2. <<>> \in Seq(0 .. max) /\ Len(<<>>) = 0
      OBVIOUS
    <3> QED
      BY <1>4, <2>1, <3>1, <3>2 DEF Chain
  <2> QED
    BY <2>1
<1>7. next \in Nat /\ next > o
  BY <1>4, <1>6, NextIsBehind
<1> DEFINE w == IF next <= max THEN Entries[next] ELSE <<>>
<1>8. Entries[o] = <<o>> \o w
  BY <1>5, <1>6 DEF Unfold
<1> HIDE DEF next
<1>9. Chain(w, next)
  <2>1. CASE next <= max
    <3>1. max - next \in Nat /\ max - next < m /\ max - next <= max /\ max - (max - next) = next
      BY <1>1, <1>3, <1>4, <1>7, <2>1
    <3>2. max - next \notin T
      BY <1>3, <3>1
    <3> QED
      BY <2>1, <3>1, <3>2
  <2>2. CASE ~(next <= max)
    <3>1. HeaderAt(next) # "ok"
      BY <1>1, <1>7, <2>2, HeaderType
    <3>2. <<>> \in Seq(0 .. max) /\ Len(<<>>) = 0
      OBVIOUS
    <3> QED
      BY <2>2, <3>1, <3>2 DEF Chain
  <2> QED
    BY <2>1, <2>2
<1> HIDE DEF w, T, o
<1>10. Chain(<<o>> \o w, o)
  BY <1>4, <1>6, <1>9, ChainLonger DEF next
<1> QED
  BY <1>4, <1>8, <1>10

LEMMA WalkProperties ==
  ASSUME input \in Inputs
  PROVE  /\ Chain(Walk, 0)
         /\ Walk \in Seq(0 .. max) /\ Len(Walk) \in Nat /\ (Walk # <<>> <=> Len(Walk) # 0)
<1>1. max \in Nat
  BY HeaderType
<1>2. CASE max = 0
  <2>1. HeaderAt(0) # "ok"
    BY <1>2, HeaderType
  <2>2. <<>> \in Seq(0 .. max) /\ Len(<<>>) = 0
    OBVIOUS
  <2>3. Walk = <<>>
    BY <1>2 DEF Walk
  <2> QED
    BY <2>1, <2>2, <2>3 DEF Chain
<1>3. CASE max # 0
  <2>1. Walk = Entries[0] /\ 0 \in 0 .. max
    BY <1>1, <1>3 DEF Walk
  <2>2. Chain(Walk, 0)
    BY <2>1, EntriesChain
  <2>3. Walk \in Seq(0 .. max)
    BY <2>2 DEF Chain
  <2> QED
    BY <2>2, <2>3, LenProperties, EmptySeq
<1> QED
  BY <1>2, <1>3

\* Each entry, and the one after it.
LEMMA EntryProperties ==
  ASSUME input \in Inputs, NEW k \in 1 .. Len(Walk)
  PROVE  /\ Walk[k] \in 0 .. max - Block /\ Walk[k] \in Nat /\ HeaderAt(Walk[k]) = "ok"
         /\ Entry(k).type \in {"reg", "dir", "other"} /\ Entry(k).size \in Nat
         /\ Entry(k).safe => Entry(k).name \in Paths \ {<<>>}
         /\ LET next == Following(Walk[k], Entry(k).size) IN
            /\ next \in Nat
            /\ k # Len(Walk) => /\ k + 1 \in 1 .. Len(Walk) /\ Walk[k + 1] = next
                               /\ HeaderAt(next) = "ok"
                               /\ Entry(k).size <= max - Walk[k] - Block
            /\ k = Len(Walk) => HeaderAt(next) # "ok"
<1>1. Walk \in Seq(0 .. max) /\ Len(Walk) \in Nat /\ Chain(Walk, 0) /\ Walk # <<>>
  BY WalkProperties
<1>2. HeaderAt(Walk[k]) = "ok" /\ Walk[k] \in 0 .. max
  BY <1>1, ElementOfSeq DEF Chain
<1>3. Walk[k] \in Nat
  BY <1>2, HeaderType
<1>4. /\ max \in Nat /\ Block \in Nat /\ Walk[k] \in 0 .. max - Block
      /\ Entry(k).type \in {"reg", "dir", "other"} /\ Entry(k).size \in Nat
      /\ Entry(k).safe => Entry(k).name \in Paths \ {<<>>}
  BY <1>2, <1>3, HeaderType DEF Entry
<1> DEFINE next == Following(Walk[k], Entry(k).size)
<1>5. next \in Nat /\ next >= Walk[k] + Block + Entry(k).size
  BY <1>2, <1>3, NextIsBehind DEF Entry
<1>6. k = Len(Walk) => HeaderAt(next) # "ok"
  BY <1>1 DEF Chain, Entry
<1>7. ASSUME k # Len(Walk)
      PROVE  k + 1 \in 1 .. Len(Walk) /\ Walk[k + 1] = next /\ HeaderAt(next) = "ok"
  <2>1. k \in 1 .. Len(Walk) - 1 /\ k + 1 \in 1 .. Len(Walk)
    BY <1>1, <1>7
  <2>2. Walk[k + 1] = next /\ HeaderAt(Walk[k + 1]) = "ok"
    BY <1>1, <2>1 DEF Chain, Entry
  <2> QED
    BY <2>1, <2>2
<1> HIDE DEF next
<1>8. ASSUME k # Len(Walk) PROVE Entry(k).size <= max - Walk[k] - Block
  <2>1. next \in 0 .. max - Block
    BY <1>5, <1>7, <1>8, HeaderType
  <2> QED
    BY <1>3, <1>4, <1>5, <2>1
<1> QED
  BY <1>2, <1>3, <1>4, <1>5, <1>6, <1>7, <1>8 DEF next

\* What mtar_next says at the k-th entry.
LEMMA NextProperties ==
  ASSUME input \in Inputs, NEW k \in 1 .. Len(Walk), AtEntry(k)
  PROVE  /\ offset = Walk[k] /\ header = Entry(k) /\ offset \in Nat /\ Len(Walk) \in Nat
         /\ NextEntry.res \in {"ok", "seekfail", "failure", "readfail"} \cup Broken
         /\ NextEntry.res = "ok" => k + 1 \in 1 .. Len(Walk) /\ NextEntry.offset = Walk[k + 1]
         /\ NextEntry.res = "null" => k = Len(Walk) /\ Intact /\ NextEntry.offset = None
         /\ Intact => ~Fatal(NextEntry.res) /\ header.size <= max - cursor
<1>1. Len(Walk) \in Nat /\ max \in Nat /\ Block \in Nat \ {0} /\ (Walk # <<>> <=> Len(Walk) # 0)
  BY WalkProperties, HeaderType
<1>2. offset = Walk[k] /\ header = Entry(k)
  BY <1>1 DEF AtEntry, Entry
<1> DEFINE next == Following(Walk[k], Entry(k).size)
<1>3. /\ Walk[k] \in Nat /\ Entry(k).size \in Nat /\ next \in Nat
      /\ k # Len(Walk) => /\ k + 1 \in 1 .. Len(Walk) /\ Walk[k + 1] = next
                         /\ HeaderAt(next) = "ok"
                         /\ Entry(k).size <= max - Walk[k] - Block
      /\ k = Len(Walk) => HeaderAt(next) # "ok"
  BY EntryProperties
<1>4. NextEntry = CASE Entry(k).size > max - (Walk[k] + Block) -> [res |-> "readfail", offset |-> Walk[k]]
                    [] Entry(k).size <= max - (Walk[k] + Block) ->
                         [res |-> HeaderAt(next), offset |-> IF HeaderAt(next) = "ok" THEN next ELSE None]
  BY <1>2 DEF NextEntry, cursor
<1> HIDE DEF next
<1>5. HeaderAt(next) \in {"seekfail", "failure", "ok"} \cup Broken
  BY <1>3, HeaderType
<1>6. max - Walk[k] - Block = max - (Walk[k] + Block)
  BY <1>1, <1>3
<1>7. Intact <=> /\ Entry(Len(Walk)).size <= max - Walk[Len(Walk)] - Block
                 /\ HeaderAt(Following(Walk[Len(Walk)], Entry(Len(Walk)).size)) = "null"
  BY <1>1 DEF Intact
<1>8. CASE Entry(k).size > max - (Walk[k] + Block)
  <2>1. NextEntry = [res |-> "readfail", offset |-> Walk[k]] /\ k = Len(Walk)
    BY <1>1, <1>3, <1>4, <1>6, <1>8
  <2>2. ~Intact
    BY <1>1, <1>3, <1>6, <1>7, <1>8, <2>1
  <2> QED
    BY <1>1, <1>2, <1>3, <2>1, <2>2 DEF Broken
<1>9. CASE Entry(k).size <= max - (Walk[k] + Block)
  <2>1. NextEntry = [res |-> HeaderAt(next), offset |-> IF HeaderAt(next) = "ok" THEN next ELSE None]
    BY <1>1, <1>3, <1>4, <1>9
  <2>2. k = Len(Walk) => (Intact <=> HeaderAt(next) = "null")
    BY <1>6, <1>7, <1>9 DEF next
  <2>3. header.size <= max - cursor
    BY <1>2, <1>9 DEF cursor
  <2> QED
    BY <1>1, <1>2, <1>3, <1>5, <2>1, <2>2, <2>3 DEF Fatal
<1> QED
  BY <1>1, <1>3, <1>8, <1>9

\* The bundle does not change, and nothing that is said of it does.
LEMMA SameWalk ==
  ASSUME UNCHANGED input
  PROVE  /\ max' = max /\ Walk' = Walk
         /\ \A o : HeaderAt(o)' = HeaderAt(o) /\ BlockAt(o)' = BlockAt(o)
         /\ \A k : Entry(k)' = Entry(k)
<1>1. max' = max /\ \A o : HeaderAt(o)' = HeaderAt(o) /\ BlockAt(o)' = BlockAt(o)
  BY DEF max, HeaderAt, BlockAt
<1>2. Entries' = Entries
  BY DEF Entries, HeaderAt, BlockAt, Following, max
<1>3. Walk' = Walk
  BY <1>1, <1>2 DEF Walk
<1> QED
  BY <1>1, <1>3 DEF Entry, BlockAt

LEMMA SameArchive ==
  ASSUME UNCHANGED input
  PROVE  /\ Intact' = Intact /\ TarOrdered' = TarOrdered
         /\ \A k : FilesTo(k)' = FilesTo(k) /\ FileOf(k)' = FileOf(k) /\ Regular(k)' = Regular(k)
         /\ \A d, f : TreeDisk(d, f)' = TreeDisk(d, f)
<1>1. /\ Walk' = Walk /\ \A o : HeaderAt(o)' = HeaderAt(o) /\ BlockAt(o)' = BlockAt(o)
      /\ max' = max /\ \A k : Entry(k)' = Entry(k)
  BY SameWalk
<1>2. Intact' = Intact
  BY <1>1 DEF Intact
<1>3. TarOrdered' = TarOrdered
  BY <1>1 DEF TarOrdered, Regular
<1>4. \A k : FilesTo(k)' = FilesTo(k) /\ FileOf(k)' = FileOf(k) /\ Regular(k)' = Regular(k)
  BY <1>1 DEF FilesTo, FileOf, Regular
<1>5. \A t, k : Names(t, k)' = Names(t, k)
  BY <1>1 DEF Names
<1>6. \A d, f : TreeDisk(d, f)' = TreeDisk(d, f)
  BY <1>5 DEF TreeDisk
<1> QED
  BY <1>2, <1>3, <1>4, <1>6

\* The end of an iteration: the next entry, the end of a walk that has seen an
\* archive that is intact, or the end of the extraction.
LEMMA AdvanceProperties ==
  ASSUME input \in Inputs, UNCHANGED input, NEW k \in 1 .. Len(Walk), AtEntry(k), Advance
  PROVE  \/ /\ UNCHANGED <<phase, result>> /\ k + 1 \in 1 .. Len(Walk) + 1
            /\ AtEntry(k + 1)' /\ (k = Len(Walk) => Intact)
         \/ /\ phase' = "done" /\ ~Intact
            /\ result' \in {"seekfail", "failure", "readfail"} \cup Broken
<1>1. /\ offset = Walk[k] /\ Len(Walk) \in Nat
      /\ NextEntry.res \in {"ok", "seekfail", "failure", "readfail"} \cup Broken
      /\ NextEntry.res = "ok" => k + 1 \in 1 .. Len(Walk) /\ NextEntry.offset = Walk[k + 1]
      /\ NextEntry.res = "null" => k = Len(Walk) /\ Intact /\ NextEntry.offset = None
      /\ Intact => ~Fatal(NextEntry.res)
  BY NextProperties
<1>2. /\ offset' = NextEntry.offset
      /\ header' = IF NextEntry.res = "ok" THEN BlockAt(NextEntry.offset) ELSE header
      /\ IF Fatal(NextEntry.res) THEN phase' = "done" /\ result' = NextEntry.res
         ELSE UNCHANGED <<phase, result>>
  BY DEF Advance, Return
<1>3. Walk' = Walk /\ \A o : BlockAt(o)' = BlockAt(o)
  BY SameWalk
<1>4. CASE Fatal(NextEntry.res)
  BY <1>1, <1>2, <1>4 DEF Fatal
<1>5. CASE NextEntry.res = "ok"
  <2>1. k + 1 # Len(Walk) + 1 /\ k + 1 \in 1 .. Len(Walk) + 1 /\ k # Len(Walk)
    BY <1>1, <1>5
  <2>2. offset' = Walk[k + 1] /\ header' = BlockAt(Walk[k + 1])
    BY <1>1, <1>2, <1>5
  <2>3. header' = BlockAt(offset)'
    <3>1. BlockAt(offset') = BlockAt(offset)'
      BY DEF BlockAt
    <3> QED
      BY <2>2, <3>1
  <2>4. AtEntry(k + 1)'
    BY <1>3, <2>1, <2>2, <2>3 DEF AtEntry
  <2> QED
    BY <1>2, <1>5, <2>1, <2>4 DEF Fatal
<1>6. CASE NextEntry.res = "null"
  <2>1. k = Len(Walk) /\ Intact /\ offset' = None /\ k + 1 \in 1 .. Len(Walk) + 1
    BY <1>1, <1>2, <1>6
  <2>2. AtEntry(k + 1)'
    BY <1>3, <2>1 DEF AtEntry
  <2> QED
    BY <1>2, <1>6, <2>1, <2>2 DEF Fatal
<1> QED
  BY <1>4, <1>5, <1>6 DEF Fatal

-----------------------------------------------------------------------------
(* What is kept and what is counted *)

Record == [path : Paths, from : Nat, size : Nat, whole : BOOLEAN]

LEMMA KeptStays == Kept /\ UNCHANGED <<input, found, disk, written>> => Kept'
<1> SUFFICES ASSUME Kept, UNCHANGED <<input, found, disk, written>> PROVE Kept'
  OBVIOUS
<1>1. max' = max /\ Intact' = Intact
  BY SameWalk, SameArchive
<1> QED
  BY <1>1 DEF Kept

\* What is made is made where nothing is.
LEMMA KeptMade ==
  ASSUME Kept, disk \in [Paths -> {"none", "dir", "file", "link", "never"}],
         UNCHANGED <<input, found, written>>,
         NEW p \in Paths, disk[p] = "none", disk' = [disk EXCEPT ![p] = "dir"]
  PROVE  Kept'
<1>1. max' = max /\ Intact' = Intact
  BY SameWalk, SameArchive
<1>2. \A q \in Paths : disk[q] # "none" => disk'[q] = disk[q]
  OBVIOUS
<1>3. \A q \in Paths : found[q] # "none" => disk'[q] = found[q]
  BY <1>2 DEF Kept
<1>4. ASSUME NEW j \in DOMAIN written PROVE disk'[written[j].path] = "file"
  <2>1. written \in Seq(Record) /\ disk[written[j].path] = "file"
    BY DEF Kept, Record
  <2>2. written[j] \in Record
    BY <2>1, LenProperties, ElementOfSeq
  <2>3. written[j].path \in Paths
    BY <2>2 DEF Record
  <2> QED
    BY <1>2, <2>1, <2>3
<1> QED
  BY <1>1, <1>3, <1>4 DEF Kept

LEMMA KeptWritten ==
  ASSUME Kept, disk \in [Paths -> {"none", "dir", "file", "link", "never"}],
         UNCHANGED <<input, found>>, Intact,
         NEW w \in Record, disk[w.path] = "none", disk' = [disk EXCEPT ![w.path] = "file"],
         w.from + w.size <= max, written' = Append(written, w)
  PROVE  Kept'
<1>1. max' = max /\ Intact' = Intact
  BY SameWalk, SameArchive
<1>2. w.path \in Paths
  BY DEF Record
<1>3. disk'[w.path] = "file" /\ \A q \in Paths : disk[q] # "none" => disk'[q] = disk[q]
  BY <1>2
<1>4. \A q \in Paths : found[q] # "none" => disk'[q] = found[q]
  BY <1>3 DEF Kept
<1>5. written \in Seq(Record) /\ Len(written) \in Nat /\ DOMAIN written = 1 .. Len(written)
  <2>1. written \in Seq(Record)
    BY DEF Kept, Record
  <2> QED
    BY <2>1, LenProperties
<1>6. /\ written' \in Seq(Record) /\ DOMAIN written' = 1 .. Len(written) + 1
      /\ written'[Len(written) + 1] = w
      /\ \A j \in 1 .. Len(written) : written'[j] = written[j]
  <2>1. written' \in Seq(Record) /\ Len(written') = Len(written) + 1
        /\ written'[Len(written) + 1] = w
        /\ \A j \in 1 .. Len(written) : written'[j] = written[j]
    BY <1>5, AppendProperties
  <2> QED
    BY <2>1, LenProperties
<1>7. ASSUME NEW j \in 1 .. Len(written)
      PROVE  /\ found[written[j].path] = "none" /\ disk[written[j].path] = "file"
             /\ disk'[written[j].path] = "file" /\ written[j].path # w.path
             /\ written[j].from + written[j].size <= max
             /\ \A k \in 1 .. Len(written) : j # k => written[j].path # written[k].path
  <2>1. /\ found[written[j].path] = "none" /\ disk[written[j].path] = "file"
        /\ written[j].from + written[j].size <= max
        /\ \A k \in 1 .. Len(written) : j # k => written[j].path # written[k].path
    BY <1>5 DEF Kept
  <2>2. written[j] \in Record
    BY <1>5, ElementOfSeq
  <2>3. written[j].path \in Paths
    BY <2>2 DEF Record
  <2> QED
    BY <1>3, <2>1, <2>3
<1>8. found[w.path] = "none"
  BY <1>2 DEF Kept
<1>9. written' # <<>>
  BY <1>5, <1>6
<1>10. ASSUME NEW j \in DOMAIN written'
       PROVE  /\ found[written'[j].path] = "none" /\ disk'[written'[j].path] = "file"
              /\ written'[j].from + written'[j].size <= max
              /\ \A k \in DOMAIN written' : j # k => written'[j].path # written'[k].path
  <2>1. CASE j \in 1 .. Len(written)
    <3>1. ASSUME NEW k \in DOMAIN written', j # k PROVE written'[j].path # written'[k].path
      <4>1. k \in 1 .. Len(written) \/ k = Len(written) + 1
        BY <1>5, <1>6
      <4> QED
        BY <1>6, <1>7, <2>1, <3>1, <4>1
    <3> QED
      BY <1>6, <1>7, <2>1, <3>1
  <2>2. CASE j = Len(written) + 1
    <3>1. ASSUME NEW k \in DOMAIN written', j # k PROVE k \in 1 .. Len(written)
      BY <1>5, <1>6, <2>2, <3>1
    <3> QED
      BY <1>3, <1>6, <1>7, <1>8, <2>2, <3>1
  <2> QED
    BY <1>5, <1>6, <2>1, <2>2
<1> QED
  BY <1>1, <1>4, <1>6, <1>9, <1>10 DEF Kept, Record

\* The regular entries, counted.
LEMMA FilesProperties ==
  ASSUME NEW k \in Nat \ {0}
  PROVE  /\ FilesTo(k - 1) \subseteq Nat /\ Cardinality(FilesTo(k - 1)) \in Nat
         /\ ~Regular(k) => FilesTo(k) = FilesTo(k - 1)
         /\ Regular(k) => /\ FilesTo(k) = FilesTo(k - 1) \cup {k}
                         /\ Cardinality(FilesTo(k)) = Cardinality(FilesTo(k - 1)) + 1
         /\ \A j \in FilesTo(k - 1) :
              Cardinality(FilesTo(j)) \in 1 .. Cardinality(FilesTo(k - 1))
<1>1. \A m \in Nat : IsFiniteSet(FilesTo(m)) /\ FilesTo(m) \subseteq 1 .. m
  <2>1. ASSUME NEW m \in Nat PROVE IsFiniteSet(FilesTo(m)) /\ FilesTo(m) \subseteq 1 .. m
    <3>1. FilesTo(m) \subseteq 1 .. m /\ IsFiniteSet(1 .. m)
      BY FS_Interval DEF FilesTo
    <3> QED
      BY <3>1, FS_Subset
  <2> QED
    BY <2>1
<1>2. k - 1 \in Nat /\ k \in Nat
  OBVIOUS
<1>3. FilesTo(k - 1) \subseteq Nat /\ Cardinality(FilesTo(k - 1)) \in Nat
  BY <1>1, <1>2, FS_CardinalityType
<1>4. ~Regular(k) => FilesTo(k) = FilesTo(k - 1)
  BY <1>2 DEF FilesTo
<1>5. ASSUME Regular(k)
      PROVE  /\ FilesTo(k) = FilesTo(k - 1) \cup {k}
             /\ Cardinality(FilesTo(k)) = Cardinality(FilesTo(k - 1)) + 1
  <2>1. FilesTo(k) = FilesTo(k - 1) \cup {k}
    BY <1>2, <1>5 DEF FilesTo
  <2>2. k \notin FilesTo(k - 1)
    BY <1>2 DEF FilesTo
  <2> QED
    BY <1>1, <1>2, <2>1, <2>2, FS_AddElement
<1>6. ASSUME NEW j \in FilesTo(k - 1)
      PROVE  Cardinality(FilesTo(j)) \in 1 .. Cardinality(FilesTo(k - 1))
  <2>1. j \in 1 .. k - 1 /\ j \in Nat /\ Regular(j)
    BY <1>2 DEF FilesTo
  <2>2. FilesTo(j) \subseteq FilesTo(k - 1) /\ j \in FilesTo(j)
    BY <1>2, <2>1 DEF FilesTo
  <2>3. /\ IsFiniteSet(FilesTo(j)) /\ IsFiniteSet(FilesTo(k - 1))
        /\ Cardinality(FilesTo(j)) <= Cardinality(FilesTo(k - 1))
    BY <1>1, <1>2, <2>1, <2>2, FS_Subset
  <2>4. Cardinality(FilesTo(j)) \in Nat /\ Cardinality(FilesTo(j)) # 0
    BY <2>2, <2>3, FS_CardinalityType, FS_EmptySet
  <2> QED
    BY <1>3, <2>3, <2>4
<1> QED
  BY <1>3, <1>4, <1>5, <1>6

LEMMA WrittenNext ==
  ASSUME NEW k \in Nat, Len(written') = Cardinality(FilesTo(k + 1 - 1)'),
         \A j \in FilesTo(k + 1 - 1)' : written'[Cardinality(FilesTo(j)')] = FileOf(j)'
  PROVE  WrittenTo(k + 1)'
BY DEF WrittenTo

LEMMA WrittenMore ==
  ASSUME UNCHANGED input, NEW k \in Nat \ {0}, WrittenTo(k), Regular(k),
         written \in Seq(Record), FileOf(k) \in Record, written' = Append(written, FileOf(k))
  PROVE  WrittenTo(k + 1)'
<1> DEFINE n == Cardinality(FilesTo(k - 1))
<1>1. /\ FilesTo(k) = FilesTo(k - 1) \cup {k} /\ Cardinality(FilesTo(k)) = n + 1 /\ n \in Nat
      /\ \A j \in FilesTo(k - 1) : Cardinality(FilesTo(j)) \in 1 .. n
      /\ k + 1 - 1 = k
  BY FilesProperties
<1>2. Len(written) = n /\ \A j \in FilesTo(k - 1) : written[Cardinality(FilesTo(j))] = FileOf(j)
  BY DEF WrittenTo
<1> HIDE DEF n
<1>3. /\ Len(written') = n + 1 /\ written'[n + 1] = FileOf(k)
      /\ \A j \in 1 .. n : written'[j] = written[j]
  BY <1>2, AppendProperties
<1>4. \A j \in FilesTo(k) : written'[Cardinality(FilesTo(j))] = FileOf(j)
  BY <1>1, <1>2, <1>3
<1>5. \A j : FilesTo(j)' = FilesTo(j) /\ FileOf(j)' = FileOf(j)
  BY SameArchive
<1>6. Len(written') = Cardinality(FilesTo(k)) /\ k + 1 - 1 = k
  BY <1>1, <1>3
<1>7. FilesTo(k + 1 - 1)' = FilesTo(k)
  BY <1>5, <1>6
<1>8. ASSUME NEW j \in FilesTo(k + 1 - 1)' PROVE written'[Cardinality(FilesTo(j)')] = FileOf(j)'
  BY <1>4, <1>5, <1>7
<1>9. Len(written)' = Cardinality(FilesTo(k + 1 - 1))'
  BY <1>6, <1>7
<1> QED
  BY <1>8, <1>9, WrittenNext

LEMMA WrittenStays ==
  ASSUME UNCHANGED <<input, written>>, NEW k \in Nat \ {0}, WrittenTo(k), ~Regular(k)
  PROVE  WrittenTo(k + 1)'
<1>1. FilesTo(k) = FilesTo(k - 1) /\ k + 1 - 1 = k
  BY FilesProperties
<1>2. \A j : FilesTo(j)' = FilesTo(j) /\ FileOf(j)' = FileOf(j)
  BY SameArchive
<1> QED
  BY <1>1, <1>2 DEF WrittenTo

-----------------------------------------------------------------------------
(* The tree *)

LEMMA NamesHas ==
  ASSUME NEW k, NEW j \in 1 .. k - 1, NEW t, Entry(j).type = t
  PROVE  Entry(j).name \in Names(t, k)
BY DEF Names

LEMMA NamesNext ==
  ASSUME NEW k \in Nat \ {0}, NEW t
  PROVE  Names(t, k + 1) = IF Entry(k).type = t THEN Names(t, k) \cup {Entry(k).name} ELSE Names(t, k)
<1>1. \A x : x \in 1 .. k + 1 - 1 <=> x \in 1 .. k - 1 \/ x = k
  OBVIOUS
<1>2. CASE Entry(k).type = t
  <2>1. Names(t, k + 1) \subseteq Names(t, k) \cup {Entry(k).name}
    BY <1>1 DEF Names
  <2>2. Names(t, k) \cup {Entry(k).name} \subseteq Names(t, k + 1)
    BY <1>1, <1>2 DEF Names
  <2> QED
    BY <1>2, <2>1, <2>2
<1>3. CASE Entry(k).type # t
  <2>1. {x \in 1 .. k + 1 - 1 : Entry(x).type = t} = {x \in 1 .. k - 1 : Entry(x).type = t}
    BY <1>1, <1>3
  <2> QED
    BY <1>3, <2>1 DEF Names
<1> QED
  BY <1>2, <1>3

\* The directories around a path.
LEMMA PathProperties ==
  ASSUME NEW p \in Paths \ {<<>>}
  PROVE  /\ Parent(p) \in Paths /\ Ancestors(p) \subseteq Paths
         /\ Len(p) = 1 => Parent(p) = <<>>
<1>1. /\ p \in Seq(STRING) /\ <<>> \in Paths
      /\ \A k \in 0 .. Len(p) : SubSeq(p, 1, k) \in Paths
  BY PlacesAssumption DEF PlacesAssumption
<1>2. Len(p) \in Nat \ {0}
  BY <1>1, LenProperties, EmptySeq
<1>3. Len(p) = 1 => Parent(p) = <<>>
  BY <1>1, <1>2, SubSeqEmpty DEF Parent
<1>4. Len(p) - 1 \in 0 .. Len(p) /\ \A k \in 0 .. Len(p) - 1 : k \in 0 .. Len(p)
  BY <1>2
<1>5. Parent(p) \in Paths
  BY <1>1, <1>4 DEF Parent
<1>6. Ancestors(p) \subseteq Paths
  BY <1>1, <1>4 DEF Ancestors
<1> QED
  BY <1>3, <1>5, <1>6

LEMMA TreeDiskType ==
  ASSUME NEW d, NEW f
  PROVE  /\ DOMAIN TreeDisk(d, f) = Paths
         /\ \A p \in Paths : TreeDisk(d, f)[p] =
              IF p = <<>> \/ p \in Names("dir", d) THEN "dir"
              ELSE IF p \in Names("reg", f) THEN "file" ELSE "none"
         /\ \A p \in Paths : TreeDisk(d, f)[p] # "link"
BY DEF TreeDisk

LEMMA NoNames == \A t : Names(t, 1) = {}
BY DEF Names

\* The entry of a tree in its turn: nothing is there, its directory is.
LEMMA InTurn ==
  ASSUME input \in Inputs, Fits, NEW k \in 1 .. Len(Walk)
  PROVE  /\ Entry(k).type \in {"reg", "dir"} /\ Entry(k).safe
         /\ Entry(k).name \in Paths \ {<<>>}
         /\ Entry(k).name \notin Names("dir", k) /\ Entry(k).name \notin Names("reg", k)
         /\ Regular(k) => Entry(k).name \notin Names("dir", Len(Walk) + 1)
         /\ ~Regular(k) => Parent(Entry(k).name) \in Names("dir", k) \cup {<<>>}
         /\ Regular(k) => Parent(Entry(k).name) \in Names("dir", Len(Walk) + 1) \cup {<<>>}
<1> DEFINE name == Entry(k).name
<1>1. DOMAIN Walk = 1 .. Len(Walk) /\ Len(Walk) \in Nat
  BY WalkProperties, LenProperties
<1>2. /\ Entry(k).type \in {"reg", "dir"} /\ Entry(k).safe
      /\ \A j \in 1 .. Len(Walk) : j # k => Entry(j).name # name
      /\ Len(name) = 1 \/ \E j \in 1 .. Len(Walk) :
           /\ Entry(j).type = "dir" /\ Entry(j).name = Parent(name)
           /\ Regular(k) \/ j < k
  BY <1>1 DEF Fits, TarOrdered
<1>3. name \in Paths \ {<<>>}
  BY <1>2, EntryProperties
<1>4. \A t : name \notin Names(t, k)
  <2>1. ASSUME NEW t, name \in Names(t, k) PROVE FALSE
    <3>1. PICK j \in 1 .. k - 1 : Entry(j).name = name
      BY <2>1 DEF Names
    <3>2. j \in 1 .. Len(Walk) /\ j # k
      BY <1>1
    <3> QED
      BY <1>2, <3>1, <3>2
  <2> QED
    BY <2>1
<1>5. ASSUME Regular(k), name \in Names("dir", Len(Walk) + 1) PROVE FALSE
  <2>1. PICK j \in 1 .. Len(Walk) + 1 - 1 : Entry(j).name = name /\ Entry(j).type = "dir"
    BY <1>5 DEF Names
  <2>2. j \in 1 .. Len(Walk) /\ j # k
    BY <1>1, <1>5, <2>1 DEF Regular
  <2> QED
    BY <1>2, <2>1, <2>2
<1>6. /\ ~Regular(k) => Parent(name) \in Names("dir", k) \cup {<<>>}
      /\ Regular(k) => Parent(name) \in Names("dir", Len(Walk) + 1) \cup {<<>>}
  <2>1. CASE Len(name) = 1
    BY <1>3, <2>1, PathProperties
  <2>2. CASE Len(name) # 1
    <3>1. PICK j \in 1 .. Len(Walk) :
            Entry(j).type = "dir" /\ Entry(j).name = Parent(name) /\ (Regular(k) \/ j < k)
      BY <1>2, <2>2
    <3>2. j \in 1 .. Len(Walk) + 1 - 1 /\ (j < k => j \in 1 .. k - 1)
      BY <1>1
    <3> HIDE DEF name
    <3>3. Parent(name) \in Names("dir", Len(Walk) + 1)
      <4>1. Entry(j).name \in Names("dir", Len(Walk) + 1)
        BY <3>1, <3>2, NamesHas
      <4> QED
        BY <3>1, <4>1
    <3>6. ASSUME j < k PROVE Parent(name) \in Names("dir", k)
      <4>1. Entry(j).name \in Names("dir", k)
        BY <3>1, <3>2, <3>6, NamesHas
      <4> QED
        BY <3>1, <4>1
    <3>4. CASE Regular(k)
      BY <3>1, <3>3, <3>4
    <3>5. CASE ~Regular(k)
      BY <3>1, <3>5, <3>6
    <3> QED
      BY <3>4, <3>5
  <2> QED
    BY <2>1, <2>2
<1> QED
  BY <1>2, <1>3, <1>4, <1>5, <1>6

\* The first loop, one entry of a tree on.
LEMMA TreeDirectory ==
  ASSUME input \in Inputs, Fits, NEW k \in 1 .. Len(Walk), disk = TreeDisk(k, 1)
  PROVE  /\ ~Regular(k) => /\ CanMake(Entry(k).name)
                          /\ ~ThroughLink(Ancestors(Entry(k).name) \cup {Entry(k).name})
                          /\ [disk EXCEPT ![Entry(k).name] = "dir"] = TreeDisk(k + 1, 1)
         /\ Regular(k) => disk = TreeDisk(k + 1, 1)
<1> DEFINE name == Entry(k).name
<1>1. /\ Entry(k).type \in {"reg", "dir"} /\ name \in Paths \ {<<>>} /\ name \notin Names("dir", k)
      /\ ~Regular(k) => Parent(name) \in Names("dir", k) \cup {<<>>}
      /\ k \in Nat \ {0}
  BY InTurn, WalkProperties
<1>2. Parent(name) \in Paths /\ Ancestors(name) \subseteq Paths
  BY <1>1, PathProperties
<1>3. Names("reg", 1) = {}
  BY NoNames
<1>4. CASE Regular(k)
  <2>1. Names("dir", k + 1) = Names("dir", k)
    BY <1>1, <1>4, NamesNext DEF Regular
  <2> QED
    BY <1>4, <2>1 DEF TreeDisk
<1>5. CASE ~Regular(k)
  <2>1. Names("dir", k + 1) = Names("dir", k) \cup {name}
    BY <1>1, <1>5, NamesNext DEF Regular
  <2>2. disk[name] = "none" /\ disk[Parent(name)] = "dir"
    BY <1>1, <1>2, <1>3, <1>5, TreeDiskType
  <2>3. ~ThroughLink(Ancestors(name) \cup {name})
    BY <1>1, <1>2, TreeDiskType DEF ThroughLink
  <2>4. [disk EXCEPT ![name] = "dir"] = TreeDisk(k + 1, 1)
    <3> DEFINE new == [disk EXCEPT ![name] = "dir"]
    <3>1. DOMAIN new = Paths
      BY TreeDiskType
    <3>2. ASSUME NEW q \in Paths PROVE new[q] = TreeDisk(k + 1, 1)[q]
      <4>1. new[q] = IF q = name THEN "dir" ELSE disk[q]
        BY TreeDiskType
      <4> QED
        BY <1>3, <2>1, <4>1, TreeDiskType
    <3> HIDE DEF new
    <3>3. new = [q \in Paths |-> TreeDisk(k + 1, 1)[q]]
      <4>1. new = [q \in DOMAIN new |-> new[q]]
        BY DEF new
      <4> QED
        BY <3>1, <3>2, <4>1
    <3>4. TreeDisk(k + 1, 1) = [q \in Paths |-> TreeDisk(k + 1, 1)[q]]
      BY DEF TreeDisk
    <3> QED
      BY <3>3, <3>4 DEF new
  <2> QED
    BY <1>5, <2>2, <2>3, <2>4 DEF CanMake
<1> QED
  BY <1>4, <1>5

\* The second loop, one entry of a tree on.
LEMMA TreeFile ==
  ASSUME input \in Inputs, Fits, NEW k \in 1 .. Len(Walk), disk = TreeDisk(Len(Walk) + 1, k)
  PROVE  /\ Regular(k) => /\ CanCreate(Entry(k).name)
                         /\ ~ThroughLink(Ancestors(Entry(k).name))
                         /\ [disk EXCEPT ![Entry(k).name] = "file"] = TreeDisk(Len(Walk) + 1, k + 1)
         /\ ~Regular(k) => disk = TreeDisk(Len(Walk) + 1, k + 1)
<1> DEFINE name == Entry(k).name
           d == Len(Walk) + 1
<1>1. /\ name \in Paths \ {<<>>} /\ name \notin Names("reg", k)
      /\ Regular(k) => /\ Parent(name) \in Names("dir", d) \cup {<<>>}
                      /\ name \notin Names("dir", d)
      /\ k \in Nat \ {0}
  BY InTurn, WalkProperties
<1>2. Parent(name) \in Paths /\ Ancestors(name) \subseteq Paths
  BY <1>1, PathProperties
<1> HIDE DEF d
<1>3. disk = TreeDisk(d, k)
  BY DEF d
<1>4. CASE ~Regular(k)
  <2>1. Names("reg", k + 1) = Names("reg", k)
    BY <1>1, <1>4, NamesNext DEF Regular
  <2> QED
    BY <1>3, <1>4, <2>1 DEF TreeDisk, d
<1>5. CASE Regular(k)
  <2>1. Names("reg", k + 1) = Names("reg", k) \cup {name}
    BY <1>1, <1>5, NamesNext DEF Regular
  <2>2. disk[name] = "none" /\ disk[Parent(name)] = "dir"
    BY <1>1, <1>2, <1>3, <1>5, TreeDiskType
  <2>3. ~ThroughLink(Ancestors(name))
    BY <1>2, <1>3, TreeDiskType DEF ThroughLink
  <2>4. [disk EXCEPT ![name] = "file"] = TreeDisk(d, k + 1)
    <3> DEFINE new == [disk EXCEPT ![name] = "file"]
    <3>1. DOMAIN new = Paths
      BY <1>3, TreeDiskType
    <3>2. ASSUME NEW q \in Paths PROVE new[q] = TreeDisk(d, k + 1)[q]
      <4>1. new[q] = IF q = name THEN "file" ELSE disk[q]
        BY <1>3, TreeDiskType
      <4> QED
        BY <1>1, <1>3, <1>5, <2>1, <4>1, TreeDiskType
    <3> HIDE DEF new
    <3>3. new = [q \in Paths |-> TreeDisk(d, k + 1)[q]]
      <4>1. new = [q \in DOMAIN new |-> new[q]]
        BY DEF new
      <4> QED
        BY <3>1, <3>2, <4>1
    <3>4. TreeDisk(d, k + 1) = [q \in Paths |-> TreeDisk(d, k + 1)[q]]
      BY DEF TreeDisk
    <3> QED
      BY <3>3, <3>4 DEF new
  <2> QED
    BY <1>5, <2>2, <2>3, <2>4 DEF CanCreate, d
<1> QED
  BY <1>4, <1>5

-----------------------------------------------------------------------------
(* The steps *)

LEMMA InitInv == Init => IInv
<1> SUFFICES ASSUME Init PROVE IInv
  OBVIOUS
<1> USE DEF Init
<1>1. Shape
  BY PlacesAssumption, SizesAssumption DEF PlacesAssumption, SizesAssumption, Shape, Attempts
<1>2. Guess /\ Walking
  BY DEF Guess, Walking
<1>3. Kept
  BY DEF Kept
<1>4. NoFalseRefusal /\ SuccessIsAll /\ TreeSucceeds
  BY DEF NoFalseRefusal, SuccessIsAll, TreeSucceeds
<1> QED
  BY <1>1, <1>2, <1>3, <1>4 DEF IInv

\* The extraction ends without a success.
LEMMA EndsInv ==
  ASSUME Shape', Kept', phase' = "done", result' # "success",
         NoFalseRefusal', TreeSucceeds'
  PROVE  IInv'
BY DEF IInv, Guess, Walking, SuccessIsAll

\* It goes on.
LEMMA GoesOnInv ==
  ASSUME Shape', Kept', phase' # "done", result' = "none", Guess', Walking'
  PROVE  IInv'
BY DEF IInv, NoFalseRefusal, SuccessIsAll, TreeSucceeds

LEMMA NothingMade ==
  ASSUME IInv, phase \in {"gunzip", "load"}, UNCHANGED <<input, found, disk, written>>,
         attempts' \in 0 .. Attempts, destlen' \in 0 .. Cap,
         phase' \in {"gunzip", "load", "done"}, phase' # "done" => result' = "none"
  PROVE  Shape' /\ Kept'
<1>1. Kept'
  BY KeptStays DEF IInv
<1>2. Shape'
  BY DEF IInv, Shape
<1> QED
  BY <1>1, <1>2

\* The decompression ends the extraction.
LEMMA GunzipEnds ==
  ASSUME IInv, phase = "gunzip", UNCHANGED <<input, found, disk, written>>,
         attempts' \in 0 .. Attempts, destlen' \in 0 .. Cap,
         phase' = "done", result' \in {"failure", "buf", "data"}, NoFalseRefusal'
  PROVE  IInv'
<1>1. Shape' /\ Kept'
  BY NothingMade
<1>2. TreeSucceeds'
  BY DEF TreeSucceeds
<1> QED
  BY <1>1, <1>2, EndsInv

LEMMA InputType ==
  ASSUME input \in Inputs
  PROVE  /\ input.len \in 0 .. MaxUInt /\ input.len \in Nat /\ input.isize \in Nat
         /\ Cap \in Nat \ {0} /\ MaxUInt \in Nat /\ 2 * Cap <= MaxUInt
BY InputsAssumption, SizesAssumption DEF InputsAssumption, SizesAssumption

LEMMA RefuseInv == IInv /\ Refuse => IInv'
<1> SUFFICES ASSUME IInv, Refuse PROVE IInv'
  OBVIOUS
<1>1. /\ phase = "gunzip" /\ Refusal # "none" /\ phase' = "done" /\ result' = Refusal
      /\ UNCHANGED <<input, found, disk, attempts, destlen, written>>
  BY DEF Refuse, Return, gunzip
<1>2. /\ input \in Inputs /\ attempts \in 0 .. Attempts /\ destlen \in 0 .. Cap
  BY DEF IInv, Shape
<1>3. input.len \in Nat /\ input.isize \in Nat
  BY <1>2, InputType
<1>4. /\ Refusal \in {"failure", "buf", "data", "none"}
      /\ Refusal = "buf" => input.isize > Cap \/ input.len > MaxUInt \div Ratio
  BY <1>3 DEF Refusal, MinLen
<1>5. NoFalseRefusal'
  <2>1. result' = "buf" => ~(input.size = input.isize /\ input.size <= Cap /\ input.len <= MaxUInt \div Ratio)
    <3>1. MaxUInt \div Ratio \in Int
      BY <1>2, InputType DEF Ratio
    <3> QED
      BY <1>1, <1>2, <1>3, <1>4, <3>1, InputType
  <2> QED
    BY <1>1, <2>1 DEF NoFalseRefusal
<1> QED
  BY <1>1, <1>2, <1>4, <1>5, GunzipEnds

LEMMA ShareDoubles ==
  /\ \A k \in 0 .. 7 : Share(k) \in Nat \ {0}
  /\ \A k \in 0 .. 6 : Share(k + 1) = 2 * Share(k)
  /\ Share(0) = 10 /\ Share(7) = 1280
<1>1. /\ Share(0) = 10 /\ Share(1) = 20 /\ Share(2) = 40 /\ Share(3) = 80 /\ Share(4) = 160
      /\ Share(5) = 320 /\ Share(6) = 640 /\ Share(7) = 1280
  BY DEF Share
<1>2. \A k \in 0 .. 7 : k = 0 \/ k = 1 \/ k = 2 \/ k = 3 \/ k = 4 \/ k = 5 \/ k = 6 \/ k = 7
  OBVIOUS
<1>3. \A k \in 0 .. 7 : Share(k) \in Nat \ {0}
  BY <1>1, <1>2
<1>4. ASSUME NEW k \in 0 .. 6 PROVE Share(k + 1) = 2 * Share(k)
  <2>1. CASE k = 0
    BY <1>1, <2>1
  <2>2. CASE k = 1
    BY <1>1, <2>2
  <2>3. CASE k = 2
    BY <1>1, <2>3
  <2>4. CASE k = 3
    BY <1>1, <2>4
  <2>5. CASE k = 4
    BY <1>1, <2>5
  <2>6. CASE k = 5
    BY <1>1, <2>6
  <2>7. CASE k = 6
    BY <1>1, <2>7
  <2> QED
    BY <2>1, <2>2, <2>3, <2>4, <2>5, <2>6, <2>7
<1> QED
  BY <1>1, <1>3, <1>4

LEMMA FirstGuessInv == IInv /\ FirstGuess => IInv'
<1> SUFFICES ASSUME IInv, FirstGuess PROVE IInv'
  OBVIOUS
<1>1. /\ phase = "gunzip" /\ Refusal = "none" /\ destlen = 0
      /\ destlen' = Smaller(input.len * Ratio, Cap)
      /\ UNCHANGED <<input, found, disk, phase, attempts, written, result>>
  BY DEF FirstGuess
<1>2. /\ input \in Inputs /\ attempts = 0 /\ result = "none"
  BY <1>1 DEF IInv, Shape, Guess
<1>3. input.len \in Nat /\ Cap \in Nat \ {0}
  BY <1>2, InputType
<1>4. input.len # 0
  BY <1>1, <1>3 DEF Refusal
<1>5. destlen' \in 0 .. Cap /\ destlen' > 0 /\ destlen' = Smaller(Share(0) * input.len, Cap)
  BY <1>1, <1>3, <1>4, ShareDoubles DEF Smaller, Ratio
<1>6. Shape' /\ Kept'
  BY <1>1, <1>2, <1>5, NothingMade DEF Attempts
<1>7. Guess'
  BY <1>1, <1>2, <1>5 DEF Guess, Attempts
<1>8. Walking'
  BY <1>1 DEF Walking
<1> QED
  BY <1>1, <1>2, <1>6, <1>7, <1>8, GoesOnInv

LEMMA OutOfMemoryInv == IInv /\ OutOfMemory => IInv'
<1> SUFFICES ASSUME IInv, OutOfMemory PROVE IInv'
  OBVIOUS
<1>1. /\ phase = "gunzip" /\ phase' = "done" /\ result' = "failure"
      /\ UNCHANGED <<input, found, disk, attempts, destlen, written>>
  BY DEF OutOfMemory, Return, gunzip
<1>2. attempts' \in 0 .. Attempts /\ destlen' \in 0 .. Cap /\ NoFalseRefusal'
  BY <1>1 DEF IInv, Shape, NoFalseRefusal
<1> QED
  BY <1>1, <1>2, GunzipEnds

LEMMA TryInflateInv == IInv /\ TryInflate => IInv'
<1> SUFFICES ASSUME IInv, TryInflate PROVE IInv'
  OBVIOUS
<1>1. phase = "gunzip" /\ destlen > 0 /\ UNCHANGED <<input, found, disk, written>>
  BY DEF TryInflate
<1>2. /\ input \in Inputs /\ result = "none" /\ attempts \in 0 .. 7 /\ destlen \in 0 .. Cap
      /\ destlen = Smaller(Share(attempts) * input.len, Cap)
  BY <1>1 DEF IInv, Shape, Guess, Attempts
<1>3. /\ input.len \in Nat /\ input.isize \in Nat /\ Cap \in Nat \ {0}
      /\ MaxUInt \in Nat /\ 2 * Cap <= MaxUInt
  BY <1>2, InputType
<1>4. CASE Inflate(destlen) = "ok" /\ phase' = "load" /\ UNCHANGED <<gunzip, result>>
  <2>1. Shape' /\ Kept'
    BY <1>1, <1>2, <1>4, NothingMade DEF gunzip, Attempts
  <2>2. Guess' /\ Walking'
    BY <1>4 DEF Guess, Walking
  <2> QED
    BY <1>2, <1>4, <2>1, <2>2, GoesOnInv
<1>5. CASE Return("data") /\ UNCHANGED gunzip
  <2>1. NoFalseRefusal'
    BY <1>5 DEF Return, NoFalseRefusal
  <2> QED
    BY <1>1, <1>2, <1>5, <2>1, GunzipEnds DEF Return, gunzip, Attempts
<1>6. CASE Inflate(destlen) = "buf" /\ (destlen >= Cap \/ destlen > MaxUInt \div 2)
           /\ Return("buf") /\ UNCHANGED gunzip
  <2>1. input.isize > destlen
    BY <1>6 DEF Inflate
  <2>2. destlen >= Cap
    BY <1>2, <1>3, <1>6
  <2>3. input.isize > Cap
    BY <1>2, <1>3, <2>1, <2>2
  <2>4. ~(input.size = input.isize /\ input.size <= Cap)
    BY <1>3, <2>3
  <2>5. NoFalseRefusal'
    BY <1>1, <2>4 DEF NoFalseRefusal
  <2> QED
    BY <1>1, <1>2, <1>6, <2>5, GunzipEnds DEF Return, gunzip, Attempts
<1>7. CASE /\ Inflate(destlen) = "buf" /\ destlen' = Grown /\ attempts' = attempts + 1
           /\ IF Exhausted THEN Return("buf") ELSE UNCHANGED <<phase, result>>
  <2>1. input.isize > destlen
    BY <1>7 DEF Inflate
  <2>2. Share(attempts) \in Nat \ {0}
    BY <1>2, ShareDoubles
  <2> DEFINE s == Share(attempts)
             l == input.len
  <2>3. s * l \in Nat /\ (2 * s) * l = 2 * (s * l)
    BY <1>3, <2>2
  <2>4. destlen' \in 0 .. Cap /\ destlen' > 0 /\ destlen' = Smaller((2 * s) * l, Cap)
    BY <1>1, <1>2, <1>3, <1>7, <2>3 DEF Grown, Smaller
  <2>5. CASE Exhausted
    <3>1. s = 1280 /\ phase' = "done" /\ result' = "buf"
      BY <1>2, <1>7, <2>5, ShareDoubles DEF Exhausted, Attempts, Return
    <3>2. input.size = input.isize /\ input.size <= Cap => input.size > 1280 * l
      BY <1>2, <1>3, <2>1, <3>1 DEF Smaller
    <3>3. ~(input.size = input.isize /\ input.size <= Cap /\ input.size <= Deflate * l)
      BY <1>3, <3>2 DEF Deflate
    <3>4. NoFalseRefusal'
      BY <1>1, <3>3 DEF NoFalseRefusal
    <3> QED
      BY <1>1, <1>2, <1>7, <2>4, <3>1, <3>4, GunzipEnds DEF Attempts
  <2>6. CASE ~Exhausted
    <3>1. phase' = phase /\ result' = result /\ attempts \in 0 .. 6 /\ attempts' < Attempts
      BY <1>2, <1>7, <2>6 DEF Exhausted, Attempts
    <3>2. Shape' /\ Kept'
      BY <1>1, <1>2, <1>7, <2>4, <3>1, NothingMade DEF Attempts
    <3>3. Share(attempts') = 2 * s
      BY <1>7, <3>1, ShareDoubles
    <3>4. Guess'
      BY <1>1, <2>4, <3>1, <3>3 DEF Guess
    <3>5. Walking'
      BY <1>1, <3>1 DEF Walking
    <3> QED
      BY <1>1, <1>2, <3>1, <3>2, <3>4, <3>5, GoesOnInv
  <2> QED
    BY <2>5, <2>6
<1> QED
  BY <1>4, <1>5, <1>6, <1>7 DEF TryInflate

LEMMA SameFits == UNCHANGED <<input, found>> => Fits' = Fits /\ Len(Walk)' = Len(Walk)
BY SameArchive, SameWalk DEF Fits, Fresh

\* An extraction that fails was not that of a tree.
LEMMA FailsInv ==
  ASSUME Shape', Kept', UNCHANGED <<input, found>>, ~Fits, phase' = "done",
         result' \notin {"success", "buf"}
  PROVE  IInv'
<1>1. TreeSucceeds'
  BY SameFits DEF TreeSucceeds, Fits
<1>2. NoFalseRefusal'
  BY DEF NoFalseRefusal
<1> QED
  BY <1>1, <1>2, EndsInv

LEMMA MakesDirectory ==
  ASSUME Kept, disk \in [Paths -> {"none", "dir", "file", "link", "never"}],
         UNCHANGED <<input, found, written>>, NEW p \in Paths, MakeDirectory(p)
  PROVE  Kept' /\ disk' \in [Paths -> {"none", "dir", "file", "link", "never"}]
<1>1. CASE CanMake(p)
  <2>1. disk' = [disk EXCEPT ![p] = "dir"] /\ disk[p] = "none"
    BY <1>1 DEF MakeDirectory, CanMake
  <2> QED
    BY <2>1, KeptMade
<1>2. CASE ~CanMake(p)
  <2>1. disk' = disk
    BY <1>2 DEF MakeDirectory
  <2> QED
    BY <2>1, KeptStays
<1> QED
  BY <1>1, <1>2

LEMMA LoadInv == IInv /\ Load => IInv'
<1> SUFFICES ASSUME IInv, Load PROVE IInv'
  OBVIOUS
<1>1. /\ phase = "load" /\ UNCHANGED <<input, found, attempts, destlen, written>>
      /\ input \in Inputs /\ found \in Places /\ disk = found /\ result = "none" /\ written = <<>>
      /\ attempts \in 0 .. Attempts /\ destlen \in 0 .. Cap /\ Kept
      /\ disk \in [Paths -> {"none", "dir", "file", "link", "never"}]
  BY DEF Load, gunzip, IInv, Shape
<1>2. CASE Stop("failure") /\ UNCHANGED disk
  <2>1. Shape' /\ Kept' /\ phase' = "done" /\ result' = "failure"
    BY <1>1, <1>2, NothingMade DEF Stop, Return
  <2> QED
    BY <2>1, EndsInv DEF TreeSucceeds, NoFalseRefusal
<1>3. CASE HeaderAt(0) # "ok" /\ Stop("openfail") /\ UNCHANGED disk
  <2>1. Shape' /\ Kept' /\ phase' = "done" /\ result' = "openfail"
    BY <1>1, <1>3, NothingMade DEF Stop, Return
  <2>2. ~Fits
    BY <1>1, <1>3, WalkProperties DEF Chain, Fits, Intact
  <2> QED
    BY <1>1, <2>1, <2>2, FailsInv
<1>4. CASE /\ HeaderAt(0) = "ok" /\ MakeDirectory(<<>>) /\ offset' = 0 /\ header' = BlockAt(0)
           /\ phase' = "dirs" /\ UNCHANGED result
  <2>1. <<>> \in Paths
    BY PlacesAssumption DEF PlacesAssumption
  <2>2. Kept' /\ disk' \in [Paths -> {"none", "dir", "file", "link", "never"}]
    BY <1>1, <1>4, <2>1, MakesDirectory
  <2>3. Shape'
    BY <1>1, <1>4, <2>2 DEF Shape
  <2>4. Walk' = Walk /\ BlockAt(0)' = BlockAt(0)
    BY <1>1, SameWalk
  <2>5. 1 \in 1 .. Len(Walk) + 1 /\ 1 # Len(Walk) + 1 /\ Walk[1] = 0
    <3>1. Walk # <<>> /\ Len(Walk) \in Nat /\ (Walk # <<>> <=> Len(Walk) # 0) /\ Walk[1] = 0
      BY <1>1, <1>4, WalkProperties DEF Chain
    <3> QED
      BY <3>1
  <2>6. AtEntry(1)'
    <3>1. BlockAt(offset)' = BlockAt(0)
      BY <1>4, <2>4 DEF BlockAt
    <3> QED
      BY <1>4, <2>4, <2>5, <3>1 DEF AtEntry
  <2>7. ASSUME Fits PROVE disk' = TreeDisk(1, 1)
    <3>1. found[<<>>] \in {"none", "dir"} /\ \A p \in Paths \ {<<>>} : found[p] = "none"
      BY <2>7 DEF Fits, Fresh
    <3>2. TreeDisk(1, 1) = [p \in Paths |-> IF p = <<>> THEN "dir" ELSE "none"]
      BY NoNames DEF TreeDisk
    <3>3. \A p \in Paths : disk'[p] = IF p = <<>> THEN "dir" ELSE "none"
      BY <1>1, <1>4, <2>1, <3>1 DEF MakeDirectory, CanMake
    <3> QED
      BY <2>2, <3>2, <3>3
  <2>8. Walking'
    <3>1. TreeDisk(1, 1)' = TreeDisk(1, 1) /\ Fits' = Fits
      BY <1>1, SameFits, SameArchive
    <3> QED
      BY <1>4, <2>4, <2>5, <2>6, <2>7, <3>1 DEF Walking
  <2>9. Guess'
    BY <1>4 DEF Guess
  <2> QED
    BY <1>1, <1>4, <2>2, <2>3, <2>8, <2>9, GoesOnInv
<1> QED
  BY <1>2, <1>3, <1>4 DEF Load, DirectoryRefused

\* The entry at hand.
LEMMA AtHand ==
  ASSUME IInv, offset # None, NEW k \in 1 .. Len(Walk) + 1, AtEntry(k)
  PROVE  /\ input \in Inputs /\ k \in 1 .. Len(Walk) /\ k \in Nat \ {0}
         /\ offset = Walk[k] /\ header = Entry(k)
         /\ header.type \in {"reg", "dir", "other"}
         /\ header.safe => header.name \in Paths \ {<<>>}
<1>1. input \in Inputs
  BY DEF IInv, Shape
<1>2. Len(Walk) \in Nat
  BY <1>1, WalkProperties
<1>3. k \in 1 .. Len(Walk) /\ k \in Nat \ {0}
  BY <1>2 DEF AtEntry
<1> QED
  BY <1>1, <1>3, NextProperties, EntryProperties

LEMMA DirsOn ==
  ASSUME UNCHANGED <<input, found>>, NEW k \in 1 .. Len(Walk), Len(Walk) \in Nat, phase' = "dirs",
         AtEntry(k + 1)', k = Len(Walk) => Intact, Fits => disk' = TreeDisk(k + 1, 1)
  PROVE  Walking' /\ Guess'
<1>1. /\ Walk' = Walk /\ Intact' = Intact /\ Fits' = Fits
      /\ TreeDisk(k + 1, 1)' = TreeDisk(k + 1, 1)
  BY SameWalk, SameArchive, SameFits
<1>2. k + 1 \in 1 .. Len(Walk) + 1 /\ (k + 1 = Len(Walk) + 1 => k = Len(Walk))
  OBVIOUS
<1>3. Walking'
  BY <1>1, <1>2 DEF Walking
<1> QED
  BY <1>3 DEF Guess

LEMMA DirEntryInv == IInv /\ DirEntry => IInv'
<1> SUFFICES ASSUME IInv, DirEntry PROVE IInv'
  OBVIOUS
<1>1. phase = "dirs" /\ offset # None /\ UNCHANGED <<input, found, attempts, destlen, written>>
  BY DEF DirEntry, gunzip
<1>2. PICK k \in 1 .. Len(Walk) + 1 :
        AtEntry(k) /\ (k = Len(Walk) + 1 => Intact) /\ (Fits => disk = TreeDisk(k, 1))
  BY <1>1 DEF IInv, Walking
<1>3. /\ input \in Inputs /\ k \in 1 .. Len(Walk) /\ k \in Nat \ {0}
      /\ header = Entry(k) /\ (header.safe => header.name \in Paths \ {<<>>})
      /\ header.type \in {"reg", "dir", "other"} /\ Len(Walk) \in Nat
  BY <1>1, <1>2, AtHand, WalkProperties
<1>4. /\ Kept /\ disk \in [Paths -> {"none", "dir", "file", "link", "never"}]
      /\ result = "none" /\ written = <<>>
  BY <1>1 DEF IInv, Shape
\* The disk and the end of the iteration.
<1>5. ASSUME Kept', disk' \in [Paths -> {"none", "dir", "file", "link", "never"}], Advance,
             Fits => disk' = TreeDisk(k + 1, 1)
      PROVE  IInv'
  <2>1. CASE /\ UNCHANGED <<phase, result>> /\ k + 1 \in 1 .. Len(Walk) + 1
             /\ AtEntry(k + 1)' /\ (k = Len(Walk) => Intact)
    <3>1. Shape'
      BY <1>1, <1>5, <2>1 DEF IInv, Shape
    <3>2. Walking' /\ Guess'
      BY <1>1, <1>3, <1>5, <2>1, DirsOn
    <3> QED
      BY <1>1, <1>4, <1>5, <2>1, <3>1, <3>2, GoesOnInv
  <2>2. CASE /\ phase' = "done" /\ ~Intact
             /\ result' \in {"seekfail", "failure", "readfail"} \cup Broken
    <3>1. Shape'
      BY <1>1, <1>5, <2>2 DEF IInv, Shape
    <3> QED
      BY <1>1, <1>5, <2>2, <3>1, FailsInv DEF Fits, Broken
  <2> QED
    BY <1>1, <1>2, <1>3, <1>5, <2>1, <2>2, AdvanceProperties
<1>6. ASSUME NEW r \in {"invalid", "writefail"}, Stop(r), UNCHANGED disk, ~Fits PROVE IInv'
  <2>1. Kept' /\ phase' = "done" /\ result' = r
    BY <1>1, <1>4, <1>6, KeptStays DEF Stop, Return
  <2>2. Shape'
    BY <1>1, <1>6, <2>1 DEF IInv, Shape
  <2> QED
    BY <1>1, <1>6, <2>1, <2>2, FailsInv
<1>7. CASE header.type # "dir" /\ Advance /\ UNCHANGED disk
  <2>1. Kept'
    BY <1>1, <1>4, <1>7, KeptStays
  <2>2. ASSUME Fits PROVE disk' = TreeDisk(k + 1, 1)
    <3>1. Regular(k)
      BY <1>3, <1>7, <2>2, InTurn DEF Regular
    <3> QED
      BY <1>2, <1>3, <1>7, <2>2, <3>1, TreeDirectory
  <2> QED
    BY <1>4, <1>5, <1>7, <2>1, <2>2
<1>8. CASE header.type = "dir" /\ ~header.safe /\ Stop("invalid") /\ UNCHANGED disk
  <2>1. ~Fits
    BY <1>3, <1>8, InTurn
  <2> QED
    BY <1>6, <1>8, <2>1
<1>9. CASE /\ header.type = "dir" /\ header.safe
           /\ ThroughLink(Ancestors(header.name) \cup {header.name})
           /\ Stop("writefail") /\ UNCHANGED disk
  <2>1. ~Fits
    BY <1>2, <1>3, <1>9, TreeDirectory DEF Regular
  <2> QED
    BY <1>6, <1>9, <2>1
<1>10. CASE header.type = "dir" /\ header.safe /\ MakeDirectory(header.name) /\ Advance
  <2>1. Kept' /\ disk' \in [Paths -> {"none", "dir", "file", "link", "never"}]
    BY <1>1, <1>3, <1>4, <1>10, MakesDirectory
  <2>2. Fits => disk' = TreeDisk(k + 1, 1)
    BY <1>2, <1>3, <1>10, TreeDirectory DEF MakeDirectory, Regular
  <2> QED
    BY <1>5, <1>10, <2>1, <2>2
<1> QED
  BY <1>7, <1>8, <1>9, <1>10 DEF DirEntry, DirectoryRefused

LEMMA RewindInv == IInv /\ Rewind => IInv'
<1> SUFFICES ASSUME IInv, Rewind PROVE IInv'
  OBVIOUS
<1>1. /\ phase = "dirs" /\ offset = None /\ phase' = "files" /\ offset' = 0 /\ header' = BlockAt(0)
      /\ UNCHANGED <<input, found, disk, attempts, destlen, written, result>>
  BY DEF Rewind, gunzip
<1>2. PICK k \in 1 .. Len(Walk) + 1 :
        AtEntry(k) /\ (k = Len(Walk) + 1 => Intact) /\ (Fits => disk = TreeDisk(k, 1))
  BY <1>1 DEF IInv, Walking
<1>3. input \in Inputs /\ result = "none" /\ written = <<>> /\ Kept
  BY <1>1 DEF IInv, Shape
<1>4. Len(Walk) \in Nat /\ (Walk # <<>> <=> Len(Walk) # 0) /\ (Walk # <<>> => Walk[1] = 0)
  BY <1>3, WalkProperties DEF Chain
<1>5. k = Len(Walk) + 1
  <2>1. ASSUME k # Len(Walk) + 1 PROVE FALSE
    <3>1. k \in 1 .. Len(Walk) /\ offset = Walk[k]
      BY <1>2, <1>4, <2>1 DEF AtEntry
    <3>2. Walk[k] \in Nat
      BY <1>3, <3>1, EntryProperties
    <3> QED
      BY <1>1, <3>1, <3>2 DEF None
  <2> QED
    BY <2>1
<1>6. Intact /\ Walk # <<>> /\ Walk[1] = 0 /\ 1 \in 1 .. Len(Walk) + 1 /\ 1 # Len(Walk) + 1
  BY <1>2, <1>4, <1>5 DEF Intact
<1>7. /\ Walk' = Walk /\ Intact' = Intact /\ Fits' = Fits /\ BlockAt(0)' = BlockAt(0)
      /\ TreeDisk(Len(Walk) + 1, 1)' = TreeDisk(Len(Walk) + 1, 1)
  BY <1>1, SameWalk, SameArchive, SameFits
<1>8. AtEntry(1)'
  <2>1. BlockAt(offset)' = BlockAt(0)
    BY <1>1, <1>7 DEF BlockAt
  <2> QED
    BY <1>1, <1>6, <1>7, <2>1 DEF AtEntry
<1>9. WrittenTo(1)'
  <2>1. FilesTo(1 - 1) = {} /\ FilesTo(1 - 1)' = {}
    BY DEF FilesTo
  <2> QED
    BY <1>1, <1>3, <2>1, FS_EmptySet DEF WrittenTo
<1>10. Walking' /\ Guess'
  BY <1>1, <1>2, <1>5, <1>6, <1>7, <1>8, <1>9 DEF Walking, Guess
<1>11. Shape' /\ Kept'
  BY <1>1, <1>3, KeptStays DEF IInv, Shape
<1> QED
  BY <1>1, <1>3, <1>10, <1>11, GoesOnInv

LEMMA FilesOn ==
  ASSUME UNCHANGED <<input, found>>, NEW k \in 1 .. Len(Walk), Len(Walk) \in Nat, phase' = "files",
         AtEntry(k + 1)', Intact, WrittenTo(k + 1)',
         Fits => disk' = TreeDisk(Len(Walk) + 1, k + 1)
  PROVE  Walking' /\ Guess'
<1>1. /\ Walk' = Walk /\ Intact' = Intact /\ Fits' = Fits
      /\ TreeDisk(Len(Walk) + 1, k + 1)' = TreeDisk(Len(Walk) + 1, k + 1)
  BY SameWalk, SameArchive, SameFits
<1>2. k + 1 \in 1 .. Len(Walk) + 1
  OBVIOUS
<1>3. Walking'
  BY <1>1, <1>2 DEF Walking
<1> QED
  BY <1>3 DEF Guess

\* The record of a file as fwrite is given it.
LEMMA FileRecord ==
  ASSUME input \in Inputs, Intact, NEW k \in 1 .. Len(Walk), AtEntry(k), header.safe, NEW b \in BOOLEAN
  PROVE  LET w == [path |-> header.name, from |-> cursor, size |-> header.size, whole |-> b] IN
         w \in Record /\ w.from + w.size <= max /\ w.path = Entry(k).name /\ (b => w = FileOf(k))
<1>1. /\ offset = Walk[k] /\ header = Entry(k) /\ header.size <= max - cursor
      /\ offset \in Nat
  BY NextProperties
<1>2. /\ header.size \in Nat /\ header.name \in Paths /\ max \in Nat /\ Block \in Nat
  BY <1>1, EntryProperties, HeaderType
<1>3. cursor = Walk[k] + Block /\ cursor \in Nat
  BY <1>1, <1>2 DEF cursor
<1> DEFINE w == [path |-> header.name, from |-> cursor, size |-> header.size, whole |-> b]
<1>4. w \in Record
  BY <1>2, <1>3 DEF Record
<1>5. w.from + w.size <= max /\ w.path = Entry(k).name
  BY <1>1, <1>2, <1>3
<1>6. ASSUME b PROVE w = FileOf(k)
  <2>1. b = TRUE
    BY <1>6
  <2> QED
    BY <1>1, <1>3, <2>1 DEF FileOf
<1> QED
  BY <1>4, <1>5, <1>6

LEMMA FileEntryInv == IInv /\ FileEntry => IInv'
<1> SUFFICES ASSUME IInv, FileEntry PROVE IInv'
  OBVIOUS
<1>1. phase = "files" /\ offset # None /\ UNCHANGED <<input, found, attempts, destlen>>
  BY DEF FileEntry, gunzip
<1>2. PICK k \in 1 .. Len(Walk) + 1 :
        AtEntry(k) /\ Intact /\ WrittenTo(k) /\ (Fits => disk = TreeDisk(Len(Walk) + 1, k))
  BY <1>1 DEF IInv, Walking
<1>3. /\ input \in Inputs /\ k \in 1 .. Len(Walk) /\ k \in Nat \ {0}
      /\ header = Entry(k) /\ (header.safe => header.name \in Paths \ {<<>>})
      /\ Len(Walk) \in Nat
  BY <1>1, <1>2, AtHand, WalkProperties
<1>4. /\ Kept /\ disk \in [Paths -> {"none", "dir", "file", "link", "never"}]
      /\ result = "none" /\ written \in Seq(Record)
  BY <1>1 DEF IInv, Shape, Kept, Record
<1>5. ASSUME Kept', disk' \in [Paths -> {"none", "dir", "file", "link", "never"}], Advance,
             WrittenTo(k + 1)', Fits => disk' = TreeDisk(Len(Walk) + 1, k + 1)
      PROVE  IInv'
  <2>1. UNCHANGED <<phase, result>> /\ AtEntry(k + 1)'
    BY <1>1, <1>2, <1>3, <1>5, AdvanceProperties
  <2>2. Shape'
    BY <1>1, <1>5, <2>1 DEF IInv, Shape
  <2>3. Walking' /\ Guess'
    BY <1>1, <1>2, <1>3, <1>5, <2>1, FilesOn
  <2> QED
    BY <1>1, <1>4, <1>5, <2>1, <2>2, <2>3, GoesOnInv
<1>6. ASSUME NEW r \in {"invalid", "writefail"}, Stop(r), UNCHANGED <<disk, written>>, ~Fits PROVE IInv'
  <2>1. Kept' /\ phase' = "done" /\ result' = r
    BY <1>1, <1>4, <1>6, KeptStays DEF Stop, Return
  <2>2. Shape'
    BY <1>1, <1>6, <2>1 DEF IInv, Shape
  <2> QED
    BY <1>1, <1>6, <2>1, <2>2, FailsInv
<1>7. CASE header.type # "reg" /\ Advance /\ UNCHANGED <<disk, written>>
  <2>1. ~Regular(k) /\ Kept'
    BY <1>1, <1>3, <1>4, <1>7, KeptStays DEF Regular
  <2>2. WrittenTo(k + 1)'
    BY <1>1, <1>2, <1>3, <1>7, <2>1, WrittenStays
  <2>3. Fits => disk' = TreeDisk(Len(Walk) + 1, k + 1)
    BY <1>2, <1>3, <1>7, <2>1, TreeFile
  <2> QED
    BY <1>4, <1>5, <1>7, <2>1, <2>2, <2>3
<1>8. CASE header.type = "reg" /\ ~header.safe /\ Stop("invalid") /\ UNCHANGED <<disk, written>>
  <2>1. ~Fits
    BY <1>3, <1>8, InTurn
  <2> QED
    BY <1>6, <1>8, <2>1
<1>9. CASE /\ header.type = "reg" /\ header.safe
           /\ ThroughLink(Ancestors(header.name)) \/ ~CanCreate(header.name)
           /\ Stop("writefail") /\ UNCHANGED <<disk, written>>
  <2>1. ~Fits
    BY <1>2, <1>3, <1>9, TreeFile DEF Regular
  <2> QED
    BY <1>6, <1>9, <2>1
<1>10. CASE /\ header.type = "reg" /\ header.safe
            /\ CanCreate(header.name)
            /\ disk' = [disk EXCEPT ![header.name] = "file"]
            /\ \E wrote \in BOOLEAN :
                 /\ written' = Append(written, [path |-> header.name, from |-> cursor,
                                               size |-> header.size, whole |-> wrote])
                 /\ IF wrote THEN Advance ELSE Stop("writefail")
  <2>1. PICK b \in BOOLEAN :
          /\ written' = Append(written, [path |-> header.name, from |-> cursor,
                                        size |-> header.size, whole |-> b])
          /\ IF b THEN Advance ELSE Stop("writefail")
    BY <1>10
  <2> DEFINE w == [path |-> header.name, from |-> cursor, size |-> header.size, whole |-> b]
  <2>2. /\ w \in Record /\ w.from + w.size <= max /\ w.path = header.name /\ (b => w = FileOf(k))
    BY <1>2, <1>3, <1>10, FileRecord
  <2>3. w.whole = b
    OBVIOUS
  <2>4. written' = Append(written, w)
    BY <2>1
  <2> HIDE DEF w
  <2>5. disk[w.path] = "none" /\ disk' = [disk EXCEPT ![w.path] = "file"]
    BY <1>10, <2>2 DEF CanCreate
  <2>6. Kept'
    BY <1>1, <1>2, <1>4, <2>2, <2>4, <2>5, KeptWritten
  <2>7. disk' \in [Paths -> {"none", "dir", "file", "link", "never"}]
    BY <1>4, <2>5
  <2>8. CASE b
    <3>1. Regular(k) /\ w = FileOf(k)
      BY <1>3, <1>10, <2>2, <2>8 DEF Regular
    <3>2. WrittenTo(k + 1)'
      BY <1>1, <1>2, <1>3, <1>4, <2>2, <2>4, <3>1, WrittenMore
    <3>3. Fits => disk' = TreeDisk(Len(Walk) + 1, k + 1)
      BY <1>2, <1>3, <1>10, <3>1, TreeFile
    <3> QED
      BY <1>5, <2>1, <2>6, <2>7, <2>8, <3>2, <3>3
  <2>9. CASE ~b
    <3>1. phase' = "done" /\ result' = "writefail"
      BY <2>1, <2>9 DEF Stop, Return
    <3>2. Len(written) + 1 \in DOMAIN written' /\ written'[Len(written) + 1] = w
      <4>1. /\ written' \in Seq(Record) /\ Len(written') = Len(written) + 1
            /\ written'[Len(written) + 1] = w /\ Len(written) \in Nat
        BY <1>4, <2>2, <2>4, AppendProperties, LenProperties
      <4>2. DOMAIN written' = 1 .. Len(written')
        BY <4>1, LenProperties
      <4> QED
        BY <4>1, <4>2
    <3>3. ~(\A j \in DOMAIN written' : written'[j].whole)
      BY <2>3, <2>9, <3>2
    <3>4. TreeSucceeds' /\ NoFalseRefusal'
      BY <3>1, <3>3 DEF TreeSucceeds, NoFalseRefusal
    <3>5. Shape'
      BY <1>1, <2>7, <3>1 DEF IInv, Shape
    <3> QED
      BY <2>6, <3>1, <3>4, <3>5, EndsInv
  <2> QED
    BY <2>8, <2>9
<1> QED
  BY <1>7, <1>8, <1>9, <1>10 DEF FileEntry

LEMMA FinishInv == IInv /\ Finish => IInv'
<1> SUFFICES ASSUME IInv, Finish PROVE IInv'
  OBVIOUS
<1>1. /\ phase = "files" /\ offset = None /\ phase' = "done" /\ result' = "success"
      /\ UNCHANGED <<input, found, disk, attempts, destlen, offset, header, written>>
  BY DEF Finish, Return, gunzip
<1>2. PICK k \in 1 .. Len(Walk) + 1 : AtEntry(k) /\ WrittenTo(k)
  BY <1>1 DEF IInv, Walking
<1>3. input \in Inputs /\ Kept
  BY DEF IInv, Shape
<1>4. Walk \in Seq(0 .. max) /\ Len(Walk) \in Nat /\ DOMAIN Walk = 1 .. Len(Walk)
  BY <1>3, WalkProperties, LenProperties
<1>5. k = Len(Walk) + 1 /\ k - 1 = Len(Walk)
  <2>1. ASSUME k # Len(Walk) + 1 PROVE FALSE
    <3>1. k \in 1 .. Len(Walk) /\ offset = Walk[k]
      BY <1>2, <1>4, <2>1 DEF AtEntry
    <3>2. Walk[k] \in Nat
      BY <1>3, <3>1, EntryProperties
    <3> QED
      BY <1>1, <3>1, <3>2 DEF None
  <2> QED
    BY <1>4, <2>1
<1>6. SuccessIsAll'
  <2>1. /\ Len(written) = Cardinality(FilesTo(Len(Walk)))
        /\ \A j \in FilesTo(Len(Walk)) : written[Cardinality(FilesTo(j))] = FileOf(j)
    BY <1>2, <1>5 DEF WrittenTo
  <2>2. \A j \in DOMAIN Walk : Regular(j) => j \in FilesTo(Len(Walk))
    BY <1>4 DEF FilesTo
  <2>3. /\ Len(written) = Cardinality(FilesTo(Len(Walk)))
        /\ \A j \in DOMAIN Walk : Regular(j) =>
             written[Cardinality(FilesTo(j))] =
               [path |-> Entry(j).name, from |-> Walk[j] + Block, size |-> Entry(j).size, whole |-> TRUE]
    BY <2>1, <2>2 DEF FileOf
  <2>4. /\ Walk' = Walk /\ \A j : FilesTo(j)' = FilesTo(j) /\ Regular(j)' = Regular(j)
        /\ \A j : Entry(j)' = Entry(j)
    BY <1>1, SameWalk, SameArchive
  <2> QED
    BY <1>1, <2>3, <2>4 DEF SuccessIsAll
<1>7. TreeSucceeds' /\ NoFalseRefusal'
  BY <1>1 DEF TreeSucceeds, NoFalseRefusal
<1>8. Shape' /\ Kept'
  BY <1>1, <1>3, KeptStays DEF IInv, Shape
<1>9. Guess' /\ Walking'
  BY <1>1 DEF Guess, Walking
<1> QED
  BY <1>6, <1>7, <1>8, <1>9 DEF IInv

LEMMA StutterInv == IInv /\ UNCHANGED vars => IInv'
<1> SUFFICES ASSUME IInv, UNCHANGED vars PROVE IInv'
  OBVIOUS
<1>1. UNCHANGED <<input, found, disk, phase, attempts, destlen, offset, header, written, result>>
  BY DEF vars, gunzip
<1>2. /\ Walk' = Walk /\ max' = max /\ Intact' = Intact /\ Fits' = Fits /\ TarOrdered' = TarOrdered
      /\ \A j : FilesTo(j)' = FilesTo(j) /\ FileOf(j)' = FileOf(j) /\ Regular(j)' = Regular(j)
      /\ \A j : Entry(j)' = Entry(j)
      /\ \A d, f : TreeDisk(d, f)' = TreeDisk(d, f)
  BY <1>1, SameWalk, SameArchive, SameFits
<1>3. \A k : AtEntry(k)' = AtEntry(k)
  BY <1>1, <1>2 DEF AtEntry, BlockAt
<1>4. \A k : WrittenTo(k)' = WrittenTo(k)
  BY <1>1, <1>2 DEF WrittenTo
<1>5. Shape' /\ Kept' /\ Guess'
  BY <1>1, KeptStays DEF IInv, Shape, Guess
<1>6. Walking'
  BY <1>1, <1>2, <1>3, <1>4 DEF IInv, Walking
<1>7. NoFalseRefusal'
  BY <1>1 DEF IInv, NoFalseRefusal
<1>8. SuccessIsAll'
  BY <1>1, <1>2 DEF IInv, SuccessIsAll
<1>9. TreeSucceeds'
  BY <1>1, <1>2 DEF IInv, TreeSucceeds, Fresh
<1> QED
  BY <1>5, <1>6, <1>7, <1>8, <1>9 DEF IInv

-----------------------------------------------------------------------------
(* The theorems *)

\* Every state of an extraction satisfies the invariant: each loop looks at an
\* entry of the archive, and of a tree it has made what came before.
THEOREM IInvHolds == Spec => []IInv
<1>1. IInv /\ [Next]_vars => IInv'
  BY RefuseInv, FirstGuessInv, OutOfMemoryInv, TryInflateInv, LoadInv, DirEntryInv, RewindInv,
     FileEntryInv, FinishInv, StutterInv DEF Next, Step
<1> QED
  BY InitInv, <1>1, PTL DEF Spec

\* Every variable has its type, and the header at hand is the block at the
\* offset and lies inside the text, whatever the bundle.
THEOREM TypeOKHolds == Spec => []TypeOK
<1>1. IInv => TypeOK
  <2> SUFFICES ASSUME IInv PROVE TypeOK
    OBVIOUS
  <2>1. ASSUME phase \in {"dirs", "files"}, offset # None
        PROVE  offset \in 0 .. max - Block /\ header = BlockAt(offset) /\ header.type \notin Broken
    <3>1. PICK k \in 1 .. Len(Walk) + 1 : AtEntry(k)
      BY <2>1 DEF IInv, Walking
    <3>2. /\ input \in Inputs /\ k \in 1 .. Len(Walk) /\ offset = Walk[k] /\ header = Entry(k)
          /\ header.type \in {"reg", "dir", "other"}
      BY <2>1, <3>1, AtHand
    <3> QED
      BY <3>2, EntryProperties DEF Broken, Entry
  <2> QED
    BY <2>1 DEF IInv, Shape, TypeOK
<1> QED
  BY <1>1, IInvHolds, PTL

\* muntar_to_path gives fwrite bytes of the text only, whatever sizes the
\* headers claim, and the buffer of muntargz_to_path stays within the budget.
THEOREM InsideTextHolds == Spec => []InsideText
<1>1. IInv /\ TypeOK => InsideText
  BY DEF IInv, Shape, Kept, InsideText
<1> QED
  BY <1>1, IInvHolds, TypeOKHolds, PTL

\* muntargz_to_path refuses no sound bundle for its size if its text is within
\* the budget, for any budget: eight tries reach a ratio of 1280, and deflate
\* none above 1032.
THEOREM NoFalseRefusalHolds == Spec => []NoFalseRefusal
<1>1. IInv => NoFalseRefusal
  BY DEF IInv
<1> QED
  BY <1>1, IInvHolds, PTL

\* muntar_to_path makes no file from an archive that is broken anywhere: the
\* loop over the directories has been through all of it.
THEOREM NothingFromBrokenHolds == Spec => []NothingFromBroken
<1>1. IInv => NothingFromBroken
  BY DEF IInv, Kept, NothingFromBroken
<1> QED
  BY <1>1, IInvHolds, PTL

\* What was at the destination stays as it was, and no file is made twice, for
\* any destination and any archive.
THEOREM ExistingKeptHolds == Spec => []ExistingKept
<1>1. IInv => ExistingKept
  BY DEF IInv, Kept, ExistingKept
<1> QED
  BY <1>1, IInvHolds, PTL

\* A success means that every regular file has been made, in order and from
\* its own bytes, and the archive of a tree of any size and depth meets it in a
\* fresh destination unless a write fails.
THEOREM TreeExtractsHolds == Spec => []TreeExtracts
<1>1. IInv => TreeExtracts
  BY DEF IInv, TreeExtracts
<1> QED
  BY <1>1, IInvHolds, PTL
=============================================================================
