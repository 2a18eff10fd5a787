------------------------- MODULE LibResolverProofs --------------------------
(***************************************************************************)
(* For any configuration, any files and any libraries, the directories are *)
(* searched in the order in which the configuration lists them, and TinyCC *)
(* is given what the first directory that has a library has of it, scripts *)
(* read as one reads them.                                                 *)
(***************************************************************************)
EXTENDS LibResolver, FiniteSetTheorems, SequenceTheorems, WellFoundedInduction, TLAPS

\* The directories that a world names.
DirsOf(w) ==
  Range(w.paths)
  \cup UNION {{x.dir : x \in {y \in Range(w.conf[f]) : y.line = "dir"}} : f \in DOMAIN w.conf}

Frames == [file : DOMAIN world.conf, line : Nat \ {0}, match : Nat \ {0}]

\* A frame is at a line of its file, or behind the last, and at a match of that
\* line if it includes others.
Placed(fr) ==
  /\ fr.line <= Len(world.conf[fr.file]) + 1
  /\ fr.match > 1 =>
       /\ fr.line <= Len(world.conf[fr.file])
       /\ LET x == world.conf[fr.file][fr.line] IN x.line = "include" /\ fr.match <= Len(x.files) + 1

\* The frame above reads the file that the frame below includes.
Above(fr, below) ==
  below.match > 1 /\ fr.file = world.conf[below.file][below.line].files[below.match - 1]

StackInv ==
  /\ stack \in Seq(Frames) /\ Len(stack) <= MaxOpen
  /\ \A d \in 1 .. Len(stack) : Placed(stack[d])
  /\ \A d \in 2 .. Len(stack) : Above(stack[d], stack[d - 1])
  /\ stack # <<>> => file > 1 /\ stack[1].file = ConfFiles[file - 1]
  /\ phase # "conf" => stack = <<>> /\ file > Len(ConfFiles)

\* The parser's state.
ScriptInv ==
  /\ DOMAIN script = {"path", "tokens", "mode", "depth", "unset", "libs"}
  /\ script.depth \in Nat

SearchInv ==
  /\ phase = "conf" => i = 1 /\ ii = 1
  /\ phase = "script" => i <= Len(world.libs) /\ ii <= Len(dirs)
  /\ ScriptInv

\* t begins with s and has what comes after it once.
Begins(s, t) == Len(s) <= Len(t) /\ \A k \in 1 .. Len(s) : s[k] = t[k]
NewOnce(s, t) == \A j \in Len(s) + 1 .. Len(t) : \A k \in 1 .. j - 1 : t[j] # t[k]

IInv ==
  /\ TypeOK
  /\ world \in Worlds
  /\ file \in 1 .. Len(ConfFiles) + 1
  /\ dirs \in Seq(DirsOf(world)) /\ Begins(world.paths, dirs) /\ NewOnce(world.paths, dirs)
  /\ StackInv
  /\ SearchInv

\* What each line of file f lists, and each file that line x includes, when n
\* files can still be opened, f among them.
Lists(w, n, f) == [l \in DOMAIN w.conf[f] |-> ListedBy(w.conf[f][l], DirsIn(w)[n - 1])]
Matches(w, n, x) == [k \in DOMAIN x.files |-> DirsIn(w)[n - 1][x.files[k]]]

\* What is listed by the lines of a frame before the one it is at, and by the
\* first m files that this one includes.
Part(w, n, fr, m) ==
  Flat(Lists(w, n, fr.file))[fr.line - 1]
  \o IF m = 0 THEN <<>> ELSE Flat(Matches(w, n, w.conf[fr.file][fr.line]))[m]

\* What is listed by each of the files that are not included.
Outermost == [k \in DOMAIN ConfFiles |-> DirsIn(world)[MaxOpen][ConfFiles[k]]]

Left(d) == MaxOpen - d + 1

\* What had been listed when each of the calls st began, the first of them for
\* the file before number n.
Heard(st, n, got) ==
  /\ got \in [1 .. Len(st) -> Seq(DirsOf(world))]
  /\ got[1] = Flat(Outermost)[n - 2]
  /\ \A d \in 2 .. Len(st) :
       got[d] = got[d - 1] \o Part(world, Left(d - 1), st[d - 1], st[d - 1].match - 2)

\* What has been listed so far, with got when the last call began.
Since(st, got) == got[Len(st)] \o Part(world, Left(Len(st)), st[Len(st)], st[Len(st)].match - 1)
SoFar(st, n, listed) ==
  /\ st = <<>> => listed = Flat(Outermost)[n - 1]
  /\ st # <<>> => \E got : Heard(st, n, got) /\ listed = Since(st, got)

\* Each call will read its file to the end, and the directories are those
\* listed so far.
ReadSoFar(st, n, ds) ==
  /\ \A d \in 1 .. Len(st) : st[d].file \in Whole(world)[Left(d)]
  /\ \E listed \in Seq(DirsOf(world)) : SoFar(st, n, listed) /\ InOrder(ds, world.paths, listed)

\* When every file can be read.
ConfInv == Readable => ReadSoFar(stack, file, dirs)

-----------------------------------------------------------------------------
(* Operators *)

\* A set of numbers that is not empty has a smallest one.
LEMMA NatLeast ==
  ASSUME NEW T, T \subseteq Nat, T # {}
  PROVE  \E m \in T : \A k \in T : m <= k
<1> DEFINE R == {p \in Nat \X Nat : p[1] < p[2]}
<1>1. IsWellFoundedOn(R, Nat)
  BY NatLessThanWellFounded DEF OpToRel
<1> HIDE DEF R
<1>2. PICK m \in T : \A y \in T : ~(<<y, m>> \in R)
  BY <1>1, WFMin
<1>3. ASSUME NEW k \in T PROVE m <= k
  <2>1. k \in Nat /\ m \in Nat /\ ~(<<k, m>> \in R)
    BY <1>2
  <2> QED
    BY <2>1 DEF R
<1> QED
  BY <1>3

LEMMA SetInduction ==
  ASSUME NEW P, 0 \in P, \A x \in Nat : x \in P => x + 1 \in P
  PROVE  \A x \in Nat : x \in P
<1> SUFFICES ASSUME NEW x \in Nat, x \notin P PROVE FALSE
  OBVIOUS
<1> DEFINE T == {t \in Nat : t \notin P}
<1>1. PICK m \in T : \A t \in T : m <= t
  BY NatLeast
<1>2. m # 0 /\ m - 1 \in Nat /\ m - 1 \in P
  BY <1>1
<1> QED
  BY <1>1, <1>2

\* f begins with a, and each of its n other values is that of g for the index
\* and the value before.
Solves(f, n, T, a, g) ==
  f \in [0 .. n -> T] /\ f[0] = a /\ \A j \in 1 .. n : f[j] = g[<<j, f[j - 1]>>]

\* What such an f says of values of T, without saying that f has its values there.
Obeys(f, n, T, a, g) ==
  f[0] = a /\ \A j \in 1 .. n : f[j - 1] \in T => f[j] = g[<<j, f[j - 1]>>]
Within(f, n, T) == \A j \in 0 .. n : f[j] \in T

\* An f that solves the equation exists; whatever obeys it has its values in T.
LEMMA RecExists ==
  ASSUME NEW n \in Nat, NEW T, NEW a \in T, NEW g \in [(1 .. n) \X T -> T]
  PROVE  \E f : Solves(f, n, T, a, g)
<1> DEFINE Is(f, m) == f \in [0 .. m -> T] /\ f[0] = a /\ \A j \in 1 .. m : f[j] = g[<<j, f[j - 1]>>]
           P == {m \in Nat : m <= n => \E f : Is(f, m)}
<1>1. 0 \in P
  <2> DEFINE f == [j \in 0 .. 0 |-> a]
  <2>1. Is(f, 0)
    OBVIOUS
  <2> QED
    BY <2>1
<1>2. ASSUME NEW m \in Nat, m \in P PROVE m + 1 \in P
  <2> SUFFICES ASSUME m + 1 <= n PROVE \E f : Is(f, m + 1)
    OBVIOUS
  <2>1. PICK f : Is(f, m)
    BY <1>2
  <2> DEFINE h == [j \in 0 .. m + 1 |-> IF j <= m THEN f[j] ELSE g[<<m + 1, f[m]>>]]
  <2>2. m \in 0 .. m /\ f[m] \in T /\ m + 1 \in 1 .. n
    BY <2>1
  <2>3. g[<<m + 1, f[m]>>] \in T
    BY <2>2
  <2>4. h \in [0 .. m + 1 -> T]
    BY <2>1, <2>3
  <2>5. h[0] = a
    BY <2>1
  <2>6. ASSUME NEW j \in 1 .. m + 1 PROVE h[j] = g[<<j, h[j - 1]>>]
    <3>1. h[j - 1] = f[j - 1]
      OBVIOUS
    <3>2. CASE j <= m
      <4>1. h[j] = f[j] /\ j \in 1 .. m
        BY <3>2
      <4> QED
        BY <2>1, <3>1, <4>1
    <3>3. CASE j = m + 1
      <4>1. h[j] = g[<<m + 1, f[m]>>] /\ j - 1 = m
        BY <3>3
      <4> QED
        BY <3>1, <3>3, <4>1
    <3> QED
      BY <3>2, <3>3
  <2> HIDE DEF h
  <2> QED
    BY <2>4, <2>5, <2>6
<1> HIDE DEF P
<1>3. n \in P
  BY <1>1, <1>2, SetInduction
<1> QED
  BY <1>3 DEF P, Solves

LEMMA RecTyped ==
  ASSUME NEW n \in Nat, NEW T, NEW a \in T, NEW g \in [(1 .. n) \X T -> T], NEW f,
         Obeys(f, n, T, a, g)
  PROVE  Within(f, n, T)
<1> DEFINE P == {m \in Nat : m <= n => f[m] \in T}
<1>1. 0 \in P
  BY DEF Obeys
<1>2. ASSUME NEW m \in Nat, m \in P PROVE m + 1 \in P
  <2> SUFFICES ASSUME m + 1 <= n PROVE f[m + 1] \in T
    OBVIOUS
  <2>1. f[m] \in T /\ m + 1 \in 1 .. n /\ m + 1 - 1 = m
    BY <1>2
  <2>2. f[m + 1] = g[<<m + 1, f[m]>>]
    BY <2>1 DEF Obeys
  <2> QED
    BY <2>1, <2>2
<1> HIDE DEF P
<1>3. \A m \in Nat : m \in P
  BY <1>1, <1>2, SetInduction
<1> QED
  BY <1>3 DEF P, Within

\* Flat begins with nothing and goes on with one sequence after the other.
LEMMA FlatSteps ==
  ASSUME NEW S, NEW ss \in Seq(Seq(S))
  PROVE  /\ Flat(ss)[0] = <<>>
         /\ \A k \in 1 .. Len(ss) : Flat(ss)[k] = Flat(ss)[k - 1] \o ss[k]
         /\ \A k \in 0 .. Len(ss) : Flat(ss)[k] \in Seq(S)
<1> DEFINE n == Len(ss)
           T == Seq(S)
           g == [p \in (1 .. n) \X T |-> p[2] \o ss[p[1]]]
           Is(f) == f = [k \in 0 .. n |-> IF k = 0 THEN <<>> ELSE f[k - 1] \o ss[k]]
<1>1. n \in Nat /\ \A k \in 1 .. n : ss[k] \in T
  BY LenProperties, ElementOfSeq
<1>2. <<>> \in T /\ \A x, y \in T : x \o y \in T
  BY ConcatProperties, EmptySeq
<1> HIDE DEF n, T
<1>3. g \in [(1 .. n) \X T -> T]
  BY <1>1, <1>2
<1>4. \E f : Is(f)
  <2>1. PICK f : Solves(f, n, T, <<>>, g)
    <3> HIDE DEF g, Is
    <3> QED
      BY <1>1, <1>2, <1>3, RecExists
  <2>2. f \in [0 .. n -> T] /\ f[0] = <<>> /\ \A k \in 1 .. n : f[k] = g[<<k, f[k - 1]>>]
    <3> HIDE DEF g, Is
    <3> QED
      BY <2>1 DEF Solves
  <2>3. ASSUME NEW k \in 1 .. n PROVE f[k] = f[k - 1] \o ss[k]
    <3>1. f[k - 1] \in T /\ k - 1 \in 0 .. n
      BY <1>1, <2>2
    <3> QED
      BY <2>2, <3>1
  <2>4. f = [k \in 0 .. n |-> f[k]]
    BY <2>2
  <2> HIDE DEF g
  <2>5. ASSUME NEW k \in 0 .. n PROVE f[k] = IF k = 0 THEN <<>> ELSE f[k - 1] \o ss[k]
    <3>1. k = 0 \/ k \in 1 .. n
      BY <1>1
    <3> QED
      BY <2>2, <2>3, <3>1
  <2> QED
    BY <2>4, <2>5
<1> DEFINE f == CHOOSE x : Is(x)
<1>5. Is(f)
  BY <1>4
<1>6. Flat(ss) = f
  BY DEF Flat, n
<1> HIDE DEF f
<1>7. f[0] = <<>> /\ \A k \in 1 .. n : f[k] = f[k - 1] \o ss[k]
  BY <1>1, <1>5
<1> HIDE DEF Is
<1>8. Obeys(f, n, T, <<>>, g)
  BY <1>7 DEF Obeys
<1>9. Within(f, n, T)
  <2> HIDE DEF g
  <2> QED
    BY <1>1, <1>2, <1>3, <1>8, RecTyped
<1> QED
  BY <1>6, <1>7, <1>9 DEF n, T, Within

\* A file is in Whole if all its lines can be read, the files it includes with
\* one file less left to open.
LEMMA WholeSteps ==
  ASSUME NEW w
  PROVE  /\ Whole(w)[0] = {}
         /\ \A n \in 1 .. MaxOpen : Whole(w)[n] =
              {f \in DOMAIN w.conf : \A x \in Range(w.conf[f]) : LineRead(x, Whole(w)[n - 1])}
<1> DEFINE N == MaxOpen
           T == SUBSET DOMAIN w.conf
           E(s) == {f \in DOMAIN w.conf : \A x \in Range(w.conf[f]) : LineRead(x, s)}
           g == [p \in (1 .. N) \X T |-> E(p[2])]
           Is(h) == h = [n \in 0 .. N |-> IF n = 0 THEN {} ELSE E(h[n - 1])]
<1>1. N \in Nat /\ {} \in T /\ \A s : E(s) \in T
  BY WorldsAssumption DEF WorldsAssumption
<1>2. Whole(w) = CHOOSE h : Is(h)
  BY DEF Whole
<1> HIDE DEF N, T, E
<1>3. g \in [(1 .. N) \X T -> T]
  BY <1>1
<1>4. \E h : Is(h)
  <2>1. PICK h : Solves(h, N, T, {}, g)
    <3> HIDE DEF g, Is
    <3> QED
      BY <1>1, <1>3, RecExists
  <2>2. h \in [0 .. N -> T] /\ h[0] = {} /\ \A k \in 1 .. N : h[k] = g[<<k, h[k - 1]>>]
    <3> HIDE DEF g, Is
    <3> QED
      BY <2>1 DEF Solves
  <2>3. ASSUME NEW k \in 1 .. N PROVE h[k] = E(h[k - 1])
    <3>1. h[k - 1] \in T /\ k - 1 \in 0 .. N
      BY <1>1, <2>2
    <3> QED
      BY <2>2, <3>1
  <2>4. h = [k \in 0 .. N |-> h[k]]
    BY <2>2
  <2>5. \A k \in 0 .. N : h[k] = IF k = 0 THEN {} ELSE E(h[k - 1])
    BY <1>1, <2>2, <2>3
  <2> QED
    BY <2>4, <2>5
<1> DEFINE h == CHOOSE x : Is(x)
<1>5. Is(h)
  BY <1>4
<1> HIDE DEF h
<1>6. h[0] = {} /\ \A k \in 1 .. N : h[k] = E(h[k - 1])
  <2>1. \A k \in 0 .. N : h[k] = IF k = 0 THEN {} ELSE E(h[k - 1])
    BY <1>5
  <2>2. 0 \in 0 .. N /\ \A k \in 1 .. N : k \in 0 .. N /\ k # 0
    BY <1>1
  <2> HIDE DEF Is
  <2> QED
    BY <2>1, <2>2
<1> QED
  BY <1>2, <1>6 DEF h, N, E

\* A sequence has its elements at the positions up to its length.
LEMMA SeqIs ==
  ASSUME NEW s, IsSeq(s)
  PROVE  /\ s \in Seq(Range(s)) /\ Len(s) \in Nat /\ DOMAIN s = 1 .. Len(s)
         /\ \A k \in 1 .. Len(s) : s[k] \in Range(s)
<1>1. s \in Seq(Range(s))
  BY DEF IsSeq
<1>2. Len(s) \in Nat /\ DOMAIN s = 1 .. Len(s)
  BY <1>1, LenProperties
<1> QED
  BY <1>1, <1>2 DEF Range

LEMMA FlattenedType ==
  ASSUME NEW S, NEW s \in Seq(Seq(S))
  PROVE  Flattened(s) \in Seq(S)
<1>1. Len(s) \in 0 .. Len(s)
  BY LenProperties
<1> QED
  BY <1>1, FlatSteps DEF Flattened

\* The lines of a file are typed, and those of one that can be read whole list
\* directories.
LEMMA LineOf ==
  ASSUME NEW w \in Worlds, NEW f \in DOMAIN w.conf
  PROVE  /\ IsSeq(w.conf[f])
         /\ \A x \in Range(w.conf[f]) :
              /\ x.line \in Lines
              /\ x.line = "include" => IsSeq(x.files)
              /\ x.line = "dir" => x.dir \in DirsOf(w)
<1>1. /\ IsSeq(w.conf[f])
      /\ \A x \in Range(w.conf[f]) : x.line \in Lines /\ (x.line = "include" => IsSeq(x.files))
  BY WorldsAssumption DEF WorldsAssumption
<1>2. ASSUME NEW x \in Range(w.conf[f]), x.line = "dir" PROVE x.dir \in DirsOf(w)
  BY <1>2 DEF DirsOf
<1> QED
  BY <1>1, <1>2

LEMMA ListedByType ==
  ASSUME NEW w \in Worlds, NEW n \in 1 .. MaxOpen, NEW f \in Whole(w)[n], NEW x \in Range(w.conf[f]),
         NEW names \in [DOMAIN w.conf -> Seq(DirsOf(w))]
  PROVE  ListedBy(x, names) \in Seq(DirsOf(w))
<1> DEFINE D == DirsOf(w)
<1>1. f \in DOMAIN w.conf /\ LineRead(x, Whole(w)[n - 1])
  <2>1. Whole(w)[n] = {e \in DOMAIN w.conf : \A y \in Range(w.conf[e]) : LineRead(y, Whole(w)[n - 1])}
    BY WholeSteps
  <2> QED
    BY <2>1
<1>2. n = 1 \/ n - 1 \in 1 .. MaxOpen
  BY WorldsAssumption DEF WorldsAssumption
<1>3. Whole(w)[n - 1] \subseteq DOMAIN w.conf
  <2>1. CASE n = 1
    BY <2>1, WholeSteps
  <2>2. CASE n - 1 \in 1 .. MaxOpen
    BY <2>2, WholeSteps
  <2> QED
    BY <1>2, <2>1, <2>2
<1>4. x.line = "include" => IsSeq(x.files)
  BY <1>1, LineOf
<1>5. x.line = "dir" => x.dir \in D
  BY <1>1, LineOf
<1>6. CASE x.line = "dir"
  BY <1>5, <1>6 DEF ListedBy
<1>7. CASE x.line = "include"
  <2> DEFINE s == [k \in DOMAIN x.files |-> names[x.files[k]]]
  <2>1. Range(x.files) \subseteq DOMAIN w.conf
    BY <1>1, <1>3, <1>7 DEF LineRead
  <2>2. /\ Len(x.files) \in Nat /\ DOMAIN x.files = 1 .. Len(x.files)
        /\ \A k \in 1 .. Len(x.files) : x.files[k] \in DOMAIN w.conf
    BY <1>4, <1>7, <2>1, SeqIs
  <2>3. \A k \in 1 .. Len(x.files) : names[x.files[k]] \in Seq(D)
    BY <2>2
  <2> HIDE DEF D
  <2>4. s \in Seq(Seq(D))
    BY <2>2, <2>3
  <2>5. ListedBy(x, names) = Flattened(s)
    BY <1>7 DEF ListedBy
  <2> HIDE DEF s
  <2> QED
    BY <2>4, <2>5, FlattenedType DEF D
<1>8. CASE x.line = "other"
  BY <1>8, EmptySeq DEF ListedBy
<1> QED
  BY <1>1, <1>6, <1>7, <1>8 DEF LineRead

\* What a file lists is what its lines list.
LEMMA DirsInSteps ==
  ASSUME NEW w \in Worlds
  PROVE  /\ \A n \in 0 .. MaxOpen : DirsIn(w)[n] \in [DOMAIN w.conf -> Seq(DirsOf(w))]
         /\ \A n \in 1 .. MaxOpen, f \in DOMAIN w.conf :
              f \in Whole(w)[n] => DirsIn(w)[n][f] = Flattened(Lists(w, n, f))
<1> DEFINE N == MaxOpen
           C == DOMAIN w.conf
           T == [C -> Seq(DirsOf(w))]
           E(n, x) == [f \in C |-> IF f \notin Whole(w)[n] THEN <<>>
                                   ELSE Flattened([l \in DOMAIN w.conf[f] |-> ListedBy(w.conf[f][l], x)])]
           a == [f \in C |-> <<>>]
           g == [p \in (1 .. N) \X T |-> E(p[1], p[2])]
           Is(h) == h = [n \in 0 .. N |-> E(n, h[n - 1])]
<1>1. N \in Nat
  BY WorldsAssumption DEF WorldsAssumption
<1>2. a \in T
  BY EmptySeq
<1>3. ASSUME NEW n \in 1 .. N, NEW x \in T PROVE E(n, x) \in T
  <2>1. ASSUME NEW f \in C, f \in Whole(w)[n]
        PROVE  Flattened([l \in DOMAIN w.conf[f] |-> ListedBy(w.conf[f][l], x)]) \in Seq(DirsOf(w))
    <3> DEFINE s == [l \in DOMAIN w.conf[f] |-> ListedBy(w.conf[f][l], x)]
               D == Seq(DirsOf(w))
    <3>1. /\ Len(w.conf[f]) \in Nat /\ DOMAIN w.conf[f] = 1 .. Len(w.conf[f])
          /\ \A l \in 1 .. Len(w.conf[f]) : w.conf[f][l] \in Range(w.conf[f])
      BY LineOf, SeqIs
    <3>2. \A l \in 1 .. Len(w.conf[f]) : ListedBy(w.conf[f][l], x) \in D
      <4> SUFFICES ASSUME NEW l \in 1 .. Len(w.conf[f]) PROVE ListedBy(w.conf[f][l], x) \in D
        OBVIOUS
      <4> QED
        BY <2>1, <3>1, ListedByType
    <3> HIDE DEF D
    <3>3. s \in Seq(Seq(DirsOf(w)))
      BY <3>1, <3>2 DEF D
    <3> HIDE DEF s
    <3>4. Flattened(s) \in Seq(DirsOf(w))
      BY <3>3, FlattenedType
    <3> QED
      BY <3>4 DEF s
  <2> QED
    BY <2>1, EmptySeq
<1>4. E(0, a) = a /\ \A x : E(0, x) = a
  BY WholeSteps
<1>5. DirsIn(w) = CHOOSE h : Is(h)
  BY DEF DirsIn
<1>6. \A n, x : \A f \in C : f \in Whole(w)[n] =>
        E(n, x)[f] = Flattened([l \in DOMAIN w.conf[f] |-> ListedBy(w.conf[f][l], x)])
  OBVIOUS
<1> HIDE DEF N, C, T, E, a
<1>7. g \in [(1 .. N) \X T -> T]
  BY <1>3
<1>8. \E h : Is(h)
  <2>1. PICK h : Solves(h, N, T, a, g)
    <3> HIDE DEF g, Is
    <3> QED
      BY <1>1, <1>2, <1>7, RecExists
  <2>2. h \in [0 .. N -> T] /\ h[0] = a /\ \A k \in 1 .. N : h[k] = g[<<k, h[k - 1]>>]
    <3> HIDE DEF g, Is
    <3> QED
      BY <2>1 DEF Solves
  <2>3. ASSUME NEW k \in 1 .. N PROVE h[k] = E(k, h[k - 1])
    <3>1. h[k - 1] \in T /\ k - 1 \in 0 .. N
      BY <1>1, <2>2
    <3> QED
      BY <2>2, <3>1
  <2>4. h = [k \in 0 .. N |-> h[k]]
    BY <2>2
  <2> HIDE DEF g
  <2>5. ASSUME NEW k \in 0 .. N PROVE h[k] = E(k, h[k - 1])
    <3>1. k = 0 \/ k \in 1 .. N
      BY <1>1
    <3> QED
      BY <1>4, <2>2, <2>3, <3>1
  <2> QED
    BY <2>4, <2>5
<1> DEFINE h == CHOOSE x : Is(x)
<1>9. Is(h)
  BY <1>8
<1> HIDE DEF h
<1>10. \A k \in 0 .. N : h[k] = E(k, h[k - 1])
  BY <1>9
<1>11. h[0] = a /\ \A k \in 1 .. N : h[k] = E(k, h[k - 1])
  BY <1>1, <1>4, <1>10
<1> HIDE DEF Is
<1>12. Obeys(h, N, T, a, g)
  <2>1. ASSUME NEW k \in 1 .. N, h[k - 1] \in T PROVE h[k] = g[<<k, h[k - 1]>>]
    BY <1>11, <2>1
  <2> QED
    BY <1>11, <2>1 DEF Obeys
<1>13. Within(h, N, T)
  <2> HIDE DEF g
  <2> QED
    BY <1>1, <1>2, <1>7, <1>12, RecTyped
<1>14. ASSUME NEW n \in 1 .. N, NEW f \in C, f \in Whole(w)[n]
       PROVE  h[n][f] = Flattened(Lists(w, n, f))
  <2>1. h[n][f] = Flattened([l \in DOMAIN w.conf[f] |-> ListedBy(w.conf[f][l], h[n - 1])])
    BY <1>6, <1>11, <1>14
  <2> QED
    BY <1>5, <2>1 DEF Lists, h
<1>15. DirsIn(w) = h
  BY <1>5 DEF h
<1> QED
  BY <1>13, <1>14, <1>15 DEF Within, N, T, C

LEMMA BeginsIsPrefix ==
  ASSUME NEW S, NEW s \in Seq(S), NEW t \in Seq(S)
  PROVE  IsPrefix(s, t) <=> Begins(s, t)
<1>1. Len(s) \in Nat /\ Len(t) \in Nat
  BY LenProperties
<1>2. SUFFICES ASSUME Len(s) <= Len(t)
               PROVE  SubSeq(s, 1, Len(s)) = SubSeq(t, 1, Len(s)) <=> \A k \in 1 .. Len(s) : s[k] = t[k]
  BY DEF IsPrefix, Begins
<1> DEFINE m == Len(s)
           u == SubSeq(t, 1, m)
<1>3. SubSeq(s, 1, m) = s
  BY SubSeqFull
<1>4. u \in Seq(S) /\ Len(u) = m /\ \A k \in 1 .. m : u[k] = t[k]
  <2>1. \A k \in 1 .. m : t[k] \in S
    BY <1>1, <1>2, ElementOfSeq
  <2>2. u \in Seq(S) /\ Len(u) = (IF 1 <= m THEN m - 1 + 1 ELSE 0) /\ \A k \in 1 .. m - 1 + 1 : u[k] = t[1 + k - 1]
    BY <1>1, <2>1, SubSeqProperties
  <2> QED
    BY <1>1, <2>2
<1> HIDE DEF u
<1>5. s = u <=> \A k \in 1 .. m : s[k] = u[k]
  BY <1>1, <1>4, SeqEqual
<1>6. (\A k \in 1 .. m : s[k] = u[k]) <=> \A k \in 1 .. m : s[k] = t[k]
  BY <1>4
<1> QED
  BY <1>3, <1>5, <1>6 DEF u

\* A directory is added behind the others unless it is there.
LEMMA AddPathOnce ==
  ASSUME NEW S, NEW s \in Seq(S), NEW t \in Seq(S), Begins(s, t), NewOnce(s, t), NEW d \in S
  PROVE  LET u == IF Contains(t, d) THEN t ELSE Append(t, d) IN
         u \in Seq(S) /\ Begins(s, u) /\ NewOnce(s, u)
<1>1. Len(s) \in Nat /\ Len(t) \in Nat
  BY LenProperties
<1>2. CASE Contains(t, d)
  BY <1>2
<1>3. CASE ~Contains(t, d)
  <2> DEFINE u == Append(t, d)
  <2>1. u \in Seq(S) /\ Len(u) = Len(t) + 1 /\ (\A k \in 1 .. Len(t) : u[k] = t[k]) /\ u[Len(t) + 1] = d
    BY AppendProperties
  <2> HIDE DEF u
  <2>2. Begins(s, u)
    BY <1>1, <2>1 DEF Begins
  <2>3. \A k \in 1 .. Len(t) : t[k] # d
    BY <1>3 DEF Contains
  <2>4. ASSUME NEW j \in Len(s) + 1 .. Len(u), NEW k \in 1 .. j - 1 PROVE u[j] # u[k]
    <3>1. k \in 1 .. Len(t) /\ u[k] = t[k]
      BY <1>1, <2>1
    <3>2. CASE j = Len(t) + 1
      BY <2>1, <2>3, <3>1, <3>2
    <3>3. CASE j # Len(t) + 1
      <4> DEFINE p == Len(s)
                 q == Len(t)
      <4>1. p \in Nat /\ q \in Nat /\ j \in p + 1 .. q + 1 /\ j # q + 1
        BY <1>1, <2>1, <3>3
      <4> HIDE DEF p, q
      <4>2. j \in p + 1 .. q /\ j \in 1 .. q
        BY <4>1
      <4>3. j \in Len(s) + 1 .. Len(t) /\ u[j] = t[j]
        BY <2>1, <4>2 DEF p, q
      <4> QED
        BY <3>1, <4>3 DEF NewOnce
    <3> QED
      BY <3>2, <3>3
  <2> QED
    BY <1>3, <2>1, <2>2, <2>4 DEF u, NewOnce
<1> QED
  BY <1>2, <1>3

-----------------------------------------------------------------------------
(* Types *)

LEMMA Worldly ==
  ASSUME world \in Worlds
  PROVE  /\ IsSeq(world.paths) /\ IsSeq(world.libs) /\ IsSeq(ConfFiles)
         /\ Len(world.libs) \in Nat /\ Len(ConfFiles) \in Nat
         /\ world.paths \in Seq(DirsOf(world))
<1>1. IsSeq(world.parts) /\ IsSeq(world.paths) /\ IsSeq(world.libs)
  BY WorldsAssumption DEF WorldsAssumption
<1>2. world.paths \in Seq(DirsOf(world))
  <2>1. Range(world.paths) \subseteq DirsOf(world)
    BY DEF DirsOf
  <2> QED
    BY <1>1, <2>1, SeqIs, SeqMonotonic
<1>3. IsSeq(ConfFiles)
  <2> DEFINE S == Range(world.parts) \cup {"ld.so.conf"}
             c == <<"ld.so.conf">> \o world.parts
  <2>1. world.parts \in Seq(S) /\ <<"ld.so.conf">> \in Seq(S)
    <3>1. Range(world.parts) \subseteq S
      OBVIOUS
    <3>2. world.parts \in Seq(S)
      BY <1>1, <3>1, SeqIs, SeqMonotonic
    <3> QED
      BY <3>2
  <2> HIDE DEF S
  <2>2. c \in Seq(S)
    BY <2>1, ConcatProperties
  <2> HIDE DEF c
  <2>3. c \in [1 .. Len(c) -> S] /\ Len(c) \in Nat
    BY <2>2, LenProperties
  <2>4. c \in Seq(Range(c))
    <3>1. \A k \in 1 .. Len(c) : c[k] \in Range(c)
      BY <2>3 DEF Range
    <3>2. c = [k \in 1 .. Len(c) |-> c[k]]
      BY <2>3
    <3> DEFINE R == Range(c)
               n == Len(c)
    <3> HIDE DEF R, n
    <3>3. [k \in 1 .. n |-> c[k]] \in Seq(R)
      BY <2>3, <3>1 DEF R, n
    <3> QED
      BY <3>2, <3>3 DEF R, n
  <2> QED
    BY <2>4 DEF IsSeq, ConfFiles, c
<1> QED
  BY <1>1, <1>2, <1>3, SeqIs

LEMMA IInvInit == Init => IInv
<1> SUFFICES ASSUME Init PROVE IInv
  OBVIOUS
<1>1. /\ world \in Worlds /\ phase = "conf" /\ file = 1 /\ stack = <<>> /\ dirs = world.paths
      /\ i = 1 /\ ii = 1 /\ script = NoScript
  BY DEF Init
<1>2. /\ Len(world.libs) \in Nat /\ Len(ConfFiles) \in Nat /\ dirs \in Seq(DirsOf(world))
      /\ Len(dirs) \in Nat
  BY <1>1, Worldly, LenProperties
<1>3. MaxOpen \in Nat
  BY WorldsAssumption DEF WorldsAssumption
<1>4. TypeOK
  BY <1>1, <1>2, <1>3, EmptySeq DEF TypeOK, NoScript
<1>5. Begins(world.paths, dirs) /\ NewOnce(world.paths, dirs)
  BY <1>1, <1>2 DEF Begins, NewOnce
<1>6. StackInv
  BY <1>1, <1>3, EmptySeq DEF StackInv
<1>7. SearchInv
  BY <1>1 DEF SearchInv, ScriptInv, NoScript
<1> QED
  BY <1>1, <1>2, <1>4, <1>5, <1>6, <1>7 DEF IInv

\* The top of the stack, and what is left when it is taken off.
LEMMA TopIs ==
  ASSUME IInv, stack # <<>>
  PROVE  /\ Len(stack) \in Nat \ {0} /\ Top = stack[Len(stack)] /\ Top \in Frames /\ Placed(Top)
         /\ Front(stack) \in Seq(Frames) /\ Len(Front(stack)) = Len(stack) - 1
         /\ \A d \in 1 .. Len(stack) - 1 : Front(stack)[d] = stack[d]
<1>1. stack \in Seq(Frames) /\ \A d \in 1 .. Len(stack) : Placed(stack[d])
  BY DEF IInv, StackInv
<1>2. Len(stack) \in Nat \ {0} /\ \A d \in 1 .. Len(stack) : stack[d] \in Frames
  BY <1>1, LenProperties, EmptySeq, ElementOfSeq
<1>3. Top = stack[Len(stack)] /\ Front(stack) = SubSeq(stack, 1, Len(stack) - 1)
  BY DEF Top, Last, Front
<1> DEFINE n == Len(stack)
           s == SubSeq(stack, 1, n - 1)
<1>4. \A d \in 1 .. n - 1 : stack[d] \in Frames
  BY <1>2
<1>5. /\ s \in Seq(Frames) /\ Len(s) = (IF 1 <= n - 1 THEN n - 1 - 1 + 1 ELSE 0)
      /\ \A d \in 1 .. n - 1 - 1 + 1 : s[d] = stack[1 + d - 1]
  BY <1>2, <1>4, SubSeqProperties
<1> HIDE DEF s
<1>6. Len(s) = n - 1
  <2>1. Len(s) = IF 1 <= n - 1 THEN n - 1 - 1 + 1 ELSE 0
    BY <1>5
  <2>2. n \in Nat /\ n >= 1
    BY <1>2
  <2> HIDE DEF n
  <2> QED
    BY <2>1, <2>2
<1>7. ASSUME NEW d \in 1 .. n - 1 PROVE s[d] = stack[d]
  <2>1. d \in 1 .. n - 1 - 1 + 1 /\ 1 + d - 1 = d
    BY <1>2
  <2> QED
    BY <1>5, <2>1
<1> QED
  BY <1>1, <1>2, <1>3, <1>5, <1>6, <1>7 DEF s

\* The line at hand, and the file it is in.
LEMMA LineIs ==
  ASSUME IInv, stack # <<>>
  PROVE  /\ Top.file \in DOMAIN world.conf /\ Top.line \in Nat \ {0} /\ Top.match \in Nat \ {0}
         /\ IsSeq(world.conf[Top.file])
         /\ Len(world.conf[Top.file]) \in Nat
         /\ Top.line <= Len(world.conf[Top.file]) =>
              Line \in Range(world.conf[Top.file]) /\ Line = world.conf[Top.file][Top.line]
<1>1. Top \in Frames /\ world \in Worlds
  BY TopIs DEF IInv
<1>2. Top.file \in DOMAIN world.conf /\ Top.line \in Nat \ {0} /\ Top.match \in Nat \ {0}
  BY <1>1 DEF Frames
<1>3. IsSeq(world.conf[Top.file])
  BY <1>1, <1>2, LineOf
<1>4. /\ Len(world.conf[Top.file]) \in Nat
      /\ \A k \in 1 .. Len(world.conf[Top.file]) : world.conf[Top.file][k] \in Range(world.conf[Top.file])
  BY <1>3, SeqIs
<1> QED
  BY <1>2, <1>3, <1>4 DEF Line

\* The top frame goes on to another line or match.
Replaced(fr, s) ==
  fr \in Frames /\ fr.file = Top.file /\ Placed(fr) /\ s = [stack EXCEPT ![Len(stack)] = fr]

LEMMA TopMoves ==
  ASSUME IInv, stack # <<>>, NEW fr, NEW s, Replaced(fr, s)
  PROVE  /\ s \in Seq(Frames) /\ Len(s) = Len(stack) /\ s # <<>> /\ s[Len(s)] = fr
         /\ \A d \in 1 .. Len(stack) - 1 : s[d] = stack[d]
         /\ \A d \in 1 .. Len(s) : Placed(s[d])
         /\ \A d \in 2 .. Len(s) : Above(s[d], s[d - 1])
         /\ file > 1 /\ s[1].file = ConfFiles[file - 1]
<1> USE DEF Replaced
<1> DEFINE n == Len(stack)
<1>1. n \in Nat \ {0} /\ Top = stack[n] /\ stack \in Seq(Frames)
  BY TopIs DEF IInv, StackInv
<1>2. s \in Seq(Frames) /\ Len(s) = n /\ \A d \in 1 .. n : s[d] = IF d = n THEN fr ELSE stack[d]
  <2>1. n \in 1 .. n
    BY <1>1
  <2> QED
    BY <1>1, <2>1, ExceptSeq
<1>3. s # <<>> /\ s[n] = fr /\ \A d \in 1 .. n - 1 : s[d] = stack[d]
  <2>1. s # <<>>
    BY <1>1, <1>2, EmptySeq
  <2>2. n \in 1 .. n /\ \A d \in 1 .. n - 1 : d \in 1 .. n /\ d # n
    BY <1>1
  <2> QED
    BY <1>2, <2>1, <2>2
<1>4. ASSUME NEW d \in 1 .. n PROVE Placed(s[d])
  BY <1>2 DEF IInv, StackInv
<1>5. ASSUME NEW d \in 2 .. n PROVE Above(s[d], s[d - 1])
  <2>1. d \in 1 .. n /\ d - 1 \in 1 .. n /\ d - 1 # n
    BY <1>1
  <2>2. s[d - 1] = stack[d - 1] /\ s[d].file = stack[d].file
    BY <1>1, <1>2, <2>1
  <2>3. Above(stack[d], stack[d - 1])
    BY DEF IInv, StackInv
  <2> QED
    BY <2>2, <2>3 DEF Above
<1>6. file > 1 /\ s[1].file = ConfFiles[file - 1]
  <2>1. file > 1 /\ stack[1].file = ConfFiles[file - 1]
    BY DEF IInv, StackInv
  <2>2. 1 \in 1 .. n
    BY <1>1
  <2> QED
    BY <1>1, <1>2, <2>1, <2>2
<1> QED
  BY <1>2, <1>3, <1>4, <1>5, <1>6

NextOf(fr) == [file |-> fr.file, line |-> fr.line + 1, match |-> 1]
MatchOf(fr) == [file |-> fr.file, line |-> fr.line, match |-> fr.match + 1]

LEMMA MovesAre ==
  ASSUME IInv, stack # <<>>, Top.line <= Len(world.conf[Top.file])
  PROVE  /\ NextLine = [stack EXCEPT ![Len(stack)] = NextOf(Top)]
         /\ NextMatch = [stack EXCEPT ![Len(stack)] = MatchOf(Top)]
         /\ NextOf(Top) \in Frames /\ Placed(NextOf(Top)) /\ MatchOf(Top) \in Frames
         /\ Line.line = "include" /\ Top.match <= Len(Line.files) => Placed(MatchOf(Top))
<1>1. Top \in Frames /\ Top = stack[Len(stack)]
  BY TopIs
<1>2. /\ Top.file \in DOMAIN world.conf /\ Top.line \in Nat \ {0} /\ Top.match \in Nat \ {0}
      /\ Len(world.conf[Top.file]) \in Nat /\ Line \in Range(world.conf[Top.file])
      /\ Line = world.conf[Top.file][Top.line]
  BY LineIs
<1>4. NextLine = [stack EXCEPT ![Len(stack)] = NextOf(Top)]
  BY DEF NextLine, NextOf
<1>5. NextMatch = [stack EXCEPT ![Len(stack)] = MatchOf(Top)]
  BY DEF NextMatch, MatchOf
<1>6. NextOf(Top) \in Frames /\ MatchOf(Top) \in Frames
  BY <1>2 DEF NextOf, MatchOf, Frames
<1>7. Placed(NextOf(Top))
  BY <1>2 DEF Placed, NextOf
<1>8. ASSUME Line.line = "include", Top.match <= Len(Line.files) PROVE Placed(MatchOf(Top))
  <2>1. IsSeq(Line.files)
    BY <1>2, <1>8, LineOf DEF IInv
  <2>2. Len(Line.files) \in Nat
    BY <2>1, SeqIs
  <2>3. MatchOf(Top).match <= Len(Line.files) + 1
    <3> DEFINE p == Top.match
               q == Len(Line.files)
    <3>1. p \in Nat /\ q \in Nat /\ p <= q
      BY <1>2, <1>8, <2>2
    <3> HIDE DEF p, q
    <3>2. p + 1 <= q + 1
      BY <3>1
    <3>3. MatchOf(Top).match = p + 1
      BY DEF MatchOf, p
    <3> QED
      BY <3>2, <3>3 DEF q
  <2> QED
    BY <1>2, <1>8, <2>3 DEF Placed, MatchOf
<1> QED
  BY <1>4, <1>5, <1>6, <1>7, <1>8

\* What only the configuration's actions change.
LEMMA ConfKeeps ==
  ASSUME IInv, phase = "conf", phase' = "conf", UNCHANGED <<world, i, ii, resolved, script>>,
         file' \in 1 .. Len(ConfFiles) + 1,
         dirs' \in Seq(DirsOf(world)), Begins(world.paths, dirs'), NewOnce(world.paths, dirs'),
         stack' \in Seq(Frames), Len(stack') <= MaxOpen,
         \A d \in 1 .. Len(stack') : Placed(stack'[d]),
         \A d \in 2 .. Len(stack') : Above(stack'[d], stack'[d - 1]),
         stack' # <<>> => file' > 1 /\ stack'[1].file = ConfFiles[file' - 1]
  PROVE  IInv'
<1>1. ConfFiles' = ConfFiles /\ Frames' = Frames /\ world' = world
  BY DEF ConfFiles, Frames
<1>2. StackInv'
  <2>1. \A d \in 1 .. Len(stack') : Placed(stack[d])'
    BY <1>1 DEF Placed
  <2>2. \A d \in 2 .. Len(stack') : Above(stack[d], stack[d - 1])'
    BY <1>1 DEF Above
  <2> QED
    BY <1>1, <2>1, <2>2 DEF StackInv
<1>3. SearchInv'
  BY DEF IInv, SearchInv, ScriptInv
<1>4. TypeOK'
  <2>1. Len(dirs') \in Nat
    BY LenProperties
  <2>2. i = 1 /\ ii = 1 /\ Len(world.libs) \in Nat
    BY Worldly DEF IInv, SearchInv
  <2>3. i' \in 1 .. Len(world'.libs) + 1 /\ ii' \in 1 .. Len(dirs') + 1
    BY <2>1, <2>2
  <2> QED
    BY <2>3 DEF IInv, TypeOK
<1> QED
  BY <1>1, <1>2, <1>3, <1>4 DEF IInv

LEMMA ConfFacts ==
  ASSUME IInv, phase = "conf"
  PROVE  /\ world \in Worlds /\ file \in 1 .. Len(ConfFiles) + 1 /\ Len(ConfFiles) \in Nat
         /\ dirs \in Seq(DirsOf(world)) /\ Begins(world.paths, dirs) /\ NewOnce(world.paths, dirs)
         /\ stack \in Seq(Frames) /\ Len(stack) <= MaxOpen /\ MaxOpen \in Nat \ {0}
BY Worldly, WorldsAssumption DEF IInv, StackInv, WorldsAssumption

LEMMA NewFrame ==
  ASSUME IInv, NEW f \in DOMAIN world.conf
  PROVE  Frame(f) \in Frames /\ Placed(Frame(f))
<1>1. IsSeq(world.conf[f])
  BY LineOf DEF IInv
<1>2. Len(world.conf[f]) \in Nat
  BY <1>1, SeqIs
<1> QED
  BY <1>2 DEF Frame, Frames, Placed

LEMMA IInvOpenConf == IInv /\ OpenConf => IInv'
<1> SUFFICES ASSUME IInv, OpenConf PROVE IInv'
  OBVIOUS
<1>1. /\ phase = "conf" /\ phase' = "conf" /\ stack = <<>> /\ file <= Len(ConfFiles) /\ file' = file + 1
      /\ UNCHANGED <<world, dirs, i, ii, resolved, script>>
      /\ stack' = IF CanOpen(ConfFiles[file]) THEN <<Frame(ConfFiles[file])>> ELSE <<>>
  BY DEF OpenConf
<1>2. file' \in 1 .. Len(ConfFiles) + 1 /\ file' > 1 /\ file' - 1 = file
  BY <1>1, ConfFacts
<1>3. CASE CanOpen(ConfFiles[file])
  <2> DEFINE fr == Frame(ConfFiles[file])
  <2>1. fr \in Frames /\ Placed(fr) /\ fr.file = ConfFiles[file]
    BY <1>3, NewFrame DEF CanOpen, Frame
  <2> HIDE DEF fr
  <2>2. stack' = <<fr>>
    BY <1>1, <1>3 DEF fr
  <2>3. stack' \in Seq(Frames) /\ Len(stack') = 1 /\ stack'[1] = fr
    BY <2>1, <2>2
  <2>4. Len(stack') <= MaxOpen
    BY <1>1, <2>3, ConfFacts
  <2> QED
    BY <1>1, <1>2, <2>1, <2>3, <2>4, ConfFacts, ConfKeeps
<1>4. CASE ~CanOpen(ConfFiles[file])
  <2>1. stack' \in Seq(Frames) /\ Len(stack') = 0 /\ stack' = <<>>
    BY <1>1, <1>4
  <2>2. Len(stack') <= MaxOpen
    BY <1>1, <2>1, ConfFacts
  <2> QED
    BY <1>1, <1>2, <2>1, <2>2, ConfFacts, ConfKeeps
<1> QED
  BY <1>3, <1>4

LEMMA IInvCloseConf == IInv /\ CloseConf => IInv'
<1> SUFFICES ASSUME IInv, CloseConf PROVE IInv'
  OBVIOUS
<1>1. /\ phase = "conf" /\ phase' = "conf" /\ stack # <<>> /\ stack' = Front(stack)
      /\ UNCHANGED <<world, file, dirs, i, ii, resolved, script>>
  BY DEF CloseConf
<1>2. /\ Len(stack) \in Nat \ {0} /\ stack' \in Seq(Frames) /\ Len(stack') = Len(stack) - 1
      /\ \A d \in 1 .. Len(stack) - 1 : stack'[d] = stack[d]
  BY <1>1, TopIs
<1>3. Len(stack') <= MaxOpen
  BY <1>2, ConfFacts, <1>1
<1>4. ASSUME NEW d \in 1 .. Len(stack') PROVE Placed(stack'[d])
  BY <1>2 DEF IInv, StackInv
<1>5. ASSUME NEW d \in 2 .. Len(stack') PROVE Above(stack'[d], stack'[d - 1])
  <2>1. d \in 1 .. Len(stack) - 1 /\ d - 1 \in 1 .. Len(stack) - 1 /\ d \in 2 .. Len(stack)
    BY <1>2
  <2> QED
    BY <1>2, <2>1 DEF IInv, StackInv
<1>6. stack' # <<>> => file' > 1 /\ stack'[1].file = ConfFiles[file' - 1]
  <2> SUFFICES ASSUME stack' # <<>> PROVE file' > 1 /\ stack'[1].file = ConfFiles[file' - 1]
    OBVIOUS
  <2>1. 1 \in 1 .. Len(stack) - 1
    BY <1>2, EmptySeq
  <2> QED
    BY <1>1, <1>2, <2>1 DEF IInv, StackInv
<1> QED
  BY <1>1, <1>2, <1>3, <1>4, <1>5, <1>6, ConfFacts, ConfKeeps

\* The stack when the top frame has gone on, and when a call has been put on it.
LEMMA StackGrows ==
  ASSUME IInv, stack # <<>>, NEW s, NEW fr \in Frames, Placed(fr), Len(stack) < MaxOpen,
         s \in Seq(Frames), Len(s) = Len(stack), s # <<>>, Above(fr, s[Len(s)]),
         \A d \in 1 .. Len(s) : Placed(s[d]),
         \A d \in 2 .. Len(s) : Above(s[d], s[d - 1]),
         NEW t, t = Append(s, fr)
  PROVE  /\ t \in Seq(Frames) /\ Len(t) = Len(s) + 1 /\ Len(t) <= MaxOpen /\ t[1] = s[1]
         /\ \A d \in 1 .. Len(s) : t[d] = s[d]
         /\ t[Len(s) + 1] = fr
         /\ \A d \in 1 .. Len(t) : Placed(t[d])
         /\ \A d \in 2 .. Len(t) : Above(t[d], t[d - 1])
<1> DEFINE n == Len(s)
<1>1. n \in Nat \ {0} /\ MaxOpen \in Nat
  BY EmptySeq, WorldsAssumption DEF WorldsAssumption
<1>2. t \in Seq(Frames) /\ Len(t) = n + 1 /\ (\A d \in 1 .. n : t[d] = s[d]) /\ t[n + 1] = fr
  BY AppendProperties
<1>3. ASSUME NEW d \in 1 .. n + 1 PROVE Placed(t[d])
  <2>1. d = n + 1 \/ d \in 1 .. n
    BY <1>1
  <2> QED
    BY <1>2, <2>1
<1>4. ASSUME NEW d \in 2 .. n + 1 PROVE Above(t[d], t[d - 1])
  <2>1. d = n + 1 \/ d \in 2 .. n
    BY <1>1
  <2>2. CASE d = n + 1
    <3>1. d - 1 = n /\ n \in 1 .. n
      BY <1>1, <2>2
    <3> QED
      BY <1>2, <2>2, <3>1
  <2>3. CASE d \in 2 .. n
    <3>1. d \in 1 .. n /\ d - 1 \in 1 .. n
      BY <1>1, <2>3
    <3> QED
      BY <1>2, <2>3, <3>1
  <2> QED
    BY <2>1, <2>2, <2>3
<1>5. Len(t) <= MaxOpen /\ 1 \in 1 .. n
  BY <1>1, <1>2
<1> QED
  BY <1>2, <1>3, <1>4, <1>5

LEMMA IInvReadLine == IInv /\ ReadLine => IInv'
<1> SUFFICES ASSUME IInv, ReadLine PROVE IInv'
  OBVIOUS
<1>1. /\ phase = "conf" /\ phase' = "conf" /\ stack # <<>> /\ Top.line <= Len(world.conf[Top.file])
      /\ UNCHANGED <<world, file, i, ii, resolved, script>>
  BY DEF ReadLine
<1>2. /\ Line \in Range(world.conf[Top.file]) /\ Top.file \in DOMAIN world.conf /\ world \in Worlds
      /\ Top.match \in Nat \ {0}
  BY <1>1, LineIs DEF IInv
<1>3. /\ dirs' \in Seq(DirsOf(world)) /\ Begins(world.paths, dirs') /\ NewOnce(world.paths, dirs')
  <2>1. CASE Line.line = "dir" /\ AddPath(Line.dir)
    <3>1. Line.dir \in DirsOf(world)
      BY <1>2, <2>1, LineOf
    <3>2. world.paths \in Seq(DirsOf(world))
      BY <1>2, Worldly
    <3> QED
      BY <1>1, <2>1, <3>1, <3>2, ConfFacts, AddPathOnce DEF AddPath
  <2>2. CASE dirs' = dirs
    BY <1>1, <2>2, ConfFacts
  <2> QED
    BY <2>1, <2>2 DEF ReadLine
<1>4. /\ stack' \in Seq(Frames) /\ Len(stack') <= MaxOpen
      /\ \A d \in 1 .. Len(stack') : Placed(stack'[d])
      /\ \A d \in 2 .. Len(stack') : Above(stack'[d], stack'[d - 1])
      /\ stack' # <<>> => file > 1 /\ stack'[1].file = ConfFiles[file - 1]
  <2>1. CASE stack' = NextLine
    <3>1. NextLine = [stack EXCEPT ![Len(stack)] = NextOf(Top)] /\ NextOf(Top) \in Frames /\ Placed(NextOf(Top))
      BY <1>1, MovesAre
    <3>2. NextOf(Top).file = Top.file
      BY DEF NextOf
    <3> HIDE DEF NextLine
    <3>3. /\ NextLine \in Seq(Frames) /\ Len(NextLine) = Len(stack) /\ NextLine # <<>>
          /\ \A d \in 1 .. Len(NextLine) : Placed(NextLine[d])
          /\ \A d \in 2 .. Len(NextLine) : Above(NextLine[d], NextLine[d - 1])
          /\ file > 1 /\ NextLine[1].file = ConfFiles[file - 1]
      <4>1. Replaced(NextOf(Top), NextLine)
        BY <3>1, <3>2 DEF Replaced
      <4> QED
        BY <1>1, <4>1, TopMoves
    <3> QED
      BY <1>1, <2>1, <3>3, ConfFacts
  <2>2. CASE stack' = Failing
    <3>1. stack' = <<>> /\ Len(stack') = 0
      BY <2>2 DEF Failing
    <3> QED
      BY <1>1, <3>1, ConfFacts
  <2>3. CASE /\ Line.line = "include" /\ Top.match <= Len(Line.files)
             /\ CanOpen(Line.files[Top.match])
             /\ stack' = Append(NextMatch, Frame(Line.files[Top.match]))
    <3> DEFINE fr == Frame(Line.files[Top.match])
    <3>1. /\ NextMatch = [stack EXCEPT ![Len(stack)] = MatchOf(Top)]
          /\ MatchOf(Top) \in Frames /\ Placed(MatchOf(Top))
      BY <1>1, <2>3, MovesAre
    <3>2. MatchOf(Top).file = Top.file
      BY DEF MatchOf
    <3>3. /\ NextMatch \in Seq(Frames) /\ Len(NextMatch) = Len(stack) /\ NextMatch # <<>>
          /\ NextMatch[Len(NextMatch)] = MatchOf(Top)
          /\ \A d \in 1 .. Len(NextMatch) : Placed(NextMatch[d])
          /\ \A d \in 2 .. Len(NextMatch) : Above(NextMatch[d], NextMatch[d - 1])
          /\ file > 1 /\ NextMatch[1].file = ConfFiles[file - 1]
      <4>1. Replaced(MatchOf(Top), NextMatch)
        BY <3>1, <3>2 DEF Replaced
      <4> HIDE DEF NextMatch
      <4> QED
        BY <1>1, <4>1, TopMoves
    <3>4. fr \in Frames /\ Placed(fr)
      BY <2>3, NewFrame DEF CanOpen
    <3>5. Above(fr, MatchOf(Top))
      <4>1. MatchOf(Top).match > 1 /\ MatchOf(Top).match - 1 = Top.match /\ MatchOf(Top).line = Top.line
        BY <1>2 DEF MatchOf
      <4>2. fr.file = Line.files[Top.match]
        BY DEF Frame
      <4> QED
        BY <3>2, <4>1, <4>2 DEF Above, Line
    <3>6. Len(stack) < MaxOpen
      BY <2>3 DEF CanOpen
    <3> HIDE DEF fr
    <3>7. stack' = Append(NextMatch, fr)
      BY <2>3 DEF fr
    <3> DEFINE s == NextMatch
    <3>8. s \in Seq(Frames) /\ Len(s) = Len(stack) /\ s # <<>> /\ Above(fr, s[Len(s)])
      BY <3>3, <3>5
    <3>9. stack' = Append(s, fr)
      BY <3>7
    <3>10. (\A d \in 1 .. Len(s) : Placed(s[d])) /\ \A d \in 2 .. Len(s) : Above(s[d], s[d - 1])
      BY <3>3
    <3>11. s[1].file = ConfFiles[file - 1] /\ file > 1
      BY <3>3
    <3> HIDE DEF s
    <3>12. /\ stack' \in Seq(Frames) /\ Len(stack') <= MaxOpen /\ stack'[1] = s[1]
           /\ \A d \in 1 .. Len(stack') : Placed(stack'[d])
           /\ \A d \in 2 .. Len(stack') : Above(stack'[d], stack'[d - 1])
      BY <1>1, <3>4, <3>6, <3>8, <3>9, <3>10, StackGrows
    <3> QED
      BY <3>11, <3>12
  <2> QED
    BY <2>1, <2>2, <2>3 DEF ReadLine
<1> QED
  BY <1>1, <1>3, <1>4, ConfFacts, ConfKeeps

LEMMA IInvConfRead == IInv /\ ConfRead => IInv'
<1> SUFFICES ASSUME IInv, ConfRead PROVE IInv'
  OBVIOUS
<1>1. /\ phase = "conf" /\ phase' = "search" /\ stack = <<>> /\ file > Len(ConfFiles)
      /\ UNCHANGED <<world, file, stack, dirs, i, ii, resolved, script>>
  BY DEF ConfRead
<1>2. ConfFiles' = ConfFiles /\ Frames' = Frames
  BY <1>1 DEF ConfFiles, Frames
<1>3. StackInv'
  BY <1>1, <1>2 DEF IInv, StackInv, Placed, Above
<1>4. SearchInv' /\ TypeOK'
  BY <1>1 DEF IInv, SearchInv, ScriptInv, TypeOK
<1> QED
  BY <1>1, <1>2, <1>3, <1>4 DEF IInv

\* What the search and the parser leave alone.
LEMMA SearchKeeps ==
  ASSUME IInv, phase # "conf", phase' \in {"search", "script", "done"},
         UNCHANGED <<world, file, stack, dirs>>,
         i' \in 1 .. Len(world.libs) + 1, ii' \in 1 .. Len(dirs) + 1,
         phase' = "script" => i' <= Len(world.libs) /\ ii' <= Len(dirs),
         ScriptInv',
         script'.mode \in {"command", "list", "item", "library", "format", "skip"},
         script'.mode \in {"item", "library"} => script'.depth > 0,
         script'.mode \in {"command", "format", "skip"} => script'.depth = 0
  PROVE  IInv'
<1>1. ConfFiles' = ConfFiles /\ Frames' = Frames /\ UNCHANGED <<world, file, stack, dirs>>
  BY DEF ConfFiles, Frames
<1>2. StackInv'
  BY <1>1 DEF IInv, StackInv, Placed, Above
<1>3. SearchInv' /\ TypeOK'
  BY <1>1 DEF IInv, SearchInv, TypeOK
<1> QED
  BY <1>1, <1>2, <1>3 DEF IInv

LEMMA SearchFacts ==
  ASSUME IInv
  PROVE  /\ i \in Nat \ {0} /\ ii \in Nat \ {0} /\ i <= Len(world.libs) + 1 /\ ii <= Len(dirs) + 1
         /\ Len(world.libs) \in Nat /\ Len(dirs) \in Nat
         /\ phase = "script" => i <= Len(world.libs) /\ ii <= Len(dirs)
<1>1. Len(world.libs) \in Nat /\ Len(dirs) \in Nat
  BY Worldly, LenProperties DEF IInv
<1> QED
  BY <1>1 DEF IInv, TypeOK, SearchInv

LEMMA NextTypes ==
  ASSUME IInv, i <= Len(world.libs)
  PROVE  /\ NextLibrary => i' \in 1 .. Len(world.libs) + 1 /\ ii' \in 1 .. Len(dirs) + 1
         /\ NextDirectory /\ ii <= Len(dirs) => i' \in 1 .. Len(world.libs) + 1 /\ ii' \in 1 .. Len(dirs) + 1
BY SearchFacts DEF NextLibrary, NextDirectory

LEMMA IInvTryFile == IInv /\ TryFile => IInv'
<1> SUFFICES ASSUME IInv, TryFile PROVE IInv'
  OBVIOUS
<1>1. /\ phase = "search" /\ i <= Len(world.libs) /\ ii <= Len(dirs)
      /\ UNCHANGED <<world, file, stack, dirs>>
  BY DEF TryFile
<1>2. \/ phase' = phase /\ script' = script /\ (NextLibrary \/ NextDirectory)
      \/ /\ phase' = "script" /\ UNCHANGED <<i, ii>>
         /\ \E p, t : script' = [NoScript EXCEPT !.path = p, !.tokens = t]
  BY DEF TryFile
<1>3. CASE phase' = phase /\ script' = script /\ (NextLibrary \/ NextDirectory)
  <2>1. i' \in 1 .. Len(world.libs) + 1 /\ ii' \in 1 .. Len(dirs) + 1
    BY <1>1, <1>3, NextTypes
  <2>2. ScriptInv'
    BY <1>3 DEF IInv, SearchInv, ScriptInv
  <2> QED
    BY <1>1, <1>3, <2>1, <2>2, SearchKeeps DEF IInv, TypeOK
<1>4. CASE /\ phase' = "script" /\ UNCHANGED <<i, ii>>
           /\ \E p, t : script' = [NoScript EXCEPT !.path = p, !.tokens = t]
  <2>1. ScriptInv' /\ script'.mode = "command" /\ script'.depth = 0
    BY <1>4 DEF ScriptInv, NoScript
  <2>2. i' \in 1 .. Len(world.libs) + 1 /\ ii' \in 1 .. Len(dirs) + 1
    BY <1>4, SearchFacts
  <2> QED
    BY <1>1, <1>4, <2>1, <2>2, SearchKeeps
<1> QED
  BY <1>2, <1>3, <1>4

LEMMA IInvSearchEnds == IInv /\ (GiveUp \/ Done) => IInv'
<1> SUFFICES ASSUME IInv, GiveUp \/ Done PROVE IInv'
  OBVIOUS
<1>1. /\ phase = "search" /\ phase' \in {"search", "done"} /\ script' = script
      /\ UNCHANGED <<world, file, stack, dirs>>
  BY DEF GiveUp, Done
<1>2. i' \in 1 .. Len(world.libs) + 1 /\ ii' \in 1 .. Len(dirs) + 1
  BY NextTypes, SearchFacts DEF GiveUp, Done
<1>3. ScriptInv'
  BY <1>1 DEF IInv, SearchInv, ScriptInv
<1> QED
  BY <1>1, <1>2, <1>3, SearchKeeps DEF IInv, TypeOK

\* The parser goes on in mode m, at depth d.
ParserOn(m, d) ==
  /\ DOMAIN script' = DOMAIN script
  /\ script'.mode = m /\ script'.depth = d
  /\ UNCHANGED <<phase, i, ii, resolved>>

\* How the parser's steps change its state.
LEMMA ParserSteps ==
  ASSUME ScriptInv
  PROVE  /\ \A m : Go(m) => ParserOn(m, script.depth)
         /\ \A p : Added(p) => ParserOn("item", script.depth)
<1>1. ASSUME NEW m, Go(m) PROVE ParserOn(m, script.depth)
  BY <1>1 DEF Go, ParserOn, ScriptInv
<1>2. ASSUME NEW p, Added(p) PROVE ParserOn("item", script.depth)
  BY <1>2 DEF Added, ParserOn, ScriptInv
<1> QED
  BY <1>1, <1>2

\* What a step of the parser's modes leads to.
LEMMA ScriptLeadsTo ==
  ASSUME IInv, phase = "script", Script
  PROVE  \/ script.mode = "command" /\ ParserOn("list", script.depth)
         \/ script.mode = "command" /\ ParserOn("format", script.depth)
         \/ script.mode = "list" /\ ParserOn("item", script.depth + 1)
         \/ script.mode = "item" /\ script.depth = 1 /\ ParserOn("command", script.depth - 1)
         \/ script.mode = "item" /\ script.depth # 1 /\ ParserOn("item", script.depth - 1)
         \/ script.mode = "item" /\ ParserOn("library", script.depth)
         \/ script.mode = "item" /\ ParserOn("list", script.depth)
         \/ script.mode \in {"item", "library"} /\ ParserOn("item", script.depth)
         \/ script.mode \in {"format", "skip"} /\ ParserOn("skip", script.depth)
         \/ script.mode = "skip" /\ ParserOn("command", script.depth)
         \/ Succeed
         \/ Fail
<1>1. ScriptInv
  BY DEF IInv, SearchInv
<1>2. CASE Command
  BY <1>1, <1>2, ParserSteps DEF Command
<1>3. CASE ListOpens
  <2>1. CASE /\ script' = [script EXCEPT !.mode = "item", !.tokens = Rest, !.depth = @ + 1]
             /\ UNCHANGED <<phase, i, ii, resolved>>
    <3> DEFINE d == script.depth + 1
    <3>1. script' = [script EXCEPT !.mode = "item", !.tokens = Rest, !.depth = d]
      BY <2>1
    <3> HIDE DEF d
    <3>2. DOMAIN script' = DOMAIN script /\ script'.mode = "item" /\ script'.depth = d
      BY <1>1, <3>1 DEF ScriptInv
    <3>3. ParserOn("item", d)
      BY <2>1, <3>2 DEF ParserOn
    <3>4. script.mode = "list" /\ d = script.depth + 1
      BY <1>3 DEF ListOpens, d
    <3> QED
      BY <3>3, <3>4
  <2> QED
    BY <1>3, <2>1 DEF ListOpens
<1>4. CASE Item
  <2>1. CASE /\ script' = [script EXCEPT !.depth = @ - 1, !.unset = @ /\ script.depth # 1,
                        !.mode = IF script.depth = 1 THEN "command" ELSE "item",
                        !.tokens = IF script.depth = 1 THEN Rest ELSE After(Rest)]
             /\ UNCHANGED <<phase, i, ii, resolved>>
    <3> DEFINE d == script.depth - 1
               u == script.unset /\ script.depth # 1
               m == IF script.depth = 1 THEN "command" ELSE "item"
               t == IF script.depth = 1 THEN Rest ELSE After(Rest)
    <3>1. script' = [script EXCEPT !.depth = d, !.unset = u, !.mode = m, !.tokens = t]
      BY <2>1
    <3> HIDE DEF d, u, m, t
    <3>2. DOMAIN script' = DOMAIN script /\ script'.mode = m /\ script'.depth = d
      BY <1>1, <3>1 DEF ScriptInv
    <3>3. ParserOn(m, d)
      BY <2>1, <3>2 DEF ParserOn
    <3>4. /\ script.mode = "item" /\ d = script.depth - 1
          /\ (script.depth = 1 => m = "command") /\ (script.depth # 1 => m = "item")
      BY <1>4 DEF Item, m, d
    <3> QED
      BY <3>3, <3>4
  <2>2. script.mode = "item"
    BY <1>4 DEF Item
  <2> QED
    BY <1>1, <1>4, <2>1, <2>2, ParserSteps DEF Item
<1>5. CASE LibraryItem
  BY <1>1, <1>5, ParserSteps DEF LibraryItem
<1>6. CASE FormatOpens
  BY <1>1, <1>6, ParserSteps DEF FormatOpens
<1>7. CASE Skip
  BY <1>1, <1>7, ParserSteps DEF Skip
<1> QED
  BY <1>2, <1>3, <1>4, <1>5, <1>6, <1>7 DEF Script

LEMMA IInvScript == IInv /\ Script => IInv'
<1> SUFFICES ASSUME IInv, Script PROVE IInv'
  OBVIOUS
<1>1. /\ phase = "script" /\ UNCHANGED <<world, file, stack, dirs>> /\ script.depth \in Nat
      /\ DOMAIN script = {"path", "tokens", "mode", "depth", "unset", "libs"}
  BY DEF Script, IInv, SearchInv, ScriptInv
<1>2. /\ script.mode \in {"item", "library"} => script.depth > 0
      /\ script.mode \in {"command", "format", "skip"} => script.depth = 0
  BY DEF IInv, TypeOK
<1>3. /\ i \in 1 .. Len(world.libs) + 1 /\ ii \in 1 .. Len(dirs) + 1
      /\ i <= Len(world.libs) /\ ii <= Len(dirs)
  BY <1>1, SearchFacts DEF IInv, TypeOK
<1>4. CASE Succeed \/ Fail
  <2>1. /\ phase' = "search" /\ script' = NoScript /\ (NextLibrary \/ NextDirectory)
    BY <1>4 DEF Succeed, Fail
  <2>2. i' \in 1 .. Len(world.libs) + 1 /\ ii' \in 1 .. Len(dirs) + 1
    BY <1>3, <2>1, NextTypes
  <2>3. ScriptInv' /\ script'.mode = "command" /\ script'.depth = 0
    BY <2>1 DEF ScriptInv, NoScript
  <2> QED
    BY <1>1, <2>1, <2>2, <2>3, SearchKeeps
<1>5. ASSUME NEW m \in {"command", "list", "item", "library", "format", "skip"}, NEW d \in Nat,
             ParserOn(m, d), m \in {"item", "library"} => d > 0,
             m \in {"command", "format", "skip"} => d = 0
      PROVE  IInv'
  <2>1. ScriptInv' /\ script'.mode = m /\ script'.depth = d
    BY <1>1, <1>5 DEF ScriptInv, ParserOn
  <2>2. phase' = "script" /\ i' = i /\ ii' = ii
    BY <1>1, <1>5 DEF ParserOn
  <2> QED
    BY <1>1, <1>3, <1>5, <2>1, <2>2, SearchKeeps
<1>6. CASE script.mode = "item"
  <2>1. script.depth \in Nat /\ script.depth - 1 \in Nat /\ script.depth > 0
        /\ (script.depth = 1 => script.depth - 1 = 0) /\ (script.depth # 1 => script.depth - 1 > 0)
    BY <1>1, <1>2, <1>6
  <2> QED
    BY <1>1, <1>4, <1>5, <1>6, <2>1, ScriptLeadsTo
<1>7. CASE script.mode = "list"
  <2>1. script.depth + 1 \in Nat /\ script.depth + 1 > 0
    BY <1>1
  <2> QED
    BY <1>1, <1>4, <1>5, <1>7, <2>1, ScriptLeadsTo
<1>8. CASE script.mode \notin {"item", "list"}
  BY <1>1, <1>2, <1>4, <1>5, <1>8, ScriptLeadsTo
<1> QED
  BY <1>6, <1>7, <1>8

LEMMA IInvNext == IInv /\ [Next]_vars => IInv'
<1> SUFFICES ASSUME IInv, [Next]_vars PROVE IInv'
  OBVIOUS
<1>1. CASE Step
  BY <1>1, IInvOpenConf, IInvReadLine, IInvCloseConf, IInvConfRead, IInvTryFile, IInvSearchEnds,
     IInvScript DEF Step
<1>2. CASE UNCHANGED vars
  BY <1>2 DEF vars, IInv, TypeOK, StackInv, SearchInv, ScriptInv, Placed, Above, Frames, ConfFiles
<1> QED
  BY <1>1, <1>2 DEF Next

\* The resolver's state is always as the inductive invariant says.
THEOREM IInvHolds == Spec => []IInv
<1>1. Init => IInv
  BY IInvInit
<1>2. IInv /\ [Next]_vars => IInv'
  BY IInvNext
<1> QED
  BY <1>1, <1>2, PTL DEF Spec

\* The calls of read_ldsoconf never hold more files open than a process may
\* have, the search stays inside its lists, and the parser is inside a list
\* exactly where it looks for items.
THEOREM TypeOKHolds == Spec => []TypeOK
<1>1. IInv => TypeOK
  BY DEF IInv
<1> QED
  BY <1>1, IInvHolds, PTL

-----------------------------------------------------------------------------
(* What is listed so far *)

\* What a file and the files that its lines include list, when n files can
\* still be opened.
LEMMA WholeFile ==
  ASSUME NEW w \in Worlds, NEW n \in 1 .. MaxOpen, NEW f \in Whole(w)[n]
  PROVE  /\ f \in DOMAIN w.conf /\ Len(w.conf[f]) \in Nat
         /\ \A l \in 1 .. Len(w.conf[f]) : w.conf[f][l] \in Range(w.conf[f])
         /\ \A x \in Range(w.conf[f]) : LineRead(x, Whole(w)[n - 1])
         /\ DirsIn(w)[n - 1] \in [DOMAIN w.conf -> Seq(DirsOf(w))]
<1>1. f \in DOMAIN w.conf /\ \A x \in Range(w.conf[f]) : LineRead(x, Whole(w)[n - 1])
  <2>1. Whole(w)[n] = {e \in DOMAIN w.conf : \A y \in Range(w.conf[e]) : LineRead(y, Whole(w)[n - 1])}
    BY WholeSteps
  <2> QED
    BY <2>1
<1>2. Len(w.conf[f]) \in Nat /\ \A l \in 1 .. Len(w.conf[f]) : w.conf[f][l] \in Range(w.conf[f])
  <2>1. IsSeq(w.conf[f])
    BY <1>1, LineOf
  <2> QED
    BY <2>1, SeqIs
<1>3. n - 1 \in 0 .. MaxOpen
  BY WorldsAssumption DEF WorldsAssumption
<1> QED
  BY <1>1, <1>2, <1>3, DirsInSteps

LEMMA ListsSteps ==
  ASSUME NEW w \in Worlds, NEW n \in 1 .. MaxOpen, NEW f \in Whole(w)[n]
  PROVE  /\ Flat(Lists(w, n, f))[0] = <<>>
         /\ \A l \in 0 .. Len(w.conf[f]) : Flat(Lists(w, n, f))[l] \in Seq(DirsOf(w))
         /\ \A l \in 1 .. Len(w.conf[f]) : Flat(Lists(w, n, f))[l] =
              Flat(Lists(w, n, f))[l - 1] \o ListedBy(w.conf[f][l], DirsIn(w)[n - 1])
         /\ DirsIn(w)[n][f] = Flat(Lists(w, n, f))[Len(w.conf[f])]
<1> DEFINE s == Lists(w, n, f)
           m == Len(w.conf[f])
           D == Seq(DirsOf(w))
<1>1. m \in Nat /\ DOMAIN w.conf[f] = 1 .. m
  <2>1. IsSeq(w.conf[f])
    BY WholeFile, LineOf
  <2> QED
    BY <2>1, SeqIs
<1>2. \A l \in 1 .. m : ListedBy(w.conf[f][l], DirsIn(w)[n - 1]) \in D
  <2> SUFFICES ASSUME NEW l \in 1 .. m PROVE ListedBy(w.conf[f][l], DirsIn(w)[n - 1]) \in D
    OBVIOUS
  <2>1. w.conf[f][l] \in Range(w.conf[f]) /\ DirsIn(w)[n - 1] \in [DOMAIN w.conf -> Seq(DirsOf(w))]
    BY WholeFile
  <2> QED
    BY <2>1, ListedByType
<1>3. s = [l \in 1 .. m |-> ListedBy(w.conf[f][l], DirsIn(w)[n - 1])]
  BY <1>1 DEF Lists
<1> HIDE DEF s, m, D
<1>4. s \in Seq(D) /\ Len(s) = m /\ \A l \in 1 .. m : s[l] = ListedBy(w.conf[f][l], DirsIn(w)[n - 1])
  BY <1>1, <1>2, <1>3
<1>5. /\ Flat(s)[0] = <<>>
      /\ \A l \in 1 .. m : Flat(s)[l] = Flat(s)[l - 1] \o s[l]
      /\ \A l \in 0 .. m : Flat(s)[l] \in D
  BY <1>4, FlatSteps DEF D
<1>6. DirsIn(w)[n][f] = Flat(s)[m]
  <2>1. DirsIn(w)[n][f] = Flattened(s)
    BY WholeFile, DirsInSteps DEF s
  <2> QED
    BY <1>4, <2>1 DEF Flattened
<1> QED
  BY <1>4, <1>5, <1>6 DEF s, m, D

MatchesListed(w, n, x) ==
  /\ Len(x.files) \in Nat /\ Range(x.files) \subseteq Whole(w)[n - 1]
  /\ \A k \in 1 .. Len(x.files) : x.files[k] \in Whole(w)[n - 1]
  /\ Flat(Matches(w, n, x))[0] = <<>>
  /\ \A k \in 0 .. Len(x.files) : Flat(Matches(w, n, x))[k] \in Seq(DirsOf(w))
  /\ \A k \in 1 .. Len(x.files) : Flat(Matches(w, n, x))[k] =
       Flat(Matches(w, n, x))[k - 1] \o DirsIn(w)[n - 1][x.files[k]]
  /\ \A k \in 1 .. Len(x.files) : DirsIn(w)[n - 1][x.files[k]] \in Seq(DirsOf(w))
  /\ ListedBy(x, DirsIn(w)[n - 1]) = Flat(Matches(w, n, x))[Len(x.files)]

LEMMA MatchesSteps ==
  ASSUME NEW w \in Worlds, NEW n \in 1 .. MaxOpen, NEW f \in Whole(w)[n],
         NEW x \in Range(w.conf[f]), x.line = "include"
  PROVE  MatchesListed(w, n, x)
<1> DEFINE s == Matches(w, n, x)
           m == Len(x.files)
           D == Seq(DirsOf(w))
           names == DirsIn(w)[n - 1]
<1>1. /\ LineRead(x, Whole(w)[n - 1]) /\ names \in [DOMAIN w.conf -> D]
      /\ f \in DOMAIN w.conf
  BY WholeFile
<1>2. IsSeq(x.files)
  BY <1>1, LineOf
<1>3. m \in Nat /\ DOMAIN x.files = 1 .. m /\ \A k \in 1 .. m : x.files[k] \in Range(x.files)
  BY <1>2, SeqIs
<1>4. Range(x.files) \subseteq Whole(w)[n - 1]
  BY <1>1 DEF LineRead
<1>5. Whole(w)[n - 1] \subseteq DOMAIN w.conf
  <2>1. n = 1 \/ n - 1 \in 1 .. MaxOpen
    BY WorldsAssumption DEF WorldsAssumption
  <2>2. CASE n = 1
    BY <2>2, WholeSteps
  <2>3. CASE n - 1 \in 1 .. MaxOpen
    BY <2>3, WholeSteps
  <2> QED
    BY <2>1, <2>2, <2>3
<1>6. \A k \in 1 .. m : names[x.files[k]] \in D
  BY <1>1, <1>3, <1>4, <1>5
<1>7. s = [k \in 1 .. m |-> names[x.files[k]]]
  BY <1>3 DEF Matches
<1>8. ListedBy(x, names) = Flattened(s)
  BY DEF ListedBy, Matches
<1> HIDE DEF s, m, D, names
<1>9. s \in Seq(D) /\ Len(s) = m /\ \A k \in 1 .. m : s[k] = names[x.files[k]]
  BY <1>3, <1>6, <1>7
<1>10. /\ Flat(s)[0] = <<>>
       /\ \A k \in 1 .. m : Flat(s)[k] = Flat(s)[k - 1] \o s[k]
       /\ \A k \in 0 .. m : Flat(s)[k] \in D
  BY <1>9, FlatSteps DEF D
<1>11. ListedBy(x, names) = Flat(s)[m]
  BY <1>8, <1>9 DEF Flattened
<1> QED
  BY <1>3, <1>4, <1>6, <1>9, <1>10, <1>11 DEF s, m, D, names, MatchesListed

\* What a call has been told of, as it goes on from line to line and from
\* match to match.
LEMMA PartBegins ==
  ASSUME NEW w \in Worlds, NEW n \in 1 .. MaxOpen, NEW f \in Whole(w)[n]
  PROVE  Part(w, n, Frame(f), 0) = <<>>
<1>1. Flat(Lists(w, n, f))[0] = <<>>
  BY ListsSteps
<1>2. Frame(f).file = f /\ Frame(f).line - 1 = 0
  BY DEF Frame
<1>3. Part(w, n, Frame(f), 0) = <<>> \o <<>>
  BY <1>1, <1>2 DEF Part
<1> QED
  BY <1>3

\* fr is behind the last line of file f, or at line l of it, which is x.
AtEnd(w, f, fr) == fr.file = f /\ fr.line = Len(w.conf[f]) + 1
AtLine(w, f, fr, l, x) ==
  fr.file = f /\ fr.line = l /\ l \in 1 .. Len(w.conf[f]) /\ x = w.conf[f][l]

LEMMA PartEnds ==
  ASSUME NEW w \in Worlds, NEW n \in 1 .. MaxOpen, NEW f \in Whole(w)[n],
         NEW fr, AtEnd(w, f, fr)
  PROVE  Part(w, n, fr, 0) = DirsIn(w)[n][f]
<1> DEFINE m == Len(w.conf[f])
           a == Flat(Lists(w, n, f))[m]
<1>1. m \in Nat /\ m \in 0 .. m
  BY WholeFile
<1>2. a \in Seq(DirsOf(w)) /\ DirsIn(w)[n][f] = a
  BY <1>1, ListsSteps
<1>3. fr.file = f /\ fr.line - 1 = m
  BY <1>1 DEF AtEnd
<1>4. Part(w, n, fr, 0) = a \o <<>>
  BY <1>3 DEF Part
<1> HIDE DEF a
<1> QED
  BY <1>2, <1>4, ConcatEmptySeq

Associates(S) == \A a, b, c \in Seq(S) : a \o (b \o c) = (a \o b) \o c

LEMMA ConcatThree == ASSUME NEW S PROVE Associates(S)
<1> SUFFICES ASSUME NEW a \in Seq(S), NEW b \in Seq(S), NEW c \in Seq(S)
             PROVE  a \o (b \o c) = (a \o b) \o c
  BY DEF Associates
<1>1. (a \o b) \o c = a \o (b \o c)
  BY ConcatAssociative, SMTT(30)
<1> QED
  BY <1>1

\* A call of read_ldsoconf is at line l of file f, which is x, with n files left
\* to open.
Reads(w, n, f, fr, l, x) ==
  w \in Worlds /\ n \in 1 .. MaxOpen /\ f \in Whole(w)[n] /\ AtLine(w, f, fr, l, x)

\* What it is told of there.
Hears(w, n, fr, x) ==
  /\ Part(w, n, fr, 0) \in Seq(DirsOf(w))
  /\ x.line = "dir" => Part(w, n, NextOf(fr), 0) = Part(w, n, fr, 0) \o <<x.dir>>
  /\ x.line = "other" => Part(w, n, NextOf(fr), 0) = Part(w, n, fr, 0)
  /\ x.line = "include" =>
       /\ \A m \in 0 .. Len(x.files) : Part(w, n, fr, m) \in Seq(DirsOf(w))
       /\ Part(w, n, NextOf(fr), 0) = Part(w, n, fr, Len(x.files))
       /\ \A m \in 1 .. Len(x.files) :
            Part(w, n, fr, m) = Part(w, n, fr, m - 1) \o DirsIn(w)[n - 1][x.files[m]]

LEMMA PartNext ==
  ASSUME NEW w, NEW n, NEW f, NEW fr, NEW l, NEW x, Reads(w, n, f, fr, l, x)
  PROVE  Hears(w, n, fr, x)
<1> USE DEF Reads
<1> DEFINE D == DirsOf(w)
           F == Flat(Lists(w, n, f))
           names == DirsIn(w)[n - 1]
           G == Flat(Matches(w, n, x))
<1>1. Len(w.conf[f]) \in Nat /\ l \in 1 .. Len(w.conf[f]) /\ l - 1 \in 0 .. Len(w.conf[f])
      /\ l \in 0 .. Len(w.conf[f]) /\ f \in DOMAIN w.conf /\ x \in Range(w.conf[f])
      /\ fr.file = f /\ fr.line = l /\ x = w.conf[f][l]
  BY WholeFile DEF AtLine
<1>2. F[l - 1] \in Seq(D) /\ F[l] \in Seq(D) /\ F[l] = F[l - 1] \o ListedBy(x, names)
  <2>1. /\ \A k \in 0 .. Len(w.conf[f]) : F[k] \in Seq(D)
        /\ \A k \in 1 .. Len(w.conf[f]) : F[k] = F[k - 1] \o ListedBy(w.conf[f][k], names)
    BY ListsSteps
  <2> HIDE DEF F, names
  <2> QED
    BY <1>1, <2>1
<1>3. NextOf(fr).file = f /\ NextOf(fr).line - 1 = l
  BY <1>1 DEF NextOf
<1>4. Part(w, n, fr, 0) = F[l - 1] \o <<>> /\ Part(w, n, NextOf(fr), 0) = F[l] \o <<>>
  BY <1>1, <1>3 DEF Part
<1>5. \A m : m # 0 => Part(w, n, fr, m) = F[l - 1] \o G[m]
  BY <1>1 DEF Part
<1> HIDE DEF F, G, names
<1>6. Part(w, n, fr, 0) = F[l - 1] /\ Part(w, n, NextOf(fr), 0) = F[l]
  BY <1>2, <1>4, ConcatEmptySeq
<1>7. ASSUME x.line = "dir" PROVE Part(w, n, NextOf(fr), 0) = Part(w, n, fr, 0) \o <<x.dir>>
  <2>1. ListedBy(x, names) = <<x.dir>>
    BY <1>7 DEF ListedBy
  <2> QED
    BY <1>2, <1>6, <2>1
<1>8. ASSUME x.line = "other" PROVE Part(w, n, NextOf(fr), 0) = Part(w, n, fr, 0)
  <2>1. ListedBy(x, names) = <<>>
    BY <1>8 DEF ListedBy
  <2> QED
    BY <1>2, <1>6, <2>1, ConcatEmptySeq
<1>9. ASSUME x.line = "include"
      PROVE  /\ \A m \in 0 .. Len(x.files) : Part(w, n, fr, m) \in Seq(D)
             /\ Part(w, n, NextOf(fr), 0) = Part(w, n, fr, Len(x.files))
             /\ \A m \in 1 .. Len(x.files) :
                  Part(w, n, fr, m) = Part(w, n, fr, m - 1) \o names[x.files[m]]
  <2> DEFINE M == Len(x.files)
  <2>7. MatchesListed(w, n, x)
    BY <1>1, <1>9, MatchesSteps
  <2>6. M \in Nat
    BY <2>7 DEF MatchesListed
  <2>1. /\ M \in Nat /\ G[0] = <<>>
        /\ \A k \in 0 .. M : G[k] \in Seq(D)
        /\ \A k \in 1 .. M : G[k] = G[k - 1] \o names[x.files[k]]
        /\ \A k \in 1 .. M : names[x.files[k]] \in Seq(D)
        /\ ListedBy(x, names) = G[M]
    <3>1. /\ Len(x.files) \in Nat /\ Flat(Matches(w, n, x))[0] = <<>>
          /\ \A k \in 0 .. Len(x.files) : Flat(Matches(w, n, x))[k] \in Seq(DirsOf(w))
          /\ \A k \in 1 .. Len(x.files) : Flat(Matches(w, n, x))[k] =
               Flat(Matches(w, n, x))[k - 1] \o DirsIn(w)[n - 1][x.files[k]]
          /\ \A k \in 1 .. Len(x.files) : DirsIn(w)[n - 1][x.files[k]] \in Seq(DirsOf(w))
          /\ ListedBy(x, DirsIn(w)[n - 1]) = Flat(Matches(w, n, x))[Len(x.files)]
      BY <2>7 DEF MatchesListed
    <3> QED
      BY <3>1 DEF G, names
  <2> HIDE DEF M
  <2>2. ASSUME NEW m \in 0 .. M PROVE Part(w, n, fr, m) = F[l - 1] \o G[m]
    BY <1>2, <1>5, <1>6, <2>1, ConcatEmptySeq
  <2>3. \A m \in 0 .. M : F[l - 1] \o G[m] \in Seq(D)
    BY <1>2, <2>1, ConcatProperties
  <2>4. ASSUME NEW m \in 1 .. M PROVE Part(w, n, fr, m) = Part(w, n, fr, m - 1) \o names[x.files[m]]
    <3>1. m - 1 \in 0 .. M /\ m \in 0 .. M
      BY <2>6
    <3>2. Part(w, n, fr, m) = F[l - 1] \o (G[m - 1] \o names[x.files[m]])
      BY <2>1, <2>2, <3>1
    <3>3. F[l - 1] \o (G[m - 1] \o names[x.files[m]]) = (F[l - 1] \o G[m - 1]) \o names[x.files[m]]
      <4> DEFINE a == F[l - 1]
                 b == G[m - 1]
                 c == names[x.files[m]]
      <4>1. a \in Seq(D) /\ b \in Seq(D) /\ c \in Seq(D)
        BY <1>2, <2>1, <3>1
      <4>3. Associates(D)
        BY ConcatThree
      <4> HIDE DEF a, b, c, D
      <4>2. a \o (b \o c) = (a \o b) \o c
        BY <4>1, <4>3 DEF Associates
      <4> QED
        BY <4>2 DEF a, b, c
    <3> QED
      BY <2>2, <3>1, <3>2, <3>3
  <2>5. Part(w, n, NextOf(fr), 0) = Part(w, n, fr, M)
    <3>1. M \in 0 .. M
      BY <2>6
    <3> QED
      BY <1>2, <1>6, <2>1, <2>2, <3>1
  <2> QED
    BY <2>2, <2>3, <2>4, <2>5 DEF M
<1> QED
  BY <1>2, <1>6, <1>7, <1>8, <1>9 DEF names, Hears

\* A directory that is listed next is added behind the others unless it is
\* there.
PathAdded(t, d, u) == u = IF Contains(t, d) THEN t ELSE Append(t, d)

LEMMA InOrderAdd ==
  ASSUME NEW S, NEW s \in Seq(S), NEW t \in Seq(S), Begins(s, t), NewOnce(s, t),
         NEW listed \in Seq(S), InOrder(t, s, listed), NEW d \in S,
         NEW u, PathAdded(t, d, u)
  PROVE  InOrder(u, s, listed \o <<d>>)
<1> DEFINE v == listed \o <<d>>
           n == Len(listed)
<1>1. Len(s) \in Nat /\ Len(t) \in Nat /\ n \in Nat /\ Len(s) <= Len(t)
  BY LenProperties DEF Begins
<1>2. /\ v \in Seq(S) /\ DOMAIN v = 1 .. n + 1 /\ DOMAIN listed = 1 .. n
      /\ (\A k \in 1 .. n : v[k] = listed[k]) /\ v[n + 1] = d
  OBVIOUS
<1> HIDE DEF v
<1>3. Range(v) = Range(listed) \cup {d}
  <2>1. ASSUME NEW k \in 1 .. n + 1 PROVE v[k] \in Range(listed) \cup {d}
    <3>1. k \in 1 .. n \/ k = n + 1
      BY <1>1
    <3> QED
      BY <1>2, <3>1 DEF Range
  <2>2. ASSUME NEW k \in 1 .. n PROVE listed[k] \in Range(v)
    <3> HIDE DEF n
    <3>1. k \in 1 .. n + 1
      BY <1>1
    <3> QED
      BY <1>2, <3>1 DEF Range
  <2>3. d \in Range(v)
    <3>1. n + 1 \in 1 .. n + 1
      BY <1>1
    <3> QED
      BY <1>2, <3>1 DEF Range
  <2> QED
    BY <1>2, <2>1, <2>2, <2>3 DEF Range
<1>4. Range(t) = Range(s) \cup Range(listed)
  BY DEF InOrder
<1>5. ASSUME NEW j \in Len(s) + 1 .. Len(t), NEW k \in Len(s) + 1 .. Len(t), j < k
      PROVE  \E x \in 1 .. n : listed[x] = t[j] /\ \A y \in 1 .. x : listed[y] # t[k]
  <2>1. HasFirst(listed, t[j], t[k])
    BY <1>5 DEF InOrder
  <2> QED
    BY <1>2, <2>1 DEF HasFirst
<1>6. ASSUME NEW x \in 1 .. n, NEW y \in 1 .. x PROVE x \in 1 .. n + 1 /\ v[x] = listed[x] /\ v[y] = listed[y]
  <2>1. y \in 1 .. n /\ x \in 1 .. n + 1
    BY <1>1
  <2> QED
    BY <1>2, <2>1
<1>7. ASSUME NEW j \in Len(s) + 1 .. Len(t), NEW k \in Len(s) + 1 .. Len(t), j < k
      PROVE  HasFirst(v, t[j], t[k])
  <2>1. PICK x \in 1 .. n : listed[x] = t[j] /\ \A y \in 1 .. x : listed[y] # t[k]
    BY <1>5, <1>7
  <2>2. x \in 1 .. x
    BY <1>1
  <2> QED
    BY <1>2, <1>6, <2>1, <2>2 DEF HasFirst
<1>8. CASE Contains(t, d)
  <2>1. u = t /\ d \in Range(t)
    BY <1>8 DEF PathAdded, Contains, Range
  <2>2. Range(u) = Range(s) \cup Range(v)
    BY <1>3, <1>4, <2>1
  <2>3. InOrder(u, s, v)
    BY <1>7, <2>1, <2>2 DEF InOrder
  <2> QED
    BY <2>3 DEF v
<1>9. CASE ~Contains(t, d)
  <2>1. /\ u \in Seq(S) /\ Len(u) = Len(t) + 1 /\ (\A k \in 1 .. Len(t) : u[k] = t[k])
        /\ u[Len(t) + 1] = d /\ DOMAIN u = 1 .. Len(t) + 1
    BY <1>9, AppendProperties DEF PathAdded
  <2>2. DOMAIN t = 1 .. Len(t) /\ d \notin Range(t)
    BY <1>9, LenProperties DEF Contains, Range
  <2>3. Range(u) = Range(t) \cup {d}
    <3>1. ASSUME NEW k \in 1 .. Len(t) + 1 PROVE u[k] \in Range(t) \cup {d}
      <4>1. k \in 1 .. Len(t) \/ k = Len(t) + 1
        BY <1>1
      <4> QED
        BY <2>1, <2>2, <4>1 DEF Range
    <3>2. ASSUME NEW k \in 1 .. Len(t) PROVE t[k] \in Range(u)
      BY <1>1, <2>1 DEF Range
    <3>3. d \in Range(u)
      <4>1. Len(t) + 1 \in 1 .. Len(t) + 1
        BY <1>1
      <4> QED
        BY <2>1, <4>1 DEF Range
    <3> QED
      BY <2>1, <2>2, <3>1, <3>2, <3>3 DEF Range
  <2>4. ASSUME NEW j \in Len(s) + 1 .. Len(t)
        PROVE  HasFirst(v, t[j], d)
    <3>1. j \in 1 .. Len(t) /\ t[j] \in Range(t)
      BY <1>1, <2>2 DEF Range
    <3>2. t[j] \notin Range(s)
      <4> SUFFICES ASSUME NEW k \in DOMAIN s, s[k] = t[j] PROVE FALSE
        BY DEF Range
      <4>1. k \in 1 .. Len(s) /\ k \in 1 .. j - 1
        BY <1>1, LenProperties
      <4> QED
        BY <4>1 DEF Begins, NewOnce
    <3>3. PICK x \in 1 .. n : listed[x] = t[j]
      BY <1>2, <1>4, <3>1, <3>2 DEF Range
    <3>4. ASSUME NEW y \in 1 .. x PROVE listed[y] # d
      <4>1. y \in 1 .. n
        BY <1>1
      <4>2. listed[y] \in Range(t)
        BY <1>2, <1>4, <4>1 DEF Range
      <4> QED
        BY <2>2, <4>2
    <3>5. x \in 1 .. x
      BY <1>1
    <3> QED
      BY <1>2, <1>6, <3>3, <3>4, <3>5 DEF HasFirst
  <2>5. ASSUME NEW j \in Len(s) + 1 .. Len(u), NEW k \in Len(s) + 1 .. Len(u), j < k
        PROVE  HasFirst(v, u[j], u[k])
    <3>1. j \in Len(s) + 1 .. Len(t) /\ u[j] = t[j]
      BY <1>1, <2>1, <2>5
    <3>2. (k \in Len(s) + 1 .. Len(t) /\ u[k] = t[k]) \/ u[k] = d
      BY <1>1, <2>1, <2>5
    <3> QED
      BY <1>7, <2>4, <2>5, <3>1, <3>2
  <2>6. Range(u) = Range(s) \cup Range(v)
    BY <1>3, <1>4, <2>3
  <2>7. InOrder(u, s, v)
    BY <2>5, <2>6 DEF InOrder
  <2> QED
    BY <2>7 DEF v
<1> QED
  BY <1>8, <1>9

-----------------------------------------------------------------------------
(* The directories are those listed so far *)

LEMMA OutermostSteps ==
  ASSUME world \in Worlds, Readable
  PROVE  /\ Len(ConfFiles) \in Nat
         /\ \A k \in 1 .. Len(ConfFiles) : ConfFiles[k] \in Whole(world)[MaxOpen]
         /\ Flat(Outermost)[0] = <<>>
         /\ \A k \in 0 .. Len(ConfFiles) : Flat(Outermost)[k] \in Seq(DirsOf(world))
         /\ \A k \in 1 .. Len(ConfFiles) : Flat(Outermost)[k] =
              Flat(Outermost)[k - 1] \o DirsIn(world)[MaxOpen][ConfFiles[k]]
         /\ AllListed = Flat(Outermost)[Len(ConfFiles)]
<1> DEFINE s == Outermost
           m == Len(ConfFiles)
           D == Seq(DirsOf(world))
           names == DirsIn(world)[MaxOpen]
<1>1. /\ m \in Nat /\ DOMAIN ConfFiles = 1 .. m
      /\ \A k \in 1 .. m : ConfFiles[k] \in Range(ConfFiles)
  BY Worldly, SeqIs
<1>2. \A k \in 1 .. m : ConfFiles[k] \in Whole(world)[MaxOpen]
  BY <1>1 DEF Readable
<1>3. MaxOpen \in 1 .. MaxOpen /\ MaxOpen \in 0 .. MaxOpen
  BY WorldsAssumption DEF WorldsAssumption
<1>4. Whole(world)[MaxOpen] \subseteq DOMAIN world.conf
  BY <1>3, WholeSteps
<1>5. names \in [DOMAIN world.conf -> D]
  BY <1>3, DirsInSteps
<1>6. \A k \in 1 .. m : names[ConfFiles[k]] \in D
  BY <1>2, <1>4, <1>5
<1>7. s = [k \in 1 .. m |-> names[ConfFiles[k]]]
  BY <1>1 DEF Outermost
<1>8. AllListed = Flattened(s)
  BY DEF AllListed, Outermost
<1> HIDE DEF s, m, D, names
<1>9. s \in Seq(D) /\ Len(s) = m /\ \A k \in 1 .. m : s[k] = names[ConfFiles[k]]
  BY <1>1, <1>6, <1>7
<1>10. /\ Flat(s)[0] = <<>>
       /\ \A k \in 1 .. m : Flat(s)[k] = Flat(s)[k - 1] \o s[k]
       /\ \A k \in 0 .. m : Flat(s)[k] \in D
  BY <1>9, FlatSteps DEF D
<1>11. AllListed = Flat(s)[m]
  BY <1>8, <1>9 DEF Flattened
<1> QED
  BY <1>1, <1>2, <1>9, <1>10, <1>11 DEF s, m, D, names

LEMMA LeftIs ==
  ASSUME NEW d \in Nat \ {0}, d <= MaxOpen
  PROVE  /\ Left(d) \in 1 .. MaxOpen /\ Left(d + 1) = Left(d) - 1 /\ Left(1) = MaxOpen
         /\ Left(d) = 1 <=> d = MaxOpen
<1>1. MaxOpen \in Nat
  BY WorldsAssumption DEF WorldsAssumption
<1> QED
  BY <1>1 DEF Left

\* What was listed when each call began does not depend on where the last is.
LEMMA HeardSame ==
  ASSUME NEW s, NEW t, NEW n, NEW got, Heard(s, n, got), Len(s) \in Nat, Len(t) = Len(s),
         \A d \in 1 .. Len(s) - 1 : t[d] = s[d]
  PROVE  Heard(t, n, got)
<1>1. ASSUME NEW d \in 2 .. Len(s)
      PROVE  got[d] = got[d - 1] \o Part(world, Left(d - 1), t[d - 1], t[d - 1].match - 2)
  <2>1. d - 1 \in 1 .. Len(s) - 1
    OBVIOUS
  <2>2. t[d - 1] = s[d - 1]
    BY <2>1
  <2> QED
    BY <2>2 DEF Heard
<1> QED
  BY <1>1 DEF Heard

\* Where the last call is.
LEMMA TopPart ==
  ASSUME IInv, Readable, ReadSoFar(stack, file, dirs), stack # <<>>
  PROVE  /\ Left(Len(stack)) \in 1 .. MaxOpen
         /\ Top.file \in Whole(world)[Left(Len(stack))]
         /\ Top.line > Len(world.conf[Top.file]) => AtEnd(world, Top.file, Top) /\ Top.match = 1
         /\ Top.line <= Len(world.conf[Top.file]) =>
              /\ AtLine(world, Top.file, Top, Top.line, Line)
              /\ Line.line # "include" => Top.match = 1
              /\ Line.line = "include" => Top.match - 1 \in 0 .. Len(Line.files)
              /\ Part(world, Left(Len(stack)), Top, Top.match - 1) \in Seq(DirsOf(world))
<1>1. Len(stack) \in Nat \ {0} /\ Top = stack[Len(stack)] /\ Placed(Top) /\ Len(stack) <= MaxOpen
  BY TopIs DEF IInv, StackInv
<1>2. Left(Len(stack)) \in 1 .. MaxOpen
  BY <1>1, LeftIs
<1>3. Len(stack) \in 1 .. Len(stack)
  BY <1>1
<1>4. Top.file \in Whole(world)[Left(Len(stack))]
  BY <1>1, <1>3 DEF ReadSoFar
<1>5. /\ Top.file \in DOMAIN world.conf /\ Top.line \in Nat \ {0} /\ Top.match \in Nat \ {0}
      /\ Len(world.conf[Top.file]) \in Nat
      /\ Top.line <= Len(world.conf[Top.file]) =>
           Line \in Range(world.conf[Top.file]) /\ Line = world.conf[Top.file][Top.line]
  BY LineIs
<1>6. ASSUME Top.line > Len(world.conf[Top.file]) PROVE AtEnd(world, Top.file, Top) /\ Top.match = 1
  <2>1. Top.line <= Len(world.conf[Top.file]) + 1 /\ ~(Top.match > 1)
    BY <1>1, <1>5, <1>6 DEF Placed
  <2> QED
    BY <1>5, <1>6, <2>1 DEF AtEnd
<1>7. ASSUME Top.line <= Len(world.conf[Top.file])
      PROVE  /\ AtLine(world, Top.file, Top, Top.line, Line)
             /\ Line.line # "include" => Top.match = 1
             /\ Line.line = "include" => Top.match - 1 \in 0 .. Len(Line.files)
             /\ Part(world, Left(Len(stack)), Top, Top.match - 1) \in Seq(DirsOf(world))
  <2>1. AtLine(world, Top.file, Top, Top.line, Line)
    BY <1>5, <1>7 DEF AtLine
  <2>2. Top.match > 1 => Line.line = "include" /\ Top.match <= Len(Line.files) + 1
    BY <1>1, <1>5, <1>7 DEF Placed
  <2>3. ASSUME Line.line = "include" PROVE Top.match - 1 \in 0 .. Len(Line.files)
    <3>1. IsSeq(Line.files)
      BY <1>5, <1>7, <2>3, LineOf DEF IInv
    <3>2. Len(Line.files) \in Nat
      BY <3>1, SeqIs
    <3> QED
      BY <1>5, <2>2, <3>2
  <2>4. Line.line # "include" => Top.match = 1
    BY <1>5, <2>2
  <2>5. world \in Worlds
    BY DEF IInv
  <2>7. Reads(world, Left(Len(stack)), Top.file, Top, Top.line, Line)
    BY <1>2, <1>4, <2>1, <2>5 DEF Reads
  <2>8. Hears(world, Left(Len(stack)), Top, Line)
    BY <2>7, PartNext
  <2>6. Part(world, Left(Len(stack)), Top, Top.match - 1) \in Seq(DirsOf(world))
    <3>1. CASE Line.line = "include"
      BY <2>3, <2>8, <3>1 DEF Hears
    <3>2. CASE Line.line # "include"
      <4>1. Top.match - 1 = 0
        BY <2>4, <3>2
      <4> QED
        BY <2>8, <4>1 DEF Hears
    <3> QED
      BY <3>1, <3>2
  <2> QED
    BY <2>1, <2>3, <2>4, <2>6
<1> QED
  BY <1>2, <1>4, <1>6, <1>7


\* The last call goes on, and hears of e.
Adds(fr, e, ds) ==
  /\ Part(world, Left(Len(stack)), fr, fr.match - 1) =
       Part(world, Left(Len(stack)), Top, Top.match - 1) \o e
  /\ \A listed \in Seq(DirsOf(world)) :
       InOrder(dirs, world.paths, listed) => InOrder(ds, world.paths, listed \o e)

LEMMA ReadGoesOn ==
  ASSUME IInv, Readable, ReadSoFar(stack, file, dirs), stack # <<>>,
         Top.line <= Len(world.conf[Top.file]),
         NEW fr \in Frames, fr.file = Top.file, NEW s, s = [stack EXCEPT ![Len(stack)] = fr],
         NEW e \in Seq(DirsOf(world)), NEW ds, Adds(fr, e, ds)
  PROVE  ReadSoFar(s, file, ds)
<1> DEFINE n == Len(stack)
           D == DirsOf(world)
<1>1. n \in Nat \ {0} /\ Top = stack[n] /\ stack \in Seq(Frames)
  BY TopIs DEF IInv, StackInv
<1>2. Len(s) = n /\ s[n] = fr /\ (\A d \in 1 .. n - 1 : s[d] = stack[d]) /\ s # <<>>
  <2>1. s \in Seq(Frames) /\ Len(s) = n /\ \A d \in 1 .. n : s[d] = IF d = n THEN fr ELSE stack[d]
    <3>1. n \in 1 .. n
      BY <1>1
    <3> QED
      BY <1>1, <3>1, ExceptSeq
  <2>2. n \in 1 .. n /\ \A d \in 1 .. n - 1 : d \in 1 .. n /\ d # n
    BY <1>1
  <2> QED
    BY <1>1, <2>1, <2>2, EmptySeq
<1>3. ASSUME NEW d \in 1 .. n PROVE s[d].file \in Whole(world)[Left(d)]
  <2>1. d = n \/ d \in 1 .. n - 1
    BY <1>1
  <2>2. stack[d].file \in Whole(world)[Left(d)]
    BY DEF ReadSoFar
  <2> QED
    BY <1>1, <1>2, <2>1, <2>2
<1>4. PICK listed \in Seq(D) : SoFar(stack, file, listed) /\ InOrder(dirs, world.paths, listed)
  BY DEF ReadSoFar
<1>5. PICK got : Heard(stack, file, got) /\ listed = Since(stack, got)
  BY <1>4 DEF SoFar
<1>6. Heard(s, file, got)
  BY <1>1, <1>2, <1>5, HeardSame
<1>7. Since(s, got) = listed \o e
  <2> DEFINE a == got[n]
             b == Part(world, Left(n), Top, Top.match - 1)
  <2>1. a \in Seq(D)
    BY <1>1, <1>5 DEF Heard
  <2>2. b \in Seq(D)
    BY TopPart
  <2>3. Since(s, got) = a \o (b \o e)
    BY <1>2 DEF Since, Adds
  <2>4. listed = a \o b
    BY <1>1, <1>5 DEF Since
  <2>5. e \in Seq(D)
    OBVIOUS
  <2> HIDE DEF a, b, D, n
  <2>6. a \o (b \o e) = (a \o b) \o e
    <3>1. Associates(D)
      BY ConcatThree
    <3> QED
      BY <2>1, <2>2, <2>5, <3>1 DEF Associates
  <2> QED
    BY <2>3, <2>4, <2>6
<1>8. listed \o e \in Seq(D)
  BY <1>4, ConcatProperties
<1>9. InOrder(ds, world.paths, listed \o e)
  BY <1>4 DEF Adds
<1>10. SoFar(s, file, listed \o e)
  BY <1>2, <1>6, <1>7 DEF SoFar
<1> QED
  BY <1>2, <1>3, <1>8, <1>9, <1>10 DEF ReadSoFar

LEMMA ReadsOpenConf ==
  ASSUME IInv, Readable, ReadSoFar(stack, file, dirs), OpenConf
  PROVE  ReadSoFar(stack', file', dirs')
<1> DEFINE f == ConfFiles[file]
           fr == Frame(f)
           s == <<fr>>
           D == DirsOf(world)
<1>1. stack = <<>> /\ file <= Len(ConfFiles) /\ file' = file + 1 /\ dirs' = dirs
      /\ stack' = IF CanOpen(f) THEN s ELSE <<>>
  BY DEF OpenConf
<1>2. world \in Worlds /\ MaxOpen \in Nat \ {0} /\ file \in 1 .. Len(ConfFiles)
  BY <1>1, Worldly, WorldsAssumption DEF IInv, WorldsAssumption
<1>3. f \in Whole(world)[MaxOpen]
  BY <1>2, OutermostSteps
<1>4. MaxOpen \in 1 .. MaxOpen /\ Left(1) = MaxOpen
  BY <1>2, LeftIs
<1>5. f \in DOMAIN world.conf
  BY <1>2, <1>3, <1>4, WholeFile
<1>6. CanOpen(f)
  BY <1>1, <1>2, <1>5 DEF CanOpen
<1>7. fr.file = f /\ fr.match - 1 = 0
  BY DEF Frame
<1>8. Part(world, Left(1), fr, fr.match - 1) = <<>>
  BY <1>2, <1>3, <1>4, <1>7, PartBegins
<1> HIDE DEF fr
<1>9. Len(s) = 1 /\ s[1] = fr /\ s # <<>>
  OBVIOUS
<1>10. PICK listed \in Seq(D) : listed = Flat(Outermost)[file - 1] /\ InOrder(dirs, world.paths, listed)
  BY <1>1 DEF ReadSoFar, SoFar
<1> HIDE DEF s
<1> DEFINE got == [d \in 1 .. 1 |-> listed]
<1>11. Heard(s, file + 1, got)
  <2>1. got \in [1 .. Len(s) -> Seq(D)]
    BY <1>9

  <2>3. 2 .. Len(s) = {}
    BY <1>9
  <2> HIDE DEF got
  <2>4. \A d \in 2 .. Len(s) :
          got[d] = got[d - 1] \o Part(world, Left(d - 1), s[d - 1], s[d - 1].match - 2)
    BY <2>3
  <2> DEFINE n == file + 1
  <2>5. got[1] = Flat(Outermost)[n - 2]
    <3>1. n - 2 = file - 1
      BY <1>2
    <3> QED
      BY <1>10, <3>1 DEF got
  <2> HIDE DEF n
  <2>6. Heard(s, n, got)
    BY <2>1, <2>4, <2>5 DEF Heard
  <2> QED
    BY <2>6 DEF n
<1>12. Since(s, got) = listed
  <2>1. Since(s, got) = listed \o <<>>
    BY <1>8, <1>9 DEF Since
  <2> QED
    BY <2>1, ConcatEmptySeq
<1> HIDE DEF got
<1>13. SoFar(s, file + 1, listed)
  BY <1>9, <1>11, <1>12 DEF SoFar
<1>14. \A d \in 1 .. Len(s) : s[d].file \in Whole(world)[Left(d)]
  BY <1>3, <1>4, <1>7, <1>9
<1>15. ReadSoFar(s, file + 1, dirs)
  BY <1>10, <1>13, <1>14 DEF ReadSoFar
<1> QED
  BY <1>1, <1>6, <1>15

\* A call begins, at the file that the line at hand includes next.
LEMMA ReadsMatch ==
  ASSUME IInv, Readable, ReadSoFar(stack, file, dirs), stack # <<>>,
         Top.line <= Len(world.conf[Top.file]), Line.line = "include", Top.match <= Len(Line.files)
  PROVE  /\ CanOpen(Line.files[Top.match])
         /\ ReadSoFar(Append(NextMatch, Frame(Line.files[Top.match])), file, dirs)
<1> DEFINE n == Len(stack)
           D == DirsOf(world)
           f == Line.files[Top.match]
           m == MatchOf(Top)
           s == NextMatch
           fr == Frame(f)
           t == Append(s, fr)
<1>1. n \in Nat \ {0} /\ Top = stack[n] /\ n <= MaxOpen /\ world \in Worlds
  BY TopIs DEF IInv, StackInv
<1>2. /\ Left(n) \in 1 .. MaxOpen /\ Top.file \in Whole(world)[Left(n)]
      /\ AtLine(world, Top.file, Top, Top.line, Line)
  BY TopPart
<1>3. Line \in Range(world.conf[Top.file]) /\ Top.match \in Nat \ {0} /\ Top.line \in Nat \ {0}
  BY LineIs
<1>4. f \in Whole(world)[Left(n) - 1]
  <2>1. Len(Line.files) \in Nat /\ \A k \in 1 .. Len(Line.files) : Line.files[k] \in Whole(world)[Left(n) - 1]
    BY <1>1, <1>2, <1>3, MatchesSteps DEF MatchesListed
  <2>2. Top.match \in 1 .. Len(Line.files)
    BY <1>3, <2>1
  <2> QED
    BY <2>1, <2>2
<1>5. Left(n) # 1
  <2>1. Whole(world)[0] = {}
    BY WholeSteps
  <2> QED
    BY <1>4, <2>1
<1>6. n < MaxOpen /\ Left(n + 1) = Left(n) - 1 /\ Left(n + 1) \in 1 .. MaxOpen
  <2>1. MaxOpen \in Nat
    BY WorldsAssumption DEF WorldsAssumption
  <2>2. Left(n + 1) = Left(n) - 1 /\ (Left(n) = 1 <=> n = MaxOpen)
    BY <1>1, LeftIs
  <2> QED
    BY <1>1, <1>2, <1>5, <2>1, <2>2
<1>7. f \in Whole(world)[Left(n + 1)] /\ f \in DOMAIN world.conf
  BY <1>1, <1>4, <1>6, WholeFile
<1>8. CanOpen(f)
  BY <1>6, <1>7 DEF CanOpen
<1>9. /\ s \in Seq(Frames) /\ Len(s) = n /\ s # <<>> /\ s[n] = m
      /\ \A d \in 1 .. n - 1 : s[d] = stack[d]
  <2>1. s = [stack EXCEPT ![n] = m] /\ m \in Frames /\ Placed(m)
    BY MovesAre
  <2>2. m.file = Top.file
    BY DEF MatchOf
  <2> HIDE DEF s, m
  <2>5. Replaced(m, s)
    BY <2>1, <2>2 DEF Replaced
  <2>3. Len(s) = Len(stack) /\ s # <<>> /\ s[Len(s)] = m /\ s \in Seq(Frames)
    BY <2>5, TopMoves
  <2>4. \A d \in 1 .. Len(stack) - 1 : s[d] = stack[d]
    BY <2>5, TopMoves
  <2> QED
    BY <2>3, <2>4
<1>10. m.file = Top.file /\ m.line = Top.line /\ m.match - 2 = Top.match - 1
  BY <1>3 DEF MatchOf
<1>11. fr \in Frames /\ fr.file = f /\ fr.match - 1 = 0
  BY <1>7, NewFrame DEF Frame
<1>12. Part(world, Left(n + 1), fr, fr.match - 1) = <<>>
  BY <1>1, <1>6, <1>7, <1>11, PartBegins
<1> HIDE DEF s, m, fr
<1>13. /\ Len(t) = n + 1 /\ t[n + 1] = fr /\ (\A d \in 1 .. n : t[d] = s[d]) /\ t # <<>>
  <2>1. t \in Seq(Frames) /\ Len(t) = n + 1 /\ t[n + 1] = fr /\ \A d \in 1 .. n : t[d] = s[d]
    BY <1>9, <1>11, AppendProperties
  <2> HIDE DEF t
  <2>2. t # <<>>
    BY <1>1, <2>1, EmptySeq
  <2> QED
    BY <2>1, <2>2
<1> HIDE DEF t
<1>14. PICK listed \in Seq(D) : SoFar(stack, file, listed) /\ InOrder(dirs, world.paths, listed)
  BY DEF ReadSoFar
<1>15. PICK old : Heard(stack, file, old) /\ listed = Since(stack, old)
  BY <1>14 DEF SoFar
<1> DEFINE got == [d \in 1 .. n + 1 |-> IF d = n + 1 THEN listed ELSE old[d]]
<1>16. listed = old[n] \o Part(world, Left(n), m, m.match - 2)
  <2>1. Part(world, Left(n), m, m.match - 2) = Part(world, Left(n), Top, Top.match - 1)
    BY <1>10 DEF Part
  <2> QED
    BY <1>1, <1>15, <2>1 DEF Since
<1>17. /\ got \in [1 .. n + 1 -> Seq(D)] /\ got[n + 1] = listed
       /\ \A d \in 1 .. n : got[d] = old[d]
  <2>1. old \in [1 .. n -> Seq(D)]
    BY <1>15 DEF Heard
  <2> QED
    BY <1>1, <2>1
<1> HIDE DEF got
<1>18. Heard(s, file, old)
  BY <1>1, <1>9, <1>15, HeardSame
<1>19. Heard(t, file, got)
  <2>1. got[1] = Flat(Outermost)[file - 2]
    <3>1. 1 \in 1 .. n
      BY <1>1
    <3> QED
      BY <1>15, <1>17, <3>1 DEF Heard
  <2>2. ASSUME NEW d \in 2 .. n + 1
        PROVE  got[d] = got[d - 1] \o Part(world, Left(d - 1), t[d - 1], t[d - 1].match - 2)
    <3>1. d - 1 \in 1 .. n /\ (d = n + 1 \/ d \in 2 .. n)
      BY <1>1
    <3>2. t[d - 1] = s[d - 1] /\ got[d - 1] = old[d - 1]
      BY <1>13, <1>17, <3>1
    <3>3. CASE d = n + 1
      <4>1. d - 1 = n
        BY <1>1, <3>3
      <4> QED
        BY <1>9, <1>16, <1>17, <3>2, <3>3, <4>1
    <3>4. CASE d \in 2 .. n
      <4>1. d \in 1 .. n
        BY <1>1, <3>4
      <4>2. old[d] = old[d - 1] \o Part(world, Left(d - 1), s[d - 1], s[d - 1].match - 2)
        BY <1>9, <1>18, <3>4 DEF Heard
      <4> QED
        BY <1>17, <3>2, <4>1, <4>2
    <3> QED
      BY <3>1, <3>3, <3>4
  <2> QED
    BY <1>13, <1>17, <2>1, <2>2 DEF Heard
<1>20. Since(t, got) = listed
  <2>1. Since(t, got) = listed \o <<>>
    BY <1>12, <1>13, <1>17 DEF Since
  <2> QED
    BY <2>1, ConcatEmptySeq
<1>21. SoFar(t, file, listed)
  BY <1>13, <1>19, <1>20 DEF SoFar
<1>22. ASSUME NEW d \in 1 .. n + 1 PROVE t[d].file \in Whole(world)[Left(d)]
  <2>1. d = n + 1 \/ d = n \/ d \in 1 .. n - 1
    BY <1>1
  <2>2. CASE d = n + 1
    BY <1>7, <1>11, <1>13, <2>2
  <2>3. CASE d = n
    <3>1. n \in 1 .. n
      BY <1>1
    <3> QED
      BY <1>2, <1>9, <1>10, <1>13, <2>3, <3>1
  <2>4. CASE d \in 1 .. n - 1
    <3>1. d \in 1 .. n
      BY <1>1, <2>4
    <3> QED
      BY <1>9, <1>13, <2>4, <3>1 DEF ReadSoFar
  <2> QED
    BY <2>1, <2>2, <2>3, <2>4
<1>23. ReadSoFar(t, file, dirs)
  BY <1>13, <1>14, <1>21, <1>22 DEF ReadSoFar
<1> QED
  BY <1>8, <1>23 DEF t, s, fr

LEMMA ReadsReadLine ==
  ASSUME IInv, Readable, ReadSoFar(stack, file, dirs), ReadLine
  PROVE  ReadSoFar(stack', file', dirs')
<1> DEFINE n == Len(stack)
           D == DirsOf(world)
           next == NextOf(Top)
<1>1. stack # <<>> /\ Top.line <= Len(world.conf[Top.file]) /\ file' = file
  BY DEF ReadLine
<1>2. /\ Left(n) \in 1 .. MaxOpen /\ Top.file \in Whole(world)[Left(n)] /\ world \in Worlds
      /\ AtLine(world, Top.file, Top, Top.line, Line)
      /\ Line.line # "include" => Top.match = 1
      /\ Line.line = "include" => Top.match - 1 \in 0 .. Len(Line.files)
      /\ Part(world, Left(n), Top, Top.match - 1) \in Seq(D)
  BY <1>1, TopPart DEF IInv
<1>3. Line \in Range(world.conf[Top.file]) /\ Top.match \in Nat \ {0}
  BY <1>1, LineIs
<1>4. NextLine = [stack EXCEPT ![n] = next] /\ next \in Frames /\ next.file = Top.file /\ next.match - 1 = 0
  BY <1>1, MovesAre DEF NextOf
<1>5. LineRead(Line, Whole(world)[Left(n) - 1])
  BY <1>2, <1>3, WholeFile
<1>6. /\ dirs \in Seq(D) /\ Begins(world.paths, dirs) /\ NewOnce(world.paths, dirs)
      /\ world.paths \in Seq(D)
  BY <1>2, Worldly DEF IInv
<1>14. /\ Line.line = "dir" => Part(world, Left(n), next, 0) = Part(world, Left(n), Top, 0) \o <<Line.dir>>
       /\ Line.line = "other" => Part(world, Left(n), next, 0) = Part(world, Left(n), Top, 0)
       /\ Line.line = "include" => Part(world, Left(n), next, 0) = Part(world, Left(n), Top, Len(Line.files))
  <2>1. Reads(world, Left(Len(stack)), Top.file, Top, Top.line, Line)
    BY <1>2 DEF Reads
  <2>2. Hears(world, Left(Len(stack)), Top, Line)
    BY <2>1, PartNext
  <2> QED
    BY <2>2 DEF Hears
<1> HIDE DEF next
<1>7. ASSUME NEW e \in Seq(D), Adds(next, e, dirs'), stack' = NextLine
      PROVE  ReadSoFar(stack', file', dirs')
  BY <1>1, <1>4, <1>7, ReadGoesOn
<1>8. ASSUME dirs' = dirs, Part(world, Left(n), next, 0) = Part(world, Left(n), Top, Top.match - 1)
      PROVE  Adds(next, <<>>, dirs')
  <2>1. \A listed \in Seq(D) : listed \o <<>> = listed
    BY ConcatEmptySeq
  <2>2. Part(world, Left(n), Top, Top.match - 1) \o <<>> = Part(world, Left(n), Top, Top.match - 1)
    BY <1>2, <2>1
  <2> QED
    BY <1>4, <1>8, <2>1, <2>2 DEF Adds
<1>9. CASE Line.line = "dir" /\ AddPath(Line.dir) /\ stack' = NextLine
  <2> DEFINE e == <<Line.dir>>
  <2>1. Line.dir \in D
    <3>1. Top.file \in DOMAIN world.conf
      BY <1>1, LineIs
    <3> QED
      BY <1>2, <1>3, <1>9, <3>1, LineOf
  <2>2. e \in Seq(D)
    BY <2>1
  <2>3. Top.match - 1 = 0
    BY <1>2, <1>9
  <2>4. Part(world, Left(n), next, 0) = Part(world, Left(n), Top, 0) \o e
    BY <1>9, <1>14
  <2>5. PathAdded(dirs, Line.dir, dirs')
    BY <1>9 DEF AddPath, PathAdded
  <2>6. ASSUME NEW listed \in Seq(D), InOrder(dirs, world.paths, listed)
        PROVE  InOrder(dirs', world.paths, listed \o e)
    BY <1>6, <2>1, <2>5, <2>6, InOrderAdd
  <2>7. Adds(next, e, dirs')
    BY <1>4, <2>3, <2>4, <2>6 DEF Adds
  <2> HIDE DEF e
  <2> QED
    BY <1>7, <1>9, <2>2, <2>7
<1>10. CASE Line.line = "other" /\ stack' = NextLine /\ UNCHANGED dirs
  <2>1. Top.match - 1 = 0
    BY <1>2, <1>10
  <2>2. Part(world, Left(n), next, 0) = Part(world, Left(n), Top, 0)
    BY <1>10, <1>14
  <2>3. Adds(next, <<>>, dirs')
    BY <1>8, <1>10, <2>1, <2>2
  <2> QED
    BY <1>7, <1>10, <2>3, EmptySeq
<1>11. CASE Line.line = "include" /\ Top.match > Len(Line.files) /\ stack' = NextLine /\ UNCHANGED dirs
  <2>1. Top.match - 1 = Len(Line.files)
    <3>1. Len(Line.files) \in Nat
      BY <1>2, <1>3, <1>11, MatchesSteps DEF MatchesListed
    <3> QED
      BY <1>2, <1>3, <1>11, <3>1
  <2>2. Part(world, Left(n), next, 0) = Part(world, Left(n), Top, Len(Line.files))
    BY <1>11, <1>14
  <2>3. Adds(next, <<>>, dirs')
    BY <1>8, <1>11, <2>1, <2>2
  <2> QED
    BY <1>7, <1>11, <2>3, EmptySeq
<1>12. CASE /\ Line.line = "include" /\ Top.match <= Len(Line.files) /\ UNCHANGED dirs
            /\ LET f == Line.files[Top.match] IN
               stack' = IF CanOpen(f) THEN Append(NextMatch, Frame(f)) ELSE Failing
  BY <1>1, <1>12, ReadsMatch
<1>13. Line.line # "badglob"
  BY <1>5 DEF LineRead
<1> QED
  BY <1>9, <1>10, <1>11, <1>12, <1>13 DEF ReadLine

LEMMA ReadsCloseConf ==
  ASSUME IInv, Readable, ReadSoFar(stack, file, dirs), CloseConf
  PROVE  ReadSoFar(stack', file', dirs')
<1> DEFINE n == Len(stack)
           D == DirsOf(world)
           s == Front(stack)
<1>1. /\ stack # <<>> /\ Top.line > Len(world.conf[Top.file])
      /\ stack' = s /\ file' = file /\ dirs' = dirs
  BY DEF CloseConf
<1>2. /\ n \in Nat \ {0} /\ Top = stack[n] /\ s \in Seq(Frames) /\ Len(s) = n - 1
      /\ \A d \in 1 .. n - 1 : s[d] = stack[d]
  BY <1>1, TopIs
<1>3. n <= MaxOpen /\ world \in Worlds /\ \A d \in 1 .. n : stack[d].file \in Whole(world)[Left(d)]
  BY DEF IInv, StackInv, ReadSoFar
<1> HIDE DEF s
<1>4. /\ Left(n) \in 1 .. MaxOpen /\ Top.file \in Whole(world)[Left(n)]
      /\ AtEnd(world, Top.file, Top) /\ Top.match - 1 = 0
  BY <1>1, TopPart
<1>5. Part(world, Left(n), Top, Top.match - 1) = DirsIn(world)[Left(n)][Top.file]
  BY <1>3, <1>4, PartEnds
<1>6. PICK listed \in Seq(D) : SoFar(stack, file, listed) /\ InOrder(dirs, world.paths, listed)
  BY DEF ReadSoFar
<1>7. PICK old : Heard(stack, file, old) /\ listed = Since(stack, old)
  BY <1>1, <1>6 DEF SoFar
<1>8. listed = old[n] \o DirsIn(world)[Left(n)][Top.file]
  BY <1>2, <1>5, <1>7 DEF Since
<1>9. ASSUME NEW d \in 1 .. Len(s) PROVE s[d].file \in Whole(world)[Left(d)]
  <2>1. d \in 1 .. n - 1 /\ d \in 1 .. n
    BY <1>2
  <2> QED
    BY <1>2, <1>3, <2>1
<1>10. CASE n = 1
  <2>1. s = <<>>
    BY <1>2, <1>10, EmptySeq
  <2>2. file > 1 /\ Top.file = ConfFiles[file - 1] /\ file \in 1 .. Len(ConfFiles) + 1
    BY <1>1, <1>2, <1>10 DEF IInv, StackInv
  <2>3. file - 1 \in 1 .. Len(ConfFiles) /\ file - 1 - 1 = file - 2
    BY <1>3, <2>2, Worldly
  <2>4. Flat(Outermost)[file - 1] = Flat(Outermost)[file - 2] \o DirsIn(world)[MaxOpen][ConfFiles[file - 1]]
    BY <1>3, <2>3, OutermostSteps
  <2>5. old[1] = Flat(Outermost)[file - 2]
    BY <1>7 DEF Heard
  <2>6. Left(1) = MaxOpen
    BY <1>3, <1>10, LeftIs
  <2>7. listed = Flat(Outermost)[file - 1]
    BY <1>8, <1>10, <2>2, <2>4, <2>5, <2>6
  <2>8. SoFar(s, file, listed)
    BY <2>1, <2>7 DEF SoFar
  <2> QED
    BY <1>1, <1>6, <1>9, <2>8 DEF ReadSoFar
<1>11. CASE n # 1
  <2> DEFINE m == n - 1
             below == stack[m]
             x == world.conf[below.file][below.line]
             k == below.match - 1
  <2>1. m \in Nat \ {0} /\ m <= MaxOpen /\ m + 1 = n /\ m \in 1 .. n /\ m \in 1 .. n - 1 /\ n \in 2 .. n
    BY <1>2, <1>3, <1>11, WorldsAssumption DEF WorldsAssumption
  <2>2. Left(m) \in 1 .. MaxOpen /\ Left(n) = Left(m) - 1
    BY <2>1, LeftIs
  <2>3. below.file \in Whole(world)[Left(m)] /\ below \in Frames /\ Placed(below) /\ Above(Top, below)
    BY <1>2, <1>3, <2>1, ElementOfSeq DEF IInv, StackInv
  <2>4. /\ below.match > 1 /\ below.line \in Nat \ {0} /\ below.match \in Nat
        /\ below.line <= Len(world.conf[below.file]) /\ x.line = "include" /\ below.match <= Len(x.files) + 1
        /\ Top.file = x.files[k]
    BY <2>3 DEF Placed, Above, Frames
  <2>5. Len(world.conf[below.file]) \in Nat
    BY <1>3, <2>2, <2>3, WholeFile
  <2>20. below.line \in 1 .. Len(world.conf[below.file])
    <3> DEFINE l == below.line
               L == Len(world.conf[below.file])
    <3>1. l \in Nat \ {0} /\ L \in Nat /\ l <= L
      BY <2>4, <2>5
    <3> HIDE DEF l, L
    <3>2. l \in 1 .. L
      BY <3>1
    <3> QED
      BY <3>2 DEF l, L
  <2>6. AtLine(world, below.file, below, below.line, x)
    BY <2>20 DEF AtLine
  <2>7. x \in Range(world.conf[below.file])
    <3> DEFINE q == Left(m)
               f == below.file
               l == below.line
    <3>1. world \in Worlds /\ q \in 1 .. MaxOpen /\ f \in Whole(world)[q] /\ l \in 1 .. Len(world.conf[f])
      BY <1>3, <2>2, <2>3, <2>20
    <3> HIDE DEF q, f, l, m, below
    <3>2. world.conf[f][l] \in Range(world.conf[f])
      BY <3>1, WholeFile
    <3> QED
      BY <3>2 DEF f, l
  <2>19. MatchesListed(world, Left(m), x)
    <3> DEFINE q == Left(m)
               f == below.file
               y == x
    <3>1. /\ world \in Worlds /\ q \in 1 .. MaxOpen /\ f \in Whole(world)[q]
          /\ y \in Range(world.conf[f]) /\ y.line = "include"
      BY <1>3, <2>2, <2>3, <2>4, <2>7
    <3> HIDE DEF q, f, y, x, m, below
    <3>2. MatchesListed(world, q, y)
      BY <3>1, MatchesSteps
    <3> QED
      BY <3>2 DEF q, y
  <2>8. Len(x.files) \in Nat
    BY <2>19 DEF MatchesListed
  <2>9. /\ k \in 1 .. Len(x.files) /\ k - 1 \in 0 .. Len(x.files) /\ below.match - 2 = k - 1
    <3> DEFINE b == below.match
               M == Len(x.files)
    <3>1. b \in Nat /\ b > 1 /\ M \in Nat /\ b <= M + 1
      BY <2>4, <2>8
    <3> HIDE DEF b, M
    <3>2. b - 1 \in 1 .. M /\ b - 1 - 1 \in 0 .. M /\ b - 2 = b - 1 - 1
      BY <3>1
    <3> QED
      BY <3>2 DEF b, M
  <2>10. /\ Part(world, Left(m), below, k) =
              Part(world, Left(m), below, k - 1) \o DirsIn(world)[Left(m) - 1][x.files[k]]
         /\ Part(world, Left(m), below, k - 1) \in Seq(D)
    <3> DEFINE q == Left(m)
               y == x
    <3>1. Reads(world, q, below.file, below, below.line, y)
      BY <1>3, <2>2, <2>3, <2>6 DEF Reads
    <3>2. y.line = "include" /\ k \in 1 .. Len(y.files) /\ k - 1 \in 0 .. Len(y.files)
      BY <2>4, <2>9
    <3> HIDE DEF x, below, k, m, y, q
    <3>3. Hears(world, q, below, y)
      BY <3>1, PartNext
    <3>4. /\ Part(world, q, below, k) = Part(world, q, below, k - 1) \o DirsIn(world)[q - 1][y.files[k]]
          /\ Part(world, q, below, k - 1) \in Seq(D)
      BY <3>2, <3>3 DEF Hears
    <3> QED
      BY <3>4 DEF q, y
  <2>11. DirsIn(world)[Left(m) - 1][x.files[k]] \in Seq(D)
    BY <2>9, <2>19 DEF MatchesListed
  <2>12. old[n] = old[m] \o Part(world, Left(m), below, below.match - 2) /\ old[m] \in Seq(D)
    BY <1>7, <2>1 DEF Heard
  <2>13. s # <<>> /\ s[m] = below /\ Len(s) = m
    BY <1>2, <2>1, EmptySeq
  <2>14. listed = old[m] \o Part(world, Left(m), below, k)
    <3> DEFINE a == old[m]
               b == Part(world, Left(m), below, k - 1)
               c == DirsIn(world)[Left(m) - 1][x.files[k]]
    <3>1. a \in Seq(D) /\ b \in Seq(D) /\ c \in Seq(D)
      BY <2>10, <2>11, <2>12
    <3>2. listed = (a \o b) \o c
      BY <1>8, <2>2, <2>4, <2>9, <2>12
    <3>3. Part(world, Left(m), below, k) = b \o c
      BY <2>10
    <3> HIDE DEF a, b, c, D, n, m, below, x, k
    <3>4. Associates(D)
      BY ConcatThree
    <3>5. a \o (b \o c) = (a \o b) \o c
      BY <3>1, <3>4 DEF Associates
    <3> QED
      BY <3>2, <3>3, <3>5 DEF a
  <2> DEFINE got == [d \in 1 .. m |-> old[d]]
  <2>15. got \in [1 .. m -> Seq(D)] /\ \A d \in 1 .. m : got[d] = old[d]
    <3>1. \A d \in 1 .. m : d \in 1 .. n
      BY <2>1
    <3> QED
      BY <1>7, <3>1 DEF Heard
  <2> HIDE DEF got
  <2>16. Heard(s, file, got)
    <3>1. got[1] = Flat(Outermost)[file - 2]
      <4>1. 1 \in 1 .. m
        BY <2>1
      <4> QED
        BY <1>7, <2>15, <4>1 DEF Heard
    <3>2. ASSUME NEW d \in 2 .. m
          PROVE  got[d] = got[d - 1] \o Part(world, Left(d - 1), s[d - 1], s[d - 1].match - 2)
      <4>1. d \in 1 .. m /\ d - 1 \in 1 .. m /\ d - 1 \in 1 .. n - 1 /\ d \in 2 .. n
        BY <2>1
      <4>2. old[d] = old[d - 1] \o Part(world, Left(d - 1), stack[d - 1], stack[d - 1].match - 2)
        BY <1>7, <4>1 DEF Heard
      <4>3. s[d - 1] = stack[d - 1] /\ got[d] = old[d] /\ got[d - 1] = old[d - 1]
        BY <1>2, <2>15, <4>1
      <4> QED
        BY <4>2, <4>3
    <3> HIDE DEF m
    <3> QED
      BY <2>13, <2>15, <3>1, <3>2 DEF Heard
  <2>17. Since(s, got) = listed
    <3>1. got[m] = old[m]
      <4>1. m \in 1 .. m
        BY <2>1
      <4> QED
        BY <2>15, <4>1
    <3> QED
      BY <2>13, <2>14, <3>1 DEF Since
  <2>18. SoFar(s, file, listed)
    BY <2>13, <2>16, <2>17 DEF SoFar
  <2> QED
    BY <1>1, <1>6, <1>9, <2>18 DEF ReadSoFar
<1> QED
  BY <1>10, <1>11

LEMMA ConfInvInit == Init => ConfInv
<1> SUFFICES ASSUME Init, Readable PROVE ReadSoFar(stack, file, dirs)
  BY DEF ConfInv
<1>1. world \in Worlds /\ file = 1 /\ stack = <<>> /\ dirs = world.paths
  BY DEF Init
<1>2. world.paths \in Seq(DirsOf(world)) /\ Len(dirs) \in Nat
  BY <1>1, Worldly, LenProperties
<1>3. Flat(Outermost)[0] = <<>>
  BY <1>1, OutermostSteps
<1>4. SoFar(stack, file, <<>>)
  BY <1>1, <1>3 DEF SoFar
<1>5. InOrder(dirs, world.paths, <<>>)
  <2>1. Range(dirs) = Range(world.paths) \cup Range(<<>>)
    <3>1. Range(<<>>) = {}
      BY DEF Range
    <3> QED
      BY <1>1, <3>1
  <2>2. ASSUME NEW j \in Len(world.paths) + 1 .. Len(dirs) PROVE FALSE
    BY <1>1, <1>2
  <2> QED
    BY <2>1, <2>2 DEF InOrder
<1>6. <<>> \in Seq(DirsOf(world)) /\ 1 .. Len(stack) = {}
  BY <1>1
<1> QED
  BY <1>4, <1>5, <1>6 DEF ReadSoFar

\* What the configuration says does not change.
LEMMA WorldStays ==
  ASSUME world' = world
  PROVE  /\ Readable' <=> Readable
         /\ AllListed' = AllListed
         /\ ReadSoFar(stack', file', dirs') => ReadSoFar(stack, file, dirs)'
<1>1. ConfFiles' = ConfFiles
  BY DEF ConfFiles
<1>2. (Readable' <=> Readable) /\ AllListed' = AllListed /\ Outermost' = Outermost
  BY <1>1 DEF Readable, AllListed, Outermost
<1>3. ASSUME ReadSoFar(stack', file', dirs') PROVE ReadSoFar(stack, file, dirs)'
  BY <1>2, <1>3 DEF ReadSoFar, SoFar, Heard, Since
<1> QED
  BY <1>2, <1>3

LEMMA ConfInvNext == IInv /\ ConfInv /\ [Next]_vars => ConfInv'
<1> SUFFICES ASSUME IInv, ConfInv, [Next]_vars PROVE ConfInv'
  OBVIOUS
<1>1. world' = world
  BY DEF Next, Step, OpenConf, ReadLine, CloseConf, ConfRead, TryFile, GiveUp, Done, Script, vars
<1>2. SUFFICES ASSUME Readable PROVE ReadSoFar(stack', file', dirs')
  BY <1>1, WorldStays DEF ConfInv
<1>3. ReadSoFar(stack, file, dirs)
  BY <1>2 DEF ConfInv
<1>4. CASE OpenConf
  BY <1>2, <1>3, <1>4, ReadsOpenConf
<1>5. CASE ReadLine
  BY <1>2, <1>3, <1>5, ReadsReadLine
<1>6. CASE CloseConf
  BY <1>2, <1>3, <1>6, ReadsCloseConf
<1>7. CASE UNCHANGED <<stack, file, dirs>>
  BY <1>3, <1>7
<1> QED
  BY <1>4, <1>5, <1>6, <1>7 DEF Next, Step, ConfRead, TryFile, GiveUp, Done, Script, vars

LEMMA SearchedInOrder == IInv /\ ConfInv => DirsInOrder
<1> SUFFICES ASSUME IInv, ConfInv PROVE DirsInOrder
  OBVIOUS
<1>1. /\ world \in Worlds /\ dirs \in Seq(DirsOf(world))
      /\ Begins(world.paths, dirs) /\ NewOnce(world.paths, dirs)
      /\ world.paths \in Seq(DirsOf(world)) /\ Len(ConfFiles) \in Nat
  BY Worldly DEF IInv
<1>2. IsPrefix(world.paths, dirs)
  BY <1>1, BeginsIsPrefix
<1>3. ASSUME phase # "conf", Readable PROVE InOrder(dirs, world.paths, AllListed)
  <2>1. stack = <<>> /\ file > Len(ConfFiles) /\ file \in 1 .. Len(ConfFiles) + 1
    BY <1>3 DEF IInv, StackInv
  <2>2. file - 1 = Len(ConfFiles)
    BY <1>1, <2>1
  <2>3. PICK listed \in Seq(DirsOf(world)) :
          SoFar(stack, file, listed) /\ InOrder(dirs, world.paths, listed)
    BY <1>3 DEF ConfInv, ReadSoFar
  <2>4. listed = Flat(Outermost)[file - 1]
    BY <2>1, <2>3 DEF SoFar
  <2>5. AllListed = Flat(Outermost)[Len(ConfFiles)]
    BY <1>1, <1>3, OutermostSteps
  <2> QED
    BY <2>2, <2>3, <2>4, <2>5
<1> QED
  BY <1>1, <1>2, <1>3 DEF DirsInOrder, NewOnce

\* A directory that several configuration files list is searched once, and one
\* that -L has named is not searched again; when every file can be read, the
\* directories are searched in the order in which ld.so.conf, what it includes,
\* and ld.so.conf.d list them first.
THEOREM DirsInOrderHolds == Spec => []DirsInOrder
<1>1. Init => IInv /\ ConfInv
  BY IInvInit, ConfInvInit
<1>2. IInv /\ ConfInv /\ [Next]_vars => (IInv /\ ConfInv)'
  BY IInvNext, ConfInvNext
<1>3. IInv /\ ConfInv => DirsInOrder
  BY SearchedInOrder
<1> QED
  BY <1>1, <1>2, <1>3, PTL DEF Spec


-----------------------------------------------------------------------------
(* Scripts as one reads them *)

Tokens(T) == IsSeq(T) /\ \A x \in Range(T) : IsToken(x)

\* A sequence over any set is one.
LEMMA SeqHasRange ==
  ASSUME NEW S, NEW s \in Seq(S)
  PROVE  IsSeq(s) /\ Range(s) \subseteq S
<1>1. Len(s) \in Nat /\ DOMAIN s = 1 .. Len(s) /\ \A k \in 1 .. Len(s) : s[k] \in S
  BY LenProperties, ElementOfSeq
<1>2. s = [k \in 1 .. Len(s) |-> s[k]] /\ \A k \in 1 .. Len(s) : s[k] \in Range(s)
  BY <1>1 DEF Range
<1>3. s \in Seq(Range(s))
  BY <1>1, <1>2, SeqDef
<1> QED
  BY <1>1, <1>3 DEF IsSeq, Range

LEMMA TokenAt ==
  ASSUME NEW T, Tokens(T)
  PROVE  /\ Len(T) \in Nat /\ DOMAIN T = 1 .. Len(T)
         /\ \A k \in 1 .. Len(T) : IsToken(T[k])
<1>1. Len(T) \in Nat /\ DOMAIN T = 1 .. Len(T) /\ \A k \in 1 .. Len(T) : T[k] \in Range(T)
  BY SeqIs DEF Tokens
<1> QED
  BY <1>1 DEF Tokens

\* How many of the first k tokens are c.
Count(T, c, k) == Cardinality({j \in 1 .. k : T[j].t = c})

CountStep(T, c, k) ==
  /\ Count(T, c, k) \in Nat
  /\ T[k + 1].t = c => Count(T, c, k + 1) = Count(T, c, k) + 1
  /\ T[k + 1].t # c => Count(T, c, k + 1) = Count(T, c, k)

LEMMA CountSteps ==
  ASSUME NEW T, NEW c
  PROVE  Count(T, c, 0) = 0 /\ \A k \in Nat : CountStep(T, c, k)
<1> DEFINE S(k) == {j \in 1 .. k : T[j].t = c}
<1>1. S(0) = {}
  OBVIOUS
<1>2. ASSUME NEW k \in Nat PROVE IsFiniteSet(S(k)) /\ Cardinality(S(k)) \in Nat
  <2>1. IsFiniteSet(1 .. k)
    BY FS_Interval
  <2>2. S(k) \in SUBSET (1 .. k)
    OBVIOUS
  <2> HIDE DEF S
  <2>3. IsFiniteSet(S(k))
    BY <2>1, <2>2, FS_Subset
  <2> QED
    BY <2>3, FS_CardinalityType
<1>3. ASSUME NEW k \in Nat
      PROVE  /\ T[k + 1].t = c => Cardinality(S(k + 1)) = Cardinality(S(k)) + 1
             /\ T[k + 1].t # c => Cardinality(S(k + 1)) = Cardinality(S(k))
  <2>1. CASE T[k + 1].t = c
    <3>1. S(k + 1) = S(k) \cup {k + 1} /\ k + 1 \notin S(k)
      BY <2>1
    <3> HIDE DEF S
    <3>2. Cardinality(S(k) \cup {k + 1}) = Cardinality(S(k)) + 1
      BY <1>2, <3>1, FS_AddElement
    <3> QED
      BY <2>1, <3>1, <3>2
  <2>2. CASE T[k + 1].t # c
    <3>1. S(k + 1) = S(k)
      BY <2>2
    <3> HIDE DEF S
    <3> QED
      BY <1>2, <2>2, <3>1
  <2> QED
    BY <2>1, <2>2
<1>5. Count(T, c, 0) = 0
  BY <1>1, FS_EmptySet DEF Count
<1>4. ASSUME NEW k \in Nat PROVE CountStep(T, c, k)
  <2>1. Count(T, c, k) = Cardinality(S(k)) /\ Count(T, c, k + 1) = Cardinality(S(k + 1))
    BY DEF Count
  <2> HIDE DEF S
  <2> QED
    BY <1>2, <1>3, <2>1 DEF CountStep
<1> QED
  BY <1>4, <1>5


DepthStep(T, k) ==
  /\ Depth(T, k) \in Int /\ Depth(T, k + 1) \in Int
  /\ T[k + 1].t = "(" => Depth(T, k + 1) = Depth(T, k) + 1
  /\ T[k + 1].t = ")" => Depth(T, k + 1) = Depth(T, k) - 1
  /\ T[k + 1].t \notin {"(", ")"} => Depth(T, k + 1) = Depth(T, k)

LEMMA DepthSteps ==
  ASSUME NEW T
  PROVE  Depth(T, 0) = 0 /\ \A k \in Nat : DepthStep(T, k)
<1>1. \A k : Depth(T, k) = Count(T, "(", k) - Count(T, ")", k)
  BY DEF Depth, Count
<1>2. Count(T, "(", 0) = 0 /\ Count(T, ")", 0) = 0
  BY CountSteps
<1>3. ASSUME NEW k \in Nat PROVE DepthStep(T, k)
  <2> DEFINE a == Count(T, "(", k)
             b == Count(T, ")", k)
             a1 == Count(T, "(", k + 1)
             b1 == Count(T, ")", k + 1)
  <2>4. CountStep(T, "(", k) /\ CountStep(T, ")", k)
    BY CountSteps
  <2>3. a \in Nat /\ (T[k + 1].t = "(" => a1 = a + 1) /\ (T[k + 1].t # "(" => a1 = a)
    BY <2>4 DEF CountStep
  <2>1. b \in Nat /\ (T[k + 1].t = ")" => b1 = b + 1) /\ (T[k + 1].t # ")" => b1 = b)
    BY <2>4 DEF CountStep
  <2>2. Depth(T, k) = a - b /\ Depth(T, k + 1) = a1 - b1
    BY <1>1
  <2> HIDE DEF a, b, a1, b1
  <2> QED
    BY <2>1, <2>2, <2>3 DEF DepthStep
<1> QED
  BY <1>1, <1>2, <1>3

\* The command in force changes with a name outside of lists.
LEMMA ForceStep ==
  ASSUME NEW T, NEW k \in Nat \ {0}
  PROVE  InForce(T, k + 1) = IF T[k].t = "name" /\ Depth(T, k) = 0 THEN T[k].name ELSE InForce(T, k)
<1> DEFINE S(m) == {j \in 1 .. m - 1 : T[j].t = "name" /\ Depth(T, j) = 0}
<1>1. \A m : InForce(T, m) = IF S(m) = {} THEN "" ELSE T[Max(S(m))].name
  BY DEF InForce
<1>2. CASE T[k].t = "name" /\ Depth(T, k) = 0
  <2>1. k \in S(k + 1) /\ \A j \in S(k + 1) : k >= j /\ j \in Nat
    BY <1>2
  <2> HIDE DEF S
  <2>2. Max(S(k + 1)) = k
    BY <2>1 DEF Max
  <2> QED
    BY <1>1, <1>2, <2>1, <2>2
<1>3. CASE ~(T[k].t = "name" /\ Depth(T, k) = 0)
  <2>1. S(k + 1) = S(k)
    BY <1>3
  <2> HIDE DEF S
  <2> QED
    BY <1>1, <1>3, <2>1
<1> QED
  BY <1>2, <1>3

\* The files that the first k tokens of a script list.
ItemLists(T) == [k \in DOMAIN T |-> IF IsItem(T, k) THEN <<ItemOf(T, k)>> ELSE <<>>]
Items(T, k) == Flat(ItemLists(T))[k]

LEMMA ItemsSteps ==
  ASSUME NEW T, Tokens(T)
  PROVE  /\ Items(T, 0) = <<>> /\ ItemsOf(T) = Items(T, Len(T)) /\ IsSeq(ItemsOf(T))
         /\ \A k \in 1 .. Len(T) : Items(T, k) =
              IF IsItem(T, k) THEN Append(Items(T, k - 1), ItemOf(T, k)) ELSE Items(T, k - 1)
<1> DEFINE n == Len(T)
           S == {ItemOf(T, j) : j \in 1 .. n}
           ss == ItemLists(T)
<1>1. n \in Nat /\ DOMAIN T = 1 .. n
  BY TokenAt
<1>2. ASSUME NEW k \in 1 .. n
      PROVE  /\ ss[k] \in Seq(S)
             /\ IsItem(T, k) => ss[k] = <<ItemOf(T, k)>> /\ ItemOf(T, k) \in S
             /\ ~IsItem(T, k) => ss[k] = <<>>
  <2>1. ss[k] = IF IsItem(T, k) THEN <<ItemOf(T, k)>> ELSE <<>>
    BY <1>1 DEF ItemLists
  <2>2. ItemOf(T, k) \in S
    OBVIOUS
  <2> HIDE DEF S, ss
  <2>3. <<ItemOf(T, k)>> \in Seq(S)
    BY <2>2
  <2>4. <<>> \in Seq(S)
    BY EmptySeq
  <2> QED
    BY <2>1, <2>2, <2>3, <2>4
<1>3. ss \in Seq(Seq(S)) /\ Len(ss) = n
  <2>1. ss \in [1 .. n -> Seq(S)]
    BY <1>1, <1>2 DEF ItemLists
  <2> HIDE DEF ss, S, n
  <2> QED
    BY <1>1, <2>1, LenProperties, SeqDef
<1>4. ItemsOf(T) = Items(T, n)
  BY <1>3 DEF ItemsOf, Flattened, Items, ItemLists
<1> HIDE DEF n, S, ss
<1>5. /\ Flat(ss)[0] = <<>>
      /\ \A k \in 1 .. n : Flat(ss)[k] = Flat(ss)[k - 1] \o ss[k]
      /\ \A k \in 0 .. n : Flat(ss)[k] \in Seq(S)
  BY <1>3, FlatSteps
<1>6. ASSUME NEW k \in 1 .. n
      PROVE  Items(T, k) =
               IF IsItem(T, k) THEN Append(Items(T, k - 1), ItemOf(T, k)) ELSE Items(T, k - 1)
  <2> DEFINE got == Flat(ss)[k - 1]
  <2>1. got \in Seq(S)
    BY <1>1, <1>5
  <2>2. Items(T, k) = got \o ss[k] /\ Items(T, k - 1) = got
    BY <1>5 DEF Items, ss
  <2> HIDE DEF got
  <2>3. got \o <<>> = got
    BY <2>1, ConcatEmptySeq
  <2>4. IsItem(T, k) => got \o <<ItemOf(T, k)>> = Append(got, ItemOf(T, k))
    BY <1>2, <2>1, AppendIsConcat
  <2> QED
    BY <1>2, <2>2, <2>3, <2>4
<1>7. IsSeq(ItemsOf(T))
  <2>1. ItemsOf(T) \in Seq(S)
    BY <1>1, <1>4, <1>5 DEF Items, ss
  <2> QED
    BY <2>1, SeqHasRange
<1>8. Items(T, 0) = <<>>
  BY <1>5 DEF Items, ss
<1> QED
  BY <1>4, <1>6, <1>7, <1>8 DEF n

-----------------------------------------------------------------------------
(* The parser among the tokens *)

\* s is what remains of T after its first k tokens.
Remains(T, k, s) ==
  /\ k \in 0 .. Len(T) /\ s \in Seq(Range(T)) /\ Len(s) = Len(T) - k
  /\ \A j \in 1 .. Len(T) - k : s[j] = T[k + j]

Addable(T, k) == IsItem(T, k) => T[k].path = <<>> \/ CanAdd(T[k].path)

\* What has been read: k tokens, which fit as far as can be told before the
\* next one, and list ls.
Read(T, k, ls) ==
  /\ k \in 0 .. Len(T) /\ ls = Items(T, k)
  /\ \A j \in 1 .. k : Depth(T, j) >= 0 /\ Addable(T, j)
  /\ \A j \in 1 .. k - 1 : Fits(T, j)

\* Inside d lists of files.
Inside(T, k, d) ==
  k > 0 /\ d \in Nat /\ Depth(T, k) = d /\ InForce(T, k + 1) \in ListCommands

\* A name in a list that is one of its files unless a parenthesis follows.
AnItem(T, k) ==
  T[k].t = "name" /\ T[k].name # "AS_NEEDED" /\ (TokenIs(T, k - 1, "-") => T[k].lib # "")

AtCommand(T, k, d) == d = 0 /\ Depth(T, k) = 0 /\ (k = 0 \/ T[k].t = ")")
AtList(T, k, d) ==
  /\ Inside(T, k, d) /\ T[k].t = "name"
  /\ d > 0 => T[k].name = "AS_NEEDED" /\ ~TokenIs(T, k - 1, "-")
\* Behind an item, and with the comma that may follow.
Settled(T, k, d) == Inside(T, k, d) /\ d > 0 /\ (T[k].t = ")" \/ AnItem(T, k))
AtItem(T, k, d) ==
  \/ Settled(T, k, d) /\ ~TokenIs(T, k + 1, "comma")
  \/ Inside(T, k, d) /\ d > 0 /\ T[k].t \in {"(", "comma"} /\ Fits(T, k)
AtLibrary(T, k, d) == Inside(T, k, d) /\ d > 0 /\ T[k].t = "-"
AtFormat(T, k, d) ==
  /\ WellFormed(T) /\ k > 0 /\ d = 0 /\ Depth(T, k) = 0
  /\ T[k].t = "name" /\ T[k].name \in FormatCommands
AtSkip(T, k, d) ==
  WellFormed(T) /\ k > 0 /\ d = 0 /\ Depth(T, k) = 1 /\ InForce(T, k + 1) \in FormatCommands

AtMode(T, k, mode, d) ==
  CASE mode = "command" -> AtCommand(T, k, d)
    [] mode = "list" -> AtList(T, k, d)
    [] mode = "item" -> AtItem(T, k, d)
    [] mode = "library" -> AtLibrary(T, k, d)
    [] mode = "format" -> AtFormat(T, k, d)
    [] OTHER -> AtSkip(T, k, d)

LEMMA RemainsSteps ==
  ASSUME NEW T, Tokens(T), NEW k, NEW s, Remains(T, k, s)
  PROVE  /\ s = <<>> <=> k = Len(T)
         /\ s # <<>> => k + 1 \in 1 .. Len(T) /\ Head(s) = T[k + 1] /\ Remains(T, k + 1, Tail(s))
<1>1. Len(T) \in Nat /\ Len(s) = Len(T) - k /\ s \in Seq(Range(T)) /\ k \in 0 .. Len(T)
  BY TokenAt DEF Remains
<1>2. s = <<>> <=> k = Len(T)
  BY <1>1, EmptySeq
<1>3. ASSUME s # <<>> PROVE k + 1 \in 1 .. Len(T) /\ Head(s) = T[k + 1] /\ Remains(T, k + 1, Tail(s))
  <2>1. k + 1 \in 1 .. Len(T) /\ 1 \in 1 .. Len(T) - k /\ Len(T) - k - 1 = Len(T) - (k + 1)
    BY <1>1, <1>2, <1>3
  <2>2. Head(s) = s[1] /\ Tail(s) \in Seq(Range(T)) /\ Len(Tail(s)) = Len(s) - 1
        /\ \A j \in 1 .. Len(s) - 1 : Tail(s)[j] = s[j + 1]
    BY <1>1, <1>3, HeadTailProperties
  <2>3. ASSUME NEW j \in 1 .. Len(T) - (k + 1) PROVE Tail(s)[j] = T[k + 1 + j]
    <3>1. j + 1 \in 1 .. Len(T) - k /\ k + (j + 1) = k + 1 + j /\ j \in 1 .. Len(s) - 1
      BY <1>1
    <3>2. s[j + 1] = T[k + (j + 1)]
      BY <3>1 DEF Remains
    <3> QED
      BY <2>2, <3>1, <3>2
  <2> QED
    BY <1>1, <2>1, <2>2, <2>3 DEF Remains
<1> QED
  BY <1>2, <1>3

\* One more token is read.
LEMMA ReadOne ==
  ASSUME NEW T, Tokens(T), NEW k, NEW ls, Read(T, k, ls), k + 1 \in 1 .. Len(T),
         k > 0 => Fits(T, k), Depth(T, k + 1) >= 0, Addable(T, k + 1)
  PROVE  Read(T, k + 1, IF IsItem(T, k + 1) THEN Append(ls, ItemOf(T, k + 1)) ELSE ls)
<1> DEFINE next == IF IsItem(T, k + 1) THEN Append(ls, ItemOf(T, k + 1)) ELSE ls
<1>1. k \in Nat /\ k + 1 \in 0 .. Len(T) /\ k + 1 - 1 = k
  BY TokenAt DEF Read
<1>2. next = Items(T, k + 1)
  <2> DEFINE m == k + 1
  <2>1. m \in 1 .. Len(T) /\ m - 1 = k
    BY <1>1
  <2>2. ls = Items(T, k) /\ next = IF IsItem(T, m) THEN Append(ls, ItemOf(T, m)) ELSE ls
    BY DEF Read
  <2> HIDE DEF m, next
  <2>3. Items(T, m) = IF IsItem(T, m) THEN Append(Items(T, m - 1), ItemOf(T, m)) ELSE Items(T, m - 1)
    BY <2>1, ItemsSteps
  <2>4. next = Items(T, m)
    BY <2>1, <2>2, <2>3
  <2> QED
    BY <2>4 DEF m
<1> HIDE DEF next
<1>3. ASSUME NEW j \in 1 .. k + 1 PROVE Depth(T, j) >= 0 /\ Addable(T, j)
  <2>1. j = k + 1 \/ j \in 1 .. k
    BY <1>1
  <2> QED
    BY <2>1 DEF Read
<1>4. ASSUME NEW j \in 1 .. k PROVE Fits(T, j)
  <2>1. j \in 1 .. k - 1 \/ (j = k /\ k > 0)
    BY <1>1
  <2> QED
    BY <2>1 DEF Read
<1>5. Read(T, k + 1, next)
  BY <1>1, <1>2, <1>3, <1>4 DEF Read
<1> QED
  BY <1>5 DEF next

\* What a token does to the depth and to the command in force.
TokenStep(T, k) ==
  /\ DepthStep(T, k)
  /\ T[k + 1].t = "name" /\ Depth(T, k + 1) = 0 => InForce(T, k + 2) = T[k + 1].name
  /\ T[k + 1].t # "name" \/ Depth(T, k + 1) # 0 => InForce(T, k + 2) = InForce(T, k + 1)

LEMMA TokenSteps ==
  ASSUME NEW T, NEW k \in Nat
  PROVE  TokenStep(T, k)
<1>1. DepthStep(T, k)
  BY DepthSteps
<1>3. InForce(T, k + 2) =
        IF T[k + 1].t = "name" /\ Depth(T, k + 1) = 0 THEN T[k + 1].name ELSE InForce(T, k + 1)
  <2> DEFINE m == k + 1
  <2>1. m \in Nat \ {0} /\ m + 1 = k + 2
    OBVIOUS
  <2> HIDE DEF m
  <2>2. InForce(T, m + 1) = IF T[m].t = "name" /\ Depth(T, m) = 0 THEN T[m].name ELSE InForce(T, m)
    BY <2>1, ForceStep
  <2> QED
    BY <2>1, <2>2 DEF m
<1> QED
  BY <1>1, <1>3 DEF TokenStep

\* Which of the next tokens is there.
LEMMA NextIs ==
  ASSUME NEW T, Tokens(T), NEW k \in Nat, k + 1 \in 1 .. Len(T)
  PROVE  /\ k + 1 \in DOMAIN T /\ IsToken(T[k + 1])
         /\ \A c : TokenIs(T, k + 1, c) <=> T[k + 1].t = c
         /\ k > 0 => \A c : TokenIs(T, k, c) <=> T[k].t = c
BY TokenAt DEF TokenIs

\* Inside a list the token fits that fits in a list.
LEMMA InsideIs ==
  ASSUME NEW T, NEW k \in Nat, NEW d, Inside(T, k, d), d > 0
  PROVE  Listed(T, k) /\ InForce(T, k + 1) = InForce(T, k) /\ Depth(T, k) = d /\ Depth(T, k) > 0
<1>1. k - 1 \in Nat /\ k - 1 + 1 = k /\ k - 1 + 2 = k + 1 /\ Depth(T, k) > 0 /\ Depth(T, k) # 0
  BY DEF Inside
<1>2. InForce(T, k + 1) = InForce(T, k)
  BY <1>1, ForceStep
<1> QED
  BY <1>1, <1>2 DEF Listed, Inside

\* Punctuation fits behind a name or a closed list.
LEMMA PunctuationFits ==
  ASSUME NEW T, NEW k \in Nat, Listed(T, k + 1),
         \/ TokenIs(T, k + 1, "(") /\ TokenIs(T, k, "name")
         \/ TokenIs(T, k + 1, "comma") /\ (TokenIs(T, k, "name") \/ TokenIs(T, k, ")"))
  PROVE  Fits(T, k + 1)
<1> DEFINE m == k + 1
           below == m - 1
<1>1. below = k
  BY SMT
<1>2. Listed(T, m) /\ \/ TokenIs(T, m, "(") /\ TokenIs(T, below, "name")
                      \/ TokenIs(T, m, "comma") /\ (TokenIs(T, below, "name") \/ TokenIs(T, below, ")"))
  BY <1>1
<1> HIDE DEF m
<1>3. Fits(T, m)
  BY <1>2 DEF Fits
<1> QED
  BY <1>3 DEF m

\* Behind a list of commands.
LEMMA CommandSteps ==
  ASSUME NEW T, Tokens(T), NEW k, NEW ls, Read(T, k, ls), AtCommand(T, k, 0)
  PROVE  /\ k > 0 => Fits(T, k)
         /\ k = Len(T) => WellFormed(T) /\ AllThere(T) /\ ls = ItemsOf(T)
         /\ NameIs(T, k + 1, ListCommands) => AtList(T, k + 1, 0) /\ Read(T, k + 1, ls)
         /\ NameIs(T, k + 1, FormatCommands) /\ WellFormed(T) => AtFormat(T, k + 1, 0) /\ Read(T, k + 1, ls)
         /\ k + 1 \in 1 .. Len(T) /\ ~NameIs(T, k + 1, ListCommands \cup FormatCommands) => ~WellFormed(T)
<1>1. k \in Nat /\ k \in 0 .. Len(T) /\ Len(T) \in Nat /\ DOMAIN T = 1 .. Len(T) /\ Depth(T, k) = 0
  BY TokenAt DEF Read, AtCommand
<1>8. TokenStep(T, k)
  BY <1>1, TokenSteps
<1>2. ASSUME k > 0 PROVE Fits(T, k)
  <2>1. TokenIs(T, k, ")")
    BY <1>1, <1>2 DEF AtCommand, TokenIs
  <2> QED
    BY <1>1, <2>1 DEF Fits
<1>3. ASSUME k = Len(T) PROVE WellFormed(T) /\ AllThere(T) /\ ls = ItemsOf(T)
  <2>1. ASSUME NEW j \in 1 .. k PROVE Fits(T, j) /\ Depth(T, j) >= 0 /\ Addable(T, j)
    <3>1. j \in 1 .. k - 1 \/ (j = k /\ k > 0)
      BY <1>1
    <3> QED
      BY <1>2, <3>1 DEF Read
  <2>2. WellFormed(T)
    BY <1>1, <1>3, <2>1 DEF WellFormed, AtCommand
  <2>3. AllThere(T)
    BY <1>1, <1>3, <2>1 DEF AllThere, Addable
  <2> QED
    BY <1>3, <2>2, <2>3, ItemsSteps DEF Read
<1>4. ASSUME k + 1 \in 1 .. Len(T), T[k + 1].t = "name"
      PROVE  Depth(T, k + 1) = 0 /\ InForce(T, k + 2) = T[k + 1].name /\ Read(T, k + 1, ls)
  <2>1. Depth(T, k + 1) = 0
    BY <1>1, <1>4, <1>8 DEF TokenStep, DepthStep
  <2>2. InForce(T, k + 2) = T[k + 1].name
    BY <1>4, <1>8, <2>1 DEF TokenStep
  <2>3. ~IsItem(T, k + 1) /\ Addable(T, k + 1)
    BY <2>1 DEF IsItem, Listed, Addable
  <2> QED
    BY <1>2, <1>4, <2>1, <2>2, <2>3, ReadOne
<1>5. ASSUME NameIs(T, k + 1, ListCommands) PROVE AtList(T, k + 1, 0) /\ Read(T, k + 1, ls)
  <2>1. k + 1 \in 1 .. Len(T) /\ T[k + 1].t = "name" /\ T[k + 1].name \in ListCommands
    BY <1>1, <1>5 DEF NameIs, TokenIs
  <2>2. k + 1 > 0 /\ k + 1 + 1 = k + 2
    BY <1>1
  <2> QED
    BY <1>4, <2>1, <2>2 DEF AtList, Inside
<1>6. ASSUME NameIs(T, k + 1, FormatCommands), WellFormed(T)
      PROVE  AtFormat(T, k + 1, 0) /\ Read(T, k + 1, ls)
  <2>1. k + 1 \in 1 .. Len(T) /\ T[k + 1].t = "name" /\ T[k + 1].name \in FormatCommands
    BY <1>1, <1>6 DEF NameIs, TokenIs
  <2>2. k + 1 > 0
    BY <1>1
  <2> QED
    BY <1>4, <1>6, <2>1, <2>2 DEF AtFormat
<1>7. ASSUME k + 1 \in 1 .. Len(T), ~NameIs(T, k + 1, ListCommands \cup FormatCommands), WellFormed(T)
      PROVE  FALSE
  <2>1. Fits(T, k + 1) /\ Depth(T, k + 1) >= 0 /\ k + 1 - 1 = k
    BY <1>1, <1>7 DEF WellFormed
  <2>2. T[k + 1].t # ")"
    BY <1>1, <1>8, <2>1 DEF TokenStep, DepthStep
  <2>3. ~TokenIs(T, k, "name")
    BY <1>1 DEF AtCommand, TokenIs
  <2>4. CASE T[k + 1].t = "("
    <3>1. Depth(T, k + 1) = 1
      BY <1>1, <1>8, <2>4 DEF TokenStep, DepthStep
    <3> QED
      BY <1>1, <1>7, <2>1, <2>3, <2>4, <3>1 DEF Fits, TokenIs
  <2>5. CASE T[k + 1].t # "("
    <3>1. Depth(T, k + 1) = 0
      BY <1>1, <1>8, <2>2, <2>5 DEF TokenStep, DepthStep
    <3>2. ~Listed(T, k + 1) /\ ~TokenIs(T, k + 1, ")")
      BY <2>2, <3>1 DEF TokenIs, Listed
    <3>3. Fits(T, k + 1) /\ Depth(T, k + 1) # 1 /\ ~NameIs(T, k + 1, ListCommands \cup FormatCommands)
      BY <1>7, <2>1, <3>1
    <3> QED
      BY <3>2, <3>3 DEF Fits
  <2> QED
    BY <2>4, <2>5
<1> QED
  BY <1>2, <1>3, <1>5, <1>6, <1>7

\* Behind the name of a list: the list is opened.
LEMMA ListSteps ==
  ASSUME NEW T, Tokens(T), NEW k, NEW ls, NEW d, Read(T, k, ls), AtList(T, k, d)
  PROVE  /\ TokenIs(T, k + 1, "(") => AtItem(T, k + 1, d + 1) /\ Read(T, k + 1, ls)
         /\ ~TokenIs(T, k + 1, "(") => ~WellFormed(T)
<1>1. /\ k \in Nat /\ k \in 1 .. Len(T) /\ Len(T) \in Nat /\ DOMAIN T = 1 .. Len(T)
      /\ Inside(T, k, d) /\ d \in Nat /\ Depth(T, k) = d /\ k + 1 > 0
  BY TokenAt DEF Read, AtList, Inside
<1>2. TokenIs(T, k, "name") /\ T[k].t = "name"
  BY <1>1 DEF AtList, TokenIs
<1>3. d > 0 => T[k].name = "AS_NEEDED" /\ ~TokenIs(T, k - 1, "-") /\ Listed(T, k)
  BY <1>1, InsideIs DEF AtList
<1>4. InForce(T, k + 1) \in ListCommands /\ (d = 0 => T[k].name \in ListCommands)
  <2>1. k - 1 \in Nat /\ k - 1 + 1 = k /\ k - 1 + 2 = k + 1
    BY <1>1
  <2>2. d = 0 => InForce(T, k + 1) = T[k].name
    BY <1>1, <1>2, ForceStep
  <2> QED
    BY <1>1, <2>2 DEF Inside
<1>5. TokenStep(T, k)
  BY <1>1, TokenSteps
<1>6. ASSUME TokenIs(T, k + 1, "(") PROVE AtItem(T, k + 1, d + 1) /\ Read(T, k + 1, ls)
  <2>1. k + 1 \in 1 .. Len(T) /\ T[k + 1].t = "(" /\ k + 1 - 1 = k /\ k + 1 + 1 = k + 2
    BY <1>1, <1>6 DEF TokenIs
  <2>2. Depth(T, k + 1) = d + 1 /\ d + 1 > 0 /\ Depth(T, k + 1) >= 0 /\ Depth(T, k + 1) > 0 /\ d + 1 \in Nat
    BY <1>1, <1>5, <2>1 DEF TokenStep, DepthStep
  <2>3. InForce(T, k + 2) = InForce(T, k + 1)
    BY <1>5, <2>1 DEF TokenStep
  <2>4. Fits(T, k)
    <3>1. CASE d = 0
      <4>1. NameIs(T, k, ListCommands \cup FormatCommands)
        BY <1>2, <1>4, <3>1 DEF NameIs
      <4> QED
        BY <1>1, <1>6, <3>1, <4>1 DEF Fits
    <3>2. CASE d > 0
      BY <1>2, <1>3, <1>6, <3>2 DEF Fits
    <3> QED
      BY <1>1, <3>1, <3>2
  <2>5. Inside(T, k + 1, d + 1)
    BY <1>1, <1>4, <2>1, <2>2, <2>3 DEF Inside
  <2>6. Listed(T, k + 1)
    BY <1>4, <2>2 DEF Listed
  <2>7. Fits(T, k + 1)
    <3>1. TokenIs(T, k, "name")
      BY <1>2
    <3> QED
      BY <1>1, <1>6, <2>6, <3>1, PunctuationFits
  <2>8. ~IsItem(T, k + 1) /\ Addable(T, k + 1)
    BY <2>1 DEF IsItem, Addable
  <2>9. Read(T, k + 1, ls)
    BY <2>1, <2>2, <2>4, <2>8, ReadOne
  <2> QED
    BY <2>1, <2>2, <2>5, <2>7, <2>9 DEF AtItem
<1>7. ASSUME ~TokenIs(T, k + 1, "("), WellFormed(T) PROVE FALSE
  <2>1. Fits(T, k) /\ IsToken(T[k])
    BY <1>1, <1>7, TokenAt DEF WellFormed
  <2>2. ~TokenIs(T, k, ")") /\ ~TokenIs(T, k, "(") /\ ~TokenIs(T, k, "-") /\ ~TokenIs(T, k, "comma")
    BY <1>2 DEF TokenIs
  <2>3. CASE d = 0
    <3>1. Depth(T, k) = 0 /\ Depth(T, k) # 1 /\ ~Listed(T, k)
      BY <1>1, <2>3 DEF Listed
    <3> QED
      BY <1>7, <2>1, <2>2, <3>1 DEF Fits
  <2>4. CASE d > 0
    <3>1. Depth(T, k) # 0 /\ InForce(T, k) \in ListCommands /\ T[k].name = "AS_NEEDED" /\ ~TokenIs(T, k - 1, "-")
      BY <1>1, <1>3, <2>4 DEF Listed
    <3>2. InForce(T, k) \notin FormatCommands
      BY <3>1 DEF ListCommands, FormatCommands
    <3> QED
      BY <1>7, <2>1, <2>2, <3>1, <3>2 DEF Fits
  <2> QED
    BY <1>1, <2>3, <2>4
<1> QED
  BY <1>6, <1>7

\* A comma that follows an item is skipped with it.
LEMMA CommaStep ==
  ASSUME NEW T, Tokens(T), NEW k, NEW ls, NEW d, Read(T, k, ls), Settled(T, k, d)
  PROVE  /\ TokenIs(T, k + 1, "comma") => AtItem(T, k + 1, d) /\ Read(T, k + 1, ls)
         /\ ~TokenIs(T, k + 1, "comma") => AtItem(T, k, d)
<1> SUFFICES ASSUME TokenIs(T, k + 1, "comma") PROVE AtItem(T, k + 1, d) /\ Read(T, k + 1, ls)
  BY DEF AtItem
<1>1. /\ k \in Nat /\ k \in 1 .. Len(T) /\ Len(T) \in Nat /\ DOMAIN T = 1 .. Len(T)
      /\ Inside(T, k, d) /\ d \in Nat /\ d > 0 /\ Depth(T, k) = d /\ k + 1 > 0
  <2>1. k \in 0 .. Len(T) /\ Inside(T, k, d) /\ d > 0
    BY DEF Read, Settled
  <2>2. k > 0 /\ d \in Nat /\ Depth(T, k) = d
    BY <2>1 DEF Inside
  <2> QED
    BY <2>1, <2>2, TokenAt
<1>2. k + 1 \in 1 .. Len(T) /\ T[k + 1].t = "comma" /\ k + 1 - 1 = k /\ k + 1 + 1 = k + 2
  <2>1. TokenIs(T, k + 1, "comma")
    OBVIOUS
  <2> QED
    BY <1>1, <2>1 DEF TokenIs
<1>3. Listed(T, k) /\ InForce(T, k + 1) \in ListCommands
  BY <1>1, InsideIs DEF Inside
<1>4. TokenStep(T, k)
  BY <1>1, TokenSteps
<1>5. Depth(T, k + 1) = d /\ InForce(T, k + 2) = InForce(T, k + 1)
  BY <1>1, <1>2, <1>4 DEF TokenStep, DepthStep
<1>6. Inside(T, k + 1, d) /\ Depth(T, k + 1) >= 0 /\ Listed(T, k + 1)
  <2>1. Depth(T, k + 1) = d /\ d \in Nat /\ d > 0 /\ InForce(T, k + 1) \in ListCommands /\ k + 1 > 0
    BY <1>1, <1>3, <1>5
  <2>2. InForce(T, k + 1 + 1) \in ListCommands
    BY <1>2, <1>3, <1>5
  <2> QED
    BY <2>1, <2>2 DEF Inside, Listed
<1>7. ~TokenIs(T, k + 1, "(") /\ (TokenIs(T, k, "name") \/ TokenIs(T, k, ")"))
  BY <1>1, <1>2 DEF TokenIs, Settled, AnItem
<1>8. Fits(T, k)
  <2>1. CASE T[k].t = ")"
    <3>1. TokenIs(T, k, ")")
      BY <1>1, <2>1 DEF TokenIs
    <3> QED
      BY <1>3, <3>1 DEF Fits
  <2>2. CASE AnItem(T, k)
    <3>1. TokenIs(T, k, "name")
      BY <1>1, <2>2 DEF TokenIs, AnItem
    <3> QED
      BY <1>3, <1>7, <2>2, <3>1 DEF Fits, AnItem
  <2> QED
    BY <2>1, <2>2 DEF Settled
<1>9. Fits(T, k + 1)
  <2>1. TokenIs(T, k + 1, "comma")
    OBVIOUS
  <2> QED
    BY <1>1, <1>6, <1>7, <2>1, PunctuationFits
<1>10. ~IsItem(T, k + 1) /\ Addable(T, k + 1)
  BY <1>2 DEF IsItem, Addable
<1>11. Read(T, k + 1, ls)
  BY <1>2, <1>6, <1>8, <1>10, ReadOne
<1> QED
  BY <1>1, <1>2, <1>6, <1>9, <1>11 DEF AtItem

\* Inside a list a token other than a parenthesis changes nothing.
InsideStep(T, k, d) ==
  /\ T[k + 1].t \notin {"(", ")"} =>
       /\ Depth(T, k + 1) >= 0 /\ Depth(T, k + 1) = d
       /\ Inside(T, k + 1, d) /\ Listed(T, k + 1)
  /\ T[k + 1].t = ")" =>
       /\ Depth(T, k + 1) >= 0 /\ Depth(T, k + 1) = d - 1
       /\ d # 1 => d - 1 > 0 /\ Inside(T, k + 1, d - 1)

LEMMA InsideSteps ==
  ASSUME NEW T, NEW k \in Nat, NEW d, Inside(T, k, d), d > 0
  PROVE  InsideStep(T, k, d)
<1>1. /\ d \in Nat /\ d > 0 /\ k + 1 > 0 /\ k + 1 + 1 = k + 2
      /\ Depth(T, k) = d /\ InForce(T, k + 1) \in ListCommands
  BY DEF Inside
<1>2. TokenStep(T, k)
  BY TokenSteps
<1>3. ASSUME T[k + 1].t \notin {"(", ")"}
      PROVE  /\ Depth(T, k + 1) >= 0 /\ Depth(T, k + 1) = d
             /\ Inside(T, k + 1, d) /\ Listed(T, k + 1)
  <2>1. Depth(T, k + 1) = d /\ Depth(T, k + 1) # 0 /\ Depth(T, k + 1) > 0 /\ Depth(T, k + 1) >= 0
    BY <1>1, <1>2, <1>3 DEF TokenStep, DepthStep
  <2>2. InForce(T, k + 2) = InForce(T, k + 1)
    BY <1>2, <2>1 DEF TokenStep
  <2> QED
    BY <1>1, <2>1, <2>2 DEF Inside, Listed
<1>4. ASSUME T[k + 1].t = ")"
      PROVE  /\ Depth(T, k + 1) >= 0 /\ Depth(T, k + 1) = d - 1
             /\ d # 1 => d - 1 > 0 /\ Inside(T, k + 1, d - 1)
  <2>1. Depth(T, k + 1) = d - 1 /\ d - 1 \in Nat /\ Depth(T, k + 1) >= 0 /\ (d # 1 => d - 1 > 0)
    BY <1>1, <1>2, <1>4 DEF TokenStep, DepthStep
  <2>2. InForce(T, k + 2) = InForce(T, k + 1)
    BY <1>2, <1>4 DEF TokenStep
  <2> QED
    BY <1>1, <2>1, <2>2 DEF Inside
<1> QED
  BY <1>3, <1>4 DEF InsideStep

\* Where an item is expected, what has been read fits unless a list is opened.
LEMMA AtItemIs ==
  ASSUME NEW T, Tokens(T), NEW k, NEW ls, NEW d, Read(T, k, ls), AtItem(T, k, d)
  PROVE  /\ k \in 1 .. Len(T) /\ Inside(T, k, d) /\ d > 0 /\ d \in Nat /\ ~TokenIs(T, k, "-")
         /\ ~TokenIs(T, k + 1, "(") => Fits(T, k)
         /\ TokenIs(T, k, "name") => T[k].name # "AS_NEEDED"
<1>1. Inside(T, k, d) /\ d > 0 /\ k \in 0 .. Len(T)
  BY DEF AtItem, Settled, Read
<1>2. k > 0 /\ d \in Nat
  BY <1>1 DEF Inside
<1>3. k \in 1 .. Len(T) /\ k \in Nat /\ DOMAIN T = 1 .. Len(T)
  BY <1>1, <1>2, TokenAt
<1>4. Listed(T, k)
  BY <1>1, <1>3, InsideIs
<1>5. T[k].t = ")" \/ AnItem(T, k) \/ (T[k].t \in {"(", "comma"} /\ Fits(T, k))
  BY DEF AtItem, Settled
<1>6. ASSUME ~TokenIs(T, k + 1, "(") PROVE Fits(T, k)
  <2>1. CASE T[k].t = ")"
    <3>1. TokenIs(T, k, ")")
      BY <1>3, <2>1 DEF TokenIs
    <3> QED
      BY <1>4, <3>1 DEF Fits
  <2>2. CASE AnItem(T, k)
    <3>1. TokenIs(T, k, "name")
      BY <1>3, <2>2 DEF TokenIs, AnItem
    <3> QED
      BY <1>4, <1>6, <2>2, <3>1 DEF Fits, AnItem
  <2> QED
    BY <1>5, <2>1, <2>2
<1>7. ~TokenIs(T, k, "-") /\ (TokenIs(T, k, "name") => T[k].name # "AS_NEEDED")
  BY <1>5 DEF TokenIs, AnItem
<1> QED
  BY <1>1, <1>2, <1>3, <1>6, <1>7

\* What fits in a list of files.
LEMMA NameListed ==
  ASSUME NEW T, NEW k, Listed(T, k), Fits(T, k), TokenIs(T, k, "name")
  PROVE  TokenIs(T, k + 1, "(") => T[k].name = "AS_NEEDED"
<1>1. Depth(T, k) # 0 /\ InForce(T, k) \notin FormatCommands
  BY DEF Listed, ListCommands, FormatCommands
<1>2. ~TokenIs(T, k, ")") /\ ~TokenIs(T, k, "(") /\ ~TokenIs(T, k, "-") /\ ~TokenIs(T, k, "comma")
  BY DEF TokenIs
<1> QED
  BY <1>1, <1>2 DEF Fits

LEMMA ListedIs ==
  ASSUME NEW T, NEW k \in Nat, Listed(T, k + 1), Fits(T, k + 1)
  PROVE  /\ TokenIs(T, k + 1, "(") => TokenIs(T, k, "name")
         /\ TokenIs(T, k + 1, "comma") => TokenIs(T, k, "name") \/ TokenIs(T, k, ")")
         /\ ~TokenIs(T, k + 1, "other")
<1> DEFINE m == k + 1
           below == m - 1
<1>1. below = k /\ Listed(T, m) /\ Fits(T, m)
  OBVIOUS
<1> HIDE DEF m
<1>2. Depth(T, m) # 0 /\ InForce(T, m) \notin FormatCommands
  BY <1>1 DEF Listed, ListCommands, FormatCommands
<1>3. \/ TokenIs(T, m, "name")
      \/ TokenIs(T, m, "(") /\ TokenIs(T, below, "name")
      \/ TokenIs(T, m, ")")
      \/ TokenIs(T, m, "-")
      \/ TokenIs(T, m, "comma") /\ (TokenIs(T, below, "name") \/ TokenIs(T, below, ")"))
  BY <1>1, <1>2 DEF Fits
<1>4. /\ TokenIs(T, m, "(") => TokenIs(T, k, "name")
      /\ TokenIs(T, m, "comma") => TokenIs(T, k, "name") \/ TokenIs(T, k, ")")
      /\ ~TokenIs(T, m, "other")
  BY <1>1, <1>3 DEF TokenIs
<1> QED
  BY <1>4 DEF m

\* What each token is where an item is expected.
ItemAdded(T, k, ls, d) ==
  Settled(T, k + 1, d) /\ Read(T, k + 1, Append(ls, ItemOf(T, k + 1)))

ItemStep(T, k, ls, d) ==
  /\ T[k + 1].t = ")" => Read(T, k + 1, ls)
  /\ T[k + 1].t = ")" /\ d = 1 => AtCommand(T, k + 1, 0)
  /\ T[k + 1].t = ")" /\ d # 1 => Settled(T, k + 1, d - 1)
  /\ T[k + 1].t = "-" => AtLibrary(T, k + 1, d) /\ Read(T, k + 1, ls)
  /\ NameIs(T, k + 1, {"AS_NEEDED"}) => AtList(T, k + 1, d) /\ Read(T, k + 1, ls)
  /\ T[k + 1].t = "name" /\ T[k + 1].name # "AS_NEEDED" =>
       /\ T[k + 1].path = <<>> => ItemAdded(T, k, ls, d) /\ ItemOf(T, k + 1) = LookUp(T[k + 1].name)
       /\ T[k + 1].path # <<>> =>
            /\ ItemOf(T, k + 1) = Absolute(T[k + 1].path)
            /\ CanAdd(T[k + 1].path) => ItemAdded(T, k, ls, d)
            /\ ~CanAdd(T[k + 1].path) => ~AllThere(T)
  /\ T[k + 1].t \in {"(", "comma", "other"} => ~WellFormed(T)

LEMMA ItemSteps ==
  ASSUME NEW T, Tokens(T), NEW k, NEW ls, NEW d, Read(T, k, ls), AtItem(T, k, d)
  PROVE  /\ k = Len(T) => ~WellFormed(T)
         /\ k + 1 \in 1 .. Len(T) => ItemStep(T, k, ls, d)
<1>1. /\ k \in 1 .. Len(T) /\ k \in Nat /\ Len(T) \in Nat /\ DOMAIN T = 1 .. Len(T)
      /\ Inside(T, k, d) /\ d > 0 /\ d \in Nat /\ ~TokenIs(T, k, "-") /\ Depth(T, k) = d
  BY AtItemIs, TokenAt DEF Inside
<1>2. k = Len(T) => ~WellFormed(T)
  BY <1>1 DEF WellFormed
<1> SUFFICES ASSUME k + 1 \in 1 .. Len(T) PROVE ItemStep(T, k, ls, d)
  BY <1>2
<1>3. k > 0 /\ k + 1 > 0 /\ k + 1 - 1 = k /\ k + 1 \in DOMAIN T
  BY <1>1
<1>4. \A c : TokenIs(T, k + 1, c) <=> T[k + 1].t = c
  BY <1>1, NextIs
<1>5. InsideStep(T, k, d)
  BY <1>1, InsideSteps
<1>6. T[k + 1].t # "(" => Fits(T, k)
  BY <1>4, AtItemIs
<1>7. ASSUME T[k + 1].t = ")"
      PROVE  /\ Read(T, k + 1, ls)
             /\ d = 1 => AtCommand(T, k + 1, 0)
             /\ d # 1 => Settled(T, k + 1, d - 1)
  <2>1. Depth(T, k + 1) >= 0 /\ Depth(T, k + 1) = d - 1 /\ (d # 1 => d - 1 > 0 /\ Inside(T, k + 1, d - 1))
    BY <1>5, <1>7 DEF InsideStep
  <2>2. ~IsItem(T, k + 1) /\ Addable(T, k + 1)
    BY <1>7 DEF IsItem, Addable
  <2>3. Read(T, k + 1, ls)
    BY <1>6, <1>7, <2>1, <2>2, ReadOne
  <2>4. d = 1 => Depth(T, k + 1) = 0
    BY <2>1
  <2> QED
    BY <1>7, <2>1, <2>3, <2>4 DEF AtCommand, Settled
<1>8. ASSUME T[k + 1].t \notin {"(", ")"}
      PROVE  /\ Fits(T, k) /\ Depth(T, k + 1) >= 0 /\ Depth(T, k + 1) = d
             /\ Inside(T, k + 1, d) /\ Listed(T, k + 1)
  BY <1>5, <1>6, <1>8 DEF InsideStep
<1>9. ASSUME T[k + 1].t = "-" PROVE AtLibrary(T, k + 1, d) /\ Read(T, k + 1, ls)
  <2>1. ~IsItem(T, k + 1) /\ Addable(T, k + 1) /\ T[k + 1].t \notin {"(", ")"}
    BY <1>9 DEF IsItem, Addable
  <2>2. Read(T, k + 1, ls)
    BY <1>8, <2>1, ReadOne
  <2> QED
    BY <1>1, <1>8, <1>9, <2>1, <2>2 DEF AtLibrary
<1>10. ASSUME NameIs(T, k + 1, {"AS_NEEDED"}) PROVE AtList(T, k + 1, d) /\ Read(T, k + 1, ls)
  <2>1. T[k + 1].t = "name" /\ T[k + 1].name = "AS_NEEDED"
    BY <1>10 DEF NameIs, TokenIs
  <2>2. ~IsItem(T, k + 1) /\ Addable(T, k + 1) /\ T[k + 1].t \notin {"(", ")"}
    BY <2>1 DEF IsItem, Addable
  <2>3. Read(T, k + 1, ls)
    BY <1>8, <2>2, ReadOne
  <2> QED
    BY <1>1, <1>3, <1>8, <2>1, <2>2, <2>3 DEF AtList
<1>11. ASSUME T[k + 1].t = "name", T[k + 1].name # "AS_NEEDED"
       PROVE  /\ T[k + 1].path = <<>> => ItemAdded(T, k, ls, d) /\ ItemOf(T, k + 1) = LookUp(T[k + 1].name)
              /\ T[k + 1].path # <<>> =>
                   /\ ItemOf(T, k + 1) = Absolute(T[k + 1].path)
                   /\ CanAdd(T[k + 1].path) => ItemAdded(T, k, ls, d)
                   /\ ~CanAdd(T[k + 1].path) => ~AllThere(T)
  <2>1. T[k + 1].t \notin {"(", ")"}
    BY <1>11
  <2>2. IsItem(T, k + 1)
    BY <1>8, <1>11, <2>1 DEF IsItem
  <2>4. /\ T[k + 1].path = <<>> => ItemOf(T, k + 1) = LookUp(T[k + 1].name)
        /\ T[k + 1].path # <<>> => ItemOf(T, k + 1) = Absolute(T[k + 1].path)
    <3> DEFINE m == k + 1
               below == m - 1
    <3>1. below = k
      BY <1>1
    <3> HIDE DEF m
    <3>2. ~TokenIs(T, below, "-")
      BY <1>1, <3>1
    <3>3. /\ T[m].path = <<>> => ItemOf(T, m) = LookUp(T[m].name)
          /\ T[m].path # <<>> => ItemOf(T, m) = Absolute(T[m].path)
      BY <3>2 DEF ItemOf
    <3> QED
      BY <3>3 DEF m
  <2>5. AnItem(T, k + 1)
    <3> DEFINE m == k + 1
               below == m - 1
    <3>1. below = k /\ T[m].t = "name" /\ T[m].name # "AS_NEEDED"
      BY <1>1, <1>11
    <3> HIDE DEF m
    <3>2. ~TokenIs(T, below, "-")
      BY <1>1, <3>1
    <3>3. AnItem(T, m)
      BY <3>1, <3>2 DEF AnItem
    <3> QED
      BY <3>3 DEF m
  <2>6. Settled(T, k + 1, d)
    BY <1>1, <1>8, <2>1, <2>5 DEF Settled
  <2>7. ASSUME T[k + 1].path = <<>> \/ CanAdd(T[k + 1].path) PROVE ItemAdded(T, k, ls, d)
    <3>1. Addable(T, k + 1)
      BY <2>7 DEF Addable
    <3>2. Read(T, k + 1, Append(ls, ItemOf(T, k + 1)))
      BY <1>8, <2>1, <2>2, <3>1, ReadOne
    <3> QED
      BY <2>6, <3>2 DEF ItemAdded
  <2>8. ASSUME T[k + 1].path # <<>>, ~CanAdd(T[k + 1].path) PROVE ~AllThere(T)
    BY <1>3, <2>2, <2>8 DEF AllThere
  <2> QED
    BY <2>4, <2>7, <2>8
<1>12. ASSUME T[k + 1].t \in {"(", "comma", "other"}, WellFormed(T) PROVE FALSE
  <2>1. Fits(T, k) /\ Fits(T, k + 1)
    BY <1>1, <1>3, <1>12 DEF WellFormed
  <2>2. Listed(T, k) /\ InForce(T, k + 1) \in ListCommands
    BY <1>1, InsideIs DEF Inside
  <2>3. Depth(T, k + 1) > 0
    <3>1. TokenStep(T, k)
      BY <1>1, TokenSteps
    <3> QED
      BY <1>1, <1>12, <3>1 DEF TokenStep, DepthStep
  <2>4. Listed(T, k + 1)
    BY <2>2, <2>3 DEF Listed
  <2>5. \/ TokenIs(T, k + 1, "(") /\ TokenIs(T, k, "name")
        \/ TokenIs(T, k + 1, "comma") /\ (TokenIs(T, k, "name") \/ TokenIs(T, k, ")"))
    BY <1>1, <1>4, <1>12, <2>1, <2>4, ListedIs
  <2>6. TokenIs(T, k, "name") \/ TokenIs(T, k, ")")
    BY <2>5
  <2>7. Settled(T, k, d) /\ ~TokenIs(T, k + 1, "comma")
    BY <2>6 DEF AtItem, TokenIs
  <2>8. TokenIs(T, k, "name") /\ TokenIs(T, k + 1, "(")
    BY <2>5, <2>7
  <2>9. T[k].name # "AS_NEEDED"
    BY <2>8, AtItemIs
  <2> QED
    BY <2>1, <2>2, <2>8, <2>9, NameListed
<1> QED
  BY <1>7, <1>9, <1>10, <1>11, <1>12 DEF ItemStep

\* Behind a minus, where the name of a library is expected.
LibraryStep(T, k, ls, d) ==
  /\ T[k + 1].t = "name" /\ T[k + 1].lib # "" =>
       ItemAdded(T, k, ls, d) /\ ItemOf(T, k + 1) = LookUp(T[k + 1].lib)
  /\ (T[k + 1].t = "name" => T[k + 1].lib = "") => ~WellFormed(T)

LEMMA LibrarySteps ==
  ASSUME NEW T, Tokens(T), NEW k, NEW ls, NEW d, Read(T, k, ls), AtLibrary(T, k, d)
  PROVE  /\ k = Len(T) => ~WellFormed(T)
         /\ k + 1 \in 1 .. Len(T) => LibraryStep(T, k, ls, d)
<1>1. /\ k \in 1 .. Len(T) /\ k \in Nat /\ Len(T) \in Nat /\ DOMAIN T = 1 .. Len(T)
      /\ Inside(T, k, d) /\ d > 0 /\ d \in Nat /\ Depth(T, k) = d
  <2>1. Inside(T, k, d) /\ d > 0 /\ k \in 0 .. Len(T)
    BY DEF AtLibrary, Read
  <2>2. k > 0 /\ d \in Nat /\ Depth(T, k) = d
    BY <2>1 DEF Inside
  <2> QED
    BY <2>1, <2>2, TokenAt
<1>2. k = Len(T) => ~WellFormed(T)
  BY <1>1 DEF WellFormed
<1> SUFFICES ASSUME k + 1 \in 1 .. Len(T) PROVE LibraryStep(T, k, ls, d)
  BY <1>2
<1>3. Listed(T, k) /\ TokenIs(T, k, "-")
  BY <1>1, InsideIs DEF AtLibrary, TokenIs
<1>4. \A c : TokenIs(T, k + 1, c) <=> T[k + 1].t = c
  BY <1>1, NextIs
<1>5. ASSUME T[k + 1].t = "name", T[k + 1].lib # ""
      PROVE  ItemAdded(T, k, ls, d) /\ ItemOf(T, k + 1) = LookUp(T[k + 1].lib)
  <2>1. Fits(T, k)
    BY <1>3, <1>4, <1>5 DEF Fits
  <2>2. T[k + 1].path = <<>> /\ T[k + 1].name # "AS_NEEDED"
    <3>1. IsToken(T[k + 1])
      BY TokenAt
    <3> QED
      BY <1>5, <3>1 DEF IsToken
  <2>3. InsideStep(T, k, d)
    BY <1>1, InsideSteps
  <2>4. Depth(T, k + 1) >= 0 /\ Inside(T, k + 1, d) /\ Listed(T, k + 1)
    BY <1>5, <2>3 DEF InsideStep
  <2>5. IsItem(T, k + 1) /\ Addable(T, k + 1)
    BY <1>5, <2>2, <2>4 DEF IsItem, Addable
  <2>6. Read(T, k + 1, Append(ls, ItemOf(T, k + 1)))
    BY <1>1, <2>1, <2>4, <2>5, ReadOne
  <2>7. ItemOf(T, k + 1) = LookUp(T[k + 1].lib)
    <3> DEFINE m == k + 1
               below == m - 1
    <3>1. below = k /\ T[m].path = <<>>
      BY <1>1, <2>2
    <3> HIDE DEF m
    <3>2. TokenIs(T, below, "-")
      BY <1>3, <3>1
    <3>3. ItemOf(T, m) = LookUp(T[m].lib)
      BY <3>1, <3>2 DEF ItemOf
    <3> QED
      BY <3>3 DEF m
  <2>8. AnItem(T, k + 1)
    BY <1>5, <2>2 DEF AnItem
  <2>9. Settled(T, k + 1, d)
    BY <1>1, <2>4, <2>8 DEF Settled
  <2> QED
    BY <2>6, <2>7, <2>9 DEF ItemAdded
<1>6. ASSUME T[k + 1].t = "name" => T[k + 1].lib = "", WellFormed(T) PROVE FALSE
  <2>1. Fits(T, k)
    BY <1>1, <1>6 DEF WellFormed
  <2>2. Depth(T, k) # 0 /\ InForce(T, k) \notin FormatCommands
    BY <1>3 DEF Listed, ListCommands, FormatCommands
  <2>3. ~TokenIs(T, k, ")") /\ ~TokenIs(T, k, "(") /\ ~TokenIs(T, k, "name") /\ ~TokenIs(T, k, "comma")
    BY <1>3 DEF TokenIs
  <2>4. TokenIs(T, k + 1, "name") /\ T[k + 1].lib # ""
    BY <2>1, <2>2, <2>3 DEF Fits
  <2> QED
    BY <1>4, <1>6, <2>4
<1> QED
  BY <1>5, <1>6 DEF LibraryStep

\* Behind the name of a format, whose script is well-formed.
LEMMA FormatSteps ==
  ASSUME NEW T, Tokens(T), NEW k, NEW ls, Read(T, k, ls), AtFormat(T, k, 0)
  PROVE  TokenIs(T, k + 1, "(") /\ AtSkip(T, k + 1, 0) /\ Read(T, k + 1, ls)
<1>1. /\ k \in 1 .. Len(T) /\ k \in Nat /\ Len(T) \in Nat /\ DOMAIN T = 1 .. Len(T) /\ WellFormed(T)
      /\ Depth(T, k) = 0 /\ T[k].t = "name" /\ T[k].name \in FormatCommands
  <2>1. k \in 0 .. Len(T) /\ k > 0
    BY DEF AtFormat, Read
  <2> QED
    BY <2>1, TokenAt DEF AtFormat
<1>2. Fits(T, k)
  BY <1>1 DEF WellFormed
<1>3. TokenIs(T, k + 1, "(")
  <2>1. Depth(T, k) # 1 /\ ~Listed(T, k) /\ ~TokenIs(T, k, ")")
    BY <1>1 DEF Listed, TokenIs
  <2> QED
    BY <1>2, <2>1 DEF Fits
<1>4. k + 1 \in 1 .. Len(T) /\ T[k + 1].t = "(" /\ k + 1 + 1 = k + 2 /\ k + 1 > 0
  BY <1>1, <1>3 DEF TokenIs
<1>5. TokenStep(T, k)
  BY <1>1, TokenSteps
<1>6. Depth(T, k + 1) = 1 /\ Depth(T, k + 1) >= 0
  BY <1>1, <1>4, <1>5 DEF TokenStep, DepthStep
<1>7. InForce(T, k + 1) \in FormatCommands
  BY <1>1, ForceStep
<1>8. InForce(T, k + 1 + 1) \in FormatCommands
  BY <1>4, <1>5, <1>7 DEF TokenStep
<1>9. ~IsItem(T, k + 1) /\ Addable(T, k + 1)
  BY <1>4 DEF IsItem, Addable
<1>10. Read(T, k + 1, ls)
  BY <1>2, <1>4, <1>6, <1>9, ReadOne
<1> QED
  BY <1>1, <1>3, <1>4, <1>6, <1>8, <1>10 DEF AtSkip

\* Inside the list of a format.
LEMMA SkipSteps ==
  ASSUME NEW T, Tokens(T), NEW k, NEW ls, Read(T, k, ls), AtSkip(T, k, 0)
  PROVE  /\ k + 1 \in 1 .. Len(T) /\ Read(T, k + 1, ls)
         /\ T[k + 1].t = ")" => AtCommand(T, k + 1, 0)
         /\ T[k + 1].t # ")" => AtSkip(T, k + 1, 0)
<1>1. /\ k \in 1 .. Len(T) /\ k \in Nat /\ Len(T) \in Nat /\ DOMAIN T = 1 .. Len(T) /\ WellFormed(T)
      /\ Depth(T, k) = 1 /\ InForce(T, k + 1) \in FormatCommands
  <2>1. k \in 0 .. Len(T) /\ k > 0
    BY DEF AtSkip, Read
  <2> QED
    BY <2>1, TokenAt DEF AtSkip
<1>2. k # Len(T)
  <2>1. Depth(T, Len(T)) = 0
    BY <1>1 DEF WellFormed
  <2>2. Depth(T, k) # 0
    <3>1. Depth(T, k) = 1
      BY <1>1
    <3> QED
      BY ONLY <3>1
  <2> QED
    BY <2>1, <2>2
<1>3. k + 1 \in 1 .. Len(T) /\ k + 1 + 1 = k + 2 /\ k + 1 > 0
  <2>1. k \in 1 .. Len(T) /\ Len(T) \in Nat
    BY <1>1
  <2> QED
    BY <1>2, <2>1
<1>4. Fits(T, k) /\ Fits(T, k + 1) /\ Depth(T, k + 1) >= 0
  BY <1>1, <1>3 DEF WellFormed
<1>5. ~Listed(T, k + 1)
  BY <1>1 DEF Listed, ListCommands, FormatCommands
<1>6. TokenStep(T, k)
  BY <1>1, TokenSteps
<1>7. T[k + 1].t # "("
  <2>1. SUFFICES ASSUME T[k + 1].t = "(" PROVE FALSE
    OBVIOUS
  <2>2. Depth(T, k + 1) # 0 /\ Depth(T, k + 1) # 1
    BY <1>1, <1>6, <2>1 DEF TokenStep, DepthStep
  <2> QED
    BY <1>4, <1>5, <2>2 DEF Fits
<1>8. Read(T, k + 1, ls)
  <2>1. ~IsItem(T, k + 1) /\ Addable(T, k + 1)
    BY <1>5 DEF IsItem, Addable
  <2> QED
    BY <1>3, <1>4, <2>1, ReadOne
<1>9. ASSUME T[k + 1].t = ")" PROVE AtCommand(T, k + 1, 0)
  <2>1. Depth(T, k + 1) = 0
    BY <1>1, <1>6, <1>9 DEF TokenStep, DepthStep
  <2> QED
    BY <1>9, <2>1 DEF AtCommand
<1>10. ASSUME T[k + 1].t # ")" PROVE AtSkip(T, k + 1, 0)
  <2>1. Depth(T, k + 1) = 1
    BY <1>1, <1>6, <1>7, <1>10 DEF TokenStep, DepthStep
  <2>2. InForce(T, k + 1 + 1) \in FormatCommands
    BY <1>1, <1>3, <1>6, <2>1 DEF TokenStep
  <2> QED
    BY <1>1, <1>3, <2>1, <2>2 DEF AtSkip
<1> QED
  BY <1>3, <1>8, <1>9, <1>10

-----------------------------------------------------------------------------
(* The parser's steps *)

TokensClear(T) ==
  \/ WellFormed(T)
  \/ \A k \in DOMAIN T : T[k].t = "name" => T[k].name \notin FormatCommands

\* The parser in state s has read some of the tokens of T.
Stands(T, s) ==
  \E k : Remains(T, k, s.tokens) /\ Read(T, k, s.libs) /\ AtMode(T, k, s.mode, s.depth)

Reading(T, k) ==
  /\ ScriptInv /\ Tokens(T) /\ TokensClear(T)
  /\ Remains(T, k, script.tokens) /\ Read(T, k, script.libs)
  /\ AtMode(T, k, script.mode, script.depth)

\* What a step of the parser may come to.
GoesOn(T) ==
  UNCHANGED <<phase, i, ii, resolved>> /\ script'.path = script.path /\ Stands(T, script')
Outcome(T) ==
  \/ GoesOn(T)
  \/ Succeed /\ WellFormed(T) /\ AllThere(T) /\ script.libs = ItemsOf(T)
  \/ Fail /\ ~(WellFormed(T) /\ AllThere(T))

ParserAt(m, d, t, ls) ==
  /\ UNCHANGED <<phase, i, ii, resolved>> /\ script'.path = script.path
  /\ script'.mode = m /\ script'.depth = d /\ script'.tokens = t /\ script'.libs = ls

LEMMA ParserMoves ==
  ASSUME ScriptInv
  PROVE  /\ \A m : Go(m) => ParserAt(m, script.depth, Rest, script.libs)
         /\ \A p : Added(p) => ParserAt("item", script.depth, After(Rest), Append(script.libs, p))
<1>1. ASSUME NEW m, Go(m) PROVE ParserAt(m, script.depth, Rest, script.libs)
  <2> DEFINE t == Rest
  <2>1. script' = [script EXCEPT !.mode = m, !.tokens = t] /\ UNCHANGED <<phase, i, ii, resolved>>
    BY <1>1 DEF Go
  <2> HIDE DEF t
  <2>2. ParserAt(m, script.depth, t, script.libs)
    BY <2>1 DEF ParserAt, ScriptInv
  <2> QED
    BY <2>2 DEF t
<1>2. ASSUME NEW p, Added(p)
      PROVE  ParserAt("item", script.depth, After(Rest), Append(script.libs, p))
  <2> DEFINE t == After(Rest)
             ls == Append(script.libs, p)
  <2>1. script' = [script EXCEPT !.mode = "item", !.tokens = t, !.libs = ls]
        /\ UNCHANGED <<phase, i, ii, resolved>>
    BY <1>2 DEF Added
  <2> HIDE DEF t, ls
  <2>2. ParserAt("item", script.depth, t, ls)
    BY <2>1 DEF ParserAt, ScriptInv
  <2> QED
    BY <2>2 DEF t, ls
<1> QED
  BY <1>1, <1>2

LEMMA ModeIs ==
  ASSUME NEW T, NEW k, NEW d
  PROVE  /\ AtMode(T, k, "command", d) <=> AtCommand(T, k, d)
         /\ AtMode(T, k, "list", d) <=> AtList(T, k, d)
         /\ AtMode(T, k, "item", d) <=> AtItem(T, k, d)
         /\ AtMode(T, k, "library", d) <=> AtLibrary(T, k, d)
         /\ AtMode(T, k, "format", d) <=> AtFormat(T, k, d)
         /\ AtMode(T, k, "skip", d) <=> AtSkip(T, k, d)
BY DEF AtMode

LEMMA StandsIf ==
  ASSUME NEW T, NEW k, NEW m, NEW d, NEW t, NEW ls, ParserAt(m, d, t, ls),
         Remains(T, k, t), Read(T, k, ls), AtMode(T, k, m, d)
  PROVE  GoesOn(T)
<1>1. Remains(T, k, script'.tokens) /\ Read(T, k, script'.libs) /\ AtMode(T, k, script'.mode, script'.depth)
  BY DEF ParserAt
<1>2. Stands(T, script')
  BY <1>1 DEF Stands
<1> QED
  BY <1>2 DEF GoesOn, ParserAt

\* The token that the parser looks at.
LEMMA TokenRead ==
  ASSUME NEW T, NEW k, Reading(T, k)
  PROVE  /\ script.tokens = <<>> => k = Len(T) /\ Token = Eof
         /\ script.tokens # <<>> =>
              /\ k + 1 \in 1 .. Len(T) /\ Token = T[k + 1] /\ Remains(T, k + 1, Rest)
              /\ IsToken(Token) /\ Token # Eof
<1>1. Tokens(T) /\ Remains(T, k, script.tokens)
  BY DEF Reading
<1>2. CASE script.tokens = <<>>
  BY <1>1, <1>2, RemainsSteps DEF Token
<1>3. CASE script.tokens # <<>>
  <2>1. /\ k + 1 \in 1 .. Len(T) /\ Head(script.tokens) = T[k + 1]
        /\ Remains(T, k + 1, Tail(script.tokens))
    BY <1>1, <1>3, RemainsSteps
  <2>2. Token = T[k + 1] /\ Rest = Tail(script.tokens)
    BY <1>3, <2>1 DEF Token, Rest
  <2>3. IsToken(Token)
    BY <1>1, <2>1, <2>2, TokenAt
  <2>4. Token.t # "eof"
    BY <2>3 DEF IsToken
  <2> QED
    BY <1>3, <2>1, <2>2, <2>3, <2>4 DEF Eof
<1> QED
  BY <1>2, <1>3

\* Behind an item, and the comma that may follow.
LEMMA AfterItem ==
  ASSUME NEW T, Tokens(T), NEW k, NEW t, NEW ls, NEW d,
         Remains(T, k, t), Read(T, k, ls), Settled(T, k, d)
  PROVE  \E j : Remains(T, j, After(t)) /\ Read(T, j, ls) /\ AtItem(T, j, d)
<1>1. /\ t = <<>> <=> k = Len(T)
      /\ t # <<>> => k + 1 \in 1 .. Len(T) /\ Head(t) = T[k + 1] /\ Remains(T, k + 1, Tail(t))
  BY RemainsSteps
<1>2. DOMAIN T = 1 .. Len(T)
  BY TokenAt
<1>3. CASE t # <<>> /\ Head(t).t = "comma"
  <2>1. TokenIs(T, k + 1, "comma") /\ After(t) = Tail(t)
    BY <1>1, <1>2, <1>3 DEF TokenIs, After
  <2>2. AtItem(T, k + 1, d) /\ Read(T, k + 1, ls)
    BY <2>1, CommaStep
  <2> QED
    BY <1>1, <1>3, <2>1, <2>2
<1>4. CASE ~(t # <<>> /\ Head(t).t = "comma")
  <2>1. After(t) = t
    BY <1>4 DEF After
  <2>2. ~TokenIs(T, k + 1, "comma")
    <3>1. CASE t = <<>>
      <4>1. k + 1 \notin 1 .. Len(T)
        <5>1. k = Len(T) /\ Len(T) \in Nat
          BY <1>1, <3>1, TokenAt
        <5> QED
          BY <5>1
      <4> QED
        BY <1>2, <4>1 DEF TokenIs
    <3>2. CASE t # <<>>
      BY <1>1, <1>4, <3>2 DEF TokenIs
    <3> QED
      BY <3>1, <3>2
  <2>3. AtItem(T, k, d)
    BY <2>2, CommaStep
  <2> QED
    BY <2>1, <2>3
<1> QED
  BY <1>3, <1>4

LEMMA CommandReads ==
  ASSUME NEW T, NEW k, Reading(T, k), Command
  PROVE  Outcome(T)
<1>1. /\ ScriptInv /\ Tokens(T) /\ TokensClear(T) /\ Read(T, k, script.libs)
      /\ script.mode = "command" /\ AtCommand(T, k, script.depth)
  BY ModeIs DEF Reading, Command
<1>2. script.depth = 0 /\ AtCommand(T, k, 0)
  BY <1>1 DEF AtCommand
<1>3. /\ k = Len(T) => WellFormed(T) /\ AllThere(T) /\ script.libs = ItemsOf(T)
      /\ NameIs(T, k + 1, ListCommands) => AtList(T, k + 1, 0) /\ Read(T, k + 1, script.libs)
      /\ NameIs(T, k + 1, FormatCommands) /\ WellFormed(T) =>
           AtFormat(T, k + 1, 0) /\ Read(T, k + 1, script.libs)
      /\ k + 1 \in 1 .. Len(T) /\ ~NameIs(T, k + 1, ListCommands \cup FormatCommands) => ~WellFormed(T)
  BY <1>1, <1>2, CommandSteps
<1>4. CASE script.tokens = <<>>
  <2>1. k = Len(T) /\ Token = Eof
    BY <1>4, TokenRead
  <2>2. ~IsCommand(ListCommands) /\ ~IsCommand(FormatCommands)
    BY <2>1 DEF IsCommand, Eof
  <2>3. Succeed
    BY <2>1, <2>2 DEF Command
  <2> QED
    BY <1>3, <2>1, <2>3 DEF Outcome
<1>5. CASE script.tokens # <<>>
  <2>1. /\ k + 1 \in 1 .. Len(T) /\ Token = T[k + 1] /\ Remains(T, k + 1, Rest) /\ Token # Eof
    BY <1>5, TokenRead
  <2>2. \A names : IsCommand(names) <=> NameIs(T, k + 1, names)
    <3>1. k + 1 \in DOMAIN T
      BY <1>1, <2>1, TokenAt
    <3> QED
      BY <2>1, <3>1 DEF IsCommand, NameIs, TokenIs
  <2>3. CASE IsCommand(ListCommands) /\ Go("list")
    <3>1. AtMode(T, k + 1, "list", script.depth) /\ Read(T, k + 1, script.libs)
      BY <1>2, <1>3, <2>2, <2>3, ModeIs
    <3>2. ParserAt("list", script.depth, Rest, script.libs)
      BY <1>1, <2>3, ParserMoves
    <3> QED
      BY <2>1, <3>1, <3>2, StandsIf DEF Outcome
  <2>4. CASE IsCommand(FormatCommands) /\ Go("format")
    <3>1. WellFormed(T)
      <4>1. k + 1 \in DOMAIN T /\ T[k + 1].t = "name" /\ T[k + 1].name \in FormatCommands
        BY <2>2, <2>4 DEF NameIs, TokenIs
      <4> QED
        BY <1>1, <4>1 DEF TokensClear
    <3>2. AtMode(T, k + 1, "format", script.depth) /\ Read(T, k + 1, script.libs)
      BY <1>2, <1>3, <2>2, <2>4, <3>1, ModeIs
    <3>3. ParserAt("format", script.depth, Rest, script.libs)
      BY <1>1, <2>4, ParserMoves
    <3> QED
      BY <2>1, <3>2, <3>3, StandsIf DEF Outcome
  <2>5. CASE ~IsCommand(ListCommands \cup FormatCommands) /\ Fail
    BY <1>3, <2>1, <2>2, <2>5 DEF Outcome
  <2> QED
    BY <2>1, <2>3, <2>4, <2>5 DEF Command
<1> QED
  BY <1>4, <1>5

LEMMA ListReads ==
  ASSUME NEW T, NEW k, Reading(T, k), ListOpens
  PROVE  Outcome(T)
<1> DEFINE d == script.depth
<1>1. /\ ScriptInv /\ Tokens(T) /\ Read(T, k, script.libs) /\ script.mode = "list" /\ AtList(T, k, d)
  BY ModeIs DEF Reading, ListOpens
<1> HIDE DEF d
<1>2. /\ TokenIs(T, k + 1, "(") => AtItem(T, k + 1, d + 1) /\ Read(T, k + 1, script.libs)
      /\ ~TokenIs(T, k + 1, "(") => ~WellFormed(T)
  BY <1>1, ListSteps
<1>3. TokenIs(T, k + 1, "(") <=> script.tokens # <<>> /\ Token.t = "("
  <2>1. CASE script.tokens = <<>>
    <3>1. k = Len(T) /\ DOMAIN T = 1 .. Len(T) /\ Len(T) \in Nat
      BY <1>1, <2>1, TokenRead, TokenAt
    <3>2. k + 1 \notin DOMAIN T
      BY <3>1
    <3> QED
      BY <2>1, <3>2 DEF TokenIs
  <2>2. CASE script.tokens # <<>>
    <3>1. k + 1 \in DOMAIN T /\ Token = T[k + 1]
      BY <1>1, <2>2, TokenRead, TokenAt
    <3> QED
      BY <2>2, <3>1 DEF TokenIs
  <2> QED
    BY <2>1, <2>2
<1>4. CASE Token.t = "(" /\ script' = [script EXCEPT !.mode = "item", !.tokens = Rest, !.depth = @ + 1]
           /\ UNCHANGED <<phase, i, ii, resolved>>
  <2> DEFINE t == Rest
             e == d + 1
  <2>1. script' = [script EXCEPT !.mode = "item", !.tokens = t, !.depth = e] /\ UNCHANGED <<phase, i, ii, resolved>>
    BY <1>4 DEF d
  <2> HIDE DEF t, e
  <2>2. ParserAt("item", e, t, script.libs)
    BY <1>1, <2>1 DEF ParserAt, ScriptInv
  <2>3. script.tokens # <<>>
    BY <1>4 DEF Token, Eof
  <2>4. Remains(T, k + 1, t)
    BY <2>3, TokenRead DEF t
  <2>5. AtMode(T, k + 1, "item", e) /\ Read(T, k + 1, script.libs)
    BY <1>2, <1>3, <1>4, <2>3, ModeIs DEF e
  <2> QED
    BY <2>2, <2>4, <2>5, StandsIf DEF Outcome
<1>5. CASE Token.t # "(" /\ Fail
  BY <1>2, <1>3, <1>5 DEF Outcome
<1> QED
  BY <1>4, <1>5 DEF ListOpens

LEMMA FormatReads ==
  ASSUME NEW T, NEW k, Reading(T, k), FormatOpens
  PROVE  Outcome(T)
<1>1. /\ ScriptInv /\ Tokens(T) /\ Read(T, k, script.libs) /\ script.mode = "format"
      /\ AtFormat(T, k, script.depth)
  BY ModeIs DEF Reading, FormatOpens
<1>2. script.depth = 0 /\ AtFormat(T, k, 0)
  BY <1>1 DEF AtFormat
<1>3. TokenIs(T, k + 1, "(") /\ AtSkip(T, k + 1, 0) /\ Read(T, k + 1, script.libs)
  BY <1>1, <1>2, FormatSteps
<1>4. script.tokens # <<>>
  <2>1. k + 1 \in 1 .. Len(T) /\ Len(T) \in Nat
    BY <1>1, <1>3, TokenAt DEF TokenIs
  <2>2. k # Len(T)
    BY <2>1
  <2> QED
    BY <2>2, TokenRead
<1>5. Token = T[k + 1] /\ Remains(T, k + 1, Rest)
  BY <1>4, TokenRead
<1>6. Go("skip")
  BY <1>3, <1>5 DEF FormatOpens, TokenIs
<1>7. ParserAt("skip", script.depth, Rest, script.libs)
  BY <1>1, <1>6, ParserMoves
<1>8. AtMode(T, k + 1, "skip", script.depth)
  BY <1>2, <1>3, ModeIs
<1> QED
  BY <1>3, <1>5, <1>7, <1>8, StandsIf DEF Outcome

LEMMA SkipReads ==
  ASSUME NEW T, NEW k, Reading(T, k), Skip
  PROVE  Outcome(T)
<1>1. /\ ScriptInv /\ Tokens(T) /\ Read(T, k, script.libs) /\ script.mode = "skip"
      /\ AtSkip(T, k, script.depth)
  BY ModeIs DEF Reading, Skip
<1>2. script.depth = 0 /\ AtSkip(T, k, 0)
  BY <1>1 DEF AtSkip
<1>3. /\ k + 1 \in 1 .. Len(T) /\ Read(T, k + 1, script.libs)
      /\ T[k + 1].t = ")" => AtCommand(T, k + 1, 0)
      /\ T[k + 1].t # ")" => AtSkip(T, k + 1, 0)
  BY <1>1, <1>2, SkipSteps
<1>4. script.tokens # <<>>
  <2>1. k # Len(T)
    <3>1. k + 1 \in 1 .. Len(T) /\ Len(T) \in Nat
      BY <1>1, <1>3, TokenAt
    <3> QED
      BY <3>1
  <2> QED
    BY <2>1, TokenRead
<1>5. Token = T[k + 1] /\ Remains(T, k + 1, Rest) /\ Token # Eof
  BY <1>4, TokenRead
<1>6. CASE Token.t = ")" /\ Go("command")
  <2>1. ParserAt("command", script.depth, Rest, script.libs)
    BY <1>1, <1>6, ParserMoves
  <2>2. AtMode(T, k + 1, "command", script.depth)
    BY <1>2, <1>3, <1>5, <1>6, ModeIs
  <2> QED
    BY <1>3, <1>5, <2>1, <2>2, StandsIf DEF Outcome
<1>7. CASE Token.t # ")" /\ Go("skip")
  <2>1. ParserAt("skip", script.depth, Rest, script.libs)
    BY <1>1, <1>7, ParserMoves
  <2>2. AtMode(T, k + 1, "skip", script.depth)
    BY <1>2, <1>3, <1>5, <1>7, ModeIs
  <2> QED
    BY <1>3, <1>5, <2>1, <2>2, StandsIf DEF Outcome
<1> QED
  BY <1>5, <1>6, <1>7 DEF Skip

\* A file has been added, and the comma behind it has been read.
LEMMA AddedReads ==
  ASSUME NEW T, NEW k, Reading(T, k), NEW p, Added(p), Remains(T, k + 1, Rest),
         ItemAdded(T, k, script.libs, script.depth), p = ItemOf(T, k + 1)
  PROVE  GoesOn(T)
<1>1. ScriptInv /\ Tokens(T)
  BY DEF Reading
<1> DEFINE t == Rest
           n == k + 1
           ls == Append(script.libs, p)
           d == script.depth
<1>2. ParserAt("item", d, After(t), ls)
  BY <1>1, ParserMoves
<1>3. Remains(T, n, t) /\ Settled(T, n, d) /\ Read(T, n, ls)
  BY DEF ItemAdded
<1> HIDE DEF t, n, ls, d
<1>4. PICK j : Remains(T, j, After(t)) /\ Read(T, j, ls) /\ AtItem(T, j, d)
  BY <1>1, <1>3, AfterItem
<1>5. AtMode(T, j, "item", d)
  BY <1>4, ModeIs
<1> QED
  BY <1>2, <1>4, <1>5, StandsIf

LEMMA ItemReads ==
  ASSUME NEW T, NEW k, Reading(T, k), Item
  PROVE  Outcome(T)
<1> DEFINE d == script.depth
           ls == script.libs
<1>1. /\ ScriptInv /\ Tokens(T) /\ Read(T, k, ls) /\ script.mode = "item" /\ AtItem(T, k, d)
  BY ModeIs DEF Reading, Item
<1> HIDE DEF d, ls
<1>2. /\ k = Len(T) => ~WellFormed(T)
      /\ k + 1 \in 1 .. Len(T) => ItemStep(T, k, ls, d)
  BY <1>1, ItemSteps
<1>3. d \in Nat /\ d > 0
  BY <1>1, AtItemIs
<1>4. CASE script.tokens = <<>>
  <2>1. k = Len(T) /\ Token = Eof
    BY <1>4, TokenRead
  <2>2. Token.t = "eof"
    BY <2>1 DEF Eof
  <2>3. Fail
    BY <2>2 DEF Item, IsCommand
  <2> QED
    BY <1>2, <2>1, <2>3 DEF Outcome
<1>5. CASE script.tokens # <<>>
  <2>1. k + 1 \in 1 .. Len(T) /\ Token = T[k + 1] /\ Remains(T, k + 1, Rest)
    BY <1>5, TokenRead
  <2>2. ItemStep(T, k, ls, d)
    BY <1>2, <2>1
  <2>3. CASE /\ Token.t = ")"
             /\ script' = [script EXCEPT !.depth = @ - 1, !.unset = @ /\ script.depth # 1,
                             !.mode = IF script.depth = 1 THEN "command" ELSE "item",
                             !.tokens = IF script.depth = 1 THEN Rest ELSE After(Rest)]
             /\ UNCHANGED <<phase, i, ii, resolved>>
    <3> DEFINE e == d - 1
               u == script.unset /\ script.depth # 1
               m == IF script.depth = 1 THEN "command" ELSE "item"
               t == IF script.depth = 1 THEN Rest ELSE After(Rest)
    <3>1. script' = [script EXCEPT !.depth = e, !.unset = u, !.mode = m, !.tokens = t]
          /\ UNCHANGED <<phase, i, ii, resolved>>
      BY <2>3 DEF d
    <3>2. /\ d = 1 => m = "command" /\ t = Rest /\ e = 0
          /\ d # 1 => m = "item" /\ t = After(Rest)
      BY DEF d
    <3>3. /\ Read(T, k + 1, ls)
          /\ d = 1 => AtCommand(T, k + 1, 0)
          /\ d # 1 => Settled(T, k + 1, e)
      BY <2>1, <2>2, <2>3 DEF ItemStep
    <3> HIDE DEF e, u, m, t
    <3>4. ParserAt(m, e, t, ls)
      BY <1>1, <3>1 DEF ParserAt, ScriptInv, ls
    <3>5. CASE d = 1
      <4>1. AtMode(T, k + 1, m, e)
        BY <3>2, <3>3, <3>5, ModeIs
      <4> QED
        BY <2>1, <3>2, <3>3, <3>4, <3>5, <4>1, StandsIf DEF Outcome
    <3>6. CASE d # 1
      <4> DEFINE n == k + 1
      <4>1. Remains(T, n, Rest) /\ Read(T, n, ls) /\ Settled(T, n, e)
        BY <2>1, <3>3, <3>6
      <4> HIDE DEF n
      <4>2. PICK j : Remains(T, j, After(Rest)) /\ Read(T, j, ls) /\ AtItem(T, j, e)
        BY <1>1, <4>1, AfterItem
      <4>3. AtMode(T, j, m, e) /\ t = After(Rest)
        BY <3>2, <3>6, <4>2, ModeIs
      <4> QED
        BY <3>4, <4>2, <4>3, StandsIf DEF Outcome
    <3> QED
      BY <3>5, <3>6
  <2>4. CASE Token.t = "-" /\ Go("library")
    <3>1. ParserAt("library", d, Rest, ls)
      BY <1>1, <2>4, ParserMoves DEF d, ls
    <3>2. AtMode(T, k + 1, "library", d) /\ Read(T, k + 1, ls)
      BY <2>1, <2>2, <2>4, ModeIs DEF ItemStep
    <3> QED
      BY <2>1, <3>1, <3>2, StandsIf DEF Outcome
  <2>5. CASE IsCommand({"AS_NEEDED"}) /\ Go("list")
    <3>1. ParserAt("list", d, Rest, ls)
      BY <1>1, <2>5, ParserMoves DEF d, ls
    <3>2. NameIs(T, k + 1, {"AS_NEEDED"})
      <4>1. k + 1 \in DOMAIN T
        BY <1>1, <2>1, TokenAt
      <4> QED
        BY <2>1, <2>5, <4>1 DEF IsCommand, NameIs, TokenIs
    <3>3. AtMode(T, k + 1, "list", d) /\ Read(T, k + 1, ls)
      BY <2>2, <3>2, ModeIs DEF ItemStep
    <3> QED
      BY <2>1, <3>1, <3>3, StandsIf DEF Outcome
  <2>6. CASE /\ Token.t = "name" /\ Token.name # "AS_NEEDED"
             /\ IF Token.path = <<>> THEN Added(LookUp(Token.name))
                ELSE IF CanAdd(Token.path) THEN Added(Absolute(Token.path))
                ELSE Fail
    <3>1. /\ Token.path = <<>> =>
               ItemAdded(T, k, ls, d) /\ ItemOf(T, k + 1) = LookUp(Token.name)
          /\ Token.path # <<>> =>
               /\ ItemOf(T, k + 1) = Absolute(Token.path)
               /\ CanAdd(Token.path) => ItemAdded(T, k, ls, d)
               /\ ~CanAdd(Token.path) => ~AllThere(T)
      BY <2>1, <2>2, <2>6 DEF ItemStep
    <3>2. CASE Token.path # <<>> /\ ~CanAdd(Token.path)
      BY <2>6, <3>1, <3>2 DEF Outcome
    <3>3. CASE Token.path = <<>> \/ CanAdd(Token.path)
      <4>1. Added(ItemOf(T, k + 1)) /\ ItemAdded(T, k, ls, d)
        BY <2>6, <3>1, <3>3
      <4>2. GoesOn(T)
        BY <2>1, <4>1, AddedReads DEF ls, d
      <4> QED
        BY <4>2 DEF Outcome
    <3> QED
      BY <3>2, <3>3
  <2>7. CASE Token.t \in {"eof", "(", "comma", "other"} /\ Fail
    <3>1. Token.t # "eof"
      BY <1>5, TokenRead DEF IsToken
    <3>2. ~WellFormed(T)
      BY <2>1, <2>2, <2>7, <3>1 DEF ItemStep
    <3> QED
      BY <2>7, <3>2 DEF Outcome
  <2> QED
    BY <2>3, <2>4, <2>5, <2>6, <2>7 DEF Item
<1> QED
  BY <1>4, <1>5

LEMMA LibraryReads ==
  ASSUME NEW T, NEW k, Reading(T, k), LibraryItem
  PROVE  Outcome(T)
<1> DEFINE d == script.depth
           ls == script.libs
<1>1. /\ ScriptInv /\ Tokens(T) /\ Read(T, k, ls) /\ script.mode = "library" /\ AtLibrary(T, k, d)
  BY ModeIs DEF Reading, LibraryItem
<1> HIDE DEF d, ls
<1>2. /\ k = Len(T) => ~WellFormed(T)
      /\ k + 1 \in 1 .. Len(T) => LibraryStep(T, k, ls, d)
  BY <1>1, LibrarySteps
<1>3. CASE script.tokens = <<>>
  <2>1. k = Len(T) /\ Token = Eof
    BY <1>3, TokenRead
  <2>2. Token.t = "eof"
    BY <2>1 DEF Eof
  <2>3. Fail
    BY <2>2 DEF LibraryItem
  <2> QED
    BY <1>2, <2>1, <2>3 DEF Outcome
<1>4. CASE script.tokens # <<>>
  <2>1. k + 1 \in 1 .. Len(T) /\ Token = T[k + 1] /\ Remains(T, k + 1, Rest)
    BY <1>4, TokenRead
  <2>2. LibraryStep(T, k, ls, d)
    BY <1>2, <2>1
  <2>3. CASE Token.t = "name" /\ Token.lib # "" /\ Added(LookUp(Token.lib))
    <3>1. ItemAdded(T, k, ls, d) /\ ItemOf(T, k + 1) = LookUp(Token.lib)
      BY <2>1, <2>2, <2>3 DEF LibraryStep
    <3>2. Added(ItemOf(T, k + 1))
      BY <2>3, <3>1
    <3>3. GoesOn(T)
      BY <2>1, <3>1, <3>2, AddedReads DEF ls, d
    <3> QED
      BY <3>3 DEF Outcome
  <2>4. CASE (Token.t = "name" => Token.lib = "") /\ Fail
    <3>1. ~WellFormed(T)
      BY <2>1, <2>2, <2>4 DEF LibraryStep
    <3> QED
      BY <2>4, <3>1 DEF Outcome
  <2> QED
    BY <2>3, <2>4 DEF LibraryItem
<1> QED
  BY <1>3, <1>4

LEMMA ScriptReads ==
  ASSUME NEW T, NEW k, Reading(T, k), Script
  PROVE  Outcome(T)
BY CommandReads, ListReads, ItemReads, LibraryReads, FormatReads, SkipReads DEF Script

-----------------------------------------------------------------------------
(* What the directories have *)

\* The tokens of what is taken for a script.
Content(f) == IF f.kind = "dir" THEN <<>> ELSE f.tokens

LEMMA ContentIs ==
  ASSUME IInv, NEW p, Opened(p).kind \in {"script", "dir"}
  PROVE  /\ Tokens(Content(Opened(p)))
         /\ Clear => TokensClear(Content(Opened(p)))
<1> DEFINE f == Opened(p)
           q == Behind(Behind(p))
<1>1. CASE f.kind = "dir"
  <2>1. Content(f) = <<>>
    BY <1>1 DEF Content
  <2>2. IsSeq(<<>>) /\ Range(<<>>) = {}
    BY EmptySeq DEF IsSeq, Range
  <2>3. Tokens(<<>>)
    BY <2>2 DEF Tokens
  <2>4. TokensClear(<<>>)
    BY DEF TokensClear
  <2> QED
    BY <2>1, <2>3, <2>4
<1>2. CASE f.kind = "script"
  <2>1. f = At(q)
    BY DEF Opened
  <2> HIDE DEF f, q
  <2>2. q \in DOMAIN world.disk /\ f = world.disk[q]
    BY <1>2, <2>1 DEF At, None
  <2>3. world \in Worlds
    BY DEF IInv
  <2>4. IsSeq(f.tokens) /\ \A x \in Range(f.tokens) : IsToken(x)
    BY <1>2, <2>2, <2>3, WorldsAssumption DEF WorldsAssumption
  <2>5. Content(f) = f.tokens
    BY <1>2 DEF Content
  <2>6. Tokens(Content(f))
    BY <2>4, <2>5 DEF Tokens
  <2>7. Clear => TokensClear(f.tokens)
    BY <1>2, <2>2 DEF Clear, TokensClear
  <2> QED
    BY <2>5, <2>6, <2>7 DEF f
<1> QED
  BY <1>1, <1>2

\* What a directory has, by what opens there.
LEMMA YieldsSteps ==
  ASSUME IInv, NEW d, NEW l, NEW p, p = SolveLink(<<d, l>>)
  PROVE  /\ p = <<>> \/ Opened(p).kind = "none" => Yields(d, l) = {}
         /\ p # <<>> /\ Opened(p).kind = "elf" => Yields(d, l) = {<<p>>}
         /\ p # <<>> /\ Opened(p).kind \in {"script", "dir"} =>
              LET T == Content(Opened(p)) IN
              /\ WellFormed(T) /\ AllThere(T) => Yields(d, l) = {ItemsOf(T)}
              /\ ~(WellFormed(T) /\ AllThere(T)) => Yields(d, l) = {}
<1> DEFINE f == Opened(p)
<1>1. Yields(d, l) =
        IF p = <<>> THEN {}
        ELSE CASE f.kind = "elf" -> {<<p>>}
               [] f.kind = "dir" -> {<<>>}
               [] f.kind = "script" /\ WellFormed(f.tokens) /\ AllThere(f.tokens) -> {ItemsOf(f.tokens)}
               [] OTHER -> {}
  BY DEF Yields
<1>2. ASSUME f.kind = "dir"
      PROVE  Content(f) = <<>> /\ WellFormed(<<>>) /\ AllThere(<<>>) /\ ItemsOf(<<>>) = <<>>
  <2>1. Content(f) = <<>>
    BY <1>2 DEF Content
  <2>2. Tokens(<<>>)
    BY <1>2, <2>1, ContentIs
  <2>3. Len(<<>>) = 0 /\ DOMAIN <<>> = {}
    BY EmptySeq
  <2>4. Depth(<<>>, 0) = 0
    BY DepthSteps
  <2>5. WellFormed(<<>>) /\ AllThere(<<>>)
    BY <2>3, <2>4 DEF WellFormed, AllThere
  <2>6. ItemsOf(<<>>) = <<>>
    BY <2>2, <2>3, ItemsSteps
  <2> QED
    BY <2>1, <2>5, <2>6
<1>3. f.kind = "script" => Content(f) = f.tokens
  BY DEF Content
<1> HIDE DEF f
<1>4. p = <<>> \/ f.kind = "none" => Yields(d, l) = {}
  BY <1>1
<1>5. p # <<>> /\ f.kind = "elf" => Yields(d, l) = {<<p>>}
  BY <1>1
<1>6. ASSUME p # <<>>, f.kind = "dir" PROVE Yields(d, l) = {ItemsOf(Content(f))}
  BY <1>1, <1>2, <1>6
<1>7. ASSUME p # <<>>, f.kind = "script"
      PROVE  /\ WellFormed(f.tokens) /\ AllThere(f.tokens) => Yields(d, l) = {ItemsOf(f.tokens)}
             /\ ~(WellFormed(f.tokens) /\ AllThere(f.tokens)) => Yields(d, l) = {}
  BY <1>1, <1>7
<1> QED
  BY <1>2, <1>3, <1>4, <1>5, <1>6, <1>7 DEF f

LEMMA KindIs ==
  ASSUME IInv, NEW p
  PROVE  At(p).kind \in Kinds
<1>1. world \in Worlds
  BY DEF IInv
<1>2. p \in DOMAIN world.disk => world.disk[p].kind \in Kinds
  BY <1>1, WorldsAssumption DEF WorldsAssumption
<1> QED
  BY <1>2 DEF At, None, Kinds

LEMMA YieldsIs ==
  ASSUME IInv, NEW d, NEW l
  PROVE  Yields(d, l) = {} \/ \E ps : IsSeq(ps) /\ Yields(d, l) = {ps}
<1> DEFINE p == SolveLink(<<d, l>>)
           T == Content(Opened(p))
<1>1. CASE p = <<>> \/ Opened(p).kind = "none"
  BY <1>1, YieldsSteps
<1>2. CASE p # <<>> /\ Opened(p).kind = "elf"
  <2>1. Yields(d, l) = {<<p>>}
    BY <1>2, YieldsSteps
  <2>2. <<p>> \in Seq({p})
    OBVIOUS
  <2>3. IsSeq(<<p>>)
    BY <2>2, SeqHasRange
  <2> QED
    BY <2>1, <2>3
<1>3. CASE p # <<>> /\ Opened(p).kind \in {"script", "dir"}
  <2>1. IsSeq(ItemsOf(T))
    BY <1>3, ContentIs, ItemsSteps
  <2>2. Yields(d, l) = {} \/ Yields(d, l) = {ItemsOf(T)}
    BY <1>3, YieldsSteps
  <2> QED
    BY <2>1, <2>2
<1>4. CASE p # <<>> /\ Opened(p).kind = "link"
  <2>1. Yields(d, l) = {}
    BY <1>4 DEF Yields
  <2> QED
    BY <2>1
<1>5. Opened(p).kind \in Kinds
  BY KindIs DEF Opened
<1> QED
  BY <1>1, <1>2, <1>3, <1>4, <1>5 DEF Kinds

\* The paths of a library are those of the first directory that has it.
LEMMA PathsOfIs ==
  ASSUME IInv, NEW l
  PROVE  /\ IsSeq(PathsOf(l))
         /\ \A ps : \A j \in 1 .. Len(dirs) :
              /\ \A m \in 1 .. j - 1 : Yields(dirs[m], l) = {}
              /\ Yields(dirs[j], l) = {ps}
              => PathsOf(l) = ps
         /\ (\A m \in 1 .. Len(dirs) : Yields(dirs[m], l) = {}) => PathsOf(l) = <<>>
<1> DEFINE has == {j \in DOMAIN dirs : Yields(dirs[j], l) # {}}
<1>1. DOMAIN dirs = 1 .. Len(dirs) /\ Len(dirs) \in Nat
  BY LenProperties DEF IInv
<1>2. PathsOf(l) = IF has = {} THEN <<>> ELSE CHOOSE ps \in Yields(dirs[Min(has)], l) : TRUE
  BY DEF PathsOf
<1>3. has \subseteq Nat /\ has \subseteq 1 .. Len(dirs)
  BY <1>1
<1>4. ASSUME has # {} PROVE Min(has) \in has /\ \A k \in has : Min(has) <= k
  <2> HIDE DEF has
  <2>1. \E m \in has : \A k \in has : m <= k
    BY <1>3, <1>4, NatLeast
  <2> QED
    BY <2>1 DEF Min
<1>5. ASSUME NEW ps, has # {}, Yields(dirs[Min(has)], l) = {ps} PROVE PathsOf(l) = ps
  <2> HIDE DEF has
  <2> QED
    BY <1>2, <1>5
<1>6. IsSeq(PathsOf(l))
  <2>1. CASE has = {}
    <3>1. PathsOf(l) = <<>> /\ <<>> \in Seq({})
      BY <1>2, <2>1
    <3> QED
      BY <3>1, SeqHasRange
  <2>2. CASE has # {}
    <3>1. Yields(dirs[Min(has)], l) # {}
      BY <1>4, <2>2
    <3>2. PICK ps : IsSeq(ps) /\ Yields(dirs[Min(has)], l) = {ps}
      BY <3>1, YieldsIs
    <3> QED
      BY <1>5, <2>2, <3>2
  <2> QED
    BY <2>1, <2>2
<1>7. ASSUME NEW j \in 1 .. Len(dirs), NEW ps, \A m \in 1 .. j - 1 : Yields(dirs[m], l) = {},
             Yields(dirs[j], l) = {ps}
      PROVE  PathsOf(l) = ps
  <2>1. j \in has
    BY <1>1, <1>7
  <2>2. Min(has) \in has /\ Min(has) <= j
    BY <1>4, <2>1
  <2>3. Min(has) \notin 1 .. j - 1 /\ Min(has) \in 1 .. Len(dirs)
    BY <1>3, <1>7, <2>2
  <2>4. Min(has) = j
    <3> DEFINE m == Min(has)
    <3>1. m \notin 1 .. j - 1 /\ m \in 1 .. Len(dirs) /\ m <= j
      BY <2>2, <2>3
    <3> HIDE DEF m
    <3>2. m = j
      BY <1>1, <3>1
    <3> QED
      BY <3>2 DEF m
  <2> QED
    BY <1>5, <1>7, <2>1, <2>4
<1>8. ASSUME \A m \in 1 .. Len(dirs) : Yields(dirs[m], l) = {} PROVE PathsOf(l) = <<>>
  <2>1. has = {}
    BY <1>1, <1>8
  <2> QED
    BY <1>2, <2>1
<1> QED
  BY <1>6, <1>7, <1>8

-----------------------------------------------------------------------------
(* The libraries that have been searched *)

Paths == [k \in DOMAIN world.libs |-> PathsOf(world.libs[k])]

\* The parser is in the script that this directory has.
Parsed ==
  \E d, l, p, T, k :
    /\ d = dirs[ii] /\ l = world.libs[i]
    /\ p = SolveLink(<<d, l>>) /\ p # <<>>
    /\ Opened(p).kind \in {"script", "dir"} /\ T = Content(Opened(p))
    /\ Remains(T, k, script.tokens) /\ Read(T, k, script.libs)
    /\ AtMode(T, k, script.mode, script.depth)

\* The libraries before number n have given rs, and none of the first m - 1
\* directories has number n.
Searched(n, m, rs) ==
  /\ rs = Flat(Paths)[n - 1]
  /\ n <= Len(world.libs) => \A j \in 1 .. m - 1 : Yields(dirs[j], world.libs[n]) = {}

SearchedInv ==
  /\ phase = "conf" => resolved = <<>>
  /\ phase # "conf" /\ Clear =>
       /\ Searched(i, ii, resolved)
       /\ phase = "done" => i = Len(world.libs) + 1
       /\ phase = "script" => Parsed

LEMMA PathsSteps ==
  ASSUME IInv
  PROVE  \E S :
         /\ Flat(Paths)[0] = <<>> /\ AllPaths = Flat(Paths)[Len(world.libs)]
         /\ \A k \in 1 .. Len(world.libs) : /\ PathsOf(world.libs[k]) \in Seq(S)
                                            /\ Flat(Paths)[k] = Flat(Paths)[k - 1] \o PathsOf(world.libs[k])
         /\ \A k \in 0 .. Len(world.libs) : Flat(Paths)[k] \in Seq(S)
<1> DEFINE n == Len(world.libs)
           S == UNION {Range(PathsOf(world.libs[k])) : k \in DOMAIN world.libs}
           ss == Paths
<1>1. world \in Worlds
  BY DEF IInv
<1>2. n \in Nat /\ DOMAIN world.libs = 1 .. n
  BY <1>1, Worldly, SeqIs
<1>3. ASSUME NEW k \in 1 .. n PROVE PathsOf(world.libs[k]) \in Seq(S) /\ ss[k] = PathsOf(world.libs[k])
  <2> DEFINE R == Range(PathsOf(world.libs[k]))
  <2>1. R \subseteq S
    BY <1>2
  <2>2. PathsOf(world.libs[k]) \in Seq(R)
    BY PathsOfIs DEF IsSeq
  <2> HIDE DEF S, R
  <2>3. PathsOf(world.libs[k]) \in Seq(S)
    BY <2>1, <2>2, SeqMonotonic
  <2> QED
    BY <1>2, <2>3 DEF Paths
<1> HIDE DEF S
<1>4. ss \in Seq(Seq(S)) /\ Len(ss) = n
  <2>1. ss \in [1 .. n -> Seq(S)]
    BY <1>2, <1>3 DEF Paths
  <2> HIDE DEF ss, n
  <2> QED
    BY <1>2, <2>1, LenProperties, SeqDef
<1>5. AllPaths = Flat(ss)[n]
  BY <1>4 DEF AllPaths, Flattened, Paths
<1> HIDE DEF ss, n
<1>6. /\ Flat(ss)[0] = <<>>
      /\ \A k \in 1 .. n : Flat(ss)[k] = Flat(ss)[k - 1] \o ss[k]
      /\ \A k \in 0 .. n : Flat(ss)[k] \in Seq(S)
  BY <1>4, FlatSteps
<1>7. \A k \in 1 .. n : PathsOf(world.libs[k]) \in Seq(S) /\ Flat(ss)[k] = Flat(ss)[k - 1] \o PathsOf(world.libs[k])
  BY <1>3, <1>6
<1> QED
  BY <1>5, <1>6, <1>7 DEF ss, n

\* What the disk and the directories say does not change.
LEMMA DiskStays ==
  ASSUME world' = world
  PROVE  /\ Clear' <=> Clear
         /\ \A p : At(p)' = At(p) /\ Opened(p)' = Opened(p) /\ SolveLink(p)' = SolveLink(p)
                   /\ (CanAdd(p)' <=> CanAdd(p)) /\ Absolute(p)' = Absolute(p)
         /\ \A d, n : Joined(d, n)' = Joined(d, n)
<1>1. Clear' <=> Clear
  BY DEF Clear
<1>2. \A p : At(p)' = At(p)
  BY DEF At
<1>3. \A p : Behind(p)' = Behind(p)
  BY <1>2 DEF Behind
<1>4. \A p : Opened(p)' = Opened(p)
  BY DEF Opened, Behind, At
<1>5. \A p : SolveLink(p)' = SolveLink(p)
  BY <1>2 DEF SolveLink
<1>6. \A p : (CanAdd(p)' <=> CanAdd(p)) /\ Absolute(p)' = Absolute(p)
  BY <1>2 DEF CanAdd, Absolute
<1>7. \A d, n : Joined(d, n)' = Joined(d, n)
  BY DEF Joined, At
<1> QED
  BY <1>1, <1>2, <1>4, <1>5, <1>6, <1>7

LEMMA DirsStay ==
  ASSUME world' = world, dirs' = dirs
  PROVE  /\ \A n : LookUp(n)' = LookUp(n)
         /\ \A T, k : ItemOf(T, k)' = ItemOf(T, k) /\ Items(T, k)' = Items(T, k)
         /\ \A T, k : Addable(T, k)' <=> Addable(T, k)
         /\ \A T : (AllThere(T)' <=> AllThere(T)) /\ ItemsOf(T)' = ItemsOf(T)
<1>1. \A n : LookUp(n)' = LookUp(n)
  <2> SUFFICES ASSUME NEW n PROVE LookUp(n)' = LookUp(n)
    OBVIOUS
  <2> QED
    BY DEF LookUp, Joined, At
<1>2. \A T, k : ItemOf(T, k)' = ItemOf(T, k)
  BY <1>1, DiskStays DEF ItemOf
<1>3. \A T, k : Items(T, k)' = Items(T, k)
  BY <1>2 DEF Items, ItemLists
<1>4. \A T, k : Addable(T, k)' <=> Addable(T, k)
  BY DiskStays DEF Addable
<1>5. \A T : AllThere(T)' <=> AllThere(T)
  BY DiskStays DEF AllThere
<1>6. \A T : ItemsOf(T)' = ItemsOf(T)
  BY <1>2 DEF ItemsOf
<1> QED
  BY <1>1, <1>2, <1>3, <1>4, <1>5, <1>6

LEMMA SearchedStays ==
  ASSUME world' = world, dirs' = dirs
  PROVE  /\ Searched(i', ii', resolved') => Searched(i, ii, resolved)'
         /\ \A d, l : Yields(d, l)' = Yields(d, l)
<1>1. ASSUME NEW d, NEW l PROVE Yields(d, l)' = Yields(d, l)
  <2> DEFINE p == SolveLink(<<d, l>>)
             f == Opened(p)
             T == f.tokens
  <2>1. p' = p
    BY DiskStays
  <2>2. f' = f
    BY DiskStays
  <2>3. T' = T
    BY <2>2
  <2>4. (AllThere(T)' <=> AllThere(T)) /\ ItemsOf(T)' = ItemsOf(T)
    BY <2>3, DirsStay
  <2>5. Yields(d, l) =
          IF p = <<>> THEN {}
          ELSE CASE f.kind = "elf" -> {<<p>>}
                 [] f.kind = "dir" -> {<<>>}
                 [] f.kind = "script" /\ WellFormed(T) /\ AllThere(T) -> {ItemsOf(T)}
                 [] OTHER -> {}
    BY DEF Yields
  <2>6. Yields(d, l)' =
          IF p' = <<>> THEN {}
          ELSE CASE f'.kind = "elf" -> {<<p'>>}
                 [] f'.kind = "dir" -> {<<>>}
                 [] f'.kind = "script" /\ WellFormed(T') /\ AllThere(T)' -> {ItemsOf(T)'}
                 [] OTHER -> {}
    BY DEF Yields
  <2> HIDE DEF p, f, T
  <2> QED
    BY <2>1, <2>2, <2>3, <2>4, <2>5, <2>6
<1>2. ASSUME NEW l PROVE PathsOf(l)' = PathsOf(l)
  <2> DEFINE has == {j \in DOMAIN dirs : Yields(dirs[j], l) # {}}
  <2>1. has' = has
    BY <1>1
  <2>2. PathsOf(l) = IF has = {} THEN <<>> ELSE CHOOSE ps \in Yields(dirs[Min(has)], l) : TRUE
    BY DEF PathsOf
  <2>3. PathsOf(l)' = IF has' = {} THEN <<>> ELSE CHOOSE ps \in Yields(dirs[Min(has)], l)' : TRUE
    BY DEF PathsOf
  <2>4. Yields(dirs[Min(has)], l)' = Yields(dirs[Min(has)], l)
    BY <1>1, <2>1
  <2> HIDE DEF has
  <2> QED
    BY <2>1, <2>2, <2>3, <2>4
<1>3. Paths' = Paths
  BY <1>2 DEF Paths
<1> QED
  BY <1>1, <1>3 DEF Searched

\* One directory more has been searched, or all of them.
LEMMA SearchedNone ==
  ASSUME IInv, Searched(i, ii, resolved), i <= Len(world.libs), ii <= Len(dirs),
         Yields(dirs[ii], world.libs[i]) = {}
  PROVE  Searched(i, ii + 1, resolved)
<1>1. ii \in Nat \ {0}
  BY SearchFacts
<1>2. \A j \in 1 .. ii - 1 : Yields(dirs[j], world.libs[i]) = {}
  BY DEF Searched
<1> DEFINE m == ii + 1
<1>3. ASSUME NEW j \in 1 .. m - 1 PROVE Yields(dirs[j], world.libs[i]) = {}
  <2>1. j \in 1 .. ii - 1 \/ j = ii
    BY <1>1
  <2> QED
    BY <1>2, <2>1
<1>4. resolved = Flat(Paths)[i - 1]
  BY DEF Searched
<1> HIDE DEF m
<1>5. Searched(i, m, resolved)
  BY <1>3, <1>4 DEF Searched
<1> QED
  BY <1>5 DEF m

LEMMA SearchedAll ==
  ASSUME IInv, Searched(i, ii, resolved), i <= Len(world.libs)
  PROVE  /\ \A ps : ii <= Len(dirs) /\ Yields(dirs[ii], world.libs[i]) = {ps} =>
              Searched(i + 1, 1, resolved \o ps)
         /\ ii > Len(dirs) => Searched(i + 1, 1, resolved)
<1> DEFINE l == world.libs[i]
           n == i + 1
           F == Flat(Paths)
<1>1. /\ i \in Nat \ {0} /\ ii \in Nat \ {0} /\ i \in 1 .. Len(world.libs) /\ i - 1 \in 0 .. Len(world.libs)
      /\ ii <= Len(dirs) + 1 /\ Len(dirs) \in Nat
  BY SearchFacts
<1>2. PICK S : /\ \A k \in 1 .. Len(world.libs) : F[k] = F[k - 1] \o PathsOf(world.libs[k])
               /\ \A k \in 0 .. Len(world.libs) : F[k] \in Seq(S)
  BY PathsSteps
<1>3. F[i] = resolved \o PathsOf(l) /\ resolved \in Seq(S)
  <2>1. resolved = F[i - 1]
    BY DEF Searched
  <2> HIDE DEF F
  <2> QED
    BY <1>1, <1>2, <2>1
<1>4. \A j \in 1 .. ii - 1 : Yields(dirs[j], l) = {}
  BY DEF Searched
<1>5. ASSUME NEW rs, rs = F[i] PROVE Searched(i + 1, 1, rs)
  <2>1. n - 1 = i /\ 1 .. 1 - 1 = {}
    BY <1>1
  <2> HIDE DEF n
  <2>2. Searched(n, 1, rs)
    BY <1>5, <2>1 DEF Searched
  <2> QED
    BY <2>2 DEF n
<1> HIDE DEF F, l
<1>6. ASSUME NEW ps, ii <= Len(dirs), Yields(dirs[ii], l) = {ps} PROVE Searched(i + 1, 1, resolved \o ps)
  <2>1. ii \in 1 .. Len(dirs)
    BY <1>1, <1>6
  <2>2. PathsOf(l) = ps
    BY <1>4, <1>6, <2>1, PathsOfIs
  <2> QED
    BY <1>3, <1>5, <2>2
<1>7. ASSUME ii > Len(dirs) PROVE Searched(i + 1, 1, resolved)
  <2>1. ii - 1 = Len(dirs)
    BY <1>1, <1>7
  <2>2. PathsOf(l) = <<>>
    BY <1>4, <2>1, PathsOfIs
  <2>3. resolved \o <<>> = resolved
    BY <1>3, ConcatEmptySeq
  <2> QED
    BY <1>3, <1>5, <2>2, <2>3
<1> QED
  BY <1>6, <1>7 DEF l

\* What is left to show of a step of the search.
LEMMA SearchGoesOn ==
  ASSUME world' = world, dirs' = dirs, phase' # "conf",
         Clear => /\ Searched(i', ii', resolved')
                  /\ phase' = "done" => i' = Len(world.libs) + 1
                  /\ phase' = "script" => Parsed'
  PROVE  SearchedInv'
<1>1. (Clear' <=> Clear) /\ (Searched(i', ii', resolved') => Searched(i, ii, resolved)')
  BY DiskStays, SearchedStays
<1> QED
  BY <1>1 DEF SearchedInv

LEMMA ParsedIf ==
  ASSUME world' = world, dirs' = dirs, i' = i, ii' = ii, NEW p, NEW T, NEW k,
         p = SolveLink(<<dirs[ii], world.libs[i]>>), p # <<>>,
         Opened(p).kind \in {"script", "dir"}, T = Content(Opened(p)),
         Remains(T, k, script'.tokens), Read(T, k, script'.libs),
         AtMode(T, k, script'.mode, script'.depth)
  PROVE  Parsed'
<1>1. (Read(T, k, script.libs))'
  BY DirsStay DEF Read
<1>2. PICK d, l : d = dirs[ii] /\ l = world.libs[i]
  OBVIOUS
<1>3. /\ d = dirs'[ii'] /\ l = world'.libs[i'] /\ p = SolveLink(<<d, l>>)'
      /\ (Opened(p).kind \in {"script", "dir"})' /\ T = Content(Opened(p))'
  BY <1>2, DiskStays DEF Content
<1> QED
  BY <1>1, <1>3 DEF Parsed

LEMMA SearchedConf ==
  ASSUME IInv, SearchedInv, OpenConf \/ ReadLine \/ CloseConf \/ ConfRead
  PROVE  SearchedInv'
<1>1. phase = "conf" /\ resolved = <<>> /\ resolved' = resolved
  BY DEF SearchedInv, OpenConf, ReadLine, CloseConf, ConfRead
<1>2. CASE OpenConf \/ ReadLine \/ CloseConf
  <2>1. phase' = "conf"
    BY <1>1, <1>2 DEF OpenConf, ReadLine, CloseConf
  <2> QED
    BY <1>1, <2>1 DEF SearchedInv
<1>3. CASE ConfRead
  <2>1. phase' = "search" /\ UNCHANGED <<world, dirs, i, ii, resolved>>
    BY <1>3 DEF ConfRead
  <2>2. i = 1 /\ ii = 1
    BY <1>1 DEF IInv, SearchInv
  <2>3. Flat(Paths)[0] = <<>>
    BY PathsSteps
  <2>4. i - 1 = 0 /\ 1 .. ii - 1 = {}
    BY <2>2
  <2>5. Searched(i, ii, resolved)
    BY <1>1, <2>3, <2>4 DEF Searched
  <2>6. Searched(i', ii', resolved')
    BY <2>1, <2>5
  <2> QED
    BY <2>1, <2>6, SearchGoesOn
<1> QED
  BY <1>2, <1>3

LEMMA SearchedTryFile ==
  ASSUME IInv, SearchedInv, TryFile
  PROVE  SearchedInv'
<1>1. /\ phase = "search" /\ i <= Len(world.libs) /\ ii <= Len(dirs)
      /\ world' = world /\ dirs' = dirs
  BY DEF TryFile
<1>2. phase' \in {"search", "script"}
  BY <1>1 DEF TryFile
<1> SUFFICES ASSUME Clear
             PROVE  Searched(i', ii', resolved') /\ (phase' = "script" => Parsed')
  BY <1>1, <1>2, SearchGoesOn
<1>3. Searched(i, ii, resolved)
  BY <1>1 DEF SearchedInv
<1> DEFINE p == SolveLink(Candidate)
           d == dirs[ii]
           l == world.libs[i]
<1>4. p = SolveLink(<<d, l>>)
  BY DEF Candidate
<1>5. CASE (p = <<>> \/ Opened(p).kind = "none") /\ NextDirectory /\ UNCHANGED <<phase, resolved, script>>
  <2>1. Yields(d, l) = {}
    BY <1>4, <1>5, YieldsSteps
  <2>2. Searched(i, ii + 1, resolved)
    BY <1>1, <1>3, <2>1, SearchedNone
  <2> QED
    BY <1>1, <1>5, <2>2 DEF NextDirectory
<1>6. CASE /\ p # <<>> /\ Opened(p).kind = "elf" /\ resolved' = Append(resolved, p)
           /\ NextLibrary /\ UNCHANGED <<phase, script>>
  <2>1. Yields(d, l) = {<<p>>}
    BY <1>4, <1>6, YieldsSteps
  <2>2. Searched(i + 1, 1, resolved \o <<p>>)
    BY <1>1, <1>3, <2>1, SearchedAll
  <2>3. Append(resolved, p) = resolved \o <<p>>
    OBVIOUS
  <2> QED
    BY <1>1, <1>6, <2>2, <2>3 DEF NextLibrary
<1>7. CASE /\ p # <<>> /\ Opened(p).kind \in {"script", "dir"}
           /\ script' = [NoScript EXCEPT !.path = p, !.tokens =
                           IF Opened(p).kind = "dir" THEN <<>> ELSE Opened(p).tokens]
           /\ phase' = "script" /\ UNCHANGED <<i, ii, resolved>>
  <2> DEFINE T == Content(Opened(p))
  <2>1. /\ script'.tokens = T /\ script'.libs = <<>> /\ script'.mode = "command" /\ script'.depth = 0
    BY <1>7 DEF NoScript, Content
  <2>2. Tokens(T)
    BY <1>7, ContentIs
  <2>3. Remains(T, 0, T) /\ Read(T, 0, <<>>) /\ AtMode(T, 0, "command", 0)
    <3>1. T \in Seq(Range(T)) /\ Len(T) \in Nat
      BY <2>2, TokenAt DEF Tokens, IsSeq
    <3>2. Items(T, 0) = <<>>
      BY <2>2, ItemsSteps
    <3>3. Depth(T, 0) = 0
      BY DepthSteps
    <3> HIDE DEF T
    <3>4. Remains(T, 0, T)
      BY <3>1 DEF Remains
    <3>5. Read(T, 0, <<>>)
      BY <3>1, <3>2 DEF Read
    <3>6. AtMode(T, 0, "command", 0)
      BY <3>3 DEF AtMode, AtCommand
    <3> QED
      BY <3>4, <3>5, <3>6
  <2>4. Parsed'
    <3> HIDE DEF T, p
    <3>1. Remains(T, 0, script'.tokens) /\ Read(T, 0, script'.libs) /\ AtMode(T, 0, script'.mode, script'.depth)
      BY <2>1, <2>3
    <3>2. T = Content(Opened(p))
      BY DEF T
    <3> QED
      BY <1>1, <1>4, <1>7, <3>1, <3>2, ParsedIf
  <2> QED
    BY <1>3, <1>7, <2>4
<1> QED
  BY <1>5, <1>6, <1>7 DEF TryFile

LEMMA SearchedScript ==
  ASSUME IInv, SearchedInv, Script
  PROVE  SearchedInv'
<1>1. /\ phase = "script" /\ i <= Len(world.libs) /\ ii <= Len(dirs)
      /\ world' = world /\ dirs' = dirs
  BY SearchFacts DEF Script
<1>2. phase' \in {"search", "script"}
  BY <1>1 DEF Script, Command, ListOpens, Item, LibraryItem, FormatOpens, Skip, Go, Added, Succeed, Fail
<1> SUFFICES ASSUME Clear
             PROVE  Searched(i', ii', resolved') /\ (phase' = "script" => Parsed')
  BY <1>1, <1>2, SearchGoesOn
<1>3. Searched(i, ii, resolved) /\ Parsed
  BY <1>1 DEF SearchedInv
<1>4. PICK d, l, p, T, k :
        /\ d = dirs[ii] /\ l = world.libs[i]
        /\ p = SolveLink(<<d, l>>) /\ p # <<>>
        /\ Opened(p).kind \in {"script", "dir"} /\ T = Content(Opened(p))
        /\ Remains(T, k, script.tokens) /\ Read(T, k, script.libs)
        /\ AtMode(T, k, script.mode, script.depth)
  BY <1>3 DEF Parsed
<1>5. Reading(T, k)
  <2>1. ScriptInv
    BY DEF IInv, SearchInv
  <2>2. Tokens(T) /\ TokensClear(T)
    BY <1>4, ContentIs
  <2> QED
    BY <1>4, <2>1, <2>2 DEF Reading
<1>6. Outcome(T)
  BY <1>5, ScriptReads
<1>7. /\ WellFormed(T) /\ AllThere(T) => Yields(d, l) = {ItemsOf(T)}
      /\ ~(WellFormed(T) /\ AllThere(T)) => Yields(d, l) = {}
  BY <1>4, YieldsSteps
<1>8. CASE GoesOn(T)
  <2>1. UNCHANGED <<phase, i, ii, resolved>> /\ Stands(T, script')
    BY <1>8 DEF GoesOn
  <2>2. PICK j : /\ Remains(T, j, script'.tokens) /\ Read(T, j, script'.libs)
                 /\ AtMode(T, j, script'.mode, script'.depth)
    BY <2>1 DEF Stands
  <2>3. Parsed'
    BY <1>1, <1>4, <2>1, <2>2, ParsedIf
  <2> QED
    BY <1>3, <2>1, <2>3
<1>9. CASE Succeed /\ WellFormed(T) /\ AllThere(T) /\ script.libs = ItemsOf(T)
  <2>1. Yields(dirs[ii], world.libs[i]) = {script.libs}
    BY <1>4, <1>7, <1>9
  <2>2. Searched(i + 1, 1, resolved \o script.libs)
    BY <1>1, <1>3, <2>1, SearchedAll
  <2> QED
    BY <1>9, <2>2 DEF Succeed, NextLibrary
<1>10. CASE Fail /\ ~(WellFormed(T) /\ AllThere(T))
  <2>1. Yields(dirs[ii], world.libs[i]) = {}
    BY <1>4, <1>7, <1>10
  <2>2. Searched(i, ii + 1, resolved)
    BY <1>1, <1>3, <2>1, SearchedNone
  <2> QED
    BY <1>10, <2>2 DEF Fail, NextDirectory
<1> QED
  BY <1>6, <1>8, <1>9, <1>10 DEF Outcome

LEMMA SearchedEnds ==
  ASSUME IInv, SearchedInv, GiveUp \/ Done
  PROVE  SearchedInv'
<1>1. /\ phase = "search" /\ phase' \in {"search", "done"} /\ resolved' = resolved
      /\ world' = world /\ dirs' = dirs
  BY DEF GiveUp, Done
<1> SUFFICES ASSUME Clear
             PROVE  Searched(i', ii', resolved') /\ (phase' = "done" => i' = Len(world.libs) + 1)
  BY <1>1, SearchGoesOn
<1>2. Searched(i, ii, resolved)
  BY <1>1 DEF SearchedInv
<1>3. CASE GiveUp
  <2>1. i <= Len(world.libs) /\ ii > Len(dirs) /\ phase' = "search" /\ NextLibrary
    BY <1>1, <1>3 DEF GiveUp
  <2>2. Searched(i + 1, 1, resolved)
    BY <1>2, <2>1, SearchedAll
  <2> QED
    BY <1>1, <2>1, <2>2 DEF NextLibrary
<1>4. CASE Done
  <2>1. i > Len(world.libs) /\ i' = i /\ ii' = ii
    BY <1>4 DEF Done
  <2>2. i = Len(world.libs) + 1
    BY <2>1, SearchFacts
  <2> QED
    BY <1>1, <1>2, <2>1, <2>2
<1> QED
  BY <1>3, <1>4

LEMMA SearchedInit == Init => SearchedInv
BY DEF Init, SearchedInv

LEMMA SearchedNext == IInv /\ SearchedInv /\ [Next]_vars => SearchedInv'
<1> SUFFICES ASSUME IInv, SearchedInv, [Next]_vars PROVE SearchedInv'
  OBVIOUS
<1>1. CASE Step
  BY <1>1, SearchedConf, SearchedTryFile, SearchedEnds, SearchedScript DEF Step
<1>2. CASE UNCHANGED vars
  <2>1. UNCHANGED <<world, phase, dirs, i, ii, resolved, script>>
    BY <1>2 DEF vars
  <2>2. phase = "conf" => SearchedInv'
    BY <2>1 DEF SearchedInv
  <2>3. ASSUME Clear, phase = "script" PROVE Parsed'
    <3>1. Parsed
      BY <2>3 DEF SearchedInv
    <3>2. PICK d, l, p, T, k :
            /\ d = dirs[ii] /\ l = world.libs[i]
            /\ p = SolveLink(<<d, l>>) /\ p # <<>>
            /\ Opened(p).kind \in {"script", "dir"} /\ T = Content(Opened(p))
            /\ Remains(T, k, script.tokens) /\ Read(T, k, script.libs)
            /\ AtMode(T, k, script.mode, script.depth)
      BY <3>1 DEF Parsed
    <3>3. Remains(T, k, script'.tokens) /\ Read(T, k, script'.libs) /\ AtMode(T, k, script'.mode, script'.depth)
      BY <2>1, <3>2
    <3> QED
      BY <2>1, <3>2, <3>3, ParsedIf
  <2>4. ASSUME phase # "conf" PROVE SearchedInv'
    <3>1. Clear => Searched(i', ii', resolved') /\ (phase' = "done" => i' = Len(world.libs) + 1)
      BY <2>1, <2>4 DEF SearchedInv
    <3> QED
      BY <2>1, <2>3, <2>4, <3>1, SearchGoesOn
  <2> QED
    BY <2>2, <2>4
<1> QED
  BY <1>1, <1>2 DEF Next

\* What has been resolved is the beginning of what there is to be.
LEMMA PathsBegin ==
  ASSUME IInv, NEW n \in 0 .. Len(world.libs)
  PROVE  IsPrefix(Flat(Paths)[n], AllPaths)
<1> DEFINE N == Len(world.libs)
           F == Flat(Paths)
           P == {m \in Nat : n <= m /\ m <= N => Begins(F[n], F[m])}
<1>1. PICK S : /\ AllPaths = F[N]
               /\ \A k \in 1 .. N : PathsOf(world.libs[k]) \in Seq(S) /\ F[k] = F[k - 1] \o PathsOf(world.libs[k])
               /\ \A k \in 0 .. N : F[k] \in Seq(S)
  BY PathsSteps
<1>2. N \in Nat /\ n \in 0 .. N
  BY SearchFacts
<1>3. ASSUME NEW s \in Seq(S) PROVE Begins(s, s) /\ Len(s) \in Nat
  BY LenProperties DEF Begins
<1>4. ASSUME NEW s \in Seq(S), NEW t \in Seq(S), NEW u \in Seq(S), Begins(s, t) PROVE Begins(s, t \o u)
  <2>1. Len(s) \in Nat /\ Len(t) \in Nat /\ Len(u) \in Nat
    BY LenProperties
  <2>2. Len(t \o u) = Len(t) + Len(u) /\ \A k \in 1 .. Len(t) : (t \o u)[k] = t[k]
    BY <2>1, ConcatProperties
  <2> DEFINE v == t \o u
  <2>3. Len(v) = Len(t) + Len(u) /\ \A k \in 1 .. Len(t) : v[k] = t[k]
    BY <2>2
  <2> HIDE DEF v
  <2>4. Begins(s, v)
    BY <1>4, <2>1, <2>3 DEF Begins
  <2> QED
    BY <2>4 DEF v
<1> HIDE DEF F, N
<1>5. 0 \in P
  <2>1. n <= 0 => n = 0 /\ F[n] \in Seq(S)
    BY <1>1, <1>2
  <2> QED
    BY <1>3, <2>1
<1>6. ASSUME NEW m \in Nat, m \in P PROVE m + 1 \in P
  <2> SUFFICES ASSUME n <= m + 1, m + 1 <= N PROVE Begins(F[n], F[m + 1])
    OBVIOUS
  <2>1. CASE n = m + 1
    <3>1. F[m + 1] \in Seq(S)
      BY <1>1, <1>2
    <3> QED
      BY <1>3, <2>1, <3>1
  <2>2. CASE n # m + 1
    <3> DEFINE k == m + 1
    <3>1. n <= m /\ m <= N /\ k \in 1 .. N /\ k - 1 = m /\ m \in 0 .. N
      BY <1>2, <2>2
    <3> HIDE DEF k
    <3>2. F[k] = F[m] \o PathsOf(world.libs[k]) /\ PathsOf(world.libs[k]) \in Seq(S)
      BY <1>1, <3>1
    <3>3. F[n] \in Seq(S) /\ F[m] \in Seq(S) /\ Begins(F[n], F[m])
      BY <1>1, <1>2, <1>6, <3>1
    <3>4. Begins(F[n], F[k])
      BY <1>4, <3>2, <3>3
    <3> QED
      BY <3>4 DEF k
  <2> QED
    BY <2>1, <2>2
<1> HIDE DEF P
<1>7. N \in P
  BY <1>2, <1>5, <1>6, SetInduction
<1>8. Begins(F[n], F[N]) /\ F[n] \in Seq(S) /\ F[N] \in Seq(S)
  BY <1>1, <1>2, <1>7 DEF P
<1>9. IsPrefix(F[n], F[N])
  BY <1>8, BeginsIsPrefix
<1> QED
  BY <1>1, <1>9 DEF F

\* TinyCC is given, library by library, what the first directory that has it
\* has: a library that is missing costs the others nothing, and a script that
\* is malformed adds nothing and gives way to the next directory.
THEOREM ResolvedInOrderHolds == Spec => []ResolvedInOrder
<1>1. Init => IInv /\ SearchedInv
  BY IInvInit, SearchedInit
<1>2. IInv /\ SearchedInv /\ [Next]_vars => (IInv /\ SearchedInv)'
  BY IInvNext, SearchedNext
<1>3. IInv /\ SearchedInv => ResolvedInOrder
  <2> SUFFICES ASSUME IInv, SearchedInv, phase # "conf", Clear
               PROVE  IsPrefix(resolved, AllPaths) /\ (phase = "done" => resolved = AllPaths)
    BY DEF ResolvedInOrder
  <2>1. resolved = Flat(Paths)[i - 1] /\ (phase = "done" => i = Len(world.libs) + 1)
    BY DEF SearchedInv, Searched
  <2>2. i - 1 \in 0 .. Len(world.libs) /\ (i = Len(world.libs) + 1 => i - 1 = Len(world.libs))
    BY SearchFacts
  <2>3. IsPrefix(resolved, AllPaths)
    BY <2>1, <2>2, PathsBegin
  <2>4. AllPaths = Flat(Paths)[Len(world.libs)]
    BY PathsSteps
  <2> QED
    BY <2>1, <2>2, <2>3, <2>4
<1> QED
  BY <1>1, <1>2, <1>3, PTL DEF Spec
=============================================================================
