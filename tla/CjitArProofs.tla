---------------------------- MODULE CjitArProofs ----------------------------
(***************************************************************************)
(* For any objects, archives and commands: a creation that is successful   *)
(* leaves the whole archive with an index that points to its members, one  *)
(* that fails leaves nothing, and what is read is read to the first member *)
(* that is broken.                                                         *)
(***************************************************************************)
EXTENDS CjitAr, SequenceTheorems, WellFoundedInduction, TLAPS

\* What the temporary file and the index are made of.
MemberOf(o) == Member(Stored[o], Objects[o].size, o)
Bodies == {MemberOf(o) : o \in {x \in DOMAIN Objects : Objects[x].kind = "obj"}}
Entry == [sym : Symbols, at : Nat]

\* The entries an object adds to the index, and the symbols of entries.
Entries(syms, at) == [j \in DOMAIN syms |-> [sym |-> syms[j], at |-> at]]
SymbolsIn(entries) == [j \in DOMAIN entries |-> entries[j].sym]

\* An archive is a sequence of members that breaks off, if it does, in one.
Sound(a) ==
  a.kind = "ar" => /\ a.members \in Seq(Range(a.members))
                   /\ \A m \in Range(a.members) : m.data # "part"
                   /\ a.cut # "no" => a.members # <<>>

\* The temporary file holds the objects so far, in order.
Written ==
  /\ k \in 1 .. Len(cmd.objs) + 1 /\ Len(body) = k - 1
  /\ \A j \in 1 .. k - 1 : /\ Objects[cmd.objs[j]].kind = "obj"
                           /\ body[j] = MemberOf(cmd.objs[j])

\* The command names objects with a symbol table, and nothing else.
Regular ==
  \A j \in DOMAIN cmd.objs : /\ Objects[cmd.objs[j]].kind = "obj"
                             /\ Objects[cmd.objs[j]].symtab

\* The index holds their symbols in order, each with the position of its
\* object in the temporary file.
Indexed ==
  /\ SymbolsIn(index) = SymbolsTo(cmd.objs, k - 1)
  /\ \A j \in DOMAIN index : \E n \in 1 .. k - 1 :
       /\ index[j].at = SpanTo(body, n - 1)
       /\ index[j].sym \in Range(Objects[cmd.objs[n]].syms)

Building ==
  /\ index \in Seq(Entry) /\ body \in Seq(Bodies)
  /\ fpos = Span(body) /\ \A j \in DOMAIN index : index[j].at < fpos
  /\ symtab \in Seq(Symbols) \cup {Unset}
  /\ phase \in {"begin", "temporary"} =>
       k = 1 /\ index = <<>> /\ body = <<>> /\ symtab = Unset /\ printed = <<>>
  /\ phase \in {"temporary", "objects"} => cmd.op = "create"
  /\ phase = "objects" => Written /\ (Regular => Indexed)

\* fs are the first n members, extracted, the last of a name winning.
Made(fs, n) ==
  \A j \in 1 .. n :
    LET m == archive.members[j] IN
    \/ IsIndex(m)
    \/ \E i \in j + 1 .. n : archive.members[i].name = m.name
    \/ m.name \in DOMAIN fs /\ fs[m.name] = m.data

Reading ==
  phase = "members" =>
    /\ cmd.op # "create" /\ archive.kind = "ar" /\ k \in 1 .. Len(archive.members) + 1
    /\ archive.cut # "no" => k <= Len(archive.members)
    /\ cmd.op = "table" => printed = NamesTo(archive.members, k - 1)
    /\ cmd.op = "extract" => Made(files, k - 1)

IInv ==
  /\ TypeOK
  /\ cmd.objs \in Seq(DOMAIN Objects)
  /\ Sound(archive) /\ Building /\ Reading
  /\ ArchiveWhole /\ IndexPointsToMember /\ ReadToTheBreak
-----------------------------------------------------------------------------
(* Recursive functions *)

LEMMA NatLeast ==
  ASSUME NEW T, T \subseteq Nat, T # {}
  PROVE  \E m \in T : \A t \in T : m <= t
<1> DEFINE R == {p \in Nat \X Nat : p[1] < p[2]}
<1>1. IsWellFoundedOn(R, Nat)
  BY NatLessThanWellFounded DEF OpToRel
<1> HIDE DEF R
<1>2. PICK m \in T : \A y \in T : ~(<<y, m>> \in R)
  BY <1>1, WFMin
<1>3. ASSUME NEW t \in T PROVE m <= t
  <2>1. t \in Nat /\ m \in Nat /\ ~(<<t, m>> \in R)
    BY <1>2
  <2> QED
    BY <2>1 DEF R
<1> QED
  BY <1>3

LEMMA SetInduction ==
  ASSUME NEW P, 0 \in P, \A n \in Nat : n \in P => n + 1 \in P
  PROVE  \A n \in Nat : n \in P
<1> SUFFICES ASSUME NEW n \in Nat, n \notin P PROVE FALSE
  OBVIOUS
<1> DEFINE T == {t \in Nat : t \notin P}
<1>1. PICK m \in T : \A t \in T : m <= t
  BY NatLeast
<1>2. m # 0 /\ m - 1 \in Nat /\ m - 1 \in P
  BY <1>1
<1> QED
  BY <1>1, <1>2

\* f begins with a, and each of its n other values is that of g for the index
\* and the value before.
Solves(f, n, T, a, g) ==
  f \in [0 .. n -> T] /\ f[0] = a /\ \A j \in 1 .. n : f[j] = g[<<j, f[j - 1]>>]

LEMMA RecExists ==
  ASSUME NEW n \in Nat, NEW T, NEW a \in T, NEW g \in [(1 .. n) \X T -> T]
  PROVE  \E f : Solves(f, n, T, a, g)
<1> DEFINE Is(f, m) == f \in [0 .. m -> T] /\ f[0] = a /\ \A j \in 1 .. m : f[j] = g[<<j, f[j - 1]>>]
           P == {m \in Nat : m <= n => \E f : Is(f, m)}
<1>1. 0 \in P
  <2> DEFINE f == [j \in 0 .. 0 |-> a]
  <2>1. Is(f, 0)
    OBVIOUS
  <2> QED
    BY <2>1
<1>2. ASSUME NEW m \in Nat, m \in P PROVE m + 1 \in P
  <2> SUFFICES ASSUME m + 1 <= n PROVE \E f : Is(f, m + 1)
    OBVIOUS
  <2>1. PICK f : Is(f, m)
    BY <1>2
  <2> DEFINE h == [j \in 0 .. m + 1 |-> IF j <= m THEN f[j] ELSE g[<<m + 1, f[m]>>]]
  <2>2. m \in 0 .. m /\ f[m] \in T /\ m + 1 \in 1 .. n
    BY <2>1
  <2>3. g[<<m + 1, f[m]>>] \in T
    BY <2>2
  <2>4. h \in [0 .. m + 1 -> T]
    BY <2>1, <2>3
  <2>5. h[0] = a
    BY <2>1
  <2>6. ASSUME NEW j \in 1 .. m + 1 PROVE h[j] = g[<<j, h[j - 1]>>]
    <3>1. h[j - 1] = f[j - 1]
      OBVIOUS
    <3>2. CASE j <= m
      <4>1. h[j] = f[j] /\ j \in 1 .. m
        BY <3>2
      <4> QED
        BY <2>1, <3>1, <4>1
    <3>3. CASE j = m + 1
      <4>1. h[j] = g[<<m + 1, f[m]>>] /\ j - 1 = m
        BY <3>3
      <4> QED
        BY <3>1, <3>3, <4>1
    <3> QED
      BY <3>2, <3>3
  <2> HIDE DEF h
  <2> QED
    BY <2>4, <2>5, <2>6
<1> HIDE DEF P
<1>3. n \in P
  BY <1>1, <1>2, SetInduction
<1> QED
  BY <1>3 DEF P, Solves

\* The bytes in front of a member, one member after the other.
LEMMA BytesType == \A m : m.size \in Nat => Bytes(m) \in Nat \ {0}
BY DEF Bytes, HeaderSize

LEMMA SpanSteps ==
  ASSUME NEW M, NEW s \in Seq(M), \A m \in M : m.size \in Nat
  PROVE  /\ SpanTo(s, 0) = 0
         /\ \A j \in 1 .. Len(s) : SpanTo(s, j) = SpanTo(s, j - 1) + Bytes(s[j])
         /\ \A j \in 0 .. Len(s) : SpanTo(s, j) \in Nat
<1> DEFINE n == Len(s)
           w == [j \in 1 .. n |-> Bytes(s[j])]
           Is(f) == f = [j \in 0 .. n |-> IF j = 0 THEN 0 ELSE f[j - 1] + Bytes(s[j])]
<1>1. n \in Nat /\ \A j \in 1 .. n : Bytes(s[j]) \in Nat
  BY LenProperties, ElementOfSeq, BytesType
<1> HIDE DEF n
<1>2. w \in [1 .. n -> Nat] /\ 0 \in Nat
  BY <1>1
<1>3. \E f : Is(f)
  <2> DEFINE g == [p \in (1 .. n) \X Nat |-> p[2] + w[p[1]]]
  <2>1. g \in [(1 .. n) \X Nat -> Nat]
    BY <1>2
  <2>2. PICK f \in [0 .. n -> Nat] : f[0] = 0 /\ \A j \in 1 .. n : f[j] = g[<<j, f[j - 1]>>]
    <3> HIDE DEF g, Is
    <3>1. PICK f : Solves(f, n, Nat, 0, g)
      BY <1>1, <1>2, <2>1, RecExists
    <3> QED
      BY <3>1 DEF Solves
  <2>3. ASSUME NEW j \in 1 .. n PROVE f[j] = f[j - 1] + Bytes(s[j])
    <3>1. f[j - 1] \in Nat /\ j - 1 \in 0 .. n
      BY <1>1
    <3> QED
      BY <2>2, <3>1
  <2>4. f = [j \in 0 .. n |-> f[j]]
    OBVIOUS
  <2>5. \A j \in 0 .. n : f[j] = IF j = 0 THEN 0 ELSE f[j - 1] + Bytes(s[j])
    BY <1>1, <2>2, <2>3
  <2>6. Is(f)
    BY <2>4, <2>5
  <2> QED
    BY <2>6
<1> DEFINE f == CHOOSE x : Is(x)
<1>4. Is(f)
  BY <1>3
<1>5. \A j : SpanTo(s, j) = f[j]
  BY DEF SpanTo, n
<1> HIDE DEF f
<1>6. f[0] = 0 /\ \A j \in 1 .. n : f[j] = f[j - 1] + Bytes(s[j])
  BY <1>1, <1>4
<1> HIDE DEF Is
<1> DEFINE P == {m \in Nat : m <= n => f[m] \in Nat}
<1>7. 0 \in P
  BY <1>6
<1>8. ASSUME NEW m \in Nat, m \in P PROVE m + 1 \in P
  <2> SUFFICES ASSUME m + 1 <= n PROVE f[m + 1] \in Nat
    OBVIOUS
  <2>1. f[m] \in Nat /\ m + 1 \in 1 .. n /\ m + 1 - 1 = m
    BY <1>1, <1>8
  <2>2. f[m + 1] = f[m] + Bytes(s[m + 1]) /\ Bytes(s[m + 1]) \in Nat
    BY <1>1, <1>6, <2>1
  <2> QED
    BY <2>1, <2>2
<1> HIDE DEF P
<1>9. \A j \in Nat : j \in P
  BY <1>7, <1>8, SetInduction
<1>10. \A j \in 0 .. n : f[j] \in Nat
  BY <1>1, <1>9 DEF P
<1> QED
  BY <1>5, <1>6, <1>10 DEF n

LEMMA SymbolsSteps ==
  ASSUME NEW s \in Seq(DOMAIN Objects), \A j \in 1 .. Len(s) : Objects[s[j]].syms \in Seq(Symbols)
  PROVE  /\ SymbolsTo(s, 0) = <<>>
         /\ \A j \in 1 .. Len(s) : SymbolsTo(s, j) = SymbolsTo(s, j - 1) \o Objects[s[j]].syms
<1> DEFINE n == Len(s)
           w == [j \in 1 .. n |-> Objects[s[j]].syms]
           Is(f) == f = [j \in 0 .. n |-> IF j = 0 THEN <<>> ELSE f[j - 1] \o Objects[s[j]].syms]
<1>1. n \in Nat
  BY LenProperties
<1>2. w \in [1 .. n -> Seq(Symbols)] /\ <<>> \in Seq(Symbols)
  OBVIOUS
<1> HIDE DEF n
<1>3. \E f : Is(f)
  <2> DEFINE g == [p \in (1 .. n) \X Seq(Symbols) |-> p[2] \o w[p[1]]]
  <2>1. g \in [(1 .. n) \X Seq(Symbols) -> Seq(Symbols)]
    <3>1. \A p \in (1 .. n) \X Seq(Symbols) : p[2] \o w[p[1]] \in Seq(Symbols)
      <4> HIDE DEF w
      <4> QED
        BY <1>2, ConcatProperties
    <3> HIDE DEF w
    <3> QED
      BY <3>1
  <2>2. PICK f \in [0 .. n -> Seq(Symbols)] : f[0] = <<>> /\ \A j \in 1 .. n : f[j] = g[<<j, f[j - 1]>>]
    <3> HIDE DEF g, Is
    <3>1. PICK f : Solves(f, n, Seq(Symbols), <<>>, g)
      BY <1>1, <1>2, <2>1, RecExists
    <3> QED
      BY <3>1 DEF Solves
  <2>3. ASSUME NEW j \in 1 .. n PROVE f[j] = f[j - 1] \o Objects[s[j]].syms
    <3>1. f[j - 1] \in Seq(Symbols) /\ j - 1 \in 0 .. n
      BY <1>1
    <3>2. f[j] = g[<<j, f[j - 1]>>]
      BY <2>2
    <3>3. g[<<j, f[j - 1]>>] = f[j - 1] \o w[j]
      <4> HIDE DEF w
      <4> QED
        BY <3>1
    <3> QED
      BY <3>2, <3>3
  <2>4. f = [j \in 0 .. n |-> f[j]]
    OBVIOUS
  <2>5. \A j \in 0 .. n : f[j] = IF j = 0 THEN <<>> ELSE f[j - 1] \o Objects[s[j]].syms
    <3>1. \A j \in 0 .. n : j # 0 => j \in 1 .. n
      BY <1>1
    <3> QED
      BY <2>2, <2>3, <3>1, Zenon
  <2>6. Is(f)
    BY <2>4, <2>5
  <2> QED
    BY <2>6
<1> DEFINE f == CHOOSE x : Is(x)
<1>4. Is(f)
  BY <1>3
<1>5. \A j : SymbolsTo(s, j) = f[j]
  BY DEF SymbolsTo, n
<1> HIDE DEF f
<1>6. f[0] = <<>> /\ \A j \in 1 .. n : f[j] = f[j - 1] \o Objects[s[j]].syms
  <2>1. 0 \in 0 .. n /\ \A j \in 1 .. n : j \in 0 .. n /\ j # 0
    BY <1>1
  <2> QED
    BY <1>4, <2>1, Zenon
<1> QED
  BY <1>5, <1>6 DEF n

LEMMA NamesSteps ==
  ASSUME NEW M, NEW s \in Seq(M)
  PROVE  /\ NamesTo(s, 0) = <<>>
         /\ \A j \in 1 .. Len(s) :
              NamesTo(s, j) = IF IsIndex(s[j]) THEN NamesTo(s, j - 1)
                              ELSE Append(NamesTo(s, j - 1), s[j].name)
<1> DEFINE n == Len(s)
           X == {s[j].name : j \in 1 .. n}
           Is(f) == f = [j \in 0 .. n |->
                          IF j = 0 THEN <<>>
                          ELSE IF IsIndex(s[j]) THEN f[j - 1] ELSE Append(f[j - 1], s[j].name)]
<1>1. n \in Nat /\ \A j \in 1 .. n : s[j].name \in X
  BY LenProperties
<1>2. <<>> \in Seq(X)
  OBVIOUS
<1> HIDE DEF n, X
<1>3. \E f : Is(f)
  <2> DEFINE step(p) == IF IsIndex(s[p[1]]) THEN p[2] ELSE Append(p[2], s[p[1]].name)
             g == [p \in (1 .. n) \X Seq(X) |-> step(p)]
  <2>1. g \in [(1 .. n) \X Seq(X) -> Seq(X)]
    <3>1. ASSUME NEW p \in (1 .. n) \X Seq(X) PROVE step(p) \in Seq(X)
      BY <1>1, AppendProperties
    <3> HIDE DEF step
    <3> QED
      BY <3>1
  <2>2. PICK f \in [0 .. n -> Seq(X)] : f[0] = <<>> /\ \A j \in 1 .. n : f[j] = g[<<j, f[j - 1]>>]
    <3> HIDE DEF g, Is
    <3>1. PICK f : Solves(f, n, Seq(X), <<>>, g)
      BY <1>1, <1>2, <2>1, RecExists
    <3> QED
      BY <3>1 DEF Solves
  <2>3. ASSUME NEW j \in 1 .. n
        PROVE  f[j] = IF IsIndex(s[j]) THEN f[j - 1] ELSE Append(f[j - 1], s[j].name)
    <3>1. <<j, f[j - 1]>> \in (1 .. n) \X Seq(X)
      BY <1>1
    <3>2. f[j] = g[<<j, f[j - 1]>>]
      BY <2>2
    <3>3. g[<<j, f[j - 1]>>] = step(<<j, f[j - 1]>>)
      BY <3>1
    <3> QED
      BY <3>2, <3>3
  <2>4. f = [j \in 0 .. n |-> f[j]]
    OBVIOUS
  <2>5. \A j \in 0 .. n : f[j] = IF j = 0 THEN <<>>
                                ELSE IF IsIndex(s[j]) THEN f[j - 1] ELSE Append(f[j - 1], s[j].name)
    <3>1. \A j \in 0 .. n : j # 0 => j \in 1 .. n
      BY <1>1
    <3> QED
      BY <2>2, <2>3, <3>1, Zenon
  <2>6. Is(f)
    BY <2>4, <2>5
  <2> QED
    BY <2>6
<1> DEFINE f == CHOOSE x : Is(x)
<1>4. Is(f)
  BY <1>3
<1>5. \A j : NamesTo(s, j) = f[j]
  BY DEF NamesTo, n
<1> HIDE DEF f
<1>6. /\ f[0] = <<>>
      /\ \A j \in 1 .. n : f[j] = IF IsIndex(s[j]) THEN f[j - 1] ELSE Append(f[j - 1], s[j].name)
  <2>1. 0 \in 0 .. n /\ \A j \in 1 .. n : j \in 0 .. n /\ j # 0
    BY <1>1
  <2> QED
    BY <1>4, <2>1, Zenon
<1> QED
  BY <1>5, <1>6 DEF n

LEMMA NamesType == index \in Seq(Entry) => Names \in Nat
<1> SUFFICES ASSUME index \in Seq(Entry) PROVE Names \in Nat
  OBVIOUS
<1> DEFINE n == Len(index)
           w == [j \in 1 .. n |-> SymSize[index[j].sym]]
           Is(f) == f = [j \in 0 .. n |-> IF j = 0 THEN 0 ELSE f[j - 1] + SymSize[index[j].sym]]
<1>1. n \in Nat /\ \A j \in 1 .. n : SymSize[index[j].sym] \in Nat
  <2>1. n \in Nat /\ \A j \in 1 .. n : index[j] \in Entry
    BY LenProperties, ElementOfSeq
  <2> QED
    BY <2>1, ArAssumption DEF ArAssumption, Entry
<1> HIDE DEF n
<1>2. w \in [1 .. n -> Nat] /\ 0 \in Nat
  BY <1>1
<1>3. \E f : Is(f)
  <2> DEFINE g == [p \in (1 .. n) \X Nat |-> p[2] + w[p[1]]]
  <2>1. g \in [(1 .. n) \X Nat -> Nat]
    BY <1>2
  <2>2. PICK f \in [0 .. n -> Nat] : f[0] = 0 /\ \A j \in 1 .. n : f[j] = g[<<j, f[j - 1]>>]
    <3> HIDE DEF g, Is
    <3>1. PICK f : Solves(f, n, Nat, 0, g)
      BY <1>1, <1>2, <2>1, RecExists
    <3> QED
      BY <3>1 DEF Solves
  <2>3. ASSUME NEW j \in 1 .. n PROVE f[j] = f[j - 1] + SymSize[index[j].sym]
    <3>1. f[j - 1] \in Nat /\ j - 1 \in 0 .. n
      BY <1>1
    <3> QED
      BY <2>2, <3>1
  <2>4. f = [j \in 0 .. n |-> f[j]]
    OBVIOUS
  <2>5. \A j \in 0 .. n : f[j] = IF j = 0 THEN 0 ELSE f[j - 1] + SymSize[index[j].sym]
    BY <1>1, <2>2, <2>3
  <2>6. Is(f)
    BY <2>4, <2>5
  <2> QED
    BY <2>6
<1> DEFINE f == CHOOSE x : Is(x)
<1>4. Is(f)
  BY <1>3
<1>5. Names = f[n]
  BY DEF Names, n
<1> HIDE DEF f
<1>6. f[0] = 0 /\ \A j \in 1 .. n : f[j] = f[j - 1] + SymSize[index[j].sym]
  BY <1>1, <1>4
<1> HIDE DEF Is
<1> DEFINE P == {m \in Nat : m <= n => f[m] \in Nat}
<1>7. 0 \in P
  BY <1>6
<1>8. ASSUME NEW m \in Nat, m \in P PROVE m + 1 \in P
  <2> SUFFICES ASSUME m + 1 <= n PROVE f[m + 1] \in Nat
    OBVIOUS
  <2>1. f[m] \in Nat /\ m + 1 \in 1 .. n /\ m + 1 - 1 = m
    BY <1>1, <1>8
  <2>2. f[m + 1] = f[m] + SymSize[index[m + 1].sym] /\ SymSize[index[m + 1].sym] \in Nat
    BY <1>1, <1>6, <2>1
  <2> QED
    BY <2>1, <2>2
<1> HIDE DEF P
<1>9. n \in P
  BY <1>1, <1>7, <1>8, SetInduction
<1> QED
  BY <1>1, <1>5, <1>9 DEF P

-----------------------------------------------------------------------------
(* Sequences of members and of entries *)

LEMMA ConsProperties ==
  ASSUME NEW M, NEW x \in M, NEW s \in Seq(M)
  PROVE  LET t == <<x>> \o s IN
         /\ t \in Seq(M) /\ t # <<>> /\ Len(t) = Len(s) + 1 /\ DOMAIN t = 1 .. Len(s) + 1
         /\ t[1] = x /\ \A j \in 1 .. Len(s) : t[j + 1] = s[j]
         /\ Head(t) = x /\ Tail(t) = s
<1> DEFINE u == <<x>>
           t == u \o s
<1>1. u \in Seq(M) /\ Len(u) = 1 /\ u[1] = x
  OBVIOUS
<1> HIDE DEF u
<1>2. /\ u \o s \in Seq(M) /\ Len(u \o s) = Len(u) + Len(s)
      /\ \A i \in 1 .. Len(u) + Len(s) : (u \o s)[i] = IF i <= Len(u) THEN u[i] ELSE s[i - Len(u)]
  BY <1>1, ConcatProperties, Zenon
<1> HIDE DEF t
<1>3. Len(s) \in Nat
  BY LenProperties
<1>4. /\ t \in Seq(M) /\ Len(t) = Len(s) + 1
      /\ \A i \in 1 .. Len(s) + 1 : t[i] = IF i <= 1 THEN u[i] ELSE s[i - 1]
  BY <1>1, <1>2, <1>3 DEF t
<1>5. t[1] = x /\ \A j \in 1 .. Len(s) : t[j + 1] = s[j]
  <2>1. 1 \in 1 .. Len(s) + 1 /\ \A j \in 1 .. Len(s) : j + 1 \in 1 .. Len(s) + 1 /\ ~(j + 1 <= 1) /\ j + 1 - 1 = j
    BY <1>3
  <2> QED
    BY <1>1, <1>4, <2>1
<1>6. t # <<>> /\ DOMAIN t = 1 .. Len(s) + 1
  BY <1>3, <1>4, LenProperties, EmptySeq
<1>7. Head(t) = x
  BY <1>4, <1>5, <1>6
<1>8. Tail(t) = s
  <2>1. /\ Tail(t) \in Seq(M) /\ Len(Tail(t)) = Len(t) - 1
        /\ \A i \in 1 .. Len(Tail(t)) : Tail(t)[i] = t[i + 1]
    BY <1>4, <1>6, HeadTailProperties
  <2>2. Len(Tail(t)) = Len(s)
    BY <1>3, <1>4, <2>1
  <2>3. \A i \in 1 .. Len(Tail(t)) : Tail(t)[i] = s[i]
    BY <1>5, <2>1, <2>2
  <2> QED
    BY <2>1, <2>2, <2>3, SeqEqual
<1> QED
  BY <1>4, <1>5, <1>6, <1>7, <1>8 DEF t, u

LEMMA SpanSame ==
  ASSUME NEW M, NEW s \in Seq(M), NEW t \in Seq(M), \A m \in M : m.size \in Nat,
         NEW n \in Nat, n <= Len(s), n <= Len(t), \A j \in 1 .. n : s[j] = t[j]
  PROVE  SpanTo(s, n) = SpanTo(t, n)
<1>1. /\ SpanTo(s, 0) = 0 /\ SpanTo(t, 0) = 0
      /\ \A j \in 1 .. Len(s) : SpanTo(s, j) = SpanTo(s, j - 1) + Bytes(s[j])
      /\ \A j \in 1 .. Len(t) : SpanTo(t, j) = SpanTo(t, j - 1) + Bytes(t[j])
      /\ Len(s) \in Nat /\ Len(t) \in Nat
  BY SpanSteps, LenProperties
<1> DEFINE P == {m \in Nat : m <= n => SpanTo(s, m) = SpanTo(t, m)}
<1>2. 0 \in P
  BY <1>1
<1>3. ASSUME NEW m \in Nat, m \in P PROVE m + 1 \in P
  <2> SUFFICES ASSUME m + 1 <= n PROVE SpanTo(s, m + 1) = SpanTo(t, m + 1)
    OBVIOUS
  <2>1. /\ m + 1 \in 1 .. Len(s) /\ m + 1 \in 1 .. Len(t) /\ m + 1 - 1 = m
        /\ s[m + 1] = t[m + 1] /\ SpanTo(s, m) = SpanTo(t, m)
    BY <1>1, <1>3
  <2> QED
    BY <1>1, <2>1
<1> HIDE DEF P
<1>4. n \in P
  BY <1>2, <1>3, SetInduction
<1> QED
  BY <1>4 DEF P

\* A member in front moves all the others by its bytes.
LEMMA SpanCons ==
  ASSUME NEW M, NEW x \in M, NEW s \in Seq(M), \A m \in M : m.size \in Nat, NEW n \in 0 .. Len(s)
  PROVE  SpanTo(<<x>> \o s, n + 1) = Bytes(x) + SpanTo(s, n)
<1> DEFINE t == <<x>> \o s
<1>1. t \in Seq(M) /\ Len(t) = Len(s) + 1 /\ t[1] = x /\ \A j \in 1 .. Len(s) : t[j + 1] = s[j]
  BY ConsProperties
<1> HIDE DEF t
<1>2. /\ SpanTo(s, 0) = 0 /\ SpanTo(t, 0) = 0
      /\ \A j \in 1 .. Len(s) : SpanTo(s, j) = SpanTo(s, j - 1) + Bytes(s[j])
      /\ \A j \in 1 .. Len(t) : SpanTo(t, j) = SpanTo(t, j - 1) + Bytes(t[j])
      /\ \A j \in 0 .. Len(s) : SpanTo(s, j) \in Nat
      /\ Len(s) \in Nat /\ Bytes(x) \in Nat /\ \A j \in 1 .. Len(s) : Bytes(s[j]) \in Nat
  <2>1. \A j \in 1 .. Len(s) : s[j] \in M
    BY ElementOfSeq
  <2> QED
    BY <1>1, <2>1, SpanSteps, LenProperties, BytesType
<1> DEFINE P == {m \in Nat : m <= Len(s) => SpanTo(t, m + 1) = Bytes(x) + SpanTo(s, m)}
<1>3. 0 \in P
  <2>1. 1 \in 1 .. Len(t) /\ 1 - 1 = 0
    BY <1>1, <1>2
  <2>2. SpanTo(t, 1) = SpanTo(t, 0) + Bytes(t[1])
    BY <1>2, <2>1
  <2> QED
    BY <1>1, <1>2, <2>2
<1>4. ASSUME NEW m \in Nat, m \in P PROVE m + 1 \in P
  <2> SUFFICES ASSUME m + 1 <= Len(s) PROVE SpanTo(t, m + 1 + 1) = Bytes(x) + SpanTo(s, m + 1)
    OBVIOUS
  <2>1. /\ m + 1 \in 1 .. Len(s) /\ m + 1 + 1 \in 1 .. Len(t) /\ m + 1 - 1 = m /\ m + 1 + 1 - 1 = m + 1
        /\ SpanTo(t, m + 1) = Bytes(x) + SpanTo(s, m)
    <3>1. Len(t) = Len(s) + 1 /\ Len(s) \in Nat
      BY <1>1, <1>2
    <3>2. m <= Len(s) /\ m + 1 \in 1 .. Len(s) /\ m + 1 + 1 \in 1 .. Len(t)
      BY <3>1
    <3>3. m + 1 - 1 = m /\ m + 1 + 1 - 1 = m + 1
      OBVIOUS
    <3> QED
      BY <1>4, <3>2, <3>3
  <2>2. SpanTo(t, m + 1 + 1) = SpanTo(t, m + 1) + Bytes(t[m + 1 + 1]) /\ t[m + 1 + 1] = s[m + 1]
    <3>1. \A j \in 1 .. Len(t) : SpanTo(t, j) = SpanTo(t, j - 1) + Bytes(t[j])
      BY <1>2
    <3>2. \A j \in 1 .. Len(s) : t[j + 1] = s[j]
      BY <1>1
    <3> QED
      BY <2>1, <3>1, <3>2
  <2>3. SpanTo(s, m + 1) = SpanTo(s, m) + Bytes(s[m + 1])
    BY <1>2, <2>1
  <2>4. SpanTo(s, m) \in Nat /\ Bytes(s[m + 1]) \in Nat
    <3>1. m \in 0 .. Len(s) /\ m + 1 \in 1 .. Len(s)
      BY <1>2, <2>1
    <3>2. /\ \A j \in 0 .. Len(s) : SpanTo(s, j) \in Nat
          /\ \A j \in 1 .. Len(s) : Bytes(s[j]) \in Nat
      BY <1>2
    <3> QED
      BY <3>1, <3>2
  <2> QED
    BY <1>2, <2>1, <2>2, <2>3, <2>4
<1> HIDE DEF P
<1>5. n \in Nat /\ n <= Len(s)
  BY <1>2
<1>6. n \in P
  BY <1>3, <1>4, <1>5, SetInduction
<1> QED
  BY <1>5, <1>6 DEF P, t

LEMMA EntriesAdded ==
  ASSUME NEW s \in Seq(Entry), NEW syms \in Seq(Symbols), NEW at \in Nat
  PROVE  LET t == s \o Entries(syms, at) IN
         /\ t \in Seq(Entry) /\ SymbolsIn(t) = SymbolsIn(s) \o syms
         /\ \A j \in DOMAIN t : \/ j \in DOMAIN s /\ t[j] = s[j]
                                \/ t[j].at = at /\ t[j].sym \in Range(syms)
<1> DEFINE e == Entries(syms, at)
           t == s \o e
           m == Len(s)
           n == Len(syms)
<1>1. m \in Nat /\ n \in Nat /\ DOMAIN s = 1 .. m /\ DOMAIN syms = 1 .. n
      /\ (\A j \in 1 .. n : syms[j] \in Symbols) /\ \A j \in 1 .. m : s[j] \in Entry
  BY LenProperties, ElementOfSeq
<1> HIDE DEF m, n
<1>2. /\ e \in Seq(Entry) /\ Len(e) = n
      /\ \A j \in 1 .. n : e[j].sym = syms[j] /\ e[j].at = at
  <2>1. e = [j \in 1 .. n |-> [sym |-> syms[j], at |-> at]]
    BY <1>1 DEF Entries
  <2>2. \A j \in 1 .. n : [sym |-> syms[j], at |-> at] \in Entry
    BY <1>1 DEF Entry
  <2>3. e \in [1 .. n -> Entry]
    BY <2>1, <2>2
  <2>4. e \in Seq(Entry)
    BY <1>1, <2>3, SeqDef
  <2>5. Len(e) = n
    BY <1>1, <2>1, <2>4, LenProperties
  <2>6. \A j \in 1 .. n : e[j] = [sym |-> syms[j], at |-> at]
    <3> HIDE DEF e
    <3> QED
      BY <2>1
  <2> HIDE DEF e
  <2> QED
    BY <2>4, <2>5, <2>6
<1> HIDE DEF e
<1>3. /\ s \o e \in Seq(Entry) /\ Len(s \o e) = Len(s) + Len(e)
      /\ \A i \in 1 .. Len(s) + Len(e) : (s \o e)[i] = IF i <= Len(s) THEN s[i] ELSE e[i - Len(s)]
  BY <1>2, ConcatProperties, Zenon
<1> HIDE DEF t
<1>4. /\ t \in Seq(Entry) /\ Len(t) = m + n
      /\ \A i \in 1 .. m + n : t[i] = IF i <= m THEN s[i] ELSE e[i - m]
  BY <1>2, <1>3 DEF t, m
<1>5. DOMAIN t = 1 .. m + n
  BY <1>4, LenProperties
<1>6. ASSUME NEW j \in DOMAIN t
      PROVE  \/ j \in DOMAIN s /\ t[j] = s[j]
             \/ t[j].at = at /\ t[j].sym \in Range(syms)
  <2>1. CASE j <= m
    BY <1>1, <1>4, <1>5, <2>1
  <2>2. CASE ~(j <= m)
    <3>1. j - m \in 1 .. n /\ t[j] = e[j - m]
      BY <1>1, <1>4, <1>5, <2>2
    <3> QED
      BY <1>1, <1>2, <3>1 DEF Range
  <2> QED
    BY <2>1, <2>2
<1>7. SymbolsIn(t) = SymbolsIn(s) \o syms
  <2> DEFINE a == SymbolsIn(t)
             b == SymbolsIn(s)
  <2>1. b \in Seq(Symbols) /\ Len(b) = m /\ \A j \in 1 .. m : b[j] = s[j].sym
    <3>1. b = [j \in 1 .. m |-> s[j].sym] /\ \A j \in 1 .. m : s[j].sym \in Symbols
      BY <1>1 DEF SymbolsIn, Entry
    <3>2. b \in Seq(Symbols)
      BY <1>1, <3>1, SeqDef
    <3> QED
      BY <1>1, <3>1, <3>2, LenProperties
  <2>2. a \in Seq(Symbols) /\ Len(a) = m + n /\ \A j \in 1 .. m + n : a[j] = t[j].sym
    <3>1. \A j \in 1 .. m + n : t[j].sym \in Symbols
      <4>1. \A j \in 1 .. m + n : t[j] \in Entry
        BY <1>4, ElementOfSeq
      <4> QED
        BY <4>1 DEF Entry
    <3>2. a = [j \in 1 .. m + n |-> t[j].sym] /\ m + n \in Nat
      BY <1>1, <1>5 DEF SymbolsIn
    <3>3. a \in Seq(Symbols)
      BY <3>1, <3>2, SeqDef
    <3> QED
      BY <3>2, <3>3, LenProperties
  <2> HIDE DEF a, b
  <2>3. /\ b \o syms \in Seq(Symbols) /\ Len(b \o syms) = Len(b) + Len(syms)
        /\ \A i \in 1 .. Len(b) + Len(syms) : (b \o syms)[i] = IF i <= Len(b) THEN b[i] ELSE syms[i - Len(b)]
    BY <2>1, ConcatProperties, Zenon
  <2> DEFINE c == b \o syms
  <2> HIDE DEF c
  <2>4. /\ c \in Seq(Symbols) /\ Len(c) = m + n
        /\ \A i \in 1 .. m + n : c[i] = IF i <= m THEN b[i] ELSE syms[i - m]
    BY <2>1, <2>3 DEF c, n
  <2>5. ASSUME NEW i \in 1 .. m + n PROVE a[i] = c[i]
    <3>1. CASE i <= m
      <4>1. i \in 1 .. m
        BY <1>1, <3>1
      <4> QED
        BY <1>4, <2>1, <2>2, <2>4, <3>1, <4>1
    <3>2. CASE ~(i <= m)
      <4>1. i - m \in 1 .. n
        BY <1>1, <3>2
      <4> QED
        BY <1>2, <1>4, <2>2, <2>4, <3>2, <4>1
    <3> QED
      BY <3>1, <3>2
  <2>6. a = c
    BY <2>2, <2>4, <2>5, SeqEqual
  <2> QED
    BY <2>6 DEF a, b, c
<1> QED
  BY <1>4, <1>6, <1>7 DEF t, e

-----------------------------------------------------------------------------
(* What is written *)

LEMMA BodiesAre ==
  \A m \in Bodies : m.size \in Nat /\ m.data # "part" /\ m.symbols = <<>>
<1> SUFFICES ASSUME NEW m \in Bodies PROVE m.size \in Nat /\ m.data # "part" /\ m.symbols = <<>>
  OBVIOUS
<1>1. PICK o \in DOMAIN Objects : Objects[o].kind = "obj" /\ m = MemberOf(o)
  BY DEF Bodies
<1>2. Objects[o].size \in Nat /\ o # "part"
  BY <1>1, ArAssumption DEF ArAssumption
<1>3. m.size = Objects[o].size /\ m.data = o /\ m.symbols = <<>>
  BY <1>1 DEF MemberOf, Member
<1> QED
  BY <1>2, <1>3

LEMMA PaddedEven == \A n \in Nat : Padded(n) \in Nat /\ Padded(n) % 2 = 0
<1> SUFFICES ASSUME NEW n \in Nat PROVE Padded(n) \in Nat /\ Padded(n) % 2 = 0
  OBVIOUS
<1>1. n % 2 \in {0, 1}
  OBVIOUS
<1>2. CASE n % 2 = 0
  BY <1>2 DEF Padded
<1>3. CASE n % 2 = 1
  BY <1>3 DEF Padded
<1> QED
  BY <1>1, <1>2, <1>3

\* The index takes up what the offsets in it count on.
LEMMA IndexMemberIs ==
  ASSUME index \in Seq(Entry)
  PROVE  /\ IndexMember.name = "/" /\ IndexMember.size \in Nat /\ IndexMember.data = "index"
         /\ IndexMember.symbols = [j \in DOMAIN index |-> [index[j] EXCEPT !.at = @ + Hofs]]
         /\ Hofs = Magic + Bytes(IndexMember) /\ Hofs \in Nat
<1>1. Names \in Nat /\ Len(index) \in Nat
  BY NamesType, LenProperties
<1>2. IndexSize \in Nat
  BY <1>1 DEF IndexSize, Word
<1>3. Padded(IndexSize) \in Nat /\ Padded(IndexSize) % 2 = 0
  BY <1>2, PaddedEven
<1>4. /\ IndexMember.name = "/" /\ IndexMember.size = Padded(IndexSize) /\ IndexMember.data = "index"
      /\ IndexMember.symbols = [j \in DOMAIN index |-> [index[j] EXCEPT !.at = @ + Hofs]]
  BY DEF IndexMember, Member
<1>5. Hofs = Magic + Bytes(IndexMember) /\ Hofs \in Nat
  BY <1>3, <1>4 DEF Hofs, Bytes, HeaderSize, Magic
<1> QED
  BY <1>3, <1>4, <1>5

LEMMA ContentsAre ==
  ASSUME index \in Seq(Entry), body \in Seq(Bodies)
  PROVE  LET M == Bodies \cup {IndexMember} IN
         /\ Contents \in Seq(M) /\ \A m \in M : m.size \in Nat /\ m.data # "part"
         /\ index # <<>> => Contents = <<IndexMember>> \o body
         /\ index = <<>> => Contents = <<>>
<1> DEFINE M == Bodies \cup {IndexMember}
<1>1. \A m \in M : m.size \in Nat /\ m.data # "part"
  BY BodiesAre, IndexMemberIs
<1>2. body \in Seq(M) /\ IndexMember \in M
  BY SeqMonotonic
<1> HIDE DEF M
<1>3. <<IndexMember>> \o body \in Seq(M) /\ <<>> \in Seq(M)
  BY <1>2, ConsProperties
<1>4. Contents = IF index = <<>> THEN <<>> ELSE <<IndexMember>> \o body
  BY DEF Contents
<1> QED
  BY <1>1, <1>3, <1>4 DEF M

\* Sequences over a set are sound archives if they hold no part of a file.
LEMMA SoundArchive ==
  ASSUME NEW M, NEW s \in Seq(M), \A m \in M : m.data # "part", NEW cut, cut # "no" => s # <<>>
  PROVE  Sound(Archive(s, cut))
<1>1. s \in Seq(Range(s)) /\ \A m \in Range(s) : m.data # "part"
  BY SeqOfRange, RangeOfSeq
<1> QED
  BY <1>1 DEF Sound, Archive

LEMMA ContentsSound ==
  ASSUME index \in Seq(Entry), body \in Seq(Bodies)
  PROVE  Sound(Archive(Contents, "no"))
<1> DEFINE M == Bodies \cup {IndexMember}
<1>1. Contents \in Seq(M) /\ \A m \in M : m.data # "part"
  BY ContentsAre
<1> HIDE DEF M
<1> QED
  BY <1>1, SoundArchive

LEMMA CutShortSound ==
  ASSUME index \in Seq(Entry), body \in Seq(Bodies), NEW a \in CutShort
  PROVE  Sound(a)
<1>1. CASE a = [kind |-> "broken"]
  BY <1>1 DEF Sound
<1>2. ASSUME NEW n \in DOMAIN Contents, NEW cut, a = Archive(SubSeq(Contents, 1, n), cut)
      PROVE  Sound(a)
  <2> DEFINE M == Bodies \cup {IndexMember}
             s == SubSeq(Contents, 1, n)
  <2>1. Contents \in Seq(M) /\ \A m \in M : m.data # "part"
    BY ContentsAre
  <2> HIDE DEF M
  <2>2. DOMAIN Contents = 1 .. Len(Contents) /\ Len(Contents) \in Nat
    BY <2>1, LenProperties
  <2>3. \A i \in 1 .. n : Contents[i] \in M
    <3>1. \A i \in 1 .. Len(Contents) : Contents[i] \in M
      BY <2>1, ElementOfSeq
    <3> QED
      BY <2>2, <3>1
  <2>4. s \in Seq(M) /\ Len(s) = n
    <3>1. 1 \in Int /\ n \in Int /\ 1 <= n /\ n - 1 + 1 = n
      BY <2>2
    <3> QED
      BY <2>3, <3>1, SubSeqProperties
  <2>5. s # <<>>
    <3> HIDE DEF s
    <3> QED
      BY <2>2, <2>4, EmptySeq
  <2> QED
    BY <1>2, <2>1, <2>4, <2>5, SoundArchive
<1> QED
  BY <1>1, <1>2 DEF CutShort

\* When every object is there, the temporary file is what it should be, and
\* the index is if every object has a symbol table.
LEMMA Complete ==
  ASSUME IInv, phase = "objects", k > Len(cmd.objs)
  PROVE  /\ body = MembersOf(cmd.objs) /\ k - 1 = Len(cmd.objs) /\ Len(body) = Len(cmd.objs)
         /\ AllTabled => Indexed /\ SymbolsIn(index) = SymbolsOf(cmd.objs)
<1>1. cmd.objs \in Seq(DOMAIN Objects) /\ Written /\ (Regular => Indexed) /\ body \in Seq(Bodies)
  BY DEF IInv, Building
<1>2. Len(cmd.objs) \in Nat /\ DOMAIN cmd.objs = 1 .. Len(cmd.objs)
  BY <1>1, LenProperties
<1>3. k - 1 = Len(cmd.objs) /\ Len(body) = Len(cmd.objs)
  BY <1>1, <1>2 DEF Written
<1>4. body = MembersOf(cmd.objs)
  <2>1. body = [j \in 1 .. Len(cmd.objs) |-> body[j]]
    BY <1>1, <1>3, LenProperties
  <2>2. \A j \in 1 .. Len(cmd.objs) : body[j] = Member(Stored[cmd.objs[j]], Objects[cmd.objs[j]].size, cmd.objs[j])
    BY <1>1, <1>3 DEF Written, MemberOf
  <2> QED
    BY <1>2, <2>1, <2>2 DEF MembersOf
<1>5. ASSUME AllTabled PROVE Indexed
  BY <1>1, <1>2, <1>3, <1>5 DEF Written, Regular, AllTabled
<1>6. Indexed => SymbolsIn(index) = SymbolsOf(cmd.objs)
  BY <1>3 DEF Indexed, SymbolsOf
<1> QED
  BY <1>3, <1>4, <1>5, <1>6

LEMMA PointsThere ==
  ASSUME IInv, phase = "objects", k > Len(cmd.objs), AllTabled, index # <<>>
  PROVE  LET symbols == Head(Contents).symbols IN
         /\ [j \in DOMAIN symbols |-> symbols[j].sym] = SymbolsOf(cmd.objs)
         /\ \A j \in DOMAIN symbols : \E n \in 2 .. Len(Contents) :
              /\ symbols[j].at = Magic + SpanTo(Contents, n - 1)
              /\ symbols[j].sym \in Range(Objects[Contents[n].data].syms)
<1> DEFINE symbols == Head(Contents).symbols
           M == Bodies \cup {IndexMember}
           C == <<IndexMember>> \o body
           N == Len(body)
<1>1. /\ index \in Seq(Entry) /\ body \in Seq(Bodies) /\ Written /\ Indexed
      /\ k - 1 = N /\ SymbolsIn(index) = SymbolsOf(cmd.objs)
  BY Complete DEF IInv, Building
<1>2. body \in Seq(M) /\ IndexMember \in M /\ \A m \in M : m.size \in Nat
  BY <1>1, ContentsAre, SeqMonotonic
<1>3. Contents = C
  BY <1>1, ContentsAre
<1>4. IndexMember.symbols = [j \in DOMAIN index |-> [index[j] EXCEPT !.at = @ + Hofs]]
      /\ Hofs = Magic + Bytes(IndexMember) /\ Bytes(IndexMember) \in Nat /\ Magic \in Nat
  BY <1>1, IndexMemberIs, BytesType DEF Magic
<1> HIDE DEF M, N
<1>5. Head(C) = IndexMember /\ Len(C) = N + 1 /\ \A j \in 1 .. N : C[j + 1] = body[j]
  BY <1>2, ConsProperties DEF N
<1>6. \A n \in 0 .. N : SpanTo(C, n + 1) = Bytes(IndexMember) + SpanTo(body, n) /\ SpanTo(body, n) \in Nat
  BY <1>2, SpanCons, SpanSteps DEF N
<1> HIDE DEF C, symbols
<1>7. symbols = [j \in DOMAIN index |-> [index[j] EXCEPT !.at = @ + Hofs]]
  BY <1>3, <1>4, <1>5 DEF symbols
<1>8. DOMAIN symbols = DOMAIN index
      /\ \A j \in DOMAIN index : symbols[j].sym = index[j].sym /\ symbols[j].at = index[j].at + Hofs
  <2>1. \A j \in DOMAIN index : index[j] \in Entry
    BY <1>1, LenProperties, ElementOfSeq
  <2> QED
    BY <1>7, <2>1 DEF Entry
<1>9. [j \in DOMAIN symbols |-> symbols[j].sym] = SymbolsOf(cmd.objs)
  BY <1>1, <1>8 DEF SymbolsIn
<1>10. ASSUME NEW j \in DOMAIN symbols
       PROVE  \E n \in 2 .. Len(C) : /\ symbols[j].at = Magic + SpanTo(C, n - 1)
                                     /\ symbols[j].sym \in Range(Objects[C[n].data].syms)
  <2>1. PICK n \in 1 .. N : /\ index[j].at = SpanTo(body, n - 1)
                            /\ index[j].sym \in Range(Objects[cmd.objs[n]].syms)
    BY <1>1, <1>8 DEF Indexed
  <2>2. N \in Nat /\ n - 1 \in 0 .. N /\ n - 1 + 1 = n /\ n + 1 \in 2 .. N + 1 /\ n + 1 - 1 = n
    BY <1>1, LenProperties DEF N
  <2>3. C[n + 1] = body[n] /\ body[n] = MemberOf(cmd.objs[n])
    BY <1>1, <1>5 DEF Written
  <2>4. C[n + 1].data = cmd.objs[n]
    BY <2>3 DEF MemberOf, Member
  <2>5. SpanTo(C, n) = Bytes(IndexMember) + SpanTo(body, n - 1) /\ SpanTo(body, n - 1) \in Nat
    BY <1>6, <2>2
  <2>6. symbols[j].at = Magic + SpanTo(C, n + 1 - 1)
    BY <1>4, <1>8, <2>1, <2>2, <2>5
  <2>7. symbols[j].sym \in Range(Objects[C[n + 1].data].syms)
    BY <1>8, <2>1, <2>4
  <2> QED
    BY <1>5, <2>2, <2>6, <2>7
<1> QED
  BY <1>3, <1>9, <1>10 DEF symbols

-----------------------------------------------------------------------------
(* The invariant *)

\* Unless a creation has just succeeded, nothing is said of the archive.
LEMMA NotCreated ==
  ASSUME phase' # "idle" \/ ~cmd'.ok \/ ret' # 0 \/ full' \/ cmd'.op # "create"
  PROVE  ArchiveWhole' /\ IndexPointsToMember'
BY DEF ArchiveWhole, IndexPointsToMember, Created

LEMMA FilesStay ==
  ASSUME IInv, UNCHANGED <<files, torn>>, phase' # "idle" \/ ~cmd'.ok \/ cmd'.op = "create"
  PROVE  ReadToTheBreak'
BY DEF IInv, ReadToTheBreak, ExtractsWhole, ListsInOrder

LEMMA BuildingStays ==
  ASSUME Building, UNCHANGED building, phase' \in {"idle", "members", "killed"}
  PROVE  Building'
BY DEF Building, building

LEMMA NothingSpans == Span(<<>>) = 0 /\ SpanTo(<<>>, 0) = 0
<1>1. <<>> \in Seq(Bodies) /\ Len(<<>>) = 0
  OBVIOUS
<1>2. \A m \in Bodies : m.size \in Nat
  BY BodiesAre
<1>3. SpanTo(<<>>, 0) = 0
  BY <1>1, <1>2, SpanSteps
<1> QED
  BY <1>1, <1>3 DEF Span

LEMMA InitInv == Init => IInv
<1> SUFFICES ASSUME Init PROVE IInv
  OBVIOUS
<1> USE DEF Init
<1>1. cmd.objs \in Seq(DOMAIN Objects) /\ Len(cmd.objs) = 0 /\ ~cmd.ok
  OBVIOUS
<1>2. TypeOK
  <2>1. fpos = Span(body) /\ \A j \in DOMAIN index : index[j].at < fpos
    BY NothingSpans
  <2>2. MaxCommands \in Nat
    BY ArAssumption DEF ArAssumption
  <2>3. count \in 0 .. MaxCommands /\ ret \in 0 .. 2
    BY <2>2
  <2>4. tmp \in BOOLEAN
    OBVIOUS
  <2> QED
    BY <2>1, <2>3, <2>4 DEF TypeOK
<1>3. Sound(archive)
  BY ArAssumption DEF Sound, ArAssumption
<1>4. Building
  BY NothingSpans DEF Building
<1>5. Reading
  BY DEF Reading
<1>6. ArchiveWhole /\ IndexPointsToMember
  BY <1>1 DEF ArchiveWhole, IndexPointsToMember, Created
<1>7. ReadToTheBreak
  BY <1>1 DEF ReadToTheBreak, ExtractsWhole, ListsInOrder
<1> QED
  BY <1>1, <1>2, <1>3, <1>4, <1>5, <1>6, <1>7 DEF IInv

LEMMA StartInv == IInv /\ Start => IInv'
<1> SUFFICES ASSUME IInv, Start PROVE IInv'
  OBVIOUS
<1>1. PICK c \in Commands : cmd' = c
  BY DEF Start
<1>2. c.objs \in Seq(DOMAIN Objects) /\ Len(c.objs) \in Nat
  BY ArAssumption, LenProperties DEF ArAssumption
<1>3. /\ k' = 1 /\ symtab' = Unset /\ index' = <<>> /\ body' = <<>> /\ fpos' = 0 /\ printed' = <<>>
      /\ phase' \in {"begin", "idle"} /\ (phase' = "idle" => ~cmd'.ok)
      /\ ret' \in {1, 2} /\ UNCHANGED <<files, torn, archive, tmp>>
      /\ count' = count + 1 /\ count < MaxCommands
  BY DEF Start, Return, disk
<1>4. TypeOK'
  BY <1>1, <1>2, <1>3, NothingSpans, ArAssumption DEF IInv, TypeOK, ArAssumption
<1>5. Sound(archive)'
  BY <1>3 DEF IInv, Sound
<1>6. Building'
  BY <1>3, NothingSpans DEF Building
<1>7. Reading'
  BY <1>3 DEF Reading
<1>8. ArchiveWhole' /\ IndexPointsToMember'
  BY <1>3, NotCreated
<1>9. ReadToTheBreak'
  BY <1>3, FilesStay
<1> QED
  BY <1>1, <1>2, <1>4, <1>5, <1>6, <1>7, <1>8, <1>9 DEF IInv

\* The opening of the archive and of the temporary file.
LEMMA OpenInv == IInv /\ (OpenArchive \/ OpenTemporary) => IInv'
<1> SUFFICES ASSUME IInv, OpenArchive \/ OpenTemporary PROVE IInv'
  OBVIOUS
<1>1. /\ UNCHANGED <<count, cmd, files, torn, k, building, printed>>
      /\ phase \in {"begin", "temporary"} /\ cmd.objs \in Seq(DOMAIN Objects)
      /\ phase' \in {"temporary", "objects", "idle"}
      /\ phase' = "idle" => ret' = 2
      /\ archive' \in {archive, None, [kind |-> "broken"]}
      /\ ret' \in {ret, 2} /\ tmp' \in BOOLEAN
  BY DEF OpenArchive, OpenTemporary, Cleanup, Return, IInv, TypeOK
<1>2. k = 1 /\ index = <<>> /\ body = <<>> /\ symtab = Unset /\ printed = <<>> /\ Len(cmd.objs) \in Nat
  BY <1>1, LenProperties DEF IInv, Building
<1>3. TypeOK'
  BY <1>1, <1>2, NothingSpans DEF IInv, TypeOK, building
<1>4. Sound(archive)'
  BY <1>1 DEF IInv, Sound, None
<1>5. Building'
  <2>1. fpos = 0 /\ Len(<<>>) = 0 /\ cmd.op = "create"
    BY <1>2, NothingSpans DEF IInv, Building, OpenArchive, OpenTemporary
  <2>2. Written'
    BY <1>1, <1>2, <2>1 DEF Written, building
  <2>3. Regular' => Indexed'
    <3>1. ASSUME Regular PROVE SymbolsTo(cmd.objs, 0) = <<>>
      <4>1. \A j \in 1 .. Len(cmd.objs) : Objects[cmd.objs[j]].syms \in Seq(Symbols)
        <5>1. \A j \in 1 .. Len(cmd.objs) : cmd.objs[j] \in DOMAIN Objects /\ Objects[cmd.objs[j]].kind = "obj"
          BY <1>1, <3>1, ElementOfSeq, LenProperties DEF Regular
        <5> QED
          BY <5>1, ArAssumption DEF ArAssumption
      <4> QED
        BY <1>1, <4>1, SymbolsSteps
    <3>2. Regular' <=> Regular
      BY <1>1 DEF Regular
    <3>3. SymbolsIn(<<>>) = <<>>
      BY DEF SymbolsIn
    <3>4. index' = <<>> /\ k' = 1 /\ cmd' = cmd
      BY <1>1, <1>2 DEF building
    <3> QED
      BY <3>1, <3>2, <3>3, <3>4 DEF Indexed
  <2> QED
    BY <1>1, <1>2, <2>1, <2>2, <2>3, NothingSpans DEF Building, building
<1>6. Reading'
  BY <1>1 DEF Reading
<1>7. ArchiveWhole' /\ IndexPointsToMember'
  BY <1>1, NotCreated
<1>8. ReadToTheBreak'
  <2>1. cmd.op = "create"
    BY DEF OpenArchive, OpenTemporary, IInv, Building
  <2> QED
    BY <1>1, <2>1, FilesStay
<1> QED
  BY <1>1, <1>3, <1>4, <1>5, <1>6, <1>7, <1>8 DEF IInv

\* An object that is added is one more member and its symbols in the index.
LEMMA Added ==
  ASSUME IInv, phase = "objects", k <= Len(cmd.objs), Objects[cmd.objs[k]].kind = "obj",
         NEW syms \in SymtabOf(cmd.objs[k]),
         symtab' = syms,
         index' = IF syms = Unset THEN index ELSE index \o Entries(syms, fpos),
         body' = Append(body, MemberOf(cmd.objs[k])),
         fpos' = Following(fpos, Objects[cmd.objs[k]].size),
         k' = k + 1, UNCHANGED <<phase, cmd>>
  PROVE  Building'
<1> DEFINE o == cmd.objs[k]
           m == MemberOf(o)
           N == Len(cmd.objs)
<1>1. /\ cmd.objs \in Seq(DOMAIN Objects) /\ Written /\ (Regular => Indexed) /\ k \in 1 .. N
      /\ index \in Seq(Entry) /\ body \in Seq(Bodies) /\ fpos = Span(body)
      /\ \A j \in DOMAIN index : index[j].at < fpos
      /\ symtab \in Seq(Symbols) \cup {Unset} /\ cmd.op = "create"
      /\ N \in Nat /\ Len(body) = k - 1
  BY LenProperties DEF IInv, Building, Written
<1>2. o \in DOMAIN Objects
  BY <1>1, ElementOfSeq
<1>3. Objects[o].size \in Nat /\ Objects[o].syms \in Seq(Symbols)
  BY <1>2, ArAssumption DEF ArAssumption
<1>4. m \in Bodies /\ m.size = Objects[o].size
  BY <1>2 DEF Bodies, MemberOf, Member
<1> HIDE DEF o, m, N
<1>5. /\ body' \in Seq(Bodies) /\ Len(body') = k
      /\ \A j \in 1 .. k - 1 : body'[j] = body[j]
      /\ body'[k] = m
  <2>1. /\ body' \in Seq(Bodies) /\ Len(body') = Len(body) + 1
        /\ \A j \in 1 .. Len(body) : body'[j] = body[j]
        /\ body'[Len(body) + 1] = m
    BY <1>1, <1>4, AppendProperties DEF m, o
  <2> QED
    BY <1>1, <2>1
<1>6. \A x \in Bodies : x.size \in Nat
  BY BodiesAre
<1>7. \A n \in 0 .. k - 1 : SpanTo(body', n) = SpanTo(body, n)
  <2>1. ASSUME NEW n \in 0 .. k - 1 PROVE SpanTo(body', n) = SpanTo(body, n)
    <3>1. /\ n \in Nat /\ n <= Len(body') /\ n <= Len(body)
          /\ \A j \in 1 .. n : body'[j] = body[j]
      BY <1>1, <1>5
    <3> QED
      BY <1>1, <1>5, <1>6, <3>1, SpanSame
  <2> QED
    BY <2>1
<1>8. fpos = SpanTo(body, k - 1) /\ fpos \in Nat
  <2>1. k - 1 \in 0 .. Len(body)
    BY <1>1
  <2> QED
    BY <1>1, <1>6, <2>1, SpanSteps DEF Span
<1>9. fpos' = fpos + Bytes(m) /\ Bytes(m) \in Nat \ {0}
  <2>1. Bytes(m) \in Nat \ {0}
    BY <1>3, <1>4, BytesType
  <2>2. Bytes(m) = HeaderSize + Objects[o].size + (Objects[o].size % 2)
    BY <1>4 DEF Bytes
  <2>3. fpos' = fpos + HeaderSize + (Objects[o].size + (Objects[o].size % 2))
    BY DEF Following, Padded, o
  <2>4. HeaderSize \in Nat /\ Objects[o].size % 2 \in Nat
    BY <1>3 DEF HeaderSize
  <2> DEFINE size == Objects[o].size
             odd == size % 2
  <2>5. /\ size \in Nat /\ odd \in Nat /\ HeaderSize \in Nat /\ fpos \in Nat
        /\ Bytes(m) = HeaderSize + size + odd /\ fpos' = fpos + HeaderSize + (size + odd)
    BY <1>3, <1>8, <2>2, <2>3, <2>4
  <2> HIDE DEF size, odd
  <2>6. fpos' = fpos + Bytes(m)
    BY <2>5
  <2> QED
    BY <2>1, <2>6
<1>10. fpos' = Span(body')
  <2>1. k \in 1 .. Len(body') /\ k - 1 \in 0 .. k - 1
    BY <1>1, <1>5
  <2>2. SpanTo(body', k) = SpanTo(body', k - 1) + Bytes(m)
    BY <1>5, <1>6, <2>1, SpanSteps
  <2> QED
    BY <1>5, <1>7, <1>8, <1>9, <2>1, <2>2 DEF Span
<1>11. syms \in Seq(Symbols) \cup {Unset}
  <2>1. syms \in {Objects[o].syms, Unset, symtab, <<>>}
    BY DEF SymtabOf, o
  <2>2. <<>> \in Seq(Symbols)
    OBVIOUS
  <2> QED
    BY <1>1, <1>3, <2>1, <2>2
<1>12. Unset \notin Seq(Symbols)
  <2>1. ASSUME Unset \in Seq(Symbols) PROVE Unset[1] \in Symbols
    <3>1. 1 \in 1 .. Len(Unset)
      BY DEF Unset
    <3> HIDE DEF Unset
    <3> QED
      BY <2>1, <3>1, ElementOfSeq
  <2> QED
    BY <2>1, ArAssumption DEF ArAssumption, Unset
<1>13. /\ index' \in Seq(Entry)
       /\ syms # Unset => SymbolsIn(index') = SymbolsIn(index) \o syms
       /\ \A j \in DOMAIN index' : \/ j \in DOMAIN index /\ index'[j] = index[j]
                                   \/ /\ syms # Unset
                                      /\ index'[j].at = fpos /\ index'[j].sym \in Range(syms)
  <2>1. CASE syms = Unset
    BY <1>1, <2>1
  <2>2. CASE syms # Unset
    <3>1. syms \in Seq(Symbols) /\ index' = index \o Entries(syms, fpos)
      BY <1>11, <2>2
    <3> DEFINE t == index \o Entries(syms, fpos)
    <3>2. /\ t \in Seq(Entry) /\ SymbolsIn(t) = SymbolsIn(index) \o syms
          /\ \A j \in DOMAIN t : \/ j \in DOMAIN index /\ t[j] = index[j]
                                 \/ t[j].at = fpos /\ t[j].sym \in Range(syms)
      BY <1>1, <1>8, <3>1, EntriesAdded
    <3>3. index' = t
      BY <3>1
    <3> HIDE DEF t
    <3> QED
      BY <2>2, <3>2, <3>3
  <2> QED
    BY <2>1, <2>2
<1>14. \A j \in DOMAIN index' : index'[j].at < fpos'
  <2>1. \A j \in DOMAIN index : index[j].at \in Nat
    <3>1. \A j \in DOMAIN index : index[j] \in Entry
      BY <1>1, LenProperties, ElementOfSeq
    <3> QED
      BY <3>1 DEF Entry
  <2>2. \A a \in Nat : a < fpos => a < fpos'
    BY <1>8, <1>9
  <2>3. fpos < fpos'
    BY <1>8, <1>9
  <2> QED
    BY <1>1, <1>13, <2>1, <2>2, <2>3
<1>15. Written'
  <2>1. k' \in 1 .. N + 1 /\ Len(body') = k' - 1 /\ k' - 1 = k
    BY <1>1, <1>5
  <2>2. ASSUME NEW j \in 1 .. k PROVE Objects[cmd.objs[j]].kind = "obj" /\ body'[j] = MemberOf(cmd.objs[j])
    <3>1. CASE j = k
      BY <1>5, <3>1 DEF m, o
    <3>2. CASE j # k
      <4>1. j \in 1 .. k - 1
        BY <1>1, <3>2
      <4> QED
        BY <1>1, <1>5, <4>1 DEF Written
    <3> QED
      BY <3>1, <3>2
  <2> QED
    BY <2>1, <2>2 DEF Written, N
<1>16. ASSUME Regular PROVE Indexed'
  <2>1. syms = Objects[o].syms /\ syms # Unset
    <3>1. Objects[o].symtab
      BY <1>1, <1>16, LenProperties DEF Regular, o, N
    <3> QED
      BY <1>3, <1>12, <3>1 DEF SymtabOf, o
  <2>2. \A j \in 1 .. Len(cmd.objs) : Objects[cmd.objs[j]].syms \in Seq(Symbols)
    <3>1. \A j \in 1 .. Len(cmd.objs) : cmd.objs[j] \in DOMAIN Objects /\ Objects[cmd.objs[j]].kind = "obj"
      BY <1>1, <1>16, ElementOfSeq, LenProperties DEF Regular
    <3> QED
      BY <3>1, ArAssumption DEF ArAssumption
  <2>3. SymbolsTo(cmd.objs, k) = SymbolsTo(cmd.objs, k - 1) \o syms
    BY <1>1, <2>1, <2>2, SymbolsSteps DEF o, N
  <2>4. SymbolsIn(index') = SymbolsTo(cmd.objs, k)
    BY <1>1, <1>13, <1>16, <2>1, <2>3 DEF Indexed
  <2>5. ASSUME NEW j \in DOMAIN index'
        PROVE  \E n \in 1 .. k : /\ index'[j].at = SpanTo(body', n - 1)
                                 /\ index'[j].sym \in Range(Objects[cmd.objs[n]].syms)
    <3>1. CASE j \in DOMAIN index /\ index'[j] = index[j]
      <4>1. PICK n \in 1 .. k - 1 : /\ index[j].at = SpanTo(body, n - 1)
                                    /\ index[j].sym \in Range(Objects[cmd.objs[n]].syms)
        BY <1>1, <1>16, <3>1 DEF Indexed
      <4>2. n \in 1 .. k /\ n - 1 \in 0 .. k - 1
        BY <1>1
      <4> QED
        BY <1>7, <3>1, <4>1, <4>2
    <3>2. CASE index'[j].at = fpos /\ index'[j].sym \in Range(syms)
      <4>1. k \in 1 .. k /\ k - 1 \in 0 .. k - 1
        BY <1>1
      <4>2. index'[j].at = SpanTo(body', k - 1) /\ index'[j].sym \in Range(Objects[cmd.objs[k]].syms)
        BY <1>7, <1>8, <2>1, <3>2, <4>1 DEF o
      <4> QED
        BY <4>1, <4>2
    <3> QED
      BY <1>13, <3>1, <3>2
  <2>6. k' - 1 = k /\ cmd' = cmd
    BY <1>1
  <2> QED
    BY <2>4, <2>5, <2>6 DEF Indexed
<1>17. Regular' <=> Regular
  BY DEF Regular
<1> QED
  BY <1>1, <1>5, <1>10, <1>11, <1>13, <1>14, <1>15, <1>16, <1>17 DEF Building

LEMMA AddObjectInv == IInv /\ AddObject => IInv'
<1> SUFFICES ASSUME IInv, AddObject PROVE IInv'
  OBVIOUS
<1>1. /\ UNCHANGED <<count, cmd, files, torn, printed, full>> /\ phase = "objects" /\ k <= Len(cmd.objs)
      /\ cmd.objs \in Seq(DOMAIN Objects) /\ cmd.op = "create"
      /\ k \in 1 .. Len(cmd.objs) + 1 /\ Len(cmd.objs) \in Nat
  BY LenProperties DEF AddObject, IInv, Building, Written
<1>2. CASE Cleanup(2, archive) /\ UNCHANGED <<k, building>>
  <2>1. archive' = None /\ tmp' = FALSE /\ phase' = "idle" /\ ret' = 2
    <3>1. archive' = None /\ phase' = "idle" /\ ret' = 2
      BY <1>2 DEF Cleanup, Return
    <3>2. tmp' = FALSE
      BY <1>1, <1>2, Zenon DEF Cleanup
    <3> QED
      BY <3>1, <3>2
  <2>2. TypeOK'
    <3>1. fpos' = Span(body') /\ \A j \in DOMAIN index' : index'[j].at < fpos'
      BY <1>2 DEF IInv, TypeOK, building
    <3>2. count' \in 0 .. MaxCommands
      BY <1>1 DEF IInv, TypeOK
    <3>3. phase' \in {"idle"} /\ ret' \in 0 .. 2
      BY <2>1
    <3>4. tmp' \in BOOLEAN
      BY <2>1
    <3> QED
      BY <3>1, <3>2, <3>3, <3>4 DEF TypeOK
  <2>3. Sound(archive)' /\ Reading'
    BY <2>1 DEF Sound, None, Reading
  <2>4. Building'
    BY <1>2, <2>1, BuildingStays DEF IInv
  <2>5. ArchiveWhole' /\ IndexPointsToMember' /\ ReadToTheBreak'
    BY <1>1, <2>1, NotCreated, FilesStay
  <2> QED
    BY <1>1, <2>2, <2>3, <2>4, <2>5 DEF IInv
<1>3. ASSUME NEW syms \in SymtabOf(cmd.objs[k]),
             Objects[cmd.objs[k]].kind = "obj",
             symtab' = syms,
             index' = IF syms = Unset THEN index ELSE index \o Entries(syms, fpos),
             body' = Append(body, MemberOf(cmd.objs[k])),
             fpos' = Following(fpos, Objects[cmd.objs[k]].size),
             k' = k + 1, UNCHANGED <<archive, tmp, phase, ret>>
      PROVE  IInv'
  <2>1. Building'
    BY <1>1, <1>3, Added
  <2>2. TypeOK'
    <3>1. fpos' = Span(body') /\ \A j \in DOMAIN index' : index'[j].at < fpos'
      BY <2>1 DEF Building
    <3>2. k' \in 1 .. Len(cmd.objs) + 1
      BY <1>1, <1>3
    <3> QED
      BY <1>1, <1>3, <3>1, <3>2 DEF IInv, TypeOK
  <2>3. Sound(archive)' /\ Reading'
    BY <1>1, <1>3 DEF IInv, Sound, Reading
  <2>4. ArchiveWhole' /\ IndexPointsToMember' /\ ReadToTheBreak'
    BY <1>1, <1>3, NotCreated, FilesStay
  <2> QED
    BY <1>1, <2>1, <2>2, <2>3, <2>4 DEF IInv
<1> QED
  BY <1>2, <1>3 DEF AddObject, Entries, MemberOf

LEMMA TypeStays ==
  ASSUME IInv, UNCHANGED <<count, building>>, tmp' \in {tmp, FALSE}, ret' \in {0, 2, ret},
         phase' \in {"idle", "members", "killed"}
  PROVE  TypeOK'
<1>1. fpos' = Span(body') /\ \A j \in DOMAIN index' : index'[j].at < fpos'
  BY DEF IInv, TypeOK, building
<1>2. count' \in 0 .. MaxCommands /\ ret' \in 0 .. 2
  BY DEF IInv, TypeOK
<1>3. tmp' \in BOOLEAN
  BY DEF IInv, TypeOK
<1> QED
  BY <1>1, <1>2, <1>3 DEF TypeOK

LEMMA WriteArchiveInv == IInv /\ WriteArchive => IInv'
<1> SUFFICES ASSUME IInv, WriteArchive PROVE IInv'
  OBVIOUS
<1>1. /\ UNCHANGED <<count, cmd, files, torn, k, building, printed>>
      /\ phase = "objects" /\ k > Len(cmd.objs) /\ cmd.op = "create"
      /\ index \in Seq(Entry) /\ body \in Seq(Bodies)
      /\ phase' = "idle" /\ ret' = 0 /\ tmp' = FALSE
      /\ \/ archive' = Archive(Contents, "no")
         \/ archive' \in CutShort /\ full'
  BY DEF WriteArchive, Cleanup, Return, IInv, Building
<1>2. TypeOK'
  BY <1>1, TypeStays
<1>3. Sound(archive)'
  <2>1. CASE archive' = Archive(Contents, "no")
    <3>1. Sound(archive')
      BY <1>1, <2>1, ContentsSound
    <3> QED
      BY <3>1 DEF Sound
  <2>2. CASE archive' \in CutShort
    <3>1. Sound(archive')
      BY <1>1, <2>2, CutShortSound
    <3> QED
      BY <3>1 DEF Sound
  <2> QED
    BY <1>1, <2>1, <2>2
<1>4. Building' /\ Reading' /\ ReadToTheBreak'
  <2>1. Building'
    BY <1>1, BuildingStays DEF IInv
  <2>2. ReadToTheBreak'
    BY <1>1, FilesStay
  <2> QED
    BY <1>1, <2>1, <2>2 DEF Reading
<1>5. ArchiveWhole' /\ IndexPointsToMember'
  <2>1. CASE full'
    BY <2>1, NotCreated
  <2>2. CASE archive' = Archive(Contents, "no")
    <3>1. archive'.kind = "ar" /\ archive'.cut = "no" /\ archive'.members = Contents
      BY <2>2 DEF Archive
    <3>2. ASSUME AllTabled, SymbolsOf(cmd.objs) # <<>>
          PROVE  IsIndex(Head(Contents)) /\ Tail(Contents) = MembersOf(cmd.objs)
      <4> DEFINE M == Bodies \cup {IndexMember}
      <4>1. index # <<>>
        <5>1. SymbolsIn(<<>>) = <<>>
          BY DEF SymbolsIn
        <5> QED
          BY <1>1, <3>2, <5>1, Complete
      <4>2. Contents = <<IndexMember>> \o body /\ body \in Seq(M) /\ IndexMember \in M
        BY <1>1, <4>1, ContentsAre, SeqMonotonic
      <4> HIDE DEF M
      <4>3. Head(Contents) = IndexMember /\ Tail(Contents) = body
        BY <4>2, ConsProperties
      <4>4. IndexMember.name = "/"
        BY <1>1, IndexMemberIs
      <4>5. body = MembersOf(cmd.objs)
        BY <1>1, Complete
      <4> QED
        BY <4>3, <4>4, <4>5 DEF IsIndex
    <3>3. ArchiveWhole'
      BY <1>1, <3>1, <3>2 DEF ArchiveWhole, AllTabled
    <3>4. ASSUME AllTabled, Contents # <<>> PROVE index # <<>>
      BY <1>1, <3>4, ContentsAre
    <3>5. IndexPointsToMember'
      <4> DEFINE symbols == Head(Contents).symbols
      <4>1. ASSUME AllTabled, Contents # <<>>
            PROVE  /\ [j \in DOMAIN symbols |-> symbols[j].sym] = SymbolsOf(cmd.objs)
                   /\ \A j \in DOMAIN symbols : \E n \in 2 .. Len(Contents) :
                        /\ symbols[j].at = Magic + SpanTo(Contents, n - 1)
                        /\ symbols[j].sym \in Range(Objects[Contents[n].data].syms)
        BY <1>1, <3>4, <4>1, PointsThere
      <4> QED
        BY <1>1, <3>1, <4>1 DEF IndexPointsToMember, AllTabled, Position
    <3> QED
      BY <3>3, <3>5
  <2> QED
    BY <1>1, <2>1, <2>2
<1> QED
  BY <1>1, <1>2, <1>3, <1>4, <1>5 DEF IInv

LEMMA KillInv == IInv /\ Kill => IInv'
<1> SUFFICES ASSUME IInv, Kill PROVE IInv'
  OBVIOUS
<1>1. /\ UNCHANGED <<count, cmd, tmp, k, building, printed, full, ret>> /\ phase' = "killed"
      /\ index \in Seq(Entry) /\ body \in Seq(Bodies)
  BY DEF Kill, IInv, Building
<1>2. TypeOK'
  BY <1>1, TypeStays
<1>3. Sound(archive)'
  <2>1. archive' \in {archive, None, Archive(Contents, "no")} \cup CutShort
    BY DEF Kill, HalfRemoved, HalfCreated
  <2>2. Sound(archive) /\ Sound(None)
    BY DEF IInv, Sound, None
  <2>3. Sound(archive')
    BY <1>1, <2>1, <2>2, ContentsSound, CutShortSound
  <2> QED
    BY <2>3 DEF Sound
<1>4. Building' /\ Reading'
  <2>1. Building'
    BY <1>1, BuildingStays DEF IInv
  <2> QED
    BY <1>1, <2>1 DEF Reading
<1>5. ReadToTheBreak'
  <2>1. CASE UNCHANGED <<files, torn>>
    BY <1>1, <2>1, FilesStay
  <2>2. CASE HalfExtracted
    <3>1. \A n \in DOMAIN files : files[n] = "part" => n \in torn
      BY DEF IInv, ReadToTheBreak, ExtractsWhole
    <3>2. \A n \in DOMAIN files' : files'[n] = "part" => n \in torn'
      BY <2>2, <3>1 DEF HalfExtracted, Put
    <3> QED
      BY <1>1, <3>2 DEF ReadToTheBreak, ExtractsWhole, ListsInOrder
  <2> QED
    BY <2>1, <2>2 DEF Kill
<1>6. ArchiveWhole' /\ IndexPointsToMember'
  BY <1>1, NotCreated
<1> QED
  BY <1>1, <1>2, <1>3, <1>4, <1>5, <1>6 DEF IInv

\* What is known of the archive and of the member that is next.
LEMMA MembersHere ==
  ASSUME IInv, phase = "members"
  PROVE  /\ archive.members \in Seq(Range(archive.members)) /\ Len(archive.members) \in Nat
         /\ k \in 1 .. Len(archive.members) + 1 /\ cmd.op # "create" /\ archive.kind = "ar"
         /\ \A j \in 1 .. Len(archive.members) : archive.members[j].data # "part"
<1>1. /\ archive.members \in Seq(Range(archive.members))
      /\ k \in 1 .. Len(archive.members) + 1 /\ cmd.op # "create" /\ archive.kind = "ar"
      /\ \A m \in Range(archive.members) : m.data # "part"
  BY DEF IInv, Sound, Reading
<1> QED
  BY <1>1, LenProperties, ElementOfSeq

\* A member has been read and the next one is at hand.
LEMMA GoesOn ==
  ASSUME IInv, phase = "members", k <= Len(archive.members), ~CutHere,
         k' = k + 1, UNCHANGED <<count, phase, ret, cmd, archive, tmp, torn, building>>,
         \A n \in DOMAIN files' : files'[n] = "part" => n \in torn,
         cmd.op = "table" => printed' = NamesTo(archive.members, k),
         cmd.op = "extract" => Made(files', k)
  PROVE  IInv'
<1>1. /\ Len(archive.members) \in Nat /\ k \in 1 .. Len(archive.members) + 1
      /\ cmd.op # "create" /\ archive.kind = "ar"
  BY MembersHere
<1>2. TypeOK'
  BY TypeStays
<1>3. Sound(archive)' /\ (cmd.objs \in Seq(DOMAIN Objects))'
  BY DEF IInv, Sound
<1>4. Building'
  BY BuildingStays DEF IInv
<1>5. Reading'
  <2>1. k' \in 1 .. Len(archive.members) + 1 /\ k' - 1 = k
    BY <1>1
  <2>2. archive.cut # "no" => k' <= Len(archive.members)
    BY <1>1 DEF CutHere
  <2>3. Made(files', k) => Made(files, k - 1)'
    BY <2>1 DEF Made
  <2> QED
    BY <1>1, <2>1, <2>2, <2>3 DEF Reading
<1>6. ArchiveWhole' /\ IndexPointsToMember'
  BY NotCreated
<1>7. ReadToTheBreak'
  BY DEF ReadToTheBreak, ExtractsWhole, ListsInOrder
<1> QED
  BY <1>2, <1>3, <1>4, <1>5, <1>6, <1>7 DEF IInv

\* The reading ends, at a member that is broken or after the last.
LEMMA Ends ==
  ASSUME IInv, phase = "members", phase' = "idle", ret' \in {0, 2},
         UNCHANGED <<count, k, cmd, archive, tmp, torn, building, printed>>,
         ret' = 0 => k > Len(archive.members),
         \A n \in DOMAIN files' : files'[n] = "part" => n \in torn,
         cmd.op = "extract" =>
           \A j \in 1 .. k - 1 :
             LET m == archive.members[j] IN
             \/ IsIndex(m)
             \/ \E n \in j + 1 .. k : n <= Len(archive.members) /\ archive.members[n].name = m.name
             \/ m.name \in DOMAIN files' /\ files'[m.name] = m.data
  PROVE  IInv'
<1>1. cmd.op # "create"
  BY MembersHere
<1>2. TypeOK'
  BY TypeStays
<1>3. Sound(archive)' /\ (cmd.objs \in Seq(DOMAIN Objects))'
  BY DEF IInv, Sound
<1>4. Building'
  BY BuildingStays DEF IInv
<1>5. Reading'
  BY DEF Reading
<1>6. ArchiveWhole' /\ IndexPointsToMember'
  BY <1>1, NotCreated
<1>7. ExtractsWhole'
  BY DEF ExtractsWhole
<1>8. ListsInOrder'
  <2>1. cmd.op = "table" => printed = NamesTo(archive.members, k - 1)
    BY DEF IInv, Reading
  <2>2. k > Len(archive.members) => archive.cut = "no"
    <3>1. archive.cut # "no" => k <= Len(archive.members)
      BY DEF IInv, Reading
    <3> QED
      BY <3>1, MembersHere
  <2> QED
    BY <2>1, <2>2 DEF ListsInOrder
<1> QED
  BY <1>2, <1>3, <1>4, <1>5, <1>6, <1>7, <1>8 DEF IInv, ReadToTheBreak

\* What has been extracted is there when the reading ends.
LEMMA Kept ==
  ASSUME IInv, phase = "members", cmd.op = "extract", NEW j \in 1 .. k - 1
  PROVE  LET m == archive.members[j] IN
         \/ IsIndex(m)
         \/ \E n \in j + 1 .. k : n <= Len(archive.members) /\ archive.members[n].name = m.name
         \/ m.name \in DOMAIN files /\ files[m.name] = m.data
<1>1. Made(files, k - 1) /\ k \in 1 .. Len(archive.members) + 1 /\ Len(archive.members) \in Nat
  BY MembersHere DEF IInv, Reading
<1>2. \A n \in j + 1 .. k - 1 : n \in j + 1 .. k /\ n <= Len(archive.members)
  BY <1>1
<1> QED
  BY <1>1, <1>2 DEF Made

LEMMA ReadArchiveInv == IInv /\ ReadArchive => IInv'
<1> SUFFICES ASSUME IInv, ReadArchive PROVE IInv'
  OBVIOUS
<1>1. /\ UNCHANGED <<count, cmd, archive, tmp, files, torn, k, building, printed, full>>
      /\ phase = "begin" /\ cmd.op # "create" /\ k = 1 /\ printed = <<>>
      /\ \/ archive.kind = "ar" /\ phase' = "members" /\ ret' = ret
         \/ archive.kind # "ar" /\ phase' = "idle" /\ ret' = 2
  BY DEF ReadArchive, Return, disk, IInv, Building
<1>2. TypeOK' /\ Building'
  BY <1>1, TypeStays, BuildingStays DEF IInv
<1>3. Sound(archive)' /\ (cmd.objs \in Seq(DOMAIN Objects))'
  BY <1>1 DEF IInv, Sound
<1>4. ArchiveWhole' /\ IndexPointsToMember'
  BY <1>1, NotCreated
<1>5. ReadToTheBreak'
  BY <1>1 DEF IInv, ReadToTheBreak, ExtractsWhole, ListsInOrder
<1>6. Reading'
  <2>1. CASE phase' = "idle"
    BY <2>1 DEF Reading
  <2>2. CASE archive.kind = "ar"
    <3>1. /\ archive.members \in Seq(Range(archive.members)) /\ Len(archive.members) \in Nat
          /\ archive.cut # "no" => archive.members # <<>>
      BY <2>2, LenProperties DEF IInv, Sound
    <3>2. archive.members # <<>> => Len(archive.members) # 0
      BY <3>1, EmptySeq
    <3>3. NamesTo(archive.members, 0) = <<>>
      BY <3>1, NamesSteps
    <3>4. Made(files, 0)
      BY DEF Made
    <3>5. k' = 1 /\ k' - 1 = 0 /\ 1 \in 1 .. Len(archive.members) + 1
      BY <1>1, <3>1
    <3>6. Made(files, k - 1)'
      BY <1>1, <3>5 DEF Made
    <3> QED
      BY <1>1, <2>2, <3>1, <3>2, <3>3, <3>5, <3>6 DEF Reading
  <2> QED
    BY <1>1, <2>1, <2>2
<1> QED
  BY <1>2, <1>3, <1>4, <1>5, <1>6 DEF IInv

LEMMA AllReadInv == IInv /\ AllRead => IInv'
<1> SUFFICES ASSUME IInv, AllRead PROVE IInv'
  OBVIOUS
<1>1. /\ UNCHANGED <<count, k, cmd, archive, tmp, files, torn, building, printed>>
      /\ phase = "members" /\ k > Len(archive.members) /\ phase' = "idle" /\ ret' = 0
  BY DEF AllRead, Return, disk
<1>2. \A n \in DOMAIN files' : files'[n] = "part" => n \in torn
  BY <1>1 DEF IInv, ReadToTheBreak, ExtractsWhole
<1> QED
  BY <1>1, <1>2, Kept, Ends

\* One member more has been extracted: it replaces a file of its name.
LEMMA MadeMore ==
  ASSUME IInv, phase = "members", cmd.op = "extract", k <= Len(archive.members),
         Put(Current.name, Current.data)
  PROVE  Made(files', k) /\ \A n \in DOMAIN files' : files'[n] = "part" => n \in torn
<1> DEFINE c == Current
<1>1. /\ k \in 1 .. Len(archive.members) /\ Len(archive.members) \in Nat
      /\ c = archive.members[k] /\ c.data # "part"
  BY MembersHere DEF Current
<1>2. Made(files, k - 1) /\ \A n \in DOMAIN files : files[n] = "part" => n \in torn
  BY DEF IInv, Reading, ReadToTheBreak, ExtractsWhole
<1> HIDE DEF c
<1>3. /\ DOMAIN files' = DOMAIN files \cup {c.name} /\ files'[c.name] = c.data
      /\ \A n \in DOMAIN files \ {c.name} : files'[n] = files[n]
  BY DEF Put, c
<1>4. \A n \in DOMAIN files' : files'[n] = "part" => n \in torn
  BY <1>1, <1>2, <1>3
<1>5. ASSUME NEW j \in 1 .. k
      PROVE  LET m == archive.members[j] IN
             \/ IsIndex(m)
             \/ \E i \in j + 1 .. k : archive.members[i].name = m.name
             \/ m.name \in DOMAIN files' /\ files'[m.name] = m.data
  <2>1. CASE j = k
    BY <1>1, <1>3, <2>1
  <2>2. CASE j # k
    <3> DEFINE m == archive.members[j]
    <3>1. j \in 1 .. k - 1 /\ k \in j + 1 .. k /\ \A i \in j + 1 .. k - 1 : i \in j + 1 .. k
      BY <1>1, <2>2
    <3>2. \/ IsIndex(m)
          \/ \E i \in j + 1 .. k - 1 : archive.members[i].name = m.name
          \/ m.name \in DOMAIN files /\ files[m.name] = m.data
      BY <1>2, <3>1 DEF Made
    <3>3. CASE m.name = c.name
      BY <1>1, <3>1, <3>3
    <3>4. CASE m.name # c.name
      BY <1>3, <3>1, <3>2, <3>4
    <3> QED
      BY <3>3, <3>4
  <2> QED
    BY <2>1, <2>2
<1> QED
  BY <1>4, <1>5 DEF Made

LEMMA ReadMemberInv == IInv /\ ReadMember => IInv'
<1> SUFFICES ASSUME IInv, ReadMember PROVE IInv'
  OBVIOUS
<1>1. /\ UNCHANGED <<count, cmd, archive, tmp, torn, building, full>>
      /\ phase = "members" /\ k <= Len(archive.members)
  BY DEF ReadMember
<1>2. /\ k \in 1 .. Len(archive.members) /\ Len(archive.members) \in Nat
      /\ archive.members \in Seq(Range(archive.members))
  BY <1>1, MembersHere
<1>3. \A n \in DOMAIN files : files[n] = "part" => n \in torn
  BY DEF IInv, ReadToTheBreak, ExtractsWhole
<1>4. cmd.op = "table" => printed = NamesTo(archive.members, k - 1)
  BY <1>1 DEF IInv, Reading
<1>5. cmd.op = "extract" => Made(files, k - 1)
  BY <1>1 DEF IInv, Reading
<1>6. NamesTo(archive.members, k) = IF IsIndex(Current) THEN NamesTo(archive.members, k - 1)
                                    ELSE Append(NamesTo(archive.members, k - 1), Current.name)
  BY <1>2, NamesSteps DEF Current
\* The member is not read: it is broken, or its name is refused.
<1>7. CASE Return(2) /\ UNCHANGED <<files, k, printed>>
  BY <1>1, <1>3, <1>7, Kept, Ends DEF Return
\* It is the index.
<1>8. CASE Readable /\ IsIndex(Current) /\ k' = k + 1 /\ UNCHANGED <<files, phase, ret, printed>>
  <2>1. cmd.op = "extract" => Made(files', k)
    <3>1. ASSUME NEW j \in 1 .. k PROVE j = k \/ (j \in 1 .. k - 1 /\ \A i \in j + 1 .. k - 1 : i \in j + 1 .. k)
      BY <1>2
    <3> QED
      BY <1>5, <1>8, <3>1 DEF Made, Current
  <2> QED
    BY <1>1, <1>3, <1>4, <1>6, <1>8, <2>1, GoesOn DEF Readable
\* It is an object.
<1>9. CASE /\ Readable /\ Current.good = "yes" /\ ~IsIndex(Current)
           /\ printed' = IF cmd.op = "table" THEN Append(printed, Current.name) ELSE printed
           /\ IF cmd.op = "extract" THEN WriteFile(Current)
              ELSE k' = k + 1 /\ UNCHANGED <<files, phase, ret>>
  <2>1. ~CutHere /\ Data = Current.data
    BY <1>9 DEF Readable, Data
  <2>2. CASE cmd.op # "extract"
    <3>1. cmd.op = "table" => printed' = NamesTo(archive.members, k)
      BY <1>4, <1>6, <1>9
    <3> QED
      BY <1>1, <1>3, <1>9, <2>1, <2>2, <3>1, GoesOn
  <2>3. CASE cmd.op = "extract"
    <3>1. WriteFile(Current) /\ printed' = printed
      BY <1>9, <2>3
    <3>2. CASE Put(Current.name, Data) /\ k' = k + 1 /\ UNCHANGED <<phase, ret>>
      <4>1. Made(files', k) /\ \A n \in DOMAIN files' : files'[n] = "part" => n \in torn
        BY <1>1, <2>1, <2>3, <3>2, MadeMore
      <4> QED
        BY <1>1, <2>1, <2>3, <3>2, <4>1, GoesOn
    <3>3. CASE UNCHANGED files /\ Return(2) /\ UNCHANGED k
      BY <1>1, <1>3, <3>1, <3>3, Kept, Ends DEF Return
    <3>4. CASE /\ files' = [n \in DOMAIN files \ {Current.name} |-> files[n]]
               /\ Return(2) /\ UNCHANGED k
      <4>1. \A n \in DOMAIN files' : files'[n] = "part" => n \in torn
        BY <1>3, <3>4
      <4>2. ASSUME NEW j \in 1 .. k - 1
            PROVE  LET m == archive.members[j] IN
                   \/ IsIndex(m)
                   \/ \E n \in j + 1 .. k : n <= Len(archive.members) /\ archive.members[n].name = m.name
                   \/ m.name \in DOMAIN files' /\ files'[m.name] = m.data
        <5> DEFINE m == archive.members[j]
        <5>1. \/ IsIndex(m)
              \/ \E n \in j + 1 .. k : n <= Len(archive.members) /\ archive.members[n].name = m.name
              \/ m.name \in DOMAIN files /\ files[m.name] = m.data
          BY <1>1, <2>3, Kept
        <5>2. CASE m.name = Current.name
          <6>1. k \in j + 1 .. k /\ k <= Len(archive.members) /\ archive.members[k].name = m.name
            BY <1>2, <5>2 DEF Current
          <6> QED
            BY <6>1
        <5>3. CASE m.name # Current.name
          BY <3>4, <5>1, <5>3
        <5> QED
          BY <5>2, <5>3
      <4> QED
        <5>1. phase' = "idle" /\ ret' = 2 /\ UNCHANGED <<count, k, cmd, archive, building, printed>> /\ tmp' = tmp
          BY <1>1, <3>1, <3>4 DEF Return
        <5> QED
          BY <1>1, <4>1, <4>2, <5>1, Ends
    <3> QED
      BY <3>1, <3>2, <3>3, <3>4 DEF WriteFile
  <2> QED
    BY <2>2, <2>3
<1> QED
  BY <1>7, <1>8, <1>9 DEF ReadMember

LEMMA StutterInv == IInv /\ UNCHANGED vars => IInv'
BY DEF IInv, vars, TypeOK, Sound, Building, Written, Regular, Indexed, Reading, Made,
       ArchiveWhole, IndexPointsToMember, Created, AllTabled, Position,
       ReadToTheBreak, ExtractsWhole, ListsInOrder
-----------------------------------------------------------------------------
(* The theorems *)

\* Everything the proofs of this module say of an archive and of the command
\* that works on it is true in every state.
THEOREM IInvHolds == Spec => []IInv
<1>1. IInv /\ [Next]_vars => IInv'
  BY StartInv, OpenInv, AddObjectInv, WriteArchiveInv, KillInv, ReadArchiveInv,
     ReadMemberInv, AllReadInv, StutterInv DEF Next
<1> QED
  BY InitInv, <1>1, PTL DEF Spec

\* fpos is the length of the temporary file and the index stays inside it.
THEOREM TypeOKHolds == Spec => []TypeOK
<1>1. IInv => TypeOK
  BY DEF IInv
<1> QED
  BY <1>1, IInvHolds, PTL

\* A successful creation leaves the index and all the objects in order.
THEOREM ArchiveWholeHolds == Spec => []ArchiveWhole
<1>1. IInv => ArchiveWhole
  BY DEF IInv
<1> QED
  BY <1>1, IInvHolds, PTL

\* The index gives every symbol the position of the member that defines it.
THEOREM IndexPointsToMemberHolds == Spec => []IndexPointsToMember
<1>1. IInv => IndexPointsToMember
  BY DEF IInv
<1> QED
  BY <1>1, IInvHolds, PTL

\* Listing and extraction go to the first member that is broken, and no file
\* stays cut but one that a kill came upon.
THEOREM ReadToTheBreakHolds == Spec => []ReadToTheBreak
<1>1. IInv => ReadToTheBreak
  BY DEF IInv
<1> QED
  BY <1>1, IInvHolds, PTL

\* A creation that ends removes the temporary file it has opened, and one that
\* fails the archive as well.
THEOREM CleanEndHolds == Spec => CleanEnd
<1>1. [Next]_vars => [CleanEndStep]_vars
  <2> SUFFICES ASSUME Next, phase \in {"temporary", "objects"}, phase' = "idle" PROVE CleanEndStep
    BY DEF vars, CleanEndStep
  <2>1. CASE OpenTemporary \/ AddObject \/ WriteArchive
    <3>1. Cleanup(2, archive) \/ Cleanup(0, Archive(Contents, "no")) \/ \E a \in CutShort : Cleanup(0, a)
      BY <2>1 DEF OpenTemporary, AddObject, WriteArchive
    <3> QED
      BY <3>1 DEF CleanEndStep, Cleanup, Return
  <2>2. CASE Start \/ OpenArchive \/ Kill \/ ReadArchive \/ ReadMember \/ AllRead
    BY <2>2 DEF Start, OpenArchive, Kill, ReadArchive, ReadMember, AllRead
  <2> QED
    BY <2>1, <2>2 DEF Next
<1> QED
  BY <1>1, PTL DEF Spec, CleanEnd
=============================================================================
