--------------------------- MODULE CliArgsProofs ---------------------------
(***************************************************************************)
(* For any arguments and any number of them: the option parser stays       *)
(* inside argv, and although it moves options over files while it reads    *)
(* them, it reads as ArgReader does, which moves nothing.  From a          *)
(* well-formed command line what it hands on, the values, the sources and  *)
(* the application's arguments, is what was given, and the route is the    *)
(* one the options given ask for.                                          *)
(***************************************************************************)
EXTENDS CliArgs, SequenceTheorems, WellFoundedInduction, TLAPS

All == Arguments \cup {Self}

\* The filter hands on what it keeps.
FilterInv ==
  phase = "filter" =>
    /\ cmd \in Seq(Arguments) /\ i \in Nat \ {0}
    /\ pos = 0 /\ n = 0 /\ argv[1] = Self /\ sep = 0

\* In the middle of an option the parser is at that option.
ParserInv ==
  phase = "options" =>
    /\ sep = 0
    /\ pos # 0 =>
         /\ i <= Argc
         /\ \/ pos = -1 /\ argv[i].kind = "long"
            \/ pos \in 2 .. Len(argv[i].letters) /\ argv[i].kind \in {"short", "driver"}

IInv ==
  /\ TypeOK
  /\ i \in Nat /\ n \in Nat
  /\ Argc \in Nat \ {0} /\ \A k \in 2 .. Argc : argv[k] \in Arguments
  /\ FilterInv /\ ParserInv

-----------------------------------------------------------------------------
(* The well-formed command line, through the filter and the parser *)

\* WellFormed, of any command line.
Sound(c) ==
  /\ c \in Seq(Arguments)
  /\ \A k \in 1 .. SepIn(c) - 1 : Needs(c[k]) => k < Len(c) /\ c[k + 1].kind = "plain"

\* What the filter drops, what it keeps of the first arguments and of all, and
\* how much of that comes before "--".
Dropped(c, k) == k < SepIn(c) /\ (c[k].kind = "driver" \/ (k > 1 /\ Swallows(c[k - 1])))
Kept(c) == Picked(c, {k \in 1 .. Len(c) : ~Dropped(c, k)}, Len(c))
Filtered(c) == Kept(c)[Len(c)]
End(c) == Len(Kept(c)[SepIn(c) - 1])

\* The filter keeps what it should, and knows whether it has met "--".
FilterHands(c) ==
  LET kept == Kept(c)[i - 1] IN
  /\ set = {} /\ values = <<>> /\ forced = "none"
  /\ i <= Len(c) + 1
  /\ Argc = Len(kept) + 1 /\ \A j \in 1 .. Len(kept) : argv[j + 1] = kept[j]
  /\ after <=> SepIn(c) < i
  /\ i > 1 /\ i <= SepIn(c) => ~Swallows(c[i - 1])

\* What stands in argv from position k on is as the filter left it.
Unread(f, k) == Argc = Len(f) + 1 /\ \A j \in k .. Argc : argv[j] = f[j - 1]

\* The files, and the options with their values, among the first m arguments.
FilesTo(s, m) == FilesOf(s, m)[m]
GivenTo(s, m) == GivenOf(s, m)[m]

\* The n files among the first m arguments stand in argv from position k on.
FilesAt(f, m, k) ==
  /\ n = Len(FilesTo(f, m))
  /\ \A j \in 1 .. n : argv[k + j - 1] = FilesTo(f, m)[j]

\* l is one of the first p values of s, a letter of the argument a, and a letter
\* of one of the first m arguments of s.
Among(s, p, l) == \E y \in 1 .. p : s[y] = l
HasLetter(a, l) == a.kind = "short" /\ Among(a.letters, Len(a.letters), l)
SeenIn(s, m, l) == \E x \in 1 .. m : HasLetter(s[x], l)

\* Letter l has been read, and what the letters that decide have set.
Seen(f, m, l) ==
  \/ SeenIn(f, m, l)
  \/ pos > 1 /\ Among(argv[i].letters, pos - 1, l)
SetBy(f, m) ==
  /\ "status" \in set <=> Seen(f, m, "v")
  /\ "obj" \in set <=> Seen(f, m, "c")
  /\ "outfile" \in set <=> Seen(f, m, "o")

\* The parser has dealt with the arguments before position i, and with nothing
\* else; what it has not read stands where it stood.
OptionsHand(f, e) ==
  LET m == i - 2 IN
  /\ Unread(f, i) /\ m <= e
  /\ m > 0 => ~Needs(f[m])
  /\ FilesAt(f, m, i - n) /\ values = GivenTo(f, m) /\ SetBy(f, m)
  /\ forced = "none"

\* The parser has dealt with all that comes before "--", and has read that.
RoutedHand(f, e) ==
  /\ FilesAt(f, e, ind) /\ values = GivenTo(f, e) /\ SetBy(f, e) /\ pos = 0
  /\ ind = i - n
  /\ \/ sep = 0 /\ e = Len(f) /\ i = e + 2 /\ Argc = e + 1
     \/ sep = ind + 1 /\ e < Len(f) /\ i = e + 3 /\ Unread(f, i)

Hands ==
  /\ cmd \in Seq(Arguments)
  /\ Sound(cmd) =>
       /\ phase = "filter" => FilterHands(cmd)
       /\ phase = "options" => OptionsHand(Filtered(cmd), End(cmd))
       /\ phase = "routed" /\ forced = "none" => RoutedHand(Filtered(cmd), End(cmd))

-----------------------------------------------------------------------------
(* Operators *)

\* A set of numbers that is not empty has a smallest one.
LEMMA NatLeast ==
  ASSUME NEW T, T \subseteq Nat, T # {}
  PROVE  \E m \in T : \A k \in T : m <= k
<1> DEFINE R == {p \in Nat \X Nat : p[1] < p[2]}
<1>1. IsWellFoundedOn(R, Nat)
  BY NatLessThanWellFounded DEF OpToRel
<1> HIDE DEF R
<1>2. PICK m \in T : \A y \in T : ~(<<y, m>> \in R)
  BY <1>1, WFMin
<1>3. ASSUME NEW k \in T PROVE m <= k
  <2>1. k \in Nat /\ m \in Nat /\ ~(<<k, m>> \in R)
    BY <1>2
  <2> QED
    BY <2>1 DEF R
<1> QED
  BY <1>3

LEMMA MinProperties ==
  ASSUME NEW T, T \subseteq Nat, T # {}
  PROVE  Min(T) \in T /\ \A k \in T : Min(T) <= k
BY NatLeast DEF Min

LEMMA MinIs ==
  ASSUME NEW T, T \subseteq Nat, NEW m \in T, \A k \in T : m <= k
  PROVE  Min(T) = m
<1>1. Min(T) \in Nat /\ m \in Nat /\ Min(T) <= m /\ m <= Min(T)
  BY MinProperties
<1> QED
  BY <1>1

LEMMA SetInduction ==
  ASSUME NEW P, 0 \in P, \A x \in Nat : x \in P => x + 1 \in P
  PROVE  \A x \in Nat : x \in P
<1> SUFFICES ASSUME NEW x \in Nat, x \notin P PROVE FALSE
  OBVIOUS
<1> DEFINE T == {t \in Nat : t \notin P}
<1>1. PICK m \in T : \A t \in T : m <= t
  BY NatLeast
<1>2. m # 0 /\ m - 1 \in Nat /\ m - 1 \in P
  BY <1>1
<1> QED
  BY <1>1, <1>2

\* The recursive equation of Picked, and that it has a solution.
Picks(v, S, f, k) ==
  IF k = 0 THEN <<>> ELSE IF k \in S THEN Append(f[k - 1], v[k]) ELSE f[k - 1]

LEMMA PicksExists ==
  ASSUME NEW v, NEW S, NEW len \in Nat
  PROVE  \E f : f = [k \in 0 .. len |-> Picks(v, S, f, k)]
<1> DEFINE P == {m \in Nat : \E f : f = [k \in 0 .. m |-> Picks(v, S, f, k)]}
<1>1. 0 \in P
  <2> DEFINE f == [k \in 0 .. 0 |-> <<>>]
  <2>1. f = [k \in 0 .. 0 |-> Picks(v, S, f, k)]
    BY DEF Picks
  <2> QED
    BY <2>1
<1>2. ASSUME NEW m \in Nat, m \in P PROVE m + 1 \in P
  <2>1. PICK f : f = [k \in 0 .. m |-> Picks(v, S, f, k)]
    BY <1>2
  <2> DEFINE g == [k \in 0 .. m + 1 |-> IF k <= m THEN f[k] ELSE Picks(v, S, f, k)]
  <2>2. ASSUME NEW k \in 0 .. m + 1 PROVE g[k] = Picks(v, S, g, k)
    <3>1. k # 0 => k - 1 \in 0 .. m /\ g[k - 1] = f[k - 1]
      OBVIOUS
    <3>2. Picks(v, S, g, k) = Picks(v, S, f, k)
      BY <3>1 DEF Picks
    <3>3. CASE k <= m
      <4>1. f[k] = Picks(v, S, f, k)
        BY <2>1, <3>3
      <4> QED
        BY <3>2, <3>3, <4>1
    <3> QED
      BY <3>2, <3>3
  <2> HIDE DEF g
  <2>3. g = [k \in 0 .. m + 1 |-> g[k]]
    BY DEF g
  <2>4. g = [k \in 0 .. m + 1 |-> Picks(v, S, g, k)]
    BY <2>2, <2>3
  <2> QED
    BY <2>4
<1> HIDE DEF P
<1>3. len \in P
  BY <1>1, <1>2, SetInduction
<1> QED
  BY <1>3 DEF P

\* Picked grows by the value at each position of S.
LEMMA PickedSteps ==
  ASSUME NEW v, NEW S, NEW len \in Nat
  PROVE  /\ Picked(v, S, len)[0] = <<>>
         /\ \A k \in 1 .. len :
              Picked(v, S, len)[k] = IF k \in S THEN Append(Picked(v, S, len)[k - 1], v[k])
                                     ELSE Picked(v, S, len)[k - 1]
<1> DEFINE f == CHOOSE g : g = [k \in 0 .. len |-> Picks(v, S, g, k)]
<1>1. f = [k \in 0 .. len |-> Picks(v, S, f, k)]
  BY PicksExists
<1>2. Picked(v, S, len) = f
  BY DEF Picked, Picks
<1> HIDE DEF f
<1>3. ASSUME NEW k \in 0 .. len PROVE f[k] = Picks(v, S, f, k)
  BY <1>1
<1>4. f[0] = <<>>
  <2>1. 0 \in 0 .. len
    OBVIOUS
  <2> QED
    BY <1>3, <2>1 DEF Picks
<1>5. ASSUME NEW k \in 1 .. len
      PROVE  f[k] = IF k \in S THEN Append(f[k - 1], v[k]) ELSE f[k - 1]
  <2>1. k \in 0 .. len /\ k # 0
    OBVIOUS
  <2> QED
    BY <1>3, <2>1 DEF Picks
<1> QED
  BY <1>2, <1>4, <1>5

\* What is picked up to k depends on what there is up to k only.
LEMMA PickedAgrees ==
  ASSUME NEW v, NEW S, NEW len \in Nat, NEW w, NEW R, NEW wid \in Nat,
         NEW m \in Nat, m <= len, m <= wid,
         \A k \in 1 .. m : (k \in S <=> k \in R) /\ (k \in S => v[k] = w[k])
  PROVE  Picked(v, S, len)[m] = Picked(w, R, wid)[m]
<1> DEFINE f == Picked(v, S, len)
           g == Picked(w, R, wid)
           P == {k \in Nat : k <= m => f[k] = g[k]}
<1>1. /\ f[0] = <<>> /\ \A k \in 1 .. len : f[k] = IF k \in S THEN Append(f[k - 1], v[k]) ELSE f[k - 1]
      /\ g[0] = <<>> /\ \A k \in 1 .. wid : g[k] = IF k \in R THEN Append(g[k - 1], w[k]) ELSE g[k - 1]
  BY PickedSteps
<1> HIDE DEF f, g
<1>2. 0 \in P
  BY <1>1
<1>3. ASSUME NEW k \in Nat, k \in P PROVE k + 1 \in P
  <2> SUFFICES ASSUME k + 1 <= m PROVE f[k + 1] = g[k + 1]
    OBVIOUS
  <2>1. f[k] = g[k] /\ k + 1 \in 1 .. m /\ k + 1 \in 1 .. len /\ k + 1 \in 1 .. wid /\ k + 1 - 1 = k
    BY <1>3
  <2>2. /\ f[k + 1] = IF k + 1 \in S THEN Append(f[k], v[k + 1]) ELSE f[k]
        /\ g[k + 1] = IF k + 1 \in R THEN Append(g[k], w[k + 1]) ELSE g[k]
    BY <1>1, <2>1
  <2> QED
    BY <2>1, <2>2
<1> HIDE DEF P
<1>4. m \in P
  BY <1>2, <1>3, SetInduction
<1> QED
  BY <1>4 DEF P, f, g

LEMMA PickedType ==
  ASSUME NEW T, NEW v, NEW S, NEW len \in Nat, \A k \in 1 .. len : k \in S => v[k] \in T
  PROVE  \A k \in 0 .. len : Picked(v, S, len)[k] \in Seq(T)
<1> DEFINE f == Picked(v, S, len)
           P == {k \in Nat : k <= len => f[k] \in Seq(T)}
<1>1. f[0] = <<>> /\ \A k \in 1 .. len : f[k] = IF k \in S THEN Append(f[k - 1], v[k]) ELSE f[k - 1]
  BY PickedSteps
<1> HIDE DEF f
<1>2. 0 \in P
  <2>1. <<>> \in Seq(T)
    OBVIOUS
  <2> QED
    BY <1>1, <2>1
<1>3. ASSUME NEW k \in Nat, k \in P PROVE k + 1 \in P
  <2> SUFFICES ASSUME k + 1 <= len PROVE f[k + 1] \in Seq(T)
    OBVIOUS
  <2>1. f[k] \in Seq(T) /\ k + 1 \in 1 .. len /\ k + 1 - 1 = k
    BY <1>3
  <2>2. f[k + 1] = IF k + 1 \in S THEN Append(f[k], v[k + 1]) ELSE f[k]
    BY <1>1, <2>1
  <2>3. CASE k + 1 \in S
    BY <2>1, <2>2, <2>3, AppendProperties
  <2> QED
    BY <2>1, <2>2, <2>3
<1> HIDE DEF P
<1>4. \A k \in Nat : k \in P
  BY <1>2, <1>3, SetInduction
<1> QED
  BY <1>4 DEF P, f

\* Sequence b begins with sequence a.
Begins(a, b) ==
  Len(a) \in Nat /\ Len(b) \in Nat /\ Len(a) <= Len(b) /\ \A x \in 1 .. Len(a) : b[x] = a[x]

\* What has been picked stays where it is.
LEMMA PickedPrefix ==
  ASSUME NEW v, NEW S, NEW len \in Nat, NEW j \in 0 .. len, NEW k \in j .. len
  PROVE  Begins(Picked(v, S, len)[j], Picked(v, S, len)[k])
<1> DEFINE T == {v[x] : x \in 1 .. len}
           f == Picked(v, S, len)
           P == {d \in Nat : j + d <= len => Begins(f[j], f[j + d])}
<1>1. \A y \in 1 .. len : f[y] = IF y \in S THEN Append(f[y - 1], v[y]) ELSE f[y - 1]
  BY PickedSteps
<1>2. \A y \in 0 .. len : f[y] \in Seq(T)
  <2>1. \A y \in 1 .. len : v[y] \in T
    OBVIOUS
  <2> HIDE DEF T
  <2> QED
    BY <2>1, PickedType
<1> HIDE DEF f
<1>3. \A y \in 0 .. len : Len(f[y]) \in Nat
  BY <1>2, LenProperties
<1>4. 0 \in P
  <2>1. j + 0 = j
    OBVIOUS
  <2>2. Begins(f[j], f[j])
    BY <1>3 DEF Begins
  <2> QED
    BY <2>1, <2>2
<1>5. ASSUME NEW d \in Nat, d \in P PROVE d + 1 \in P
  <2> SUFFICES ASSUME j + (d + 1) <= len PROVE Begins(f[j], f[j + (d + 1)])
    OBVIOUS
  <2> DEFINE y == j + d
  <2>1. /\ Begins(f[j], f[y]) /\ y + 1 \in 1 .. len /\ y \in 0 .. len /\ y + 1 - 1 = y /\ j + (d + 1) = y + 1
    BY <1>5
  <2> HIDE DEF y
  <2>2. f[y + 1] = IF y + 1 \in S THEN Append(f[y], v[y + 1]) ELSE f[y]
    BY <1>1, <2>1
  <2>3. CASE y + 1 \in S
    <3>1. f[y] \in Seq(T) /\ v[y + 1] \in T /\ f[y + 1] = Append(f[y], v[y + 1])
      BY <1>2, <2>1, <2>2, <2>3
    <3> HIDE DEF T
    <3>2. Len(f[y + 1]) = Len(f[y]) + 1 /\ \A x \in 1 .. Len(f[y]) : f[y + 1][x] = f[y][x]
      BY <3>1, AppendProperties
    <3>3. Len(f[y]) \in Nat /\ Len(f[j]) \in Nat
      BY <1>3, <2>1
    <3> HIDE DEF P
    <3>4. Begins(f[j], f[y + 1])
      BY <2>1, <3>2, <3>3 DEF Begins
    <3> QED
      BY <2>1, <3>4
  <2>4. CASE y + 1 \notin S
    BY <2>1, <2>2, <2>4
  <2> QED
    BY <2>3, <2>4
<1> HIDE DEF P
<1>6. k - j \in P
  BY <1>4, <1>5, SetInduction
<1>7. j + (k - j) = k
  OBVIOUS
<1>8. Begins(f[j], f[k])
  BY <1>6, <1>7 DEF P
<1> QED
  BY <1>8 DEF f

LEMMA ArgumentType ==
  ASSUME NEW a \in Arguments
  PROVE  /\ a.letters \in Seq(STRING) /\ Len(a.letters) \in Nat
         /\ a.kind \in {"short", "driver"} <=> a.letters # <<>>
         /\ a.letters # <<>> => Len(a.letters) # 0
<1>1. a \in [kind : STRING, letters : Seq(STRING), name : STRING, value : STRING]
  BY ArgsAssumption DEF ArgsAssumption
<1>2. a.letters \in Seq(STRING)
  BY <1>1
<1>3. a.kind \in {"short", "driver"} <=> a.letters # <<>>
  BY ArgsAssumption DEF ArgsAssumption
<1> QED
  BY <1>2, <1>3, LenProperties, EmptySeq

\* The next option is the first argument from i on that is not a file.
LEMMA AtProperties ==
  ASSUME IInv, i <= Argc + 1, n <= i - 2
  PROVE  /\ At \in i .. Argc + 1
         /\ At <= Argc => argv[At].kind # "plain" /\ argv[At] \in Arguments
         /\ \A k \in i .. At - 1 : argv[k].kind = "plain"
         /\ NArgs \in 0 .. At - 2 /\ NArgs - n = At - i
<1> DEFINE others == {k \in i .. Argc : argv[k].kind # "plain"}
<1>1. i \in Nat /\ n \in Nat /\ Argc \in Nat \ {0} /\ \A k \in 2 .. Argc : argv[k] \in Arguments
  BY DEF IInv
<1>2. CASE others = {}
  BY <1>1, <1>2 DEF At, NArgs
<1>3. CASE others # {}
  <2>1. At \in others /\ \A k \in others : At <= k
    <3>1. others \subseteq Nat
      BY <1>1
    <3>2. At = Min(others)
      BY <1>3 DEF At
    <3> QED
      BY <1>3, <3>1, <3>2, MinProperties
  <2> QED
    BY <1>1, <2>1 DEF NArgs
<1> QED
  BY <1>2, <1>3

\* What ketopt_permute leaves where: the arguments that were read, then the
\* files they moved over; the rest stays.
LEMMA MoveProperties ==
  ASSUME NEW S, NEW s \in Seq(S), NEW from \in 1 .. Len(s), NEW to \in from .. Len(s),
         NEW k \in 0 .. from - 1
  PROVE  /\ Move(s, from, to, k) \in Seq(S) /\ Len(Move(s, from, to, k)) = Len(s)
         /\ \A j \in 1 .. from - k - 1 : Move(s, from, to, k)[j] = s[j]
         /\ \A j \in from - k .. to - k : Move(s, from, to, k)[j] = s[j + k]
         /\ \A j \in to - k + 1 .. to : Move(s, from, to, k)[j] = s[j - (to - from + 1)]
         /\ \A j \in to + 1 .. Len(s) : Move(s, from, to, k)[j] = s[j]
<1> DEFINE a == SubSeq(s, 1, from - k - 1)
           b == SubSeq(s, from, to)
           c == SubSeq(s, from - k, from - 1)
           d == SubSeq(s, to + 1, Len(s))
           ab == a \o b
           abc == ab \o c
           abcd == abc \o d
<1>1. Len(s) \in Nat /\ \A j \in 1 .. Len(s) : s[j] \in S
  BY LenProperties, ElementOfSeq
<1>2. /\ a \in Seq(S) /\ Len(a) = from - k - 1 /\ \A j \in 1 .. from - k - 1 : a[j] = s[j]
      /\ b \in Seq(S) /\ Len(b) = to - from + 1 /\ \A j \in 1 .. to - from + 1 : b[j] = s[from + j - 1]
      /\ c \in Seq(S) /\ Len(c) = k /\ \A j \in 1 .. k : c[j] = s[from - k + j - 1]
      /\ d \in Seq(S) /\ Len(d) = Len(s) - to /\ \A j \in 1 .. Len(s) - to : d[j] = s[to + j]
  <2>1. a \in Seq(S) /\ Len(a) = from - k - 1 /\ \A j \in 1 .. from - k - 1 : a[j] = s[j]
    BY <1>1, SubSeqProperties
  <2>2. b \in Seq(S) /\ Len(b) = to - from + 1 /\ \A j \in 1 .. to - from + 1 : b[j] = s[from + j - 1]
    BY <1>1, SubSeqProperties
  <2>3. c \in Seq(S) /\ Len(c) = k /\ \A j \in 1 .. k : c[j] = s[from - k + j - 1]
    BY <1>1, SubSeqProperties
  <2>4. d \in Seq(S) /\ Len(d) = Len(s) - to /\ \A j \in 1 .. Len(s) - to : d[j] = s[to + j]
    BY <1>1, SubSeqProperties
  <2> QED
    BY <2>1, <2>2, <2>3, <2>4
<1> HIDE DEF a, b, c, d
<1>3. ab \in Seq(S) /\ Len(ab) = to - k /\ \A j \in 1 .. to - k : ab[j] = IF j <= from - k - 1 THEN s[j] ELSE s[j + k]
  <2>1. a \in Seq(S) /\ b \in Seq(S) /\ Len(a) = from - k - 1 /\ Len(b) = to - from + 1
    BY <1>2
  <2>2. /\ ab \in Seq(S) /\ Len(ab) = Len(a) + Len(b)
        /\ \A j \in 1 .. Len(a) + Len(b) : ab[j] = IF j <= Len(a) THEN a[j] ELSE b[j - Len(a)]
    BY <2>1, ConcatProperties, Zenon
  <2> HIDE DEF ab
  <2>3. Len(a) + Len(b) = to - k
    BY <1>1, <2>1
  <2>4. ab \in Seq(S) /\ Len(ab) = to - k /\ \A j \in 1 .. to - k : ab[j] = IF j <= from - k - 1 THEN a[j] ELSE b[j - (from - k - 1)]
    BY <2>1, <2>2, <2>3
  <2>5. ASSUME NEW j \in 1 .. to - k, ~(j <= from - k - 1) PROVE ab[j] = s[j + k]
    <3> DEFINE m == j - (from - k - 1)
    <3>1. m \in 1 .. to - from + 1 /\ from + m - 1 = j + k
      BY <1>1, <2>5
    <3>2. ab[j] = b[m]
      BY <2>4, <2>5
    <3> HIDE DEF m
    <3>3. b[m] = s[from + m - 1]
      BY <1>2, <3>1
    <3> QED
      BY <3>1, <3>2, <3>3
  <2>6. ASSUME NEW j \in 1 .. to - k, j <= from - k - 1 PROVE ab[j] = s[j]
    <3>1. j \in 1 .. from - k - 1
      BY <1>1, <2>6
    <3> QED
      BY <1>2, <2>4, <2>6, <3>1
  <2> QED
    BY <2>4, <2>5, <2>6
<1> HIDE DEF ab
<1>4. abc \in Seq(S) /\ Len(abc) = to /\ \A j \in 1 .. to : abc[j] = IF j <= to - k THEN ab[j] ELSE s[j - (to - from + 1)]
  <2>1. ab \in Seq(S) /\ c \in Seq(S) /\ Len(ab) = to - k /\ Len(c) = k
    BY <1>2, <1>3
  <2>2. /\ abc \in Seq(S) /\ Len(abc) = Len(ab) + Len(c)
        /\ \A j \in 1 .. Len(ab) + Len(c) : abc[j] = IF j <= Len(ab) THEN ab[j] ELSE c[j - Len(ab)]
    BY <2>1, ConcatProperties, Zenon
  <2> HIDE DEF abc
  <2>3. Len(ab) + Len(c) = to
    BY <1>1, <2>1
  <2>4. abc \in Seq(S) /\ Len(abc) = to /\ \A j \in 1 .. to : abc[j] = IF j <= to - k THEN ab[j] ELSE c[j - (to - k)]
    BY <2>1, <2>3, <2>2
  <2>5. ASSUME NEW j \in 1 .. to, ~(j <= to - k) PROVE abc[j] = s[j - (to - from + 1)]
    <3> DEFINE m == j - (to - k)
    <3>1. m \in 1 .. k /\ from - k + m - 1 = j - (to - from + 1)
      BY <1>1, <2>5
    <3>2. abc[j] = c[m]
      BY <2>4, <2>5
    <3> HIDE DEF m
    <3>3. c[m] = s[from - k + m - 1]
      BY <1>2, <3>1
    <3> QED
      BY <3>1, <3>2, <3>3
  <2> QED
    BY <2>4, <2>5
<1> HIDE DEF abc
<1>5. abcd \in Seq(S) /\ Len(abcd) = Len(s) /\ \A j \in 1 .. Len(s) : abcd[j] = IF j <= to THEN abc[j] ELSE s[j]
  <2>1. abc \in Seq(S) /\ d \in Seq(S) /\ Len(abc) = to /\ Len(d) = Len(s) - to
    BY <1>2, <1>4
  <2>2. /\ abcd \in Seq(S) /\ Len(abcd) = Len(abc) + Len(d)
        /\ \A j \in 1 .. Len(abc) + Len(d) : abcd[j] = IF j <= Len(abc) THEN abc[j] ELSE d[j - Len(abc)]
    BY <2>1, ConcatProperties, Zenon
  <2> HIDE DEF abcd
  <2>3. Len(abc) + Len(d) = Len(s)
    BY <1>1, <2>1
  <2>4. abcd \in Seq(S) /\ Len(abcd) = Len(s) /\ \A j \in 1 .. Len(s) : abcd[j] = IF j <= to THEN abc[j] ELSE d[j - to]
    BY <2>1, <2>3, <2>2
  <2>5. ASSUME NEW j \in 1 .. Len(s), ~(j <= to) PROVE abcd[j] = s[j]
    <3> DEFINE m == j - to
    <3>1. m \in 1 .. Len(s) - to /\ to + m = j
      BY <1>1, <2>5
    <3>2. abcd[j] = d[m]
      BY <2>4, <2>5
    <3> HIDE DEF m
    <3> QED
      BY <1>2, <3>1, <3>2
  <2> QED
    BY <2>4, <2>5
<1>6. abcd = Move(s, from, to, k)
  BY DEF Move, abc, ab, a, b, c, d
<1> HIDE DEF abcd
<1>7. ASSUME NEW j \in 1 .. from - k - 1 PROVE abcd[j] = s[j]
  <2>1. j \in 1 .. Len(s) /\ j \in 1 .. to /\ j \in 1 .. to - k /\ j <= to /\ j <= to - k
    BY <1>1
  <2>2. abcd[j] = abc[j] /\ abc[j] = ab[j]
    BY <1>4, <1>5, <2>1
  <2>3. ab[j] = s[j]
    BY <1>3, <2>1
  <2> QED
    BY <2>2, <2>3
<1>8. ASSUME NEW j \in from - k .. to - k PROVE abcd[j] = s[j + k]
  <2>1. /\ j \in 1 .. Len(s) /\ j \in 1 .. to /\ j \in 1 .. to - k
        /\ j <= to /\ j <= to - k /\ ~(j <= from - k - 1)
    BY <1>1
  <2>2. abcd[j] = abc[j] /\ abc[j] = ab[j]
    BY <1>4, <1>5, <2>1
  <2>3. ab[j] = s[j + k]
    BY <1>3, <2>1
  <2> QED
    BY <2>2, <2>3
<1>9. \A j \in to - k + 1 .. to : abcd[j] = s[j - (to - from + 1)]
  <2> SUFFICES ASSUME NEW j \in to - k + 1 .. to PROVE abcd[j] = s[j - (to - from + 1)]
    OBVIOUS
  <2>1. j \in 1 .. to /\ j \in 1 .. Len(s) /\ j <= to /\ ~(j <= to - k)
    BY <1>1
  <2> QED
    BY <1>4, <1>5, <2>1
<1>10. \A j \in to + 1 .. Len(s) : abcd[j] = s[j]
  BY <1>1, <1>5
<1> QED
  BY <1>5, <1>6, <1>7, <1>8, <1>9, <1>10

-----------------------------------------------------------------------------
(* The invariant *)

LEMMA InitInv == Init => IInv
<1> SUFFICES ASSUME Init PROVE IInv
  OBVIOUS
<1>1. cmd \in Seq(Arguments)
  BY SeqDef DEF Init, ArgsAssumption
<1>2. argv \in Seq(All) /\ Len(argv) = 1 /\ argv[1] = Self
  BY DEF Init, All
<1> QED
  BY <1>1, <1>2 DEF Init, IInv, TypeOK, FilterInv, ParserInv, Ended, All, Argc

\* The state between two steps of the parser.
LEMMA ParserState ==
  ASSUME IInv, phase = "options"
  PROVE  /\ argv \in Seq(All) /\ Argc \in Nat \ {0} /\ i \in Nat /\ n \in Nat
         /\ i <= Argc + 1 /\ n <= i - 2 /\ i >= 2 /\ argv[1] = Self /\ sep = 0
         /\ \A k \in i - n .. i - 1 : argv[k].kind = "plain"
BY DEF IInv, TypeOK, ParserInv, All

\* The parser has read the arguments from At to to: the files it passed over
\* are now behind them.
LEMMA ReadState ==
  ASSUME IInv, phase = "options", At <= Argc, NEW to \in At .. Argc, Read(to)
  PROVE  /\ argv' \in Seq(All) /\ Len(argv') = Argc /\ argv'[1] = Self
         /\ \A k \in 2 .. Argc : argv'[k] \in Arguments
         /\ i' = to + 1 /\ n' = NArgs /\ pos' = 0 /\ ind' = i' - n'
         /\ n' \in 0 .. i' - 2 /\ i' <= Argc + 1 /\ i' \in Nat /\ n' \in Nat
         /\ \A k \in 1 .. NArgs : argv'[i' - n' + k - 1] = argv[At - NArgs + k - 1]
         /\ \A k \in At - NArgs .. At - 1 : argv[k].kind = "plain"
         /\ \A k \in i' - n' .. i' - 1 : argv'[k].kind = "plain"
         /\ \A k \in i' .. Argc : argv'[k] = argv[k]
<1>1. /\ argv \in Seq(All) /\ Argc \in Nat \ {0} /\ i \in Nat /\ n \in Nat
      /\ i <= Argc + 1 /\ n <= i - 2 /\ argv[1] = Self
      /\ \A k \in i - n .. i - 1 : argv[k].kind = "plain"
      /\ \A k \in 2 .. Argc : argv[k] \in Arguments
  BY ParserState DEF IInv
<1>2. /\ At \in i .. Argc + 1 /\ NArgs \in 0 .. At - 2 /\ NArgs - n = At - i
      /\ \A k \in i .. At - 1 : argv[k].kind = "plain"
  BY <1>1, AtProperties
<1>3. /\ argv' = Move(argv, At, to, NArgs) /\ i' = to + 1 /\ n' = NArgs /\ pos' = 0
      /\ ind' = to + 1 - NArgs
  BY DEF Read
<1>4. At \in 1 .. Len(argv) /\ to \in At .. Len(argv) /\ NArgs \in 0 .. At - 1 /\ Len(argv) = Argc
  BY <1>1, <1>2 DEF Argc
<1>5. /\ argv' \in Seq(All) /\ Len(argv') = Argc
      /\ \A j \in 1 .. At - NArgs - 1 : argv'[j] = argv[j]
      /\ \A j \in At - NArgs .. to - NArgs : argv'[j] = argv[j + NArgs]
      /\ \A j \in to - NArgs + 1 .. to : argv'[j] = argv[j - (to - At + 1)]
      /\ \A j \in to + 1 .. Argc : argv'[j] = argv[j]
  BY <1>1, <1>3, <1>4, MoveProperties
<1>6. argv'[1] = Self
  <2>1. 1 \in 1 .. At - NArgs - 1
    BY <1>1, <1>2
  <2> QED
    BY <1>1, <1>5, <2>1
<1>7. ASSUME NEW k \in 2 .. Argc PROVE argv'[k] \in Arguments
  <2>1. CASE k \in 1 .. At - NArgs - 1
    BY <1>1, <1>5, <2>1
  <2>2. CASE k \in At - NArgs .. to - NArgs
    BY <1>1, <1>2, <1>4, <1>5, <2>2
  <2>3. CASE k \in to - NArgs + 1 .. to
    BY <1>1, <1>2, <1>4, <1>5, <2>3
  <2>4. CASE k \in to + 1 .. Argc
    BY <1>1, <1>5, <2>4
  <2> QED
    BY <1>1, <1>2, <1>4, <2>1, <2>2, <2>3, <2>4
<1>8. ASSUME NEW k \in At - NArgs .. At - 1 PROVE argv[k].kind = "plain"
  <2>1. k \in i - n .. i - 1 \/ k \in i .. At - 1
    BY <1>1, <1>2
  <2> QED
    BY <1>1, <1>2, <2>1
<1>9. ASSUME NEW k \in 1 .. NArgs PROVE argv'[i' - n' + k - 1] = argv[At - NArgs + k - 1]
  <2> DEFINE j == to - NArgs + k
  <2>1. j \in to - NArgs + 1 .. to /\ j = i' - n' + k - 1 /\ j - (to - At + 1) = At - NArgs + k - 1
    BY <1>1, <1>2, <1>3, <1>4
  <2> HIDE DEF j
  <2> QED
    BY <1>5, <2>1
<1>10. ASSUME NEW k \in i' - n' .. i' - 1 PROVE argv'[k].kind = "plain"
  <2>1. k - (to - At + 1) \in At - NArgs .. At - 1 /\ k \in to - NArgs + 1 .. to
    BY <1>1, <1>2, <1>3, <1>4
  <2> QED
    BY <1>5, <1>8, <2>1
<1> QED
  BY <1>1, <1>2, <1>3, <1>4, <1>5, <1>6, <1>7, <1>8, <1>9, <1>10

\* Whatever main makes of what was read.
LEMMA ReadInv ==
  ASSUME IInv, phase = "options", At <= Argc, NEW to \in At .. Argc, Read(to),
         phase' \in {"options", "routed", "help", "invalid"},
         phase' = "options" => sep' = 0,
         set' \subseteq {"quiet", "verbose", "status", "obj", "outfile"},
         forced' \in {"none", "xass", "xtgz"}
  PROVE  IInv'
<1>1. /\ argv' \in Seq(All) /\ Len(argv') = Argc /\ argv'[1] = Self
      /\ \A k \in 2 .. Argc : argv'[k] \in Arguments
      /\ i' = to + 1 /\ n' = NArgs /\ pos' = 0 /\ ind' = i' - n'
      /\ n' \in 0 .. i' - 2 /\ i' <= Argc + 1 /\ i' \in Nat /\ n' \in Nat
      /\ \A k \in i' - n' .. i' - 1 : argv'[k].kind = "plain"
  BY ReadState
<1>2. Argc' = Argc /\ Argc \in Nat \ {0}
  BY <1>1, ParserState DEF Argc
<1>3. TypeOK'
  BY <1>1, <1>2 DEF TypeOK, Ended, All
<1>4. FilterInv' /\ ParserInv'
  BY <1>1 DEF FilterInv, ParserInv
<1> QED
  BY <1>1, <1>2, <1>3, <1>4 DEF IInv

LEMMA FilterArgumentInv == IInv /\ FilterArgument => IInv'
<1> SUFFICES ASSUME IInv, FilterArgument PROVE IInv'
  OBVIOUS
<1>1. /\ phase = "filter" /\ i <= Len(cmd)
      /\ UNCHANGED <<cmd, phase, pos, n, ind, set, values, forced, sep>>
  BY DEF FilterArgument, outcome
<1>2. /\ cmd \in Seq(Arguments) /\ i \in Nat \ {0} /\ pos = 0 /\ n = 0 /\ sep = 0
      /\ argv \in Seq(All) /\ argv[1] = Self /\ Argc \in Nat \ {0}
      /\ \A k \in 2 .. Argc : argv[k] \in Arguments
  BY <1>1 DEF IInv, TypeOK, FilterInv, All
<1>3. cmd[i] \in Arguments
  BY <1>1, <1>2, LenProperties, ElementOfSeq
<1>4. /\ i' \in Nat \ {0}
      /\ argv' \in Seq(All) /\ argv'[1] = Self /\ Argc' \in Nat \ {0}
      /\ \A k \in 2 .. Argc' : argv'[k] \in Arguments
  <2>1. CASE cmd[i].kind = "driver" /\ ~after
    BY <1>2, <2>1 DEF FilterArgument, Argc
  <2>2. CASE ~(cmd[i].kind = "driver" /\ ~after)
    <3>1. argv' = Append(argv, cmd[i]) /\ i' = i + 1
      BY <2>2 DEF FilterArgument
    <3>2. /\ argv' \in Seq(All) /\ Len(argv') = Len(argv) + 1 /\ argv'[Len(argv) + 1] = cmd[i]
          /\ \A k \in 1 .. Len(argv) : argv'[k] = argv[k]
      BY <1>2, <1>3, <3>1, AppendProperties DEF All
    <3> QED
      BY <1>2, <1>3, <3>1, <3>2 DEF Argc
  <2> QED
    BY <2>1, <2>2
<1>5. TypeOK'
  BY <1>1, <1>4 DEF IInv, TypeOK, Ended, All
<1> QED
  BY <1>1, <1>2, <1>4, <1>5 DEF IInv, FilterInv, ParserInv

LEMMA FilterEndsInv == IInv /\ FilterEnds => IInv'
<1> SUFFICES ASSUME IInv, FilterEnds PROVE IInv'
  OBVIOUS
<1>1. /\ phase = "filter" /\ phase' = "options" /\ i' = 2
      /\ UNCHANGED <<cmd, argv, after, pos, n, ind, set, values, forced, sep>>
  BY DEF FilterEnds, outcome
<1>2. Argc' = Argc /\ Argc \in Nat \ {0} /\ n = 0 /\ pos = 0 /\ sep = 0 /\ argv[1] = Self
  BY <1>1 DEF Argc, IInv, FilterInv
<1>3. TypeOK'
  BY <1>1, <1>2 DEF IInv, TypeOK, Ended
<1> QED
  BY <1>1, <1>2, <1>3 DEF IInv, FilterInv, ParserInv

\* The parser has passed over the files in front of At and is to look at the
\* argument there again, or there is none.
LEMMA StayInv ==
  ASSUME IInv, phase = "options", i' = At, n' = NArgs, UNCHANGED <<argv, sep, forced>>,
         phase' \in {"options", "routed", "help", "invalid"},
         phase' # "options" => ind' = At - NArgs,
         set' \subseteq {"quiet", "verbose", "status", "obj", "outfile"},
         ParserInv'
  PROVE  IInv'
<1>1. /\ argv \in Seq(All) /\ Argc \in Nat \ {0} /\ i \in Nat /\ n \in Nat
      /\ i <= Argc + 1 /\ n <= i - 2 /\ argv[1] = Self /\ sep = 0
      /\ \A k \in i - n .. i - 1 : argv[k].kind = "plain"
  BY ParserState
<1>2. /\ At \in i .. Argc + 1 /\ NArgs \in 0 .. At - 2 /\ NArgs - n = At - i
      /\ \A k \in i .. At - 1 : argv[k].kind = "plain"
  BY <1>1, AtProperties
<1>3. Argc' = Argc
  BY DEF Argc
<1>4. ASSUME NEW k \in At - NArgs .. At - 1 PROVE argv[k].kind = "plain"
  <2>1. k \in i - n .. i - 1 \/ k \in i .. At - 1
    BY <1>1, <1>2
  <2> QED
    BY <1>1, <1>2, <2>1
<1>5. TypeOK'
  BY <1>1, <1>2, <1>3, <1>4 DEF IInv, TypeOK, Ended
<1>6. i' \in Nat /\ n' \in Nat
  BY <1>1, <1>2
<1>7. FilterInv'
  BY DEF FilterInv
<1> QED
  BY <1>1, <1>3, <1>5, <1>6, <1>7 DEF IInv

-----------------------------------------------------------------------------
(* What is still to be read *)

LEMMA TodoProperties ==
  ASSUME IInv, phase = "options"
  PROVE  /\ Todo \in Seq(All) /\ Len(Todo) = Argc - i + 1
         /\ \A k \in 1 .. Argc - i + 1 : Todo[k] = argv[i + k - 1]
         /\ Passed \in Seq(All) /\ Len(Passed) = n
         /\ \A k \in 1 .. n : Passed[k] = argv[i - n + k - 1]
<1>1. /\ argv \in Seq(All) /\ Argc \in Nat \ {0} /\ i \in Nat /\ n \in Nat
      /\ i <= Argc + 1 /\ n <= i - 2
  BY ParserState
<1>2. \A k \in 1 .. Argc : argv[k] \in All
  BY <1>1, ElementOfSeq DEF Argc
<1>3. Todo = SubSeq(argv, i, Argc) /\ Passed = SubSeq(argv, i - n, i - 1)
  BY DEF Todo, Passed
<1>4. \A k \in i .. Argc : argv[k] \in All
  BY <1>1, <1>2
<1>5. /\ Todo \in Seq(All) /\ Len(Todo) = IF i <= Argc THEN Argc - i + 1 ELSE 0
      /\ \A k \in 1 .. Argc - i + 1 : Todo[k] = argv[i + k - 1]
  <2>1. i \in Int /\ Argc \in Int
    BY <1>1
  <2> QED
    BY <1>3, <1>4, <2>1, SubSeqProperties
<1>6. \A k \in i - n .. i - 1 : argv[k] \in All
  BY <1>1, <1>2
<1>7. /\ Passed \in Seq(All) /\ Len(Passed) = IF i - n <= i - 1 THEN (i - 1) - (i - n) + 1 ELSE 0
      /\ \A k \in 1 .. (i - 1) - (i - n) + 1 : Passed[k] = argv[i - n + k - 1]
  <2>1. i - n \in Int /\ i - 1 \in Int
    BY <1>1
  <2> QED
    BY <1>3, <1>6, <2>1, SubSeqProperties
<1> QED
  BY <1>1, <1>5, <1>7

LEMMA LeadIs ==
  ASSUME IInv, phase = "options"
  PROVE  /\ Reader!Lead = At - i
         /\ At <= Argc => Todo[At - i + 1] = argv[At]
         /\ At + 1 <= Argc => Todo[At - i + 2] = argv[At + 1]
<1>1. Argc \in Nat \ {0} /\ i \in Nat /\ n \in Nat /\ i <= Argc + 1 /\ n <= i - 2
  BY ParserState
<1>2. /\ At \in i .. Argc + 1 /\ (At <= Argc => argv[At].kind # "plain")
      /\ \A k \in i .. At - 1 : argv[k].kind = "plain"
  BY <1>1, AtProperties
<1>3. Len(Todo) = Argc - i + 1 /\ \A k \in 1 .. Argc - i + 1 : Todo[k] = argv[i + k - 1]
  BY TodoProperties
<1> DEFINE leads == {k \in 0 .. Len(Todo) : k = Len(Todo) \/ Todo[k + 1].kind # "plain"}
<1>4. Reader!Lead = Min(leads)
  BY DEF Reader!Lead, Reader!Min, Min
<1>5. At - i \in leads
  BY <1>1, <1>2, <1>3
<1>6. \A k \in leads : At - i <= k
  <2> SUFFICES ASSUME NEW k \in leads, k < At - i PROVE FALSE
    BY <1>1, <1>2, <1>3
  <2>1. k \in Nat /\ k + 1 \in 1 .. Argc - i + 1 /\ k # Len(Todo) /\ i + k \in i .. At - 1 /\ i + (k + 1) - 1 = i + k
    BY <1>1, <1>2, <1>3
  <2>2. Todo[k + 1].kind # "plain"
    BY <2>1
  <2>3. Todo[k + 1] = argv[i + k] /\ argv[i + k].kind = "plain"
    BY <1>2, <1>3, <2>1
  <2> QED
    BY <2>2, <2>3
<1>7. leads \subseteq Nat
  BY <1>1, <1>3
<1>8. Min(leads) = At - i
  <2> HIDE DEF leads
  <2> QED
    BY <1>5, <1>6, <1>7, MinIs
<1> QED
  BY <1>1, <1>2, <1>3, <1>4, <1>8

\* Passing over the files and reading k arguments, in argv and in order.
LEMMA TakeProperties ==
  ASSUME IInv, phase = "options", phase' # "filter",
         NEW k \in 0 .. 2, At + k <= Argc + 1, i' = At + k, n' = NArgs,
         argv' \in Seq(All), Len(argv') = Argc,
         \A j \in 1 .. NArgs : argv'[i' - n' + j - 1] = argv[At - NArgs + j - 1],
         \A j \in i' .. Argc : argv'[j] = argv[j]
  PROVE  Reader!Take(k)
<1>1. /\ argv \in Seq(All) /\ Argc \in Nat \ {0} /\ i \in Nat /\ n \in Nat
      /\ i <= Argc + 1 /\ n <= i - 2
  BY ParserState
<1>2. At \in i .. Argc + 1 /\ NArgs \in 0 .. At - 2 /\ NArgs - n = At - i
  BY <1>1, AtProperties
<1>3. /\ Todo \in Seq(All) /\ Len(Todo) = Argc - i + 1
      /\ \A j \in 1 .. Argc - i + 1 : Todo[j] = argv[i + j - 1]
      /\ Passed \in Seq(All) /\ Len(Passed) = n
      /\ \A j \in 1 .. n : Passed[j] = argv[i - n + j - 1]
  BY TodoProperties
<1>4. Todo' = SubSeq(argv', i', Argc) /\ Passed' = SubSeq(argv', i' - n', i' - 1)
  BY DEF Todo, Passed, Argc
<1>5. \A j \in 1 .. Argc : argv'[j] \in All
  BY <1>1, ElementOfSeq
<1>6. /\ Todo' \in Seq(All) /\ Len(Todo') = Argc - At - k + 1
      /\ \A j \in 1 .. Argc - At - k + 1 : Todo'[j] = argv[At + k + j - 1]
  <2>1. \A j \in i' .. Argc : argv'[j] \in All
    BY <1>1, <1>2, <1>5
  <2>2. /\ Todo' \in Seq(All) /\ Len(Todo') = IF i' <= Argc THEN Argc - i' + 1 ELSE 0
        /\ \A j \in 1 .. Argc - i' + 1 : Todo'[j] = argv'[i' + j - 1]
    <3>1. i' \in Int /\ Argc \in Int
      BY <1>1, <1>2
    <3> QED
      BY <1>4, <2>1, <3>1, SubSeqProperties
  <2>3. Len(Todo') = Argc - At - k + 1
    BY <1>1, <1>2, <2>2
  <2>4. ASSUME NEW j \in 1 .. Argc - At - k + 1 PROVE Todo'[j] = argv[At + k + j - 1]
    <3>1. j \in 1 .. Argc - i' + 1 /\ i' + j - 1 \in i' .. Argc /\ i' + j - 1 = At + k + j - 1
      BY <1>1, <1>2
    <3> QED
      BY <2>2, <3>1
  <2> QED
    BY <2>2, <2>3, <2>4
<1>7. /\ Passed' \in Seq(All) /\ Len(Passed') = NArgs
      /\ \A j \in 1 .. NArgs : Passed'[j] = argv[At - NArgs + j - 1]
  <2>1. ASSUME NEW j \in i' - n' .. i' - 1 PROVE argv'[j] \in All
    <3>1. i' - n' >= 1 /\ i' - 1 <= Argc /\ i' - n' \in Int /\ i' - 1 \in Int
      BY <1>1, <1>2
    <3>2. j \in 1 .. Argc
      BY <1>1, <3>1
    <3> QED
      BY <1>5, <3>2
  <2>2. /\ Passed' \in Seq(All)
        /\ Len(Passed') = IF i' - n' <= i' - 1 THEN (i' - 1) - (i' - n') + 1 ELSE 0
        /\ \A j \in 1 .. (i' - 1) - (i' - n') + 1 : Passed'[j] = argv'[i' - n' + j - 1]
    <3> DEFINE lo == i' - n'
               hi == i' - 1
    <3>1. lo \in Int /\ hi \in Int /\ Passed' = SubSeq(argv', lo, hi)
      BY <1>1, <1>2, <1>4
    <3>2. \A j \in lo .. hi : argv'[j] \in All
      BY <2>1
    <3> HIDE DEF lo, hi
    <3>3. /\ Passed' \in Seq(All) /\ Len(Passed') = IF lo <= hi THEN hi - lo + 1 ELSE 0
          /\ \A j \in 1 .. hi - lo + 1 : Passed'[j] = argv'[lo + j - 1]
      BY <3>1, <3>2, SubSeqProperties
    <3> QED
      BY <3>3 DEF lo, hi
  <2>3. (i' - 1) - (i' - n') + 1 = NArgs /\ (NArgs = 0 \/ i' - n' <= i' - 1)
    BY <1>1, <1>2
  <2>4. Len(Passed') = NArgs
    BY <1>1, <1>2, <2>2
  <2> QED
    BY <2>2, <2>3, <2>4
<1> DEFINE lead == At - i
           head == SubSeq(Todo, 1, lead)
           tail == SubSeq(Todo, lead + k + 1, Len(Todo))
<1>8. \A j \in 1 .. Len(Todo) : Todo[j] \in All
  BY <1>3, ElementOfSeq
<1>9. Todo' = tail
  <2>1. \A j \in lead + k + 1 .. Len(Todo) : Todo[j] \in All
    BY <1>1, <1>2, <1>3, <1>8
  <2>2. lead + k + 1 \in Int /\ Len(Todo) \in Int
    BY <1>1, <1>2, <1>3
  <2>3. /\ tail \in Seq(All) /\ Len(tail) = IF lead + k + 1 <= Len(Todo) THEN Len(Todo) - (lead + k + 1) + 1 ELSE 0
        /\ \A j \in 1 .. Len(Todo) - (lead + k + 1) + 1 : tail[j] = Todo[lead + k + 1 + j - 1]
    <3> DEFINE lo == lead + k + 1
               hi == Len(Todo)
    <3>1. lo \in Int /\ hi \in Int /\ tail = SubSeq(Todo, lo, hi) /\ \A j \in lo .. hi : Todo[j] \in All
      BY <2>1, <2>2
    <3> HIDE DEF lo, hi, tail
    <3>2. /\ tail \in Seq(All) /\ Len(tail) = IF lo <= hi THEN hi - lo + 1 ELSE 0
          /\ \A j \in 1 .. hi - lo + 1 : tail[j] = Todo[lo + j - 1]
      BY <3>1, SubSeqProperties
    <3> QED
      BY <3>2 DEF lo, hi
  <2>4. tail \in Seq(All) /\ Len(tail) = Argc - At - k + 1
    <3> DEFINE lo == lead + k + 1
               hi == Len(Todo)
    <3>1. (IF lo <= hi THEN hi - lo + 1 ELSE 0) = Argc - At - k + 1
      <4>1. /\ At \in Int /\ i \in Int /\ Argc \in Int /\ k \in Int
            /\ At + k <= Argc + 1 /\ hi = Argc - i + 1 /\ lo = At - i + k + 1
        BY <1>1, <1>2, <1>3
      <4> HIDE DEF lo, hi
      <4> QED
        BY <4>1
    <3> HIDE DEF tail
    <3> QED
      BY <2>3, <3>1
  <2>5. ASSUME NEW j \in 1 .. Argc - At - k + 1 PROVE tail[j] = argv[At + k + j - 1]
    <3> HIDE DEF tail
    <3>1. j \in 1 .. Len(Todo) - (lead + k + 1) + 1 /\ lead + k + j \in 1 .. Argc - i + 1
      BY <1>1, <1>2, <1>3
    <3>2. tail[j] = Todo[lead + k + j]
      BY <1>1, <1>2, <2>3, <3>1
    <3>3. Todo[lead + k + j] = argv[i + (lead + k + j) - 1]
      BY <1>3, <3>1
    <3>4. i + (lead + k + j) - 1 = At + k + j - 1
      BY <1>1, <1>2
    <3> QED
      BY <3>2, <3>3, <3>4
  <2> HIDE DEF tail
  <2>6. Todo' \in Seq(All) /\ tail \in Seq(All) /\ Len(Todo') = Len(tail)
    BY <1>6, <2>4
  <2>7. \A j \in 1 .. Len(Todo') : Todo'[j] = tail[j]
    BY <1>6, <2>5
  <2> QED
    BY <2>6, <2>7, SeqEqual
<1>10. Passed' = Passed \o head
  <2>1. \A j \in 1 .. lead : Todo[j] \in All
    BY <1>1, <1>2, <1>3, <1>8
  <2>2. head \in Seq(All) /\ Len(head) = lead /\ \A j \in 1 .. lead : head[j] = argv[i + j - 1]
    <3>1. lead \in Nat /\ 1 \in Int
      BY <1>1, <1>2
    <3>2. /\ head \in Seq(All) /\ Len(head) = IF 1 <= lead THEN lead - 1 + 1 ELSE 0
          /\ \A j \in 1 .. lead - 1 + 1 : head[j] = Todo[1 + j - 1]
      BY <2>1, <3>1, SubSeqProperties
    <3> QED
      BY <1>1, <1>2, <1>3, <3>1, <3>2
  <2> HIDE DEF head
  <2>3. /\ Passed \o head \in Seq(All) /\ Len(Passed \o head) = n + lead
        /\ \A j \in 1 .. n + lead : (Passed \o head)[j] = IF j <= n THEN Passed[j] ELSE head[j - n]
    <3>1. lead \in Nat
      BY <1>1, <1>2
    <3>2. /\ Passed \o head \in Seq(All) /\ Len(Passed \o head) = Len(Passed) + Len(head)
          /\ \A j \in 1 .. Len(Passed) + Len(head) :
               (Passed \o head)[j] = IF j <= Len(Passed) THEN Passed[j] ELSE head[j - Len(Passed)]
      <4>1. Passed \in Seq(All) /\ head \in Seq(All)
        BY <1>3, <2>2
      <4> HIDE DEF All
      <4> QED
        BY <4>1, ConcatProperties
    <3>3. Len(Passed) = n /\ Len(head) = lead
      BY <1>3, <2>2
    <3> QED
      BY <3>2, <3>3
  <2>4. ASSUME NEW j \in 1 .. NArgs PROVE (Passed \o head)[j] = argv[At - NArgs + j - 1]
    <3>1. n + lead = NArgs /\ i - n = At - NArgs
      BY <1>1, <1>2
    <3>2. CASE j <= n
      <4>1. j \in 1 .. n
        BY <1>1, <1>2, <3>2
      <4>2. (Passed \o head)[j] = Passed[j]
        BY <2>3, <3>1, <3>2
      <4> QED
        BY <1>3, <3>1, <4>1, <4>2
    <3>3. CASE ~(j <= n)
      <4>1. j - n \in 1 .. lead /\ i + (j - n) - 1 = At - NArgs + j - 1
        BY <1>1, <1>2, <3>1, <3>3
      <4>2. (Passed \o head)[j] = head[j - n]
        BY <2>3, <3>1, <3>3
      <4>3. head[j - n] = argv[i + (j - n) - 1]
        BY <2>2, <4>1
      <4> QED
        BY <4>1, <4>2, <4>3
    <3> QED
      BY <3>2, <3>3
  <2>5. Len(Passed \o head) = NArgs
    BY <1>1, <1>2, <2>3
  <2>6. Passed' \in Seq(All) /\ Passed \o head \in Seq(All) /\ Len(Passed') = Len(Passed \o head)
    BY <1>7, <2>3, <2>5
  <2>7. \A j \in 1 .. Len(Passed') : Passed'[j] = (Passed \o head)[j]
    BY <1>7, <2>4
  <2> QED
    BY <2>6, <2>7, SeqEqual
<1>11. Reader!Lead = lead
  BY LeadIs
<1> QED
  BY <1>9, <1>10, <1>11 DEF Reader!Take

-----------------------------------------------------------------------------
(* The steps, with what ArgReader makes of each *)

letter == IF pos < 0 THEN 0 ELSE pos

Reads == [Reader!Next]_(Reader!vars)

\* Inside an option, the next argument that is not a file is that option.
LEMMA MidOption ==
  ASSUME IInv, phase = "options", At <= Argc
  PROVE  /\ argv[At] \in Arguments
         /\ letter # 0 => /\ argv[At].kind \in {"short", "driver"}
                          /\ letter = pos /\ pos \in 2 .. Len(argv[At].letters)
         /\ letter = 0 /\ pos # 0 => argv[At].kind = "long"
         /\ letter \in Nat
         /\ Todo # <<>> /\ Reader!Lead < Len(Todo) /\ Reader!Opt = argv[At]
<1>1. /\ Argc \in Nat \ {0} /\ i \in Nat /\ n \in Nat /\ i <= Argc + 1 /\ n <= i - 2 /\ i >= 2
  BY ParserState
<1>2. /\ At \in i .. Argc + 1 /\ argv[At].kind # "plain" /\ argv[At] \in Arguments
      /\ \A k \in i .. At - 1 : argv[k].kind = "plain"
  BY <1>1, AtProperties
<1>3. pos # 0 => /\ i <= Argc
                 /\ \/ pos = -1 /\ argv[i].kind = "long"
                    \/ pos \in 2 .. Len(argv[i].letters) /\ argv[i].kind \in {"short", "driver"}
  BY DEF IInv, ParserInv
<1>4. pos # 0 => At = i
  BY <1>1, <1>2, <1>3
<1>5. i <= Argc => Len(argv[i].letters) \in Nat
  <2>1. ASSUME i <= Argc PROVE argv[i] \in Arguments
    BY <1>1, <2>1 DEF IInv
  <2> QED
    BY <2>1, ArgumentType
<1>6. /\ letter # 0 => /\ argv[At].kind \in {"short", "driver"}
                       /\ letter = pos /\ pos \in 2 .. Len(argv[At].letters)
      /\ letter = 0 /\ pos # 0 => argv[At].kind = "long"
      /\ letter \in Nat
  BY <1>3, <1>4, <1>5 DEF letter
<1>7. Reader!Lead = At - i /\ Todo[At - i + 1] = argv[At] /\ Len(Todo) = Argc - i + 1
  BY LeadIs, TodoProperties
<1>8. Reader!Lead < Len(Todo)
  BY <1>1, <1>2, <1>7
<1>9. Reader!Opt = argv[At]
  BY <1>7 DEF Reader!Opt
<1>10. Todo # <<>>
  <2>1. Todo \in Seq(All) /\ Len(Todo) # 0
    BY <1>1, <1>2, <1>7, TodoProperties
  <2> QED
    BY <2>1, EmptySeq
<1> QED
  BY <1>2, <1>6, <1>8, <1>9, <1>10

\* Reading up to position to, as ArgReader sees it.
LEMMA ReadTakes ==
  ASSUME IInv, phase = "options", phase' # "filter", At <= Argc,
         NEW k \in 1 .. 2, At + k <= Argc + 1, Read(At + k - 1)
  PROVE  Reader!Take(k) /\ pos' = 0
<1>1. Argc \in Nat \ {0} /\ i \in Nat /\ i <= Argc + 1 /\ n <= i - 2
  BY ParserState
<1>2. At \in i .. Argc + 1
  BY <1>1, AtProperties
<1>3. At + k - 1 \in At .. Argc
  BY <1>1, <1>2
<1>4. /\ argv' \in Seq(All) /\ Len(argv') = Argc
      /\ i' = (At + k - 1) + 1 /\ n' = NArgs /\ pos' = 0
      /\ \A j \in 1 .. NArgs : argv'[i' - n' + j - 1] = argv[At - NArgs + j - 1]
      /\ \A j \in i' .. Argc : argv'[j] = argv[j]
  BY <1>3, ReadState
<1>5. i' = At + k
  BY <1>1, <1>2, <1>4
<1>6. k \in 0 .. 2
  OBVIOUS
<1> QED
  BY <1>4, <1>5, <1>6, TakeProperties

\* Passing over the files only.
LEMMA StayTakes ==
  ASSUME IInv, phase = "options", phase' # "filter", i' = At, n' = NArgs, argv' = argv
  PROVE  Reader!Take(0)
<1>1. /\ argv \in Seq(All) /\ Argc \in Nat \ {0} /\ i \in Nat /\ i <= Argc + 1 /\ n <= i - 2
  BY ParserState
<1>2. At \in i .. Argc + 1
  BY <1>1, AtProperties
<1>3. At + 0 <= Argc + 1 /\ i' = At + 0 /\ Len(argv') = Argc /\ argv' \in Seq(All)
  BY <1>1, <1>2 DEF Argc
<1>4. \A j \in 1 .. NArgs : argv'[i' - n' + j - 1] = argv[At - NArgs + j - 1]
  OBVIOUS
<1>5. \A j \in i' .. Argc : argv'[j] = argv[j]
  OBVIOUS
<1> QED
  BY <1>3, <1>4, <1>5, TakeProperties

LEMMA FilterReads == IInv /\ (FilterArgument \/ FilterEnds) => Reads
<1> SUFFICES ASSUME IInv, FilterArgument \/ FilterEnds PROVE Reads
  OBVIOUS
<1>1. CASE FilterArgument
  <2>1. phase = "filter" /\ phase' = "filter" /\ pos' = pos /\ values' = values
    BY <1>1 DEF FilterArgument, outcome
  <2> QED
    BY <2>1 DEF Reads, Reader!vars, Stage, Todo, Passed
<1>2. CASE FilterEnds
  <2>1. /\ phase = "filter" /\ phase' = "options" /\ i' = 2
        /\ argv' = argv /\ pos' = pos /\ n' = n /\ values' = values
    BY <1>2 DEF FilterEnds, outcome
  <2>2. n = 0 /\ Argc \in Nat \ {0} /\ \A k \in 2 .. Argc : argv[k] \in Arguments
    BY <2>1 DEF IInv, FilterInv
  <2>3. Todo' = SubSeq(argv, 2, Argc) /\ Passed' = SubSeq(argv, 2 - 0, 2 - 1)
    BY <2>1, <2>2 DEF Todo, Passed, Argc
  <2>4. Todo' \in Seq(Arguments) /\ Passed' = <<>>
    BY <2>2, <2>3, SubSeqProperties, SubSeqEmpty
  <2>5. Stage = "given" /\ Stage' = "reading" /\ Passed = <<>>
    BY <2>1 DEF Stage, Passed, Ended
  <2>6. Reader!Begin
    BY <2>1, <2>4, <2>5 DEF Reader!Begin
  <2> QED
    BY <2>5, <2>6 DEF Reads, Reader!Next
<1> QED
  BY <1>1, <1>2

LEMMA NoMoreOptionsStep == IInv /\ NoMoreOptions => IInv' /\ Reads
<1> SUFFICES ASSUME IInv, NoMoreOptions PROVE IInv' /\ Reads
  OBVIOUS
<1>1. /\ phase = "options" /\ At > Argc /\ phase' = "routed"
      /\ i' = At /\ n' = NArgs /\ ind' = At - NArgs
      /\ UNCHANGED <<cmd, argv, after, pos, set, values, forced, sep>>
  BY DEF NoMoreOptions, outcome
<1>2. set \subseteq {"quiet", "verbose", "status", "obj", "outfile"}
  BY DEF IInv, TypeOK
<1>3. IInv'
  BY <1>1, <1>2, StayInv DEF ParserInv
<1>4. Reader!Take(0)
  BY <1>1, StayTakes
<1>5. Reader!Lead = Len(Todo)
  <2>1. Argc \in Nat \ {0} /\ i \in Nat /\ i <= Argc + 1 /\ n <= i - 2
    BY <1>1, ParserState
  <2>2. At = Argc + 1
    BY <1>1, <2>1, AtProperties
  <2>3. Reader!Lead = At - i /\ Len(Todo) = Argc - i + 1
    BY <1>1, LeadIs, TodoProperties
  <2> QED
    BY <2>1, <2>2, <2>3
<1>6. Stage = "reading" /\ Stage' = "done"
  BY <1>1 DEF Stage, Ended
<1> QED
  BY <1>1, <1>3, <1>4, <1>5, <1>6 DEF Reads, Reader!Next, Reader!Finish

LEMMA SeparatorStep == IInv /\ Separator => IInv' /\ Reads
<1> SUFFICES ASSUME IInv, Separator PROVE IInv' /\ Reads
  OBVIOUS
<1>1. /\ phase = "options" /\ At <= Argc /\ argv[At] = Sep /\ Read(At) /\ phase' = "routed"
      /\ UNCHANGED <<set, values, forced>>
  BY DEF Separator
<1>2. /\ set \subseteq {"quiet", "verbose", "status", "obj", "outfile"}
      /\ forced \in {"none", "xass", "xtgz"}
  BY DEF IInv, TypeOK
<1>3. /\ At \in At .. Argc /\ At + 1 <= Argc + 1 /\ At + 1 - 1 = At
  <2>1. Argc \in Nat /\ At \in Nat
    <3>1. Argc \in Nat \ {0} /\ i \in Nat /\ i <= Argc + 1 /\ n <= i - 2
      BY <1>1, ParserState
    <3> QED
      BY <3>1, AtProperties
  <2> QED
    BY <1>1, <2>1
<1>4. IInv'
  BY <1>1, <1>2, <1>3, ReadInv
<1>5. Reader!Take(1) /\ pos' = 0
  BY <1>1, <1>3, ReadTakes
<1>6. Reader!Opt = Sep /\ Reader!Lead < Len(Todo) /\ letter = 0
  <2>1. argv[At].kind = "sep"
    <3>1. Sep.kind = "sep"
      BY DEF Sep
    <3> QED
      BY <1>1, <3>1
  <2> QED
    BY <1>1, <2>1, MidOption
<1>7. Reader!TakeLong
  <2>1. Reader!Opt.letters = <<>>
    BY <1>6 DEF Sep
  <2>2. letter' = letter /\ values' = values
    BY <1>1, <1>5, <1>6 DEF letter
  <2> QED
    BY <1>5, <1>6, <2>1, <2>2 DEF Reader!TakeLong, letter
<1>8. Stage = "reading" /\ Stage' \in {"reading", "done"}
  BY <1>1 DEF Stage, Ended
<1> QED
  BY <1>4, <1>7, <1>8 DEF Reads, Reader!Next

LEMMA AmbiguousOptionStep == IInv /\ AmbiguousOption => IInv' /\ Reads
<1> SUFFICES ASSUME IInv, AmbiguousOption PROVE IInv' /\ Reads
  OBVIOUS
<1>1. /\ phase = "options" /\ At <= Argc /\ argv[At].kind = "long" /\ argv[At].name = "ambiguous"
      /\ i' = At /\ pos' = -1 /\ n' = NArgs
      /\ UNCHANGED <<cmd, phase, argv, after, ind, set, values, forced, sep>>
  BY DEF AmbiguousOption, outcome
<1>2. set \subseteq {"quiet", "verbose", "status", "obj", "outfile"} /\ sep = 0
  BY <1>1 DEF IInv, TypeOK, ParserInv
<1>3. ParserInv'
  BY <1>1, <1>2 DEF ParserInv, Argc
<1>4. IInv'
  BY <1>1, <1>2, <1>3, StayInv
<1>5. Reader!Take(0)
  BY <1>1, StayTakes
<1>6. Reader!Opt = argv[At] /\ Reader!Lead < Len(Todo) /\ letter = 0 /\ argv[At] \in Arguments
  BY <1>1, MidOption
<1>7. argv[At].letters = <<>>
  BY <1>1, <1>6, ArgumentType
<1>8. Reader!TakeLong
  BY <1>1, <1>5, <1>6, <1>7 DEF Reader!TakeLong, letter
<1>9. Stage = "reading" /\ Stage' = "reading"
  BY <1>1 DEF Stage, Ended
<1> QED
  BY <1>4, <1>8, <1>9 DEF Reads, Reader!Next

LEMMA LongOptionStep == IInv /\ LongOption => IInv' /\ Reads
<1> SUFFICES ASSUME IInv, LongOption PROVE IInv' /\ Reads
  OBVIOUS
<1> DEFINE a == argv[At]
           next == a.name = "xtgz" /\ a.value = "" /\ At < Argc
<1>1. /\ phase = "options" /\ At <= Argc /\ argv[At].kind = "long" /\ argv[At].name # "ambiguous"
      /\ UNCHANGED <<cmd, after, values, sep>>
  BY DEF LongOption
<1>2. /\ Read(IF next THEN At + 1 ELSE At)
      /\ set' = IF a.name = "verb" THEN (set \ {"quiet"}) \cup {"verbose"} ELSE set
      /\ forced' \in {forced, a.name} /\ (forced' = a.name /\ forced' # forced => a.name \in {"xass", "xtgz"})
      /\ phase' \in {phase, "help", "routed"}
  BY DEF LongOption
<1>3. /\ Argc \in Nat /\ At \in Nat
  <2>1. Argc \in Nat \ {0} /\ i \in Nat /\ i <= Argc + 1 /\ n <= i - 2
    BY <1>1, ParserState
  <2> QED
    BY <2>1, AtProperties
<1>4. PICK k \in 1 .. 2 : Read(At + k - 1) /\ At + k <= Argc + 1 /\ (k = 2 => a.name = "xtgz")
  <2>1. CASE next
    <3>1. At < Argc /\ a.name = "xtgz" /\ Read(At + 1)
      BY <1>2, <2>1
    <3>2. At + 2 - 1 = At + 1 /\ At + 2 <= Argc + 1 /\ 2 \in 1 .. 2
      BY <1>3, <3>1
    <3> QED
      BY <3>1, <3>2
  <2>2. CASE ~next
    <3>1. At + 1 - 1 = At /\ At + 1 <= Argc + 1 /\ 1 \in 1 .. 2 /\ 1 # 2
      BY <1>1, <1>3
    <3>2. Read(At)
      BY <1>2, <2>2
    <3> QED
      BY <3>1, <3>2
  <2> QED
    BY <2>1, <2>2
<1>5. IInv'
  <2>1. At + k - 1 \in At .. Argc
    BY <1>3, <1>4
  <2>2. set' \subseteq {"quiet", "verbose", "status", "obj", "outfile"} /\ forced' \in {"none", "xass", "xtgz"}
    BY <1>2 DEF IInv, TypeOK
  <2>3. sep = 0
    BY <1>1 DEF IInv, ParserInv
  <2> QED
    BY <1>1, <1>2, <1>4, <2>1, <2>2, <2>3, ReadInv
<1>6. Reader!Take(k) /\ pos' = 0
  BY <1>1, <1>2, <1>4, ReadTakes
<1>7. Reader!Opt = argv[At] /\ Reader!Lead < Len(Todo) /\ letter = 0 /\ argv[At] \in Arguments
  BY <1>1, MidOption
<1>8. argv[At].letters = <<>>
  BY <1>1, <1>7, ArgumentType
<1>9. Reader!TakeLong
  BY <1>1, <1>4, <1>6, <1>7, <1>8 DEF Reader!TakeLong, letter
<1>10. Stage = "reading" /\ Stage' \in {"reading", "done"}
  BY <1>1, <1>2 DEF Stage, Ended
<1> QED
  BY <1>5, <1>9, <1>10 DEF Reads, Reader!Next

\* The letter at hand, and what reading it with k arguments does to the values.
Here == argv[At].letters[IF pos = 0 THEN 1 ELSE pos]
Letter(k) ==
  \/ /\ Here \in Valued /\ argv[At].value # "" /\ k = 1
     /\ values' = Append(values, <<Here, Plain(argv[At].value)>>)
  \/ /\ Here \in Valued /\ argv[At].value = "" /\ k = 2
     /\ values' = Append(values, <<Here, argv[At + 1]>>)
  \/ Here \in Valued /\ argv[At].value = "" /\ At = Argc /\ k = 1 /\ UNCHANGED values
  \/ /\ Here \notin Valued /\ k = 1 /\ UNCHANGED values
     /\ (IF pos = 0 THEN 1 ELSE pos) = Len(argv[At].letters)

\* A letter that ends its argument, alone or with the argument after it.
LEMMA LetterStep ==
  ASSUME IInv, phase = "options", At <= Argc, argv[At].kind \in {"short", "driver"},
         NEW k \in 1 .. 2, At + k <= Argc + 1, Read(At + k - 1), Letter(k),
         phase' \in {phase, "help", "invalid"},
         set' \subseteq {"quiet", "verbose", "status", "obj", "outfile"},
         UNCHANGED <<forced, sep>>
  PROVE  IInv' /\ Reads
<1>1. Argc \in Nat /\ At \in Nat /\ i \in Nat
  <2>1. Argc \in Nat \ {0} /\ i \in Nat /\ i <= Argc + 1 /\ n <= i - 2
    BY ParserState
  <2>2. At \in i .. Argc + 1
    BY <2>1, AtProperties
  <2> QED
    BY <2>1, <2>2
<1>2. IInv'
  <2>1. At + k - 1 \in At .. Argc
    BY <1>1
  <2>2. sep = 0 /\ forced \in {"none", "xass", "xtgz"}
    BY DEF IInv, ParserInv, TypeOK
  <2> QED
    BY <2>1, <2>2, ReadInv
<1>3. Reader!Take(k) /\ pos' = 0
  BY ReadTakes
<1>4. /\ Reader!Opt = argv[At] /\ Reader!Lead < Len(Todo) /\ argv[At] \in Arguments
      /\ letter # 0 => letter = pos
      /\ letter = 0 => pos = 0
  <2>1. argv[At].kind # "long"
    OBVIOUS
  <2> QED
    BY <2>1, MidOption
<1>5. argv[At].letters # <<>>
  BY <1>4, ArgumentType
<1>6. Reader!Letter = Here /\ (IF pos = 0 THEN 1 ELSE pos) = (IF letter = 0 THEN 1 ELSE letter)
  BY <1>4 DEF Reader!Letter, Here, letter
<1>7. letter' = 0
  BY <1>3 DEF letter
<1>8. /\ Reader!Lead = At - i /\ Len(Todo) = Argc - i + 1
      /\ k = 2 => Todo[Reader!Lead + 2] = argv[At + 1]
  <2>1. /\ Reader!Lead = At - i /\ Len(Todo) = Argc - i + 1
        /\ At + 1 <= Argc => Todo[At - i + 2] = argv[At + 1]
    BY LeadIs, TodoProperties
  <2>2. k = 2 => At + 1 <= Argc
    BY <1>1
  <2> QED
    BY <2>1, <2>2
<1>9. Reader!TakeLetter
  <2>1. CASE /\ Here \in Valued /\ argv[At].value # "" /\ k = 1
             /\ values' = Append(values, <<Here, Plain(argv[At].value)>>)
    BY <1>3, <1>4, <1>5, <1>6, <1>7, <2>1 DEF Reader!TakeLetter, letter
  <2>2. CASE /\ Here \in Valued /\ argv[At].value = "" /\ k = 2
             /\ values' = Append(values, <<Here, argv[At + 1]>>)
    <3>1. Reader!Lead + 1 < Len(Todo)
      <4>1. At + 1 <= Argc
        <5>1. At + 2 <= Argc + 1
          BY <2>2
        <5> QED
          BY <1>1, <5>1
      <4> QED
        BY <1>1, <1>8, <4>1
    <3> QED
      BY <1>3, <1>4, <1>5, <1>6, <1>7, <1>8, <2>2, <3>1 DEF Reader!TakeLetter, letter
  <2>3. CASE Here \in Valued /\ argv[At].value = "" /\ At = Argc /\ k = 1 /\ UNCHANGED values
    <3>1. Reader!Lead + 1 = Len(Todo)
      BY <1>1, <1>8, <2>3
    <3> QED
      BY <1>3, <1>4, <1>5, <1>6, <1>7, <2>3, <3>1 DEF Reader!TakeLetter, letter
  <2>4. CASE /\ Here \notin Valued /\ k = 1 /\ UNCHANGED values
             /\ (IF pos = 0 THEN 1 ELSE pos) = Len(argv[At].letters)
    <3>1. Reader!AtLast
      BY <1>4, <1>6, <2>4 DEF Reader!AtLast, letter
    <3> QED
      BY <1>3, <1>4, <1>5, <1>6, <1>7, <2>4, <3>1 DEF Reader!TakeLetter, letter
  <2> QED
    BY <2>1, <2>2, <2>3, <2>4 DEF Letter
<1>10. Stage = "reading" /\ Stage' \in {"reading", "done"}
  BY DEF Stage, Ended
<1> QED
  BY <1>2, <1>9, <1>10 DEF Reads, Reader!Next

LEMMA SetOf ==
  ASSUME IInv
  PROVE  /\ \A l : Flag(l) => set' \subseteq {"quiet", "verbose", "status", "obj", "outfile"}
         /\ \A l, v : Value(l, v) => set' \subseteq {"quiet", "verbose", "status", "obj", "outfile"}
BY DEF IInv, TypeOK, Flag, Value

LEMMA ShortOptionStep == IInv /\ ShortOption => IInv' /\ Reads
<1> SUFFICES ASSUME IInv, ShortOption PROVE IInv' /\ Reads
  OBVIOUS
<1>1. /\ phase = "options" /\ At <= Argc /\ argv[At].kind \in {"short", "driver"}
      /\ UNCHANGED <<forced, sep>>
  BY DEF ShortOption
<1>2. Argc \in Nat /\ At \in Nat
  <2>1. Argc \in Nat \ {0} /\ i \in Nat /\ i <= Argc + 1 /\ n <= i - 2
    BY <1>1, ParserState
  <2>2. At \in i .. Argc + 1
    BY <2>1, AtProperties
  <2> QED
    BY <2>1, <2>2
<1>3. /\ At + 1 - 1 = At /\ At + 2 - 1 = At + 1 /\ At + 1 <= Argc + 1
      /\ At < Argc => At + 2 <= Argc + 1
      /\ 1 \in 1 .. 2 /\ 2 \in 1 .. 2
  BY <1>1, <1>2
<1> DEFINE a == argv[At]
           k == IF pos = 0 THEN 1 ELSE pos
<1>4. a.letters[k] = Here
  BY DEF Here
<1>5. CASE Here \in Valued /\ a.value # "" /\ Value(Here, Plain(a.value)) /\ Read(At)
  <2>1. Letter(1)
    BY <1>5 DEF Letter, Value
  <2>2. phase' \in {phase, "help", "invalid"}
    BY <1>5 DEF Value
  <2> QED
    BY <1>1, <1>3, <1>5, <2>1, <2>2, SetOf, LetterStep
<1>6. CASE Here \in Valued /\ a.value = "" /\ At < Argc /\ Value(Here, argv[At + 1]) /\ Read(At + 1)
  <2>1. Letter(2)
    BY <1>6 DEF Letter, Value
  <2>2. phase' \in {phase, "help", "invalid"}
    BY <1>6 DEF Value
  <2> QED
    BY <1>1, <1>3, <1>6, <2>1, <2>2, SetOf, LetterStep
<1>7. CASE /\ Here \in Valued /\ a.value = "" /\ At = Argc
           /\ UNCHANGED <<set, values, phase>> /\ Read(At)
  <2>1. Letter(1)
    BY <1>7 DEF Letter
  <2>2. set' \subseteq {"quiet", "verbose", "status", "obj", "outfile"}
    BY <1>7 DEF IInv, TypeOK
  <2> QED
    BY <1>1, <1>3, <1>7, <2>1, <2>2, LetterStep
<1>8. CASE Here \notin Valued /\ k = Len(a.letters) /\ Flag(Here) /\ Read(At)
  <2>1. Letter(1)
    BY <1>8 DEF Letter, Flag
  <2>2. phase' \in {phase, "help", "invalid"}
    BY <1>8 DEF Flag
  <2> QED
    BY <1>1, <1>3, <1>8, <2>1, <2>2, SetOf, LetterStep
<1>9. CASE /\ Here \notin Valued /\ k < Len(a.letters) /\ Flag(Here)
           /\ i' = At /\ pos' = k + 1 /\ n' = NArgs /\ ind' = At - NArgs
           /\ UNCHANGED argv
  <2>1. phase' \in {phase, "help"} /\ values' = values
    BY <1>9 DEF Flag
  <2>2. /\ a \in Arguments /\ Reader!Opt = a /\ Reader!Lead < Len(Todo)
        /\ letter # 0 => letter = pos /\ pos \in 2 .. Len(a.letters)
        /\ letter = 0 => pos = 0
    <3>1. argv[At].kind # "long"
      BY <1>1
    <3> QED
      BY <1>1, <3>1, MidOption
  <2>3. Len(a.letters) \in Nat /\ a.letters # <<>>
    BY <1>1, <2>2, ArgumentType
  <2>4. k \in 1 .. Len(a.letters) - 1 /\ k + 1 \in 2 .. Len(a.letters)
    BY <1>9, <2>2, <2>3 DEF letter
  <2>5. sep' = 0 /\ set' \subseteq {"quiet", "verbose", "status", "obj", "outfile"}
    BY <1>1, <1>9, SetOf DEF IInv, ParserInv
  <2>6. ParserInv'
    BY <1>1, <1>9, <2>4, <2>5 DEF ParserInv, Argc
  <2>7. IInv'
    BY <1>1, <1>9, <2>1, <2>5, <2>6, StayInv
  <2>8. Reader!Take(0)
    BY <1>1, <1>9, <2>1, StayTakes
  <2>9. /\ Reader!Letter = Here
        /\ ~Reader!AtLast
        /\ letter' = IF letter = 0 THEN 2 ELSE letter + 1
    <3>1. k = IF letter = 0 THEN 1 ELSE letter
      BY <2>2 DEF letter
    <3>2. Reader!Letter = Here
      BY <2>2, <3>1 DEF Reader!Letter, Here, letter
    <3>3. ~Reader!AtLast
      <4>1. letter # Len(a.letters) /\ (letter = 0 => Len(a.letters) # 1)
        <5>1. k < Len(a.letters) /\ Len(a.letters) \in Nat
          BY <1>9, <2>3
        <5>2. letter = 0 => k = 1
          BY <3>1
        <5>3. letter # 0 => k = letter
          BY <3>1
        <5> DEFINE m == Len(a.letters)
        <5>4. CASE letter = 0
          <6>1. 1 < m /\ m \in Nat
            BY <5>1, <5>2, <5>4
          <6> HIDE DEF m
          <6>2. m # 0 /\ m # 1
            BY <6>1
          <6> QED
            BY <5>4, <6>2 DEF m
        <5>5. CASE letter # 0
          <6>1. k = letter
            BY <5>3, <5>5
          <6> QED
            BY <5>1, <5>5, <6>1
        <5> QED
          BY <5>4, <5>5
      <4> QED
        BY <2>2, <4>1 DEF Reader!AtLast, letter
    <3>4. letter' = pos'
      BY <1>9, <2>4 DEF letter
    <3> QED
      BY <1>9, <3>1, <3>2, <3>3, <3>4
  <2>10. Reader!TakeLetter
    BY <1>9, <2>1, <2>2, <2>3, <2>8, <2>9 DEF Reader!TakeLetter, letter
  <2>11. Stage = "reading" /\ Stage' \in {"reading", "done"}
    BY <1>1, <2>1 DEF Stage, Ended
  <2> QED
    BY <2>7, <2>10, <2>11 DEF Reads, Reader!Next
<1> QED
  BY <1>4, <1>5, <1>6, <1>7, <1>8, <1>9 DEF ShortOption

LEMMA StutterStep == IInv /\ UNCHANGED vars => IInv' /\ Reads
<1> SUFFICES ASSUME IInv, UNCHANGED vars PROVE IInv' /\ Reads
  OBVIOUS
<1> USE DEF vars, outcome
<1>1. TypeOK' /\ FilterInv' /\ ParserInv'
  BY DEF IInv, TypeOK, Ended, FilterInv, ParserInv, Argc
<1>2. IInv'
  BY <1>1 DEF IInv, Argc
<1>3. UNCHANGED Reader!vars
  BY DEF Reader!vars, Stage, Todo, Passed, Ended, Argc
<1> QED
  BY <1>2, <1>3 DEF Reads

-----------------------------------------------------------------------------
(* What the filter leaves of a well-formed command line *)

LEMMA SepProperties ==
  ASSUME NEW c \in Seq(Arguments)
  PROVE  /\ Len(c) \in Nat /\ SepIn(c) \in 1 .. Len(c) + 1
         /\ SepIn(c) <= Len(c) => c[SepIn(c)] = Sep
         /\ \A k \in 1 .. SepIn(c) - 1 : k \in 1 .. Len(c) /\ c[k] \in Arguments /\ c[k] # Sep
<1> DEFINE seps == {k \in DOMAIN c : c[k] = Sep}
<1>1. Len(c) \in Nat /\ DOMAIN c = 1 .. Len(c) /\ \A k \in 1 .. Len(c) : c[k] \in Arguments
  BY LenProperties, ElementOfSeq
<1>2. CASE seps = {}
  <2>1. SepIn(c) = Len(c) + 1
    BY <1>2 DEF SepIn
  <2>2. \A k \in 1 .. Len(c) : c[k] # Sep
    BY <1>1, <1>2
  <2> QED
    BY <1>1, <2>1, <2>2
<1>3. CASE seps # {}
  <2>1. seps \subseteq Nat /\ SepIn(c) = Min(seps)
    BY <1>1, <1>3 DEF SepIn
  <2>2. Min(seps) \in seps /\ \A k \in seps : Min(seps) <= k
    BY <1>3, <2>1, MinProperties
  <2>3. SepIn(c) \in 1 .. Len(c) /\ c[SepIn(c)] = Sep /\ \A k \in seps : SepIn(c) <= k
    BY <1>1, <2>1, <2>2
  <2> QED
    BY <1>1, <2>3
<1> QED
  BY <1>2, <1>3

\* What is kept, argument by argument.
LEMMA KeptSteps ==
  ASSUME NEW c \in Seq(Arguments)
  PROVE  /\ Kept(c)[0] = <<>>
         /\ \A k \in 0 .. Len(c) : Kept(c)[k] \in Seq(Arguments) /\ Len(Kept(c)[k]) \in Nat
         /\ \A k \in 1 .. Len(c) :
              /\ Dropped(c, k) => Kept(c)[k] = Kept(c)[k - 1]
              /\ ~Dropped(c, k) => /\ Kept(c)[k] = Append(Kept(c)[k - 1], c[k])
                                   /\ Len(Kept(c)[k]) = Len(Kept(c)[k - 1]) + 1
         /\ \A k \in 0 .. Len(c), x \in Nat :
              x \in 1 .. Len(Kept(c)[k]) => x <= Len(Filtered(c)) /\ Filtered(c)[x] = Kept(c)[k][x]
<1> DEFINE S == {k \in 1 .. Len(c) : ~Dropped(c, k)}
<1>1. Len(c) \in Nat /\ \A k \in 1 .. Len(c) : c[k] \in Arguments
  BY LenProperties, ElementOfSeq
<1>2. Kept(c) = Picked(c, S, Len(c))
  BY DEF Kept
<1>3. /\ Kept(c)[0] = <<>>
      /\ \A k \in 1 .. Len(c) : Kept(c)[k] = IF k \in S THEN Append(Kept(c)[k - 1], c[k]) ELSE Kept(c)[k - 1]
  BY <1>1, <1>2, PickedSteps
<1>4. \A k \in 1 .. Len(c) : k \in S => c[k] \in Arguments
  BY <1>1
<1> HIDE DEF S
<1>5. \A k \in 0 .. Len(c) : Kept(c)[k] \in Seq(Arguments)
  BY <1>1, <1>2, <1>4, PickedType
<1>6. \A k \in 0 .. Len(c) : Len(Kept(c)[k]) \in Nat
  BY <1>5, LenProperties
<1>7. ASSUME NEW k \in 1 .. Len(c)
      PROVE  /\ Dropped(c, k) => Kept(c)[k] = Kept(c)[k - 1]
             /\ ~Dropped(c, k) => /\ Kept(c)[k] = Append(Kept(c)[k - 1], c[k])
                                  /\ Len(Kept(c)[k]) = Len(Kept(c)[k - 1]) + 1
  <2>1. k \in S <=> ~Dropped(c, k)
    BY DEF S
  <2>2. k - 1 \in 0 .. Len(c) /\ c[k] \in Arguments
    BY <1>1
  <2>3. Kept(c)[k - 1] \in Seq(Arguments)
    BY <1>5, <2>2
  <2>4. Len(Append(Kept(c)[k - 1], c[k])) = Len(Kept(c)[k - 1]) + 1
    BY <2>2, <2>3, AppendProperties
  <2>5. Kept(c)[k] = IF k \in S THEN Append(Kept(c)[k - 1], c[k]) ELSE Kept(c)[k - 1]
    BY <1>3
  <2> QED
    BY <2>1, <2>4, <2>5
<1>8. ASSUME NEW k \in 0 .. Len(c), NEW x \in Nat, x \in 1 .. Len(Kept(c)[k])
      PROVE  x <= Len(Filtered(c)) /\ Filtered(c)[x] = Kept(c)[k][x]
  <2>1. Len(c) \in k .. Len(c)
    BY <1>1
  <2> DEFINE len == Len(c)
  <2>2. Begins(Picked(c, S, len)[k], Picked(c, S, len)[len])
    <3>1. len \in Nat /\ k \in 0 .. len /\ len \in k .. len
      BY <1>1, <2>1
    <3> HIDE DEF len
    <3> QED
      BY <3>1, PickedPrefix
  <2>3. /\ Len(Kept(c)[k]) <= Len(Filtered(c))
        /\ Filtered(c)[x] = Kept(c)[k][x]
    BY <1>2, <1>8, <2>2 DEF Filtered, Begins
  <2>4. Len(Kept(c)[k]) \in Nat /\ Len(Filtered(c)) \in Nat
    <3>1. Len(c) \in 0 .. Len(c)
      BY <1>1
    <3> QED
      BY <1>6, <3>1 DEF Filtered
  <2> QED
    BY <1>8, <2>3, <2>4
<1> QED
  BY <1>3, <1>5, <1>6, <1>7, <1>8

\* Where an argument that is kept stands.
LEMMA KeptPlace ==
  ASSUME NEW c \in Seq(Arguments), NEW k \in 1 .. Len(c), ~Dropped(c, k)
  PROVE  /\ Len(Kept(c)[k]) \in Nat \ {0} /\ Len(Kept(c)[k]) <= Len(Filtered(c))
         /\ Len(Kept(c)[k]) = Len(Kept(c)[k - 1]) + 1
         /\ Filtered(c)[Len(Kept(c)[k])] = c[k]
<1> DEFINE before == Kept(c)[k - 1]
<1>1. Len(c) \in Nat /\ c[k] \in Arguments /\ k \in 0 .. Len(c) /\ k - 1 \in 0 .. Len(c)
  BY LenProperties, ElementOfSeq
<1>2. /\ Kept(c)[k] = Append(before, c[k]) /\ Len(Kept(c)[k]) = Len(before) + 1
      /\ before \in Seq(Arguments) /\ Len(before) \in Nat
  BY <1>1, KeptSteps
<1>3. Kept(c)[k][Len(before) + 1] = c[k]
  BY <1>1, <1>2, AppendProperties
<1> HIDE DEF before
<1>4. Len(before) + 1 \in Nat /\ Len(before) + 1 \in 1 .. Len(Kept(c)[k])
  BY <1>2
<1>5. Len(before) + 1 <= Len(Filtered(c)) /\ Filtered(c)[Len(before) + 1] = Kept(c)[k][Len(before) + 1]
  BY <1>1, <1>4, KeptSteps
<1> QED
  BY <1>2, <1>3, <1>4, <1>5 DEF before

\* Everything from "--" on is kept.
LEMMA KeptRest ==
  ASSUME NEW c \in Seq(Arguments)
  PROVE  \A d \in Nat : SepIn(c) - 1 + d <= Len(c) =>
           /\ Len(Kept(c)[SepIn(c) - 1 + d]) = End(c) + d
           /\ d > 0 => Filtered(c)[End(c) + d] = c[SepIn(c) - 1 + d]
<1> DEFINE at == SepIn(c) - 1
           P == {d \in Nat : at + d <= Len(c) => Len(Kept(c)[at + d]) = End(c) + d}
<1>1. Len(c) \in Nat /\ at \in 0 .. Len(c) /\ SepIn(c) \in Nat /\ SepIn(c) = at + 1
  BY SepProperties
<1> HIDE DEF at
<1>2. End(c) = Len(Kept(c)[at]) /\ End(c) \in Nat
  BY <1>1, KeptSteps DEF End, at
<1>3. 0 \in P
  <2>1. at + 0 = at /\ End(c) + 0 = End(c)
    BY <1>1, <1>2
  <2> QED
    BY <1>2, <2>1
<1>4. ASSUME NEW d \in Nat, at + (d + 1) <= Len(c)
      PROVE  /\ Len(Kept(c)[at + (d + 1)]) = Len(Kept(c)[at + d]) + 1
             /\ Filtered(c)[Len(Kept(c)[at + (d + 1)])] = c[at + (d + 1)]
  <2> DEFINE k == at + (d + 1)
  <2>1. k \in 1 .. Len(c) /\ k - 1 = at + d /\ ~(k < SepIn(c))
    BY <1>1, <1>4
  <2> HIDE DEF k
  <2>2. ~Dropped(c, k)
    BY <2>1 DEF Dropped
  <2>3. Len(Kept(c)[k]) = Len(Kept(c)[k - 1]) + 1 /\ Filtered(c)[Len(Kept(c)[k])] = c[k]
    BY <2>1, <2>2, KeptPlace
  <2> QED
    BY <2>1, <2>3 DEF k
<1>5. ASSUME NEW d \in Nat, d \in P PROVE d + 1 \in P
  <2> SUFFICES ASSUME at + (d + 1) <= Len(c) PROVE Len(Kept(c)[at + (d + 1)]) = End(c) + (d + 1)
    OBVIOUS
  <2>1. at + d <= Len(c)
    BY <1>1
  <2>2. Len(Kept(c)[at + d]) = End(c) + d
    BY <1>5, <2>1
  <2>3. Len(Kept(c)[at + (d + 1)]) = Len(Kept(c)[at + d]) + 1
    BY <1>4
  <2>4. ASSUME NEW e \in Nat PROVE (e + d) + 1 = e + (d + 1)
    OBVIOUS
  <2> QED
    BY <1>2, <2>2, <2>3, <2>4
<1>6. \A d \in Nat : d \in P
  <2> HIDE DEF P
  <2> QED
    BY <1>3, <1>5, SetInduction
<1>7. ASSUME NEW d \in Nat, at + d <= Len(c)
      PROVE  /\ Len(Kept(c)[at + d]) = End(c) + d
             /\ d > 0 => Filtered(c)[End(c) + d] = c[at + d]
  <2>1. Len(Kept(c)[at + d]) = End(c) + d
    BY <1>6, <1>7
  <2>2. ASSUME d > 0 PROVE Filtered(c)[End(c) + d] = c[at + d]
    <3>1. d - 1 \in Nat /\ at + ((d - 1) + 1) = at + d
      BY <2>2
    <3>2. Filtered(c)[Len(Kept(c)[at + ((d - 1) + 1)])] = c[at + ((d - 1) + 1)]
      BY <1>4, <1>7, <3>1
    <3> QED
      BY <2>1, <3>1, <3>2
  <2> QED
    BY <2>1, <2>2
<1> QED
  BY <1>7 DEF at

\* Everything there is comes from the command line.
LEMMA KeptSource ==
  ASSUME NEW c \in Seq(Arguments)
  PROVE  \A k \in 0 .. Len(c), x \in Nat : x \in 1 .. Len(Kept(c)[k]) =>
           \E y \in 1 .. k : ~Dropped(c, y) /\ Len(Kept(c)[y]) = x /\ Filtered(c)[x] = c[y]
<1> DEFINE From(k, x) == \E y \in 1 .. k : ~Dropped(c, y) /\ Len(Kept(c)[y]) = x /\ Filtered(c)[x] = c[y]
           P == {k \in Nat : k <= Len(c) => \A x \in Nat : x \in 1 .. Len(Kept(c)[k]) => From(k, x)}
<1>1. Len(c) \in Nat
  BY LenProperties
<1>2. 0 \in P
  <2>1. Kept(c)[0] = <<>> /\ Len(<<>>) = 0
    BY KeptSteps
  <2> QED
    BY <2>1
<1>3. ASSUME NEW k \in Nat, k \in P PROVE k + 1 \in P
  <2> SUFFICES ASSUME k + 1 <= Len(c), NEW x \in Nat, x \in 1 .. Len(Kept(c)[k + 1]) PROVE From(k + 1, x)
    OBVIOUS
  <2>1. k + 1 \in 1 .. Len(c) /\ k + 1 - 1 = k /\ k <= Len(c) /\ k \in 0 .. Len(c)
    BY <1>1
  <2>2. \A z \in Nat : z \in 1 .. Len(Kept(c)[k]) => From(k, z)
    BY <1>3, <2>1
  <2>3. From(k, x) => From(k + 1, x)
    BY <2>1
  <2>4. CASE Dropped(c, k + 1)
    <3>1. Kept(c)[k + 1] = Kept(c)[k]
      BY <2>1, <2>4, KeptSteps
    <3> HIDE DEF From, P
    <3> QED
      BY <2>2, <2>3, <3>1
  <2>5. CASE ~Dropped(c, k + 1)
    <3>1. Len(Kept(c)[k + 1]) = Len(Kept(c)[k]) + 1 /\ Filtered(c)[Len(Kept(c)[k + 1])] = c[k + 1]
      BY <2>1, <2>5, KeptPlace
    <3>2. Len(Kept(c)[k]) \in Nat
      BY <2>1, KeptSteps
    <3>3. x \in 1 .. Len(Kept(c)[k]) \/ x = Len(Kept(c)[k + 1])
      BY <3>1, <3>2
    <3>4. CASE x = Len(Kept(c)[k + 1])
      <4>1. k + 1 \in 1 .. k + 1
        BY <2>1
      <4> QED
        BY <2>5, <3>1, <3>4, <4>1
    <3> HIDE DEF From, P
    <3> QED
      BY <2>2, <2>3, <3>3, <3>4
  <2> QED
    BY <2>4, <2>5
<1>4. \A k \in Nat : k \in P
  <2> HIDE DEF P
  <2> QED
    BY <1>2, <1>3, SetInduction
<1>5. ASSUME NEW k \in 0 .. Len(c), NEW x \in Nat, x \in 1 .. Len(Kept(c)[k]) PROVE From(k, x)
  <2>1. k \in P /\ k <= Len(c)
    BY <1>1, <1>4
  <2> HIDE DEF From
  <2> QED
    BY <1>5, <2>1
<1> QED
  BY <1>5

LEMMA PlainNeedsNothing ==
  ASSUME NEW a, a.kind = "plain"
  PROVE  ~Needs(a) /\ ~Swallows(a) /\ a # Sep
<1>1. a.kind # "short" /\ a.kind # "long" /\ a.kind # "driver" /\ a.kind # "sep"
  OBVIOUS
<1>2. Sep.kind = "sep"
  BY DEF Sep
<1>3. ~Swallows(a)
  BY <1>1 DEF Swallows
<1> QED
  BY <1>1, <1>2, <1>3 DEF Needs

\* What an option needs comes next, before "--", and is kept with it.
LEMMA NeedsNext ==
  ASSUME NEW c, Sound(c), NEW k \in 1 .. SepIn(c) - 1, Needs(c[k])
  PROVE  /\ k + 1 \in 1 .. SepIn(c) - 1 /\ k + 1 \in 1 .. Len(c) /\ c[k + 1].kind = "plain"
         /\ ~Dropped(c, k) => ~Dropped(c, k + 1)
<1>1. c \in Seq(Arguments) /\ k < Len(c) /\ c[k + 1].kind = "plain"
  BY DEF Sound
<1>2. /\ Len(c) \in Nat /\ SepIn(c) \in 1 .. Len(c) + 1
      /\ SepIn(c) <= Len(c) => c[SepIn(c)] = Sep
  BY <1>1, SepProperties
<1>3. k + 1 # SepIn(c)
  <2>1. c[k + 1] # Sep
    BY <1>1, PlainNeedsNothing
  <2> QED
    BY <1>1, <1>2, <2>1
<1>4. k + 1 \in 1 .. SepIn(c) - 1 /\ k + 1 \in 1 .. Len(c) /\ (k + 1) - 1 = k /\ k < SepIn(c)
  BY <1>1, <1>2, <1>3
<1>5. ASSUME ~Dropped(c, k) PROVE ~Dropped(c, k + 1)
  <2>1. c[k].kind # "driver"
    BY <1>4, <1>5 DEF Dropped
  <2>2. ~Swallows(c[k]) /\ c[k + 1].kind # "driver"
    BY <1>1, <2>1 DEF Swallows
  <2> QED
    BY <1>4, <2>2 DEF Dropped
<1> QED
  BY <1>1, <1>4, <1>5

\* How much is kept grows along the command line.
LEMMA KeptGrows ==
  ASSUME NEW c \in Seq(Arguments), NEW j \in 0 .. Len(c), NEW k \in j .. Len(c)
  PROVE  Len(Kept(c)[j]) \in Nat /\ Len(Kept(c)[k]) \in Nat /\ Len(Kept(c)[j]) <= Len(Kept(c)[k])
<1> DEFINE S == {x \in 1 .. Len(c) : ~Dropped(c, x)}
<1>1. Len(c) \in Nat
  BY LenProperties
<1>2. Kept(c) = Picked(c, S, Len(c))
  BY DEF Kept
<1> HIDE DEF S
<1>3. Begins(Picked(c, S, Len(c))[j], Picked(c, S, Len(c))[k])
  BY <1>1, PickedPrefix
<1> QED
  BY <1>2, <1>3 DEF Begins

\* What the parser can rely on in what the filter hands it: the first e
\* arguments come before "--".
Clean(f, e) ==
  /\ f \in Seq(Arguments) /\ Len(f) \in Nat /\ e \in 0 .. Len(f)
  /\ e < Len(f) => f[e + 1] = Sep
  /\ \A x \in 1 .. e :
       /\ f[x] \in Arguments /\ f[x] # Sep /\ f[x].kind # "driver"
       /\ Needs(f[x]) => x < e /\ f[x + 1].kind = "plain"

LEMMA EndProperties ==
  ASSUME NEW c \in Seq(Arguments)
  PROVE  /\ Filtered(c) \in Seq(Arguments) /\ Len(Filtered(c)) \in Nat
         /\ End(c) \in 0 .. Len(Filtered(c))
         /\ Len(Filtered(c)) = End(c) + (Len(c) + 1 - SepIn(c))
<1> DEFINE d == Len(c) + 1 - SepIn(c)
<1>1. Len(c) \in Nat /\ SepIn(c) \in 1 .. Len(c) + 1
  BY SepProperties
<1>2. d \in Nat /\ SepIn(c) - 1 + d = Len(c)
  BY <1>1
<1>3. Filtered(c) = Kept(c)[Len(c)] /\ Len(c) \in 0 .. Len(c)
  BY <1>1 DEF Filtered
<1>4. Filtered(c) \in Seq(Arguments) /\ Len(Filtered(c)) \in Nat
  BY <1>3, KeptSteps
<1>5. End(c) \in Nat
  <2>1. SepIn(c) - 1 \in 0 .. Len(c)
    BY <1>1
  <2> QED
    BY <2>1, KeptSteps DEF End
<1> HIDE DEF d
<1>6. Len(Kept(c)[SepIn(c) - 1 + d]) = End(c) + d
  <2>1. SepIn(c) - 1 + d <= Len(c)
    BY <1>1, <1>2
  <2> QED
    BY <1>2, <2>1, KeptRest
<1>7. Len(Filtered(c)) = End(c) + d
  BY <1>2, <1>3, <1>6
<1> QED
  BY <1>2, <1>4, <1>5, <1>7 DEF d

LEMMA CleanLine ==
  ASSUME NEW c, Sound(c)
  PROVE  Clean(Filtered(c), End(c))
<1> DEFINE f == Filtered(c)
           e == End(c)
<1>1. c \in Seq(Arguments)
  BY DEF Sound
<1>2. /\ Len(c) \in Nat /\ SepIn(c) \in 1 .. Len(c) + 1
      /\ SepIn(c) <= Len(c) => c[SepIn(c)] = Sep
      /\ \A k \in 1 .. SepIn(c) - 1 : k \in 1 .. Len(c) /\ c[k] \in Arguments /\ c[k] # Sep
  BY <1>1, SepProperties
<1>3. f \in Seq(Arguments) /\ Len(f) \in Nat /\ e \in 0 .. Len(f) /\ Len(f) = e + (Len(c) + 1 - SepIn(c))
  BY <1>1, EndProperties
<1>4. ASSUME e < Len(f) PROVE f[e + 1] = Sep
  <2>1. SepIn(c) <= Len(c) /\ SepIn(c) - 1 + 1 = SepIn(c)
    BY <1>2, <1>3, <1>4
  <2>2. SepIn(c) - 1 + 1 <= Len(c) /\ 1 \in Nat /\ 1 > 0
    BY <2>1
  <2>3. f[e + 1] = c[SepIn(c) - 1 + 1]
    BY <1>1, <2>2, KeptRest
  <2> QED
    BY <1>2, <2>1, <2>3
<1>5. ASSUME NEW x \in 1 .. e
      PROVE  /\ f[x] \in Arguments /\ f[x] # Sep /\ f[x].kind # "driver"
             /\ Needs(f[x]) => x < e /\ f[x + 1].kind = "plain"
  <2>1. SepIn(c) - 1 \in 0 .. Len(c) /\ x \in Nat /\ x \in 1 .. Len(Kept(c)[SepIn(c) - 1])
    <3>1. SepIn(c) - 1 \in 0 .. Len(c)
      BY <1>2
    <3>2. x \in Nat
      BY <1>3
    <3>3. x \in 1 .. Len(Kept(c)[SepIn(c) - 1])
      BY DEF End
    <3> QED
      BY <3>1, <3>2, <3>3
  <2>2. PICK y \in 1 .. SepIn(c) - 1 : ~Dropped(c, y) /\ Len(Kept(c)[y]) = x /\ f[x] = c[y]
    BY <1>1, <2>1, KeptSource
  <2>3. f[x] \in Arguments /\ f[x] # Sep
    BY <1>2, <2>2
  <2>4. y < SepIn(c)
    BY <1>2
  <2>5. f[x].kind # "driver"
    BY <2>2, <2>4 DEF Dropped
  <2>6. ASSUME Needs(f[x]) PROVE x < e /\ f[x + 1].kind = "plain"
    <3>1. /\ y + 1 \in 1 .. SepIn(c) - 1 /\ y + 1 \in 1 .. Len(c) /\ c[y + 1].kind = "plain"
          /\ ~Dropped(c, y + 1) /\ y + 1 - 1 = y
      BY <2>2, <2>6, NeedsNext
    <3>2. Len(Kept(c)[y + 1]) = x + 1 /\ f[x + 1] = c[y + 1]
      <4>1. Len(Kept(c)[y + 1]) = Len(Kept(c)[y + 1 - 1]) + 1 /\ f[Len(Kept(c)[y + 1])] = c[y + 1]
        BY <1>1, <3>1, KeptPlace
      <4> QED
        BY <2>2, <3>1, <4>1
    <3>3. Len(Kept(c)[y + 1]) <= Len(Kept(c)[SepIn(c) - 1])
      <4>1. y + 1 \in 0 .. Len(c) /\ SepIn(c) - 1 \in y + 1 .. Len(c)
        BY <1>2, <3>1
      <4> QED
        BY <1>1, <4>1, KeptGrows
    <3> QED
      BY <1>3, <3>1, <3>2, <3>3 DEF End
  <2> QED
    BY <2>3, <2>5, <2>6
<1> QED
  BY <1>3, <1>4, <1>5 DEF Clean

\* An argument is a value in what the filter hands on if it was one.
LEMMA ValueKept ==
  ASSUME NEW c, Sound(c), NEW k \in 1 .. SepIn(c) - 1, ~Dropped(c, k)
  PROVE  IsValue(Filtered(c), Len(Kept(c)[k])) <=> IsValue(c, k)
<1> DEFINE f == Filtered(c)
           L(y) == Len(Kept(c)[y])
<1>1. c \in Seq(Arguments)
  BY DEF Sound
<1>2. /\ Len(c) \in Nat /\ SepIn(c) \in 1 .. Len(c) + 1
      /\ \A y \in 1 .. SepIn(c) - 1 : y \in 1 .. Len(c) /\ c[y] \in Arguments
  BY <1>1, SepProperties
<1>3. k \in 1 .. Len(c) /\ k < SepIn(c)
  BY <1>2
<1>4. L(k) \in Nat \ {0} /\ L(k) = L(k - 1) + 1 /\ f[L(k)] = c[k]
  BY <1>1, <1>3, KeptPlace
<1>5. CASE k = 1
  <2>1. L(0) = 0
    BY <1>1, KeptSteps
  <2>2. L(k) = 1
    BY <1>4, <1>5, <2>1
  <2> QED
    BY <1>5, <2>2 DEF IsValue
<1>6. CASE k > 1
  <2>1. k - 1 \in 1 .. Len(c) /\ k - 1 \in 1 .. SepIn(c) - 1 /\ (k - 1) + 1 = k
    BY <1>2, <1>3, <1>6
  <2>2. CASE ~Dropped(c, k - 1)
    <3>1. L(k - 1) \in Nat \ {0} /\ f[L(k - 1)] = c[k - 1]
      BY <1>1, <2>1, <2>2, KeptPlace
    <3>2. L(k) > 1 /\ L(k) - 1 = L(k - 1)
      BY <1>4, <3>1
    <3> QED
      BY <1>6, <3>1, <3>2 DEF IsValue
  <2>3. CASE Dropped(c, k - 1)
    <3>1. ~Needs(c[k - 1])
      <4>1. SUFFICES ASSUME Needs(c[k - 1]) PROVE FALSE
        OBVIOUS
      <4>2. ~Swallows(c[k - 1])
        BY <1>3, <1>6 DEF Dropped
      <4>3. c[k - 1].kind # "driver"
        BY <4>1, <4>2 DEF Needs, Swallows
      <4>4. k - 1 > 1 /\ Swallows(c[k - 1 - 1])
        BY <2>3, <4>3 DEF Dropped
      <4>5. k - 1 - 1 \in 1 .. SepIn(c) - 1 /\ (k - 1 - 1) + 1 = k - 1
        BY <1>2, <2>1, <4>4
      <4>6. Needs(c[k - 1 - 1])
        BY <4>4 DEF Needs
      <4>7. c[k - 1].kind = "plain"
        <5>1. c[(k - 1 - 1) + 1].kind = "plain"
          BY <4>5, <4>6, NeedsNext
        <5> QED
          BY <4>5, <5>1
      <4> QED
        BY <4>1, <4>7, PlainNeedsNothing
    <3>2. ~IsValue(f, L(k))
      <4>1. SUFFICES ASSUME L(k) > 1, Needs(f[L(k) - 1]) PROVE FALSE
        BY DEF IsValue
      <4>2. L(k) - 1 = L(k - 1) /\ L(k - 1) \in Nat /\ L(k - 1) \in 1 .. L(k - 1) /\ k - 1 \in 0 .. Len(c)
        BY <1>4, <2>1, <4>1
      <4>3. PICK y \in 1 .. k - 1 : ~Dropped(c, y) /\ L(y) = L(k - 1) /\ f[L(k - 1)] = c[y]
        BY <1>1, <4>2, KeptSource
      <4>4. y # k - 1 /\ y \in 1 .. SepIn(c) - 1 /\ y + 1 <= k - 1 /\ y \in 1 .. Len(c)
        BY <1>2, <1>3, <2>1, <2>3, <4>3
      <4>5. y + 1 \in 1 .. Len(c) /\ ~Dropped(c, y + 1) /\ (y + 1) - 1 = y
        <5>1. Needs(c[y])
          BY <4>1, <4>2, <4>3
        <5>2. y + 1 \in 1 .. Len(c) /\ ~Dropped(c, y + 1)
          BY <4>3, <4>4, <5>1, NeedsNext
        <5> QED
          BY <4>4, <5>2
      <4>6. L(y + 1) = L(y) + 1
        <5>1. L(y + 1) = L((y + 1) - 1) + 1
          BY <1>1, <4>5, KeptPlace
        <5> QED
          BY <4>5, <5>1
      <4>7. L(y + 1) <= L(k - 1) /\ L(y + 1) \in Nat
        <5>1. y + 1 \in 0 .. Len(c) /\ k - 1 \in y + 1 .. Len(c)
          BY <2>1, <4>4, <4>5
        <5> QED
          BY <1>1, <5>1, KeptGrows
      <4> HIDE DEF L
      <4> QED
        BY <4>2, <4>3, <4>6, <4>7
    <3> QED
      BY <3>1, <3>2 DEF IsValue
  <2> QED
    BY <2>2, <2>3
<1> QED
  BY <1>2, <1>5, <1>6

-----------------------------------------------------------------------------
(* What there is among the first arguments of a sequence *)

LEMMA FilesStep ==
  ASSUME NEW s, NEW m \in Nat
  PROVE  /\ FilesTo(s, 0) = <<>>
         /\ FilesTo(s, m + 1) = IF FileAt(s, m + 1) THEN Append(FilesTo(s, m), s[m + 1])
                                ELSE FilesTo(s, m)
<1> DEFINE S(len) == {k \in 1 .. len : FileAt(s, k)}
<1>1. \A len : FilesTo(s, len) = Picked(s, S(len), len)[len]
  BY DEF FilesTo, FilesOf
<1>2. FilesTo(s, 0) = <<>>
  <2>1. Picked(s, S(0), 0)[0] = <<>>
    <3> HIDE DEF S
    <3> QED
      BY PickedSteps
  <2> QED
    BY <1>1, <2>1
<1>3. \A k \in 1 .. m : k \in S(m + 1) <=> k \in S(m)
  OBVIOUS
<1>4. m + 1 \in S(m + 1) <=> FileAt(s, m + 1)
  OBVIOUS
<1> HIDE DEF S
<1>5. Picked(s, S(m + 1), m + 1)[m] = Picked(s, S(m), m)[m]
  <2>1. m + 1 \in Nat /\ m <= m + 1 /\ m <= m
    OBVIOUS
  <2> QED
    BY <1>3, <2>1, PickedAgrees
<1>6. Picked(s, S(m + 1), m + 1)[m + 1] = IF m + 1 \in S(m + 1) THEN Append(Picked(s, S(m + 1), m + 1)[m], s[m + 1])
                                         ELSE Picked(s, S(m + 1), m + 1)[m]
  <2>1. m + 1 \in Nat /\ m + 1 \in 1 .. m + 1 /\ m + 1 - 1 = m
    OBVIOUS
  <2> QED
    BY <2>1, PickedSteps
<1> QED
  BY <1>1, <1>2, <1>4, <1>5, <1>6

\* An option with its value.
Item(s, k) ==
  <<Last(s[k].letters), IF s[k].value # "" THEN Plain(s[k].value) ELSE s[k + 1]>>

LEMMA GivenStep ==
  ASSUME NEW s, NEW m \in Nat
  PROVE  /\ GivenTo(s, 0) = <<>>
         /\ GivenTo(s, m + 1) = IF ValuedAt(s, m + 1) THEN Append(GivenTo(s, m), Item(s, m + 1))
                                ELSE GivenTo(s, m)
<1> DEFINE S(len) == {k \in 1 .. len : ValuedAt(s, k)}
           v(len) == [k \in 1 .. len |->
                        LET a == s[k] IN
                        IF ~ValuedAt(s, k) THEN <<>>
                        ELSE <<Last(a.letters), IF a.value # "" THEN Plain(a.value) ELSE s[k + 1]>>]
<1>1. \A len : GivenTo(s, len) = Picked(v(len), S(len), len)[len]
  BY DEF GivenTo, GivenOf
<1>2. GivenTo(s, 0) = <<>>
  <2>1. Picked(v(0), S(0), 0)[0] = <<>>
    <3> HIDE DEF S, v
    <3> QED
      BY PickedSteps
  <2> QED
    BY <1>1, <2>1
<1>3. \A k \in 1 .. m : k \in S(m + 1) <=> k \in S(m)
  OBVIOUS
<1>4. m + 1 \in S(m + 1) <=> ValuedAt(s, m + 1)
  OBVIOUS
<1>5. ASSUME NEW len \in Nat, NEW k \in 1 .. len, k \in S(len) PROVE v(len)[k] = Item(s, k)
  BY <1>5 DEF Item
<1>6. \A k \in 1 .. m : k \in S(m + 1) => v(m + 1)[k] = v(m)[k]
  <2> SUFFICES ASSUME NEW k \in 1 .. m, k \in S(m + 1) PROVE v(m + 1)[k] = v(m)[k]
    OBVIOUS
  <2>1. k \in 1 .. m + 1 /\ m + 1 \in Nat /\ k \in S(m)
    OBVIOUS
  <2> HIDE DEF S, v
  <2>2. v(m + 1)[k] = Item(s, k) /\ v(m)[k] = Item(s, k)
    BY <1>5, <2>1
  <2> QED
    BY <2>2
<1> HIDE DEF S, v
<1>7. Picked(v(m + 1), S(m + 1), m + 1)[m] = Picked(v(m), S(m), m)[m]
  <2>1. m + 1 \in Nat /\ m <= m + 1 /\ m <= m
    OBVIOUS
  <2> QED
    BY <1>3, <1>6, <2>1, PickedAgrees
<1>8. m + 1 \in Nat /\ m + 1 \in 1 .. m + 1 /\ m + 1 - 1 = m
  OBVIOUS
<1>9. Picked(v(m + 1), S(m + 1), m + 1)[m + 1] =
        IF m + 1 \in S(m + 1) THEN Append(Picked(v(m + 1), S(m + 1), m + 1)[m], v(m + 1)[m + 1])
        ELSE Picked(v(m + 1), S(m + 1), m + 1)[m]
  BY <1>8, PickedSteps
<1>10. m + 1 \in S(m + 1) => v(m + 1)[m + 1] = Item(s, m + 1)
  BY <1>5, <1>8
<1> QED
  BY <1>1, <1>2, <1>4, <1>7, <1>9, <1>10

LEMMA SeenStep ==
  ASSUME NEW s, NEW m \in Nat, NEW l
  PROVE  /\ ~SeenIn(s, 0, l)
         /\ SeenIn(s, m + 1, l) <=> SeenIn(s, m, l) \/ HasLetter(s[m + 1], l)
<1>1. 1 .. 0 = {} /\ 1 .. m + 1 = (1 .. m) \cup {m + 1}
  OBVIOUS
<1> QED
  BY <1>1 DEF SeenIn

\* Nothing that the command line says before "--" is lost in the filter.
Same(s, k, t, m) ==
  FilesTo(s, k) = FilesTo(t, m) /\ GivenTo(s, k) = GivenTo(t, m) /\ \A l : SeenIn(s, k, l) <=> SeenIn(t, m, l)

LEMMA DroppedSaysNothing ==
  ASSUME NEW c, Sound(c), NEW k \in 1 .. SepIn(c) - 1, Dropped(c, k)
  PROVE  ~FileAt(c, k) /\ ~ValuedAt(c, k) /\ \A l : ~HasLetter(c[k], l)
<1>1. CASE c[k].kind = "driver"
  BY <1>1 DEF FileAt, ValuedAt, HasLetter
<1>2. CASE k > 1 /\ Swallows(c[k - 1])
  <2>1. Needs(c[k - 1])
    BY <1>2 DEF Needs
  <2>2. c[k].kind = "plain"
    <3>1. SepIn(c) \in Nat
      BY SepProperties DEF Sound
    <3>2. k - 1 \in 1 .. SepIn(c) - 1 /\ (k - 1) + 1 = k
      BY <1>2, <3>1
    <3>3. c[(k - 1) + 1].kind = "plain"
      BY <2>1, <3>2, NeedsNext
    <3> QED
      BY <3>2, <3>3
  <2> QED
    BY <1>2, <2>1, <2>2 DEF FileAt, ValuedAt, HasLetter, IsValue
<1> QED
  BY <1>1, <1>2 DEF Dropped

LEMMA KeptSaysTheSame ==
  ASSUME NEW c, Sound(c), NEW k \in 1 .. SepIn(c) - 1, ~Dropped(c, k)
  PROVE  LET p == Len(Kept(c)[k]) IN
         /\ Filtered(c)[p] = c[k]
         /\ FileAt(Filtered(c), p) <=> FileAt(c, k)
         /\ ValuedAt(Filtered(c), p) <=> ValuedAt(c, k)
         /\ ValuedAt(c, k) => Item(Filtered(c), p) = Item(c, k)
<1> DEFINE f == Filtered(c)
           p == Len(Kept(c)[k])
<1>1. c \in Seq(Arguments)
  BY DEF Sound
<1>2. k \in 1 .. Len(c)
  BY <1>1, SepProperties
<1>3. p \in Nat \ {0} /\ f[p] = c[k]
  BY <1>1, <1>2, KeptPlace
<1>4. IsValue(f, p) <=> IsValue(c, k)
  BY ValueKept
<1>5. ASSUME ValuedAt(c, k) PROVE Item(f, p) = Item(c, k)
  <2>1. CASE c[k].value # ""
    BY <1>3, <2>1 DEF Item
  <2>2. CASE c[k].value = ""
    <3>1. Needs(c[k])
      BY <1>5, <2>2 DEF ValuedAt, Needs
    <3>2. k + 1 \in 1 .. Len(c) /\ ~Dropped(c, k + 1) /\ (k + 1) - 1 = k
      BY <1>2, <3>1, NeedsNext
    <3>3. Len(Kept(c)[k + 1]) = Len(Kept(c)[(k + 1) - 1]) + 1 /\ f[Len(Kept(c)[k + 1])] = c[k + 1]
      BY <1>1, <3>2, KeptPlace
    <3>4. f[p + 1] = c[k + 1]
      BY <3>2, <3>3
    <3> QED
      BY <1>3, <3>4 DEF Item
  <2> QED
    BY <2>1, <2>2
<1> QED
  BY <1>3, <1>4, <1>5 DEF FileAt, ValuedAt

LEMMA FilterSaysTheSame ==
  ASSUME NEW c, Sound(c)
  PROVE  Same(Filtered(c), End(c), c, SepIn(c) - 1)
<1> DEFINE f == Filtered(c)
           L(k) == Len(Kept(c)[k])
           P == {k \in Nat : k <= SepIn(c) - 1 => Same(f, L(k), c, k)}
<1>1. c \in Seq(Arguments)
  BY DEF Sound
<1>2. Len(c) \in Nat /\ SepIn(c) \in 1 .. Len(c) + 1
  BY <1>1, SepProperties
<1>3. 0 \in P
  <2>1. L(0) = 0
    BY <1>1, KeptSteps
  <2>2. FilesTo(f, 0) = FilesTo(c, 0) /\ GivenTo(f, 0) = GivenTo(c, 0)
    BY FilesStep, GivenStep
  <2>3. \A l : SeenIn(f, 0, l) <=> SeenIn(c, 0, l)
    BY SeenStep
  <2> QED
    BY <2>1, <2>2, <2>3 DEF Same
<1>4. ASSUME NEW k \in Nat, k \in P PROVE k + 1 \in P
  <2> SUFFICES ASSUME k + 1 <= SepIn(c) - 1 PROVE Same(f, L(k + 1), c, k + 1)
    OBVIOUS
  <2>1. k + 1 \in 1 .. SepIn(c) - 1 /\ k + 1 \in 1 .. Len(c) /\ (k + 1) - 1 = k /\ k \in 0 .. Len(c)
    BY <1>2
  <2>2. Same(f, L(k), c, k)
    BY <1>2, <1>4, <2>1
  <2>3. FilesTo(c, k + 1) = IF FileAt(c, k + 1) THEN Append(FilesTo(c, k), c[k + 1]) ELSE FilesTo(c, k)
    BY FilesStep
  <2>4. GivenTo(c, k + 1) = IF ValuedAt(c, k + 1) THEN Append(GivenTo(c, k), Item(c, k + 1)) ELSE GivenTo(c, k)
    BY GivenStep
  <2>5. \A l : SeenIn(c, k + 1, l) <=> SeenIn(c, k, l) \/ HasLetter(c[k + 1], l)
    BY SeenStep
  <2> HIDE DEF f
  <2>6. CASE Dropped(c, k + 1)
    <3>1. L(k + 1) = L(k)
      BY <1>1, <2>1, <2>6, KeptSteps
    <3>2. ~FileAt(c, k + 1) /\ ~ValuedAt(c, k + 1) /\ \A l : ~HasLetter(c[k + 1], l)
      BY <2>1, <2>6, DroppedSaysNothing
    <3> HIDE DEF L, P
    <3> QED
      BY <2>2, <2>3, <2>4, <2>5, <3>1, <3>2 DEF Same
  <2>7. CASE ~Dropped(c, k + 1)
    <3>1. L(k + 1) = L((k + 1) - 1) + 1
      BY <1>1, <2>1, <2>7, KeptPlace
    <3>2. L(k) \in Nat
      BY <1>1, <2>1, KeptSteps
    <3>3. /\ f[L(k + 1)] = c[k + 1]
          /\ FileAt(f, L(k + 1)) <=> FileAt(c, k + 1)
          /\ ValuedAt(f, L(k + 1)) <=> ValuedAt(c, k + 1)
          /\ ValuedAt(c, k + 1) => Item(f, L(k + 1)) = Item(c, k + 1)
      BY <2>1, <2>7, KeptSaysTheSame DEF f
    <3> HIDE DEF L, P
    <3>4. L(k + 1) = L(k) + 1
      BY <2>1, <3>1
    <3>5. FilesTo(f, L(k) + 1) = IF FileAt(f, L(k) + 1) THEN Append(FilesTo(f, L(k)), f[L(k) + 1]) ELSE FilesTo(f, L(k))
      BY <3>2, FilesStep
    <3>6. GivenTo(f, L(k) + 1) = IF ValuedAt(f, L(k) + 1) THEN Append(GivenTo(f, L(k)), Item(f, L(k) + 1)) ELSE GivenTo(f, L(k))
      BY <3>2, GivenStep
    <3>7. \A l : SeenIn(f, L(k) + 1, l) <=> SeenIn(f, L(k), l) \/ HasLetter(f[L(k) + 1], l)
      BY <3>2, SeenStep
    <3>8. FilesTo(f, L(k + 1)) = FilesTo(c, k + 1)
      BY <2>2, <2>3, <3>3, <3>4, <3>5 DEF Same
    <3>9. GivenTo(f, L(k + 1)) = GivenTo(c, k + 1)
      BY <2>2, <2>4, <3>3, <3>4, <3>6 DEF Same
    <3>10. \A l : SeenIn(f, L(k + 1), l) <=> SeenIn(c, k + 1, l)
      BY <2>2, <2>5, <3>3, <3>4, <3>7 DEF Same
    <3> QED
      BY <3>8, <3>9, <3>10 DEF Same
  <2> QED
    BY <2>6, <2>7
<1>5. \A k \in Nat : k \in P
  <2> HIDE DEF P
  <2> QED
    BY <1>3, <1>4, SetInduction
<1>6. SepIn(c) - 1 \in Nat
  BY <1>2
<1>7. Same(f, L(SepIn(c) - 1), c, SepIn(c) - 1)
  BY <1>5, <1>6
<1> QED
  BY <1>7 DEF End

LEMMA FilesType ==
  ASSUME NEW s \in Seq(Arguments), NEW m \in Nat, m <= Len(s)
  PROVE  FilesTo(s, m) \in Seq(Arguments) /\ Len(FilesTo(s, m)) \in Nat
<1> DEFINE S == {k \in 1 .. m : FileAt(s, k)}
<1>1. FilesTo(s, m) = Picked(s, S, m)[m]
  BY DEF FilesTo, FilesOf
<1>2. \A k \in 1 .. m : s[k] \in Arguments
  BY LenProperties, ElementOfSeq
<1> HIDE DEF S
<1>3. Picked(s, S, m)[m] \in Seq(Arguments)
  <2>1. m \in 0 .. m
    OBVIOUS
  <2> QED
    BY <1>2, <2>1, PickedType
<1> QED
  BY <1>1, <1>3, LenProperties

\* The d arguments after the first m are files.
Passes(s, m, d) ==
  LET a == FilesTo(s, m)
      b == FilesTo(s, m + d) IN
  /\ Len(b) = Len(a) + d
  /\ \A j \in 1 .. Len(a) : b[j] = a[j]
  /\ \A x \in 1 .. d : b[Len(a) + x] = s[m + x]
  /\ GivenTo(s, m + d) = GivenTo(s, m)
  /\ \A l : SeenIn(s, m + d, l) <=> SeenIn(s, m, l)
  /\ m + d > 0 => ~Needs(s[m + d])

LEMMA FileStep ==
  ASSUME NEW s \in Seq(Arguments), NEW m \in Nat, NEW d \in Nat, m + (d + 1) <= Len(s),
         Passes(s, m, d), s[m + (d + 1)].kind = "plain"
  PROVE  Passes(s, m, d + 1)
<1> DEFINE a == FilesTo(s, m)
           b == FilesTo(s, m + d)
           w == m + d
<1>1. w \in Nat /\ w + 1 = m + (d + 1) /\ w <= Len(s) /\ m <= Len(s) /\ (w + 1) - 1 = w
  BY LenProperties
<1>2. a \in Seq(Arguments) /\ Len(a) \in Nat /\ b \in Seq(Arguments) /\ Len(b) \in Nat
  BY <1>1, FilesType
<1>3. s[w + 1].kind = "plain" /\ s[w + 1] \in Arguments
  <2>1. w + 1 \in 1 .. Len(s)
    BY <1>1, LenProperties
  <2> QED
    BY <1>1, <2>1, ElementOfSeq
<1>4. w > 0 => ~Needs(s[w])
  BY DEF Passes
<1>5. FileAt(s, w + 1) /\ ~ValuedAt(s, w + 1) /\ \A l : ~HasLetter(s[w + 1], l)
  <2>1. ~IsValue(s, w + 1)
    BY <1>1, <1>4 DEF IsValue
  <2> QED
    BY <1>3, <2>1 DEF FileAt, ValuedAt, HasLetter
<1>6. /\ Len(b) = Len(a) + d
      /\ \A j \in 1 .. Len(a) : b[j] = a[j]
      /\ \A x \in 1 .. d : b[Len(a) + x] = s[m + x]
      /\ GivenTo(s, w) = GivenTo(s, m)
      /\ \A l : SeenIn(s, w, l) <=> SeenIn(s, m, l)
  BY DEF Passes
<1> HIDE DEF w
<1>7. FilesTo(s, w + 1) = Append(FilesTo(s, w), s[w + 1])
  BY <1>1, <1>5, FilesStep
<1>8. GivenTo(s, w + 1) = GivenTo(s, m)
  BY <1>1, <1>5, <1>6, GivenStep
<1>9. \A l : SeenIn(s, w + 1, l) <=> SeenIn(s, m, l)
  BY <1>1, <1>5, <1>6, SeenStep
<1> DEFINE g == FilesTo(s, w + 1)
<1>10. g = Append(b, s[w + 1])
  BY <1>7 DEF w
<1> HIDE DEF a, b, g
<1>11. Len(g) = Len(b) + 1 /\ (\A j \in 1 .. Len(b) : g[j] = b[j]) /\ g[Len(b) + 1] = s[w + 1]
  BY <1>2, <1>3, <1>10, AppendProperties
<1>12. Len(g) = Len(a) + (d + 1)
  BY <1>2, <1>6, <1>11
<1>13. \A j \in 1 .. Len(a) : g[j] = a[j]
  BY <1>2, <1>6, <1>11
<1>14. ASSUME NEW x \in 1 .. d + 1 PROVE g[Len(a) + x] = s[m + x]
  <2>1. CASE x = d + 1
    <3>1. Len(a) + x = Len(b) + 1 /\ m + x = w + 1
      BY <1>1, <1>2, <1>6, <2>1
    <3> QED
      BY <1>11, <3>1
  <2>2. CASE x # d + 1
    <3>1. x \in 1 .. d /\ Len(a) + x \in 1 .. Len(b)
      BY <1>2, <1>6, <2>2
    <3> QED
      BY <1>6, <1>11, <3>1
  <2> QED
    BY <2>1, <2>2
<1>15. ~Needs(s[w + 1])
  BY <1>3, PlainNeedsNothing
<1> QED
  BY <1>1, <1>8, <1>9, <1>12, <1>13, <1>14, <1>15 DEF Passes, a, g

LEMMA PassOver ==
  ASSUME NEW s \in Seq(Arguments), NEW m \in Nat, NEW d \in Nat, m + d <= Len(s),
         \A x \in 1 .. d : s[m + x].kind = "plain", m > 0 => ~Needs(s[m])
  PROVE  Passes(s, m, d)
<1> DEFINE P == {t \in Nat : t <= d => Passes(s, m, t)}
<1>1. Len(s) \in Nat
  BY LenProperties
<1>2. 0 \in P
  <2>1. m + 0 = m /\ m <= Len(s)
    BY <1>1
  <2>2. Len(FilesTo(s, m)) \in Nat
    BY <2>1, FilesType
  <2>3. Passes(s, m, 0)
    BY <2>1, <2>2 DEF Passes
  <2> QED
    BY <2>3
<1>3. ASSUME NEW t \in Nat, t \in P PROVE t + 1 \in P
  <2> SUFFICES ASSUME t + 1 <= d PROVE Passes(s, m, t + 1)
    OBVIOUS
  <2>1. Passes(s, m, t) /\ t + 1 \in 1 .. d /\ m + (t + 1) <= Len(s)
    BY <1>1, <1>3
  <2> QED
    BY <2>1, FileStep
<1>4. d \in P
  <2> HIDE DEF P
  <2> QED
    BY <1>2, <1>3, SetInduction
<1> QED
  BY <1>4

\* An option among the first e arguments, with the k - 1 arguments it needs.
LEMMA TakeOption ==
  ASSUME NEW f, NEW e, Clean(f, e), NEW m \in Nat, m + 1 <= e, f[m + 1].kind \in {"short", "long"},
         NEW k \in 1 .. 2, k = 2 <=> Needs(f[m + 1])
  PROVE  /\ m + k <= e /\ ~Needs(f[m + k]) /\ FilesTo(f, m + k) = FilesTo(f, m)
         /\ GivenTo(f, m + k) = IF ValuedAt(f, m + 1) THEN Append(GivenTo(f, m), Item(f, m + 1))
                                ELSE GivenTo(f, m)
         /\ \A l : SeenIn(f, m + k, l) <=> SeenIn(f, m, l) \/ HasLetter(f[m + 1], l)
<1>1. e \in Nat /\ m + 1 \in 1 .. e
  BY DEF Clean
<1>2. ~FileAt(f, m + 1)
  BY DEF FileAt
<1>3. FilesTo(f, m + 1) = FilesTo(f, m)
  BY <1>2, FilesStep
<1>4. GivenTo(f, m + 1) = IF ValuedAt(f, m + 1) THEN Append(GivenTo(f, m), Item(f, m + 1))
                          ELSE GivenTo(f, m)
  BY GivenStep
<1>5. \A l : SeenIn(f, m + 1, l) <=> SeenIn(f, m, l) \/ HasLetter(f[m + 1], l)
  BY SeenStep
<1>6. CASE k = 1
  BY <1>3, <1>4, <1>5, <1>6
<1>7. CASE k = 2
  <2> DEFINE w == m + 1
  <2>1. Needs(f[w]) /\ w + 1 = m + 2 /\ w \in Nat /\ w > 0 /\ w \in 1 .. e /\ (w + 1) - 1 = w /\ w + 1 > 1
    BY <1>1, <1>7
  <2> HIDE DEF w
  <2>2. w < e /\ f[w + 1].kind = "plain"
    BY <2>1 DEF Clean
  <2>3. ~FileAt(f, w + 1) /\ ~ValuedAt(f, w + 1) /\ \A l : ~HasLetter(f[w + 1], l)
    BY <2>1, <2>2 DEF FileAt, ValuedAt, HasLetter, IsValue
  <2>4. FilesTo(f, w + 1) = FilesTo(f, w)
    BY <2>1, <2>3, FilesStep
  <2>5. GivenTo(f, w + 1) = GivenTo(f, w)
    BY <2>1, <2>3, GivenStep
  <2>6. \A l : SeenIn(f, w + 1, l) <=> SeenIn(f, w, l)
    BY <2>1, <2>3, SeenStep
  <2>7. ~Needs(f[w + 1])
    BY <2>2, PlainNeedsNothing
  <2>8. m + k = w + 1 /\ w + 1 <= e
    BY <1>1, <1>7, <2>1, <2>2
  <2> QED
    BY <1>3, <1>4, <1>5, <2>4, <2>5, <2>6, <2>7, <2>8 DEF w
<1> QED
  BY <1>6, <1>7

-----------------------------------------------------------------------------
(* The steps of the filter *)

LEMMA FilterArgumentHands ==
  ASSUME IInv, FilterArgument, Sound(cmd), FilterHands(cmd)
  PROVE  FilterHands(cmd)'
<1> DEFINE c == cmd
<1>1. /\ phase = "filter" /\ i <= Len(c) /\ c' = c
      /\ UNCHANGED <<set, values, forced>>
  BY DEF FilterArgument, outcome
<1>2. /\ c \in Seq(Arguments) /\ i \in Nat \ {0} /\ argv \in Seq(All) /\ Argc \in Nat \ {0}
  BY <1>1 DEF IInv, TypeOK, FilterInv, All
<1>3. /\ set = {} /\ values = <<>> /\ forced = "none"
      /\ Argc = Len(Kept(c)[i - 1]) + 1
      /\ \A j \in 1 .. Len(Kept(c)[i - 1]) : argv[j + 1] = Kept(c)[i - 1][j]
      /\ after <=> SepIn(c) < i
      /\ i > 1 /\ i <= SepIn(c) => ~Swallows(c[i - 1])
  BY DEF FilterHands
<1>4. /\ Len(c) \in Nat /\ SepIn(c) \in 1 .. Len(c) + 1
      /\ SepIn(c) <= Len(c) => c[SepIn(c)] = Sep
      /\ \A k \in 1 .. SepIn(c) - 1 : c[k] # Sep
  BY <1>2, SepProperties
<1>5. i \in 1 .. Len(c) /\ c[i] \in Arguments /\ Arguments \subseteq All
  BY <1>1, <1>2, <1>4, ElementOfSeq DEF All
<1>6. Sep.kind = "sep"
  BY DEF Sep
<1>7. CASE c[i].kind = "driver" /\ ~after
  <2>1. i < SepIn(c)
    <3>1. i # SepIn(c)
      BY <1>1, <1>4, <1>6, <1>7
    <3> QED
      BY <1>2, <1>3, <1>4, <1>7, <3>1
  <2>2. Dropped(c, i)
    BY <1>7, <2>1 DEF Dropped
  <2>3. Kept(c)[i] = Kept(c)[i - 1]
    BY <1>2, <1>5, <2>2, KeptSteps
  <2>4. argv' = argv /\ after' = after
    BY <1>7 DEF FilterArgument
  <2>5. CASE Swallows(c[i])
    <3>1. Needs(c[i]) /\ i \in 1 .. SepIn(c) - 1
      BY <1>2, <1>4, <2>1, <2>5 DEF Needs
    <3>2. i + 1 \in 1 .. SepIn(c) - 1 /\ i + 1 \in 1 .. Len(c) /\ c[i + 1].kind = "plain"
      BY <3>1, NeedsNext
    <3>3. i' = i + 2
      BY <1>2, <1>4, <1>7, <2>5, <3>2 DEF FilterArgument
    <3>4. (i + 1) - 1 = i /\ i + 1 > 1 /\ i + 1 < SepIn(c)
      BY <1>2, <1>4, <3>2
    <3>5. Dropped(c, i + 1)
      BY <2>5, <3>4 DEF Dropped
    <3>6. Kept(c)[i + 1] = Kept(c)[(i + 1) - 1]
      BY <1>2, <3>2, <3>5, KeptSteps
    <3>7. Kept(c)[i' - 1] = Kept(c)[i - 1]
      <4>1. i' - 1 = i + 1
        BY <1>2, <3>3
      <4> QED
        BY <2>3, <3>4, <3>6, <4>1
    <3>8. ~Swallows(c[i' - 1])
      <4>1. i' - 1 = i + 1
        BY <1>2, <3>3
      <4>2. ~Swallows(c[i + 1])
        BY <3>2, PlainNeedsNothing
      <4> QED
        BY <4>1, <4>2
    <3>9. i' <= Len(c) + 1 /\ (after' <=> SepIn(c) < i')
      BY <1>2, <1>3, <1>4, <2>1, <2>4, <3>2, <3>3
    <3> QED
      BY <1>1, <1>3, <2>4, <3>7, <3>8, <3>9 DEF FilterHands, Argc
  <2>6. CASE ~Swallows(c[i])
    <3>1. i' = i + 1 /\ i' - 1 = i
      BY <1>2, <1>7, <2>6 DEF FilterArgument
    <3>2. i' <= Len(c) + 1 /\ (after' <=> SepIn(c) < i')
      BY <1>2, <1>3, <1>4, <1>5, <2>1, <2>4, <3>1
    <3> QED
      BY <1>1, <1>3, <2>3, <2>4, <2>6, <3>1, <3>2 DEF FilterHands, Argc
  <2> QED
    BY <2>5, <2>6
<1>8. CASE ~(c[i].kind = "driver" /\ ~after)
  <2>1. argv' = Append(argv, c[i]) /\ i' = i + 1 /\ i' - 1 = i /\ (after' <=> after \/ c[i] = Sep)
    <3>1. argv' = Append(argv, c[i]) /\ after' = (after \/ c[i] = Sep) /\ i' = i + 1
      BY <1>8 DEF FilterArgument
    <3>2. after' <=> after \/ c[i] = Sep
      BY <3>1, Zenon
    <3> QED
      BY <1>2, <3>1, <3>2
  <2>2. i < SepIn(c) => c[i].kind # "driver" /\ (i > 1 => ~Swallows(c[i - 1]))
    BY <1>2, <1>3, <1>4, <1>8
  <2>3. ~Dropped(c, i)
    BY <2>2 DEF Dropped
  <2> DEFINE kept == Kept(c)[i - 1]
             more == Kept(c)[i]
  <2>4. kept \in Seq(Arguments) /\ Len(kept) \in Nat /\ more = Append(kept, c[i])
    <3>1. i - 1 \in 0 .. Len(c)
      BY <1>2, <1>5
    <3> QED
      BY <1>2, <1>5, <2>3, <3>1, KeptSteps
  <2>5. after' <=> SepIn(c) < i'
    <3>1. c[i] = Sep => SepIn(c) <= i
      BY <1>2, <1>4, <1>5
    <3>2. SepIn(c) = i => c[i] = Sep
      BY <1>1, <1>4
    <3> QED
      BY <1>2, <1>3, <1>4, <2>1, <3>1, <3>2
  <2>6. i' <= SepIn(c) => ~Swallows(c[i' - 1])
    <3>1. i' <= SepIn(c) => i < SepIn(c)
      BY <1>2, <1>4, <2>1
    <3> QED
      BY <2>1, <2>2, <3>1 DEF Swallows
  <2>7. Argc = Len(kept) + 1 /\ \A j \in 1 .. Len(kept) : argv[j + 1] = kept[j]
    BY <1>3
  <2> HIDE DEF kept, more
  <2>8. /\ Len(argv') = Argc + 1 /\ (\A j \in 1 .. Argc : argv'[j] = argv[j]) /\ argv'[Argc + 1] = c[i]
    BY <1>2, <1>5, <2>1, AppendProperties DEF Argc
  <2>9. Len(more) = Len(kept) + 1 /\ (\A j \in 1 .. Len(kept) : more[j] = kept[j]) /\ more[Len(kept) + 1] = c[i]
    BY <1>5, <2>4, AppendProperties
  <2>10. ASSUME NEW j \in 1 .. Len(more) PROVE argv'[j + 1] = more[j]
    <3>1. CASE j = Len(kept) + 1
      <4>1. j + 1 = Argc + 1
        BY <2>7, <3>1
      <4> QED
        BY <2>8, <2>9, <3>1, <4>1
    <3>2. CASE j # Len(kept) + 1
      <4>1. j \in 1 .. Len(kept) /\ j + 1 \in 1 .. Argc
        BY <2>4, <2>7, <2>9, <3>2
      <4> QED
        BY <2>7, <2>8, <2>9, <4>1
    <3> QED
      BY <3>1, <3>2
  <2>11. Argc' = Len(more) + 1
    BY <2>7, <2>8, <2>9 DEF Argc
  <2>12. Kept(c)[i' - 1] = more /\ i' <= Len(c) + 1
    BY <1>4, <1>5, <2>1 DEF more
  <2> QED
    BY <1>1, <1>3, <2>5, <2>6, <2>10, <2>11, <2>12 DEF FilterHands
<1> QED
  BY <1>7, <1>8

LEMMA FilterEndsHands ==
  ASSUME IInv, FilterEnds, Sound(cmd), FilterHands(cmd), NEW f, f = Filtered(cmd), NEW e, Clean(f, e)
  PROVE  OptionsHand(f, e)'
<1>1. /\ phase = "filter" /\ i > Len(cmd) /\ i' = 2
      /\ UNCHANGED <<cmd, argv, after, pos, n, ind, set, values, forced>>
  BY DEF FilterEnds, outcome
<1>2. cmd \in Seq(Arguments) /\ i \in Nat \ {0} /\ pos = 0 /\ n = 0
  BY <1>1 DEF IInv, FilterInv
<1>3. Len(cmd) \in Nat /\ i <= Len(cmd) + 1
  BY <1>2, LenProperties DEF FilterHands
<1>4. Kept(cmd)[i - 1] = f
  <2>1. i - 1 = Len(cmd)
    BY <1>1, <1>2, <1>3
  <2> QED
    BY <2>1 DEF Filtered
<1>5. /\ set = {} /\ values = <<>> /\ forced = "none"
      /\ Argc = Len(f) + 1 /\ \A j \in 1 .. Len(f) : argv[j + 1] = f[j]
  BY <1>4 DEF FilterHands
<1>6. Len(f) \in Nat /\ e \in Nat
  BY DEF Clean
<1>7. Argc' = Argc
  BY <1>1 DEF Argc
<1>8. Unread(f, i)'
  <2>1. ASSUME NEW j \in 2 .. Argc PROVE argv[j] = f[j - 1]
    <3>1. j - 1 \in 1 .. Len(f) /\ (j - 1) + 1 = j
      BY <1>5, <1>6
    <3> QED
      BY <1>5, <3>1
  <2> QED
    BY <1>1, <1>5, <1>7, <2>1 DEF Unread
<1>9. FilesTo(f, 0) = <<>> /\ GivenTo(f, 0) = <<>> /\ \A l : ~SeenIn(f, 0, l)
  BY FilesStep, GivenStep, SeenStep
<1>10. i' - 2 = 0 /\ Len(<<>>) = 0
  BY <1>1
<1>11. FilesAt(f, i - 2, i - n)'
  BY <1>1, <1>2, <1>9, <1>10 DEF FilesAt
<1>12. SetBy(f, i - 2)'
  BY <1>1, <1>2, <1>5, <1>9, <1>10 DEF SetBy, Seen
<1>13. values' = GivenTo(f, i' - 2)
  BY <1>1, <1>5, <1>9, <1>10
<1> QED
  BY <1>1, <1>5, <1>6, <1>8, <1>10, <1>11, <1>12, <1>13 DEF OptionsHand

-----------------------------------------------------------------------------
(* The steps of the parser *)

\* What OptionsHand says of position i, of the position of the next option.
SeenAt(f, l) ==
  SeenIn(f, At - 2, l) \/ (pos > 1 /\ Among(argv[At].letters, pos - 1, l))
AtHand(f, e) ==
  LET m == At - 2 IN
  /\ Unread(f, At) /\ m \in 0 .. e /\ (m > 0 => ~Needs(f[m]))
  /\ NArgs = Len(FilesTo(f, m)) /\ \A j \in 1 .. NArgs : argv[At - NArgs + j - 1] = FilesTo(f, m)[j]
  /\ values = GivenTo(f, m) /\ forced = "none"
  /\ "status" \in set <=> SeenAt(f, "v")
  /\ "obj" \in set <=> SeenAt(f, "c")
  /\ "outfile" \in set <=> SeenAt(f, "o")

\* In the middle of an option nothing is passed over.
LEMMA MidAt ==
  ASSUME IInv, phase = "options"
  PROVE  /\ pos \in Int
         /\ pos # 0 => /\ At = i /\ At <= Argc
                       /\ argv[At].kind \in {"short", "driver"} => pos \in 2 .. Len(argv[At].letters) /\ pos > 1
                       /\ argv[At].kind \notin {"short", "driver"} => pos = -1 /\ argv[At].kind = "long"
<1>1. i \in Nat /\ i >= 2 /\ i <= Argc + 1 /\ n <= i - 2 /\ Argc \in Nat \ {0}
  BY ParserState
<1>2. CASE pos = 0
  BY <1>2
<1>3. CASE pos # 0
  <2>1. /\ i <= Argc
        /\ \/ pos = -1 /\ argv[i].kind = "long"
           \/ pos \in 2 .. Len(argv[i].letters) /\ argv[i].kind \in {"short", "driver"}
    BY <1>3 DEF IInv, ParserInv
  <2>2. At \in i .. Argc + 1 /\ \A k \in i .. At - 1 : argv[k].kind = "plain"
    BY <1>1, AtProperties
  <2>3. argv[i].kind # "plain"
    BY <2>1
  <2>4. At = i
    <3>1. SUFFICES ASSUME At # i PROVE FALSE
      OBVIOUS
    <3>2. i \in i .. At - 1
      BY <1>1, <2>2, <3>1
    <3> QED
      BY <2>2, <2>3, <3>2
  <2>5. argv[i] \in Arguments
    BY <1>1, <2>1 DEF IInv
  <2>6. Len(argv[i].letters) \in Nat
    BY <2>5, ArgumentType
  <2>7. pos \in Int
    BY <2>1, <2>6
  <2>8. CASE pos = -1 /\ argv[i].kind = "long"
    BY <2>1, <2>4, <2>7, <2>8
  <2>9. CASE pos \in 2 .. Len(argv[i].letters) /\ argv[i].kind \in {"short", "driver"}
    <3>1. pos > 1
      BY <2>6, <2>9
    <3> QED
      BY <2>1, <2>4, <2>7, <2>9, <3>1
  <2> QED
    BY <2>1, <2>8, <2>9
<1> QED
  BY <1>2, <1>3

LEMMA HandAt ==
  ASSUME IInv, phase = "options", NEW f, NEW e, Clean(f, e), OptionsHand(f, e)
  PROVE  AtHand(f, e)
<1> DEFINE m == i - 2
           d == At - i
<1>1. /\ argv \in Seq(All) /\ Argc \in Nat \ {0} /\ i \in Nat /\ n \in Nat
      /\ i <= Argc + 1 /\ n <= i - 2 /\ i >= 2
  BY ParserState
<1>2. /\ At \in i .. Argc + 1 /\ NArgs \in 0 .. At - 2 /\ NArgs - n = At - i
      /\ \A k \in i .. At - 1 : argv[k].kind = "plain"
  BY <1>1, AtProperties
<1>3. f \in Seq(Arguments) /\ Len(f) \in Nat /\ e \in 0 .. Len(f) /\ (e < Len(f) => f[e + 1] = Sep)
  BY DEF Clean
<1>4. /\ Unread(f, i) /\ m <= e /\ (m > 0 => ~Needs(f[m]))
      /\ FilesAt(f, m, i - n) /\ values = GivenTo(f, m) /\ SetBy(f, m) /\ forced = "none"
  BY DEF OptionsHand
<1>5. m \in Nat /\ d \in Nat /\ m + d = At - 2 /\ Argc = Len(f) + 1 /\ m + d <= Len(f) /\ NArgs = n + d
  BY <1>1, <1>2, <1>4 DEF Unread
<1>6. ASSUME NEW x \in 1 .. d PROVE argv[i + x - 1] = f[m + x] /\ f[m + x].kind = "plain"
  <2> DEFINE k == i + x - 1
  <2>1. k \in i .. At - 1 /\ k \in i .. Argc /\ k - 1 = m + x
    BY <1>1, <1>2
  <2> HIDE DEF k
  <2>2. argv[k] = f[k - 1] /\ argv[k].kind = "plain"
    BY <1>2, <1>4, <2>1 DEF Unread
  <2> QED
    BY <2>1, <2>2 DEF k
<1>7. Unread(f, At)
  <2>1. \A j \in At .. Argc : j \in i .. Argc
    BY <1>1, <1>2
  <2> QED
    BY <1>4, <2>1 DEF Unread
<1> HIDE DEF m, d
<1>8. Passes(f, m, d)
  BY <1>3, <1>4, <1>5, <1>6, PassOver
<1>9. m + d <= e
  <2>1. SUFFICES ASSUME e < m + d PROVE FALSE
    BY <1>3, <1>5
  <2>2. f[e + 1] = Sep
    BY <1>3, <1>5, <2>1
  <2>3. e + 1 - m \in 1 .. d /\ m + (e + 1 - m) = e + 1
    BY <1>3, <1>4, <1>5, <2>1
  <2>4. f[m + (e + 1 - m)].kind = "plain"
    BY <1>6, <2>3
  <2>5. Sep.kind = "sep"
    BY DEF Sep
  <2> QED
    BY <2>2, <2>3, <2>4, <2>5
<1>10. m + d > 0 => ~Needs(f[m + d])
  BY <1>8 DEF Passes
<1> DEFINE a == FilesTo(f, m)
           b == FilesTo(f, m + d)
<1>11. /\ Len(b) = Len(a) + d
       /\ \A j \in 1 .. Len(a) : b[j] = a[j]
       /\ \A x \in 1 .. d : b[Len(a) + x] = f[m + x]
       /\ GivenTo(f, m + d) = GivenTo(f, m)
       /\ \A l : SeenIn(f, m + d, l) <=> SeenIn(f, m, l)
  BY <1>8 DEF Passes
<1>12. n = Len(a) /\ \A j \in 1 .. n : argv[i - n + j - 1] = a[j]
  BY <1>4 DEF FilesAt
<1> HIDE DEF a, b
<1>13. NArgs = Len(b)
  BY <1>5, <1>11, <1>12
<1>14. ASSUME NEW j \in 1 .. NArgs PROVE argv[At - NArgs + j - 1] = b[j]
  <2>1. At - NArgs + j - 1 = i - n + j - 1
    BY <1>1, <1>2
  <2>2. CASE j <= n
    <3>1. j \in 1 .. n
      BY <1>1, <2>2
    <3> QED
      BY <1>11, <1>12, <2>1, <3>1
  <2>3. CASE ~(j <= n)
    <3>1. j - n \in 1 .. d /\ i - n + j - 1 = i + (j - n) - 1 /\ Len(a) + (j - n) = j
      BY <1>1, <1>5, <1>12, <2>3
    <3>2. argv[i + (j - n) - 1] = f[m + (j - n)]
      BY <1>6, <3>1
    <3>3. b[Len(a) + (j - n)] = f[m + (j - n)]
      BY <1>11, <3>1
    <3> QED
      BY <2>1, <3>1, <3>2, <3>3
  <2> QED
    BY <2>2, <2>3
<1>15. \A l : Seen(f, m, l) <=> SeenAt(f, l)
  <2>1. pos \in Int /\ (pos # 0 => At = i)
    BY MidAt
  <2>2. \A l : SeenIn(f, At - 2, l) <=> SeenIn(f, m, l)
    BY <1>5, <1>11
  <2>3. CASE pos > 1
    BY <2>1, <2>2, <2>3 DEF Seen, SeenAt
  <2>4. CASE ~(pos > 1)
    BY <2>2, <2>4 DEF Seen, SeenAt
  <2> QED
    BY <2>3, <2>4
<1>16. /\ "status" \in set <=> SeenAt(f, "v")
       /\ "obj" \in set <=> SeenAt(f, "c")
       /\ "outfile" \in set <=> SeenAt(f, "o")
  BY <1>4, <1>15 DEF SetBy
<1>17. At - 2 = m + d /\ b = FilesTo(f, At - 2) /\ m + d \in 0 .. e
  BY <1>3, <1>5, <1>9 DEF b
<1>18. NArgs = Len(FilesTo(f, At - 2)) /\ \A j \in 1 .. NArgs : argv[At - NArgs + j - 1] = FilesTo(f, At - 2)[j]
  BY <1>13, <1>14, <1>17
<1>19. values = GivenTo(f, At - 2)
  BY <1>4, <1>11, <1>17
<1>20. At - 2 \in 0 .. e /\ (At - 2 > 0 => ~Needs(f[At - 2]))
  BY <1>10, <1>17
<1> QED
  BY <1>4, <1>7, <1>16, <1>18, <1>19, <1>20 DEF AtHand

\* The option at hand is one of the filter's first e.
LEMMA OptionAt ==
  ASSUME IInv, phase = "options", NEW f, NEW e, Clean(f, e), AtHand(f, e)
  PROVE  /\ At \in Nat /\ At - 2 \in Nat /\ Argc = Len(f) + 1 /\ (At - 2) + 1 = At - 1
         /\ At > Argc => At - 2 = e /\ e = Len(f)
         /\ At <= Argc => argv[At] = f[At - 1]
         /\ At <= Argc /\ argv[At] # Sep => At - 1 <= e /\ argv[At].kind # "driver"
         /\ At <= Argc /\ argv[At] = Sep => At - 2 = e /\ e < Len(f)
<1>1. Argc \in Nat \ {0} /\ i \in Nat /\ i <= Argc + 1 /\ n <= i - 2 /\ i >= 2
  BY ParserState
<1>2. At \in i .. Argc + 1
  BY <1>1, AtProperties
<1>3. /\ Len(f) \in Nat /\ e \in 0 .. Len(f) /\ (e < Len(f) => f[e + 1] = Sep)
      /\ \A x \in 1 .. e : f[x] # Sep /\ f[x].kind # "driver"
  BY DEF Clean
<1>4. /\ Argc = Len(f) + 1 /\ At - 2 \in 0 .. e
      /\ \A j \in At .. Argc : argv[j] = f[j - 1]
  BY DEF AtHand, Unread
<1>5. At \in Nat /\ At - 2 \in Nat /\ (At - 2) + 1 = At - 1
  BY <1>1, <1>2, <1>4
<1>6. At > Argc => At - 2 = e /\ e = Len(f)
  BY <1>3, <1>4, <1>5
<1>7. At <= Argc => argv[At] = f[At - 1]
  <2>1. At <= Argc => At \in At .. Argc
    BY <1>1, <1>5
  <2> QED
    BY <1>4, <2>1
<1>8. ASSUME At <= Argc, argv[At] # Sep PROVE At - 1 <= e /\ argv[At].kind # "driver"
  <2>1. f[At - 1] # Sep
    BY <1>7, <1>8
  <2>2. At - 1 <= e
    <3>1. SUFFICES ASSUME ~(At - 1 <= e) PROVE FALSE
      OBVIOUS
    <3>2. e = At - 2 /\ e < Len(f) /\ e + 1 = At - 1
      BY <1>3, <1>4, <1>5, <1>8, <3>1
    <3> QED
      BY <1>3, <2>1, <3>2
  <2>3. At - 1 \in 1 .. e
    BY <1>3, <1>4, <1>5, <2>2
  <2> QED
    BY <1>3, <1>7, <1>8, <2>2, <2>3
<1>9. ASSUME At <= Argc, argv[At] = Sep PROVE At - 2 = e /\ e < Len(f)
  <2>1. ~(At - 1 \in 1 .. e)
    BY <1>3, <1>7, <1>9
  <2> QED
    BY <1>3, <1>4, <1>5, <1>9, <2>1
<1> QED
  BY <1>4, <1>5, <1>6, <1>7, <1>8, <1>9

LEMMA NotSep ==
  ASSUME NEW a, a.kind # "sep"
  PROVE  a # Sep
<1>1. Sep.kind = "sep"
  BY DEF Sep
<1> QED
  BY <1>1

\* The letters up to the one at hand, q = 0 standing for the first.
LEMMA UpTo ==
  ASSUME NEW s, NEW q \in Int, NEW p, (q = 0 /\ p = 1) \/ (q > 1 /\ p = q), NEW l
  PROVE  Among(s, p, l) <=> s[p] = l \/ (q > 1 /\ Among(s, q - 1, l))
<1>1. CASE q = 0 /\ p = 1
  <2>1. \A y : y \in 1 .. 1 <=> y = 1
    OBVIOUS
  <2> QED
    BY <1>1, <2>1 DEF Among
<1>2. CASE q > 1 /\ p = q
  <2>1. \A y : y \in 1 .. q <=> y = q \/ y \in 1 .. q - 1
    BY <1>2
  <2> QED
    BY <1>2, <2>1 DEF Among
<1> QED
  BY <1>1, <1>2

\* The parser has read the option at hand and what it needs.
LEMMA ReadHand ==
  ASSUME IInv, phase = "options", NEW f, NEW e, Clean(f, e), AtHand(f, e),
         At <= Argc, argv[At].kind \in {"short", "long"},
         NEW k \in 1 .. 2, At + k <= Argc + 1, Read(At + k - 1), k = 2 <=> Needs(argv[At])
  PROVE  /\ pos' = 0 /\ ~(pos' > 1) /\ Unread(f, i)' /\ i' - 2 <= e /\ ~Needs(f[i' - 2])
         /\ FilesAt(f, i - 2, i - n)'
         /\ GivenTo(f, i' - 2) = IF ValuedAt(f, At - 1) THEN Append(values, Item(f, At - 1)) ELSE values
         /\ \A l : SeenIn(f, i' - 2, l) <=> SeenIn(f, At - 2, l) \/ HasLetter(argv[At], l)
<1> DEFINE m == At - 2
<1>1. /\ At \in Nat /\ m \in Nat /\ Argc = Len(f) + 1 /\ m + 1 = At - 1 /\ argv[At] = f[m + 1]
  BY OptionAt
<1>2. m + 1 <= e
  <2>1. argv[At] # Sep
    BY NotSep
  <2> QED
    BY <1>1, <2>1, OptionAt
<1>3. /\ Unread(f, At) /\ NArgs = Len(FilesTo(f, m)) /\ values = GivenTo(f, m)
      /\ \A j \in 1 .. NArgs : argv[At - NArgs + j - 1] = FilesTo(f, m)[j]
  BY DEF AtHand
<1>4. At + k - 1 \in At .. Argc
  <2>1. Argc \in Nat
    BY ParserState
  <2> QED
    BY <1>1, <2>1
<1>5. /\ Len(argv') = Argc /\ i' = At + k - 1 + 1 /\ n' = NArgs /\ pos' = 0
      /\ \A j \in 1 .. NArgs : argv'[i' - n' + j - 1] = argv[At - NArgs + j - 1]
      /\ \A j \in i' .. Argc : argv'[j] = argv[j]
  BY <1>4, ReadState
<1>6. i' - 2 = m + k /\ i' >= At
  BY <1>1, <1>5
<1> HIDE DEF m
<1>7. /\ m + k <= e /\ ~Needs(f[m + k]) /\ FilesTo(f, m + k) = FilesTo(f, m)
      /\ GivenTo(f, m + k) = IF ValuedAt(f, m + 1) THEN Append(GivenTo(f, m), Item(f, m + 1))
                             ELSE GivenTo(f, m)
      /\ \A l : SeenIn(f, m + k, l) <=> SeenIn(f, m, l) \/ HasLetter(f[m + 1], l)
  BY <1>1, <1>2, TakeOption
<1>8. Unread(f, i)'
  <2>1. Argc' = Argc
    BY <1>5 DEF Argc
  <2>2. ASSUME NEW j \in i' .. Argc PROVE argv'[j] = f[j - 1]
    <3>1. j \in At .. Argc
      BY <1>1, <1>5, <1>6
    <3> QED
      BY <1>3, <1>5, <3>1 DEF Unread
  <2> QED
    BY <1>1, <2>1, <2>2 DEF Unread
<1>9. FilesAt(f, i - 2, i - n)'
  BY <1>3, <1>5, <1>6, <1>7 DEF FilesAt
<1> QED
  BY <1>1, <1>3, <1>5, <1>6, <1>7, <1>8, <1>9 DEF m

\* The letter at hand is the last; what reading it does.
AtLast == (IF pos = 0 THEN 1 ELSE pos) = Len(argv[At].letters)
Sets(l) ==
  /\ "status" \in set' <=> "status" \in set \/ l = "v"
  /\ "obj" \in set' <=> "obj" \in set \/ l = "c"
  /\ "outfile" \in set' <=> "outfile" \in set \/ l = "o"
Gives(f, l) == values' = IF l \in Valued THEN Append(values, Item(f, At - 1)) ELSE values

LEMMA LetterHand ==
  ASSUME IInv, phase = "options", NEW f, NEW e, Clean(f, e), AtHand(f, e),
         At <= Argc, argv[At].kind = "short",
         NEW k \in 1 .. 2, At + k <= Argc + 1, Read(At + k - 1),
         k = 2 <=> Here \in Valued /\ argv[At].value = "",
         AtLast, Gives(f, Here), Sets(Here), forced' = forced
  PROVE  OptionsHand(f, e)'
<1> DEFINE a == argv[At]
           p == IF pos = 0 THEN 1 ELSE pos
<1>1. Last(a.letters) = Here
  BY DEF Last, Here, AtLast
<1>2. Needs(a) <=> Here \in Valued /\ a.value = ""
  BY <1>1 DEF Needs, Swallows
<1>3. a = f[At - 1]
  BY OptionAt
<1>4. ValuedAt(f, At - 1) <=> Here \in Valued
  BY <1>1, <1>3 DEF ValuedAt
<1>5. /\ pos' = 0 /\ ~(pos' > 1) /\ Unread(f, i)' /\ i' - 2 <= e /\ ~Needs(f[i' - 2])
      /\ FilesAt(f, i - 2, i - n)'
      /\ GivenTo(f, i' - 2) = IF ValuedAt(f, At - 1) THEN Append(values, Item(f, At - 1)) ELSE values
      /\ \A l : SeenIn(f, i' - 2, l) <=> SeenIn(f, At - 2, l) \/ HasLetter(a, l)
  <2>1. argv[At].kind \in {"short", "long"}
    OBVIOUS
  <2>2. k = 2 <=> Needs(argv[At])
    BY <1>2
  <2> QED
    BY <2>1, <2>2, ReadHand
<1>6. \A l : HasLetter(a, l) <=> Here = l \/ (pos > 1 /\ Among(a.letters, pos - 1, l))
  <2>1. pos \in Int /\ (pos = 0 \/ pos > 1)
    BY MidAt
  <2>2. a.letters[p] = Here
    BY DEF Here
  <2>3. \A l : HasLetter(a, l) <=> Among(a.letters, p, l)
    BY DEF HasLetter, AtLast
  <2>5. (pos = 0 /\ p = 1) \/ (pos > 1 /\ p = pos)
    <3>1. CASE pos = 0
      BY <3>1, Zenon
    <3>2. CASE pos # 0
      BY <2>1, <3>2, Zenon
    <3> QED
      BY <3>1, <3>2, Zenon
  <2> HIDE DEF p
  <2>6. \A l : Among(a.letters, p, l) <=> a.letters[p] = l \/ (pos > 1 /\ Among(a.letters, pos - 1, l))
    BY <2>1, <2>5, UpTo, Zenon
  <2> QED
    BY <2>2, <2>3, <2>6
<1>7. \A l : SeenIn(f, i' - 2, l) <=> SeenAt(f, l) \/ Here = l
  BY <1>5, <1>6 DEF SeenAt
<1>8. SetBy(f, i - 2)'
  <2>1. /\ "status" \in set <=> SeenAt(f, "v")
        /\ "obj" \in set <=> SeenAt(f, "c")
        /\ "outfile" \in set <=> SeenAt(f, "o")
    BY DEF AtHand
  <2>2. /\ "status" \in set' <=> SeenIn(f, i' - 2, "v")
        /\ "obj" \in set' <=> SeenIn(f, i' - 2, "c")
        /\ "outfile" \in set' <=> SeenIn(f, i' - 2, "o")
    BY <1>7, <2>1 DEF Sets
  <2> QED
    BY <1>5, <2>2 DEF SetBy, Seen
<1>9. values' = GivenTo(f, i' - 2)
  BY <1>4, <1>5 DEF Gives
<1>10. forced' = "none"
  BY DEF AtHand
<1> QED
  BY <1>5, <1>8, <1>9, <1>10 DEF OptionsHand

LEMMA ShortOptionHands ==
  ASSUME IInv, ShortOption, NEW f, NEW e, Clean(f, e), OptionsHand(f, e), phase' = "options"
  PROVE  OptionsHand(f, e)'
<1> DEFINE a == argv[At]
           p == IF pos = 0 THEN 1 ELSE pos
<1>1. /\ phase = "options" /\ At <= Argc /\ a.kind \in {"short", "driver"} /\ forced' = forced
  BY DEF ShortOption
<1>2. AtHand(f, e)
  BY <1>1, HandAt
<1>3. /\ At \in Nat /\ At - 2 \in Nat /\ Argc = Len(f) + 1 /\ (At - 2) + 1 = At - 1
      /\ a = f[At - 1] /\ At - 1 <= e /\ a.kind = "short" /\ Argc \in Nat
  <2>1. a # Sep
    BY <1>1, NotSep
  <2>2. Argc \in Nat
    BY <1>1, ParserState
  <2>3. /\ At \in Nat /\ At - 2 \in Nat /\ Argc = Len(f) + 1 /\ (At - 2) + 1 = At - 1
        /\ a = f[At - 1] /\ At - 1 <= e /\ a.kind # "driver"
    BY <1>1, <1>2, <2>1, OptionAt
  <2> QED
    BY <1>1, <2>2, <2>3
<1>4. Clean(f, e) /\ Len(f) \in Nat /\ e \in 0 .. Len(f) /\ At - 1 \in 1 .. e
  BY <1>3 DEF Clean
<1>5. /\ a \in Arguments /\ (Needs(a) => At - 1 < e /\ f[At].kind = "plain")
  <2>1. (At - 1) + 1 = At
    BY <1>3
  <2> QED
    BY <1>3, <1>4, <2>1 DEF Clean
<1>6. Len(a.letters) \in Nat \ {0} /\ \A y \in 1 .. Len(a.letters) - 1 : a.letters[y] \notin Valued
  <2>1. Len(a.letters) \in Nat /\ a.letters # <<>> /\ Len(a.letters) # 0
    BY <1>3, <1>5, ArgumentType
  <2> QED
    BY <1>5, <2>1, ArgsAssumption DEF ArgsAssumption
<1>7. p \in 1 .. Len(a.letters) /\ a.letters[p] = Here
  <2>1. pos # 0 => pos \in 2 .. Len(a.letters)
    BY <1>1, MidAt
  <2> QED
    BY <1>6, <2>1 DEF Here
<1>8. ASSUME Here \in Valued PROVE p = Len(a.letters)
  BY <1>6, <1>7, <1>8
<1>9. /\ "v" \notin Valued /\ "c" \notin Valued /\ "o" \in Valued
  BY DEF Valued
<1>10. /\ At + 1 - 1 = At /\ At + 2 - 1 = At + 1 /\ At + 1 <= Argc + 1
       /\ At < Argc => At + 2 <= Argc + 1
       /\ 1 \in 1 .. 2 /\ 2 \in 1 .. 2 /\ 1 # 2
  BY <1>1, <1>3
<1>11. \A l, v : Value(l, v) /\ l \in Valued => Sets(l) /\ values' = Append(values, <<l, v>>)
  BY <1>9 DEF Value, Sets
<1>12. \A l : Flag(l) /\ l \notin Valued => Sets(l) /\ values' = values
  BY <1>9 DEF Flag, Sets
<1>13. Last(a.letters) = a.letters[Len(a.letters)]
  BY DEF Last
<1>14. CASE Here \in Valued /\ a.value # "" /\ Value(Here, Plain(a.value)) /\ Read(At)
  <2>1. Item(f, At - 1) = <<Here, Plain(a.value)>>
    BY <1>3, <1>7, <1>8, <1>13, <1>14 DEF Item
  <2>2. Gives(f, Here)
    BY <1>11, <1>14, <2>1 DEF Gives
  <2>3. AtLast /\ Read(At + 1 - 1)
    BY <1>8, <1>10, <1>14 DEF AtLast
  <2> QED
    BY <1>1, <1>2, <1>3, <1>10, <1>11, <1>14, <2>2, <2>3, LetterHand
<1>15. CASE Here \in Valued /\ a.value = "" /\ At < Argc /\ Value(Here, argv[At + 1]) /\ Read(At + 1)
  <2>1. Item(f, At - 1) = <<Here, argv[At + 1]>>
    <3>1. At + 1 \in At .. Argc /\ (At + 1) - 1 = At /\ (At - 1) + 1 = At
      <4>1. At \in Nat /\ Argc \in Nat /\ At < Argc
        BY <1>3, <1>15
      <4> QED
        BY <4>1
    <3>2. argv[At + 1] = f[At]
      BY <1>2, <3>1 DEF AtHand, Unread
    <3> QED
      BY <1>3, <1>7, <1>8, <1>13, <1>15, <3>1, <3>2 DEF Item
  <2>2. Gives(f, Here)
    BY <1>11, <1>15, <2>1 DEF Gives
  <2>3. AtLast /\ Read(At + 2 - 1)
    BY <1>8, <1>10, <1>15 DEF AtLast
  <2> QED
    BY <1>1, <1>2, <1>3, <1>10, <1>11, <1>15, <2>2, <2>3, LetterHand
<1>16. CASE Here \in Valued /\ a.value = "" /\ At = Argc
  <2>1. Needs(a)
    BY <1>3, <1>7, <1>8, <1>13, <1>16 DEF Needs
  <2>2. At - 1 < e
    BY <1>5, <2>1
  <2>3. At = Len(f) + 1
    BY <1>3, <1>16
  <2> QED
    BY <1>4, <2>2, <2>3
<1>17. CASE Here \notin Valued /\ p = Len(a.letters) /\ Flag(Here) /\ Read(At)
  <2>1. Gives(f, Here)
    BY <1>12, <1>17 DEF Gives
  <2>2. AtLast /\ Read(At + 1 - 1)
    BY <1>10, <1>17 DEF AtLast
  <2> QED
    BY <1>1, <1>2, <1>3, <1>10, <1>12, <1>17, <2>1, <2>2, LetterHand
<1>18. CASE /\ Here \notin Valued /\ p < Len(a.letters) /\ Flag(Here)
            /\ i' = At /\ pos' = p + 1 /\ n' = NArgs /\ UNCHANGED argv
  <2>1. Argc' = Argc
    BY <1>18 DEF Argc
  <2>2. Unread(f, i)'
    BY <1>2, <1>18, <2>1 DEF AtHand, Unread
  <2>3. FilesAt(f, i - 2, i - n)'
    BY <1>2, <1>18 DEF AtHand, FilesAt
  <2>4. \A l : Among(a.letters, p, l) <=> Here = l \/ (pos > 1 /\ Among(a.letters, pos - 1, l))
    <3>1. pos \in Int /\ (pos # 0 => pos \in 2 .. Len(a.letters))
      BY <1>1, MidAt
    <3>2. (pos = 0 /\ p = 1) \/ (pos > 1 /\ p = pos)
      BY <3>1
    <3> HIDE DEF p
    <3>4. \A l : Among(a.letters, p, l)
                 <=> a.letters[p] = l \/ (pos > 1 /\ Among(a.letters, pos - 1, l))
      BY <3>1, <3>2, UpTo
    <3> QED
      BY <1>7, <3>4
  <2>5. pos' > 1 /\ pos' - 1 = p
    BY <1>6, <1>7, <1>18
  <2>6. \A l : Seen(f, i - 2, l)' <=> SeenAt(f, l) \/ Here = l
    BY <1>18, <2>4, <2>5 DEF Seen, SeenAt
  <2>7. SetBy(f, i - 2)'
    BY <1>2, <1>12, <1>18, <2>6 DEF SetBy, AtHand, Sets
  <2>8. values' = GivenTo(f, i' - 2) /\ forced' = "none"
    BY <1>1, <1>2, <1>12, <1>18 DEF AtHand
  <2>9. i' - 2 <= e /\ (i' - 2 > 0 => ~Needs(f[i' - 2]))
    BY <1>2, <1>3, <1>4, <1>18 DEF AtHand
  <2> QED
    BY <2>2, <2>3, <2>7, <2>8, <2>9 DEF OptionsHand
<1>19. a.letters[p] = Here
  BY DEF Here
<1> QED
  BY <1>14, <1>15, <1>16, <1>17, <1>18, <1>19 DEF ShortOption

LEMMA LongOptionHands ==
  ASSUME IInv, LongOption, NEW f, NEW e, Clean(f, e), OptionsHand(f, e), phase' = "options"
  PROVE  OptionsHand(f, e)'
<1> DEFINE a == argv[At]
           next == a.name = "xtgz" /\ a.value = "" /\ At < Argc
           missing == a.name = "xtgz" /\ a.value = "" /\ At = Argc
<1>1. /\ phase = "options" /\ At <= Argc /\ a.kind = "long" /\ values' = values
      /\ Read(IF next THEN At + 1 ELSE At)
      /\ set' = IF a.name = "verb" THEN (set \ {"quiet"}) \cup {"verbose"} ELSE set
      /\ forced' = IF a.name \in {"xass", "xtgz"} /\ ~missing THEN a.name ELSE forced
      /\ phase' = IF a.name = "help" THEN "help" ELSE IF forced' # "none" THEN "routed" ELSE phase
  BY DEF LongOption
<1>2. AtHand(f, e)
  BY <1>1, HandAt
<1>3. /\ At \in Nat /\ At - 2 \in Nat /\ Argc = Len(f) + 1 /\ (At - 2) + 1 = At - 1
      /\ a = f[At - 1] /\ At - 1 <= e /\ Argc \in Nat
  <2>1. a # Sep
    BY <1>1, NotSep
  <2> QED
    BY <1>1, <1>2, <2>1, OptionAt, ParserState
<1>4. /\ Len(f) \in Nat /\ e \in 0 .. Len(f) /\ At - 1 \in 1 .. e
      /\ Needs(a) => At - 1 < e
  <2>1. Len(f) \in Nat /\ e \in 0 .. Len(f) /\ At - 1 \in 1 .. e
    BY <1>3 DEF Clean
  <2> QED
    BY <1>3, <2>1 DEF Clean
<1>5. forced' = "none"
  BY <1>1
<1>6. Needs(a) <=> a.name = "xtgz" /\ a.value = ""
  BY <1>1 DEF Needs, Swallows
<1>7. Needs(a) => At < Argc
  BY <1>3, <1>4
<1>8. ~Needs(a)
  \* --xtgz with an archive ends the options.
  <2>1. SUFFICES ASSUME Needs(a) PROVE FALSE
    OBVIOUS
  <2>2. a.name = "xtgz" /\ At # Argc
    <3>1. At < Argc /\ At \in Nat /\ Argc \in Nat
      BY <1>3, <1>7, <2>1
    <3>2. At # Argc
      BY <3>1
    <3> QED
      BY <1>6, <2>1, <3>2
  <2>3. forced' = "xtgz"
    BY <1>1, <2>2
  <2> QED
    BY <1>5, <2>3
<1>9. Read(At + 1 - 1) /\ At + 1 <= Argc + 1 /\ 1 \in 1 .. 2 /\ 1 # 2
  <2>1. Read(At)
    BY <1>1, <1>6, <1>8
  <2>2. At + 1 - 1 = At /\ At + 1 <= Argc + 1
    <3>1. At <= Argc /\ At \in Nat /\ Argc \in Nat
      BY <1>1, <1>3
    <3> QED
      BY <3>1
  <2> QED
    BY <2>1, <2>2
<1>10. /\ pos' = 0 /\ ~(pos' > 1) /\ Unread(f, i)' /\ i' - 2 <= e /\ ~Needs(f[i' - 2])
       /\ FilesAt(f, i - 2, i - n)'
       /\ GivenTo(f, i' - 2) = IF ValuedAt(f, At - 1) THEN Append(values, Item(f, At - 1)) ELSE values
       /\ \A l : SeenIn(f, i' - 2, l) <=> SeenIn(f, At - 2, l) \/ HasLetter(a, l)
  BY <1>1, <1>2, <1>8, <1>9, ReadHand
<1>11. ~ValuedAt(f, At - 1) /\ \A l : ~HasLetter(a, l)
  BY <1>1, <1>3 DEF ValuedAt, HasLetter
<1>12. \A l : SeenIn(f, i' - 2, l) <=> SeenAt(f, l)
  <2>1. pos = 0 \/ pos = -1
    BY <1>1, MidAt
  <2>2. ~(pos > 1)
    BY <2>1
  <2> QED
    BY <1>10, <1>11, <2>2 DEF SeenAt
<1>13. \A x \in {"status", "obj", "outfile"} : x \in set' <=> x \in set
  BY <1>1
<1>14. SetBy(f, i - 2)'
  BY <1>2, <1>10, <1>12, <1>13 DEF SetBy, Seen, AtHand
<1> QED
  BY <1>1, <1>5, <1>10, <1>11, <1>14 DEF OptionsHand

LEMMA AmbiguousOptionHands ==
  ASSUME IInv, AmbiguousOption, NEW f, NEW e, Clean(f, e), OptionsHand(f, e)
  PROVE  OptionsHand(f, e)'
<1>1. /\ phase = "options" /\ At <= Argc /\ argv[At].kind = "long"
      /\ i' = At /\ pos' = -1 /\ n' = NArgs
      /\ UNCHANGED <<argv, set, values, forced>>
  BY DEF AmbiguousOption, outcome
<1>2. AtHand(f, e)
  BY <1>1, HandAt
<1>3. e \in Nat /\ At - 2 \in 0 .. e
  BY <1>2 DEF Clean, AtHand
<1>4. Argc' = Argc
  BY <1>1 DEF Argc
<1>5. Unread(f, i)'
  BY <1>1, <1>2, <1>4 DEF AtHand, Unread
<1>6. FilesAt(f, i - 2, i - n)'
  BY <1>1, <1>2 DEF AtHand, FilesAt
<1>7. ~(pos > 1) /\ ~(pos' > 1)
  <2>1. pos = 0 \/ pos = -1
    BY <1>1, MidAt
  <2> QED
    BY <1>1, <2>1
<1>8. SetBy(f, i - 2)'
  BY <1>1, <1>2, <1>7 DEF SetBy, Seen, SeenAt, AtHand
<1> QED
  BY <1>1, <1>2, <1>3, <1>5, <1>6, <1>8 DEF OptionsHand, AtHand

LEMMA SeparatorHands ==
  ASSUME IInv, Separator, NEW f, NEW e, Clean(f, e), OptionsHand(f, e)
  PROVE  RoutedHand(f, e)'
<1>1. /\ phase = "options" /\ At <= Argc /\ argv[At] = Sep /\ Read(At) /\ sep' = ind' + 1
      /\ UNCHANGED <<set, values, forced>>
  BY DEF Separator
<1>2. AtHand(f, e)
  BY <1>1, HandAt
<1>3. At \in Nat /\ Argc = Len(f) + 1 /\ At - 2 = e /\ e < Len(f) /\ At = e + 2 /\ e \in Nat
  <2>1. At - 2 = e /\ e < Len(f) /\ At \in Nat /\ Argc = Len(f) + 1
    BY <1>1, <1>2, OptionAt
  <2>2. e \in Nat
    BY DEF Clean
  <2> QED
    BY <2>1, <2>2
<1>4. At \in At .. Argc
  <2>1. Argc \in Nat
    BY <1>1, ParserState
  <2> QED
    BY <1>1, <1>3, <2>1
<1>5. /\ Len(argv') = Argc /\ i' = At + 1 /\ n' = NArgs /\ pos' = 0 /\ ind' = i' - n'
      /\ \A j \in 1 .. NArgs : argv'[i' - n' + j - 1] = argv[At - NArgs + j - 1]
      /\ \A j \in i' .. Argc : argv'[j] = argv[j]
  BY <1>1, <1>4, ReadState
<1>6. pos = 0
  <2>1. Sep.kind = "sep"
    BY DEF Sep
  <2> QED
    BY <1>1, <2>1, MidAt
<1>7. Unread(f, i)'
  <2>1. Argc' = Argc
    BY <1>5 DEF Argc
  <2>2. ASSUME NEW j \in i' .. Argc PROVE argv'[j] = f[j - 1]
    <3>1. j \in At .. Argc
      BY <1>3, <1>5
    <3> QED
      BY <1>2, <1>5, <3>1 DEF AtHand, Unread
  <2> QED
    BY <1>3, <2>1, <2>2 DEF Unread
<1>8. FilesAt(f, e, ind)'
  BY <1>2, <1>3, <1>5 DEF AtHand, FilesAt
<1>9. SetBy(f, e)'
  BY <1>1, <1>2, <1>3, <1>5, <1>6 DEF SetBy, Seen, SeenAt, AtHand
<1>10. values' = GivenTo(f, e)
  BY <1>1, <1>2, <1>3 DEF AtHand
<1>11. i' = e + 3
  BY <1>3, <1>5
<1> QED
  BY <1>1, <1>3, <1>5, <1>7, <1>8, <1>9, <1>10, <1>11 DEF RoutedHand

LEMMA NoMoreOptionsHands ==
  ASSUME IInv, NoMoreOptions, NEW f, NEW e, Clean(f, e), OptionsHand(f, e)
  PROVE  RoutedHand(f, e)'
<1>1. /\ phase = "options" /\ At > Argc /\ i' = At /\ n' = NArgs /\ ind' = At - NArgs
      /\ UNCHANGED <<argv, pos, set, values, forced, sep>>
  BY DEF NoMoreOptions, outcome
<1>2. AtHand(f, e)
  BY <1>1, HandAt
<1>3. At \in Nat /\ Argc = Len(f) + 1 /\ At - 2 = e /\ e = Len(f) /\ At = e + 2 /\ e \in Nat
  <2>1. At - 2 = e /\ e = Len(f) /\ At \in Nat /\ Argc = Len(f) + 1
    BY <1>1, <1>2, OptionAt
  <2>2. e \in Nat
    BY DEF Clean
  <2> QED
    BY <2>1, <2>2
<1>4. pos = 0 /\ sep = 0
  <2>1. ~(At <= Argc)
    <3>1. Argc \in Nat
      BY <1>1, ParserState
    <3> QED
      BY <1>1, <1>3, <3>1
  <2> QED
    BY <1>1, <2>1, MidAt, ParserState
<1>5. Argc' = Argc
  BY <1>1 DEF Argc
<1>6. FilesAt(f, e, ind)'
  BY <1>1, <1>2, <1>3 DEF AtHand, FilesAt
<1>7. SetBy(f, e)'
  BY <1>1, <1>2, <1>3, <1>4 DEF SetBy, Seen, SeenAt, AtHand
<1>8. values' = GivenTo(f, e)
  BY <1>1, <1>2, <1>3 DEF AtHand
<1> QED
  BY <1>1, <1>3, <1>4, <1>5, <1>6, <1>7, <1>8 DEF RoutedHand

-----------------------------------------------------------------------------
(* The command line, from Init to a route *)

LEMMA HandsInit == Init => Hands
<1> SUFFICES ASSUME Init PROVE Hands
  OBVIOUS
<1>1. cmd \in Seq(Arguments)
  BY SeqDef DEF Init, ArgsAssumption
<1>2. ASSUME Sound(cmd) PROVE FilterHands(cmd)
  <2>1. Len(cmd) \in Nat /\ SepIn(cmd) \in 1 .. Len(cmd) + 1
    BY <1>1, SepProperties
  <2>2. Kept(cmd)[0] = <<>> /\ Len(<<>>) = 0
    BY <1>1, KeptSteps
  <2>3. Argc = 1 /\ i = 1 /\ i - 1 = 0 /\ set = {} /\ values = <<>> /\ forced = "none" /\ after = FALSE
    BY DEF Init, Argc
  <2>4. ~(SepIn(cmd) < i) /\ i <= Len(cmd) + 1
    BY <2>1, <2>3
  <2> QED
    BY <2>2, <2>3, <2>4 DEF FilterHands
<1>3. phase = "filter"
  BY DEF Init
<1> QED
  BY <1>1, <1>2, <1>3 DEF Hands

LEMMA HandsStep == IInv /\ Hands /\ [Next]_vars => Hands'
<1> SUFFICES ASSUME IInv, Hands, [Next]_vars PROVE Hands'
  OBVIOUS
<1>1. cmd' = cmd /\ cmd \in Seq(Arguments)
  BY DEF Hands, Next, Step, FilterArgument, FilterEnds, NoMoreOptions, Separator, AmbiguousOption,
         LongOption, ShortOption, vars, outcome
<1>2. PICK c : c = cmd
  OBVIOUS
<1> SUFFICES ASSUME Sound(c)
             PROVE  /\ phase' = "filter" => FilterHands(c)'
                    /\ phase' = "options" => OptionsHand(Filtered(c), End(c))'
                    /\ phase' = "routed" /\ forced' = "none" => RoutedHand(Filtered(c), End(c))'
  BY <1>1, <1>2 DEF Hands
<1> DEFINE f == Filtered(c)
           e == End(c)
<1>3. Clean(f, e)
  BY CleanLine
<1>4. /\ phase = "filter" => FilterHands(c)
      /\ phase = "options" => OptionsHand(f, e)
      /\ phase = "routed" /\ forced = "none" => RoutedHand(f, e)
  BY <1>2 DEF Hands
<1> HIDE DEF f, e
<1>5. CASE FilterArgument
  <2>1. phase = "filter" /\ phase' = "filter"
    BY <1>5 DEF FilterArgument
  <2>2. FilterHands(c)'
    BY <1>1, <1>2, <1>4, <1>5, <2>1, FilterArgumentHands
  <2> QED
    BY <2>1, <2>2
<1>6. CASE FilterEnds
  <2>1. phase = "filter" /\ phase' = "options"
    BY <1>6 DEF FilterEnds
  <2>2. FilterHands(cmd) /\ f = Filtered(cmd) /\ Sound(cmd)
    BY <1>2, <1>4, <2>1 DEF f
  <2>3. OptionsHand(f, e)'
    BY <1>3, <1>6, <2>2, FilterEndsHands
  <2> QED
    BY <2>1, <2>3 DEF f, e
<1>7. CASE NoMoreOptions
  <2>1. phase = "options" /\ phase' = "routed"
    BY <1>7 DEF NoMoreOptions
  <2>2. RoutedHand(f, e)'
    BY <1>3, <1>4, <1>7, <2>1, NoMoreOptionsHands
  <2> QED
    BY <2>1, <2>2 DEF f, e
<1>8. CASE Separator
  <2>1. phase = "options" /\ phase' = "routed"
    BY <1>8 DEF Separator
  <2>2. RoutedHand(f, e)'
    BY <1>3, <1>4, <1>8, <2>1, SeparatorHands
  <2> QED
    BY <2>1, <2>2 DEF f, e
<1>9. CASE AmbiguousOption
  <2>1. phase = "options" /\ phase' = "options"
    BY <1>9 DEF AmbiguousOption
  <2>2. OptionsHand(f, e)'
    BY <1>3, <1>4, <1>9, <2>1, AmbiguousOptionHands
  <2> QED
    BY <2>1, <2>2 DEF f, e
<1>10. CASE LongOption
  <2>1. phase = "options"
    BY <1>10 DEF LongOption
  <2>2. phase' = "options" => OptionsHand(f, e)'
    BY <1>3, <1>4, <1>10, <2>1, LongOptionHands
  <2>3. phase' # "filter" /\ ~(phase' = "routed" /\ forced' = "none")
    BY <1>10, <2>1 DEF LongOption
  <2> QED
    BY <2>2, <2>3 DEF f, e
<1>11. CASE ShortOption
  <2>1. phase = "options"
    BY <1>11 DEF ShortOption
  <2>2. phase' = "options" => OptionsHand(f, e)'
    BY <1>3, <1>4, <1>11, <2>1, ShortOptionHands
  <2>3. phase' # "filter" /\ phase' # "routed"
    BY <1>11, <2>1 DEF ShortOption, Value, Flag
  <2> QED
    BY <2>2, <2>3 DEF f, e
<1>12. CASE UNCHANGED vars
  <2>1. UNCHANGED <<phase, argv, after, i, pos, n, ind, set, values, forced, sep>>
    BY <1>12 DEF vars
  <2>2. phase = "filter" => FilterHands(c)'
    BY <1>4, <2>1 DEF FilterHands, Argc
  <2>3. phase = "options" => OptionsHand(f, e)'
    BY <1>4, <2>1 DEF OptionsHand, Unread, FilesAt, SetBy, Seen, Argc
  <2>4. phase = "routed" /\ forced = "none" => RoutedHand(f, e)'
    BY <1>4, <2>1 DEF RoutedHand, Unread, FilesAt, SetBy, Seen, Argc
  <2> QED
    BY <2>1, <2>2, <2>3, <2>4 DEF f, e
<1> QED
  BY <1>5, <1>6, <1>7, <1>8, <1>9, <1>10, <1>11, <1>12 DEF Next, Step

\* What is known of a command line that got a route of its own.
LEMMA RoutedState ==
  ASSUME IInv, Hands, Routed, WellFormed
  PROVE  /\ Sound(cmd) /\ Clean(Filtered(cmd), End(cmd)) /\ RoutedHand(Filtered(cmd), End(cmd))
         /\ n = Len(Files) /\ Files \in Seq(Arguments) /\ n \in Nat /\ End(cmd) \in Nat /\ ind >= 2
         /\ values = Given
         /\ \A j \in 1 .. n : argv[ind + j - 1] = Files[j]
         /\ "status" \in set <=> SeenIn(cmd, SepAt - 1, "v")
         /\ "obj" \in set <=> SeenIn(cmd, SepAt - 1, "c")
         /\ "outfile" \in set <=> SeenIn(cmd, SepAt - 1, "o")
<1> DEFINE f == Filtered(cmd)
           e == End(cmd)
<1>1. cmd \in Seq(Arguments) /\ Sound(cmd)
  BY DEF Hands, Sound, WellFormed, SepAt
<1>2. RoutedHand(f, e)
  BY <1>1 DEF Hands, Routed
<1>3. Clean(f, e) /\ Same(f, e, cmd, SepAt - 1)
  BY <1>1, CleanLine, FilterSaysTheSame DEF SepAt
<1> HIDE DEF f, e
<1>4. Files = FilesTo(cmd, SepAt - 1) /\ Given = GivenTo(cmd, SepAt - 1)
  BY DEF Files, Given, FilesTo, GivenTo
<1>5. Files = FilesTo(f, e) /\ Given = GivenTo(f, e) /\ \A l : SeenIn(f, e, l) <=> SeenIn(cmd, SepAt - 1, l)
  BY <1>3, <1>4 DEF Same
<1>6. f \in Seq(Arguments) /\ e \in Nat /\ e <= Len(f)
  BY <1>3 DEF Clean
<1>7. Files \in Seq(Arguments) /\ Len(Files) \in Nat
  BY <1>5, <1>6, FilesType
<1>8. n = Len(Files) /\ values = Given /\ \A j \in 1 .. n : argv[ind + j - 1] = Files[j]
  BY <1>2, <1>5 DEF RoutedHand, FilesAt
<1>9. ~(pos > 1)
  <2>1. pos = 0
    BY <1>2 DEF RoutedHand
  <2> QED
    BY <2>1
<1>10. /\ "status" \in set <=> SeenIn(cmd, SepAt - 1, "v")
       /\ "obj" \in set <=> SeenIn(cmd, SepAt - 1, "c")
       /\ "outfile" \in set <=> SeenIn(cmd, SepAt - 1, "o")
  BY <1>2, <1>5, <1>9 DEF RoutedHand, SetBy, Seen
<1>11. ind >= 2
  <2>1. i \in Nat /\ n \in 0 .. i - 2
    BY DEF IInv, TypeOK, Routed
  <2>2. ind = i - n
    BY <1>2 DEF RoutedHand
  <2> QED
    BY <2>1, <2>2
<1> QED
  BY <1>1, <1>2, <1>3, <1>6, <1>7, <1>8, <1>10, <1>11 DEF f, e

LEMMA LettersAre ==
  ASSUME Sound(cmd)
  PROVE  \A l : l \in Letters <=> SeenIn(cmd, SepAt - 1, l)
<1>1. ASSUME NEW x \in 1 .. SepAt - 1, NEW l
      PROVE  l \in Range(cmd[x].letters) <=> Among(cmd[x].letters, Len(cmd[x].letters), l)
  <2>1. cmd[x] \in Arguments
    BY SepProperties DEF Sound, SepAt
  <2>2. DOMAIN cmd[x].letters = 1 .. Len(cmd[x].letters)
    BY <2>1, ArgumentType, LenProperties
  <2> QED
    BY <2>2 DEF Range, Among
<1> QED
  BY <1>1 DEF Letters, SeenIn, HasLetter

\* What "--" makes of the places in argv.
LEMMA RoutedPlaces ==
  ASSUME IInv, Hands, Routed, WellFormed
  PROVE  /\ Len(cmd) \in Nat /\ SepAt \in 1 .. Len(cmd) + 1
         /\ Rest \in Seq(Arguments)
         /\ Len(Rest) = IF SepAt <= Len(cmd) THEN Len(cmd) - SepAt ELSE 0
         /\ SepAt > Len(cmd) => /\ sep = 0 /\ ind = End(cmd) + 2 - n /\ Argc = End(cmd) + 1
         /\ SepAt <= Len(cmd) => /\ sep = ind + 1 /\ ind = End(cmd) + 3 - n
                                 /\ Argc = End(cmd) + 2 + (Len(cmd) - SepAt)
                                 /\ Unread(Filtered(cmd), End(cmd) + 3)
<1> DEFINE f == Filtered(cmd)
           e == End(cmd)
<1>1. Sound(cmd) /\ RoutedHand(f, e) /\ e \in Nat /\ n \in Nat
  BY RoutedState
<1>2. cmd \in Seq(Arguments)
  BY <1>1 DEF Sound
<1>3. Len(cmd) \in Nat /\ SepAt \in 1 .. Len(cmd) + 1
  BY <1>2, SepProperties DEF SepAt
<1>4. Len(f) \in Nat /\ Len(f) = e + (Len(cmd) + 1 - SepAt)
  BY <1>2, EndProperties DEF SepAt
<1> HIDE DEF f, e
<1>5. Rest \in Seq(Arguments) /\ Len(Rest) = IF SepAt <= Len(cmd) THEN Len(cmd) - SepAt ELSE 0
  <2>1. \A k \in SepAt + 1 .. Len(cmd) : cmd[k] \in Arguments
    BY <1>2, <1>3, ElementOfSeq
  <2>2. CASE SepAt <= Len(cmd)
    <3>1. SepAt + 1 \in 1 .. Len(cmd) + 1 /\ Len(cmd) \in SepAt + 1 - 1 .. Len(cmd)
      BY <1>3, <2>2
    <3>2. /\ SubSeq(cmd, SepAt + 1, Len(cmd)) \in Seq(Arguments)
          /\ Len(SubSeq(cmd, SepAt + 1, Len(cmd))) = Len(cmd) - (SepAt + 1) + 1
      BY <1>2, <3>1, SubSeqProperties
    <3> QED
      BY <1>3, <2>2, <3>2 DEF Rest
  <2>3. CASE ~(SepAt <= Len(cmd))
    <3>1. SepAt = Len(cmd) + 1
      BY <1>3, <2>3
    <3>2. SubSeq(cmd, SepAt + 1, Len(cmd)) = <<>>
      BY <1>2, <1>3, <3>1, SubSeqProperties, EmptySeq
    <3>3. <<>> \in Seq(Arguments) /\ Len(<<>>) = 0
      OBVIOUS
    <3>4. Rest = <<>>
      BY <3>2 DEF Rest
    <3> QED
      BY <2>3, <3>3, <3>4
  <2> QED
    BY <2>2, <2>3
<1>6. /\ ind = i - n
      /\ \/ sep = 0 /\ e = Len(f) /\ i = e + 2 /\ Argc = e + 1
         \/ sep = ind + 1 /\ e < Len(f) /\ i = e + 3 /\ Unread(f, i)
  BY <1>1 DEF RoutedHand
<1>7. ASSUME SepAt > Len(cmd) PROVE sep = 0 /\ ind = e + 2 - n /\ Argc = e + 1
  <2>1. e = Len(f)
    BY <1>1, <1>3, <1>4, <1>7
  <2>2. ~(e < Len(f))
    BY <1>4, <2>1
  <2>3. sep = 0 /\ i = e + 2 /\ Argc = e + 1 /\ ind = i - n
    BY <1>6, <2>2, Zenon
  <2>4. e \in Nat /\ n \in Nat
    BY <1>1
  <2> QED
    BY <2>3, <2>4
<1>8. ASSUME SepAt <= Len(cmd)
      PROVE  /\ sep = ind + 1 /\ ind = e + 3 - n /\ Argc = e + 2 + (Len(cmd) - SepAt)
             /\ Unread(f, e + 3)
  <2>1. e # Len(f)
    BY <1>1, <1>3, <1>4, <1>8
  <2>2. sep = ind + 1 /\ ind = e + 3 - n /\ Unread(f, e + 3)
    <3>1. sep = ind + 1 /\ ind = i - n /\ i = e + 3 /\ Unread(f, i)
      BY <1>6, <2>1, Zenon
    <3>2. e \in Nat /\ n \in Nat
      BY <1>1
    <3>3. ind = e + 3 - n
      BY <3>1, <3>2
    <3>4. Unread(f, e + 3)
      BY <3>1
    <3> QED
      BY <3>1, <3>3, <3>4
  <2>3. Argc = Len(f) + 1
    BY <2>2 DEF Unread
  <2> QED
    BY <1>1, <1>3, <1>4, <2>2, <2>3
<1> QED
  BY <1>3, <1>5, <1>7, <1>8 DEF f, e

LEMMA RoutedFollows == IInv /\ Hands => RouteFollowsOptions
<1> SUFFICES ASSUME IInv, Hands, Routed, WellFormed
             PROVE  Route = IF "v" \in Letters /\ Files = <<>> /\ Rest = <<>> THEN "status"
                            ELSE IF "c" \in Letters THEN "object"
                            ELSE IF "o" \in Letters THEN "build" ELSE "execute"
  BY DEF RouteFollowsOptions
<1>1. /\ n = Len(Files) /\ Files \in Seq(Arguments) /\ n \in Nat /\ End(cmd) \in Nat
      /\ "status" \in set <=> SeenIn(cmd, SepAt - 1, "v")
      /\ "obj" \in set <=> SeenIn(cmd, SepAt - 1, "c")
      /\ "outfile" \in set <=> SeenIn(cmd, SepAt - 1, "o")
      /\ Sound(cmd)
  BY RoutedState
<1>2. /\ "status" \in set <=> "v" \in Letters
      /\ "obj" \in set <=> "c" \in Letters
      /\ "outfile" \in set <=> "o" \in Letters
  BY <1>1, LettersAre
<1>3. ind > Argc <=> Files = <<>> /\ Rest = <<>>
  <2>1. /\ Len(cmd) \in Nat /\ SepAt \in 1 .. Len(cmd) + 1
        /\ Rest \in Seq(Arguments)
        /\ Len(Rest) = IF SepAt <= Len(cmd) THEN Len(cmd) - SepAt ELSE 0
        /\ SepAt > Len(cmd) => ind = End(cmd) + 2 - n /\ Argc = End(cmd) + 1
        /\ SepAt <= Len(cmd) => ind = End(cmd) + 3 - n /\ Argc = End(cmd) + 2 + (Len(cmd) - SepAt)
    BY RoutedPlaces
  <2>2. (Files = <<>> <=> n = 0) /\ (Rest = <<>> <=> Len(Rest) = 0)
    BY <1>1, <2>1, EmptySeq
  <2>3. ind > Argc <=> n = 0 /\ Len(Rest) = 0
    BY <1>1, <2>1
  <2> QED
    BY <2>2, <2>3
<1>4. forced = "none"
  BY DEF Routed
<1> QED
  BY <1>2, <1>3, <1>4 DEF Route

LEMMA RoutedSources ==
  ASSUME IInv, Hands, Routed, WellFormed, SepAt > Len(cmd) \/ Len(Files) = 1
  PROVE  Sources = Files
<1>1. /\ n = Len(Files) /\ Files \in Seq(Arguments) /\ n \in Nat /\ End(cmd) \in Nat /\ ind >= 2
      /\ \A j \in 1 .. n : argv[ind + j - 1] = Files[j]
  BY RoutedState
<1>2. /\ Len(cmd) \in Nat /\ SepAt \in 1 .. Len(cmd) + 1
      /\ SepAt > Len(cmd) => sep = 0 /\ ind = End(cmd) + 2 - n /\ Argc = End(cmd) + 1
      /\ SepAt <= Len(cmd) => /\ sep = ind + 1 /\ ind = End(cmd) + 3 - n
                              /\ Argc = End(cmd) + 2 + (Len(cmd) - SepAt)
  BY RoutedPlaces
<1>3. Left - ind = n /\ ind + n - 1 <= Argc /\ ind \in Nat /\ Argc \in Nat
  <2>1. CASE SepAt > Len(cmd)
    BY <1>1, <1>2, <2>1 DEF Left
  <2>2. CASE ~(SepAt > Len(cmd))
    <3>1. n = 1 /\ SepAt <= Len(cmd)
      BY <1>1, <1>2, <2>2
    <3>2. sep = ind + 1 /\ ind = End(cmd) + 2 /\ sep # 0
      BY <1>1, <1>2, <3>1
    <3>3. Left = ind + 1
      BY <3>2 DEF Left
    <3>4. ind \in Nat /\ Len(cmd) - SepAt \in Nat
      BY <1>1, <1>2, <3>1, <3>2
    <3>5. Argc = ind + (Len(cmd) - SepAt)
      <4>1. Argc = End(cmd) + 2 + (Len(cmd) - SepAt)
        BY <1>2, <3>1
      <4> QED
        BY <3>2, <4>1
    <3> QED
      BY <3>1, <3>3, <3>4, <3>5
  <2> QED
    BY <2>1, <2>2
<1>4. Sources = [k \in 1 .. n |-> IF ind + k - 1 <= Argc THEN argv[ind + k - 1] ELSE Plain("NULL")]
  BY <1>3 DEF Sources
<1>5. ASSUME NEW k \in 1 .. n PROVE Sources[k] = Files[k]
  <2>1. ind + k - 1 <= Argc
    BY <1>1, <1>3
  <2> QED
    BY <1>1, <1>4, <2>1
<1>6. Files = [k \in 1 .. n |-> Files[k]]
  BY <1>1, LenProperties
<1>7. Sources = [k \in 1 .. n |-> Sources[k]]
  BY <1>4
<1> QED
  BY <1>5, <1>6, <1>7

LEMMA RoutedAppArgs ==
  ASSUME IInv, Hands, Routed, WellFormed, SepAt <= Len(cmd), Len(Files) = 1
  PROVE  AppArgv = Files \o Rest
<1> DEFINE e == End(cmd)
           both == Files \o Rest
<1>1. /\ n = Len(Files) /\ Files \in Seq(Arguments) /\ e \in Nat
      /\ \A j \in 1 .. n : argv[ind + j - 1] = Files[j]
      /\ cmd \in Seq(Arguments)
  BY RoutedState DEF Sound
<1>2. /\ Len(cmd) \in Nat /\ SepAt \in 1 .. Len(cmd) + 1
      /\ Rest \in Seq(Arguments) /\ Len(Rest) = Len(cmd) - SepAt
      /\ sep = ind + 1 /\ ind = e + 3 - n
      /\ Argc = e + 2 + (Len(cmd) - SepAt) /\ Unread(Filtered(cmd), e + 3)
  BY RoutedPlaces
<1>3. n = 1 /\ ind = e + 2 /\ sep # 0 /\ Left = e + 3
  <2>1. n = 1
    BY <1>1
  <2>2. ind = e + 2 /\ sep = e + 3
    BY <1>1, <1>2, <2>1
  <2>3. sep # 0
    BY <1>1, <2>2
  <2> QED
    BY <2>1, <2>2, <2>3 DEF Left
<1>4. e \in Nat /\ Len(cmd) \in Nat /\ SepAt \in Nat /\ SepAt <= Len(cmd) /\ Argc = e + 2 + (Len(cmd) - SepAt)
  <2>1. Len(cmd) \in Nat /\ SepAt \in 1 .. Len(cmd) + 1
    BY <1>2
  <2>2. SepAt \in Nat
    BY <2>1
  <2> QED
    BY <1>1, <1>2, <2>2
<1>5. AppArgv = SubSeq(argv, e + 2, Argc)
  <2>1. Left - 1 = e + 2
    BY <1>1, <1>3
  <2> QED
    BY <2>1 DEF AppArgv
<1>6. argv \in Seq(All) /\ Len(argv) = Argc /\ Argc \in Nat /\ e + 2 \in 1 .. Argc + 1 /\ Argc \in e + 2 - 1 .. Argc
  <2>1. argv \in Seq(All)
    BY DEF IInv, TypeOK, All
  <2>2. Len(argv) = Argc /\ Argc \in Nat
    BY <2>1, LenProperties DEF Argc
  <2>3. e + 2 <= Argc
    BY <1>4
  <2>4. e + 2 \in 1 .. Argc + 1 /\ Argc \in e + 2 - 1 .. Argc
    BY <1>4, <2>2, <2>3
  <2> QED
    BY <2>1, <2>2, <2>4
<1>7. /\ AppArgv \in Seq(All) /\ Len(AppArgv) = Argc - (e + 2) + 1
      /\ \A x \in 1 .. Argc - (e + 2) + 1 : AppArgv[x] = argv[e + 2 + x - 1]
  BY <1>5, <1>6, SubSeqProperties
<1>8. /\ both \in Seq(Arguments) /\ Len(both) = Len(Files) + Len(Rest)
      /\ \A x \in 1 .. Len(Files) + Len(Rest) :
           both[x] = IF x <= Len(Files) THEN Files[x] ELSE Rest[x - Len(Files)]
  BY <1>1, <1>2, ConcatProperties, Zenon
<1> HIDE DEF both, e
<1>9. Len(Files) + Len(Rest) = 1 + (Len(cmd) - SepAt) /\ Argc - (e + 2) + 1 = 1 + (Len(cmd) - SepAt)
  BY <1>1, <1>2
<1>10. ASSUME NEW x \in 1 .. 1 + (Len(cmd) - SepAt) PROVE AppArgv[x] = both[x]
  <2>1. AppArgv[x] = argv[e + 2 + x - 1]
    BY <1>7, <1>9
  <2>2. CASE x = 1
    <3>1. both[1] = Files[1]
      BY <1>8, <1>9, <2>2
    <3>2. argv[e + 2 + 1 - 1] = Files[1]
      <4>1. 1 \in 1 .. n /\ ind + 1 - 1 = e + 2 + 1 - 1
        BY <1>1, <1>3
      <4> QED
        BY <1>1, <4>1
    <3> QED
      BY <2>1, <2>2, <3>1, <3>2
  <2>3. CASE x # 1
    <3> DEFINE y == x - 1
    <3>1. y \in 1 .. Len(Rest) /\ ~(x <= Len(Files)) /\ x - Len(Files) = y
      BY <1>2, <2>3
    <3>2. both[x] = Rest[y]
      BY <1>8, <1>9, <3>1
    <3>3. Rest[y] = cmd[SepAt + y]
      <4>1. SepAt + 1 \in 1 .. Len(cmd) + 1 /\ Len(cmd) \in SepAt + 1 - 1 .. Len(cmd)
        BY <1>2
      <4>2. \A z \in 1 .. Len(cmd) - (SepAt + 1) + 1 : SubSeq(cmd, SepAt + 1, Len(cmd))[z] = cmd[SepAt + 1 + z - 1]
        BY <1>1, <4>1, SubSeqProperties
      <4>3. y \in 1 .. Len(cmd) - (SepAt + 1) + 1 /\ SepAt + 1 + y - 1 = SepAt + y
        BY <1>2, <2>3
      <4> HIDE DEF y
      <4> QED
        BY <4>2, <4>3 DEF Rest
    <3>4. argv[e + 2 + x - 1] = cmd[SepAt + y]
      <4> DEFINE w == e + 2 + x - 1
      <4>1. w \in e + 3 .. Argc /\ w - 1 = e + x
        <5>1. x \in Nat /\ x >= 2 /\ x <= 1 + (Len(cmd) - SepAt)
          BY <1>4, <2>3
        <5> QED
          BY <1>4, <5>1
      <4>2. SepAt - 1 + x <= Len(cmd) /\ x \in Nat /\ x > 0 /\ SepAt - 1 + x = SepAt + y
        BY <1>2
      <4> HIDE DEF w
      <4>3. \A j \in e + 3 .. Argc : argv[j] = Filtered(cmd)[j - 1]
        BY <1>2 DEF Unread
      <4>4. argv[w] = Filtered(cmd)[e + x]
        BY <4>1, <4>3
      <4>5. Filtered(cmd)[e + x] = cmd[SepAt - 1 + x]
        BY <1>1, <4>2, KeptRest DEF SepAt, e
      <4> QED
        BY <4>2, <4>4, <4>5 DEF w
    <3> QED
      BY <2>1, <3>2, <3>3, <3>4
  <2> QED
    BY <2>2, <2>3
<1>11. AppArgv = [x \in 1 .. 1 + (Len(cmd) - SepAt) |-> AppArgv[x]]
  BY <1>7, <1>9, LenProperties
<1>12. both = [x \in 1 .. 1 + (Len(cmd) - SepAt) |-> both[x]]
  BY <1>8, <1>9, LenProperties
<1>13. AppArgv = both
  BY <1>10, <1>11, <1>12
<1> QED
  BY <1>13 DEF both

LEMMA RoutedHandedOn == IInv /\ Hands => HandedOnAsGiven
<1> SUFFICES ASSUME IInv, Hands, Routed, WellFormed
             PROVE  values = Given /\ SourcesAsGiven /\ AppArgsAsGiven
  BY DEF HandedOnAsGiven
<1> QED
  BY RoutedState, RoutedSources, RoutedAppArgs DEF SourcesAsGiven, AppArgsAsGiven

-----------------------------------------------------------------------------
(* The theorems *)

LEMMA StepInv == IInv /\ [Next]_vars => IInv' /\ Reads
<1> SUFFICES ASSUME IInv, [Next]_vars PROVE IInv' /\ Reads
  OBVIOUS
<1>1. CASE FilterArgument
  BY <1>1, FilterArgumentInv, FilterReads
<1>2. CASE FilterEnds
  BY <1>2, FilterEndsInv, FilterReads
<1>3. CASE NoMoreOptions
  BY <1>3, NoMoreOptionsStep
<1>4. CASE Separator
  BY <1>4, SeparatorStep
<1>5. CASE AmbiguousOption
  BY <1>5, AmbiguousOptionStep
<1>6. CASE LongOption
  BY <1>6, LongOptionStep
<1>7. CASE ShortOption
  BY <1>7, ShortOptionStep
<1>8. CASE UNCHANGED vars
  BY <1>8, StutterStep
<1> QED
  BY <1>1, <1>2, <1>3, <1>4, <1>5, <1>6, <1>7, <1>8 DEF Next, Step

\* Whatever the command line, every state of the filter, of ketopt and of the
\* option loop satisfies the invariant: in the middle of an option the parser
\* stands at that option.
THEOREM IInvHolds == Spec => []IInv
<1>1. IInv /\ [Next]_vars => IInv'
  BY StepInv
<1> QED
  BY InitInv, <1>1, PTL DEF Spec

\* ketopt stays inside argv, for any number of arguments: what it has passed
\* over are the n_args files before its position, and its moves keep argv[0].
THEOREM TypeOKHolds == Spec => []TypeOK
<1>1. IInv => TypeOK
  BY DEF IInv
<1> QED
  BY <1>1, IInvHolds, PTL

\* ketopt, which permutes argv while it reads it, implements the reader that
\* permutes nothing: each argument is read once, from left to right, each
\* option with its own value, and the files keep their order.
THEOREM ReadsInOrderHolds == Spec => ReadsInOrder
<1>1. Init => Reader!Init
  BY DEF Init, Reader!Init, Stage, Todo, Passed
<1>2. IInv /\ [Next]_vars => [Reader!Next]_(Reader!vars)
  BY StepInv DEF Reads
<1> QED
  BY <1>1, <1>2, IInvHolds, PTL DEF Spec, ReadsInOrder, Reader!Spec

\* At every position the filter and the parser have dealt with what stands
\* before it in the command line, as the manual reads it, and with nothing else.
THEOREM HandsHolds == Spec => []Hands
<1>1. IInv /\ Hands /\ [Next]_vars => Hands'
  BY HandsStep
<1> QED
  BY HandsInit, IInvHolds, <1>1, PTL DEF Spec

\* A well-formed command line of any length is handed on as it was written:
\* options with their values, sources in their order, the arguments after "--".
THEOREM HandedOnAsGivenHolds == Spec => []HandedOnAsGiven
BY RoutedHandedOn, IInvHolds, HandsHolds, PTL

\* The route parse_cli_route takes is the one the options ask for, wherever
\* among the arguments they stand.
THEOREM RouteFollowsOptionsHolds == Spec => []RouteFollowsOptions
BY RoutedFollows, IInvHolds, HandsHolds, PTL
=============================================================================
