--------------------------- MODULE SessionProofs ---------------------------
(***************************************************************************)
(* For any files, libraries and exit values: the set-up happens once, what *)
(* is written or run is made of everything the command line names and is   *)
(* linked with the libraries it names, nothing is after a refusal, and the *)
(* exit status tells which.                                                *)
(***************************************************************************)
EXTENDS Session, SequenceTheorems, FiniteSetTheorems, WellFoundedInduction, TLAPS

Mode == CASE request.route = "object" -> OBJ
          [] request.route = "build" -> EXE
          [] OTHER -> MEM

Inputs == Files \cup {Stdin}

\* The fields of a TinyCC state and of a CJITState; sequences are left open.
TinyCCs(x) ==
  [type : 0 .. 3, inits : Nat, errors : BOOLEAN, units : {x.units}, libs : {x.libs}]
States(c) ==
  [tcc_output : 0 .. 3, done_setup : BOOLEAN, done_exec : BOOLEAN, libs : {c.libs},
   libpaths : {c.libpaths}, reallibs : {c.reallibs}, TCC : TinyCCs(c.TCC)]
Shape(c) == c \in States(c)

\* The search path: what -L gave, and behind it what the set-up adds.
Before == {<<>>, <<Given>>}
Behind == {Setup, Tail(Setup)}
Searches(c) ==
  /\ ~c.done_setup => c.libpaths \in Before
  /\ c.done_setup => \E a \in Before, b \in Behind : c.libpaths = a \o b

\* The directories there are.
Dirs == {"given", "pwd", "system"}

\* The set-up of a state, and why one that has failed after the output was
\* started cannot be completed later: TinyCC keeps the error, or the CFLAGS
\* are refused again.
Started(c) ==
  /\ c.done_setup => c.TCC.type = Mode /\ c.TCC.inits = 1 /\ request.cflags # "bad"
  /\ ~c.done_setup => \/ c.TCC.type = 0 /\ c.TCC.inits = 0
                      \/ /\ c.TCC.type = Mode /\ c.TCC.inits \in Nat
                         /\ (Mode # OBJ /\ c.TCC.errors) \/ request.cflags = "bad"

Ready(c) ==
  /\ Shape(c) /\ c.tcc_output = Mode
  /\ Searches(c)
  /\ Started(c)

\* From c to d no library was asked for, found or loaded, and a search path
\* that was complete has stayed.
SameLibs(c, d) ==
  /\ d.libs = c.libs /\ d.reallibs = c.reallibs /\ d.TCC.libs = c.TCC.libs
  /\ c.done_setup => d.done_setup /\ d.libpaths = c.libpaths

\* The files that have been given to TinyCC before index n were accepted.
Accepted(n) ==
  \A k \in 1 .. n - 1 :
    /\ ToAdd[k] \notin Broken
    /\ ToAdd[k] = Stdin => request.stdin # "nonsense"
    /\ ToAdd[k] = Stdin /\ request.route = "execute" =>
         ~stdin /\ \A j \in 1 .. n - 1 : ToAdd[j] = Stdin => j = k

\* What TinyCC has been given while files are being added.
Progress ==
  /\ cjit.TCC.units = SubSeq(ToAdd, 1, next - 1)
  /\ next > 1 => cjit.done_setup
  /\ request.route \in {"object", "status"} \/ phase = "status" => next = 1
  /\ Accepted(next)
  /\ ~cjit.done_exec
  /\ file = Nothing /\ ran = Nothing /\ exit = -1

\* The requests after which nothing may be written or run.
Refused ==
  \/ request.cflags = "bad"
  \/ ToSet(ToAdd) \cap Broken # {}
  \/ request.route = "execute" /\ Cardinality({k \in DOMAIN ToAdd : ToAdd[k] = Stdin}) > 1
  \/ Stdin \in ToSet(ToAdd) /\ request.stdin = "nonsense"

IInv ==
  /\ request \in Requests
  /\ phase \in {"status", "sources", "done"}
  /\ phase = "sources" => request.route # "status"
  /\ next \in 1 .. Len(ToAdd) + 1
  /\ stdin \in BOOLEAN
  /\ exit \in -1 .. 255 /\ (exit # -1 <=> phase = "done")
  /\ Ready(cjit)
  /\ phase # "done" => Progress
  /\ OutcomeIsWhole /\ ExitTells /\ NothingAfterRefusal

-----------------------------------------------------------------------------
(* Operators *)

\* A set of numbers that is not empty has a smallest one.
LEMMA NatLeast ==
  ASSUME NEW T, T \subseteq Nat, T # {}
  PROVE  \E m \in T : \A k \in T : m <= k
<1> DEFINE R == {p \in Nat \X Nat : p[1] < p[2]}
<1>1. IsWellFoundedOn(R, Nat)
  BY NatLessThanWellFounded DEF OpToRel
<1> HIDE DEF R
<1>2. PICK m \in T : \A y \in T : ~(<<y, m>> \in R)
  BY <1>1, WFMin
<1>3. ASSUME NEW k \in T PROVE m <= k
  <2>1. k \in Nat /\ m \in Nat /\ ~(<<k, m>> \in R)
    BY <1>2
  <2> QED
    BY <2>1 DEF R
<1> QED
  BY <1>3

LEMMA SetInduction ==
  ASSUME NEW P, 0 \in P, \A n \in Nat : n \in P => n + 1 \in P
  PROVE  \A n \in Nat : n \in P
<1> SUFFICES ASSUME NEW n \in Nat, n \notin P PROVE FALSE
  OBVIOUS
<1> DEFINE T == {k \in Nat : k \notin P}
<1>1. PICK m \in T : \A k \in T : m <= k
  BY NatLeast
<1>2. m # 0 /\ m - 1 \in Nat /\ m - 1 \in P
  BY <1>1
<1> QED
  BY <1>1, <1>2

\* The recursive equation of Among, and that it has a solution.
Kept(s, S, f, k) ==
  IF k = 0 THEN <<>>
  ELSE IF s[k] \in S THEN Append(f[k - 1], s[k]) ELSE f[k - 1]

LEMMA KeptExists ==
  ASSUME NEW s, NEW S, NEW n \in Nat
  PROVE  \E f : f = [k \in 0 .. n |-> Kept(s, S, f, k)]
<1> DEFINE P == {m \in Nat : \E f : f = [k \in 0 .. m |-> Kept(s, S, f, k)]}
<1>1. 0 \in P
  <2> DEFINE f == [k \in 0 .. 0 |-> <<>>]
  <2>1. f = [k \in 0 .. 0 |-> Kept(s, S, f, k)]
    BY DEF Kept
  <2> QED
    BY <2>1
<1>2. ASSUME NEW m \in Nat, m \in P PROVE m + 1 \in P
  <2>1. PICK f : f = [k \in 0 .. m |-> Kept(s, S, f, k)]
    BY <1>2
  <2> DEFINE g == [k \in 0 .. m + 1 |-> IF k <= m THEN f[k] ELSE Kept(s, S, f, k)]
  <2>2. ASSUME NEW k \in 0 .. m + 1 PROVE g[k] = Kept(s, S, g, k)
    <3>1. k # 0 => k - 1 \in 0 .. m /\ g[k - 1] = f[k - 1]
      OBVIOUS
    <3>2. Kept(s, S, g, k) = Kept(s, S, f, k)
      BY <3>1 DEF Kept
    <3>3. CASE k <= m
      <4>1. f[k] = Kept(s, S, f, k)
        BY <2>1, <3>3
      <4> QED
        BY <3>2, <3>3, <4>1
    <3> QED
      BY <3>2, <3>3
  <2> HIDE DEF g
  <2>3. g = [k \in 0 .. m + 1 |-> g[k]]
    BY DEF g
  <2>4. g = [k \in 0 .. m + 1 |-> Kept(s, S, g, k)]
    BY <2>2, <2>3
  <2> QED
    BY <2>4
<1> HIDE DEF P
<1>3. n \in P
  BY <1>1, <1>2, SetInduction
<1> QED
  BY <1>3 DEF P

\* What Among keeps, and which element comes first.
LEMMA AmongProperties ==
  ASSUME NEW T, NEW s \in Seq(T), NEW S
  PROVE  /\ Among(s, S) \in Seq(T) /\ ToSet(Among(s, S)) = ToSet(s) \cap S
         /\ Among(s, S) # <<>> =>
              \E j \in DOMAIN s : /\ Head(Among(s, S)) = s[j] /\ s[j] \in S
                                  /\ \A k \in 1 .. j - 1 : s[k] \notin S
<1>1. Len(s) \in Nat /\ DOMAIN s = 1 .. Len(s) /\ \A j \in 1 .. Len(s) : s[j] \in T
  BY LenProperties, ElementOfSeq
<1> DEFINE f == CHOOSE g : g = [k \in 0 .. Len(s) |-> Kept(s, S, g, k)]
<1>2. f = [k \in 0 .. Len(s) |-> Kept(s, S, f, k)]
  BY <1>1, KeptExists
<1>3. Among(s, S) = f[Len(s)]
  BY DEF Among, Kept
<1> HIDE DEF f
<1> DEFINE Good(m) ==
             /\ f[m] \in Seq(T) /\ ToSet(f[m]) = {s[j] : j \in 1 .. m} \cap S
             /\ f[m] # <<>> => \E j \in 1 .. m : /\ f[m][1] = s[j] /\ s[j] \in S
                                                 /\ \A k \in 1 .. j - 1 : s[k] \notin S
           P == {m \in Nat : m <= Len(s) => Good(m)}
<1>4. 0 \in P
  <2>1. f[0] = <<>>
    BY <1>1, <1>2 DEF Kept
  <2>2. <<>> \in Seq(T) /\ ToSet(<<>>) = {} /\ {s[j] : j \in 1 .. 0} = {}
    BY DEF ToSet
  <2>3. Good(0)
    BY <2>1, <2>2
  <2> QED
    BY <2>3
<1>5. ASSUME NEW m \in Nat, m \in P PROVE m + 1 \in P
  <2> SUFFICES ASSUME m + 1 <= Len(s) PROVE Good(m + 1)
    OBVIOUS
  <2>1. Good(m) /\ m + 1 \in 1 .. Len(s) /\ s[m + 1] \in T
    BY <1>1, <1>5
  <2>2. f[m + 1] = IF s[m + 1] \in S THEN Append(f[m], s[m + 1]) ELSE f[m]
    <3>1. m + 1 \in 0 .. Len(s) /\ m + 1 # 0 /\ m + 1 - 1 = m
      BY <1>1, <2>1
    <3>2. f[m + 1] = Kept(s, S, f, m + 1)
      BY <1>2, <3>1
    <3> HIDE DEF Good, P
    <3> QED
      BY <3>1, <3>2 DEF Kept
  <2> DEFINE v == f[m]
  <2>3. v \in Seq(T) /\ Len(v) \in Nat /\ DOMAIN v = 1 .. Len(v) /\ (v = <<>> <=> Len(v) = 0)
    BY <2>1, LenProperties, EmptySeq
  <2>4. {s[j] : j \in 1 .. m + 1} = {s[j] : j \in 1 .. m} \cup {s[m + 1]}
    OBVIOUS
  <2> HIDE DEF v
  <2>5. CASE s[m + 1] \in S
    <3> DEFINE w == Append(v, s[m + 1])
    <3>1. /\ w \in Seq(T) /\ Len(w) = Len(v) + 1 /\ DOMAIN w = 1 .. Len(v) + 1 /\ w # <<>>
          /\ w[Len(v) + 1] = s[m + 1] /\ \A j \in 1 .. Len(v) : w[j] = v[j]
      BY <2>1, <2>3, AppendProperties, LenProperties, EmptySeq
    <3> HIDE DEF w
    <3>2. ToSet(w) = ToSet(v) \cup {s[m + 1]}
      BY <2>3, <3>1 DEF ToSet
    <3>3. ToSet(w) = {s[j] : j \in 1 .. m + 1} \cap S
      BY <2>1, <2>4, <2>5, <3>2 DEF v
    <3>4. \E j \in 1 .. m + 1 : w[1] = s[j] /\ s[j] \in S /\ \A k \in 1 .. j - 1 : s[k] \notin S
      <4>1. CASE v = <<>>
        <5>1. w[1] = s[m + 1]
          BY <2>3, <3>1, <4>1
        <5>2. ToSet(v) = {}
          BY <2>3, <4>1 DEF ToSet
        <5>3. \A k \in 1 .. m : s[k] \notin S
          BY <2>1, <5>2 DEF v
        <5> QED
          BY <2>5, <5>1, <5>3
      <4>2. CASE v # <<>>
        <5>1. PICK j \in 1 .. m : v[1] = s[j] /\ s[j] \in S /\ \A k \in 1 .. j - 1 : s[k] \notin S
          BY <2>1, <4>2 DEF v
        <5>2. w[1] = v[1]
          BY <2>3, <3>1, <4>2
        <5> QED
          BY <5>1, <5>2
      <4> QED
        BY <4>1, <4>2
    <3>5. f[m + 1] = w
      BY <2>2, <2>5 DEF v, w
    <3> QED
      BY <3>1, <3>3, <3>4, <3>5
  <2>6. CASE s[m + 1] \notin S
    <3>1. f[m + 1] = v
      BY <2>2, <2>6 DEF v
    <3>2. ToSet(v) = {s[j] : j \in 1 .. m + 1} \cap S
      BY <2>1, <2>4, <2>6 DEF v
    <3> QED
      BY <2>1, <3>1, <3>2 DEF v
  <2> QED
    BY <2>5, <2>6
<1> HIDE DEF P
<1>6. Len(s) \in P
  BY <1>1, <1>4, <1>5, SetInduction
<1>7. Good(Len(s))
  BY <1>1, <1>6 DEF P
<1>8. Among(s, S) # <<>> => Head(Among(s, S)) = Among(s, S)[1]
  BY <1>3, <1>7
<1>9. ToSet(s) = {s[j] : j \in 1 .. Len(s)}
  BY <1>1 DEF ToSet
<1> QED
  BY <1>1, <1>3, <1>7, <1>8, <1>9

-----------------------------------------------------------------------------
LEMMA RequestType ==
  ASSUME request \in Requests
  PROVE  /\ request.route \in Routes /\ request.cflags \in {"none", "good", "bad"}
         /\ request.sources \in Seq(Inputs) /\ Len(request.sources) \in Nat
         /\ ToAdd \in Seq(Inputs) /\ Len(ToAdd) \in Nat
         /\ request.route = "status" => request.sources = <<>> /\ Prints(request)
<1>1. /\ request.route \in Routes /\ request.cflags \in {"none", "good", "bad"}
      /\ request.route = "status" <=> request.status /\ request.sources = <<>>
      /\ request.sources \in BoundedSeq(Inputs, MaxFiles)
  BY DEF Requests, Inputs
<1>2. request.sources \in Seq(Inputs)
  BY <1>1, SeqDef, SessionAssumption DEF BoundedSeq, SeqOf, SessionAssumption
<1>3. <<Stdin>> \in Seq(Inputs)
  BY DEF Inputs
<1> QED
  BY <1>1, <1>2, <1>3, LenProperties DEF ToAdd, Prints

LEMMA ModeType == Mode \in {MEM, EXE, OBJ} /\ Mode # 0
BY DEF Mode, MEM, EXE, OBJ

\* TinyCC's state keeps its type, one field after the other.
LEMMA TypedTCC ==
  ASSUME NEW x, x \in TinyCCs(x), NEW m \in 0 .. 3, NEW n \in Nat, NEW e \in BOOLEAN
  PROVE  [[[x EXCEPT !.type = m] EXCEPT !.inits = n] EXCEPT !.errors = e] \in TinyCCs(x)
<1> DEFINE y == [x EXCEPT !.type = m]
           z == [y EXCEPT !.inits = n]
<1>1. y \in TinyCCs(x)
  BY DEF TinyCCs
<1> HIDE DEF y
<1>2. z \in TinyCCs(x)
  BY <1>1 DEF TinyCCs
<1> HIDE DEF z
<1>3. [z EXCEPT !.errors = e] \in TinyCCs(x)
  BY <1>2 DEF TinyCCs
<1> QED
  BY <1>3 DEF y, z

\* What a call of tcc_set_output_type leaves.
LEMMA TypedState ==
  ASSUME NEW c, Ready(c), ~c.done_setup, NEW missing \in BOOLEAN
  PROVE  LET t == Typed(c, missing) IN
         /\ Shape(t) /\ t.tcc_output = Mode /\ t.done_setup = FALSE
         /\ t.done_exec = c.done_exec /\ t.libpaths = c.libpaths
         /\ t.TCC.units = c.TCC.units
         /\ t.TCC.type = Mode /\ t.TCC.inits = c.TCC.inits + 1
         /\ t.TCC.errors \in BOOLEAN /\ (c.TCC.errors => t.TCC.errors)
         /\ SameLibs(c, t)
<1> DEFINE t == Typed(c, missing)
           e == missing /\ c.tcc_output = EXE
<1> USE DEF Ready, Shape, States
<1>1. /\ t.tcc_output = c.tcc_output /\ t.done_setup = c.done_setup
      /\ t.done_exec = c.done_exec /\ t.libs = c.libs
      /\ t.libpaths = c.libpaths /\ t.reallibs = c.reallibs
  BY DEF Typed
<1>2. /\ t.TCC.type = c.tcc_output /\ t.TCC.inits = c.TCC.inits + 1
      /\ t.TCC.units = c.TCC.units /\ t.TCC.libs = c.TCC.libs
      /\ t.TCC.errors = (c.TCC.errors \/ e)
  BY DEF Typed, TinyCCs
<1>3. t.TCC \in TinyCCs(c.TCC)
  <2> DEFINE n == c.TCC.inits + 1
             f == c.TCC.errors \/ e
  <2>1. t.TCC = [[[c.TCC EXCEPT !.type = c.tcc_output] EXCEPT !.inits = n] EXCEPT !.errors = f]
    BY DEF Typed, TinyCCs
  <2>2. c.TCC \in TinyCCs(c.TCC) /\ c.tcc_output \in 0 .. 3
    OBVIOUS
  <2>3. f \in BOOLEAN
    BY Zenon
  <2>4. n \in Nat
    BY <2>2 DEF TinyCCs
  <2> HIDE DEF n, f, t
  <2>5. [[[c.TCC EXCEPT !.type = c.tcc_output] EXCEPT !.inits = n] EXCEPT !.errors = f] \in TinyCCs(c.TCC)
    BY <2>2, <2>3, <2>4, TypedTCC
  <2> QED
    BY <2>1, <2>5
<1>4. Shape(t)
  <2>1. t \in [tcc_output : 0 .. 3, done_setup : BOOLEAN, done_exec : BOOLEAN, libs : {c.libs},
               libpaths : {c.libpaths}, reallibs : {c.reallibs}, TCC : TinyCCs(c.TCC)]
    BY <1>3 DEF Typed
  <2>2. TinyCCs(t.TCC) = TinyCCs(c.TCC)
    BY <1>2 DEF TinyCCs
  <2> HIDE DEF t
  <2> QED
    BY <1>1, <2>1, <2>2
<1>5. c.TCC.errors \in BOOLEAN /\ t.TCC.errors \in BOOLEAN
  BY <1>3 DEF TinyCCs
<1> HIDE DEF t
<1> QED
  BY <1>1, <1>2, <1>4, <1>5 DEF t, SameLibs

Prepared(c, p) ==
  /\ p = Outcome(p.ok, p.cjit) /\ p.ok \in BOOLEAN
  /\ Ready(p.cjit) /\ (p.ok <=> p.cjit.done_setup)
  /\ p.cjit.TCC.units = c.TCC.units /\ p.cjit.done_exec = c.done_exec
  /\ SameLibs(c, p.cjit)

\* The set-up ends with the set-up done, or can be tried again.
LEMMA PrepareState ==
  ASSUME request \in Requests, NEW c, Ready(c), NEW p \in Prepare(c)
  PROVE  Prepared(c, p)
<1>1. CASE c.done_setup
  <2>1. c.done_setup = TRUE
    BY <1>1 DEF Ready, Shape, States
  <2>2. p = [ok |-> TRUE, cjit |-> c]
    BY <1>1 DEF Prepare, Outcome
  <2>3. p.ok = TRUE /\ p.cjit = c
    BY <2>2
  <2> QED
    BY <1>1, <2>1, <2>2, <2>3 DEF Prepared, Outcome, SameLibs
<1>2. CASE p = Outcome(FALSE, c) /\ ~c.done_setup
  BY <1>2 DEF Outcome, Ready, Prepared, SameLibs
<1>3. CASE ~c.done_setup /\ p \in Configure(c)
  <2>1. PICK missing \in BOOLEAN :
          LET t == Typed(c, missing) IN
          p \in IF t.TCC.errors /\ t.TCC.type # OBJ THEN {Outcome(FALSE, t)}
                ELSE IF request.cflags = "bad" THEN {Outcome(FALSE, [t EXCEPT !.TCC.errors = TRUE])}
                ELSE {Outcome(TRUE, d) : d \in SetUp(t)}
    BY <1>3 DEF Configure
  <2> DEFINE t == Typed(c, missing)
  <2>2. /\ Shape(t) /\ t.tcc_output = Mode /\ t.done_setup = FALSE
        /\ t.done_exec = c.done_exec /\ t.libpaths = c.libpaths
        /\ t.TCC.units = c.TCC.units
        /\ t.TCC.type = Mode /\ t.TCC.inits = c.TCC.inits + 1
        /\ t.TCC.errors \in BOOLEAN /\ (c.TCC.errors => t.TCC.errors)
        /\ SameLibs(c, t)
    BY <1>3, TypedState
  <2> HIDE DEF t
  <2>3. CASE t.TCC.errors /\ t.TCC.type # OBJ /\ p = Outcome(FALSE, t)
    BY <1>3, <2>2, <2>3, ModeType DEF Outcome, Ready, Started, Searches, Prepared
  <2>4. CASE request.cflags = "bad" /\ p = Outcome(FALSE, [t EXCEPT !.TCC.errors = TRUE])
    <3> DEFINE u == [t EXCEPT !.TCC.errors = TRUE]
    <3>1. /\ Shape(u) /\ u.tcc_output = Mode /\ u.done_setup = FALSE
          /\ u.done_exec = c.done_exec /\ u.libpaths = c.libpaths
          /\ u.TCC.units = c.TCC.units /\ u.TCC.type = Mode /\ u.TCC.inits = c.TCC.inits + 1
          /\ u.TCC.errors = TRUE /\ SameLibs(c, u)
      BY <1>3, <2>2 DEF Shape, States, TinyCCs, SameLibs
    <3>2. p = Outcome(FALSE, u)
      BY <2>4
    <3> HIDE DEF u
    <3>3. Searches(u) /\ Started(u)
      BY <1>3, <2>4, <3>1 DEF Ready, Searches, Started
    <3>4. Ready(u)
      BY <3>1, <3>3 DEF Ready
    <3>5. p.ok = FALSE /\ p.cjit = u /\ p = Outcome(p.ok, p.cjit)
      BY <3>2 DEF Outcome
    <3> QED
      BY <1>3, <3>1, <3>4, <3>5 DEF Prepared
  <2>5. ASSUME request.cflags # "bad", ~(t.TCC.errors /\ t.TCC.type # OBJ),
               NEW d \in SetUp(t), p = Outcome(TRUE, d)
        PROVE  Prepared(c, p)
    <3>1. PICK dirs \in {Setup, Tail(Setup)} :
            d = [t EXCEPT !.libpaths = @ \o dirs, !.done_setup = TRUE]
      BY <2>5 DEF SetUp
    <3>2. /\ d.tcc_output = Mode /\ d.done_setup = TRUE /\ d.done_exec = c.done_exec
          /\ d.libpaths = c.libpaths \o dirs /\ d.TCC = t.TCC
          /\ Shape(d) /\ SameLibs(c, d)
      BY <1>3, <2>2, <3>1 DEF Shape, States, SameLibs
    <3>3. Searches(d)
      <4>1. c.libpaths \in Before /\ dirs \in Behind
        BY <1>3, <3>1 DEF Ready, Searches, Behind
      <4> QED
        BY <3>2, <4>1 DEF Searches
    <3>4. ~(Mode # OBJ /\ c.TCC.errors) /\ c.TCC.inits = 0
      BY <1>3, <2>2, <2>5 DEF Ready, Started
    <3>5. Started(d)
      BY <2>2, <2>5, <3>2, <3>4 DEF Started
    <3> QED
      BY <1>3, <2>2, <2>5, <3>2, <3>3, <3>5 DEF Outcome, Ready, Prepared
  <2> QED
    BY <2>1, <2>3, <2>4, <2>5 DEF t
<1> QED
  BY <1>1, <1>2, <1>3 DEF Prepare

\* A file that is added was accepted, on a set-up that was done.
Added(c, f, p) ==
  /\ p.ok \in BOOLEAN
  /\ Ready(p.cjit) /\ p.cjit.done_exec = c.done_exec
  /\ SameLibs(c, p.cjit)
  /\ p.ok => /\ p.cjit.done_setup
             /\ p.cjit.TCC.units = Append(c.TCC.units, f)
             /\ f \notin Broken
             /\ ~(f = Stdin /\ request.stdin = "nonsense")

LEMMA CompileState ==
  ASSUME NEW c, Ready(c), c.done_setup, NEW f, NEW p \in Compile(c, f)
  PROVE  Added(c, f, p)
<1>1. c.done_setup = TRUE /\ c.TCC \in TinyCCs(c.TCC)
  BY DEF Ready, Shape, States
<1>2. CASE p = Outcome(FALSE, c)
  <2>1. p.ok = FALSE /\ p.cjit = c
    BY <1>2 DEF Outcome
  <2> QED
    BY <2>1 DEF Added, SameLibs
<1>3. CASE p = Outcome(FALSE, [c EXCEPT !.TCC.errors = TRUE])
  <2> DEFINE d == [c EXCEPT !.TCC.errors = TRUE]
  <2>1. /\ Shape(d) /\ d.tcc_output = c.tcc_output /\ d.done_setup = TRUE
        /\ d.done_exec = c.done_exec /\ d.libpaths = c.libpaths
        /\ d.TCC.type = c.TCC.type /\ d.TCC.inits = c.TCC.inits /\ SameLibs(c, d)
    BY <1>1 DEF Ready, Shape, States, TinyCCs, SameLibs
  <2>2. p.ok = FALSE /\ p.cjit = d
    BY <1>3 DEF Outcome
  <2> HIDE DEF d
  <2>3. Ready(d)
    BY <2>1 DEF Ready, Searches, Started
  <2> QED
    BY <2>1, <2>2, <2>3 DEF Added
<1>4. ASSUME p = Outcome(TRUE, [c EXCEPT !.TCC.units = Append(@, f)]),
             f \notin Broken, ~(f = Stdin /\ request.stdin = "nonsense")
      PROVE  Added(c, f, p)
  <2> DEFINE d == [c EXCEPT !.TCC.units = Append(@, f)]
  <2>1. /\ Shape(d) /\ d.tcc_output = c.tcc_output /\ d.done_setup = TRUE
        /\ d.done_exec = c.done_exec /\ d.libpaths = c.libpaths
        /\ d.TCC.type = c.TCC.type /\ d.TCC.inits = c.TCC.inits
        /\ d.TCC.units = Append(c.TCC.units, f) /\ SameLibs(c, d)
    BY <1>1 DEF Ready, Shape, States, TinyCCs, SameLibs
  <2>2. p.ok = TRUE /\ p.cjit = d
    BY <1>4 DEF Outcome
  <2> HIDE DEF d
  <2>3. Ready(d)
    BY <2>1 DEF Ready, Searches, Started
  <2> QED
    BY <1>4, <2>1, <2>2, <2>3 DEF Added
<1> QED
  BY <1>2, <1>3, <1>4 DEF Compile

LEMMA AddState ==
  ASSUME request \in Requests, NEW c, Ready(c), NEW f, NEW p \in Add(c, f)
  PROVE  Added(c, f, p)
<1>1. PICK q \in Prepare(c) : p \in (IF q.ok THEN Compile(q.cjit, f) ELSE {q})
  BY DEF Add
<1>2. Prepared(c, q)
  BY PrepareState
<1>3. CASE q.ok
  <2>1. Ready(q.cjit) /\ q.cjit.done_setup
    BY <1>2, <1>3 DEF Prepared
  <2>2. Added(q.cjit, f, p)
    BY <1>1, <1>3, <2>1, CompileState
  <2> QED
    BY <1>2, <2>2 DEF Added, Prepared, SameLibs
<1>4. CASE ~q.ok
  BY <1>1, <1>2, <1>4 DEF Added, Prepared
<1> QED
  BY <1>3, <1>4

\* Resolving and loading libraries touches nothing else.
LEMMA ResolveState ==
  ASSUME NEW c, Ready(c)
  PROVE  /\ Ready(Resolve(c)) /\ Resolve(c).TCC = c.TCC
         /\ Resolve(c).done_setup = c.done_setup /\ Resolve(c).done_exec = c.done_exec
<1> DEFINE r == Resolve(c)
<1>1. /\ Shape(r) /\ r.tcc_output = c.tcc_output /\ r.done_setup = c.done_setup
      /\ r.done_exec = c.done_exec /\ r.libpaths = c.libpaths /\ r.TCC = c.TCC
  BY DEF Resolve, Ready, Shape, States
<1> HIDE DEF r
<1>2. Ready(r)
  BY <1>1 DEF Ready, Searches, Started
<1> QED
  BY <1>1, <1>2 DEF r

LEMMA LoadState ==
  ASSUME NEW c, Ready(c)
  PROVE  LET r == LoadLibraries(c) IN
         /\ Ready(r) /\ r.done_setup = c.done_setup /\ r.done_exec = c.done_exec
         /\ r.TCC.type = c.TCC.type /\ r.TCC.inits = c.TCC.inits /\ r.TCC.units = c.TCC.units
<1> DEFINE q == Resolve(c)
           r == LoadLibraries(c)
<1>1. /\ Ready(q) /\ q.TCC = c.TCC /\ q.done_setup = c.done_setup /\ q.done_exec = c.done_exec
  BY ResolveState
<1>2. r = [q EXCEPT !.TCC.libs = @ \o Among(q.reallibs, (DOMAIN Holds) \X Loadable)]
  BY DEF LoadLibraries
<1> HIDE DEF q, r
<1>3. /\ Shape(r) /\ r.tcc_output = q.tcc_output /\ r.done_setup = q.done_setup
      /\ r.done_exec = q.done_exec /\ r.libpaths = q.libpaths
      /\ r.TCC.type = q.TCC.type /\ r.TCC.inits = q.TCC.inits
      /\ r.TCC.units = q.TCC.units /\ r.TCC.errors = q.TCC.errors
  BY <1>1, <1>2 DEF Ready, Shape, States, TinyCCs
<1>4. Ready(r)
  BY <1>1, <1>3 DEF Ready, Searches, Started
<1> QED
  BY <1>1, <1>3, <1>4 DEF r

-----------------------------------------------------------------------------
LEMMA NothingYet == file = Nothing /\ ran = Nothing /\ phase # "done"
                      => OutcomeIsWhole /\ ExitTells /\ NothingAfterRefusal
BY DEF OutcomeIsWhole, ExitTells, NothingAfterRefusal

LEMMA InitInv == Init => IInv
<1> SUFFICES ASSUME Init PROVE IInv
  OBVIOUS
<1>1. /\ request \in Requests /\ next = 1 /\ stdin = TRUE
      /\ file = Nothing /\ ran = Nothing /\ exit = -1
      /\ phase = IF Prints(request) THEN "status" ELSE "sources"
  BY DEF Init
<1>2. Len(ToAdd) \in Nat /\ ToAdd \in Seq(Inputs) /\ (request.route = "status" => Prints(request))
  BY <1>1, RequestType
<1>3. Ready(cjit) /\ ~cjit.done_exec /\ cjit.TCC.units = <<>> /\ ~cjit.done_setup
  <2>1. PICK dirs \in Before, refused \in BOOLEAN :
          cjit = [tcc_output |-> Mode, done_setup |-> FALSE, done_exec |-> FALSE,
                  libs |-> request.libs, libpaths |-> dirs, reallibs |-> <<>>,
                  TCC |-> [NewTCC EXCEPT !.errors = refused]]
    BY DEF Init, Before, Mode
  <2>2. [NewTCC EXCEPT !.errors = refused] =
          [type |-> 0, inits |-> 0, errors |-> refused, units |-> <<>>, libs |-> <<>>]
    BY DEF NewTCC
  <2>3. Shape(cjit)
    BY <2>1, <2>2, ModeType DEF Shape, States, TinyCCs, MEM, EXE, OBJ
  <2> QED
    BY <2>1, <2>2, <2>3 DEF Ready, Searches, Started
<1>4. Progress
  <2>1. SubSeq(ToAdd, 1, next - 1) = <<>>
    BY <1>1, <1>2, SubSeqEmpty
  <2> QED
    BY <1>1, <1>2, <1>3, <2>1 DEF Progress, Accepted
<1>5. phase \in {"status", "sources"} /\ (phase = "sources" => request.route # "status")
  BY <1>1, <1>2
<1> QED
  BY <1>1, <1>2, <1>3, <1>4, <1>5, NothingYet DEF IInv

\* The status leaves the files to be added.
LEMMA PrintStatusInv == IInv /\ PrintStatus => IInv'
<1> SUFFICES ASSUME IInv, PrintStatus PROVE IInv'
  OBVIOUS
<1>1. PICK p \in Prepare(cjit) : cjit' = IF p.ok THEN Resolve(p.cjit) ELSE p.cjit
  BY DEF PrintStatus
<1>2. Prepared(cjit, p)
  BY PrepareState DEF IInv
<1>3. Ready(p.cjit) /\ p.cjit.TCC.units = cjit.TCC.units /\ p.cjit.done_exec = cjit.done_exec
  BY <1>2 DEF Prepared
<1>4. Ready(cjit') /\ cjit'.TCC.units = cjit.TCC.units /\ cjit'.done_exec = cjit.done_exec
  BY <1>1, <1>3, ResolveState
<1>5. /\ phase = "status" /\ phase' \in {"sources", "done"} /\ next = 1 /\ Progress
      /\ UNCHANGED <<request, next, stdin, file, ran>>
      /\ file = Nothing /\ ran = Nothing /\ exit = -1
      /\ (phase' = "sources" => request.route # "status" /\ exit' = exit)
      /\ (phase' = "done" => request.route = "status" /\ exit' = 0)
  BY DEF PrintStatus, Exit, IInv, Progress
<1> HIDE DEF PrintStatus
<1>6. ToAdd' = ToAdd
  BY <1>5 DEF ToAdd
<1>7. Ready(cjit)'
  BY <1>4, <1>5 DEF Ready, Started, Searches, Mode, Shape, States, TinyCCs
<1>8. phase' # "done" => Progress'
  BY <1>4, <1>5, <1>6 DEF Progress, Accepted
<1>9. (OutcomeIsWhole /\ ExitTells /\ NothingAfterRefusal)'
  BY <1>5 DEF OutcomeIsWhole, ExitTells, NothingAfterRefusal
<1> QED
  BY <1>5, <1>6, <1>7, <1>8, <1>9 DEF IInv

\* One more file, by either action: it was accepted, or the run is over.
LEMMA AddStep ==
  ASSUME IInv, phase = "sources", next <= Len(ToAdd), request.route \in {"build", "execute"},
         NEW p \in Add(cjit, ToAdd[next]), cjit' = p.cjit,
         IF p.ok THEN next' = next + 1 /\ UNCHANGED <<phase, exit>>
                 ELSE Exit(1) /\ UNCHANGED next,
         stdin' \in BOOLEAN, stdin' => stdin,
         ToAdd[next] = Stdin /\ request.route = "execute" => stdin /\ ~stdin',
         UNCHANGED <<request, file, ran>>
  PROVE  IInv'
<1>1. Added(cjit, ToAdd[next], p)
  BY AddState DEF IInv
<1>2. /\ request \in Requests /\ Progress /\ next \in 1 .. Len(ToAdd) + 1
      /\ Len(ToAdd) \in Nat /\ ToAdd \in Seq(Inputs)
  BY RequestType DEF IInv
<1>3. ToAdd' = ToAdd /\ file' = Nothing /\ ran' = Nothing
  BY <1>2 DEF ToAdd, Progress
<1>4. Ready(cjit)'
  <2>1. Ready(cjit')
    BY <1>1 DEF Added
  <2> QED
    BY <2>1 DEF Ready, Started, Searches, Mode, Shape, States, TinyCCs
<1>5. CASE p.ok
  <2>1. next' = next + 1 /\ phase' = "sources" /\ exit' = -1
    BY <1>2, <1>5 DEF Progress
  <2>2. cjit'.TCC.units = SubSeq(ToAdd, 1, next)
    <3>1. cjit'.TCC.units = Append(SubSeq(ToAdd, 1, next - 1), ToAdd[next])
      BY <1>1, <1>2, <1>5 DEF Added, Progress
    <3>2. SubSeq(ToAdd, 1, next) = SubSeq(ToAdd, 1, next - 1) \o <<ToAdd[next]>>
      BY <1>2, SubSeqRecursiveSecond
    <3>3. ToAdd[next] \in Inputs
      BY <1>2
    <3>4. SubSeq(ToAdd, 1, next - 1) \in Seq(Inputs)
      BY <1>2, SubSeqProperties
    <3> QED
      BY <3>1, <3>2, <3>3, <3>4, AppendIsConcat
  <2>3. Accepted(next)' 
    <3> SUFFICES ASSUME NEW k \in 1 .. next
                 PROVE  /\ ToAdd[k] \notin Broken
                        /\ ToAdd[k] = Stdin => request.stdin # "nonsense"
                        /\ ToAdd[k] = Stdin /\ request.route = "execute" =>
                             ~stdin' /\ \A j \in 1 .. next : ToAdd[j] = Stdin => j = k
      BY <1>2, <1>3, <2>1 DEF Accepted
    <3>1. CASE k = next
      BY <1>1, <1>2, <1>5, <3>1 DEF Added, Progress, Accepted
    <3>2. CASE k \in 1 .. next - 1
      BY <1>2, <3>2 DEF Progress, Accepted
    <3> QED
      BY <1>2, <3>1, <3>2
  <2>4. cjit'.done_setup /\ cjit'.done_exec = cjit.done_exec
    BY <1>1, <1>5 DEF Added
  <2>6. Progress'
    BY <1>2, <1>3, <2>1, <2>2, <2>3, <2>4 DEF Progress
  <2>5. (OutcomeIsWhole /\ ExitTells /\ NothingAfterRefusal)'
    BY <1>3, <2>1 DEF OutcomeIsWhole, ExitTells, NothingAfterRefusal
  <2> QED
    BY <1>2, <1>3, <1>4, <2>1, <2>5, <2>6 DEF IInv
<1>6. CASE ~p.ok
  <2>1. next' = next /\ phase' = "done" /\ exit' = 1
    BY <1>6 DEF Exit
  <2>2. (OutcomeIsWhole /\ ExitTells /\ NothingAfterRefusal)'
    BY <1>3, <2>1 DEF OutcomeIsWhole, ExitTells, NothingAfterRefusal
  <2> QED
    BY <1>2, <1>3, <1>4, <2>1, <2>2 DEF IInv
<1> QED
  BY <1>5, <1>6

LEMMA AddSourceInv == IInv /\ AddSource => IInv'
<1> SUFFICES ASSUME IInv, AddSource PROVE IInv'
  OBVIOUS
<1>1. PICK p \in Add(cjit, ToAdd[next]) :
        /\ cjit' = p.cjit
        /\ IF p.ok THEN next' = next + 1 /\ UNCHANGED <<phase, exit>>
                   ELSE Exit(1) /\ UNCHANGED next
  BY DEF AddSource
<1>2. /\ phase = "sources" /\ next <= Len(ToAdd) /\ request.route \in {"build", "execute"}
      /\ ToAdd[next] # Stdin \/ request.route = "build"
      /\ UNCHANGED <<request, file, ran>>
  BY DEF AddSource, Adding
<1>3. stdin' \in BOOLEAN /\ (stdin' => stdin)
  BY DEF AddSource
<1> QED
  BY <1>1, <1>2, <1>3, AddStep

LEMMA AddStdinInv == IInv /\ AddStdin => IInv'
<1> SUFFICES ASSUME IInv, AddStdin PROVE IInv'
  OBVIOUS
<1>1. /\ phase = "sources" /\ next <= Len(ToAdd) /\ request.route \in {"build", "execute"}
      /\ ToAdd[next] = Stdin /\ request.route = "execute"
      /\ stdin' = FALSE /\ UNCHANGED <<request, file, ran>>
  BY DEF AddStdin, Adding
<1>2. CASE stdin /\ \E p \in Add(cjit, Stdin) :
                      /\ cjit' = p.cjit
                      /\ IF p.ok THEN next' = next + 1 /\ UNCHANGED <<phase, exit>>
                                 ELSE Exit(1) /\ UNCHANGED next
  <2>1. PICK p \in Add(cjit, ToAdd[next]) :
          /\ cjit' = p.cjit
          /\ IF p.ok THEN next' = next + 1 /\ UNCHANGED <<phase, exit>>
                     ELSE Exit(1) /\ UNCHANGED next
    BY <1>1, <1>2
  <2> QED
    BY <1>1, <1>2, <2>1, AddStep
<1>3. CASE Exit(1) /\ UNCHANGED <<next, cjit>>
  <2>1. ToAdd' = ToAdd /\ phase' = "done" /\ exit' = 1 /\ file' = Nothing /\ ran' = Nothing
    BY <1>1, <1>3 DEF ToAdd, Exit, IInv, Progress
  <2>2. (OutcomeIsWhole /\ ExitTells /\ NothingAfterRefusal)'
    BY <1>1, <2>1 DEF OutcomeIsWhole, ExitTells, NothingAfterRefusal
  <2>3. Ready(cjit)'
    BY <1>1, <1>3 DEF IInv, Ready, Started, Searches, Mode, Shape, States, TinyCCs
  <2>4. stdin' \in BOOLEAN /\ next' = next /\ request' = request
    BY <1>1, <1>3
  <2> QED
    BY <2>1, <2>2, <2>3, <2>4 DEF IInv
<1> QED
  BY <1>2, <1>3 DEF AddStdin

-----------------------------------------------------------------------------
(* The three actions that end a run with something to show for it *)

LEMMA ExitType ==
  ASSUME NEW n \in -1 .. 255
  PROVE  n % 256 \in 0 .. 255 /\ (n % 256 = 0 => n = 0)
<1>1. n % 256 \in 0 .. 255
  BY SMT
<1>2. ASSUME n % 256 = 0 PROVE n = 256 * (n \div 256) /\ n \div 256 \in Int
  BY <1>2, SMT
<1> QED
  BY <1>1, <1>2

\* What holds of a run that has been through all of its files.
LEMMA AllAccepted ==
  ASSUME IInv, Progress, next > Len(ToAdd), request.route \in {"build", "execute"}
  PROVE  /\ cjit.TCC.units = ToAdd
         /\ cjit.done_setup => ~Refused
<1>1. /\ ToAdd \in Seq(Inputs) /\ Len(ToAdd) \in Nat /\ next = Len(ToAdd) + 1
      /\ DOMAIN ToAdd = 1 .. Len(ToAdd)
  BY RequestType, LenProperties DEF IInv
<1>2. cjit.TCC.units = ToAdd
  BY <1>1, SubSeqFull DEF Progress
<1>3. cjit.done_setup => request.cflags # "bad"
  BY DEF IInv, Ready, Started
<1>4. ToSet(ToAdd) \cap Broken = {} /\ (Stdin \in ToSet(ToAdd) => request.stdin # "nonsense")
  BY <1>1 DEF ToSet, Progress, Accepted
<1>5. ASSUME request.route = "execute"
      PROVE  ~(Cardinality({k \in DOMAIN ToAdd : ToAdd[k] = Stdin}) > 1)
  <2> DEFINE At == {k \in DOMAIN ToAdd : ToAdd[k] = Stdin}
  <2>1. \A j, k \in At : j = k
    BY <1>1, <1>5 DEF Progress, Accepted
  <2>2. At = {} \/ \E k : At = {k}
    BY <2>1
  <2> HIDE DEF At
  <2>3. Cardinality(At) \in {0, 1}
    BY <2>2, FS_EmptySet, FS_Singleton
  <2> QED
    BY <2>3 DEF At
<1> QED
  BY <1>2, <1>3, <1>4, <1>5 DEF Refused

LEMMA ErrorState ==
  ASSUME NEW c, Ready(c), c.done_setup, NEW e \in BOOLEAN
  PROVE  LET d == [c EXCEPT !.TCC.errors = e] IN
         /\ Ready(d) /\ d.done_setup /\ d.done_exec = c.done_exec
         /\ d.TCC.type = Mode /\ d.TCC.inits = 1 /\ d.TCC.units = c.TCC.units
<1> DEFINE d == [c EXCEPT !.TCC.errors = e]
<1>1. /\ Shape(d) /\ d.tcc_output = c.tcc_output /\ d.done_setup = c.done_setup
      /\ d.done_exec = c.done_exec /\ d.libpaths = c.libpaths
      /\ d.TCC.type = c.TCC.type /\ d.TCC.inits = c.TCC.inits /\ d.TCC.units = c.TCC.units
  BY DEF Ready, Shape, States, TinyCCs
<1> HIDE DEF d
<1>2. Ready(d)
  BY <1>1 DEF Ready, Searches, Started
<1> QED
  BY <1>1, <1>2 DEF d, Ready, Started

\* What was written or run was made by TinyCC from what it holds.
LEMMA ArtefactState ==
  ASSUME NEW c, Ready(c), c.done_setup, NEW n
  PROVE  /\ Artefact(c, n) # Nothing /\ Artefact(c, n).exit = n
         /\ Artefact(c, n).type = Mode /\ Artefact(c, n).units = c.TCC.units
<1>1. Artefact(c, n).type = Mode
  BY DEF Artefact, Ready, Started
<1>2. Nothing.type = 0 /\ Mode # 0
  BY ModeType DEF Nothing
<1>3. Artefact(c, n).exit = n /\ Artefact(c, n).units = c.TCC.units
  BY DEF Artefact
<1> QED
  BY <1>1, <1>2, <1>3

\* tcc_output_file, after everything was accepted.
LEMMA OutputStep ==
  ASSUME IInv, phase = "sources", request.route \in {"object", "build"}, ~Refused,
         NEW c, Ready(c), c.done_setup, c.TCC.units = ToAdd,
         Output(c), UNCHANGED <<request, next, stdin, ran>>
  PROVE  IInv'
<1>1. /\ request \in Requests /\ Progress /\ next \in 1 .. Len(ToAdd) + 1
      /\ phase' = "done" /\ ToAdd' = ToAdd /\ Refused' = Refused /\ Mode' = Mode
      /\ ran' = Nothing
  BY DEF IInv, Progress, Output, Exit, ToAdd, Refused, Mode
<1>2. PICK e \in BOOLEAN : cjit' = [c EXCEPT !.TCC.errors = e]
  BY DEF Output
<1>3. Ready(cjit') /\ cjit'.TCC.inits = 1
  BY <1>2, ErrorState
<1>4. Ready(cjit)'
  BY <1>1, <1>3 DEF Ready, Started, Searches, Shape, States, TinyCCs
<1>5. CASE file' = Artefact(c, -2) /\ exit' = 0
  <2>1. file' # Nothing /\ file'.type = Mode /\ file'.units = ToAdd
    BY <1>5, ArtefactState
  <2>2. Mode = IF request.route = "object" THEN OBJ ELSE EXE
    BY DEF Mode
  <2>3. OutcomeIsWhole'
    BY <1>1, <1>3, <2>1, <2>2 DEF OutcomeIsWhole, Whole
  <2>4. ExitTells' /\ NothingAfterRefusal'
    BY <1>1, <1>5, <2>1 DEF ExitTells, NothingAfterRefusal, Refused
  <2> QED
    BY <1>1, <1>4, <1>5, <2>3, <2>4 DEF IInv
<1>6. CASE file' = file /\ exit' = 1
  <2>1. file' = Nothing
    BY <1>1, <1>6 DEF Progress
  <2>2. (OutcomeIsWhole /\ ExitTells /\ NothingAfterRefusal)'
    BY <1>1, <1>6, <2>1 DEF OutcomeIsWhole, ExitTells, NothingAfterRefusal
  <2> QED
    BY <1>1, <1>4, <1>6, <2>2 DEF IInv
<1> QED
  BY <1>5, <1>6 DEF Output, Exit

\* A run that ends without a call of TinyCC's output.
LEMMA FailStep ==
  ASSUME IInv, phase = "sources", phase' = "done", exit' = 1,
         Ready(cjit'), UNCHANGED <<request, next, stdin, file, ran>>
  PROVE  IInv'
<1>1. ToAdd' = ToAdd /\ Mode' = Mode /\ file' = Nothing /\ ran' = Nothing
  BY DEF ToAdd, Mode, IInv, Progress
<1>2. Ready(cjit)'
  BY <1>1 DEF Ready, Started, Searches, Shape, States, TinyCCs
<1>3. (OutcomeIsWhole /\ ExitTells /\ NothingAfterRefusal)'
  BY <1>1 DEF OutcomeIsWhole, ExitTells, NothingAfterRefusal
<1> QED
  BY <1>1, <1>2, <1>3 DEF IInv

LEMMA LinkExecutableInv == IInv /\ LinkExecutable => IInv'
<1> SUFFICES ASSUME IInv, LinkExecutable PROVE IInv'
  OBVIOUS
<1>1. /\ phase = "sources" /\ request.route = "build" /\ next > Len(ToAdd) /\ Progress
      /\ Ready(cjit) /\ UNCHANGED <<request, next, stdin, ran>>
  BY DEF LinkExecutable, Finished, IInv
<1>2. CASE cjit.done_setup /\ Output(LoadLibraries(cjit))
  <2>1. /\ Ready(LoadLibraries(cjit)) /\ LoadLibraries(cjit).done_setup
        /\ LoadLibraries(cjit).TCC.units = ToAdd /\ ~Refused
    BY <1>1, <1>2, LoadState, AllAccepted
  <2> QED
    BY <1>1, <1>2, <2>1, OutputStep
<1>3. CASE Exit(1) /\ UNCHANGED <<cjit, file>>
  BY <1>1, <1>3, FailStep DEF Exit
<1> QED
  BY <1>2, <1>3 DEF LinkExecutable

LEMMA CompileObjectInv == IInv /\ CompileObject => IInv'
<1> SUFFICES ASSUME IInv, CompileObject PROVE IInv'
  OBVIOUS
<1>1. /\ phase = "sources" /\ request.route = "object" /\ next = 1 /\ Progress
      /\ Ready(cjit) /\ request \in Requests /\ UNCHANGED <<request, next, stdin, ran>>
  BY DEF CompileObject, IInv, Progress
<1>2. CASE Exit(1) /\ UNCHANGED <<cjit, file>>
  BY <1>1, <1>2, FailStep DEF Exit
<1>3. ASSUME Len(request.sources) = 1, ToSet(request.sources) \subseteq Sources,
             NEW p \in Add(cjit, request.sources[1]),
             IF p.ok THEN Output(p.cjit) ELSE cjit' = p.cjit /\ Exit(1) /\ UNCHANGED file
      PROVE  IInv'
  <2>1. Added(cjit, request.sources[1], p)
    BY <1>1, AddState
  <2>2. /\ ToAdd = request.sources /\ ToAdd \in Seq(Inputs) /\ DOMAIN ToAdd = {1}
        /\ ToAdd[1] \in Inputs /\ ToSet(ToAdd) = {ToAdd[1]}
    <3>1. ToAdd = request.sources /\ ToAdd \in Seq(Inputs)
      BY <1>1, RequestType DEF ToAdd
    <3>2. DOMAIN ToAdd = 1 .. 1
      BY <1>3, <3>1, LenProperties
    <3> QED
      BY <3>1, <3>2 DEF ToSet
  <2>3. CASE p.ok
    <3>1. Ready(p.cjit) /\ p.cjit.done_setup /\ Output(p.cjit)
      BY <1>3, <2>1, <2>3 DEF Added
    <3>2. p.cjit.TCC.units = ToAdd
      <4>1. cjit.TCC.units = <<>>
        BY <1>1, <2>2, SubSeqEmpty DEF Progress
      <4>2. p.cjit.TCC.units = Append(<<>>, ToAdd[1])
        BY <2>1, <2>2, <2>3, <4>1 DEF Added
      <4>3. Append(<<>>, ToAdd[1]) = ToAdd
        BY <1>3, <2>2, EmptySeq, AppendProperties, SeqEqual
      <4> QED
        BY <4>2, <4>3
    <3>3. ~Refused
      <4>1. ToAdd[1] \notin Broken /\ ~(ToAdd[1] = Stdin /\ request.stdin = "nonsense")
        BY <2>1, <2>2, <2>3 DEF Added
      <4>2. request.cflags # "bad"
        BY <3>1 DEF Ready, Started
      <4> QED
        BY <1>1, <2>2, <4>1, <4>2 DEF Refused
    <3> QED
      BY <1>1, <3>1, <3>2, <3>3, OutputStep
  <2>4. CASE ~p.ok
    BY <1>1, <1>3, <2>1, <2>4, FailStep DEF Added, Exit
  <2> QED
    BY <2>3, <2>4
<1> QED
  BY <1>2, <1>3 DEF CompileObject

LEMMA ExecuteProgramInv == IInv /\ ExecuteProgram => IInv'
<1> SUFFICES ASSUME IInv, ExecuteProgram PROVE IInv'
  OBVIOUS
<1>1. /\ phase = "sources" /\ request.route = "execute" /\ next > Len(ToAdd) /\ Progress
      /\ Ready(cjit) /\ request \in Requests /\ UNCHANGED <<request, next, stdin, file>>
  BY DEF ExecuteProgram, Finished, IInv
<1>2. CASE Exit(1) /\ UNCHANGED <<cjit, ran>>
  BY <1>1, <1>2, FailStep DEF Exit
<1> DEFINE c == LoadLibraries(cjit)
           linked == [c EXCEPT !.TCC.errors = FALSE]
<1>3. /\ ToAdd' = ToAdd /\ Mode' = Mode /\ Refused' = Refused /\ Mode = MEM
      /\ file' = Nothing /\ ran = Nothing
  BY <1>1 DEF ToAdd, Mode, Refused, Progress
<1>4. ASSUME cjit.done_setup
      PROVE  Ready(c) /\ c.done_setup /\ c.TCC.units = ToAdd /\ ~Refused
  BY <1>1, <1>4, LoadState, AllAccepted
<1>5. ASSUME cjit.done_setup, Ready(cjit'), Exit(-1), UNCHANGED ran
      PROVE  IInv'
  <2>1. phase' = "done" /\ exit' \in 0 .. 255 /\ exit' # 0
    BY <1>5, ExitType DEF Exit
  <2>2. (OutcomeIsWhole /\ ExitTells /\ NothingAfterRefusal)'
    BY <1>1, <1>3, <1>5, <2>1 DEF OutcomeIsWhole, ExitTells, NothingAfterRefusal
  <2>3. Ready(cjit)'
    BY <1>1, <1>3, <1>5 DEF Ready, Started, Searches, Shape, States, TinyCCs
  <2> QED
    BY <1>1, <1>3, <2>1, <2>2, <2>3 DEF IInv
<1>6. CASE cjit.done_setup /\ cjit' = [c EXCEPT !.TCC.errors = TRUE] /\ Exit(-1) /\ UNCHANGED ran
  BY <1>4, <1>5, <1>6, ErrorState
<1>7. CASE cjit.done_setup /\ cjit' = linked /\ Exit(-1) /\ UNCHANGED ran
  BY <1>4, <1>5, <1>7, ErrorState
<1>8. ASSUME cjit.done_setup, cjit' = [linked EXCEPT !.done_exec = TRUE],
             NEW n \in Exits, ran' = Artefact(c, n), Exit(n)
      PROVE  IInv'
  <2>1. n \in -1 .. 255 /\ phase' = "done" /\ exit' = n % 256
    BY <1>8, SessionAssumption DEF Exit, SessionAssumption
  <2>2. exit' \in 0 .. 255 /\ (exit' = 0 => n = 0)
    BY <2>1, ExitType
  <2>3. ran' # Nothing /\ ran'.exit = n /\ ran'.type = Mode /\ ran'.units = ToAdd
    BY <1>4, <1>8, ArtefactState
  <2>4. Ready(linked) /\ linked.done_setup /\ linked.TCC.inits = 1
    BY <1>4, <1>8, ErrorState
  <2>5. Ready(cjit') /\ cjit'.TCC.inits = 1
    <3> HIDE DEF linked
    <3> DEFINE d == [linked EXCEPT !.done_exec = TRUE]
    <3>1. /\ Shape(d) /\ d.tcc_output = linked.tcc_output /\ d.done_setup = linked.done_setup
          /\ d.libpaths = linked.libpaths /\ d.TCC = linked.TCC
      BY <2>4 DEF Ready, Shape, States
    <3> HIDE DEF d
    <3>2. Ready(d)
      BY <2>4, <3>1 DEF Ready, Searches, Started
    <3> QED
      BY <1>8, <2>4, <3>1, <3>2 DEF d
  <2>6. Ready(cjit)'
    BY <1>1, <1>3, <2>5 DEF Ready, Started, Searches, Shape, States, TinyCCs
  <2>7. OutcomeIsWhole'
    BY <1>3, <2>3, <2>5 DEF OutcomeIsWhole, Whole
  <2>8. ExitTells' /\ NothingAfterRefusal'
    BY <1>1, <1>3, <1>4, <1>8, <2>1, <2>2, <2>3 DEF ExitTells, NothingAfterRefusal, Refused
  <2> QED
    BY <1>1, <1>3, <2>1, <2>2, <2>6, <2>7, <2>8 DEF IInv
<1> QED
  BY <1>2, <1>6, <1>7, <1>8 DEF ExecuteProgram

LEMMA StutterInv == IInv /\ UNCHANGED vars => IInv'
<1> SUFFICES ASSUME IInv, UNCHANGED vars PROVE IInv'
  OBVIOUS
<1>1. Ready(cjit)'
  BY DEF vars, IInv, Ready, Started, Searches, Mode, Shape, States, TinyCCs
<1>2. ToAdd' = ToAdd
  BY DEF vars, ToAdd
<1>3. Progress' <=> Progress
  BY <1>2 DEF vars, Progress, Accepted
<1>4. (OutcomeIsWhole /\ ExitTells /\ NothingAfterRefusal)'
  BY <1>2 DEF vars, IInv, OutcomeIsWhole, Whole, ExitTells, NothingAfterRefusal
<1> QED
  BY <1>1, <1>2, <1>3, <1>4 DEF vars, IInv

LEMMA StepInv == IInv /\ [Next]_vars => IInv'
BY PrintStatusInv, AddSourceInv, AddStdinInv, LinkExecutableInv, CompileObjectInv,
   ExecuteProgramInv, StutterInv DEF Next

-----------------------------------------------------------------------------
\* The strengthened invariant: the set-up is done once on a TinyCC state that
\* was started once, and what was given to TinyCC is what was accepted.
THEOREM IInvHolds == Spec => []IInv
<1>1. Init => IInv
  BY InitInv
<1>2. IInv /\ [Next]_vars => IInv'
  BY StepInv
<1> QED
  BY <1>1, <1>2, PTL DEF Spec

\* An output file or a program is made of every file of the command line, in
\* order, by a TinyCC that was started once and for that kind of output.
THEOREM OutcomeIsWholeHolds == Spec => []OutcomeIsWhole
<1>1. IInv => OutcomeIsWhole
  BY DEF IInv
<1> QED
  BY <1>1, IInvHolds, PTL

\* Exit status 0 says that what was asked for has been done, and only a run
\* that says so leaves an output file.
THEOREM ExitTellsHolds == Spec => []ExitTells
<1>1. IInv => ExitTells
  BY DEF IInv
<1> QED
  BY <1>1, IInvHolds, PTL

\* After a refusal nothing is written and nothing is run.
THEOREM NothingAfterRefusalHolds == Spec => []NothingAfterRefusal
<1>1. IInv => NothingAfterRefusal
  BY DEF IInv
<1> QED
  BY <1>1, IInvHolds, PTL

\* A search path that is complete: perhaps the directories of -L, perhaps the
\* working directory, and those of the system behind them.
PathIs(s) ==
  \E m \in {0, 1}, n \in {1, 2} :
    /\ DOMAIN s = 1 .. m + n
    /\ \A i \in 1 .. m + n : \/ i = 1 /\ m = 1 /\ s[i] = "given"
                             \/ i = m + 1 /\ n = 2 /\ s[i] = "pwd"
                             \/ i = m + n /\ s[i] = "system"

LEMMA PathParts ==
  ASSUME NEW a \in Seq(Dirs), NEW b \in Seq(Dirs),
         Len(a) \in {0, 1}, Len(a) = 1 => a[1] = "given",
         Len(b) \in {1, 2}, Len(b) = 1 => b[1] = "system",
         Len(b) = 2 => b[1] = "pwd" /\ b[2] = "system"
  PROVE  a \o b \in Seq(Dirs) /\ PathIs(a \o b)
<1>4. /\ a \o b \in Seq(Dirs) /\ Len(a \o b) = Len(a) + Len(b)
      /\ \A i \in 1 .. Len(a) + Len(b) : (a \o b)[i] = IF i <= Len(a) THEN a[i] ELSE b[i - Len(a)]
  BY ConcatProperties, Zenon
<1> DEFINE s == a \o b
           m == Len(a)
           n == Len(b)
<1>5. /\ s \in Seq(Dirs) /\ m \in {0, 1} /\ n \in {1, 2} /\ Len(s) = m + n
      /\ (m = 1 => a[1] = "given") /\ (n = 1 => b[1] = "system")
      /\ (n = 2 => b[1] = "pwd" /\ b[2] = "system")
      /\ \A i \in 1 .. m + n : s[i] = IF i <= m THEN a[i] ELSE b[i - m]
  BY <1>4
<1>6. DOMAIN s = 1 .. m + n
  <2> HIDE DEF s, m, n
  <2> QED
    BY <1>5, LenProperties
<1> HIDE DEF s, m, n
<1>7. ASSUME NEW i \in 1 .. m + n
      PROVE  \/ i = 1 /\ m = 1 /\ s[i] = "given"
             \/ i = m + 1 /\ n = 2 /\ s[i] = "pwd"
             \/ i = m + n /\ s[i] = "system"
  <2>1. CASE i <= m
    <3>1. m = 1 /\ i = 1 /\ s[i] = a[i]
      BY <1>5, <2>1
    <3> QED
      BY <1>5, <3>1
  <2>2. CASE ~(i <= m)
    <3>1. m \in {0, 1} /\ n \in {1, 2}
      BY <1>5
    <3>2. i = m + 1 \/ (i = m + 2 /\ n = 2)
      <4>1. i \in Int /\ i <= m + n /\ i > m
        BY <2>2, <3>1
      <4> QED
        BY <3>1, <4>1
    <3>3. s[i] = b[i - m]
      BY <1>5, <2>2
    <3>4. CASE i = m + 1
      <4>1. i - m = 1 /\ (n = 1 => i = m + n)
        BY <3>1, <3>4
      <4>2. s[i] = b[1]
        BY <3>3, <4>1
      <4> QED
        BY <1>5, <3>1, <3>4, <4>1, <4>2
    <3>5. CASE i = m + 2 /\ n = 2
      <4>1. i - m = 2 /\ i = m + n
        BY <3>1, <3>5
      <4> QED
        BY <1>5, <3>3, <3>5, <4>1
    <3> QED
      BY <3>2, <3>4, <3>5
  <2> QED
    BY <2>1, <2>2
<1>8. PathIs(s)
  <2>1. m \in {0, 1} /\ n \in {1, 2}
    BY <1>5
  <2>2. \E x \in {0, 1}, y \in {1, 2} :
          /\ DOMAIN s = 1 .. x + y
          /\ \A i \in 1 .. x + y : \/ i = 1 /\ x = 1 /\ s[i] = "given"
                                   \/ i = x + 1 /\ y = 2 /\ s[i] = "pwd"
                                   \/ i = x + y /\ s[i] = "system"
    BY <1>6, <1>7, <2>1
  <2> QED
    BY <2>2 DEF PathIs
<1> QED
  BY <1>5, <1>8 DEF s

LEMMA PathShape ==
  ASSUME NEW c, Searches(c), c.done_setup
  PROVE  c.libpaths \in Seq(Dirs) /\ PathIs(c.libpaths)
<1>1. PICK a \in {<<>>, <<"given">>}, b \in {<<"pwd", "system">>, <<"system">>} : c.libpaths = a \o b
  BY DEF Searches, Before, Behind, Given, Setup
<1>2. /\ a \in Seq(Dirs) /\ Len(a) \in {0, 1} /\ (Len(a) = 1 => a[1] = "given")
  <2>1. CASE a = <<>>
    BY <2>1
  <2>2. CASE a = <<"given">>
    BY <2>2 DEF Dirs
  <2> QED
    BY <1>1, <2>1, <2>2
<1>3. /\ b \in Seq(Dirs) /\ Len(b) \in {1, 2}
      /\ Len(b) = 1 => b[1] = "system"
      /\ Len(b) = 2 => b[1] = "pwd" /\ b[2] = "system"
  <2>1. CASE b = <<"pwd", "system">>
    BY <2>1 DEF Dirs
  <2>2. CASE b = <<"system">>
    BY <2>2 DEF Dirs
  <2> QED
    BY <1>1, <2>1, <2>2
<1>4. a \o b \in Seq(Dirs) /\ PathIs(a \o b)
  BY <1>2, <1>3, PathParts
<1> QED
  BY <1>1, <1>4

\* A search path has every directory once, and the last one of the set-up
\* exactly when the set-up was done.
LEMMA SearchPath ==
  ASSUME NEW c, Searches(c), c.done_setup \in BOOLEAN
  PROVE  IsInjective(c.libpaths) /\ (c.done_setup <=> Last(Setup) \in ToSet(c.libpaths))
<1>1. Last(Setup) = "system" /\ Before = {<<>>, <<"given">>}
  BY DEF Last, Setup, Before, Given
<1>2. CASE ~c.done_setup
  <2>1. c.libpaths \in {<<>>, <<"given">>}
    BY <1>1, <1>2 DEF Searches
  <2> QED
    BY <1>1, <1>2, <2>1 DEF IsInjective, ToSet
<1>3. CASE c.done_setup
  <2> DEFINE s == c.libpaths
  <2>1. PICK m \in {0, 1}, n \in {1, 2} :
          /\ DOMAIN s = 1 .. m + n
          /\ \A i \in 1 .. m + n : \/ i = 1 /\ m = 1 /\ s[i] = "given"
                                   \/ i = m + 1 /\ n = 2 /\ s[i] = "pwd"
                                   \/ i = m + n /\ s[i] = "system"
    BY <1>3, PathShape DEF PathIs
  <2> HIDE DEF s
  <2>2. IsInjective(s)
    <3> SUFFICES ASSUME NEW i \in DOMAIN s, NEW j \in DOMAIN s, s[i] = s[j] PROVE i = j
      BY DEF IsInjective
    <3> QED
      BY <2>1
  <2>3. m + n \in DOMAIN s /\ s[m + n] = "system"
    <3>1. m + n \in 1 .. m + n
      OBVIOUS
    <3>2. n = 2 => m + n # m + 1
      OBVIOUS
    <3>3. m = 1 => m + n # 1
      OBVIOUS
    <3> QED
      BY <2>1, <3>1, <3>2, <3>3
  <2>4. "system" \in ToSet(s)
    BY <2>3 DEF ToSet
  <2> QED
    BY <1>1, <1>3, <2>2, <2>4 DEF s
<1> QED
  BY <1>2, <1>3

\* However often the set-up is tried, the search path is completed once.
THEOREM SetUpOnceHolds == Spec => []SetUpOnce
<1>1. IInv => SetUpOnce
  <2> SUFFICES ASSUME IInv PROVE SetUpOnce
    OBVIOUS
  <2>1. cjit.tcc_output = Mode /\ cjit.TCC.type \in {0, Mode} /\ Searches(cjit)
    BY DEF IInv, Ready, Started
  <2>2. cjit.done_setup \in BOOLEAN /\ cjit.done_exec \in BOOLEAN
    BY DEF IInv, Ready, Shape, States
  <2>3. TypeOK
    BY <2>1, <2>2, ModeType DEF IInv, TypeOK
  <2> QED
    BY <2>1, <2>2, <2>3, SearchPath DEF SetUpOnce
<1> QED
  BY <1>1, IInvHolds, PTL

-----------------------------------------------------------------------------
(* Libraries *)

\* What a resolution with the search path of c finds: the libraries of the
\* request that are somewhere, each with the first directory that holds it.
HoldingIn(c, l) == {j \in DOMAIN Order : Order[j] \in ToSet(c.libpaths) /\ l \in Holds[Order[j]]}
Pairs(c) ==
  {<<Order[Min(HoldingIn(c, l))], l>> : l \in {x \in ToSet(request.libs) : HoldingIn(c, x) # {}}}

\* Nothing has been resolved before the set-up, and afterwards nothing but
\* what every resolution finds.
LibState(c) ==
  /\ c.libs = request.libs
  /\ c.reallibs \in Seq(Dirs \X Libraries)
  /\ IF c.done_setup THEN ToSet(c.reallibs) \subseteq Pairs(c) ELSE c.reallibs = <<>>

LibInv ==
  /\ phase # "done" => LibState(cjit) /\ cjit.TCC.libs = <<>>
  /\ LibrariesInOrder

LEMMA OrderIs == /\ DOMAIN Order = 1 .. 3 /\ Order[1] = "given" /\ Order[2] = "pwd" /\ Order[3] = "system"
                 /\ DOMAIN Holds = Dirs
<1>1. Order \in Seq(Dirs) /\ Len(Order) = 3 /\ Order[1] = "given" /\ Order[2] = "pwd" /\ Order[3] = "system"
  <2> DEFINE a == <<"given">>
             b == <<"pwd", "system">>
  <2>1. a \in Seq(Dirs) /\ b \in Seq(Dirs) /\ Len(a) = 1 /\ Len(b) = 2
        /\ a[1] = "given" /\ b[1] = "pwd" /\ b[2] = "system"
    BY DEF Dirs
  <2>2. Order = a \o b
    BY DEF Order, Given, Setup
  <2> HIDE DEF a, b
  <2>3. /\ a \o b \in Seq(Dirs) /\ Len(a \o b) = Len(a) + Len(b)
        /\ \A i \in 1 .. Len(a) + Len(b) : (a \o b)[i] = IF i <= Len(a) THEN a[i] ELSE b[i - Len(a)]
    BY <2>1, ConcatProperties, Zenon
  <2> QED
    BY <2>1, <2>2, <2>3
<1>2. ToSet(Setup) = {"pwd", "system"}
  BY DEF ToSet, Setup
<1>3. DOMAIN Order = 1 .. 3
  BY <1>1, LenProperties
<1> QED
  BY <1>1, <1>2, <1>3, SessionAssumption DEF SessionAssumption, Given, Dirs

\* The directories of a search path are in the order of the search.
LEMMA PathInOrder ==
  ASSUME NEW c, Searches(c), c.done_setup
  PROVE  /\ c.libpaths \in Seq(Dirs)
         /\ \A j, k \in DOMAIN c.libpaths : \A m, n \in 1 .. 3 :
              c.libpaths[j] = Order[m] /\ c.libpaths[k] = Order[n] /\ m < n => j < k
<1> DEFINE s == c.libpaths
<1>1. s \in Seq(Dirs)
  BY PathShape DEF PathIs
<1>2. PICK a \in {0, 1}, b \in {1, 2} :
        /\ DOMAIN s = 1 .. a + b
        /\ \A i \in 1 .. a + b : \/ i = 1 /\ a = 1 /\ s[i] = "given"
                                 \/ i = a + 1 /\ b = 2 /\ s[i] = "pwd"
                                 \/ i = a + b /\ s[i] = "system"
  BY PathShape DEF PathIs
<1> HIDE DEF s
<1>3. ASSUME NEW j \in DOMAIN s, NEW k \in DOMAIN s, NEW m \in 1 .. 3, NEW n \in 1 .. 3,
             s[j] = Order[m], s[k] = Order[n], m < n
      PROVE  j < k
  <2>1. \/ s[j] = "given" /\ s[k] \in {"pwd", "system"}
        \/ s[j] = "pwd" /\ s[k] = "system"
    BY <1>3, OrderIs
  <2>2. CASE s[j] = "given" /\ s[k] \in {"pwd", "system"}
    <3>1. j = 1 /\ a = 1
      BY <1>2, <2>2
    <3>2. k = a + 1 \/ k = a + b
      BY <1>2, <2>2
    <3> QED
      BY <3>1, <3>2
  <2>3. CASE s[j] = "pwd" /\ s[k] = "system"
    <3>1. j = a + 1 /\ b = 2
      BY <1>2, <2>3
    <3>2. k = a + b
      BY <1>2, <2>3
    <3> QED
      BY <3>1, <3>2
  <2> QED
    BY <2>1, <2>2, <2>3
<1> QED
  BY <1>1, <1>3 DEF s

\* The first directory of the path that holds a library is the one the search
\* order names.
LEMMA FirstPlace ==
  ASSUME NEW c, Searches(c), c.done_setup, NEW l
  PROVE  /\ Places(c, l) # <<>> <=> HoldingIn(c, l) # {}
         /\ Places(c, l) # <<>> => /\ Head(Places(c, l)) = Order[Min(HoldingIn(c, l))]
                                   /\ Head(Places(c, l)) \in Dirs
<1> DEFINE s == c.libpaths
           S == {d \in DOMAIN Holds : l \in Holds[d]}
           H == HoldingIn(c, l)
<1>1. /\ s \in Seq(Dirs) /\ DOMAIN s = 1 .. Len(s) /\ Len(s) \in Nat
      /\ \A j, k \in DOMAIN s : \A m, n \in 1 .. 3 : s[j] = Order[m] /\ s[k] = Order[n] /\ m < n => j < k
  BY PathInOrder, LenProperties
<1>2. Places(c, l) = Among(s, S)
  BY DEF Places
<1> HIDE DEF S
<1>3. /\ Among(s, S) \in Seq(Dirs) /\ ToSet(Among(s, S)) = ToSet(s) \cap S
      /\ Among(s, S) # <<>> => \E j \in DOMAIN s : /\ Head(Among(s, S)) = s[j] /\ s[j] \in S
                                                   /\ \A k \in 1 .. j - 1 : s[k] \notin S
  BY <1>1, AmongProperties
<1>4. \A j \in DOMAIN s : s[j] \in Dirs
  BY <1>1, ElementOfSeq
<1>5. \A n : n \in H <=> n \in 1 .. 3 /\ Order[n] \in ToSet(s) \cap S
  BY OrderIs DEF HoldingIn, S, Dirs
<1>6. \A d \in Dirs : \E n \in 1 .. 3 : Order[n] = d
  BY OrderIs DEF Dirs
<1>7. ToSet(s) \subseteq Dirs
  BY <1>4 DEF ToSet
<1>8. H # {} <=> ToSet(s) \cap S # {}
  BY <1>5, <1>6, <1>7
<1>9. Among(s, S) # <<>> <=> ToSet(Among(s, S)) # {}
  <2> DEFINE v == Among(s, S)
  <2>1. v \in Seq(Dirs)
    BY <1>3
  <2> HIDE DEF v
  <2>2. DOMAIN v = 1 .. Len(v) /\ Len(v) \in Nat /\ (v = <<>> <=> Len(v) = 0)
    BY <2>1, LenProperties, EmptySeq
  <2>3. v = <<>> <=> DOMAIN v = {}
    <3>1. Len(v) # 0 => 1 \in 1 .. Len(v)
      BY <2>2
    <3> QED
      BY <2>2, <3>1
  <2>4. v = <<>> <=> ToSet(v) = {}
    BY <2>3 DEF ToSet
  <2> QED
    BY <2>4 DEF v
<1>10. ASSUME Among(s, S) # <<>>
       PROVE  Head(Among(s, S)) = Order[Min(H)] /\ Head(Among(s, S)) \in Dirs
  <2>1. PICK j \in DOMAIN s : /\ Head(Among(s, S)) = s[j] /\ s[j] \in S
                              /\ \A k \in 1 .. j - 1 : s[k] \notin S
    BY <1>3, <1>10
  <2>2. PICK m \in 1 .. 3 : Order[m] = s[j]
    BY <1>4, <1>6
  <2>3. m \in H
    BY <1>5, <2>1, <2>2 DEF ToSet
  <2>4. ASSUME NEW n \in H PROVE m <= n
    <3>1. n \in 1 .. 3 /\ Order[n] \in ToSet(s) /\ Order[n] \in S
      BY <1>5
    <3>2. PICK k \in DOMAIN s : s[k] = Order[n]
      BY <3>1 DEF ToSet
    <3>3. ~(k < j)
      BY <1>1, <2>1, <3>1, <3>2
    <3> QED
      BY <1>1, <2>2, <3>1, <3>2, <3>3
  <2>5. H \subseteq 1 .. 3
    BY <1>5
  <2> HIDE DEF H
  <2>6. Min(H) \in H /\ \A n \in H : Min(H) <= n
    BY <2>3, <2>4 DEF Min
  <2>7. Min(H) = m
    <3>1. Min(H) \in 1 .. 3 /\ m <= Min(H) /\ Min(H) <= m
      BY <2>3, <2>4, <2>5, <2>6
    <3> QED
      BY <3>1
  <2> QED
    BY <1>4, <2>1, <2>2, <2>7
<1> QED
  BY <1>2, <1>3, <1>8, <1>9, <1>10

LEMMA HoldingDepends ==
  ASSUME NEW c, NEW d, c.libpaths = d.libpaths
  PROVE  Pairs(c) = Pairs(d)
<1>1. \A l : HoldingIn(c, l) = HoldingIn(d, l)
  BY DEF HoldingIn
<1> QED
  BY <1>1 DEF Pairs

LEMMA SetOfConcat ==
  ASSUME NEW S, NEW s \in Seq(S), NEW t \in Seq(S)
  PROVE  s \o t \in Seq(S) /\ ToSet(s \o t) = ToSet(s) \cup ToSet(t)
<1>1. /\ s \o t \in Seq(S) /\ Len(s \o t) = Len(s) + Len(t)
      /\ \A i \in 1 .. Len(s) + Len(t) : (s \o t)[i] = IF i <= Len(s) THEN s[i] ELSE t[i - Len(s)]
  BY ConcatProperties, Zenon
<1>2. /\ DOMAIN s = 1 .. Len(s) /\ Len(s) \in Nat /\ DOMAIN t = 1 .. Len(t) /\ Len(t) \in Nat
  BY LenProperties
<1> DEFINE u == s \o t
<1>3. DOMAIN u = 1 .. Len(s) + Len(t)
  BY <1>1, LenProperties
<1> DEFINE m == Len(s)
           n == Len(t)
<1>4. m \in Nat /\ n \in Nat /\ DOMAIN s = 1 .. m /\ DOMAIN t = 1 .. n /\ DOMAIN u = 1 .. m + n
  <2> HIDE DEF u
  <2> QED
    BY <1>2, <1>3
<1>9. \A i \in 1 .. m + n : u[i] = IF i <= m THEN s[i] ELSE t[i - m]
  BY <1>1, Zenon
<1> HIDE DEF m, n, u
<1>5. ASSUME NEW i \in DOMAIN u PROVE u[i] \in ToSet(s) \cup ToSet(t)
  <2>1. CASE i <= m
    BY <1>4, <1>9, <2>1 DEF ToSet
  <2>2. CASE ~(i <= m)
    <3>1. i - m \in DOMAIN t /\ u[i] = t[i - m]
      BY <1>4, <1>9, <2>2
    <3> QED
      BY <3>1 DEF ToSet
  <2> QED
    BY <2>1, <2>2
<1>6. \A i \in DOMAIN s : s[i] \in ToSet(u)
  <2> TAKE i \in DOMAIN s
  <2>1. i \in 1 .. m + n /\ u[i] = s[i]
    BY <1>4, <1>9
  <2> QED
    BY <1>4, <1>9, <2>1 DEF ToSet
<1>7. \A i \in DOMAIN t : t[i] \in ToSet(u)
  <2> TAKE i \in DOMAIN t
  <2>1. i + m \in 1 .. m + n /\ u[i + m] = t[i]
    BY <1>4, <1>9
  <2> QED
    BY <1>4, <1>9, <2>1 DEF ToSet
<1>8. ToSet(u) = ToSet(s) \cup ToSet(t)
  BY <1>5, <1>6, <1>7 DEF ToSet
<1> QED
  BY <1>1, <1>8 DEF u

\* A resolution appends exactly what there is to find.
LEMMA ResolveLibs ==
  ASSUME request \in Requests, NEW c, Ready(c), c.done_setup, LibState(c)
  PROVE  LET r == Resolve(c) IN
         /\ r.libs = c.libs /\ r.libpaths = c.libpaths
         /\ r.reallibs \in Seq(Dirs \X Libraries) /\ ToSet(r.reallibs) = Pairs(c)
<1> DEFINE r == Resolve(c)
           F == {l \in Libraries : Places(c, l) # <<>>}
           found == Found(c)
           new == [k \in DOMAIN found |-> <<Head(Places(c, found[k])), found[k]>>]
<1>1. Searches(c)
  BY DEF Ready
<1>2. \A l : /\ Places(c, l) # <<>> <=> HoldingIn(c, l) # {}
             /\ Places(c, l) # <<>> => /\ Head(Places(c, l)) = Order[Min(HoldingIn(c, l))]
                                       /\ Head(Places(c, l)) \in Dirs
  BY <1>1, FirstPlace
<1>3. request.libs \in Seq(Libraries)
  <2>1. request.libs \in BoundedSeq(Libraries, MaxFiles)
    BY DEF Requests
  <2> QED
    BY <2>1, SeqDef, SessionAssumption DEF BoundedSeq, SeqOf, SessionAssumption
<1>4. found \in Seq(Libraries) /\ ToSet(found) = ToSet(request.libs) \cap F
  BY <1>3, AmongProperties DEF Found, LibState
<1>5. DOMAIN found = 1 .. Len(found) /\ Len(found) \in Nat /\ \A k \in DOMAIN found : found[k] \in Libraries \cap F
  <2>1. DOMAIN found = 1 .. Len(found) /\ Len(found) \in Nat
    BY <1>4, LenProperties
  <2> QED
    BY <1>4, <2>1 DEF ToSet
<1> HIDE DEF found
<1>6. new \in Seq(Dirs \X Libraries)
  <2>1. \A k \in 1 .. Len(found) : <<Head(Places(c, found[k])), found[k]>> \in Dirs \X Libraries
    BY <1>2, <1>5
  <2>2. new \in [1 .. Len(found) -> Dirs \X Libraries]
    BY <1>5, <2>1
  <2> HIDE DEF new
  <2> QED
    BY <1>5, <2>2, SeqDef
<1>7. ToSet(new) = Pairs(c)
  <2>1. ToSet(new) = {<<Head(Places(c, l)), l>> : l \in ToSet(found)}
    BY DEF ToSet
  <2>2. ToSet(found) = {x \in ToSet(request.libs) : HoldingIn(c, x) # {}}
    <3>1. ToSet(request.libs) \subseteq Libraries
      BY <1>3, LenProperties, ElementOfSeq DEF ToSet
    <3> QED
      BY <1>2, <1>4, <3>1
  <2>3. \A l \in ToSet(found) : Head(Places(c, l)) = Order[Min(HoldingIn(c, l))]
    BY <1>2, <2>2
  <2> HIDE DEF new
  <2> QED
    BY <2>1, <2>2, <2>3 DEF Pairs
<1>8. r.libs = c.libs /\ r.libpaths = c.libpaths /\ r.reallibs = c.reallibs \o new
  BY DEF Resolve, Ready, Shape, States, found
<1> HIDE DEF new, r
<1>9. c.reallibs \in Seq(Dirs \X Libraries) /\ ToSet(c.reallibs) \subseteq Pairs(c)
  BY DEF LibState
<1>10. /\ c.reallibs \o new \in Seq(Dirs \X Libraries)
       /\ ToSet(c.reallibs \o new) = ToSet(c.reallibs) \cup ToSet(new)
  BY <1>6, <1>9, SetOfConcat
<1> QED
  BY <1>7, <1>8, <1>9, <1>10 DEF r

LEMMA LoadLibs ==
  ASSUME request \in Requests, NEW c, Ready(c), c.done_setup, LibState(c), c.TCC.libs = <<>>
  PROVE  LET r == LoadLibraries(c) IN
         /\ r.libpaths = c.libpaths
         /\ ToSet(r.TCC.libs) = {p \in Pairs(c) : p[2] \in Loadable}
<1> DEFINE q == Resolve(c)
           r == LoadLibraries(c)
           x == Among(q.reallibs, (DOMAIN Holds) \X Loadable)
<1>1. /\ q.libpaths = c.libpaths /\ q.reallibs \in Seq(Dirs \X Libraries)
      /\ ToSet(q.reallibs) = Pairs(c)
  BY ResolveLibs
<1>2. Ready(q) /\ q.TCC = c.TCC
  BY ResolveState
<1>3. r = [q EXCEPT !.TCC.libs = @ \o x]
  BY DEF LoadLibraries
<1> HIDE DEF q, r, x
<1>4. r.libpaths = c.libpaths /\ r.TCC.libs = <<>> \o x
  BY <1>1, <1>2, <1>3 DEF Ready, Shape, States, TinyCCs
<1>5. x \in Seq(Dirs \X Libraries) /\ ToSet(x) = Pairs(c) \cap (Dirs \X Loadable)
  BY <1>1, OrderIs, AmongProperties DEF x
<1>6. <<>> \o x = x
  BY <1>5, ConcatEmptySeq
<1>7. Pairs(c) \subseteq Dirs \X Libraries
  BY <1>1, LenProperties, ElementOfSeq DEF ToSet
<1> QED
  BY <1>4, <1>5, <1>6, <1>7 DEF r

\* As long as no library is touched, nothing about them changes; the set-up
\* finds an empty list.
LEMMA LibKeep ==
  ASSUME NEW c, NEW d, LibState(c), c.TCC.libs = <<>>, SameLibs(c, d)
  PROVE  LibState(d) /\ d.TCC.libs = <<>>
<1>1. d.libs = request.libs /\ d.reallibs = c.reallibs /\ d.TCC.libs = <<>>
      /\ d.reallibs \in Seq(Dirs \X Libraries)
  BY DEF LibState, SameLibs
<1>2. CASE c.done_setup
  <2>1. d.done_setup /\ Pairs(c) = Pairs(d) /\ ToSet(c.reallibs) \subseteq Pairs(c)
    BY <1>2, HoldingDepends DEF LibState, SameLibs
  <2> QED
    BY <1>1, <2>1 DEF LibState
<1>3. CASE ~c.done_setup
  <2>1. d.reallibs = <<>>
    BY <1>1, <1>3 DEF LibState
  <2>2. ToSet(<<>>) = {}
    BY DEF ToSet
  <2> QED
    BY <1>1, <2>1, <2>2 DEF LibState
<1> QED
  BY <1>2, <1>3

\* What is made from c is linked with what the command line names.
LEMMA MadeInOrder ==
  ASSUME NEW c, cjit'.libpaths = c.libpaths, request' = request,
         ToSet(c.TCC.libs) = {p \in Pairs(c) : p[2] \in Loadable}
  PROVE  Wanted' = ToSet(c.TCC.libs)
<1>1. \A l : Holding(l)' = HoldingIn(c, l)
  BY DEF Holding, HoldingIn
<1> DEFINE L == {x \in ToSet(request.libs) \cap Loadable : HoldingIn(c, x) # {}}
<1>2. Wanted' = {<<Order[Min(HoldingIn(c, l))], l>> : l \in L}
  BY <1>1 DEF Wanted
<1>3. {p \in Pairs(c) : p[2] \in Loadable} = {<<Order[Min(HoldingIn(c, l))], l>> : l \in L}
  BY DEF Pairs
<1> QED
  BY <1>2, <1>3

LEMMA NothingLinked == file = Nothing /\ ran = Nothing => LibrariesInOrder
BY DEF LibrariesInOrder

LEMMA LibInit == Init => LibInv
<1> SUFFICES ASSUME Init PROVE LibInv
  OBVIOUS
<1>1. PICK dirs \in Before, refused \in BOOLEAN :
        cjit = [tcc_output |-> Mode, done_setup |-> FALSE, done_exec |-> FALSE,
                libs |-> request.libs, libpaths |-> dirs, reallibs |-> <<>>,
                TCC |-> [NewTCC EXCEPT !.errors = refused]]
  BY DEF Init, Before, Mode
<1>2. [NewTCC EXCEPT !.errors = refused].libs = <<>>
  BY DEF NewTCC
<1>3. LibState(cjit) /\ cjit.TCC.libs = <<>>
  <2>1. /\ cjit.libs = request.libs /\ cjit.reallibs = <<>> /\ cjit.done_setup = FALSE
        /\ cjit.TCC.libs = [NewTCC EXCEPT !.errors = refused].libs
    BY <1>1
  <2>2. <<>> \in Seq(Dirs \X Libraries)
    OBVIOUS
  <2> QED
    BY <1>2, <2>1, <2>2 DEF LibState
<1>4. file = Nothing /\ ran = Nothing
  BY DEF Init
<1> QED
  BY <1>3, <1>4, NothingLinked DEF LibInv

\* A step of the set-up or of the adding leaves the libraries as they were.
LEMMA LibStep ==
  ASSUME IInv, LibInv, phase # "done", SameLibs(cjit, cjit'), UNCHANGED <<request, file, ran>>
  PROVE  LibInv'
<1>1. LibState(cjit') /\ cjit'.TCC.libs = <<>>
  BY LibKeep DEF LibInv
<1>2. LibState(cjit)'
  BY <1>1 DEF LibState, Pairs, HoldingIn
<1>3. LibrariesInOrder'
  <2>1. file' = Nothing /\ ran' = Nothing
    BY DEF IInv, Progress
  <2> QED
    BY <2>1 DEF LibrariesInOrder
<1> QED
  BY <1>1, <1>2, <1>3 DEF LibInv

LEMMA PrintStatusLibs == IInv /\ LibInv /\ PrintStatus => LibInv'
<1> SUFFICES ASSUME IInv, LibInv, PrintStatus PROVE LibInv'
  OBVIOUS
<1>1. PICK p \in Prepare(cjit) : cjit' = IF p.ok THEN Resolve(p.cjit) ELSE p.cjit
  BY DEF PrintStatus
<1>2. phase = "status" /\ UNCHANGED <<request, file, ran>> /\ request \in Requests /\ Ready(cjit)
  BY DEF PrintStatus, IInv
<1>3. Ready(p.cjit) /\ SameLibs(cjit, p.cjit) /\ (p.ok => p.cjit.done_setup)
  BY <1>1, <1>2, PrepareState DEF Prepared
<1>4. CASE ~p.ok
  BY <1>1, <1>2, <1>3, <1>4, LibStep
<1>5. CASE p.ok
  <2> DEFINE c == p.cjit
             r == Resolve(c)
  <2>1. LibState(c) /\ c.TCC.libs = <<>> /\ Ready(c) /\ c.done_setup
    BY <1>2, <1>3, <1>5, LibKeep DEF LibInv
  <2>2. /\ r.libs = c.libs /\ r.libpaths = c.libpaths
        /\ r.reallibs \in Seq(Dirs \X Libraries) /\ ToSet(r.reallibs) = Pairs(c)
    BY <1>2, <2>1, ResolveLibs
  <2>3. r.done_setup /\ r.TCC = c.TCC
    BY <2>1, ResolveState
  <2>4. cjit' = r
    BY <1>1, <1>5
  <2> HIDE DEF c, r
  <2>5. Pairs(r) = Pairs(c)
    BY <2>2, HoldingDepends
  <2>6. LibState(r) /\ r.TCC.libs = <<>>
    BY <2>1, <2>2, <2>3, <2>5 DEF LibState
  <2>7. LibState(cjit)' /\ cjit'.TCC.libs = <<>>
    <3>1. request' = request
      BY <1>2
    <3>2. LibState(cjit') /\ cjit'.TCC.libs = <<>>
      BY <2>4, <2>6
    <3> QED
      BY <3>1, <3>2 DEF LibState, Pairs, HoldingIn
  <2>8. file' = Nothing /\ ran' = Nothing
    BY <1>2 DEF IInv, Progress
  <2> QED
    BY <2>7, <2>8 DEF LibInv, LibrariesInOrder
<1> QED
  BY <1>4, <1>5

LEMMA AddLibs ==
  ASSUME IInv, LibInv, phase # "done", UNCHANGED <<request, file, ran>>,
         NEW f, NEW p \in Add(cjit, f), cjit' = p.cjit
  PROVE  LibInv'
<1>1. Added(cjit, f, p)
  BY AddState DEF IInv
<1> QED
  BY <1>1, LibStep DEF Added

LEMMA AddStdinLibs == IInv /\ LibInv /\ AddStdin => LibInv'
<1> SUFFICES ASSUME IInv, LibInv, AddStdin PROVE LibInv'
  OBVIOUS
<1>1. phase # "done" /\ UNCHANGED <<request, file, ran>>
  BY DEF AddStdin, Adding
<1>2. CASE UNCHANGED cjit
  BY <1>1, <1>2, LibStep DEF SameLibs
<1>3. CASE \E p \in Add(cjit, Stdin) : cjit' = p.cjit
  BY <1>1, <1>3, AddLibs
<1> QED
  BY <1>2, <1>3 DEF AddStdin

LEMMA LinkExecutableLibs == IInv /\ LibInv /\ LinkExecutable => LibInv'
<1> SUFFICES ASSUME IInv, LibInv, LinkExecutable PROVE LibInv'
  OBVIOUS
<1>1. /\ phase = "sources" /\ phase' = "done" /\ ran' = Nothing /\ request' = request
      /\ request \in Requests /\ Ready(cjit) /\ file = Nothing
  BY DEF LinkExecutable, Finished, Output, Exit, IInv, Progress
<1>2. CASE UNCHANGED file
  BY <1>1, <1>2 DEF LibInv, LibrariesInOrder
<1> DEFINE c == LoadLibraries(cjit)
<1>3. CASE /\ cjit.done_setup /\ file' = Artefact(c, -2)
           /\ cjit' = [c EXCEPT !.TCC.errors = FALSE]
  <2>1. ToSet(c.TCC.libs) = {p \in Pairs(cjit) : p[2] \in Loadable} /\ c.libpaths = cjit.libpaths
    BY <1>1, <1>3, LoadLibs DEF LibInv
  <2>2. Ready(c)
    BY <1>1, LoadState
  <2> HIDE DEF c
  <2>3. Pairs(c) = Pairs(cjit) /\ cjit'.libpaths = c.libpaths
    BY <1>3, <2>1, <2>2, HoldingDepends DEF Ready, Shape, States
  <2>4. Wanted' = ToSet(c.TCC.libs)
    BY <1>1, <2>1, <2>3, MadeInOrder
  <2>5. file'.libs = c.TCC.libs
    BY <1>3 DEF Artefact
  <2> QED
    BY <1>1, <2>4, <2>5 DEF LibInv, LibrariesInOrder
<1> QED
  BY <1>2, <1>3 DEF LinkExecutable, Output

LEMMA CompileObjectLibs == IInv /\ LibInv /\ CompileObject => LibInv'
<1> SUFFICES ASSUME IInv, LibInv, CompileObject PROVE LibInv'
  OBVIOUS
<1>1. phase' = "done"
  BY DEF CompileObject, Output, Exit
<1>2. request'.route = "object" /\ ran' = Nothing
  BY DEF CompileObject, IInv, Progress
<1> QED
  BY <1>1, <1>2 DEF LibInv, LibrariesInOrder

LEMMA ExecuteProgramLibs == IInv /\ LibInv /\ ExecuteProgram => LibInv'
<1> SUFFICES ASSUME IInv, LibInv, ExecuteProgram PROVE LibInv'
  OBVIOUS
<1>1. /\ phase = "sources" /\ phase' = "done" /\ file' = Nothing /\ request' = request
      /\ request \in Requests /\ Ready(cjit) /\ ran = Nothing
  BY DEF ExecuteProgram, Finished, Exit, IInv, Progress
<1>2. CASE UNCHANGED ran
  BY <1>1, <1>2 DEF LibInv, LibrariesInOrder
<1> DEFINE c == LoadLibraries(cjit)
           linked == [c EXCEPT !.TCC.errors = FALSE]
<1>3. ASSUME cjit.done_setup, cjit' = [linked EXCEPT !.done_exec = TRUE],
             NEW n \in Exits, ran' = Artefact(c, n)
      PROVE  LibInv'
  <2>1. ToSet(c.TCC.libs) = {p \in Pairs(cjit) : p[2] \in Loadable} /\ c.libpaths = cjit.libpaths
    BY <1>1, <1>3, LoadLibs DEF LibInv
  <2>2. Ready(c)
    BY <1>1, LoadState
  <2> HIDE DEF c
  <2>3. cjit'.libpaths = linked.libpaths /\ linked.libpaths = c.libpaths
    BY <1>3, <2>2 DEF Ready, Shape, States
  <2>4. Pairs(c) = Pairs(cjit)
    BY <2>1, HoldingDepends
  <2>5. Wanted' = ToSet(c.TCC.libs)
    BY <1>1, <2>1, <2>3, <2>4, MadeInOrder
  <2>6. ran'.libs = c.TCC.libs
    BY <1>3 DEF Artefact
  <2> QED
    BY <1>1, <2>5, <2>6 DEF LibInv, LibrariesInOrder
<1> QED
  BY <1>2, <1>3 DEF ExecuteProgram

LEMMA LibStutter == IInv /\ LibInv /\ UNCHANGED vars => LibInv'
<1> SUFFICES ASSUME IInv, LibInv, UNCHANGED vars PROVE LibInv'
  OBVIOUS
<1>1. UNCHANGED <<request, phase, cjit, file, ran>>
  BY DEF vars
<1>2. LibState(cjit)' <=> LibState(cjit)
  BY <1>1 DEF LibState, Pairs, HoldingIn
<1>3. LibrariesInOrder' <=> LibrariesInOrder
  BY <1>1 DEF LibrariesInOrder, Wanted, Holding
<1> QED
  BY <1>1, <1>2, <1>3 DEF LibInv

LEMMA LibNext == IInv /\ LibInv /\ [Next]_vars => LibInv'
<1> SUFFICES ASSUME IInv, LibInv, [Next]_vars PROVE LibInv'
  OBVIOUS
<1>1. CASE AddSource
  <2>1. phase # "done" /\ UNCHANGED <<request, file, ran>>
    BY <1>1 DEF AddSource, Adding
  <2>2. \E p \in Add(cjit, ToAdd[next]) : cjit' = p.cjit
    BY <1>1 DEF AddSource
  <2> QED
    BY <2>1, <2>2, AddLibs
<1> QED
  BY <1>1, PrintStatusLibs, AddStdinLibs, LinkExecutableLibs, CompileObjectLibs,
     ExecuteProgramLibs, LibStutter DEF Next

\* The libraries a program or an executable is linked with are those the
\* command line names that can be loaded, each from the first directory of the
\* search order that holds it, however often they were resolved on the way.
THEOREM LibrariesInOrderHolds == Spec => []LibrariesInOrder
<1>1. Init => IInv /\ LibInv
  BY InitInv, LibInit
<1>2. IInv /\ LibInv /\ [Next]_vars => IInv' /\ LibInv'
  BY StepInv, LibNext
<1>3. LibInv => LibrariesInOrder
  BY DEF LibInv
<1> QED
  BY <1>1, <1>2, <1>3, PTL DEF Spec
=============================================================================
