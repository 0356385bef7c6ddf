---------------------------- MODULE ToolRuntimeProofs ----------------------------
(***************************************************************************)
(* Which calls the Tool Runtime lets run, that the reasons of its plans are*)
(* bounded, that a patch apply_patch applied can be taken back, and that   *)
(* run_command judges two lines as each of them and lets no command through*)
(* that names a path outside the workspace: for any number of runtimes, of *)
(* prepared calls and of identities, any limit, text, patch and command,   *)
(* and any tree of files, whatever is registered and asked.                *)
(*                                                                         *)
(* The reverse of a patch runs beside the patch: after each line and each  *)
(* hunk the reverse has read what the patch has written, and has written   *)
(* what the patch has read (Mirror).  What FoldLeft computes is reached    *)
(* through the sets of positions it is defined by (FoldExists, FoldGrows). *)
(*                                                                         *)
(* A command line is judged by folds over its symbols and its commands, all*)
(* of them on one budget of probes.  Two lines are judged as each is since *)
(* the parser reads the second after the newline as alone (After), and     *)
(* since what earlier probes found has been paid for (Paid): whoever spent *)
(* less and knows less finds no less (Below, Frugal).                      *)
(***************************************************************************)
EXTENDS CodingTools, SequenceTheorems, FiniteSetTheorems, WellFoundedInduction, TLAPS

Definitions ==
    {NoTool} \cup {coding_manifest[name] : name \in BUILTIN_TOOL_NAMES}
             \cup UNION {Workloads[w].definitions : w \in DOMAIN Workloads}

Runtime == [identity : Nat, tools : [ToolNames -> Definitions]]

------------------------------------
(* Induction *)

\* Every set of numbers that is not empty has a least element.
LEMMA LeastElement ==
    ASSUME NEW T \in SUBSET Nat, T # {}
    PROVE  \E x \in T : \A y \in T : ~(y < x)
<1> DEFINE R == {ss \in Nat \X Nat : ss[1] < ss[2]}
<1>1. IsWellFoundedOn(R, Nat)
  BY NatLessThanWellFounded DEF OpToRel
<1>2. \E x \in T : \A y \in T : <<y, x>> \notin R
  <2> HIDE DEF R
  <2> QED
    BY <1>1, WFMin
<1> QED
  BY <1>2

\* A set of numbers that has 0 and, with each number, the next one, has them all.
LEMMA Induction ==
    ASSUME NEW P \in SUBSET Nat, 0 \in P, \A n \in P : n + 1 \in P
    PROVE  P = Nat
<1> SUFFICES ASSUME Nat \ P # {} PROVE FALSE
  OBVIOUS
<1>1. PICK x \in Nat \ P : \A y \in Nat \ P : ~(y < x)
  BY LeastElement
<1>2. x # 0 /\ x - 1 \in Nat
  BY <1>1
<1>3. x - 1 \in P
  BY <1>1, <1>2
<1> QED
  BY <1>1, <1>2, <1>3

\* What Max takes off a set of positions.
LEMMA MaxOfPositions ==
    ASSUME NEW n \in Nat, NEW s \in SUBSET (1..(n + 1))
    PROVE  /\ s # {} => Max(s) \in s
           /\ n + 1 \in s => Max(s) = n + 1
<1>1. ASSUME s # {} PROVE Max(s) \in s /\ \A y \in s : Max(s) >= y
  <2> DEFINE T == {k \in Nat : \A x \in s : x <= k}
  <2>1. n + 1 \in T
    OBVIOUS
  <2>2. PICK k \in T : \A y \in T : ~(y < k)
    BY <2>1, LeastElement
  <2>3. k \in s
    <3> SUFFICES ASSUME k \notin s PROVE FALSE
      OBVIOUS
    <3>1. PICK x \in s : x \in 1..(n + 1)
      BY <1>1
    <3>2. k \in Nat /\ k >= 1
      BY <3>1
    <3>3. \A y \in s : y <= k - 1
      <4> TAKE y \in s
      <4>1. y \in Nat /\ y <= k /\ y # k
        OBVIOUS
      <4> QED
        BY <3>2, <4>1
    <3>4. k - 1 \in T
      BY <3>2, <3>3
    <3> QED
      BY <2>2, <3>2, <3>4
  <2>4. \A y \in s : k >= y
    BY <2>2
  <2> QED
    BY <2>3, <2>4 DEF Max
<1>2. ASSUME n + 1 \in s PROVE Max(s) = n + 1
  <2>1. Max(s) \in 1..(n + 1) /\ Max(s) >= n + 1
    BY <1>1, <1>2
  <2> QED
    BY <2>1
<1> QED
  BY <1>1, <1>2

------------------------------------
(* Folds of a sequence *)

\* g is the function that defines the fold of n values, by sets of positions whose
\* greatest is taken off first; step[<<x, i>>] is what position i makes of x.
IsFold(g, n, base, step) ==
    \A s \in SUBSET (1..n) :
        g[s] = IF s = {} THEN base ELSE step[<<g[s \ {Max(s)}], Max(s)>>]

\* The recursion defines a function, if the steps stay in a set.
LEMMA FoldExists ==
    ASSUME NEW n \in Nat, NEW A, NEW base \in A, NEW step \in [A \X (1..n) -> A]
    PROVE  \E g \in [SUBSET (1..n) -> A] : IsFold(g, n, base, step)
<1> DEFINE Some(k) == \E g \in [SUBSET (1..k) -> A] : IsFold(g, k, base, step)
           P == {k \in Nat : k <= n => Some(k)}
<1> HIDE DEF Some
<1>1. 0 \in P
  <2> DEFINE g == [s \in SUBSET (1..0) |-> base]
  <2>1. SUBSET (1..0) = {{}}
    OBVIOUS
  <2>2. g \in [SUBSET (1..0) -> A] /\ IsFold(g, 0, base, step)
    BY <2>1 DEF IsFold
  <2> QED
    BY <2>2 DEF Some
<1>2. ASSUME NEW k \in P PROVE k + 1 \in P
  <2> SUFFICES ASSUME k + 1 <= n PROVE Some(k + 1)
    OBVIOUS
  <2>0. k \in Nat /\ k + 1 \in 1..n /\ Some(k)
    OBVIOUS
  <2>1. PICK g \in [SUBSET (1..k) -> A] : IsFold(g, k, base, step)
    BY <2>0 DEF Some
  <2>2. \A s \in SUBSET (1..k) :
           g[s] = IF s = {} THEN base ELSE step[<<g[s \ {Max(s)}], Max(s)>>]
    BY <2>1 DEF IsFold
  <2> DEFINE h == [s \in SUBSET (1..(k + 1)) |->
                      IF k + 1 \in s THEN step[<<g[s \ {k + 1}], k + 1>>] ELSE g[s]]
  <2>3. h \in [SUBSET (1..(k + 1)) -> A]
    <3>1. ASSUME NEW s \in SUBSET (1..(k + 1)) PROVE h[s] \in A
      <4>1. CASE k + 1 \in s
        <5>1. s \ {k + 1} \in SUBSET (1..k)
          BY <2>0
        <5>2. g[s \ {k + 1}] \in A
          BY <2>1, <5>1
        <5>3. step[<<g[s \ {k + 1}], k + 1>>] \in A
          BY <2>0, <5>2
        <5> QED
          BY <4>1, <5>3
      <4>2. CASE k + 1 \notin s
        <5>1. s \in SUBSET (1..k)
          BY <2>0, <4>2
        <5> QED
          BY <2>1, <4>2, <5>1
      <4> QED
        BY <4>1, <4>2
    <3> QED
      BY <3>1
  <2>4. ASSUME NEW s \in SUBSET (1..(k + 1))
        PROVE  h[s] = IF s = {} THEN base ELSE step[<<h[s \ {Max(s)}], Max(s)>>]
    <3>1. CASE k + 1 \in s
      <4>1. s \ {k + 1} \in SUBSET (1..(k + 1)) /\ k + 1 \notin s \ {k + 1}
        OBVIOUS
      <4>2. h[s \ {k + 1}] = g[s \ {k + 1}]
        BY <4>1
      <4>3. Max(s) = k + 1
        BY <2>0, <3>1, MaxOfPositions
      <4> QED
        BY <3>1, <4>2, <4>3
    <3>2. CASE k + 1 \notin s
      <4>1. s \in SUBSET (1..k)
        BY <2>0, <3>2
      <4>2. CASE s = {}
        BY <2>2, <3>2, <4>1, <4>2
      <4>3. CASE s # {}
        <5>1. s \ {Max(s)} \in SUBSET (1..(k + 1)) /\ k + 1 \notin s \ {Max(s)}
          BY <3>2
        <5>2. h[s \ {Max(s)}] = g[s \ {Max(s)}]
          BY <5>1
        <5>3. h[s] = g[s]
          BY <3>2
        <5> QED
          BY <2>2, <4>1, <4>3, <5>2, <5>3
      <4> QED
        BY <4>2, <4>3
    <3> QED
      BY <3>1, <3>2
  <2> HIDE DEF h
  <2> QED
    BY <2>3, <2>4 DEF IsFold, Some
<1> HIDE DEF P
<1>3. P = Nat
  <2>1. P \in SUBSET Nat
    BY DEF P
  <2> QED
    BY <1>1, <1>2, <2>1, Induction
<1>4. n \in P /\ n <= n
  BY <1>3
<1> QED
  BY <1>4 DEF P, Some

\* The first k + 1 positions, and what is left of them.
LEMMA FirstPositions ==
    ASSUME NEW n \in Nat, NEW k \in 0..(n - 1)
    PROVE  /\ 1..(k + 1) \in SUBSET (1..n) /\ 1..(k + 1) # {}
           /\ Max(1..(k + 1)) = k + 1 /\ (1..(k + 1)) \ {k + 1} = 1..k
<1>1. k \in Nat /\ k + 1 \in 1..(k + 1) /\ 1..(k + 1) \in SUBSET (1..n)
  OBVIOUS
<1>2. (1..(k + 1)) \ {k + 1} = 1..k
  OBVIOUS
<1>3. Max(1..(k + 1)) = k + 1
  <2> DEFINE s == 1..(k + 1)
  <2>1. s \in SUBSET (1..(k + 1)) /\ k + 1 \in s
    BY <1>1
  <2> HIDE DEF s
  <2>2. Max(s) = k + 1
    BY <1>1, <2>1, MaxOfPositions
  <2> QED
    BY <2>2 DEF s
<1> QED
  BY <1>1, <1>2, <1>3

------------------------------------
(* Approval reasons *)

\* The size of a text is the sum of the sizes of its characters.
LEMMA TextBytes ==
    ASSUME NEW text \in Seq(Characters)
    PROVE  \E b \in [0..Len(text) -> Nat] :
              /\ b[0] = 0
              /\ \A k \in 0..(Len(text) - 1) :
                    b[k + 1] = b[k] + serialized_json_character_bytes(text[k + 1])
              /\ serialized_json_string_content_bytes(text) = b[Len(text)]
<1> DEFINE n == Len(text)
           Bytes(i) == serialized_json_character_bytes(text[i])
           Sums(g) == g = [s \in SUBSET (1..n) |->
                              IF s = {} THEN 0 ELSE g[s \ {Max(s)}] + Bytes(Max(s))]
           iter == CHOOSE g : Sums(g)
           step == [x \in Nat \X (1..n) |-> x[1] + Bytes(x[2])]
<1>1. n \in Nat /\ DOMAIN text = 1..n
  OBVIOUS
<1>2. \A i : Bytes(i) \in Nat
  BY DEF serialized_json_character_bytes
<1>3. serialized_json_string_content_bytes(text) = iter[1..n]
  BY <1>1 DEF serialized_json_string_content_bytes, FoldLeft, MapThenFoldSet
<1> HIDE DEF Bytes, n
<1>4. \E g : Sums(g)
  <2>1. step \in [Nat \X (1..n) -> Nat]
    BY <1>2
  <2> HIDE DEF step
  <2>2. PICK g \in [SUBSET (1..n) -> Nat] : IsFold(g, n, 0, step)
    BY <1>1, <2>1, FoldExists
  <2>3. ASSUME NEW s \in SUBSET (1..n)
        PROVE  g[s] = IF s = {} THEN 0 ELSE g[s \ {Max(s)}] + Bytes(Max(s))
    <3>1. CASE s = {}
      BY <2>2, <3>1 DEF IsFold
    <3>2. CASE s # {}
      <4>1. Max(s) \in 1..n
        <5>1. s \in SUBSET (1..(n + 1))
          BY <1>1
        <5> QED
          BY <1>1, <3>2, <5>1, MaxOfPositions
      <4>2. g[s \ {Max(s)}] \in Nat
        BY <2>2
      <4>3. g[s] = step[<<g[s \ {Max(s)}], Max(s)>>]
        BY <2>2, <3>2 DEF IsFold
      <4> QED
        BY <3>2, <4>1, <4>2, <4>3 DEF step
    <3> QED
      BY <3>1, <3>2
  <2> QED
    BY <2>2, <2>3
<1> HIDE DEF step
<1>5. Sums(iter)
  BY <1>4
<1> HIDE DEF iter
<1>6. iter[1..0] = 0
  <2>1. 1..0 = {} /\ {} \in SUBSET (1..n)
    OBVIOUS
  <2> QED
    BY <1>5, <2>1
<1>7. ASSUME NEW k \in 0..(n - 1) PROVE iter[1..(k + 1)] = iter[1..k] + Bytes(k + 1)
  <2> DEFINE s == 1..(k + 1)
  <2>1. s \in SUBSET (1..n) /\ s # {} /\ Max(s) = k + 1 /\ s \ {k + 1} = 1..k
    BY <1>1, FirstPositions
  <2> HIDE DEF s
  <2>2. iter[s] = iter[1..k] + Bytes(k + 1)
    BY <1>5, <2>1
  <2> QED
    BY <2>2 DEF s
<1>8. \A k \in 0..n : iter[1..k] \in Nat
  <2> DEFINE P == {k \in Nat : k <= n => iter[1..k] \in Nat}
  <2>1. 0 \in P
    BY <1>6
  <2>2. ASSUME NEW k \in P PROVE k + 1 \in P
    <3> SUFFICES ASSUME k + 1 <= n PROVE iter[1..(k + 1)] \in Nat
      OBVIOUS
    <3>1. k \in 0..(n - 1) /\ iter[1..k] \in Nat
      BY <1>1
    <3> QED
      BY <1>2, <1>7, <3>1
  <2> HIDE DEF P
  <2>3. P \in SUBSET Nat
    BY DEF P
  <2>4. P = Nat
    BY <2>1, <2>2, <2>3, Induction
  <2> QED
    BY <1>1, <2>4 DEF P
<1> DEFINE b == [k \in 0..n |-> iter[1..k]]
<1>9. /\ b \in [0..n -> Nat] /\ b[0] = 0 /\ b[n] = iter[1..n]
      /\ \A k \in 0..(n - 1) : b[k + 1] = b[k] + Bytes(k + 1)
  BY <1>1, <1>6, <1>7, <1>8
<1> HIDE DEF b
<1> QED
  BY <1>3, <1>9 DEF n, Bytes

\* One character of the loop of bound_approval_reason.
KeepStep(a, c, budget) ==
    LET bytes == serialized_json_character_bytes(c) IN
    IF a.full \/ a.bytes + bytes > budget THEN [a EXCEPT !.full = TRUE]
    ELSE [a EXCEPT !.bytes = @ + bytes, !.text = Append(@, c)]

NothingKept == [full |-> FALSE, bytes |-> 0, text |-> <<>>]

\* The loop, character by character.
LEMMA KeptSteps ==
    ASSUME NEW text \in Seq(Characters), NEW budget \in Nat
    PROVE  \E a : /\ a[0] = NothingKept
                  /\ \A k \in 0..(Len(text) - 1) :
                        a[k + 1] = KeepStep(a[k], text[k + 1], budget)
                  /\ KeptPrefix(text, budget) = a[Len(text)].text
<1> DEFINE n == Len(text)
           States == [full : BOOLEAN, bytes : Nat, text : Seq(Characters)]
           Keeps(g) == g = [s \in SUBSET (1..n) |->
                               IF s = {} THEN NothingKept
                               ELSE KeepStep(g[s \ {Max(s)}], text[Max(s)], budget)]
           iter == CHOOSE g : Keeps(g)
           step == [x \in States \X (1..n) |-> KeepStep(x[1], text[x[2]], budget)]
<1>1. n \in Nat /\ DOMAIN text = 1..n /\ \A i \in 1..n : text[i] \in Characters
  OBVIOUS
<1>2. KeptPrefix(text, budget) = iter[1..n].text
  BY <1>1 DEF KeptPrefix, FoldLeft, MapThenFoldSet, KeepStep, NothingKept
<1> HIDE DEF n
<1>3. \E g : Keeps(g)
  <2>1. ASSUME NEW x \in States, NEW c \in Characters PROVE KeepStep(x, c, budget) \in States
    <3>1. serialized_json_character_bytes(c) \in Nat
      BY DEF serialized_json_character_bytes
    <3>2. [x EXCEPT !.full = TRUE] \in States
      OBVIOUS
    <3>3. x.bytes + serialized_json_character_bytes(c) \in Nat /\ Append(x.text, c) \in Seq(Characters)
      BY <3>1
    <3>4. [x EXCEPT !.bytes = @ + serialized_json_character_bytes(c),
                    !.text = Append(@, c)] \in States
      BY <3>3
    <3> HIDE DEF States
    <3> QED
      BY <3>2, <3>4 DEF KeepStep
  <2>2. step \in [States \X (1..n) -> States]
    <3>1. ASSUME NEW x \in States, NEW i \in 1..n
          PROVE  KeepStep(x, text[i], budget) \in States
      BY <1>1, <2>1
    <3> HIDE DEF States
    <3> QED
      BY <3>1
  <2>3. NothingKept \in States
    BY DEF NothingKept
  <2> HIDE DEF step, States
  <2>4. PICK g \in [SUBSET (1..n) -> States] : IsFold(g, n, NothingKept, step)
    BY <1>1, <2>2, <2>3, FoldExists
  <2>5. ASSUME NEW s \in SUBSET (1..n)
        PROVE  g[s] = IF s = {} THEN NothingKept
                      ELSE KeepStep(g[s \ {Max(s)}], text[Max(s)], budget)
    <3>1. CASE s = {}
      BY <2>4, <3>1 DEF IsFold
    <3>2. CASE s # {}
      <4>1. Max(s) \in 1..n
        <5>1. s \in SUBSET (1..(n + 1))
          BY <1>1
        <5> QED
          BY <1>1, <3>2, <5>1, MaxOfPositions
      <4>2. g[s \ {Max(s)}] \in States
        BY <2>4
      <4>3. g[s] = step[<<g[s \ {Max(s)}], Max(s)>>]
        BY <2>4, <3>2 DEF IsFold
      <4> QED
        BY <3>2, <4>1, <4>2, <4>3 DEF step
    <3> QED
      BY <3>1, <3>2
  <2> QED
    BY <2>4, <2>5
<1> HIDE DEF step
<1>4. Keeps(iter)
  BY <1>3
<1> HIDE DEF iter
<1>5. iter[1..0] = NothingKept
  <2>1. 1..0 = {} /\ {} \in SUBSET (1..n)
    OBVIOUS
  <2> QED
    BY <1>4, <2>1
<1>6. ASSUME NEW k \in 0..(n - 1)
      PROVE  iter[1..(k + 1)] = KeepStep(iter[1..k], text[k + 1], budget)
  <2> DEFINE s == 1..(k + 1)
  <2>1. s \in SUBSET (1..n) /\ s # {} /\ Max(s) = k + 1 /\ s \ {k + 1} = 1..k
    BY <1>1, FirstPositions
  <2> HIDE DEF s
  <2>2. iter[s] = KeepStep(iter[1..k], text[k + 1], budget)
    BY <1>4, <2>1
  <2> QED
    BY <2>2 DEF s
<1> DEFINE a == [k \in 0..n |-> iter[1..k]]
<1>7. /\ a[0] = NothingKept /\ a[n] = iter[1..n]
      /\ \A k \in 0..(n - 1) : a[k + 1] = KeepStep(a[k], text[k + 1], budget)
  BY <1>1, <1>5, <1>6
<1> HIDE DEF a
<1> QED
  BY <1>2, <1>7 DEF n

\* The sizes of the starts of a text, which only grow.
LEMMA PrefixBytes ==
    ASSUME NEW text \in Seq(Characters)
    PROVE  \E b \in [0..Len(text) -> Nat] :
              /\ b[0] = 0
              /\ \A k \in 0..(Len(text) - 1) :
                    b[k + 1] = b[k] + serialized_json_character_bytes(text[k + 1])
              /\ \A k \in 0..Len(text) :
                    serialized_json_string_content_bytes(SubSeq(text, 1, k)) = b[k]
              /\ \A j, k \in 0..Len(text) : j <= k => b[j] <= b[k]
<1> DEFINE n == Len(text)
           Bytes(i) == serialized_json_character_bytes(text[i])
           IsSum(b) == b \in [0..n -> Nat] /\ b[0] = 0
                       /\ \A k \in 0..(n - 1) : b[k + 1] = b[k] + Bytes(k + 1)
<1>1. PICK b : IsSum(b)
  BY TextBytes
<1>2. \A i : Bytes(i) \in Nat
  BY DEF serialized_json_character_bytes
<1>3. ASSUME NEW m \in 0..n
      PROVE  serialized_json_string_content_bytes(SubSeq(text, 1, m)) = b[m]
  <2> DEFINE t == SubSeq(text, 1, m)
  <2>1. t \in Seq(Characters) /\ Len(t) = m /\ m \in Nat /\ n \in Nat
        /\ \A i \in 1..m : t[i] = text[i]
    OBVIOUS
  <2> HIDE DEF t
  <2>2. PICK d \in [0..m -> Nat] :
           /\ d[0] = 0
           /\ \A k \in 0..(m - 1) : d[k + 1] = d[k] + serialized_json_character_bytes(t[k + 1])
           /\ serialized_json_string_content_bytes(t) = d[m]
    <3>1. \E d \in [0..Len(t) -> Nat] :
             /\ d[0] = 0
             /\ \A k \in 0..(Len(t) - 1) :
                   d[k + 1] = d[k] + serialized_json_character_bytes(t[k + 1])
             /\ serialized_json_string_content_bytes(t) = d[Len(t)]
      BY <2>1, TextBytes
    <3> QED
      BY <2>1, <3>1
  <2>3. \A k \in 0..(m - 1) : d[k + 1] = d[k] + Bytes(k + 1)
    BY <2>1, <2>2
  <2> HIDE DEF Bytes, n
  <2> DEFINE P == {k \in Nat : k <= m => d[k] = b[k]}
  <2>4. 0 \in P
    BY <1>1, <2>2
  <2>5. ASSUME NEW k \in P PROVE k + 1 \in P
    <3> SUFFICES ASSUME k + 1 <= m PROVE d[k + 1] = b[k + 1]
      OBVIOUS
    <3>1. k \in 0..(m - 1) /\ k \in 0..(n - 1) /\ d[k] = b[k]
      BY <2>1
    <3> QED
      BY <1>1, <2>3, <3>1
  <2> HIDE DEF P
  <2>6. P \in SUBSET Nat
    BY DEF P
  <2>7. P = Nat
    BY <2>4, <2>5, <2>6, Induction
  <2>8. d[m] = b[m]
    BY <2>1, <2>7 DEF P
  <2> QED
    BY <2>2, <2>8 DEF t
<1>4. ASSUME NEW j \in 0..n, NEW k \in 0..n, j <= k PROVE b[j] <= b[k]
  <2>1. n \in Nat
    OBVIOUS
  <2> HIDE DEF Bytes, n
  <2> DEFINE P == {i \in Nat : j + i <= n => b[j] <= b[j + i]}
  <2>2. 0 \in P
    BY <1>1, <2>1
  <2>3. ASSUME NEW i \in P PROVE i + 1 \in P
    <3> SUFFICES ASSUME j + (i + 1) <= n PROVE b[j] <= b[j + (i + 1)]
      OBVIOUS
    <3>1. j + i \in 0..(n - 1) /\ j + (i + 1) = (j + i) + 1 /\ b[j] <= b[j + i]
      BY <2>1
    <3>2. b[(j + i) + 1] = b[j + i] + Bytes((j + i) + 1)
      BY <1>1, <3>1
    <3>3. b[j] \in Nat /\ b[j + i] \in Nat /\ Bytes((j + i) + 1) \in Nat
      BY <1>1, <1>2, <2>1, <3>1
    <3> QED
      BY <3>1, <3>2, <3>3
  <2> HIDE DEF P
  <2>4. P \in SUBSET Nat
    BY DEF P
  <2>5. P = Nat
    BY <2>2, <2>3, <2>4, Induction
  <2>6. k - j \in P /\ j + (k - j) = k
    BY <1>4, <2>1, <2>5
  <2> QED
    BY <2>1, <2>6 DEF P
<1> QED
  BY <1>1, <1>3, <1>4

\* A cut text is the longest start of it that fits.
LEMMA KeptIsLongest ==
    ASSUME NEW text \in Seq(Characters), NEW budget \in Nat
    PROVE  \E k \in 0..Len(text) :
              /\ KeptPrefix(text, budget) = SubSeq(text, 1, k)
              /\ \A m \in 0..Len(text) :
                    serialized_json_string_content_bytes(SubSeq(text, 1, m)) <= budget <=> m <= k
<1> DEFINE n == Len(text)
           Bytes(i) == serialized_json_character_bytes(text[i])
           Sum(k) == serialized_json_string_content_bytes(SubSeq(text, 1, k))
<1>1. PICK b \in [0..n -> Nat] :
         /\ b[0] = 0
         /\ \A k \in 0..(n - 1) : b[k + 1] = b[k] + Bytes(k + 1)
         /\ \A k \in 0..n : Sum(k) = b[k]
         /\ \A j, k \in 0..n : j <= k => b[j] <= b[k]
  BY PrefixBytes
<1>2. PICK a : /\ a[0] = NothingKept
               /\ \A k \in 0..(n - 1) : a[k + 1] = KeepStep(a[k], text[k + 1], budget)
               /\ KeptPrefix(text, budget) = a[n].text
  BY KeptSteps
<1>3. /\ n \in Nat /\ SubSeq(text, 1, 0) = <<>>
      /\ \A k \in 0..(n - 1) : Append(SubSeq(text, 1, k), text[k + 1]) = SubSeq(text, 1, k + 1)
  <2>1. ASSUME NEW k \in 0..(n - 1)
        PROVE  Append(SubSeq(text, 1, k), text[k + 1]) = SubSeq(text, 1, k + 1)
    OBVIOUS
  <2> QED
    BY <2>1
<1>4. \A i : Bytes(i) \in Nat
  BY DEF serialized_json_character_bytes
<1> DEFINE Longest(k) == b[k] <= budget /\ (k < n => b[k + 1] > budget)
           Kept(j) == /\ a[j] = [full |-> a[j].full, bytes |-> a[j].bytes, text |-> a[j].text]
                      /\ a[j].full \in BOOLEAN
                      /\ ~a[j].full => /\ a[j].text = SubSeq(text, 1, j)
                                       /\ a[j].bytes = b[j] /\ b[j] <= budget
                      /\ a[j].full => \E k \in 0..(j - 1) :
                                         a[j].text = SubSeq(text, 1, k) /\ Longest(k)
<1> HIDE DEF n, Bytes, Sum, Longest, Kept
<1>5. \A j \in 0..n : Kept(j)
  <2> DEFINE P == {j \in Nat : j <= n => Kept(j)}
  <2>1. 0 \in P
    <3>1. a[0] = [full |-> FALSE, bytes |-> 0, text |-> <<>>] /\ b[0] = 0
      BY <1>1, <1>2 DEF NothingKept
    <3>2. Kept(0)
      BY <1>3, <3>1 DEF Kept
    <3> QED
      BY <3>2
  <2>2. ASSUME NEW j \in P PROVE j + 1 \in P
    <3> SUFFICES ASSUME j + 1 <= n PROVE Kept(j + 1)
      OBVIOUS
    <3>1. j \in 0..(n - 1) /\ Kept(j)
      BY <1>3
    <3>2. a[j + 1] = KeepStep(a[j], text[j + 1], budget)
      BY <1>2, <3>1
    <3>3. b[j + 1] = b[j] + Bytes(j + 1)
      BY <1>1, <3>1
    <3>4. CASE a[j].full
      <4>1. a[j + 1] = [a[j] EXCEPT !.full = TRUE]
        BY <3>2, <3>4 DEF KeepStep
      <4>2. a[j + 1] = [full |-> TRUE, bytes |-> a[j].bytes, text |-> a[j].text]
        BY <3>1, <4>1 DEF Kept
      <4>3. PICK k \in 0..(j - 1) : a[j].text = SubSeq(text, 1, k) /\ Longest(k)
        BY <3>1, <3>4 DEF Kept
      <4>4. k \in 0..((j + 1) - 1)
        BY <3>1
      <4> QED
        BY <4>2, <4>3, <4>4 DEF Kept
    <3>5. CASE ~a[j].full /\ a[j].bytes + Bytes(j + 1) > budget
      <4>1. a[j + 1] = [a[j] EXCEPT !.full = TRUE]
        BY <3>2, <3>5 DEF KeepStep, Bytes
      <4>2. a[j + 1] = [full |-> TRUE, bytes |-> a[j].bytes, text |-> a[j].text]
        BY <3>1, <4>1 DEF Kept
      <4>3. a[j].text = SubSeq(text, 1, j) /\ Longest(j)
        BY <3>1, <3>3, <3>5 DEF Kept, Longest
      <4>4. j \in 0..((j + 1) - 1)
        BY <3>1
      <4> QED
        BY <4>2, <4>3, <4>4 DEF Kept
    <3>6. CASE ~a[j].full /\ ~(a[j].bytes + Bytes(j + 1) > budget)
      <4>1. a[j + 1] = [a[j] EXCEPT !.bytes = @ + Bytes(j + 1),
                                    !.text = Append(@, text[j + 1])]
        BY <3>2, <3>6 DEF KeepStep, Bytes
      <4>2. a[j + 1] = [full |-> FALSE, bytes |-> b[j] + Bytes(j + 1),
                        text |-> Append(SubSeq(text, 1, j), text[j + 1])]
        BY <3>1, <3>6, <4>1 DEF Kept
      <4>3. a[j + 1] = [full |-> FALSE, bytes |-> b[j + 1], text |-> SubSeq(text, 1, j + 1)]
        BY <1>3, <3>1, <3>3, <4>2
      <4>4. b[j + 1] <= budget
        <5>1. j + 1 \in 0..n /\ b[j] \in Nat /\ Bytes(j + 1) \in Nat
          BY <1>1, <1>3, <1>4, <3>1
        <5> QED
          BY <3>1, <3>3, <3>6, <5>1 DEF Kept
      <4> QED
        BY <4>3, <4>4 DEF Kept
    <3> QED
      BY <3>4, <3>5, <3>6
  <2> HIDE DEF P
  <2>3. P \in SUBSET Nat
    BY DEF P
  <2>4. P = Nat
    BY <2>1, <2>2, <2>3, Induction
  <2> QED
    BY <1>3, <2>4 DEF P
<1>6. \E k \in 0..n : KeptPrefix(text, budget) = SubSeq(text, 1, k) /\ Longest(k)
  <2>1. n \in 0..n /\ Kept(n)
    BY <1>3, <1>5
  <2>2. CASE a[n].full
    <3>1. PICK k \in 0..(n - 1) : a[n].text = SubSeq(text, 1, k) /\ Longest(k)
      BY <2>1, <2>2 DEF Kept
    <3>2. k \in 0..n
      BY <1>3
    <3> QED
      BY <1>2, <3>1, <3>2
  <2>3. CASE ~a[n].full
    BY <1>2, <1>3, <2>1, <2>3 DEF Kept, Longest
  <2> QED
    BY <2>2, <2>3
<1>7. PICK k \in 0..n : KeptPrefix(text, budget) = SubSeq(text, 1, k) /\ Longest(k)
  BY <1>6
<1>8. ASSUME NEW m \in 0..n PROVE Sum(m) <= budget <=> m <= k
  <2>1. Sum(m) = b[m] /\ b[m] \in Nat /\ b[k] \in Nat
    BY <1>1
  <2>2. CASE m <= k
    <3>1. b[m] <= b[k]
      BY <1>1, <2>2
    <3> QED
      BY <1>7, <2>1, <2>2, <3>1 DEF Longest
  <2>3. CASE ~(m <= k)
    <3>1. k + 1 \in 0..n /\ k + 1 <= m /\ k < n
      BY <1>3, <2>3
    <3>2. b[k + 1] <= b[m] /\ b[k + 1] \in Nat
      BY <1>1, <3>1
    <3> QED
      BY <1>7, <2>1, <2>3, <3>1, <3>2 DEF Longest
  <2> QED
    BY <2>2, <2>3
<1> QED
  BY <1>7, <1>8 DEF n, Sum

\* One character more.
LEMMA AppendBytes ==
    ASSUME NEW text \in Seq(Characters), NEW c \in Characters
    PROVE  serialized_json_string_content_bytes(Append(text, c))
               = serialized_json_string_content_bytes(text) + serialized_json_character_bytes(c)
<1> DEFINE more == Append(text, c)
           n == Len(text)
<1>1. /\ more \in Seq(Characters) /\ n \in Nat /\ Len(more) = n + 1 /\ more[n + 1] = c
      /\ SubSeq(more, 1, n) = text /\ SubSeq(more, 1, n + 1) = more
  <2>1. /\ more \in Seq(Characters) /\ n \in Nat /\ Len(more) = n + 1 /\ more[n + 1] = c
        /\ \A i \in 1..n : more[i] = text[i]
    OBVIOUS
  <2> HIDE DEF more
  <2>2. SubSeq(more, 1, n + 1) = more
    BY <2>1
  <2>3. SubSeq(more, 1, n) = [i \in 1..n |-> more[i]]
    BY <2>1
  <2>4. text = [i \in 1..n |-> text[i]]
    OBVIOUS
  <2>5. SubSeq(more, 1, n) = text
    BY <2>1, <2>3, <2>4
  <2> QED
    BY <2>1, <2>2, <2>5
<1> HIDE DEF more, n
<1>2. PICK b \in [0..(n + 1) -> Nat] :
         /\ \A k \in 0..n : b[k + 1] = b[k] + serialized_json_character_bytes(more[k + 1])
         /\ \A k \in 0..(n + 1) :
               serialized_json_string_content_bytes(SubSeq(more, 1, k)) = b[k]
  <2>1. \E b \in [0..Len(more) -> Nat] :
            /\ b[0] = 0
            /\ \A k \in 0..(Len(more) - 1) :
                  b[k + 1] = b[k] + serialized_json_character_bytes(more[k + 1])
            /\ \A k \in 0..Len(more) :
                  serialized_json_string_content_bytes(SubSeq(more, 1, k)) = b[k]
            /\ \A j, k \in 0..Len(more) : j <= k => b[j] <= b[k]
    BY <1>1, PrefixBytes
  <2>2. Len(more) - 1 = n
    BY <1>1
  <2> QED
    BY <1>1, <2>1, <2>2
<1>3. n \in 0..n /\ n \in 0..(n + 1) /\ n + 1 \in 0..(n + 1)
  BY <1>1
<1>4. b[n + 1] = b[n] + serialized_json_character_bytes(c)
  BY <1>1, <1>2, <1>3
<1>5. serialized_json_string_content_bytes(text) = b[n]
      /\ serialized_json_string_content_bytes(more) = b[n + 1]
  BY <1>1, <1>2, <1>3
<1> QED
  BY <1>4, <1>5 DEF more

Short(text, n) == SubSeq(text, 1, n) \o APPROVAL_REASON_TRUNCATED_SUFFIX

Fitting(text) ==
    {n \in 0..Len(text) :
        serialized_json_string_bytes(Short(text, n)) <= MAX_APPROVAL_REASON_SERIALIZED_BYTES}

\* reason is source, or the longest start of it that fits with the suffix.
Bounds(reason, source) ==
    /\ serialized_json_string_bytes(reason) <= MAX_APPROVAL_REASON_SERIALIZED_BYTES
    /\ IF serialized_json_string_bytes(source) <= MAX_APPROVAL_REASON_SERIALIZED_BYTES
       THEN reason = source
       ELSE reason \in {Short(source, Max(Fitting(source))),
                        SubSeq(source, 1, Max(Fitting(source)))}

\* bound_approval_reason bounds any text.
LEMMA ReasonIsBounded ==
    ASSUME NEW text \in Seq(Characters)
    PROVE  bound_approval_reason(text) \in Seq(Characters) /\ Bounds(bound_approval_reason(text), text)
<1> DEFINE size == MAX_APPROVAL_REASON_SERIALIZED_BYTES
           Content(t) == serialized_json_string_content_bytes(t)
<1>1. size \in Nat /\ size >= 5
  BY ReasonLimitAssumption
<1>2. \A t : serialized_json_string_bytes(t) = 2 + Content(t)
  BY DEF serialized_json_string_bytes
<1>3. ASSUME NEW t \in Seq(Characters)
      PROVE  /\ t \o <<"t">> \in Seq(Characters) /\ Content(t) \in Nat
             /\ Content(t \o <<"t">>) = Content(t) + 3
  <2>1. t \o <<"t">> = Append(t, "t") /\ Append(t, "t") \in Seq(Characters)
    <3>1. "t" \in Characters
      BY DEF Characters
    <3> QED
      BY <3>1, AppendIsConcat
  <2>2. serialized_json_character_bytes("t") = 3
    BY DEF serialized_json_character_bytes
  <2>3. Content(t) \in Nat
    <3>1. PICK b \in [0..Len(t) -> Nat] : Content(t) = b[Len(t)]
      BY TextBytes
    <3>2. Len(t) \in 0..Len(t)
      OBVIOUS
    <3> QED
      BY <3>1, <3>2
  <2>4. Content(Append(t, "t")) = Content(t) + 3
    <3>1. "t" \in Characters
      BY DEF Characters
    <3>2. Content(Append(t, "t")) = Content(t) + serialized_json_character_bytes("t")
      BY <3>1, AppendBytes
    <3> QED
      BY <2>2, <3>2
  <2> QED
    BY <2>1, <2>3, <2>4
<1>4. APPROVAL_REASON_TRUNCATED_SUFFIX = <<"t">> /\ Content(<<"t">>) = 3 /\ Content(<<>>) = 0
  <2>1. <<>> \in Seq(Characters) /\ Len(<<>>) = 0
    OBVIOUS
  <2>2. PICK b : b[0] = 0 /\ Content(<<>>) = b[Len(<<>>)]
    BY <2>1, TextBytes
  <2>3. Content(<<>>) = 0
    BY <2>1, <2>2
  <2>4. <<>> \o <<"t">> = <<"t">>
    <3>1. <<"t">> \in Seq({"t"})
      OBVIOUS
    <3> QED
      BY <3>1, ConcatEmptySeq
  <2>5. Content(<<>> \o <<"t">>) = 3
    <3> DEFINE none == <<>>
    <3>1. none \in Seq(Characters) /\ Content(none) = 0
      BY <2>1, <2>3
    <3> HIDE DEF none
    <3>2. Content(none \o <<"t">>) = 3
      BY <1>3, <3>1
    <3> QED
      BY <3>2 DEF none
  <2>6. Content(<<"t">>) = 3
    BY <2>4, <2>5
  <2> QED
    BY <2>3, <2>6 DEF APPROVAL_REASON_TRUNCATED_SUFFIX
<1>5. CASE serialized_json_string_bytes(text) <= size
  BY <1>5 DEF bound_approval_reason, Bounds
<1>6. CASE ~(serialized_json_string_bytes(text) <= size)
  <2> DEFINE budget == size - 2 - Content(APPROVAL_REASON_TRUNCATED_SUFFIX)
  <2>1. budget \in Nat /\ budget = size - 5
    BY <1>1, <1>4
  <2> HIDE DEF budget, Content
  <2>2. PICK k \in 0..Len(text) :
           /\ KeptPrefix(text, budget) = SubSeq(text, 1, k)
           /\ \A m \in 0..Len(text) : Content(SubSeq(text, 1, m)) <= budget <=> m <= k
    <3>1. \E k \in 0..Len(text) :
             /\ KeptPrefix(text, budget) = SubSeq(text, 1, k)
             /\ \A m \in 0..Len(text) :
                   serialized_json_string_content_bytes(SubSeq(text, 1, m)) <= budget <=> m <= k
      <4>1. budget \in Nat
        BY <2>1
      <4> QED
        BY <4>1, KeptIsLongest, Zenon
    <3> QED
      BY <3>1 DEF Content
  <2>3. \A m \in 0..Len(text) :
           /\ SubSeq(text, 1, m) \in Seq(Characters) /\ Content(SubSeq(text, 1, m)) \in Nat
           /\ Short(text, m) \in Seq(Characters)
           /\ Content(Short(text, m)) = Content(SubSeq(text, 1, m)) + 3
    <3> TAKE m \in 0..Len(text)
    <3>1. SubSeq(text, 1, m) \in Seq(Characters)
      OBVIOUS
    <3> QED
      BY <1>3, <1>4, <3>1 DEF Short
  <2>4. \A m \in 0..Len(text) :
           serialized_json_string_bytes(Short(text, m)) <= size <=> m <= k
    <3> TAKE m \in 0..Len(text)
    <3>1. Content(SubSeq(text, 1, m)) <= budget <=> m <= k
      BY <2>2
    <3>2. Content(Short(text, m)) = Content(SubSeq(text, 1, m)) + 3
          /\ Content(SubSeq(text, 1, m)) \in Nat
      BY <2>3
    <3>3. serialized_json_string_bytes(Short(text, m)) = 2 + Content(Short(text, m))
      BY <1>2
    <3> QED
      BY <1>1, <2>1, <3>1, <3>2, <3>3
  <2>5. Max(Fitting(text)) = k
    <3>1. k \in Fitting(text) /\ \A m \in Fitting(text) : m <= k /\ m \in Nat
      BY <2>4 DEF Fitting
    <3> HIDE DEF Fitting
    <3>2. \A x \in Fitting(text) : (\A y \in Fitting(text) : x >= y) => x = k
      BY <3>1
    <3>3. \A y \in Fitting(text) : k >= y
      BY <3>1
    <3> QED
      BY <3>1, <3>2, <3>3 DEF Max
  <2>6. bound_approval_reason(text) \in {SubSeq(text, 1, k), Short(text, k)}
    <3>1. bound_approval_reason(text) \in {KeptPrefix(text, budget),
              KeptPrefix(text, budget) \o APPROVAL_REASON_TRUNCATED_SUFFIX}
      BY <1>6 DEF bound_approval_reason, budget, Content
    <3> QED
      BY <2>2, <3>1 DEF Short
  <2>7. /\ serialized_json_string_bytes(Short(text, k)) <= size
        /\ serialized_json_string_bytes(SubSeq(text, 1, k)) <= size
    <3>1. k <= k /\ Content(SubSeq(text, 1, k)) <= budget /\ Content(SubSeq(text, 1, k)) \in Nat
      BY <2>2, <2>3
    <3>2. serialized_json_string_bytes(SubSeq(text, 1, k)) = 2 + Content(SubSeq(text, 1, k))
      BY <1>2
    <3> QED
      BY <1>1, <2>1, <2>4, <3>1, <3>2
  <2>8. SubSeq(text, 1, k) \in Seq(Characters) /\ Short(text, k) \in Seq(Characters)
    BY <2>3
  <2> QED
    BY <1>6, <2>5, <2>6, <2>7, <2>8 DEF Bounds
<1> QED
  BY <1>5, <1>6

------------------------------------
(* The inductive invariant *)

\* No two runtimes have the same identity: each got one the counter had not given.
RegistryOK ==
    /\ identities \in Nat
    /\ runtimes \in Seq(Runtime)
    /\ \A r \in 1..Len(runtimes) : runtimes[r].identity < identities
    /\ \A r, s \in 1..Len(runtimes) : runtimes[r].identity = runtimes[s].identity => r = s
    /\ workload \in DOMAIN Workloads

\* What ReasonsAreBounded says of one plan.
ReasonOK(plan) ==
    plan.disposition # "ready" =>
        /\ Bounds(plan.reason, plan.source)
        /\ plan.policy = "call_dependent" => ~BlankText(plan.reason)

\* A plan carries the identity of the runtime that made it, and its disposition says
\* no more than the policy and the handler of its tool did.
PlanOK(plan) ==
    /\ plan.owner \in 1..Len(runtimes)
    /\ plan.identity = runtimes[plan.owner].identity
    /\ plan.serial \in 1..prepared
    /\ plan.disposition = "ready" => NeedsNoApproval(plan)
    /\ plan.disposition = "requires_approval" => NeedsApproval(plan)
    /\ ReasonOK(plan)

\* A plan is either waiting or was executed, and each was prepared once.
PlansOK ==
    /\ prepared \in Nat
    /\ \A plan \in plans : PlanOK(plan)
    /\ \A p, q \in plans : p.serial = q.serial => p = q
    /\ \A e \in executed : e.plan.serial \in 1..prepared
    /\ \A e \in executed, plan \in plans : e.plan.serial # plan.serial

IInv == RegistryOK /\ PlansOK /\ ExecutedAsPrepared

------------------------------------
(* Lemmas *)

\* Every definition has one of the policies, or none, and its reason is a text.
LEMMA DefinitionFacts ==
    ASSUME NEW d \in Definitions
    PROVE  d.policy \in Policies \cup {"none"} /\ d.reason \in Seq(Characters)
<1>1. CASE d = NoTool
  BY <1>1 DEF NoTool
<1>2. ASSUME NEW name \in BUILTIN_TOOL_NAMES, d = coding_manifest[name]
      PROVE  d.policy \in Policies /\ d.reason \in Seq(Characters)
  <2>1. <<>> \in Seq(Characters) /\ <<"x">> \in Seq(Characters)
    BY DEF Characters
  <2>2. d.policy \in Policies
    BY <1>2 DEF BUILTIN_TOOL_NAMES, coding_manifest, Policies
  <2>3. d.reason = <<>> \/ d.reason = <<"x">>
    BY <1>2 DEF BUILTIN_TOOL_NAMES, coding_manifest
  <2> QED
    BY <2>1, <2>2, <2>3
<1>3. ASSUME NEW w \in DOMAIN Workloads, d \in Workloads[w].definitions
      PROVE  d.policy \in Policies /\ d.reason \in Seq(Characters)
  BY <1>3, WorkloadsAssumption
<1> QED
  BY <1>1, <1>2, <1>3 DEF Definitions

\* The reason of a call that the runtime itself rejects is as short as can be.
LEMMA OwnReason == Bounds(<<"x">>, <<"x">>) /\ ~BlankText(<<"x">>)
<1>1. <<"x">> \in Seq(Characters) /\ Len(<<"x">>) = 1 /\ <<"x">>[1] = "x"
  BY DEF Characters
<1>2. PICK b \in [0..Len(<<"x">>) -> Nat] :
         /\ b[0] = 0
         /\ \A k \in 0..(Len(<<"x">>) - 1) :
               b[k + 1] = b[k] + serialized_json_character_bytes(<<"x">>[k + 1])
         /\ serialized_json_string_content_bytes(<<"x">>) = b[Len(<<"x">>)]
  BY <1>1, TextBytes
<1>3. serialized_json_character_bytes("x") = 1
  BY DEF serialized_json_character_bytes
<1>4. b[0 + 1] = b[0] + serialized_json_character_bytes(<<"x">>[0 + 1])
  BY <1>1, <1>2
<1>5. serialized_json_string_content_bytes(<<"x">>) = 1
  BY <1>1, <1>2, <1>3, <1>4
<1>6. ~BlankText(<<"x">>)
  <2>1. 1 \in DOMAIN <<"x">> /\ <<"x">>[1] \notin Whitespace
    BY <1>1 DEF Whitespace
  <2> QED
    BY <2>1 DEF BlankText
<1> QED
  BY <1>5, <1>6, ReasonLimitAssumption DEF Bounds, serialized_json_string_bytes

\* What a handler answers when a call is classified comes with a text.
LEMMA AnswerFacts ==
    ASSUME NEW call, NEW answer \in ClassifyAnswers(call)
    PROVE  answer.reason \in Seq(Characters)
<1>1. <<>> \in Seq(Characters) /\ <<"x">> \in Seq(Characters)
  BY DEF Characters
<1>2. CASE call.tool_name = "run_command"
  <2>1. answer.reason = <<>> \/ answer.reason = <<"x">>
    BY <1>2 DEF ClassifyAnswers
  <2> QED
    BY <1>1, <2>1
<1>3. CASE call.tool_name # "run_command" /\ call.tool_name \in BUILTIN_TOOL_NAMES
  <2>1. answer.reason = <<>>
    BY <1>3 DEF ClassifyAnswers
  <2> QED
    BY <1>1, <2>1
<1>4. CASE call.tool_name # "run_command" /\ call.tool_name \notin BUILTIN_TOOL_NAMES
  BY <1>4, WorkloadsAssumption DEF ClassifyAnswers
<1> QED
  BY <1>2, <1>3, <1>4

\* What prepare makes of a call, whatever the handler answered.
LEMMA PlanFacts ==
    ASSUME RegistryOK, NEW r \in 1..Len(runtimes), NEW call, call.tool_name \in ToolNames,
           NEW answer, answer.reason \in Seq(Characters)
    PROVE  LET plan == [PlanFor(r, call, answer) EXCEPT !.answer = answer.kind] IN
           /\ plan.owner = r /\ plan.call = call
           /\ plan.identity = runtimes[r].identity
           /\ plan.serial = prepared + 1
           /\ plan.disposition = "ready" => NeedsNoApproval(plan)
           /\ plan.disposition = "requires_approval" => NeedsApproval(plan)
           /\ ReasonOK(plan)
<1> DEFINE d == runtimes[r].tools[call.tool_name]
           plan == [PlanFor(r, call, answer) EXCEPT !.answer = answer.kind]
           Goal == /\ plan.owner = r /\ plan.call = call
                   /\ plan.identity = runtimes[r].identity
                   /\ plan.serial = prepared + 1
                   /\ plan.disposition = "ready" => NeedsNoApproval(plan)
                   /\ plan.disposition = "requires_approval" => NeedsApproval(plan)
                   /\ ReasonOK(plan)
<1> SUFFICES Goal
  OBVIOUS
<1>1. d.policy \in Policies \cup {"none"}
  <2>1. runtimes[r] \in Runtime
    BY DEF RegistryOK
  <2>2. d \in Definitions
    BY <2>1 DEF Runtime
  <2> QED
    BY <2>2, DefinitionFacts
<1>2. d.reason \in Seq(Characters)
  <2>1. runtimes[r] \in Runtime
    BY DEF RegistryOK
  <2>2. d \in Definitions
    BY <2>1 DEF Runtime
  <2> QED
    BY <2>2, DefinitionFacts
<1>3. Bounds(bound_approval_reason(d.reason), d.reason)
  BY <1>2, ReasonIsBounded
<1>4. /\ Bounds(bound_approval_reason(answer.reason), answer.reason)
      /\ bound_approval_reason(bound_approval_reason(answer.reason))
            = bound_approval_reason(answer.reason)
  <2>1. Bounds(bound_approval_reason(answer.reason), answer.reason)
    BY ReasonIsBounded
  <2>2. serialized_json_string_bytes(bound_approval_reason(answer.reason))
            <= MAX_APPROVAL_REASON_SERIALIZED_BYTES
    BY <2>1 DEF Bounds
  <2> QED
    BY <2>1, <2>2 DEF bound_approval_reason
<1> HIDE DEF d
<1>5. ASSUME NEW disposition, NEW reason, NEW source,
             PlanFor(r, call, answer) = Plan(r, call, disposition, reason, source)
      PROVE  /\ plan.owner = r /\ plan.call = call /\ plan.identity = runtimes[r].identity
             /\ plan.serial = prepared + 1 /\ plan.disposition = disposition
             /\ plan.policy = d.policy /\ plan.answer = answer.kind
             /\ plan.reason = reason /\ plan.source = source
  BY <1>5 DEF d, Plan
<1>6. ASSUME NEW disposition, NEW reason, NEW source,
             PlanFor(r, call, answer) = Plan(r, call, disposition, reason, source),
             disposition = "ready" =>
                d.policy = "always_allow"
                \/ (d.policy = "call_dependent" /\ answer.kind = "allow"),
             disposition = "requires_approval" =>
                d.policy = "requires_approval"
                \/ (d.policy = "call_dependent" /\ answer.kind = "requires_approval"),
             disposition # "ready" =>
                Bounds(reason, source) /\ (d.policy = "call_dependent" => ~BlankText(reason))
      PROVE  Goal
  <2>1. /\ plan.owner = r /\ plan.call = call /\ plan.identity = runtimes[r].identity
        /\ plan.serial = prepared + 1 /\ plan.disposition = disposition
        /\ plan.policy = d.policy /\ plan.answer = answer.kind
        /\ plan.reason = reason /\ plan.source = source
    BY <1>5, <1>6
  <2> HIDE DEF plan
  <2>2. ReasonOK(plan)
    BY <1>6, <2>1 DEF ReasonOK
  <2> QED
    BY <1>6, <2>1, <2>2 DEF Goal, NeedsNoApproval, NeedsApproval
<1> HIDE DEF Goal, plan
<1>7. CASE d.policy = "none"
  <2>1. PlanFor(r, call, answer) = Plan(r, call, "reject", <<"x">>, <<"x">>)
    BY <1>7 DEF PlanFor, rejected, d
  <2> QED
    BY <1>6, <1>7, <2>1, OwnReason
<1>8. CASE d.policy = "always_allow"
  <2>1. PlanFor(r, call, answer) = Plan(r, call, "ready", <<>>, <<>>)
    BY <1>8 DEF PlanFor, ready, d
  <2> QED
    BY <1>6, <1>8, <2>1
<1>9. CASE d.policy = "requires_approval"
  <2>1. PlanFor(r, call, answer)
          = Plan(r, call, "requires_approval", bound_approval_reason(d.reason), d.reason)
    BY <1>9 DEF PlanFor, requiring_approval, d
  <2> QED
    BY <1>3, <1>6, <1>9, <2>1
<1>10. CASE d.policy = "always_reject"
  <2>1. PlanFor(r, call, answer)
          = Plan(r, call, "reject", bound_approval_reason(d.reason), d.reason)
    BY <1>10 DEF PlanFor, rejected, d
  <2> QED
    BY <1>3, <1>6, <1>10, <2>1
<1>11. CASE d.policy = "call_dependent"
  <2> DEFINE reason == bound_approval_reason(answer.reason)
  <2>1. PlanFor(r, call, answer) = classified(r, call, answer)
    BY <1>11 DEF PlanFor, d
  <2>2. CASE answer.kind = "allow"
    <3>1. PlanFor(r, call, answer) = Plan(r, call, "ready", <<>>, <<>>)
      <4>1. classified(r, call, answer) = ready(r, call)
        BY <2>2 DEF classified
      <4> QED
        BY <2>1, <4>1 DEF ready
    <3> QED
      BY <1>6, <1>11, <2>2, <3>1
  <2>3. CASE answer.kind # "allow" /\ BlankText(reason)
    <3>1. PlanFor(r, call, answer) = Plan(r, call, "reject", <<"x">>, <<"x">>)
      BY <2>1, <2>3 DEF classified, rejected
    <3> QED
      BY <1>6, <3>1, OwnReason
  <2>4. CASE answer.kind = "requires_approval" /\ ~BlankText(reason)
    <3>1. PlanFor(r, call, answer)
            = Plan(r, call, "requires_approval", bound_approval_reason(reason), answer.reason)
      <4>1. classified(r, call, answer) = requiring_approval(r, call, reason, answer.reason)
        BY <2>4 DEF classified
      <4> QED
        BY <2>1, <4>1 DEF requiring_approval
    <3>2. Bounds(bound_approval_reason(reason), answer.reason)
          /\ ~BlankText(bound_approval_reason(reason))
      BY <1>4, <2>4
    <3> QED
      BY <1>6, <1>11, <2>4, <3>1, <3>2
  <2>5. CASE answer.kind \notin {"allow", "requires_approval"} /\ ~BlankText(reason)
    <3>1. PlanFor(r, call, answer) = Plan(r, call, "reject", reason, answer.reason)
      BY <2>1, <2>5 DEF classified, rejected
    <3> QED
      BY <1>4, <1>6, <2>5, <3>1
  <2> QED
    BY <2>2, <2>3, <2>4, <2>5
<1> QED
  BY <1>1, <1>7, <1>8, <1>9, <1>10, <1>11 DEF Policies

\* Calls and runtimes other than the registry's own steps leave plans as they are.
LEMMA RegistryGrows ==
    ASSUME IInv, RegistryOK', UNCHANGED calls, Len(runtimes') >= Len(runtimes),
           \A r \in 1..Len(runtimes) : runtimes'[r].identity = runtimes[r].identity
    PROVE  IInv'
<1>1. Len(runtimes) \in Nat /\ Len(runtimes') \in Nat
  BY DEF IInv, RegistryOK
<1>2. \A r \in 1..Len(runtimes) : r \in 1..Len(runtimes')
  BY <1>1
<1>3. UNCHANGED <<plans, handling, last, prepared, executed>>
  BY DEF calls
<1>4. PlansOK'
  BY <1>2, <1>3 DEF IInv, PlansOK, PlanOK, NeedsNoApproval, NeedsApproval
<1>5. ExecutedAsPrepared'
  BY <1>3 DEF IInv, ExecutedAsPrepared, NeedsNoApproval, NeedsApproval
<1> QED
  BY <1>4, <1>5 DEF IInv

------------------------------------
(* The steps *)

\* Registering changes the tools of one runtime and nobody's identity.
LEMMA RegisteringStep ==
    ASSUME IInv, NEW r \in 1..Len(runtimes), NEW tools_ \in [ToolNames -> Definitions],
           runtimes' = [runtimes EXCEPT ![r].tools = tools_],
           UNCHANGED <<identities, calls, workload>>
    PROVE  IInv'
<1>1. runtimes \in Seq(Runtime) /\ runtimes[r] \in Runtime
  BY DEF IInv, RegistryOK
<1> DEFINE new == [runtimes[r] EXCEPT !.tools = tools_]
<1>2. new \in Runtime /\ new.identity = runtimes[r].identity
  BY <1>1 DEF Runtime
<1>3. runtimes' = [runtimes EXCEPT ![r] = new]
  OBVIOUS
<1> HIDE DEF new
<1>4. /\ runtimes' \in Seq(Runtime) /\ Len(runtimes') = Len(runtimes)
      /\ \A s \in 1..Len(runtimes) : runtimes'[s].identity = runtimes[s].identity
  BY <1>1, <1>2, <1>3
<1>5. RegistryOK'
  BY <1>4 DEF IInv, RegistryOK
<1> QED
  BY <1>1, <1>4, <1>5, RegistryGrows

\* A new runtime takes an identity no other has.
LEMMA NewRuntimeStep ==
    ASSUME IInv, NewRuntime, UNCHANGED workload
    PROVE  IInv'
<1> DEFINE new == [identity |-> identities, tools |-> [n \in ToolNames |-> NoTool]]
<1>1. /\ identities \in Nat /\ runtimes \in Seq(Runtime) /\ identities' = identities + 1
      /\ runtimes' = Append(runtimes, new) /\ UNCHANGED calls
  BY DEF IInv, RegistryOK, NewRuntime
<1>2. new \in Runtime /\ new.identity = identities
  BY <1>1 DEF Runtime, Definitions
<1> HIDE DEF new
<1>3. /\ runtimes' \in Seq(Runtime) /\ Len(runtimes') = Len(runtimes) + 1 /\ Len(runtimes) \in Nat
      /\ \A s \in 1..Len(runtimes) : runtimes'[s] = runtimes[s]
      /\ runtimes'[Len(runtimes) + 1] = new
  BY <1>1, <1>2
<1>4. \A s \in 1..Len(runtimes) : runtimes[s].identity \in Nat
  <2>1. \A s \in 1..Len(runtimes) : runtimes[s] \in Runtime
    BY <1>1
  <2> QED
    BY <2>1 DEF Runtime
<1>5. \A s \in 1..Len(runtimes') : s \in 1..Len(runtimes) \/ s = Len(runtimes) + 1
  BY <1>3
<1>6. RegistryOK'
  <2>1. \A s \in 1..Len(runtimes') : runtimes'[s].identity < identities'
    BY <1>1, <1>2, <1>3, <1>4, <1>5 DEF IInv, RegistryOK
  <2>2. ASSUME NEW s \in 1..Len(runtimes'), NEW t \in 1..Len(runtimes'),
               runtimes'[s].identity = runtimes'[t].identity
        PROVE  s = t
    BY <1>1, <1>2, <1>3, <1>4, <1>5, <2>2 DEF IInv, RegistryOK
  <2> QED
    BY <1>1, <1>3, <2>1, <2>2 DEF IInv, RegistryOK
<1> QED
  BY <1>1, <1>3, <1>6, RegistryGrows

\* register, of one tool or of the pack, gives runtimes no new identity.
LEMMA RegisterStep ==
    ASSUME IInv, NEW r \in 1..Len(runtimes), Register(r), UNCHANGED workload
    PROVE  IInv'
<1>1. runtimes \in Seq(Runtime) /\ runtimes[r] \in Runtime /\ workload \in DOMAIN Workloads
  BY DEF IInv, RegistryOK
<1>2. runtimes[r].tools \in [ToolNames -> Definitions]
  BY <1>1 DEF Runtime
<1>3. CASE UNCHANGED <<registry, calls>>
  <2>1. UNCHANGED <<identities, runtimes>> /\ UNCHANGED calls
    BY <1>3 DEF registry
  <2>2. RegistryOK'
    BY <2>1 DEF IInv, RegistryOK
  <2> QED
    BY <1>1, <2>1, <2>2, RegistryGrows
<1>4. ASSUME NEW name \in ToolNames \ BUILTIN_TOOL_NAMES, NEW definition \in Asked.definitions,
             register(r, name, definition)
      PROVE  IInv'
  <2>1. UNCHANGED <<identities, calls>>
    BY <1>4 DEF register
  <2>2. CASE UNCHANGED runtimes
    BY <1>3, <2>1, <2>2 DEF registry
  <2>3. CASE runtimes' = [runtimes EXCEPT ![r].tools[name] = definition]
    <3>1. definition \in Definitions
      BY <1>1 DEF Definitions, Asked
    <3> DEFINE new == [runtimes[r].tools EXCEPT ![name] = definition]
    <3>2. new \in [ToolNames -> Definitions]
      BY <1>2, <3>1
    <3>3. runtimes' = [runtimes EXCEPT ![r].tools = new]
      BY <2>3
    <3> QED
      BY <2>1, <3>2, <3>3, RegisteringStep
  <2> QED
    BY <1>4, <2>2, <2>3 DEF register
<1>5. ASSUME RegisterPack(r, coding_manifest) PROVE IInv'
  <2>1. UNCHANGED <<identities, calls>>
    BY <1>5 DEF RegisterPack
  <2>2. CASE UNCHANGED runtimes
    BY <1>3, <2>1, <2>2 DEF registry
  <2>3. CASE ~ UNCHANGED runtimes
    <3> DEFINE new == [name \in ToolNames |-> IF name \in DOMAIN coding_manifest
                                              THEN coding_manifest[name]
                                              ELSE runtimes[r].tools[name]]
    <3>1. DOMAIN coding_manifest = BUILTIN_TOOL_NAMES
      BY DEF coding_manifest
    <3>2. new \in [ToolNames -> Definitions]
      BY <1>2, <3>1 DEF Definitions
    <3>3. runtimes' = [runtimes EXCEPT ![r].tools = new]
      BY <1>5, <2>3 DEF RegisterPack
    <3> QED
      BY <2>1, <3>2, <3>3, RegisteringStep
  <2> QED
    BY <2>2, <2>3
<1> QED
  BY <1>4, <1>5 DEF Register

\* A call is prepared once, under a serial number no other plan had.
LEMMA PrepareStep ==
    ASSUME IInv, NEW r \in 1..Len(runtimes), Prepare(r), UNCHANGED workload
    PROVE  IInv'
<1>1. PICK call \in Asked.calls : \E answer \in ClassifyAnswers(call) : prepare(r, call, answer)
  BY DEF Prepare
<1>2. PICK answer \in ClassifyAnswers(call) : prepare(r, call, answer)
  BY <1>1
<1> DEFINE plan == [PlanFor(r, call, answer) EXCEPT !.answer = answer.kind]
<1>3. /\ plans' = plans \cup {plan} /\ prepared' = prepared + 1
      /\ UNCHANGED <<identities, runtimes, last, executed>>
  BY <1>2 DEF prepare, registry
<1>4. call.tool_name \in ToolNames /\ RegistryOK /\ RegistryOK'
  BY <1>3, WorkloadsAssumption DEF IInv, RegistryOK, Asked
<1>5. /\ plan.owner = r /\ plan.identity = runtimes[r].identity /\ plan.serial = prepared + 1
      /\ plan.disposition = "ready" => NeedsNoApproval(plan)
      /\ plan.disposition = "requires_approval" => NeedsApproval(plan)
      /\ ReasonOK(plan)
  <2>1. answer.reason \in Seq(Characters)
    BY AnswerFacts
  <2> QED
    BY <1>4, <2>1, PlanFacts
<1> HIDE DEF plan
<1>6. prepared \in Nat /\ prepared' \in Nat
  BY <1>3 DEF IInv, PlansOK
<1>7. PlansOK'
  <2>1. ASSUME NEW p \in plans' PROVE PlanOK(p)'
    <3>1. CASE p = plan
      BY <1>3, <1>5, <1>6, <3>1 DEF PlanOK, NeedsNoApproval, NeedsApproval
    <3>2. CASE p \in plans
      BY <1>3, <1>6, <3>2 DEF IInv, PlansOK, PlanOK, NeedsNoApproval, NeedsApproval
    <3> QED
      BY <1>3, <3>1, <3>2
  <2>2. \A p \in plans : p.serial # plan.serial
    BY <1>5, <1>6 DEF IInv, PlansOK, PlanOK
  <2>3. \A e \in executed : e.plan.serial # plan.serial /\ e.plan.serial \in 1..prepared'
    BY <1>3, <1>5, <1>6 DEF IInv, PlansOK
  <2> QED
    BY <1>3, <1>6, <2>1, <2>2, <2>3 DEF IInv, PlansOK
<1>8. ExecutedAsPrepared'
  BY <1>3 DEF IInv, ExecutedAsPrepared, NeedsNoApproval, NeedsApproval
<1> QED
  BY <1>4, <1>7, <1>8 DEF IInv

\* What into_authorized_call lets through is this runtime's plan, for a call that
\* needs no approval or was approved itself.
LEMMA AuthorizedFacts ==
    ASSUME IInv, NEW r \in 1..Len(runtimes), NEW plan \in plans, NEW authorization,
           into_authorized_call(r, plan, authorization) = "ok"
    PROVE  /\ plan.owner = r
           /\ \/ NeedsNoApproval(plan)
              \/ NeedsApproval(plan) /\ authorization = plan.call.id
<1>1. PlanOK(plan)
  BY DEF IInv, PlansOK
<1>2. plan.identity = runtimes[r].identity
  BY DEF into_authorized_call
<1>3. plan.owner = r
  BY <1>1, <1>2 DEF PlanOK, IInv, RegistryOK
<1>4. \/ plan.disposition = "ready"
      \/ plan.disposition = "requires_approval" /\ authorization = plan.call.id
  BY <1>2 DEF into_authorized_call, is_granted_for
<1> QED
  BY <1>1, <1>3, <1>4 DEF PlanOK

\* A plan is consumed by its execution, so that it cannot start a second handler.
LEMMA ExecuteStep ==
    ASSUME IInv, NEW r \in 1..Len(runtimes), NEW plan \in plans, NEW authorization,
           Execute(r, plan, authorization), UNCHANGED workload
    PROVE  IInv'
<1> DEFINE verdict == into_authorized_call(r, plan, authorization)
           starts == verdict = "ok" /\ Registered(r, plan.call.tool_name)
           e == [runtime |-> r, plan |-> plan, authorization |-> authorization]
<1>1. /\ plans' = plans \ {plan}
      /\ last' = IF starts THEN last ELSE IF verdict = "ok" THEN "unknown_tool" ELSE verdict
      /\ executed' = IF starts THEN executed \cup {e} ELSE executed
      /\ UNCHANGED <<identities, runtimes, prepared>>
  BY DEF Execute, execute_prepared, registry
<1>2. RegistryOK'
  BY <1>1 DEF IInv, RegistryOK
<1>3. verdict # "approval_denied"
  BY DEF into_authorized_call
<1>4. PlanOK(plan)
  BY DEF IInv, PlansOK
<1>5. executed' \subseteq executed \cup {e}
  BY <1>1
<1>6. e.plan = plan /\ e.runtime = r /\ e.authorization = authorization
  OBVIOUS
<1>7. \/ executed' = executed
      \/ /\ executed' = executed \cup {e}
         /\ plan.owner = r
         /\ NeedsNoApproval(plan) \/ (NeedsApproval(plan) /\ authorization = plan.call.id)
  <2> HIDE DEF e
  <2>1. CASE verdict = "ok"
    <3>1. plan.owner = r
          /\ (NeedsNoApproval(plan) \/ (NeedsApproval(plan) /\ authorization = plan.call.id))
      BY <2>1, AuthorizedFacts
    <3>2. executed' = executed \/ executed' = executed \cup {e}
      BY <1>1 DEF Registered
    <3> QED
      BY <3>1, <3>2 DEF NeedsNoApproval, NeedsApproval
  <2>2. CASE verdict # "ok"
    BY <1>1, <2>2 DEF Registered
  <2> QED
    BY <2>1, <2>2
<1>8. last' # "approval_denied"
  BY <1>1, <1>3 DEF IInv, ExecutedAsPrepared
<1> HIDE DEF e, verdict, starts
<1>9. PlansOK'
  <2>1. \A p \in plans' : PlanOK(p)'
    BY <1>1 DEF IInv, PlansOK, PlanOK, NeedsNoApproval, NeedsApproval
  <2>2. \A f \in executed' : f.plan.serial \in 1..prepared'
    BY <1>1, <1>4, <1>5, <1>6 DEF IInv, PlansOK, PlanOK
  <2>3. ASSUME NEW f \in executed', NEW p \in plans' PROVE f.plan.serial # p.serial
    BY <1>1, <1>5, <1>6 DEF IInv, PlansOK
  <2> QED
    BY <1>1, <2>1, <2>2, <2>3 DEF IInv, PlansOK
<1>10. ExecutedAsPrepared'
  <2>1. ASSUME NEW f \in executed'
        PROVE  /\ f.plan.owner = f.runtime
               /\ \/ NeedsNoApproval(f.plan)
                  \/ NeedsApproval(f.plan) /\ f.authorization = f.plan.call.id
    <3>1. CASE f \in executed
      BY <3>1 DEF IInv, ExecutedAsPrepared
    <3>2. CASE f = e /\ f \notin executed
      BY <1>6, <1>7, <3>2 DEF NeedsNoApproval, NeedsApproval
    <3> QED
      BY <1>5, <3>1, <3>2
  <2>2. ASSUME NEW f \in executed', NEW g \in executed', f.plan.serial = g.plan.serial
        PROVE  f = g
    BY <1>5, <1>6, <2>2 DEF IInv, PlansOK, ExecutedAsPrepared
  <2> QED
    BY <1>8, <2>1, <2>2 DEF ExecutedAsPrepared, NeedsNoApproval, NeedsApproval
<1> QED
  BY <1>2, <1>9, <1>10 DEF IInv

\* A handler's own approval_denied is replaced before anyone sees it.
LEMMA ReturnStep ==
    ASSUME IInv, Return, UNCHANGED workload
    PROVE  IInv'
<1>1. PICK code : HandlerReturns(code)
  BY DEF Return
<1>2. /\ UNCHANGED <<identities, runtimes, plans, prepared, executed>>
      /\ last' = normalize_dispatcher_output(code)
  BY <1>1 DEF HandlerReturns, registry
<1>3. last' # "approval_denied"
  BY <1>2 DEF normalize_dispatcher_output
<1>4. RegistryOK' /\ PlansOK'
  BY <1>2 DEF IInv, RegistryOK, PlansOK, PlanOK, NeedsNoApproval, NeedsApproval
<1>5. ExecutedAsPrepared'
  BY <1>2, <1>3 DEF IInv, ExecutedAsPrepared, NeedsNoApproval, NeedsApproval
<1> QED
  BY <1>4, <1>5 DEF IInv

\* A step of a tool, or none, concerns neither plans nor runtimes.
LEMMA QuietStep ==
    ASSUME IInv, UNCHANGED <<registry, calls, workload>>
    PROVE  IInv'
<1>1. UNCHANGED <<identities, runtimes, plans, handling, last, prepared, executed, workload>>
  BY DEF registry, calls
<1> QED
  BY <1>1 DEF IInv, RegistryOK, PlansOK, PlanOK, ExecutedAsPrepared, NeedsNoApproval, NeedsApproval

\* Every step of the runtimes, their handlers and the tools keeps the invariant.
LEMMA StepIInv == IInv /\ [Next]_vars => IInv'
<1> SUFFICES ASSUME IInv, [Next]_vars PROVE IInv'
  OBVIOUS
<1>1. CASE UNCHANGED vars
  BY <1>1, QuietStep DEF vars
<1>2. CASE Next
  <2>1. DOMAIN runtimes = 1..Len(runtimes)
    BY DEF IInv, RegistryOK
  <2>2. RunSearch \/ RunPatch => UNCHANGED <<registry, calls>>
    BY DEF RunSearch, RunPatch
  <2> QED
    BY <1>2, <2>1, <2>2, NewRuntimeStep, RegisterStep, PrepareStep, ExecuteStep, ReturnStep,
       QuietStep DEF Next
<1> QED
  BY <1>1, <1>2

\* At first there is neither a runtime nor a plan.
LEMMA InitIInv == Init => IInv
<1> SUFFICES ASSUME Init PROVE IInv
  OBVIOUS
<1>1. /\ identities = 1 /\ runtimes = <<>> /\ plans = {} /\ last = "none" /\ prepared = 0
      /\ executed = {} /\ workload \in DOMAIN Workloads
  BY DEF Init, InitRuntime
<1>2. runtimes \in Seq(Runtime) /\ Len(runtimes) = 0
  BY <1>1
<1> QED
  BY <1>1, <1>2 DEF IInv, RegistryOK, PlansOK, ExecutedAsPrepared

------------------------------------

\* A handler runs only a call that its own runtime prepared, at most once, and that its
\* policy, the tool's own classification or an approval of this very call lets run:
\* for any number of runtimes and plans, and any order of execute_prepared calls.
THEOREM ExecutionTheorem == Spec => []ExecutedAsPrepared
<1>1. IInv => ExecutedAsPrepared
  BY DEF IInv
<1> QED
  BY <1>1, InitIInv, StepIInv, PTL DEF Spec

\* The reason of every prepared call fits the event it is written to, is the reason
\* that was given or the longest start of it that fits with the suffix, and is never
\* blank where a handler gave it: for texts of every length and any limit of
\* bound_approval_reason that leaves room for the suffix.
THEOREM ReasonsTheorem == Spec => []ReasonsAreBounded
<1>1. IInv => ReasonsAreBounded
  BY DEF IInv, PlansOK, PlanOK, ReasonOK, ReasonsAreBounded, Bounds, Fitting, Short
<1> QED
  BY <1>1, InitIInv, StepIInv, PTL DEF Spec

------------------------------------
(* Folds, by the elements *)

\* x is the fold of t from base with the steps f, as FoldLeft defines it: iter of a
\* set of positions is what the greatest one makes of iter of the others, as far as
\* that is known to be in A.
FoldsTo(iter, t, A, base, f) ==
    /\ iter[{}] = base
    /\ \A s \in SUBSET (1..Len(t)) :
          s # {} /\ iter[s \ {Max(s)}] \in A =>
             iter[s] = f[<<iter[s \ {Max(s)}], t[Max(s)]>>]
IsFoldOf(x, t, A, base, f) ==
    \E iter : x = iter[1..Len(t)] /\ FoldsTo(iter, t, A, base, f)

\* The steps, for values in E, stay in A.
Folding(E, A, base, f) == base \in A /\ f \in [A \X E -> A]

\* g is a function that the fold of t can be defined by.
Defines(g, t, E, A, base, f) ==
    /\ g \in [SUBSET (1..Len(t)) -> A]
    /\ g[{}] = base
    /\ \A s \in SUBSET (1..Len(t)) : s # {} =>
          /\ t[Max(s)] \in E /\ g[s \ {Max(s)}] \in A
          /\ g[s] = f[<<g[s \ {Max(s)}], t[Max(s)]>>]

\* Steps that stay in a set define a function.
LEMMA FoldIsDefined ==
    ASSUME NEW E, NEW A, NEW base, NEW f, Folding(E, A, base, f), NEW t \in Seq(E)
    PROVE  \E g : Defines(g, t, E, A, base, f)
<1> DEFINE n == Len(t)
           step == [x \in A \X (1..n) |-> f[<<x[1], t[x[2]]>>]]
<1>1. n \in Nat /\ \A i \in 1..n : t[i] \in E
  OBVIOUS
<1> HIDE DEF n
<1>2. base \in A /\ step \in [A \X (1..n) -> A]
  BY <1>1 DEF Folding
<1>3. ASSUME NEW x \in A, NEW i \in 1..n PROVE step[<<x, i>>] = f[<<x, t[i]>>]
  OBVIOUS
<1> HIDE DEF step
<1>4. PICK g \in [SUBSET (1..n) -> A] : IsFold(g, n, base, step)
  BY <1>1, <1>2, FoldExists
<1>5. g[{}] = base
  BY <1>4 DEF IsFold
<1>6. ASSUME NEW s \in SUBSET (1..n), s # {}
      PROVE  /\ t[Max(s)] \in E /\ g[s \ {Max(s)}] \in A
             /\ g[s] = f[<<g[s \ {Max(s)}], t[Max(s)]>>]
  <2>1. s \in SUBSET (1..(n + 1))
    BY <1>1
  <2>2. Max(s) \in 1..n
    BY <1>1, <1>6, <2>1, MaxOfPositions
  <2>3. g[s \ {Max(s)}] \in A
    BY <1>4
  <2>4. g[s] = step[<<g[s \ {Max(s)}], Max(s)>>]
    BY <1>4, <1>6 DEF IsFold
  <2> QED
    BY <1>1, <1>3, <2>2, <2>3, <2>4
<1>7. Defines(g, t, E, A, base, f)
  BY <1>4, <1>5, <1>6 DEF n, Defines
<1> QED
  BY <1>7

\* Such a fold takes its values one by one.
LEMMA FoldSteps ==
    ASSUME NEW E, NEW A, NEW base, NEW f, Folding(E, A, base, f), NEW t \in Seq(E),
           NEW iter, FoldsTo(iter, t, A, base, f)
    PROVE  /\ iter[1..0] = base
           /\ \A k \in 0..(Len(t) - 1) : iter[1..(k + 1)] = f[<<iter[1..k], t[k + 1]>>]
           /\ iter[1..Len(t)] \in A
<1> DEFINE n == Len(t)
<1>0. n \in Nat /\ (\A i \in 1..n : t[i] \in E) /\ base \in A /\ f \in [A \X E -> A]
  BY DEF Folding
<1> HIDE DEF n
<1>1. iter[1..0] = base
  <2>1. 1..0 = {}
    OBVIOUS
  <2> QED
    BY <2>1 DEF FoldsTo
<1>2. ASSUME NEW k \in 0..(n - 1), iter[1..k] \in A
      PROVE  iter[1..(k + 1)] = f[<<iter[1..k], t[k + 1]>>] /\ iter[1..(k + 1)] \in A
  <2> DEFINE s == 1..(k + 1)
  <2>1. s \in SUBSET (1..n) /\ s # {} /\ Max(s) = k + 1 /\ s \ {k + 1} = 1..k
    BY <1>0, FirstPositions
  <2> HIDE DEF s
  <2>2. iter[s] = f[<<iter[1..k], t[k + 1]>>]
    BY <1>2, <2>1 DEF FoldsTo, n
  <2>3. k + 1 \in 1..n
    BY <1>0
  <2>4. f[<<iter[1..k], t[k + 1]>>] \in A
    BY <1>0, <1>2, <2>3
  <2> QED
    BY <2>2, <2>4 DEF s
<1>3. \A k \in 0..n : iter[1..k] \in A
  <2> DEFINE P == {k \in Nat : k <= n => iter[1..k] \in A}
  <2>1. 0 \in P
    BY <1>0, <1>1
  <2>2. ASSUME NEW k \in P PROVE k + 1 \in P
    <3> SUFFICES ASSUME k + 1 <= n PROVE iter[1..(k + 1)] \in A
      OBVIOUS
    <3>1. k \in 0..(n - 1) /\ iter[1..k] \in A
      BY <1>0
    <3> QED
      BY <1>2, <3>1
  <2> HIDE DEF P
  <2>3. P \in SUBSET Nat
    BY DEF P
  <2>4. P = Nat
    BY <2>1, <2>2, <2>3, Induction
  <2> QED
    BY <1>0, <2>4 DEF P
<1>4. \A k \in 0..(n - 1) : iter[1..(k + 1)] = f[<<iter[1..k], t[k + 1]>>]
  BY <1>0, <1>2, <1>3
<1>5. iter[1..n] \in A
  BY <1>0, <1>3
<1> QED
  BY <1>1, <1>4, <1>5 DEF n

\* n steps from base.
Runs(a, n, base, step) ==
    /\ a[0] = base
    /\ \A k \in 0..(n - 1) : a[k + 1] = step[<<a[k], k + 1>>]

\* Two runs of the same steps agree.
LEMMA SameSteps ==
    ASSUME NEW n \in Nat, NEW a, NEW b, NEW base, NEW step,
           Runs(a, n, base, step), Runs(b, n, base, step)
    PROVE  a[n] = b[n]
<1> DEFINE P == {k \in Nat : k <= n => a[k] = b[k]}
<1>1. 0 \in P
  BY DEF Runs
<1>2. ASSUME NEW k \in P PROVE k + 1 \in P
  <2> SUFFICES ASSUME k + 1 <= n PROVE a[k + 1] = b[k + 1]
    OBVIOUS
  <2>1. k \in 0..(n - 1) /\ a[k] = b[k]
    OBVIOUS
  <2> QED
    BY <2>1 DEF Runs
<1> HIDE DEF P
<1>3. P \in SUBSET Nat
  BY DEF P
<1>4. P = Nat
  BY <1>1, <1>2, <1>3, Induction
<1> QED
  BY <1>4 DEF P

\* What a sequence with one more element is made of.
LEMMA AppendParts ==
    ASSUME NEW E, NEW s \in Seq(E), NEW e \in E
    PROVE  /\ Append(s, e) \in Seq(E) /\ Len(s) \in Nat /\ Len(Append(s, e)) = Len(s) + 1
           /\ Append(s, e)[Len(s) + 1] = e /\ Append(s, e) # <<>>
           /\ \A i \in 1..Len(s) : Append(s, e)[i] = s[i]
           /\ Last(Append(s, e)) = e /\ Front(Append(s, e)) = s
<1>1. /\ Append(s, e) \in Seq(E) /\ Len(s) \in Nat /\ Len(Append(s, e)) = Len(s) + 1
      /\ Append(s, e)[Len(s) + 1] = e
      /\ \A i \in 1..Len(s) : Append(s, e)[i] = s[i]
  OBVIOUS
<1> DEFINE t == Append(s, e)
<1> HIDE DEF t
<1>2. Front(t) = [i \in 1..Len(s) |-> t[i]]
  BY <1>1 DEF t, Front
<1>3. s = [i \in 1..Len(s) |-> s[i]]
  OBVIOUS
<1>4. Front(t) = s
  BY <1>1, <1>2, <1>3 DEF t
<1> QED
  BY <1>1, <1>4 DEF t, Last

\* The fold of nothing, and of one value more.
LEMMA FoldGrows ==
    ASSUME NEW E, NEW A, NEW base, NEW f, Folding(E, A, base, f)
    PROVE  /\ \A x : IsFoldOf(x, <<>>, A, base, f) => x = base
           /\ \A t \in Seq(E), e \in E : \A x, y :
                 IsFoldOf(x, t, A, base, f) /\ IsFoldOf(y, Append(t, e), A, base, f) =>
                    x \in A /\ y = f[<<x, e>>]
<1>1. ASSUME NEW x, IsFoldOf(x, <<>>, A, base, f) PROVE x = base
  <2>1. PICK iter : x = iter[1..Len(<<>>)] /\ FoldsTo(iter, <<>>, A, base, f)
    BY <1>1 DEF IsFoldOf
  <2>2. 1..Len(<<>>) = {}
    OBVIOUS
  <2> QED
    BY <2>1, <2>2 DEF FoldsTo
<1>2. ASSUME NEW t \in Seq(E), NEW e \in E, NEW x, NEW y,
             IsFoldOf(x, t, A, base, f), IsFoldOf(y, Append(t, e), A, base, f)
      PROVE  x \in A /\ y = f[<<x, e>>]
  <2> DEFINE more == Append(t, e)
             n == Len(t)
  <2>1. /\ more \in Seq(E) /\ n \in Nat /\ Len(more) = n + 1 /\ more[n + 1] = e
        /\ \A i \in 1..n : more[i] = t[i]
    BY AppendParts
  <2>2. PICK iter : x = iter[1..n] /\ FoldsTo(iter, t, A, base, f)
    BY <1>2 DEF IsFoldOf
  <2> HIDE DEF more
  <2>3. PICK jter : y = jter[1..Len(more)] /\ FoldsTo(jter, more, A, base, f)
    BY <1>2 DEF IsFoldOf, more
  <2>4. /\ iter[1..0] = base /\ iter[1..n] \in A
        /\ \A k \in 0..(n - 1) : iter[1..(k + 1)] = f[<<iter[1..k], t[k + 1]>>]
    BY <2>2, FoldSteps
  <2>5. /\ jter[1..0] = base
        /\ \A k \in 0..(Len(more) - 1) : jter[1..(k + 1)] = f[<<jter[1..k], more[k + 1]>>]
    BY <2>1, <2>3, FoldSteps
  <2> HIDE DEF n
  <2> DEFINE P == {k \in Nat : k <= n => iter[1..k] = jter[1..k]}
  <2>6. 0 \in P
    BY <2>4, <2>5
  <2>7. ASSUME NEW k \in P PROVE k + 1 \in P
    <3> SUFFICES ASSUME k + 1 <= n PROVE iter[1..(k + 1)] = jter[1..(k + 1)]
      OBVIOUS
    <3>1. k \in 0..(n - 1) /\ k \in 0..(Len(more) - 1) /\ k + 1 \in 1..n
          /\ iter[1..k] = jter[1..k]
      BY <2>1
    <3> QED
      BY <2>1, <2>4, <2>5, <3>1
  <2> HIDE DEF P
  <2>8. P \in SUBSET Nat
    BY DEF P
  <2>9. P = Nat
    BY <2>6, <2>7, <2>8, Induction
  <2>10. iter[1..n] = jter[1..n]
    BY <2>1, <2>9 DEF P
  <2>11. n \in 0..(Len(more) - 1)
    BY <2>1
  <2>12. jter[1..(n + 1)] = f[<<jter[1..n], more[n + 1]>>]
    BY <2>5, <2>11
  <2> QED
    BY <2>1, <2>2, <2>3, <2>4, <2>10, <2>12
<1> QED
  BY <1>1, <1>2

\* A sequence that is not empty is its front and its last element.
LEMMA FrontAndLast ==
    ASSUME NEW E, NEW s \in Seq(E), s # <<>>
    PROVE  /\ Front(s) \in Seq(E) /\ Last(s) \in E /\ s = Append(Front(s), Last(s))
           /\ Len(s) \in Nat \ {0} /\ Len(Front(s)) = Len(s) - 1
           /\ \A i \in 1..(Len(s) - 1) : Front(s)[i] = s[i]
<1>1. Len(s) \in Nat /\ Len(s) >= 1
  OBVIOUS
<1>2. Front(s) \in Seq(E) /\ Len(Front(s)) = Len(s) - 1
      /\ \A i \in 1..(Len(s) - 1) : Front(s)[i] = s[i]
  BY <1>1 DEF Front
<1>3. Last(s) \in E /\ Last(s) = s[Len(s)]
  BY <1>1 DEF Last
<1>4. s = Append(Front(s), Last(s))
  BY <1>1, <1>2, <1>3
<1> QED
  BY <1>1, <1>2, <1>3, <1>4

\* A set of sequences that has the empty one and, with each, those that have one more
\* element has them all.
LEMMA SequencesInduction ==
    ASSUME NEW E, NEW P \in SUBSET Seq(E), <<>> \in P,
           \A s \in P : \A e \in E : Append(s, e) \in P
    PROVE  P = Seq(E)
<1> DEFINE Q == {n \in Nat : \A s \in Seq(E) : Len(s) = n => s \in P}
<1>1. 0 \in Q
  OBVIOUS
<1>2. ASSUME NEW n \in Q PROVE n + 1 \in Q
  <2> SUFFICES ASSUME NEW s \in Seq(E), Len(s) = n + 1 PROVE s \in P
    OBVIOUS
  <2>1. n \in Nat /\ s # <<>>
    OBVIOUS
  <2>2. /\ Front(s) \in Seq(E) /\ Last(s) \in E /\ s = Append(Front(s), Last(s))
        /\ Len(Front(s)) = n
    <3>1. /\ Front(s) \in Seq(E) /\ Last(s) \in E /\ s = Append(Front(s), Last(s))
          /\ Len(Front(s)) = Len(s) - 1
      BY <2>1, FrontAndLast, Zenon
    <3>2. Len(Front(s)) = n
      <4> HIDE DEF Q
      <4>1. \A x \in Nat : x + 1 - 1 = x
        OBVIOUS
      <4>2. Len(Front(s)) = (n + 1) - 1
        BY <3>1
      <4> QED
        BY <2>1, <4>1, <4>2
    <3> QED
      BY <3>1, <3>2, Zenon
  <2>3. Front(s) \in P
    BY <2>1, <2>2
  <2> QED
    BY <2>2, <2>3, Zenon
<1> HIDE DEF Q
<1>3. Q \in SUBSET Nat
  BY DEF Q
<1>4. Q = Nat
  BY <1>1, <1>2, <1>3, Induction
<1>5. ASSUME NEW s \in Seq(E) PROVE s \in P
  <2>1. Len(s) \in Q
    BY <1>4
  <2> QED
    BY <2>1 DEF Q
<1> QED
  BY <1>5

------------------------------------
(* Texts and lines *)

\* STRING, as a set like any other.
CharSet == STRING
Texts == Seq(CharSet)

\* A line: a newline is only at its end.
Lines == {t \in Texts : \A i \in 1..(Len(t) - 1) : t[i] # "N"}

\* Joining lines one by one.
LEMMA FlattenSteps ==
    ASSUME NEW lines \in Seq(Texts)
    PROVE  \E a \in [0..Len(lines) -> Texts] :
              /\ a[0] = <<>>
              /\ \A k \in 0..(Len(lines) - 1) : a[k + 1] = a[k] \o lines[k + 1]
              /\ FlattenSeq(lines) = a[Len(lines)]
<1> DEFINE n == Len(lines)
           Joins(f) == f = [i \in 1..n |-> IF i = 1 THEN lines[i] ELSE f[i - 1] \o lines[i]]
           flatten == CHOOSE f : Joins(f)
           step == [x \in Texts \X (1..n) |-> x[1] \o lines[x[2]]]
<1>1. n \in Nat /\ \A i \in 1..n : lines[i] \in Texts
  OBVIOUS
<1>2. CASE n = 0
  <2>1. FlattenSeq(lines) = <<>> /\ <<>> \in Texts
    BY <1>2 DEF FlattenSeq, Texts
  <2> [k \in 0..Len(lines) |-> <<>>] \in [0..Len(lines) -> Texts]
    BY ONLY <2>1
  <2> WITNESS [k \in 0..Len(lines) |-> <<>>] \in [0..Len(lines) -> Texts]
  <2> QED
    BY <1>2, <2>1
<1>3. CASE n # 0
  <2>1. FlattenSeq(lines) = flatten[n]
    BY <1>3 DEF FlattenSeq
  <2> HIDE DEF n
  <2>2. step \in [Texts \X (1..n) -> Texts]
    BY <1>1 DEF Texts
  <2>3. <<>> \in Texts
    BY DEF Texts
  <2> HIDE DEF step
  <2>4. PICK g \in [SUBSET (1..n) -> Texts] : IsFold(g, n, <<>>, step)
    BY <1>1, <2>2, <2>3, FoldExists
  <2> DEFINE a == [k \in 0..n |-> g[1..k]]
  <2>5. a[0] = <<>>
    <3>1. 1..0 = {} /\ {} \in SUBSET (1..n)
      OBVIOUS
    <3> QED
      <4>1. g[{}] = <<>>
        BY <2>4, <3>1 DEF IsFold
      <4>2. a[0] = g[1..0]
        BY <1>1
      <4> QED
        BY <3>1, <4>1, <4>2
  <2>6. \A k \in 0..n : a[k] \in Texts
    <3> TAKE k \in 0..n
    <3>1. 1..k \in SUBSET (1..n)
      BY <1>1
    <3> QED
      BY <2>4, <3>1
  <2>7. ASSUME NEW k \in 0..(n - 1) PROVE a[k + 1] = a[k] \o lines[k + 1]
    <3> DEFINE s == 1..(k + 1)
    <3>1. s \in SUBSET (1..n) /\ s # {} /\ Max(s) = k + 1 /\ s \ {k + 1} = 1..k
      BY <1>1, FirstPositions
    <3> HIDE DEF s
    <3>2. g[s] = step[<<g[1..k], k + 1>>]
      BY <2>4, <3>1 DEF IsFold
    <3>3. a[k + 1] = g[s] /\ a[k] = g[1..k] /\ a[k] \in Texts /\ k + 1 \in 1..n
      BY <1>1, <2>6 DEF s
    <3> HIDE DEF a
    <3> QED
      BY <3>2, <3>3 DEF step
  <2> HIDE DEF a
  <2> DEFINE f == [i \in 1..n |-> a[i]]
  <2>8. Joins(f)
    <3>1. ASSUME NEW i \in 1..n
          PROVE  a[i] = IF i = 1 THEN lines[i] ELSE f[i - 1] \o lines[i]
      <4>1. i - 1 \in 0..(n - 1) /\ (i - 1) + 1 = i
        BY <1>1
      <4>2. a[i] = a[i - 1] \o lines[i]
        BY <2>7, <4>1
      <4>3. CASE i = 1
        <5>1. lines[1] \in Texts
          BY <1>1, <4>3
        <5>2. a[1] = <<>> \o lines[1]
          <6>1. a[0 + 1] = a[0] \o lines[0 + 1]
            <7>1. 0 \in 0..(n - 1)
              BY <1>1, <4>3
            <7> QED
              BY <2>7, <7>1
          <6> QED
            BY <2>5, <6>1
        <5>3. <<>> \o lines[1] = lines[1]
          BY <5>1 DEF Texts
        <5> QED
          BY <4>3, <5>2, <5>3
      <4>4. CASE i # 1
        <5>1. i - 1 \in 1..n
          BY <1>1, <4>4
        <5> QED
          BY <4>2, <4>4, <5>1
      <4> QED
        BY <4>3, <4>4
    <3> QED
      BY <3>1
  <2> HIDE DEF f
  <2>9. Joins(flatten)
    BY <2>8
  <2> HIDE DEF flatten
  <2>10. ASSUME NEW i \in 1..n PROVE flatten[i] = a[i]
    <3> DEFINE P == {k \in Nat : k + 1 <= n => flatten[k + 1] = a[k + 1]}
    <3>0. \A k \in 1..n : flatten[k] = IF k = 1 THEN lines[k] ELSE flatten[k - 1] \o lines[k]
      BY <2>9
    <3>1. 0 \in P
      <4> SUFFICES ASSUME 1 <= n PROVE flatten[1] = a[1]
        OBVIOUS
      <4>1. 1 \in 1..n /\ 0 \in 0..(n - 1)
        BY <1>1
      <4>2. flatten[1] = lines[1] /\ lines[1] \in Texts
        BY <1>1, <3>0, <4>1
      <4>3. a[0 + 1] = <<>> \o lines[0 + 1]
        BY <2>5, <2>7, <4>1
      <4> QED
        BY <4>2, <4>3 DEF Texts
    <3>2. ASSUME NEW k \in P PROVE k + 1 \in P
      <4> SUFFICES ASSUME k + 1 + 1 <= n PROVE flatten[k + 1 + 1] = a[k + 1 + 1]
        OBVIOUS
      <4>1. k \in Nat /\ flatten[k + 1] = a[k + 1]
        BY <1>1
      <4>2. k + 1 + 1 \in 1..n /\ k + 1 + 1 # 1 /\ (k + 1 + 1) - 1 = k + 1
            /\ k + 1 \in 0..(n - 1)
        BY <1>1, <4>1
      <4>3. flatten[k + 1 + 1] = flatten[k + 1] \o lines[k + 1 + 1]
        BY <3>0, <4>2
      <4> QED
        BY <2>7, <4>1, <4>2, <4>3
    <3> HIDE DEF P
    <3>3. P \in SUBSET Nat
      BY DEF P
    <3>4. P = Nat
      BY <3>1, <3>2, <3>3, Induction
    <3>5. i - 1 \in P /\ (i - 1) + 1 = i /\ i <= n
      BY <1>1, <3>4
    <3> QED
      BY <3>5 DEF P
  <2>11. flatten[n] = a[n]
    BY <1>1, <1>3, <2>10
  <2>12. a \in [0..n -> Texts]
    BY <2>6 DEF a
  <2>13. a \in [0..Len(lines) -> Texts] /\ a[0] = <<>>
         /\ (\A k \in 0..(Len(lines) - 1) : a[k + 1] = a[k] \o lines[k + 1])
         /\ FlattenSeq(lines) = a[Len(lines)]
    BY <2>1, <2>5, <2>7, <2>11, <2>12 DEF n
  <2> QED
    BY <2>13
<1> QED
  BY <1>2, <1>3

\* One line more.
LEMMA FlattenAppend ==
    /\ FlattenSeq(<<>>) = <<>>
    /\ \A lines \in Seq(Texts) :
          /\ FlattenSeq(lines) \in Texts
          /\ \A line \in Texts :
                FlattenSeq(Append(lines, line)) = FlattenSeq(lines) \o line
<1>1. FlattenSeq(<<>>) = <<>>
  BY DEF FlattenSeq
<1>2. ASSUME NEW lines \in Seq(Texts), NEW line \in Texts
      PROVE  /\ FlattenSeq(lines) \in Texts
             /\ FlattenSeq(Append(lines, line)) = FlattenSeq(lines) \o line
  <2> DEFINE n == Len(lines)
             more == Append(lines, line)
             step == [x \in Texts \X (1..n) |-> x[1] \o lines[x[2]]]
  <2>1. /\ more \in Seq(Texts) /\ n \in Nat /\ Len(more) = n + 1 /\ more[n + 1] = line
        /\ \A i \in 1..n : more[i] = lines[i]
    BY AppendParts
  <2>2. PICK a \in [0..n -> Texts] :
           /\ a[0] = <<>>
           /\ \A k \in 0..(n - 1) : a[k + 1] = a[k] \o lines[k + 1]
           /\ FlattenSeq(lines) = a[n]
    BY FlattenSteps
  <2> HIDE DEF more
  <2>3. PICK b \in [0..Len(more) -> Texts] :
           /\ b[0] = <<>>
           /\ \A k \in 0..(Len(more) - 1) : b[k + 1] = b[k] \o more[k + 1]
           /\ FlattenSeq(more) = b[Len(more)]
    BY <2>1, FlattenSteps
  <2> HIDE DEF n
  <2>4. \A k \in 0..(n - 1) : a[k + 1] = step[<<a[k], k + 1>>]
    <3> TAKE k \in 0..(n - 1)
    <3>1. a[k] \in Texts /\ k + 1 \in 1..n
      BY <2>1, <2>2
    <3> QED
      BY <2>2, <3>1
  <2>5. \A k \in 0..(n - 1) : b[k + 1] = step[<<b[k], k + 1>>]
    <3> TAKE k \in 0..(n - 1)
    <3>1. b[k] \in Texts /\ k + 1 \in 1..n /\ k \in 0..(Len(more) - 1)
      BY <2>1, <2>3
    <3> QED
      BY <2>1, <2>3, <3>1
  <2> HIDE DEF step
  <2>6. a[n] = b[n]
    <3>1. Runs(a, n, <<>>, step) /\ Runs(b, n, <<>>, step)
      BY <2>2, <2>3, <2>4, <2>5 DEF Runs
    <3> QED
      BY <2>1, <3>1, SameSteps
  <2>7. n \in 0..(Len(more) - 1) /\ n \in 0..n
    BY <2>1
  <2>8. FlattenSeq(more) = FlattenSeq(lines) \o line
    BY <2>1, <2>2, <2>3, <2>6, <2>7
  <2> QED
    BY <2>2, <2>7, <2>8 DEF more
<1>3. <<>> \in Texts
  BY DEF Texts
<1> QED
  BY <1>1, <1>2, <1>3

------------------------------------
(* split_inclusive *)

\* One character of a split.
LEMMA SplitTyped ==
    /\ <<>> \in Seq(Texts)
    /\ \A lines \in Seq(Texts), c \in CharSet : SplitStep(lines, c) \in Seq(Texts)
<1> SUFFICES ASSUME NEW lines \in Seq(Texts), NEW c \in CharSet
             PROVE  SplitStep(lines, c) \in Seq(Texts)
  OBVIOUS
<1>1. <<c>> \in Texts
  BY DEF Texts
<1>2. CASE lines = <<>> \/ EndsIn(Last(lines), "N")
  BY <1>1, <1>2 DEF SplitStep
<1>3. CASE ~(lines = <<>> \/ EndsIn(Last(lines), "N"))
  <2>1. Front(lines) \in Seq(Texts) /\ Last(lines) \in Texts
    BY <1>3, FrontAndLast
  <2>2. Append(Last(lines), c) \in Texts
    BY <2>1 DEF Texts
  <2> QED
    BY <1>3, <2>1, <2>2 DEF SplitStep
<1> QED
  BY <1>2, <1>3

SplitSteps == [x \in Seq(Texts) \X CharSet |-> SplitStep(x[1], x[2])]

\* Splitting a text, character by character.
LEMMA SplitFold ==
    ASSUME NEW t \in Seq(CharSet)
    PROVE  /\ Folding(CharSet, Seq(Texts), <<>>, SplitSteps)
           /\ IsFoldOf(split_inclusive(t), t, Seq(Texts), <<>>, SplitSteps)
<1> DEFINE n == Len(t)
           Folds(g) == g = [s \in SUBSET (1..n) |->
                               IF s = {} THEN <<>>
                               ELSE SplitStep(g[s \ {Max(s)}], t[Max(s)])]
           iter == CHOOSE g : Folds(g)
<1>1. n \in Nat /\ DOMAIN t = 1..n
  OBVIOUS
<1>2. split_inclusive(t) = iter[1..n]
  BY <1>1 DEF split_inclusive, FoldLeft, MapThenFoldSet
<1>3. /\ Folding(CharSet, Seq(Texts), <<>>, SplitSteps)
      /\ \A x \in Seq(Texts), e \in CharSet : SplitSteps[<<x, e>>] = SplitStep(x, e)
  BY SplitTyped DEF Folding, SplitSteps
<1>4. Folds(iter)
  <2>1. PICK g : Defines(g, t, CharSet, Seq(Texts), <<>>, SplitSteps)
    BY <1>3, FoldIsDefined
  <2>2. \A s \in SUBSET (1..n) : s # {} => g[s] = SplitStep(g[s \ {Max(s)}], t[Max(s)])
    BY <1>3, <2>1 DEF Defines
  <2>3. Folds(g)
    <3>1. g \in [SUBSET (1..n) -> Seq(Texts)] /\ g[{}] = <<>>
      BY <2>1 DEF Defines
    <3> HIDE DEF n
    <3> QED
      BY <2>2, <3>1
  <2> HIDE DEF Folds
  <2> QED
    BY <2>3
<1> HIDE DEF iter
<1>5. FoldsTo(iter, t, Seq(Texts), <<>>, SplitSteps)
  <2>1. iter[{}] = <<>>
    BY <1>4
  <2>2. ASSUME NEW s \in SUBSET (1..n), s # {}, iter[s \ {Max(s)}] \in Seq(Texts)
        PROVE  iter[s] = SplitSteps[<<iter[s \ {Max(s)}], t[Max(s)]>>]
    <3>1. Max(s) \in 1..n
      <4>1. s \in SUBSET (1..(n + 1))
        BY <1>1
      <4> QED
        BY <1>1, <2>2, <4>1, MaxOfPositions
    <3>2. t[Max(s)] \in CharSet
      BY <3>1
    <3>3. iter[s] = SplitStep(iter[s \ {Max(s)}], t[Max(s)])
      <4> HIDE DEF n
      <4> QED
        BY <1>4, <2>2
    <3> QED
      BY <1>3, <2>2, <3>2, <3>3
  <2> QED
    BY <2>1, <2>2 DEF FoldsTo
<1> HIDE DEF n
<1>6. IsFoldOf(split_inclusive(t), t, Seq(Texts), <<>>, SplitSteps)
  BY <1>2, <1>5 DEF n, IsFoldOf
<1> QED
  BY <1>3, <1>6

\* Nothing, and one more.
LEMMA SplitAppend ==
    ASSUME NEW t \in Seq(CharSet), NEW c \in CharSet
    PROVE  /\ split_inclusive(<<>>) = <<>>
           /\ split_inclusive(t) \in Seq(Texts)
           /\ split_inclusive(Append(t, c))
                 = SplitStep(split_inclusive(t), c)
<1>1. <<>> \in Seq(CharSet) /\ Append(t, c) \in Seq(CharSet)
  BY AppendParts
<1>2. /\ Folding(CharSet, Seq(Texts), <<>>, SplitSteps)
      /\ IsFoldOf(split_inclusive(t), t, Seq(Texts), <<>>, SplitSteps)
      /\ IsFoldOf(split_inclusive(<<>>), <<>>, Seq(Texts), <<>>, SplitSteps)
      /\ IsFoldOf(split_inclusive(Append(t, c)),
                  Append(t, c), Seq(Texts), <<>>, SplitSteps)
  BY <1>1, SplitFold
<1>3. /\ split_inclusive(<<>>) = <<>>
      /\ split_inclusive(t) \in Seq(Texts)
      /\ split_inclusive(Append(t, c))
            = SplitSteps[<<split_inclusive(t), c>>]
  BY <1>2, FoldGrows
<1> QED
  BY <1>3 DEF SplitSteps

\* What a text is split into: lines that are not empty, and only the last one may be
\* without its newline.
Proper(lines) == lines \in Seq(Lines) /\ Whole(lines)

\* Lines are texts.
LEMMA LinesAreTexts ==
    /\ Lines \subseteq Texts /\ Seq(Lines) \subseteq Seq(Texts) /\ Seq(Texts) = Seq(Seq(CharSet))
    /\ <<>> \in Texts /\ <<>> \in Lines
BY DEF Lines, Texts

\* The empty text has no lines.
LEMMA SplitEmpty == split_inclusive(<<>>) = <<>>
<1>1. <<>> \in Seq(CharSet)
  OBVIOUS
<1>2. Folding(CharSet, Seq(Texts), <<>>, SplitSteps)
      /\ IsFoldOf(split_inclusive(<<>>), <<>>, Seq(Texts), <<>>, SplitSteps)
  BY <1>1, SplitFold
<1> QED
  BY <1>2, FoldGrows

\* The end of a text.
LEMMA EndsInFacts ==
    ASSUME NEW t \in Texts, NEW c \in CharSet, NEW d
    PROVE  /\ EndsIn(Append(t, c), d) <=> c = d
           /\ Append(t, c) \in Texts /\ Append(t, c) # <<>>
           /\ EndsIn(t, "N") <=> t # <<>> /\ t[Len(t)] = "N"
<1>1. Append(t, c) \in Texts /\ Append(t, c) # <<>> /\ Last(Append(t, c)) = c
  BY AppendParts DEF Texts
<1> QED
  BY <1>1 DEF EndsIn, Last

\* A line that does not end yet grows.
LEMMA LineGrows ==
    ASSUME NEW t \in Texts, NEW c \in CharSet
    PROVE  Append(t, c) \in Lines <=> t \in Lines /\ ~EndsIn(t, "N")
<1> DEFINE u == Append(t, c)
<1>1. /\ u \in Texts /\ Len(t) \in Nat /\ Len(u) = Len(t) + 1
      /\ \A i \in 1..Len(t) : u[i] = t[i]
  BY AppendParts DEF Texts
<1> HIDE DEF u
<1>2. u \in Lines <=> \A i \in 1..Len(t) : t[i] # "N"
  BY <1>1 DEF Lines
<1>3. EndsIn(t, "N") <=> Len(t) > 0 /\ t[Len(t)] = "N"
  BY <1>1, EndsInFacts DEF Texts
<1>4. t \in Lines <=> \A i \in 1..(Len(t) - 1) : t[i] # "N"
  BY DEF Lines
<1> QED
  BY <1>1, <1>2, <1>3, <1>4 DEF u

\* Lines of which the last one is changed or to which one is added.
LEMMA WholeAppend ==
    ASSUME NEW lines \in Seq(Texts), NEW line \in Texts
    PROVE  Whole(Append(lines, line)) <=>
              /\ Whole(lines) /\ line # <<>>
              /\ \A k \in DOMAIN lines : EndsIn(lines[k], "N")
<1> DEFINE more == Append(lines, line)
           n == Len(lines)
<1>1. /\ more \in Seq(Texts) /\ n \in Nat /\ Len(more) = n + 1 /\ more[n + 1] = line
      /\ \A i \in 1..n : more[i] = lines[i]
  BY AppendParts
<1>2. DOMAIN more = 1..(n + 1) /\ DOMAIN lines = 1..n
  BY <1>1
<1>3. \A k : EndsIn(lines[k], "N") => lines[k] # <<>>
  BY DEF EndsIn
<1> HIDE DEF more, n
<1>4. Whole(more) <=>
         \A k \in 1..(n + 1) : more[k] # <<>> /\ (k < n + 1 => EndsIn(more[k], "N"))
  BY <1>1, <1>2 DEF Whole
<1>5. Whole(more) <=> line # <<>> /\ \A k \in 1..n : EndsIn(lines[k], "N")
  BY <1>1, <1>3, <1>4
<1>6. (\A k \in 1..n : EndsIn(lines[k], "N")) => Whole(lines)
  BY <1>1, <1>2, <1>3 DEF Whole
<1> QED
  BY <1>2, <1>5, <1>6 DEF more

\* Lines with their newline, but for the last one.
LEMMA WholeLast ==
    ASSUME NEW lines \in Seq(Texts), Whole(lines)
    PROVE  lines = <<>> \/ EndsIn(Last(lines), "N") =>
              \A k \in DOMAIN lines : EndsIn(lines[k], "N")
<1>1. DOMAIN lines = 1..Len(lines) /\ Len(lines) \in Nat
  OBVIOUS
<1>2. Last(lines) = lines[Len(lines)]
  BY DEF Last
<1> QED
  BY <1>1, <1>2 DEF Whole

\* A text is its lines, one after the other.
LEMMA SplitIsProper ==
    ASSUME NEW text \in Texts
    PROVE  Proper(split_inclusive(text)) /\ FlattenSeq(split_inclusive(text)) = text
<1> DEFINE OK(t) == Proper(split_inclusive(t)) /\ FlattenSeq(split_inclusive(t)) = t
           P == {t \in Seq(CharSet) : OK(t)}
<1>1. <<>> \in P
  <2>1. split_inclusive(<<>>) = <<>>
    BY SplitEmpty
  <2>2. Proper(<<>>)
    BY DEF Proper, Whole
  <2> QED
    BY <2>1, <2>2, FlattenAppend
<1>2. ASSUME NEW t \in P, NEW c \in CharSet PROVE Append(t, c) \in P
  <2> DEFINE lines == split_inclusive(t)
  <2>1. /\ lines \in Seq(Texts) /\ split_inclusive(Append(t, c)) = SplitStep(lines, c)
    BY SplitAppend
  <2>2. Proper(lines) /\ FlattenSeq(lines) = t /\ t \in Texts
    BY DEF Texts
  <2>3. Append(t, c) \in Seq(CharSet)
    OBVIOUS
  <2> HIDE DEF lines, OK
  <2>4. CASE lines = <<>> \/ EndsIn(Last(lines), "N")
    <3>1. <<c>> = Append(<<>>, c) /\ <<c>> \in Texts /\ <<c>> # <<>> /\ <<c>> \in Lines
      BY DEF Lines, Texts
    <3>2. SplitStep(lines, c) = Append(lines, <<c>>)
      BY <2>4 DEF SplitStep
    <3>3. Proper(Append(lines, <<c>>))
      <4>1. lines \in Seq(Lines) /\ Whole(lines)
        BY <2>2 DEF Proper
      <4>2. \A k \in DOMAIN lines : EndsIn(lines[k], "N")
        BY <2>1, <2>4, <4>1, WholeLast
      <4>3. Whole(Append(lines, <<c>>))
        BY <2>1, <3>1, <4>1, <4>2, WholeAppend
      <4>4. Append(lines, <<c>>) \in Seq(Lines)
        BY <3>1, <4>1
      <4> QED
        BY <4>3, <4>4 DEF Proper
    <3>4. FlattenSeq(Append(lines, <<c>>)) = t \o <<c>>
      BY <2>1, <2>2, <3>1, FlattenAppend
    <3>5. t \o <<c>> = Append(t, c)
      BY <2>2 DEF Texts
    <3> QED
      BY <2>1, <2>3, <3>2, <3>3, <3>4, <3>5 DEF OK
  <2>5. CASE ~(lines = <<>> \/ EndsIn(Last(lines), "N"))
    <3> DEFINE front == Front(lines)
               tail == Last(lines)
               line == Append(tail, c)
    <3>1. SplitStep(lines, c) = Append(front, line)
      BY <2>5 DEF SplitStep
    <3>2. /\ front \in Seq(Lines) /\ tail \in Lines /\ lines = Append(front, tail)
      BY <2>2, <2>5, FrontAndLast DEF Proper
    <3>3. front \in Seq(Texts) /\ tail \in Texts
      BY <3>2, LinesAreTexts
    <3>4. line \in Lines /\ line \in Texts /\ line # <<>>
      BY <2>5, <3>2, <3>3, LineGrows, EndsInFacts
    <3>5. Append(front, line) \in Seq(Lines)
      BY <3>2, <3>4
    <3> HIDE DEF front, tail
    <3>6. Whole(Append(front, tail))
      BY <2>2, <3>2 DEF Proper
    <3>7. Whole(Append(front, line))
      BY <3>3, <3>4, <3>6, WholeAppend
    <3>8. FlattenSeq(Append(front, line)) = FlattenSeq(front) \o Append(tail, c)
      BY <3>3, <3>4, FlattenAppend
    <3>9. t = FlattenSeq(front) \o tail /\ FlattenSeq(front) \in Texts
      BY <2>2, <3>2, <3>3, FlattenAppend
    <3>10. FlattenSeq(front) \o Append(tail, c) = Append(FlattenSeq(front) \o tail, c)
      BY <3>3, <3>9 DEF Texts
    <3> QED
      BY <2>1, <2>3, <3>1, <3>5, <3>7, <3>8, <3>9, <3>10 DEF OK, Proper
  <2> QED
    BY <2>4, <2>5
<1> HIDE DEF OK
<1>3. P \in SUBSET Seq(CharSet)
  OBVIOUS
<1> HIDE DEF P
<1>4. P = Seq(CharSet)
  BY <1>1, <1>2, <1>3, SequencesInduction
<1> QED
  BY <1>4 DEF P, OK, Texts

\* One line is split off the end as it grows.
LEMMA SplitOfLine ==
    ASSUME NEW lines \in Seq(Texts), \A k \in DOMAIN lines : EndsIn(lines[k], "N"),
           split_inclusive(FlattenSeq(lines)) = lines,
           NEW line \in Lines, line # <<>>
    PROVE  split_inclusive(FlattenSeq(lines) \o line) = Append(lines, line)
<1> DEFINE text == FlattenSeq(lines)
           OK(p) == split_inclusive(text \o p) = IF p = <<>> THEN lines ELSE Append(lines, p)
           P == {p \in Seq(CharSet) : p \in Lines => OK(p)}
<1>0. text \in Texts
  BY FlattenAppend
<1> HIDE DEF text
<1>1. <<>> \in P
  <2>1. text \o <<>> = text
    BY <1>0 DEF Texts
  <2> QED
    BY <2>1 DEF text
<1>2. ASSUME NEW p \in P, NEW c \in CharSet PROVE Append(p, c) \in P
  <2> SUFFICES ASSUME Append(p, c) \in Lines PROVE OK(Append(p, c))
    OBVIOUS
  <2>1. p \in Texts /\ p \in Seq(CharSet)
    BY DEF Texts
  <2>2. p \in Lines /\ ~EndsIn(p, "N") /\ Append(p, c) # <<>>
    BY <2>1, LineGrows, EndsInFacts
  <2>3. text \o p \in Seq(CharSet) /\ text \o Append(p, c) = Append(text \o p, c)
    BY <1>0, <2>1 DEF Texts
  <2>4. split_inclusive(text \o Append(p, c)) = SplitStep(split_inclusive(text \o p), c)
    BY <2>3, SplitAppend
  <2>5. OK(p)
    BY <2>2
  <2>6. CASE p = <<>>
    <3>1. split_inclusive(text \o p) = lines
      BY <2>5, <2>6
    <3>2. Append(p, c) = <<c>>
      BY <2>6
    <3>3. lines = <<>> \/ EndsIn(Last(lines), "N")
      <4>1. lines # <<>> => Len(lines) \in DOMAIN lines /\ Last(lines) = lines[Len(lines)]
        BY DEF Last
      <4> QED
        BY <4>1
    <3>4. SplitStep(lines, c) = Append(lines, <<c>>)
      BY <3>3 DEF SplitStep
    <3> QED
      BY <2>2, <2>4, <3>1, <3>2, <3>4
  <2>7. CASE p # <<>>
    <3> DEFINE more == Append(lines, p)
    <3>1. split_inclusive(text \o p) = more
      BY <2>5, <2>7
    <3>2. more # <<>> /\ Last(more) = p /\ Front(more) = lines
      BY <2>1, AppendParts
    <3> HIDE DEF more
    <3>3. SplitStep(more, c) = Append(lines, Append(p, c))
      BY <2>2, <3>2 DEF SplitStep
    <3> QED
      BY <2>2, <2>4, <3>1, <3>3
  <2> QED
    BY <2>6, <2>7
<1> HIDE DEF OK
<1>3. P \in SUBSET Seq(CharSet)
  OBVIOUS
<1> HIDE DEF P
<1>4. P = Seq(CharSet)
  BY <1>1, <1>2, <1>3, SequencesInduction
<1>5. line \in Seq(CharSet)
  BY DEF Lines, Texts
<1>6. OK(line)
  BY <1>4, <1>5 DEF P
<1> QED
  BY <1>6 DEF OK, text

\* Proper lines are the lines of the text they make.
LEMMA SplitOfProper ==
    ASSUME NEW all, Proper(all)
    PROVE  split_inclusive(FlattenSeq(all)) = all
<1> DEFINE OK(lines) == Whole(lines) => split_inclusive(FlattenSeq(lines)) = lines
           P == {lines \in Seq(Lines) : OK(lines)}
<1>1. <<>> \in P
  BY SplitEmpty, FlattenAppend
<1>2. ASSUME NEW lines \in P, NEW line \in Lines PROVE Append(lines, line) \in P
  <2>1. lines \in Seq(Texts) /\ line \in Texts /\ Append(lines, line) \in Seq(Lines)
    BY LinesAreTexts
  <2> SUFFICES ASSUME Whole(Append(lines, line))
               PROVE  split_inclusive(FlattenSeq(Append(lines, line))) = Append(lines, line)
    BY <2>1
  <2>2. Whole(lines) /\ line # <<>> /\ \A k \in DOMAIN lines : EndsIn(lines[k], "N")
    BY <2>1, WholeAppend
  <2>3. split_inclusive(FlattenSeq(lines)) = lines
    BY <2>2
  <2>4. FlattenSeq(Append(lines, line)) = FlattenSeq(lines) \o line
    BY <2>1, FlattenAppend
  <2> QED
    BY <2>1, <2>2, <2>3, <2>4, SplitOfLine
<1> HIDE DEF OK
<1>3. P \in SUBSET Seq(Lines)
  OBVIOUS
<1> HIDE DEF P
<1>4. P = Seq(Lines)
  BY <1>1, <1>2, <1>3, SequencesInduction
<1> QED
  BY <1>4 DEF P, OK, Proper

------------------------------------
(* The steps of apply_hunks *)

\* The steps of apply_hunks: what it applies, and what it keeps.
HunkLines == [kind : {" ", "-", "+"}, content : Lines]
Hunks == [old_start : Int, old_count : Nat, new_count : Nat, old_seen : Nat, new_seen : Nat,
          lines : Seq(HunkLines)]
Applied == [ok : BOOLEAN, cursor : Nat, output : Seq(Lines)]
Nothing == [ok |-> TRUE, cursor |-> 0, output |-> <<>>]

\* A line of a hunk.
LEMMA SomeLine == \E line \in HunkLines : TRUE
<1>1. [kind |-> " ", content |-> <<>>] \in HunkLines
  BY LinesAreTexts DEF HunkLines
<1> QED
  BY <1>1

\* A hunk.
LEMMA SomeHunk == \E hunk \in Hunks : TRUE
<1>1. [old_start |-> 0, old_count |-> 0, new_count |-> 0, old_seen |-> 0, new_seen |-> 0,
       lines |-> <<>>] \in Hunks
  BY DEF Hunks
<1> QED
  BY <1>1

\* The folds of the module, by name.
ApplyLines(at, lines, original) ==
    FoldLeft(LAMBDA b, line : ApplyLine(b, line, original), at, lines)
ApplyHunks(hunks, original) ==
    FoldLeft(LAMBDA b, hunk : ApplyHunk(b, hunk, original), Nothing, hunks)
AddedBy(hunks) == FoldLeft(LAMBDA n, hunk : n + hunk.new_count, 0, hunks)
RemovedBy(hunks) == FoldLeft(LAMBDA n, hunk : n + hunk.old_count, 0, hunks)

\* One line of a hunk.
LEMMA LineTyped ==
    ASSUME NEW original \in Seq(Lines)
    PROVE  \A a \in Applied, line \in HunkLines : ApplyLine(a, line, original) \in Applied
<1> SUFFICES ASSUME NEW a \in Applied, NEW line \in HunkLines
             PROVE  ApplyLine(a, line, original) \in Applied
  OBVIOUS
<1>1. a.ok \in BOOLEAN
  BY DEF Applied
<1>2. a.cursor + 1 \in Nat
  BY DEF Applied
<1>3. a.output \in Seq(Lines)
  BY DEF Applied
<1>4. line.content \in Lines
  BY DEF HunkLines
<1>5. Append(a.output, line.content) \in Seq(Lines)
  BY <1>3, <1>4
<1>6. require_original_line(original, a.cursor, line.content) \in BOOLEAN
  BY DEF require_original_line
<1>7. CASE line.kind = " "
  BY <1>1, <1>2, <1>5, <1>6, <1>7 DEF ApplyLine, Applied
<1>8. CASE line.kind = "-"
  BY <1>1, <1>2, <1>3, <1>6, <1>8 DEF ApplyLine, Applied
<1>9. CASE line.kind = "+"
  BY <1>5, <1>9 DEF ApplyLine, Applied
<1>10. line.kind \in {" ", "-", "+"}
  BY DEF HunkLines
<1> QED
  BY <1>7, <1>8, <1>9, <1>10

LineSteps(original) == [x \in Applied \X HunkLines |-> ApplyLine(x[1], x[2], original)]

\* The lines of a hunk, one by one.
LEMMA LineFold ==
    ASSUME NEW lines \in Seq(HunkLines),
           NEW at \in Applied, NEW original \in Seq(Lines)
    PROVE  /\ Folding(HunkLines, Applied, at, LineSteps(original))
           /\ IsFoldOf(ApplyLines(at, lines, original), lines, Applied, at, LineSteps(original))
<1> DEFINE n == Len(lines)
           Folds(g) == g = [s \in SUBSET (1..n) |->
                               IF s = {} THEN at
                               ELSE ApplyLine(g[s \ {Max(s)}], lines[Max(s)], original)]
           iter == CHOOSE g : Folds(g)
<1>1. n \in Nat /\ DOMAIN lines = 1..n
  OBVIOUS
<1>2. ApplyLines(at, lines, original) = iter[1..n]
  BY <1>1 DEF ApplyLines, FoldLeft, MapThenFoldSet
<1>3. /\ Folding(HunkLines, Applied, at, LineSteps(original))
      /\ \A x \in Applied, e \in HunkLines : LineSteps(original)[<<x, e>>] = ApplyLine(x, e, original)
  BY LineTyped DEF Folding, LineSteps
<1>4. Folds(iter)
  <2>1. PICK g : Defines(g, lines, HunkLines, Applied, at, LineSteps(original))
    BY <1>3, FoldIsDefined
  <2>2. \A s \in SUBSET (1..n) : s # {} => g[s] = ApplyLine(g[s \ {Max(s)}], lines[Max(s)], original)
    BY <1>3, <2>1 DEF Defines
  <2>3. Folds(g)
    <3>1. g \in [SUBSET (1..n) -> Applied] /\ g[{}] = at
      BY <2>1 DEF Defines
    <3> HIDE DEF n
    <3> QED
      BY <2>2, <3>1
  <2> HIDE DEF Folds
  <2> QED
    BY <2>3
<1> HIDE DEF iter
<1>5. FoldsTo(iter, lines, Applied, at, LineSteps(original))
  <2>1. iter[{}] = at
    BY <1>4
  <2>2. ASSUME NEW s \in SUBSET (1..n), s # {}, iter[s \ {Max(s)}] \in Applied
        PROVE  iter[s] = LineSteps(original)[<<iter[s \ {Max(s)}], lines[Max(s)]>>]
    <3>1. Max(s) \in 1..n
      <4>1. s \in SUBSET (1..(n + 1))
        BY <1>1
      <4> QED
        BY <1>1, <2>2, <4>1, MaxOfPositions
    <3>2. lines[Max(s)] \in HunkLines
      BY <3>1
    <3>3. iter[s] = ApplyLine(iter[s \ {Max(s)}], lines[Max(s)], original)
      <4> HIDE DEF n
      <4> QED
        BY <1>4, <2>2
    <3> QED
      BY <1>3, <2>2, <3>2, <3>3
  <2> QED
    BY <2>1, <2>2 DEF FoldsTo
<1> HIDE DEF n
<1>6. IsFoldOf(ApplyLines(at, lines, original), lines, Applied, at, LineSteps(original))
  BY <1>2, <1>5 DEF n, IsFoldOf
<1> QED
  BY <1>3, <1>6

\* Nothing, and one more.
LEMMA LineAppend ==
    ASSUME NEW lines \in Seq(HunkLines), NEW line \in HunkLines,
           NEW at \in Applied, NEW original \in Seq(Lines)
    PROVE  /\ ApplyLines(at, <<>>, original) = at
           /\ ApplyLines(at, lines, original) \in Applied
           /\ ApplyLines(at, Append(lines, line), original)
                 = ApplyLine(ApplyLines(at, lines, original), line, original)
<1>1. <<>> \in Seq(HunkLines) /\ Append(lines, line) \in Seq(HunkLines)
  BY AppendParts
<1>2. /\ Folding(HunkLines, Applied, at, LineSteps(original))
      /\ IsFoldOf(ApplyLines(at, lines, original), lines, Applied, at, LineSteps(original))
      /\ IsFoldOf(ApplyLines(at, <<>>, original), <<>>, Applied, at, LineSteps(original))
      /\ IsFoldOf(ApplyLines(at, Append(lines, line), original),
                  Append(lines, line), Applied, at, LineSteps(original))
  BY <1>1, LineFold
<1>3. /\ ApplyLines(at, <<>>, original) = at
      /\ ApplyLines(at, lines, original) \in Applied
      /\ ApplyLines(at, Append(lines, line), original)
            = LineSteps(original)[<<ApplyLines(at, lines, original), line>>]
  BY <1>2, FoldGrows
<1> QED
  BY <1>3 DEF LineSteps

\* ... stay what they are.
LEMMA LinesTyped ==
    ASSUME NEW lines \in Seq(HunkLines), NEW at \in Applied, NEW original \in Seq(Lines)
    PROVE  ApplyLines(at, lines, original) \in Applied
<1>1. PICK line \in HunkLines : TRUE
  BY SomeLine
<1> QED
  BY LineAppend

\* Parts of a sequence.
LEMMA Parts ==
    ASSUME NEW E, NEW s \in Seq(E), NEW i \in Nat, NEW j \in 0..Len(s), i <= j
    PROVE  /\ SubSeq(s, i + 1, j) \in Seq(E)
           /\ Len(SubSeq(s, i + 1, j)) = j - i
           /\ \A k \in 1..(j - i) : SubSeq(s, i + 1, j)[k] = s[i + k]
OBVIOUS

\* One hunk.
LEMMA HunkTyped ==
    ASSUME NEW original \in Seq(Lines)
    PROVE  /\ Nothing \in Applied
           /\ \A a \in Applied, hunk \in Hunks : ApplyHunk(a, hunk, original) \in Applied
<1>1. Nothing \in Applied
  BY DEF Nothing, Applied
<1>2. ASSUME NEW a \in Applied, NEW hunk \in Hunks
      PROVE  ApplyHunk(a, hunk, original) \in Applied
  <2> DEFINE start == StartLine(hunk)
             between == SubSeq(original, a.cursor + 1, start)
             at == [ok |-> a.ok, cursor |-> start, output |-> a.output \o between]
  <2>1. start \in Int /\ hunk.lines \in Seq(HunkLines)
    BY DEF StartLine, Hunks
  <2>2. a.cursor \in Nat /\ a.output \in Seq(Lines) /\ a.ok \in BOOLEAN
        /\ Len(original) \in Nat
    BY DEF Applied
  <2> HIDE DEF start
  <2>3. CASE ~a.ok \/ start < a.cursor \/ start > Len(original)
    <3>1. ApplyHunk(a, hunk, original) = [a EXCEPT !.ok = FALSE]
      BY <2>3 DEF ApplyHunk, start
    <3> QED
      BY <3>1 DEF Applied
  <2>4. CASE ~(~a.ok \/ start < a.cursor \/ start > Len(original))
    <3>1. ApplyHunk(a, hunk, original) = ApplyLines(at, hunk.lines, original)
      BY <2>4 DEF ApplyHunk, ApplyLines, start
    <3>2. start \in 0..Len(original) /\ a.cursor <= start
      BY <2>1, <2>2, <2>4
    <3>3. between \in Seq(Lines)
      BY <2>2, <3>2, Parts
    <3> HIDE DEF between
    <3>4. a.output \o between \in Seq(Lines)
      BY <2>2, <3>3
    <3> HIDE DEF at
    <3>6. at \in Applied
      BY <2>2, <3>2, <3>4 DEF Applied, at
    <3>7. ApplyLines(at, hunk.lines, original) \in Applied
      BY <2>1, <3>6, LinesTyped
    <3> QED
      BY <3>1, <3>7
  <2> QED
    BY <2>3, <2>4
<1> QED
  BY <1>1, <1>2

HunkSteps(original) == [x \in Applied \X Hunks |-> ApplyHunk(x[1], x[2], original)]

\* The hunks, one by one.
LEMMA HunkFold ==
    ASSUME NEW hunks \in Seq(Hunks),
           NEW original \in Seq(Lines)
    PROVE  /\ Folding(Hunks, Applied, Nothing, HunkSteps(original))
           /\ IsFoldOf(ApplyHunks(hunks, original), hunks, Applied, Nothing, HunkSteps(original))
<1> DEFINE n == Len(hunks)
           Folds(g) == g = [s \in SUBSET (1..n) |->
                               IF s = {} THEN Nothing
                               ELSE ApplyHunk(g[s \ {Max(s)}], hunks[Max(s)], original)]
           iter == CHOOSE g : Folds(g)
<1>1. n \in Nat /\ DOMAIN hunks = 1..n
  OBVIOUS
<1>2. ApplyHunks(hunks, original) = iter[1..n]
  BY <1>1 DEF ApplyHunks, FoldLeft, MapThenFoldSet
<1>3. /\ Folding(Hunks, Applied, Nothing, HunkSteps(original))
      /\ \A x \in Applied, e \in Hunks : HunkSteps(original)[<<x, e>>] = ApplyHunk(x, e, original)
  BY HunkTyped DEF Folding, HunkSteps
<1>4. Folds(iter)
  <2>1. PICK g : Defines(g, hunks, Hunks, Applied, Nothing, HunkSteps(original))
    BY <1>3, FoldIsDefined
  <2>2. \A s \in SUBSET (1..n) : s # {} => g[s] = ApplyHunk(g[s \ {Max(s)}], hunks[Max(s)], original)
    BY <1>3, <2>1 DEF Defines
  <2>3. Folds(g)
    <3>1. g \in [SUBSET (1..n) -> Applied] /\ g[{}] = Nothing
      BY <2>1 DEF Defines
    <3> HIDE DEF n
    <3> QED
      BY <2>2, <3>1
  <2> HIDE DEF Folds
  <2> QED
    BY <2>3
<1> HIDE DEF iter
<1>5. FoldsTo(iter, hunks, Applied, Nothing, HunkSteps(original))
  <2>1. iter[{}] = Nothing
    BY <1>4
  <2>2. ASSUME NEW s \in SUBSET (1..n), s # {}, iter[s \ {Max(s)}] \in Applied
        PROVE  iter[s] = HunkSteps(original)[<<iter[s \ {Max(s)}], hunks[Max(s)]>>]
    <3>1. Max(s) \in 1..n
      <4>1. s \in SUBSET (1..(n + 1))
        BY <1>1
      <4> QED
        BY <1>1, <2>2, <4>1, MaxOfPositions
    <3>2. hunks[Max(s)] \in Hunks
      BY <3>1
    <3>3. iter[s] = ApplyHunk(iter[s \ {Max(s)}], hunks[Max(s)], original)
      <4> HIDE DEF n
      <4> QED
        BY <1>4, <2>2
    <3> QED
      BY <1>3, <2>2, <3>2, <3>3
  <2> QED
    BY <2>1, <2>2 DEF FoldsTo
<1> HIDE DEF n
<1>6. IsFoldOf(ApplyHunks(hunks, original), hunks, Applied, Nothing, HunkSteps(original))
  BY <1>2, <1>5 DEF n, IsFoldOf
<1> QED
  BY <1>3, <1>6

\* Nothing, and one more.
LEMMA HunkAppend ==
    ASSUME NEW hunks \in Seq(Hunks), NEW hunk \in Hunks,
           NEW original \in Seq(Lines)
    PROVE  /\ ApplyHunks(<<>>, original) = Nothing
           /\ ApplyHunks(hunks, original) \in Applied
           /\ ApplyHunks(Append(hunks, hunk), original)
                 = ApplyHunk(ApplyHunks(hunks, original), hunk, original)
<1>1. <<>> \in Seq(Hunks) /\ Append(hunks, hunk) \in Seq(Hunks)
  BY AppendParts
<1>2. /\ Folding(Hunks, Applied, Nothing, HunkSteps(original))
      /\ IsFoldOf(ApplyHunks(hunks, original), hunks, Applied, Nothing, HunkSteps(original))
      /\ IsFoldOf(ApplyHunks(<<>>, original), <<>>, Applied, Nothing, HunkSteps(original))
      /\ IsFoldOf(ApplyHunks(Append(hunks, hunk), original),
                  Append(hunks, hunk), Applied, Nothing, HunkSteps(original))
  BY <1>1, HunkFold
<1>3. /\ ApplyHunks(<<>>, original) = Nothing
      /\ ApplyHunks(hunks, original) \in Applied
      /\ ApplyHunks(Append(hunks, hunk), original)
            = HunkSteps(original)[<<ApplyHunks(hunks, original), hunk>>]
  BY <1>2, FoldGrows
<1> QED
  BY <1>3 DEF HunkSteps

\* A hunk's counts are numbers.
LEMMA CountTyped ==
    \A n \in Nat, hunk \in Hunks : n + hunk.new_count \in Nat /\ n + hunk.old_count \in Nat
BY DEF Hunks

AddedSteps == [x \in Nat \X Hunks |-> x[1] + x[2].new_count]

\* The lines that hunks have in the new file.
LEMMA AddedFold ==
    ASSUME NEW hunks \in Seq(Hunks)
    PROVE  /\ Folding(Hunks, Nat, 0, AddedSteps)
           /\ IsFoldOf(AddedBy(hunks), hunks, Nat, 0, AddedSteps)
<1> DEFINE n == Len(hunks)
           Folds(g) == g = [s \in SUBSET (1..n) |->
                               IF s = {} THEN 0
                               ELSE g[s \ {Max(s)}] + hunks[Max(s)].new_count]
           iter == CHOOSE g : Folds(g)
<1>1. n \in Nat /\ DOMAIN hunks = 1..n
  OBVIOUS
<1>2. AddedBy(hunks) = iter[1..n]
  BY <1>1 DEF AddedBy, FoldLeft, MapThenFoldSet
<1>3. /\ Folding(Hunks, Nat, 0, AddedSteps)
      /\ \A x \in Nat, e \in Hunks : AddedSteps[<<x, e>>] = x + e.new_count
  BY CountTyped DEF Folding, AddedSteps
<1>4. Folds(iter)
  <2>1. PICK g : Defines(g, hunks, Hunks, Nat, 0, AddedSteps)
    BY <1>3, FoldIsDefined
  <2>2. \A s \in SUBSET (1..n) : s # {} => g[s] = g[s \ {Max(s)}] + hunks[Max(s)].new_count
    BY <1>3, <2>1 DEF Defines
  <2>3. Folds(g)
    <3>1. g \in [SUBSET (1..n) -> Nat] /\ g[{}] = 0
      BY <2>1 DEF Defines
    <3> HIDE DEF n
    <3> QED
      BY <2>2, <3>1
  <2> HIDE DEF Folds
  <2> QED
    BY <2>3
<1> HIDE DEF iter
<1>5. FoldsTo(iter, hunks, Nat, 0, AddedSteps)
  <2>1. iter[{}] = 0
    BY <1>4
  <2>2. ASSUME NEW s \in SUBSET (1..n), s # {}, iter[s \ {Max(s)}] \in Nat
        PROVE  iter[s] = AddedSteps[<<iter[s \ {Max(s)}], hunks[Max(s)]>>]
    <3>1. Max(s) \in 1..n
      <4>1. s \in SUBSET (1..(n + 1))
        BY <1>1
      <4> QED
        BY <1>1, <2>2, <4>1, MaxOfPositions
    <3>2. hunks[Max(s)] \in Hunks
      BY <3>1
    <3>3. iter[s] = iter[s \ {Max(s)}] + hunks[Max(s)].new_count
      <4> HIDE DEF n
      <4> QED
        BY <1>4, <2>2
    <3> QED
      BY <1>3, <2>2, <3>2, <3>3
  <2> QED
    BY <2>1, <2>2 DEF FoldsTo
<1> HIDE DEF n
<1>6. IsFoldOf(AddedBy(hunks), hunks, Nat, 0, AddedSteps)
  BY <1>2, <1>5 DEF n, IsFoldOf
<1> QED
  BY <1>3, <1>6

\* Nothing, and one more.
LEMMA AddedAppend ==
    ASSUME NEW hunks \in Seq(Hunks), NEW hunk \in Hunks
    PROVE  /\ AddedBy(<<>>) = 0
           /\ AddedBy(hunks) \in Nat
           /\ AddedBy(Append(hunks, hunk))
                 = AddedBy(hunks) + hunk.new_count
<1>1. <<>> \in Seq(Hunks) /\ Append(hunks, hunk) \in Seq(Hunks)
  BY AppendParts
<1>2. /\ Folding(Hunks, Nat, 0, AddedSteps)
      /\ IsFoldOf(AddedBy(hunks), hunks, Nat, 0, AddedSteps)
      /\ IsFoldOf(AddedBy(<<>>), <<>>, Nat, 0, AddedSteps)
      /\ IsFoldOf(AddedBy(Append(hunks, hunk)),
                  Append(hunks, hunk), Nat, 0, AddedSteps)
  BY <1>1, AddedFold
<1>3. /\ AddedBy(<<>>) = 0
      /\ AddedBy(hunks) \in Nat
      /\ AddedBy(Append(hunks, hunk))
            = AddedSteps[<<AddedBy(hunks), hunk>>]
  BY <1>2, FoldGrows
<1> QED
  BY <1>3 DEF AddedSteps

RemovedSteps == [x \in Nat \X Hunks |-> x[1] + x[2].old_count]

\* The lines that hunks have in the old file.
LEMMA RemovedFold ==
    ASSUME NEW hunks \in Seq(Hunks)
    PROVE  /\ Folding(Hunks, Nat, 0, RemovedSteps)
           /\ IsFoldOf(RemovedBy(hunks), hunks, Nat, 0, RemovedSteps)
<1> DEFINE n == Len(hunks)
           Folds(g) == g = [s \in SUBSET (1..n) |->
                               IF s = {} THEN 0
                               ELSE g[s \ {Max(s)}] + hunks[Max(s)].old_count]
           iter == CHOOSE g : Folds(g)
<1>1. n \in Nat /\ DOMAIN hunks = 1..n
  OBVIOUS
<1>2. RemovedBy(hunks) = iter[1..n]
  BY <1>1 DEF RemovedBy, FoldLeft, MapThenFoldSet
<1>3. /\ Folding(Hunks, Nat, 0, RemovedSteps)
      /\ \A x \in Nat, e \in Hunks : RemovedSteps[<<x, e>>] = x + e.old_count
  BY CountTyped DEF Folding, RemovedSteps
<1>4. Folds(iter)
  <2>1. PICK g : Defines(g, hunks, Hunks, Nat, 0, RemovedSteps)
    BY <1>3, FoldIsDefined
  <2>2. \A s \in SUBSET (1..n) : s # {} => g[s] = g[s \ {Max(s)}] + hunks[Max(s)].old_count
    BY <1>3, <2>1 DEF Defines
  <2>3. Folds(g)
    <3>1. g \in [SUBSET (1..n) -> Nat] /\ g[{}] = 0
      BY <2>1 DEF Defines
    <3> HIDE DEF n
    <3> QED
      BY <2>2, <3>1
  <2> HIDE DEF Folds
  <2> QED
    BY <2>3
<1> HIDE DEF iter
<1>5. FoldsTo(iter, hunks, Nat, 0, RemovedSteps)
  <2>1. iter[{}] = 0
    BY <1>4
  <2>2. ASSUME NEW s \in SUBSET (1..n), s # {}, iter[s \ {Max(s)}] \in Nat
        PROVE  iter[s] = RemovedSteps[<<iter[s \ {Max(s)}], hunks[Max(s)]>>]
    <3>1. Max(s) \in 1..n
      <4>1. s \in SUBSET (1..(n + 1))
        BY <1>1
      <4> QED
        BY <1>1, <2>2, <4>1, MaxOfPositions
    <3>2. hunks[Max(s)] \in Hunks
      BY <3>1
    <3>3. iter[s] = iter[s \ {Max(s)}] + hunks[Max(s)].old_count
      <4> HIDE DEF n
      <4> QED
        BY <1>4, <2>2
    <3> QED
      BY <1>3, <2>2, <3>2, <3>3
  <2> QED
    BY <2>1, <2>2 DEF FoldsTo
<1> HIDE DEF n
<1>6. IsFoldOf(RemovedBy(hunks), hunks, Nat, 0, RemovedSteps)
  BY <1>2, <1>5 DEF n, IsFoldOf
<1> QED
  BY <1>3, <1>6

\* Nothing, and one more.
LEMMA RemovedAppend ==
    ASSUME NEW hunks \in Seq(Hunks), NEW hunk \in Hunks
    PROVE  /\ RemovedBy(<<>>) = 0
           /\ RemovedBy(hunks) \in Nat
           /\ RemovedBy(Append(hunks, hunk))
                 = RemovedBy(hunks) + hunk.old_count
<1>1. <<>> \in Seq(Hunks) /\ Append(hunks, hunk) \in Seq(Hunks)
  BY AppendParts
<1>2. /\ Folding(Hunks, Nat, 0, RemovedSteps)
      /\ IsFoldOf(RemovedBy(hunks), hunks, Nat, 0, RemovedSteps)
      /\ IsFoldOf(RemovedBy(<<>>), <<>>, Nat, 0, RemovedSteps)
      /\ IsFoldOf(RemovedBy(Append(hunks, hunk)),
                  Append(hunks, hunk), Nat, 0, RemovedSteps)
  BY <1>1, RemovedFold
<1>3. /\ RemovedBy(<<>>) = 0
      /\ RemovedBy(hunks) \in Nat
      /\ RemovedBy(Append(hunks, hunk))
            = RemovedSteps[<<RemovedBy(hunks), hunk>>]
  BY <1>2, FoldGrows
<1> QED
  BY <1>3 DEF RemovedSteps

------------------------------------
(* Starts of sequences *)

\* s is a start of r.
StartsWith(r, s) == Len(s) <= Len(r) /\ \A i \in 1..Len(s) : r[i] = s[i]

\* Two sequences of the same length with the same elements are equal.
LEMMA SameSequence ==
    ASSUME NEW E, NEW s \in Seq(E), NEW t \in Seq(E), Len(s) = Len(t),
           \A i \in 1..Len(s) : s[i] = t[i]
    PROVE  s = t
<1>1. s = [i \in 1..Len(s) |-> s[i]] /\ t = [i \in 1..Len(t) |-> t[i]]
  OBVIOUS
<1> QED
  BY <1>1

\* Starts of starts.
LEMMA Starts ==
    ASSUME NEW E, NEW r \in Seq(E), NEW s \in Seq(E)
    PROVE  /\ \A e \in E : StartsWith(r, Append(s, e)) =>
                 StartsWith(r, s) /\ Len(s) < Len(r) /\ r[Len(s) + 1] = e
           /\ \A m \in Seq(E) : StartsWith(r, s \o m) => StartsWith(r, s)
           /\ \A m \in Seq(E) : StartsWith(s \o m, s)
<1>1. ASSUME NEW e \in E, StartsWith(r, Append(s, e))
      PROVE  StartsWith(r, s) /\ Len(s) < Len(r) /\ r[Len(s) + 1] = e
  <2> DEFINE more == Append(s, e)
  <2>1. /\ Len(s) \in Nat /\ Len(more) = Len(s) + 1 /\ more[Len(s) + 1] = e
        /\ \A i \in 1..Len(s) : more[i] = s[i]
    BY AppendParts
  <2>2. Len(r) \in Nat
    OBVIOUS
  <2> HIDE DEF more
  <2>3. Len(more) <= Len(r) /\ \A i \in 1..Len(more) : r[i] = more[i]
    BY <1>1 DEF StartsWith, more
  <2> QED
    BY <2>1, <2>2, <2>3 DEF StartsWith
<1>2. ASSUME NEW m \in Seq(E)
      PROVE  /\ Len(s) \in Nat /\ Len(m) \in Nat /\ Len(s \o m) = Len(s) + Len(m)
             /\ \A i \in 1..Len(s) : (s \o m)[i] = s[i]
  OBVIOUS
<1>3. ASSUME NEW m \in Seq(E), StartsWith(r, s \o m) PROVE StartsWith(r, s)
  <2>1. Len(r) \in Nat
    OBVIOUS
  <2>2. Len(s \o m) <= Len(r) /\ \A i \in 1..Len(s \o m) : r[i] = (s \o m)[i]
    BY <1>3 DEF StartsWith
  <2>3. 1..Len(s) \subseteq 1..Len(s \o m)
    BY <1>2
  <2> QED
    BY <1>2, <2>1, <2>2, <2>3 DEF StartsWith
<1>4. ASSUME NEW m \in Seq(E) PROVE StartsWith(s \o m, s)
  BY <1>2 DEF StartsWith
<1> QED
  BY <1>1, <1>3, <1>4

\* A part and what follows it.
LEMMA PartGrows ==
    ASSUME NEW E, NEW s \in Seq(E), NEW c \in 0..(Len(s) - 1)
    PROVE  Append(SubSeq(s, 1, c), s[c + 1]) = SubSeq(s, 1, c + 1)
<1> DEFINE p == SubSeq(s, 1, c)
           q == SubSeq(s, 1, c + 1)
           t == Append(p, s[c + 1])
<1>0. Len(s) \in Nat /\ c \in Nat /\ c + 1 \in 1..Len(s) /\ c \in 0..Len(s)
      /\ c + 1 \in 0..Len(s) /\ s[c + 1] \in E
  OBVIOUS
<1>1. p \in Seq(E) /\ Len(p) = c /\ \A k \in 1..c : p[k] = s[k]
  <2>1. /\ SubSeq(s, 0 + 1, c) \in Seq(E) /\ Len(SubSeq(s, 0 + 1, c)) = c - 0
        /\ \A k \in 1..(c - 0) : SubSeq(s, 0 + 1, c)[k] = s[0 + k]
    BY <1>0, Parts
  <2> QED
    BY <1>0, <2>1
<1>2. q \in Seq(E) /\ Len(q) = c + 1 /\ \A k \in 1..(c + 1) : q[k] = s[k]
  <2>1. /\ SubSeq(s, 0 + 1, c + 1) \in Seq(E) /\ Len(SubSeq(s, 0 + 1, c + 1)) = (c + 1) - 0
        /\ \A k \in 1..((c + 1) - 0) : SubSeq(s, 0 + 1, c + 1)[k] = s[0 + k]
    BY <1>0, Parts
  <2> QED
    BY <1>0, <2>1
<1> HIDE DEF p, q
<1>3. /\ t \in Seq(E) /\ Len(t) = c + 1 /\ t[c + 1] = s[c + 1]
      /\ \A i \in 1..c : t[i] = p[i]
  BY <1>0, <1>1, AppendParts
<1> HIDE DEF t
<1>4. \A i \in 1..(c + 1) : t[i] = q[i]
  BY <1>0, <1>1, <1>2, <1>3
<1>5. t = q
  BY <1>2, <1>3, <1>4, SameSequence
<1> QED
  BY <1>5 DEF t, p, q

\* A part and the part after it.
LEMMA PartsJoin ==
    ASSUME NEW E, NEW s \in Seq(E), NEW c \in 0..Len(s), NEW d \in c..Len(s)
    PROVE  SubSeq(s, 1, c) \o SubSeq(s, c + 1, d) = SubSeq(s, 1, d)
<1> DEFINE p == SubSeq(s, 1, c)
           q == SubSeq(s, c + 1, d)
           r == SubSeq(s, 1, d)
           t == p \o q
<1>0. Len(s) \in Nat /\ c \in Nat /\ d \in Nat /\ d \in 0..Len(s) /\ c <= d /\ 0 <= c /\ 0 <= d
  OBVIOUS
<1>1. p \in Seq(E) /\ Len(p) = c /\ \A k \in 1..c : p[k] = s[k]
  <2>1. /\ SubSeq(s, 0 + 1, c) \in Seq(E) /\ Len(SubSeq(s, 0 + 1, c)) = c - 0
        /\ \A k \in 1..(c - 0) : SubSeq(s, 0 + 1, c)[k] = s[0 + k]
    BY <1>0, Parts
  <2> QED
    BY <1>0, <2>1
<1>2. r \in Seq(E) /\ Len(r) = d /\ \A k \in 1..d : r[k] = s[k]
  <2>1. /\ SubSeq(s, 0 + 1, d) \in Seq(E) /\ Len(SubSeq(s, 0 + 1, d)) = d - 0
        /\ \A k \in 1..(d - 0) : SubSeq(s, 0 + 1, d)[k] = s[0 + k]
    BY <1>0, Parts
  <2> QED
    BY <1>0, <2>1
<1>3. q \in Seq(E) /\ Len(q) = d - c /\ \A k \in 1..(d - c) : q[k] = s[c + k]
  BY <1>0, Parts
<1> HIDE DEF p, q, r
<1>4. /\ t \in Seq(E) /\ Len(t) = d
      /\ \A i \in 1..d : t[i] = IF i <= c THEN p[i] ELSE q[i - c]
  BY <1>0, <1>1, <1>3
<1> HIDE DEF t
<1>5. ASSUME NEW i \in 1..d PROVE t[i] = r[i]
  <2>1. CASE i <= c
    BY <1>0, <1>1, <1>2, <1>4, <2>1
  <2>2. CASE ~(i <= c)
    <3>1. i - c \in 1..(d - c) /\ c + (i - c) = i
      BY <1>0, <2>2
    <3> QED
      BY <1>2, <1>3, <1>4, <2>2, <3>1
  <2> QED
    BY <2>1, <2>2
<1>6. t = r
  BY <1>2, <1>4, <1>5, SameSequence
<1> QED
  BY <1>6 DEF t, p, q, r

\* r has m behind s.
Has(r, s, m) == /\ Len(s) \in Nat /\ Len(m) \in Nat /\ Len(s \o m) = Len(s) + Len(m)
                /\ Len(s) + Len(m) <= Len(r)
                /\ SubSeq(r, Len(s) + 1, Len(s) + Len(m)) = m

\* What follows a start.
LEMMA PartAfter ==
    ASSUME NEW E, NEW r \in Seq(E), NEW s \in Seq(E), NEW m \in Seq(E), StartsWith(r, s \o m)
    PROVE  Has(r, s, m)
<1> DEFINE n == Len(s)
           d == Len(s) + Len(m)
           q == SubSeq(r, n + 1, d)
<1>1. /\ n \in Nat /\ Len(m) \in Nat /\ Len(r) \in Nat /\ Len(s \o m) = d /\ d \in Nat
      /\ \A i \in 1..Len(m) : (s \o m)[n + i] = m[i]
  OBVIOUS
<1>2. d <= Len(r) /\ \A i \in 1..d : r[i] = (s \o m)[i]
  BY <1>1 DEF StartsWith
<1>3. q \in Seq(E) /\ Len(q) = d - n /\ \A k \in 1..(d - n) : q[k] = r[n + k]
  BY <1>1, <1>2, Parts
<1>4. d - n = Len(m) /\ \A i \in 1..Len(m) : n + i \in 1..d
  BY <1>1
<1> HIDE DEF q
<1>5. \A i \in 1..Len(m) : q[i] = m[i]
  BY <1>1, <1>2, <1>3, <1>4
<1>6. q = m
  BY <1>3, <1>4, <1>5, SameSequence
<1> QED
  BY <1>1, <1>2, <1>6 DEF q, Has

------------------------------------
(* A line, forwards and backwards *)

\* What ApplyLine makes of each kind of line.
LineApplied(c, a, line, original) ==
    /\ line.kind = " " =>
         /\ c.ok = (a.ok /\ require_original_line(original, a.cursor, line.content))
         /\ c.cursor = a.cursor + 1 /\ c.output = Append(a.output, line.content)
    /\ line.kind = "-" =>
         /\ c.ok = (a.ok /\ require_original_line(original, a.cursor, line.content))
         /\ c.cursor = a.cursor + 1 /\ c.output = a.output
    /\ line.kind = "+" =>
         c.ok = a.ok /\ c.cursor = a.cursor /\ c.output = Append(a.output, line.content)

\* ... as the module says.
LEMMA LineResult ==
    ASSUME NEW a \in Applied, NEW line, NEW original
    PROVE  LineApplied(ApplyLine(a, line, original), a, line, original)
<1>1. CASE line.kind = " "
  BY <1>1 DEF ApplyLine, LineApplied
<1>2. CASE line.kind = "-"
  BY <1>2 DEF ApplyLine, LineApplied
<1>3. CASE line.kind = "+"
  BY <1>3 DEF ApplyLine, Applied, LineApplied
<1> QED
  BY <1>1, <1>2, <1>3 DEF LineApplied

\* The state a of the patch and the state b of its reverse mirror each other: the cursor
\* of the one is at the end of the output of the other.
Mirror(a, b, original) ==
    /\ a.ok /\ b.ok
    /\ a.cursor <= Len(original)
    /\ b.cursor = Len(a.output)
    /\ b.output = SubSeq(original, 1, a.cursor)

\* The types of the parts of a state.
LEMMA AppliedParts ==
    ASSUME NEW a \in Applied
    PROVE  a.ok \in BOOLEAN /\ a.cursor \in Nat /\ a.output \in Seq(Lines) /\ Len(a.output) \in Nat
<1>1. a.output \in Seq(Lines)
  BY DEF Applied
<1> QED
  BY <1>1 DEF Applied

\* An addition for a removal, and the other way round.
Reverses(back, line) ==
    /\ back.content = line.content
    /\ line.kind = " " => back.kind = " "
    /\ line.kind = "-" => back.kind = "+"
    /\ line.kind = "+" => back.kind = "-"

\* A line of the reverse.
LEMMA LineReversed ==
    ASSUME NEW line \in HunkLines
    PROVE  /\ ReverseLine(line) \in HunkLines /\ Reverses(ReverseLine(line), line)
           /\ line.content \in Lines /\ line.kind \in {" ", "-", "+"}
BY DEF ReverseLine, HunkLines, Reverses

\* One line, forwards and backwards.
LEMMA LineMirror ==
    ASSUME NEW original \in Seq(Lines), NEW result \in Seq(Lines),
           NEW a \in Applied, NEW b \in Applied, NEW line \in HunkLines,
           NEW back \in HunkLines, Reverses(back, line),
           Mirror(a, b, original), ApplyLine(a, line, original).ok,
           StartsWith(result, ApplyLine(a, line, original).output)
    PROVE  Mirror(ApplyLine(a, line, original), ApplyLine(b, back, result), original)
<1> DEFINE a2 == ApplyLine(a, line, original)
           b2 == ApplyLine(b, back, result)
           x == line.content
<1>1. /\ back \in HunkLines /\ back.content = x /\ x \in Lines /\ line.kind \in {" ", "-", "+"}
      /\ line.kind = " " => back.kind = " "
      /\ line.kind = "-" => back.kind = "+"
      /\ line.kind = "+" => back.kind = "-"
  BY LineReversed DEF Reverses
<1>2. /\ a.cursor \in Nat /\ a.output \in Seq(Lines) /\ Len(a.output) \in Nat
      /\ b.cursor \in Nat /\ b.output \in Seq(Lines) /\ Len(original) \in Nat
  BY AppliedParts
<1>3. /\ a.ok /\ b.ok /\ a.cursor <= Len(original) /\ b.cursor = Len(a.output)
      /\ b.output = SubSeq(original, 1, a.cursor)
  BY DEF Mirror
<1>4. LineApplied(a2, a, line, original) /\ LineApplied(b2, b, back, result)
  BY LineResult
<1>6. a2.ok /\ StartsWith(result, a2.output)
  OBVIOUS
<1> HIDE DEF a2, b2, x
\* The line that is taken from the original goes back to its place.
<1>7. ASSUME require_original_line(original, a.cursor, x)
      PROVE  /\ a.cursor + 1 <= Len(original)
             /\ Append(b.output, x) = SubSeq(original, 1, a.cursor + 1)
  <2>1. a.cursor < Len(original) /\ original[a.cursor + 1] = x
    BY <1>7 DEF require_original_line
  <2>2. a.cursor \in 0..(Len(original) - 1)
    BY <1>2, <2>1
  <2>3. Append(SubSeq(original, 1, a.cursor), original[a.cursor + 1])
           = SubSeq(original, 1, a.cursor + 1)
    BY <2>2, PartGrows
  <2> QED
    BY <1>2, <1>3, <2>1, <2>3
\* The line that was added is found in the result.
<1>8. ASSUME a2.output = Append(a.output, x)
      PROVE  /\ require_original_line(result, b.cursor, x)
             /\ b.cursor + 1 = Len(Append(a.output, x))
  <2>1. x \in Lines
    BY <1>1
  <2>2. a.output \in Seq(Lines)
    BY <1>2
  <2>3. StartsWith(result, Append(a.output, x))
    BY <1>6, <1>8
  <2>4. Len(a.output) < Len(result) /\ result[Len(a.output) + 1] = x
    BY <2>1, <2>2, <2>3, Starts
  <2>5. Len(Append(a.output, x)) = Len(a.output) + 1
    BY <2>1, <2>2, AppendParts
  <2> QED
    BY <1>3, <2>4, <2>5 DEF require_original_line
<1>9. CASE line.kind = " "
  <2>1. /\ require_original_line(original, a.cursor, x)
        /\ a2.cursor = a.cursor + 1 /\ a2.output = Append(a.output, x)
    BY <1>4, <1>6, <1>9 DEF LineApplied, x
  <2>2. /\ require_original_line(result, b.cursor, x) /\ b.cursor + 1 = Len(a2.output)
        /\ a.cursor + 1 <= Len(original)
        /\ Append(b.output, x) = SubSeq(original, 1, a.cursor + 1)
    BY <1>7, <1>8, <2>1
  <2>3. b2.ok /\ b2.cursor = b.cursor + 1 /\ b2.output = Append(b.output, x)
    BY <1>1, <1>3, <1>4, <1>9, <2>2 DEF LineApplied
  <2> QED
    BY <1>6, <2>1, <2>2, <2>3 DEF Mirror, a2, b2
<1>10. CASE line.kind = "-"
  <2>1. /\ require_original_line(original, a.cursor, x)
        /\ a2.cursor = a.cursor + 1 /\ a2.output = a.output
    BY <1>4, <1>6, <1>10 DEF LineApplied, x
  <2>2. /\ a.cursor + 1 <= Len(original)
        /\ Append(b.output, x) = SubSeq(original, 1, a.cursor + 1)
    BY <1>7, <2>1
  <2>3. b2.ok /\ b2.cursor = b.cursor /\ b2.output = Append(b.output, x)
    BY <1>1, <1>3, <1>4, <1>10 DEF LineApplied
  <2> QED
    BY <1>3, <1>6, <2>1, <2>2, <2>3 DEF Mirror, a2, b2
<1>11. CASE line.kind = "+"
  <2>1. a2.cursor = a.cursor /\ a2.output = Append(a.output, x)
    BY <1>4, <1>11 DEF LineApplied, x
  <2>2. require_original_line(result, b.cursor, x) /\ b.cursor + 1 = Len(a2.output)
    BY <1>8, <2>1
  <2>3. b2.ok /\ b2.cursor = b.cursor + 1 /\ b2.output = b.output
    BY <1>1, <1>3, <1>4, <1>11, <2>2 DEF LineApplied
  <2> QED
    BY <1>3, <1>6, <2>1, <2>2, <2>3 DEF Mirror, a2, b2
<1> QED
  BY <1>1, <1>9, <1>10, <1>11

\* What a line that is applied says of the state before it.
LEMMA LineBefore ==
    ASSUME NEW original \in Seq(Lines), NEW result \in Seq(Lines),
           NEW a \in Applied, NEW line \in HunkLines
    PROVE  /\ ApplyLine(a, line, original).ok => a.ok
           /\ StartsWith(result, ApplyLine(a, line, original).output) =>
                 StartsWith(result, a.output)
<1> DEFINE c == ApplyLine(a, line, original)
<1>1. line.content \in Lines /\ line.kind \in {" ", "-", "+"}
  BY LineReversed
<1>2. a.output \in Seq(Lines)
  BY AppliedParts
<1>3. /\ c.ok => a.ok
      /\ c.output = a.output \/ c.output = Append(a.output, line.content)
  <2>1. LineApplied(c, a, line, original)
    BY LineResult
  <2> HIDE DEF c
  <2> QED
    BY <1>1, <2>1 DEF LineApplied
<1> HIDE DEF c
<1>4. StartsWith(result, Append(a.output, line.content)) => StartsWith(result, a.output)
  BY <1>1, <1>2, Starts
<1> QED
  BY <1>3, <1>4 DEF c

------------------------------------
(* A hunk, forwards and backwards *)

\* The lines of a hunk in the reverse.
Reversed(lines) == [k \in DOMAIN lines |-> ReverseLine(lines[k])]

\* The reverse of one more line.
LEMMA ReversedAppend ==
    ASSUME NEW lines \in Seq(HunkLines), NEW line \in HunkLines
    PROVE  /\ Reversed(lines) \in Seq(HunkLines) /\ Reversed(<<>>) = <<>>
           /\ Reversed(Append(lines, line)) = Append(Reversed(lines), ReverseLine(line))
<1> DEFINE n == Len(lines)
           more == Append(lines, line)
           r == Reversed(lines)
           q == Reversed(more)
           t == Append(r, ReverseLine(line))
<1>1. /\ more \in Seq(HunkLines) /\ n \in Nat /\ Len(more) = n + 1 /\ more[n + 1] = line
      /\ \A i \in 1..n : more[i] = lines[i]
  BY AppendParts
<1>2. \A l \in HunkLines : ReverseLine(l) \in HunkLines
  BY LineReversed
<1>3. r \in Seq(HunkLines) /\ Len(r) = n /\ \A i \in 1..n : r[i] = ReverseLine(lines[i])
  BY <1>2 DEF Reversed
<1> HIDE DEF more, n
<1>4. q \in Seq(HunkLines) /\ Len(q) = n + 1 /\ \A i \in 1..(n + 1) : q[i] = ReverseLine(more[i])
  BY <1>1, <1>2 DEF Reversed
<1> HIDE DEF r, q
<1>5. t \in Seq(HunkLines) /\ Len(t) = n + 1 /\ t[n + 1] = ReverseLine(line)
      /\ \A i \in 1..n : t[i] = r[i]
  BY <1>2, <1>3, AppendParts
<1> HIDE DEF t
<1>6. ASSUME NEW i \in 1..(n + 1) PROVE q[i] = t[i]
  <2>1. q[i] = ReverseLine(more[i])
    BY <1>4
  <2>2. CASE i = n + 1
    BY <1>1, <1>5, <2>1, <2>2
  <2>3. CASE i # n + 1
    <3>1. i \in 1..n
      BY <1>1, <2>3
    <3> QED
      BY <1>1, <1>3, <1>5, <2>1, <3>1
  <2> QED
    BY <2>2, <2>3
<1>7. q = t
  BY <1>4, <1>5, <1>6, SameSequence
<1>8. Reversed(<<>>) = <<>>
  BY DEF Reversed
<1> QED
  BY <1>3, <1>7, <1>8 DEF q, t, r, more

\* How many lines a hunk has in the old file and in the new one.
OldLines(lines) == Cardinality({k \in DOMAIN lines : lines[k].kind \in {" ", "-"}})
NewLines(lines) == Cardinality({k \in DOMAIN lines : lines[k].kind \in {" ", "+"}})

\* One more in a set of positions.
LEMMA OneMore ==
    ASSUME NEW n \in Nat, NEW s \in SUBSET (1..n)
    PROVE  /\ IsFiniteSet(s) /\ Cardinality(s) \in Nat
           /\ Cardinality(s \cup {n + 1}) = Cardinality(s) + 1
<1>1. IsFiniteSet(1..n)
  BY FS_Interval
<1>2. IsFiniteSet(s)
  BY <1>1, FS_Subset
<1>3. Cardinality(s) \in Nat
  BY <1>2, FS_CardinalityType
<1>4. n + 1 \notin s
  OBVIOUS
<1>5. Cardinality(s \cup {n + 1}) = Cardinality(s) + 1
  BY <1>2, <1>4, FS_AddElement
<1> QED
  BY <1>2, <1>3, <1>5

\* A line counts for the files that have it.
LEMMA CountAppend ==
    ASSUME NEW lines \in Seq(HunkLines), NEW line \in HunkLines
    PROVE  /\ OldLines(<<>>) = 0 /\ NewLines(<<>>) = 0
           /\ OldLines(lines) \in Nat /\ NewLines(lines) \in Nat
           /\ line.kind \in {" ", "-"} => OldLines(Append(lines, line)) = OldLines(lines) + 1
           /\ line.kind \notin {" ", "-"} => OldLines(Append(lines, line)) = OldLines(lines)
           /\ line.kind \in {" ", "+"} => NewLines(Append(lines, line)) = NewLines(lines) + 1
           /\ line.kind \notin {" ", "+"} => NewLines(Append(lines, line)) = NewLines(lines)
<1> DEFINE n == Len(lines)
           more == Append(lines, line)
           Those(ls, kinds) == {k \in DOMAIN ls : ls[k].kind \in kinds}
<1>1. /\ more \in Seq(HunkLines) /\ n \in Nat /\ Len(more) = n + 1 /\ more[n + 1] = line
      /\ \A i \in 1..n : more[i] = lines[i]
  BY AppendParts
<1>2. DOMAIN more = 1..(n + 1) /\ DOMAIN lines = 1..n
  BY <1>1
<1>3. \A kinds : Those(<<>>, kinds) = {}
  OBVIOUS
<1>4. Cardinality({}) = 0
  BY FS_EmptySet
<1> HIDE DEF more, n
<1>5. ASSUME NEW kinds
      PROVE  /\ Cardinality(Those(lines, kinds)) \in Nat
             /\ line.kind \in kinds =>
                   Cardinality(Those(more, kinds)) = Cardinality(Those(lines, kinds)) + 1
             /\ line.kind \notin kinds =>
                   Cardinality(Those(more, kinds)) = Cardinality(Those(lines, kinds))
  <2>1. Those(lines, kinds) \in SUBSET (1..n)
    BY <1>2
  <2>2. line.kind \in kinds => Those(more, kinds) = Those(lines, kinds) \cup {n + 1}
    BY <1>1, <1>2
  <2>3. line.kind \notin kinds => Those(more, kinds) = Those(lines, kinds)
    BY <1>1, <1>2
  <2> HIDE DEF Those
  <2>4. /\ Cardinality(Those(lines, kinds)) \in Nat
        /\ Cardinality(Those(lines, kinds) \cup {n + 1}) = Cardinality(Those(lines, kinds)) + 1
    BY <1>1, <2>1, OneMore
  <2> QED
    BY <2>2, <2>3, <2>4
<1>6. \A ls : OldLines(ls) = Cardinality(Those(ls, {" ", "-"}))
              /\ NewLines(ls) = Cardinality(Those(ls, {" ", "+"}))
  BY DEF OldLines, NewLines
<1> HIDE DEF Those
<1> QED
  BY <1>3, <1>4, <1>5, <1>6 DEF more

\* The lines of a hunk, forwards and backwards.
LEMMA LinesMirror ==
    ASSUME NEW original \in Seq(Lines), NEW result \in Seq(Lines),
           NEW a \in Applied, NEW b \in Applied, Mirror(a, b, original),
           NEW lines \in Seq(HunkLines), ApplyLines(a, lines, original).ok,
           StartsWith(result, ApplyLines(a, lines, original).output)
    PROVE  /\ Mirror(ApplyLines(a, lines, original),
                     ApplyLines(b, Reversed(lines), result), original)
           /\ ApplyLines(a, lines, original).cursor = a.cursor + OldLines(lines)
           /\ Len(ApplyLines(a, lines, original).output) = Len(a.output) + NewLines(lines)
<1> DEFINE F(ls) == ApplyLines(a, ls, original)
           B(ls) == ApplyLines(b, Reversed(ls), result)
           OK(ls) == /\ Mirror(F(ls), B(ls), original)
                     /\ F(ls).cursor = a.cursor + OldLines(ls)
                     /\ Len(F(ls).output) = Len(a.output) + NewLines(ls)
           Holds(ls) == F(ls).ok /\ StartsWith(result, F(ls).output) => OK(ls)
           P == {ls \in Seq(HunkLines) : Holds(ls)}
<1>0. a.cursor \in Nat /\ Len(a.output) \in Nat
  BY AppliedParts
<1>1. \A x, y \in Nat : (x + y) + 1 = x + (y + 1)
  OBVIOUS
<1>2. <<>> \in P
  <2>1. PICK line \in HunkLines : TRUE
    BY SomeLine
  <2>2. <<>> \in Seq(HunkLines) /\ Reversed(<<>>) = <<>>
    BY <2>1, ReversedAppend
  <2>3. F(<<>>) = a
    BY <2>1, <2>2, LineAppend
  <2>4. ApplyLines(b, <<>>, result) = b
    BY <2>1, <2>2, LineAppend
  <2>5. OldLines(<<>>) = 0 /\ NewLines(<<>>) = 0
    BY <2>1, <2>2, CountAppend
  <2>6. F(<<>>) = a /\ B(<<>>) = b
    BY <2>2, <2>3, <2>4
  <2> HIDE DEF F, B
  <2>7. OK(<<>>)
    BY <1>0, <2>5, <2>6
  <2> HIDE DEF OK
  <2> QED
    BY <2>2, <2>7
<1>3. ASSUME NEW ls \in P, NEW line \in HunkLines PROVE Append(ls, line) \in P
  <2> DEFINE more == Append(ls, line)
             f == F(ls)
             g == B(ls)
             f2 == F(more)
             g2 == B(more)
             back == ReverseLine(line)
  <2>0. ls \in Seq(HunkLines) /\ more \in Seq(HunkLines)
    BY AppendParts
  <2>1. f \in Applied /\ f2 = ApplyLine(f, line, original)
    BY <2>0, LineAppend
  <2>2. /\ Reversed(ls) \in Seq(HunkLines) /\ back \in HunkLines
        /\ Reversed(more) = Append(Reversed(ls), back)
    BY <2>0, ReversedAppend, LineReversed
  <2>3. g \in Applied /\ g2 = ApplyLine(g, back, result)
    <3>1. /\ ApplyLines(b, Reversed(ls), result) \in Applied
          /\ ApplyLines(b, Append(Reversed(ls), back), result)
                = ApplyLine(ApplyLines(b, Reversed(ls), result), back, result)
      BY <2>2, LineAppend
    <3> QED
      BY <2>2, <3>1
  <2>4. Holds(ls)
    OBVIOUS
  <2>5. /\ OldLines(ls) \in Nat /\ NewLines(ls) \in Nat
        /\ line.kind \in {" ", "-"} => OldLines(more) = OldLines(ls) + 1
        /\ line.kind \notin {" ", "-"} => OldLines(more) = OldLines(ls)
        /\ line.kind \in {" ", "+"} => NewLines(more) = NewLines(ls) + 1
        /\ line.kind \notin {" ", "+"} => NewLines(more) = NewLines(ls)
    BY <2>0, CountAppend
  <2>6. OldLines(ls) \in Nat /\ NewLines(ls) \in Nat
    BY <2>5
  <2>7. Reverses(back, line) /\ line.content \in Lines /\ line.kind \in {" ", "-", "+"}
    BY LineReversed
  <2> HIDE DEF f, g, f2, g2, back, more
  <2>8. ASSUME f2.ok, StartsWith(result, f2.output)
        PROVE  /\ Mirror(f2, g2, original)
               /\ f2.cursor = a.cursor + OldLines(more)
               /\ Len(f2.output) = Len(a.output) + NewLines(more)
    <3>1. f.ok /\ StartsWith(result, f.output)
      BY <2>1, <2>8, LineBefore
    <3>2. /\ Mirror(f, g, original) /\ f.cursor = a.cursor + OldLines(ls)
          /\ Len(f.output) = Len(a.output) + NewLines(ls)
      BY <2>4, <3>1 DEF f, g
    <3>3. Mirror(f2, g2, original)
      BY <2>1, <2>2, <2>3, <2>7, <2>8, <3>2, LineMirror
    <3>4. LineApplied(f2, f, line, original)
      BY <2>1, LineResult
    <3>5. Len(Append(f.output, line.content)) = Len(f.output) + 1
      <4>1. f.output \in Seq(Lines) /\ line.content \in Lines
        BY <2>1, <2>7, AppliedParts
      <4> QED
        BY <4>1, AppendParts
    <3>6. f2.cursor = a.cursor + OldLines(more)
      <4>1. CASE line.kind \in {" ", "-"}
        <5>1. f2.cursor = f.cursor + 1
          BY <3>4, <4>1 DEF LineApplied
        <5>2. OldLines(more) = OldLines(ls) + 1
          BY <2>5, <4>1
        <5>3. f2.cursor = (a.cursor + OldLines(ls)) + 1
          BY <3>2, <5>1, Zenon
        <5>4. (a.cursor + OldLines(ls)) + 1 = a.cursor + (OldLines(ls) + 1)
          BY <1>0, <1>1, <2>6, Zenon
        <5> QED
          BY <5>2, <5>3, <5>4, Zenon
      <4>2. CASE line.kind = "+"
        BY <1>0, <2>5, <3>2, <3>4, <4>2 DEF LineApplied
      <4> QED
        BY <2>7, <4>1, <4>2
    <3>7. Len(f2.output) = Len(a.output) + NewLines(more)
      <4>1. CASE line.kind \in {" ", "+"}
        <5>1. f2.output = Append(f.output, line.content)
          BY <3>4, <4>1 DEF LineApplied
        <5>2. NewLines(more) = NewLines(ls) + 1
          BY <2>5, <4>1
        <5> QED
          BY <1>0, <1>1, <2>6, <3>2, <3>5, <5>1, <5>2, Zenon
      <4>2. CASE line.kind = "-"
        BY <1>0, <2>5, <3>2, <3>4, <4>2 DEF LineApplied
      <4> QED
        BY <2>7, <4>1, <4>2
    <3> QED
      BY <3>3, <3>6, <3>7
  <2>9. Holds(more)
    BY <2>8 DEF f2, g2
  <2> HIDE DEF Holds
  <2> QED
    BY <2>0, <2>9 DEF more
<1> HIDE DEF Holds
<1>4. P \in SUBSET Seq(HunkLines)
  OBVIOUS
<1> HIDE DEF P
<1>5. P = Seq(HunkLines)
  BY <1>2, <1>3, <1>4, SequencesInduction
<1>6. Holds(lines)
  BY <1>5 DEF P
<1> QED
  BY <1>6 DEF Holds

\* The lines of a hunk take nothing back.
LEMMA LinesBefore ==
    ASSUME NEW original \in Seq(Lines), NEW result \in Seq(Lines), NEW a \in Applied,
           NEW lines \in Seq(HunkLines)
    PROVE  /\ ApplyLines(a, lines, original).ok => a.ok
           /\ StartsWith(result, ApplyLines(a, lines, original).output) =>
                 StartsWith(result, a.output)
<1> DEFINE F(ls) == ApplyLines(a, ls, original)
           Holds(ls) == /\ F(ls).ok => a.ok
                        /\ StartsWith(result, F(ls).output) => StartsWith(result, a.output)
           P == {ls \in Seq(HunkLines) : Holds(ls)}
<1>1. <<>> \in P
  <2>1. PICK line \in HunkLines : TRUE
    BY SomeLine
  <2>2. F(<<>>) = a
    <3>1. <<>> \in Seq(HunkLines)
      OBVIOUS
    <3> QED
      BY <2>1, <3>1, LineAppend
  <2> HIDE DEF F
  <2> QED
    BY <2>2
<1>2. ASSUME NEW ls \in P, NEW line \in HunkLines PROVE Append(ls, line) \in P
  <2> DEFINE f == F(ls)
             f2 == F(Append(ls, line))
  <2>1. ls \in Seq(HunkLines) /\ Append(ls, line) \in Seq(HunkLines) /\ Holds(ls)
    BY AppendParts
  <2>2. f \in Applied /\ f2 = ApplyLine(f, line, original)
    BY <2>1, LineAppend
  <2> HIDE DEF f, f2
  <2>3. /\ f2.ok => f.ok
        /\ StartsWith(result, f2.output) => StartsWith(result, f.output)
    BY <2>2, LineBefore
  <2>4. Holds(Append(ls, line))
    BY <2>1, <2>3 DEF f, f2
  <2> HIDE DEF Holds
  <2> QED
    BY <2>1, <2>4
<1> HIDE DEF Holds
<1>3. P \in SUBSET Seq(HunkLines)
  OBVIOUS
<1> HIDE DEF P
<1>4. P = Seq(HunkLines)
  BY <1>1, <1>2, <1>3, SequencesInduction
<1>5. Holds(lines)
  BY <1>4 DEF P
<1> QED
  BY <1>5 DEF Holds

\* Where a hunk starts, if it does.
HunkStart(a, hunk, original) ==
    [ok |-> a.ok, cursor |-> StartLine(hunk),
     output |-> a.output \o SubSeq(original, a.cursor + 1, StartLine(hunk))]

\* A hunk that is applied starts behind the one in front of it.
LEMMA HunkResult ==
    ASSUME NEW original \in Seq(Lines), NEW a \in Applied, NEW hunk \in Hunks
    PROVE  /\ ApplyHunk(a, hunk, original).ok =>
                /\ a.ok /\ a.cursor <= StartLine(hunk) /\ StartLine(hunk) <= Len(original)
           /\ a.ok /\ a.cursor <= StartLine(hunk) /\ StartLine(hunk) <= Len(original) =>
                /\ ApplyHunk(a, hunk, original)
                      = ApplyLines(HunkStart(a, hunk, original), hunk.lines, original)
                /\ HunkStart(a, hunk, original) \in Applied
                /\ SubSeq(original, a.cursor + 1, StartLine(hunk)) \in Seq(Lines)
                /\ Len(SubSeq(original, a.cursor + 1, StartLine(hunk)))
                      = StartLine(hunk) - a.cursor
<1> DEFINE start == StartLine(hunk)
           c == ApplyHunk(a, hunk, original)
           at == HunkStart(a, hunk, original)
<1>1. start \in Int /\ a.cursor \in Nat /\ Len(original) \in Nat
  BY AppliedParts DEF StartLine, Hunks
<1>2. a.ok \in BOOLEAN
  BY AppliedParts
<1>3. a.output \in Seq(Lines)
  BY AppliedParts
<1>4. CASE ~a.ok \/ start < a.cursor \/ start > Len(original)
  <2>1. c = [a EXCEPT !.ok = FALSE]
    BY <1>4 DEF ApplyHunk
  <2>2. ~c.ok
    BY <2>1 DEF Applied
  <2> HIDE DEF c
  <2>3. ~(a.ok /\ a.cursor <= start /\ start <= Len(original))
    BY <1>1, <1>4
  <2> QED
    BY <2>2, <2>3 DEF c
<1>5. CASE ~(~a.ok \/ start < a.cursor \/ start > Len(original))
  <2>1. c = ApplyLines(at, hunk.lines, original)
    BY <1>5 DEF ApplyHunk, ApplyLines, HunkStart
  <2> HIDE DEF start
  <2>2. a.ok /\ a.cursor <= start /\ start \in 0..Len(original) /\ start <= Len(original)
    BY <1>1, <1>5
  <2>3. /\ SubSeq(original, a.cursor + 1, start) \in Seq(Lines)
        /\ Len(SubSeq(original, a.cursor + 1, start)) = start - a.cursor
    BY <1>1, <2>2, Parts
  <2>4. a.output \o SubSeq(original, a.cursor + 1, start) \in Seq(Lines)
    BY <1>3, <2>3
  <2>5. at \in Applied
    BY <1>2, <2>2, <2>4 DEF Applied, HunkStart, start
  <2> QED
    BY <2>1, <2>2, <2>3, <2>5 DEF start
<1> QED
  BY <1>4, <1>5

\* A hunk, forwards and backwards.
LEMMA HunkMirror ==
    ASSUME NEW original \in Seq(Lines), NEW result \in Seq(Lines),
           NEW a \in Applied, NEW b \in Applied, NEW hunk \in Hunks, NEW back \in Hunks,
           back.lines = Reversed(hunk.lines),
           StartLine(back) = Len(a.output) + (StartLine(hunk) - a.cursor),
           a.ok => Mirror(a, b, original),
           ApplyHunk(a, hunk, original).ok,
           StartsWith(result, ApplyHunk(a, hunk, original).output)
    PROVE  /\ Mirror(ApplyHunk(a, hunk, original), ApplyHunk(b, back, result), original)
           /\ ApplyHunk(a, hunk, original).cursor = StartLine(hunk) + OldLines(hunk.lines)
           /\ Len(ApplyHunk(a, hunk, original).output)
                 = (Len(a.output) + (StartLine(hunk) - a.cursor)) + NewLines(hunk.lines)
<1> DEFINE start == StartLine(hunk)
           startb == StartLine(back)
           c == ApplyHunk(a, hunk, original)
           d == ApplyHunk(b, back, result)
           at == HunkStart(a, hunk, original)
           bt == HunkStart(b, back, result)
           mid == SubSeq(original, a.cursor + 1, start)
           lines == hunk.lines
<1>1. /\ start \in Int /\ startb \in Int /\ Len(original) \in Nat /\ Len(result) \in Nat
      /\ lines \in Seq(HunkLines)
  <2>1. ASSUME NEW h \in Hunks PROVE h.lines \in Seq(HunkLines) /\ StartLine(h) \in Int
    <3>1. h.lines \in Seq(HunkLines) /\ h.old_start \in Int
      BY ONLY h \in Hunks DEF Hunks
    <3> QED
      BY ONLY <3>1 DEF StartLine
  <2>2. start \in Int /\ startb \in Int /\ lines \in Seq(HunkLines)
    BY <2>1, Zenon
  <2>3. Len(original) \in Nat /\ Len(result) \in Nat
    OBVIOUS
  <2> QED
    BY ONLY <2>2, <2>3
<1>2. a.cursor \in Nat /\ a.output \in Seq(Lines) /\ Len(a.output) \in Nat
      /\ b.cursor \in Nat /\ b.output \in Seq(Lines)
  BY AppliedParts
<1>3. c.ok /\ StartsWith(result, c.output)
  OBVIOUS
<1>4. /\ a.ok /\ a.cursor <= start /\ start <= Len(original)
      /\ c = ApplyLines(at, lines, original) /\ at \in Applied
      /\ mid \in Seq(Lines) /\ Len(mid) = start - a.cursor
  BY <1>3, HunkResult
<1>5. startb = Len(a.output) + (start - a.cursor) /\ Mirror(a, b, original)
  BY <1>4
<1>6. at.ok = a.ok /\ at.cursor = start /\ at.output = a.output \o mid
  BY DEF HunkStart
<1>7. bt.ok = b.ok /\ bt.cursor = startb
      /\ bt.output = b.output \o SubSeq(result, b.cursor + 1, startb)
  BY DEF HunkStart
<1>8. /\ startb <= Len(result) /\ b.ok /\ b.cursor <= startb =>
            d = ApplyLines(bt, back.lines, result) /\ bt \in Applied
  BY HunkResult
<1> HIDE DEF start, startb, c, d, at, bt, mid, lines
<1>9. a.ok /\ b.ok /\ a.cursor <= Len(original) /\ b.cursor = Len(a.output)
      /\ b.output = SubSeq(original, 1, a.cursor)
  BY <1>5 DEF Mirror
<1>10. StartsWith(result, a.output \o mid)
  <2>1. StartsWith(result, at.output)
    BY <1>1, <1>3, <1>4, LinesBefore
  <2> QED
    BY <1>6, <2>1
<1>11. /\ Len(a.output \o mid) = startb /\ startb <= Len(result) /\ b.cursor <= startb
       /\ SubSeq(result, b.cursor + 1, startb) = mid
  <2>1. a.output \in Seq(Lines) /\ mid \in Seq(Lines)
    BY <1>2, <1>4
  <2>2. /\ Len(a.output) \in Nat /\ Len(mid) \in Nat
        /\ Len(a.output \o mid) = Len(a.output) + Len(mid)
        /\ Len(a.output) + Len(mid) <= Len(result)
        /\ SubSeq(result, Len(a.output) + 1, Len(a.output) + Len(mid)) = mid
    <3>1. Has(result, a.output, mid)
      <4>1. \A m \in Seq(Lines) :
               StartsWith(result, a.output \o m) => Has(result, a.output, m)
        BY <2>1, PartAfter
      <4> QED
        BY <1>10, <2>1, <4>1, Zenon
    <3> QED
      BY <3>1 DEF Has
  <2>3. startb = Len(a.output) + Len(mid)
    BY <1>4, <1>5
  <2>4. Len(a.output) <= startb
    BY <2>2, <2>3
  <2> QED
    BY <1>9, <2>2, <2>3, <2>4
<1>12. b.output \o mid = SubSeq(original, 1, start)
  <2>1. a.cursor \in 0..Len(original) /\ start \in a.cursor..Len(original)
    BY <1>1, <1>2, <1>4
  <2>2. SubSeq(original, 1, a.cursor) \o SubSeq(original, a.cursor + 1, start)
           = SubSeq(original, 1, start)
    BY <2>1, PartsJoin
  <2> QED
    BY <1>9, <2>2 DEF mid
<1>13. d = ApplyLines(bt, Reversed(lines), result) /\ bt \in Applied
  BY <1>8, <1>9, <1>11 DEF lines
<1>14. Mirror(at, bt, original)
  BY <1>4, <1>6, <1>7, <1>9, <1>11, <1>12 DEF Mirror
<1>15. /\ Mirror(c, d, original)
       /\ c.cursor = at.cursor + OldLines(lines)
       /\ Len(c.output) = Len(at.output) + NewLines(lines)
  BY <1>1, <1>3, <1>4, <1>13, <1>14, LinesMirror
<1> QED
  BY <1>5, <1>6, <1>11, <1>15 DEF c, d, start, startb, lines

------------------------------------
(* A patch, forwards and backwards *)

\* The start of the k-th hunk in the reverse, counted from 0.
BackStart(hunk, before) == StartLine(hunk) + AddedBy(before) - RemovedBy(before)

\* The reverse of a hunk is a hunk.
LEMMA HunkReversed ==
    ASSUME NEW hunk \in Hunks, NEW start \in Int
    PROVE  /\ ReverseHunk(hunk, start) \in Hunks
           /\ ReverseHunk(hunk, start).lines = Reversed(hunk.lines)
           /\ ReverseHunk(hunk, start).old_start = start + 1
           /\ start >= 0 => StartLine(ReverseHunk(hunk, start)) = start
<1> DEFINE back == ReverseHunk(hunk, start)
<1>1. hunk.lines \in Seq(HunkLines)
  BY DEF Hunks
<1>2. Reversed(hunk.lines) \in Seq(HunkLines)
  <2>1. PICK line \in HunkLines : TRUE
    BY SomeLine
  <2> QED
    BY <1>1, <2>1, ReversedAppend
<1>3. back.lines = Reversed(hunk.lines) /\ back.old_start = start + 1
  BY DEF ReverseHunk, Reversed
<1>4. back \in Hunks
  <2>1. hunk.old_count \in Nat /\ hunk.new_count \in Nat
        /\ hunk.old_seen \in Nat /\ hunk.new_seen \in Nat
    BY DEF Hunks
  <2>2. back = [old_start |-> start + 1, old_count |-> hunk.new_count,
                new_count |-> hunk.old_count, old_seen |-> hunk.new_seen,
                new_seen |-> hunk.old_seen, lines |-> Reversed(hunk.lines)]
    BY DEF ReverseHunk, Reversed
  <2>3. start + 1 \in Int
    OBVIOUS
  <2> HIDE DEF back
  <2> QED
    BY <1>2, <2>1, <2>2, <2>3 DEF Hunks
<1>5. start >= 0 => StartLine(back) = start
  BY <1>3 DEF StartLine
<1> QED
  BY <1>3, <1>4, <1>5

\* The counts of hunks are numbers.
LEMMA CountsTyped ==
    ASSUME NEW hunks \in Seq(Hunks)
    PROVE  AddedBy(hunks) \in Nat /\ RemovedBy(hunks) \in Nat
           /\ \A hunk \in Hunks : BackStart(hunk, hunks) \in Int
<1>1. PICK hunk \in Hunks : TRUE
  BY SomeHunk
<1>2. AddedBy(hunks) \in Nat /\ RemovedBy(hunks) \in Nat
  BY <1>1, AddedAppend, RemovedAppend
<1>3. \A h \in Hunks : StartLine(h) \in Int
  BY DEF StartLine, Hunks
<1> QED
  BY <1>2, <1>3 DEF BackStart

\* The reverse of one more hunk.
LEMMA ReverseAppend ==
    ASSUME NEW hunks \in Seq(Hunks), NEW hunk \in Hunks
    PROVE  /\ ReverseHunks(<<>>) = <<>> /\ ReverseHunks(hunks) \in Seq(Hunks)
           /\ ReverseHunks(Append(hunks, hunk))
                 = Append(ReverseHunks(hunks), ReverseHunk(hunk, BackStart(hunk, hunks)))
<1> DEFINE n == Len(hunks)
           more == Append(hunks, hunk)
           back == ReverseHunk(hunk, BackStart(hunk, hunks))
           Back(hs, i) == ReverseHunk(hs[i], BackStart(hs[i], SubSeq(hs, 1, i - 1)))
           r == ReverseHunks(hunks)
           q == ReverseHunks(more)
           t == Append(r, back)
<1>1. /\ more \in Seq(Hunks) /\ n \in Nat /\ Len(more) = n + 1 /\ more[n + 1] = hunk
      /\ \A i \in 1..n : more[i] = hunks[i]
  BY AppendParts
<1>2. \A hs : ReverseHunks(hs) = [i \in DOMAIN hs |-> Back(hs, i)]
  BY DEF ReverseHunks, BackStart, AddedBy, RemovedBy
<1>3. ASSUME NEW hs \in Seq(Hunks), NEW i \in 1..Len(hs) PROVE Back(hs, i) \in Hunks
  <2>1. hs[i] \in Hunks
    OBVIOUS
  <2>2. SubSeq(hs, 1, i - 1) \in Seq(Hunks)
    OBVIOUS
  <2>3. BackStart(hs[i], SubSeq(hs, 1, i - 1)) \in Int
    BY <2>1, <2>2, CountsTyped
  <2> QED
    BY <2>1, <2>3, HunkReversed
<1>4. back \in Hunks
  BY CountsTyped, HunkReversed
<1>5. SubSeq(more, 1, n) = hunks
  <2>1. /\ SubSeq(more, 0 + 1, n) \in Seq(Hunks) /\ Len(SubSeq(more, 0 + 1, n)) = n - 0
        /\ \A k \in 1..(n - 0) : SubSeq(more, 0 + 1, n)[k] = more[0 + k]
    <3> HIDE DEF more, n
    <3> QED
      BY <1>1, Parts
  <2>2. /\ SubSeq(more, 1, n) \in Seq(Hunks) /\ Len(SubSeq(more, 1, n)) = Len(hunks)
        /\ \A k \in 1..Len(hunks) : SubSeq(more, 1, n)[k] = hunks[k]
    BY <1>1, <2>1
  <2> HIDE DEF more, n
  <2> QED
    BY <2>2, SameSequence
<1>6. ASSUME NEW i \in 1..n PROVE SubSeq(more, 1, i - 1) = SubSeq(hunks, 1, i - 1)
  <2> HIDE DEF more, n
  <2>0. i - 1 \in 0..n /\ i - 1 \in 0..(n + 1) /\ 0 <= i - 1 /\ i - 1 \in Nat
    BY <1>1
  <2>1. /\ SubSeq(more, 0 + 1, i - 1) \in Seq(Hunks)
        /\ Len(SubSeq(more, 0 + 1, i - 1)) = (i - 1) - 0
        /\ \A k \in 1..((i - 1) - 0) : SubSeq(more, 0 + 1, i - 1)[k] = more[0 + k]
    BY <1>1, <2>0, Parts
  <2>2. /\ SubSeq(hunks, 0 + 1, i - 1) \in Seq(Hunks)
        /\ Len(SubSeq(hunks, 0 + 1, i - 1)) = (i - 1) - 0
        /\ \A k \in 1..((i - 1) - 0) : SubSeq(hunks, 0 + 1, i - 1)[k] = hunks[0 + k]
    BY <2>0, Parts DEF n
  <2> DEFINE u == SubSeq(more, 1, i - 1)
             v == SubSeq(hunks, 1, i - 1)
  <2>3. /\ u \in Seq(Hunks) /\ v \in Seq(Hunks) /\ Len(u) = i - 1 /\ Len(v) = i - 1
        /\ \A k \in 1..(i - 1) : u[k] = more[k] /\ v[k] = hunks[k]
    BY <2>0, <2>1, <2>2
  <2> HIDE DEF u, v
  <2>4. \A k \in 1..(i - 1) : u[k] = v[k]
    BY <1>1, <2>0, <2>3
  <2>5. u = v
    BY <2>3, <2>4, SameSequence
  <2> QED
    BY <2>5 DEF u, v
<1> HIDE DEF Back, more, n, back
<1>7. r \in Seq(Hunks) /\ Len(r) = n /\ \A i \in 1..n : r[i] = Back(hunks, i)
  <2>1. r = [i \in 1..n |-> Back(hunks, i)] /\ \A i \in 1..n : Back(hunks, i) \in Hunks
    BY <1>1, <1>2, <1>3 DEF n
  <2> QED
    BY <1>1, <2>1
<1>8. q \in Seq(Hunks) /\ Len(q) = n + 1 /\ \A i \in 1..(n + 1) : q[i] = Back(more, i)
  <2>1. q = [i \in 1..(n + 1) |-> Back(more, i)]
        /\ \A i \in 1..(n + 1) : Back(more, i) \in Hunks
    BY <1>1, <1>2, <1>3
  <2> QED
    BY <1>1, <2>1
<1> HIDE DEF r, q
<1>9. /\ t \in Seq(Hunks) /\ Len(t) = n + 1 /\ t[n + 1] = back
      /\ \A i \in 1..n : t[i] = r[i]
  BY <1>4, <1>7, AppendParts
<1> HIDE DEF t
<1>10. ASSUME NEW i \in 1..(n + 1) PROVE q[i] = t[i]
  <2>1. CASE i = n + 1
    <3>1. (n + 1) - 1 = n
      BY <1>1
    <3>2. Back(more, n + 1) = back
      BY <1>1, <1>5, <3>1 DEF Back, back
    <3> QED
      BY <1>8, <1>9, <2>1, <3>2
  <2>2. CASE i # n + 1
    <3>1. i \in 1..n
      BY <1>1, <2>2
    <3>2. Back(more, i) = Back(hunks, i)
      BY <1>1, <1>6, <3>1 DEF Back
    <3> QED
      BY <1>7, <1>8, <1>9, <3>1, <3>2
  <2> QED
    BY <2>1, <2>2
<1>11. q = t
  BY <1>8, <1>9, <1>10, SameSequence
<1>12. ReverseHunks(<<>>) = <<>>
  BY <1>2
<1> QED
  BY <1>7, <1>11, <1>12 DEF q, t, r, more, back

\* What a hunk that is applied says of the state before it.
LEMMA HunkBefore ==
    ASSUME NEW original \in Seq(Lines), NEW result \in Seq(Lines),
           NEW a \in Applied, NEW hunk \in Hunks,
           ApplyHunk(a, hunk, original).ok,
           StartsWith(result, ApplyHunk(a, hunk, original).output)
    PROVE  a.ok /\ StartsWith(result, a.output) /\ a.cursor <= StartLine(hunk)
<1> DEFINE c == ApplyHunk(a, hunk, original)
           at == HunkStart(a, hunk, original)
           mid == SubSeq(original, a.cursor + 1, StartLine(hunk))
<1>1. c.ok /\ StartsWith(result, c.output)
  OBVIOUS
<1>2. /\ a.ok /\ a.cursor <= StartLine(hunk)
      /\ c = ApplyLines(at, hunk.lines, original) /\ at \in Applied
      /\ mid \in Seq(Lines)
  BY <1>1, HunkResult
<1>3. hunk.lines \in Seq(HunkLines)
  BY DEF Hunks
<1>4. at.output = a.output \o mid
  BY DEF HunkStart
<1> HIDE DEF c, at, mid
<1>5. StartsWith(result, at.output)
  BY <1>1, <1>2, <1>3, LinesBefore
<1>6. a.output \in Seq(Lines)
  BY AppliedParts
<1>7. \A m \in Seq(Lines) : StartsWith(result, a.output \o m) => StartsWith(result, a.output)
  BY <1>6, Starts
<1>8. StartsWith(result, a.output)
  BY <1>2, <1>4, <1>5, <1>7, Zenon
<1> QED
  BY <1>2, <1>8

\* A hunk the parser has finished: its counts are those of its lines.
Sealed == {hunk \in Hunks : /\ hunk.old_count = OldLines(hunk.lines)
                            /\ hunk.new_count = NewLines(hunk.lines)}

\* How far the two files are apart after the hunks.
Apart(a, hunks) == Len(a.output) + RemovedBy(hunks) = a.cursor + AddedBy(hunks)

\* The arithmetic of the distance between the files: len lines of output, cur
\* lines read, add lines added and rem lines removed before a hunk at line at.
LEMMA Distances ==
    ASSUME NEW len \in Nat, NEW cur \in Nat, NEW add \in Nat, NEW rem \in Nat, NEW at \in Int,
           len + rem = cur + add
    PROVE  /\ at + add - rem = len + (at - cur)
           /\ cur <= at => at + add - rem >= 0
OBVIOUS

\* Hunks, forwards and backwards.
LEMMA HunksMirror ==
    ASSUME NEW original \in Seq(Lines), NEW result \in Seq(Lines), NEW hunks \in Seq(Sealed),
           ApplyHunks(hunks, original).ok,
           StartsWith(result, ApplyHunks(hunks, original).output)
    PROVE  Mirror(ApplyHunks(hunks, original), ApplyHunks(ReverseHunks(hunks), result), original)
<1> DEFINE A(hs) == ApplyHunks(hs, original)
           B(hs) == ApplyHunks(ReverseHunks(hs), result)
           OK(hs) == Mirror(A(hs), B(hs), original) /\ Apart(A(hs), hs)
           Holds(hs) == A(hs).ok /\ StartsWith(result, A(hs).output) => OK(hs)
           P == {hs \in Seq(Sealed) : Holds(hs)}
<1>1. Sealed \subseteq Hunks /\ \A hs \in Seq(Sealed) : hs \in Seq(Hunks)
  BY DEF Sealed
<1>2. <<>> \in P
  <2>1. PICK hunk \in Hunks : TRUE
    BY SomeHunk
  <2>2. <<>> \in Seq(Hunks) /\ <<>> \in Seq(Sealed)
    OBVIOUS
  <2>3. ReverseHunks(<<>>) = <<>> /\ AddedBy(<<>>) = 0 /\ RemovedBy(<<>>) = 0
    BY <2>1, <2>2, ReverseAppend, AddedAppend, RemovedAppend
  <2>4. A(<<>>) = Nothing /\ ApplyHunks(<<>>, result) = Nothing
    BY <2>1, <2>2, HunkAppend
  <2>5. A(<<>>) = Nothing /\ B(<<>>) = Nothing
    BY <2>3, <2>4
  <2> HIDE DEF A, B
  <2>6. /\ Nothing.ok = TRUE /\ Nothing.cursor = 0 /\ Nothing.output = <<>>
        /\ Len(<<>>) = 0 /\ SubSeq(original, 1, 0) = <<>> /\ Len(original) \in Nat
    BY DEF Nothing
  <2>7. Mirror(Nothing, Nothing, original)
    BY <2>6 DEF Mirror
  <2>8. Apart(Nothing, <<>>)
    BY <2>3, <2>6 DEF Apart
  <2>9. OK(<<>>)
    BY <2>5, <2>7, <2>8
  <2> HIDE DEF OK
  <2> QED
    BY <2>2, <2>9
<1>3. ASSUME NEW hs \in P, NEW hunk \in Sealed PROVE Append(hs, hunk) \in P
  <2> DEFINE more == Append(hs, hunk)
             a == A(hs)
             b == B(hs)
             a2 == A(more)
             b2 == B(more)
             start == BackStart(hunk, hs)
             back == ReverseHunk(hunk, start)
  <2>1. hs \in Seq(Sealed) /\ more \in Seq(Sealed) /\ hs \in Seq(Hunks) /\ hunk \in Hunks
        /\ Holds(hs)
    <3>1. hs \in Seq(Sealed) /\ Holds(hs)
      OBVIOUS
    <3>2. more \in Seq(Sealed)
      BY <3>1, AppendParts
    <3> HIDE DEF Holds
    <3> QED
      BY <1>1, <3>1, <3>2
  <2>2. a \in Applied /\ a2 = ApplyHunk(a, hunk, original)
    BY <2>1, HunkAppend
  <2>3. start \in Int /\ AddedBy(hs) \in Nat /\ RemovedBy(hs) \in Nat
        /\ start = StartLine(hunk) + AddedBy(hs) - RemovedBy(hs)
        /\ StartLine(hunk) \in Int
    <3>1. StartLine(hunk) \in Int
      BY <2>1 DEF StartLine, Hunks
    <3> QED
      BY <2>1, <3>1, CountsTyped DEF BackStart
  <2>4. back \in Hunks /\ back.lines = Reversed(hunk.lines)
        /\ (start >= 0 => StartLine(back) = start)
    BY <2>1, <2>3, HunkReversed
  <2>5. ReverseHunks(hs) \in Seq(Hunks)
        /\ ReverseHunks(more) = Append(ReverseHunks(hs), back)
    BY <2>1, ReverseAppend
  <2>6. b \in Applied /\ b2 = ApplyHunk(b, back, result)
    <3>1. /\ ApplyHunks(ReverseHunks(hs), result) \in Applied
          /\ ApplyHunks(Append(ReverseHunks(hs), back), result)
                = ApplyHunk(ApplyHunks(ReverseHunks(hs), result), back, result)
      BY <2>4, <2>5, HunkAppend
    <3> QED
      BY <2>5, <3>1
  <2>7. /\ AddedBy(more) = AddedBy(hs) + NewLines(hunk.lines)
        /\ RemovedBy(more) = RemovedBy(hs) + OldLines(hunk.lines)
        /\ NewLines(hunk.lines) \in Nat /\ OldLines(hunk.lines) \in Nat
    <3>1. /\ hunk.old_count = OldLines(hunk.lines) /\ hunk.new_count = NewLines(hunk.lines)
          /\ hunk.old_count \in Nat /\ hunk.new_count \in Nat
      BY DEF Sealed, Hunks
    <3> QED
      BY <2>1, <3>1, AddedAppend, RemovedAppend
  <2> HIDE DEF a, b, a2, b2, more, start, back
  <2>8. ASSUME a2.ok, StartsWith(result, a2.output)
        PROVE  Mirror(a2, b2, original) /\ Apart(a2, more)
    <3>1. a.ok /\ StartsWith(result, a.output) /\ a.cursor <= StartLine(hunk)
      BY <2>1, <2>2, <2>8, HunkBefore
    <3>2. Mirror(a, b, original) /\ Apart(a, hs)
      BY <2>1, <3>1 DEF a, b
    <3>3. a.cursor \in Nat /\ Len(a.output) \in Nat
      BY <2>2, AppliedParts
    <3>4. Len(a.output) + RemovedBy(hs) = a.cursor + AddedBy(hs)
      BY <3>2 DEF Apart
    <3> DEFINE len == Len(a.output)
               cur == a.cursor
               at == StartLine(hunk)
    <3>5. start = len + (at - cur) /\ start >= 0
      <4>1. /\ len \in Nat /\ cur \in Nat /\ AddedBy(hs) \in Nat /\ RemovedBy(hs) \in Nat
            /\ at \in Int /\ len + RemovedBy(hs) = cur + AddedBy(hs) /\ cur <= at
        BY <2>3, <3>1, <3>3, <3>4
      <4>2. start = at + AddedBy(hs) - RemovedBy(hs)
        BY <2>3
      <4> DEFINE add == AddedBy(hs)
                 rem == RemovedBy(hs)
      <4> HIDE DEF len, cur, at, add, rem
      <4>3. /\ at + add - rem = len + (at - cur)
            /\ cur <= at => at + add - rem >= 0
        BY ONLY <4>1, Distances DEF add, rem
      <4> QED
        BY ONLY <4>1, <4>2, <4>3 DEF add, rem
    <3>6. StartLine(back) = Len(a.output) + (StartLine(hunk) - a.cursor)
      BY <2>3, <2>4, <3>5
    <3>7. /\ Mirror(a2, b2, original)
          /\ a2.cursor = StartLine(hunk) + OldLines(hunk.lines)
          /\ Len(a2.output)
                = (Len(a.output) + (StartLine(hunk) - a.cursor)) + NewLines(hunk.lines)
      BY <2>1, <2>2, <2>4, <2>6, <2>8, <3>2, <3>6, HunkMirror
    <3>8. Len(a2.output) + RemovedBy(more) = a2.cursor + AddedBy(more)
      <4> DEFINE old == OldLines(hunk.lines)
                 new == NewLines(hunk.lines)
                 add == AddedBy(hs)
                 rem == RemovedBy(hs)
                 len2 == Len(a2.output)
                 cur2 == a2.cursor
      <4>1. /\ len \in Nat /\ cur \in Nat /\ add \in Nat /\ rem \in Nat
            /\ at \in Int /\ len + rem = cur + add /\ old \in Nat /\ new \in Nat
        BY <2>3, <2>7, <3>3, <3>4
      <4>2. /\ AddedBy(more) = add + new /\ RemovedBy(more) = rem + old
            /\ len2 = (len + (at - cur)) + new /\ cur2 = at + old
        BY <2>7, <3>7
      <4> HIDE DEF len, cur, at, old, new, add, rem, len2, cur2
      <4>3. (len + (at - cur)) + new + (rem + old) = (at + old) + (add + new)
        BY <4>1
      <4>4. len2 + RemovedBy(more) = cur2 + AddedBy(more)
        BY <4>2, <4>3
      <4> QED
        BY <4>4 DEF len2, cur2
    <3> QED
      BY <3>7, <3>8 DEF Apart
  <2>9. Holds(more)
    BY <2>8 DEF a2, b2
  <2> HIDE DEF Holds
  <2> QED
    BY <2>1, <2>9 DEF more
<1> HIDE DEF Holds
<1>4. P \in SUBSET Seq(Sealed)
  OBVIOUS
<1> HIDE DEF P
<1>5. P = Seq(Sealed)
  BY <1>2, <1>3, <1>4, SequencesInduction
<1>6. Holds(hunks)
  BY <1>5 DEF P
<1> QED
  BY <1>6 DEF Holds

\* What hunks make of a text are lines.
LEMMA AppliedIsLines ==
    ASSUME NEW text \in Texts, NEW hunks \in Seq(Sealed)
    PROVE  apply_hunks(text, hunks).output \in Seq(Lines)
<1> DEFINE original == split_inclusive(text)
           a == ApplyHunks(hunks, original)
           tail == SubSeq(original, a.cursor + 1, Len(original))
<1>1. original \in Seq(Lines)
  BY SplitIsProper DEF Proper
<1>2. a \in Applied
  <2>1. hunks \in Seq(Hunks)
    BY DEF Sealed
  <2>2. PICK hunk \in Hunks : TRUE
    BY SomeHunk
  <2> QED
    BY <1>1, <2>1, <2>2, HunkAppend
<1>3. apply_hunks(text, hunks) = [a EXCEPT !.output = @ \o tail]
  BY DEF apply_hunks, ApplyHunks, Nothing
<1> HIDE DEF a, original
<1>4. a.cursor \in Nat /\ a.output \in Seq(Lines) /\ Len(original) \in Nat
  BY <1>1, <1>2, AppliedParts
<1>5. tail \in Seq(Lines)
  BY <1>1, <1>4
<1> HIDE DEF tail
<1>6. [a EXCEPT !.output = @ \o tail].output = a.output \o tail
  BY <1>2 DEF Applied
<1> QED
  BY <1>3, <1>4, <1>5, <1>6

\* A patch, forwards and backwards: its reverse is accepted and gives the text back.
LEMMA PatchReverses ==
    ASSUME NEW text \in Texts, NEW hunks \in Seq(Sealed),
           apply_hunks(text, hunks).ok, Whole(apply_hunks(text, hunks).output)
    PROVE  LET back == apply_hunks(FlattenSeq(apply_hunks(text, hunks).output),
                                   ReverseHunks(hunks))
           IN  back.ok /\ FlattenSeq(back.output) = text
<1> DEFINE original == split_inclusive(text)
           a == ApplyHunks(hunks, original)
           tail == SubSeq(original, a.cursor + 1, Len(original))
           result == apply_hunks(text, hunks).output
           b == ApplyHunks(ReverseHunks(hunks), result)
           back == apply_hunks(FlattenSeq(result), ReverseHunks(hunks))
<1>1. original \in Seq(Lines) /\ FlattenSeq(original) = text
  BY SplitIsProper DEF Proper
<1>2. /\ hunks \in Seq(Hunks) /\ ReverseHunks(hunks) \in Seq(Hunks)
      /\ a \in Applied /\ \A r \in Seq(Lines) : ApplyHunks(ReverseHunks(hunks), r) \in Applied
  <2>1. hunks \in Seq(Hunks)
    BY DEF Sealed
  <2>2. PICK hunk \in Hunks : TRUE
    BY SomeHunk
  <2>3. ReverseHunks(hunks) \in Seq(Hunks)
    BY <2>1, <2>2, ReverseAppend
  <2>4. a \in Applied
    BY <1>1, <2>1, <2>2, HunkAppend
  <2>5. \A r \in Seq(Lines) : ApplyHunks(ReverseHunks(hunks), r) \in Applied
    BY <2>2, <2>3, HunkAppend
  <2> QED
    BY <2>1, <2>3, <2>4, <2>5
<1>3. apply_hunks(text, hunks) = [a EXCEPT !.output = @ \o tail]
  BY DEF apply_hunks, ApplyHunks, Nothing
<1>4. a.ok /\ result = a.output \o tail
  <2> HIDE DEF a, tail
  <2>1. /\ [a EXCEPT !.output = @ \o tail].ok = a.ok
        /\ [a EXCEPT !.output = @ \o tail].output = a.output \o tail
    BY <1>2 DEF Applied
  <2> QED
    BY <1>3, <2>1
<1>5. a.cursor \in Nat /\ a.output \in Seq(Lines) /\ Len(original) \in Nat
  BY <1>1, <1>2, AppliedParts
<1> HIDE DEF a
<1>6. tail \in Seq(Lines)
  BY <1>1, <1>5
<1> HIDE DEF original, tail, result
<1>7. result \in Seq(Lines) /\ Whole(result)
  BY <1>4, <1>5, <1>6 DEF result
<1>8. StartsWith(result, a.output)
  <2>1. \A m \in Seq(Lines) : StartsWith(a.output \o m, a.output)
    BY <1>5, <1>7, Starts
  <2> QED
    BY <1>4, <1>6, <2>1
<1>9. Mirror(a, b, original)
  BY <1>1, <1>4, <1>7, <1>8, HunksMirror DEF a
<1>10. split_inclusive(FlattenSeq(result)) = result
  BY <1>7, SplitOfProper DEF Proper
<1>11. back = [b EXCEPT !.output = @ \o SubSeq(result, b.cursor + 1, Len(result))]
  <2> DEFINE Back(lines) ==
                LET c == ApplyHunks(ReverseHunks(hunks), lines)
                IN  [c EXCEPT !.output = @ \o SubSeq(lines, c.cursor + 1, Len(lines))]
  <2>1. \A t : apply_hunks(t, ReverseHunks(hunks)) = Back(split_inclusive(t))
    BY DEF apply_hunks, ApplyHunks, Nothing
  <2>2. back = Back(split_inclusive(FlattenSeq(result)))
    BY <2>1
  <2>3. back = Back(result)
    BY <1>10, <2>2
  <2> QED
    BY <2>3
<1>12. b \in Applied
  BY <1>2, <1>7
<1> HIDE DEF b
<1>13. /\ back.ok = b.ok
       /\ back.output = b.output \o SubSeq(result, b.cursor + 1, Len(result))
  <2> HIDE DEF back
  <2> QED
    BY <1>11, <1>12 DEF Applied
<1>14. b.ok /\ b.cursor = Len(a.output) /\ b.output = SubSeq(original, 1, a.cursor)
       /\ a.cursor <= Len(original)
  BY <1>9 DEF Mirror
<1>15. SubSeq(result, b.cursor + 1, Len(result)) = tail
  <2>1. StartsWith(result, a.output \o tail)
    <3>1. Len(result) \in Nat
      BY <1>7
    <3>2. StartsWith(result, result)
      BY <3>1 DEF StartsWith
    <3> QED
      BY <1>4, <3>2
  <2>2. Has(result, a.output, tail)
    <3>1. \A m \in Seq(Lines) :
             StartsWith(result, a.output \o m) => Has(result, a.output, m)
      BY <1>5, <1>7, PartAfter
    <3> QED
      BY <1>6, <2>1, <3>1, Zenon
  <2>3. /\ Len(result) = Len(a.output) + Len(tail)
        /\ SubSeq(result, Len(a.output) + 1, Len(a.output) + Len(tail)) = tail
    BY <1>4, <2>2 DEF Has
  <2> QED
    BY <1>14, <2>3
<1>16. SubSeq(original, 1, a.cursor) \o tail = original
  <2>1. a.cursor \in 0..Len(original) /\ Len(original) \in a.cursor..Len(original)
    BY <1>5, <1>14
  <2>2. SubSeq(original, 1, a.cursor) \o tail = SubSeq(original, 1, Len(original))
    BY <1>1, <2>1, PartsJoin DEF tail
  <2>3. SubSeq(original, 1, Len(original)) = original
    <3> DEFINE s == SubSeq(original, 1, Len(original))
    <3>1. s \in Seq(Lines) /\ Len(s) = Len(original)
          /\ \A k \in 1..Len(original) : s[k] = original[k]
      <4>1. /\ SubSeq(original, 0 + 1, Len(original)) \in Seq(Lines)
            /\ Len(SubSeq(original, 0 + 1, Len(original))) = Len(original) - 0
            /\ \A k \in 1..(Len(original) - 0) :
                  SubSeq(original, 0 + 1, Len(original))[k] = original[0 + k]
        BY <1>1, <1>5, Parts
      <4> QED
        BY <1>5, <4>1
    <3> HIDE DEF s
    <3>2. s = original
      BY <1>1, <3>1, SameSequence
    <3> QED
      BY <3>2 DEF s
  <2> QED
    BY <2>2, <2>3
<1>17. back.ok /\ back.output = original
  BY <1>13, <1>14, <1>15, <1>16
<1> HIDE DEF back
<1>18. back.ok /\ FlattenSeq(back.output) = text
  BY <1>1, <1>17
<1> QED
  BY <1>18 DEF back, result

------------------------------------
(* The parser *)

ParserStates == {"outside", "new_header", "between", "marker", "body", "parsed", "done"}

\* What a header may name.
Paths == {DevNull} \cup {line.path : line \in {l \in PatchLines : l.kind \in {"---", "+++"}}}

\* BOOLEAN, as a set like any other.
Flags == BOOLEAN

\* A hunk as the parser keeps it: it has seen the lines it has.
Counted == {hunk \in Hunks : /\ hunk.old_seen = OldLines(hunk.lines)
                             /\ hunk.new_seen = NewLines(hunk.lines)}
FilePatches == [old_path : Paths, new_path : Paths, hunks : Seq(Sealed)]
Parses == [state : ParserStates, exists : Flags, original : Texts, lines : Nat, ended : Flags,
           old_path : Paths, new_path : Paths, hunks : Seq(Counted),
           files : Seq(FilePatches), result : Seq(Lines)]

\* Every hunk but the one whose body is read.
AllClosed(p) == \A i \in 1..Len(p.hunks) :
                i < Len(p.hunks) \/ p.state # "body" => p.hunks[i] \in Sealed
Started(p) == p.state \in {"body", "marker"} => p.hunks # <<>>

\* The result is that of the one file patch.
AppliedIs(original, files, result) ==
    /\ Len(files) = 1
    /\ apply_hunks(original, files[1].hunks).ok
    /\ result = apply_hunks(original, files[1].hunks).output
Ends(p) == p.state = "done" => AppliedIs(p.original, p.files, p.result)

ParseOK(p) == p \in Parses /\ AllClosed(p) /\ Started(p) /\ Ends(p)

\* The fields of a parse.
LEMMA ParseParts ==
    ASSUME NEW p \in Parses
    PROVE  /\ p.state \in ParserStates /\ p.original \in Texts /\ p.lines \in Nat
           /\ p.old_path \in Paths /\ p.new_path \in Paths
           /\ p.hunks \in Seq(Counted) /\ p.files \in Seq(FilePatches)
           /\ p.result \in Seq(Lines)
BY DEF Parses

\* q is p in another state, with other hunks.
Becomes(q, state, hunks) == q \in Parses /\ q.state = state /\ q.hunks = hunks

\* The parser's assignment of the line number and the end.
LEMMA SetLine ==
    ASSUME NEW p \in Parses, NEW n \in Nat, NEW f \in Flags
    PROVE  LET q == [p EXCEPT !.lines = n, !.ended = f] IN
           /\ q \in Parses /\ q.state = p.state /\ q.hunks = p.hunks
           /\ q.files = p.files /\ q.original = p.original /\ q.result = p.result
BY DEF Parses

\* ... of the state.
LEMMA SetState ==
    ASSUME NEW p \in Parses, NEW s \in ParserStates
    PROVE  Becomes([p EXCEPT !.state = s], s, p.hunks)
BY DEF Parses, Becomes

\* ... of the hunks.
LEMMA SetHunks ==
    ASSUME NEW p \in Parses, NEW s \in ParserStates, NEW hunks \in Seq(Counted)
    PROVE  /\ Becomes([p EXCEPT !.hunks = hunks, !.state = s], s, hunks)
           /\ Becomes([p EXCEPT !.hunks = hunks], p.state, hunks)
BY DEF Parses, Becomes

\* ... of the path of a header.
LEMMA SetPath ==
    ASSUME NEW p \in Parses, NEW s \in ParserStates, NEW named \in Paths
    PROVE  /\ Becomes([p EXCEPT !.old_path = named, !.state = s], s, p.hunks)
           /\ Becomes([p EXCEPT !.new_path = named, !.state = s], s, p.hunks)
BY DEF Parses, Becomes

\* ... of the file patches.
LEMMA SetFiles ==
    ASSUME NEW p \in Parses, NEW files \in Seq(FilePatches)
    PROVE  Becomes([p EXCEPT !.files = files], p.state, p.hunks)
BY DEF Parses, Becomes

\* q is p with a result.
Returns(q, p, state, result) ==
    /\ q \in Parses /\ q.state = state /\ q.hunks = p.hunks /\ q.files = p.files
    /\ q.original = p.original /\ q.result = result

\* ... of the result.
LEMMA SetResult ==
    ASSUME NEW p \in Parses, NEW s \in ParserStates, NEW result \in Seq(Lines)
    PROVE  Returns([p EXCEPT !.state = s, !.result = result], p, s, result)
BY DEF Parses, Returns

\* What a parse may become.
ParseGoes(q) == q = Failed \/ ParseOK(q)

\* A line of the patch, as PatchesAssumption has it.
LineOK(line) ==
    /\ line.content \in Lines
    /\ line.kind \in {"---", "+++"} => line.path \in Paths
    /\ line.kind = "@@" => line.old_start \in Nat /\ line.old_count \in Nat /\ line.new_count \in Nat

\* Every line the patch may have is such a line.
LEMMA PatchLinesOK == \A line \in PatchLines : LineOK(line)
BY PatchesAssumption DEF LineOK, Lines, Texts, CharSet, Paths

\* Headers.
LEMMA HeaderGoes ==
    ASSUME NEW p \in Parses, AllClosed(p), p.state # "body", NEW line, LineOK(line),
           line.kind \in {"---", "+++"}
    PROVE  /\ p.hunks = <<>> => ParseGoes(parse_header_path(p, "old_path", line, "new_header"))
           /\ ParseGoes(parse_header_path(p, "new_path", line, "between"))
<1>1. line.path \in Paths
  BY DEF LineOK
<1>2. "new_header" \in ParserStates /\ "between" \in ParserStates
  BY DEF ParserStates
<1>3. CASE line.path = ""
  BY <1>3 DEF parse_header_path, ParseGoes
<1>4. CASE line.path # ""
  <2> DEFINE q == [p EXCEPT !.old_path = line.path, !.state = "new_header"]
             r == [p EXCEPT !.new_path = line.path, !.state = "between"]
  <2>1. /\ q \in Parses /\ q.state = "new_header" /\ q.hunks = p.hunks
        /\ r \in Parses /\ r.state = "between" /\ r.hunks = p.hunks
    <3> DEFINE named == line.path
    <3>0. named \in Paths
      BY <1>1
    <3> HIDE DEF named
    <3>1. Becomes([p EXCEPT !.old_path = named, !.state = "new_header"], "new_header", p.hunks)
      BY <1>2, <3>0, SetPath
    <3>2. Becomes([p EXCEPT !.new_path = named, !.state = "between"], "between", p.hunks)
      BY <1>2, <3>0, SetPath
    <3>3. Becomes(q, "new_header", p.hunks) /\ Becomes(r, "between", p.hunks)
      BY <3>1, <3>2, Zenon DEF named
    <3> HIDE DEF q, r
    <3> QED
      BY <3>3 DEF Becomes
  <2>2. /\ parse_header_path(p, "old_path", line, "new_header") = q
        /\ parse_header_path(p, "new_path", line, "between") = r
    BY <1>4 DEF parse_header_path
  <2> HIDE DEF q, r
  <2>3. ParseOK(q) /\ ParseOK(r)
    BY <2>1 DEF ParseOK, AllClosed, Started, Ends
  <2> QED
    BY <2>2, <2>3 DEF ParseGoes
<1> QED
  BY <1>3, <1>4

\* The header of a file patch: no hunk of it is there yet.
LEMMA OldHeaderGoes ==
    ASSUME NEW p \in Parses, AllClosed(p), NEW line, LineOK(line), line.kind = "---"
    PROVE  ParseGoes(OldHeader(p, line))
<1> DEFINE q == [p EXCEPT !.hunks = <<>>]
<1>1. line.path \in Paths
  BY DEF LineOK
<1>2. "new_header" \in ParserStates /\ <<>> \in Seq(Counted)
  BY DEF ParserStates
<1>3. CASE line.path = ""
  BY <1>3 DEF OldHeader, parse_header_path, ParseGoes
<1>4. CASE line.path # ""
  <2> DEFINE r == [q EXCEPT !.old_path = line.path, !.state = "new_header"]
  <2>1. q \in Parses /\ q.hunks = <<>>
    <3>1. p.state \in ParserStates
      BY ParseParts
    <3> QED
      BY <1>2, <3>1, SetHunks DEF Becomes
  <2>2. OldHeader(p, line) = r
    BY <1>4 DEF OldHeader, parse_header_path
  <2> HIDE DEF q
  <2>3. r \in Parses /\ r.state = "new_header" /\ r.hunks = <<>>
    <3>1. Becomes(r, "new_header", q.hunks)
      BY ONLY <1>1, <1>2, <2>1, SetPath
    <3> HIDE DEF r
    <3> QED
      BY ONLY <2>1, <3>1 DEF Becomes
  <2> HIDE DEF r
  <2>4. ParseOK(r)
    BY <2>3 DEF ParseOK, AllClosed, Started, Ends
  <2> QED
    BY <2>2, <2>4 DEF ParseGoes
<1> QED
  BY <1>3, <1>4

\* A hunk that is complete has the counts of its lines.
LEMMA CompleteIsSealed ==
    ASSUME NEW hunk \in Counted, Complete(hunk)
    PROVE  hunk \in Sealed
BY DEF Counted, Complete, Sealed

\* The file patch, with all its hunks.
LEMMA FileGoes ==
    ASSUME NEW p \in Parses, AllClosed(p), p.state # "body", NEW s \in ParserStates,
           s \notin {"body", "marker", "done"}
    PROVE  /\ WithFile(p) \in Parses /\ AllClosed(WithFile(p)) /\ WithFile(p).state = p.state
           /\ ParseOK([WithFile(p) EXCEPT !.state = s])
<1>1. p.hunks \in Seq(Sealed)
  <2>1. \A i \in 1..Len(p.hunks) : p.hunks[i] \in Sealed
    BY DEF AllClosed
  <2>2. p.hunks \in Seq(Counted)
    BY ParseParts
  <2> DEFINE hs == p.hunks
  <2>3. hs \in Seq(Counted) /\ \A i \in 1..Len(hs) : hs[i] \in Sealed
    BY <2>1, <2>2
  <2> HIDE DEF hs
  <2>4. hs \in Seq(Sealed)
    BY <2>3
  <2> QED
    BY <2>4 DEF hs
<1>2. FilePatch(p) \in FilePatches
  BY <1>1, ParseParts DEF FilePatch, FilePatches
<1> DEFINE files == Append(p.files, FilePatch(p))
           q == [p EXCEPT !.files = files]
           r == [q EXCEPT !.state = s]
<1>3. files \in Seq(FilePatches)
  BY <1>2, ParseParts, AppendParts
<1>4. WithFile(p) = q
  BY DEF WithFile
<1> HIDE DEF files
<1>5. q \in Parses /\ q.state = p.state /\ q.hunks = p.hunks
  BY <1>3, SetFiles DEF Becomes
<1> HIDE DEF q
<1>6. r \in Parses /\ r.state = s /\ r.hunks = q.hunks
  BY <1>5, SetState DEF Becomes
<1>7. AllClosed(q)
  BY <1>5 DEF AllClosed
<1> HIDE DEF r
<1>8. ParseOK(r)
  <2>1. AllClosed(r)
    BY <1>5, <1>6, <1>7 DEF AllClosed
  <2> QED
    BY <1>6, <2>1 DEF ParseOK, Started, Ends
<1> QED
  BY <1>4, <1>5, <1>7, <1>8 DEF r

\* A line without its ending is a line.
LEMMA WithoutEnding ==
    ASSUME NEW text \in Lines
    PROVE  without_line_ending(text) \in Lines
<1>1. ASSUME NEW t \in Lines, t # <<>> PROVE Front(t) \in Lines
  <2>1. t \in Seq(CharSet) /\ Len(t) \in Nat /\ Len(t) > 0
    BY <1>1 DEF Lines, Texts
  <2>2. /\ Front(t) \in Seq(CharSet) /\ Len(Front(t)) = Len(t) - 1
        /\ \A i \in 1..(Len(t) - 1) : Front(t)[i] = t[i]
    <3> DEFINE m == Len(t) - 1
    <3>1. m \in 0..Len(t) /\ 0 <= m /\ m - 0 = m /\ \A i \in 1..m : 0 + i = i
      BY <2>1
    <3>2. Front(t) = SubSeq(t, 0 + 1, m)
      BY DEF Front
    <3> HIDE DEF m
    <3>3. /\ SubSeq(t, 0 + 1, m) \in Seq(CharSet) /\ Len(SubSeq(t, 0 + 1, m)) = m - 0
          /\ \A k \in 1..(m - 0) : SubSeq(t, 0 + 1, m)[k] = t[0 + k]
      BY <2>1, <3>1, Parts
    <3>4. /\ Front(t) \in Seq(CharSet) /\ Len(Front(t)) = m
          /\ \A i \in 1..m : Front(t)[i] = t[i]
      BY <3>1, <3>2, <3>3
    <3> QED
      BY <3>4 DEF m
  <2>3. \A i \in 1..(Len(Front(t)) - 1) : Front(t)[i] # "N"
    BY <2>1, <2>2 DEF Lines
  <2> QED
    BY <2>2, <2>3 DEF Lines, Texts
<1>2. CASE ~EndsIn(text, "N")
  BY <1>2 DEF without_line_ending
<1>3. CASE EndsIn(text, "N") /\ ~EndsIn(Front(text), "R")
  BY <1>1, <1>3 DEF without_line_ending, EndsIn
<1>4. CASE EndsIn(text, "N") /\ EndsIn(Front(text), "R")
  BY <1>1, <1>4 DEF without_line_ending, EndsIn
<1> QED
  BY <1>2, <1>3, <1>4

\* The marker changes no kind of line.
LEMMA StripKeeps ==
    ASSUME NEW lines \in Seq(HunkLines), lines # <<>>
    PROVE  /\ strip_last_line_ending(lines) \in Seq(HunkLines)
           /\ OldLines(strip_last_line_ending(lines)) = OldLines(lines)
           /\ NewLines(strip_last_line_ending(lines)) = NewLines(lines)
<1> DEFINE n == Len(lines)
           old == lines[n]
           new == [old EXCEPT !.content = without_line_ending(@)]
           q == strip_last_line_ending(lines)
<1>1. n \in Nat /\ n > 0 /\ n \in 1..n /\ old \in HunkLines
  OBVIOUS
<1>2. q = [lines EXCEPT ![n] = new]
  BY DEF strip_last_line_ending
<1>3. new \in HunkLines /\ new.kind = old.kind
  <2>1. old.content \in Lines /\ old.kind \in {" ", "-", "+"}
    BY <1>1 DEF HunkLines
  <2>2. without_line_ending(old.content) \in Lines
    BY <2>1, WithoutEnding
  <2> HIDE DEF old
  <2> QED
    BY <1>1, <2>1, <2>2 DEF HunkLines
<1>4. /\ q \in Seq(HunkLines) /\ DOMAIN q = DOMAIN lines
      /\ \A k \in DOMAIN lines : q[k].kind = lines[k].kind
  <2> HIDE DEF new, q
  <2>1. q \in Seq(HunkLines) /\ DOMAIN q = DOMAIN lines
        /\ \A k \in DOMAIN lines : q[k] = IF k = n THEN new ELSE lines[k]
    BY <1>1, <1>2, <1>3
  <2> QED
    BY <1>3, <2>1
<1> HIDE DEF q
<1>5. \A kinds : {k \in DOMAIN q : q[k].kind \in kinds} = {k \in DOMAIN lines : lines[k].kind \in kinds}
  BY <1>4
<1>6. OldLines(q) = OldLines(lines) /\ NewLines(q) = NewLines(lines)
  BY <1>5 DEF OldLines, NewLines
<1> QED
  BY <1>4, <1>6 DEF q

\* The last hunk of a parse, with other lines.
LEMMA LastHunk ==
    ASSUME NEW p \in Parses, AllClosed(p), p.hunks # <<>>, NEW new \in Counted,
           NEW s \in {"between", "marker", "body"}, s = "body" \/ new \in Sealed
    PROVE  /\ p.hunks[Len(p.hunks)] \in Counted
           /\ ParseOK([p EXCEPT !.hunks = [p.hunks EXCEPT ![Len(p.hunks)] = new], !.state = s])
<1> DEFINE hs == p.hunks
           n == Len(hs)
           more == [hs EXCEPT ![n] = new]
           q == [p EXCEPT !.hunks = more, !.state = s]
<1>1. hs \in Seq(Counted) /\ hs # <<>>
  BY ParseParts
<1>2. \A i \in 1..n : i < n => hs[i] \in Sealed
  BY DEF AllClosed
<1> HIDE DEF hs
<1>3. n \in Nat /\ n > 0 /\ n \in 1..n /\ hs[n] \in Counted
  BY <1>1
<1>4. /\ more \in Seq(Counted) /\ Len(more) = n
      /\ \A i \in 1..n : more[i] = IF i = n THEN new ELSE hs[i]
  BY <1>1, <1>3
<1>5. s \in ParserStates
  BY DEF ParserStates
<1> HIDE DEF more
<1>6. Becomes(q, s, more)
  BY <1>4, <1>5, SetHunks
<1> HIDE DEF q
<1>7. q \in Parses /\ q.state = s /\ q.hunks = more
  BY <1>6 DEF Becomes
<1>8. AllClosed(q)
  <2> SUFFICES ASSUME NEW i \in 1..n, i < n \/ s # "body" PROVE more[i] \in Sealed
    BY <1>4, <1>7 DEF AllClosed
  <2>1. CASE i = n
    BY <1>3, <1>4, <2>1
  <2>2. CASE i # n
    BY <1>2, <1>3, <1>4, <2>2
  <2> QED
    BY <2>1, <2>2
<1>9. more # <<>>
  BY <1>3, <1>4
<1>10. Started(q) /\ Ends(q)
  BY <1>7, <1>9 DEF Started, Ends
<1>11. ParseOK(q)
  BY <1>7, <1>8, <1>10 DEF ParseOK
<1> QED
  BY <1>3, <1>11 DEF q, more, hs

\* A hunk whose last line loses its ending.
LEMMA HunkStripped ==
    ASSUME NEW hunk \in Counted, hunk.lines # <<>>
    PROVE  LET new == [hunk EXCEPT !.lines = strip_last_line_ending(@)] IN
           new \in Counted /\ (hunk \in Sealed => new \in Sealed)
<1> DEFINE lines == strip_last_line_ending(hunk.lines)
           new == [hunk EXCEPT !.lines = lines]
<1>1. hunk \in Hunks /\ hunk.lines \in Seq(HunkLines)
  BY DEF Counted, Hunks
<1>2. /\ lines \in Seq(HunkLines) /\ OldLines(lines) = OldLines(hunk.lines)
      /\ NewLines(lines) = NewLines(hunk.lines)
  BY <1>1, StripKeeps
<1> HIDE DEF lines
<1>3. /\ new \in Hunks /\ new.lines = lines
      /\ new.old_count = hunk.old_count /\ new.new_count = hunk.new_count
      /\ new.old_seen = hunk.old_seen /\ new.new_seen = hunk.new_seen
  BY <1>1, <1>2 DEF Hunks
<1> HIDE DEF new
<1>4. new \in Counted /\ (hunk \in Sealed => new \in Sealed)
  BY <1>2, <1>3 DEF Counted, Sealed
<1> QED
  BY <1>4 DEF new, lines

\* The marker that a line has no newline.
LEMMA MarkerGoes ==
    ASSUME NEW p \in Parses, AllClosed(p), p.hunks # <<>>,
           NEW next \in {"between", "body"}, next = "body" \/ p.state # "body"
    PROVE  ParseGoes(NoNewline(p, next))
<1> DEFINE n == Len(p.hunks)
           hunk == p.hunks[n]
           new == [hunk EXCEPT !.lines = strip_last_line_ending(@)]
           q == [p EXCEPT !.hunks = [p.hunks EXCEPT ![n] = new], !.state = next]
<1>1. p.hunks \in Seq(Counted) /\ n \in Nat /\ n \in 1..n /\ hunk \in Counted
  BY ParseParts
<1>2. next = "body" \/ hunk \in Sealed
  BY <1>1 DEF AllClosed
<1>3. CASE hunk.lines = <<>>
  BY <1>3 DEF NoNewline, ParseGoes
<1>4. CASE hunk.lines # <<>>
  <2>1. new \in Counted /\ (next = "body" \/ new \in Sealed)
    <3> HIDE DEF hunk
    <3> QED
      BY <1>1, <1>2, <1>4, HunkStripped
  <2>2. NoNewline(p, next) = q
    BY <1>1, <1>4 DEF NoNewline
  <2> HIDE DEF new
  <2>3. ParseOK(q)
    BY <2>1, LastHunk
  <2> HIDE DEF q
  <2> QED
    BY <2>2, <2>3 DEF ParseGoes
<1> QED
  BY <1>3, <1>4

\* A hunk that gets one more line has seen one more.
LEMMA HunkGrows ==
    ASSUME NEW hunk \in Counted, NEW line \in HunkLines
    PROVE  [hunk EXCEPT
              !.old_seen = @ + (IF line.kind \in {" ", "-"} THEN 1 ELSE 0),
              !.new_seen = @ + (IF line.kind \in {" ", "+"} THEN 1 ELSE 0),
              !.lines = Append(@, line)] \in Counted
<1> DEFINE old == hunk.old_seen + (IF line.kind \in {" ", "-"} THEN 1 ELSE 0)
           new == hunk.new_seen + (IF line.kind \in {" ", "+"} THEN 1 ELSE 0)
           lines == Append(hunk.lines, line)
           q == [hunk EXCEPT !.old_seen = old, !.new_seen = new, !.lines = lines]
<1>1. hunk \in Hunks /\ hunk.lines \in Seq(HunkLines)
      /\ hunk.old_seen = OldLines(hunk.lines) /\ hunk.new_seen = NewLines(hunk.lines)
  BY DEF Counted, Hunks
<1>2. /\ OldLines(hunk.lines) \in Nat /\ NewLines(hunk.lines) \in Nat
      /\ line.kind \in {" ", "-"} => OldLines(lines) = OldLines(hunk.lines) + 1
      /\ line.kind \notin {" ", "-"} => OldLines(lines) = OldLines(hunk.lines)
      /\ line.kind \in {" ", "+"} => NewLines(lines) = NewLines(hunk.lines) + 1
      /\ line.kind \notin {" ", "+"} => NewLines(lines) = NewLines(hunk.lines)
  BY <1>1, CountAppend
<1>3. lines \in Seq(HunkLines)
  BY <1>1, AppendParts
<1> HIDE DEF lines
<1>4. old \in Nat /\ old = OldLines(lines)
  <2>1. CASE line.kind \in {" ", "-"}
    <3>1. old = OldLines(hunk.lines) + 1
      BY <1>1, <2>1
    <3> HIDE DEF old
    <3>2. OldLines(lines) = OldLines(hunk.lines) + 1 /\ OldLines(hunk.lines) \in Nat
      BY <1>2, <2>1
    <3> QED
      BY <3>1, <3>2
  <2>2. CASE line.kind \notin {" ", "-"}
    <3>1. old = OldLines(hunk.lines) + 0
      BY <1>1, <2>2
    <3> HIDE DEF old
    <3>2. OldLines(lines) = OldLines(hunk.lines) /\ OldLines(hunk.lines) \in Nat
      BY <1>2, <2>2
    <3> QED
      BY <3>1, <3>2
  <2> QED
    BY <2>1, <2>2
<1>5. new \in Nat /\ new = NewLines(lines)
  <2>1. CASE line.kind \in {" ", "+"}
    <3>1. new = NewLines(hunk.lines) + 1
      BY <1>1, <2>1
    <3> HIDE DEF new
    <3>2. NewLines(lines) = NewLines(hunk.lines) + 1 /\ NewLines(hunk.lines) \in Nat
      BY <1>2, <2>1
    <3> QED
      BY <3>1, <3>2
  <2>2. CASE line.kind \notin {" ", "+"}
    <3>1. new = NewLines(hunk.lines) + 0
      BY <1>1, <2>2
    <3> HIDE DEF new
    <3>2. NewLines(lines) = NewLines(hunk.lines) /\ NewLines(hunk.lines) \in Nat
      BY <1>2, <2>2
    <3> QED
      BY <3>1, <3>2
  <2> QED
    BY <2>1, <2>2
<1> HIDE DEF old, new
<1>6. q \in Hunks /\ q.old_seen = old /\ q.new_seen = new /\ q.lines = lines
  BY <1>1, <1>3, <1>4, <1>5 DEF Hunks
<1> HIDE DEF q
<1>7. q \in Counted
  BY <1>4, <1>5, <1>6 DEF Counted
<1> QED
  BY <1>7 DEF q, old, new, lines

\* A line of a hunk's body.
LEMMA BodyGoes ==
    ASSUME NEW p \in Parses, AllClosed(p), p.hunks # <<>>, NEW line, LineOK(line)
    PROVE  ParseGoes(HunkLine(p, line))
<1> DEFINE n == Len(p.hunks)
           sort == BodyKind(line)
           added == [kind |-> sort, content |-> line.content]
           hunk == [p.hunks[n] EXCEPT
                      !.old_seen = @ + (IF sort \in {" ", "-"} THEN 1 ELSE 0),
                      !.new_seen = @ + (IF sort \in {" ", "+"} THEN 1 ELSE 0),
                      !.lines = Append(@, added)]
           refused == \/ sort = "invalid"
                      \/ hunk.old_seen > hunk.old_count
                      \/ hunk.new_seen > hunk.new_count
           next == IF Complete(hunk) THEN "marker" ELSE "body"
           q == [p EXCEPT !.hunks = [p.hunks EXCEPT ![n] = hunk], !.state = next]
<1>1. p.hunks[n] \in Counted
  BY ParseParts
<1>2. HunkLine(p, line) = IF refused THEN Failed ELSE q
  BY DEF HunkLine
<1>3. CASE refused
  <2> HIDE DEF refused, q
  <2> QED
    BY <1>2, <1>3 DEF ParseGoes
<1>4. CASE ~refused
  <2>1. added \in HunkLines /\ added.kind = sort
    <3>1. sort # "invalid"
      BY <1>4
    <3>2. sort \in {" ", "-", "+"}
      BY <3>1 DEF BodyKind
    <3>3. line.content \in Lines
      BY DEF LineOK
    <3> HIDE DEF sort
    <3> QED
      BY <3>2, <3>3 DEF HunkLines
  <2>2. hunk \in Counted
    <3> HIDE DEF added, sort
    <3> QED
      BY <1>1, <2>1, HunkGrows
  <2>3. HunkLine(p, line) = q
    <3> HIDE DEF refused, q
    <3> QED
      BY <1>2, <1>4
  <2> HIDE DEF hunk
  <2>4. next = "body" \/ hunk \in Sealed
    BY <2>2, CompleteIsSealed
  <2>5. next \in {"between", "marker", "body"}
    OBVIOUS
  <2> HIDE DEF next
  <2>6. ParseOK(q)
    BY <2>2, <2>4, <2>5, LastHunk
  <2> QED
    BY <2>3, <2>6 DEF ParseGoes
<1> QED
  BY <1>3, <1>4

\* The header of a hunk.
LEMMA HunkOpens ==
    ASSUME NEW p \in Parses, AllClosed(p), p.state # "body",
           NEW line, LineOK(line), line.kind = "@@"
    PROVE  ParseGoes(BetweenHunks(p, line))
<1> DEFINE hunk == [old_start |-> line.old_start, old_count |-> line.old_count,
                    new_count |-> line.new_count, old_seen |-> 0, new_seen |-> 0,
                    lines |-> <<>>]
           next == IF Complete(hunk) THEN "marker" ELSE "body"
           hs == p.hunks
           more == Append(hs, hunk)
           q == [p EXCEPT !.hunks = more, !.state = next]
<1>1. BetweenHunks(p, line) = q
  BY DEF BetweenHunks
<1>2. hunk \in Counted
  <2>1. line.old_start \in Int /\ line.old_count \in Nat /\ line.new_count \in Nat
    BY DEF LineOK
  <2>2. <<>> \in Seq(HunkLines) /\ OldLines(<<>>) = 0 /\ NewLines(<<>>) = 0
    <3>1. PICK l \in HunkLines : TRUE
      BY SomeLine
    <3>2. <<>> \in Seq(HunkLines)
      OBVIOUS
    <3> QED
      BY <3>1, <3>2, CountAppend
  <2> QED
    BY <2>1, <2>2 DEF Counted, Hunks
<1>3. hs \in Seq(Counted) /\ \A i \in 1..Len(hs) : hs[i] \in Sealed
  BY ParseParts DEF AllClosed
<1> HIDE DEF hunk, hs
<1>4. next = "body" \/ hunk \in Sealed
  BY <1>2, CompleteIsSealed
<1>5. next \in ParserStates /\ next # "done"
  BY DEF ParserStates
<1>6. /\ more \in Seq(Counted) /\ Len(hs) \in Nat /\ Len(more) = Len(hs) + 1 /\ more # <<>>
      /\ more[Len(hs) + 1] = hunk /\ \A i \in 1..Len(hs) : more[i] = hs[i]
  BY <1>2, <1>3, AppendParts
<1> HIDE DEF more, next
<1>7. q \in Parses /\ q.state = next /\ q.hunks = more
  <2>1. Becomes(q, next, more)
    BY <1>5, <1>6, SetHunks
  <2> HIDE DEF q
  <2> QED
    BY <2>1 DEF Becomes
<1> HIDE DEF q
<1>8. AllClosed(q)
  <2> SUFFICES ASSUME NEW i \in 1..(Len(hs) + 1), i < Len(hs) + 1 \/ next # "body"
               PROVE  more[i] \in Sealed
    BY <1>6, <1>7 DEF AllClosed
  <2>1. CASE i = Len(hs) + 1
    BY <1>4, <1>6, <2>1
  <2>2. CASE i # Len(hs) + 1
    BY <1>3, <1>6, <2>2
  <2> QED
    BY <2>1, <2>2
<1>9. ParseOK(q)
  BY <1>5, <1>6, <1>7, <1>8 DEF ParseOK, Started, Ends
<1> QED
  BY <1>1, <1>9 DEF ParseGoes

\* Every line of a patch keeps the parse in order, or ends it.
LEMMA LineGoes ==
    ASSUME NEW p, ParseOK(p), NEW line, LineOK(line),
           p.state \in {"outside", "new_header", "between", "marker", "body"}
    PROVE  ParseGoes(ParseLine(p, line))
<1>1. p \in Parses /\ AllClosed(p)
  BY DEF ParseOK
<1>2. CASE p.state = "outside"
  <2>1. ParseLine(p, line) = Outside(p, line)
    BY <1>2 DEF ParseLine
  <2>2. CASE line.kind = "---"
    <3>1. Outside(p, line) = OldHeader(p, line)
      BY <2>2 DEF Outside
    <3>2. ParseGoes(OldHeader(p, line))
      BY <1>1, <2>2, OldHeaderGoes
    <3> QED
      BY <2>1, <3>1, <3>2
  <2>3. CASE line.kind # "---"
    BY <2>1, <2>3 DEF Outside, ParseGoes
  <2> QED
    BY <2>2, <2>3
<1>3. CASE p.state = "new_header"
  <2>1. CASE line.kind = "+++"
    <3>1. ParseLine(p, line) = parse_header_path(p, "new_path", line, "between")
      BY <1>3, <2>1 DEF ParseLine
    <3>2. ParseGoes(parse_header_path(p, "new_path", line, "between"))
      BY <1>1, <1>3, <2>1, HeaderGoes
    <3> QED
      BY <3>1, <3>2
  <2>2. CASE line.kind # "+++"
    BY <1>3, <2>2 DEF ParseLine, ParseGoes
  <2> QED
    BY <2>1, <2>2
<1>4. ASSUME p.state \in {"between", "marker"} PROVE ParseGoes(BetweenHunks(p, line))
  <2>1. p.state # "body"
    BY <1>4
  <2>2. CASE line.kind = "@@"
    BY <1>1, <2>1, <2>2, HunkOpens
  <2>3. CASE line.kind # "@@" /\ p.hunks # <<>> /\ line.kind = "---"
    <3>1. BetweenHunks(p, line) = OldHeader(WithFile(p), line)
      BY <2>3 DEF BetweenHunks
    <3>2. WithFile(p) \in Parses /\ AllClosed(WithFile(p))
      <4>1. "outside" \in ParserStates
        BY DEF ParserStates
      <4> QED
        BY <1>1, <2>1, <4>1, FileGoes
    <3>3. ParseGoes(OldHeader(WithFile(p), line))
      BY <2>3, <3>2, OldHeaderGoes
    <3> QED
      BY <3>1, <3>3
  <2>4. CASE line.kind # "@@" /\ p.hunks # <<>> /\ line.kind = "metadata"
    <3>1. BetweenHunks(p, line) = [WithFile(p) EXCEPT !.state = "outside"]
      BY <2>4 DEF BetweenHunks
    <3>2. "outside" \in ParserStates
      BY DEF ParserStates
    <3>3. ParseOK([WithFile(p) EXCEPT !.state = "outside"])
      BY <1>1, <2>1, <3>2, FileGoes
    <3> QED
      BY <3>1, <3>3 DEF ParseGoes
  <2>5. CASE ~(line.kind = "@@") /\ ~(p.hunks # <<>> /\ line.kind \in {"---", "metadata"})
    <3>1. BetweenHunks(p, line) = Failed
      BY <2>5 DEF BetweenHunks
    <3> QED
      BY <3>1 DEF ParseGoes
  <2> QED
    BY <2>2, <2>3, <2>4, <2>5
<1>5. CASE p.state = "between"
  <2>1. ParseLine(p, line) = BetweenHunks(p, line)
    BY <1>5 DEF ParseLine
  <2> QED
    BY <1>4, <1>5, <2>1
<1>6. CASE p.state \in {"marker", "body"} /\ line.kind = "no_newline"
  <2>1. p.hunks # <<>>
    BY <1>6 DEF ParseOK, Started
  <2>2. CASE p.state = "marker"
    <3>1. ParseLine(p, line) = NoNewline(p, "between")
      BY <1>6, <2>2 DEF ParseLine
    <3>2. ParseGoes(NoNewline(p, "between"))
      BY <1>1, <2>1, <2>2, MarkerGoes
    <3> QED
      BY <3>1, <3>2
  <2>3. CASE p.state = "body"
    <3>1. ParseLine(p, line) = NoNewline(p, "body")
      BY <1>6, <2>3 DEF ParseLine
    <3>2. ParseGoes(NoNewline(p, "body"))
      BY <1>1, <2>1, <2>3, MarkerGoes
    <3> QED
      BY <3>1, <3>2
  <2> QED
    BY <1>6, <2>2, <2>3
<1>7. CASE p.state = "marker" /\ line.kind # "no_newline"
  <2>1. ParseLine(p, line) = BetweenHunks(p, line)
    BY <1>7 DEF ParseLine
  <2> QED
    BY <1>4, <1>7, <2>1
<1>8. CASE p.state = "body" /\ line.kind # "no_newline"
  <2>1. ParseLine(p, line) = HunkLine(p, line)
    BY <1>8 DEF ParseLine
  <2>2. p.hunks # <<>>
    BY <1>8 DEF ParseOK, Started
  <2>3. ParseGoes(HunkLine(p, line))
    BY <1>1, <2>2, BodyGoes
  <2> QED
    BY <2>1, <2>3
<1> QED
  BY <1>2, <1>3, <1>5, <1>6, <1>7, <1>8

\* The end of the patch, too.
LEMMA EndGoes ==
    ASSUME NEW p, ParseOK(p)
    PROVE  ParseGoes(EndOfPatch(p))
<1>1. p \in Parses /\ AllClosed(p)
  BY DEF ParseOK
<1>2. "parsed" \in ParserStates
  BY DEF ParserStates
<1>3. CASE p.state = "outside" /\ p.files # <<>>
  <2> DEFINE q == [p EXCEPT !.state = "parsed"]
  <2>1. EndOfPatch(p) = q
    BY <1>3 DEF EndOfPatch
  <2>2. Becomes(q, "parsed", p.hunks)
    BY <1>1, <1>2, SetState
  <2> HIDE DEF q
  <2>3. ParseOK(q)
    BY <1>1, <1>3, <2>2 DEF ParseOK, AllClosed, Started, Ends, Becomes
  <2> QED
    BY <2>1, <2>3 DEF ParseGoes
<1>4. CASE p.state \in {"between", "marker"} /\ p.hunks # <<>>
  <2>1. EndOfPatch(p) = [WithFile(p) EXCEPT !.state = "parsed"]
    BY <1>4 DEF EndOfPatch
  <2>2. p.state # "body"
    BY <1>4
  <2>3. ParseOK([WithFile(p) EXCEPT !.state = "parsed"])
    BY <1>1, <1>2, <2>2, FileGoes
  <2> QED
    BY <2>1, <2>3 DEF ParseGoes
<1>5. CASE ~(p.state = "outside" /\ p.files # <<>>)
           /\ ~(p.state \in {"between", "marker"} /\ p.hunks # <<>>)
  <2>1. EndOfPatch(p) = Failed
    BY <1>5 DEF EndOfPatch
  <2> QED
    BY <2>1 DEF ParseGoes
<1> QED
  BY <1>3, <1>4, <1>5

------------------------------------
(* The invariant of apply_patch *)

PatchOK == patching \in {NoPatching, Failed} \/ ParseOK(patching)

\* A plan is for a call that was asked.
PlansAsked == \A plan \in plans : \E w \in DOMAIN Workloads : plan.call \in Workloads[w].calls

\* A step of the tool.
LEMMA PatchStepGoes ==
    ASSUME PatchOK, PatchStep(PatchLines)
    PROVE  PatchOK'
<1> USE DEF ParseGoes
<1>0. /\ NoPatching.state = "idle" /\ Failed.state = "failed"
  BY DEF NoPatching, Failed
<1>1. ASSUME NEW line \in PatchLines, ReadPatchLine(line) PROVE PatchOK'
  <2>1. Parsing
    BY <1>1 DEF ReadPatchLine
  <2>2. ParseOK(patching)
    BY <1>0, <2>1 DEF PatchOK, Parsing
  <2> DEFINE n == patching.lines + 1
             f == ~EndsIn(line.content, "N")
             q == [patching EXCEPT !.lines = n, !.ended = f]
  <2>3. n \in Nat /\ f \in Flags /\ patching \in Parses
    <3>1. patching \in Parses
      BY <2>2 DEF ParseOK
    <3>2. n \in Nat
      BY <3>1, ParseParts
    <3>3. f \in Flags
      BY DEF Flags
    <3> QED
      BY <3>1, <3>2, <3>3
  <2>4. patching' = Failed \/ patching' = ParseLine(q, line)
    BY <1>1 DEF ReadPatchLine
  <2> HIDE DEF n, f
  <2>5. /\ q \in Parses /\ q.state = patching.state /\ q.hunks = patching.hunks
        /\ q.files = patching.files /\ q.original = patching.original
        /\ q.result = patching.result
    BY <2>3, SetLine
  <2> HIDE DEF q
  <2>6. ParseOK(q)
    BY <2>2, <2>5 DEF ParseOK, AllClosed, Started, Ends
  <2>7. q.state \in {"outside", "new_header", "between", "marker", "body"}
    BY <2>1, <2>5 DEF Parsing
  <2>8. LineOK(line)
    BY PatchLinesOK
  <2>9. ParseGoes(ParseLine(q, line))
    BY <2>6, <2>7, <2>8, LineGoes
  <2> QED
    BY <2>4, <2>9 DEF PatchOK
<1>2. ASSUME FinishPatch PROVE PatchOK'
  <2>1. ParseOK(patching)
    BY <1>0, <1>2 DEF PatchOK, FinishPatch, Parsing
  <2>2. ParseGoes(EndOfPatch(patching))
    BY <2>1, EndGoes
  <2> QED
    BY <1>2, <2>2 DEF FinishPatch, PatchOK
<1>3. ASSUME ApplyPatch PROVE PatchOK'
  <2> DEFINE p == patching
             file == p.files[1]
             applied == apply_hunks(p.original, file.hunks)
             q == [p EXCEPT !.state = "done", !.result = applied.output]
  <2>1. p.state = "parsed"
    BY <1>3 DEF ApplyPatch
  <2>2. ParseOK(p) /\ p \in Parses
    BY <1>0, <2>1 DEF PatchOK, ParseOK
  <2>3. CASE patching' = Failed
    BY <2>3 DEF PatchOK
  <2>4. CASE Len(p.files) = 1 /\ applied.ok /\ patching' = q
    <3>1. file \in FilePatches
      <4>1. p.files \in Seq(FilePatches)
        BY <2>2, ParseParts
      <4> QED
        BY <2>4, <4>1
    <3>2. file.hunks \in Seq(Sealed) /\ p.original \in Texts
      BY <2>2, <3>1, ParseParts DEF FilePatches
    <3>3. applied.output \in Seq(Lines)
      BY <3>2, AppliedIsLines
    <3>4. "done" \in ParserStates
      BY DEF ParserStates
    <3> DEFINE result == applied.output
    <3>5. AppliedIs(p.original, p.files, result)
      BY <2>4 DEF AppliedIs
    <3> HIDE DEF result
    <3>6. q = [p EXCEPT !.state = "done", !.result = result]
      BY DEF result
    <3>7. /\ q \in Parses /\ q.state = "done" /\ q.hunks = p.hunks /\ q.files = p.files
          /\ q.original = p.original /\ q.result = result
      <4>1. result \in Seq(Lines)
        BY <3>3 DEF result
      <4>2. Returns([p EXCEPT !.state = "done", !.result = result], p, "done", result)
        BY <2>2, <3>4, <4>1, SetResult
      <4> HIDE DEF q
      <4>3. Returns(q, p, "done", result)
        BY <3>6, <4>2
      <4> QED
        BY <4>3 DEF Returns
    <3> HIDE DEF q
    <3>8. ParseOK(q)
      <4>1. AllClosed(q)
        BY <2>1, <2>2, <3>7 DEF ParseOK, AllClosed
      <4> QED
        BY <3>5, <3>7, <4>1 DEF ParseOK, Started, Ends
    <3> QED
      BY <2>4, <3>8 DEF PatchOK
  <2> QED
    BY <1>3, <2>3, <2>4 DEF ApplyPatch
<1> QED
  BY <1>1, <1>2, <1>3 DEF PatchStep

\* A call starts with a file and its text.
LEMMA StartGoes ==
    ASSUME NEW exists \in BOOLEAN, NEW original \in Texts
    PROVE  ParseOK(StartPatching(exists, original))
<1> DEFINE p == StartPatching(exists, original)
<1>1. p \in Parses
  <2>1. "outside" \in ParserStates /\ DevNull \in Paths
    BY DEF ParserStates, Paths
  <2>2. exists \in Flags /\ FALSE \in Flags
    BY DEF Flags
  <2>3. <<>> \in Seq(Counted) /\ <<>> \in Seq(FilePatches) /\ <<>> \in Seq(Lines)
    OBVIOUS
  <2> QED
    BY <2>1, <2>2, <2>3 DEF StartPatching, Parses
<1>2. p.state = "outside" /\ p.hunks = <<>>
  BY DEF StartPatching
<1> HIDE DEF p
<1>3. ParseOK(p)
  BY <1>1, <1>2 DEF ParseOK, AllClosed, Started, Ends
<1> QED
  BY <1>3 DEF p

------------------------------------
(* The steps, as apply_patch sees them *)

\* What apply_patch relies on besides its own state: the calls.
PatchInv == IInv /\ PlansAsked /\ PatchOK

\* The arguments of a call of apply_patch.
LEMMA AskedArguments ==
    ASSUME PlansAsked, NEW plan \in plans, plan.call.tool_name = "apply_patch"
    PROVE  plan.call.arguments.exists \in BOOLEAN /\ plan.call.arguments.original \in Texts
<1>1. PICK w \in DOMAIN Workloads : plan.call \in Workloads[w].calls
  BY DEF PlansAsked
<1> QED
  BY <1>1, PatchesAssumption DEF Texts, CharSet

\* The call of a plan is the one it was prepared for.
LEMMA PlanIsForCall ==
    ASSUME IInv, NEW r \in 1..Len(runtimes), Prepare(r), PlansAsked
    PROVE  PlansAsked'
<1>1. PICK call \in Asked.calls : \E answer \in ClassifyAnswers(call) : prepare(r, call, answer)
  BY DEF Prepare
<1>2. PICK answer \in ClassifyAnswers(call) : prepare(r, call, answer)
  BY <1>1
<1> DEFINE plan == [PlanFor(r, call, answer) EXCEPT !.answer = answer.kind]
<1>3. plans' = plans \cup {plan}
  BY <1>2 DEF prepare
<1>4. workload \in DOMAIN Workloads /\ call \in Workloads[workload].calls
  BY DEF Asked, IInv, RegistryOK
<1>5. plan.call = call
  <2>1. call.tool_name \in ToolNames /\ RegistryOK
    BY <1>4, WorkloadsAssumption DEF IInv
  <2>2. answer.reason \in Seq(Characters)
    BY AnswerFacts
  <2>3. /\ plan.owner = r /\ plan.call = call
        /\ plan.identity = runtimes[r].identity
        /\ plan.serial = prepared + 1
        /\ plan.disposition = "ready" => NeedsNoApproval(plan)
        /\ plan.disposition = "requires_approval" => NeedsApproval(plan)
        /\ ReasonOK(plan)
    BY <2>1, <2>2, PlanFacts
  <2> QED
    BY <2>3
<1> HIDE DEF plan
<1> QED
  BY <1>3, <1>4, <1>5 DEF PlansAsked

\* Executing a plan may start apply_patch, with the arguments of the call.
LEMMA ExecuteStarts ==
    ASSUME PlansAsked, PatchOK, NEW r, NEW plan \in plans, NEW authorization,
           Execute(r, plan, authorization)
    PROVE  PlansAsked' /\ PatchOK'
<1>1. plans' \subseteq plans
  BY DEF Execute, execute_prepared
<1>2. PlansAsked'
  BY <1>1 DEF PlansAsked
<1>3. \/ patching' = patching
      \/ /\ plan.call.tool_name = "apply_patch"
         /\ patching' = StartPatching(plan.call.arguments.exists, plan.call.arguments.original)
  BY DEF Execute
<1>4. CASE patching' = patching
  BY <1>2, <1>4 DEF PatchOK, ParseOK, AllClosed, Started, Ends
<1>5. CASE /\ plan.call.tool_name = "apply_patch"
           /\ patching' = StartPatching(plan.call.arguments.exists, plan.call.arguments.original)
  <2>1. ParseOK(patching')
    BY <1>5, AskedArguments, StartGoes
  <2> QED
    BY <1>2, <2>1 DEF PatchOK
<1> QED
  BY <1>2, <1>3, <1>4, <1>5

\* Every step keeps what apply_patch relies on.
LEMMA StepPatchInv == PatchInv /\ [Next]_vars => PatchInv'
<1> SUFFICES ASSUME PatchInv, [Next]_vars PROVE PatchInv'
  OBVIOUS
<1>1. IInv /\ IInv' /\ PlansAsked /\ PatchOK
  BY StepIInv DEF PatchInv
<1>2. ASSUME UNCHANGED patching PROVE PatchOK'
  BY <1>1, <1>2 DEF PatchOK, ParseOK, AllClosed, Started, Ends
<1>3. ASSUME UNCHANGED plans PROVE PlansAsked'
  BY <1>1, <1>3 DEF PlansAsked
<1>4. CASE UNCHANGED vars
  BY <1>1, <1>2, <1>3, <1>4 DEF vars, calls, PatchInv
<1>5. CASE NewRuntime /\ UNCHANGED tools
  BY <1>1, <1>2, <1>3, <1>5 DEF NewRuntime, tools, calls, PatchInv
<1>6. ASSUME NEW r \in DOMAIN runtimes, Register(r) PROVE PatchInv'
  <2>1. UNCHANGED tools /\ UNCHANGED calls
    BY <1>6 DEF Register, register, RegisterPack
  <2> QED
    BY <1>1, <1>2, <1>3, <2>1 DEF tools, calls, PatchInv
<1>7. ASSUME NEW r \in DOMAIN runtimes, Prepare(r) PROVE PatchInv'
  <2>1. r \in 1..Len(runtimes)
    BY <1>1 DEF IInv, RegistryOK
  <2>2. PlansAsked'
    BY <1>1, <1>7, <2>1, PlanIsForCall
  <2>3. PatchOK'
    BY <1>2, <1>7 DEF Prepare, tools
  <2> QED
    BY <1>1, <2>2, <2>3 DEF PatchInv
<1>8. ASSUME NEW r \in DOMAIN runtimes, NEW plan \in plans, NEW authorization \in Authorizations,
             Execute(r, plan, authorization)
      PROVE  PatchInv'
  BY <1>1, <1>8, ExecuteStarts DEF PatchInv
<1>9. CASE RunSearch
  BY <1>1, <1>2, <1>3, <1>9 DEF RunSearch, calls, PatchInv
<1>10. CASE RunPatch
  <2>1. PatchOK'
    BY <1>1, <1>10, PatchStepGoes DEF RunPatch
  <2>2. PlansAsked'
    BY <1>3, <1>10 DEF RunPatch, calls
  <2> QED
    BY <1>1, <2>1, <2>2 DEF PatchInv
<1>11. CASE Return
  <2>1. UNCHANGED plans /\ UNCHANGED patching
    BY <1>11 DEF Return, HandlerReturns, tools
  <2> QED
    BY <1>1, <1>2, <1>3, <2>1 DEF PatchInv
<1> QED
  BY <1>4, <1>5, <1>6, <1>7, <1>8, <1>9, <1>10, <1>11 DEF Next

\* At first no patch is applied and no call is prepared.
LEMMA InitPatchInv == Init => PatchInv
BY InitIInv DEF Init, InitRuntime, PatchInv, PlansAsked, PatchOK

\* What was applied can be taken back.
LEMMA DoneIsReversible == PatchInv => PatchIsReversible
<1> SUFFICES ASSUME PatchInv, patching.state = "done", Whole(patching.result)
             PROVE  LET back == apply_hunks(FlattenSeq(patching.result),
                                            ReverseHunks(patching.files[1].hunks))
                    IN  back.ok /\ FlattenSeq(back.output) = patching.original
  BY DEF PatchIsReversible
<1> DEFINE text == patching.original
           hunks == patching.files[1].hunks
           result == patching.result
<1>1. ParseOK(patching)
  <2>1. NoPatching.state = "idle" /\ Failed.state = "failed"
    BY DEF NoPatching, Failed
  <2> QED
    BY <2>1 DEF PatchInv, PatchOK
<1>2. /\ patching.files \in Seq(FilePatches) /\ text \in Texts
      /\ AppliedIs(text, patching.files, result)
  BY <1>1, ParseParts DEF ParseOK, Ends
<1>3. hunks \in Seq(Sealed)
  <2>1. patching.files[1] \in FilePatches
    BY <1>2 DEF AppliedIs
  <2> QED
    BY <2>1 DEF FilePatches
<1>4. apply_hunks(text, hunks).ok /\ result = apply_hunks(text, hunks).output
  BY <1>2 DEF AppliedIs
<1>5. Whole(result)
  OBVIOUS
<1> HIDE DEF text, hunks, result
<1>6. LET back == apply_hunks(FlattenSeq(apply_hunks(text, hunks).output), ReverseHunks(hunks))
      IN  back.ok /\ FlattenSeq(back.output) = text
  <2>1. Whole(apply_hunks(text, hunks).output)
    BY <1>4, <1>5
  <2> QED
    BY <1>2, <1>3, <1>4, <2>1, PatchReverses
<1> QED
  BY <1>4, <1>6 DEF text, hunks, result

------------------------------------

\* apply_patch changes what the patch says and nothing else: the reverse of an applied
\* patch is accepted and gives the original file back, byte for byte.  For every text,
\* every patch that parse_patch accepts, of any length, with any number of hunks and
\* of lines in them.
THEOREM ReversibleTheorem == Spec => []PatchIsReversible
BY InitPatchInv, StepPatchInv, DoneIsReversible, PTL DEF Spec

------------------------------------
(* Folds, step by step *)

\* The fold as a run of its steps.
LEMMA FoldRuns ==
    ASSUME NEW E, NEW A, NEW base, NEW f, Folding(E, A, base, f), NEW t \in Seq(E),
           NEW x, IsFoldOf(x, t, A, base, f)
    PROVE  \E a \in [0..Len(t) -> A] :
              /\ a[0] = base /\ a[Len(t)] = x
              /\ \A k \in 0..(Len(t) - 1) : t[k + 1] \in E /\ a[k + 1] = f[<<a[k], t[k + 1]>>]
<1> DEFINE n == Len(t)
<1>0. n \in Nat /\ (\A i \in 1..n : t[i] \in E) /\ base \in A /\ f \in [A \X E -> A]
  BY DEF Folding
<1>1. PICK iter : x = iter[1..n] /\ FoldsTo(iter, t, A, base, f)
  BY DEF IsFoldOf
<1>2. /\ iter[1..0] = base
      /\ \A k \in 0..(n - 1) : iter[1..(k + 1)] = f[<<iter[1..k], t[k + 1]>>]
  BY <1>1, FoldSteps
<1> HIDE DEF n
<1> DEFINE P == {k \in Nat : k <= n => iter[1..k] \in A}
<1>3. 0 \in P
  BY <1>0, <1>2
<1>4. ASSUME NEW k \in P PROVE k + 1 \in P
  <2> SUFFICES ASSUME k + 1 <= n PROVE iter[1..(k + 1)] \in A
    OBVIOUS
  <2>1. k \in 0..(n - 1) /\ k + 1 \in 1..n /\ iter[1..k] \in A
    BY <1>0
  <2> QED
    BY <1>0, <1>2, <2>1
<1> HIDE DEF P
<1>5. P = Nat
  <2>1. P \in SUBSET Nat
    BY DEF P
  <2> QED
    BY <1>3, <1>4, <2>1, Induction
<1> DEFINE a == [k \in 0..n |-> iter[1..k]]
<1>6. a \in [0..n -> A]
  <2>1. \A k \in 0..n : iter[1..k] \in A
    BY <1>0, <1>5 DEF P
  <2> QED
    BY <2>1
<1>7. a[0] = base /\ a[n] = x
  BY <1>0, <1>1, <1>2
<1>8. \A k \in 0..(n - 1) : t[k + 1] \in E /\ a[k + 1] = f[<<a[k], t[k + 1]>>]
  BY <1>0, <1>2
<1> HIDE DEF a
<1> QED
  BY <1>6, <1>7, <1>8 DEF n

\* What holds of the base and is kept by each step holds of the fold.
LEMMA FoldKeeps ==
    ASSUME NEW E, NEW A, NEW base, NEW f, Folding(E, A, base, f), NEW t \in Seq(E),
           NEW x, IsFoldOf(x, t, A, base, f),
           NEW P, base \in P,
           \A y \in A, k \in 1..Len(t) : y \in P => f[<<y, t[k]>>] \in P
    PROVE  x \in P /\ x \in A
<1> DEFINE n == Len(t)
<1>1. n \in Nat
  OBVIOUS
<1>2. PICK a \in [0..n -> A] :
         /\ a[0] = base /\ a[n] = x
         /\ \A k \in 0..(n - 1) : a[k + 1] = f[<<a[k], t[k + 1]>>]
  BY FoldRuns
<1>h. \A y \in A, k \in 1..n : y \in P => f[<<y, t[k]>>] \in P
  OBVIOUS
<1> HIDE DEF n
<1> DEFINE Q == {k \in Nat : k <= n => a[k] \in P}
<1>3. 0 \in Q
  BY <1>2
<1>4. ASSUME NEW k \in Q PROVE k + 1 \in Q
  <2> SUFFICES ASSUME k + 1 <= n PROVE a[k + 1] \in P
    OBVIOUS
  <2>1. k \in 0..(n - 1) /\ k + 1 \in 1..n /\ a[k] \in P /\ a[k] \in A
    BY <1>1, <1>2
  <2> QED
    BY <1>h, <1>2, <2>1
<1> HIDE DEF Q
<1>5. Q = Nat
  <2>1. Q \in SUBSET Nat
    BY DEF Q
  <2> QED
    BY <1>3, <1>4, <2>1, Induction
<1> QED
  BY <1>1, <1>2, <1>5 DEF Q

\* Two folds of the same length, in step: what relates the bases and is kept by each
\* pair of steps relates the folds.
LEMMA FoldsRelate ==
    ASSUME NEW E, NEW A, NEW base, NEW f, Folding(E, A, base, f), NEW t \in Seq(E),
           NEW x, IsFoldOf(x, t, A, base, f),
           NEW F, NEW B, NEW start, NEW g, Folding(F, B, start, g), NEW u \in Seq(F),
           NEW y, IsFoldOf(y, u, B, start, g),
           Len(t) = Len(u),
           NEW R, <<base, start>> \in R,
           \A k \in 1..Len(t) : \A a \in A, b \in B :
              <<a, b>> \in R => <<f[<<a, t[k]>>], g[<<b, u[k]>>]>> \in R
    PROVE  <<x, y>> \in R /\ x \in A /\ y \in B
<1> DEFINE n == Len(t)
<1>1. n \in Nat /\ n = Len(u)
  OBVIOUS
<1>2. PICK a \in [0..n -> A] :
         /\ a[0] = base /\ a[n] = x
         /\ \A k \in 0..(n - 1) : a[k + 1] = f[<<a[k], t[k + 1]>>]
  BY FoldRuns
<1>3. PICK b \in [0..n -> B] :
         /\ b[0] = start /\ b[n] = y
         /\ \A k \in 0..(n - 1) : b[k + 1] = g[<<b[k], u[k + 1]>>]
  BY <1>1, FoldRuns
<1>h. \A k \in 1..n : \A c \in A, d \in B :
         <<c, d>> \in R => <<f[<<c, t[k]>>], g[<<d, u[k]>>]>> \in R
  OBVIOUS
<1> HIDE DEF n
<1> DEFINE Q == {k \in Nat : k <= n => <<a[k], b[k]>> \in R}
<1>4. 0 \in Q
  BY <1>2, <1>3
<1>5. ASSUME NEW k \in Q PROVE k + 1 \in Q
  <2> SUFFICES ASSUME k + 1 <= n PROVE <<a[k + 1], b[k + 1]>> \in R
    OBVIOUS
  <2>0. k \in Nat /\ k \in 0..(n - 1) /\ k + 1 \in 1..n /\ k \in 0..n /\ <<a[k], b[k]>> \in R
    BY <1>1
  <2> HIDE DEF Q
  <2>1. k \in 0..(n - 1) /\ k + 1 \in 1..n /\ <<a[k], b[k]>> \in R /\ a[k] \in A /\ b[k] \in B
    BY <2>0
  <2>2. <<f[<<a[k], t[k + 1]>>], g[<<b[k], u[k + 1]>>]>> \in R
    BY <1>h, <2>1
  <2> QED
    BY <1>2, <1>3, <2>1, <2>2
<1> HIDE DEF Q
<1>6. Q = Nat
  <2>1. Q \in SUBSET Nat
    BY DEF Q
  <2> QED
    BY <1>4, <1>5, <2>1, Induction
<1>7. <<a[n], b[n]>> \in R
  BY <1>1, <1>6 DEF Q
<1>8. a[n] \in A /\ b[n] \in B
  BY ONLY <1>1, <1>2, <1>3
<1> QED
  BY <1>2, <1>3, <1>7, <1>8

\* a is such a run.
RunOf(a, t, A, base, f, x) ==
    /\ a \in [0..Len(t) -> A] /\ a[0] = base /\ a[Len(t)] = x
    /\ \A k \in 0..(Len(t) - 1) : a[k + 1] = f[<<a[k], t[k + 1]>>]

\* A fold has a run.
LEMMA RunExists ==
    ASSUME NEW E, NEW A, NEW base, NEW f, Folding(E, A, base, f), NEW t \in Seq(E),
           NEW x, IsFoldOf(x, t, A, base, f)
    PROVE  \E a : RunOf(a, t, A, base, f, x)
<1>1. PICK a \in [0..Len(t) -> A] :
         /\ a[0] = base /\ a[Len(t)] = x
         /\ \A k \in 0..(Len(t) - 1) : t[k + 1] \in E /\ a[k + 1] = f[<<a[k], t[k + 1]>>]
  BY FoldRuns
<1>2. RunOf(a, t, A, base, f, x)
  BY <1>1 DEF RunOf
<1> QED
  BY <1>2

\* The fold of one sequence after another goes on where the first one ends.
LEMMA FoldConcat ==
    ASSUME NEW E, NEW A, NEW base, NEW f, Folding(E, A, base, f),
           NEW s \in Seq(E), NEW t \in Seq(E),
           NEW x, IsFoldOf(x, s, A, base, f),
           NEW y, IsFoldOf(y, t, A, x, f),
           NEW z, IsFoldOf(z, s \o t, A, base, f)
    PROVE  z = y
<1> DEFINE m == Len(s)
           n == Len(t)
<1>b. /\ m \in Nat /\ n \in Nat /\ s \o t \in Seq(E) /\ Len(s \o t) = m + n
      /\ \A i \in 1..m : (s \o t)[i] = s[i]
      /\ \A i \in 1..n : (s \o t)[m + i] = t[i]
  OBVIOUS
<1>0. PICK r \in Seq(E) : r = s \o t
  BY <1>b
<1>1. /\ m \in Nat /\ n \in Nat /\ r \in Seq(E) /\ Len(r) = m + n
      /\ \A i \in 1..m : r[i] = s[i]
      /\ \A i \in 1..n : r[m + i] = t[i]
  BY <1>0, <1>b
<1>2. PICK a \in [0..m -> A] :
         /\ a[0] = base /\ a[m] = x
         /\ \A k \in 0..(m - 1) : a[k + 1] = f[<<a[k], s[k + 1]>>]
  <2>1. Folding(E, A, base, f) /\ s \in Seq(E) /\ IsFoldOf(x, s, A, base, f)
    OBVIOUS
  <2>2. \E a : RunOf(a, s, A, base, f, x)
    BY ONLY <2>1, RunExists
  <2> QED
    BY <2>2 DEF RunOf
<1>3. Folding(E, A, x, f)
  <2>1. x \in A
    BY <1>1, <1>2
  <2> QED
    BY <2>1 DEF Folding
<1>4. PICK b \in [0..n -> A] :
         /\ b[0] = x /\ b[n] = y
         /\ \A k \in 0..(n - 1) : b[k + 1] = f[<<b[k], t[k + 1]>>]
  <2>1. Folding(E, A, x, f) /\ t \in Seq(E) /\ IsFoldOf(y, t, A, x, f)
    BY <1>3
  <2>2. \E b : RunOf(b, t, A, x, f, y)
    BY ONLY <2>1, RunExists
  <2> QED
    BY <2>2 DEF RunOf
<1>r. IsFoldOf(z, r, A, base, f)
  BY <1>0
<1>5. PICK c \in [0..Len(r) -> A] :
         /\ c[0] = base /\ c[Len(r)] = z
         /\ \A k \in 0..(Len(r) - 1) : c[k + 1] = f[<<c[k], r[k + 1]>>]
  <2>1. Folding(E, A, base, f) /\ r \in Seq(E) /\ IsFoldOf(z, r, A, base, f)
    BY <1>r
  <2>2. \E c : RunOf(c, r, A, base, f, z)
    BY ONLY <2>1, RunExists
  <2> QED
    BY <2>2 DEF RunOf
<1> HIDE DEF m, n
<1> DEFINE Q == {k \in Nat : k <= m => c[k] = a[k]}
<1>6. Q = Nat
  <2>1. 0 \in Q
    BY <1>2, <1>5
  <2>2. ASSUME NEW k \in Q PROVE k + 1 \in Q
    <3> SUFFICES ASSUME k + 1 <= m PROVE c[k + 1] = a[k + 1]
      OBVIOUS
    <3>1. k \in 0..(m - 1) /\ k + 1 \in 1..m /\ c[k] = a[k] /\ k \in 0..(Len(r) - 1)
      BY <1>1
    <3> QED
      BY <1>1, <1>2, <1>5, <3>1
  <2> HIDE DEF Q
  <2>3. Q \in SUBSET Nat
    BY DEF Q
  <2> QED
    BY <2>1, <2>2, <2>3, Induction
<1> HIDE DEF Q
<1>7. c[m] = x
  <2>1. m \in Q /\ m <= m
    BY <1>1, <1>6
  <2> QED
    BY <1>2, <2>1 DEF Q
<1> DEFINE P == {k \in Nat : k <= n => c[m + k] = b[k]}
<1>8. P = Nat
  <2>1. 0 \in P
    BY <1>1, <1>4, <1>7
  <2>2. ASSUME NEW k \in P PROVE k + 1 \in P
    <3> SUFFICES ASSUME k + 1 <= n PROVE c[m + (k + 1)] = b[k + 1]
      OBVIOUS
    <3>1. /\ k \in 0..(n - 1) /\ k + 1 \in 1..n /\ c[m + k] = b[k]
          /\ m + k \in 0..(Len(r) - 1) /\ m + (k + 1) = (m + k) + 1
      BY <1>1
    <3>2. c[(m + k) + 1] = f[<<c[m + k], r[(m + k) + 1]>>]
      BY <1>5, <3>1
    <3>3. r[m + (k + 1)] = t[k + 1]
      BY <1>1, <3>1
    <3> QED
      BY <1>4, <3>1, <3>2, <3>3
  <2> HIDE DEF P
  <2>3. P \in SUBSET Nat
    BY DEF P
  <2> QED
    BY <2>1, <2>2, <2>3, Induction
<1> HIDE DEF P
<1>9. c[m + n] = b[n]
  <2>1. n \in P /\ n <= n
    BY <1>1, <1>8
  <2> QED
    BY <2>1 DEF P
<1> QED
  BY <1>1, <1>4, <1>5, <1>9

------------------------------------
(* Command policy: paths *)

Words == DOMAIN lexicon

\* The state of a walk along the components of a path.
Walks == [current : Texts, inspections : Nat,
          found : {"walking", "within", "escapes", "budget"}]

\* What a link leads to.
LEMMA LinksAreTexts == \A at : IsLink(at) => entry[at].link \in Texts
BY RootAssumption DEF IsLink, EntryAt, Texts, CharSet

\* The parts of a walk.
LEMMA WalkParts ==
    ASSUME NEW w \in Walks
    PROVE  /\ w.current \in Texts /\ w.inspections \in Nat
           /\ w.found \in {"walking", "within", "escapes", "budget"}
BY DEF Walks

\* What an inspection costs.
CostAt(at) == IF IsLink(at) THEN 2 ELSE 1

\* One component, by the fields.
LEMMA WalkStep ==
    ASSUME NEW w \in Walks, NEW c \in CharSet
    PROVE  LET at == Append(w.current, c)
               next == Walk(w, c)
           IN  /\ next \in Walks
               /\ w.found # "walking" => next = w
               /\ w.found = "walking" /\ w.inspections < CostAt(at) =>
                     next.found = "budget" /\ next.current = w.current /\ next.inspections = 0
               /\ w.found = "walking" /\ ~(w.inspections < CostAt(at)) =>
                     /\ next.inspections = w.inspections - CostAt(at)
                     /\ next.found = IF EntryAt(at) = "missing" THEN "within"
                                     ELSE IF EntryAt(at) = "denied" THEN "escapes"
                                     ELSE IF IsLink(at) /\ ~UnderRoot(entry[at].link) THEN "escapes"
                                     ELSE "walking"
                     /\ next.current = IF next.found # "walking" THEN w.current
                                       ELSE IF IsLink(at) THEN entry[at].link ELSE at
<1> DEFINE at == Append(w.current, c)
           next == Walk(w, c)
           paid == [w EXCEPT !.inspections = IF @ < CostAt(at) THEN 0 ELSE @ - CostAt(at)]
<1>1. /\ w.current \in Texts /\ w.inspections \in Nat
      /\ w.found \in {"walking", "within", "escapes", "budget"}
  BY WalkParts
<1>2. at \in Texts /\ CostAt(at) \in 1..2
  BY <1>1 DEF Texts, CostAt
<1>3. paid \in Walks /\ paid.current = w.current /\ paid.found = w.found
      /\ paid.inspections = IF w.inspections < CostAt(at) THEN 0 ELSE w.inspections - CostAt(at)
  BY <1>1, <1>2 DEF Walks
<1>4. next = IF w.found # "walking" THEN w
             ELSE IF w.inspections < CostAt(at) THEN [paid EXCEPT !.found = "budget"]
             ELSE IF EntryAt(at) = "missing" THEN [paid EXCEPT !.found = "within"]
             ELSE IF EntryAt(at) = "denied" THEN [paid EXCEPT !.found = "escapes"]
             ELSE IF ~IsLink(at) THEN [paid EXCEPT !.current = at]
             ELSE IF ~UnderRoot(entry[at].link) THEN [paid EXCEPT !.found = "escapes"]
             ELSE [paid EXCEPT !.current = entry[at].link]
  BY DEF Walk, CostAt
<1> HIDE DEF paid, next, at
<1>5. \A f \in {"within", "escapes", "budget"} :
         /\ [paid EXCEPT !.found = f] \in Walks
         /\ [paid EXCEPT !.found = f].found = f
         /\ [paid EXCEPT !.found = f].current = paid.current
         /\ [paid EXCEPT !.found = f].inspections = paid.inspections
  BY <1>3 DEF Walks
<1>6. \A x \in Texts :
         /\ [paid EXCEPT !.current = x] \in Walks
         /\ [paid EXCEPT !.current = x].found = paid.found
         /\ [paid EXCEPT !.current = x].current = x
         /\ [paid EXCEPT !.current = x].inspections = paid.inspections
  BY <1>3 DEF Walks
<1>7. CASE w.found # "walking"
  BY <1>4, <1>7 DEF next, at
<1>8. CASE w.found = "walking" /\ w.inspections < CostAt(at)
  BY <1>3, <1>4, <1>5, <1>8 DEF next, at
<1>9. CASE w.found = "walking" /\ ~(w.inspections < CostAt(at))
  <2>1. CASE EntryAt(at) = "missing"
    BY <1>3, <1>4, <1>5, <1>9, <2>1 DEF next, at
  <2>2. CASE EntryAt(at) = "denied"
    BY <1>3, <1>4, <1>5, <1>9, <2>2 DEF next, at
  <2>3. CASE EntryAt(at) \notin {"missing", "denied"} /\ IsLink(at) /\ ~UnderRoot(entry[at].link)
    BY <1>3, <1>4, <1>5, <1>9, <2>3 DEF next, at
  <2>4. CASE EntryAt(at) \notin {"missing", "denied"} /\ IsLink(at) /\ UnderRoot(entry[at].link)
    <3>1. entry[at].link \in Texts
      BY <2>4, LinksAreTexts
    <3> QED
      BY <1>3, <1>4, <1>6, <1>9, <2>4, <3>1 DEF next, at
  <2>5. CASE EntryAt(at) \notin {"missing", "denied"} /\ ~IsLink(at)
    BY <1>2, <1>3, <1>4, <1>6, <1>9, <2>5 DEF next, at
  <2> QED
    BY <2>1, <2>2, <2>3, <2>4, <2>5
<1> QED
  BY <1>7, <1>8, <1>9

WalkSteps == [x \in Walks \X CharSet |-> Walk(x[1], x[2])]
WalkTyped == \A w \in Walks, c \in CharSet : Walk(w, c) \in Walks

\* ... in a set.
LEMMA WalksAreTyped == WalkTyped
BY WalkStep DEF WalkTyped

\* The walk along a path.
Along(w, comps) == FoldLeft(Walk, w, comps)

\* The walk, component by component.
LEMMA WalkFold ==
    ASSUME NEW comps \in Seq(CharSet), NEW w \in Walks
    PROVE  /\ Folding(CharSet, Walks, w, WalkSteps)
           /\ IsFoldOf(Along(w, comps), comps, Walks, w, WalkSteps)
<1> DEFINE n == Len(comps)
           Folds(g) == g = [s \in SUBSET (1..n) |->
                               IF s = {} THEN w
                               ELSE Walk(g[s \ {Max(s)}], comps[Max(s)])]
           iter == CHOOSE g : Folds(g)
<1>1. n \in Nat /\ DOMAIN comps = 1..n
  OBVIOUS
<1>2. Along(w, comps) = iter[1..n]
  BY <1>1 DEF Along, FoldLeft, MapThenFoldSet
<1>3. /\ Folding(CharSet, Walks, w, WalkSteps)
      /\ \A x \in Walks, e \in CharSet : WalkSteps[<<x, e>>] = Walk(x, e)
  BY WalksAreTyped DEF Folding, WalkSteps, WalkTyped
<1>4. Folds(iter)
  <2>1. PICK g : Defines(g, comps, CharSet, Walks, w, WalkSteps)
    BY <1>3, FoldIsDefined
  <2>2. \A s \in SUBSET (1..n) : s # {} => g[s] = Walk(g[s \ {Max(s)}], comps[Max(s)])
    BY <1>3, <2>1 DEF Defines
  <2>3. Folds(g)
    <3>1. g \in [SUBSET (1..n) -> Walks] /\ g[{}] = w
      BY <2>1 DEF Defines
    <3> HIDE DEF n
    <3> QED
      BY <2>2, <3>1
  <2> HIDE DEF Folds
  <2> QED
    BY <2>3
<1> HIDE DEF iter
<1>5. FoldsTo(iter, comps, Walks, w, WalkSteps)
  <2>1. iter[{}] = w
    BY <1>4
  <2>2. ASSUME NEW s \in SUBSET (1..n), s # {}, iter[s \ {Max(s)}] \in Walks
        PROVE  iter[s] = WalkSteps[<<iter[s \ {Max(s)}], comps[Max(s)]>>]
    <3>1. Max(s) \in 1..n
      <4>1. s \in SUBSET (1..(n + 1))
        BY <1>1
      <4> QED
        BY <1>1, <2>2, <4>1, MaxOfPositions
    <3>2. comps[Max(s)] \in CharSet
      BY <3>1
    <3>3. iter[s] = Walk(iter[s \ {Max(s)}], comps[Max(s)])
      <4> HIDE DEF n
      <4> QED
        BY <1>4, <2>2
    <3> QED
      BY <1>3, <2>2, <3>2, <3>3
  <2> QED
    BY <2>1, <2>2 DEF FoldsTo
<1> HIDE DEF n
<1>6. IsFoldOf(Along(w, comps), comps, Walks, w, WalkSteps)
  BY <1>2, <1>5 DEF n, IsFoldOf
<1> QED
  BY <1>3, <1>6

\* One step of the kernel's walk.
Move(at, c) ==
    LET next == Append(at, c) IN
    IF at = <<>> THEN <<>>
    ELSE IF c = ".." THEN IF Len(at) = 1 THEN at ELSE Front(at)
    ELSE IF EntryAt(next) \in {"missing", "denied"} THEN <<>>
    ELSE IF IsLink(next) THEN entry[next].link ELSE next

\* A component of a path, as the kernel follows it.
LEMMA MoveTyped == \A at \in Texts, c \in CharSet : Move(at, c) \in Texts
<1> SUFFICES ASSUME NEW at \in Texts, NEW c \in CharSet PROVE Move(at, c) \in Texts
  OBVIOUS
<1>1. Append(at, c) \in Texts /\ <<>> \in Texts
  BY DEF Texts
<1>2. IsLink(Append(at, c)) => entry[Append(at, c)].link \in Texts
  BY LinksAreTexts
<1>3. at # <<>> => Front(at) \in Texts
  BY FrontAndLast DEF Texts
<1> QED
  BY <1>1, <1>2, <1>3 DEF Move

MoveSteps == [x \in Texts \X CharSet |-> Move(x[1], x[2])]
Leads(at, comps) == FoldLeft(Move, at, comps)

\* The walk of the kernel, component by component.
LEMMA MoveFold ==
    ASSUME NEW comps \in Seq(CharSet), NEW at \in Texts
    PROVE  /\ Folding(CharSet, Texts, at, MoveSteps)
           /\ IsFoldOf(Leads(at, comps), comps, Texts, at, MoveSteps)
<1> DEFINE n == Len(comps)
           Folds(g) == g = [s \in SUBSET (1..n) |->
                               IF s = {} THEN at
                               ELSE Move(g[s \ {Max(s)}], comps[Max(s)])]
           iter == CHOOSE g : Folds(g)
<1>1. n \in Nat /\ DOMAIN comps = 1..n
  OBVIOUS
<1>2. Leads(at, comps) = iter[1..n]
  BY <1>1 DEF Leads, FoldLeft, MapThenFoldSet
<1>3. /\ Folding(CharSet, Texts, at, MoveSteps)
      /\ \A x \in Texts, e \in CharSet : MoveSteps[<<x, e>>] = Move(x, e)
  BY MoveTyped DEF Folding, MoveSteps
<1>4. Folds(iter)
  <2>1. PICK g : Defines(g, comps, CharSet, Texts, at, MoveSteps)
    BY <1>3, FoldIsDefined
  <2>2. \A s \in SUBSET (1..n) : s # {} => g[s] = Move(g[s \ {Max(s)}], comps[Max(s)])
    BY <1>3, <2>1 DEF Defines
  <2>3. Folds(g)
    <3>1. g \in [SUBSET (1..n) -> Texts] /\ g[{}] = at
      BY <2>1 DEF Defines
    <3> HIDE DEF n
    <3> QED
      BY <2>2, <3>1
  <2> HIDE DEF Folds
  <2> QED
    BY <2>3
<1> HIDE DEF iter
<1>5. FoldsTo(iter, comps, Texts, at, MoveSteps)
  <2>1. iter[{}] = at
    BY <1>4
  <2>2. ASSUME NEW s \in SUBSET (1..n), s # {}, iter[s \ {Max(s)}] \in Texts
        PROVE  iter[s] = MoveSteps[<<iter[s \ {Max(s)}], comps[Max(s)]>>]
    <3>1. Max(s) \in 1..n
      <4>1. s \in SUBSET (1..(n + 1))
        BY <1>1
      <4> QED
        BY <1>1, <2>2, <4>1, MaxOfPositions
    <3>2. comps[Max(s)] \in CharSet
      BY <3>1
    <3>3. iter[s] = Move(iter[s \ {Max(s)}], comps[Max(s)])
      <4> HIDE DEF n
      <4> QED
        BY <1>4, <2>2
    <3> QED
      BY <1>3, <2>2, <3>2, <3>3
  <2> QED
    BY <2>1, <2>2 DEF FoldsTo
<1> HIDE DEF n
<1>6. IsFoldOf(Leads(at, comps), comps, Texts, at, MoveSteps)
  BY <1>2, <1>5 DEF n, IsFoldOf
<1> QED
  BY <1>3, <1>6

\* Resolve is that fold.
LEMMA ResolveLeads ==
    ASSUME NEW cwd, NEW p PROVE Resolve(cwd, p) = Leads(IF p.abs THEN <<"/">> ELSE cwd, p.comps)
BY DEF Resolve, Leads, Move

------------------------------------
(* What the policy follows of a path is what the kernel follows *)

\* The start of a walk in the workspace.
Entering(n) == [current |-> root, inspections |-> n, found |-> "walking"]

\* The root is an absolute path.
LEMMA EnteringTyped ==
    /\ root \in Texts /\ root # <<>> /\ Len(root) \in Nat \ {0}
    /\ \A n \in Nat : Entering(n) \in Walks
<1>1. root \in Texts /\ root # <<>>
  BY RootAssumption DEF Texts, CharSet
<1>2. Len(root) \in Nat \ {0}
  BY <1>1 DEF Texts
<1> QED
  BY <1>1, <1>2 DEF Entering, Walks

\* The name of the root of all directories is a name.
LEMMA SlashIsName == "/" \in CharSet /\ <<"/">> \in Texts
<1>1. "/" \in CharSet
  BY RootAssumption DEF CharSet
<1> HIDE DEF CharSet
<1> QED
  BY <1>1 DEF Texts

\* A walk that was not cut off for want of inspections is the same with any budget
\* that has as many as it took.
LEMMA SameWalk ==
    ASSUME NEW comps \in Texts, NEW m \in Nat, NEW n \in Nat,
           Along(Entering(m), comps).found # "budget",
           m - Along(Entering(m), comps).inspections <= n
    PROVE  /\ Along(Entering(n), comps).found = Along(Entering(m), comps).found
           /\ Along(Entering(n), comps).inspections
                 = n - (m - Along(Entering(m), comps).inspections)
<1> DEFINE Like(b, a) ==
              \/ b.found = "budget"
              \/ m - b.inspections > n
              \/ /\ a.found = b.found /\ a.current = b.current
                 /\ a.inspections + m = b.inspections + n
           R == {p \in Walks \X Walks : Like(p[1], p[2])}
           y == Along(Entering(m), comps)
           x == Along(Entering(n), comps)
<1>1. /\ Folding(CharSet, Walks, Entering(m), WalkSteps)
      /\ IsFoldOf(y, comps, Walks, Entering(m), WalkSteps)
      /\ Folding(CharSet, Walks, Entering(n), WalkSteps)
      /\ IsFoldOf(x, comps, Walks, Entering(n), WalkSteps)
  BY EnteringTyped, WalkFold DEF Texts
<1>h. y.found # "budget" /\ m - y.inspections <= n
  OBVIOUS
<1> HIDE DEF x, y
<1>2. <<Entering(m), Entering(n)>> \in R
  <2>1. Like(Entering(m), Entering(n))
    BY DEF Entering
  <2> HIDE DEF Like
  <2> QED
    BY <2>1, EnteringTyped
<1>3. ASSUME NEW k \in 1..Len(comps), NEW b \in Walks, NEW a \in Walks, <<b, a>> \in R
      PROVE  <<WalkSteps[<<b, comps[k]>>], WalkSteps[<<a, comps[k]>>]>> \in R
  <2> DEFINE c == comps[k]
  <2>1. c \in CharSet
    BY DEF Texts
  <2> HIDE DEF c
  <2> DEFINE b1 == Walk(b, c)
             a1 == Walk(a, c)
  <2>2. WalkSteps[<<b, c>>] = b1 /\ WalkSteps[<<a, c>>] = a1
    BY <2>1 DEF WalkSteps
  <2>3. Like(b, a)
    BY <1>3
  <2>4. /\ b1 \in Walks /\ a1 \in Walks
        /\ b.found # "walking" => b1 = b
        /\ a.found # "walking" => a1 = a
    BY <2>1, WalkStep
  <2>5. /\ b.inspections \in Nat /\ a.inspections \in Nat
        /\ b1.inspections \in Nat /\ a1.inspections \in Nat
    BY <2>4, WalkParts
  <2>6. ASSUME b.found # "walking" PROVE Like(b1, a1)
    BY <2>3, <2>4, <2>6
  <2>7. ASSUME b.found = "walking" PROVE Like(b1, a1)
    <3> DEFINE at == Append(b.current, c)
               cost == CostAt(at)
               next == IF EntryAt(at) = "missing" THEN "within"
                       ELSE IF EntryAt(at) = "denied" THEN "escapes"
                       ELSE IF IsLink(at) /\ ~UnderRoot(entry[at].link) THEN "escapes"
                       ELSE "walking"
               there == IF next # "walking" THEN b.current
                        ELSE IF IsLink(at) THEN entry[at].link ELSE at
    <3>1. cost \in 1..2
      BY DEF CostAt
    <3>2. IF b.inspections < cost THEN b1.found = "budget"
          ELSE /\ b1.inspections = b.inspections - cost
               /\ b1.found = next /\ b1.current = there
      BY <2>1, <2>7, WalkStep
    <3>3. ASSUME a.found = "walking", a.current = b.current, ~(a.inspections < cost)
          PROVE  /\ a1.inspections = a.inspections - cost
                 /\ a1.found = next /\ a1.current = there
      BY <2>1, <2>7, <3>3, WalkStep
    <3> HIDE DEF at, cost, next, there, b1, a1
    <3>4. ASSUME b1.found # "budget", ~(m - b1.inspections > n)
          PROVE  Like(b1, a1)
      <4>1. /\ ~(b.inspections < cost) /\ b1.inspections = b.inspections - cost
            /\ b1.found = next /\ b1.current = there
        BY <3>2, <3>4
      <4>2. ~(m - b.inspections > n) /\ b.found # "budget"
        BY <2>5, <2>7, <3>1, <3>4, <4>1
      <4>3. /\ a.found = b.found /\ a.current = b.current
            /\ a.inspections + m = b.inspections + n
        BY <2>3, <4>2
      <4>s. /\ ~(m - (b.inspections - cost) > n) => ~(a.inspections < cost)
            /\ (a.inspections - cost) + m = (b.inspections - cost) + n
        <5>1. cost \in Nat
          BY ONLY <3>1
        <5>2. m \in Nat /\ n \in Nat
          OBVIOUS
        <5> DEFINE u == a.inspections
                   v == b.inspections
        <5>3. u \in Nat /\ v \in Nat /\ u + m = v + n
          BY ONLY <2>5, <4>3
        <5> HIDE DEF u, v
        <5>4. /\ ~(m - (v - cost) > n) => ~(u < cost)
              /\ (u - cost) + m = (v - cost) + n
          BY ONLY <5>1, <5>2, <5>3
        <5> QED
          BY ONLY <5>4 DEF u, v
      <4>4. ~(a.inspections < cost)
        BY ONLY <3>4, <4>1, <4>s
      <4>5. /\ a1.inspections = a.inspections - cost
            /\ a1.found = next /\ a1.current = there
        BY <2>7, <3>3, <4>3, <4>4
      <4>6. a1.inspections + m = b1.inspections + n
        BY ONLY <4>1, <4>5, <4>s
      <4> QED
        BY <4>1, <4>5, <4>6
    <3> QED
      BY <3>4
  <2>8. Like(b1, a1)
    BY <2>6, <2>7
  <2> HIDE DEF Like, a1, b1
  <2>9. <<b1, a1>> \in R
    BY <2>4, <2>8
  <2> QED
    BY <2>2, <2>9 DEF c
<1> HIDE DEF R
<1>4. <<y, x>> \in R /\ y \in Walks /\ x \in Walks
  <2>1. comps \in Seq(CharSet)
    BY DEF Texts
  <2> QED
    BY <1>1, <1>2, <1>3, <2>1, FoldsRelate
<1>5. Like(y, x) /\ y.inspections \in Nat /\ x.inspections \in Nat
  BY <1>4, WalkParts DEF R
<1> QED
  BY <1>h, <1>5 DEF x, y

\* A walk does not give inspections back.
LEMMA WalkSpends ==
    ASSUME NEW comps \in Texts, NEW n \in Nat
    PROVE  /\ Along(Entering(n), comps) \in Walks
           /\ Along(Entering(n), comps).inspections \in 0..n
<1> DEFINE P == {w \in Walks : w.inspections <= n}
           x == Along(Entering(n), comps)
<1>1. /\ Folding(CharSet, Walks, Entering(n), WalkSteps)
      /\ IsFoldOf(x, comps, Walks, Entering(n), WalkSteps)
  BY EnteringTyped, WalkFold DEF Texts
<1> HIDE DEF x
<1>2. Entering(n) \in P
  BY EnteringTyped DEF Entering
<1>3. ASSUME NEW w \in Walks, NEW k \in 1..Len(comps), w \in P
      PROVE  WalkSteps[<<w, comps[k]>>] \in P
  <2> DEFINE c == comps[k]
  <2>1. c \in CharSet
    BY DEF Texts
  <2> HIDE DEF c
  <2>2. WalkSteps[<<w, c>>] = Walk(w, c)
    BY <2>1 DEF WalkSteps
  <2>3. Walk(w, c) \in Walks /\ w.inspections \in Nat /\ w.inspections <= n
    BY <1>3, <2>1, WalkStep, WalkParts
  <2>4. Walk(w, c).inspections <= n
    <3>1. CostAt(Append(w.current, c)) \in 1..2
      BY DEF CostAt
    <3>2. \/ Walk(w, c) = w
          \/ Walk(w, c).inspections = 0
          \/ Walk(w, c).inspections = w.inspections - CostAt(Append(w.current, c))
      BY <2>1, WalkStep
    <3> QED
      BY <2>3, <3>1, <3>2
  <2> QED
    BY <2>2, <2>3, <2>4 DEF c
<1> HIDE DEF P
<1>4. x \in P
  <2>1. comps \in Seq(CharSet)
    BY DEF Texts
  <2> QED
    BY <1>1, <1>2, <1>3, <2>1, FoldKeeps
<1>5. x \in Walks /\ x.inspections \in Nat /\ x.inspections <= n
  BY <1>4, WalkParts DEF P
<1> QED
  BY <1>5 DEF x

\* A word of which the root is asked: its path is refused at once, or walked.
Refused(p) ==
    \/ p.home
    \/ \E i \in DOMAIN p.comps : p.comps[i] = ".."
    \/ p.abs /\ ~UnderRoot(<<"/">> \o p.comps)
Relative(p) == IF p.abs THEN SubSeq(p.comps, Len(root), Len(p.comps)) ELSE p.comps

\* A path below the root, without the root.
LEMMA RelativeTyped ==
    ASSUME NEW word \in Words, ~Refused(path(word))
    PROVE  /\ Relative(path(word)) \in Texts
           /\ path(word).comps \in Texts
           /\ path(word).abs => /\ Len(root) <= Len(path(word).comps) + 1
                                /\ \A i \in 1..Len(root) : root[i] = (<<"/">> \o path(word).comps)[i]
<1> DEFINE p == path(word)
<1>1. p.comps \in Texts /\ p.abs \in BOOLEAN
  BY LexiconAssumption DEF Words, Texts, CharSet
<1> HIDE DEF p
<1>2. ASSUME p.abs
      PROVE  /\ Len(root) <= Len(p.comps) + 1
             /\ \A i \in 1..Len(root) : root[i] = (<<"/">> \o p.comps)[i]
  <2> DEFINE t == <<"/">> \o p.comps
  <2>1. IsPrefix(root, t)
    BY <1>2 DEF Refused, UnderRoot, p
  <2>2. <<"/">> \in Seq(CharSet) /\ Len(<<"/">>) = 1 /\ p.comps \in Seq(CharSet)
    <3> HIDE DEF CharSet
    <3> QED
      BY <1>1, SlashIsName DEF Texts
  <2>3. t \in Texts /\ Len(t) = Len(p.comps) + 1
    BY <2>2 DEF Texts
  <2> HIDE DEF t
  <2>4. Len(root) <= Len(t) /\ SubSeq(root, 1, Len(root)) = SubSeq(t, 1, Len(root))
    BY <2>1 DEF IsPrefix
  <2>5. \A i \in 1..Len(root) : root[i] = t[i]
    <3> TAKE i \in 1..Len(root)
    <3>1. Len(root) \in Nat /\ Len(t) \in Nat
      BY <2>3, EnteringTyped DEF Texts
    <3>2. SubSeq(root, 1, Len(root))[i] = root[i] /\ SubSeq(t, 1, Len(root))[i] = t[i]
      BY <2>3, <2>4, <3>1, EnteringTyped DEF Texts
    <3> QED
      BY <2>4, <3>2
  <2> QED
    BY <2>3, <2>4, <2>5 DEF t
<1>3. CASE p.abs
  <2>1. Len(root) \in Nat \ {0} /\ Len(p.comps) \in Nat /\ Len(root) <= Len(p.comps) + 1
    BY <1>1, <1>2, <1>3, EnteringTyped DEF Texts
  <2>2. SubSeq(p.comps, Len(root), Len(p.comps)) \in Texts
    BY <1>1, <2>1 DEF Texts
  <2> QED
    BY <1>1, <1>2, <1>3, <2>2 DEF Relative, p
<1>4. CASE ~p.abs
  BY <1>1, <1>4 DEF Relative, p
<1> QED
  BY <1>3, <1>4

\* escapes_workspace, by its parts.
LEMMA EscapesParts ==
    ASSUME NEW word \in Words, NEW n \in Nat
    PROVE  LET x == escapes_workspace(word, n)
               w == Along(Entering(n), Relative(path(word)))
           IN  /\ Refused(path(word)) => x.found = "escapes" /\ x.inspections = n
               /\ ~Refused(path(word)) =>
                     /\ x.inspections = w.inspections
                     /\ x.found = IF w.found = "walking" THEN "within" ELSE w.found
               /\ x.inspections \in 0..n /\ x.found \in {"within", "escapes", "budget"}
<1> DEFINE x == escapes_workspace(word, n)
           w == Along(Entering(n), Relative(path(word)))
<1>1. x = IF Refused(path(word))
          THEN [current |-> root, inspections |-> n, found |-> "escapes"]
          ELSE [w EXCEPT !.found = IF @ = "walking" THEN "within" ELSE @]
  BY DEF escapes_workspace, Refused, Relative, Along, Entering
<1>2. CASE Refused(path(word))
  BY <1>1, <1>2
<1>3. CASE ~Refused(path(word))
  <2>1. w \in Walks /\ w.inspections \in 0..n
    BY <1>3, RelativeTyped, WalkSpends
  <2> HIDE DEF w
  <2>2. w.found \in {"walking", "within", "escapes", "budget"}
    BY <2>1, WalkParts
  <2>3. x = [w EXCEPT !.found = IF @ = "walking" THEN "within" ELSE @]
    BY <1>1, <1>3 DEF w
  <2> HIDE DEF x
  <2>4. x.inspections = w.inspections /\ x.found = IF w.found = "walking" THEN "within" ELSE w.found
    BY <2>1, <2>3 DEF Walks
  <2> QED
    BY <1>3, <2>1, <2>2, <2>4 DEF w, x
<1> QED
  BY <1>2, <1>3

\* The answer for a word does not depend on the budget, if it is enough.
LEMMA SameAnswer ==
    ASSUME NEW word \in Words, NEW m \in Nat, NEW n \in Nat,
           escapes_workspace(word, m).found # "budget",
           m - escapes_workspace(word, m).inspections <= n
    PROVE  /\ escapes_workspace(word, n).found = escapes_workspace(word, m).found
           /\ escapes_workspace(word, n).inspections
                 = n - (m - escapes_workspace(word, m).inspections)
<1> DEFINE comps == Relative(path(word))
           y == Along(Entering(m), comps)
           x == Along(Entering(n), comps)
<1>1. CASE Refused(path(word))
  <2>1. /\ escapes_workspace(word, m).found = "escapes" /\ escapes_workspace(word, m).inspections = m
        /\ escapes_workspace(word, n).found = "escapes" /\ escapes_workspace(word, n).inspections = n
    BY <1>1, EscapesParts
  <2> QED
    BY <2>1
<1>2. CASE ~Refused(path(word))
  <2>1. /\ escapes_workspace(word, m).inspections = y.inspections
        /\ escapes_workspace(word, m).found = IF y.found = "walking" THEN "within" ELSE y.found
        /\ escapes_workspace(word, n).inspections = x.inspections
        /\ escapes_workspace(word, n).found = IF x.found = "walking" THEN "within" ELSE x.found
    BY <1>2, EscapesParts
  <2>2. comps \in Texts
    BY <1>2, RelativeTyped
  <2> HIDE DEF comps
  <2>3. y.found # "budget" /\ m - y.inspections <= n
    BY <2>1
  <2>4. x.found = y.found /\ x.inspections = n - (m - y.inspections)
    BY <2>2, <2>3, SameWalk
  <2> QED
    BY <2>1, <2>4
<1> QED
  BY <1>1, <1>2

\* The root is inside the workspace.
LEMMA RootUnderRoot == UnderRoot(root)
BY EnteringTyped DEF UnderRoot, IsPrefix

\* What is below a directory of the workspace is in the workspace.
LEMMA AppendUnderRoot ==
    ASSUME NEW at \in Texts, UnderRoot(at), NEW c \in CharSet
    PROVE  UnderRoot(Append(at, c)) /\ at # <<>>
<1>1. /\ Len(root) \in Nat \ {0} /\ Len(at) \in Nat /\ Len(root) <= Len(at)
      /\ SubSeq(root, 1, Len(root)) = SubSeq(at, 1, Len(root))
  BY EnteringTyped DEF UnderRoot, IsPrefix, Texts
<1>2. Append(at, c) \in Texts /\ Len(Append(at, c)) = Len(at) + 1
  BY DEF Texts
<1>3. SubSeq(Append(at, c), 1, Len(root)) = SubSeq(at, 1, Len(root))
  BY <1>1 DEF Texts
<1>4. at # <<>>
  BY <1>1
<1> QED
  BY <1>1, <1>2, <1>3, <1>4 DEF UnderRoot, IsPrefix

\* The kernel follows the walk that found a path within the workspace.
LEMMA WalkIsMove ==
    ASSUME NEW comps \in Texts, \A i \in DOMAIN comps : comps[i] # "..", NEW n \in Nat,
           Along(Entering(n), comps).found \in {"walking", "within"}
    PROVE  Leads(root, comps) = <<>> \/ UnderRoot(Leads(root, comps))
<1> DEFINE Like(w, at) ==
              /\ w.found = "walking" => at = w.current /\ UnderRoot(at)
              /\ w.found = "within" => at = <<>>
           R == {p \in Walks \X Texts : Like(p[1], p[2])}
           x == Along(Entering(n), comps)
           y == Leads(root, comps)
<1>1. /\ Folding(CharSet, Walks, Entering(n), WalkSteps)
      /\ IsFoldOf(x, comps, Walks, Entering(n), WalkSteps)
      /\ Folding(CharSet, Texts, root, MoveSteps)
      /\ IsFoldOf(y, comps, Texts, root, MoveSteps)
  BY EnteringTyped, WalkFold, MoveFold DEF Texts
<1>h. x.found \in {"walking", "within"}
  OBVIOUS
<1> HIDE DEF x, y
<1>2. <<Entering(n), root>> \in R
  <2>1. Like(Entering(n), root)
    BY RootUnderRoot DEF Entering
  <2> HIDE DEF Like
  <2> QED
    BY <2>1, EnteringTyped
<1>3. ASSUME NEW k \in 1..Len(comps), NEW w \in Walks, NEW at \in Texts, <<w, at>> \in R
      PROVE  <<WalkSteps[<<w, comps[k]>>], MoveSteps[<<at, comps[k]>>]>> \in R
  <2> DEFINE c == comps[k]
  <2>1. c \in CharSet /\ c # ".."
    BY DEF Texts
  <2>2. WalkSteps[<<w, c>>] = Walk(w, c) /\ MoveSteps[<<at, c>>] = Move(at, c)
    BY <2>1 DEF WalkSteps, MoveSteps
  <2> HIDE DEF c
  <2>3. Like(w, at)
    BY <1>3
  <2> DEFINE w1 == Walk(w, c)
             at1 == Move(at, c)
  <2>4. w1 \in Walks /\ at1 \in Texts
    BY <2>1, WalkStep, MoveTyped
  <2>5. ASSUME w.found # "walking" PROVE Like(w1, at1)
    <3>1. w1 = w
      BY <2>1, <2>5, WalkStep
    <3>2. at = <<>> => at1 = <<>>
      BY DEF Move
    <3> QED
      BY <2>3, <2>5, <3>1, <3>2
  <2>6. ASSUME w.found = "walking" PROVE Like(w1, at1)
    <3> DEFINE next == Append(at, c)
    <3>1. at = w.current /\ UnderRoot(at)
      BY <2>3, <2>6
    <3>2. UnderRoot(next) /\ at # <<>>
      BY <2>1, <3>1, AppendUnderRoot
    <3>3. at1 = IF EntryAt(next) \in {"missing", "denied"} THEN <<>>
                ELSE IF IsLink(next) THEN entry[next].link ELSE next
      BY <2>1, <3>2 DEF Move
    <3>4. CASE w.inspections < CostAt(next)
      <4>1. w1.found = "budget"
        BY <2>1, <2>6, <3>1, <3>4, WalkStep
      <4> QED
        BY <4>1
    <3>5. CASE ~(w.inspections < CostAt(next))
      <4>1. /\ w1.found = IF EntryAt(next) = "missing" THEN "within"
                          ELSE IF EntryAt(next) = "denied" THEN "escapes"
                          ELSE IF IsLink(next) /\ ~UnderRoot(entry[next].link) THEN "escapes"
                          ELSE "walking"
            /\ w1.current = IF w1.found # "walking" THEN w.current
                            ELSE IF IsLink(next) THEN entry[next].link ELSE next
        BY <2>1, <2>6, <3>1, <3>5, WalkStep
      <4> HIDE DEF next, w1, at1
      <4> QED
        BY <3>2, <3>3, <4>1
    <3> QED
      BY <3>4, <3>5
  <2>7. Like(w1, at1)
    BY <2>5, <2>6
  <2> HIDE DEF Like, w1, at1
  <2>8. <<w1, at1>> \in R
    BY <2>4, <2>7
  <2> QED
    BY <2>2, <2>8 DEF c, w1, at1
<1> HIDE DEF R
<1>4. <<x, y>> \in R
  <2>1. comps \in Seq(CharSet)
    BY DEF Texts
  <2> QED
    BY <1>1, <1>2, <1>3, <2>1, FoldsRelate
<1>5. Like(x, y)
  BY <1>4 DEF R
<1> QED
  BY <1>h, <1>5 DEF x, y

\* The kernel gets to the root of the workspace by the components of its path.
LEMMA LeadsToRoot ==
    ASSUME NEW comps \in Texts, \A i \in DOMAIN comps : comps[i] # "..",
           Len(comps) = Len(root) - 1, \A i \in 1..Len(comps) : comps[i] = root[i + 1]
    PROVE  Leads(<<"/">>, comps) = root
<1> DEFINE n == Len(comps)
           x == Leads(<<"/">>, comps)
<1>1. /\ root \in Texts /\ Len(root) \in Nat \ {0} /\ n \in Nat /\ Len(root) = n + 1
      /\ comps \in Seq(CharSet)
  BY EnteringTyped DEF Texts
<1>2. /\ Folding(CharSet, Texts, <<"/">>, MoveSteps)
      /\ IsFoldOf(x, comps, Texts, <<"/">>, MoveSteps)
  BY <1>1, SlashIsName, MoveFold
<1> HIDE DEF x
<1>3. PICK a \in [0..Len(comps) -> Texts] :
         /\ a[0] = <<"/">> /\ a[Len(comps)] = x
         /\ \A k \in 0..(Len(comps) - 1) :
               comps[k + 1] \in CharSet /\ a[k + 1] = MoveSteps[<<a[k], comps[k + 1]>>]
  BY <1>1, <1>2, FoldRuns
<1>4. \A k \in 1..n : comps[k] # ".." /\ comps[k] = root[k + 1]
  OBVIOUS
<1> HIDE DEF n
<1> DEFINE P == {k \in Nat : k <= n => a[k] = SubSeq(root, 1, k + 1)}
<1>5. 0 \in P
  <2> DEFINE first == SubSeq(root, 1, 1)
  <2>1. first \in Texts /\ Len(first) = 1 /\ first[1] = root[1]
    BY <1>1 DEF Texts
  <2> HIDE DEF first
  <2>2. first = <<root[1]>>
    BY <2>1 DEF Texts
  <2>3. first = <<"/">>
    BY <2>2, RootAssumption
  <2>4. a[0] = SubSeq(root, 1, 0 + 1)
    <3>1. 0 + 1 = 1
      OBVIOUS
    <3> QED
      BY ONLY <1>3, <2>3, <3>1 DEF first
  <2> HIDE DEF n
  <2> QED
    BY <2>4
<1>6. ASSUME NEW k \in P PROVE k + 1 \in P
  <2> SUFFICES ASSUME k + 1 <= n PROVE a[k + 1] = SubSeq(root, 1, k + 2)
    BY <1>1
  <2>1. k \in Nat /\ k \in 0..(Len(comps) - 1) /\ k + 1 \in 1..n /\ a[k] = SubSeq(root, 1, k + 1)
    BY <1>1 DEF n
  <2> DEFINE c == comps[k + 1]
  <2>2. c \in CharSet /\ c # ".." /\ c = root[k + 2] /\ a[k + 1] = MoveSteps[<<a[k], c>>]
    <3>1. c \in CharSet /\ a[k + 1] = MoveSteps[<<a[k], c>>]
      BY <1>3, <2>1
    <3>2. c # ".." /\ c = root[(k + 1) + 1]
      BY <1>4, <2>1
    <3> QED
      BY <2>1, <3>1, <3>2
  <2> HIDE DEF c
  <2>3. a[k] \in Texts
    <3>1. k \in 0..Len(comps)
      BY <2>1
    <3> QED
      BY <1>3, <3>1
  <2>4. a[k + 1] = Move(a[k], c)
    BY <2>2, <2>3 DEF MoveSteps
  <2>5. /\ Append(SubSeq(root, 1, k + 1), root[k + 2]) = SubSeq(root, 1, k + 2)
        /\ SubSeq(root, 1, k + 1) # <<>> /\ k + 2 \in 2..Len(root)
    <3>1. k + 1 \in 0..(Len(root) - 1) /\ (k + 1) + 1 = k + 2 /\ k + 2 \in 2..Len(root)
      BY <1>1, <2>1 DEF n
    <3>2. Append(SubSeq(root, 1, k + 1), root[(k + 1) + 1]) = SubSeq(root, 1, (k + 1) + 1)
      BY <1>1, <3>1, PartGrows DEF Texts
    <3>3. Len(SubSeq(root, 1, k + 1)) = k + 1 /\ k + 1 # 0
      BY <1>1, <2>1, <3>1 DEF Texts
    <3> QED
      BY <3>1, <3>2, <3>3
  <2>6. EntryAt(Append(a[k], c)) = "dir"
    BY <2>1, <2>2, <2>5, RootAssumption
  <2> QED
    BY <2>1, <2>2, <2>4, <2>5, <2>6 DEF Move, IsLink
<1> HIDE DEF P
<1>7. P = Nat
  <2>1. P \in SUBSET Nat
    BY DEF P
  <2> QED
    BY <1>5, <1>6, <2>1, Induction
<1>8. a[n] = SubSeq(root, 1, n + 1)
  <2>1. n \in P /\ n <= n
    BY <1>1, <1>7
  <2> QED
    BY <2>1 DEF P
<1>9. SubSeq(root, 1, Len(root)) = root
  BY <1>1 DEF Texts
<1> QED
  BY <1>1, <1>3, <1>8, <1>9 DEF n, x

\* A word that the walk finds within the workspace leads into it or nowhere.
LEMMA WithinIsInside ==
    ASSUME NEW word \in Words, NEW n \in Nat, escapes_workspace(word, n).found = "within"
    PROVE  /\ ~path(word).home
           /\ \/ Resolve(root, path(word)) = <<>>
              \/ UnderRoot(Resolve(root, path(word)))
<1> DEFINE p == path(word)
           relative == Relative(p)
           w == Along(Entering(n), relative)
<1>1. ~Refused(p)
  BY EscapesParts
<1>2. w.found \in {"walking", "within"}
  BY <1>1, EscapesParts
<1>3. ~p.home /\ \A i \in DOMAIN p.comps : p.comps[i] # ".."
  BY <1>1 DEF Refused
<1>4. /\ relative \in Texts /\ p.comps \in Texts
      /\ p.abs => /\ Len(root) <= Len(p.comps) + 1
                  /\ \A i \in 1..Len(root) : root[i] = (<<"/">> \o p.comps)[i]
  BY <1>1, RelativeTyped
<1>5. CASE ~p.abs
  <2>1. Resolve(root, p) = Leads(root, relative) /\ relative = p.comps
    BY <1>5, ResolveLeads DEF Relative
  <2>2. Leads(root, relative) = <<>> \/ UnderRoot(Leads(root, relative))
    BY <1>2, <1>3, <1>4, <2>1, WalkIsMove
  <2> QED
    BY <1>3, <2>1, <2>2
<1>6. CASE p.abs
  <2> DEFINE m == Len(root) - 1
             first == SubSeq(p.comps, 1, m)
             comps == p.comps
  <2>1. Resolve(root, p) = Leads(<<"/">>, comps) /\ relative = SubSeq(comps, m + 1, Len(comps))
    <3>1. m + 1 = Len(root)
      BY EnteringTyped
    <3> QED
      BY <1>6, <3>1, ResolveLeads DEF Relative
  <2>2. /\ m \in Nat /\ m <= Len(comps) /\ Len(comps) \in Nat /\ comps \in Seq(CharSet)
        /\ \A i \in 1..m : comps[i] = root[i + 1]
    <3>1. m \in Nat /\ m <= Len(comps) /\ Len(comps) \in Nat /\ comps \in Seq(CharSet)
      BY <1>4, <1>6, EnteringTyped DEF Texts
    <3>2. ASSUME NEW i \in 1..m PROVE comps[i] = root[i + 1]
      <4>1. i + 1 \in 1..Len(root)
        BY <3>1
      <4>2. (<<"/">> \o comps)[i + 1] = comps[i]
        BY <3>1, SlashIsName DEF Texts
      <4> QED
        BY <1>4, <1>6, <4>1, <4>2
    <3> QED
      BY <3>1, <3>2
  <2> HIDE DEF comps, m
  <2>3. /\ first \in Seq(CharSet) /\ Len(first) = m /\ \A i \in 1..m : first[i] = comps[i]
        /\ relative \in Seq(CharSet) /\ Len(relative) = Len(comps) - m
        /\ \A i \in 1..(Len(comps) - m) : relative[i] = comps[m + i]
        /\ comps = first \o relative
    <3>1. m \in 0..Len(comps) /\ Len(comps) \in m..Len(comps) /\ 0 \in Nat
      BY <2>2
    <3>2. first \o SubSeq(comps, m + 1, Len(comps)) = SubSeq(comps, 1, Len(comps))
      BY <2>2, <3>1, PartsJoin DEF comps
    <3>3. SubSeq(comps, 1, Len(comps)) = comps
      BY <2>2
    <3>4. /\ relative \in Seq(CharSet) /\ Len(relative) = Len(comps) - m
          /\ \A i \in 1..(Len(comps) - m) : relative[i] = comps[m + i]
      <4>1. Len(comps) \in 0..Len(comps) /\ m <= Len(comps)
        BY <2>2
      <4> HIDE DEF relative
      <4> QED
        BY <2>1, <2>2, <4>1, Parts
    <3>5. first \in Seq(CharSet) /\ Len(first) = m /\ \A i \in 1..m : first[i] = comps[i]
      BY <2>2 DEF comps
    <3> QED
      BY <2>1, <3>2, <3>3, <3>4, <3>5
  <2>4. \A i \in DOMAIN comps : comps[i] # ".."
    BY <1>3 DEF comps
  <2>5. Leads(<<"/">>, first) = root
    <3>1. \A i \in DOMAIN first : first[i] # ".."
      BY <2>2, <2>3, <2>4
    <3>2. Len(first) = Len(root) - 1 /\ \A i \in 1..Len(first) : first[i] = root[i + 1]
      BY <2>2, <2>3 DEF m
    <3>3. first \in Texts
      BY <2>3 DEF Texts
    <3> HIDE DEF first
    <3> QED
      BY <3>1, <3>2, <3>3, LeadsToRoot
  <2> HIDE DEF first, relative
  <2>6. Leads(<<"/">>, comps) = Leads(root, relative)
    <3>1. /\ Folding(CharSet, Texts, <<"/">>, MoveSteps)
          /\ IsFoldOf(root, first, Texts, <<"/">>, MoveSteps)
          /\ IsFoldOf(Leads(<<"/">>, comps), first \o relative, Texts, <<"/">>, MoveSteps)
      BY <2>2, <2>3, <2>5, SlashIsName, MoveFold
    <3>2. IsFoldOf(Leads(root, relative), relative, Texts, root, MoveSteps)
      BY <2>3, EnteringTyped, MoveFold
    <3> QED
      BY <2>3, <3>1, <3>2, FoldConcat
  <2>7. Leads(root, relative) = <<>> \/ UnderRoot(Leads(root, relative))
    <3>1. ASSUME NEW i \in DOMAIN relative PROVE relative[i] # ".."
      <4>1. i \in 1..(Len(comps) - m) /\ m + i \in 1..Len(comps)
        BY <2>2, <2>3
      <4>2. m + i \in DOMAIN comps
        BY <2>2, <4>1
      <4> QED
        BY <2>3, <2>4, <4>1, <4>2
    <3> QED
      BY <1>2, <1>4, <3>1, WalkIsMove DEF relative
  <2> QED
    BY <1>3, <2>1, <2>6, <2>7 DEF comps
<1>7. p.abs \in BOOLEAN
  BY LexiconAssumption DEF Words
<1> QED
  BY <1>5, <1>6, <1>7

------------------------------------
(* The budget of the probes: what is known has been paid for *)

\* What is found out about a word when all the inspections are at hand, and how
\* many of them that takes.
Answer(word) == escapes_workspace(word, MAX_WORKSPACE_PATH_INSPECTIONS)
Used(word) == MAX_WORKSPACE_PATH_INSPECTIONS - Answer(word).inspections
Fact(word) == [word |-> word, found |-> Answer(word).found]
Facts == {Fact(word) : word \in {w \in Words : Answer(w).found # "budget"}}

\* The inspections that facts took, one by one.
Spent(facts) == {x \in facts \X Nat : x[2] \in 1..Used(x[1].word)}

\* Facts that the budget is enough for.
Affordable(facts) ==
    /\ facts \in SUBSET Facts
    /\ IsFiniteSet(facts) /\ Cardinality(facts) <= MAX_PATH_PROBE_CANDIDATES
    /\ IsFiniteSet(Spent(facts))
    /\ Cardinality(Spent(facts)) <= MAX_WORKSPACE_PATH_INSPECTIONS

Probes == [candidates : Nat, inspections : Nat,
           cached : SUBSET [word : Words, found : {"within", "escapes", "budget"}],
           found : {"within", "escapes", "budget", "ask", "reject"}]

\* The budget that is left is what the known facts did not take.
Paid(probes) ==
    /\ Affordable(probes.cached)
    /\ probes.candidates = MAX_PATH_PROBE_CANDIDATES - Cardinality(probes.cached)
    /\ probes.inspections = MAX_WORKSPACE_PATH_INSPECTIONS - Cardinality(Spent(probes.cached))

\* The answer of a walk that is paid for.
LEMMA AnswerTyped ==
    ASSUME NEW word \in Words
    PROVE  /\ Used(word) \in 0..MAX_WORKSPACE_PATH_INSPECTIONS
           /\ Answer(word).inspections \in Nat
           /\ Answer(word).inspections = MAX_WORKSPACE_PATH_INSPECTIONS - Used(word)
           /\ Answer(word).found \in {"within", "escapes", "budget"}
<1>1. MAX_WORKSPACE_PATH_INSPECTIONS \in Nat
  BY PolicyLimitsAssumption
<1>2. /\ Answer(word).inspections \in 0..MAX_WORKSPACE_PATH_INSPECTIONS
      /\ Answer(word).found \in {"within", "escapes", "budget"}
  BY <1>1, EscapesParts DEF Answer
<1> QED
  BY <1>1, <1>2 DEF Used

\* A fact is about its word.
LEMMA FactOf ==
    /\ \A word \in Words : Fact(word) \in Facts <=> Answer(word).found # "budget"
    /\ \A c \in Facts : c.word \in Words /\ c = Fact(c.word) /\ Answer(c.word).found # "budget"
    /\ \A word : Fact(word).word = word /\ Fact(word).found = Answer(word).found
<1>1. \A word : Fact(word).word = word /\ Fact(word).found = Answer(word).found
  BY DEF Fact
<1>2. ASSUME NEW word \in Words PROVE Fact(word) \in Facts <=> Answer(word).found # "budget"
  <2>1. ASSUME Fact(word) \in Facts PROVE Answer(word).found # "budget"
    <3>1. PICK w \in Words : Answer(w).found # "budget" /\ Fact(word) = Fact(w)
      BY <2>1 DEF Facts
    <3>2. w = word
      BY <1>1, <3>1
    <3> QED
      BY <3>1, <3>2
  <2> QED
    BY <2>1 DEF Facts
<1>3. ASSUME NEW c \in Facts
      PROVE  c.word \in Words /\ c = Fact(c.word) /\ Answer(c.word).found # "budget"
  <2>1. PICK w \in Words : Answer(w).found # "budget" /\ c = Fact(w)
    BY DEF Facts
  <2>2. c.word = w
    BY <1>1, <2>1
  <2> QED
    BY <2>1, <2>2
<1> QED
  BY <1>1, <1>2, <1>3

\* What one more fact takes.
LEMMA SpentMore ==
    ASSUME NEW facts \in SUBSET Facts, IsFiniteSet(Spent(facts)),
           NEW word \in Words, Fact(word) \notin facts
    PROVE  /\ IsFiniteSet(Spent(facts \cup {Fact(word)}))
           /\ Cardinality(Spent(facts \cup {Fact(word)})) = Cardinality(Spent(facts)) + Used(word)
           /\ Cardinality(Spent(facts)) \in Nat
<1> DEFINE c == Fact(word)
           n == Used(word)
           new == {c} \X (1..n)
           f == [i \in 1..n |-> <<c, i>>]
<1>1. n \in Nat /\ c.word = word
  BY AnswerTyped, FactOf
<1> HIDE DEF n
<1>2. IsFiniteSet(1..n) /\ Cardinality(1..n) = n
  <2>1. 1 \in Int /\ n \in Int
    BY <1>1
  <2>2. IsFiniteSet(1..n) /\ Cardinality(1..n) = IF 1 > n THEN 0 ELSE n - 1 + 1
    BY <2>1, FS_Interval
  <2> QED
    BY <1>1, <2>2
<1>3. f \in Bijection(1..n, new)
  BY DEF Bijection, Injection, IsInjective, Surjection
<1>4. IsFiniteSet(new) /\ Cardinality(new) = n
  <2>1. ExistsBijection(1..n, new)
    BY <1>3 DEF ExistsBijection
  <2> HIDE DEF new
  <2> QED
    BY <1>2, <2>1, FS_Bijection
<1>5. Spent(facts \cup {c}) = Spent(facts) \cup new
  BY <1>1 DEF Spent, n
<1>6. Spent(facts) \cap new = {}
  BY DEF Spent
<1> HIDE DEF new, f
<1>7. /\ IsFiniteSet(Spent(facts) \cup new)
      /\ Cardinality(Spent(facts) \cup new)
            = Cardinality(Spent(facts)) + Cardinality(new) - Cardinality(Spent(facts) \cap new)
  BY <1>4, FS_Union
<1>8. Cardinality(Spent(facts)) \in Nat
  BY FS_CardinalityType
<1>9. Cardinality(Spent(facts) \cap new) = 0
  BY <1>6, FS_EmptySet
<1>10. Cardinality(Spent(facts)) + n - 0 = Cardinality(Spent(facts)) + n
  BY <1>1, <1>8
<1> HIDE DEF c
<1> QED
  BY ONLY <1>4, <1>5, <1>7, <1>8, <1>9, <1>10 DEF n, c

\* A part of what is affordable is.
LEMMA AffordableLess ==
    ASSUME NEW more, Affordable(more), NEW facts \in SUBSET more
    PROVE  Affordable(facts)
<1>1. Spent(facts) \in SUBSET Spent(more)
  BY DEF Spent
<1>2. /\ IsFiniteSet(facts) /\ Cardinality(facts) <= Cardinality(more)
      /\ IsFiniteSet(Spent(facts)) /\ Cardinality(Spent(facts)) <= Cardinality(Spent(more))
  BY <1>1, FS_Subset DEF Affordable
<1>3. /\ Cardinality(facts) \in Nat /\ Cardinality(more) \in Nat
      /\ Cardinality(Spent(facts)) \in Nat /\ Cardinality(Spent(more)) \in Nat
  BY <1>2, FS_CardinalityType DEF Affordable
<1>4. MAX_PATH_PROBE_CANDIDATES \in Nat /\ MAX_WORKSPACE_PATH_INSPECTIONS \in Nat
  BY PolicyLimitsAssumption
<1>5. facts \in SUBSET Facts
  BY DEF Affordable
<1>6. /\ Cardinality(more) <= MAX_PATH_PROBE_CANDIDATES
      /\ Cardinality(Spent(more)) <= MAX_WORKSPACE_PATH_INSPECTIONS
  BY DEF Affordable
<1>7. /\ Cardinality(facts) <= MAX_PATH_PROBE_CANDIDATES
      /\ Cardinality(Spent(facts)) <= MAX_WORKSPACE_PATH_INSPECTIONS
  BY ONLY <1>2, <1>3, <1>4, <1>6
<1> QED
  BY <1>2, <1>5, <1>7 DEF Affordable

\* What the type of the budget says.
LEMMA ProbesParts ==
    ASSUME NEW p \in Probes
    PROVE  /\ p.candidates \in Nat /\ p.inspections \in Nat
           /\ p.cached \in SUBSET [word : Words, found : {"within", "escapes", "budget"}]
           /\ p.found \in {"within", "escapes", "budget", "ask", "reject"}
BY DEF Probes

\* A probe runs out of budget exactly when the fact is not affordable, and
\* otherwise gives the answer and keeps it.
LEMMA ProbeAnswers ==
    ASSUME NEW p \in Probes, Paid(p), NEW word \in Words
    PROVE  LET q == Probe(p, word)
               more == p.cached \cup {Fact(word)}
           IN  /\ q \in Probes
               /\ q.found \in {"within", "escapes", "budget"}
               /\ q.found = "budget" <=> ~Affordable(more)
               /\ q.found # "budget" =>
                     q.found = Answer(word).found /\ q.cached = more /\ Paid(q)
<1> DEFINE q == Probe(p, word)
           more == p.cached \cup {Fact(word)}
           known == {c \in p.cached : c.word = word}
           n == p.inspections
           x == escapes_workspace(word, n)
<1>1. /\ p.candidates \in Nat /\ p.inspections \in Nat
      /\ MAX_PATH_PROBE_CANDIDATES \in Nat /\ MAX_WORKSPACE_PATH_INSPECTIONS \in Nat
  BY ProbesParts, PolicyLimitsAssumption
<1>2. /\ Affordable(p.cached)
      /\ p.candidates = MAX_PATH_PROBE_CANDIDATES - Cardinality(p.cached)
      /\ p.inspections = MAX_WORKSPACE_PATH_INSPECTIONS - Cardinality(Spent(p.cached))
  BY DEF Paid
<1>3. /\ Answer(word).found \in {"within", "escapes", "budget"}
      /\ Used(word) \in Nat /\ Answer(word).inspections \in Nat
      /\ Answer(word).inspections = MAX_WORKSPACE_PATH_INSPECTIONS - Used(word)
  BY AnswerTyped
<1>4. CASE known # {}
  <2>1. known = {Fact(word)} /\ Fact(word) \in p.cached
    BY <1>2, <1>4, FactOf DEF Affordable
  <2>2. (CHOOSE c \in known : TRUE) = Fact(word)
    BY <2>1
  <2>3. q = [p EXCEPT !.found = Answer(word).found]
    BY <1>4, <2>2, FactOf DEF Probe
  <2>4. Answer(word).found # "budget"
    BY <1>2, <2>1, FactOf DEF Affordable
  <2>5. more = p.cached
    BY <2>1
  <2>6. /\ q \in Probes /\ q.found = Answer(word).found /\ q.cached = p.cached
        /\ q.candidates = p.candidates /\ q.inspections = p.inspections
    BY <1>3, <2>3 DEF Probes
  <2> HIDE DEF q
  <2> QED
    BY <1>2, <1>3, <2>4, <2>5, <2>6 DEF Paid, q
<1>5. CASE known = {}
  <2>1. Fact(word) \notin p.cached
    BY <1>5, FactOf
  <2>2. /\ IsFiniteSet(more) /\ Cardinality(more) = Cardinality(p.cached) + 1
        /\ IsFiniteSet(Spent(more)) /\ Cardinality(Spent(more)) = Cardinality(Spent(p.cached)) + Used(word)
        /\ Cardinality(p.cached) \in Nat /\ Cardinality(Spent(p.cached)) \in Nat
    BY <1>2, <2>1, SpentMore, FS_AddElement, FS_CardinalityType DEF Affordable
  <2>3. Affordable(more) <=> /\ Answer(word).found # "budget"
                             /\ p.candidates # 0 /\ Used(word) <= n
    <3>1. more \in SUBSET Facts <=> Answer(word).found # "budget"
      BY <1>2, FactOf DEF Affordable
    <3> HIDE DEF more
    <3>2. Cardinality(more) <= MAX_PATH_PROBE_CANDIDATES <=> p.candidates # 0
      BY <1>1, <1>2, <2>2
    <3>3. Cardinality(Spent(more)) <= MAX_WORKSPACE_PATH_INSPECTIONS <=> Used(word) <= n
      BY <1>1, <1>2, <1>3, <2>2
    <3> QED
      BY <2>2, <3>1, <3>2, <3>3 DEF Affordable
  <2>4. CASE p.candidates = 0
    <3>1. q = [p EXCEPT !.found = "budget"]
      BY <1>5, <2>4 DEF Probe
    <3>2. q \in Probes /\ q.found = "budget"
      BY <3>1 DEF Probes
    <3> HIDE DEF q, more
    <3> QED
      BY <2>3, <2>4, <3>2 DEF q, more
  <2>5. CASE p.candidates # 0
    <3>1. q = Inspected(p, word, x)
      BY <1>5, <2>5 DEF Probe
    <3>2. x.inspections \in 0..n /\ x.found \in {"within", "escapes", "budget"}
      BY <1>1, EscapesParts
    <3> HIDE DEF x, known
    <3>3. /\ q.candidates = p.candidates - 1 /\ q.inspections = x.inspections /\ q.found = x.found
          /\ q.cached = IF x.found = "budget" THEN p.cached
                        ELSE p.cached \cup {[word |-> word, found |-> x.found]}
          /\ q \in Probes
      <4>1. p.candidates - 1 \in Nat /\ x.inspections \in Nat
        BY <1>1, <2>5, <3>2
      <4>2. p.cached \cup {[word |-> word, found |-> x.found]}
               \in SUBSET [word : Words, found : {"within", "escapes", "budget"}]
        BY <3>2, ProbesParts
      <4> DEFINE kept == IF x.found = "budget" THEN p.cached
                         ELSE p.cached \cup {[word |-> word, found |-> x.found]}
      <4>3. kept \in SUBSET [word : Words, found : {"within", "escapes", "budget"}]
        BY <4>2, ProbesParts
      <4>4. q = [p EXCEPT !.candidates = @ - 1, !.inspections = x.inspections,
                          !.found = x.found, !.cached = kept]
        BY <3>1 DEF Inspected
      <4> HIDE DEF q, kept
      <4> QED
        BY <3>2, <4>1, <4>3, <4>4 DEF Probes, kept
    <3> HIDE DEF q, more
    <3>4. CASE x.found = "budget"
      <4>1. ~Affordable(more)
        <5> SUFFICES ASSUME Answer(word).found # "budget", Used(word) <= n PROVE FALSE
          BY <2>3
        <5>1. MAX_WORKSPACE_PATH_INSPECTIONS - Answer(word).inspections <= n
          BY DEF Used
        <5>2. x.found = Answer(word).found
          BY <1>1, <5>1, SameAnswer DEF Answer, x
        <5> QED
          BY <3>4, <5>2
      <4> QED
        BY <3>3, <3>4, <4>1 DEF q, more
    <3>5. CASE x.found # "budget"
      <4>1. n - x.inspections <= MAX_WORKSPACE_PATH_INSPECTIONS
        BY <1>1, <1>2, <2>2, <3>2
      <4>2. /\ Answer(word).found = x.found
            /\ Answer(word).inspections
                  = MAX_WORKSPACE_PATH_INSPECTIONS - (n - x.inspections)
        BY <1>1, <3>5, <4>1, SameAnswer DEF Answer, x
      <4>3. Used(word) = n - x.inspections /\ Used(word) <= n
        BY <1>1, <1>3, <3>2, <4>2
      <4>4. Affordable(more)
        BY <2>3, <2>5, <3>5, <4>2, <4>3
      <4>5. q.cached = more
        BY <3>3, <3>5, <4>2 DEF more, Fact
      <4>6. q.candidates = MAX_PATH_PROBE_CANDIDATES - Cardinality(more)
        BY <1>1, <1>2, <2>2, <3>3
      <4>7. q.inspections = MAX_WORKSPACE_PATH_INSPECTIONS - Cardinality(Spent(more))
        BY <1>1, <1>2, <2>2, <3>2, <3>3, <4>3
      <4> QED
        BY <3>2, <3>3, <3>5, <4>2, <4>4, <4>5, <4>6, <4>7 DEF Paid, q, more
    <3> QED
      BY <3>4, <3>5
  <2> QED
    BY <2>4, <2>5
<1> QED
  BY <1>4, <1>5

------------------------------------
(* Fewer probes before find no less *)

\* Probes that may go on are paid.
Good == {p \in Probes : p.found = "within" => Paid(p)}

\* b is a pass of fewer words than a, by the time that the same words are left: what a
\* finds b finds, unless a runs out of budget.
Below(b, a) ==
    \/ a.found \in {"budget", "ask"}
    \/ a.found = b.found /\ (a.found = "within" => b.cached \subseteq a.cached)

\* Steps that depend on no more than that.
Frugal(E, f) ==
    /\ f \in [Good \X E -> Good]
    /\ \A a \in Good, e \in E :
          /\ a.found # "within" => f[<<a, e>>] = a
          /\ a.found = "within" /\ f[<<a, e>>].found = "within" =>
                a.cached \subseteq f[<<a, e>>].cached
    /\ \A a \in Good, b \in Good, e \in E :
          a.found = "within" /\ Below(b, a) => Below(f[<<b, e>>], f[<<a, e>>])

\* A budget that may go on has paid for what it knows.
LEMMA GoodParts ==
    ASSUME NEW p \in Good
    PROVE  p \in Probes /\ (p.found = "within" => Paid(p))
BY DEF Good

\* Passes of such steps.
LEMMA FrugalFold ==
    ASSUME NEW E, NEW f, Frugal(E, f), NEW a \in Good, NEW b \in Good, Below(b, a),
           NEW t \in Seq(E), NEW x, IsFoldOf(x, t, Good, a, f), NEW y, IsFoldOf(y, t, Good, b, f)
    PROVE  /\ x \in Good /\ y \in Good /\ Below(y, x)
           /\ a.found # "within" => x = a
           /\ x.found = "within" => a.cached \subseteq x.cached
<1>1. Folding(E, Good, a, f) /\ Folding(E, Good, b, f)
  BY DEF Folding, Frugal
<1>2. /\ \A u \in Good, e \in E : f[<<u, e>>] \in Good
      /\ \A u \in Good, e \in E :
            /\ u.found # "within" => f[<<u, e>>] = u
            /\ u.found = "within" /\ f[<<u, e>>].found = "within" =>
                  u.cached \subseteq f[<<u, e>>].cached
      /\ \A u \in Good, v \in Good, e \in E :
            u.found = "within" /\ Below(v, u) => Below(f[<<v, e>>], f[<<u, e>>])
  BY DEF Frugal
<1>3. /\ \A k \in 1..Len(t) : t[k] \in E
      /\ t \in Seq(E) /\ Len(t) = Len(t)
      /\ IsFoldOf(x, t, Good, a, f) /\ IsFoldOf(y, t, Good, b, f)
  OBVIOUS
<1>4. x \in Good /\ y \in Good /\ Below(y, x)
  <2> DEFINE R == {p \in Good \X Good : Below(p[2], p[1])}
  <2>1. <<a, b>> \in R
    OBVIOUS
  <2>2. ASSUME NEW k \in 1..Len(t), NEW u \in Good, NEW v \in Good, <<u, v>> \in R
        PROVE  <<f[<<u, t[k]>>], f[<<v, t[k]>>]>> \in R
    <3>1. Below(v, u) /\ t[k] \in E
      BY <1>3, <2>2
    <3>2. f[<<u, t[k]>>] \in Good /\ f[<<v, t[k]>>] \in Good
      BY <1>2, <3>1
    <3>3. Below(f[<<v, t[k]>>], f[<<u, t[k]>>])
      <4>1. CASE u.found = "within"
        BY <1>2, <3>1, <4>1
      <4>2. CASE u.found # "within"
        <5>1. f[<<u, t[k]>>] = u
          BY <1>2, <3>1, <4>2
        <5>2. CASE u.found \in {"budget", "ask"}
          BY <5>1, <5>2 DEF Below
        <5>3. CASE u.found \notin {"budget", "ask"}
          <6>1. v.found = u.found
            BY <3>1, <5>3 DEF Below
          <6>2. f[<<v, t[k]>>] = v
            BY <1>2, <3>1, <4>2, <6>1
          <6> QED
            BY <3>1, <5>1, <6>2
        <5> QED
          BY <5>2, <5>3
      <4> QED
        BY <4>1, <4>2
    <3> QED
      BY <3>2, <3>3
  <2> HIDE DEF R
  <2>3. <<x, y>> \in R /\ x \in Good /\ y \in Good
    BY ONLY <1>1, <1>3, <2>1, <2>2, FoldsRelate
  <2> QED
    BY <2>3 DEF R
<1>5. ASSUME a.found # "within" PROVE x = a
  <2> DEFINE P == {a}
  <2>1. \A u \in Good, k \in 1..Len(t) : u \in P => f[<<u, t[k]>>] \in P
    BY <1>2, <1>3, <1>5
  <2>2. a \in P
    OBVIOUS
  <2> HIDE DEF P
  <2>3. x \in P
    BY <1>1, <2>1, <2>2, FoldKeeps
  <2> QED
    BY <2>3 DEF P
<1>6. ASSUME x.found = "within" PROVE a.cached \subseteq x.cached
  <2> DEFINE P == {u \in Good : u.found = "within" => a.cached \subseteq u.cached}
  <2>1. ASSUME NEW u \in Good, NEW k \in 1..Len(t), u \in P
        PROVE  f[<<u, t[k]>>] \in P
    <3>1. t[k] \in E /\ f[<<u, t[k]>>] \in Good
      BY <1>2, <1>3
    <3>2. CASE u.found = "within"
      <4>1. a.cached \subseteq u.cached
        BY <2>1, <3>2
      <4>2. f[<<u, t[k]>>].found = "within" => u.cached \subseteq f[<<u, t[k]>>].cached
        BY <1>2, <3>1, <3>2
      <4> QED
        BY <3>1, <4>1, <4>2
    <3>3. CASE u.found # "within"
      <4>1. f[<<u, t[k]>>] = u
        BY <1>2, <3>1, <3>3
      <4> QED
        BY <2>1, <4>1
    <3> QED
      BY <3>2, <3>3
  <2>2. a \in P
    OBVIOUS
  <2> HIDE DEF P
  <2>3. x \in P
    BY <1>1, <2>1, <2>2, FoldKeeps
  <2> QED
    BY <1>6, <2>3 DEF P
<1> QED
  BY <1>4, <1>5, <1>6

\* A pass that comes through comes through every step.
LEMMA FrugalAll ==
    ASSUME NEW E, NEW f, Frugal(E, f), NEW a \in Good, NEW t \in Seq(E),
           NEW x, IsFoldOf(x, t, Good, a, f), x.found = "within", NEW k \in 1..Len(t)
    PROVE  \E u \in Good : u.found = "within" /\ f[<<u, t[k]>>].found = "within"
<1> DEFINE n == Len(t)
<1>0. n \in Nat /\ k \in 1..n /\ k - 1 \in 0..(n - 1) /\ (k - 1) + 1 = k
  OBVIOUS
<1>1. Folding(E, Good, a, f)
  BY DEF Folding, Frugal
<1>2. PICK s \in [0..Len(t) -> Good] :
         /\ s[0] = a /\ s[Len(t)] = x
         /\ \A j \in 0..(Len(t) - 1) : t[j + 1] \in E /\ s[j + 1] = f[<<s[j], t[j + 1]>>]
  BY <1>1, FoldRuns
<1>3. \A u \in Good, e \in E : u.found # "within" => f[<<u, e>>] = u
  BY DEF Frugal
<1> HIDE DEF n
<1>4. ASSUME NEW j \in 0..n, s[j].found # "within" PROVE FALSE
  <2> DEFINE P == {i \in Nat : j + i <= n => s[j + i].found # "within"}
  <2>1. 0 \in P
    BY <1>0, <1>4
  <2>2. ASSUME NEW i \in P PROVE i + 1 \in P
    <3> SUFFICES ASSUME j + (i + 1) <= n PROVE s[j + (i + 1)].found # "within"
      BY <1>0
    <3>1. i \in Nat /\ j + i \in 0..(Len(t) - 1) /\ (j + i) + 1 = j + (i + 1)
      BY <1>0 DEF n
    <3>2. s[j + i].found # "within" /\ s[j + i] \in Good
      <4>1. j + i <= n /\ j + i \in 0..Len(t)
        BY <1>0, <3>1 DEF n
      <4> QED
        BY <1>2, <4>1
    <3>3. s[(j + i) + 1] = s[j + i]
      BY <1>2, <1>3, <3>1, <3>2
    <3> QED
      BY <3>1, <3>2, <3>3
  <2> HIDE DEF P
  <2>3. P = Nat
    <3>1. P \in SUBSET Nat
      BY DEF P
    <3> QED
      BY <2>1, <2>2, <3>1, Induction
  <2>4. n - j \in P /\ j + (n - j) = n
    BY <1>0, <2>3
  <2> QED
    BY <1>0, <1>2, <2>4 DEF P, n
<1>5. s[k - 1].found = "within" /\ s[k].found = "within"
  <2>1. k - 1 \in 0..n /\ k \in 0..n
    BY <1>0
  <2> QED
    BY <1>4, <2>1
<1>6. s[k - 1] \in Good /\ s[k] = f[<<s[k - 1], t[k]>>]
  <2>1. k - 1 \in 0..(Len(t) - 1) /\ k - 1 \in 0..Len(t)
    BY <1>0 DEF n
  <2> QED
    BY <1>0, <1>2, <2>1
<1> QED
  BY <1>5, <1>6

------------------------------------
(* ProbeAll *)

ProbeOne(p, word) == IF p.found = "within" THEN Probe(p, word) ELSE p
ProbeEach(p, words) == FoldLeft(ProbeOne, p, words)
ProbeSteps == [x \in Good \X Words |-> ProbeOne(x[1], x[2])]

\* One word of a list.
LEMMA ProbeTyped == \A p \in Good, word \in Words : ProbeOne(p, word) \in Good
<1> SUFFICES ASSUME NEW p \in Good, NEW word \in Words PROVE ProbeOne(p, word) \in Good
  OBVIOUS
<1>1. CASE p.found = "within"
  <2>1. Probe(p, word) \in Probes /\ (Probe(p, word).found # "budget" => Paid(Probe(p, word)))
    BY <1>1, GoodParts, ProbeAnswers
  <2> QED
    BY <1>1, <2>1 DEF Good, ProbeOne
<1>2. CASE p.found # "within"
  BY <1>2 DEF ProbeOne
<1> QED
  BY <1>1, <1>2

\* The probes of a list of candidates, one by one.
LEMMA ProbeFold ==
    ASSUME NEW words \in Seq(Words), NEW p \in Good
    PROVE  /\ Folding(Words, Good, p, ProbeSteps)
           /\ IsFoldOf(ProbeEach(p, words), words, Good, p, ProbeSteps)
<1> DEFINE n == Len(words)
           Folds(g) == g = [s \in SUBSET (1..n) |->
                               IF s = {} THEN p
                               ELSE ProbeOne(g[s \ {Max(s)}], words[Max(s)])]
           iter == CHOOSE g : Folds(g)
<1>1. n \in Nat /\ DOMAIN words = 1..n
  OBVIOUS
<1>2. ProbeEach(p, words) = iter[1..n]
  BY <1>1 DEF ProbeEach, FoldLeft, MapThenFoldSet
<1>3. /\ Folding(Words, Good, p, ProbeSteps)
      /\ \A x \in Good, e \in Words : ProbeSteps[<<x, e>>] = ProbeOne(x, e)
  BY ProbeTyped DEF Folding, ProbeSteps
<1>4. Folds(iter)
  <2>1. PICK g : Defines(g, words, Words, Good, p, ProbeSteps)
    BY <1>3, FoldIsDefined
  <2>2. \A s \in SUBSET (1..n) : s # {} => g[s] = ProbeOne(g[s \ {Max(s)}], words[Max(s)])
    BY <1>3, <2>1 DEF Defines
  <2>3. Folds(g)
    <3>1. g \in [SUBSET (1..n) -> Good] /\ g[{}] = p
      BY <2>1 DEF Defines
    <3> HIDE DEF n
    <3> QED
      BY <2>2, <3>1
  <2> HIDE DEF Folds
  <2> QED
    BY <2>3
<1> HIDE DEF iter
<1>5. FoldsTo(iter, words, Good, p, ProbeSteps)
  <2>1. iter[{}] = p
    BY <1>4
  <2>2. ASSUME NEW s \in SUBSET (1..n), s # {}, iter[s \ {Max(s)}] \in Good
        PROVE  iter[s] = ProbeSteps[<<iter[s \ {Max(s)}], words[Max(s)]>>]
    <3>1. Max(s) \in 1..n
      <4>1. s \in SUBSET (1..(n + 1))
        BY <1>1
      <4> QED
        BY <1>1, <2>2, <4>1, MaxOfPositions
    <3>2. words[Max(s)] \in Words
      BY <3>1
    <3>3. iter[s] = ProbeOne(iter[s \ {Max(s)}], words[Max(s)])
      <4> HIDE DEF n
      <4> QED
        BY <1>4, <2>2
    <3> QED
      BY <1>3, <2>2, <3>2, <3>3
  <2> QED
    BY <2>1, <2>2 DEF FoldsTo
<1> HIDE DEF n
<1>6. IsFoldOf(ProbeEach(p, words), words, Good, p, ProbeSteps)
  BY <1>2, <1>5 DEF n, IsFoldOf
<1> QED
  BY <1>3, <1>6

\* A list of words is judged alike from both.
LEMMA ProbeIsFrugal == Frugal(Words, ProbeSteps)
<1>1. ProbeSteps \in [Good \X Words -> Good]
  BY ProbeTyped DEF ProbeSteps
<1>2. ASSUME NEW a \in Good, NEW word \in Words
      PROVE  /\ ProbeSteps[<<a, word>>] = ProbeOne(a, word)
             /\ a.found # "within" => ProbeOne(a, word) = a
             /\ a.found = "within" =>
                   /\ Paid(a) /\ a \in Probes
                   /\ ProbeOne(a, word).found = "budget" <=> ~Affordable(a.cached \cup {Fact(word)})
                   /\ ProbeOne(a, word).found # "budget" =>
                         /\ ProbeOne(a, word).found = Answer(word).found
                         /\ ProbeOne(a, word).cached = a.cached \cup {Fact(word)}
  BY GoodParts, ProbeAnswers DEF ProbeSteps, ProbeOne
<1>3. ASSUME NEW a \in Good, NEW b \in Good, NEW word \in Words,
             a.found = "within", Below(b, a)
      PROVE  Below(ProbeOne(b, word), ProbeOne(a, word))
  <2>1. b.found = "within" /\ b.cached \subseteq a.cached
    BY <1>3 DEF Below
  <2>2. CASE ProbeOne(a, word).found = "budget"
    BY <2>2 DEF Below
  <2>3. CASE ProbeOne(a, word).found # "budget"
    <3>1. Affordable(a.cached \cup {Fact(word)})
      BY <1>2, <1>3, <2>3
    <3>2. b.cached \cup {Fact(word)} \in SUBSET (a.cached \cup {Fact(word)})
      BY <2>1
    <3>3. Affordable(b.cached \cup {Fact(word)})
      BY <3>1, <3>2, AffordableLess
    <3>4. /\ ProbeOne(a, word).found = Answer(word).found
          /\ ProbeOne(a, word).cached = a.cached \cup {Fact(word)}
      BY <1>2, <1>3, <2>3
    <3>5. ProbeOne(b, word).found # "budget"
      BY <1>2, <2>1, <3>3
    <3>6. /\ ProbeOne(b, word).found = Answer(word).found
          /\ ProbeOne(b, word).cached = b.cached \cup {Fact(word)}
      BY <1>2, <2>1, <3>5
    <3> QED
      BY <3>2, <3>4, <3>6 DEF Below
  <2> QED
    BY <2>2, <2>3
<1>4. ASSUME NEW a \in Good, NEW word \in Words, a.found = "within",
             ProbeOne(a, word).found = "within"
      PROVE  a.cached \subseteq ProbeOne(a, word).cached
  <2>1. ProbeOne(a, word).cached = a.cached \cup {Fact(word)}
    BY <1>2, <1>4
  <2> QED
    BY <2>1
<1>5. \A a \in Good, word \in Words :
         /\ a.found # "within" => ProbeSteps[<<a, word>>] = a
         /\ a.found = "within" /\ ProbeSteps[<<a, word>>].found = "within" =>
               a.cached \subseteq ProbeSteps[<<a, word>>].cached
  <2> TAKE a \in Good, word \in Words
  <2>1. ProbeSteps[<<a, word>>] = ProbeOne(a, word)
    BY <1>2
  <2>2. a.found # "within" => ProbeOne(a, word) = a
    BY <1>2
  <2>3. a.found = "within" /\ ProbeOne(a, word).found = "within" =>
           a.cached \subseteq ProbeOne(a, word).cached
    BY <1>4
  <2> QED
    BY ONLY <2>1, <2>2, <2>3
<1>6. ASSUME NEW a \in Good, NEW b \in Good, NEW word \in Words,
             a.found = "within", Below(b, a)
      PROVE  Below(ProbeSteps[<<b, word>>], ProbeSteps[<<a, word>>])
  <2>1. ProbeSteps[<<a, word>>] = ProbeOne(a, word) /\ ProbeSteps[<<b, word>>] = ProbeOne(b, word)
    BY <1>2
  <2> QED
    BY <1>3, <1>6, <2>1
<1> QED
  BY <1>1, <1>5, <1>6 DEF Frugal

\* ProbeAll, from two states of the budget.
LEMMA ProbesOfAll ==
    ASSUME NEW a \in Good, NEW b \in Good, a.found = "within", Below(b, a),
           NEW words \in Seq(Words)
    PROVE  LET x == ProbeAll(a, words)
               y == ProbeAll(b, words)
           IN  /\ x \in Good /\ y \in Good /\ Below(y, x)
               /\ x.found \in {"within", "escapes", "budget"}
               /\ x.found = "within" =>
                     /\ a.cached \subseteq x.cached
                     /\ \A k \in 1..Len(words) : Answer(words[k]).found = "within"
<1> DEFINE x == ProbeEach(a, words)
           y == ProbeEach(b, words)
<1>1. b.found = "within"
  BY DEF Below
<1>2. /\ [a EXCEPT !.found = "within"] = a
      /\ [b EXCEPT !.found = "within"] = b
  BY <1>1, GoodParts DEF Probes
<1>3. ProbeAll(a, words) = x /\ ProbeAll(b, words) = y
  BY <1>2 DEF ProbeAll, ProbeEach, ProbeOne
<1>4. /\ IsFoldOf(x, words, Good, a, ProbeSteps) /\ Folding(Words, Good, a, ProbeSteps)
      /\ IsFoldOf(y, words, Good, b, ProbeSteps)
  BY ProbeFold
<1> HIDE DEF x, y
<1>5. x \in Good /\ y \in Good /\ Below(y, x) /\ (x.found = "within" => a.cached \subseteq x.cached)
  BY <1>4, ProbeIsFrugal, FrugalFold
<1>6. ASSUME NEW u \in Good, NEW word \in Words
      PROVE  /\ ProbeSteps[<<u, word>>] = ProbeOne(u, word)
             /\ u.found \in {"within", "escapes", "budget"} =>
                   ProbeOne(u, word).found \in {"within", "escapes", "budget"}
             /\ u.found = "within" /\ ProbeOne(u, word).found = "within" =>
                   Answer(word).found = "within"
  BY GoodParts, ProbeAnswers DEF ProbeSteps, ProbeOne
<1>7. x.found \in {"within", "escapes", "budget"}
  <2> DEFINE P == {u \in Good : u.found \in {"within", "escapes", "budget"}}
  <2>1. ASSUME NEW u \in Good, NEW k \in 1..Len(words), u \in P
        PROVE  ProbeSteps[<<u, words[k]>>] \in P
    <3>1. words[k] \in Words
      OBVIOUS
    <3>2. ProbeOne(u, words[k]) \in Good
      BY <3>1, ProbeTyped
    <3> QED
      BY <1>6, <2>1, <3>1, <3>2
  <2>2. a \in P
    OBVIOUS
  <2> HIDE DEF P
  <2>3. x \in P
    BY <1>4, <2>1, <2>2, FoldKeeps
  <2> QED
    BY <2>3 DEF P
<1>8. ASSUME x.found = "within", NEW k \in 1..Len(words) PROVE Answer(words[k]).found = "within"
  <2>1. words[k] \in Words
    OBVIOUS
  <2>2. IsFoldOf(x, words, Good, a, ProbeSteps)
    BY ONLY <1>4
  <2>3. PICK u \in Good : u.found = "within" /\ ProbeSteps[<<u, words[k]>>].found = "within"
    BY ONLY <2>2, <1>8, a \in Good, words \in Seq(Words), ProbeIsFrugal, FrugalAll
  <2> QED
    BY ONLY <1>6, <2>1, <2>3
<1> QED
  BY <1>3, <1>5, <1>7, <1>8

------------------------------------
(* unwrap_transparent_command_wrappers *)

Commands == {words \in Seq(Words) : words # <<>>}
Wraps(words) == program_basename(words[1]) \in {"command", "exec", "env"}
Wrappers == {words \in Commands : Wraps(words)}

Scans(words) == [at : {"options", "value", "ended", "done"}, ok : BOOLEAN, index : 0..Len(words)]
NotFound == [at |-> "options", ok |-> TRUE, index |-> 0]
ScanFrom(positions, words) == FoldLeft(LAMBDA scan, i : ScanWord(scan, i, words), NotFound, positions)
ScanSteps(words) == [x \in Scans(words) \X (2..Len(words)) |-> ScanWord(x[1], x[2], words)]

\* One word of the scan.
LEMMA ScanTyped ==
    ASSUME NEW words \in Wrappers
    PROVE  /\ NotFound \in Scans(words)
           /\ \A scan \in Scans(words), i \in 2..Len(words) : ScanWord(scan, i, words) \in Scans(words)
<1>0. Len(words) \in Nat
  BY DEF Wrappers, Commands
<1>1. NotFound \in Scans(words)
  BY <1>0 DEF NotFound, Scans
<1>2. ASSUME NEW scan \in Scans(words), NEW i \in 2..Len(words)
      PROVE  ScanWord(scan, i, words) \in Scans(words)
  <2> DEFINE w == WrapperWord(program_basename(words[1]), words[i])
             Found(index, ok) == [at |-> "done", ok |-> ok, index |-> index]
             After(at) == [at |-> at, ok |-> TRUE, index |-> 0]
  <2>1. w \in {"end", "flag", "flag_with_value", "stop", "unsupported", "program"}
    <3>1. program_basename(words[1]) \in {"command", "exec", "env"}
      BY DEF Wrappers, Wraps
    <3> DEFINE word == words[i]
    <3> HIDE DEF word
    <3>2. command_word(word) \in {"end", "flag", "stop", "unsupported", "program"}
      BY DEF command_word
    <3>3. exec_word(word) \in {"end", "flag", "flag_with_value", "unsupported", "program"}
      BY DEF exec_word
    <3>4. env_word(word) \in {"end", "flag", "flag_with_value", "stop", "unsupported", "program"}
      BY DEF env_word
    <3> DEFINE name == program_basename(words[1])
    <3> HIDE DEF name
    <3>5. WrapperWord(name, word) \in {"end", "flag", "flag_with_value", "stop", "unsupported", "program"}
      <4>1. name \in {"command", "exec", "env"}
        BY <3>1 DEF name
      <4> QED
        BY <3>2, <3>3, <3>4, <4>1 DEF WrapperWord
    <3> QED
      BY <3>5 DEF name, word
  <2>2. /\ \A at \in {"options", "value", "ended"} : After(at) \in Scans(words)
        /\ Found(0, TRUE) \in Scans(words) /\ Found(0, FALSE) \in Scans(words)
        /\ Found(i, TRUE) \in Scans(words)
    BY <1>0 DEF Scans
  <2>3. scan.at \in {"options", "value", "ended", "done"}
    BY DEF Scans
  <2> HIDE DEF w, Found, After
  <2>4. ScanWord(scan, i, words) \in {scan, After("options"), After("ended"), After("value"),
                                      Found(0, TRUE), Found(0, FALSE), Found(i, TRUE)}
    BY <2>1, <2>3 DEF ScanWord, w, Found, After
  <2> QED
    BY <2>2, <2>4
<1> QED
  BY <1>1, <1>2

\* The scan for the wrapped program, word by word.
LEMMA ScanFold ==
    ASSUME NEW words \in Wrappers, NEW positions \in Seq(2..Len(words))
    PROVE  /\ Folding(2..Len(words), Scans(words), NotFound, ScanSteps(words))
           /\ IsFoldOf(ScanFrom(positions, words), positions, Scans(words), NotFound, ScanSteps(words))
<1> DEFINE n == Len(positions)
           Folds(g) == g = [s \in SUBSET (1..n) |->
                               IF s = {} THEN NotFound
                               ELSE ScanWord(g[s \ {Max(s)}], positions[Max(s)], words)]
           iter == CHOOSE g : Folds(g)
<1>1. n \in Nat /\ DOMAIN positions = 1..n
  OBVIOUS
<1>2. ScanFrom(positions, words) = iter[1..n]
  BY <1>1 DEF ScanFrom, FoldLeft, MapThenFoldSet
<1>3. /\ Folding(2..Len(words), Scans(words), NotFound, ScanSteps(words))
      /\ \A x \in Scans(words), e \in 2..Len(words) : ScanSteps(words)[<<x, e>>] = ScanWord(x, e, words)
  BY ScanTyped DEF Folding, ScanSteps
<1>4. Folds(iter)
  <2>1. PICK g : Defines(g, positions, 2..Len(words), Scans(words), NotFound, ScanSteps(words))
    BY <1>3, FoldIsDefined
  <2>2. \A s \in SUBSET (1..n) : s # {} => g[s] = ScanWord(g[s \ {Max(s)}], positions[Max(s)], words)
    BY <1>3, <2>1 DEF Defines
  <2>3. Folds(g)
    <3>1. g \in [SUBSET (1..n) -> Scans(words)] /\ g[{}] = NotFound
      BY <2>1 DEF Defines
    <3> HIDE DEF n
    <3> QED
      BY <2>2, <3>1
  <2> HIDE DEF Folds
  <2> QED
    BY <2>3
<1> HIDE DEF iter
<1>5. FoldsTo(iter, positions, Scans(words), NotFound, ScanSteps(words))
  <2>1. iter[{}] = NotFound
    BY <1>4
  <2>2. ASSUME NEW s \in SUBSET (1..n), s # {}, iter[s \ {Max(s)}] \in Scans(words)
        PROVE  iter[s] = ScanSteps(words)[<<iter[s \ {Max(s)}], positions[Max(s)]>>]
    <3>1. Max(s) \in 1..n
      <4>1. s \in SUBSET (1..(n + 1))
        BY <1>1
      <4> QED
        BY <1>1, <2>2, <4>1, MaxOfPositions
    <3>2. positions[Max(s)] \in 2..Len(words)
      BY <3>1
    <3>3. iter[s] = ScanWord(iter[s \ {Max(s)}], positions[Max(s)], words)
      <4> HIDE DEF n
      <4> QED
        BY <1>4, <2>2
    <3> QED
      BY <1>3, <2>2, <3>2, <3>3
  <2> QED
    BY <2>1, <2>2 DEF FoldsTo
<1> HIDE DEF n
<1>6. IsFoldOf(ScanFrom(positions, words), positions, Scans(words), NotFound, ScanSteps(words))
  BY <1>2, <1>5 DEF n, IsFoldOf
<1> QED
  BY <1>3, <1>6

\* The scan finds a position, or none.
LEMMA WrappedTyped ==
    ASSUME NEW words \in Wrappers PROVE WrappedProgram(words) \in Scans(words)
<1> DEFINE t == [i \in 1 .. (Len(words) - 1) |-> i + 1]
<1>1. Len(words) - 1 \in Nat
  BY DEF Wrappers, Commands
<1>2. t \in Seq(2..Len(words))
  BY <1>1
<1>3. WrappedProgram(words) = ScanFrom(t, words)
  BY DEF WrappedProgram, ScanFrom, NotFound
<1> HIDE DEF t
<1>4. /\ Folding(2..Len(words), Scans(words), NotFound, ScanSteps(words))
      /\ IsFoldOf(ScanFrom(t, words), t, Scans(words), NotFound, ScanSteps(words))
  BY <1>2, ScanFold
<1> DEFINE P == Scans(words)
<1>5. NotFound \in P /\ \A s \in Scans(words), k \in 1..Len(t) : s \in P => ScanSteps(words)[<<s, t[k]>>] \in P
  <2>1. \A k \in 1..Len(t) : t[k] \in 2..Len(words)
    BY <1>2
  <2> QED
    BY <1>4, <2>1 DEF Folding
<1> HIDE DEF P
<1>6. ScanFrom(t, words) \in Scans(words)
  BY <1>2, <1>4, <1>5, FoldKeeps
<1> QED
  BY <1>3, <1>6

\* Taking off wrappers, one by one.
Unwraps == [done : BOOLEAN, words : Seq(Words)]
Depths == 0..MAX_TRANSPARENT_WRAPPER_DEPTH
UnwrapOne(u, depth) ==
    IF u.done \/ u.words = <<>> \/ program_basename(u.words[1]) \notin {"command", "exec", "env"}
    THEN [u EXCEPT !.done = TRUE]
    ELSE Unwrap(u.words, WrappedProgram(u.words), depth)
UnwrapFrom(u, depths) == FoldLeft(UnwrapOne, u, depths)
UnwrapSteps == [x \in Unwraps \X Depths |-> UnwrapOne(x[1], x[2])]

\* One wrapper.
LEMMA UnwrapTyped == \A u \in Unwraps, depth \in Depths : UnwrapOne(u, depth) \in Unwraps
<1> SUFFICES ASSUME NEW u \in Unwraps, NEW depth \in Depths PROVE UnwrapOne(u, depth) \in Unwraps
  OBVIOUS
<1> DEFINE stops == u.done \/ u.words = <<>>
                    \/ program_basename(u.words[1]) \notin {"command", "exec", "env"}
<1>1. CASE stops
  <2>1. UnwrapOne(u, depth) = [u EXCEPT !.done = TRUE]
    BY <1>1 DEF UnwrapOne
  <2> QED
    BY <2>1 DEF Unwraps
<1>2. CASE ~stops
  <2>1. UnwrapOne(u, depth) = Unwrap(u.words, WrappedProgram(u.words), depth)
    BY <1>2 DEF UnwrapOne
  <2>2. u.words \in Wrappers /\ u.words \in Seq(Words)
    BY <1>2 DEF Unwraps, Wrappers, Commands, Wraps
  <2> DEFINE words == u.words
             found == WrappedProgram(words)
  <2>3. found.ok \in BOOLEAN /\ found.index \in 0..Len(words)
    BY <2>2, WrappedTyped DEF Scans
  <2>4. found.index # 0 => SubSeq(words, found.index, Len(words)) \in Seq(Words)
    BY <2>2, <2>3
  <2> HIDE DEF found, words
  <2>5. <<>> \in Seq(Words) /\ words \in Seq(Words)
    BY <2>2 DEF words
  <2>6. Unwrap(words, found, depth) \in Unwraps
    BY <2>3, <2>4, <2>5 DEF Unwrap, Unwraps
  <2> QED
    BY <2>1, <2>6 DEF words, found
<1> QED
  BY <1>1, <1>2

\* The wrappers, one by one.
LEMMA UnwrapFold ==
    ASSUME NEW depths \in Seq(Depths), NEW u \in Unwraps
    PROVE  /\ Folding(Depths, Unwraps, u, UnwrapSteps)
           /\ IsFoldOf(UnwrapFrom(u, depths), depths, Unwraps, u, UnwrapSteps)
<1> DEFINE n == Len(depths)
           Folds(g) == g = [s \in SUBSET (1..n) |->
                               IF s = {} THEN u
                               ELSE UnwrapOne(g[s \ {Max(s)}], depths[Max(s)])]
           iter == CHOOSE g : Folds(g)
<1>1. n \in Nat /\ DOMAIN depths = 1..n
  OBVIOUS
<1>2. UnwrapFrom(u, depths) = iter[1..n]
  BY <1>1 DEF UnwrapFrom, FoldLeft, MapThenFoldSet
<1>3. /\ Folding(Depths, Unwraps, u, UnwrapSteps)
      /\ \A x \in Unwraps, e \in Depths : UnwrapSteps[<<x, e>>] = UnwrapOne(x, e)
  BY UnwrapTyped DEF Folding, UnwrapSteps
<1>4. Folds(iter)
  <2>1. PICK g : Defines(g, depths, Depths, Unwraps, u, UnwrapSteps)
    BY <1>3, FoldIsDefined
  <2>2. \A s \in SUBSET (1..n) : s # {} => g[s] = UnwrapOne(g[s \ {Max(s)}], depths[Max(s)])
    BY <1>3, <2>1 DEF Defines
  <2>3. Folds(g)
    <3>1. g \in [SUBSET (1..n) -> Unwraps] /\ g[{}] = u
      BY <2>1 DEF Defines
    <3> HIDE DEF n
    <3> QED
      BY <2>2, <3>1
  <2> HIDE DEF Folds
  <2> QED
    BY <2>3
<1> HIDE DEF iter
<1>5. FoldsTo(iter, depths, Unwraps, u, UnwrapSteps)
  <2>1. iter[{}] = u
    BY <1>4
  <2>2. ASSUME NEW s \in SUBSET (1..n), s # {}, iter[s \ {Max(s)}] \in Unwraps
        PROVE  iter[s] = UnwrapSteps[<<iter[s \ {Max(s)}], depths[Max(s)]>>]
    <3>1. Max(s) \in 1..n
      <4>1. s \in SUBSET (1..(n + 1))
        BY <1>1
      <4> QED
        BY <1>1, <2>2, <4>1, MaxOfPositions
    <3>2. depths[Max(s)] \in Depths
      BY <3>1
    <3>3. iter[s] = UnwrapOne(iter[s \ {Max(s)}], depths[Max(s)])
      <4> HIDE DEF n
      <4> QED
        BY <1>4, <2>2
    <3> QED
      BY <1>3, <2>2, <3>2, <3>3
  <2> QED
    BY <2>1, <2>2 DEF FoldsTo
<1> HIDE DEF n
<1>6. IsFoldOf(UnwrapFrom(u, depths), depths, Unwraps, u, UnwrapSteps)
  BY <1>2, <1>5 DEF n, IsFoldOf
<1> QED
  BY <1>3, <1>6

\* What is behind the wrappers is made of words.
LEMMA UnwrappedTyped ==
    ASSUME NEW words \in Seq(Words)
    PROVE  unwrap_transparent_command_wrappers(words) \in Seq(Words)
<1> DEFINE t == [d \in 1 .. (MAX_TRANSPARENT_WRAPPER_DEPTH + 1) |-> d - 1]
           u == [done |-> FALSE, words |-> words]
<1>1. t \in Seq(Depths) /\ u \in Unwraps
  BY PolicyLimitsAssumption DEF Depths, Unwraps
<1>2. unwrap_transparent_command_wrappers(words) = UnwrapFrom(u, t).words
  BY DEF unwrap_transparent_command_wrappers, UnwrapFrom, UnwrapOne
<1> HIDE DEF t, u
<1>4. /\ Folding(Depths, Unwraps, u, UnwrapSteps)
      /\ IsFoldOf(UnwrapFrom(u, t), t, Unwraps, u, UnwrapSteps)
  BY <1>1, UnwrapFold
<1> DEFINE P == Unwraps
<1>5. u \in P /\ \A s \in Unwraps, k \in 1..Len(t) : s \in P => UnwrapSteps[<<s, t[k]>>] \in P
  <2>1. \A k \in 1..Len(t) : t[k] \in Depths
    BY <1>1
  <2> QED
    BY <1>4, <2>1 DEF Folding
<1> HIDE DEF P
<1>6. UnwrapFrom(u, t) \in Unwraps
  BY <1>1, <1>4, <1>5, FoldKeeps
<1> QED
  BY <1>2, <1>6 DEF Unwraps

\* What becomes of a probe that is judged.
LEMMA Outcome ==
    ASSUME NEW q \in Good, NEW v \in {"within", "ask", "reject"}, v = "within" => q.found = "within"
    PROVE  /\ [q EXCEPT !.found = v] \in Good
           /\ [q EXCEPT !.found = v].found = v
           /\ [q EXCEPT !.found = v].cached = q.cached
<1> DEFINE r == [q EXCEPT !.found = v]
<1>1. q \in Probes /\ (q.found = "within" => Paid(q))
  BY GoodParts
<1>2. /\ r \in Probes /\ r.found = v /\ r.cached = q.cached
      /\ r.candidates = q.candidates /\ r.inspections = q.inspections
  BY <1>1 DEF Probes
<1> HIDE DEF r
<1>3. r \in Good
  BY <1>1, <1>2 DEF Good, Paid
<1> QED
  BY <1>2, <1>3 DEF r

------------------------------------
(* classify_hard_rejection *)

HardOne(p, words) == IF p.found = "within" THEN classify_hard_rejection(words, p) ELSE p
HardFrom(p, commands) == FoldLeft(HardOne, p, commands)
HardSteps == [x \in Good \X Commands |-> HardOne(x[1], x[2])]

\* What a rejection depends on besides the probe of a cd.
Rejects(invocation) ==
    \/ invocation = <<>>
    \/ program_basename(invocation[1]) \in {"sudo", "doas", "su"}
    \/ command_mutates_filesystem_root(invocation)

\* A command, from two states of the budget.
LEMMA HardAnswers ==
    ASSUME NEW a \in Good, NEW b \in Good, a.found = "within", Below(b, a), NEW words \in Commands
    PROVE  LET x == classify_hard_rejection(words, a)
               y == classify_hard_rejection(words, b)
           IN  /\ x \in Good /\ y \in Good /\ Below(y, x)
               /\ x.found \in {"within", "reject", "ask"}
               /\ x.found = "within" => a.cached \subseteq x.cached
<1> DEFINE x == classify_hard_rejection(words, a)
           y == classify_hard_rejection(words, b)
           inv == unwrap_transparent_command_wrappers(words)
           X == ProbeAll(a, At(inv, 2))
           Y == ProbeAll(b, At(inv, 2))
           Verdict(found) == CASE found = "escapes" -> "reject"
                               [] found = "budget" -> "ask"
                               [] OTHER -> found
<1>0. b.found = "within" /\ b.cached \subseteq a.cached
  BY DEF Below
<1>1. inv \in Seq(Words) /\ At(inv, 2) \in Seq(Words)
  <2>1. inv \in Seq(Words)
    BY UnwrappedTyped DEF Commands
  <2> HIDE DEF inv
  <2> QED
    BY <2>1 DEF At
<1>2. /\ x = HardRejection(inv, a)
      /\ y = HardRejection(inv, b)
  BY DEF classify_hard_rejection
<1> HIDE DEF x, y, inv
<1>3. CASE Rejects(inv)
  <2>1. x = [a EXCEPT !.found = "reject"] /\ y = [b EXCEPT !.found = "reject"]
    BY <1>2, <1>3 DEF HardRejection, Rejects
  <2>2. x \in Good /\ x.found = "reject" /\ y \in Good /\ y.found = "reject"
    BY <2>1, Outcome
  <2> QED
    BY <2>2 DEF Below, x, y
<1>4. CASE ~Rejects(inv) /\ inv[1] = "cd"
  <2>1. /\ x = [X EXCEPT !.found = Verdict(@)]
        /\ y = [Y EXCEPT !.found = Verdict(@)]
    BY <1>2, <1>4 DEF HardRejection, Rejects
  <2>2. /\ X \in Good /\ Y \in Good /\ Below(Y, X)
        /\ X.found \in {"within", "escapes", "budget"}
        /\ X.found = "within" => a.cached \subseteq X.cached
    BY <1>1, ProbesOfAll
  <2>3. Y.found \in {"within", "escapes", "budget"}
    <3>1. Below(b, b)
      BY DEF Below
    <3> QED
      BY <1>0, <1>1, <3>1, ProbesOfAll
  <2> HIDE DEF X, Y
  <2>4. /\ Verdict(X.found) \in {"within", "ask", "reject"}
        /\ Verdict(X.found) = "within" <=> X.found = "within"
        /\ Verdict(X.found) = "ask" <=> X.found = "budget"
        /\ Verdict(Y.found) \in {"within", "ask", "reject"}
        /\ Verdict(Y.found) = "within" <=> Y.found = "within"
    BY <2>2, <2>3
  <2>5. X.found = Y.found => Verdict(X.found) = Verdict(Y.found)
    OBVIOUS
  <2> DEFINE v == Verdict(X.found)
             u == Verdict(Y.found)
  <2>6. x = [X EXCEPT !.found = v] /\ y = [Y EXCEPT !.found = u]
    <3>1. X \in Probes /\ Y \in Probes
      BY <2>2, GoodParts
    <3> QED
      BY <2>1, <3>1 DEF Probes
  <2>v. /\ v \in {"within", "ask", "reject"} /\ (v = "within" => X.found = "within")
        /\ u \in {"within", "ask", "reject"} /\ (u = "within" => Y.found = "within")
    BY <2>4
  <2> HIDE DEF u, v, Verdict
  <2>7. /\ x \in Good /\ x.found = v /\ x.cached = X.cached
        /\ y \in Good /\ y.found = u /\ y.cached = Y.cached
    <3>1. /\ [X EXCEPT !.found = v] \in Good
          /\ [X EXCEPT !.found = v].found = v /\ [X EXCEPT !.found = v].cached = X.cached
      BY ONLY <2>2, <2>v, Outcome
    <3>2. /\ [Y EXCEPT !.found = u] \in Good
          /\ [Y EXCEPT !.found = u].found = u /\ [Y EXCEPT !.found = u].cached = Y.cached
      BY ONLY <2>2, <2>v, Outcome
    <3> QED
      BY ONLY <2>6, <3>1, <3>2
  <2>8. Below(y, x)
    BY <2>2, <2>4, <2>5, <2>7 DEF Below, u, v
  <2> QED
    BY <2>2, <2>4, <2>7, <2>8 DEF u, v, x, y
<1>5. CASE ~Rejects(inv) /\ inv[1] # "cd"
  <2>1. a \in Probes /\ b \in Probes
    BY GoodParts
  <2>2. [a EXCEPT !.found = "within"] = a /\ [b EXCEPT !.found = "within"] = b
    BY <1>0, <2>1 DEF Probes
  <2>3. /\ x = [a EXCEPT !.found = Verdict(@)]
        /\ y = [b EXCEPT !.found = Verdict(@)]
    BY <1>2, <1>5, <2>2 DEF HardRejection, Rejects
  <2>4. x = a /\ y = b
    BY <1>0, <2>1, <2>2, <2>3 DEF Probes
  <2> QED
    BY <2>4 DEF x, y
<1> QED
  BY <1>3, <1>4, <1>5

------------------------------------
(* The words that name paths *)

Listed(words, word) == \E m \in 1..Len(words) : words[m] = word

\* Words are texts, and so are the values attached to them.
LEMMA WordsAreNames ==
    /\ Words \subseteq CharSet /\ Seq(Words) \subseteq Texts
    /\ \A word \in Words :
          /\ value(word) \in Words /\ list(word) \in Seq(Words)
          /\ \A option \in PathOptions : attached(word, option) \in Words
<1>1. /\ Words \subseteq CharSet
      /\ \A word \in Words :
            /\ value(word) \in Words /\ list(word) \in Seq(Words)
            /\ \A option \in PathOptions : attached(word, option) \in Words
  BY LexiconAssumption DEF Words, CharSet
<1>2. Seq(Words) \subseteq Texts
  <2> HIDE DEF CharSet
  <2> QED
    BY ONLY <1>1 DEF Texts
<1> QED
  BY <1>1, <1>2

\* Lists put together have what each of them has.
LEMMA FlattenWords ==
    ASSUME NEW parts \in Seq(Seq(Words))
    PROVE  /\ FlattenSeq(parts) \in Seq(Words)
           /\ \A i \in 1..Len(parts), j \in Nat :
                 j \in 1..Len(parts[i]) => Listed(FlattenSeq(parts), parts[i][j])
<1> DEFINE n == Len(parts)
<1>0. n \in Nat /\ \A i \in 1..n : parts[i] \in Seq(Words)
  OBVIOUS
<1>1. parts \in Seq(Texts)
  <2> HIDE DEF n
  <2> QED
    BY WordsAreNames
<1>2. PICK a \in [0..n -> Texts] :
         /\ a[0] = <<>>
         /\ \A k \in 0..(n - 1) : a[k + 1] = a[k] \o parts[k + 1]
         /\ FlattenSeq(parts) = a[n]
  BY <1>1, FlattenSteps
<1> HIDE DEF n
<1> DEFINE Collects(k) == /\ a[k] \in Seq(Words)
                     /\ \A i \in 1..k, j \in Nat : j \in 1..Len(parts[i]) => Listed(a[k], parts[i][j])
           P == {k \in Nat : k <= n => Collects(k)}
<1>3. 0 \in P
  <2>1. a[0] \in Seq(Words)
    BY <1>2
  <2>2. \A i \in 1..0 : FALSE
    OBVIOUS
  <2> QED
    BY <2>1, <2>2
<1>4. ASSUME NEW k \in P PROVE k + 1 \in P
  <2> SUFFICES ASSUME k + 1 <= n PROVE Collects(k + 1)
    OBVIOUS
  <2>1. k \in Nat /\ k \in 0..(n - 1) /\ k + 1 \in 1..n /\ k <= n
    BY <1>0
  <2>2. Collects(k)
    BY <2>1
  <2> DEFINE s == a[k]
             t == parts[k + 1]
             more == a[k + 1]
  <2>3. more = s \o t /\ s \in Seq(Words) /\ t \in Seq(Words)
    BY <1>0, <1>2, <2>1, <2>2
  <2> HIDE DEF s, t, more
  <2>4. /\ more \in Seq(Words) /\ Len(s) \in Nat /\ Len(t) \in Nat /\ Len(more) = Len(s) + Len(t)
        /\ \A m \in 1..Len(s) : more[m] = s[m]
        /\ \A m \in 1..Len(t) : more[Len(s) + m] = t[m]
    BY ONLY <2>3
  <2>5. ASSUME NEW i \in 1..(k + 1), NEW j \in Nat, j \in 1..Len(parts[i])
        PROVE  Listed(more, parts[i][j])
    <3>1. CASE i = k + 1
      <4>1. parts[i][j] = t[j] /\ j \in 1..Len(t)
        BY <2>5, <3>1 DEF t
      <4>2. Len(s) + j \in 1..Len(more) /\ more[Len(s) + j] = t[j]
        BY <2>4, <4>1
      <4> QED
        BY ONLY <4>1, <4>2, Zenon DEF Listed
    <3>2. CASE i # k + 1
      <4>1. i \in 1..k
        BY <2>1, <3>2
      <4>2. Listed(s, parts[i][j])
        BY <2>2, <2>5, <4>1 DEF s
      <4>3. PICK m \in 1..Len(s) : s[m] = parts[i][j]
        BY <4>2 DEF Listed
      <4>4. m \in 1..Len(more) /\ more[m] = s[m]
        BY <2>4, <4>3
      <4> QED
        BY ONLY <4>3, <4>4, Zenon DEF Listed
    <3> QED
      BY <3>1, <3>2
  <2> QED
    BY <2>4, <2>5 DEF more
<1> HIDE DEF P
<1>5. P = Nat
  <2>1. P \in SUBSET Nat
    BY DEF P
  <2> QED
    BY <1>3, <1>4, <2>1, Induction
<1>6. Collects(n)
  <2>1. n \in P
    BY <1>0, <1>5
  <2>2. n <= n
    BY <1>0
  <2> QED
    BY <2>1, <2>2 DEF P
<1> QED
  BY <1>2, <1>6 DEF n

\* The values of the options that name paths are probed.
LEMMA OptionsAreListed ==
    ASSUME NEW words \in Commands
    PROVE  /\ OptionPaths(words) \in Seq(Words)
           /\ \A k \in 1..Len(words) : \A target \in ToSet(ValuePaths(words, k)) :
                 target \in Words /\ Listed(OptionPaths(words), target)
<1> DEFINE parts == [i \in DOMAIN words |-> ValuePaths(words, i)]
<1>1. words \in Seq(Words) /\ Len(words) \in Nat /\ DOMAIN words = 1..Len(words)
  BY DEF Commands
<1>2. ASSUME NEW i \in 1..Len(words) PROVE ValuePaths(words, i) \in Seq(Words)
  <2> DEFINE option == PathOption(words)
             read == OptionValue(words, i, option)
  <2>1. <<>> \in Seq(Words)
    OBVIOUS
  <2>2. CASE option = "none"
    BY ONLY <2>1, <2>2 DEF ValuePaths
  <2>3. CASE option # "none"
    <3>1. option \in PathOptions
      BY <2>3 DEF PathOption, PathOptions
    <3> DEFINE word == words[i]
    <3>2. word \in Words
      BY <1>1
    <3> HIDE DEF word, option
    <3> DEFINE v == value(word)
               w == attached(word, option)
    <3>3. v \in Words /\ w \in Words
      BY <3>1, <3>2, WordsAreNames
    <3> HIDE DEF v, w
    <3>4. <<v>> \in Seq(Words) /\ <<w>> \in Seq(Words) /\ At(words, i + 1) \in Seq(Words)
      BY ONLY <1>1, <2>1, <3>3 DEF At
    <3>5. read \in {At(words, i + 1), <<v>>, <<w>>, <<>>}
      BY ONLY Zenon DEF OptionValue, v, w, word, read
    <3> HIDE DEF read
    <3>6. read \in Seq(Words)
      BY ONLY <2>1, <3>4, <3>5
    <3>7. read # <<>> => list(read[1]) \in Seq(Words)
      <4>1. read # <<>> => read[1] \in Words
        BY ONLY <3>6
      <4> QED
        BY <4>1, WordsAreNames
    <3>8. ValuePaths(words, i) \in {<<>>, read} \/ (read # <<>> /\ ValuePaths(words, i) = list(read[1]))
      BY ONLY Zenon DEF ValuePaths, read, option
    <3> QED
      BY ONLY <2>1, <3>6, <3>7, <3>8, Zenon
  <2> QED
    BY ONLY <2>2, <2>3
<1>3. parts \in Seq(Seq(Words)) /\ Len(parts) = Len(words)
  <2>1. parts \in [1..Len(words) -> Seq(Words)]
    BY ONLY <1>1, <1>2
  <2> HIDE DEF parts
  <2> QED
    BY ONLY <1>1, <2>1
<1>4. OptionPaths(words) = FlattenSeq(parts)
  BY DEF OptionPaths
<1>5. ASSUME NEW k \in 1..Len(words), NEW target \in ToSet(ValuePaths(words, k))
      PROVE  target \in Words /\ Listed(OptionPaths(words), target)
  <2> DEFINE part == ValuePaths(words, k)
  <2>1. part \in Seq(Words) /\ parts[k] = part
    BY ONLY <1>1, <1>2
  <2>2. target \in ToSet(part)
    OBVIOUS
  <2> HIDE DEF part, parts
  <2>3. PICK j \in Nat : j \in 1..Len(part) /\ target = part[j]
    BY ONLY <2>1, <2>2 DEF ToSet
  <2>4. target \in Words /\ k \in 1..Len(parts) /\ j \in 1..Len(parts[k]) /\ parts[k][j] = target
    BY ONLY <1>3, <2>1, <2>3
  <2> QED
    BY ONLY <1>3, <1>4, <2>4, FlattenWords
<1> HIDE DEF parts
<1> QED
  BY <1>3, <1>4, <1>5, FlattenWords

\* The arguments are probed.
LEMMA ArgumentsAreListed ==
    ASSUME NEW words \in Commands
    PROVE  /\ ArgumentPaths(words) \in Seq(Words)
           /\ \A k \in 2..Len(words) :
                 /\ (\E j \in 2..(k - 1) : words[j] = "--") =>
                       Listed(ArgumentPaths(words), words[k])
                 /\ (\A j \in 2..k : words[j] # "--") /\ path_candidate(words[k]) # <<>> =>
                       Listed(ArgumentPaths(words), Candidate(words[k]))
<1> DEFINE ends == {i \in 2 .. Len(words) : words[i] = "--"}
           end == IF ends = {} THEN Len(words) + 1 ELSE Min(ends)
           Part(i) == IF i = 1 \/ i = end THEN <<>>
                      ELSE IF i > end THEN <<words[i]>> ELSE path_candidate(words[i])
           parts == [i \in DOMAIN words |-> Part(i)]
<1>1. words \in Seq(Words) /\ Len(words) \in Nat /\ DOMAIN words = 1..Len(words)
  BY DEF Commands
<1>2. /\ end \in Nat
      /\ end \notin ends => \A j \in 2..Len(words) : words[j] # "--" /\ end > j
      /\ \A j \in ends : end <= j
      /\ end \in ends => words[end] = "--"
  <2>1. CASE ends = {}
    BY <1>1, <2>1
  <2>2. CASE ends # {}
    <3>1. ends \in SUBSET Nat
      OBVIOUS
    <3> HIDE DEF ends
    <3>2. PICK least \in ends : \A j \in ends : ~(j < least)
      BY <2>2, <3>1, LeastElement
    <3>3. \A j \in ends : least <= j
      BY <3>1, <3>2
    <3>4. Min(ends) \in ends /\ \A j \in ends : Min(ends) <= j
      BY <3>2, <3>3 DEF Min
    <3>5. end = Min(ends)
      BY <2>2
    <3> QED
      BY <3>1, <3>4, <3>5 DEF ends
  <2> QED
    BY <2>1, <2>2
<1> HIDE DEF end
<1>3. \A word \in Words : /\ Candidate(word) \in Words
                          /\ path_candidate(word) \in {<<>>, <<Candidate(word)>>}
  BY WordsAreNames DEF path_candidate, Candidate
<1>4. ASSUME NEW i \in 1..Len(words) PROVE Part(i) \in Seq(Words)
  <2>1. words[i] \in Words
    BY <1>1
  <2>2. path_candidate(words[i]) \in Seq(Words)
    <3> DEFINE c == Candidate(words[i])
    <3>1. c \in Words /\ path_candidate(words[i]) \in {<<>>, <<c>>}
      BY <1>3, <2>1
    <3> HIDE DEF c
    <3>2. <<>> \in Seq(Words) /\ <<c>> \in Seq(Words)
      BY <3>1
    <3> QED
      BY <3>1, <3>2
  <2>3. <<words[i]>> \in Seq(Words) /\ <<>> \in Seq(Words)
    BY <2>1
  <2> QED
    BY <2>2, <2>3
<1>5. parts \in Seq(Seq(Words)) /\ Len(parts) = Len(words)
  <2> HIDE DEF Part
  <2>1. parts \in [1..Len(words) -> Seq(Words)]
    BY <1>1, <1>4
  <2> QED
    BY <1>1, <2>1
<1>6. ArgumentPaths(words) = FlattenSeq(parts)
  BY DEF ArgumentPaths, end
<1>7. ASSUME NEW k \in 2..Len(words), NEW word, Part(k) = <<word>>
      PROVE  Listed(ArgumentPaths(words), word)
  <2>1. parts[k] = <<word>> /\ k \in 1..Len(words)
    <3> HIDE DEF Part
    <3> QED
      BY <1>1, <1>7
  <2> HIDE DEF parts
  <2>2. 1 \in Nat /\ 1 \in 1..Len(parts[k]) /\ parts[k][1] = word /\ k \in 1..Len(parts)
    BY <1>5, <2>1
  <2> QED
    BY <1>5, <1>6, <2>2, FlattenWords
<1>8. ASSUME NEW k \in 2..Len(words), NEW j \in 2..(k - 1), words[j] = "--"
      PROVE  Listed(ArgumentPaths(words), words[k])
  <2>1. j \in ends
    BY <1>1, <1>8
  <2>2. end <= j
    BY <1>2, <2>1
  <2>3. k > end /\ k # 1 /\ k # end
    BY <1>1, <1>2, <2>2
  <2>4. Part(k) = <<words[k]>>
    BY <2>3
  <2> HIDE DEF Part, parts
  <2> QED
    BY <1>7, <2>4
<1>9. ASSUME NEW k \in 2..Len(words), \A j \in 2..k : words[j] # "--",
             path_candidate(words[k]) # <<>>
      PROVE  Listed(ArgumentPaths(words), Candidate(words[k]))
  <2>1. words[k] \in Words /\ k # 1
    BY <1>1
  <2>2. ~(k > end) /\ k # end
    <3>1. CASE end \in ends
      <4>1. end \in 2..Len(words) /\ words[end] = "--"
        BY <1>2, <3>1
      <4>2. end \notin 2..k
        BY <1>9, <4>1
      <4> QED
        BY <1>1, <4>1, <4>2
    <3>2. CASE end \notin ends
      BY <1>1, <1>2, <3>2
    <3> QED
      BY <3>1, <3>2
  <2>3. Part(k) = path_candidate(words[k])
    BY <2>1, <2>2
  <2>4. Part(k) = <<Candidate(words[k])>>
    BY <1>3, <1>9, <2>1, <2>3
  <2> HIDE DEF Part, parts
  <2> QED
    BY <1>7, <2>4
<1> HIDE DEF parts
<1>10. ArgumentPaths(words) \in Seq(Words)
  BY <1>5, <1>6, FlattenWords
<1> QED
  BY <1>8, <1>9, <1>10

------------------------------------
(* The passes over the commands *)

\* One command of the first pass.
LEMMA HardTyped == \A p \in Good, words \in Commands : HardOne(p, words) \in Good
<1> SUFFICES ASSUME NEW p \in Good, NEW words \in Commands PROVE HardOne(p, words) \in Good
  OBVIOUS
<1>1. Below(p, p)
  BY DEF Below
<1>2. p.found = "within" => classify_hard_rejection(words, p) \in Good
  BY <1>1, HardAnswers
<1> QED
  BY <1>2 DEF HardOne

\* The pass that rejects, command by command.
LEMMA HardFold ==
    ASSUME NEW commands \in Seq(Commands), NEW p \in Good
    PROVE  /\ Folding(Commands, Good, p, HardSteps)
           /\ IsFoldOf(HardFrom(p, commands), commands, Good, p, HardSteps)
<1> DEFINE n == Len(commands)
           Folds(g) == g = [s \in SUBSET (1..n) |->
                               IF s = {} THEN p
                               ELSE HardOne(g[s \ {Max(s)}], commands[Max(s)])]
           iter == CHOOSE g : Folds(g)
<1>1. n \in Nat /\ DOMAIN commands = 1..n
  OBVIOUS
<1>2. HardFrom(p, commands) = iter[1..n]
  BY <1>1 DEF HardFrom, FoldLeft, MapThenFoldSet
<1>3. /\ Folding(Commands, Good, p, HardSteps)
      /\ \A x \in Good, e \in Commands : HardSteps[<<x, e>>] = HardOne(x, e)
  BY HardTyped DEF Folding, HardSteps
<1>4. Folds(iter)
  <2>1. PICK g : Defines(g, commands, Commands, Good, p, HardSteps)
    BY <1>3, FoldIsDefined
  <2>2. \A s \in SUBSET (1..n) : s # {} => g[s] = HardOne(g[s \ {Max(s)}], commands[Max(s)])
    BY <1>3, <2>1 DEF Defines
  <2>3. Folds(g)
    <3>1. g \in [SUBSET (1..n) -> Good] /\ g[{}] = p
      BY <2>1 DEF Defines
    <3> HIDE DEF n
    <3> QED
      BY <2>2, <3>1
  <2> HIDE DEF Folds
  <2> QED
    BY <2>3
<1> HIDE DEF iter
<1>5. FoldsTo(iter, commands, Good, p, HardSteps)
  <2>1. iter[{}] = p
    BY <1>4
  <2>2. ASSUME NEW s \in SUBSET (1..n), s # {}, iter[s \ {Max(s)}] \in Good
        PROVE  iter[s] = HardSteps[<<iter[s \ {Max(s)}], commands[Max(s)]>>]
    <3>1. Max(s) \in 1..n
      <4>1. s \in SUBSET (1..(n + 1))
        BY <1>1
      <4> QED
        BY <1>1, <2>2, <4>1, MaxOfPositions
    <3>2. commands[Max(s)] \in Commands
      BY <3>1
    <3>3. iter[s] = HardOne(iter[s \ {Max(s)}], commands[Max(s)])
      <4> HIDE DEF n
      <4> QED
        BY <1>4, <2>2
    <3> QED
      BY <1>3, <2>2, <3>2, <3>3
  <2> QED
    BY <2>1, <2>2 DEF FoldsTo
<1> HIDE DEF n
<1>6. IsFoldOf(HardFrom(p, commands), commands, Good, p, HardSteps)
  BY <1>2, <1>5 DEF n, IsFoldOf
<1> QED
  BY <1>3, <1>6

\* The first pass is judged alike from both.
LEMMA HardIsFrugal == Frugal(Commands, HardSteps)
<1>1. HardSteps \in [Good \X Commands -> Good]
  BY HardTyped DEF HardSteps
<1>2. ASSUME NEW p \in Good, NEW words \in Commands
      PROVE  /\ HardSteps[<<p, words>>] = HardOne(p, words)
             /\ p.found # "within" => HardOne(p, words) = p
             /\ p.found = "within" => HardOne(p, words) = classify_hard_rejection(words, p)
  BY DEF HardSteps, HardOne
<1>3. ASSUME NEW a \in Good, NEW words \in Commands
      PROVE  /\ a.found # "within" => HardSteps[<<a, words>>] = a
             /\ a.found = "within" /\ HardSteps[<<a, words>>].found = "within" =>
                   a.cached \subseteq HardSteps[<<a, words>>].cached
  <2>1. Below(a, a)
    BY DEF Below
  <2>2. CASE a.found = "within"
    <3>1. HardSteps[<<a, words>>] = classify_hard_rejection(words, a)
      BY <1>2, <2>2
    <3>2. classify_hard_rejection(words, a).found = "within" => a.cached \subseteq classify_hard_rejection(words, a).cached
      BY <2>1, <2>2, HardAnswers
    <3> QED
      BY <2>2, <3>1, <3>2
  <2>3. CASE a.found # "within"
    BY <1>2, <2>3
  <2> QED
    BY <2>2, <2>3
<1>4. ASSUME NEW a \in Good, NEW b \in Good, NEW words \in Commands, a.found = "within", Below(b, a)
      PROVE  Below(HardSteps[<<b, words>>], HardSteps[<<a, words>>])
  <2>1. b.found = "within"
    BY <1>4 DEF Below
  <2>2. /\ HardSteps[<<a, words>>] = classify_hard_rejection(words, a)
        /\ HardSteps[<<b, words>>] = classify_hard_rejection(words, b)
    BY <1>2, <1>4, <2>1
  <2>3. Below(classify_hard_rejection(words, b), classify_hard_rejection(words, a))
    BY <1>4, HardAnswers
  <2> QED
    BY <2>2, <2>3
<1> QED
  BY <1>1, <1>3, <1>4 DEF Frugal

\* Passes over the same commands, and over more of them.
LEMMA HardPasses ==
    ASSUME NEW a \in Good, NEW b \in Good, Below(b, a),
           NEW commands \in Seq(Commands), NEW more \in Seq(Commands)
    PROVE  /\ HardFrom(a, commands) \in Good /\ HardFrom(b, commands) \in Good
           /\ Below(HardFrom(b, commands), HardFrom(a, commands))
           /\ a.found # "within" => HardFrom(a, commands) = a
           /\ HardFrom(a, commands).found = "within" => a.cached \subseteq HardFrom(a, commands).cached
           /\ a.found \in {"within", "reject", "ask"} =>
                 HardFrom(a, commands).found \in {"within", "reject", "ask"}
           /\ HardFrom(a, commands \o more) = HardFrom(HardFrom(a, commands), more)
<1> DEFINE x == HardFrom(a, commands)
<1>1. /\ Folding(Commands, Good, a, HardSteps)
      /\ IsFoldOf(x, commands, Good, a, HardSteps)
      /\ IsFoldOf(HardFrom(b, commands), commands, Good, b, HardSteps)
  BY HardFold
<1> HIDE DEF x
<1>2. /\ x \in Good /\ HardFrom(b, commands) \in Good
      /\ Below(HardFrom(b, commands), x)
      /\ a.found # "within" => x = a
      /\ x.found = "within" => a.cached \subseteq x.cached
  BY <1>1, HardIsFrugal, FrugalFold
<1>3. ASSUME a.found \in {"within", "reject", "ask"}
      PROVE  x.found \in {"within", "reject", "ask"}
  <2> DEFINE P == {u \in Good : u.found \in {"within", "reject", "ask"}}
  <2>1. ASSUME NEW u \in Good, NEW k \in 1..Len(commands), u \in P
        PROVE  HardSteps[<<u, commands[k]>>] \in P
    <3>1. commands[k] \in Commands /\ Below(u, u)
      BY DEF Below
    <3>2. /\ HardSteps[<<u, commands[k]>>] = HardOne(u, commands[k])
          /\ HardOne(u, commands[k]) \in Good
      BY <3>1, HardTyped DEF HardSteps
    <3>3. HardOne(u, commands[k]).found \in {"within", "reject", "ask"}
      <4>1. CASE u.found = "within"
        <5>1. HardOne(u, commands[k]) = classify_hard_rejection(commands[k], u)
          BY <4>1 DEF HardOne
        <5> QED
          BY <3>1, <4>1, <5>1, HardAnswers
      <4>2. CASE u.found # "within"
        BY <2>1, <4>2 DEF HardOne
      <4> QED
        BY <4>1, <4>2
    <3> QED
      BY <3>2, <3>3
  <2>2. a \in P
    BY <1>3
  <2> HIDE DEF P
  <2>3. x \in P
    BY <1>1, <2>1, <2>2, FoldKeeps
  <2> QED
    BY <2>3 DEF P
<1>4. HardFrom(a, commands \o more) = HardFrom(x, more)
  <2>1. commands \o more \in Seq(Commands)
    OBVIOUS
  <2>2. IsFoldOf(HardFrom(a, commands \o more), commands \o more, Good, a, HardSteps)
    BY <2>1, HardFold
  <2>3. IsFoldOf(HardFrom(x, more), more, Good, x, HardSteps)
    BY <1>2, HardFold
  <2> QED
    BY <1>1, <2>2, <2>3, FoldConcat
<1> QED
  BY <1>2, <1>3, <1>4 DEF x

\* classify_simple_command
SimpleOne(p, words) == IF p.found = "within" THEN classify_simple_command(words, p) ELSE p
SimpleFrom(p, commands) == FoldLeft(SimpleOne, p, commands)
SimpleSteps == [x \in Good \X Commands |-> SimpleOne(x[1], x[2])]

\* What asks for approval besides a probe.
Asks(words) ==
    \/ file_may_execute_uncompress_helper(words)
    \/ git_may_use_signature_verification(words)
    \/ RunsGitHelper(words)
    \/ ChangesDependencies(words) \/ Destroys(words)
    \/ known_filesystem_mutator(words)
    \/ CargoRunsMore(words)
    \/ is_file_compile_option(words)
    \/ RunsSearchHelper(words) \/ FollowsOrLoadsPaths(words) \/ WatchesFile(words)
    \/ ChangesVariable(words) \/ printf_format_may_amplify_output(words)
    \/ words[1] = "find" /\ find_may_mutate_or_execute(words)
    \/ ~(Builtin(words) \/ is_low_risk_external_command(words))

\* A change of directory is never allowed.
LEMMA ChangeAsks == ASSUME NEW words \in Commands, words[1] = "cd" PROVE Asks(words)
<1>1. words \in Seq(Words) /\ Len(words) \in Nat \ {0}
  BY DEF Commands
<1>2. ~Builtin(words)
  <2>1. words # <<"pwd">>
    BY <1>1
  <2>2. ~IsPrefix(<<"command", "-v">>, words)
    <3> SUFFICES ASSUME IsPrefix(<<"command", "-v">>, words) PROVE FALSE
      OBVIOUS
    <3> DEFINE two == <<"command", "-v">>
    <3>1. Len(two) = 2 /\ two[1] = "command"
      OBVIOUS
    <3> HIDE DEF two
    <3>2. Len(two) <= Len(words) /\ SubSeq(two, 1, Len(two)) = SubSeq(words, 1, Len(two))
      BY DEF IsPrefix, two
    <3>3. SubSeq(two, 1, 2)[1] = "command"
      BY DEF two
    <3>4. SubSeq(words, 1, 2)[1] = words[1]
      BY <1>1, <3>1, <3>2
    <3> QED
      BY <3>1, <3>2, <3>3, <3>4
  <2> QED
    BY <2>1, <2>2 DEF Builtin
<1>3. ~is_low_risk_external_command(words)
  BY DEF is_low_risk_external_command, LowRisk
<1> QED
  BY <1>2, <1>3 DEF Asks

\* A command, from two states of the budget, and what is known of one that is allowed.
LEMMA SimpleAnswers ==
    ASSUME NEW a \in Good, NEW b \in Good, a.found = "within", Below(b, a), NEW words \in Commands
    PROVE  LET x == classify_simple_command(words, a)
               y == classify_simple_command(words, b)
           IN  /\ x \in Good /\ y \in Good /\ Below(y, x)
               /\ x.found \in {"within", "reject", "ask"}
               /\ x.found = "within" =>
                     /\ a.cached \subseteq x.cached
                     /\ words[1] # "cd"
                     /\ \A word :
                           Listed(OptionPaths(words), word) \/ Listed(ArgumentPaths(words), word) =>
                              Answer(word).found = "within"
<1> DEFINE x == classify_simple_command(words, a)
           y == classify_simple_command(words, b)
           s == OptionPaths(words)
           t == ArgumentPaths(words)
           paths == s \o t
           X == ProbeAll(a, paths)
           Y == ProbeAll(b, paths)
           v == IF Asks(words) \/ X.found # "within" THEN "ask" ELSE "within"
           u == IF Asks(words) \/ Y.found # "within" THEN "ask" ELSE "within"
<1>1. s \in Seq(Words) /\ t \in Seq(Words)
  BY OptionsAreListed, ArgumentsAreListed
<1>2. /\ x = [X EXCEPT !.found = v]
      /\ y = [Y EXCEPT !.found = u]
  BY DEF classify_simple_command, Asks
<1> HIDE DEF s, t, x, y
<1>3. /\ paths \in Seq(Words) /\ Len(s) \in Nat /\ Len(t) \in Nat /\ Len(paths) = Len(s) + Len(t)
      /\ \A m \in 1..Len(s) : paths[m] = s[m]
      /\ \A m \in 1..Len(t) : paths[Len(s) + m] = t[m]
  BY <1>1
<1> HIDE DEF paths
<1>4. /\ X \in Good /\ Y \in Good /\ Below(Y, X)
      /\ X.found \in {"within", "escapes", "budget"}
      /\ X.found = "within" =>
            /\ a.cached \subseteq X.cached
            /\ \A k \in 1..Len(paths) : Answer(paths[k]).found = "within"
  BY <1>3, ProbesOfAll
<1> HIDE DEF X, Y
<1>5. /\ v \in {"within", "ask", "reject"} /\ (v = "within" => X.found = "within")
      /\ u \in {"within", "ask", "reject"} /\ (u = "within" => Y.found = "within")
      /\ v = "within" => ~Asks(words)
      /\ v \in {"within", "ask"}
  OBVIOUS
<1>6. v = "within" => u = "within"
  BY <1>4 DEF Below
<1> HIDE DEF u, v
<1>7. /\ x \in Good /\ x.found = v /\ x.cached = X.cached
      /\ y \in Good /\ y.found = u /\ y.cached = Y.cached
  <2>1. /\ [X EXCEPT !.found = v] \in Good
        /\ [X EXCEPT !.found = v].found = v /\ [X EXCEPT !.found = v].cached = X.cached
    <3>1. X \in Good /\ v \in {"within", "ask", "reject"} /\ (v = "within" => X.found = "within")
      BY ONLY <1>4, <1>5
    <3> QED
      BY ONLY <3>1, Outcome
  <2>2. /\ [Y EXCEPT !.found = u] \in Good
        /\ [Y EXCEPT !.found = u].found = u /\ [Y EXCEPT !.found = u].cached = Y.cached
    <3>1. Y \in Good /\ u \in {"within", "ask", "reject"} /\ (u = "within" => Y.found = "within")
      BY ONLY <1>4, <1>5
    <3> QED
      BY ONLY <3>1, Outcome
  <2> QED
    BY ONLY <1>2, <2>1, <2>2
<1>8. Below(y, x)
  BY <1>4, <1>5, <1>6, <1>7 DEF Below
<1>9. ASSUME v = "within", NEW word, Listed(s, word) \/ Listed(t, word)
      PROVE  Answer(word).found = "within"
  <2>1. \A k \in 1..Len(paths) : Answer(paths[k]).found = "within"
    BY <1>4, <1>5, <1>9
  <2>2. CASE Listed(s, word)
    <3>1. PICK m \in 1..Len(s) : s[m] = word
      BY <2>2 DEF Listed
    <3>2. m \in 1..Len(paths) /\ paths[m] = word
      BY <1>3, <3>1
    <3> QED
      BY <2>1, <3>2
  <2>3. CASE Listed(t, word)
    <3>1. PICK m \in 1..Len(t) : t[m] = word
      BY <2>3 DEF Listed
    <3>2. Len(s) + m \in 1..Len(paths) /\ paths[Len(s) + m] = word
      BY <1>3, <3>1
    <3> QED
      BY <2>1, <3>2
  <2> QED
    BY <1>9, <2>2, <2>3
<1>10. v = "within" => words[1] # "cd"
  BY <1>5, ChangeAsks
<1>11. v = "within" => a.cached \subseteq X.cached
  BY <1>4, <1>5
<1> QED
  BY <1>5, <1>7, <1>8, <1>9, <1>10, <1>11 DEF x, y, s, t

\* One command of the second pass.
LEMMA SimpleTyped == \A p \in Good, words \in Commands : SimpleOne(p, words) \in Good
<1> SUFFICES ASSUME NEW p \in Good, NEW words \in Commands PROVE SimpleOne(p, words) \in Good
  OBVIOUS
<1>1. Below(p, p)
  BY DEF Below
<1>2. p.found = "within" => classify_simple_command(words, p) \in Good
  BY <1>1, SimpleAnswers
<1> QED
  BY <1>2 DEF SimpleOne

\* The pass that allows, command by command.
LEMMA SimpleFold ==
    ASSUME NEW commands \in Seq(Commands), NEW p \in Good
    PROVE  /\ Folding(Commands, Good, p, SimpleSteps)
           /\ IsFoldOf(SimpleFrom(p, commands), commands, Good, p, SimpleSteps)
<1> DEFINE n == Len(commands)
           Folds(g) == g = [s \in SUBSET (1..n) |->
                               IF s = {} THEN p
                               ELSE SimpleOne(g[s \ {Max(s)}], commands[Max(s)])]
           iter == CHOOSE g : Folds(g)
<1>1. n \in Nat /\ DOMAIN commands = 1..n
  OBVIOUS
<1>2. SimpleFrom(p, commands) = iter[1..n]
  BY <1>1 DEF SimpleFrom, FoldLeft, MapThenFoldSet
<1>3. /\ Folding(Commands, Good, p, SimpleSteps)
      /\ \A x \in Good, e \in Commands : SimpleSteps[<<x, e>>] = SimpleOne(x, e)
  BY SimpleTyped DEF Folding, SimpleSteps
<1>4. Folds(iter)
  <2>1. PICK g : Defines(g, commands, Commands, Good, p, SimpleSteps)
    BY <1>3, FoldIsDefined
  <2>2. \A s \in SUBSET (1..n) : s # {} => g[s] = SimpleOne(g[s \ {Max(s)}], commands[Max(s)])
    BY <1>3, <2>1 DEF Defines
  <2>3. Folds(g)
    <3>1. g \in [SUBSET (1..n) -> Good] /\ g[{}] = p
      BY <2>1 DEF Defines
    <3> HIDE DEF n
    <3> QED
      BY <2>2, <3>1
  <2> HIDE DEF Folds
  <2> QED
    BY <2>3
<1> HIDE DEF iter
<1>5. FoldsTo(iter, commands, Good, p, SimpleSteps)
  <2>1. iter[{}] = p
    BY <1>4
  <2>2. ASSUME NEW s \in SUBSET (1..n), s # {}, iter[s \ {Max(s)}] \in Good
        PROVE  iter[s] = SimpleSteps[<<iter[s \ {Max(s)}], commands[Max(s)]>>]
    <3>1. Max(s) \in 1..n
      <4>1. s \in SUBSET (1..(n + 1))
        BY <1>1
      <4> QED
        BY <1>1, <2>2, <4>1, MaxOfPositions
    <3>2. commands[Max(s)] \in Commands
      BY <3>1
    <3>3. iter[s] = SimpleOne(iter[s \ {Max(s)}], commands[Max(s)])
      <4> HIDE DEF n
      <4> QED
        BY <1>4, <2>2
    <3> QED
      BY <1>3, <2>2, <3>2, <3>3
  <2> QED
    BY <2>1, <2>2 DEF FoldsTo
<1> HIDE DEF n
<1>6. IsFoldOf(SimpleFrom(p, commands), commands, Good, p, SimpleSteps)
  BY <1>2, <1>5 DEF n, IsFoldOf
<1> QED
  BY <1>3, <1>6

\* The second pass is judged alike from both.
LEMMA SimpleIsFrugal == Frugal(Commands, SimpleSteps)
<1>1. SimpleSteps \in [Good \X Commands -> Good]
  BY SimpleTyped DEF SimpleSteps
<1>2. ASSUME NEW p \in Good, NEW words \in Commands
      PROVE  /\ SimpleSteps[<<p, words>>] = SimpleOne(p, words)
             /\ p.found # "within" => SimpleOne(p, words) = p
             /\ p.found = "within" => SimpleOne(p, words) = classify_simple_command(words, p)
  BY DEF SimpleSteps, SimpleOne
<1>3. ASSUME NEW a \in Good, NEW words \in Commands
      PROVE  /\ a.found # "within" => SimpleSteps[<<a, words>>] = a
             /\ a.found = "within" /\ SimpleSteps[<<a, words>>].found = "within" =>
                   a.cached \subseteq SimpleSteps[<<a, words>>].cached
  <2>1. Below(a, a)
    BY DEF Below
  <2>2. CASE a.found = "within"
    <3>1. SimpleSteps[<<a, words>>] = classify_simple_command(words, a)
      BY <1>2, <2>2
    <3>2. classify_simple_command(words, a).found = "within" => a.cached \subseteq classify_simple_command(words, a).cached
      BY <2>1, <2>2, SimpleAnswers
    <3> QED
      BY <2>2, <3>1, <3>2
  <2>3. CASE a.found # "within"
    BY <1>2, <2>3
  <2> QED
    BY <2>2, <2>3
<1>4. ASSUME NEW a \in Good, NEW b \in Good, NEW words \in Commands, a.found = "within", Below(b, a)
      PROVE  Below(SimpleSteps[<<b, words>>], SimpleSteps[<<a, words>>])
  <2>1. b.found = "within"
    BY <1>4 DEF Below
  <2>2. /\ SimpleSteps[<<a, words>>] = classify_simple_command(words, a)
        /\ SimpleSteps[<<b, words>>] = classify_simple_command(words, b)
    BY <1>2, <1>4, <2>1
  <2>3. Below(classify_simple_command(words, b), classify_simple_command(words, a))
    BY <1>4, SimpleAnswers
  <2> QED
    BY <2>2, <2>3
<1> QED
  BY <1>1, <1>3, <1>4 DEF Frugal

\* Passes over the same commands, and over more of them.
LEMMA SimplePasses ==
    ASSUME NEW a \in Good, NEW b \in Good, Below(b, a),
           NEW commands \in Seq(Commands), NEW more \in Seq(Commands)
    PROVE  /\ SimpleFrom(a, commands) \in Good /\ SimpleFrom(b, commands) \in Good
           /\ Below(SimpleFrom(b, commands), SimpleFrom(a, commands))
           /\ a.found # "within" => SimpleFrom(a, commands) = a
           /\ SimpleFrom(a, commands).found = "within" => a.cached \subseteq SimpleFrom(a, commands).cached
           /\ a.found \in {"within", "reject", "ask"} =>
                 SimpleFrom(a, commands).found \in {"within", "reject", "ask"}
           /\ SimpleFrom(a, commands \o more) = SimpleFrom(SimpleFrom(a, commands), more)
<1> DEFINE x == SimpleFrom(a, commands)
<1>1. /\ Folding(Commands, Good, a, SimpleSteps)
      /\ IsFoldOf(x, commands, Good, a, SimpleSteps)
      /\ IsFoldOf(SimpleFrom(b, commands), commands, Good, b, SimpleSteps)
  BY SimpleFold
<1> HIDE DEF x
<1>2. /\ x \in Good /\ SimpleFrom(b, commands) \in Good
      /\ Below(SimpleFrom(b, commands), x)
      /\ a.found # "within" => x = a
      /\ x.found = "within" => a.cached \subseteq x.cached
  BY <1>1, SimpleIsFrugal, FrugalFold
<1>3. ASSUME a.found \in {"within", "reject", "ask"}
      PROVE  x.found \in {"within", "reject", "ask"}
  <2> DEFINE P == {u \in Good : u.found \in {"within", "reject", "ask"}}
  <2>1. ASSUME NEW u \in Good, NEW k \in 1..Len(commands), u \in P
        PROVE  SimpleSteps[<<u, commands[k]>>] \in P
    <3>1. commands[k] \in Commands /\ Below(u, u)
      BY DEF Below
    <3>2. /\ SimpleSteps[<<u, commands[k]>>] = SimpleOne(u, commands[k])
          /\ SimpleOne(u, commands[k]) \in Good
      BY <3>1, SimpleTyped DEF SimpleSteps
    <3>3. SimpleOne(u, commands[k]).found \in {"within", "reject", "ask"}
      <4>1. CASE u.found = "within"
        <5>1. SimpleOne(u, commands[k]) = classify_simple_command(commands[k], u)
          BY <4>1 DEF SimpleOne
        <5> QED
          BY <3>1, <4>1, <5>1, SimpleAnswers
      <4>2. CASE u.found # "within"
        BY <2>1, <4>2 DEF SimpleOne
      <4> QED
        BY <4>1, <4>2
    <3> QED
      BY <3>2, <3>3
  <2>2. a \in P
    BY <1>3
  <2> HIDE DEF P
  <2>3. x \in P
    BY <1>1, <2>1, <2>2, FoldKeeps
  <2> QED
    BY <2>3 DEF P
<1>4. SimpleFrom(a, commands \o more) = SimpleFrom(x, more)
  <2>1. commands \o more \in Seq(Commands)
    OBVIOUS
  <2>2. IsFoldOf(SimpleFrom(a, commands \o more), commands \o more, Good, a, SimpleSteps)
    BY <2>1, SimpleFold
  <2>3. IsFoldOf(SimpleFrom(x, more), more, Good, x, SimpleSteps)
    BY <1>2, SimpleFold
  <2> QED
    BY <1>1, <2>2, <2>3, FoldConcat
<1> QED
  BY <1>2, <1>3, <1>4 DEF x

\* Nothing is known before the first pass.
LEMMA NewProbesGood == NewProbes \in Good /\ NewProbes.found = "within" /\ NewProbes.cached = {}
<1>1. /\ NewProbes.candidates = MAX_PATH_PROBE_CANDIDATES
      /\ NewProbes.inspections = MAX_WORKSPACE_PATH_INSPECTIONS
      /\ NewProbes.cached = {} /\ NewProbes.found = "within" /\ NewProbes \in Probes
  BY PolicyLimitsAssumption DEF NewProbes, Probes
<1>2. Spent({}) = {}
  BY DEF Spent
<1>3. /\ IsFiniteSet({}) /\ Cardinality({}) = 0
      /\ MAX_PATH_PROBE_CANDIDATES \in Nat /\ MAX_WORKSPACE_PATH_INSPECTIONS \in Nat
  BY FS_EmptySet, PolicyLimitsAssumption
<1>4. Affordable({})
  BY <1>2, <1>3 DEF Affordable
<1>5. Paid(NewProbes)
  BY <1>1, <1>2, <1>3, <1>4 DEF Paid
<1> QED
  BY <1>1, <1>5 DEF Good

------------------------------------
(* StayInside *)

Plain == {words \in Commands : words[1] # "cd"}
MoveTo(cwd, words) ==
    IF words[1] = "cd" /\ Len(words) > 1 THEN Resolve(cwd, path(words[2])) ELSE cwd
MoveFrom(cwd, commands) == FoldLeft(MoveTo, cwd, commands)
StaySteps == [x \in {root} \X Plain |-> MoveTo(x[1], x[2])]

\* Only a cd moves.
LEMMA StayTyped == root \in {root} /\ \A cwd \in {root}, words \in Plain : MoveTo(cwd, words) \in {root}
BY DEF MoveTo, Plain

\* Commands that do not change the directory, one by one.
LEMMA StayFold ==
    ASSUME NEW commands \in Seq(Plain)
    PROVE  /\ Folding(Plain, {root}, root, StaySteps)
           /\ IsFoldOf(MoveFrom(root, commands), commands, {root}, root, StaySteps)
<1> DEFINE n == Len(commands)
           Folds(g) == g = [s \in SUBSET (1..n) |->
                               IF s = {} THEN root
                               ELSE MoveTo(g[s \ {Max(s)}], commands[Max(s)])]
           iter == CHOOSE g : Folds(g)
<1>1. n \in Nat /\ DOMAIN commands = 1..n
  OBVIOUS
<1>2. MoveFrom(root, commands) = iter[1..n]
  BY <1>1 DEF MoveFrom, FoldLeft, MapThenFoldSet
<1>3. /\ Folding(Plain, {root}, root, StaySteps)
      /\ \A x \in {root}, e \in Plain : StaySteps[<<x, e>>] = MoveTo(x, e)
  BY StayTyped DEF Folding, StaySteps
<1>4. Folds(iter)
  <2>1. PICK g : Defines(g, commands, Plain, {root}, root, StaySteps)
    BY <1>3, FoldIsDefined
  <2>2. \A s \in SUBSET (1..n) : s # {} => g[s] = MoveTo(g[s \ {Max(s)}], commands[Max(s)])
    BY <1>3, <2>1 DEF Defines
  <2>3. Folds(g)
    <3>1. g \in [SUBSET (1..n) -> {root}] /\ g[{}] = root
      BY <2>1 DEF Defines
    <3> HIDE DEF n
    <3> QED
      BY <2>2, <3>1
  <2> HIDE DEF Folds
  <2> QED
    BY <2>3
<1> HIDE DEF iter
<1>5. FoldsTo(iter, commands, {root}, root, StaySteps)
  <2>1. iter[{}] = root
    BY <1>4
  <2>2. ASSUME NEW s \in SUBSET (1..n), s # {}, iter[s \ {Max(s)}] \in {root}
        PROVE  iter[s] = StaySteps[<<iter[s \ {Max(s)}], commands[Max(s)]>>]
    <3>1. Max(s) \in 1..n
      <4>1. s \in SUBSET (1..(n + 1))
        BY <1>1
      <4> QED
        BY <1>1, <2>2, <4>1, MaxOfPositions
    <3>2. commands[Max(s)] \in Plain
      BY <3>1
    <3>3. iter[s] = MoveTo(iter[s \ {Max(s)}], commands[Max(s)])
      <4> HIDE DEF n
      <4> QED
        BY <1>4, <2>2
    <3> QED
      BY <1>3, <2>2, <3>2, <3>3
  <2> QED
    BY <2>1, <2>2 DEF FoldsTo
<1> HIDE DEF n
<1>6. IsFoldOf(MoveFrom(root, commands), commands, {root}, root, StaySteps)
  BY <1>2, <1>5 DEF n, IsFoldOf
<1> QED
  BY <1>3, <1>6

\* Where a word leads from the root is inside or nowhere.
LeadsInside(word) ==
    LET at == Resolve(root, path(word)) IN ~path(word).home /\ (at = <<>> \/ UnderRoot(at))

\* A path that the probe finds within the workspace is there, or nowhere.
LEMMA AnswerIsTrue ==
    ASSUME NEW word \in Words, Answer(word).found = "within" PROVE LeadsInside(word)
<1>1. MAX_WORKSPACE_PATH_INSPECTIONS \in Nat
  BY PolicyLimitsAssumption
<1> QED
  BY <1>1, WithinIsInside DEF Answer, LeadsInside

\* The empty text.
LEMMA EmptyIsText == <<>> \in Texts
BY DEF Texts

\* The empty word and "." are the directory itself.
LEMMA DotIsInside ==
    ASSUME NEW word \in Words, word \in {"", "."} PROVE LeadsInside(word)
<1>1. path(word).comps = <<>> /\ ~path(word).abs /\ ~path(word).home
  BY LexiconAssumption DEF Words
<1>2. Resolve(root, path(word)) = Leads(root, <<>>)
  <2>1. Resolve(root, path(word))
           = Leads(IF path(word).abs THEN <<"/">> ELSE root, path(word).comps)
    BY ResolveLeads
  <2> QED
    BY <1>1, <2>1
<1>3. <<>> \in Seq(CharSet) /\ root \in Texts
  <2>1. <<>> \in Texts
    BY EmptyIsText
  <2> QED
    BY <2>1, EnteringTyped DEF Texts
<1>4. Folding(CharSet, Texts, root, MoveSteps) /\ IsFoldOf(Leads(root, <<>>), <<>>, Texts, root, MoveSteps)
  BY <1>3, MoveFold
<1>5. Leads(root, <<>>) = root
  BY <1>4, FoldGrows
<1> QED
  BY <1>1, <1>2, <1>5, RootUnderRoot DEF LeadsInside

\* The operands of a command whose paths are all within the workspace, and the
\* values of its options, lead inside.
LEMMA OperandsInside ==
    ASSUME NEW words \in Commands,
           \A word : Listed(OptionPaths(words), word) \/ Listed(ArgumentPaths(words), word) =>
                        Answer(word).found = "within",
           NEW k \in 2..Len(words)
    PROVE  \A target \in Named(words, k) : LeadsInside(target)
<1> DEFINE word == words[k]
           after == \E j \in 2 .. (k - 1) : words[j] = "--"
<1>1. word \in Words /\ k \in 1..Len(words) /\ value(word) \in Words
  BY WordsAreNames DEF Commands
<1>2. word = "--" => Dash(word) /\ value(word) = ""
  BY <1>1, LexiconAssumption DEF Words
<1>3. ASSUME after PROVE LeadsInside(word)
  <2>1. Listed(ArgumentPaths(words), word)
    BY <1>3, ArgumentsAreListed
  <2> QED
    BY <1>1, <2>1, AnswerIsTrue
<1>4. ASSUME ~after, word # "--", path_candidate(word) # <<>>
      PROVE  Answer(Candidate(word)).found = "within"
  <2>1. \A j \in 2..k : words[j] # "--"
    BY <1>4
  <2>2. Listed(ArgumentPaths(words), Candidate(word))
    BY <1>4, <2>1, ArgumentsAreListed
  <2> QED
    BY <2>2
<1>5. ASSUME ~after, ~Dash(word) PROVE LeadsInside(word)
  <2>1. Candidate(word) = word /\ word # "--"
    BY <1>2, <1>5 DEF Candidate, Dash
  <2>2. CASE word \in {"", "."}
    BY <1>1, <2>2, DotIsInside
  <2>3. CASE word \notin {"", "."}
    <3>1. path_candidate(word) # <<>>
      BY <1>5, <2>1, <2>3 DEF path_candidate
    <3>2. Answer(word).found = "within"
      BY <1>4, <1>5, <2>1, <3>1
    <3> QED
      BY <1>1, <3>2, AnswerIsTrue
  <2> QED
    BY <2>2, <2>3
<1>6. ASSUME ~after, kind(word) = "long", value(word) # "", ~Dash(value(word))
      PROVE  LeadsInside(value(word))
  <2>1. Candidate(word) = value(word) /\ word # "--"
    BY <1>2, <1>6 DEF Candidate
  <2>2. CASE value(word) = "."
    BY <1>1, <2>2, DotIsInside
  <2>3. CASE value(word) # "."
    <3>1. path_candidate(word) # <<>>
      BY <1>6, <2>1, <2>3 DEF path_candidate
    <3>2. Answer(value(word)).found = "within"
      BY <1>4, <1>6, <2>1, <3>1
    <3> QED
      BY <1>1, <3>2, AnswerIsTrue
  <2> QED
    BY <2>2, <2>3
<1>7. ASSUME NEW target \in ToSet(ValuePaths(words, k)) PROVE LeadsInside(target)
  BY <1>1, OptionsAreListed, AnswerIsTrue
<1>8. ASSUME NEW target \in Named(words, k) PROVE LeadsInside(target)
  <2>1. \/ target \in ToSet(ValuePaths(words, k))
        \/ target = word /\ (after \/ (~after /\ ~Dash(word)))
        \/ /\ target = value(word) /\ ~after
           /\ kind(word) = "long" /\ value(word) # "" /\ ~Dash(value(word))
    BY <1>8 DEF Named
  <2> HIDE DEF word, after
  <2> QED
    BY ONLY <1>3, <1>5, <1>6, <1>7, <2>1
<1> QED
  BY <1>8

\* Commands that are all allowed stay inside.
LEMMA PassStaysInside ==
    ASSUME NEW commands \in Seq(Commands), NEW p \in Good, SimpleFrom(p, commands).found = "within"
    PROVE  StayInside(commands)
<1>1. /\ Folding(Commands, Good, p, SimpleSteps)
      /\ IsFoldOf(SimpleFrom(p, commands), commands, Good, p, SimpleSteps)
  BY SimpleFold
<1>2. ASSUME NEW i \in 1..Len(commands)
      PROVE  /\ commands[i] \in Commands /\ commands[i][1] # "cd"
             /\ \A word : \/ Listed(OptionPaths(commands[i]), word)
                          \/ Listed(ArgumentPaths(commands[i]), word)
                          => Answer(word).found = "within"
  <2>1. commands[i] \in Commands
    OBVIOUS
  <2>2. PICK u \in Good : u.found = "within" /\ SimpleSteps[<<u, commands[i]>>].found = "within"
    BY <1>1, SimpleIsFrugal, FrugalAll
  <2>3. SimpleSteps[<<u, commands[i]>>] = classify_simple_command(commands[i], u)
    BY <2>1, <2>2 DEF SimpleSteps, SimpleOne
  <2>4. Below(u, u)
    BY DEF Below
  <2> QED
    BY <2>1, <2>2, <2>3, <2>4, SimpleAnswers
<1> DEFINE Cwd(i) == MoveFrom(root, SubSeq(commands, 1, i - 1))
<1>3. ASSUME NEW i \in 1..Len(commands) PROVE Cwd(i) = root
  <2> DEFINE t == SubSeq(commands, 1, i - 1)
  <2>1. Len(commands) \in Nat /\ i - 1 \in Nat /\ i - 1 <= Len(commands) /\ commands \in Seq(Commands)
    OBVIOUS
  <2>2. Len(t) = i - 1 /\ \A k \in 1..(i - 1) : t[k] = commands[k]
    BY <2>1
  <2>3. \A k \in 1..(i - 1) : commands[k] \in Plain
    <3> TAKE k \in 1..(i - 1)
    <3>1. k \in 1..Len(commands)
      BY <2>1
    <3> QED
      BY <1>2, <3>1 DEF Plain
  <2>4. t \in Seq(Commands)
    BY <2>1
  <2> HIDE DEF t
  <2>5. t \in Seq(Plain)
    <3>1. \A k \in 1..Len(t) : t[k] \in Plain
      BY <2>2, <2>3
    <3>2. t = [k \in 1..Len(t) |-> t[k]] /\ Len(t) \in Nat
      BY <2>4
    <3> QED
      BY <3>1, <3>2
  <2>6. /\ Folding(Plain, {root}, root, StaySteps)
        /\ IsFoldOf(MoveFrom(root, t), t, {root}, root, StaySteps)
    BY <2>5, StayFold
  <2> DEFINE P == {root}
  <2>7. root \in P /\ \A x \in {root}, k \in 1..Len(t) : x \in P => StaySteps[<<x, t[k]>>] \in P
    <3>1. \A k \in 1..Len(t) : t[k] \in Plain
      BY <2>5
    <3> QED
      BY <2>6, <3>1 DEF Folding
  <2> HIDE DEF P
  <2>8. MoveFrom(root, t) \in {root}
    BY <2>5, <2>6, <2>7, FoldKeeps
  <2> QED
    BY <2>8 DEF t
<1> DEFINE Inside(at, word) == ~path(word).home /\ (at = <<>> \/ UnderRoot(at))
<1>4. ASSUME NEW i \in 1..Len(commands), NEW k \in 2..Len(commands[i]),
             NEW target \in Named(commands[i], k)
      PROVE  Inside(Resolve(Cwd(i), path(target)), target)
  <2>1. LeadsInside(target)
    BY <1>2, OperandsInside
  <2> HIDE DEF Cwd
  <2> QED
    BY <1>3, <2>1 DEF LeadsInside
<1>5. StayInside(commands) <=>
         \A i \in DOMAIN commands : \A k \in 2 .. Len(commands[i]) :
            \A target \in Named(commands[i], k) : Inside(Resolve(Cwd(i), path(target)), target)
  BY DEF StayInside, MoveFrom, MoveTo
<1> HIDE DEF Inside, Cwd
<1>6. DOMAIN commands = 1..Len(commands)
  OBVIOUS
<1> QED
  BY <1>4, <1>5, <1>6

------------------------------------
(* The parser *)

FlagNames == {"unclassified", "dynamic_expansion", "pathname_expansion", "comment",
              "redirection", "background"}
Fields == [commands : Seq(Commands), words : Seq(Words), word : Seq(Words),
           word_started : BOOLEAN, word_count : Nat, quote : {"none", "single", "double"},
           flags : SUBSET FlagNames, error : {"none", "malformed", "too_complex"},
           requires_following_command : BOOLEAN, skip : BOOLEAN, comment : BOOLEAN]
Parsings == {p \in Fields : ~p.word_started => p.word = <<>>}

\* P is what Q is, after the commands, words and flags of b.
Lifted(P, Q, b) ==
    /\ P.commands = b.commands \o Q.commands
    /\ P.word_count = b.word_count + Q.word_count
    /\ P.flags = b.flags \cup Q.flags
    /\ P.words = Q.words /\ P.word = Q.word /\ P.word_started = Q.word_started
    /\ P.quote = Q.quote /\ P.error = Q.error /\ P.skip = Q.skip /\ P.comment = Q.comment
    /\ P.requires_following_command = Q.requires_following_command

\* ... unless that was too much.
After(P, Q, b) == P.error = "too_complex" \/ Lifted(P, Q, b)

\* What the type of the parser says.
LEMMA ParsingParts ==
    ASSUME NEW p \in Parsings
    PROVE  /\ p.commands \in Seq(Commands) /\ p.words \in Seq(Words) /\ p.word \in Seq(Words)
           /\ p.word_started \in BOOLEAN /\ p.word_count \in Nat
           /\ p.quote \in {"none", "single", "double"}
           /\ p.flags \in SUBSET FlagNames /\ p.error \in {"none", "malformed", "too_complex"}
           /\ p.requires_following_command \in BOOLEAN /\ p.skip \in BOOLEAN /\ p.comment \in BOOLEAN
           /\ ~p.word_started => p.word = <<>>
BY DEF Parsings, Fields

\* The fragments of a word make a word.
LEMMA WordTyped == ASSUME NEW word \in Seq(Words) PROVE WordOf(word) \in Words
<1>1. "" \in Words /\ "other" \in Words
  BY LexiconAssumption DEF Words
<1>2. CASE word = <<>>
  <2>1. WordOf(word) = ""
    BY <1>2 DEF WordOf
  <2> QED
    BY <1>1, <2>1
<1>2a. word # <<>> => word[1] \in Words
  BY EmptySeq
<1>3. CASE word # <<>> /\ Len(word) = 1
  <2>1. WordOf(word) = word[1]
    BY <1>3 DEF WordOf
  <2> QED
    BY <1>2a, <1>3, <2>1
<1>4. CASE word # <<>> /\ Len(word) # 1
  <2>1. WordOf(word) = "other"
    BY <1>4 DEF WordOf
  <2> QED
    BY <1>1, <2>1
<1> QED
  BY <1>2, <1>3, <1>4

\* The end of a word.
LEMMA PushWordTyped == ASSUME NEW p \in Parsings PROVE push_word(p) \in Parsings
<1>1. CASE ~p.word_started
  BY <1>1 DEF push_word
<1>2. CASE p.word_started /\ p.word_count >= MAX_POLICY_WORDS
  <2>1. push_word(p) = [p EXCEPT !.error = "too_complex"]
    BY <1>2 DEF push_word, Error
  <2> QED
    BY <2>1 DEF Parsings, Fields
<1>3. CASE p.word_started /\ ~(p.word_count >= MAX_POLICY_WORDS)
  <2> DEFINE w == WordOf(p.word)
  <2>1. w \in Words
    BY ParsingParts, WordTyped
  <2> HIDE DEF w
  <2>2. Append(p.words, w) \in Seq(Words) /\ <<>> \in Seq(Words) /\ p.word_count + 1 \in Nat
    BY <2>1, ParsingParts
  <2>3. push_word(p) = [p EXCEPT !.words = Append(p.words, w), !.word = <<>>,
                                 !.word_started = FALSE, !.word_count = p.word_count + 1]
    BY <1>3 DEF push_word, w
  <2> QED
    BY <2>2, <2>3 DEF Parsings, Fields
<1> QED
  BY <1>1, <1>2, <1>3

\* The end of a word reads alike after the first line.
LEMMA PushWordAfter ==
    ASSUME NEW b \in Parsings, NEW P \in Parsings, NEW Q \in Parsings, After(P, Q, b)
    PROVE  After(push_word(P), push_word(Q), b)
<1> DEFINE P1 == push_word(P)
           Q1 == push_word(Q)
<1>1. CASE P.error = "too_complex"
  <2>1. P1.error = "too_complex"
    BY <1>1 DEF push_word, Error, Parsings, Fields
  <2> QED
    BY <2>1 DEF After
<1>2. CASE Lifted(P, Q, b)
  <2>1. CASE ~P.word_started
    BY <1>2, <2>1 DEF push_word, After, Lifted
  <2>2. CASE P.word_started /\ P.word_count >= MAX_POLICY_WORDS
    <3>1. P1.error = "too_complex"
      BY <2>2 DEF push_word, Error, Parsings, Fields
    <3> QED
      BY <3>1 DEF After
  <2>3. CASE P.word_started /\ ~(P.word_count >= MAX_POLICY_WORDS)
    <3>1. Q.word_started /\ ~(Q.word_count >= MAX_POLICY_WORDS)
      BY <1>2, <2>3, ParsingParts, PolicyLimitsAssumption DEF Lifted
    <3> DEFINE Pushed(p) == [p EXCEPT !.words = Append(@, WordOf(p.word)), !.word = <<>>,
                                      !.word_started = FALSE, !.word_count = @ + 1]
    <3>2. P1 = Pushed(P) /\ Q1 = Pushed(Q)
      BY ONLY <2>3, <3>1 DEF push_word
    <3> HIDE DEF P1, Q1
    <3>3. ASSUME NEW p \in Parsings
          PROVE  /\ Pushed(p).words = Append(p.words, WordOf(p.word)) /\ Pushed(p).word = <<>>
                 /\ ~Pushed(p).word_started /\ Pushed(p).word_started = FALSE
                 /\ Pushed(p).word_count = p.word_count + 1
                 /\ Pushed(p).commands = p.commands /\ Pushed(p).flags = p.flags
                 /\ Pushed(p).quote = p.quote /\ Pushed(p).error = p.error
                 /\ Pushed(p).skip = p.skip /\ Pushed(p).comment = p.comment
                 /\ Pushed(p).requires_following_command = p.requires_following_command
      BY DEF Parsings, Fields
    <3> HIDE DEF Pushed
    <3>4. /\ P1.words = Append(P.words, WordOf(P.word)) /\ P1.word = <<>>
          /\ P1.word_started = FALSE /\ P1.word_count = P.word_count + 1
          /\ P1.commands = P.commands /\ P1.flags = P.flags
          /\ P1.quote = P.quote /\ P1.error = P.error
          /\ P1.skip = P.skip /\ P1.comment = P.comment
          /\ P1.requires_following_command = P.requires_following_command
      BY ONLY P \in Parsings, <3>2, <3>3
    <3>5. /\ Q1.words = Append(Q.words, WordOf(Q.word)) /\ Q1.word = <<>>
          /\ Q1.word_started = FALSE /\ Q1.word_count = Q.word_count + 1
          /\ Q1.commands = Q.commands /\ Q1.flags = Q.flags
          /\ Q1.quote = Q.quote /\ Q1.error = Q.error
          /\ Q1.skip = Q.skip /\ Q1.comment = Q.comment
          /\ Q1.requires_following_command = Q.requires_following_command
      BY ONLY Q \in Parsings, <3>2, <3>3
    <3>6. P1.word_count = b.word_count + Q1.word_count
      <4>1. /\ P.word_count \in Nat /\ Q.word_count \in Nat /\ b.word_count \in Nat
            /\ P.word_count = b.word_count + Q.word_count
        BY <1>2, ParsingParts DEF Lifted
      <4> QED
        BY ONLY <3>4, <3>5, <4>1
    <3>7. Lifted(P1, Q1, b)
      BY ONLY <1>2, <3>4, <3>5, <3>6 DEF Lifted
    <3> QED
      BY <3>7 DEF After, P1, Q1
  <2> QED
    BY <2>1, <2>2, <2>3
<1> QED
  BY <1>1, <1>2 DEF After

\* More of a word.
LEMMA PushTyped ==
    ASSUME NEW p \in Parsings, NEW s \in Seq(Words) PROVE Push(p, s) \in Parsings
<1>1. p.word \o s \in Seq(Words)
  BY ParsingParts
<1> QED
  BY <1>1 DEF Push, Parsings, Fields

\* So does more of a word.
LEMMA PushAfter ==
    ASSUME NEW b \in Parsings, NEW P \in Parsings, NEW Q \in Parsings, After(P, Q, b),
           NEW s \in Seq(Words)
    PROVE  After(Push(P, s), Push(Q, s), b)
BY DEF Push, After, Lifted, Parsings, Fields

\* A flag.
LEMMA FlagTyped ==
    ASSUME NEW p \in Parsings, NEW flag \in FlagNames PROVE Flag(p, flag) \in Parsings
BY DEF Flag, Parsings, Fields

\* So does a flag.
LEMMA FlagAfter ==
    ASSUME NEW b \in Parsings, NEW P \in Parsings, NEW Q \in Parsings, After(P, Q, b), NEW flag
    PROVE  After(Flag(P, flag), Flag(Q, flag), b)
<1>1. CASE P.error = "too_complex"
  BY <1>1 DEF Flag, After, Parsings, Fields
<1>2. CASE Lifted(P, Q, b)
  <2>1. P.flags \cup {flag} = b.flags \cup (Q.flags \cup {flag})
    BY <1>2 DEF Lifted
  <2> QED
    BY <1>2, <2>1 DEF Flag, After, Lifted, Parsings, Fields
<1> QED
  BY <1>1, <1>2 DEF After

\* The quote, the comment and the symbol to be left out.
SetSkip(p, v) == [p EXCEPT !.skip = v]
SetComment(p, v) == [p EXCEPT !.comment = v]
SetQuote(p, q) == [p EXCEPT !.quote = q]
SetQuoted(p, q) == [p EXCEPT !.quote = q, !.word_started = TRUE]

\* Whether the next symbol is skipped.
LEMMA SkipTyped ==
    ASSUME NEW p \in Parsings, NEW v \in BOOLEAN PROVE SetSkip(p, v) \in Parsings
BY DEF SetSkip, Parsings, Fields

\* It is skipped after the first line too.
LEMMA SkipAfter ==
    ASSUME NEW b \in Parsings, NEW P \in Parsings, NEW Q \in Parsings, After(P, Q, b),
           NEW v \in BOOLEAN
    PROVE  After(SetSkip(P, v), SetSkip(Q, v), b)
BY DEF SetSkip, After, Lifted, Parsings, Fields

\* The start of a comment.
LEMMA CommentTyped ==
    ASSUME NEW p \in Parsings, NEW v \in BOOLEAN PROVE SetComment(p, v) \in Parsings
BY DEF SetComment, Parsings, Fields

\* A comment starts alike after the first line.
LEMMA CommentAfter ==
    ASSUME NEW b \in Parsings, NEW P \in Parsings, NEW Q \in Parsings, After(P, Q, b),
           NEW v \in BOOLEAN
    PROVE  After(SetComment(P, v), SetComment(Q, v), b)
BY DEF SetComment, After, Lifted, Parsings, Fields

\* A quote that opens or closes.
LEMMA QuoteTyped ==
    ASSUME NEW p \in Parsings, NEW q \in {"none", "single", "double"} PROVE SetQuote(p, q) \in Parsings
BY DEF SetQuote, Parsings, Fields

\* A quote opens alike after the first line.
LEMMA QuoteAfter ==
    ASSUME NEW b \in Parsings, NEW P \in Parsings, NEW Q \in Parsings, After(P, Q, b),
           NEW q \in {"none", "single", "double"}
    PROVE  After(SetQuote(P, q), SetQuote(Q, q), b)
BY DEF SetQuote, After, Lifted, Parsings, Fields

\* A word that has a quote in it.
LEMMA QuotedTyped ==
    ASSUME NEW p \in Parsings, NEW q \in {"none", "single", "double"} PROVE SetQuoted(p, q) \in Parsings
BY DEF SetQuoted, Parsings, Fields

\* Such a word reads alike after the first line.
LEMMA QuotedAfter ==
    ASSUME NEW b \in Parsings, NEW P \in Parsings, NEW Q \in Parsings, After(P, Q, b),
           NEW q \in {"none", "single", "double"}
    PROVE  After(SetQuoted(P, q), SetQuoted(Q, q), b)
BY DEF SetQuoted, After, Lifted, Parsings, Fields

\* The end of a command.
LEMMA PushCommandTyped ==
    ASSUME NEW p \in Parsings, NEW v \in BOOLEAN PROVE push_command(p, v) \in Parsings
<1>1. CASE p.error # "none"
  BY <1>1 DEF push_command
<1>2. CASE p.error = "none" /\ (p.words = <<>> \/ Len(p.commands) >= MAX_SIMPLE_COMMANDS)
  <2>1. \E e \in {"malformed", "too_complex"} : push_command(p, v) = [p EXCEPT !.error = e]
    BY <1>2 DEF push_command, Error
  <2> QED
    BY <2>1 DEF Parsings, Fields
<1>3. CASE p.error = "none" /\ p.words # <<>> /\ ~(Len(p.commands) >= MAX_SIMPLE_COMMANDS)
  <2>1. p.words \in Commands /\ p.commands \in Seq(Commands)
    BY <1>3, ParsingParts DEF Commands
  <2>2. Append(p.commands, p.words) \in Seq(Commands) /\ <<>> \in Seq(Words)
    BY <2>1
  <2>3. push_command(p, v) = [p EXCEPT !.commands = Append(p.commands, p.words), !.words = <<>>,
                                       !.requires_following_command = v]
    BY <1>3 DEF push_command
  <2> QED
    BY <2>2, <2>3 DEF Parsings, Fields
<1> QED
  BY <1>1, <1>2, <1>3

\* The end of a command reads alike after the first line, unless there are too many.
LEMMA PushCommandAfter ==
    ASSUME NEW b \in Parsings, NEW P \in Parsings, NEW Q \in Parsings, After(P, Q, b),
           NEW v \in BOOLEAN
    PROVE  After(push_command(P, v), push_command(Q, v), b)
<1> DEFINE P1 == push_command(P, v)
           Q1 == push_command(Q, v)
<1>1. CASE P.error = "too_complex"
  BY <1>1 DEF push_command, After
<1>2. CASE Lifted(P, Q, b)
  <2>1. CASE P.error # "none"
    BY <1>2, <2>1 DEF push_command, After, Lifted
  <2>2. CASE P.error = "none" /\ P.words = <<>>
    <3>1. P1 = [P EXCEPT !.error = "malformed"] /\ Q1 = [Q EXCEPT !.error = "malformed"]
      BY <1>2, <2>2 DEF push_command, Lifted, Error
    <3> HIDE DEF P1, Q1
    <3>2. Lifted(P1, Q1, b)
      BY ONLY <1>2, <3>1, P \in Parsings, Q \in Parsings DEF Lifted, Parsings, Fields
    <3> QED
      BY ONLY <3>2 DEF After, P1, Q1
  <2>3. CASE P.error = "none" /\ P.words # <<>> /\ Len(P.commands) >= MAX_SIMPLE_COMMANDS
    <3>1. P1.error = "too_complex"
      BY <2>3 DEF push_command, Error, Parsings, Fields
    <3> QED
      BY <3>1 DEF After
  <2>4. CASE P.error = "none" /\ P.words # <<>> /\ ~(Len(P.commands) >= MAX_SIMPLE_COMMANDS)
    <3> DEFINE c == b.commands
               d == Q.commands
               w == P.words
    <3>1. /\ c \in Seq(Commands) /\ d \in Seq(Commands) /\ w \in Commands
          /\ P.commands = c \o d /\ Q.words = w /\ Q.error = "none"
      BY <1>2, <2>4, ParsingParts DEF Lifted, Commands
    <3>6. /\ P1 = push_command(P, v) /\ Q1 = push_command(Q, v)
          /\ P.error = "none" /\ P.words = w /\ w # <<>>
          /\ ~(Len(c \o d) >= MAX_SIMPLE_COMMANDS)
      BY <2>4, <3>1
    <3> HIDE DEF P1, Q1, c, d, w
    <3>2. Len(c \o d) = Len(c) + Len(d) /\ Len(c) \in Nat /\ Len(d) \in Nat
      BY <3>1
    <3>3. Append(c \o d, w) = c \o Append(d, w)
      <4>1. <<w>> \in Seq(Commands) /\ c \o d \in Seq(Commands)
        BY <3>1
      <4>2. /\ Append(c \o d, w) = (c \o d) \o <<w>>
            /\ Append(d, w) = d \o <<w>>
        BY <3>1, <4>1, AppendIsConcat
      <4>3. (c \o d) \o <<w>> = c \o (d \o <<w>>)
        BY <3>1, <4>1, ConcatAssociative
      <4> QED
        BY <4>2, <4>3
    <3>4. ~(Len(d) >= MAX_SIMPLE_COMMANDS)
      BY <3>6, <3>2, PolicyLimitsAssumption
    <3>5. /\ P1 = [P EXCEPT !.commands = Append(c \o d, w), !.words = <<>>,
                            !.requires_following_command = v]
          /\ Q1 = [Q EXCEPT !.commands = Append(d, w), !.words = <<>>,
                            !.requires_following_command = v]
      BY <3>6, <3>1, <3>4 DEF push_command, d
    <3>7. After(P1, Q1, b)
      BY <1>2, <3>3, <3>5 DEF After, Lifted, Parsings, Fields, c, d
    <3> QED
      BY <3>7 DEF P1, Q1
  <2> QED
    BY <2>1, <2>2, <2>3, <2>4
<1> QED
  BY <1>1, <1>2 DEF After

\* The end of a line.
LEMMA EndTyped ==
    ASSUME NEW p \in Parsings PROVE EndCommand(p) \in Parsings /\ LineEnd(p) \in Parsings
<1>1. \A q \in Parsings : EndCommand(q) \in Parsings
  BY PushCommandTyped DEF EndCommand
<1> QED
  BY <1>1, CommentTyped, PushWordTyped DEF LineEnd, SetComment

\* The end of a command, and that of a line, read alike after the first line.
LEMMA EndAfter ==
    ASSUME NEW b \in Parsings, NEW P \in Parsings, NEW Q \in Parsings, After(P, Q, b)
    PROVE  After(EndCommand(P), EndCommand(Q), b) /\ After(LineEnd(P), LineEnd(Q), b)
<1>1. ASSUME NEW p \in Parsings, NEW q \in Parsings, After(p, q, b)
      PROVE  After(EndCommand(p), EndCommand(q), b)
  <2>1. CASE p.error = "too_complex"
    BY <2>1 DEF EndCommand, After
  <2>2. CASE Lifted(p, q, b) /\ p.error = "none" /\ p.words # <<>>
    <3>1. EndCommand(p) = push_command(p, FALSE) /\ EndCommand(q) = push_command(q, FALSE)
      BY <2>2 DEF EndCommand, Lifted
    <3> QED
      BY <1>1, <3>1, PushCommandAfter
  <2>3. CASE Lifted(p, q, b) /\ ~(p.error = "none" /\ p.words # <<>>)
    BY <2>3 DEF EndCommand, Lifted, After
  <2> QED
    BY <1>1, <2>1, <2>2, <2>3 DEF After
<1> DEFINE p == SetComment(P, FALSE)
           q == SetComment(Q, FALSE)
<1>2. p \in Parsings /\ q \in Parsings /\ After(p, q, b)
  BY CommentTyped, CommentAfter
<1>3. LineEnd(P) = EndCommand(push_word(p)) /\ LineEnd(Q) = EndCommand(push_word(q))
  BY DEF LineEnd, SetComment
<1> HIDE DEF p, q
<1> QED
  BY <1>1, <1>2, <1>3, PushWordTyped, PushWordAfter

\* A word and the command it ends.
LEMMA CommandTyped ==
    ASSUME NEW p \in Parsings, NEW v \in BOOLEAN PROVE push_command(push_word(p), v) \in Parsings
BY PushWordTyped, PushCommandTyped

\* A word and the command it ends read alike after the first line.
LEMMA CommandAfter ==
    ASSUME NEW b \in Parsings, NEW P \in Parsings, NEW Q \in Parsings, After(P, Q, b),
           NEW v \in BOOLEAN
    PROVE  After(push_command(push_word(P), v), push_command(push_word(Q), v), b)
<1>1. /\ push_word(P) \in Parsings /\ push_word(Q) \in Parsings
      /\ After(push_word(P), push_word(Q), b)
  BY PushWordTyped, PushWordAfter
<1> QED
  BY <1>1, PushCommandAfter

------------------------------------
(* The symbols of a command line *)

\* What may follow a symbol.
Nexts == {<<>>} \cup {<<word>> : word \in Words}

\* What may follow is a sequence of words.
LEMMA NextsParts ==
    ASSUME NEW next \in Nexts
    PROVE  /\ next \in Seq(Words) /\ <<"\\">> \in Seq(Words) /\ <<"\\">> \o next \in Seq(Words)
           /\ next # <<>> => next[1] \in Words
<1>1. "\\" \in Words
  BY LexiconAssumption DEF Words
<1>2. <<"\\">> \in Seq(Words)
  BY <1>1
<1>3. next \in Seq(Words)
  <2>1. \A word \in Words : <<word>> \in Seq(Words)
    OBVIOUS
  <2>2. <<>> \in Seq(Words)
    OBVIOUS
  <2> QED
    BY <2>1, <2>2 DEF Nexts
<1>4. <<"\\">> \o next \in Seq(Words)
  BY <1>2, <1>3
<1> QED
  BY <1>2, <1>3, <1>4 DEF Nexts

\* A backslash outside single quotes.
LEMMA BackslashTyped ==
    ASSUME NEW p \in Parsings, NEW next \in Nexts PROVE Backslash(p, next) \in Parsings
<1>1. CASE next = <<>>
  <2>1. Backslash(p, next) = Flag(Push(p, <<"\\">>), "unclassified")
    BY <1>1 DEF Backslash, SetSkip
  <2> QED
    BY <2>1, NextsParts, PushTyped, FlagTyped DEF FlagNames
<1>2. CASE next = <<"NL">>
  <2>1. Backslash(p, next) = SetSkip(p, TRUE)
    BY <1>2 DEF Backslash, SetSkip
  <2> QED
    BY <2>1, SkipTyped
<1>3. CASE next # <<>> /\ next # <<"NL">>
  <2>1. \E s \in {next, <<"\\">> \o next} : Backslash(p, next) = SetSkip(Push(p, s), TRUE)
    BY <1>3 DEF Backslash, SetSkip
  <2> QED
    BY <2>1, NextsParts, PushTyped, SkipTyped
<1> QED
  BY <1>1, <1>2, <1>3

\* A backslash reads alike after the first line.
LEMMA BackslashAfter ==
    ASSUME NEW b \in Parsings, NEW P \in Parsings, NEW Q \in Parsings, Lifted(P, Q, b),
           NEW next \in Nexts
    PROVE  After(Backslash(P, next), Backslash(Q, next), b)
<1>0. After(P, Q, b)
  BY DEF After
<1>1. CASE next = <<>>
  <2>1. /\ Backslash(P, next) = Flag(Push(P, <<"\\">>), "unclassified")
        /\ Backslash(Q, next) = Flag(Push(Q, <<"\\">>), "unclassified")
    BY <1>1 DEF Backslash, SetSkip
  <2> DEFINE P1 == Push(P, <<"\\">>)
             Q1 == Push(Q, <<"\\">>)
  <2>2. <<"\\">> \in Seq(Words)
    BY NextsParts
  <2>3. P1 \in Parsings /\ Q1 \in Parsings /\ After(P1, Q1, b)
    BY <1>0, <2>2, PushTyped, PushAfter
  <2> HIDE DEF P1, Q1
  <2>4. After(Flag(P1, "unclassified"), Flag(Q1, "unclassified"), b)
    BY <2>3, FlagAfter
  <2> QED
    BY <2>1, <2>4 DEF P1, Q1
<1>2. CASE next = <<"NL">>
  <2>1. /\ Backslash(P, next) = SetSkip(P, TRUE)
        /\ Backslash(Q, next) = SetSkip(Q, TRUE)
    BY <1>2 DEF Backslash, SetSkip
  <2> QED
    BY <1>0, <2>1, SkipAfter
<1>3. CASE next # <<>> /\ next # <<"NL">>
  <2>1. PICK s \in {next, <<"\\">> \o next} :
           /\ Backslash(P, next) = SetSkip(Push(P, s), TRUE)
           /\ Backslash(Q, next) = SetSkip(Push(Q, s), TRUE)
    <3>1. P.quote = Q.quote
      BY DEF Lifted
    <3> QED
      BY <1>3, <3>1 DEF Backslash, SetSkip
  <2>2. s \in Seq(Words)
    BY NextsParts
  <2> QED
    BY <1>0, <2>1, <2>2, PushTyped, PushAfter, SkipAfter
<1> QED
  BY <1>1, <1>2, <1>3

\* A symbol outside quotes.
LEMMA UnquotedTyped ==
    ASSUME NEW p \in Parsings, NEW symbol \in Words, NEW next \in Nexts
    PROVE  Unquoted(p, symbol, next) \in Parsings
<1>0. <<symbol>> \in Seq(Words)
  OBVIOUS
<1>1. CASE symbol = "'"
  <2>1. Unquoted(p, symbol, next) = SetQuoted(p, "single")
    BY <1>1 DEF Unquoted, SetSkip, SetComment, SetQuote, SetQuoted
  <2> QED
    BY <1>0, <2>1, QuoteTyped, QuotedTyped
<1>2. CASE symbol = "\""
  <2>1. Unquoted(p, symbol, next) = SetQuoted(p, "double")
    BY <1>2 DEF Unquoted, SetSkip, SetComment, SetQuote, SetQuoted
  <2> QED
    BY <1>0, <2>1, QuoteTyped, QuotedTyped
<1>3. CASE symbol = "\\"
  <2>1. Unquoted(p, symbol, next) = Backslash(p, next)
    BY <1>3 DEF Unquoted, SetSkip, SetComment, SetQuote, SetQuoted
  <2> QED
    BY <1>0, <2>1, BackslashTyped
<1>4. CASE symbol = "$"
  <2>1. Unquoted(p, symbol, next) = Flag(Push(p, <<symbol>>), "dynamic_expansion")
    BY <1>4 DEF Unquoted, SetSkip, SetComment, SetQuote, SetQuoted
  <2> QED
    BY <1>0, <2>1, PushTyped, FlagTyped DEF FlagNames
<1>5. CASE symbol = "*"
  <2>1. Unquoted(p, symbol, next) = Flag(Push(p, <<symbol>>), "pathname_expansion")
    BY <1>5 DEF Unquoted, SetSkip, SetComment, SetQuote, SetQuoted
  <2> QED
    BY <1>0, <2>1, PushTyped, FlagTyped DEF FlagNames
<1>6. CASE symbol = "#" /\ ~p.word_started
  <2>1. Unquoted(p, symbol, next) = SetComment(Flag(p, "comment"), TRUE)
    BY <1>6 DEF Unquoted, SetSkip, SetComment, SetQuote, SetQuoted
  <2> QED
    BY <1>0, <2>1, CommentTyped, FlagTyped DEF FlagNames
<1>7. CASE symbol = ">"
  <2>1. Unquoted(p, symbol, next) = Flag(push_word(p), "redirection")
    BY <1>7 DEF Unquoted, SetSkip, SetComment, SetQuote, SetQuoted
  <2> QED
    BY <1>0, <2>1, PushWordTyped, FlagTyped DEF FlagNames
<1>8. CASE symbol = "&" /\ next = <<"&">>
  <2>1. Unquoted(p, symbol, next) = SetSkip(push_command(push_word(p), TRUE), TRUE)
    BY <1>8 DEF Unquoted, SetSkip, SetComment, SetQuote, SetQuoted
  <2> QED
    BY <1>0, <2>1, CommandTyped, SkipTyped
<1>9. CASE symbol = "&" /\ next # <<"&">>
  <2>1. Unquoted(p, symbol, next) = Flag(push_command(push_word(p), FALSE), "background")
    BY <1>9 DEF Unquoted, SetSkip, SetComment, SetQuote, SetQuoted
  <2> QED
    BY <1>0, <2>1, CommandTyped, FlagTyped DEF FlagNames
<1>10. CASE symbol = "|"
  <2>1. Unquoted(p, symbol, next) = SetSkip(push_command(push_word(p), TRUE), (next = <<"|">>))
    BY <1>10 DEF Unquoted, SetSkip, SetComment, SetQuote, SetQuoted
  <2> QED
    BY <1>0, <2>1, CommandTyped, SkipTyped
<1>11. CASE symbol = ";"
  <2>1. Unquoted(p, symbol, next) = push_command(push_word(p), FALSE)
    BY <1>11 DEF Unquoted, SetSkip, SetComment, SetQuote, SetQuoted
  <2> QED
    BY <1>0, <2>1, CommandTyped
<1>12. CASE symbol = "NL"
  <2>1. Unquoted(p, symbol, next) = LineEnd(p)
    BY <1>12 DEF Unquoted, SetSkip, SetComment, SetQuote, SetQuoted
  <2> QED
    BY <1>0, <2>1, EndTyped
<1>13. CASE symbol = " "
  <2>1. Unquoted(p, symbol, next) = push_word(p)
    BY <1>13 DEF Unquoted, SetSkip, SetComment, SetQuote, SetQuoted
  <2> QED
    BY <1>0, <2>1, PushWordTyped
<1>14. CASE /\ symbol \notin {"'", "\"", "\\", "$", "*", ">", "&", "|", ";", "NL", " "}
            /\ ~(symbol = "#" /\ ~p.word_started)
  <2>1. Unquoted(p, symbol, next) = Push(p, <<symbol>>)
    BY <1>14 DEF Unquoted, SetSkip, SetComment, SetQuote, SetQuoted
  <2> QED
    BY <1>0, <2>1, PushTyped
<1> QED
  BY <1>1, <1>2, <1>3, <1>4, <1>5, <1>6, <1>7, <1>8, <1>9, <1>10, <1>11, <1>12, <1>13, <1>14

\* A symbol outside quotes reads alike after the first line.
LEMMA UnquotedAfter ==
    ASSUME NEW b \in Parsings, NEW P \in Parsings, NEW Q \in Parsings, Lifted(P, Q, b),
           NEW symbol \in Words, NEW next \in Nexts
    PROVE  After(Unquoted(P, symbol, next), Unquoted(Q, symbol, next), b)
<1>0. /\ <<symbol>> \in Seq(Words) /\ After(P, Q, b)
      /\ P.word_started = Q.word_started /\ P.quote = Q.quote
  BY DEF After, Lifted
<1>1. CASE symbol = "'"
  <2>1. /\ Unquoted(P, symbol, next) = SetQuoted(P, "single")
        /\ Unquoted(Q, symbol, next) = SetQuoted(Q, "single")
    BY <1>0, <1>1 DEF Unquoted, SetSkip, SetComment, SetQuote, SetQuoted
  <2> QED
    BY <1>0, <2>1, QuoteAfter, QuotedAfter
<1>2. CASE symbol = "\""
  <2>1. /\ Unquoted(P, symbol, next) = SetQuoted(P, "double")
        /\ Unquoted(Q, symbol, next) = SetQuoted(Q, "double")
    BY <1>0, <1>2 DEF Unquoted, SetSkip, SetComment, SetQuote, SetQuoted
  <2> QED
    BY <1>0, <2>1, QuoteAfter, QuotedAfter
<1>3. CASE symbol = "\\"
  <2>1. /\ Unquoted(P, symbol, next) = Backslash(P, next)
        /\ Unquoted(Q, symbol, next) = Backslash(Q, next)
    BY <1>0, <1>3 DEF Unquoted, SetSkip, SetComment, SetQuote, SetQuoted
  <2> QED
    BY <1>0, <2>1, BackslashAfter
<1>4. CASE symbol = "$"
  <2>1. /\ Unquoted(P, symbol, next) = Flag(Push(P, <<symbol>>), "dynamic_expansion")
        /\ Unquoted(Q, symbol, next) = Flag(Push(Q, <<symbol>>), "dynamic_expansion")
    BY <1>0, <1>4 DEF Unquoted, SetSkip, SetComment, SetQuote, SetQuoted
  <2> QED
    BY <1>0, <2>1, PushTyped, PushAfter, FlagAfter
<1>5. CASE symbol = "*"
  <2>1. /\ Unquoted(P, symbol, next) = Flag(Push(P, <<symbol>>), "pathname_expansion")
        /\ Unquoted(Q, symbol, next) = Flag(Push(Q, <<symbol>>), "pathname_expansion")
    BY <1>0, <1>5 DEF Unquoted, SetSkip, SetComment, SetQuote, SetQuoted
  <2> QED
    BY <1>0, <2>1, PushTyped, PushAfter, FlagAfter
<1>6. CASE symbol = "#" /\ ~P.word_started
  <2>1. /\ Unquoted(P, symbol, next) = SetComment(Flag(P, "comment"), TRUE)
        /\ Unquoted(Q, symbol, next) = SetComment(Flag(Q, "comment"), TRUE)
    BY <1>0, <1>6 DEF Unquoted, SetSkip, SetComment, SetQuote, SetQuoted
  <2>2. /\ Flag(P, "comment") \in Parsings /\ Flag(Q, "comment") \in Parsings
        /\ After(Flag(P, "comment"), Flag(Q, "comment"), b)
    BY <1>0, FlagTyped, FlagAfter DEF FlagNames
  <2> QED
    BY <2>1, <2>2, CommentAfter
<1>7. CASE symbol = ">"
  <2>1. /\ Unquoted(P, symbol, next) = Flag(push_word(P), "redirection")
        /\ Unquoted(Q, symbol, next) = Flag(push_word(Q), "redirection")
    BY <1>0, <1>7 DEF Unquoted, SetSkip, SetComment, SetQuote, SetQuoted
  <2> QED
    BY <1>0, <2>1, PushWordTyped, PushWordAfter, FlagAfter
<1>8. CASE symbol = "&" /\ next = <<"&">>
  <2>1. /\ Unquoted(P, symbol, next) = SetSkip(push_command(push_word(P), TRUE), TRUE)
        /\ Unquoted(Q, symbol, next) = SetSkip(push_command(push_word(Q), TRUE), TRUE)
    BY <1>0, <1>8 DEF Unquoted, SetSkip, SetComment, SetQuote, SetQuoted
  <2>2. /\ push_command(push_word(P), TRUE) \in Parsings /\ push_command(push_word(Q), TRUE) \in Parsings
        /\ After(push_command(push_word(P), TRUE), push_command(push_word(Q), TRUE), b)
    BY <1>0, CommandTyped, CommandAfter
  <2> QED
    BY <2>1, <2>2, SkipAfter
<1>9. CASE symbol = "&" /\ next # <<"&">>
  <2>1. /\ Unquoted(P, symbol, next) = Flag(push_command(push_word(P), FALSE), "background")
        /\ Unquoted(Q, symbol, next) = Flag(push_command(push_word(Q), FALSE), "background")
    BY <1>0, <1>9 DEF Unquoted, SetSkip, SetComment, SetQuote, SetQuoted
  <2>2. /\ push_command(push_word(P), FALSE) \in Parsings /\ push_command(push_word(Q), FALSE) \in Parsings
        /\ After(push_command(push_word(P), FALSE), push_command(push_word(Q), FALSE), b)
    BY <1>0, CommandTyped, CommandAfter
  <2> QED
    BY <2>1, <2>2, FlagAfter
<1>10. CASE symbol = "|"
  <2>1. /\ Unquoted(P, symbol, next) = SetSkip(push_command(push_word(P), TRUE), (next = <<"|">>))
        /\ Unquoted(Q, symbol, next) = SetSkip(push_command(push_word(Q), TRUE), (next = <<"|">>))
    BY <1>0, <1>10 DEF Unquoted, SetSkip, SetComment, SetQuote, SetQuoted
  <2>2. /\ push_command(push_word(P), TRUE) \in Parsings /\ push_command(push_word(Q), TRUE) \in Parsings
        /\ After(push_command(push_word(P), TRUE), push_command(push_word(Q), TRUE), b)
    BY <1>0, CommandTyped, CommandAfter
  <2> QED
    BY <2>1, <2>2, SkipAfter
<1>11. CASE symbol = ";"
  <2>1. /\ Unquoted(P, symbol, next) = push_command(push_word(P), FALSE)
        /\ Unquoted(Q, symbol, next) = push_command(push_word(Q), FALSE)
    BY <1>0, <1>11 DEF Unquoted, SetSkip, SetComment, SetQuote, SetQuoted
  <2> QED
    BY <1>0, <2>1, CommandAfter
<1>12. CASE symbol = "NL"
  <2>1. /\ Unquoted(P, symbol, next) = LineEnd(P)
        /\ Unquoted(Q, symbol, next) = LineEnd(Q)
    BY <1>0, <1>12 DEF Unquoted, SetSkip, SetComment, SetQuote, SetQuoted
  <2> QED
    BY <1>0, <2>1, EndAfter
<1>13. CASE symbol = " "
  <2>1. /\ Unquoted(P, symbol, next) = push_word(P)
        /\ Unquoted(Q, symbol, next) = push_word(Q)
    BY <1>0, <1>13 DEF Unquoted, SetSkip, SetComment, SetQuote, SetQuoted
  <2> QED
    BY <1>0, <2>1, PushWordAfter
<1>14. CASE /\ symbol \notin {"'", "\"", "\\", "$", "*", ">", "&", "|", ";", "NL", " "}
            /\ ~(symbol = "#" /\ ~P.word_started)
  <2>1. /\ Unquoted(P, symbol, next) = Push(P, <<symbol>>)
        /\ Unquoted(Q, symbol, next) = Push(Q, <<symbol>>)
    BY <1>0, <1>14 DEF Unquoted, SetSkip, SetComment, SetQuote, SetQuoted
  <2> QED
    BY <1>0, <2>1, PushAfter
<1> QED
  BY <1>1, <1>2, <1>3, <1>4, <1>5, <1>6, <1>7, <1>8, <1>9, <1>10, <1>11, <1>12, <1>13, <1>14

\* A symbol in double quotes.
LEMMA DoubleQuotedTyped ==
    ASSUME NEW p \in Parsings, NEW symbol \in Words, NEW next \in Nexts
    PROVE  DoubleQuoted(p, symbol, next) \in Parsings
<1>0. <<symbol>> \in Seq(Words)
  OBVIOUS
<1>1. CASE symbol = "\""
  <2>1. DoubleQuoted(p, symbol, next) = SetQuote(p, "none")
    BY <1>1 DEF DoubleQuoted, SetSkip, SetComment, SetQuote, SetQuoted
  <2> QED
    BY <1>0, <2>1, QuoteTyped, QuotedTyped
<1>2. CASE symbol = "\\"
  <2>1. DoubleQuoted(p, symbol, next) = Backslash(p, next)
    BY <1>2 DEF DoubleQuoted, SetSkip, SetComment, SetQuote, SetQuoted
  <2> QED
    BY <1>0, <2>1, BackslashTyped
<1>3. CASE symbol = "$"
  <2>1. DoubleQuoted(p, symbol, next) = Flag(Push(p, <<symbol>>), "dynamic_expansion")
    BY <1>3 DEF DoubleQuoted, SetSkip, SetComment, SetQuote, SetQuoted
  <2> QED
    BY <1>0, <2>1, PushTyped, FlagTyped DEF FlagNames
<1>4. CASE symbol \notin {"\"", "\\", "$"}
  <2>1. DoubleQuoted(p, symbol, next) = Push(p, <<symbol>>)
    BY <1>4 DEF DoubleQuoted, SetSkip, SetComment, SetQuote, SetQuoted
  <2> QED
    BY <1>0, <2>1, PushTyped
<1> QED
  BY <1>1, <1>2, <1>3, <1>4

\* A symbol in double quotes reads alike after the first line.
LEMMA DoubleQuotedAfter ==
    ASSUME NEW b \in Parsings, NEW P \in Parsings, NEW Q \in Parsings, Lifted(P, Q, b),
           NEW symbol \in Words, NEW next \in Nexts
    PROVE  After(DoubleQuoted(P, symbol, next), DoubleQuoted(Q, symbol, next), b)
<1>0. /\ <<symbol>> \in Seq(Words) /\ After(P, Q, b)
      /\ P.word_started = Q.word_started /\ P.quote = Q.quote
  BY DEF After, Lifted
<1>1. CASE symbol = "\""
  <2>1. /\ DoubleQuoted(P, symbol, next) = SetQuote(P, "none")
        /\ DoubleQuoted(Q, symbol, next) = SetQuote(Q, "none")
    BY <1>0, <1>1 DEF DoubleQuoted, SetSkip, SetComment, SetQuote, SetQuoted
  <2> QED
    BY <1>0, <2>1, QuoteAfter, QuotedAfter
<1>2. CASE symbol = "\\"
  <2>1. /\ DoubleQuoted(P, symbol, next) = Backslash(P, next)
        /\ DoubleQuoted(Q, symbol, next) = Backslash(Q, next)
    BY <1>0, <1>2 DEF DoubleQuoted, SetSkip, SetComment, SetQuote, SetQuoted
  <2> QED
    BY <1>0, <2>1, BackslashAfter
<1>3. CASE symbol = "$"
  <2>1. /\ DoubleQuoted(P, symbol, next) = Flag(Push(P, <<symbol>>), "dynamic_expansion")
        /\ DoubleQuoted(Q, symbol, next) = Flag(Push(Q, <<symbol>>), "dynamic_expansion")
    BY <1>0, <1>3 DEF DoubleQuoted, SetSkip, SetComment, SetQuote, SetQuoted
  <2> QED
    BY <1>0, <2>1, PushTyped, PushAfter, FlagAfter
<1>4. CASE symbol \notin {"\"", "\\", "$"}
  <2>1. /\ DoubleQuoted(P, symbol, next) = Push(P, <<symbol>>)
        /\ DoubleQuoted(Q, symbol, next) = Push(Q, <<symbol>>)
    BY <1>0, <1>4 DEF DoubleQuoted, SetSkip, SetComment, SetQuote, SetQuoted
  <2> QED
    BY <1>0, <2>1, PushAfter
<1> QED
  BY <1>1, <1>2, <1>3, <1>4

\* A symbol in single quotes.
LEMMA SingleQuotedTyped ==
    ASSUME NEW p \in Parsings, NEW symbol \in Words
    PROVE  SingleQuoted(p, symbol) \in Parsings
<1>0. <<symbol>> \in Seq(Words)
  OBVIOUS
<1>1. CASE symbol = "'"
  <2>1. SingleQuoted(p, symbol) = SetQuote(p, "none")
    BY <1>1 DEF SingleQuoted, SetSkip, SetComment, SetQuote, SetQuoted
  <2> QED
    BY <1>0, <2>1, QuoteTyped, QuotedTyped
<1>2. CASE symbol # "'"
  <2>1. SingleQuoted(p, symbol) = Push(p, <<symbol>>)
    BY <1>2 DEF SingleQuoted, SetSkip, SetComment, SetQuote, SetQuoted
  <2> QED
    BY <1>0, <2>1, PushTyped
<1> QED
  BY <1>1, <1>2

\* A symbol in single quotes reads alike after the first line.
LEMMA SingleQuotedAfter ==
    ASSUME NEW b \in Parsings, NEW P \in Parsings, NEW Q \in Parsings, Lifted(P, Q, b),
           NEW symbol \in Words
    PROVE  After(SingleQuoted(P, symbol), SingleQuoted(Q, symbol), b)
<1>0. /\ <<symbol>> \in Seq(Words) /\ After(P, Q, b)
      /\ P.word_started = Q.word_started /\ P.quote = Q.quote
  BY DEF After, Lifted
<1>1. CASE symbol = "'"
  <2>1. /\ SingleQuoted(P, symbol) = SetQuote(P, "none")
        /\ SingleQuoted(Q, symbol) = SetQuote(Q, "none")
    BY <1>0, <1>1 DEF SingleQuoted, SetSkip, SetComment, SetQuote, SetQuoted
  <2> QED
    BY <1>0, <2>1, QuoteAfter, QuotedAfter
<1>2. CASE symbol # "'"
  <2>1. /\ SingleQuoted(P, symbol) = Push(P, <<symbol>>)
        /\ SingleQuoted(Q, symbol) = Push(Q, <<symbol>>)
    BY <1>0, <1>2 DEF SingleQuoted, SetSkip, SetComment, SetQuote, SetQuoted
  <2> QED
    BY <1>0, <2>1, PushAfter
<1> QED
  BY <1>1, <1>2

\* One symbol.
LEMMA ParseTyped ==
    ASSUME NEW p \in Parsings, NEW symbol \in Words, NEW next \in Nexts
    PROVE  ParseSymbol(p, symbol, next) \in Parsings
<1>0. p.quote \in {"none", "single", "double"}
  BY ParsingParts
<1>1. ParseSymbol(p, symbol, next) \in
         {p, SetSkip(p, FALSE), LineEnd(p), Unquoted(p, symbol, next),
          DoubleQuoted(p, symbol, next), SingleQuoted(p, symbol)}
  BY <1>0 DEF ParseSymbol, SetSkip
<1>2. /\ SetSkip(p, FALSE) \in Parsings
      /\ LineEnd(p) \in Parsings
      /\ Unquoted(p, symbol, next) \in Parsings
      /\ DoubleQuoted(p, symbol, next) \in Parsings
      /\ SingleQuoted(p, symbol) \in Parsings
  BY SkipTyped, EndTyped, UnquotedTyped, DoubleQuotedTyped, SingleQuotedTyped
<1> QED
  BY ONLY <1>1, <1>2, p \in Parsings

\* An error stays, and with it everything else.
LEMMA ParseStops ==
    ASSUME NEW p, NEW symbol, NEW next, p.error # "none"
    PROVE  ParseSymbol(p, symbol, next) = p
BY DEF ParseSymbol, SetSkip

\* Every symbol of the second line reads as it would alone.
LEMMA ParseAfter ==
    ASSUME NEW b \in Parsings, NEW P \in Parsings, NEW Q \in Parsings, After(P, Q, b),
           NEW symbol \in Words, NEW next \in Nexts
    PROVE  After(ParseSymbol(P, symbol, next), ParseSymbol(Q, symbol, next), b)
<1>1. CASE P.error = "too_complex"
  BY <1>1, ParseStops DEF After
<1>2. CASE Lifted(P, Q, b)
  <2>0. /\ P.error = Q.error /\ P.skip = Q.skip /\ P.comment = Q.comment /\ P.quote = Q.quote
        /\ P.quote \in {"none", "single", "double"}
        /\ P.skip \in BOOLEAN /\ P.comment \in BOOLEAN
    BY <1>2, ParsingParts DEF Lifted
  <2>1. CASE P.error # "none"
    BY <1>2, <2>0, <2>1, ParseStops DEF After
  <2>2. CASE P.error = "none" /\ P.skip
    <3>1. /\ ParseSymbol(P, symbol, next) = SetSkip(P, FALSE)
          /\ ParseSymbol(Q, symbol, next) = SetSkip(Q, FALSE)
      BY <2>0, <2>2 DEF ParseSymbol, SetSkip
    <3> QED
      BY <3>1, SkipAfter
  <2>3. CASE P.error = "none" /\ ~P.skip /\ P.comment
    <3>1. CASE symbol = "NL"
      <4>1. ParseSymbol(P, symbol, next) = LineEnd(P) /\ ParseSymbol(Q, symbol, next) = LineEnd(Q)
        BY <2>0, <2>3, <3>1 DEF ParseSymbol, SetSkip
      <4> QED
        BY <4>1, EndAfter
    <3>2. CASE symbol # "NL"
      <4>1. ParseSymbol(P, symbol, next) = P /\ ParseSymbol(Q, symbol, next) = Q
        BY <2>0, <2>3, <3>2 DEF ParseSymbol, SetSkip
      <4> QED
        BY <4>1
    <3> QED
      BY <3>1, <3>2
  <2>4. CASE P.error = "none" /\ ~P.skip /\ ~P.comment
    <3>1. CASE P.quote = "none"
      <4>1. /\ ParseSymbol(P, symbol, next) = Unquoted(P, symbol, next)
            /\ ParseSymbol(Q, symbol, next) = Unquoted(Q, symbol, next)
        BY <2>0, <2>4, <3>1 DEF ParseSymbol, SetSkip
      <4> QED
        BY <1>2, <4>1, UnquotedAfter
    <3>2. CASE P.quote = "double"
      <4>1. /\ ParseSymbol(P, symbol, next) = DoubleQuoted(P, symbol, next)
            /\ ParseSymbol(Q, symbol, next) = DoubleQuoted(Q, symbol, next)
        BY <2>0, <2>4, <3>2 DEF ParseSymbol, SetSkip
      <4> QED
        BY <1>2, <4>1, DoubleQuotedAfter
    <3>3. CASE P.quote = "single"
      <4>1. /\ ParseSymbol(P, symbol, next) = SingleQuoted(P, symbol)
            /\ ParseSymbol(Q, symbol, next) = SingleQuoted(Q, symbol)
        BY <2>0, <2>4, <3>3 DEF ParseSymbol, SetSkip
      <4> QED
        BY <1>2, <4>1, SingleQuotedAfter
    <3> QED
      BY <2>0, <3>1, <3>2, <3>3
  <2> QED
    BY <2>0, <2>1, <2>2, <2>3, <2>4
<1> QED
  BY <1>1, <1>2 DEF After

ParseAt(p, i, command) == ParseSymbol(p, command[i], At(command, i + 1))
ParseFrom(positions, command) == FoldLeft(LAMBDA p, i : ParseAt(p, i, command), Start, positions)
ParseSteps(command) == [x \in Parsings \X (1..Len(command)) |-> ParseAt(x[1], x[2], command)]

\* The parser before the first symbol.
LEMMA StartTyped == Start \in Parsings
<1>1. /\ <<>> \in Seq(Commands) /\ <<>> \in Seq(Words)
      /\ {} \in SUBSET FlagNames
  OBVIOUS
<1> QED
  BY <1>1 DEF Start, Parsings, Fields

\* The symbol after a position, if any.
LEMMA AtTyped == ASSUME NEW s \in Seq(Words), NEW i PROVE At(s, i) \in Nexts
BY DEF At, Nexts

\* The symbol at a position.
LEMMA ParseAtTyped ==
    ASSUME NEW command \in Seq(Words)
    PROVE  /\ Start \in Parsings
           /\ \A p \in Parsings, i \in 1..Len(command) : ParseAt(p, i, command) \in Parsings
<1>1. \A i \in 1..Len(command) : command[i] \in Words
  OBVIOUS
<1> QED
  BY <1>1, StartTyped, AtTyped, ParseTyped DEF ParseAt

\* The symbols, one by one.
LEMMA ParseFold ==
    ASSUME NEW command \in Seq(Words), NEW positions \in Seq(1..Len(command))
    PROVE  /\ Folding(1..Len(command), Parsings, Start, ParseSteps(command))
           /\ IsFoldOf(ParseFrom(positions, command), positions, Parsings, Start, ParseSteps(command))
<1> DEFINE n == Len(positions)
           Folds(g) == g = [s \in SUBSET (1..n) |->
                               IF s = {} THEN Start
                               ELSE ParseAt(g[s \ {Max(s)}], positions[Max(s)], command)]
           iter == CHOOSE g : Folds(g)
<1>1. n \in Nat /\ DOMAIN positions = 1..n
  OBVIOUS
<1>2. ParseFrom(positions, command) = iter[1..n]
  BY <1>1 DEF ParseFrom, FoldLeft, MapThenFoldSet
<1>3. /\ Folding(1..Len(command), Parsings, Start, ParseSteps(command))
      /\ \A x \in Parsings, e \in 1..Len(command) : ParseSteps(command)[<<x, e>>] = ParseAt(x, e, command)
  BY ParseAtTyped DEF Folding, ParseSteps
<1>4. Folds(iter)
  <2>1. PICK g : Defines(g, positions, 1..Len(command), Parsings, Start, ParseSteps(command))
    BY <1>3, FoldIsDefined
  <2>2. \A s \in SUBSET (1..n) : s # {} => g[s] = ParseAt(g[s \ {Max(s)}], positions[Max(s)], command)
    BY <1>3, <2>1 DEF Defines
  <2>3. Folds(g)
    <3>1. g \in [SUBSET (1..n) -> Parsings] /\ g[{}] = Start
      BY <2>1 DEF Defines
    <3> HIDE DEF n
    <3> QED
      BY <2>2, <3>1
  <2> HIDE DEF Folds
  <2> QED
    BY <2>3
<1> HIDE DEF iter
<1>5. FoldsTo(iter, positions, Parsings, Start, ParseSteps(command))
  <2>1. iter[{}] = Start
    BY <1>4
  <2>2. ASSUME NEW s \in SUBSET (1..n), s # {}, iter[s \ {Max(s)}] \in Parsings
        PROVE  iter[s] = ParseSteps(command)[<<iter[s \ {Max(s)}], positions[Max(s)]>>]
    <3>1. Max(s) \in 1..n
      <4>1. s \in SUBSET (1..(n + 1))
        BY <1>1
      <4> QED
        BY <1>1, <2>2, <4>1, MaxOfPositions
    <3>2. positions[Max(s)] \in 1..Len(command)
      BY <3>1
    <3>3. iter[s] = ParseAt(iter[s \ {Max(s)}], positions[Max(s)], command)
      <4> HIDE DEF n
      <4> QED
        BY <1>4, <2>2
    <3> QED
      BY <1>3, <2>2, <3>2, <3>3
  <2> QED
    BY <2>1, <2>2 DEF FoldsTo
<1> HIDE DEF n
<1>6. IsFoldOf(ParseFrom(positions, command), positions, Parsings, Start, ParseSteps(command))
  BY <1>2, <1>5 DEF n, IsFoldOf
<1> QED
  BY <1>3, <1>6

\* The parser as a run of its steps.
LEMMA SymbolRuns ==
    ASSUME NEW command \in Seq(Words)
    PROVE  \E a \in [0..Len(command) -> Parsings] :
              /\ a[0] = Start /\ a[Len(command)] = Symbols(command)
              /\ \A k \in 0..(Len(command) - 1) : a[k + 1] = ParseAt(a[k], k + 1, command)
<1> DEFINE n == Len(command)
           t == [i \in DOMAIN command |-> i]
<1>1. n \in Nat /\ t \in Seq(1..n) /\ Len(t) = n /\ \A k \in 0..(n - 1) : t[k + 1] = k + 1
  OBVIOUS
<1>2. Symbols(command) = ParseFrom(t, command)
  BY DEF Symbols, ParseFrom, ParseAt
<1> HIDE DEF t
<1>3. /\ Folding(1..n, Parsings, Start, ParseSteps(command))
      /\ IsFoldOf(ParseFrom(t, command), t, Parsings, Start, ParseSteps(command))
  BY <1>1, ParseFold
<1>4. \A x \in Parsings, i \in 1..n : ParseSteps(command)[<<x, i>>] = ParseAt(x, i, command)
  BY DEF ParseSteps
<1> HIDE DEF n
<1>5. PICK a \in [0..n -> Parsings] :
         /\ a[0] = Start /\ a[n] = ParseFrom(t, command)
         /\ \A k \in 0..(n - 1) : t[k + 1] \in 1..n /\ a[k + 1] = ParseSteps(command)[<<a[k], t[k + 1]>>]
  <2>1. t \in Seq(1..n)
    BY <1>1
  <2> QED
    BY ONLY <1>1, <1>3, <2>1, FoldRuns
<1>6. ASSUME NEW k \in 0..(n - 1) PROVE a[k + 1] = ParseAt(a[k], k + 1, command)
  <2>1. t[k + 1] = k + 1 /\ k \in 0..n /\ k + 1 \in 1..n
    BY <1>1
  <2>2. a[k] \in Parsings
    BY <2>1
  <2> QED
    BY <1>4, <1>5, <2>1, <2>2
<1> QED
  BY <1>2, <1>5, <1>6 DEF n

\* What the parser says of a line.
LEMMA ParsedTyped ==
    ASSUME NEW command \in Seq(Words)
    PROVE  Symbols(command) \in Parsings /\ parse(command) \in Parsings
<1>1. Symbols(command) \in Parsings
  <2>1. PICK a \in [0..Len(command) -> Parsings] : a[Len(command)] = Symbols(command)
    BY SymbolRuns
  <2>2. Len(command) \in 0..Len(command)
    OBVIOUS
  <2> QED
    BY <2>1, <2>2
<1>2. \A p \in Parsings : Error(p, "malformed") \in Parsings
  BY DEF Error, Parsings, Fields
<1>3. \A p \in Parsings : EndCommand(push_word(p)) \in Parsings
  BY PushWordTyped, EndTyped
<1>4. \A p \in Parsings : RequireComplete(p) \in Parsings
  BY <1>2 DEF RequireComplete
<1>5. \A p \in Parsings : Finish(p) \in Parsings
  BY <1>2, <1>3, <1>4 DEF Finish
<1> QED
  BY <1>1, <1>5 DEF parse

\* A blank line has no command.
LEMMA BlankIsEmpty ==
    ASSUME NEW command \in Seq(Words), Blank(command)
    PROVE  Symbols(command) = Start /\ NothingToRun(command) /\ parse(command).error = "malformed"
<1>1. push_word(Start) = Start /\ EndCommand(Start) = Start /\ LineEnd(Start) = Start
  BY DEF Start, push_word, EndCommand, LineEnd
<1>2. \A i \in 1..Len(command) : ParseAt(Start, i, command) = Start
  <2> SUFFICES ASSUME NEW i \in 1..Len(command) PROVE ParseAt(Start, i, command) = Start
    OBVIOUS
  <2>1. command[i] = " " \/ command[i] = "NL"
    <3>1. i \in DOMAIN command
      OBVIOUS
    <3> QED
      BY <3>1 DEF Blank
  <2>2. ParseSymbol(Start, command[i], At(command, i + 1)) = Unquoted(Start, command[i], At(command, i + 1))
    BY DEF ParseSymbol, Start
  <2> QED
    BY <1>1, <2>1, <2>2 DEF ParseAt, Unquoted
<1> DEFINE n == Len(command)
<1>3. PICK a \in [0..n -> Parsings] :
         /\ a[0] = Start /\ a[n] = Symbols(command)
         /\ \A k \in 0..(n - 1) : a[k + 1] = ParseAt(a[k], k + 1, command)
  BY SymbolRuns
<1>4. n \in Nat
  OBVIOUS
<1>5. \A i \in 1..n : ParseAt(Start, i, command) = Start
  BY <1>2
<1> HIDE DEF n
<1> DEFINE P == {k \in Nat : k <= n => a[k] = Start}
<1>6. 0 \in P
  BY <1>3
<1>7. ASSUME NEW k \in P PROVE k + 1 \in P
  <2> SUFFICES ASSUME k + 1 <= n PROVE a[k + 1] = Start
    OBVIOUS
  <2>1. k \in 0..(n - 1) /\ k + 1 \in 1..n /\ a[k] = Start
    BY <1>4
  <2> QED
    BY <1>3, <1>5, <2>1
<1> HIDE DEF P
<1>8. P = Nat
  <2>1. P \in SUBSET Nat
    BY DEF P
  <2> QED
    BY <1>6, <1>7, <2>1, Induction
<1>9. Symbols(command) = Start
  BY <1>3, <1>4, <1>8 DEF P
<1>10. NothingToRun(command)
  BY <1>1, <1>9 DEF NothingToRun, Start
<1>11. Finish(Start) = [Start EXCEPT !.error = "malformed"]
  <2>1. Start.error = "none" /\ Start.quote = "none" /\ Start.commands = <<>>
    BY DEF Start
  <2> QED
    BY <1>1, <2>1 DEF Finish, RequireComplete, Error
<1>12. Finish(Start).error = "malformed"
  BY <1>11 DEF Start
<1> QED
  BY <1>9, <1>10, <1>12 DEF parse

------------------------------------
(* The end of a line *)

\* What follows the last symbol: nothing, or a newline and the next line.
LEMMA LastBackslash ==
    ASSUME NEW p \in Parsings
    PROVE  /\ "unclassified" \in Backslash(p, <<>>).flags
           /\ Backslash(p, <<>>).skip = p.skip
<1> DEFINE q == Push(p, <<"\\">>)
<1>1. Backslash(p, <<>>) = Flag(q, "unclassified")
  BY DEF Backslash
<1>2. <<>> \in Nexts
  BY DEF Nexts
<1>3. <<"\\">> \in Seq(Words)
  BY <1>2, NextsParts
<1>4. q \in Fields /\ q.skip = p.skip
  <2>1. q \in Parsings
    BY <1>3, PushTyped
  <2>2. q.skip = p.skip
    BY DEF Push, Parsings, Fields
  <2> QED
    BY <2>1, <2>2 DEF Parsings
<1> HIDE DEF q
<1>5. Flag(q, "unclassified").flags = q.flags \cup {"unclassified"}
      /\ Flag(q, "unclassified").skip = q.skip
  BY <1>4 DEF Flag, Fields
<1> QED
  BY <1>1, <1>4, <1>5

\* Only a symbol that takes the next one with it skips.
LEMMA SkipStays ==
    ASSUME NEW p \in Parsings, NEW v \in BOOLEAN
    PROVE  /\ push_word(p).skip = p.skip /\ push_command(p, v).skip = p.skip
           /\ EndCommand(p).skip = p.skip
           /\ LineEnd(p).skip = p.skip
<1>1. \A q \in Parsings : push_word(q).skip = q.skip
  BY DEF push_word, Error, Parsings, Fields
<1>2. \A q \in Parsings, w \in BOOLEAN : push_command(q, w).skip = q.skip
  BY DEF push_command, Error, Parsings, Fields
<1>3. \A q \in Parsings : EndCommand(q).skip = q.skip
  BY <1>2 DEF EndCommand
<1>4. LineEnd(p).skip = p.skip
  <2> DEFINE q == SetComment(p, FALSE)
  <2>1. q \in Parsings /\ q.skip = p.skip /\ LineEnd(p) = EndCommand(push_word(q))
    BY CommentTyped DEF SetComment, LineEnd, Parsings, Fields
  <2> HIDE DEF q
  <2> QED
    BY <1>1, <1>3, <2>1, PushWordTyped
<1> QED
  BY <1>1, <1>2, <1>3, <1>4

\* The last symbol of a line that is closed does not read the newline.
LEMMA LastSymbol ==
    ASSUME NEW p \in Parsings, NEW symbol \in Words
    PROVE  LET r == ParseSymbol(p, symbol, <<>>)
           IN  /\ ParseSymbol(p, symbol, <<"NL">>) = r \/ "unclassified" \in r.flags
               /\ r.error = "none" => r.skip = FALSE
<1> DEFINE r == ParseSymbol(p, symbol, <<>>)
           s == ParseSymbol(p, symbol, <<"NL">>)
<1>0. /\ p.quote \in {"none", "single", "double"}
      /\ p.skip \in BOOLEAN /\ p.comment \in BOOLEAN
      /\ <<>> \in Nexts
  BY ParsingParts DEF Nexts
<1>1. CASE p.error # "none"
  BY <1>1, ParseStops
<1>2. CASE p.error = "none" /\ p.skip
  <2>1. r = SetSkip(p, FALSE) /\ s = SetSkip(p, FALSE)
    BY <1>2 DEF ParseSymbol, SetSkip
  <2>2. SetSkip(p, FALSE).skip = FALSE
    BY DEF SetSkip, Parsings, Fields
  <2> HIDE DEF r, s
  <2> QED
    BY <2>1, <2>2 DEF r, s
<1>3. CASE p.error = "none" /\ ~p.skip /\ p.comment
  <2>1. r \in {p, LineEnd(p)} /\ s = r
    BY <1>3 DEF ParseSymbol
  <2>2. r.skip = p.skip
    BY <2>1, SkipStays
  <2> HIDE DEF r, s
  <2> QED
    BY <1>3, <2>1, <2>2 DEF r, s
<1>4. CASE p.error = "none" /\ ~p.skip /\ ~p.comment /\ p.quote = "none"
  <2>1. r = Unquoted(p, symbol, <<>>) /\ s = Unquoted(p, symbol, <<"NL">>)
    BY <1>4 DEF ParseSymbol
  <2> HIDE DEF r, s
  <2>2. CASE symbol = "\\"
    <3>1. r = Backslash(p, <<>>)
      BY <2>1, <2>2 DEF Unquoted
    <3> QED
      BY <1>4, <3>1, LastBackslash DEF r, s
  <2>3. CASE symbol \in {"&", "|"}
    <3> DEFINE x == push_command(push_word(p), FALSE)
               y == push_command(push_word(p), TRUE)
    <3>1. x \in Parsings /\ x.skip = p.skip /\ y \in Parsings
      BY CommandTyped, PushWordTyped, SkipStays
    <3>2. CASE symbol = "&"
      <4>1. r = Flag(x, "background") /\ s = Flag(x, "background")
        BY <2>1, <3>2 DEF Unquoted
      <4> HIDE DEF x
      <4>2. Flag(x, "background").skip = x.skip
        BY <3>1 DEF Flag, Parsings, Fields
      <4> QED
        BY <1>4, <3>1, <4>1, <4>2 DEF r, s
    <3>3. CASE symbol = "|"
      <4>0. <<>> # <<"|">> /\ <<"NL">> # <<"|">>
        OBVIOUS
      <4>1. r = SetSkip(y, <<>> = <<"|">>) /\ s = SetSkip(y, <<"NL">> = <<"|">>)
        BY <2>1, <3>3 DEF Unquoted, SetSkip
      <4> HIDE DEF y
      <4>2. r = SetSkip(y, FALSE) /\ s = SetSkip(y, FALSE)
        BY <4>0, <4>1
      <4>3. SetSkip(y, FALSE).skip = FALSE
        BY <3>1 DEF SetSkip, Parsings, Fields
      <4> QED
        BY <4>2, <4>3 DEF r, s
    <3> QED
      BY <2>3, <3>2, <3>3
  <2>4. CASE symbol \notin {"\\", "&", "|"}
    <3>1. s = r
      BY <2>1, <2>4 DEF Unquoted
    <3>2. r \in {SetQuoted(p, "single"), SetQuoted(p, "double"),
                 Flag(Push(p, <<symbol>>), "dynamic_expansion"),
                 Flag(Push(p, <<symbol>>), "pathname_expansion"),
                 SetComment(Flag(p, "comment"), TRUE),
                 Flag(push_word(p), "redirection"),
                 push_command(push_word(p), FALSE), LineEnd(p), push_word(p),
                 Push(p, <<symbol>>)}
      BY <2>1, <2>4 DEF Unquoted, SetQuoted, SetComment
    <3>3. \A q \in Parsings, flag \in FlagNames : Flag(q, flag).skip = q.skip
      BY DEF Flag, Parsings, Fields
    <3>4. \A q \in Parsings : /\ Push(q, <<symbol>>).skip = q.skip
                              /\ SetComment(q, TRUE).skip = q.skip
                              /\ SetQuoted(q, "single").skip = q.skip
                              /\ SetQuoted(q, "double").skip = q.skip
      BY DEF Push, SetComment, SetQuoted, Parsings, Fields
    <3>5. /\ push_word(p) \in Parsings /\ push_word(p).skip = p.skip
          /\ push_command(push_word(p), FALSE).skip = p.skip /\ LineEnd(p).skip = p.skip
      BY SkipStays, PushWordTyped
    <3>6. /\ Push(p, <<symbol>>) \in Parsings /\ Flag(p, "comment") \in Parsings
          /\ {"dynamic_expansion", "pathname_expansion", "comment", "redirection"} \subseteq FlagNames
      <4>1. <<symbol>> \in Seq(Words)
        OBVIOUS
      <4> QED
        BY <4>1, PushTyped, FlagTyped DEF FlagNames
    <3>7. r.skip = p.skip
      <4>1. /\ Flag(Push(p, <<symbol>>), "dynamic_expansion").skip = p.skip
            /\ Flag(Push(p, <<symbol>>), "pathname_expansion").skip = p.skip
        BY <3>3, <3>4, <3>6
      <4>2. SetComment(Flag(p, "comment"), TRUE).skip = p.skip
        BY <3>3, <3>4, <3>6
      <4>3. Flag(push_word(p), "redirection").skip = p.skip
        BY <3>3, <3>5, <3>6
      <4>4. /\ SetQuoted(p, "single").skip = p.skip /\ SetQuoted(p, "double").skip = p.skip
            /\ Push(p, <<symbol>>).skip = p.skip
        BY <3>4
      <4> QED
        BY ONLY <3>2, <3>5, <4>1, <4>2, <4>3, <4>4
    <3> QED
      BY <1>4, <3>1, <3>7 DEF r, s
  <2> QED
    BY <2>2, <2>3, <2>4
<1>5. CASE p.error = "none" /\ ~p.skip /\ ~p.comment /\ p.quote = "double"
  <2>1. r = DoubleQuoted(p, symbol, <<>>) /\ s = DoubleQuoted(p, symbol, <<"NL">>)
    BY <1>5 DEF ParseSymbol
  <2> HIDE DEF r, s
  <2>2. CASE symbol = "\\"
    <3>1. r = Backslash(p, <<>>)
      BY <2>1, <2>2 DEF DoubleQuoted
    <3> QED
      BY <1>5, <3>1, LastBackslash DEF r, s
  <2>3. CASE symbol # "\\"
    <3>1. s = r /\ r \in {SetQuote(p, "none"), Push(p, <<symbol>>),
                           Flag(Push(p, <<symbol>>), "dynamic_expansion")}
      BY <2>1, <2>3 DEF DoubleQuoted, SetQuote
    <3>2. /\ SetQuote(p, "none").skip = p.skip
          /\ Push(p, <<symbol>>).skip = p.skip
          /\ Flag(Push(p, <<symbol>>), "dynamic_expansion").skip = p.skip
      BY DEF SetQuote, Push, Flag, Parsings, Fields
    <3> QED
      BY <1>5, <3>1, <3>2 DEF r, s
  <2> QED
    BY <2>2, <2>3
<1>6. CASE p.error = "none" /\ ~p.skip /\ ~p.comment /\ p.quote = "single"
  <2>1. r = SingleQuoted(p, symbol) /\ s = SingleQuoted(p, symbol)
    BY <1>6 DEF ParseSymbol
  <2>2. SingleQuoted(p, symbol).skip = p.skip
    BY DEF SingleQuoted, Push, Parsings, Fields
  <2> HIDE DEF r, s
  <2> QED
    BY <1>6, <2>1, <2>2 DEF r, s
<1> QED
  BY <1>0, <1>1, <1>2, <1>3, <1>4, <1>5, <1>6

\* The end of a line, or of the text, that leaves nothing open.
LEMMA CommentIsApart ==
    ASSUME NEW p \in Parsings
    PROVE  LineEnd(p) = SetComment(EndCommand(push_word(p)), FALSE)
<1>1. /\ push_word(SetComment(p, FALSE)) = SetComment(push_word(p), FALSE)
  BY DEF push_word, SetComment, Error, Parsings, Fields
<1>2. ASSUME NEW q \in Parsings PROVE EndCommand(SetComment(q, FALSE)) = SetComment(EndCommand(q), FALSE)
  BY DEF EndCommand, push_command, SetComment, Error, Parsings, Fields
<1> QED
  BY <1>1, <1>2, PushWordTyped DEF LineEnd, SetComment

\* What is known of a line that the parser accepts.
LEMMA FinishedLine ==
    ASSUME NEW p \in Parsings, Finish(p).error = "none"
    PROVE  /\ p.error = "none" /\ p.quote = "none"
           /\ Finish(p) = EndCommand(push_word(p)) /\ Finish(p) \in Parsings
           /\ Finish(p).commands # <<>> /\ Finish(p).requires_following_command = FALSE
           /\ Finish(p).flags = p.flags
           /\ Finish(p).words = <<>> /\ Finish(p).word = <<>> /\ Finish(p).word_started = FALSE
           /\ Finish(p).quote = "none" /\ Finish(p).skip = p.skip
<1> DEFINE x == push_word(p)
           e == EndCommand(x)
<1>1. x \in Parsings /\ e \in Parsings
  BY PushWordTyped, EndTyped
<1>2. p.error = "none" /\ p.quote = "none"
  <2>1. \A q \in Parsings : Error(q, "malformed").error = "malformed"
    BY DEF Error, Parsings, Fields
  <2> QED
    BY <2>1 DEF Finish
<1>3. Finish(p) = RequireComplete(e)
  BY <1>2 DEF Finish
<1>4. \A q \in Parsings : Error(q, "malformed").error = "malformed"
  BY DEF Error, Parsings, Fields
<1>5. /\ x.flags = p.flags /\ x.quote = p.quote /\ x.skip = p.skip /\ (x.error = "none" => ~x.word_started)
  BY <1>2 DEF push_word, Error, Parsings, Fields
<1> HIDE DEF x
<1>6. e.flags = x.flags /\ e.quote = x.quote /\ e.skip = x.skip
      /\ (e.error = "none" => x.error = "none" /\ e.words = <<>> /\ e.word_started = x.word_started)
  BY <1>1 DEF EndCommand, push_command, Error, Parsings, Fields
<1> HIDE DEF e
<1>7. e.error = "none" /\ ~(e.commands = <<>> \/ e.requires_following_command) /\ Finish(p) = e
  BY <1>1, <1>3, <1>4 DEF RequireComplete
<1>8. e.word_started = FALSE /\ e.word = <<>> /\ e.requires_following_command = FALSE
  BY <1>1, <1>5, <1>6, <1>7, ParsingParts
<1> QED
  BY <1>1, <1>2, <1>5, <1>6, <1>7, <1>8 DEF e, x

\* A line that is finished is followed by a newline.
LEMMA NextLine ==
    ASSUME NEW p \in Parsings, Finish(p).error = "none", p.skip = FALSE, NEW next
    PROVE  /\ ParseSymbol(p, "NL", next) \in Parsings
           /\ Lifted(ParseSymbol(p, "NL", next), Start, Finish(p))
<1> DEFINE e == Finish(p)
<1>1. /\ p.error = "none" /\ p.quote = "none"
      /\ e = EndCommand(push_word(p)) /\ e \in Parsings
      /\ e.requires_following_command = FALSE
      /\ e.words = <<>> /\ e.word = <<>> /\ e.word_started = FALSE
      /\ e.quote = "none" /\ e.skip = FALSE /\ e.error = "none"
  BY FinishedLine
<1>2. ParseSymbol(p, "NL", next) = LineEnd(p)
  <2>1. p.comment \in BOOLEAN
    BY ParsingParts
  <2>2. CASE p.comment
    BY <1>1, <2>2 DEF ParseSymbol
  <2>3. CASE ~p.comment
    <3>1. ParseSymbol(p, "NL", next) = Unquoted(p, "NL", next)
      BY <1>1, <2>3 DEF ParseSymbol
    <3> QED
      BY <3>1 DEF Unquoted
  <2> QED
    BY <2>1, <2>2, <2>3
<1>3. LineEnd(p) = SetComment(e, FALSE)
  BY <1>1, CommentIsApart
<1> HIDE DEF e
<1>4. e.commands \o <<>> = e.commands /\ e.word_count + 0 = e.word_count /\ e.flags \cup {} = e.flags
  BY <1>1, ParsingParts
<1>5. Lifted(SetComment(e, FALSE), Start, e)
  BY <1>1, <1>4 DEF Lifted, Start, SetComment, Parsings, Fields
<1>6. SetComment(e, FALSE) \in Parsings
  BY <1>1, CommentTyped
<1> QED
  BY <1>2, <1>3, <1>5, <1>6 DEF e

\* The symbols of two lines.
LEMMA LinesJoin ==
    ASSUME NEW first \in Seq(Words), NEW second \in Seq(Words)
    PROVE  LET whole == first \o <<"NL">> \o second
               m == Len(first)
               n == Len(second)
           IN  /\ whole \in Seq(Words) /\ Len(whole) = m + 1 + n
               /\ \A i \in 1..m : whole[i] = first[i]
               /\ whole[m + 1] = "NL"
               /\ \A j \in 1..n : whole[m + 1 + j] = second[j]
               /\ \A i \in 1..(m - 1) : At(whole, i + 1) = At(first, i + 1)
               /\ At(whole, m + 1) = <<"NL">> /\ At(first, m + 1) = <<>>
               /\ \A j \in 1..n : At(whole, m + 1 + j + 1) = At(second, j + 1)
<1> DEFINE whole == first \o <<"NL">> \o second
           m == Len(first)
           n == Len(second)
<1>1. <<"NL">> \in Seq(Words)
  <2>1. "NL" \in Words
    BY LexiconAssumption DEF Words
  <2> QED
    BY <2>1
<1>2. /\ whole \in Seq(Words) /\ Len(whole) = m + 1 + n /\ m \in Nat /\ n \in Nat
      /\ \A i \in 1..m : whole[i] = first[i]
      /\ whole[m + 1] = "NL"
      /\ \A j \in 1..n : whole[m + 1 + j] = second[j]
  BY <1>1
<1>3. DOMAIN whole = 1..(m + 1 + n) /\ DOMAIN first = 1..m /\ DOMAIN second = 1..n
  BY <1>2
<1> HIDE DEF whole, m, n
<1>4. \A i \in 1..(m - 1) : At(whole, i + 1) = At(first, i + 1)
  <2> SUFFICES ASSUME NEW i \in 1..(m - 1) PROVE At(whole, i + 1) = At(first, i + 1)
    OBVIOUS
  <2>1. i + 1 \in 1..m /\ i + 1 \in 1..(m + 1 + n)
    BY <1>2
  <2> QED
    BY <1>2, <1>3, <2>1 DEF At
<1>5. At(whole, m + 1) = <<"NL">> /\ At(first, m + 1) = <<>>
  <2>1. m + 1 \notin 1..m /\ m + 1 \in 1..(m + 1 + n)
    BY <1>2
  <2> QED
    BY <1>2, <1>3, <2>1 DEF At
<1>6. \A j \in 1..n : At(whole, m + 1 + j + 1) = At(second, j + 1)
  <2> SUFFICES ASSUME NEW j \in 1..n PROVE At(whole, m + 1 + j + 1) = At(second, j + 1)
    OBVIOUS
  <2>1. CASE j = n
    <3>1. m + 1 + j + 1 \notin 1..(m + 1 + n) /\ j + 1 \notin 1..n
      BY <1>2, <2>1
    <3> QED
      BY <1>3, <3>1 DEF At
  <2>2. CASE j # n
    <3>1. /\ m + 1 + j + 1 \in 1..(m + 1 + n) /\ j + 1 \in 1..n
          /\ m + 1 + j + 1 = m + 1 + (j + 1)
      BY <1>2, <2>2
    <3>2. whole[m + 1 + j + 1] = second[j + 1]
      BY <1>2, <3>1
    <3> QED
      BY <1>3, <3>1, <3>2 DEF At
  <2> QED
    BY <2>1, <2>2
<1> QED
  BY <1>2, <1>4, <1>5, <1>6 DEF whole, m, n

------------------------------------
(* Two lines *)

\* The second line is parsed as it would be alone, after what the first one gave.
LEMMA TwoLines ==
    ASSUME NEW first \in Seq(Words), NEW second \in Seq(Words), Closed(parse(first))
    PROVE  After(Symbols(first \o <<"NL">> \o second), Symbols(second), parse(first))
<1> DEFINE whole == first \o <<"NL">> \o second
           m == Len(first)
           n == Len(second)
           b == parse(first)
<1>1. /\ whole \in Seq(Words) /\ Len(whole) = m + 1 + n
      /\ \A i \in 1..m : whole[i] = first[i]
      /\ whole[m + 1] = "NL"
      /\ \A j \in 1..n : whole[m + 1 + j] = second[j]
      /\ \A i \in 1..(m - 1) : At(whole, i + 1) = At(first, i + 1)
      /\ At(whole, m + 1) = <<"NL">> /\ At(first, m + 1) = <<>>
      /\ \A j \in 1..n : At(whole, m + 1 + j + 1) = At(second, j + 1)
  BY LinesJoin
<1>2. m \in Nat /\ n \in Nat
  OBVIOUS
<1>3. b.error = "none" /\ "unclassified" \notin b.flags
  BY DEF Closed
<1>4. m # 0
  <2> SUFFICES ASSUME m = 0 PROVE FALSE
    OBVIOUS
  <2>1. DOMAIN first = {}
    <3>1. DOMAIN first = 1..m
      OBVIOUS
    <3> HIDE DEF m
    <3> QED
      BY <3>1
  <2>2. Blank(first)
    BY <2>1 DEF Blank
  <2> QED
    BY <1>3, <2>2, BlankIsEmpty
<1>5. \A i \in 1..m : first[i] \in Words
  OBVIOUS
<1>6. \A j \in 1..n : second[j] \in Words
  OBVIOUS
<1>7. PICK f \in [0..m -> Parsings] :
         /\ f[0] = Start /\ f[m] = Symbols(first)
         /\ \A k \in 0..(m - 1) : f[k + 1] = ParseAt(f[k], k + 1, first)
  BY SymbolRuns
<1>8. PICK s \in [0..n -> Parsings] :
         /\ s[0] = Start /\ s[n] = Symbols(second)
         /\ \A k \in 0..(n - 1) : s[k + 1] = ParseAt(s[k], k + 1, second)
  BY SymbolRuns
<1>9. PICK a \in [0..(m + 1 + n) -> Parsings] :
         /\ a[0] = Start /\ a[m + 1 + n] = Symbols(whole)
         /\ \A k \in 0..(m + n) : a[k + 1] = ParseAt(a[k], k + 1, whole)
  <2>1. PICK a \in [0..Len(whole) -> Parsings] :
           /\ a[0] = Start /\ a[Len(whole)] = Symbols(whole)
           /\ \A k \in 0..(Len(whole) - 1) : a[k + 1] = ParseAt(a[k], k + 1, whole)
    BY <1>1, SymbolRuns
  <2>2. Len(whole) = m + 1 + n /\ Len(whole) - 1 = m + n
    BY <1>1, <1>2
  <2> HIDE DEF whole, m, n
  <2> QED
    BY <2>1, <2>2
<1>10. b = Finish(f[m]) /\ b \in Parsings
  BY <1>7, ParsedTyped DEF parse
<1>u. /\ \A k \in 0..(m - 1) : f[k + 1] = ParseSymbol(f[k], first[k + 1], At(first, k + 1 + 1))
      /\ \A k \in 0..(n - 1) : s[k + 1] = ParseSymbol(s[k], second[k + 1], At(second, k + 1 + 1))
      /\ \A k \in 0..(m + n) : a[k + 1] = ParseSymbol(a[k], whole[k + 1], At(whole, k + 1 + 1))
  BY <1>7, <1>8, <1>9 DEF ParseAt
<1>v. \A i : At(second, i) \in Nexts
  BY AtTyped
<1> HIDE DEF whole, m, n, b
<1> DEFINE P == {k \in Nat : k <= m - 1 => a[k] = f[k]}
<1>11. 0 \in P
  BY <1>7, <1>9
<1>12. ASSUME NEW k \in P PROVE k + 1 \in P
  <2> SUFFICES ASSUME k + 1 <= m - 1 PROVE a[k + 1] = f[k + 1]
    OBVIOUS
  <2>1. /\ k \in 0..(m - 1) /\ k \in 0..(m + n) /\ k + 1 \in 1..(m - 1) /\ k + 1 \in 1..m
        /\ a[k] = f[k]
    BY <1>2
  <2> QED
    BY <1>1, <1>u, <2>1
<1> HIDE DEF P
<1>13. P = Nat
  <2>1. P \in SUBSET Nat
    BY DEF P
  <2> QED
    BY <1>11, <1>12, <2>1, Induction
<1> DEFINE p == f[m - 1]
           ending == first[m]
<1>14. /\ m - 1 \in Nat /\ m - 1 \in 0..(m - 1) /\ m - 1 \in 0..(m + n) /\ m - 1 \in 0..m
       /\ (m - 1) + 1 = m /\ m \in 1..m /\ m \in 0..m /\ m \in 0..(m + n) /\ (m - 1) + 1 + 1 = m + 1
  BY <1>2, <1>4
<1>15. p \in Parsings /\ ending \in Words /\ a[m - 1] = p
  BY <1>5, <1>7, <1>13, <1>14 DEF P
<1>16. /\ f[m] = ParseSymbol(p, ending, <<>>)
       /\ a[m] = ParseSymbol(p, ending, <<"NL">>)
  <2>1. f[(m - 1) + 1] = ParseSymbol(f[m - 1], first[(m - 1) + 1], At(first, (m - 1) + 1 + 1))
    BY ONLY <1>u, <1>14
  <2>2. a[(m - 1) + 1] = ParseSymbol(a[m - 1], whole[(m - 1) + 1], At(whole, (m - 1) + 1 + 1))
    BY ONLY <1>u, <1>14
  <2>3. /\ At(first, m + 1) = <<>> /\ At(whole, m + 1) = <<"NL">>
        /\ whole[m] = first[m]
    BY ONLY <1>1, <1>14
  <2>4. f[m] = ParseSymbol(p, ending, <<>>)
    BY ONLY <1>14, <2>1, <2>3
  <2>5. a[m] = ParseSymbol(p, ending, <<"NL">>)
    BY ONLY <1>14, <1>15, <2>2, <2>3
  <2> QED
    BY ONLY <2>4, <2>5
<1>17. f[m] \in Parsings
  BY <1>7, <1>14
<1> HIDE DEF p, ending
<1>18. f[m].error = "none" /\ f[m].flags = b.flags
  BY <1>3, <1>10, <1>17, FinishedLine
<1>19. a[m] = f[m] /\ f[m].skip = FALSE
  BY <1>3, <1>15, <1>16, <1>18, LastSymbol
<1>20. a[m + 1] \in Parsings /\ Lifted(a[m + 1], Start, b)
  <2>1. a[m + 1] = ParseSymbol(f[m], "NL", At(whole, m + 1 + 1))
    BY <1>1, <1>u, <1>14, <1>19
  <2> QED
    BY <1>3, <1>10, <1>17, <1>19, <2>1, NextLine
<1> DEFINE Q == {k \in Nat : k <= n => After(a[m + 1 + k], s[k], b)}
<1>21. 0 \in Q
  <2>1. m + 1 + 0 = m + 1
    BY <1>2
  <2> QED
    BY <1>8, <1>20, <2>1 DEF After
<1>22. ASSUME NEW k \in Q PROVE k + 1 \in Q
  <2> SUFFICES ASSUME k + 1 <= n PROVE After(a[m + 1 + (k + 1)], s[k + 1], b)
    OBVIOUS
  <2>1. /\ k \in 0..(n - 1) /\ k \in 0..n /\ k + 1 \in 1..n
        /\ m + 1 + k \in 0..(m + n) /\ m + 1 + k \in 0..(m + 1 + n)
        /\ m + 1 + (k + 1) = (m + 1 + k) + 1
        /\ (m + 1 + k) + 1 + 1 = m + 1 + (k + 1) + 1
        /\ After(a[m + 1 + k], s[k], b)
    BY <1>2
  <2>2. a[(m + 1 + k) + 1] = ParseSymbol(a[m + 1 + k], whole[(m + 1 + k) + 1], At(whole, (m + 1 + k) + 1 + 1))
    BY <1>u, <2>1
  <2>3. whole[m + 1 + (k + 1)] = second[k + 1] /\ At(whole, m + 1 + (k + 1) + 1) = At(second, k + 1 + 1)
    BY <1>1, <2>1
  <2>4. a[m + 1 + (k + 1)] = ParseSymbol(a[m + 1 + k], second[k + 1], At(second, k + 1 + 1))
    BY <2>1, <2>2, <2>3
  <2>5. s[k + 1] = ParseSymbol(s[k], second[k + 1], At(second, k + 1 + 1))
    BY <1>u, <2>1
  <2>6. a[m + 1 + k] \in Parsings /\ s[k] \in Parsings /\ second[k + 1] \in Words
    BY <1>6, <1>8, <1>9, <2>1
  <2> QED
    BY <1>v, <1>10, <2>1, <2>4, <2>5, <2>6, ParseAfter
<1> HIDE DEF Q
<1>23. Q = Nat
  <2>1. Q \in SUBSET Nat
    BY DEF Q
  <2> QED
    BY <1>21, <1>22, <2>1, Induction
<1>24. After(a[m + 1 + n], s[n], b)
  <2>1. n \in Q /\ n <= n
    BY <1>2, <1>23
  <2> QED
    BY <2>1 DEF Q
<1> QED
  BY <1>8, <1>9, <1>24 DEF whole, b

\* Two lines are parsed into the commands of the first and those of the second.
LEMMA ParseSplits ==
    ASSUME NEW first \in Seq(Words), NEW second \in Seq(Words), Closed(parse(first)),
           ~NothingToRun(second)
    PROVE  LET W == parse(first \o <<"NL">> \o second)
               A == parse(first)
               B == parse(second)
           IN  \/ W.error = "too_complex"
               \/ W.error = B.error /\ W.error # "none"
               \/ /\ W.error = "none" /\ A.error = "none" /\ B.error = "none"
                  /\ W.commands = A.commands \o B.commands
                  /\ W.flags = A.flags \cup B.flags
<1> DEFINE whole == first \o <<"NL">> \o second
           P == Symbols(whole)
           Q == Symbols(second)
           b == parse(first)
           W == parse(whole)
           B == parse(second)
<1>1. /\ P \in Parsings /\ Q \in Parsings /\ b \in Parsings
      /\ W \in Parsings /\ B \in Parsings
      /\ After(P, Q, b) /\ b.error = "none"
  <2>1. whole \in Seq(Words)
    BY LinesJoin
  <2> QED
    BY <2>1, ParsedTyped, TwoLines DEF Closed
<1>2. W = Finish(P) /\ B = Finish(Q)
  BY DEF parse
<1>3. /\ b.commands # <<>> /\ b.commands \in Seq(Commands)
  <2>1. b = Finish(Symbols(first)) /\ Symbols(first) \in Parsings
    BY ParsedTyped DEF parse
  <2> QED
    BY <1>1, <2>1, FinishedLine, ParsingParts
<1> DEFINE x == EndCommand(push_word(P))
           y == EndCommand(push_word(Q))
<1>4. x \in Parsings /\ y \in Parsings /\ After(x, y, b)
  BY <1>1, PushWordTyped, PushWordAfter, EndTyped, EndAfter
<1>5. ~(y.error = "none" /\ y.quote = "none" /\ y.commands = <<>>)
  BY DEF NothingToRun
<1>6. y.quote = Q.quote
  <2>1. push_word(Q).quote = Q.quote /\ push_word(Q) \in Parsings
    <3>1. \A q \in Parsings : push_word(q).quote = q.quote
      BY ONLY DEF push_word, Error, Parsings, Fields
    <3> QED
      BY ONLY <1>1, <3>1, PushWordTyped, Zenon
  <2>2. \A q \in Parsings : EndCommand(q).quote = q.quote
    BY DEF EndCommand, push_command, Error, Parsings, Fields
  <2> QED
    BY <2>1, <2>2
<1> HIDE DEF whole, P, Q, b, W, B, x, y
<1>f. /\ Finish(P) = IF P.error # "none" THEN P
                     ELSE IF P.quote # "none" THEN Error(P, "malformed") ELSE RequireComplete(x)
      /\ Finish(Q) = IF Q.error # "none" THEN Q
                     ELSE IF Q.quote # "none" THEN Error(Q, "malformed") ELSE RequireComplete(y)
  BY DEF Finish, x, y
<1>e. \A q \in Parsings : Error(q, "malformed").error = "malformed"
  BY DEF Error, Parsings, Fields
<1>7. \/ W.error = "too_complex"
      \/ W.error = B.error /\ W.error # "none"
      \/ /\ W.error = "none" /\ b.error = "none" /\ B.error = "none"
         /\ W.commands = b.commands \o B.commands
         /\ W.flags = b.flags \cup B.flags
  <2>1. CASE P.error = "too_complex"
    BY <1>2, <1>f, <2>1
  <2>2. CASE Lifted(P, Q, b)
    <3>0. P.error = Q.error /\ P.quote = Q.quote
      BY <2>2 DEF Lifted
    <3>1. CASE P.error # "none"
      BY <1>2, <1>f, <3>0, <3>1
    <3>2. CASE P.error = "none" /\ P.quote # "none"
      BY <1>1, <1>2, <1>e, <1>f, <3>0, <3>2
    <3>3. CASE P.error = "none" /\ P.quote = "none"
      <4>1. W = RequireComplete(x) /\ B = RequireComplete(y)
        BY <1>2, <1>f, <3>0, <3>3
      <4>2. CASE x.error = "too_complex"
        BY <4>1, <4>2 DEF RequireComplete
      <4>3. CASE Lifted(x, y, b)
        <5>1. /\ x.error = y.error /\ x.requires_following_command = y.requires_following_command
              /\ x.commands = b.commands \o y.commands /\ x.flags = b.flags \cup y.flags
          BY <4>3 DEF Lifted
        <5>2. CASE x.error # "none"
          BY <4>1, <5>1, <5>2 DEF RequireComplete
        <5>3. CASE x.error = "none"
          <6>1. y.commands # <<>>
            BY <1>5, <1>6, <3>0, <3>3, <5>1, <5>3
          <6>2. x.commands # <<>>
            <7>1. y.commands \in Seq(Commands)
              BY <1>4, ParsingParts
            <7> QED
              BY <1>3, <5>1, <6>1, <7>1, ConcatEqualIffEmpty
          <6>3. CASE x.requires_following_command
            <7>1. W.error = "malformed" /\ B.error = "malformed"
              BY <1>4, <1>e, <4>1, <5>1, <5>3, <6>3 DEF RequireComplete
            <7> QED
              BY <7>1
          <6>4. CASE ~x.requires_following_command
            <7>1. W = x /\ B = y
              BY <4>1, <5>1, <6>1, <6>2, <6>4 DEF RequireComplete
            <7> QED
              BY <1>1, <5>1, <5>3, <7>1
          <6> QED
            BY <6>3, <6>4
        <5> QED
          BY <5>2, <5>3
      <4> QED
        BY <1>4, <4>2, <4>3 DEF After
    <3> QED
      BY <3>1, <3>2, <3>3
  <2> QED
    BY <1>1, <2>1, <2>2 DEF After
<1> QED
  BY <1>7 DEF W, B, b, whole

------------------------------------
(* The decision *)

\* The passes, by their names.
LEMMA PassesAre ==
    ASSUME NEW commands, NEW p
    PROVE  /\ Pass(classify_hard_rejection, p, commands) = HardFrom(p, commands)
           /\ Pass(classify_simple_command, p, commands) = SimpleFrom(p, commands)
BY DEF Pass, HardFrom, HardOne, SimpleFrom, SimpleOne

\* What is decided, in terms of the passes.
LEMMA Decided ==
    ASSUME NEW p
    PROVE  LET hard == HardFrom(NewProbes, p.commands)
           IN  DecideParsed(p) = IF p.error # "none" THEN "reject"
                                 ELSE IF hard.found # "within" THEN hard.found
                                 ELSE IF p.flags # {} THEN "ask"
                                 ELSE IF SimpleFrom(hard, p.commands).found = "within" THEN "allow"
                                 ELSE "ask"
<1>1. HardPass(p) = HardFrom(NewProbes, p.commands)
  BY PassesAre DEF HardPass
<1>2. \A q : Pass(classify_simple_command, q, p.commands) = SimpleFrom(q, p.commands)
  BY PassesAre
<1> QED
  BY <1>1, <1>2 DEF DecideParsed, Decide

\* The verdicts of the first pass.
LEMMA FirstPass ==
    ASSUME NEW commands \in Seq(Commands)
    PROVE  /\ HardFrom(NewProbes, commands) \in Good
           /\ HardFrom(NewProbes, commands).found \in {"within", "reject", "ask"}
           /\ Below(NewProbes, HardFrom(NewProbes, commands)) \/ HardFrom(NewProbes, commands).found = "reject"
<1>1. NewProbes \in Good /\ NewProbes.found = "within" /\ NewProbes.cached = {}
  BY NewProbesGood
<1>2. Below(NewProbes, NewProbes)
  BY DEF Below
<1>3. /\ HardFrom(NewProbes, commands) \in Good
      /\ HardFrom(NewProbes, commands).found \in {"within", "reject", "ask"}
  BY <1>1, <1>2, HardPasses
<1>4. \A h : h.found \in {"within", "ask"} => Below(NewProbes, h)
  BY <1>1 DEF Below
<1> QED
  BY <1>3, <1>4

\* A command line that needs no approval stays inside the workspace.
LEMMA AllowedIsInside ==
    ASSUME NEW command \in Seq(Words) PROVE AllowedStaysInside(command)
<1> SUFFICES ASSUME classify(command) = "allow" PROVE StayInside(parse(command).commands)
  BY DEF AllowedStaysInside
<1> DEFINE p == parse(command)
           h == HardFrom(NewProbes, p.commands)
<1>1. p \in Parsings /\ p.commands \in Seq(Commands)
  BY ParsedTyped, ParsingParts
<1>2. h \in Good /\ h.found \in {"within", "reject", "ask"}
  BY <1>1, FirstPass
<1>3. DecideParsed(p) = "allow"
  BY DEF classify, classify_validated
<1> HIDE DEF p
<1>4. DecideParsed(p) = IF p.error # "none" THEN "reject"
                        ELSE IF h.found # "within" THEN h.found
                        ELSE IF p.flags # {} THEN "ask"
                        ELSE IF SimpleFrom(h, p.commands).found = "within" THEN "allow"
                        ELSE "ask"
  BY Decided
<1> HIDE DEF h
<1>5. SimpleFrom(h, p.commands).found = "within"
  BY <1>2, <1>3, <1>4
<1> QED
  BY <1>1, <1>2, <1>5, PassStaysInside DEF p

\* Passes over two lists of commands, together and each on its own.
LEMMA PassesSplit ==
    ASSUME NEW c \in Seq(Commands), NEW d \in Seq(Commands)
    PROVE  LET h1 == HardFrom(NewProbes, c)
               h2 == HardFrom(NewProbes, d)
               h == HardFrom(NewProbes, c \o d)
           IN  /\ h.found = "within" /\ SimpleFrom(h, c \o d).found = "within" =>
                     /\ h1.found = "within" /\ SimpleFrom(h1, c).found = "within"
                     /\ h2.found = "within" /\ SimpleFrom(h2, d).found = "within"
               /\ h.found # "ask" => (h.found = "reject" <=> h1.found = "reject" \/ h2.found = "reject")
<1> DEFINE h1 == HardFrom(NewProbes, c)
           h2 == HardFrom(NewProbes, d)
           h == HardFrom(NewProbes, c \o d)
           s1 == SimpleFrom(h1, c)
           s2 == SimpleFrom(h2, d)
           v == SimpleFrom(h, c)
           s == SimpleFrom(h, c \o d)
<1>0. NewProbes \in Good /\ NewProbes.found = "within" /\ Below(NewProbes, NewProbes) /\ c \o d \in Seq(Commands)
  BY NewProbesGood DEF Below
<1>1. /\ h1 \in Good /\ h1.found \in {"within", "reject", "ask"}
      /\ h2 \in Good /\ h2.found \in {"within", "reject", "ask"}
      /\ h \in Good /\ h.found \in {"within", "reject", "ask"}
  BY <1>0, FirstPass
<1>2. h = HardFrom(h1, d)
  BY <1>0, HardPasses
<1>3. s = SimpleFrom(v, d)
  <2>1. Below(h, h)
    BY DEF Below
  <2> HIDE DEF h
  <2> QED
    BY <1>1, <2>1, SimplePasses
<1> HIDE DEF h1, h2, h, v
<1>4. h1.found # "within" => h = h1
  <2>1. Below(h1, h1)
    BY DEF Below
  <2> QED
    BY <1>1, <1>2, <2>1, HardPasses
<1>5. h1.found = "within" => Below(h2, h)
  <2> SUFFICES ASSUME h1.found = "within" PROVE Below(h2, h)
    OBVIOUS
  <2>1. Below(NewProbes, h1)
    BY <1>0, NewProbesGood DEF Below
  <2> QED
    BY <1>0, <1>1, <1>2, <2>1, HardPasses DEF h2
<1>6. ASSUME h.found # "ask"
      PROVE  h.found = "reject" <=> h1.found = "reject" \/ h2.found = "reject"
  <2>1. CASE h1.found = "within"
    <3>1. h2.found = h.found
      BY <1>1, <1>5, <1>6, <2>1 DEF Below
    <3> QED
      BY <2>1, <3>1
  <2>2. CASE h1.found # "within"
    BY <1>1, <1>4, <1>6, <2>2
  <2> QED
    BY <2>1, <2>2
<1>7. ASSUME h.found = "within", s.found = "within"
      PROVE  /\ h1.found = "within" /\ s1.found = "within"
             /\ h2.found = "within" /\ s2.found = "within"
  <2>1. h1.found = "within"
    BY <1>4, <1>7
  <2>2. h1.cached \subseteq h.cached
    <3>1. Below(h1, h1)
      BY DEF Below
    <3> QED
      BY <1>1, <1>2, <1>7, <2>1, <3>1, HardPasses
  <2>3. h2.found = "within" /\ h2.cached \subseteq h.cached
    BY <1>5, <1>7, <2>1 DEF Below
  <2>4. v \in Good /\ Below(s1, v) /\ (v.found = "within" => h.cached \subseteq v.cached)
    <3>1. Below(h1, h)
      BY <1>7, <2>1, <2>2 DEF Below
    <3> QED
      BY <1>1, <3>1, SimplePasses DEF v
  <2>5. v.found = "within"
    <3> SUFFICES ASSUME v.found # "within" PROVE FALSE
      OBVIOUS
    <3>1. Below(v, v)
      BY DEF Below
    <3>2. s = v
      BY <1>3, <2>4, <3>1, SimplePasses
    <3> QED
      BY <1>7, <3>2
  <2>6. s1.found = "within"
    BY <2>4, <2>5 DEF Below
  <2>7. Below(h2, v)
    BY <2>3, <2>4, <2>5 DEF Below
  <2>8. Below(s2, s)
    BY <1>1, <1>3, <2>4, <2>7, SimplePasses
  <2>9. s2.found = "within"
    <3> HIDE DEF s, s2
    <3> QED
      BY <1>7, <2>8 DEF Below
  <2> QED
    BY <2>1, <2>3, <2>6, <2>9
<1> QED
  BY <1>6, <1>7 DEF h1, h2, h

\* Two lines are judged as each of them is.
LEMMA LinesAreJudgedAlike ==
    ASSUME NEW first \in Seq(Words), NEW second \in Seq(Words)
    PROVE  PolicyIsCompositional(first, second)
<1> DEFINE whole == first \o <<"NL">> \o second
           W == parse(whole)
           A == parse(first)
           B == parse(second)
<1> SUFFICES ASSUME Closed(A), ~NothingToRun(second)
             PROVE  JudgedAlike(classify(whole), classify(first), classify(second), WithinLimits(W))
  BY DEF PolicyIsCompositional
<1>1. whole \in Seq(Words) /\ \A i \in 1..Len(first) : i \in 1..Len(whole) /\ whole[i] = first[i]
  BY LinesJoin
<1>2. ~Blank(first)
  BY BlankIsEmpty DEF Closed
<1>3. ~Blank(second)
  BY BlankIsEmpty
<1>4. ~Blank(whole)
  <2>1. DOMAIN first = 1..Len(first) /\ DOMAIN whole = 1..Len(whole)
    BY <1>1
  <2> HIDE DEF whole
  <2> QED
    BY <1>1, <1>2, <2>1 DEF Blank
<1>5. /\ classify(whole) = DecideParsed(W) /\ classify(first) = DecideParsed(A)
      /\ classify(second) = DecideParsed(B)
  BY <1>2, <1>3, <1>4 DEF classify, classify_validated
<1>6. /\ A \in Parsings /\ B \in Parsings /\ W \in Parsings
      /\ A.commands \in Seq(Commands) /\ B.commands \in Seq(Commands)
  BY <1>1, ParsedTyped, ParsingParts
<1>7. \/ W.error = "too_complex"
      \/ W.error = B.error /\ W.error # "none"
      \/ /\ W.error = "none" /\ A.error = "none" /\ B.error = "none"
         /\ W.commands = A.commands \o B.commands
         /\ W.flags = A.flags \cup B.flags
  BY ParseSplits
<1> HIDE DEF whole, W, A, B
<1> DEFINE hard(p) == HardFrom(NewProbes, p.commands)
           simple(p) == SimpleFrom(hard(p), p.commands)
           Verdict(p) == IF p.error # "none" THEN "reject"
                         ELSE IF hard(p).found # "within" THEN hard(p).found
                         ELSE IF p.flags # {} THEN "ask"
                         ELSE IF simple(p).found = "within" THEN "allow"
                         ELSE "ask"
<1>8. DecideParsed(W) = Verdict(W) /\ DecideParsed(A) = Verdict(A) /\ DecideParsed(B) = Verdict(B)
  BY Decided
<1>9. WithinLimits(W) => W.error # "too_complex" /\ hard(W).found # "ask"
  BY PassesAre DEF WithinLimits, HardPass
<1>10. W.error = "none" =>
          /\ hard(W).found = "within" /\ simple(W).found = "within" =>
                /\ hard(A).found = "within" /\ simple(A).found = "within"
                /\ hard(B).found = "within" /\ simple(B).found = "within"
          /\ hard(W).found # "ask" =>
                (hard(W).found = "reject" <=> hard(A).found = "reject" \/ hard(B).found = "reject")
  <2>1. W.error = "none" => W.commands = A.commands \o B.commands
    BY <1>7
  <2> DEFINE c == A.commands
             d == B.commands
             h1 == HardFrom(NewProbes, c)
             h2 == HardFrom(NewProbes, d)
             h == HardFrom(NewProbes, c \o d)
  <2>2. /\ h.found = "within" /\ SimpleFrom(h, c \o d).found = "within" =>
              /\ h1.found = "within" /\ SimpleFrom(h1, c).found = "within"
              /\ h2.found = "within" /\ SimpleFrom(h2, d).found = "within"
        /\ h.found # "ask" => (h.found = "reject" <=> h1.found = "reject" \/ h2.found = "reject")
    BY <1>6, PassesSplit
  <2> QED
    BY ONLY <2>1, <2>2
<1>11. /\ hard(A).found \in {"within", "reject", "ask"}
       /\ hard(B).found \in {"within", "reject", "ask"}
       /\ W.error = "none" => hard(W).found \in {"within", "reject", "ask"}
  <2>1. A.commands \o B.commands \in Seq(Commands)
    BY <1>6
  <2> QED
    BY <1>6, <1>7, <2>1, FirstPass
<1> HIDE DEF hard, simple
<1>12. JudgedAlike(Verdict(W), Verdict(A), Verdict(B), WithinLimits(W))
  <2>1. CASE W.error # "none"
    BY <1>7, <1>9, <2>1 DEF JudgedAlike
  <2>2. CASE W.error = "none"
    <3>1. A.error = "none" /\ B.error = "none" /\ W.flags = A.flags \cup B.flags
      BY <1>7, <2>2
    <3>2. Verdict(W) = "allow" => Verdict(A) = "allow" /\ Verdict(B) = "allow"
      <4> SUFFICES ASSUME Verdict(W) = "allow" PROVE Verdict(A) = "allow" /\ Verdict(B) = "allow"
        OBVIOUS
      <4>1. W.flags = {} /\ hard(W).found = "within" /\ simple(W).found = "within"
        BY <1>11, <2>2
      <4>2. A.flags = {} /\ B.flags = {}
        BY <3>1, <4>1
      <4> QED
        BY <1>10, <2>2, <3>1, <4>1, <4>2
    <3>3. ASSUME NEW p \in {W, A, B}
          PROVE  Verdict(p) = "reject" <=> hard(p).found = "reject"
      BY <1>11, <2>2, <3>1
    <3>4. WithinLimits(W) =>
             ((Verdict(W) = "reject") = (Verdict(A) = "reject" \/ Verdict(B) = "reject"))
      BY <1>9, <1>10, <2>2, <3>3
    <3> HIDE DEF Verdict
    <3> QED
      BY <3>2, <3>4 DEF JudgedAlike
  <2> QED
    BY <2>1, <2>2
<1> QED
  BY <1>5, <1>8, <1>12

------------------------------------
(* The plans, as run_command sees them *)

\* A command line that is asked for.
LEMMA AskedLines ==
    ASSUME PlansAsked, NEW plan \in plans, plan.call.tool_name = "run_command"
    PROVE  /\ plan.call.arguments.first \in Seq(Words)
           /\ plan.call.arguments.second \in Seq(Words)
<1>1. PICK w \in DOMAIN Workloads : plan.call \in Workloads[w].calls
  BY DEF PlansAsked
<1> QED
  BY <1>1, CommandsAssumption DEF Words

\* Commands that were asked for are judged soundly.
LEMMA PlansAreSound == PlansAsked => PolicyIsSound
<1> SUFFICES ASSUME PlansAsked, NEW plan \in plans, plan.call.tool_name = "run_command"
             PROVE  /\ PolicyIsCompositional(plan.call.arguments.first, plan.call.arguments.second)
                    /\ AllowedStaysInside(Text(plan.call.arguments))
  BY DEF PolicyIsSound
<1>1. /\ plan.call.arguments.first \in Seq(Words)
      /\ plan.call.arguments.second \in Seq(Words)
  BY AskedLines
<1>2. Text(plan.call.arguments) \in Seq(Words)
  BY <1>1, LinesJoin DEF Text
<1> QED
  BY <1>1, <1>2, LinesAreJudgedAlike, AllowedIsInside

------------------------------------

\* run_command judges two lines as it judges each of them, and what it runs without
\* approval names no path outside the workspace (Named).  For every lexicon, every tree of files
\* with any links in it, every limit of the parser, the probes and the wrappers, and
\* commands of any length.
THEOREM PolicyTheorem == Spec => []PolicyIsSound
BY InitPatchInv, StepPatchInv, PlansAreSound, PTL DEF Spec, PatchInv
=============================================================================
