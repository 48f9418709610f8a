---------------------------- MODULE MovesProofs ----------------------------
(***************************************************************************)
(* What Moves promises of the commands that are run, for every set of      *)
(* players, every duration of their commands and every limit that          *)
(* MovesAssumption allows.                                                 *)
(*                                                                         *)
(* The argument: a packet that may still be read holds as new only         *)
(* commands that no earlier one holds (PacketsInv), so that the commands   *)
(* run for it, whether it holds them or they are made up, are the ones     *)
(* after incoming_sequence, in order (RunNumbers).  Nothing run before has *)
(* a greater number than incoming_sequence (RunInv).                       *)
(*                                                                         *)
(* The ticks of a frame count at least what was run in it of a connected   *)
(* player; one dropped in the middle of a packet has at most what that     *)
(* packet holds besides, and no further packet read (TicksInv).            *)
(*                                                                         *)
(* The clocks rest on sums: what a list adds is what is added along it, so *)
(* the time base, which SV_EstablishTimeBase sums from the packet's        *)
(* backups and new commands, and the runs, which go through one list made  *)
(* of them and of repeats, add up to the same (TimeBaseGoesBack); what is  *)
(* run and what is refused make up the whole (BaseAfterRuns, ClockInv).    *)
(***************************************************************************)
EXTENDS Moves, FiniteSetTheorems, WellFoundedInduction, SequenceTheorems, TLAPS

(* The variables that the argument reads keep their types.                  *)
MTypes ==
    /\ held \in BOOLEAN
    /\ incoming \in [Client -> Nat] /\ counted \in [Client -> Nat]
    /\ outgoing \in [Client -> Nat] /\ unsent \in [Client -> Nat]
    /\ up \in [Client -> SUBSET Packet]
    /\ top \in [Client -> Nat] /\ frameRan \in [Client -> Nat]
    /\ ticks \in [Client -> 0 .. MaxTicks + 1]

(* The new commands of the packets of one player do not overlap; those of a *)
(* packet that may be read were not run yet, and it holds all its backups.  *)
PacketsInv ==
    \A c \in Client :
        /\ incoming[c] + unsent[c] <= outgoing[c]
        /\ \A m \in up[c] :
             /\ incoming[c] <= m.seq - m.numcmds /\ m.seq <= outgoing[c] - unsent[c]
             /\ m.numcmds + m.numbackup <= m.seq
        /\ \A p, q \in up[c] : p.seq < q.seq => p.seq <= q.seq - q.numcmds

(* What was run is not newer than what was read.                            *)
RunInv == \A c \in Client : top[c] <= incoming[c]

IInv == MTypes /\ PacketsInv /\ RunInv /\ EveryLossMadeUp

-----------------------------------------------------------------------------
(* Sequences, and sets of positions                                        *)

(* f is a sequence of n elements, whatever they are.                        *)
OfLength(f, n) == f = [i \in 1 .. n |-> f[i]]

(* h is f and then g.                                                       *)
IsJoined(h, f, a, g, b) ==
    /\ OfLength(h, a + b)
    /\ \A i \in 1 .. a : h[i] = f[i]
    /\ \A i \in a + 1 .. a + b : h[i] = g[i - a]

LEMMA SeqOf ==
    ASSUME NEW n \in Nat, NEW f, OfLength(f, n)
    PROVE  /\ f \in Seq({f[i] : i \in 1 .. n})
           /\ Len(f) = n /\ DOMAIN f = 1 .. n
<1> DEFINE S == {f[i] : i \in 1 .. n}
<1>1. f \in [1 .. n -> S]
  BY DEF OfLength
<1>2. f \in Seq(S)
  BY <1>1
<1> QED
  BY <1>1, <1>2 DEF OfLength

LEMMA Joined ==
    ASSUME NEW a \in Nat, NEW f, OfLength(f, a),
           NEW b \in Nat, NEW g, OfLength(g, b)
    PROVE  IsJoined(f \o g, f, a, g, b)
<1> DEFINE S == {f[i] : i \in 1 .. a}
           T == {g[i] : i \in 1 .. b}
<1>1. f \in Seq(S) /\ Len(f) = a /\ g \in Seq(T) /\ Len(g) = b
  BY SeqOf
<1> HIDE DEF S, T
<1>2. f \in Seq(S \cup T) /\ g \in Seq(S \cup T)
  BY <1>1
<1>3. /\ f \o g \in Seq(S \cup T) /\ Len(f \o g) = a + b
      /\ \A i \in 1 .. a + b : (f \o g)[i] = IF i <= a THEN f[i] ELSE g[i - a]
  BY <1>1, <1>2, ConcatProperties
<1>4. \A i \in 1 .. a : i \in 1 .. a + b /\ i <= a
  OBVIOUS
<1>5. \A i \in a + 1 .. a + b : i \in 1 .. a + b /\ ~(i <= a)
  OBVIOUS
<1> QED
  BY <1>3, <1>4, <1>5 DEF OfLength, IsJoined

(* A set of positions that is not empty has a last one.                     *)
LEMMA LastPosition ==
    ASSUME NEW n \in Nat, NEW S \in SUBSET (1 .. n), S # {}
    PROVE  \E k \in S : \A i \in S : i <= k
<1> DEFINE T == {n - i : i \in S}
<1>1. T \subseteq Nat /\ T # {}
  <2>1. \A i \in S : i \in Nat /\ i <= n
    OBVIOUS
  <2>2. \A i \in S : n - i \in Nat
    BY <2>1
  <2> QED
    BY <2>2
<1>2. PICK d \in T : \A e \in T : ~(<<e, d>> \in OpToRel(<, Nat))
  BY <1>1, NatLessThanWellFounded, WFMin
<1>3. PICK k \in S : d = n - k
  BY <1>2
<1>4. ASSUME NEW i \in S PROVE i <= k
  <2>1. n - i \in Nat /\ d \in Nat /\ n - i \in T
    BY <1>1, <1>2
  <2>2. ~(n - i < d)
    BY <1>2, <2>1 DEF OpToRel
  <2> QED
    BY <1>3, <2>1, <2>2
<1> QED
  BY <1>3, <1>4

LEMMA PositionsFinite ==
    ASSUME NEW n \in Nat, NEW S \in SUBSET (1 .. n)
    PROVE  /\ IsFiniteSet(S) /\ Cardinality(S) \in Nat /\ Cardinality(S) <= n
           /\ \A T \in SUBSET S : Cardinality(T) <= Cardinality(S)
<1>1. IsFiniteSet(1 .. n) /\ Cardinality(1 .. n) = n
  BY FS_Interval
<1>2. IsFiniteSet(S) /\ Cardinality(S) <= n
  BY <1>1, FS_Subset
<1>3. Cardinality(S) \in Nat
  BY <1>2, FS_CardinalityType
<1>4. \A T \in SUBSET S : Cardinality(T) <= Cardinality(S)
  BY <1>2, FS_Subset
<1> QED
  BY <1>2, <1>3, <1>4

-----------------------------------------------------------------------------
(* Sums                                                                    *)

(* What holds at zero and one further each time holds up to n.              *)
LEMMA UpTo ==
    ASSUME NEW n \in Nat, NEW S, 0 \in S, \A k \in 0 .. n - 1 : k \in S => k + 1 \in S
    PROVE  \A k \in 0 .. n : k \in S
<1> DEFINE T == {k \in 0 .. n : k \notin S}
<1> SUFFICES ASSUME T # {} PROVE FALSE
  OBVIOUS
<1>1. T \subseteq Nat
  OBVIOUS
<1>2. PICK k \in T : \A j \in T : ~(<<j, k>> \in OpToRel(<, Nat))
  BY <1>1, NatLessThanWellFounded, WFMin
<1>3. k \in 0 .. n /\ k \notin S /\ k # 0
  OBVIOUS
<1>4. k - 1 \in 0 .. n - 1 /\ k - 1 < k /\ k - 1 + 1 = k
  BY <1>3
<1>5. k - 1 \in T
  BY <1>3, <1>4
<1> QED
  BY <1>1, <1>2, <1>4, <1>5 DEF OpToRel

Some(s) == CHOOSE x \in s : TRUE

(* g sums the values of f over every part of its domain.                    *)
SumsOf(f, g) ==
    g = [s \in SUBSET DOMAIN f |->
            IF s = {} THEN 0 ELSE f[Some(s)] + g[s \ {Some(s)}]]

LEMMA PartsOf ==
    ASSUME NEW D, IsFiniteSet(D), NEW s \in SUBSET D
    PROVE  /\ IsFiniteSet(s) /\ Cardinality(s) \in Nat /\ Cardinality(s) <= Cardinality(D)
           /\ Cardinality(D) \in Nat
           /\ Cardinality(s) = 0 <=> s = {}
           /\ \A x \in s : /\ s \ {x} \in SUBSET D
                           /\ Cardinality(s \ {x}) = Cardinality(s) - 1
           /\ s # {} => Some(s) \in s
<1>1. IsFiniteSet(s) /\ Cardinality(s) <= Cardinality(D)
  BY FS_Subset
<1>2. Cardinality(s) \in Nat /\ Cardinality(D) \in Nat
  BY <1>1, FS_CardinalityType
<1>3. Cardinality(s) = 0 <=> s = {}
  BY <1>1, FS_EmptySet
<1>4. \A x \in s : Cardinality(s \ {x}) = Cardinality(s) - 1
  BY <1>1, FS_RemoveElement
<1>5. s # {} => Some(s) \in s
  BY DEF Some
<1> QED
  BY <1>1, <1>2, <1>3, <1>4, <1>5

LEMMA SumsExist ==
    ASSUME NEW D, IsFiniteSet(D), NEW f \in [D -> Int]
    PROVE  \E g \in [SUBSET D -> Int] : SumsOf(f, g)
<1> DEFINE Right(g, s) == g[s] = IF s = {} THEN 0 ELSE f[Some(s)] + g[s \ {Some(s)}]
           K == {k \in Nat : \E g \in [SUBSET D -> Int] :
                                \A s \in SUBSET D : Cardinality(s) <= k => Right(g, s)}
<1>1. 0 \in K
  <2> DEFINE g == [s \in SUBSET D |-> 0]
  <2>1. g \in [SUBSET D -> Int]
    OBVIOUS
  <2>2. ASSUME NEW s \in SUBSET D, Cardinality(s) <= 0 PROVE Right(g, s)
    <3>1. s = {}
      BY <2>2, PartsOf
    <3> QED
      BY <3>1
  <2> QED
    BY <2>1, <2>2
<1>2. ASSUME NEW k \in Nat, k \in K PROVE k + 1 \in K
  <2>1. PICK g \in [SUBSET D -> Int] : \A s \in SUBSET D : Cardinality(s) <= k => Right(g, s)
    BY <1>2
  <2> DEFINE h == [s \in SUBSET D |->
                      IF Cardinality(s) <= k THEN g[s]
                      ELSE IF s = {} THEN 0 ELSE f[Some(s)] + g[s \ {Some(s)}]]
  <2>2. h \in [SUBSET D -> Int]
    <3>1. \A s \in SUBSET D : s # {} => f[Some(s)] \in Int /\ g[s \ {Some(s)}] \in Int
      BY PartsOf
    <3> QED
      BY <3>1
  <2>3. ASSUME NEW s \in SUBSET D, Cardinality(s) <= k + 1 PROVE Right(h, s)
    <3>1. CASE s = {}
      <4>1. Cardinality(s) <= k
        BY <3>1, PartsOf
      <4> QED
        BY <3>1, <4>1, <2>1
    <3>2. CASE s # {}
      <4>1. s \ {Some(s)} \in SUBSET D /\ Cardinality(s \ {Some(s)}) <= k
        BY <3>2, <2>3, PartsOf
      <4>2. h[s \ {Some(s)}] = g[s \ {Some(s)}]
        BY <4>1
      <4>3. h[s] = f[Some(s)] + g[s \ {Some(s)}]
        BY <3>2, <2>1
      <4> QED
        BY <3>2, <4>2, <4>3
    <3> QED
      BY <3>1, <3>2
  <2> HIDE DEF h, Right
  <2> QED
    BY <2>2, <2>3
<1> HIDE DEF K
<1>3. Cardinality(D) \in Nat /\ Cardinality(D) \in K
  <2>1. Cardinality(D) \in Nat
    BY FS_CardinalityType
  <2>2. \A k \in 0 .. Cardinality(D) : k \in K
    BY <2>1, <1>1, <1>2, UpTo
  <2> QED
    BY <2>1, <2>2
<1>4. PICK g \in [SUBSET D -> Int] : \A s \in SUBSET D : Cardinality(s) <= Cardinality(D) => Right(g, s)
  BY <1>3 DEF K
<1>5. \A s \in SUBSET D : Right(g, s)
  BY <1>4, PartsOf
<1>6. SumsOf(f, g)
  BY <1>5 DEF SumsOf
<1> QED
  BY <1>6

(* Of the parts any element may be taken out, and what g says is the sum.   *)
SumsRight(f, D, g) ==
    /\ g \in [SUBSET D -> Int]
    /\ g[{}] = 0
    /\ \A s \in SUBSET D : \A x \in s : g[s] = f[x] + g[s \ {x}]
    /\ Sum(f) = g[D]

LEMMA SumsKnown ==
    ASSUME NEW D, IsFiniteSet(D), NEW f \in [D -> Int]
    PROVE  \E g : SumsRight(f, D, g)
<1> DEFINE g == CHOOSE h : SumsOf(f, h)
<1>1. SumsOf(f, g)
  BY SumsExist
<1>2. Sum(f) = g[D]
  BY DEF Sum, FoldFunction, FoldFunctionOnSet, MapThenFoldSet, SumsOf, Some
<1> HIDE DEF g
<1>3. /\ DOMAIN g = SUBSET D /\ g[{}] = 0
      /\ g = [s \in SUBSET D |-> g[s]]
      /\ \A s \in SUBSET D : s # {} => g[s] = f[Some(s)] + g[s \ {Some(s)}]
  BY <1>1 DEF SumsOf
<1> DEFINE c == Cardinality(D)
           Right(s) == g[s] \in Int /\ \A x \in s : g[s] = f[x] + g[s \ {x}]
           K == {k \in Nat : \A s \in SUBSET D : Cardinality(s) <= k => Right(s)}
<1>4. 0 \in K
  <2>1. ASSUME NEW s \in SUBSET D, Cardinality(s) <= 0 PROVE s = {}
    BY <2>1, PartsOf
  <2>2. Right({})
    BY <1>3
  <2> HIDE DEF Right
  <2> QED
    BY <2>1, <2>2
<1>5. ASSUME NEW k \in Nat, k \in K PROVE k + 1 \in K
  <2>1. ASSUME NEW s \in SUBSET D, Cardinality(s) <= k + 1, s # {} PROVE Right(s)
    <3> DEFINE y == Some(s)
    <3>1. y \in s /\ g[s] = f[y] + g[s \ {y}]
      BY <2>1, <1>3, PartsOf
    <3> HIDE DEF y
    <3>2. ASSUME NEW x \in s
          PROVE  /\ s \ {x} \in SUBSET D /\ f[x] \in Int /\ g[s \ {x}] \in Int
                 /\ \A z \in s \ {x} : g[s \ {x}] = f[z] + g[(s \ {x}) \ {z}]
      <4>1. s \ {x} \in SUBSET D /\ Cardinality(s \ {x}) <= k
        BY <2>1, PartsOf
      <4> QED
        BY <4>1, <1>5
    <3>3. ASSUME NEW x \in s, x # y PROVE g[s] = f[x] + g[s \ {x}]
      <4>1. x \in s \ {y} /\ y \in s \ {x}
        BY <3>1, <3>3
      <4>2. g[s \ {y}] = f[x] + g[(s \ {y}) \ {x}] /\ g[s \ {x}] = f[y] + g[(s \ {x}) \ {y}]
        BY <3>1, <3>2, <4>1
      <4>3. (s \ {y}) \ {x} = (s \ {x}) \ {y} /\ (s \ {x}) \ {y} \in SUBSET D
            /\ Cardinality((s \ {x}) \ {y}) <= k
        <5>1. s \ {x} \in SUBSET D /\ Cardinality(s \ {x}) <= k
          BY <2>1, PartsOf
        <5>2. Cardinality((s \ {x}) \ {y}) = Cardinality(s \ {x}) - 1 /\ Cardinality(s \ {x}) \in Nat
          BY <5>1, <4>1, PartsOf
        <5> QED
          BY <5>1, <5>2
      <4>4. g[(s \ {x}) \ {y}] \in Int
        BY <4>3, <1>5
      <4>5. PICK a \in Int, b \in Int, r \in Int :
               a = f[x] /\ b = f[y] /\ r = g[(s \ {x}) \ {y}]
        BY <3>1, <3>2, <4>4
      <4>6. g[s] = b + (a + r) /\ g[s \ {x}] = b + r
        BY <3>1, <4>2, <4>3, <4>5
      <4> QED
        BY <4>5, <4>6
    <3>4. g[s] \in Int
      <4>1. PICK b \in Int, r \in Int : b = f[y] /\ r = g[s \ {y}]
        BY <3>1, <3>2
      <4> QED
        BY <3>1, <4>1
    <3> QED
      BY <3>1, <3>3, <3>4
  <2>2. Right({})
    BY <1>3
  <2> HIDE DEF Right
  <2> QED
    BY <2>1, <2>2
<1> HIDE DEF K
<1>6. c \in Nat /\ c \in K
  <2>1. c \in Nat
    BY FS_CardinalityType
  <2>2. \A k \in 0 .. c : k \in K
    BY <2>1, <1>4, <1>5, UpTo
  <2> QED
    BY <2>1, <2>2
<1>7. \A s \in SUBSET D : Right(s)
  BY <1>6, PartsOf DEF K
<1>8. g \in [SUBSET D -> Int]
  BY <1>3, <1>7
<1> QED
  BY <1>2, <1>3, <1>7, <1>8 DEF SumsRight

(* The elements of D in some order, and what is added up in that order.     *)
Order(e, n, D) ==
    /\ e \in [1 .. n -> D]
    /\ \A i, j \in 1 .. n : e[i] = e[j] => i = j
    /\ \A x \in D : \E i \in 1 .. n : e[i] = x
AddsUp(p, n, f, e) ==
    /\ p \in [0 .. n -> Int] /\ p[0] = 0 /\ p[n] = Sum(f)
    /\ \A k \in 1 .. n : p[k] = p[k - 1] + f[e[k]]

LEMMA SumInOrder ==
    ASSUME NEW D, NEW f \in [D -> Int], NEW n \in Nat, NEW e, Order(e, n, D)
    PROVE  \E p : AddsUp(p, n, f, e)
<1> USE DEF Order
<1> DEFINE Front(k) == {e[i] : i \in 1 .. k}
<1>1. IsFiniteSet(D)
  <2>1. IsFiniteSet(1 .. n)
    BY FS_Interval
  <2>2. e \in Surjection(1 .. n, D)
    BY DEF Surjection
  <2> QED
    BY <2>1, <2>2, FS_Surjection
<1>2. PICK g : SumsRight(f, D, g)
  BY <1>1, SumsKnown
<1> DEFINE p == [k \in 0 .. n |-> g[Front(k)]]
<1>3. \A k \in 0 .. n : Front(k) \in SUBSET D
  OBVIOUS
<1>4. p \in [0 .. n -> Int]
  BY <1>2, <1>3 DEF SumsRight
<1>5. p[0] = 0
  <2>1. Front(0) = {}
    OBVIOUS
  <2>2. p[0] = g[Front(0)]
    OBVIOUS
  <2> QED
    BY <2>1, <2>2, <1>2 DEF SumsRight
<1>6. p[n] = Sum(f)
  <2>1. Front(n) = D
    OBVIOUS
  <2> QED
    BY <2>1, <1>2 DEF SumsRight
<1>7. ASSUME NEW k \in 1 .. n PROVE p[k] = p[k - 1] + f[e[k]]
  <2>1. k \in 0 .. n /\ k - 1 \in 0 .. n
    OBVIOUS
  <2>2. e[k] \in Front(k) /\ Front(k) \ {e[k]} = Front(k - 1)
    <3>1. \A i \in 1 .. k - 1 : i \in 1 .. k /\ e[i] # e[k]
      OBVIOUS
    <3>2. \A i \in 1 .. k : i \in 1 .. k - 1 \/ i = k
      OBVIOUS
    <3> QED
      BY <3>1, <3>2
  <2>3. g[Front(k)] = f[e[k]] + g[Front(k) \ {e[k]}]
    <3>1. Front(k) \in SUBSET D /\ e[k] \in Front(k)
      BY <1>3, <2>1, <2>2
    <3> HIDE DEF Front
    <3> QED
      BY <1>2, <3>1 DEF SumsRight
  <2>4. g[Front(k)] = f[e[k]] + g[Front(k - 1)]
    BY <2>2, <2>3
  <2> HIDE DEF Front
  <2>5. PICK a \in Int, b \in Int : a = f[e[k]] /\ b = g[Front(k - 1)]
    BY <1>4, <2>1
  <2> QED
    BY <2>1, <2>4, <2>5
<1> HIDE DEF p
<1>8. AddsUp(p, n, f, e)
  BY <1>4, <1>5, <1>6, <1>7 DEF AddsUp
<1> QED
  BY <1>8

(* Of a list, from its front and from its back.                             *)
LEMMA SumOfList ==
    ASSUME NEW n \in Nat, NEW f \in [1 .. n -> Int]
    PROVE  \E p \in [0 .. n -> Int] :
             /\ p[0] = 0 /\ p[n] = Sum(f)
             /\ \A k \in 1 .. n : p[k] = p[k - 1] + f[k]
<1> DEFINE e == [i \in 1 .. n |-> i]
<1>1. Order(e, n, 1 .. n) /\ \A i \in 1 .. n : e[i] = i
  BY DEF Order
<1> HIDE DEF e
<1>2. PICK p : AddsUp(p, n, f, e)
  BY <1>1, SumInOrder
<1> QED
  BY ZenonT(30), <1>1, <1>2 DEF AddsUp

AddsBack(p, n, f, l) ==
    /\ p \in [0 .. n -> Int] /\ p[0] = 0 /\ p[n] = Sum(f)
    /\ \A k \in 1 .. n : p[k] = p[k - 1] + f[n + l - k]

LEMMA SumBackwards ==
    ASSUME NEW n \in Nat, NEW l \in {0, 1}, NEW f \in [l .. n - 1 + l -> Int]
    PROVE  \E p \in [0 .. n -> Int] : AddsBack(p, n, f, l)
<1> DEFINE D == l .. n - 1 + l
           e == [i \in 1 .. n |-> n + l - i]
<1>1. /\ e \in [1 .. n -> D] /\ \A i \in 1 .. n : e[i] = n + l - i
      /\ \A i, j \in 1 .. n : e[i] = e[j] => i = j
  OBVIOUS
<1>2. \A x \in D : \E i \in 1 .. n : e[i] = x
  <2>1. \A x \in D : n + l - x \in 1 .. n /\ n + l - (n + l - x) = x
    OBVIOUS
  <2> QED
    BY <2>1, <1>1
<1>3. Order(e, n, D)
  BY <1>1, <1>2 DEF Order
<1>4. f \in [D -> Int]
  OBVIOUS
<1> HIDE DEF e, D
<1>5. PICK p : AddsUp(p, n, f, e)
  BY <1>3, <1>4, SumInOrder
<1>6. p \in [0 .. n -> Int] /\ p[0] = 0 /\ p[n] = Sum(f)
  BY <1>5 DEF AddsUp
<1>7. ASSUME NEW k \in 1 .. n PROVE p[k] = p[k - 1] + f[n + l - k]
  <2>1. e[k] = n + l - k
    BY <1>1
  <2>2. p[k] = p[k - 1] + f[e[k]]
    BY <1>5 DEF AddsUp
  <2> QED
    BY <2>1, <2>2
<1> QED
  BY <1>6, <1>7 DEF AddsBack

(* What some elements add and what the others add is what all add.          *)
LEMMA SumOfBoth ==
    ASSUME NEW n \in Nat, NEW f \in [1 .. n -> Int], NEW g \in [1 .. n -> Int],
           NEW h \in [1 .. n -> Int], \A i \in 1 .. n : h[i] = f[i] + g[i]
    PROVE  Sum(h) = Sum(f) + Sum(g) /\ Sum(f) \in Int /\ Sum(g) \in Int
<1>1. PICK p \in [0 .. n -> Int] :
         p[0] = 0 /\ p[n] = Sum(f) /\ \A k \in 1 .. n : p[k] = p[k - 1] + f[k]
  BY SumOfList
<1>2. PICK q \in [0 .. n -> Int] :
         q[0] = 0 /\ q[n] = Sum(g) /\ \A k \in 1 .. n : q[k] = q[k - 1] + g[k]
  BY SumOfList
<1>3. PICK r \in [0 .. n -> Int] :
         r[0] = 0 /\ r[n] = Sum(h) /\ \A k \in 1 .. n : r[k] = r[k - 1] + h[k]
  BY SumOfList
<1> DEFINE K == {k \in 0 .. n : r[k] = p[k] + q[k]}
<1>4. 0 \in K
  BY <1>1, <1>2, <1>3
<1>5. ASSUME NEW k \in 0 .. n - 1, k \in K PROVE k + 1 \in K
  <2>1. k + 1 \in 1 .. n /\ k \in 0 .. n /\ k + 1 \in 0 .. n /\ k + 1 - 1 = k
    OBVIOUS
  <2>2. /\ r[k + 1] = r[k] + h[k + 1] /\ p[k + 1] = p[k] + f[k + 1]
        /\ q[k + 1] = q[k] + g[k + 1] /\ h[k + 1] = f[k + 1] + g[k + 1]
        /\ r[k] = p[k] + q[k]
    <3>1. r[k] = p[k] + q[k]
      BY <1>5
    <3>2. r[k + 1] = r[k + 1 - 1] + h[k + 1]
      BY <1>3, <2>1
    <3>3. p[k + 1] = p[k + 1 - 1] + f[k + 1]
      BY <1>1, <2>1
    <3>4. q[k + 1] = q[k + 1 - 1] + g[k + 1]
      BY <1>2, <2>1
    <3>5. h[k + 1] = f[k + 1] + g[k + 1]
      BY <2>1
    <3> QED
      BY <2>1, <3>1, <3>2, <3>3, <3>4, <3>5
  <2>3. PICK a \in Int, b \in Int, x \in Int, y \in Int :
          a = p[k] /\ b = q[k] /\ x = f[k + 1] /\ y = g[k + 1]
    BY <2>1
  <2>4. r[k + 1] = p[k + 1] + q[k + 1]
    BY <2>2, <2>3
  <2> QED
    BY <2>1, <2>4
<1> HIDE DEF K
<1>6. n \in K
  <2>1. \A k \in 0 .. n : k \in K
    BY <1>4, <1>5, UpTo
  <2> QED
    BY <2>1
<1>7. n \in 0 .. n
  OBVIOUS
<1> QED
  BY <1>1, <1>2, <1>3, <1>6, <1>7 DEF K

(* A stretch of a list adds what another list of the same adds.             *)
Alike(p, t, a, q, n) ==
    /\ t \in Nat /\ a \in Nat /\ n \in Nat /\ a + n <= t
    /\ p \in [0 .. t -> Int] /\ q \in [0 .. n -> Int] /\ q[0] = 0
    /\ \A k \in 1 .. n : p[a + k] - p[a + k - 1] = q[k] - q[k - 1]

Adds(p, a, q, n) == p[a + n] = p[a] + q[n]

LEMMA SumOfStretch ==
    ASSUME NEW t \in Nat, NEW a \in Nat, NEW n \in Nat, NEW p \in [0 .. t -> Int],
           NEW q \in [0 .. n -> Int], Alike(p, t, a, q, n)
    PROVE  Adds(p, a, q, n)
<1> USE DEF Alike, Adds
<1> DEFINE K == {k \in 0 .. n : p[a + k] = p[a] + q[k]}
<1>1. a \in 0 .. t /\ p[a] \in Int /\ a + 0 = a
  OBVIOUS
<1>2. 0 \in K
  BY <1>1
<1>3. ASSUME NEW k \in 0 .. n - 1, k \in K PROVE k + 1 \in K
  <2>1. k + 1 \in 1 .. n /\ k \in 0 .. n /\ k + 1 \in 0 .. n /\ k + 1 - 1 = k
        /\ a + (k + 1) - 1 = a + k /\ a + k \in 0 .. t /\ a + (k + 1) \in 0 .. t
    OBVIOUS
  <2>2. p[a + (k + 1)] - p[a + k] = q[k + 1] - q[k]
    BY <2>1
  <2>3. p[a + k] = p[a] + q[k]
    BY <1>3
  <2>4. /\ p[a + (k + 1)] \in Int /\ p[a + k] \in Int /\ q[k + 1] \in Int /\ q[k] \in Int
    BY <2>1
  <2> HIDE DEF K
  <2>5. p[a + (k + 1)] = p[a] + q[k + 1]
    <3>1. PICK u \in Int, v \in Int, x \in Int, y \in Int, z \in Int :
            u = p[a + (k + 1)] /\ v = p[a + k] /\ x = q[k + 1] /\ y = q[k] /\ z = p[a]
      BY <1>1, <2>4
    <3>2. v = z + y
      BY <2>3, <3>1
    <3>3. u - v = x - y
      BY <2>2, <3>1
    <3>4. u = z + x
      BY <3>2, <3>3
    <3> QED
      BY <3>1, <3>4
  <2> QED
    BY <2>1, <2>5 DEF K
<1> HIDE DEF K
<1>4. n \in K
  <2>1. \A k \in 0 .. n : k \in K
    BY <1>2, <1>3, UpTo
  <2> QED
    BY <2>1
<1> QED
  BY <1>4 DEF K

(* The list all has x r times, then f and then g, both from the back.       *)
Parts(all, r, x, b, f, nc, g) ==
    /\ f \in [1 .. b -> Int] /\ g \in [0 .. nc - 1 -> Int]
    /\ all \in [1 .. r + b + nc -> Int]
    /\ \A i \in 1 .. r : all[i] = x
    /\ \A i \in 1 .. b : all[r + i] = f[b + 1 - i]
    /\ \A i \in 1 .. nc : all[r + b + i] = g[nc - i]

LEMMA SumOfParts ==
    ASSUME NEW r \in Nat, NEW b \in Nat, NEW nc \in Nat, NEW x \in Int,
           NEW f, NEW g, NEW all, Parts(all, r, x, b, f, nc, g)
    PROVE  Sum(all) = Sum(g) + (r * x + Sum(f)) /\ Sum(f) \in Int /\ Sum(g) \in Int
<1> USE DEF Parts
<1>1. PICK n \in Nat, rb \in Nat : n = r + b + nc /\ rb = r + b
  OBVIOUS
<1>2. /\ all \in [1 .. n -> Int] /\ n = rb + nc /\ r <= rb /\ rb <= n /\ r <= n
      /\ \A i \in 1 .. nc : all[rb + i] = g[nc - i]
  BY <1>1
<1>3. PICK p \in [0 .. n -> Int] :
         p[0] = 0 /\ p[n] = Sum(all) /\ \A k \in 1 .. n : p[k] = p[k - 1] + all[k]
  BY <1>2, SumOfList
<1>4. ASSUME NEW k \in 1 .. n PROVE p[k] - p[k - 1] = all[k]
  <2>1. p[k] = p[k - 1] + all[k] /\ p[k - 1] \in Int /\ all[k] \in Int
    BY SMTT(30), <1>2, <1>3
  <2> QED
    BY <2>1
<1>5. PICK q \in [0 .. b -> Int] : AddsBack(q, b, f, 1)
  <2>1. f \in [1 .. b - 1 + 1 -> Int]
    OBVIOUS
  <2> QED
    BY <2>1, SumBackwards
<1>6. PICK s \in [0 .. nc -> Int] : AddsBack(s, nc, g, 0)
  <2>1. g \in [0 .. nc - 1 + 0 -> Int]
    OBVIOUS
  <2> QED
    BY <2>1, SumBackwards
<1> DEFINE o == [k \in 0 .. r |-> k * x]
<1>7. p[r] = r * x
  <2>1. o \in [0 .. r -> Int] /\ o[0] = 0 /\ o[r] = r * x
    OBVIOUS
  <2>2. ASSUME NEW k \in 1 .. r PROVE p[0 + k] - p[0 + k - 1] = o[k] - o[k - 1]
    <3>1. o[k] - o[k - 1] = x
      <4>1. k * x - (k - 1) * x = x
        OBVIOUS
      <4>2. o[k] = k * x /\ o[k - 1] = (k - 1) * x
        OBVIOUS
      <4> QED
        BY <4>1, <4>2
    <3>2. k \in 1 .. n /\ all[k] = x /\ 0 + k = k /\ 0 + k - 1 = k - 1
      BY <1>2
    <3>3. p[k] - p[k - 1] = x
      BY <1>4, <3>2
    <3> HIDE DEF o
    <3> QED
      BY <3>1, <3>2, <3>3
  <2> HIDE DEF o
  <2>4. 0 + r <= n /\ 0 + r = r
    BY <1>2
  <2>3. Alike(p, n, 0, o, r)
    BY <1>1, <1>3, <2>1, <2>2, <2>4 DEF Alike
  <2>5. Adds(p, 0, o, r)
    BY <2>3, <2>1, SumOfStretch
  <2>6. r * x \in Int
    OBVIOUS
  <2> QED
    BY <1>3, <2>1, <2>4, <2>5, <2>6 DEF Adds
<1>8. p[rb] = p[r] + q[b]
  <2>1. ASSUME NEW k \in 1 .. b PROVE p[r + k] - p[r + k - 1] = q[k] - q[k - 1]
    <3>1. r + k \in 1 .. n
      BY <1>1
    <3>2. p[r + k] - p[r + k - 1] = all[r + k]
      BY <1>4, <3>1
    <3>6. b + 1 - k \in 1 .. b /\ k - 1 \in 0 .. b
      OBVIOUS
    <3>3. q[k] = q[k - 1] + f[b + 1 - k] /\ q[k - 1] \in Int /\ f[b + 1 - k] \in Int
      BY <1>5, <3>6 DEF AddsBack
    <3>4. all[r + k] = f[b + 1 - k]
      OBVIOUS
    <3>5. q[k] - q[k - 1] = f[b + 1 - k]
      <4>1. PICK u \in Int, v \in Int : u = q[k - 1] /\ v = f[b + 1 - k]
        BY <3>3
      <4> QED
        BY <3>3, <4>1
    <3> QED
      BY <3>2, <3>4, <3>5
  <2>3. r + b <= n /\ r + b = rb
    BY <1>1, <1>2
  <2>4. q \in [0 .. b -> Int] /\ q[0] = 0
    BY <1>5 DEF AddsBack
  <2>2. Alike(p, n, r, q, b)
    BY <1>1, <1>3, <2>1, <2>3, <2>4 DEF Alike
  <2>5. Adds(p, r, q, b)
    BY <2>2, <2>4, SumOfStretch
  <2> QED
    BY <2>3, <2>5 DEF Adds
<1>9. p[n] = p[rb] + s[nc]
  <2>1. ASSUME NEW k \in 1 .. nc PROVE p[rb + k] - p[rb + k - 1] = s[k] - s[k - 1]
    <3>1. rb + k \in 1 .. n
      BY <1>2
    <3>2. p[rb + k] - p[rb + k - 1] = all[rb + k]
      BY <1>4, <3>1
    <3>3. nc - k \in 0 .. nc - 1 /\ nc + 0 - k = nc - k
      OBVIOUS
    <3>4. s[k] = s[k - 1] + g[nc + 0 - k]
      BY <1>6 DEF AddsBack
    <3>7. PICK u \in Int, v \in Int : u = s[k - 1] /\ v = g[nc - k]
      <4>1. k - 1 \in 0 .. nc
        OBVIOUS
      <4> QED
        BY <3>3, <4>1
    <3>8. s[k] = u + v
      BY <3>3, <3>4, <3>7
    <3>5. s[k] - s[k - 1] = g[nc - k]
      BY <3>7, <3>8
    <3>6. all[rb + k] = g[nc - k]
      BY <1>2
    <3> QED
      BY <3>2, <3>5, <3>6
  <2>3. rb + nc <= n /\ rb + nc = n
    BY <1>2
  <2>4. s \in [0 .. nc -> Int] /\ s[0] = 0
    BY <1>6 DEF AddsBack
  <2>2. Alike(p, n, rb, s, nc)
    BY <1>1, <1>3, <2>1, <2>3, <2>4 DEF Alike
  <2>5. Adds(p, rb, s, nc)
    BY <2>2, <2>4, SumOfStretch
  <2> QED
    BY <2>3, <2>5 DEF Adds
<1>10. /\ r * x \in Int /\ q[b] = Sum(f) /\ q[b] \in Int
       /\ s[nc] = Sum(g) /\ s[nc] \in Int
  BY <1>5, <1>6 DEF AddsBack
<1> HIDE DEF o
<1> QED
  BY <1>3, <1>7, <1>8, <1>9, <1>10

-----------------------------------------------------------------------------
(* The commands run for one packet                                         *)

(* The packet's last command but those run for it.                          *)
First(c, m) ==
    IF held \/ m.seq - m.numcmds - incoming[c] >= MAX_DROPPED_CMDS
    THEN m.seq - m.numcmds ELSE incoming[c]

(* How many commands SV_ParseMove goes through.                             *)
Number(c, m) == m.seq - First(c, m)

(* The commands of SV_ParseMove are lastcmd some times, backups from the    *)
(* oldest on that are needed, and the new ones.                             *)
CommandsAre(c, m, all, r, b) ==
    /\ OfLength(all, r + b + m.numcmds)
    /\ \A i \in 1 .. r : all[i] = Local(player[c].lastcmd)
    /\ \A i \in 1 .. b : all[r + i] = Network(cmds(m)[m.numcmds + b - i])
    /\ \A i \in 1 .. m.numcmds : all[r + b + i] = Network(cmds(m)[m.numcmds - i])

LEMMA PartsOfCommands ==
    ASSUME NEW c, NEW m, NEW nc \in Nat, nc = m.numcmds, NEW dropped, dropped = ToMakeUp(c, m),
           NEW r \in Nat, NEW b \in Nat,
           IF dropped >= MAX_DROPPED_CMDS THEN r = 0 /\ b = 0
           ELSE r = Repeats(dropped, m) /\ b = Backups(dropped, m)
    PROVE  CommandsAre(c, m, Commands(c, m), r, b)
<1>1. PICK more \in Nat : more = r + b
  OBVIOUS
<1>2. PICK f : f = [i \in 1 .. r |-> Local(player[c].lastcmd)]
  OBVIOUS
<1>3. PICK g : g = [i \in 1 .. b |-> Network(cmds(m)[nc + b - i])]
  OBVIOUS
<1>4. PICK h : h = [i \in 1 .. nc |-> Network(cmds(m)[nc - i])]
  OBVIOUS
<1>5. NewCmds(m) = h
  BY <1>4 DEF NewCmds
<1>6. MadeUp(c, m, dropped) = f \o g
  <2>1. CASE ~(dropped >= MAX_DROPPED_CMDS)
    BY <1>2, <1>3, <2>1 DEF MadeUp
  <2>2. CASE dropped >= MAX_DROPPED_CMDS
    <3>1. f = <<>> /\ g = <<>>
      BY <1>2, <1>3, <2>2
    <3>2. <<>> \o <<>> = <<>>
      OBVIOUS
    <3> QED
      BY <2>2, <3>1, <3>2 DEF MadeUp
  <2> QED
    BY <2>1, <2>2
<1>7. PICK fg : fg = f \o g
  OBVIOUS
<1>8. /\ OfLength(fg, more)
      /\ \A i \in 1 .. r : fg[i] = f[i]
      /\ \A i \in r + 1 .. more : fg[i] = g[i - r]
  <2>1. OfLength(f, r) /\ OfLength(g, b)
    BY <1>2, <1>3 DEF OfLength
  <2>2. IsJoined(f \o g, f, r, g, b)
    BY <2>1, Joined
  <2> QED
    BY <1>1, <1>7, <2>2 DEF IsJoined
<1>9. PICK all : all = Commands(c, m)
  OBVIOUS
<1>10. all = fg \o h
  BY <1>5, <1>6, <1>7, <1>9 DEF Commands
<1>11. /\ OfLength(all, more + nc)
       /\ \A i \in 1 .. more : all[i] = fg[i]
       /\ \A i \in more + 1 .. more + nc : all[i] = h[i - more]
  <2>1. OfLength(h, nc)
    BY <1>4 DEF OfLength
  <2>2. IsJoined(fg \o h, fg, more, h, nc)
    BY <1>8, <2>1, Joined
  <2> QED
    BY <1>10, <2>2 DEF IsJoined
<1>12. ASSUME NEW i \in 1 .. r PROVE all[i] = Local(player[c].lastcmd)
  <2>1. i \in 1 .. more
    BY <1>1
  <2> QED
    BY <1>2, <1>8, <1>11, <2>1
<1>13. ASSUME NEW i \in 1 .. b PROVE all[r + i] = Network(cmds(m)[nc + b - i])
  <2>1. r + i \in 1 .. more /\ r + i \in r + 1 .. more /\ r + i - r = i
    BY <1>1
  <2>2. all[r + i] = g[i]
    BY <1>8, <1>11, <2>1
  <2> QED
    BY <1>3, <2>2
<1>14. ASSUME NEW i \in 1 .. nc PROVE all[more + i] = Network(cmds(m)[nc - i])
  <2>1. more + i \in more + 1 .. more + nc /\ more + i - more = i
    OBVIOUS
  <2>2. all[more + i] = h[i]
    BY <1>11, <2>1
  <2> QED
    BY <1>4, <2>2
<1> QED
  BY <1>1, <1>9, <1>11, <1>12, <1>13, <1>14 DEF CommandsAre

(* The commands of SV_ParseMove: those from the network are numbered from   *)
(* First(c, m) on, and no more of them are run than are counted.            *)
LEMMA RunNumbers ==
    ASSUME MTypes, PacketsInv, NEW c \in Client, NEW m \in up[c],
           NEW all, all = Commands(c, m),
           NEW n, n = Number(c, m)
    PROVE  /\ n \in Nat /\ incoming[c] <= First(c, m) /\ First(c, m) \in Nat
           /\ n <= Issued(c, m) /\ Issued(c, m) \in Nat
           /\ OfLength(all, n)
           /\ \A i \in 1 .. n :
                IF First(c, m) + i > m.seq - m.numcmds - m.numbackup
                THEN all[i].net /\ all[i].cmd.num = First(c, m) + i
                ELSE ~all[i].net
<1> DEFINE dropped == ToMakeUp(c, m)
           few == dropped < MAX_DROPPED_CMDS
<1>1. /\ m.seq \in Nat /\ m.numcmds \in Nat /\ m.numbackup \in Nat
      /\ incoming[c] \in Nat /\ held \in BOOLEAN
      /\ incoming[c] <= m.seq - m.numcmds /\ m.numcmds + m.numbackup <= m.seq
  BY DEF MTypes, PacketsInv, Packet
<1>2. PICK s \in Nat, nc \in Nat, nb \in Nat, inc \in Nat, max \in Nat :
         s = m.seq /\ nc = m.numcmds /\ nb = m.numbackup /\ inc = incoming[c]
         /\ max = MAX_DROPPED_CMDS
  BY <1>1, MovesAssumption
<1>3. inc <= s - nc /\ nc + nb <= s
  BY <1>1, <1>2
<1>4. PICK d \in Nat : d = dropped /\ d = IF held THEN 0 ELSE s - nc - inc
  <2>1. dropped = IF held THEN 0 ELSE s - (inc + 1) + 1 - nc
    BY <1>2 DEF ToMakeUp, Dropped
  <2>2. s - (inc + 1) + 1 - nc = s - nc - inc /\ s - nc - inc \in Nat
    BY <1>3
  <2> QED
    BY <2>1, <2>2
<1>5. few <=> d < max
  BY <1>2, <1>4
<1> HIDE DEF dropped
<1>6. PICK r \in Nat, b \in Nat :
         /\ few => r = Repeats(dropped, m) /\ b = Backups(dropped, m)
         /\ ~few => r = 0 /\ b = 0
         /\ r + b = (IF few THEN d ELSE 0) /\ b <= nb
         /\ few => r = IF d > nb THEN d - nb ELSE 0
  <2>1. CASE few
    <3>1. Repeats(dropped, m) = IF d - nb > 0 THEN d - nb ELSE 0
      BY <1>2, <1>4 DEF Repeats, Positive
    <3>2. Backups(dropped, m) = IF d < nb THEN d ELSE nb
      BY <1>2, <1>4 DEF Backups, Positive, Least
    <3> QED
      BY <2>1, <3>1, <3>2
  <2>2. CASE ~few
    BY <2>2
  <2> QED
    BY <2>1, <2>2
<1>7. PICK more \in Nat : more = r + b
  OBVIOUS
<1>8. PICK fst \in Nat : fst = First(c, m) /\ fst = s - nc - more /\ inc <= fst
  <2>1. First(c, m) = IF held \/ s - nc - inc >= max THEN s - nc ELSE inc
    BY <1>2 DEF First
  <2>2. CASE held
    BY <1>3, <1>4, <1>6, <1>7, <2>1, <2>2
  <2>3. CASE ~held
    BY <1>3, <1>4, <1>5, <1>6, <1>7, <2>1, <2>3
  <2> QED
    BY <2>2, <2>3
<1>9. n = more + nc /\ b <= nb /\ fst + more + nc = s
  BY <1>2, <1>6, <1>8 DEF Number
<1>10. Issued(c, m) = nc + d /\ more <= d
  <2>1. Positive(ToMakeUp(c, m)) = d
    BY <1>4 DEF Positive, dropped
  <2> QED
    BY <1>2, <1>6, <1>7, <2>1 DEF Issued
<1>11. CommandsAre(c, m, all, r, b)
  <2>1. IF dropped >= MAX_DROPPED_CMDS THEN r = 0 /\ b = 0
        ELSE r = Repeats(dropped, m) /\ b = Backups(dropped, m)
    BY <1>2, <1>4, <1>5, <1>6
  <2> QED
    BY <1>1, <2>1, PartsOfCommands DEF dropped
<1> HIDE DEF few
<1>12. /\ OfLength(all, more + nc)
       /\ \A i \in 1 .. r : all[i] = Local(player[c].lastcmd)
       /\ \A i \in 1 .. b : all[r + i] = Network(cmds(m)[nc + b - i])
       /\ \A i \in 1 .. nc : all[more + i] = Network(cmds(m)[nc - i])
  BY <1>2, <1>7, <1>11 DEF CommandsAre
<1>20. ASSUME NEW i \in 0 .. nc + nb - 1
       PROVE  cmds(m)[i].num = s - i
  BY <1>2 DEF cmds
<1>21. ASSUME NEW i \in 1 .. r
       PROVE  ~all[i].net
  BY <1>12 DEF Local
<1>22. ASSUME NEW i \in r + 1 .. more
       PROVE  all[i].net /\ all[i].cmd.num = fst + i
  <2>1. i \in 1 .. more /\ i - r \in 1 .. b
    BY <1>7
  <2>3. PICK j \in 1 .. b : j = i - r /\ r + j = i
    BY <2>1
  <2>4. PICK k \in 0 .. nc + nb - 1 : k = nc + b - j
    BY <1>9
  <2>5. all[i] = Network(cmds(m)[k])
    BY <1>12, <2>3, <2>4
  <2>6. cmds(m)[k].num = s - k
    BY <1>20
  <2>7. s - k = fst + i
    <3>1. i \in Nat /\ k \in Nat /\ j \in Nat /\ i = j + r
      BY <2>1, <2>3
    <3>2. fst = s - nc - b - r
      BY <1>7, <1>9
    <3> QED
      BY <2>4, <3>1, <3>2
  <2> QED
    BY <2>5, <2>6, <2>7 DEF Network
<1>23. ASSUME NEW i \in more + 1 .. more + nc
       PROVE  all[i].net /\ all[i].cmd.num = fst + i
  <2>1. i - more \in 1 .. nc
    OBVIOUS
  <2>2. PICK j \in 1 .. nc : j = i - more /\ more + j = i
    BY <2>1
  <2>3. PICK k \in 0 .. nc + nb - 1 : k = nc - (i - more) /\ k = nc - j
    BY <2>1, <2>2
  <2>4. all[i] = Network(cmds(m)[k])
    BY <1>12, <2>2, <2>3
  <2>5. s - k = fst + i
    BY <1>8, <2>1, <2>3
  <2>6. cmds(m)[k].num = s - k
    BY <1>20
  <2> QED
    BY <2>4, <2>5, <2>6 DEF Network
<1>24. ASSUME NEW i \in 1 .. n
       PROVE  IF fst + i > s - nc - nb
              THEN all[i].net /\ all[i].cmd.num = fst + i
              ELSE ~all[i].net
  <2>1. i \in Nat
    BY <1>9
  <2>2. CASE i \in 1 .. r
    <3>1. r > 0 /\ r = d - nb /\ more = d
      BY <1>6, <1>7, <2>2
    <3>2. ~(fst + i > s - nc - nb)
      BY <1>8, <2>2, <3>1
    <3> QED
      BY <1>21, <2>2, <3>2
  <2>3. CASE i \in r + 1 .. more
    <3>1. fst + i > s - nc - nb
      BY <1>6, <1>7, <1>8, <2>3
    <3> QED
      BY <1>22, <2>3, <3>1
  <2>4. CASE i \in more + 1 .. more + nc
    <3>1. fst + i > s - nc - nb
      BY <1>8, <2>4
    <3> QED
      BY <1>23, <2>4, <3>1
  <2>5. i \in 1 .. r \/ i \in r + 1 .. more \/ i \in more + 1 .. more + nc
    BY <1>7, <1>9, <2>1
  <2> QED
    BY <2>2, <2>3, <2>4, <2>5
<1>25. n \in Nat /\ n <= Issued(c, m) /\ Issued(c, m) \in Nat
  BY <1>9, <1>10
<1> QED
  BY <1>2, <1>8, <1>9, <1>12, <1>24, <1>25

(* What is run of them, and what it adds to the ticks of the frame: all but *)
(* what follows the command the player is dropped at, if there is one.      *)
WhatRuns(c, m, ignore, until, all, list, n) ==
    /\ DOMAIN list = 1 .. n /\ Len(list) = n
    /\ \A i \in 1 .. n : list[i].net = all[i].net /\ list[i].cmd = all[i].cmd
    /\ RanNet(list) \subseteq 1 .. n
    /\ \A i \in RanNet(list) : list[i].cmd.num = First(c, m) + i
    /\ RanCount(list) \in Nat /\ RanCount(list) <= n
    /\ Cardinality(RanNet(list)) \in Nat
    /\ TicksAfter(c, all, ignore, until) \in 0 .. MaxTicks + 1
    /\ ticks[c] + Cardinality(RanNet(list))
         <= TicksAfter(c, all, ignore, until)
            + IF until = n THEN 0 ELSE m.numcmds + m.numbackup

LEMMA RunOfPacket ==
    ASSUME MTypes, PacketsInv, NEW c \in Client, NEW m \in up[c],
           NEW ignore \in BOOLEAN, NEW abusive,
           NEW all, all = Commands(c, m),
           NEW n, n = Number(c, m), NEW until \in 0 .. n,
           NEW list, list = Results(c, all, ignore, abusive, until)
    PROVE  WhatRuns(c, m, ignore, until, all, list, n)
<1> DEFINE Net(k) == {j \in 1 .. k : all[j].net}
           S == RanNet(list)
           after == TicksAfter(c, all, ignore, until)
<1>1. /\ n \in Nat /\ OfLength(all, n)
      /\ \A i \in 1 .. n :
           IF First(c, m) + i > m.seq - m.numcmds - m.numbackup
           THEN all[i].net /\ all[i].cmd.num = First(c, m) + i
           ELSE ~all[i].net
  BY RunNumbers
<1>2. DOMAIN all = 1 .. n /\ Len(all) = n
  BY <1>1, SeqOf
<1>3. OfLength(list, n) /\ DOMAIN list = 1 .. n
  BY <1>2 DEF Results, OfLength
<1>4. Len(list) = n
  BY <1>1, <1>3, SeqOf
<1>5. ASSUME NEW i \in 1 .. n
      PROVE  /\ list[i].net = all[i].net /\ list[i].cmd = all[i].cmd
             /\ list[i].ran = (/\ ~ignore
                               /\ all[i].net /\ i <= until =>
                                    /\ WithinTicks(c, NetCount(all, i))
                                    /\ all[i].cmd.num \notin abusive)
  BY <1>2 DEF Results
<1>6. S \subseteq 1 .. n /\ S \subseteq Net(n)
  BY <1>3, <1>5 DEF RanNet
<1>7. ASSUME NEW i \in S PROVE list[i].cmd.num = First(c, m) + i
  <2>1. i \in 1 .. n /\ all[i].net /\ list[i].cmd = all[i].cmd
    BY <1>5, <1>6
  <2> QED
    BY <1>1, <2>1
<1>8. Cardinality(S) \in Nat /\ (S = {} => Cardinality(S) = 0)
  BY <1>1, <1>6, PositionsFinite, FS_EmptySet
<1>9. RanCount(list) \in Nat /\ RanCount(list) <= n
  <2>1. {i \in DOMAIN list : list[i].ran} \in SUBSET (1 .. n)
    BY <1>3
  <2> QED
    BY <1>1, <2>1, PositionsFinite DEF RanCount
<1>10. \A k \in Nat : /\ Cardinality(Net(k)) \in Nat
                    /\ NetCount(all, k) = Cardinality(Net(k))
  <2>1. ASSUME NEW k \in Nat PROVE Cardinality(Net(k)) \in Nat
    BY PositionsFinite
  <2> QED
    BY <2>1 DEF NetCount
<1>11. PICK t \in 0 .. MaxTicks + 1 : t = ticks[c]
  BY DEF MTypes
<1>12. MaxTicks \in Nat /\ until \in Nat /\ until <= n
  BY <1>1, MovesAssumption
<1>13. PICK h \in Nat : h = m.numcmds + m.numbackup
  BY DEF MTypes, Packet
<1>14. PICK rest \in Nat : rest = IF until = n THEN 0 ELSE h
  OBVIOUS
<1> HIDE DEF S
<1> SUFFICES after \in 0 .. MaxTicks + 1 /\ t + Cardinality(S) <= after + rest
  BY <1>3, <1>4, <1>5, <1>6, <1>7, <1>8, <1>9, <1>11, <1>13, <1>14 DEF S, WhatRuns
<1>15. CASE ignore
  <2>1. S = {}
    BY <1>3, <1>5, <1>15 DEF S, RanNet
  <2>2. after = t /\ Cardinality(S) = 0
    BY <1>8, <1>11, <1>15, <2>1 DEF TicksAfter
  <2> QED
    BY <1>11, <1>12, <2>2
<1>16. CASE ~ignore
  <2> DEFINE A == {i \in S : i <= until}
             B == {i \in S : ~(i <= until)}
  <2>1. PICK counts \in Nat : counts = NetCount(all, until) /\ counts = Cardinality(Net(until))
    BY <1>10, <1>12
  <2>2. /\ A \in SUBSET (1 .. n) /\ A \in SUBSET Net(until)
        /\ Net(until) \in SUBSET (1 .. until)
    <3>1. \A i \in A : i \in 1 .. n /\ i <= until /\ all[i].net
      BY <1>6
    <3>2. \A i \in A : i \in 1 .. until
      BY <1>1, <1>12, <3>1
    <3> QED
      BY <3>1, <3>2
  <2>3. PICK a \in Nat : a = Cardinality(A) /\ (A = {} => a = 0) /\ a <= counts
    <3>1. Cardinality(A) \in Nat /\ (A = {} => Cardinality(A) = 0)
      BY <1>1, <2>2, PositionsFinite, FS_EmptySet
    <3> HIDE DEF A, Net
    <3>2. Cardinality(A) <= Cardinality(Net(until))
      BY <1>12, <2>2, PositionsFinite
    <3> QED
      BY <2>1, <3>1, <3>2
  <2>4. t + a <= MaxTicks + 1
    <3>1. CASE A = {}
      BY <1>11, <1>12, <2>3, <3>1
    <3>2. CASE A # {}
      <4>1. PICK k \in A : \A i \in A : i <= k
        BY <1>1, <2>2, <3>2, LastPosition
      <4>2. k \in 1 .. n /\ k \in Nat /\ k <= until /\ k \in S
        <5>1. k \in S /\ k <= until
          BY <4>1
        <5>2. k \in 1 .. n
          BY <1>6, <5>1
        <5> QED
          BY <1>1, <5>1, <5>2
      <4>3. A \in SUBSET Net(k) /\ Net(k) \in SUBSET (1 .. k)
        <5>1. \A i \in A : i \in 1 .. n /\ all[i].net /\ i <= k
          BY <1>6, <4>1
        <5>2. \A i \in A : i \in 1 .. k
          BY <1>1, <4>2, <5>1
        <5> QED
          BY <5>1, <5>2
      <4>4. a <= NetCount(all, k) /\ NetCount(all, k) \in Nat
        <5> HIDE DEF A, Net
        <5>1. Cardinality(A) <= Cardinality(Net(k))
          BY <4>2, <4>3, PositionsFinite
        <5> QED
          BY <1>10, <2>3, <4>2, <5>1
      <4>5. WithinTicks(c, NetCount(all, k))
        <5>1. list[k].ran /\ all[k].net
          BY <1>3, <1>5, <4>2 DEF S, RanNet
        <5> QED
          BY <1>5, <4>2, <5>1
      <4>6. t + NetCount(all, k) - 1 <= MaxTicks
        BY <1>11, <4>5 DEF WithinTicks
      <4> QED
        BY <1>11, <1>12, <2>3, <4>4, <4>6
    <3> QED
      BY <3>1, <3>2
  <2>5. after = IF t + counts < MaxTicks + 1 THEN t + counts ELSE MaxTicks + 1
    BY <1>11, <1>16, <2>1 DEF TicksAfter, Least
  <2>6. after \in 0 .. MaxTicks + 1 /\ t + a <= after
    BY <1>11, <1>12, <2>3, <2>4, <2>5
  <2>7. PICK b \in Nat : b = Cardinality(B) /\ b <= rest
    <3>1. CASE until = n
      <4>1. B = {}
        <5>1. \A i \in S : i <= n
          BY <1>1, <1>6
        <5> QED
          BY <3>1, <5>1
      <4> HIDE DEF B
      <4>2. Cardinality(B) = 0 /\ rest = 0
        BY <1>14, <3>1, <4>1, FS_EmptySet
      <4> QED
        BY <4>2
    <3>2. CASE until # n
      <4> DEFINE low == n - h + 1
      <4>1. low \in Int /\ n \in Int
        BY <1>1, <1>13
      <4>2. B \in SUBSET (low .. n)
        <5>1. n = m.seq - First(c, m) /\ First(c, m) \in Nat /\ m.seq \in Nat
              /\ m.numcmds \in Nat /\ m.numbackup \in Nat
          BY RunNumbers DEF Number, MTypes, Packet
        <5>2. ASSUME NEW i \in B PROVE i \in low .. n
          <6>1. i \in 1 .. n /\ all[i].net
            BY <1>6
          <6>2. First(c, m) + i > m.seq - m.numcmds - m.numbackup
            BY <1>1, <6>1
          <6> QED
            BY <1>1, <1>13, <5>1, <6>1, <6>2
        <5> QED
          BY <5>2
      <4>3. IsFiniteSet(low .. n) /\ Cardinality(low .. n) = IF low > n THEN 0 ELSE n - low + 1
        BY <4>1, FS_Interval
      <4>4. Cardinality(low .. n) = h
        BY <1>1, <1>13, <4>3
      <4> HIDE DEF low, B
      <4>5. IsFiniteSet(B) /\ Cardinality(B) <= h
        BY <4>2, <4>3, <4>4, FS_Subset
      <4>6. Cardinality(B) \in Nat
        BY <4>5, FS_CardinalityType
      <4> QED
        BY <1>14, <3>2, <4>5, <4>6
    <3> QED
      BY <3>1, <3>2
  <2>8. Cardinality(S) = a + b
    <3>1. IsFiniteSet(A) /\ IsFiniteSet(B)
      <4>1. B \in SUBSET (1 .. n)
        BY <1>6
      <4> HIDE DEF B, A
      <4> QED
        BY <1>1, <2>2, <4>1, PositionsFinite
    <3>2. S = A \cup B /\ A \cap B = {}
      OBVIOUS
    <3> HIDE DEF A, B
    <3>3. Cardinality(A \cup B) = Cardinality(A) + Cardinality(B) - Cardinality(A \cap B)
      BY <3>1, FS_Union
    <3>4. Cardinality(A \cap B) = 0
      BY <3>2, FS_EmptySet
    <3> QED
      BY <2>3, <2>7, <3>2, <3>3, <3>4
  <2> HIDE DEF after
  <2>9. PICK x \in Nat : x = after
    BY <1>12, <2>6
  <2> QED
    BY <1>11, <1>14, <2>3, <2>6, <2>7, <2>8, <2>9
<1> QED
  BY <1>15, <1>16

(* The command the player is dropped at is one of the packet's.             *)
Until(drop, n) == IF drop = 0 THEN n ELSE drop

LEMMA DropsWithin ==
    ASSUME MTypes, PacketsInv, NEW c \in Client, NEW m \in up[c],
           NEW ignore \in BOOLEAN, NEW abusive, NEW drop,
           ParseMove(c, m, ignore, abusive, drop),
           NEW all, all = Commands(c, m), NEW n, n = Number(c, m)
    PROVE  /\ Len(all) = n /\ Until(drop, n) \in 0 .. n
           /\ Until(drop, n) # n => drop # 0
<1>1. n \in Nat /\ OfLength(all, n)
  BY RunNumbers
<1>2. DOMAIN all = 1 .. n /\ Len(all) = n
  BY <1>1, SeqOf
<1>3. drop = 0 \/ drop \in DOMAIN all
  BY DEF ParseMove, MayDrop
<1> QED
  BY <1>1, <1>2, <1>3 DEF Until

(* The greatest number run so far.                                          *)
LEMMA Highest ==
    ASSUME NEW t \in Nat, NEW first \in Nat, t <= first,
           NEW n \in Nat, NEW S \in SUBSET (1 .. n),
           NEW A, t \in A, \A i \in S : first + i \in A,
           \A x \in A : x = t \/ \E i \in S : x = first + i
    PROVE  Max(A) \in Nat /\ Max(A) <= first + n
<1>1. \A i \in S : i \in Nat /\ 1 <= i /\ i <= n
  OBVIOUS
<1>2. \A x \in A : x \in Nat /\ x <= first + n
  BY <1>1
<1>3. \E x \in A : \A y \in A : x >= y
  <2>1. CASE S = {}
    BY <2>1
  <2>2. CASE S # {}
    <3>1. PICK k \in S : \A i \in S : i <= k
      BY <2>2, LastPosition
    <3>2. \A y \in A : first + k >= y
      BY <1>1, <3>1
    <3> QED
      BY <3>2
  <2> QED
    BY <2>1, <2>2
<1>4. Max(A) \in A
  BY <1>3 DEF Max
<1> QED
  BY <1>2, <1>4

-----------------------------------------------------------------------------
(* Steps                                                                   *)

(* The packets still to be read are newer than the one read, and hold as    *)
(* new only commands made after its newest.                                 *)
LEMMA ReadStep ==
    ASSUME MTypes, PacketsInv, NEW c \in Client, NEW m \in up[c], Read(c, m)
    PROVE  /\ held' \in BOOLEAN
           /\ incoming' \in [Client -> Nat] /\ incoming'[c] = m.seq
           /\ \A d \in Client : incoming[d] <= incoming'[d]
           /\ outgoing' \in [Client -> Nat] /\ unsent' \in [Client -> Nat]
           /\ up' \in [Client -> SUBSET Packet]
           /\ PacketsInv'
<1>1. m \in Packet /\ m.seq \in Nat
  BY DEF MTypes, Packet
<1>2. /\ incoming' \in [Client -> Nat] /\ incoming'[c] = m.seq
      /\ \A d \in Client \ {c} : incoming'[d] = incoming[d]
  BY <1>1 DEF Read, MTypes
<1>3. /\ up' \in [Client -> SUBSET Packet]
      /\ up'[c] = {q \in up[c] : q.seq > m.seq}
      /\ \A d \in Client \ {c} : up'[d] = up[d]
  BY DEF Read, MTypes
<1>4. \A d \in Client : incoming[d] <= incoming'[d]
  BY <1>1, <1>2 DEF Read, MTypes
<1>5. PacketsInv'
  <2> SUFFICES ASSUME NEW d \in Client
               PROVE  /\ incoming'[d] + unsent[d] <= outgoing[d]
                      /\ \A q \in up'[d] :
                           /\ incoming'[d] <= q.seq - q.numcmds
                           /\ q.seq <= outgoing[d] - unsent[d]
                           /\ q.numcmds + q.numbackup <= q.seq
                      /\ \A p, q \in up'[d] : p.seq < q.seq => p.seq <= q.seq - q.numcmds
    BY DEF PacketsInv, Read
  <2>1. CASE d = c
    <3>1. m.seq <= outgoing[c] - unsent[c] /\ outgoing[c] \in Nat /\ unsent[c] \in Nat
      BY DEF PacketsInv, MTypes
    <3>2. ASSUME NEW q \in up'[c]
          PROVE  q \in up[c] /\ m.seq < q.seq
      <4>1. q \in up[c] /\ q.seq > m.seq
        BY <1>3
      <4>2. q.seq \in Nat
        BY <4>1 DEF MTypes, Packet
      <4> QED
        BY <1>1, <4>1, <4>2
    <3>3. ASSUME NEW q \in up'[c]
          PROVE  m.seq <= q.seq - q.numcmds
      BY <3>2 DEF PacketsInv
    <3> QED
      BY <1>1, <1>2, <2>1, <3>1, <3>2, <3>3 DEF PacketsInv
  <2>2. CASE d # c
    <3>1. incoming'[d] = incoming[d] /\ up'[d] = up[d]
      BY <1>2, <1>3, <2>2
    <3> QED
      BY <3>1 DEF PacketsInv
  <2> QED
    BY <2>1, <2>2
<1> QED
  BY <1>2, <1>3, <1>4, <1>5 DEF Read, MTypes

LEMMA InitHolds == Init => IInv
<1> SUFFICES ASSUME Init PROVE IInv
  OBVIOUS
<1>1. 0 \in 0 .. MaxTicks + 1
  BY MovesAssumption
<1>2. MTypes
  BY <1>1 DEF Init, MTypes
<1>3. PacketsInv /\ RunInv /\ EveryLossMadeUp
  BY DEF Init, PacketsInv, RunInv, EveryLossMadeUp
<1> QED
  BY <1>2, <1>3 DEF IInv

LEMMA MakeCommandStep ==
    ASSUME IInv, NEW c \in Client, MakeCommand(c) PROVE IInv'
<1> USE DEF IInv, MakeCommand, history, limits
<1>1. MTypes'
  BY DEF MTypes
<1>2. PacketsInv'
  <2>1. \A d \in Client : /\ outgoing[d] \in Nat /\ unsent[d] \in Nat
                          /\ outgoing'[d] \in Nat /\ unsent'[d] \in Nat
                          /\ outgoing'[d] - unsent'[d] = outgoing[d] - unsent[d]
                          /\ incoming[d] \in Nat
    BY DEF MTypes
  <2> QED
    BY <2>1 DEF PacketsInv
<1> QED
  BY <1>1, <1>2 DEF RunInv, EveryLossMadeUp

LEMMA SendMoveStep ==
    ASSUME IInv, NEW c \in Client, NEW wanted \in NumBackups, SendMove(c, wanted)
    PROVE  IInv'
<1> USE DEF IInv
<1> DEFINE numcmds == Least(unsent[c], MaxNew)
           numbackup == Least(wanted, outgoing[c] - numcmds)
           m == [seq |-> outgoing[c], numcmds |-> numcmds, numbackup |-> numbackup]
<1>1. /\ outgoing[c] \in Nat /\ unsent[c] \in Nat /\ incoming[c] \in Nat
      /\ numbackup \in Nat /\ numcmds \in Nat /\ numcmds <= unsent[c]
      /\ numcmds + numbackup <= outgoing[c]
  <2>1. /\ outgoing[c] \in Nat /\ unsent[c] \in Nat /\ incoming[c] \in Nat
        /\ wanted \in Nat /\ MaxNew \in Nat /\ incoming[c] + unsent[c] <= outgoing[c]
    BY MovesAssumption DEF MTypes, PacketsInv
  <2>2. numcmds \in Nat /\ numcmds <= unsent[c]
    BY <2>1 DEF Least
  <2> HIDE DEF numcmds
  <2>3. outgoing[c] - numcmds \in Nat
    BY <2>1, <2>2
  <2>4. numbackup \in Nat /\ numbackup <= outgoing[c] - numcmds
    BY <2>1, <2>3 DEF Least
  <2> HIDE DEF numbackup
  <2> QED
    BY <2>1, <2>2, <2>3, <2>4
<1>2. /\ m \in Packet /\ m.seq = outgoing[c]
      /\ m.numcmds = numcmds /\ m.numbackup = numbackup
  BY <1>1 DEF Packet
<1> HIDE DEF m, numcmds, numbackup
<1>3. /\ up' = [up EXCEPT ![c] = @ \cup {m}] /\ unsent' = [unsent EXCEPT ![c] = 0]
      /\ outgoing' = outgoing /\ incoming' = incoming /\ history' = history
      /\ limits' = limits /\ held' = held
  BY DEF SendMove, m, numcmds, numbackup
<1>4. MTypes'
  BY <1>2, <1>3 DEF MTypes, history, limits
<1>5. PacketsInv'
  <2> SUFFICES ASSUME NEW d \in Client
               PROVE  /\ incoming[d] + unsent'[d] <= outgoing[d]
                      /\ \A q \in up'[d] :
                           /\ incoming[d] <= q.seq - q.numcmds
                           /\ q.seq <= outgoing[d] - unsent'[d]
                           /\ q.numcmds + q.numbackup <= q.seq
                      /\ \A p, q \in up'[d] : p.seq < q.seq => p.seq <= q.seq - q.numcmds
    BY <1>3 DEF PacketsInv
  <2>1. CASE d = c
    <3>1. up'[c] = up[c] \cup {m} /\ unsent'[c] = 0
      BY <1>3 DEF MTypes
    <3>2. incoming[c] + unsent[c] <= outgoing[c]
      BY DEF PacketsInv
    <3>3. incoming[c] + 0 <= outgoing[c]
      BY <1>1, <3>2
    <3>4. /\ incoming[c] <= m.seq - m.numcmds
          /\ m.seq <= outgoing[c] - 0
          /\ m.numcmds + m.numbackup <= m.seq
      BY <1>1, <1>2, <3>2
    <3>5. ASSUME NEW q \in up[c]
          PROVE  /\ incoming[c] <= q.seq - q.numcmds
                 /\ q.seq <= outgoing[c] - 0
                 /\ q.numcmds + q.numbackup <= q.seq
                 /\ q.seq <= m.seq - m.numcmds
      <4>1. q.seq \in Nat /\ q.seq <= outgoing[c] - unsent[c]
        BY DEF PacketsInv, MTypes, Packet
      <4> QED
        BY <1>1, <1>2, <4>1 DEF PacketsInv
    <3>6. ASSUME NEW p \in up'[c], NEW q \in up'[c], p.seq < q.seq
          PROVE  p.seq <= q.seq - q.numcmds
      <4>1. CASE p = m
        <5>1. \A x \in up[c] : x.seq \in Nat /\ ~(m.seq < x.seq)
          <6>1. \A x \in up[c] : x.seq \in Nat /\ x.seq <= m.seq - m.numcmds
            BY <3>5 DEF MTypes, Packet
          <6> QED
            BY <1>1, <1>2, <6>1
        <5> QED
          BY <1>1, <1>2, <3>1, <3>6, <4>1, <5>1
      <4>2. CASE p \in up[c] /\ q = m
        BY <3>5, <4>2
      <4>3. CASE p \in up[c] /\ q \in up[c]
        BY <3>6, <4>3 DEF PacketsInv
      <4> QED
        BY <3>1, <4>1, <4>2, <4>3
    <3>7. \A q \in up'[c] : q = m \/ q \in up[c]
      BY <3>1
    <3> QED
      BY <2>1, <3>1, <3>3, <3>4, <3>5, <3>6, <3>7
  <2>2. CASE d # c
    <3>1. unsent'[d] = unsent[d] /\ up'[d] = up[d]
      BY <1>3, <2>2 DEF MTypes
    <3> QED
      BY <3>1 DEF PacketsInv
  <2> QED
    BY <2>1, <2>2
<1>6. RunInv' /\ EveryLossMadeUp'
  BY <1>3 DEF RunInv, EveryLossMadeUp, history, limits
<1> QED
  BY <1>4, <1>5, <1>6

LEMMA RefuseTooManyStep ==
    ASSUME IInv, NEW c \in Client, NEW m \in up[c], RefuseTooMany(c, m) PROVE IInv'
<1> USE DEF IInv, RefuseTooMany, history, limits
<1>1. /\ incoming' \in [Client -> Nat] /\ held' \in BOOLEAN
      /\ \A d \in Client : incoming[d] <= incoming'[d]
      /\ outgoing' \in [Client -> Nat] /\ unsent' \in [Client -> Nat]
      /\ up' \in [Client -> SUBSET Packet] /\ PacketsInv'
  BY ReadStep
<1>2. MTypes'
  BY <1>1 DEF MTypes
<1>3. RunInv'
  BY <1>1 DEF RunInv, MTypes
<1> QED
  BY <1>1, <1>2, <1>3 DEF EveryLossMadeUp

LEMMA RefuseFloodStep ==
    ASSUME IInv, NEW c \in Client, NEW m \in up[c], RefuseFlood(c, m) PROVE IInv'
<1> USE DEF IInv, RefuseFlood, history
<1>1. /\ incoming' \in [Client -> Nat] /\ held' \in BOOLEAN
      /\ \A d \in Client : incoming[d] <= incoming'[d]
      /\ outgoing' \in [Client -> Nat] /\ unsent' \in [Client -> Nat]
      /\ up' \in [Client -> SUBSET Packet] /\ PacketsInv'
  BY ReadStep
<1>2. Issued(c, m) \in Nat
  BY RunNumbers
<1>3. counted' \in [Client -> Nat]
  BY <1>2 DEF MTypes
<1>4. MTypes'
  BY <1>1, <1>3 DEF MTypes
<1>5. RunInv'
  <2>1. \A d \in Client : top[d] \in Nat /\ incoming[d] \in Nat /\ incoming'[d] \in Nat
    BY <1>1 DEF MTypes
  <2>2. \A d \in Client : top[d] <= incoming[d] /\ incoming[d] <= incoming'[d]
    BY <1>1 DEF RunInv
  <2>3. \A d \in Client : top[d] <= incoming'[d]
    BY <2>1, <2>2
  <2> QED
    BY <2>3 DEF RunInv
<1> QED
  BY <1>1, <1>4, <1>5 DEF EveryLossMadeUp

LEMMA ParseMoveStep ==
    ASSUME IInv, NEW c \in Client, NEW m \in up[c],
           NEW ignore \in BOOLEAN, NEW abusive, NEW drop,
           ParseMove(c, m, ignore, abusive, drop)
    PROVE  /\ IInv'
           /\ \A i \in RanNet(last'.list) :
                /\ last'.list[i].cmd.num > top[last'.client]
                /\ \A j \in RanNet(last'.list) :
                     j < i => last'.list[j].cmd.num < last'.list[i].cmd.num
           /\ counted'[last'.client] - counted[last'.client] >= RanCount(last'.list)
<1> USE DEF IInv
<1>1. PICK all : all = Commands(c, m)
  OBVIOUS
<1>2. PICK n, until : n = Number(c, m) /\ until = Until(drop, n)
  OBVIOUS
<1>3. PICK list : list = Results(c, all, ignore, abusive, until)
  OBVIOUS
<1>17. until \in 0 .. n /\ until = (IF drop = 0 THEN Len(all) ELSE drop)
  BY <1>1, <1>2, DropsWithin DEF Until
<1>4. /\ Read(c, m)
      /\ counted' = [counted EXCEPT ![c] = @ + Issued(c, m)]
      /\ ticks' = [ticks EXCEPT ![c] = TicksAfter(c, all, ignore, until)]
      /\ last' = [client |-> c, prev |-> incoming[c], packet |-> m,
                  held |-> held, list |-> list]
      /\ top' = [top EXCEPT ![c] = Max({@} \cup {list[i].cmd.num : i \in RanNet(list)})]
      /\ frameRan' = [frameRan EXCEPT ![c] = @ + Cardinality(RanNet(list))]
  BY <1>1, <1>3, <1>17 DEF ParseMove
<1>5. /\ n \in Nat /\ incoming[c] <= First(c, m) /\ First(c, m) \in Nat
      /\ n <= Issued(c, m) /\ Issued(c, m) \in Nat
      /\ \A i \in 1 .. n :
           IF First(c, m) + i > m.seq - m.numcmds - m.numbackup
           THEN all[i].net /\ all[i].cmd.num = First(c, m) + i
           ELSE ~all[i].net
  BY <1>1, <1>2, RunNumbers
<1>6. /\ DOMAIN list = 1 .. n /\ Len(list) = n
      /\ \A i \in 1 .. n : list[i].net = all[i].net /\ list[i].cmd = all[i].cmd
      /\ RanNet(list) \subseteq 1 .. n
      /\ \A i \in RanNet(list) : list[i].cmd.num = First(c, m) + i
      /\ RanCount(list) \in Nat /\ RanCount(list) <= n
      /\ Cardinality(RanNet(list)) \in Nat
      /\ TicksAfter(c, all, ignore, until) \in 0 .. MaxTicks + 1
  <2>1. WhatRuns(c, m, ignore, until, all, list, n)
    BY <1>1, <1>2, <1>3, <1>17, RunOfPacket
  <2> QED
    BY <2>1 DEF WhatRuns
<1>7. PICK s \in Nat, first \in Nat, inc \in Nat, t \in Nat :
         s = m.seq /\ first = First(c, m) /\ inc = incoming[c] /\ t = top[c]
  BY <1>5 DEF MTypes, Packet
<1>8. t <= inc /\ inc <= first /\ first + n = s
  BY <1>2, <1>5, <1>7 DEF RunInv, Number
<1>9. /\ incoming' \in [Client -> Nat] /\ held' \in BOOLEAN /\ incoming'[c] = m.seq
      /\ \A d \in Client : incoming[d] <= incoming'[d]
      /\ outgoing' \in [Client -> Nat] /\ unsent' \in [Client -> Nat]
      /\ up' \in [Client -> SUBSET Packet] /\ PacketsInv'
  BY <1>4, ReadStep
<1>10. top' \in [Client -> Nat] /\ \A d \in Client : top'[d] <= incoming'[d]
  <2>1. PICK A : A = {t} \cup {list[i].cmd.num : i \in RanNet(list)}
    OBVIOUS
  <2>2. PICK high \in Nat : high = Max(A) /\ high <= first + n
    <3>1. RanNet(list) \in SUBSET (1 .. n) /\ t <= first
      BY <1>6, <1>8
    <3>2. /\ t \in A /\ \A i \in RanNet(list) : first + i \in A
          /\ \A x \in A : x = t \/ \E i \in RanNet(list) : x = first + i
      BY <1>6, <1>7, <2>1
    <3> QED
      BY <1>5, <3>1, <3>2, Highest
  <2>3. top' = [top EXCEPT ![c] = high]
    BY <1>4, <1>7, <2>1, <2>2
  <2>4. high <= incoming'[c]
    BY <1>7, <1>8, <1>9, <2>2
  <2> QED
    BY <1>9, <2>2, <2>3, <2>4 DEF MTypes, RunInv
<1>11. frameRan' \in [Client -> Nat] /\ ticks' \in [Client -> 0 .. MaxTicks + 1]
  <2>1. PICK k \in Nat : k = Cardinality(RanNet(list))
    BY <1>6
  <2>2. frameRan' = [frameRan EXCEPT ![c] = @ + k]
    BY <1>4, <2>1
  <2> QED
    BY <1>4, <1>6, <2>2 DEF MTypes
<1>12. counted' \in [Client -> Nat] /\ counted'[c] = counted[c] + Issued(c, m)
  BY <1>4, <1>5 DEF MTypes
<1>13. MTypes' /\ RunInv'
  BY <1>9, <1>10, <1>11, <1>12 DEF MTypes, RunInv
<1>14. EveryLossMadeUp'
  <2>1. /\ last'.list = list /\ last'.packet = m /\ last'.held = held
        /\ last'.prev = incoming[c]
    BY <1>4
  <2>2. first = IF held \/ m.seq - m.numcmds - incoming[c] >= MAX_DROPPED_CMDS
                THEN m.seq - m.numcmds ELSE incoming[c]
    BY <1>7 DEF First
  <2>3. /\ Len(list) = m.seq - first
        /\ \A i \in DOMAIN list :
             IF first + i > m.seq - m.numcmds - m.numbackup
             THEN list[i].net /\ list[i].cmd.num = first + i
             ELSE ~list[i].net
    BY <1>2, <1>5, <1>6, <1>7 DEF Number
  <2> QED
    BY <2>1, <2>2, <2>3 DEF EveryLossMadeUp
<1>15. ASSUME NEW i \in RanNet(list)
       PROVE  /\ list[i].cmd.num > top[c]
              /\ \A j \in RanNet(list) : j < i => list[j].cmd.num < list[i].cmd.num
  <2>1. \A k \in RanNet(list) : k \in Nat /\ k >= 1 /\ list[k].cmd.num = first + k
    BY <1>5, <1>6, <1>7
  <2> QED
    BY <1>7, <1>8, <2>1
<1>16. counted'[c] - counted[c] >= RanCount(list)
  <2>1. counted[c] \in Nat
    BY DEF MTypes
  <2> QED
    BY <1>5, <1>6, <1>12, <2>1
<1> QED
  BY <1>4, <1>9, <1>13, <1>14, <1>15, <1>16

(* A frame begins.                                                          *)
LEMMA NextTicksStep ==
    ASSUME IInv, NextTicks, counted' \in [Client -> Nat] PROVE IInv'
<1> USE DEF IInv, NextTicks, client
<1>1. 0 \in 0 .. MaxTicks + 1
  BY MovesAssumption
<1>2. MTypes'
  BY <1>1 DEF MTypes
<1>3. PacketsInv' /\ RunInv' /\ EveryLossMadeUp'
  BY DEF PacketsInv, RunInv, EveryLossMadeUp
<1> QED
  BY <1>2, <1>3

LEMMA HeldStep == ASSUME IInv, ToggleHeld \/ UNCHANGED vars PROVE IInv'
<1> USE DEF IInv, ToggleHeld, vars, limits, client, history
<1>1. MTypes'
  BY DEF MTypes
<1>2. PacketsInv' /\ RunInv' /\ EveryLossMadeUp'
  BY DEF PacketsInv, RunInv, EveryLossMadeUp
<1> QED
  BY <1>1, <1>2

-----------------------------------------------------------------------------

(* What a step does to the commands run: nothing, or it reads a packet.     *)
StepFacts ==
    /\ IInv'
    /\ last' # last =>
         /\ \A i \in RanNet(last'.list) :
              /\ last'.list[i].cmd.num > top[last'.client]
              /\ \A j \in RanNet(last'.list) :
                   j < i => last'.list[j].cmd.num < last'.list[i].cmd.num
         /\ counted'[last'.client] - counted[last'.client] >= RanCount(last'.list)

LEMMA StepHolds == ASSUME IInv, [Next]_vars PROVE StepFacts
<1>1. CASE \E c \in Client : MakeCommand(c)
  BY <1>1, MakeCommandStep DEF StepFacts, MakeCommand, history
<1>2. CASE \E c \in Client, wanted \in NumBackups : SendMove(c, wanted)
  BY <1>2, SendMoveStep DEF StepFacts, SendMove, history
<1>3. CASE \E c \in Client : \E m \in up[c] : ReadMove(c, m)
  <2>1. PICK c \in Client : \E m \in up[c] : ReadMove(c, m)
    BY <1>3
  <2>2. PICK m \in up[c] : ReadMove(c, m)
    BY <2>1
  <2>3. CASE RefuseTooMany(c, m)
    BY <2>3, RefuseTooManyStep DEF StepFacts, RefuseTooMany, history
  <2>4. CASE RefuseFlood(c, m)
    BY <2>4, RefuseFloodStep DEF StepFacts, RefuseFlood, history
  <2>5. CASE \E ignore \in BOOLEAN : \E abusive, drop : ParseMove(c, m, ignore, abusive, drop)
    BY <2>5, ParseMoveStep DEF StepFacts
  <2> QED
    BY <2>2, <2>3, <2>4, <2>5 DEF ReadMove
<1>4. CASE Frame
  <2>1. counted' \in [Client -> Nat]
    BY <1>4 DEF Frame, IInv, MTypes
  <2> QED
    BY <1>4, <2>1, NextTicksStep DEF StepFacts, Frame, NextTicks
<1>5. CASE \E flooding \in SUBSET Client : UpdateAverageRates(flooding)
  <2>1. NextTicks /\ counted' \in [Client -> Nat]
    BY <1>5 DEF UpdateAverageRates
  <2> QED
    BY <2>1, NextTicksStep DEF StepFacts, NextTicks
<1>6. CASE ToggleHeld
  BY <1>6, HeldStep DEF StepFacts, ToggleHeld, history
<1>7. CASE UNCHANGED vars
  BY <1>7, HeldStep DEF StepFacts, vars, history
<1> QED
  BY <1>1, <1>2, <1>3, <1>4, <1>5, <1>6, <1>7 DEF Next

(* The inductive invariant.                                                 *)
THEOREM MovesInvariant == Spec => []IInv
<1>1. IInv /\ [Next]_vars => IInv'
  BY StepHolds DEF StepFacts
<1> QED
  BY InitHolds, <1>1, PTL DEF Spec

(* SV_ParseMove makes up every command that was lost, once and in order:    *)
(* from the packet's backups if it holds it, by repeating lastcmd if not,   *)
(* unless the moves are held or MAX_DROPPED_CMDS were lost.                 *)
THEOREM LossesMadeUp == Spec => []EveryLossMadeUp
<1>1. IInv => EveryLossMadeUp
  BY DEF IInv
<1> QED
  BY MovesInvariant, <1>1, PTL

(* However packets are lost, repeated and reordered, no command that came   *)
(* from the network is run twice or after a later one.                      *)
THEOREM RunOnceInOrder == Spec => OnceInOrder
<1>1. IInv /\ [Next]_vars =>
        [last' # last =>
           \A i \in RanNet(last'.list) :
              /\ last'.list[i].cmd.num > top[last'.client]
              /\ \A j \in RanNet(last'.list) :
                   j < i => last'.list[j].cmd.num < last'.list[i].cmd.num]_vars
  BY StepHolds DEF StepFacts
<1> QED
  BY MovesInvariant, <1>1, PTL DEF Spec, OnceInOrder

(* MoveCommandsIssued counts a packet for at least the commands then run    *)
(* for it, those made up for lost ones too.                                 *)
THEOREM RunsAreCounted == Spec => CountCoversRuns
<1>1. IInv /\ [Next]_vars =>
        [last' # last =>
           counted'[last'.client] - counted[last'.client] >= RanCount(last'.list)]_vars
  BY StepHolds DEF StepFacts
<1> QED
  BY MovesInvariant, <1>1, PTL DEF Spec, CountCoversRuns

-----------------------------------------------------------------------------
(* The clocks of the players                                               *)

(* The packets hold commands that were made, the newest among them for the  *)
(* first time, and the base of the player whose packet was read last is     *)
(* short of the present by what was refused.                                *)
ClockInv ==
    /\ net_drop \in Int
    /\ player \in [Client -> [lastcmd : Cmd, svtimebase : Int, connected : BOOLEAN]]
    /\ last # <<>> => last.client \in Client
    /\ \A c \in Client : /\ outgoing[c] <= MaxSeq[c]
                         /\ \A m \in up[c] : m.numcmds >= 1
    /\ TimeBaseMeetsNow

LEMMA CommandsTyped ==
    ASSUME IInv, ClockInv, NEW c \in Client, NEW m \in up[c],
           NEW i \in 0 .. m.numcmds + m.numbackup - 1
    PROVE  cmds(m)[i] \in Cmd
<1>1. PICK s \in Nat, nc \in Nat, nb \in Nat : s = m.seq /\ nc = m.numcmds /\ nb = m.numbackup
  BY DEF IInv, MTypes, Packet
<1>2. PICK o \in Nat, u \in Nat, t \in Nat : o = outgoing[c] /\ u = unsent[c] /\ t = MaxSeq[c]
  BY MovesAssumption DEF IInv, MTypes
<1>3. nc + nb <= s /\ s <= o - u /\ o <= t
  BY <1>1, <1>2 DEF IInv, PacketsInv, ClockInv
<1>4. i \in Nat /\ i <= nc + nb - 1
  BY <1>1
<1>5. s - i \in 1 .. t /\ s - i \in Nat
  BY <1>2, <1>3, <1>4
<1>6. Msec[s - i] \in Nat
  BY <1>2, <1>5, MovesAssumption
<1>7. cmds(m)[i] = [num |-> m.seq - i, msec |-> IF held /\ i < m.numcmds THEN 0 ELSE Msec[m.seq - i]]
  BY DEF cmds
<1> QED
  BY <1>1, <1>5, <1>6, <1>7 DEF Cmd

(* SV_EstablishTimeBase goes back by the durations of all the commands that *)
(* are to be run.                                                           *)
LEMMA TimeBaseGoesBack ==
    ASSUME IInv, ClockInv, NEW c \in Client, NEW m \in up[c],
           NEW all, all = Commands(c, m), NEW n, n = Number(c, m)
    PROVE  /\ n \in Nat
           /\ \A i \in 1 .. n : all[i].cmd.msec \in Int
           /\ Sum([i \in 1 .. n |-> all[i].cmd.msec]) \in Int
           /\ EstablishTimeBase(c, m, ToMakeUp(c, m)) = -Sum([i \in 1 .. n |-> all[i].cmd.msec])
<1>1. PICK nc \in Nat, nb \in Nat, inc \in Nat, s \in Nat, max \in Nat :
         nc = m.numcmds /\ nb = m.numbackup /\ inc = incoming[c] /\ s = m.seq /\ max = MAX_DROPPED_CMDS
  <2>1. m \in Packet /\ incoming[c] \in Nat
    BY DEF IInv, MTypes
  <2>2. MAX_DROPPED_CMDS \in Nat
    BY MovesAssumption
  <2> QED
    BY <2>1, <2>2 DEF Packet
<1>2. PICK d \in Int : d = ToMakeUp(c, m)
  BY <1>1 DEF ToMakeUp, Dropped
<1>3. PICK r \in Nat, b \in Nat :
         /\ IF d >= MAX_DROPPED_CMDS THEN r = 0 /\ b = 0
            ELSE r = Repeats(d, m) /\ b = Backups(d, m)
         /\ b <= nb
  <2>1. Repeats(d, m) \in Nat /\ Backups(d, m) \in Nat /\ Backups(d, m) <= nb
    BY <1>1 DEF Repeats, Backups, Positive, Least
  <2>2. CASE d >= MAX_DROPPED_CMDS
    BY <2>2
  <2>3. CASE ~(d >= MAX_DROPPED_CMDS)
    BY <2>1, <2>3
  <2> QED
    BY <2>2, <2>3
<1>4. CommandsAre(c, m, all, r, b)
  BY <1>1, <1>2, <1>3, PartsOfCommands
<1>5. n \in Nat /\ n = r + b + nc
  <2>1. n \in Nat /\ OfLength(all, n)
    BY RunNumbers DEF IInv
  <2>2. OfLength(all, r + b + nc) /\ r + b + nc \in Nat
    BY <1>1, <1>4 DEF CommandsAre
  <2>3. Len(all) = n
    BY <2>1, SeqOf
  <2>4. Len(all) = r + b + nc
    BY <2>2, SeqOf
  <2> QED
    BY <2>1, <2>3, <2>4
<1>6. PICK x \in Int : x = player[c].lastcmd.msec
  BY DEF ClockInv, Cmd
<1> DEFINE f == [j \in 1 .. b |-> cmds(m)[nc + j - 1].msec]
           g == [j \in 0 .. nc - 1 |-> cmds(m)[j].msec]
           h == [i \in 1 .. n |-> all[i].cmd.msec]
<1>7. f \in [1 .. b -> Int]
  <2>1. ASSUME NEW j \in 1 .. b PROVE cmds(m)[nc + j - 1].msec \in Int
    <3>1. nc + j - 1 \in 0 .. m.numcmds + m.numbackup - 1
      BY <1>1, <1>3
    <3> QED
      BY <3>1, CommandsTyped DEF Cmd
  <2> QED
    BY <2>1
<1>8. g \in [0 .. nc - 1 -> Int]
  <2>1. ASSUME NEW j \in 0 .. nc - 1 PROVE cmds(m)[j].msec \in Int
    <3>1. j \in 0 .. m.numcmds + m.numbackup - 1
      BY <1>1
    <3> QED
      BY <3>1, CommandsTyped DEF Cmd
  <2> QED
    BY <2>1
<1>9. \A i \in 1 .. r : all[i].cmd.msec = x
  BY <1>4, <1>6 DEF CommandsAre, Local
<1>10. ASSUME NEW i \in 1 .. b PROVE all[r + i].cmd.msec = f[b + 1 - i]
  <2>1. b + 1 - i \in 1 .. b /\ nc + (b + 1 - i) - 1 = nc + b - i
    OBVIOUS
  <2>2. f[b + 1 - i] = cmds(m)[nc + b - i].msec
    BY <2>1
  <2>3. all[r + i] = Network(cmds(m)[nc + b - i])
    BY <1>1, <1>4 DEF CommandsAre
  <2> QED
    BY <2>2, <2>3 DEF Network
<1>11. ASSUME NEW i \in 1 .. nc PROVE all[r + b + i].cmd.msec = g[nc - i]
  <2>1. nc - i \in 0 .. nc - 1
    OBVIOUS
  <2>2. g[nc - i] = cmds(m)[nc - i].msec
    BY <2>1
  <2>3. all[r + b + i] = Network(cmds(m)[nc - i])
    BY <1>1, <1>4 DEF CommandsAre
  <2> QED
    BY <2>2, <2>3 DEF Network
<1> HIDE DEF f, g
<1>12. ASSUME NEW i \in 1 .. n PROVE all[i].cmd.msec \in Int
  <2>1. CASE i \in 1 .. r
    BY <1>9, <2>1
  <2>2. CASE i \in r + 1 .. r + b
    <3>1. i - r \in 1 .. b /\ r + (i - r) = i /\ b + 1 - (i - r) \in 1 .. b
      BY <2>2
    <3>2. all[r + (i - r)].cmd.msec = f[b + 1 - (i - r)]
      BY <1>10, <3>1
    <3> QED
      BY <1>7, <3>1, <3>2
  <2>3. CASE i \in r + b + 1 .. n
    <3>1. i - (r + b) \in 1 .. nc /\ r + b + (i - (r + b)) = i /\ nc - (i - (r + b)) \in 0 .. nc - 1
      BY <1>5, <2>3
    <3>2. all[r + b + (i - (r + b))].cmd.msec = g[nc - (i - (r + b))]
      BY <1>11, <3>1
    <3> QED
      BY <1>8, <3>1, <3>2
  <2>4. i \in 1 .. r \/ i \in r + 1 .. r + b \/ i \in r + b + 1 .. n
    BY <1>5
  <2> QED
    BY <2>1, <2>2, <2>3, <2>4
<1>13. h \in [1 .. n -> Int] /\ \A i \in 1 .. n : h[i] = all[i].cmd.msec
  BY <1>12
<1> HIDE DEF h
<1>14. Sum(h) = Sum(g) + (r * x + Sum(f)) /\ Sum(f) \in Int /\ Sum(g) \in Int
  <2>1. h \in [1 .. r + b + nc -> Int]
    BY <1>5, <1>13
  <2>2. /\ \A i \in 1 .. r : i \in 1 .. n
        /\ \A i \in 1 .. b : r + i \in 1 .. n
        /\ \A i \in 1 .. nc : r + b + i \in 1 .. n
    BY <1>5
  <2>3. /\ \A i \in 1 .. r : h[i] = x
        /\ \A i \in 1 .. b : h[r + i] = f[b + 1 - i]
        /\ \A i \in 1 .. nc : h[r + b + i] = g[nc - i]
    BY <1>9, <1>10, <1>11, <1>13, <2>2
  <2>4. Parts(h, r, x, b, f, nc, g)
    BY <1>7, <1>8, <2>1, <2>3 DEF Parts
  <2> QED
    BY <2>4, SumOfParts
<1>15. EstablishTimeBase(c, m, d) = -(Sum(g) + (r * x + Sum(f)))
  <2>1. CASE d >= MAX_DROPPED_CMDS
    <3>1. EstablishTimeBase(c, m, d) = -(Sum(g) + 0)
      BY <1>1, <2>1 DEF EstablishTimeBase, g
    <3>2. r = 0 /\ b = 0
      BY <1>3, <2>1
    <3>3. Sum(f) = 0
      <4>1. PICK p \in [0 .. b -> Int] : p[0] = 0 /\ p[b] = Sum(f)
        BY <1>7, SumOfList
      <4> QED
        BY <3>2, <4>1
    <3>4. r * x + Sum(f) = 0
      BY <3>2, <3>3
    <3> QED
      BY <3>1, <3>4
  <2>2. CASE ~(d >= MAX_DROPPED_CMDS)
    <3>1. r = Repeats(d, m) /\ b = Backups(d, m)
      BY <1>3, <2>2
    <3> QED
      BY <1>1, <1>6, <2>2, <3>1 DEF EstablishTimeBase, f, g
  <2> QED
    BY <2>1, <2>2
<1>16. Sum(h) \in Int
  <2>1. r * x \in Int
    OBVIOUS
  <2> QED
    BY <1>14, <2>1
<1> QED
  BY <1>2, <1>5, <1>12, <1>14, <1>15, <1>16 DEF h

(* What is added for the commands that are run leaves the base short of the *)
(* present by those that are not.                                           *)
LEMMA BaseAfterRuns ==
    ASSUME IInv, ClockInv, NEW c \in Client, NEW m \in up[c],
           NEW ignore \in BOOLEAN, NEW abusive,
           NEW until \in 0 .. Number(c, m),
           NEW list, list = Results(c, Commands(c, m), ignore, abusive, until)
    PROVE  LET base == EstablishTimeBase(c, m, ToMakeUp(c, m)) + RanTime(list)
           IN  /\ base \in Int
               /\ base = -Sum([i \in DOMAIN list |->
                                  IF list[i].ran THEN 0 ELSE list[i].cmd.msec])
<1>1. PICK all : all = Commands(c, m)
  OBVIOUS
<1>2. PICK n : n = Number(c, m)
  OBVIOUS
<1>3. WhatRuns(c, m, ignore, until, all, list, n)
  BY <1>1, <1>2, RunOfPacket DEF IInv
<1>4. DOMAIN list = 1 .. n /\ \A i \in 1 .. n : list[i].cmd = all[i].cmd
  BY <1>3 DEF WhatRuns
<1> DEFINE h == [i \in 1 .. n |-> all[i].cmd.msec]
           f == [i \in 1 .. n |-> IF list[i].ran THEN list[i].cmd.msec ELSE 0]
           g == [i \in 1 .. n |-> IF list[i].ran THEN 0 ELSE list[i].cmd.msec]
<1>5. /\ n \in Nat
      /\ \A i \in 1 .. n : all[i].cmd.msec \in Int
      /\ Sum(h) \in Int
      /\ EstablishTimeBase(c, m, ToMakeUp(c, m)) = -Sum(h)
  BY <1>1, <1>2, TimeBaseGoesBack
<1>6. RanTime(list) = Sum(f)
  BY <1>4 DEF RanTime
<1>7. Sum([i \in DOMAIN list |-> IF list[i].ran THEN 0 ELSE list[i].cmd.msec]) = Sum(g)
  BY <1>4
<1>8. ASSUME NEW i \in 1 .. n
      PROVE  f[i] \in Int /\ g[i] \in Int /\ h[i] \in Int /\ h[i] = f[i] + g[i]
  <2>1. PICK x \in Int : x = all[i].cmd.msec /\ x = list[i].cmd.msec
    BY <1>4, <1>5
  <2>2. f[i] = (IF list[i].ran THEN x ELSE 0) /\ g[i] = (IF list[i].ran THEN 0 ELSE x) /\ h[i] = x
    BY <2>1
  <2> QED
    BY <2>2
<1>9. f \in [1 .. n -> Int] /\ g \in [1 .. n -> Int] /\ h \in [1 .. n -> Int]
  BY <1>8
<1> HIDE DEF f, g, h
<1>10. Sum(h) = Sum(f) + Sum(g) /\ Sum(f) \in Int /\ Sum(g) \in Int
  BY ZenonT(30), <1>5, <1>8, <1>9, SumOfBoth
<1> QED
  BY <1>5, <1>6, <1>7, <1>10

(* While no packet is run the clocks go on.                                 *)
LEMMA ClockKept ==
    ASSUME ClockInv, net_drop' \in Int,
           player' \in [Client -> [lastcmd : Cmd, svtimebase : Int, connected : BOOLEAN]],
           \A d \in Client : player'[d].svtimebase = player[d].svtimebase,
           last' = last,
           \A d \in Client : /\ outgoing'[d] <= MaxSeq[d]
                             /\ \A q \in up'[d] : q.numcmds >= 1
    PROVE  ClockInv'
BY DEF ClockInv, TimeBaseMeetsNow

LEMMA ClockInit == Init => ClockInv
<1> SUFFICES ASSUME Init PROVE ClockInv
  OBVIOUS
<1>1. NoCmd \in Cmd
  BY DEF NoCmd, Cmd
<1>2. \A c \in Client : MaxSeq[c] \in Nat
  BY MovesAssumption
<1> QED
  BY <1>1, <1>2 DEF Init, ClockInv, TimeBaseMeetsNow

LEMMA ClockMakeCommand ==
    ASSUME IInv, ClockInv, NEW c \in Client, MakeCommand(c) PROVE ClockInv'
<1>1. \A d \in Client : outgoing'[d] <= MaxSeq[d]
  <2>1. outgoing \in [Client -> Nat] /\ MaxSeq \in [Client -> Nat]
    BY MovesAssumption DEF IInv, MTypes
  <2> QED
    BY <2>1 DEF MakeCommand, ClockInv
<1> QED
  BY <1>1, ClockKept DEF MakeCommand, ClockInv, history

LEMMA ClockSendMove ==
    ASSUME IInv, ClockInv, NEW c \in Client, NEW wanted \in NumBackups,
           SendMove(c, wanted)
    PROVE  ClockInv'
<1> DEFINE numcmds == Least(unsent[c], MaxNew)
           numbackup == Least(wanted, outgoing[c] - numcmds)
           m == [seq |-> outgoing[c], numcmds |-> numcmds, numbackup |-> numbackup]
<1>1. numcmds >= 1
  <2>1. unsent[c] \in Nat /\ MaxNew \in Nat \ {0}
    BY MovesAssumption DEF IInv, MTypes
  <2>2. unsent[c] > 0
    BY DEF SendMove
  <2> QED
    BY <2>1, <2>2 DEF Least
<1>2. m.numcmds = numcmds
  OBVIOUS
<1> HIDE DEF m, numcmds, numbackup
<1>3. up' = [up EXCEPT ![c] = @ \cup {m}]
  BY DEF SendMove, m, numcmds, numbackup
<1>4. \A d \in Client : \A q \in up'[d] : q.numcmds >= 1
  BY <1>1, <1>2, <1>3 DEF ClockInv, IInv, MTypes
<1> QED
  BY <1>4, ClockKept DEF SendMove, ClockInv, history

(* A packet is read and its player dropped.                                 *)
LEMMA ReadKeeps ==
    ASSUME IInv, ClockInv, NEW c \in Client, NEW m \in up[c], Read(c, m)
    PROVE  /\ \A d \in Client : /\ outgoing'[d] <= MaxSeq[d]
                                /\ \A q \in up'[d] : q.numcmds >= 1
           /\ ToMakeUp(c, m) \in Int /\ Dropped(c, m) \in Int
<1>1. m.seq \in Nat /\ m.numcmds \in Nat /\ incoming[c] \in Nat
  BY DEF IInv, MTypes, Packet
<1>2. Dropped(c, m) \in Int
  BY <1>1 DEF Dropped
<1>3. ToMakeUp(c, m) \in Int
  BY <1>2 DEF ToMakeUp
<1>4. \A d \in Client : up'[d] \subseteq up[d]
  BY DEF Read, IInv, MTypes
<1>5. outgoing' = outgoing
  BY DEF Read
<1> QED
  BY <1>2, <1>3, <1>4, <1>5 DEF ClockInv

LEMMA ClockRefused ==
    ASSUME IInv, ClockInv, NEW c \in Client, NEW m \in up[c],
           RefuseTooMany(c, m) \/ RefuseFlood(c, m)
    PROVE  ClockInv'
<1>1. Read(c, m) /\ Drop(c) /\ last' = last
      /\ (net_drop' = Dropped(c, m) \/ net_drop' = ToMakeUp(c, m))
  BY DEF RefuseTooMany, RefuseFlood, history
<1>2. /\ player' \in [Client -> [lastcmd : Cmd, svtimebase : Int, connected : BOOLEAN]]
      /\ \A d \in Client : player'[d].svtimebase = player[d].svtimebase
  BY <1>1 DEF Drop, ClockInv
<1>3. net_drop' \in Int
  BY <1>1, ReadKeeps
<1> QED
  BY <1>1, <1>2, <1>3, ReadKeeps, ClockKept

LEMMA ClockParseMove ==
    ASSUME IInv, ClockInv, NEW c \in Client, NEW m \in up[c],
           NEW ignore \in BOOLEAN, NEW abusive, NEW drop,
           ParseMove(c, m, ignore, abusive, drop)
    PROVE  ClockInv'
<1>0. PICK until \in 0 .. Number(c, m) :
         until = (IF drop = 0 THEN Len(Commands(c, m)) ELSE drop)
  BY DropsWithin DEF IInv, Until
<1>1. PICK list : list = Results(c, Commands(c, m), ignore, abusive, until)
  OBVIOUS
<1>2. PICK base \in Int :
         /\ base = EstablishTimeBase(c, m, ToMakeUp(c, m)) + RanTime(list)
         /\ base = -Sum([i \in DOMAIN list |-> IF list[i].ran THEN 0 ELSE list[i].cmd.msec])
  BY <1>1, BaseAfterRuns
<1>3. PICK lc \in Cmd : lc = LastCmd(m)
  <2>1. m.numcmds \in Nat /\ m.numbackup \in Nat /\ m.numcmds >= 1
    BY DEF IInv, MTypes, Packet, ClockInv
  <2>2. m.numcmds - 1 \in 0 .. m.numcmds + m.numbackup - 1
    BY <2>1
  <2> QED
    BY <2>2, CommandsTyped DEF LastCmd
<1>4. PICK d \in Int : d = ToMakeUp(c, m)
  BY ReadKeeps DEF ParseMove
<1>10. PICK on \in BOOLEAN : on = (drop = 0)
  OBVIOUS
<1>5. /\ Read(c, m)
      /\ net_drop' = IF d < MAX_DROPPED_CMDS THEN Least(d, 0) ELSE d
      /\ player' = [player EXCEPT ![c] = [lastcmd |-> lc, svtimebase |-> base,
                                          connected |-> on]]
      /\ last' = [client |-> c, prev |-> incoming[c], packet |-> m,
                  held |-> held, list |-> list]
  BY <1>0, <1>1, <1>2, <1>3, <1>4, <1>10 DEF ParseMove
<1>6. net_drop' \in Int
  <2>1. Least(d, 0) \in Int
    BY DEF Least
  <2> QED
    BY <1>5, <2>1
<1>7. /\ player' \in [Client -> [lastcmd : Cmd, svtimebase : Int, connected : BOOLEAN]]
      /\ player'[c].svtimebase = base
  BY <1>5 DEF ClockInv
<1>8. last'.client = c /\ last'.list = list
  BY <1>5
<1>9. TimeBaseMeetsNow'
  BY <1>2, <1>7, <1>8 DEF TimeBaseMeetsNow
<1> QED
  BY <1>5, <1>6, <1>7, <1>8, <1>9, ReadKeeps DEF ClockInv

LEMMA ClockFrame == ASSUME IInv, ClockInv, Frame PROVE ClockInv'
BY ClockKept DEF Frame, NextTicks, client, ClockInv

LEMMA ClockAverage ==
    ASSUME IInv, ClockInv, NEW flooding \in SUBSET Client, UpdateAverageRates(flooding)
    PROVE  ClockInv'
<1> DEFINE on(d) == player[d].connected /\ d \notin flooding
<1>1. \A d \in Client : on(d) \in BOOLEAN
  BY Zenon
<1>2. player' = [d \in Client |-> [player[d] EXCEPT !.connected = on(d)]]
  BY Zenon DEF UpdateAverageRates
<1> HIDE DEF on
<1>3. /\ player' \in [Client -> [lastcmd : Cmd, svtimebase : Int, connected : BOOLEAN]]
      /\ \A d \in Client : player'[d].svtimebase = player[d].svtimebase
  BY <1>1, <1>2 DEF ClockInv
<1>4. last' = last /\ net_drop' = net_drop /\ outgoing' = outgoing /\ up' = up
  BY DEF UpdateAverageRates, NextTicks, client
<1> QED
  BY <1>3, <1>4, ClockKept DEF ClockInv

LEMMA ClockHeld == ASSUME IInv, ClockInv, ToggleHeld \/ UNCHANGED vars PROVE ClockInv'
<1>1. player' = player /\ last' = last /\ net_drop' = net_drop /\ outgoing' = outgoing /\ up' = up
  BY DEF ToggleHeld, vars, client, history
<1> QED
  BY <1>1, ClockKept DEF ClockInv

LEMMA ClockStep == ASSUME IInv, ClockInv, [Next]_vars PROVE ClockInv'
<1>1. CASE \E c \in Client : \E m \in up[c] : ReadMove(c, m)
  <2>1. PICK c \in Client : \E m \in up[c] : ReadMove(c, m)
    BY <1>1
  <2>2. PICK m \in up[c] : ReadMove(c, m)
    BY <2>1
  <2>3. CASE RefuseTooMany(c, m) \/ RefuseFlood(c, m)
    BY <2>3, ClockRefused
  <2>4. CASE \E ignore \in BOOLEAN : \E abusive, drop : ParseMove(c, m, ignore, abusive, drop)
    BY <2>4, ClockParseMove
  <2> QED
    BY <2>2, <2>3, <2>4 DEF ReadMove
<1> QED
  BY <1>1, ClockMakeCommand, ClockSendMove, ClockFrame, ClockAverage, ClockHeld DEF Next

-----------------------------------------------------------------------------
(* The ticks of a frame                                                    *)

(* What a packet may add beyond the ticks after its player was dropped: all *)
(* it holds from the network.                                               *)
AfterDrop(c) == IF player[c].connected THEN 0 ELSE CMD_MAXBACKUP - 2

(* The ticks count what was run in the frame but for that.                  *)
TicksInv == \A c \in Client : frameRan[c] <= ticks[c] + AfterDrop(c)

LEMMA TicksTypes ==
    ASSUME IInv, ClockInv, NEW c \in Client
    PROVE  /\ frameRan[c] \in Nat /\ ticks[c] \in Nat /\ ticks[c] <= MaxTicks + 1
           /\ AfterDrop(c) \in Nat /\ AfterDrop(c) <= CMD_MAXBACKUP - 2
           /\ player[c].connected \in BOOLEAN
<1>1. MaxTicks \in Nat /\ CMD_MAXBACKUP \in Nat /\ CMD_MAXBACKUP - 2 \in Nat
  BY MovesAssumption
<1>2. player[c].connected \in BOOLEAN
  BY DEF ClockInv
<1>3. frameRan[c] \in Nat /\ ticks[c] \in 0 .. MaxTicks + 1
  BY DEF IInv, MTypes
<1> QED
  BY <1>1, <1>2, <1>3 DEF AfterDrop

LEMMA TicksInit == Init => TicksInv
BY MovesAssumption DEF Init, TicksInv, AfterDrop

(* Nothing is run, and nobody comes back.                                   *)
LEMMA TicksKept ==
    ASSUME IInv, ClockInv, TicksInv, IInv', ClockInv',
           frameRan' = frameRan, ticks' = ticks,
           \A d \in Client : player'[d].connected => player[d].connected
    PROVE  TicksInv'
<1> SUFFICES ASSUME NEW d \in Client PROVE frameRan'[d] <= ticks'[d] + AfterDrop(d)'
  BY DEF TicksInv
<1>1. frameRan[d] \in Nat /\ ticks[d] \in Nat /\ AfterDrop(d) \in Nat
  BY TicksTypes
<1>2. AfterDrop(d)' \in Nat /\ AfterDrop(d) <= AfterDrop(d)'
  <2>1. CMD_MAXBACKUP - 2 \in Nat
    BY MovesAssumption
  <2> QED
    BY <2>1 DEF AfterDrop
<1>3. frameRan[d] <= ticks[d] + AfterDrop(d)
  BY DEF TicksInv
<1> QED
  BY <1>1, <1>2, <1>3

LEMMA TicksRefused ==
    ASSUME IInv, ClockInv, TicksInv, IInv', ClockInv', NEW c \in Client, NEW m \in up[c],
           RefuseTooMany(c, m) \/ RefuseFlood(c, m)
    PROVE  TicksInv'
<1>1. Drop(c) /\ frameRan' = frameRan /\ ticks' = ticks
  BY DEF RefuseTooMany, RefuseFlood, limits, history
<1>2. \A d \in Client : player'[d].connected => player[d].connected
  BY <1>1 DEF Drop, ClockInv
<1> QED
  BY <1>1, <1>2, TicksKept

(* What a packet adds to the commands run is added to the ticks, but for    *)
(* what follows the command its player is dropped at.                       *)
LEMMA TicksParseMove ==
    ASSUME IInv, ClockInv, TicksInv, IInv', ClockInv', NEW c \in Client, NEW m \in up[c],
           NEW ignore \in BOOLEAN, NEW abusive, NEW drop,
           ParseMove(c, m, ignore, abusive, drop)
    PROVE  TicksInv'
<1>1. PICK all, n : all = Commands(c, m) /\ n = Number(c, m)
  OBVIOUS
<1>2. PICK until \in 0 .. n : until = (IF drop = 0 THEN Len(all) ELSE drop)
                              /\ (until # n => drop # 0)
  BY <1>1, DropsWithin DEF IInv, Until
<1>3. PICK list : list = Results(c, all, ignore, abusive, until)
  OBVIOUS
<1>4. PICK ran \in Nat, after \in Nat, held_by \in Nat :
         /\ ran = Cardinality(RanNet(list)) /\ after = TicksAfter(c, all, ignore, until)
         /\ held_by = m.numcmds + m.numbackup
         /\ ticks[c] + ran <= after + IF until = n THEN 0 ELSE held_by
  <2>1. WhatRuns(c, m, ignore, until, all, list, n)
    BY <1>1, <1>3, RunOfPacket DEF IInv
  <2>2. m.numcmds \in Nat /\ m.numbackup \in Nat /\ MaxTicks \in Nat
    BY MovesAssumption DEF IInv, MTypes, Packet
  <2>3. TicksAfter(c, all, ignore, until) \in Nat
    BY <2>1, <2>2 DEF WhatRuns
  <2> QED
    BY <2>1, <2>2, <2>3 DEF WhatRuns
<1>5. /\ frameRan' = [frameRan EXCEPT ![c] = @ + ran]
      /\ ticks' = [ticks EXCEPT ![c] = after]
      /\ player'[c].connected = (drop = 0)
      /\ \A d \in Client \ {c} : player'[d] = player[d]
      /\ player[c].connected /\ ~TooMany(m)
  BY <1>1, <1>2, <1>3, <1>4 DEF ParseMove, Read, ClockInv
<1>6. ASSUME NEW d \in Client \ {c} PROVE frameRan'[d] <= ticks'[d] + AfterDrop(d)'
  <2>1. frameRan'[d] = frameRan[d] /\ ticks'[d] = ticks[d] /\ AfterDrop(d)' = AfterDrop(d)
    BY <1>5 DEF IInv, MTypes, AfterDrop
  <2> QED
    BY <2>1 DEF TicksInv
<1>7. frameRan'[c] <= ticks'[c] + AfterDrop(c)'
  <2>1. frameRan'[c] = frameRan[c] + ran /\ ticks'[c] = after
    BY <1>5 DEF IInv, MTypes
  <2>2. frameRan[c] <= ticks[c] /\ frameRan[c] \in Nat /\ ticks[c] \in Nat
    <3>1. AfterDrop(c) = 0
      BY <1>5 DEF AfterDrop
    <3> QED
      BY <3>1, TicksTypes DEF TicksInv
  <2>3. PICK max \in Nat : max = CMD_MAXBACKUP /\ held_by <= max - 2 /\ max - 2 >= 0
    BY <1>4, <1>5, MovesAssumption DEF TooMany
  <2>4. CASE until = n
    <3>1. AfterDrop(c)' \in Nat
      BY <2>3 DEF AfterDrop
    <3> QED
      BY <1>4, <2>1, <2>2, <2>4, <3>1
  <2>5. CASE until # n
    <3>1. AfterDrop(c)' = max - 2
      BY <1>2, <1>5, <2>3, <2>5 DEF AfterDrop
    <3> QED
      BY <1>4, <2>1, <2>2, <2>3, <2>5, <3>1
  <2> QED
    BY <2>4, <2>5
<1> QED
  BY <1>6, <1>7 DEF TicksInv

LEMMA TicksAnew == ASSUME NextTicks PROVE TicksInv'
<1> SUFFICES ASSUME NEW d \in Client PROVE frameRan'[d] <= ticks'[d] + AfterDrop(d)'
  BY DEF TicksInv
<1>1. frameRan'[d] = 0 /\ ticks'[d] = 0
  BY DEF NextTicks
<1>2. AfterDrop(d)' \in Nat
  <2>1. CMD_MAXBACKUP - 2 \in Nat
    BY MovesAssumption
  <2> QED
    BY <2>1 DEF AfterDrop
<1> QED
  BY <1>1, <1>2

LEMMA TicksStep ==
    ASSUME IInv, ClockInv, TicksInv, IInv', ClockInv', [Next]_vars PROVE TicksInv'
<1>1. CASE \E c \in Client : \E m \in up[c] : ReadMove(c, m)
  <2>1. PICK c \in Client : \E m \in up[c] : ReadMove(c, m)
    BY <1>1
  <2>2. PICK m \in up[c] : ReadMove(c, m)
    BY <2>1
  <2>3. CASE RefuseTooMany(c, m) \/ RefuseFlood(c, m)
    BY <2>3, TicksRefused
  <2>4. CASE \E ignore \in BOOLEAN : \E abusive, drop : ParseMove(c, m, ignore, abusive, drop)
    BY <2>4, TicksParseMove
  <2> QED
    BY <2>2, <2>3, <2>4 DEF ReadMove
<1>2. CASE NextTicks
  BY <1>2, TicksAnew
<1>3. CASE player' = player /\ frameRan' = frameRan /\ ticks' = ticks
  BY <1>3, TicksKept
<1> QED
  BY <1>1, <1>2, <1>3
     DEF Next, MakeCommand, SendMove, Frame, UpdateAverageRates, ToggleHeld, vars, limits, history

(* CheckLimits lets a connected player have at most one command more than   *)
(* sv_rehlds_movecmd_max_ticks run in a frame; one dropped in the middle of *)
(* a packet has at most the rest of that packet run besides.                *)
THEOREM TicksAreBounded == Spec => []TicksBounded
<1>1. Init => ClockInv /\ TicksInv
  BY ClockInit, TicksInit
<1>2. IInv /\ ClockInv /\ [Next]_vars => ClockInv'
  BY ClockStep
<1>3. IInv /\ IInv' /\ ClockInv /\ ClockInv' /\ TicksInv /\ [Next]_vars => TicksInv'
  BY TicksStep
<1>4. IInv /\ ClockInv /\ TicksInv => TicksBounded
  <2> SUFFICES ASSUME IInv, ClockInv, TicksInv, NEW c \in Client
               PROVE  frameRan[c] <= MaxTicks + 1 + AfterDrop(c)
    BY DEF TicksBounded, AfterDrop
  <2>1. MaxTicks \in Nat
    BY MovesAssumption
  <2> QED
    BY <2>1, TicksTypes DEF TicksInv
<1> QED
  BY <1>1, <1>2, <1>3, <1>4, MovesInvariant, PTL DEF Spec

(* The variables keep their types; the base SV_EstablishTimeBase computes   *)
(* ahead of the runs, with what is added for those that happen, is short of *)
(* the server's present by just what is refused; and no frame runs more     *)
(* commands of a player than one above sv_rehlds_movecmd_max_ticks.         *)
THEOREM ClocksMeet == Spec => []MovesInv
<1>1. Init => ClockInv
  BY ClockInit
<1>2. IInv /\ ClockInv /\ [Next]_vars => ClockInv'
  BY ClockStep
<1>3. IInv /\ ClockInv /\ TicksBounded => MovesInv
  <2> SUFFICES ASSUME IInv, ClockInv, TicksBounded PROVE MovesInv
    OBVIOUS
  <2>1. TypeOK
    BY DEF IInv, ClockInv, MTypes, PacketsInv, TypeOK
  <2> QED
    BY <2>1 DEF ClockInv, MovesInv
<1> QED
  BY <1>1, <1>2, <1>3, MovesInvariant, TicksAreBounded, PTL DEF Spec
=============================================================================
