--------------------------- MODULE ClientsProofs ---------------------------
(***************************************************************************)
(* Who gets in, and what becomes of him: what Connectionless and Session   *)
(* promise, for every set of addresses, of users and of players, every     *)
(* number of slots and of levels, every limit and every time that their    *)
(* assumptions allow.                                                      *)
(*                                                                         *)
(* Rcon: an entry in use holds the end of what its address failed at, no   *)
(* two entries are of one address, and who lost his entry lost it to       *)
(* others that failed later (RemoteInv).  Queries: what passed in the      *)
(* time of a window is of the window that is counted or of the one before  *)
(* it, and the first of a window has closed the one before (QueriesInv).   *)
(* Bans: each array holds each filter once, with the end last asked for,   *)
(* and every one that was asked for and is not over (BansInv).             *)
(*                                                                         *)
(* Sessions: what is promised holds slot by slot, so the inductive         *)
(* invariant is a predicate of one slot's record, SlotInv, and there is    *)
(* one lemma for each handler: it keeps a Client a Client that satisfies   *)
(* SlotInv.                                                                *)
(***************************************************************************)
EXTENDS Connectionless, Session, Sequences, FiniteSetTheorems, NaturalsInduction,
        WellFoundedInduction, TLAPS

(***************************************************************************)
(* Rcon                                                                    *)
(***************************************************************************)

RconEntry == [active : BOOLEAN, shouldreject : BOOLEAN, adr : Addresses \cup {Nobody},
              failure_times : Seq(Nat), last_update : Nat]

Ascending(s) == \A i, j \in 1 .. Len(s) : i <= j => s[i] <= s[j]

\* s is the end of t.
EndOf(s, t) ==
    /\ Len(s) <= Len(t)
    /\ \A j \in Nat : j < Len(s) => s[Len(s) - j] = t[Len(t) - j]

\* What an entry in use knows of its address.
EntryRight(r) ==
    /\ r.adr \in Addresses
    /\ Len(r.failure_times) >= 1
    /\ EndOf(r.failure_times, failed[r.adr])
    /\ r.last_update = failed[r.adr][Len(failed[r.adr])]
    /\ Len(known[r.adr]) <= Len(r.failure_times) \/ Len(r.failure_times) = sv_rcon_maxfailures
    /\ r.shouldreject => r.adr \in mayReject
    /\ r.adr \in mustReject => r.shouldreject

\* The entries in use come first, and no two are of one address.
TableInOrder ==
    /\ \A i \in Remote!Place : ~g_rgRconFailures[i].active => g_rgRconFailures[i] = Remote!Unused
    /\ \A i, j \in Remote!Place :
        j < i /\ g_rgRconFailures[i].active => g_rgRconFailures[j].active
    /\ \A i, j \in Remote!Place :
        /\ g_rgRconFailures[i].active /\ g_rgRconFailures[j].active
        /\ g_rgRconFailures[i].adr = g_rgRconFailures[j].adr
        => i = j

EntriesRight ==
    \A i \in Remote!Place : g_rgRconFailures[i].active => EntryRight(g_rgRconFailures[i])

FailuresInOrder ==
    \A adr \in Addresses :
        /\ Ascending(failed[adr])
        /\ \A i \in 1 .. Len(failed[adr]) : failed[adr][i] <= seconds
        /\ EndOf(known[adr], failed[adr])
        /\ adr \in mustReject => Len(failed[adr]) >= 1

HasEntry(adr) ==
    \E i \in Remote!Place : g_rgRconFailures[i].active /\ g_rgRconFailures[i].adr = adr

\* Who failed and has no entry lost it to others that failed later.
OthersSince ==
    \A adr \in Addresses :
        Len(failed[adr]) >= 1 /\ ~HasEntry(adr) =>
            \A i \in Remote!Place :
                /\ g_rgRconFailures[i].active
                /\ g_rgRconFailures[i].last_update >= failed[adr][Len(failed[adr])]

RemoteInv ==
    /\ Remote!TypeOK
    /\ TableInOrder
    /\ EntriesRight
    /\ FailuresInOrder
    /\ OthersSince

-----------------------------------------------------------------------------

LEMMA RconConstants ==
    /\ IsFiniteSet(Addresses) /\ Nobody \notin Addresses
    /\ MAX_RCON_FAILURES_STORAGE \in Nat /\ MAX_RCON_FAILURES_STORAGE >= 1
    /\ sv_rcon_minfailures \in Nat /\ sv_rcon_minfailures >= 1
    /\ sv_rcon_maxfailures \in Nat /\ sv_rcon_maxfailures >= sv_rcon_minfailures
    /\ sv_rcon_minfailuretime \in Nat
    /\ MaxSeconds \in Nat /\ MaxAttempts \in Nat
<1>1. \A S : Remote!IsFiniteSet(S) = IsFiniteSet(S)
  BY Zenon DEF Remote!IsFiniteSet, IsFiniteSet
<1>2. Remote!IsFiniteSet(Addresses)
  BY RemoteAssumption DEF Remote!RconAssumption
<1>3. IsFiniteSet(Addresses)
  BY <1>1, <1>2
<1> QED
  BY <1>3, RemoteAssumption DEF Remote!RconAssumption

LEMMA RemoteCardinality == \A S : Remote!Cardinality(S) = Cardinality(S)
  BY Zenon DEF Remote!Cardinality, Cardinality

\* How many of ascending times are recent can be told from one of them.
LEMMA RecentIff ==
    ASSUME NEW s \in Seq(Nat), Ascending(s), NEW m \in Nat, m >= 1, seconds \in Nat
    PROVE  /\ Remote!Recent(s) \in Nat
           /\ Remote!Recent(s) >= m <=>
                Len(s) >= m /\ seconds - s[Len(s) - (m - 1)] <= sv_rcon_minfailuretime
<1> DEFINE R == {i \in DOMAIN s : seconds - s[i] <= sv_rcon_minfailuretime}
           n == Len(s)
<1>0. n \in Nat /\ DOMAIN s = 1 .. n /\ \A i \in 1 .. n : s[i] \in Nat
  OBVIOUS
<1>1. Remote!Recent(s) = Cardinality(R)
  BY RemoteCardinality DEF Remote!Recent
<1>2. R \subseteq 1 .. n
  BY <1>0
<1>3. IsFiniteSet(1 .. n) /\ Cardinality(1 .. n) = n
  BY <1>0, FS_Interval
<1>4. IsFiniteSet(R) /\ Cardinality(R) \in Nat /\ Cardinality(R) <= n
  BY <1>2, <1>3, FS_Subset, FS_CardinalityType
<1>5. ASSUME n >= m, seconds - s[n - (m - 1)] <= sv_rcon_minfailuretime
      PROVE  Cardinality(R) >= m
  <2>1. IsFiniteSet((n - (m - 1)) .. n) /\ Cardinality((n - (m - 1)) .. n) = m
    <3>1. n - (m - 1) \in Int /\ n \in Int /\ n - (m - 1) <= n
      BY <1>0, <1>5
    <3>2. n - (n - (m - 1)) + 1 = m
      BY <1>0
    <3> QED
      BY <3>1, <3>2, FS_Interval
  <2>2. (n - (m - 1)) .. n \subseteq R
    <3> SUFFICES ASSUME NEW i \in (n - (m - 1)) .. n PROVE i \in R
      OBVIOUS
    <3>1. i \in 1 .. n /\ n - (m - 1) \in 1 .. n /\ n - (m - 1) <= i
      BY <1>0, <1>5
    <3>2. s[n - (m - 1)] <= s[i]
      BY <3>1 DEF Ascending
    <3>3. s[n - (m - 1)] \in Nat /\ s[i] \in Nat /\ seconds - s[i] <= sv_rcon_minfailuretime
      BY SMTT(30), <3>1, <3>2, <1>0, <1>5, RconConstants
    <3> QED
      BY <3>1, <3>3, <1>0
  <2> QED
    BY SMTT(30), <2>1, <2>2, <1>4, FS_Subset
<1>6. ASSUME Cardinality(R) >= m
      PROVE  n >= m /\ seconds - s[n - (m - 1)] <= sv_rcon_minfailuretime
  <2>1. n >= m
    BY <1>4, <1>6, <1>0
  <2>2. ASSUME ~(seconds - s[n - (m - 1)] <= sv_rcon_minfailuretime) PROVE FALSE
    <3>1. \A i \in R : i \in (n - (m - 1) + 1) .. n
      <4> SUFFICES ASSUME NEW i \in R, ~(i > n - (m - 1)) PROVE FALSE
        BY <1>2, <1>0
      <4>1. i \in 1 .. n /\ n - (m - 1) \in 1 .. n /\ i <= n - (m - 1)
        BY <1>2, <1>0, <2>1
      <4>2. s[i] <= s[n - (m - 1)]
        BY <4>1 DEF Ascending
      <4>3. seconds - s[i] <= sv_rcon_minfailuretime
        OBVIOUS
      <4> QED
        BY <4>1, <4>2, <4>3, <2>2, <1>0, RconConstants
    <3>2. IsFiniteSet((n - (m - 1) + 1) .. n) /\ Cardinality((n - (m - 1) + 1) .. n) = m - 1
      <4>1. n - (m - 1) + 1 \in Int /\ n \in Int
        BY <1>0
      <4>2. CASE m = 1
        <5>1. (n - (m - 1) + 1) .. n = {}
          BY <4>2, <1>0
        <5> QED
          BY <5>1, <4>2, FS_EmptySet
      <4>3. CASE m > 1
        <5>1. n - (m - 1) + 1 <= n /\ n - (n - (m - 1) + 1) + 1 = m - 1
          BY <4>3, <1>0
        <5> QED
          BY <4>1, <5>1, FS_Interval
      <4> QED
        BY <4>2, <4>3
    <3>3. Cardinality(R) <= m - 1
      BY <3>1, <3>2, FS_Subset
    <3> QED
      BY <3>3, <1>4, <1>6
  <2> QED
    BY <2>1, <2>2
<1> QED
  BY <1>1, <1>4, <1>5, <1>6
LEMMA NatsHaveLeast ==
    ASSUME NEW S, S \subseteq Nat, S # {}
    PROVE  \E x \in S : \A y \in S : x <= y
<1>1. PICK x \in S : \A y \in S : <<y, x>> \notin OpToRel(<, Nat)
  BY NatLessThanWellFounded, WFMin
<1>2. ASSUME NEW y \in S PROVE x <= y
  <2>1. x \in Nat /\ y \in Nat /\ ~(y < x)
    BY <1>1 DEF OpToRel
  <2> QED
    BY <2>1
<1> QED
  BY <1>2

LEMMA FiniteNatsHaveGreatest ==
    ASSUME NEW n \in Nat, NEW S, S \subseteq 0 .. n, S # {}
    PROVE  \E x \in S : \A y \in S : x >= y
<1> DEFINE D == {n - x : x \in S}
<1>1. D \subseteq Nat /\ D # {}
  <2>1. \A x \in S : x \in Int /\ 0 <= x /\ x <= n
    OBVIOUS
  <2>2. \A x \in S : n - x \in Nat
    BY <2>1
  <2> QED
    BY <2>2
<1>2. PICK d \in D : \A e \in D : d <= e
  BY <1>1, NatsHaveLeast
<1>3. PICK x \in S : d = n - x
  BY <1>2
<1>4. \A y \in S : x >= y
  <2> SUFFICES ASSUME NEW y \in S PROVE x >= y
    OBVIOUS
  <2>1. n - y \in D
    OBVIOUS
  <2>2. n - x <= n - y
    BY <2>1, <1>2, <1>3
  <2> QED
    BY <2>2
<1> QED
  BY <1>4

\* The place a failure is put at is the address's own, or a free one, or one
\* of those not used for longest, and the latter only when all are taken.
LEMMA PlaceForIs ==
    ASSUME NEW adr \in Addresses, Remote!TypeOK, TableInOrder
    PROVE  /\ Remote!PlaceFor(adr) \in Remote!Place
           /\ g_rgRconFailures[Remote!PlaceFor(adr)].active
                /\ g_rgRconFailures[Remote!PlaceFor(adr)].adr # adr
              => \A j \in Remote!Place :
                    /\ g_rgRconFailures[j].active
                    /\ g_rgRconFailures[Remote!PlaceFor(adr)].last_update
                            <= g_rgRconFailures[j].last_update
           /\ \A j \in Remote!Place :
                j < Remote!PlaceFor(adr) => g_rgRconFailures[j].active
           /\ HasEntry(adr) => /\ g_rgRconFailures[Remote!PlaceFor(adr)].active
                               /\ g_rgRconFailures[Remote!PlaceFor(adr)].adr = adr
<1> DEFINE g == g_rgRconFailures
           Stops == {i \in Remote!Place : ~g[i].active \/ g[i].adr = adr}
           Oldest == {i \in Remote!Place : \A j \in Remote!Place :
                        g[i].last_update <= g[j].last_update}
           P == Remote!PlaceFor(adr)
<1>0. Remote!Place = 1 .. MAX_RCON_FAILURES_STORAGE /\ MAX_RCON_FAILURES_STORAGE \in Nat \ {0}
  BY RconConstants DEF Remote!Place
<1>1. CASE Stops # {}
  <2>1. P = CHOOSE x \in Stops : \A y \in Stops : x <= y
    BY <1>1 DEF Remote!PlaceFor, Remote!Min
  <2>2. \E x \in Stops : \A y \in Stops : x <= y
    <3>1. Stops \subseteq Nat
      BY <1>0
    <3> HIDE DEF Stops
    <3> QED
      BY <3>1, <1>1, NatsHaveLeast
  <2>3. P \in Stops /\ \A y \in Stops : P <= y
    BY <2>1, <2>2
  <2>4. \A j \in Remote!Place : j < P => g[j].active /\ g[j].adr # adr
    BY <2>3, <1>0
  <2>5. ASSUME HasEntry(adr) PROVE g[P].active /\ g[P].adr = adr
    <3>1. PICK k \in Remote!Place : g[k].active /\ g[k].adr = adr
      BY <2>5 DEF HasEntry
    <3>2. P \in Remote!Place /\ P <= k
      BY <3>1, <2>3
    <3>3. g[P].active
      BY <3>1, <3>2, <1>0 DEF TableInOrder
    <3> QED
      BY <2>3, <3>3
  <2> QED
    BY <2>3, <2>4, <2>5
<1>2. CASE Stops = {}
  <2> DEFINE Times == {g[i].last_update : i \in Remote!Place}
  <2>1. P = CHOOSE x \in Oldest : \A y \in Oldest : x >= y
    BY <1>2 DEF Remote!PlaceFor, Remote!Max
  <2>2. Times \subseteq Nat /\ Times # {}
    BY <1>0 DEF Remote!TypeOK
  <2>3. PICK t \in Times : \A u \in Times : t <= u
    BY <2>2, NatsHaveLeast
  <2>4. Oldest # {}
    BY <2>3
  <2>5. Oldest \subseteq 0 .. MAX_RCON_FAILURES_STORAGE
    BY <1>0
  <2>6. \E x \in Oldest : \A y \in Oldest : x >= y
    BY <2>4, <2>5, <1>0, FiniteNatsHaveGreatest
  <2>7. P \in Oldest
    BY <2>1, <2>6
  <2>8. \A j \in Remote!Place : g[j].active /\ g[j].adr # adr
    BY <1>2
  <2>9. ~HasEntry(adr)
    BY <2>8 DEF HasEntry
  <2> QED
    BY <2>7, <2>8, <2>9
<1> QED
  BY <1>1, <1>2

LEMMA EntryOfType ==
    ASSUME NEW r \in RconEntry, NEW adr \in Addresses, Len(r.failure_times) <= sv_rcon_maxfailures
    PROVE  /\ Remote!EntryOf(r, adr) \in RconEntry
           /\ Remote!EntryOf(r, adr).adr = adr
           /\ Len(Remote!EntryOf(r, adr).failure_times) <= sv_rcon_maxfailures
           /\ r.active /\ r.adr = adr => Remote!EntryOf(r, adr) = r
           /\ ~(r.active /\ r.adr = adr) =>
                Remote!EntryOf(r, adr).failure_times = <<>> /\ ~Remote!EntryOf(r, adr).shouldreject
<1> DEFINE e == Remote!EntryOf(r, adr)
<1>1. CASE r.active /\ r.adr = adr
  <2>1. e = r
    BY <1>1 DEF Remote!EntryOf
  <2> QED
    BY <2>1, <1>1
<1>2. CASE ~(r.active /\ r.adr = adr)
  <2>1. e = [active |-> FALSE, shouldreject |-> FALSE, adr |-> adr,
             failure_times |-> <<>>, last_update |-> 0]
    BY <1>2 DEF Remote!EntryOf, Remote!Unused
  <2>2. <<>> \in Seq(Nat) /\ Len(<<>>) = 0
    OBVIOUS
  <2> HIDE DEF e
  <2>3. e \in RconEntry /\ e.adr = adr /\ e.failure_times = <<>> /\ ~e.shouldreject
    BY <2>1, <2>2 DEF RconEntry
  <2>4. 0 <= sv_rcon_maxfailures
    BY RconConstants
  <2> QED
    BY <2>2, <2>3, <2>4, <1>2 DEF e
<1> QED
  BY <1>1, <1>2

\* What a failure makes of an entry.
LEMMA FailureIs ==
    ASSUME NEW r \in RconEntry, Len(r.failure_times) <= sv_rcon_maxfailures, seconds \in Nat
    PROVE  LET q == Remote!Failure(r)
               t == r.failure_times
               u == q.failure_times
           IN  /\ q \in RconEntry /\ q.active /\ q.adr = r.adr /\ q.last_update = seconds
               /\ q.shouldreject <=> Remote!Recent(u) >= sv_rcon_minfailures
               /\ u \in Seq(Nat)
               /\ Len(u) = IF Len(t) = sv_rcon_maxfailures THEN Len(t) ELSE Len(t) + 1
               /\ u[Len(u)] = seconds
               /\ \A j \in Nat : j >= 1 /\ j < Len(u) => u[Len(u) - j] = t[Len(t) - (j - 1)]
<1> DEFINE t == r.failure_times
           kept == IF Len(t) >= sv_rcon_maxfailures
                   THEN Tail(SubSeq(t, 1, sv_rcon_maxfailures)) ELSE t
           u == Append(kept, seconds)
           q == Remote!Failure(r)
<1>0. t \in Seq(Nat) /\ Len(t) \in Nat /\ \A i \in 1 .. Len(t) : t[i] \in Nat
  BY DEF RconEntry
<1>1. q = [r EXCEPT !.active = TRUE, !.last_update = seconds, !.failure_times = u,
                    !.shouldreject = Remote!Recent(u) >= sv_rcon_minfailures]
  BY DEF Remote!Failure
<1>2. /\ kept \in Seq(Nat)
      /\ Len(kept) = IF Len(t) = sv_rcon_maxfailures THEN Len(t) - 1 ELSE Len(t)
      /\ \A j \in Nat : j < Len(kept) => kept[Len(kept) - j] = t[Len(t) - j]
  <2>1. CASE Len(t) = sv_rcon_maxfailures
    <3>1. SubSeq(t, 1, sv_rcon_maxfailures) = t
      BY <2>1, <1>0
    <3>2. kept = Tail(t) /\ t # <<>>
      BY SMTT(30), <3>1, <2>1, <1>0, RconConstants
    <3>3. /\ Tail(t) \in Seq(Nat) /\ Len(Tail(t)) = Len(t) - 1
          /\ \A i \in 1 .. Len(t) - 1 : Tail(t)[i] = t[i + 1]
      BY <3>2, <1>0
    <3>4. ASSUME NEW j \in Nat, j < Len(kept) PROVE kept[Len(kept) - j] = t[Len(t) - j]
      <4>0. Len(kept) = Len(t) - 1
        BY <3>2, <3>3
      <4> HIDE DEF t, kept
      <4>1. Len(t) - 1 - j \in 1 .. Len(t) - 1 /\ (Len(t) - 1 - j) + 1 = Len(t) - j
        BY <4>0, <3>4, <1>0
      <4> QED
        BY <4>0, <4>1, <3>3, <3>2
    <3> QED
      BY <3>2, <3>3, <3>4, <2>1
  <2>2. CASE Len(t) # sv_rcon_maxfailures
    <3>1. kept = t
      BY <2>2, <1>0, RconConstants
    <3> QED
      BY <3>1, <2>2, <1>0
  <2> QED
    BY <2>1, <2>2
<1> HIDE DEF kept
<1>3. /\ u \in Seq(Nat) /\ Len(u) = Len(kept) + 1 /\ u[Len(u)] = seconds
      /\ \A i \in 1 .. Len(kept) : u[i] = kept[i]
  BY <1>2
<1>4. ASSUME NEW j \in Nat, j >= 1, j < Len(u) PROVE u[Len(u) - j] = t[Len(t) - (j - 1)]
  <2>1. Len(kept) \in Nat /\ Len(u) - j \in 1 .. Len(kept) /\ Len(u) - j = Len(kept) - (j - 1)
    BY <1>2, <1>3, <1>4
  <2>2. j - 1 \in Nat /\ j - 1 < Len(kept)
    BY <2>1
  <2>3. kept[Len(kept) - (j - 1)] = t[Len(t) - (j - 1)]
    BY <2>2, <1>2
  <2> QED
    BY <2>1, <2>3, <1>3
<1> HIDE DEF u
<1>5. q \in RconEntry /\ q.active /\ q.adr = r.adr /\ q.last_update = seconds
      /\ (q.shouldreject <=> Remote!Recent(u) >= sv_rcon_minfailures) /\ q.failure_times = u
  <2>1. (Remote!Recent(u) >= sv_rcon_minfailures) \in BOOLEAN
    OBVIOUS
  <2> HIDE DEF q
  <2> QED
    BY <1>1, <1>3, <2>1 DEF RconEntry
<1>6. Len(u) = IF Len(t) = sv_rcon_maxfailures THEN Len(t) ELSE Len(t) + 1
  BY <1>2, <1>3, <1>0, RconConstants
<1> HIDE DEF q, t
<1> QED
  BY <1>3, <1>4, <1>5, <1>6 DEF q, t

LEMMA EndAscends ==
    ASSUME NEW s \in Seq(Nat), NEW t \in Seq(Nat), EndOf(s, t), Ascending(t)
    PROVE  Ascending(s)
<1> SUFFICES ASSUME NEW i \in 1 .. Len(s), NEW j \in 1 .. Len(s), i <= j PROVE s[i] <= s[j]
  BY DEF Ascending
<1> DEFINE d == Len(t) - Len(s)
<1>1. Len(s) \in Nat /\ Len(t) \in Nat /\ d \in Nat
  BY DEF EndOf
<1>2. ASSUME NEW k \in 1 .. Len(s) PROVE s[k] = t[k + d] /\ k + d \in 1 .. Len(t)
  <2>1. Len(s) - k \in Nat /\ Len(s) - k < Len(s)
    BY <1>1
  <2>2. s[Len(s) - (Len(s) - k)] = t[Len(t) - (Len(s) - k)]
    BY <2>1 DEF EndOf
  <2>3. Len(s) - (Len(s) - k) = k /\ Len(t) - (Len(s) - k) = k + d
    BY <1>1
  <2> QED
    BY <2>2, <2>3, <1>1
<1>3. i + d <= j + d
  BY <1>1
<1> QED
  BY <1>2, <1>3 DEF Ascending

\* Whoever failed and has no entry may be forgotten: the entries are of as many
\* others, each of which failed later.
LEMMA WithoutEntryForgettable ==
    ASSUME RemoteInv, NEW adr \in Addresses, Len(failed[adr]) >= 1, ~HasEntry(adr)
    PROVE  Remote!Forgettable(adr)
<1> DEFINE g == g_rgRconFailures
           Others == {other \in Addresses \ {adr} :
                        /\ failed[other] # <<>>
                        /\ Remote!Last(failed[other]) >= Remote!Last(failed[adr])}
           f == [i \in Remote!Place |-> g[i].adr]
<1>1. \A i \in Remote!Place :
        g[i].active /\ g[i].last_update >= failed[adr][Len(failed[adr])]
  BY DEF RemoteInv, OthersSince
<1>2. ASSUME NEW i \in Remote!Place PROVE f[i] \in Others
  <2>1. EntryRight(g[i])
    BY <1>1 DEF RemoteInv, EntriesRight
  <2>2. g[i].adr # adr
    BY <1>1 DEF HasEntry
  <2>3. /\ g[i].adr \in Addresses
        /\ g[i].last_update = failed[g[i].adr][Len(failed[g[i].adr])]
        /\ Len(g[i].failure_times) >= 1 /\ Len(g[i].failure_times) <= Len(failed[g[i].adr])
    BY <2>1 DEF EntryRight, EndOf
  <2>4. Len(g[i].failure_times) \in Nat /\ Len(failed[g[i].adr]) \in Nat
    BY SMTT(30), <2>3 DEF RemoteInv, Remote!TypeOK
  <2>5. failed[g[i].adr] # <<>>
    BY <2>3, <2>4
  <2> QED
    BY <2>2, <2>3, <2>5, <1>1 DEF Remote!Last
<1>3. f \in Injection(Remote!Place, Others)
  <2>1. f \in [Remote!Place -> Others]
    BY <1>2
  <2>2. \A i, j \in Remote!Place : f[i] = f[j] => i = j
    BY <1>1 DEF RemoteInv, TableInOrder
  <2> QED
    BY <2>1, <2>2 DEF Injection, IsInjective
<1>4. /\ IsFiniteSet(Remote!Place) /\ Cardinality(Remote!Place) = MAX_RCON_FAILURES_STORAGE
  <2>1. Remote!Place = 1 .. MAX_RCON_FAILURES_STORAGE
    BY DEF Remote!Place
  <2> QED
    BY <2>1, RconConstants, FS_Interval
<1>5. IsFiniteSet(Others)
  BY RconConstants, FS_Subset
<1>6. Cardinality(Remote!Place) <= Cardinality(Others)
  <2> HIDE DEF Others, f
  <2> QED
    BY <1>3, <1>4, <1>5, FS_Injection
<1> QED
  BY <1>4, <1>6, RemoteCardinality DEF Remote!Forgettable

\* SV_AddFailedRcon keeps the invariant.
LEMMA AddFailedKeeps ==
    ASSUME RemoteInv, NEW adr \in Addresses, Remote!SV_AddFailedRcon(adr), seconds' = seconds,
           bansAsked' \subseteq Addresses, attempts' \in 0 .. MaxAttempts
    PROVE  RemoteInv'
<1> DEFINE g == g_rgRconFailures
           P == Remote!PlaceFor(adr)
           r == Remote!EntryOf(g[P], adr)
           q == Remote!Failure(r)
           F == failed[adr]
           K == known[adr]
           all == Append(F, seconds)
           lately == IF F = <<>> \/ Remote!Forgettable(adr) THEN <<seconds>> ELSE Append(K, seconds)
<1> USE RemoteInv
<1>1. CASE r.shouldreject
  <2>1. UNCHANGED <<g_rgRconFailures, failed, known, mayReject, mustReject>>
    BY <1>1 DEF Remote!SV_AddFailedRcon, Remote!history
  <2> QED
    BY <2>1 DEF RemoteInv, Remote!TypeOK, TableInOrder, EntriesRight, EntryRight, FailuresInOrder,
                OthersSince, HasEntry
<1>2. CASE ~r.shouldreject
  <2>1. /\ g_rgRconFailures' = [g EXCEPT ![P] = q]
        /\ failed' = [failed EXCEPT ![adr] = all]
        /\ known' = [known EXCEPT ![adr] = lately]
        /\ mayReject' = Remote!Judged(mayReject, adr, all)
        /\ mustReject' = Remote!Judged(mustReject, adr, lately)
    BY <1>2 DEF Remote!SV_AddFailedRcon
  <2>2. /\ P \in Remote!Place
        /\ g[P].active /\ g[P].adr # adr =>
                \A j \in Remote!Place : g[j].active /\ g[P].last_update <= g[j].last_update
        /\ \A j \in Remote!Place : j < P => g[j].active
        /\ HasEntry(adr) => g[P].active /\ g[P].adr = adr
    BY PlaceForIs DEF RemoteInv
  <2>3. /\ g \in [Remote!Place -> RconEntry]
        /\ \A i \in Remote!Place : Len(g[i].failure_times) <= sv_rcon_maxfailures
        /\ seconds \in Nat /\ seconds <= MaxSeconds /\ MaxSeconds \in Nat
        /\ F \in Seq(Nat) /\ K \in Seq(Nat)
    BY RconConstants DEF RemoteInv, Remote!TypeOK, RconEntry
  <2>4. /\ r \in RconEntry /\ r.adr = adr /\ Len(r.failure_times) <= sv_rcon_maxfailures
        /\ g[P].active /\ g[P].adr = adr => r = g[P]
        /\ ~(g[P].active /\ g[P].adr = adr) => r.failure_times = <<>>
    BY <2>2, <2>3, EntryOfType
  <2> DEFINE t == r.failure_times
             u == q.failure_times
  <2>5. /\ q \in RconEntry /\ q.active /\ q.adr = adr /\ q.last_update = seconds
        /\ q.shouldreject <=> Remote!Recent(u) >= sv_rcon_minfailures
        /\ u \in Seq(Nat)
        /\ Len(u) = IF Len(t) = sv_rcon_maxfailures THEN Len(t) ELSE Len(t) + 1
        /\ u[Len(u)] = seconds
        /\ \A j \in Nat : j >= 1 /\ j < Len(u) => u[Len(u) - j] = t[Len(t) - (j - 1)]
    BY <2>3, <2>4, FailureIs
  <2>6. /\ t \in Seq(Nat) /\ Len(t) \in Nat /\ Len(u) \in Nat /\ Len(F) \in Nat /\ Len(K) \in Nat
        /\ Len(t) <= sv_rcon_maxfailures
    BY SMTT(30), <2>3, <2>4, <2>5 DEF RconEntry
  <2>7. /\ all \in Seq(Nat) /\ Len(all) = Len(F) + 1 /\ all[Len(F) + 1] = seconds
        /\ \A i \in 1 .. Len(F) : all[i] = F[i]
    BY <2>3
  <2>8. /\ Ascending(F) /\ EndOf(K, F)
        /\ \A i \in 1 .. Len(F) : F[i] <= seconds /\ F[i] \in Nat
    BY <2>3 DEF RemoteInv, FailuresInOrder
  <2>9. /\ lately \in Seq(Nat) /\ Len(lately) >= 1 /\ lately[Len(lately)] = seconds
        /\ \/ lately = <<seconds>> /\ Len(lately) = 1
           \/ /\ Len(lately) = Len(K) + 1 /\ \A i \in 1 .. Len(K) : lately[i] = K[i]
              /\ F # <<>> /\ ~Remote!Forgettable(adr)
    BY <2>3
  <2> HIDE DEF P, r, q, t, u, F, K, all, lately
  <2>10. EndOf(u, all)
    <3>1. Len(u) <= Len(all)
      <4>1. CASE g[P].active /\ g[P].adr = adr
        <5>1. t = g[P].failure_times /\ EntryRight(g[P])
          BY <2>2, <2>4, <4>1 DEF RemoteInv, EntriesRight, t
        <5>2. Len(t) <= Len(F)
          BY <5>1, <4>1 DEF EntryRight, EndOf, F
        <5> QED
          BY <5>2, <2>5, <2>6, <2>7
      <4>2. CASE ~(g[P].active /\ g[P].adr = adr)
        <5>1. Len(t) = 0
          BY <2>4, <4>2 DEF t
        <5> QED
          BY <5>1, <2>5, <2>6, <2>7
      <4> QED
        BY <4>1, <4>2
    <3>2. ASSUME NEW j \in Nat, j < Len(u) PROVE u[Len(u) - j] = all[Len(all) - j]
      <4>1. CASE j = 0
        BY <4>1, <2>5, <2>6, <2>7
      <4>2. CASE j >= 1
        <5>1. u[Len(u) - j] = t[Len(t) - (j - 1)]
          BY <2>5, <3>2, <4>2
        <5>2. j - 1 \in Nat /\ j - 1 < Len(t)
          BY <2>5, <2>6, <3>2, <4>2
        <5>3. g[P].active /\ g[P].adr = adr
          BY <2>4, <5>2 DEF t
        <5>4. t = g[P].failure_times /\ EntryRight(g[P])
          BY <2>2, <2>4, <5>3 DEF RemoteInv, EntriesRight, t
        <5>5. t[Len(t) - (j - 1)] = F[Len(F) - (j - 1)] /\ Len(t) <= Len(F)
          BY <5>2, <5>3, <5>4 DEF EntryRight, EndOf, F
        <5>6. Len(F) - (j - 1) \in 1 .. Len(F) /\ Len(all) - j = Len(F) - (j - 1)
          BY <5>2, <5>5, <2>6, <2>7
        <5> QED
          BY <5>1, <5>5, <5>6, <2>7
      <4> QED
        BY <4>1, <4>2
    <3> QED
      BY <3>1, <3>2 DEF EndOf
  <2>11. EndOf(lately, all)
    <3>1. CASE Len(lately) = 1
      BY <3>1, <2>6, <2>7, <2>9 DEF EndOf
    <3>2. CASE Len(lately) = Len(K) + 1 /\ \A i \in 1 .. Len(K) : lately[i] = K[i]
      <4>1. Len(lately) <= Len(all)
        BY <3>2, <2>6, <2>7, <2>8 DEF EndOf
      <4>2. ASSUME NEW j \in Nat, j < Len(lately) PROVE lately[Len(lately) - j] = all[Len(all) - j]
        <5>1. CASE j = 0
          BY <5>1, <2>9, <2>6, <2>7, <3>2
        <5>2. CASE j >= 1
          <6>1. j - 1 \in Nat /\ j - 1 < Len(K) /\ Len(K) <= Len(F)
            BY <5>2, <4>2, <3>2, <2>6, <2>8 DEF EndOf
          <6>2. K[Len(K) - (j - 1)] = F[Len(F) - (j - 1)]
            BY <6>1, <2>8 DEF EndOf
          <6>3. /\ Len(lately) - j = Len(K) - (j - 1) /\ Len(K) - (j - 1) \in 1 .. Len(K)
                /\ Len(all) - j = Len(F) - (j - 1) /\ Len(F) - (j - 1) \in 1 .. Len(F)
            BY SMTT(30), <6>1, <3>2, <2>6, <2>7
          <6> QED
            BY <6>2, <6>3, <3>2, <2>7
        <5> QED
          BY <5>1, <5>2
      <4> QED
        BY <4>1, <4>2 DEF EndOf
    <3> QED
      BY <3>1, <3>2, <2>9
  <2>12. Ascending(all) /\ \A i \in 1 .. Len(all) : all[i] <= seconds
    <3>1. \A i \in 1 .. Len(all) : i \in 1 .. Len(F) \/ i = Len(F) + 1
      BY <2>6, <2>7
    <3>2. ASSUME NEW i \in 1 .. Len(all) PROVE all[i] <= seconds
      <4>1. CASE i = Len(F) + 1
        BY <4>1, <2>3, <2>7
      <4>2. CASE i \in 1 .. Len(F)
        BY <4>2, <2>7, <2>8
      <4> QED
        BY <3>1, <4>1, <4>2
    <3>3. ASSUME NEW i \in 1 .. Len(all), NEW j \in 1 .. Len(all), i <= j PROVE all[i] <= all[j]
      <4>1. CASE j = Len(F) + 1
        BY <4>1, <3>2, <2>7
      <4>2. CASE j \in 1 .. Len(F)
        <5>1. i \in 1 .. Len(F)
          BY <4>2, <3>3, <2>6, <2>7
        <5> QED
          BY <4>2, <5>1, <3>3, <2>7, <2>8 DEF Ascending
      <4> QED
        BY <3>1, <4>1, <4>2
    <3> QED
      BY <3>2, <3>3 DEF Ascending
  <2>13. Ascending(u) /\ Ascending(lately)
    BY <2>5, <2>7, <2>9, <2>10, <2>11, <2>12, EndAscends
  <2>14. Len(lately) <= Len(u) \/ Len(u) = sv_rcon_maxfailures
    <3>1. CASE Len(lately) = 1
      BY <3>1, <2>5, <2>6, RconConstants
    <3>2. CASE Len(lately) = Len(K) + 1 /\ F # <<>> /\ ~Remote!Forgettable(adr)
      <4>1. Len(F) >= 1
        BY <3>2, <2>3, <2>6
      <4>2. HasEntry(adr)
        BY <4>1, <3>2, WithoutEntryForgettable DEF F
      <4>3. t = g[P].failure_times /\ EntryRight(g[P]) /\ g[P].adr = adr
        BY <2>2, <2>4, <4>2 DEF RemoteInv, EntriesRight, t
      <4>4. Len(K) <= Len(t) \/ Len(t) = sv_rcon_maxfailures
        BY <4>3 DEF EntryRight, K
      <4> QED
        BY <4>4, <3>2, <2>5, <2>6, RconConstants
    <3> QED
      BY <3>1, <3>2, <2>9
  <2> DEFINE m == sv_rcon_minfailures
  <2>15. m \in Nat /\ m >= 1 /\ m <= sv_rcon_maxfailures /\ m - 1 \in Nat
    BY RconConstants
  <2>16. ASSUME NEW s \in Seq(Nat), Ascending(s)
         PROVE  Remote!Recent(s) >= m <=>
                  Len(s) >= m /\ seconds - s[Len(s) - (m - 1)] <= sv_rcon_minfailuretime
    BY <2>16, <2>15, <2>3, RecentIff
  <2>17. q.shouldreject => Remote!Recent(all) >= m
    <3> SUFFICES ASSUME Remote!Recent(u) >= m PROVE Remote!Recent(all) >= m
      BY <2>5
    <3>1. Len(u) >= m /\ seconds - u[Len(u) - (m - 1)] <= sv_rcon_minfailuretime
      BY <2>5, <2>13, <2>16
    <3>2. Len(all) >= m
      BY <3>1, <2>6, <2>7, <2>10, <2>15 DEF EndOf
    <3>3. m - 1 < Len(u)
      BY <3>1, <2>6, <2>15
    <3>4. u[Len(u) - (m - 1)] = all[Len(all) - (m - 1)]
      BY <3>3, <2>10, <2>15 DEF EndOf
    <3> QED
      BY <3>1, <3>2, <3>4, <2>7, <2>12, <2>16
  <2>18. Remote!Recent(lately) >= m => q.shouldreject
    <3> SUFFICES ASSUME Remote!Recent(lately) >= m PROVE Remote!Recent(u) >= m
      BY <2>5
    <3>1. Len(lately) >= m /\ seconds - lately[Len(lately) - (m - 1)] <= sv_rcon_minfailuretime
      BY <2>9, <2>13, <2>16
    <3>2. Len(u) >= m
      BY <3>1, <2>6, <2>9, <2>14, <2>15
    <3>3. lately[Len(lately) - (m - 1)] = all[Len(all) - (m - 1)]
      <4>1. m - 1 < Len(lately)
        BY <3>1, <2>9, <2>15
      <4> QED
        BY <4>1, <2>11, <2>15 DEF EndOf
    <3>4. u[Len(u) - (m - 1)] = all[Len(all) - (m - 1)]
      <4>1. m - 1 < Len(u)
        BY <3>2, <2>6, <2>15
      <4> QED
        BY <4>1, <2>10, <2>15 DEF EndOf
    <3> QED
      BY <3>1, <3>2, <3>3, <3>4, <2>5, <2>13, <2>16
  <2> HIDE DEF m
  <2>19. /\ g_rgRconFailures'[P] = q
         /\ \A i \in Remote!Place : i # P => g_rgRconFailures'[i] = g[i]
         /\ failed'[adr] = all /\ known'[adr] = lately
         /\ \A a \in Addresses : a # adr => failed'[a] = failed[a] /\ known'[a] = known[a]
         /\ adr \in mayReject' <=> Remote!Recent(all) >= m
         /\ adr \in mustReject' <=> Remote!Recent(lately) >= m
         /\ \A a : a # adr => (a \in mayReject' <=> a \in mayReject)
                             /\ (a \in mustReject' <=> a \in mustReject)
    <3>1. failed \in [Addresses -> Seq(Nat)] /\ known \in [Addresses -> Seq(Nat)]
      BY DEF RemoteInv, Remote!TypeOK
    <3>2. /\ g_rgRconFailures'[P] = q
          /\ \A i \in Remote!Place : i # P => g_rgRconFailures'[i] = g[i]
      BY <2>1, <2>2, <2>3
    <3>3. /\ failed'[adr] = all /\ known'[adr] = lately
          /\ \A a \in Addresses : a # adr => failed'[a] = failed[a] /\ known'[a] = known[a]
      BY <2>1, <3>1
    <3>4. /\ adr \in mayReject' <=> Remote!Recent(all) >= m
          /\ adr \in mustReject' <=> Remote!Recent(lately) >= m
          /\ \A a : a # adr => (a \in mayReject' <=> a \in mayReject)
                              /\ (a \in mustReject' <=> a \in mustReject)
      BY <2>1 DEF Remote!Judged, m
    <3> QED
      BY <3>2, <3>3, <3>4
  <2>20. Remote!TypeOK'
    <3>1. g_rgRconFailures' \in [Remote!Place -> RconEntry]
      BY <2>1, <2>3, <2>5
    <3>2. \A i \in Remote!Place : Len(g_rgRconFailures'[i].failure_times) <= sv_rcon_maxfailures
      BY SMTT(30), <2>3, <2>5, <2>6, <2>19, RconConstants DEF u
    <3>3. failed' \in [Addresses -> Seq(Nat)] /\ known' \in [Addresses -> Seq(Nat)]
      BY <2>1, <2>7, <2>9 DEF RemoteInv, Remote!TypeOK
    <3>4. mayReject' \subseteq Addresses /\ mustReject' \subseteq Addresses
      BY <2>1 DEF Remote!Judged, RemoteInv, Remote!TypeOK
    <3>5. seconds' \in 0 .. MaxSeconds
      BY DEF RemoteInv, Remote!TypeOK
    <3> QED
      BY <3>1, <3>2, <3>3, <3>4, <3>5 DEF Remote!TypeOK, RconEntry, Remote!Place
  <2>21. TableInOrder'
    <3>1. \A i \in Remote!Place : ~g_rgRconFailures'[i].active => g_rgRconFailures'[i] = Remote!Unused
      BY <2>5, <2>19 DEF RemoteInv, TableInOrder
    <3>2. \A i, j \in Remote!Place :
            j < i /\ g_rgRconFailures'[i].active => g_rgRconFailures'[j].active
      BY <2>2, <2>5, <2>19 DEF RemoteInv, TableInOrder
    <3>3. \A i \in Remote!Place : g[i].active /\ g[i].adr = adr => i = P
      BY <2>2 DEF RemoteInv, TableInOrder, HasEntry
    <3>4. ASSUME NEW i \in Remote!Place, NEW j \in Remote!Place,
                 g_rgRconFailures'[i].active, g_rgRconFailures'[j].active,
                 g_rgRconFailures'[i].adr = g_rgRconFailures'[j].adr
          PROVE  i = j
      <4>1. CASE i # P /\ j # P
        BY <4>1, <3>4, <2>19 DEF RemoteInv, TableInOrder
      <4>2. CASE i = P
        <5>1. j # P => g[j].active /\ g[j].adr = adr
          BY <4>2, <3>4, <2>5, <2>19
        <5> QED
          BY <5>1, <4>2, <3>3
      <4>3. CASE j = P
        <5>1. i # P => g[i].active /\ g[i].adr = adr
          BY <4>3, <3>4, <2>5, <2>19
        <5> QED
          BY <5>1, <4>3, <3>3
      <4> QED
        BY <4>1, <4>2, <4>3
    <3> QED
      BY <3>1, <3>2, <3>4 DEF TableInOrder, Remote!Place, Remote!Unused
  <2>22. EntriesRight'
    <3>1. \A i \in Remote!Place : i # P /\ g[i].active => g[i].adr # adr
      BY <2>2 DEF RemoteInv, TableInOrder, HasEntry
    <3>2. ASSUME NEW i \in Remote!Place, g_rgRconFailures'[i].active
          PROVE  EntryRight(g_rgRconFailures[i])'
      <4>1. CASE i = P
        <5>1. g_rgRconFailures'[i] = q /\ q.failure_times = u
          BY <4>1, <2>19 DEF u
        <5>2. q.adr \in Addresses
          BY <2>5
        <5>3. q.last_update = failed'[q.adr][Len(failed'[q.adr])]
          BY <2>5, <2>7, <2>19
        <5>4. EndOf(u, failed'[q.adr]) /\ Len(u) >= 1
          BY <2>5, <2>6, <2>10, <2>19, RconConstants
        <5>5. Len(known'[q.adr]) <= Len(u) \/ Len(u) = sv_rcon_maxfailures
          BY <2>5, <2>14, <2>19
        <5>6. /\ q.shouldreject => q.adr \in mayReject'
              /\ q.adr \in mustReject' => q.shouldreject
          BY <2>5, <2>17, <2>18, <2>19
        <5> QED
          BY <5>1, <5>2, <5>3, <5>4, <5>5, <5>6 DEF EntryRight, EndOf
      <4>2. CASE i # P
        <5>1. g_rgRconFailures'[i] = g[i] /\ g[i].active /\ g[i].adr # adr
          BY <4>2, <3>1, <3>2, <2>19
        <5>2. EntryRight(g[i])
          BY <5>1 DEF RemoteInv, EntriesRight
        <5>3. /\ failed'[g[i].adr] = failed[g[i].adr] /\ known'[g[i].adr] = known[g[i].adr]
              /\ g[i].adr \in mayReject' <=> g[i].adr \in mayReject
              /\ g[i].adr \in mustReject' <=> g[i].adr \in mustReject
          BY <5>1, <5>2, <2>19 DEF EntryRight
        <5> QED
          BY <5>1, <5>2, <5>3 DEF EntryRight, EndOf
      <4> QED
        BY <4>1, <4>2
    <3> QED
      BY <3>2 DEF EntriesRight, Remote!Place
  <2>23. FailuresInOrder'
    <3>1. ASSUME NEW a \in Addresses
          PROVE  /\ Ascending(failed'[a])
                 /\ \A i \in 1 .. Len(failed'[a]) : failed'[a][i] <= seconds
                 /\ EndOf(known'[a], failed'[a])
                 /\ a \in mustReject' => Len(failed'[a]) >= 1
      <4>1. CASE a = adr
        BY <4>1, <2>6, <2>7, <2>11, <2>12, <2>19
      <4>2. CASE a # adr
        BY <4>2, <2>19 DEF RemoteInv, FailuresInOrder
      <4> QED
        BY <4>1, <4>2
    <3> QED
      BY <3>1 DEF FailuresInOrder, Ascending, EndOf
  <2>24. OthersSince'
    <3>1. ASSUME NEW a \in Addresses, Len(failed'[a]) >= 1, ~HasEntry(a)', NEW i \in Remote!Place
          PROVE  /\ g_rgRconFailures'[i].active
                 /\ g_rgRconFailures'[i].last_update >= failed'[a][Len(failed'[a])]
      <4>1. a # adr
        BY <3>1, <2>2, <2>5, <2>19 DEF HasEntry, Remote!Place
      <4>2. /\ failed'[a] = failed[a] /\ failed[a] \in Seq(Nat)
            /\ failed[a][Len(failed[a])] \in Nat /\ failed[a][Len(failed[a])] <= seconds
        BY <4>1, <3>1, <2>19 DEF RemoteInv, FailuresInOrder, Remote!TypeOK
      <4>3. CASE HasEntry(a)
        <5>1. PICK k \in Remote!Place : g[k].active /\ g[k].adr = a
          BY <4>3 DEF HasEntry
        <5>2. k = P
          BY <5>1, <3>1, <2>19 DEF HasEntry, Remote!Place
        <5>3. \A j \in Remote!Place : g[j].active /\ g[k].last_update <= g[j].last_update
          BY <5>1, <5>2, <4>1, <2>2
        <5>4. g[k].last_update = failed[a][Len(failed[a])]
          BY <5>1 DEF RemoteInv, EntriesRight, EntryRight
        <5> QED
          BY <5>3, <5>4, <4>2, <2>3, <2>5, <2>19
      <4>4. CASE ~HasEntry(a)
        <5>1. g[i].active /\ g[i].last_update >= failed[a][Len(failed[a])]
          BY <4>2, <4>4, <3>1 DEF RemoteInv, OthersSince
        <5> QED
          BY <5>1, <4>2, <2>3, <2>5, <2>19
      <4> QED
        BY <4>3, <4>4
    <3> QED
      BY <3>1 DEF OthersSince, HasEntry, Remote!Place
  <2> QED
    BY <2>20, <2>21, <2>22, <2>23, <2>24 DEF RemoteInv
<1> QED
  BY <1>1, <1>2

LEMMA RemoteInit == Remote!Init => RemoteInv
<1> SUFFICES ASSUME Remote!Init PROVE RemoteInv
  OBVIOUS
<1> USE DEF Remote!Init
<1>1. <<>> \in Seq(Nat) /\ Len(<<>>) = 0
  OBVIOUS
<1>2. Remote!TypeOK
  BY <1>1, RconConstants DEF Remote!TypeOK, Remote!Unused
<1>3. TableInOrder
  BY DEF TableInOrder, Remote!Unused
<1>4. EntriesRight
  BY DEF EntriesRight, Remote!Unused
<1>5. FailuresInOrder
  BY <1>1 DEF FailuresInOrder, Ascending, EndOf
<1>6. OthersSince
  BY <1>1 DEF OthersSince
<1> QED
  BY <1>2, <1>3, <1>4, <1>5, <1>6 DEF RemoteInv

LEMMA RemoteStep == RemoteInv /\ [Remote!Next]_remoteVars => RemoteInv'
<1> SUFFICES ASSUME RemoteInv, [Remote!Next]_remoteVars PROVE RemoteInv'
  OBVIOUS
<1>1. ASSUME NEW adr \in Addresses, NEW challenge \in BOOLEAN, NEW password \in BOOLEAN,
             NEW privileged \in BOOLEAN,
             Remote!SV_Rcon_Validate(adr, challenge, password, privileged)
      PROVE  RemoteInv'
  <2>1. seconds' = seconds /\ bansAsked' \subseteq Addresses /\ attempts' \in 0 .. MaxAttempts
    <3>1. /\ seconds' = seconds /\ attempts < MaxAttempts /\ attempts' = attempts + 1
          /\ bansAsked' = bansAsked \/ bansAsked' = bansAsked \cup {adr}
      BY <1>1 DEF Remote!SV_Rcon_Validate
    <3>2. bansAsked \subseteq Addresses /\ attempts \in Nat
      BY RconConstants DEF RemoteInv, Remote!TypeOK
    <3> QED
      BY <3>1, <3>2, RconConstants
  <2>2. CASE Remote!SV_AddFailedRcon(adr)
    BY <2>1, <2>2, AddFailedKeeps
  <2>3. CASE UNCHANGED <<g_rgRconFailures, failed, known, mayReject, mustReject>>
    BY <2>1, <2>3 DEF RemoteInv, Remote!TypeOK, TableInOrder, EntriesRight, EntryRight,
                      FailuresInOrder, OthersSince, HasEntry
  <2> QED
    BY <1>1, <2>2, <2>3 DEF Remote!SV_Rcon_Validate, Remote!history
<1>2. CASE Remote!SV_ResetRcon_f
  <2>0. <<>> \in Seq(Nat) /\ Len(<<>>) = 0
    OBVIOUS
  <2> USE <1>2 DEF Remote!SV_ResetRcon_f
  <2>1. Remote!TypeOK'
    BY <2>0, RconConstants DEF RemoteInv, Remote!TypeOK, Remote!Unused, Remote!Place
  <2>2. TableInOrder'
    BY DEF TableInOrder, Remote!Unused, Remote!Place
  <2>3. EntriesRight'
    BY DEF EntriesRight, Remote!Unused, Remote!Place
  <2>4. FailuresInOrder'
    BY <2>0 DEF FailuresInOrder, Ascending, EndOf
  <2>5. OthersSince'
    BY <2>0 DEF OthersSince
  <2> QED
    BY <2>1, <2>2, <2>3, <2>4, <2>5 DEF RemoteInv
<1>3. CASE Remote!Tick
  <2> USE <1>3 DEF Remote!Tick, Remote!history
  <2>1. Remote!TypeOK'
    BY RconConstants DEF RemoteInv, Remote!TypeOK
  <2>2. TableInOrder' /\ EntriesRight' /\ OthersSince'
    BY DEF RemoteInv, TableInOrder, EntriesRight, EntryRight, OthersSince, HasEntry
  <2>3. FailuresInOrder'
    <3>1. seconds \in Nat /\ seconds' = seconds + 1
      BY RconConstants DEF RemoteInv, Remote!TypeOK
    <3>2. failed \in [Addresses -> Seq(Nat)]
      BY DEF RemoteInv, Remote!TypeOK
    <3>3. \A a \in Addresses : \A i \in 1 .. Len(failed[a]) : failed[a][i] \in Nat /\ failed[a][i] <= seconds
      BY <3>2 DEF RemoteInv, FailuresInOrder
    <3>4. \A a \in Addresses : \A i \in 1 .. Len(failed[a]) : failed[a][i] <= seconds'
      BY <3>1, <3>3
    <3> QED
      BY <3>4 DEF RemoteInv, FailuresInOrder
  <2> QED
    BY <2>1, <2>2, <2>3 DEF RemoteInv
<1>4. CASE UNCHANGED remoteVars
  BY <1>4 DEF remoteVars, RemoteInv, Remote!TypeOK, TableInOrder, EntriesRight, EntryRight,
              FailuresInOrder, OthersSince, HasEntry
<1> QED
  BY <1>1, <1>2, <1>3, <1>4 DEF Remote!Next

LEMMA RemoteInvGivesTheRest == RemoteInv => RefusedAsDeserved
<1> SUFFICES ASSUME RemoteInv PROVE RefusedAsDeserved
  OBVIOUS
<1> DEFINE g == g_rgRconFailures
<1>1. Remote!OnlyTheFailing
  <2> SUFFICES ASSUME NEW adr \in Addresses, NEW i \in Remote!Place,
                      g[i].adr = adr, g[i].shouldreject
               PROVE  adr \in mayReject
    BY DEF Remote!OnlyTheFailing, Remote!SV_CheckRconFailure
  <2>1. g[i].active
    BY DEF RemoteInv, TableInOrder, Remote!Unused
  <2> QED
    BY <2>1 DEF RemoteInv, EntriesRight, EntryRight
<1>2. Remote!TheFailingRefused
  <2> SUFFICES ASSUME NEW adr \in mustReject
               PROVE  Remote!SV_CheckRconFailure(adr) \/ Remote!Forgettable(adr)
    BY DEF Remote!TheFailingRefused
  <2>1. adr \in Addresses /\ Len(failed[adr]) >= 1
    BY DEF RemoteInv, Remote!TypeOK, FailuresInOrder
  <2>2. CASE HasEntry(adr)
    BY <2>2 DEF HasEntry, RemoteInv, EntriesRight, EntryRight, Remote!SV_CheckRconFailure
  <2>3. CASE ~HasEntry(adr)
    BY <2>1, <2>3, WithoutEntryForgettable
  <2> QED
    BY <2>2, <2>3
<1> QED
  BY <1>1, <1>2 DEF RefusedAsDeserved, RemoteInv

\* SV_CheckRconFailure refuses nobody who has not failed often enough within
\* sv_rcon_minfailuretime, and whoever has is refused until the table forgets
\* it; it forgets only for others that failed later: whatever the addresses,
\* the limits and the size of the table.
THEOREM FailingRefused == Spec => []RefusedAsDeserved
<1>1. Init => RemoteInv
  BY RemoteInit DEF Init
<1>2. RemoteInv /\ [Next]_vars => RemoteInv'
  <2>1. [Next]_vars => [Remote!Next]_remoteVars
    BY DEF Next, Filtering, Limiting, Validating, vars
  <2> QED
    BY <2>1, RemoteStep
<1>3. RemoteInv => RefusedAsDeserved
  BY RemoteInvGivesTheRest
<1> QED
  BY <1>1, <1>2, <1>3, PTL DEF Spec

-----------------------------------------------------------------------------

(***************************************************************************)
(* The limit on queries                                                    *)
(***************************************************************************)

LEMMA QueriesCardinality == \A S : Queries!Cardinality(S) = Cardinality(S)
  BY Zenon DEF Queries!Cardinality, Cardinality

LEMMA QueriesFinite == \A S : Queries!IsFiniteSet(S) = IsFiniteSet(S)
  BY Zenon DEF Queries!IsFiniteSet, IsFiniteSet

LEMMA QueryConstants ==
    /\ IPs \subseteq Nat
    /\ Window \in Nat /\ PerIP \in Nat /\ PerIP >= 1 /\ Global \in Nat /\ Global >= 1
    /\ FLUSH_TIMEOUT \in Nat /\ FLUSH_TIMEOUT >= Window
    /\ MAX_TREE_SIZE \in Nat /\ MaxTime \in Nat /\ MaxQueries \in Nat
  BY QueriesAssumption DEF Queries!QueryAssumption

From(s, P) == {q \in P : q.time >= s}
After(s, P) == {q \in P : q.time > s}
Before(s, P) == {q \in P : q.time < s}

Timed == [ip : IPs, time : Nat, no : Nat]

\* What passed, P, of a window that began at s and has counted c: some of it is
\* of the window before, but not as much as the limit.
WindowRight(P, s, c, limit) ==
    /\ Cardinality(From(s, P)) <= c /\ Cardinality(From(s, P)) <= limit
    /\ Cardinality(After(s, P)) <= c - 1 /\ Cardinality(After(s, P)) <= limit - 1
    /\ Cardinality(Before(s, P)) <= limit - 1
    /\ \A q \in P : q.time <= s + Window

LEMMA PartsFinite ==
    ASSUME NEW P, IsFiniteSet(P), NEW s
    PROVE  /\ IsFiniteSet(From(s, P)) /\ Cardinality(From(s, P)) \in Nat
           /\ IsFiniteSet(After(s, P)) /\ Cardinality(After(s, P)) \in Nat
           /\ IsFiniteSet(Before(s, P)) /\ Cardinality(Before(s, P)) \in Nat
           /\ Cardinality(P) \in Nat
<1>1. From(s, P) \subseteq P /\ After(s, P) \subseteq P /\ Before(s, P) \subseteq P
  BY DEF From, After, Before
<1>2. IsFiniteSet(From(s, P)) /\ IsFiniteSet(After(s, P)) /\ IsFiniteSet(Before(s, P))
  BY <1>1, FS_Subset
<1> QED
  BY <1>2, FS_CardinalityType

\* Both windows together.
LEMMA WindowBound ==
    ASSUME NEW P \in SUBSET Timed, IsFiniteSet(P), NEW s \in Int, NEW c \in Nat, NEW limit \in Nat,
           WindowRight(P, s, c, limit)
    PROVE  Cardinality(P) <= 2 * limit - 1
<1>1. P = From(s, P) \cup Before(s, P)
  BY DEF From, Before, Timed
<1>2. From(s, P) \cap Before(s, P) = {}
  BY DEF From, Before, Timed
<1>3. Cardinality(P) = Cardinality(From(s, P)) + Cardinality(Before(s, P))
  <2>0. IsFiniteSet(From(s, P)) /\ IsFiniteSet(Before(s, P))
    BY PartsFinite
  <2>1. Cardinality(From(s, P) \cap Before(s, P)) = 0
    BY <1>2, FS_EmptySet
  <2>2. Cardinality(From(s, P) \cup Before(s, P)) =
          Cardinality(From(s, P)) + Cardinality(Before(s, P)) - Cardinality(From(s, P) \cap Before(s, P))
    BY <2>0, FS_Union
  <2>3. Cardinality(From(s, P)) \in Nat /\ Cardinality(Before(s, P)) \in Nat
    BY PartsFinite
  <2>4. Cardinality(P) = Cardinality(From(s, P) \cup Before(s, P))
    BY <1>1, Zenon
  <2> DEFINE a == Cardinality(From(s, P))
             b == Cardinality(Before(s, P))
             i == Cardinality(From(s, P) \cap Before(s, P))
             u == Cardinality(From(s, P) \cup Before(s, P))
  <2>5. u = a + b - i /\ i = 0 /\ a \in Nat /\ b \in Nat
    BY <2>1, <2>2, <2>3
  <2> HIDE DEF a, b, i, u
  <2>6. u = a + b
    BY <2>5
  <2> QED
    BY <2>4, <2>6 DEF a, b, u
<1> QED
  BY <1>3, PartsFinite DEF WindowRight

\* Less of the past is less to bound.
LEMMA WindowShrinks ==
    ASSUME NEW P, IsFiniteSet(P), NEW s \in Int, NEW c \in Nat, NEW limit \in Nat,
           WindowRight(P, s, c, limit), NEW Q \in SUBSET P
    PROVE  WindowRight(Q, s, c, limit)
<1>1. From(s, Q) \subseteq From(s, P) /\ After(s, Q) \subseteq After(s, P)
      /\ Before(s, Q) \subseteq Before(s, P)
  BY DEF From, After, Before
<1>2. /\ Cardinality(From(s, Q)) <= Cardinality(From(s, P))
      /\ Cardinality(After(s, Q)) <= Cardinality(After(s, P))
      /\ Cardinality(Before(s, Q)) <= Cardinality(Before(s, P))
  BY <1>1, PartsFinite, FS_Subset
<1>3. IsFiniteSet(Q)
  BY FS_Subset
<1> QED
  BY <1>2, <1>3, PartsFinite DEF WindowRight

\* When a window is over, what passed and is not yet forgotten came after its
\* first second.
LEMMA WindowOver ==
    ASSUME NEW P \in SUBSET Timed, IsFiniteSet(P), NEW s \in Int, NEW c \in Nat, NEW limit \in Nat,
           WindowRight(P, s, c, limit), NEW now \in Nat, now - s > Window,
           \A q \in P : now - q.time <= Window
    PROVE  /\ Cardinality(P) <= limit - 1
           /\ \A q \in P : q.time < now
<1>1. P = After(s, P)
  BY QueryConstants DEF After, Timed
<1>2. \A q \in P : q.time < now
  BY QueryConstants DEF WindowRight, Timed
<1> QED
  BY <1>1, <1>2 DEF WindowRight

LEMMA OneMore ==
    ASSUME NEW S, IsFiniteSet(S), NEW x, NEW T \in SUBSET (S \cup {x})
    PROVE  IsFiniteSet(T) /\ Cardinality(T) \in Nat /\ Cardinality(T) <= Cardinality(S) + 1
<1>1. IsFiniteSet(S \cup {x}) /\ Cardinality(S \cup {x}) <= Cardinality(S) + 1
  <2> DEFINE n == Cardinality(S)
             k == Cardinality(S \cup {x})
  <2>1. n \in Nat
    BY FS_CardinalityType
  <2>2. IsFiniteSet(S \cup {x}) /\ k = IF x \in S THEN n ELSE n + 1
    BY FS_AddElement
  <2>3. k <= n + 1
    <3> HIDE DEF n, k
    <3> QED
      BY <2>1, <2>2
  <2> QED
    BY <2>2, <2>3
<1>2. IsFiniteSet(T) /\ Cardinality(T) <= Cardinality(S \cup {x})
  BY <1>1, FS_Subset
<1> QED
  BY <1>1, <1>2, FS_CardinalityType

\* A query in a window.
LEMMA WindowCounts ==
    ASSUME NEW P \in SUBSET Timed, IsFiniteSet(P), NEW s \in Int, NEW c \in Nat, NEW limit \in Nat,
           WindowRight(P, s, c, limit), NEW q \in Timed, s <= q.time, q.time <= s + Window,
           NEW Q, Q = P \/ (Q = P \cup {q} /\ c + 1 <= limit)
    PROVE  WindowRight(Q, s, c + 1, limit)
<1>0. c + 1 \in Nat
  OBVIOUS
<1>1. CASE Q = P
  BY <1>1, <1>0, PartsFinite DEF WindowRight
<1>2. CASE Q = P \cup {q} /\ c + 1 <= limit
  <2>1. /\ From(s, Q) \subseteq From(s, P) \cup {q}
        /\ After(s, Q) \subseteq After(s, P) \cup {q}
        /\ Before(s, Q) = Before(s, P)
    BY <1>2 DEF From, After, Before, Timed
  <2>2. /\ Cardinality(From(s, Q)) \in Nat /\ Cardinality(From(s, Q)) <= Cardinality(From(s, P)) + 1
        /\ Cardinality(After(s, Q)) \in Nat /\ Cardinality(After(s, Q)) <= Cardinality(After(s, P)) + 1
    BY <2>1, PartsFinite, OneMore
  <2>3. \A p \in Q : p.time <= s + Window
    BY <1>2 DEF WindowRight
  <2>4. Cardinality(From(s, P)) \in Nat /\ Cardinality(After(s, P)) \in Nat
    BY PartsFinite
  <2> QED
    BY <1>2, <2>1, <2>2, <2>3, <2>4 DEF WindowRight
<1> QED
  BY <1>1, <1>2

\* A query with which a window begins.
LEMMA WindowBegins ==
    ASSUME NEW P \in SUBSET Timed, IsFiniteSet(P), NEW limit \in Nat, limit >= 1,
           Cardinality(P) <= limit - 1, NEW q \in Timed, \A p \in P : p.time < q.time,
           NEW Q \in SUBSET (P \cup {q})
    PROVE  WindowRight(Q, q.time, 1, limit)
<1>1. From(q.time, Q) \subseteq {} \cup {q} /\ After(q.time, Q) = {} /\ Before(q.time, Q) \subseteq P
  BY DEF From, After, Before, Timed
<1>2. Cardinality({}) = 0 /\ IsFiniteSet({})
  BY FS_EmptySet
<1>3. Cardinality(From(q.time, Q)) \in Nat /\ Cardinality(From(q.time, Q)) <= 1
  <2>1. IsFiniteSet(From(q.time, Q)) /\ Cardinality(From(q.time, Q)) \in Nat
        /\ Cardinality(From(q.time, Q)) <= Cardinality({}) + 1
    BY <1>1, <1>2, OneMore
  <2> QED
    BY <2>1, <1>2
<1>4. Cardinality(Before(q.time, Q)) <= limit - 1
  <2>1. Cardinality(Before(q.time, Q)) \in Nat /\ Cardinality(Before(q.time, Q)) <= Cardinality(P)
    BY <1>1, FS_Subset, FS_CardinalityType
  <2> QED
    BY <2>1, FS_CardinalityType
<1>5. \A p \in Q : p.time <= q.time + Window
  BY QueryConstants DEF Timed
<1> QED
  BY <1>1, <1>2, <1>3, <1>4, <1>5 DEF WindowRight

-----------------------------------------------------------------------------

SameSecond(ip) == {q \in asked : q.ip = ip /\ q.time = curTime}

AskedRight ==
    \A q \in asked :
        /\ q.time <= curTime /\ curTime - q.time <= Window
        /\ q.time = curTime => q.no <= Cardinality(SameSecond(q.ip))

PerIPRight ==
    \A ip \in IPs :
        \/ /\ ip \in DOMAIN tree
           /\ tree[ip].lastTime <= curTime
           /\ WindowRight(Queries!Of(ip, passed), tree[ip].lastTime, tree[ip].count, PerIP)
           /\ curTime - tree[ip].lastTime <= Window =>
                tree[ip].count <= Cardinality(From(tree[ip].lastTime, Queries!Of(ip, asked)))
        \/ /\ ip \notin DOMAIN tree
           /\ Cardinality(Queries!Of(ip, passed)) <= PerIP - 1
           /\ \A q \in Queries!Of(ip, passed) : q.time < curTime

TotalRight ==
    \/ globalTime = -1 /\ passed = {}
    \/ /\ globalTime \in Nat /\ globalTime <= curTime
       /\ WindowRight(passed, globalTime, globalCount, Global)
       /\ curTime - globalTime <= Window =>
            globalCount <= Cardinality(From(globalTime, counted))

QueriesInv ==
    /\ Queries!TypeOK
    /\ curTime >= Window + 1
    /\ AskedRight
    /\ PerIPRight
    /\ TotalRight
    /\ Queries!RefusedForCause

LEMMA QueriesTyped ==
    ASSUME QueriesInv
    PROVE  /\ asked \subseteq Timed /\ IsFiniteSet(asked)
           /\ passed \subseteq Timed /\ IsFiniteSet(passed) /\ passed \subseteq asked
           /\ counted \subseteq Timed /\ IsFiniteSet(counted) /\ counted \subseteq asked
           /\ curTime \in Nat /\ globalTime \in Int /\ globalCount \in Nat
           /\ \A ip \in DOMAIN tree : /\ ip \in IPs /\ tree[ip].lastTime \in Nat
                                     /\ tree[ip].count \in Nat /\ tree[ip].count >= 1
           /\ \A q \in asked : q.time \in Nat /\ q.no \in Nat /\ q.ip \in IPs
                              /\ q.time <= curTime /\ curTime - q.time <= Window
<1>1. asked \subseteq Timed /\ passed \subseteq asked /\ counted \subseteq asked
  BY DEF QueriesInv, Queries!TypeOK, Timed
<1>2. IsFiniteSet(asked)
  BY QueriesFinite DEF QueriesInv, Queries!TypeOK
<1>3. IsFiniteSet(passed) /\ IsFiniteSet(counted)
  BY <1>1, <1>2, FS_Subset
<1>4. \A ip \in DOMAIN tree : /\ ip \in IPs /\ tree[ip].lastTime \in Nat
                              /\ tree[ip].count \in Nat /\ tree[ip].count >= 1
  BY DEF QueriesInv, Queries!TypeOK
<1>5. \A q \in asked : q.time \in Nat /\ q.no \in Nat /\ q.ip \in IPs
                     /\ q.time <= curTime /\ curTime - q.time <= Window
  BY <1>1 DEF QueriesInv, AskedRight, Timed
<1> QED
  BY <1>1, <1>2, <1>3, <1>4, <1>5 DEF QueriesInv, Queries!TypeOK

LEMMA OfPart ==
    ASSUME NEW P, IsFiniteSet(P), P \subseteq Timed, NEW ip
    PROVE  /\ Queries!Of(ip, P) \subseteq P /\ IsFiniteSet(Queries!Of(ip, P))
           /\ Queries!Of(ip, P) \subseteq Timed
  BY FS_Subset DEF Queries!Of

\* What is left of the tree before the turn of ip.
LEMMA TrimmedIs ==
    ASSUME NEW ip, NEW t \in Queries!Trimmed(ip)
    PROVE  /\ DOMAIN t \subseteq DOMAIN tree
           /\ \A i \in DOMAIN t : t[i] = tree[i]
           /\ \A i \in DOMAIN tree : i \notin DOMAIN t =>
                i # ip /\ curTime - tree[i].lastTime > FLUSH_TIMEOUT
<1>1. \/ t = tree
      \/ \E gone \in SUBSET Queries!Idle(ip) : t = Queries!Restrict(tree, DOMAIN tree \ gone)
  BY DEF Queries!Trimmed
<1>2. ASSUME NEW gone \in SUBSET Queries!Idle(ip), t = Queries!Restrict(tree, DOMAIN tree \ gone)
      PROVE  /\ DOMAIN t = DOMAIN tree \ gone
             /\ \A i \in DOMAIN t : t[i] = tree[i]
             /\ \A i \in gone : i # ip /\ curTime - tree[i].lastTime > FLUSH_TIMEOUT
  BY <1>2 DEF Queries!Restrict, Queries!Idle
<1> QED
  BY <1>1, <1>2

LEMMA QueriesTick == ASSUME QueriesInv, Queries!Tick PROVE QueriesInv'
<1> USE QueriesInv
<1> DEFINE lately(h) == {q \in h : curTime + 1 - q.time <= Window}
<1>1. /\ curTime < Window + 1 + MaxTime /\ curTime' = curTime + 1
      /\ asked' = lately(asked) /\ passed' = lately(passed) /\ counted' = lately(counted)
      /\ last' = [last EXCEPT !.ok = TRUE]
      /\ tree' = tree /\ globalCount' = globalCount /\ globalTime' = globalTime
      /\ queries' = queries
  BY DEF Queries!Tick
<1>2. asked' \subseteq asked /\ passed' \subseteq asked' /\ counted' \subseteq asked'
      /\ passed' \subseteq passed /\ IsFiniteSet(asked')
  BY <1>1, QueriesTyped, FS_Subset
<1>3. Queries!TypeOK'
  <2>1. last' \in [ip : IPs \cup {0}, ok : BOOLEAN]
    BY <1>1 DEF QueriesInv, Queries!TypeOK
  <2>2. Queries!IsFiniteSet(asked')
    BY <1>2, QueriesFinite
  <2> QED
    BY <1>1, <1>2, <2>1, <2>2 DEF QueriesInv, Queries!TypeOK
<1>4. (curTime >= Window + 1)'
  BY <1>1, QueriesTyped, QueryConstants DEF QueriesInv
<1>5. AskedRight'
  <2>1. \A q \in asked' : q.time <= curTime /\ q.time \in Nat /\ curTime' - q.time <= Window
    BY <1>1, <1>2, QueriesTyped
  <2> QED
    BY <2>1, <1>1, QueriesTyped DEF AskedRight, SameSecond
<1>6. PerIPRight'
  <2>1. ASSUME NEW ip \in DOMAIN tree
        PROVE  /\ tree[ip].lastTime <= curTime'
               /\ WindowRight(Queries!Of(ip, passed'), tree[ip].lastTime, tree[ip].count, PerIP)
               /\ curTime' - tree[ip].lastTime <= Window =>
                    tree[ip].count <= Cardinality(From(tree[ip].lastTime, Queries!Of(ip, asked')))
    <3> DEFINE s == tree[ip].lastTime
               c == tree[ip].count
    <3>1. /\ s \in Nat /\ c \in Nat /\ s <= curTime /\ curTime \in Nat
          /\ WindowRight(Queries!Of(ip, passed), s, c, PerIP)
          /\ curTime - s <= Window => c <= Cardinality(From(s, Queries!Of(ip, asked)))
      BY QueriesTyped DEF QueriesInv, PerIPRight
    <3>2. Queries!Of(ip, passed') \subseteq Queries!Of(ip, passed)
      BY <1>2 DEF Queries!Of
    <3>3. WindowRight(Queries!Of(ip, passed'), s, c, PerIP)
      <4> HIDE DEF s, c
      <4> QED
        BY <3>1, <3>2, WindowShrinks, OfPart, QueriesTyped, QueryConstants
    <3>4. curTime' - s <= Window =>
            curTime - s <= Window /\ From(s, Queries!Of(ip, asked')) = From(s, Queries!Of(ip, asked))
      BY <3>1, <1>1, QueriesTyped, QueryConstants DEF Queries!Of, From
    <3> QED
      BY <3>1, <3>3, <3>4, <1>1
  <2>2. ASSUME NEW ip \in IPs, ip \notin DOMAIN tree
        PROVE  /\ Cardinality(Queries!Of(ip, passed')) <= PerIP - 1
               /\ \A q \in Queries!Of(ip, passed') : q.time < curTime'
    <3>1. /\ Cardinality(Queries!Of(ip, passed)) <= PerIP - 1
          /\ \A q \in Queries!Of(ip, passed) : q.time < curTime
      BY <2>2 DEF QueriesInv, PerIPRight
    <3>2. Queries!Of(ip, passed') \subseteq Queries!Of(ip, passed)
      BY <1>2 DEF Queries!Of
    <3>3. Cardinality(Queries!Of(ip, passed')) <= PerIP - 1
      BY SMTT(30), <3>1, <3>2, OfPart, QueriesTyped, QueryConstants, FS_Subset, FS_CardinalityType
    <3>4. \A q \in Queries!Of(ip, passed') : q.time < curTime'
      BY <3>1, <3>2, <1>1, QueriesTyped DEF Queries!Of
    <3> QED
      BY <3>3, <3>4
  <2> QED
    BY <1>1, <2>1, <2>2 DEF PerIPRight
<1>7. TotalRight'
  <2>1. CASE globalTime = -1 /\ passed = {}
    BY <2>1, <1>1 DEF TotalRight
  <2>2. CASE ~(globalTime = -1 /\ passed = {})
    <3>1. /\ globalTime \in Nat /\ globalTime <= curTime /\ curTime \in Nat /\ globalCount \in Nat
          /\ WindowRight(passed, globalTime, globalCount, Global)
          /\ curTime - globalTime <= Window =>
                globalCount <= Cardinality(From(globalTime, counted))
      BY <2>2, QueriesTyped DEF QueriesInv, TotalRight
    <3>2. WindowRight(passed', globalTime, globalCount, Global)
      BY <3>1, <1>2, WindowShrinks, QueriesTyped, QueryConstants
    <3>3. curTime' - globalTime <= Window =>
            curTime - globalTime <= Window /\ From(globalTime, counted') = From(globalTime, counted)
      BY <3>1, <1>1, QueriesTyped, QueryConstants DEF From
    <3> QED
      BY <3>1, <3>2, <3>3, <1>1 DEF TotalRight
  <2> QED
    BY <2>1, <2>2
<1>8. Queries!RefusedForCause'
  BY <1>1 DEF Queries!RefusedForCause, QueriesInv, Queries!TypeOK
<1> QED
  BY <1>3, <1>4, <1>5, <1>6, <1>7, <1>8 DEF QueriesInv

LEMMA QueryIsNew ==
    ASSUME QueriesInv, NEW ip \in IPs
    PROVE  /\ Queries!Query(ip) \in Timed /\ Queries!Query(ip) \notin asked
           /\ Queries!Query(ip).ip = ip /\ Queries!Query(ip).time = curTime
           /\ Queries!Query(ip).no = 1 + Cardinality(SameSecond(ip))
<1> DEFINE q == Queries!Query(ip)
           n == Cardinality(SameSecond(ip))
<1>1. SameSecond(ip) \subseteq asked
  BY DEF SameSecond
<1>2. n \in Nat
  BY <1>1, QueriesTyped, FS_Subset, FS_CardinalityType
<1>3. q = [ip |-> ip, time |-> curTime, no |-> 1 + n]
  BY QueriesCardinality DEF Queries!Query, SameSecond
<1> HIDE DEF q, n
<1>4. q \in Timed /\ q.ip = ip /\ q.time = curTime /\ q.no = 1 + n
  BY <1>2, <1>3, QueriesTyped DEF Timed
<1>5. q \notin asked
  <2> SUFFICES ASSUME q \in asked PROVE FALSE
    OBVIOUS
  <2>1. q.no <= n
    BY <1>4 DEF QueriesInv, AskedRight, n
  <2> QED
    BY <2>1, <1>2, <1>4
<1> QED
  BY <1>4, <1>5 DEF q, n

\* One more of a set of queries.
LEMMA AddOne ==
    ASSUME NEW S, IsFiniteSet(S), NEW x, x \notin S
    PROVE  /\ IsFiniteSet(S \cup {x}) /\ Cardinality(S) \in Nat
           /\ Cardinality(S \cup {x}) = Cardinality(S) + 1
  BY FS_AddElement, FS_CardinalityType

LEMMA HasOne ==
    ASSUME NEW S, IsFiniteSet(S), NEW x \in S
    PROVE  Cardinality(S) >= 1
<1>1. Cardinality(S) \in Nat /\ Cardinality(S) # 0
  BY FS_EmptySet, FS_CardinalityType
<1> QED
  BY <1>1

LEMMA QueriesCheck ==
    ASSUME QueriesInv, NEW ip \in IPs, Queries!CheckIP(ip)
    PROVE  QueriesInv'
<1> USE QueriesInv
<1> DEFINE q == Queries!Query(ip)
<1>1. PICK t \in Queries!Trimmed(ip) :
        LET entry == Queries!Entry(t, ip)
            under == entry.count <= PerIP
            total == IF Queries!NewWindow(globalTime) THEN 1 ELSE globalCount + 1
            ok == under /\ total <= Global
        IN  /\ tree' = [i \in DOMAIN t \cup {ip} |-> IF i = ip THEN entry ELSE t[i]]
            /\ IF under
               THEN /\ globalCount' = total
                    /\ globalTime' = IF Queries!NewWindow(globalTime) THEN curTime ELSE globalTime
               ELSE globalCount' = globalCount /\ globalTime' = globalTime
            /\ passed' = IF ok THEN passed \cup {q} ELSE passed
            /\ last' = [ip |-> ip, ok |-> ok]
            /\ counted' = IF under THEN counted \cup {q} ELSE counted
  BY DEF Queries!CheckIP, Queries!Counted
<1>2. /\ asked' = asked \cup {q} /\ queries' = queries + 1 /\ queries < MaxQueries
      /\ curTime' = curTime
  BY DEF Queries!CheckIP
<1> DEFINE entry == Queries!Entry(t, ip)
           under == entry.count <= PerIP
           total == IF curTime - globalTime > Window THEN 1 ELSE globalCount + 1
           start == IF curTime - globalTime > Window THEN curTime ELSE globalTime
           ok == under /\ total <= Global
<1>3. /\ tree' = [i \in DOMAIN t \cup {ip} |-> IF i = ip THEN entry ELSE t[i]]
      /\ under => globalCount' = total /\ globalTime' = start
      /\ ~under => globalCount' = globalCount /\ globalTime' = globalTime
      /\ passed' = IF ok THEN passed \cup {q} ELSE passed
      /\ last' = [ip |-> ip, ok |-> ok]
      /\ counted' = IF under THEN counted \cup {q} ELSE counted
  BY <1>1 DEF Queries!NewWindow
<1>4. /\ DOMAIN t \subseteq DOMAIN tree
      /\ \A i \in DOMAIN t : t[i] = tree[i]
      /\ \A i \in DOMAIN tree : i \notin DOMAIN t =>
            i # ip /\ curTime - tree[i].lastTime > FLUSH_TIMEOUT
  BY TrimmedIs
<1>5. q \in Timed /\ q \notin asked /\ q.ip = ip /\ q.time = curTime
      /\ q.no = 1 + Cardinality(SameSecond(ip))
  BY QueryIsNew
<1>6. entry = IF ip \in DOMAIN tree /\ curTime - tree[ip].lastTime <= Window
              THEN [lastTime |-> tree[ip].lastTime, count |-> tree[ip].count + 1]
              ELSE [lastTime |-> curTime, count |-> 1]
  <2>1. ip \in DOMAIN t <=> ip \in DOMAIN tree
    BY <1>4
  <2>2. ip \in DOMAIN tree => t[ip] = tree[ip]
    BY <1>4, <2>1
  <2>3. ip \in DOMAIN tree => (~(curTime - tree[ip].lastTime > Window) <=> curTime - tree[ip].lastTime <= Window)
    BY QueriesTyped, QueryConstants
  <2> QED
    BY <2>1, <2>2, <2>3 DEF Queries!Entry, Queries!NewWindow
<1>7. entry.lastTime \in Nat /\ entry.count \in Nat /\ entry.count >= 1 /\ entry.lastTime <= curTime
      /\ entry = [lastTime |-> entry.lastTime, count |-> entry.count]
      /\ curTime - entry.lastTime <= Window
  <2>1. CASE ip \in DOMAIN tree /\ curTime - tree[ip].lastTime <= Window
    <3>1. entry = [lastTime |-> tree[ip].lastTime, count |-> tree[ip].count + 1]
      BY <1>6, <2>1
    <3>2. tree[ip].lastTime \in Nat /\ tree[ip].count \in Nat /\ tree[ip].lastTime <= curTime
      BY <2>1, QueriesTyped DEF QueriesInv, PerIPRight
    <3> HIDE DEF entry
    <3> QED
      BY <3>1, <3>2, <2>1
  <2>2. CASE ~(ip \in DOMAIN tree /\ curTime - tree[ip].lastTime <= Window)
    <3>1. entry = [lastTime |-> curTime, count |-> 1]
      BY <1>6, <2>2
    <3> HIDE DEF entry
    <3> QED
      BY <3>1, QueriesTyped, QueryConstants
  <2> QED
    BY <2>1, <2>2
<1> HIDE DEF q, entry
<1>8. Queries!TypeOK'
  <2>1. DOMAIN tree' \subseteq IPs
    BY <1>3, <1>4, QueriesTyped
  <2>2. ASSUME NEW i \in DOMAIN tree' PROVE tree'[i] \in [lastTime : Nat, count : Nat \ {0}]
    <3>1. CASE i = ip
      BY <3>1, <1>3, <1>7, <2>2
    <3>2. CASE i # ip
      <4>1. i \in DOMAIN t /\ i \in DOMAIN tree /\ tree'[i] = tree[i]
        BY <3>2, <1>3, <1>4, <2>2
      <4> QED
        BY <4>1 DEF QueriesInv, Queries!TypeOK
    <3> QED
      BY <3>1, <3>2
  <2>3. globalCount' \in Nat /\ globalTime' \in Int
    BY <1>3, QueriesTyped
  <2>4. Queries!IsFiniteSet(asked') /\ asked' \subseteq Timed
    BY <1>2, <1>5, QueriesTyped, QueriesFinite, AddOne
  <2>5. passed' \subseteq asked' /\ counted' \subseteq asked'
    BY <1>2, <1>3, QueriesTyped
  <2>6. last' \in [ip : IPs \cup {0}, ok : BOOLEAN]
    BY <1>3
  <2>7. queries' \in 0 .. MaxQueries
    BY <1>2, QueryConstants DEF QueriesInv, Queries!TypeOK
  <2> QED
    BY <2>1, <2>2, <2>3, <2>4, <2>5, <2>6, <2>7, <1>2, QueriesTyped DEF Queries!TypeOK, Timed
<1>9. AskedRight'
  <2> DEFINE Now(i) == {p \in asked' : p.ip = i /\ p.time = curTime}
  <2>1. IsFiniteSet(asked')
    BY <1>2, <1>5, QueriesTyped, AddOne
  <2>2. ASSUME NEW i PROVE IsFiniteSet(Now(i)) /\ Cardinality(SameSecond(i)) <= Cardinality(Now(i))
                           /\ Cardinality(SameSecond(i)) \in Nat /\ Cardinality(Now(i)) \in Nat
    <3>1. Now(i) \subseteq asked' /\ SameSecond(i) \subseteq Now(i)
      BY <1>2 DEF SameSecond
    <3>2. IsFiniteSet(Now(i))
      BY <2>1, <3>1, FS_Subset
    <3> HIDE DEF Now
    <3> QED
      BY <3>1, <3>2, FS_Subset, FS_CardinalityType
  <2>3. q.no <= Cardinality(Now(ip))
    <3>1. Now(ip) = SameSecond(ip) \cup {q} /\ q \notin SameSecond(ip)
      BY <1>2, <1>5 DEF SameSecond
    <3>2. IsFiniteSet(SameSecond(ip))
      BY QueriesTyped, FS_Subset DEF SameSecond
    <3>3. Cardinality(Now(ip)) = Cardinality(SameSecond(ip)) + 1
      BY <3>1, <3>2, AddOne
    <3> QED
      BY <3>3, <2>2, <1>5
  <2>4. ASSUME NEW p \in asked'
        PROVE  /\ p.time <= curTime /\ curTime - p.time <= Window
               /\ p.time = curTime => p.no <= Cardinality(Now(p.ip))
    <3>1. CASE p = q
      BY <3>1, <1>5, <2>3, QueriesTyped, QueryConstants
    <3>2. CASE p \in asked
      <4>1. p.time = curTime => p.no <= Cardinality(SameSecond(p.ip))
        BY <3>2 DEF QueriesInv, AskedRight
      <4>2. p.no \in Nat
        BY <3>2, QueriesTyped
      <4>3. /\ Cardinality(SameSecond(p.ip)) <= Cardinality(Now(p.ip))
            /\ Cardinality(SameSecond(p.ip)) \in Nat /\ Cardinality(Now(p.ip)) \in Nat
        BY <2>2
      <4>4. p.time <= curTime /\ curTime - p.time <= Window
        BY <3>2, QueriesTyped
      <4> HIDE DEF Now
      <4> QED
        BY <4>1, <4>2, <4>3, <4>4
    <3> QED
      BY <3>1, <3>2, <1>2
  <2> QED
    BY <2>4, <1>2 DEF AskedRight, SameSecond
<1>10. ASSUME NEW i \in IPs, i # ip, i \in DOMAIN t
       PROVE  /\ i \in DOMAIN tree'
              /\ tree'[i].lastTime <= curTime
              /\ WindowRight(Queries!Of(i, passed'), tree'[i].lastTime, tree'[i].count, PerIP)
              /\ curTime - tree'[i].lastTime <= Window =>
                    tree'[i].count <= Cardinality(From(tree'[i].lastTime, Queries!Of(i, asked')))
  <2>1. i \in DOMAIN tree' /\ i \in DOMAIN tree /\ tree'[i] = tree[i]
    BY <1>10, <1>3, <1>4
  <2>2. Queries!Of(i, passed') = Queries!Of(i, passed) /\ Queries!Of(i, asked') = Queries!Of(i, asked)
    BY <1>10, <1>2, <1>3, <1>5 DEF Queries!Of
  <2> QED
    BY <2>1, <2>2 DEF QueriesInv, PerIPRight
<1>11. ASSUME NEW i \in IPs, i # ip, i \notin DOMAIN t
       PROVE  /\ i \notin DOMAIN tree'
              /\ Cardinality(Queries!Of(i, passed')) <= PerIP - 1
              /\ \A p \in Queries!Of(i, passed') : p.time < curTime
  <2>1. i \notin DOMAIN tree'
    BY <1>11, <1>3
  <2>2. Queries!Of(i, passed') = Queries!Of(i, passed)
    BY <1>11, <1>3, <1>5 DEF Queries!Of
  <2>3. CASE i \notin DOMAIN tree
    BY <2>1, <2>2, <2>3 DEF QueriesInv, PerIPRight
  <2>4. CASE i \in DOMAIN tree
    <3> DEFINE s == tree[i].lastTime
               c == tree[i].count
               P == Queries!Of(i, passed)
    <3>1. s \in Nat /\ c \in Nat /\ WindowRight(P, s, c, PerIP)
      BY <2>4, QueriesTyped DEF QueriesInv, PerIPRight
    <3>2. curTime - s > Window
      BY <3>1, <2>4, <1>4, <1>11, QueriesTyped, QueryConstants
    <3>3. P \in SUBSET Timed /\ IsFiniteSet(P) /\ \A p \in P : curTime - p.time <= Window
      BY OfPart, QueriesTyped
    <3> HIDE DEF s, c, P
    <3>4. Cardinality(P) <= PerIP - 1 /\ \A p \in P : p.time < curTime
      BY <3>1, <3>2, <3>3, WindowOver, QueriesTyped, QueryConstants
    <3> QED
      BY <3>4, <2>1, <2>2 DEF P
  <2> QED
    BY <2>3, <2>4
<1>12. /\ WindowRight(Queries!Of(ip, passed'), entry.lastTime, entry.count, PerIP)
       /\ entry.count <= Cardinality(From(entry.lastTime, Queries!Of(ip, asked')))
  <2> DEFINE P == Queries!Of(ip, passed)
             Q == Queries!Of(ip, passed')
             A == Queries!Of(ip, asked)
             B == Queries!Of(ip, asked')
  <2>1. P \in SUBSET Timed /\ IsFiniteSet(P) /\ A \in SUBSET Timed /\ IsFiniteSet(A)
        /\ \A p \in P : curTime - p.time <= Window
    BY OfPart, QueriesTyped
  <2>2. /\ Q = P \/ (Q = P \cup {q} /\ entry.count <= PerIP)
        /\ B = A \cup {q} /\ q \notin A
    BY <1>2, <1>3, <1>5 DEF Queries!Of
  <2> HIDE DEF P, Q, A, B
  <2>3. CASE ip \in DOMAIN tree /\ curTime - tree[ip].lastTime <= Window
    <3> DEFINE s == tree[ip].lastTime
               c == tree[ip].count
    <3>1. /\ s \in Nat /\ c \in Nat /\ s <= curTime /\ WindowRight(P, s, c, PerIP)
          /\ c <= Cardinality(From(s, A))
      BY <2>3, QueriesTyped DEF QueriesInv, PerIPRight, P, A
    <3>2. entry.lastTime = s /\ entry.count = c + 1
      BY <1>6, <2>3
    <3>3. curTime - s <= Window
      BY <2>3
    <3> HIDE DEF s, c
    <3>4. s \in Int /\ s <= q.time /\ q.time <= s + Window
      BY <3>1, <3>3, <1>5, QueriesTyped, QueryConstants
    <3>5. Q = P \/ (Q = P \cup {q} /\ c + 1 <= PerIP)
      BY <2>2, <3>2
    <3>6. WindowRight(Q, s, c + 1, PerIP)
      BY <3>1, <3>4, <3>5, <2>1, <1>5, QueryConstants, WindowCounts
    <3>7. From(s, B) = From(s, A) \cup {q} /\ q \notin From(s, A)
      BY <2>2, <3>4 DEF From
    <3>8. Cardinality(From(s, B)) = Cardinality(From(s, A)) + 1 /\ Cardinality(From(s, A)) \in Nat
      BY <3>7, <2>1, PartsFinite, AddOne
    <3> QED
      BY <3>1, <3>2, <3>6, <3>8 DEF Q, B
  <2>4. CASE ~(ip \in DOMAIN tree /\ curTime - tree[ip].lastTime <= Window)
    <3>1. entry.lastTime = curTime /\ entry.count = 1
      BY <1>6, <2>4
    <3>2. Cardinality(P) <= PerIP - 1 /\ \A p \in P : p.time < curTime
      <4>1. CASE ip \notin DOMAIN tree
        BY <4>1 DEF QueriesInv, PerIPRight, P
      <4>2. CASE ip \in DOMAIN tree
        <5> DEFINE s == tree[ip].lastTime
                   c == tree[ip].count
        <5>1. s \in Nat /\ c \in Nat /\ WindowRight(P, s, c, PerIP)
          BY <4>2, QueriesTyped DEF QueriesInv, PerIPRight, P
        <5>2. curTime - s > Window
          BY <5>1, <2>4, <4>2, QueriesTyped, QueryConstants
        <5> HIDE DEF s, c
        <5>3. s \in Int /\ curTime \in Nat /\ PerIP \in Nat
          BY <5>1, QueriesTyped, QueryConstants
        <5> QED
          BY <5>1, <5>2, <5>3, <2>1, WindowOver
      <4> QED
        BY <4>1, <4>2
    <3>3. Q \in SUBSET (P \cup {q}) /\ \A p \in P : p.time < q.time
      BY <2>2, <3>2, <1>5
    <3>4. WindowRight(Q, q.time, 1, PerIP)
      BY <2>1, <3>2, <3>3, <1>5, QueryConstants, WindowBegins
    <3>5. {q} \subseteq From(curTime, B)
      BY <2>2, <1>5, QueriesTyped DEF From
    <3>6. IsFiniteSet(B)
      BY <2>1, <2>2, AddOne
    <3>7. Cardinality(From(curTime, B)) >= 1
      BY <3>5, <3>6, HasOne, PartsFinite
    <3> QED
      BY <3>1, <3>4, <3>7, <1>5 DEF Q, B
  <2> QED
    BY <2>3, <2>4
<1>13. PerIPRight'
  <2>1. ip \in DOMAIN tree' /\ tree'[ip] = entry
    BY <1>3
  <2>2. ip \in DOMAIN t \/ ip \notin DOMAIN t
    OBVIOUS
  <2> QED
    BY <1>2, <1>7, <1>10, <1>11, <1>12, <2>1 DEF PerIPRight
<1>14. TotalRight'
  <2>1. CASE ~under
    <3>1. /\ globalCount' = globalCount /\ globalTime' = globalTime
          /\ passed' = passed /\ counted' = counted
      BY <2>1, <1>3
    <3> QED
      BY <3>1, <1>2 DEF QueriesInv, TotalRight
  <2>2. CASE under
    <3>1. /\ globalCount' = total /\ globalTime' = start /\ counted' = counted \cup {q}
          /\ passed' = passed \/ (passed' = passed \cup {q} /\ total <= Global)
          /\ q \notin counted
      BY <2>2, <1>3, <1>5, QueriesTyped
    <3>2. CASE curTime - globalTime > Window
      <4>1. total = 1 /\ start = curTime
        BY <3>2
      <4>2. Cardinality(passed) <= Global - 1 /\ \A p \in passed : p.time < curTime
        <5>1. CASE passed = {}
          BY <5>1, FS_EmptySet, QueryConstants
        <5>2. CASE passed # {}
          <6>1. WindowRight(passed, globalTime, globalCount, Global)
            BY <5>2 DEF QueriesInv, TotalRight
          <6> QED
            BY <6>1, <3>2, WindowOver, QueriesTyped, QueryConstants
        <5> QED
          BY <5>1, <5>2
      <4>3. passed' \in SUBSET (passed \cup {q}) /\ \A p \in passed : p.time < q.time
        BY <3>1, <4>2, <1>5
      <4>4. WindowRight(passed', q.time, 1, Global)
        BY <4>2, <4>3, <1>5, QueriesTyped, QueryConstants, WindowBegins
      <4>5. {q} \subseteq From(curTime, counted') /\ IsFiniteSet(counted')
        BY <3>1, <1>5, QueriesTyped, AddOne DEF From
      <4>6. Cardinality(From(curTime, counted')) >= 1
        BY <4>5, HasOne, PartsFinite
      <4> QED
        BY <3>1, <4>1, <4>4, <4>6, <1>2, <1>5, QueriesTyped DEF TotalRight
    <3>3. CASE ~(curTime - globalTime > Window)
      <4>1. total = globalCount + 1 /\ start = globalTime
        BY <3>3
      <4>2. globalTime # -1
        BY <3>3, QueriesTyped, QueryConstants DEF QueriesInv
      <4>3. /\ globalTime \in Nat /\ globalTime <= curTime /\ curTime - globalTime <= Window
            /\ WindowRight(passed, globalTime, globalCount, Global)
            /\ globalCount <= Cardinality(From(globalTime, counted))
        BY <3>3, <4>2, QueriesTyped, QueryConstants DEF QueriesInv, TotalRight
      <4>4. globalTime \in Int /\ globalTime <= q.time /\ q.time <= globalTime + Window
        BY <4>3, <1>5, QueriesTyped, QueryConstants
      <4>5. passed' = passed \/ (passed' = passed \cup {q} /\ globalCount + 1 <= Global)
        BY <3>1, <4>1
      <4>6. WindowRight(passed', globalTime, globalCount + 1, Global)
        BY <4>3, <4>4, <4>5, <1>5, QueriesTyped, QueryConstants, WindowCounts
      <4>7. From(globalTime, counted') = From(globalTime, counted) \cup {q}
            /\ q \notin From(globalTime, counted)
        BY <3>1, <4>4 DEF From
      <4>8. /\ Cardinality(From(globalTime, counted')) = Cardinality(From(globalTime, counted)) + 1
            /\ Cardinality(From(globalTime, counted)) \in Nat
        BY <4>7, QueriesTyped, PartsFinite, AddOne
      <4> QED
        BY <3>1, <4>1, <4>3, <4>6, <4>8, <1>2, QueriesTyped DEF TotalRight
    <3> QED
      BY <3>2, <3>3
  <2> QED
    BY <2>1, <2>2
<1>15. Queries!RefusedForCause'
  <2> SUFFICES ASSUME ~ok
               PROVE  \/ Cardinality(Queries!Of(ip, asked')) > PerIP
                      \/ Cardinality(counted') > Global
    BY <1>3, QueriesCardinality DEF Queries!RefusedForCause
  <2>1. IsFiniteSet(asked') /\ IsFiniteSet(counted')
    <3>1. counted' \subseteq counted \cup {q} /\ IsFiniteSet(counted \cup {q})
      BY <1>3, <1>5, QueriesTyped, AddOne
    <3> QED
      BY <3>1, <1>2, <1>5, QueriesTyped, AddOne, FS_Subset
  <2>2. CASE ~under
    <3> DEFINE B == Queries!Of(ip, asked')
    <3>1. IsFiniteSet(B) /\ From(entry.lastTime, B) \subseteq B
      BY <2>1, FS_Subset DEF Queries!Of, From
    <3>2. Cardinality(From(entry.lastTime, B)) <= Cardinality(B) /\ Cardinality(B) \in Nat
          /\ Cardinality(From(entry.lastTime, B)) \in Nat
      BY <3>1, FS_Subset, FS_CardinalityType
    <3>3. entry.count <= Cardinality(From(entry.lastTime, B)) /\ entry.count > PerIP
      BY <2>2, <1>7, <1>12, QueryConstants
    <3> HIDE DEF B
    <3>4. Cardinality(B) > PerIP
      BY <3>2, <3>3, <1>7, QueryConstants
    <3> QED
      BY <3>4 DEF B
  <2>3. CASE under
    <3>1. globalCount' = total /\ globalTime' = start /\ total > Global /\ total \in Nat
      BY <2>3, <1>3, QueriesTyped, QueryConstants
    <3>2. start # -1 /\ curTime - start <= Window
      BY QueriesTyped, QueryConstants DEF QueriesInv
    <3>3. total <= Cardinality(From(start, counted'))
      BY <1>14, <1>2, <3>1, <3>2 DEF TotalRight
    <3>4. From(start, counted') \subseteq counted'
      BY DEF From
    <3>5. Cardinality(From(start, counted')) <= Cardinality(counted') /\ Cardinality(counted') \in Nat
          /\ Cardinality(From(start, counted')) \in Nat
      BY <3>4, <2>1, FS_Subset, FS_CardinalityType
    <3> HIDE DEF total, start
    <3> QED
      BY <3>1, <3>3, <3>5, QueryConstants
  <2> QED
    BY <2>2, <2>3
<1> QED
  BY <1>2, <1>8, <1>9, <1>13, <1>14, <1>15 DEF QueriesInv

LEMMA QueriesInit == Queries!Init => QueriesInv
<1> SUFFICES ASSUME Queries!Init PROVE QueriesInv
  OBVIOUS
<1> USE DEF Queries!Init
<1>0. DOMAIN tree = {} /\ IsFiniteSet({}) /\ Cardinality({}) = 0 /\ \A ip : Queries!Of(ip, passed) = {}
  BY FS_EmptySet DEF Queries!Of
<1>1. Queries!TypeOK
  BY <1>0, QueriesFinite, QueryConstants DEF Queries!TypeOK
<1>2. AskedRight /\ TotalRight /\ Queries!RefusedForCause
  BY DEF AskedRight, TotalRight, Queries!RefusedForCause
<1>3. PerIPRight
  <2> SUFFICES ASSUME NEW ip \in IPs
               PROVE  /\ ip \notin DOMAIN tree
                      /\ Cardinality(Queries!Of(ip, passed)) <= PerIP - 1
                      /\ \A q \in Queries!Of(ip, passed) : q.time < curTime
    BY DEF PerIPRight
  <2>1. Queries!Of(ip, passed) = {}
    BY <1>0
  <2>2. Cardinality(Queries!Of(ip, passed)) = 0
    BY <2>1, FS_EmptySet
  <2> QED
    BY <1>0, <2>1, <2>2, QueryConstants
<1> QED
  BY <1>1, <1>2, <1>3, QueryConstants DEF QueriesInv

LEMMA QueriesStep == QueriesInv /\ [Queries!Next]_queryVars => QueriesInv'
<1> SUFFICES ASSUME QueriesInv, [Queries!Next]_queryVars PROVE QueriesInv'
  OBVIOUS
<1>1. CASE UNCHANGED queryVars
  BY <1>1 DEF queryVars, QueriesInv, Queries!TypeOK, AskedRight, SameSecond, PerIPRight, TotalRight,
              Queries!RefusedForCause
<1> QED
  BY <1>1, QueriesTick, QueriesCheck DEF Queries!Next

LEMMA QueriesInvGivesTheRest == QueriesInv => LimitsHold
<1> SUFFICES ASSUME QueriesInv PROVE LimitsHold
  OBVIOUS
<1>1. ASSUME NEW ip \in IPs PROVE Cardinality(Queries!Of(ip, passed)) <= 2 * PerIP - 1
  <2> DEFINE P == Queries!Of(ip, passed)
  <2>1. P \in SUBSET Timed /\ IsFiniteSet(P)
    BY OfPart, QueriesTyped
  <2>2. CASE ip \in DOMAIN tree
    <3> DEFINE s == tree[ip].lastTime
               c == tree[ip].count
    <3>1. s \in Int /\ c \in Nat /\ WindowRight(P, s, c, PerIP) /\ PerIP \in Nat
      BY <2>2, QueriesTyped, QueryConstants DEF QueriesInv, PerIPRight
    <3> HIDE DEF s, c, P
    <3>2. Cardinality(P) <= 2 * PerIP - 1
      BY <2>1, <3>1, WindowBound
    <3> QED
      BY <3>2 DEF P
  <2>3. CASE ip \notin DOMAIN tree
    <3>1. Cardinality(P) <= PerIP - 1
      BY <2>3 DEF QueriesInv, PerIPRight
    <3>2. Cardinality(P) \in Nat
      BY <2>1, FS_CardinalityType
    <3> QED
      BY <3>1, <3>2, QueryConstants
  <2> QED
    BY <2>2, <2>3
<1>2. Cardinality(passed) <= 2 * Global - 1
  <2>1. CASE passed = {}
    BY <2>1, FS_EmptySet, QueryConstants
  <2>2. CASE passed # {}
    <3>1. WindowRight(passed, globalTime, globalCount, Global)
      BY <2>2 DEF QueriesInv, TotalRight
    <3> QED
      BY <3>1, WindowBound, QueriesTyped, QueryConstants
  <2> QED
    BY <2>1, <2>2
<1>3. Queries!PerIPBound /\ Queries!GlobalBound
  BY <1>1, <1>2, QueriesCardinality DEF Queries!PerIPBound, Queries!GlobalBound
<1> QED
  BY <1>3 DEF LimitsHold, QueriesInv

\* CheckIP never lets more of an address, nor of all together, pass in the time
\* of a window than what two windows that meet allow: whatever the addresses,
\* the limits, the window and the size of the tree.
THEOREM QueryLimitsHold == Spec => []LimitsHold
<1>1. Init => QueriesInv
  BY QueriesInit DEF Init
<1>2. QueriesInv /\ [Next]_vars => QueriesInv'
  <2>1. [Next]_vars => [Queries!Next]_queryVars
    BY DEF Next, Filtering, Limiting, Validating, vars
  <2> QED
    BY <2>1, QueriesStep
<1>3. QueriesInv => LimitsHold
  BY QueriesInvGivesTheRest
<1> QED
  BY <1>1, <1>2, <1>3, PTL DEF Spec

-----------------------------------------------------------------------------

(***************************************************************************)
(* The bans                                                                *)
(***************************************************************************)

LEMMA FiltersCardinality == \A S : Filters!Cardinality(S) = Cardinality(S)
  BY Zenon DEF Filters!Cardinality, Cardinality

Most == Filters!Max(Byte)

LEMMA BanConstants ==
    /\ Bytes \in Nat /\ Bytes >= 1 /\ Byte \subseteq Nat /\ 0 \in Byte
    /\ Most \in Byte /\ \A b \in Byte : b <= Most
    /\ \A text \in Entered : /\ text.ip \in Filters!Address
                             /\ text.cidr = -1 \/ text.cidr \in 0 .. Bytes
    /\ Minutes \subseteq Nat
    /\ \A p \in Peers : p.ip \in Filters!Address /\ p.id \in UserIDs
    /\ MAX_IPFILTERS \in Nat /\ MAX_USERFILTERS \in Nat /\ MaxMinutes \in Nat
<1>1. Most \in Byte /\ \A b \in Byte : b <= Most
  <2>1. Most = CHOOSE x \in Byte : \A y \in Byte : x >= y
    BY DEF Most, Filters!Max
  <2>2. PICK most \in Byte : \A b \in Byte : b <= most
    BY FiltersAssumption DEF Filters!BansAssumption
  <2>3. Byte \subseteq Nat
    BY FiltersAssumption DEF Filters!BansAssumption
  <2>4. \E x \in Byte : \A y \in Byte : x >= y
    BY <2>2, <2>3
  <2>5. Most \in Byte /\ \A y \in Byte : Most >= y
    BY <2>1, <2>4
  <2> QED
    BY <2>3, <2>5
<1>2. \A text \in Entered : /\ text.ip \in Filters!Address
                            /\ text.cidr = -1 \/ text.cidr \in 0 .. Bytes
  BY FiltersAssumption DEF Filters!BansAssumption, Filters!Address, Filters!NoCIDR
<1> QED
  BY <1>1, <1>2, FiltersAssumption DEF Filters!BansAssumption, Filters!Address

Rank(i, K) == Cardinality({j \in K : j <= i})

\* The places kept are those the elements of the new array come from.
LEMMA KeepingIs ==
    ASSUME NEW T, NEW list \in Seq(T), NEW K \in SUBSET DOMAIN list
    PROVE  LET kept == Filters!Keeping(list, K)
           IN  /\ kept \in Seq(T) /\ Len(kept) \in Nat /\ Len(kept) <= Len(list)
               /\ DOMAIN kept = 1 .. Len(kept)
               /\ \A n \in DOMAIN kept : \E i \in K : kept[n] = list[i]
               /\ \A i \in K : \E n \in DOMAIN kept : kept[n] = list[i]
               /\ \E e \in [DOMAIN kept -> K] :
                    /\ \A n \in DOMAIN kept : kept[n] = list[e[n]]
                    /\ \A m, n \in DOMAIN kept : e[m] = e[n] => m = n
<1> DEFINE kept == Filters!Keeping(list, K)
           c == Cardinality(K)
           r == [i \in K |-> Rank(i, K)]
           e == [n \in 1 .. c |-> CHOOSE i \in K : Rank(i, K) = n]
<1>1. DOMAIN list = 1 .. Len(list) /\ Len(list) \in Nat
  OBVIOUS
<1>2. IsFiniteSet(1 .. Len(list)) /\ Cardinality(1 .. Len(list)) = Len(list)
  <2> DEFINE l == Len(list)
  <2>1. l \in Nat
    OBVIOUS
  <2> HIDE DEF l
  <2>2. IsFiniteSet(1 .. l) /\ Cardinality(1 .. l) = l
    BY <2>1, FS_Interval
  <2> QED
    BY <2>2 DEF l
<1>3. IsFiniteSet(K) /\ c \in Nat /\ c <= Len(list)
  BY <1>1, <1>2, FS_Subset, FS_CardinalityType
<1>4. \A i \in K : i \in Nat
  BY <1>1
<1>5. ASSUME NEW i \in K PROVE Rank(i, K) \in 1 .. c
  <2> DEFINE S == {j \in K : j <= i}
  <2>1. IsFiniteSet(S) /\ Cardinality(S) \in Nat /\ Cardinality(S) <= c
    BY <1>3, FS_Subset, FS_CardinalityType
  <2>2. i \in S
    BY <1>4
  <2>3. Cardinality(S) # 0
    BY <2>1, <2>2, FS_EmptySet
  <2> QED
    BY <1>3, <2>1, <2>3 DEF Rank
<1>6. ASSUME NEW i \in K, NEW j \in K, i < j PROVE Rank(i, K) # Rank(j, K)
  <2> DEFINE S == {k \in K : k <= i}
             U == {k \in K : k <= j}
  <2>1. S \subseteq U /\ j \in U /\ j \notin S
    BY <1>4, <1>6
  <2>2. IsFiniteSet(U)
    BY <1>3, FS_Subset
  <2>3. S # U
    BY <2>1
  <2>4. Cardinality(S) # Cardinality(U)
    <3> HIDE DEF S, U
    <3> QED
      BY <2>1, <2>2, <2>3, FS_Subset
  <2> QED
    BY <2>4 DEF Rank
<1>7. \A i, j \in K : Rank(i, K) = Rank(j, K) => i = j
  BY <1>4, <1>6
<1>8. r \in Surjection(K, 1 .. c)
  <2>1. r \in Injection(K, 1 .. c)
    BY <1>5, <1>7 DEF Injection, IsInjective
  <2>2. IsFiniteSet(1 .. c) /\ Cardinality(1 .. c) = c
    BY <1>3, FS_Interval
  <2> HIDE DEF r
  <2> QED
    BY <2>1, <2>2, FS_Injection
<1>9. ASSUME NEW n \in 1 .. c PROVE e[n] \in K /\ Rank(e[n], K) = n
  <2>1. \E i \in K : Rank(i, K) = n
    BY <1>8 DEF Surjection
  <2> QED
    BY <2>1
<1>10. kept = [n \in 1 .. c |-> list[e[n]]]
  <2>1. kept = [n \in 1 .. c |-> list[CHOOSE i \in K : Rank(i, K) = n]]
    BY Zenon DEF Filters!Keeping, Filters!Cardinality, Cardinality, Rank
  <2> QED
    BY <2>1
<1> HIDE DEF e, r, c, kept
<1>11. kept \in Seq(T) /\ DOMAIN kept = 1 .. c /\ Len(kept) = c
  BY <1>3, <1>9, <1>10
<1>12. ASSUME NEW i \in K PROVE \E n \in 1 .. c : kept[n] = list[i]
  <2>1. Rank(i, K) \in 1 .. c
    BY <1>5
  <2>2. e[Rank(i, K)] = i
    BY <2>1, <1>7, <1>9
  <2> QED
    BY <2>1, <2>2, <1>10
<1>13. e \in [1 .. c -> K] /\ \A m, n \in 1 .. c : e[m] = e[n] => m = n
  BY <1>9 DEF e
<1>14. \A n \in 1 .. c : kept[n] = list[e[n]] /\ \E i \in K : kept[n] = list[i]
  BY <1>9, <1>10
<1>15. \E f \in [DOMAIN kept -> K] :
          /\ \A n \in DOMAIN kept : kept[n] = list[f[n]]
          /\ \A m, n \in DOMAIN kept : f[m] = f[n] => m = n
  BY <1>11, <1>13, <1>14
<1>16. Len(kept) \in Nat /\ Len(kept) <= Len(list) /\ DOMAIN kept = 1 .. Len(kept)
  BY <1>3, <1>11 DEF c
<1> QED
  BY <1>11, <1>12, <1>14, <1>15, <1>16 DEF kept

\* Some ban that stands catches ip.
Caught(list, ip) ==
    \E i \in DOMAIN list : Filters!Stands(list[i]) /\ Filters!Matches(ip, list[i].filter)

IPBan == [filter : Filters!Filter, banEndTime : Nat]
UserBan == [userid : UserIDs, banEndTime : Nat]

LEMMA HitIsCaught ==
    ASSUME NEW list \in Seq(IPBan), NEW ip
    PROVE  Filters!Hit(list, ip) # 0 <=> Caught(list, ip)
<1> DEFINE S == {i \in DOMAIN list : Filters!Stands(list[i]) /\ Filters!Matches(ip, list[i].filter)}
           H == {0} \cup S
           h == Filters!Hit(list, ip)
<1> DEFINE n == Len(list)
<1>1. DOMAIN list = 1 .. n /\ n \in Nat
  OBVIOUS
<1>2. h = CHOOSE x \in H : \A y \in H : x >= y
  BY DEF Filters!Hit, Filters!Max
<1>3. S \subseteq 1 .. n /\ H \subseteq 0 .. n /\ H # {}
  BY <1>1
<1>4. S # {} <=> Caught(list, ip)
  BY DEF Caught
<1> HIDE DEF S, h, n
<1>5. \E x \in H : \A y \in H : x >= y
  <2> HIDE DEF H
  <2> QED
    BY <1>1, <1>3, FiniteNatsHaveGreatest
<1>6. h \in H /\ \A y \in H : h >= y
  BY <1>2, <1>5
<1>7. h # 0 <=> S # {}
  <2>1. CASE S = {}
    BY <2>1, <1>6
  <2>2. CASE S # {}
    <3>1. PICK s \in S : TRUE
      BY <2>2
    <3>2. s \in 1 .. n /\ h \in 0 .. n /\ h >= s
      BY <3>1, <1>3, <1>6
    <3> QED
      BY <3>2, <2>2, <1>1
  <2> QED
    BY <2>1, <2>2
<1> QED
  BY <1>4, <1>7 DEF h

LEMMA UserHitIs ==
    ASSUME userfilters \in Seq(UserBan), NEW id
    PROVE  Filters!UserHit(id) # 0 <=>
             \E i \in DOMAIN userfilters :
                userfilters[i].userid = id /\ Filters!Running(userfilters[i].banEndTime)
<1> DEFINE S == {i \in DOMAIN userfilters :
                    userfilters[i].userid = id /\ Filters!Running(userfilters[i].banEndTime)}
           H == {0} \cup S
           h == Filters!UserHit(id)
<1> DEFINE n == Len(userfilters)
<1>1. DOMAIN userfilters = 1 .. n /\ n \in Nat
  OBVIOUS
<1>2. h = CHOOSE x \in H : \A y \in H : x >= y
  BY DEF Filters!UserHit, Filters!Max
<1>3. S \subseteq 1 .. n /\ H \subseteq 0 .. n /\ H # {}
  BY <1>1
<1>4. S # {} <=> \E i \in DOMAIN userfilters :
                    userfilters[i].userid = id /\ Filters!Running(userfilters[i].banEndTime)
  OBVIOUS
<1> HIDE DEF S, h, n
<1>5. \E x \in H : \A y \in H : x >= y
  <2> HIDE DEF H
  <2> QED
    BY <1>1, <1>3, FiniteNatsHaveGreatest
<1>6. h \in H /\ \A y \in H : h >= y
  BY <1>2, <1>5
<1>7. h # 0 <=> S # {}
  <2>1. CASE S = {}
    BY <2>1, <1>6
  <2>2. CASE S # {}
    <3>1. PICK s \in S : TRUE
      BY <2>2
    <3>2. s \in 1 .. n /\ h \in 0 .. n /\ h >= s
      BY <3>1, <1>3, <1>6
    <3> QED
      BY <3>2, <2>2, <1>1
  <2> QED
    BY <2>1, <2>2
<1> QED
  BY <1>4, <1>7 DEF h

\* What a search leaves of an array of filters: all that stands.
LEMMA SearchedIs ==
    ASSUME NEW list \in Seq(IPBan), NEW ips
    PROVE  \E K \in SUBSET DOMAIN list :
             /\ \A i \in DOMAIN list : Filters!Stands(list[i]) => i \in K
             /\ Filters!Searched(list, ips) = list \/ Filters!Searched(list, ips) = Filters!Keeping(list, K)
<1> DEFINE K == {i \in DOMAIN list :
                    i <= Filters!Min({Filters!Hit(list, ip) : ip \in ips}) \/ Filters!Stands(list[i])}
<1>1. /\ K \in SUBSET DOMAIN list
      /\ \A i \in DOMAIN list : Filters!Stands(list[i]) => i \in K
  OBVIOUS
<1>2. Filters!Searched(list, ips) = list \/ Filters!Searched(list, ips) = Filters!Keeping(list, K)
  BY DEF Filters!Searched
<1> QED
  BY <1>1, <1>2

LEMMA AddressesAreTyped ==
    ASSUME NEW ip \in Filters!Address, NEW mask \in 0 .. Bytes
    PROVE  /\ Filters!Masked(ip, mask) \in Filters!Address
           /\ Filters!Masked(Filters!Masked(ip, mask), mask) = Filters!Masked(ip, mask)
           /\ Filters!IPToMask(ip) \in 0 .. Bytes
<1>1. /\ Filters!Masked(ip, mask) \in Filters!Address
      /\ Filters!Masked(Filters!Masked(ip, mask), mask) = Filters!Masked(ip, mask)
  BY BanConstants DEF Filters!Masked, Filters!Address
<1> DEFINE H == {0} \cup {i \in 1 .. Bytes : ip[i] # 0}
<1>2. Filters!IPToMask(ip) = CHOOSE x \in H : \A y \in H : x >= y
  BY DEF Filters!IPToMask, Filters!Max
<1>3. H \subseteq 0 .. Bytes /\ H # {}
  BY BanConstants
<1> HIDE DEF H
<1>4. \E x \in H : \A y \in H : x >= y
  BY <1>3, BanConstants, FiniteNatsHaveGreatest
<1>5. Filters!IPToMask(ip) \in H
  BY <1>2, <1>4
<1> QED
  BY <1>1, <1>3, <1>5

LEMMA StringToFilterIs ==
    ASSUME NEW text \in [ip : Filters!Address, cidr : {-1} \cup 0 .. Bytes]
    PROVE  Filters!StringToFilter(text) \in Filters!Filter
<1> DEFINE mask == IF text.cidr = -1 THEN Filters!IPToMask(text.ip) ELSE text.cidr
<1>1. mask \in 0 .. Bytes /\ text.ip \in Filters!Address
  BY AddressesAreTyped, BanConstants
<1>2. Filters!StringToFilter(text) = [mask |-> mask, compare |-> Filters!Masked(text.ip, mask)]
  BY DEF Filters!StringToFilter, Filters!NoCIDR
<1> HIDE DEF mask
<1>3. /\ Filters!Masked(text.ip, mask) \in Filters!Address
      /\ Filters!Masked(Filters!Masked(text.ip, mask), mask) = Filters!Masked(text.ip, mask)
  BY <1>1, AddressesAreTyped
<1> QED
  BY <1>1, <1>2, <1>3 DEF Filters!Filter

\* What is written of a filter gives it back.
LEMMA WrittenAndRead ==
    ASSUME NEW f \in Filters!Filter
    PROVE  /\ Filters!FilterToString(f) \in [ip : Filters!Address, cidr : {-1} \cup 0 .. Bytes]
           /\ Filters!StringToFilter(Filters!FilterToString(f)) = f
<1> DEFINE text == Filters!FilterToString(f)
<1>1. /\ f = [mask |-> f.mask, compare |-> f.compare] /\ f.mask \in 0 .. Bytes
      /\ f.compare \in Filters!Address /\ f.compare = Filters!Masked(f.compare, f.mask)
  BY DEF Filters!Filter
<1>2. text = [ip |-> f.compare,
              cidr |-> IF f.mask = Filters!IPToMask(f.compare) THEN -1 ELSE f.mask]
  BY DEF Filters!FilterToString, Filters!NoCIDR
<1> HIDE DEF text
<1>3. text \in [ip : Filters!Address, cidr : {-1} \cup 0 .. Bytes]
  BY <1>1, <1>2
<1>4. (IF text.cidr = -1 THEN Filters!IPToMask(text.ip) ELSE text.cidr) = f.mask
  BY <1>1, <1>2
<1>5. Filters!StringToFilter(text) = [mask |-> f.mask, compare |-> Filters!Masked(text.ip, f.mask)]
  BY <1>4 DEF Filters!StringToFilter, Filters!NoCIDR
<1>6. Filters!Masked(text.ip, f.mask) = f.compare
  BY <1>1, <1>2
<1> QED
  BY <1>1, <1>3, <1>5, <1>6 DEF text

\* The filter on all ones, which stands for ever, catches no other address.
LEMMA BroadcastCatchesItself ==
    ASSUME NEW f \in Filters!Filter, f.compare = Filters!Broadcast,
           NEW ip \in Filters!Address, Filters!Matches(ip, f)
    PROVE  ip = Filters!Broadcast
<1>1. /\ f.mask \in 0 .. Bytes /\ Filters!Masked(ip, f.mask) = Filters!Broadcast
  BY DEF Filters!Filter, Filters!Matches
<1>2. Filters!Broadcast = [i \in 1 .. Bytes |-> Most]
  BY DEF Filters!Broadcast, Most
<1>3. ASSUME NEW i \in 1 .. Bytes PROVE ip[i] = Most
  <2>0. Filters!Masked(ip, f.mask)[i] = IF i <= f.mask THEN ip[i] ELSE 0
    BY DEF Filters!Masked
  <2>1. Filters!Masked(ip, f.mask)[i] = Most
    BY <1>1, <1>2
  <2>2. CASE i <= f.mask
    BY <2>0, <2>1, <2>2
  <2>3. CASE ~(i <= f.mask)
    <3>1. Most = 0
      BY <2>0, <2>1, <2>3
    <3>2. ip[i] \in Byte
      BY DEF Filters!Address
    <3>3. ip[i] \in Nat
      BY <3>2, BanConstants
    <3>4. ip[i] <= Most
      BY <3>2, BanConstants
    <3> QED
      BY <3>1, <3>3, <3>4
  <2> QED
    BY <2>2, <2>3
<1> QED
  BY <1>2, <1>3 DEF Filters!Address

-----------------------------------------------------------------------------

\* The array list says what fn says was asked for: each filter once, with
\* the end asked for, and all whose time is not over.
IPsRight(list, fn) ==
    /\ \A i, j \in DOMAIN list : list[i].filter = list[j].filter => i = j
    /\ \A i \in DOMAIN list :
        list[i].filter \in DOMAIN fn /\ fn[list[i].filter] = list[i].banEndTime
    /\ \A f \in DOMAIN fn : fn[f] \in Nat
    /\ \A f \in DOMAIN fn :
        Filters!Running(fn[f]) => \E i \in DOMAIN list : list[i].filter = f

UsersRight(list, fn) ==
    /\ \A i, j \in DOMAIN list : list[i].userid = list[j].userid => i = j
    /\ \A i \in DOMAIN list :
        list[i].userid \in DOMAIN fn /\ fn[list[i].userid] = list[i].banEndTime
    /\ \A id \in DOMAIN fn : fn[id] \in Nat
    /\ \A id \in DOMAIN fn :
        Filters!Running(fn[id]) => \E i \in DOMAIN list : list[i].userid = id

\* The files name what was to be written, each filter and user once.
FilesRight ==
    /\ Len(listip) <= MAX_IPFILTERS /\ Len(banned) <= MAX_USERFILTERS
    /\ \A i, j \in DOMAIN listip :
        Filters!StringToFilter(listip[i]) = Filters!StringToFilter(listip[j]) => i = j
    /\ \A i \in DOMAIN listip : Filters!StringToFilter(listip[i]) \in written.ip
    /\ \A f \in written.ip : \E i \in DOMAIN listip : Filters!StringToFilter(listip[i]) = f
    /\ \A i, j \in DOMAIN banned : banned[i] = banned[j] => i = j
    /\ \A i \in DOMAIN banned : banned[i] \in written.user
    /\ \A id \in written.user : \E i \in DOMAIN banned : banned[i] = id

\* Whoever is not out and banned was spared.
SparedRight ==
    sv_filterban = 1 =>
        \A p \in Peers : stage[p] # "out" /\ Caught(ipfilters, p.ip) => p \in spared

BansInv ==
    /\ Filters!TypeOK
    /\ IPsRight(ipfilters, askedIP)
    /\ UsersRight(userfilters, askedUser)
    /\ FilesRight
    /\ SparedRight

LEMMA ElementIn == ASSUME NEW S, NEW s \in Seq(S), NEW i \in DOMAIN s PROVE s[i] \in S
  OBVIOUS

\* What is in the arrays.
LEMMA IPBanIs ==
    ASSUME NEW list \in Seq(IPBan), NEW i \in DOMAIN list
    PROVE  list[i].filter \in Filters!Filter /\ list[i].banEndTime \in Nat
<1>1. list[i] \in IPBan
  BY ElementIn
<1> QED
  BY <1>1 DEF IPBan

LEMMA UserBanIs ==
    ASSUME NEW list \in Seq(UserBan), NEW i \in DOMAIN list
    PROVE  list[i].userid \in UserIDs /\ list[i].banEndTime \in Nat
<1>1. list[i] \in UserBan
  BY ElementIn
<1> QED
  BY <1>1 DEF UserBan

LEMMA BansTyped ==
    ASSUME BansInv
    PROVE  /\ ipfilters \in Seq(IPBan) /\ Len(ipfilters) <= MAX_IPFILTERS
           /\ userfilters \in Seq(UserBan) /\ Len(userfilters) <= MAX_USERFILTERS
           /\ sv_filterban \in FilterModes /\ minutes \in Nat /\ minutes <= MaxMinutes
           /\ stage \in [Peers -> {"out", "connecting", "in"}]
           /\ listip \in Seq([ip : Filters!Address, cidr : {-1} \cup 0 .. Bytes])
           /\ banned \in Seq(UserIDs)
           /\ written \in [ip : SUBSET Filters!Filter, user : SUBSET UserIDs]
           /\ DOMAIN askedIP \subseteq Filters!Filter /\ DOMAIN askedUser \subseteq UserIDs
           /\ spared \subseteq Peers
  BY BanConstants DEF BansInv, Filters!TypeOK, IPBan, UserBan, Filters!NoCIDR

\* Some are taken out of an array, and of what was asked for nothing that
\* runs but what is not in the array any more.
LEMMA IPsKept ==
    ASSUME NEW list \in Seq(IPBan), NEW K \in SUBSET DOMAIN list, NEW fn, NEW gn,
           IPsRight(list, fn), DOMAIN gn \subseteq DOMAIN fn, \A f \in DOMAIN gn : gn[f] = fn[f],
           \A i \in K : list[i].filter \in DOMAIN gn,
           \A i \in DOMAIN list :
                list[i].filter \in DOMAIN gn /\ Filters!Running(list[i].banEndTime) => i \in K
    PROVE  IPsRight(Filters!Keeping(list, K), gn)
<1> DEFINE kept == Filters!Keeping(list, K)
<1>1. /\ \A n \in DOMAIN kept : \E i \in K : kept[n] = list[i]
      /\ \A i \in K : \E n \in DOMAIN kept : kept[n] = list[i]
      /\ \E e \in [DOMAIN kept -> K] :
            /\ \A n \in DOMAIN kept : kept[n] = list[e[n]]
            /\ \A m, n \in DOMAIN kept : e[m] = e[n] => m = n
  BY KeepingIs, ZenonT(30)
<1> HIDE DEF kept
<1>2. ASSUME NEW m \in DOMAIN kept, NEW n \in DOMAIN kept, kept[m].filter = kept[n].filter
      PROVE  m = n
  <2>1. PICK e \in [DOMAIN kept -> K] :
            /\ \A k \in DOMAIN kept : kept[k] = list[e[k]]
            /\ \A k, l \in DOMAIN kept : e[k] = e[l] => k = l
    BY <1>1
  <2>2. e[m] \in DOMAIN list /\ e[n] \in DOMAIN list /\ list[e[m]].filter = list[e[n]].filter
    BY <1>2, <2>1
  <2>3. e[m] = e[n]
    BY <2>2 DEF IPsRight
  <2> QED
    BY <2>1, <2>3
<1>3. ASSUME NEW n \in DOMAIN kept
      PROVE  kept[n].filter \in DOMAIN gn /\ gn[kept[n].filter] = kept[n].banEndTime
  <2>1. PICK i \in K : kept[n] = list[i]
    BY <1>1
  <2>2. list[i].filter \in DOMAIN gn /\ fn[list[i].filter] = list[i].banEndTime
    BY <2>1 DEF IPsRight
  <2> QED
    BY <2>1, <2>2
<1>4. \A f \in DOMAIN gn : gn[f] \in Nat
  BY DEF IPsRight
<1>5. ASSUME NEW f \in DOMAIN gn, Filters!Running(gn[f])
      PROVE  \E n \in DOMAIN kept : kept[n].filter = f
  <2>1. PICK i \in DOMAIN list : list[i].filter = f
    BY <1>5 DEF IPsRight
  <2>2. list[i].banEndTime = gn[f]
    BY <2>1 DEF IPsRight
  <2>3. i \in K
    BY <1>5, <2>1, <2>2
  <2> QED
    BY <1>1, <2>1, <2>3
<1> QED
  BY <1>2, <1>3, <1>4, <1>5 DEF IPsRight, kept

LEMMA UsersKept ==
    ASSUME NEW list \in Seq(UserBan), NEW K \in SUBSET DOMAIN list, NEW fn, NEW gn,
           UsersRight(list, fn), DOMAIN gn \subseteq DOMAIN fn, \A id \in DOMAIN gn : gn[id] = fn[id],
           \A i \in K : list[i].userid \in DOMAIN gn,
           \A i \in DOMAIN list :
                list[i].userid \in DOMAIN gn /\ Filters!Running(list[i].banEndTime) => i \in K
    PROVE  UsersRight(Filters!Keeping(list, K), gn)
<1> DEFINE kept == Filters!Keeping(list, K)
<1>1. /\ \A n \in DOMAIN kept : \E i \in K : kept[n] = list[i]
      /\ \A i \in K : \E n \in DOMAIN kept : kept[n] = list[i]
      /\ \E e \in [DOMAIN kept -> K] :
            /\ \A n \in DOMAIN kept : kept[n] = list[e[n]]
            /\ \A m, n \in DOMAIN kept : e[m] = e[n] => m = n
  BY KeepingIs, ZenonT(30)
<1> HIDE DEF kept
<1>2. ASSUME NEW m \in DOMAIN kept, NEW n \in DOMAIN kept, kept[m].userid = kept[n].userid
      PROVE  m = n
  <2>1. PICK e \in [DOMAIN kept -> K] :
            /\ \A k \in DOMAIN kept : kept[k] = list[e[k]]
            /\ \A k, l \in DOMAIN kept : e[k] = e[l] => k = l
    BY <1>1
  <2>2. e[m] \in DOMAIN list /\ e[n] \in DOMAIN list /\ list[e[m]].userid = list[e[n]].userid
    BY <1>2, <2>1
  <2>3. e[m] = e[n]
    BY <2>2 DEF UsersRight
  <2> QED
    BY <2>1, <2>3
<1>3. ASSUME NEW n \in DOMAIN kept
      PROVE  kept[n].userid \in DOMAIN gn /\ gn[kept[n].userid] = kept[n].banEndTime
  <2>1. PICK i \in K : kept[n] = list[i]
    BY <1>1
  <2>2. list[i].userid \in DOMAIN gn /\ fn[list[i].userid] = list[i].banEndTime
    BY <2>1 DEF UsersRight
  <2> QED
    BY <2>1, <2>2
<1>4. \A id \in DOMAIN gn : gn[id] \in Nat
  BY DEF UsersRight
<1>5. ASSUME NEW id \in DOMAIN gn, Filters!Running(gn[id])
      PROVE  \E n \in DOMAIN kept : kept[n].userid = id
  <2>1. PICK i \in DOMAIN list : list[i].userid = id
    BY <1>5 DEF UsersRight
  <2>2. list[i].banEndTime = gn[id]
    BY <2>1 DEF UsersRight
  <2>3. i \in K
    BY <1>5, <2>1, <2>2
  <2> QED
    BY <1>1, <2>1, <2>3
<1> QED
  BY <1>2, <1>3, <1>4, <1>5 DEF UsersRight, kept

\* The same two arrays, a ban put behind the others or one of them renewed.
LEMMA IPsAppended ==
    ASSUME NEW list \in Seq(IPBan), NEW fn, IPsRight(list, fn), NEW f \in Filters!Filter, NEW end \in Nat,
           \A i \in DOMAIN list : list[i].filter # f
    PROVE  IPsRight(Append(list, [filter |-> f, banEndTime |-> end]), Filters!Asked(fn, f, end))
<1> DEFINE longer == Append(list, [filter |-> f, banEndTime |-> end])
           gn == Filters!Asked(fn, f, end)
           l == Len(list)
<1>1. l \in Nat /\ DOMAIN list = 1 .. l /\ DOMAIN longer = 1 .. l + 1
  OBVIOUS
<1>2. /\ \A i \in 1 .. l : longer[i] = list[i]
      /\ longer[l + 1].filter = f /\ longer[l + 1].banEndTime = end
  OBVIOUS
<1>3. DOMAIN gn = DOMAIN fn \cup {f} /\ \A g \in DOMAIN gn : gn[g] = IF g = f THEN end ELSE fn[g]
  BY DEF Filters!Asked
<1> HIDE DEF longer, gn, l
<1>4. \A i \in 1 .. l + 1 : i \in 1 .. l \/ i = l + 1
  BY <1>1
<1>5. \A i, j \in DOMAIN longer : longer[i].filter = longer[j].filter => i = j
  BY <1>1, <1>2, <1>4 DEF IPsRight
<1>6. \A i \in DOMAIN longer : longer[i].filter \in DOMAIN gn /\ gn[longer[i].filter] = longer[i].banEndTime
  BY <1>1, <1>2, <1>3, <1>4 DEF IPsRight
<1>7. \A g \in DOMAIN gn : gn[g] \in Nat
  BY <1>3 DEF IPsRight
<1>8. ASSUME NEW g \in DOMAIN gn, Filters!Running(gn[g])
      PROVE  \E i \in DOMAIN longer : longer[i].filter = g
  <2>0. l + 1 \in 1 .. l + 1 /\ \A i \in 1 .. l : i \in 1 .. l + 1
    BY <1>1
  <2>1. CASE g = f
    BY <2>0, <2>1, <1>1, <1>2
  <2>2. CASE g # f
    <3>1. \E i \in 1 .. l : list[i].filter = g
      BY <2>2, <1>1, <1>3, <1>8 DEF IPsRight
    <3> QED
      BY <3>1, <2>0, <1>1, <1>2
  <2> QED
    BY <2>1, <2>2
<1> QED
  BY <1>5, <1>6, <1>7, <1>8 DEF IPsRight, longer, gn

LEMMA IPsRenewed ==
    ASSUME NEW list \in Seq(IPBan), NEW fn, IPsRight(list, fn), NEW k \in DOMAIN list,
           NEW f, list[k].filter = f, NEW end \in Nat
    PROVE  IPsRight([list EXCEPT ![k] = [filter |-> f, banEndTime |-> end]], Filters!Asked(fn, f, end))
<1> DEFINE new == [list EXCEPT ![k] = [filter |-> f, banEndTime |-> end]]
           gn == Filters!Asked(fn, f, end)
<1>1. /\ DOMAIN new = DOMAIN list
      /\ \A i \in DOMAIN list : new[i].filter = list[i].filter
      /\ \A i \in DOMAIN list : i # k => new[i].banEndTime = list[i].banEndTime
      /\ new[k].banEndTime = end
  OBVIOUS
<1>2. DOMAIN gn = DOMAIN fn \cup {f} /\ \A g \in DOMAIN gn : gn[g] = IF g = f THEN end ELSE fn[g]
  BY DEF Filters!Asked
<1> HIDE DEF new, gn
<1>3. \A i, j \in DOMAIN new : new[i].filter = new[j].filter => i = j
  BY <1>1 DEF IPsRight
<1>4. \A i \in DOMAIN new : new[i].filter \in DOMAIN gn /\ gn[new[i].filter] = new[i].banEndTime
  BY <1>1, <1>2 DEF IPsRight
<1>5. \A g \in DOMAIN gn : gn[g] \in Nat
  BY <1>2 DEF IPsRight
<1>6. \A g \in DOMAIN gn : Filters!Running(gn[g]) => \E i \in DOMAIN new : new[i].filter = g
  BY <1>1, <1>2 DEF IPsRight
<1> QED
  BY <1>3, <1>4, <1>5, <1>6 DEF IPsRight, new, gn

LEMMA UsersAppended ==
    ASSUME NEW list \in Seq(UserBan), NEW fn, UsersRight(list, fn), NEW f \in UserIDs, NEW end \in Nat,
           \A i \in DOMAIN list : list[i].userid # f
    PROVE  UsersRight(Append(list, [userid |-> f, banEndTime |-> end]), Filters!Asked(fn, f, end))
<1> DEFINE longer == Append(list, [userid |-> f, banEndTime |-> end])
           gn == Filters!Asked(fn, f, end)
           l == Len(list)
<1>1. l \in Nat /\ DOMAIN list = 1 .. l /\ DOMAIN longer = 1 .. l + 1
  OBVIOUS
<1>2. /\ \A i \in 1 .. l : longer[i] = list[i]
      /\ longer[l + 1].userid = f /\ longer[l + 1].banEndTime = end
  OBVIOUS
<1>3. DOMAIN gn = DOMAIN fn \cup {f} /\ \A g \in DOMAIN gn : gn[g] = IF g = f THEN end ELSE fn[g]
  BY DEF Filters!Asked
<1> HIDE DEF longer, gn, l
<1>4. \A i \in 1 .. l + 1 : i \in 1 .. l \/ i = l + 1
  BY <1>1
<1>5. \A i, j \in DOMAIN longer : longer[i].userid = longer[j].userid => i = j
  BY <1>1, <1>2, <1>4 DEF UsersRight
<1>6. \A i \in DOMAIN longer : longer[i].userid \in DOMAIN gn /\ gn[longer[i].userid] = longer[i].banEndTime
  BY <1>1, <1>2, <1>3, <1>4 DEF UsersRight
<1>7. \A g \in DOMAIN gn : gn[g] \in Nat
  BY <1>3 DEF UsersRight
<1>8. ASSUME NEW g \in DOMAIN gn, Filters!Running(gn[g])
      PROVE  \E i \in DOMAIN longer : longer[i].userid = g
  <2>0. l + 1 \in 1 .. l + 1 /\ \A i \in 1 .. l : i \in 1 .. l + 1
    BY <1>1
  <2>1. CASE g = f
    BY <2>0, <2>1, <1>1, <1>2
  <2>2. CASE g # f
    <3>1. \E i \in 1 .. l : list[i].userid = g
      BY <2>2, <1>1, <1>3, <1>8 DEF UsersRight
    <3> QED
      BY <3>1, <2>0, <1>1, <1>2
  <2> QED
    BY <2>1, <2>2
<1> QED
  BY <1>5, <1>6, <1>7, <1>8 DEF UsersRight, longer, gn

LEMMA UsersRenewed ==
    ASSUME NEW list \in Seq(UserBan), NEW fn, UsersRight(list, fn), NEW k \in DOMAIN list,
           NEW f, list[k].userid = f, NEW end \in Nat
    PROVE  UsersRight([list EXCEPT ![k] = [userid |-> f, banEndTime |-> end]], Filters!Asked(fn, f, end))
<1> DEFINE new == [list EXCEPT ![k] = [userid |-> f, banEndTime |-> end]]
           gn == Filters!Asked(fn, f, end)
<1>1. /\ DOMAIN new = DOMAIN list
      /\ \A i \in DOMAIN list : new[i].userid = list[i].userid
      /\ \A i \in DOMAIN list : i # k => new[i].banEndTime = list[i].banEndTime
      /\ new[k].banEndTime = end
  OBVIOUS
<1>2. DOMAIN gn = DOMAIN fn \cup {f} /\ \A g \in DOMAIN gn : gn[g] = IF g = f THEN end ELSE fn[g]
  BY DEF Filters!Asked
<1> HIDE DEF new, gn
<1>3. \A i, j \in DOMAIN new : new[i].userid = new[j].userid => i = j
  BY <1>1 DEF UsersRight
<1>4. \A i \in DOMAIN new : new[i].userid \in DOMAIN gn /\ gn[new[i].userid] = new[i].banEndTime
  BY <1>1, <1>2 DEF UsersRight
<1>5. \A g \in DOMAIN gn : gn[g] \in Nat
  BY <1>2 DEF UsersRight
<1>6. \A g \in DOMAIN gn : Filters!Running(gn[g]) => \E i \in DOMAIN new : new[i].userid = g
  BY <1>1, <1>2 DEF UsersRight
<1> QED
  BY <1>3, <1>4, <1>5, <1>6 DEF UsersRight, new, gn

LEMMA CaughtKept ==
    ASSUME NEW list \in Seq(IPBan), NEW K \in SUBSET DOMAIN list, NEW ip
    PROVE  /\ Caught(Filters!Keeping(list, K), ip) => Caught(list, ip)
           /\ (\A i \in DOMAIN list : Filters!Stands(list[i]) => i \in K) =>
                (Caught(list, ip) => Caught(Filters!Keeping(list, K), ip))
<1> DEFINE kept == Filters!Keeping(list, K)
<1>1. /\ \A n \in DOMAIN kept : \E i \in K : kept[n] = list[i]
      /\ \A i \in K : \E n \in DOMAIN kept : kept[n] = list[i]
  BY KeepingIs
<1> HIDE DEF kept
<1>2. ASSUME Caught(kept, ip) PROVE Caught(list, ip)
  <2>1. PICK n \in DOMAIN kept : Filters!Stands(kept[n]) /\ Filters!Matches(ip, kept[n].filter)
    BY <1>2 DEF Caught
  <2>2. PICK i \in K : kept[n] = list[i]
    BY <1>1
  <2>3. Filters!Stands(list[i]) /\ Filters!Matches(ip, list[i].filter)
    BY <2>1, <2>2
  <2> QED
    BY <2>3 DEF Caught
<1>3. ASSUME \A i \in DOMAIN list : Filters!Stands(list[i]) => i \in K, Caught(list, ip)
      PROVE  Caught(kept, ip)
  <2>1. PICK i \in DOMAIN list : Filters!Stands(list[i]) /\ Filters!Matches(ip, list[i].filter)
    BY <1>3 DEF Caught
  <2>2. PICK n \in DOMAIN kept : kept[n] = list[i]
    BY <1>1, <1>3, <2>1
  <2>3. Filters!Stands(kept[n]) /\ Filters!Matches(ip, kept[n].filter)
    BY <2>1, <2>2
  <2> QED
    BY <2>3 DEF Caught
<1> QED
  BY <1>2, <1>3 DEF kept

\* A search changes neither what is caught nor what the array says.
LEMMA SearchedKeeps ==
    ASSUME NEW list \in Seq(IPBan), NEW ips, NEW fn
    PROVE  /\ Filters!Searched(list, ips) \in Seq(IPBan)
           /\ Len(Filters!Searched(list, ips)) <= Len(list)
           /\ \A ip : Caught(Filters!Searched(list, ips), ip) <=> Caught(list, ip)
           /\ IPsRight(list, fn) => IPsRight(Filters!Searched(list, ips), fn)
<1>1. PICK K \in SUBSET DOMAIN list :
        /\ \A i \in DOMAIN list : Filters!Stands(list[i]) => i \in K
        /\ Filters!Searched(list, ips) = list \/ Filters!Searched(list, ips) = Filters!Keeping(list, K)
  BY SearchedIs
<1>2. Filters!Keeping(list, K) \in Seq(IPBan) /\ Len(Filters!Keeping(list, K)) <= Len(list)
  BY KeepingIs
<1>3. \A ip : Caught(Filters!Keeping(list, K), ip) <=> Caught(list, ip)
  BY <1>1, CaughtKept
<1>4. ASSUME IPsRight(list, fn) PROVE IPsRight(Filters!Keeping(list, K), fn)
  <2>1. \A i \in K : list[i].filter \in DOMAIN fn
    BY <1>4 DEF IPsRight
  <2>2. \A i \in DOMAIN list : Filters!Running(list[i].banEndTime) => i \in K
    BY <1>1 DEF Filters!Stands
  <2> QED
    BY <1>4, <2>1, <2>2, IPsKept
<1>5. Len(list) \in Nat
  OBVIOUS
<1> QED
  BY <1>1, <1>2, <1>3, <1>4, <1>5

LEMMA SparedStays ==
    ASSUME BansInv, sv_filterban' = sv_filterban, minutes' = minutes, spared' = spared,
           \A p \in Peers : stage'[p] # "out" => stage[p] # "out",
           \A p \in Peers : Caught(ipfilters', p.ip) => Caught(ipfilters, p.ip)
    PROVE  SparedRight'
<1>1. \A p \in Peers : Caught(ipfilters, p.ip)' <=> Caught(ipfilters', p.ip)
  BY DEF Caught, Filters!Stands, Filters!Running, Filters!Matches, Filters!Masked, Filters!Broadcast
<1> QED
  BY <1>1 DEF BansInv, SparedRight

\* The types again, as what BansTyped says of the next state.
LEMMA BansRetyped ==
    ASSUME ipfilters' \in Seq(IPBan), Len(ipfilters') <= MAX_IPFILTERS,
           userfilters' \in Seq(UserBan), Len(userfilters') <= MAX_USERFILTERS,
           sv_filterban' \in FilterModes, minutes' \in Nat, minutes' <= MaxMinutes,
           stage' \in [Peers -> {"out", "connecting", "in"}],
           listip' \in Seq([ip : Filters!Address, cidr : {-1} \cup 0 .. Bytes]),
           banned' \in Seq(UserIDs),
           written' \in [ip : SUBSET Filters!Filter, user : SUBSET UserIDs],
           DOMAIN askedIP' \subseteq Filters!Filter, DOMAIN askedUser' \subseteq UserIDs,
           spared' \subseteq Peers
    PROVE  Filters!TypeOK'
<1>1. minutes' \in 0 .. MaxMinutes
  BY BanConstants
<1> QED
  BY <1>1 DEF Filters!TypeOK, IPBan, UserBan, Filters!NoCIDR, Filters!Filter, Filters!Address,
              Filters!Masked

\* In an action in which no time passes, what the next arrays say now they say then.
LEMMA BansThen ==
    ASSUME minutes' = minutes
    PROVE  /\ IPsRight(ipfilters', askedIP') => IPsRight(ipfilters, askedIP)'
           /\ UsersRight(userfilters', askedUser') => UsersRight(userfilters, askedUser)'
           /\ \A ip : Caught(ipfilters, ip)' <=> Caught(ipfilters', ip)
<1>1. IPsRight(ipfilters', askedIP') => IPsRight(ipfilters, askedIP)'
  BY DEF IPsRight, Filters!Running
<1>2. UsersRight(userfilters', askedUser') => UsersRight(userfilters, askedUser)'
  BY DEF UsersRight, Filters!Running
<1>3. \A ip : Caught(ipfilters, ip)' <=> Caught(ipfilters', ip)
  BY DEF Caught, Filters!Stands, Filters!Running, Filters!Matches, Filters!Masked, Filters!Broadcast
<1> QED
  BY <1>1, <1>2, <1>3

LEMMA FilesThen ==
    ASSUME BansInv, listip' = listip, banned' = banned, written' = written
    PROVE  FilesRight'
  BY DEF BansInv, FilesRight

LEMMA AddIPKeeps ==
    ASSUME BansInv, NEW min \in Minutes, NEW text \in Entered, Filters!AddIP(min, text)
    PROVE  BansInv'
<1> USE BansInv
<1> DEFINE f == Filters!StringToFilter(text)
           end == Filters!End(min)
<1>1. /\ Filters!RenewIP(min, f) \/ Filters!NewIP(min, f)
      /\ askedIP' = Filters!Asked(askedIP, f, end)
      /\ userfilters' = userfilters /\ sv_filterban' = sv_filterban /\ minutes' = minutes
      /\ listip' = listip /\ banned' = banned /\ written' = written /\ askedUser' = askedUser
  BY DEF Filters!AddIP, Filters!files
<1>2. f \in Filters!Filter
  <2>1. text \in [ip : Filters!Address, cidr : {-1} \cup 0 .. Bytes]
    BY FiltersAssumption DEF Filters!BansAssumption, Filters!NoCIDR, Filters!Address
  <2> QED
    BY <2>1, StringToFilterIs
<1>3. end \in Nat
  BY BanConstants, BansTyped DEF Filters!End
<1>4. DOMAIN askedIP' \subseteq Filters!Filter
  BY <1>1, <1>2, BansTyped DEF Filters!Asked
<1>5. FilesRight'
  BY <1>1, FilesThen
<1> DEFINE b == [filter |-> f, banEndTime |-> end]
<1>6. b \in IPBan
  BY <1>2, <1>3 DEF IPBan
<1> HIDE DEF f, end
<1>7. CASE Filters!RenewIP(min, f)
  <2>1. PICK i \in DOMAIN ipfilters :
          /\ ipfilters[i].filter = f
          /\ ipfilters' = [ipfilters EXCEPT ![i] = b]
          /\ spared' = spared \cup {p \in Peers : stage[p] # "out" /\ Filters!Matches(p.ip, f)}
          /\ stage' = stage
    BY <1>7 DEF Filters!RenewIP, Filters!IPPlace, end
  <2>2. ipfilters' \in Seq(IPBan) /\ Len(ipfilters') = Len(ipfilters) /\ DOMAIN ipfilters' = DOMAIN ipfilters
    BY <2>1, <1>6, BansTyped
  <2>3. Filters!TypeOK'
    BY <1>1, <1>4, <2>1, <2>2, BansTyped, BansRetyped
  <2>4. IPsRight(ipfilters', askedIP')
    BY <2>1, <1>1, <1>3, BansTyped, IPsRenewed DEF BansInv
  <2>5. SparedRight'
    <3> SUFFICES ASSUME sv_filterban = 1, NEW p \in Peers, stage[p] # "out", Caught(ipfilters', p.ip)
                 PROVE  p \in spared'
      BY <1>1, <2>1, BansThen DEF SparedRight
    <3>1. PICK k \in DOMAIN ipfilters : Filters!Stands(ipfilters'[k]) /\ Filters!Matches(p.ip, ipfilters'[k].filter)
      BY <2>2 DEF Caught
    <3>2. CASE k = i
      <4>1. ipfilters'[k].filter = f
        BY <3>2, <2>1, BansTyped
      <4> QED
        BY <4>1, <3>1, <2>1
    <3>3. CASE k # i
      <4>1. ipfilters'[k] = ipfilters[k]
        BY <3>3, <2>1, BansTyped
      <4>2. Caught(ipfilters, p.ip)
        BY <4>1, <3>1 DEF Caught
      <4> QED
        BY <4>2, <2>1 DEF BansInv, SparedRight
    <3> QED
      BY <3>2, <3>3
  <2> QED
    BY <1>1, <1>5, <2>3, <2>4, <2>5, BansThen DEF BansInv
<1>8. CASE Filters!NewIP(min, f)
  <2> DEFINE longer == Append(ipfilters, b)
             ips == {p.ip : p \in Filters!In}
  <2>1. /\ \A i \in DOMAIN ipfilters : ipfilters[i].filter # f
        /\ Len(ipfilters) < MAX_IPFILTERS
        /\ ipfilters' = Filters!Searched(longer, ips)
        /\ stage' = [p \in Peers |-> IF p \in {r \in Filters!In : Filters!SV_FilterPacket(longer, r.ip)}
                                    THEN "out" ELSE stage[p]]
        /\ spared' = (spared \ Filters!In) \cup
                        {p \in Peers : stage[p] = "connecting" /\ Filters!Matches(p.ip, f)}
    BY <1>8 DEF Filters!NewIP, Filters!IPPlace, Filters!Drop, end
  <2>2. longer \in Seq(IPBan) /\ Len(longer) = Len(ipfilters) + 1 /\ Len(ipfilters) \in Nat
    BY <1>6, BansTyped
  <2>3. IPsRight(longer, askedIP')
    BY <2>1, <1>1, <1>2, <1>3, BansTyped, IPsAppended DEF BansInv
  <2>4. \A i \in DOMAIN longer : (i \in DOMAIN ipfilters /\ longer[i] = ipfilters[i]) \/ longer[i] = b
    BY BansTyped
  <2> HIDE DEF longer, ips
  <2>5. /\ ipfilters' \in Seq(IPBan) /\ Len(ipfilters') <= Len(longer)
        /\ IPsRight(ipfilters', askedIP')
        /\ \A ip : Caught(ipfilters', ip) <=> Caught(longer, ip)
    BY <2>1, <2>2, <2>3, SearchedKeeps
  <2>6. Len(ipfilters') \in Nat /\ Len(ipfilters') <= MAX_IPFILTERS
    BY <2>1, <2>2, <2>5, BanConstants
  <2>7. Filters!TypeOK'
    <3>1. stage' \in [Peers -> {"out", "connecting", "in"}] /\ spared' \subseteq Peers
      BY <2>1, BansTyped
    <3> QED
      BY <1>1, <1>4, <2>5, <2>6, <3>1, BansTyped, BansRetyped
  <2>8. SparedRight'
    <3> SUFFICES ASSUME sv_filterban = 1, NEW p \in Peers, stage'[p] # "out", Caught(longer, p.ip)
                 PROVE  p \in spared'
      BY <1>1, <2>5, BansThen DEF SparedRight
    <3>1. p \notin Filters!In
      <4>1. Filters!SV_FilterPacket(longer, p.ip)
        BY <2>2, HitIsCaught DEF Filters!SV_FilterPacket
      <4> QED
        BY <4>1, <2>1
    <3>2. stage[p] = "connecting"
      BY <3>1, <2>1, BansTyped DEF Filters!In
    <3>3. PICK k \in DOMAIN longer : Filters!Stands(longer[k]) /\ Filters!Matches(p.ip, longer[k].filter)
      BY DEF Caught
    <3>4. CASE longer[k] = b
      BY <3>2, <3>3, <3>4, <2>1
    <3>5. CASE k \in DOMAIN ipfilters /\ longer[k] = ipfilters[k]
      <4>1. Caught(ipfilters, p.ip)
        BY <3>3, <3>5 DEF Caught
      <4> QED
        BY <4>1, <3>1, <3>2, <2>1 DEF BansInv, SparedRight
    <3> QED
      BY <3>4, <3>5, <2>4
  <2> QED
    BY <1>1, <1>5, <2>5, <2>7, <2>8, BansThen DEF BansInv
<1> QED
  BY <1>1, <1>7, <1>8

LEMMA RemoveIPKeeps ==
    ASSUME BansInv, NEW text \in Entered, NEW removeAll \in BOOLEAN, Filters!RemoveIP(text, removeAll)
    PROVE  BansInv'
<1> USE BansInv
<1> DEFINE f == Filters!StringToFilter(text)
           Goes(g) == IF removeAll THEN Filters!IsFilterIncludesAnotherFilter(f, g) ELSE g = f
           K == {i \in DOMAIN ipfilters : ~Goes(ipfilters[i].filter)}
<1>1. /\ ipfilters' = Filters!Keeping(ipfilters, K)
      /\ askedIP' = Filters!Restrict(askedIP, {g \in DOMAIN askedIP : ~Goes(g)})
      /\ userfilters' = userfilters /\ sv_filterban' = sv_filterban /\ minutes' = minutes
      /\ stage' = stage /\ listip' = listip /\ banned' = banned /\ written' = written
      /\ askedUser' = askedUser /\ spared' = spared
  BY DEF Filters!RemoveIP, Filters!files
<1>2. /\ DOMAIN askedIP' = {g \in DOMAIN askedIP : ~Goes(g)}
      /\ \A g \in DOMAIN askedIP' : askedIP'[g] = askedIP[g]
  BY <1>1 DEF Filters!Restrict
<1>3. ipfilters \in Seq(IPBan) /\ K \in SUBSET DOMAIN ipfilters
  BY BansTyped
<1>4. \A i \in K : ipfilters[i].filter \in DOMAIN askedIP'
  BY <1>2 DEF BansInv, IPsRight
<1>5. \A i \in DOMAIN ipfilters : ipfilters[i].filter \in DOMAIN askedIP' => i \in K
  BY <1>2
<1> HIDE DEF Goes, K
<1>6. /\ ipfilters' \in Seq(IPBan) /\ Len(ipfilters') <= Len(ipfilters)
      /\ Len(ipfilters') \in Nat /\ Len(ipfilters) \in Nat
      /\ \A ip : Caught(ipfilters', ip) => Caught(ipfilters, ip)
  BY <1>1, <1>3, KeepingIs, CaughtKept
<1>7. IPsRight(ipfilters', askedIP')
  BY <1>1, <1>2, <1>3, <1>4, <1>5, IPsKept DEF BansInv
<1>8. Filters!TypeOK'
  <2>1. Len(ipfilters') <= MAX_IPFILTERS
    BY <1>6, BansTyped, BanConstants
  <2> QED
    BY <2>1, <1>1, <1>2, <1>6, BansTyped, BansRetyped
<1>9. SparedRight' /\ FilesRight'
  BY <1>1, <1>6, SparedStays, FilesThen
<1> QED
  BY <1>1, <1>7, <1>8, <1>9, BansThen DEF BansInv

\* What is the same in all that leaves the filters on addresses alone.
LEMMA AddressesAlone ==
    ASSUME BansInv, ipfilters' = ipfilters, askedIP' = askedIP, sv_filterban' = sv_filterban,
           minutes' = minutes, spared' = spared,
           \A p \in Peers : stage'[p] = stage[p] \/ stage'[p] = "out"
    PROVE  IPsRight(ipfilters, askedIP)' /\ SparedRight'
<1>1. IPsRight(ipfilters', askedIP')
  BY DEF BansInv
<1> QED
  BY <1>1, BansThen, SparedStays

\* Some players may be dropped.
LEMMA Dropped ==
    ASSUME BansInv, stage' = stage \/ (\E ps : Filters!Drop(ps))
    PROVE  /\ stage' \in [Peers -> {"out", "connecting", "in"}]
           /\ \A p \in Peers : stage'[p] = stage[p] \/ stage'[p] = "out"
  BY BansTyped DEF Filters!Drop

LEMMA BanIdKeeps ==
    ASSUME BansInv, NEW min \in Minutes, NEW id \in UserIDs, NEW kick \in BOOLEAN,
           Filters!BanId(min, id, kick)
    PROVE  BansInv'
<1> USE BansInv
<1> DEFINE end == Filters!End(min)
           b == [userid |-> id, banEndTime |-> end]
<1>1. /\ \/ \E i \in DOMAIN userfilters :
              userfilters[i].userid = id /\ userfilters' = [userfilters EXCEPT ![i] = b]
         \/ /\ \A i \in DOMAIN userfilters : userfilters[i].userid # id
            /\ Len(userfilters) < MAX_USERFILTERS
            /\ userfilters' = Append(userfilters, b)
      /\ askedUser' = Filters!Asked(askedUser, id, end)
      /\ stage' = stage \/ \E ps : Filters!Drop(ps)
  BY DEF Filters!BanId, Filters!UserPlace
<1>2. /\ ipfilters' = ipfilters /\ sv_filterban' = sv_filterban /\ minutes' = minutes
      /\ listip' = listip /\ banned' = banned /\ written' = written /\ askedIP' = askedIP
      /\ spared' = spared
  BY DEF Filters!BanId, Filters!files
<1>3. end \in Nat
  BY BanConstants, BansTyped DEF Filters!End
<1>4. b \in UserBan /\ DOMAIN askedUser' \subseteq UserIDs
  BY <1>1, <1>3, BansTyped DEF UserBan, Filters!Asked
<1> HIDE DEF end
<1>5. UsersRight(userfilters', askedUser')
  <2>1. userfilters \in Seq(UserBan) /\ UsersRight(userfilters, askedUser)
    BY BansTyped DEF BansInv
  <2>2. CASE \E i \in DOMAIN userfilters :
                userfilters[i].userid = id /\ userfilters' = [userfilters EXCEPT ![i] = b]
    <3>1. PICK i \in DOMAIN userfilters :
            userfilters[i].userid = id /\ userfilters' = [userfilters EXCEPT ![i] = b]
      BY <2>2
    <3>2. UsersRight([userfilters EXCEPT ![i] = b], Filters!Asked(askedUser, id, end))
      BY <2>1, <3>1, <1>3, UsersRenewed
    <3> QED
      BY <3>1, <3>2, <1>1
  <2>3. CASE /\ \A i \in DOMAIN userfilters : userfilters[i].userid # id
             /\ userfilters' = Append(userfilters, b)
    <3>1. UsersRight(Append(userfilters, b), Filters!Asked(askedUser, id, end))
      BY <2>1, <2>3, <1>3, UsersAppended
    <3> QED
      BY <2>3, <3>1, <1>1
  <2> QED
    BY <2>2, <2>3, <1>1
<1>6. userfilters' \in Seq(UserBan) /\ Len(userfilters') <= MAX_USERFILTERS
  <2> HIDE DEF b
  <2>1. userfilters \in Seq(UserBan) /\ Len(userfilters) <= MAX_USERFILTERS /\ MAX_USERFILTERS \in Nat
    BY BansTyped, BanConstants
  <2> QED
    BY <2>1, <1>1, <1>4
<1>7. Filters!TypeOK'
  BY <1>1, <1>2, <1>4, <1>6, Dropped, BansTyped, BansRetyped
<1>8. IPsRight(ipfilters, askedIP)' /\ SparedRight' /\ FilesRight'
  BY <1>1, <1>2, Dropped, AddressesAlone, FilesThen
<1> QED
  BY <1>2, <1>5, <1>7, <1>8, BansThen DEF BansInv

\* Some bans of users are taken out.
LEMMA UsersTakenOut ==
    ASSUME BansInv, NEW K \in SUBSET DOMAIN userfilters,
           userfilters' = Filters!Keeping(userfilters, K)
    PROVE  userfilters' \in Seq(UserBan) /\ Len(userfilters') <= MAX_USERFILTERS
<1>1. userfilters \in Seq(UserBan) /\ Len(userfilters) <= MAX_USERFILTERS /\ Len(userfilters) \in Nat
  BY BansTyped
<1>2. userfilters' \in Seq(UserBan) /\ Len(userfilters') <= Len(userfilters) /\ Len(userfilters') \in Nat
  BY <1>1, KeepingIs
<1> QED
  BY <1>1, <1>2, BanConstants

LEMMA RemoveIdKeeps ==
    ASSUME BansInv, NEW k \in DOMAIN userfilters, Filters!RemoveId(k)
    PROVE  BansInv'
<1> USE BansInv
<1> DEFINE K == DOMAIN userfilters \ {k}
<1>1. /\ userfilters' = Filters!Keeping(userfilters, K)
      /\ askedUser' = Filters!Restrict(askedUser, DOMAIN askedUser \ {userfilters[k].userid})
      /\ ipfilters' = ipfilters /\ sv_filterban' = sv_filterban /\ minutes' = minutes
      /\ stage' = stage /\ listip' = listip /\ banned' = banned /\ written' = written
      /\ askedIP' = askedIP /\ spared' = spared
  BY DEF Filters!RemoveId, Filters!files
<1>2. /\ DOMAIN askedUser' = DOMAIN askedUser \ {userfilters[k].userid}
      /\ \A id \in DOMAIN askedUser' : askedUser'[id] = askedUser[id]
  BY <1>1 DEF Filters!Restrict
<1>3. userfilters \in Seq(UserBan) /\ K \in SUBSET DOMAIN userfilters
  BY BansTyped
<1>4. \A i \in K : userfilters[i].userid \in DOMAIN askedUser'
  BY <1>2 DEF BansInv, UsersRight
<1>5. \A i \in DOMAIN userfilters : userfilters[i].userid \in DOMAIN askedUser' => i \in K
  BY <1>2
<1> HIDE DEF K
<1>6. UsersRight(userfilters', askedUser')
  BY <1>1, <1>2, <1>3, <1>4, <1>5, UsersKept DEF BansInv
<1>7. Filters!TypeOK'
  BY <1>1, <1>2, <1>3, UsersTakenOut, BansTyped, BansRetyped
<1>8. IPsRight(ipfilters, askedIP)' /\ SparedRight' /\ FilesRight'
  BY <1>1, AddressesAlone, FilesThen
<1> QED
  BY <1>1, <1>6, <1>7, <1>8, BansThen DEF BansInv

LEMMA ApproveKeeps ==
    ASSUME BansInv, NEW p \in Peers, Filters!Approve(p)
    PROVE  BansInv'
<1> USE BansInv
<1> DEFINE K == Filters!UsersLeft(p.id)
<1>1. /\ userfilters' = Filters!Keeping(userfilters, K)
      /\ stage' = stage \/ \E ps : Filters!Drop(ps)
  BY DEF Filters!Approve, Filters!UsersSearched
<1>2. /\ ipfilters' = ipfilters /\ sv_filterban' = sv_filterban /\ minutes' = minutes
      /\ listip' = listip /\ banned' = banned /\ written' = written
      /\ askedIP' = askedIP /\ askedUser' = askedUser /\ spared' = spared
  BY DEF Filters!Approve, Filters!files
<1>3. /\ K \in SUBSET DOMAIN userfilters
      /\ \A i \in DOMAIN userfilters : Filters!Running(userfilters[i].banEndTime) => i \in K
  BY DEF Filters!UsersLeft
<1> HIDE DEF K
<1>4. UsersRight(userfilters', askedUser')
  <2>1. \A i \in K : userfilters[i].userid \in DOMAIN askedUser
    BY <1>3 DEF BansInv, UsersRight
  <2> QED
    BY <1>1, <1>2, <1>3, <2>1, BansTyped, UsersKept DEF BansInv
<1>5. Filters!TypeOK'
  BY <1>1, <1>2, <1>3, Dropped, UsersTakenOut, BansTyped, BansRetyped
<1>6. IPsRight(ipfilters, askedIP)' /\ SparedRight' /\ FilesRight'
  BY <1>1, <1>2, Dropped, AddressesAlone, FilesThen
<1> QED
  BY <1>2, <1>4, <1>5, <1>6, BansThen DEF BansInv

LEMMA ReadPacketKeeps ==
    ASSUME BansInv, NEW p \in Peers, Filters!ReadPacket(p)
    PROVE  BansInv'
<1> USE BansInv
<1>1. /\ ipfilters' = Filters!Searched(ipfilters, {p.ip})
      /\ \/ stage' = stage /\ spared' = spared
         \/ /\ ~Filters!SV_FilterPacket(ipfilters, p.ip) /\ stage[p] = "out"
            /\ stage' = [stage EXCEPT ![p] = "connecting"]
            /\ spared' = spared \ {p}
  BY DEF Filters!ReadPacket
<1>2. /\ userfilters' = userfilters /\ sv_filterban' = sv_filterban /\ minutes' = minutes
      /\ listip' = listip /\ banned' = banned /\ written' = written
      /\ askedIP' = askedIP /\ askedUser' = askedUser
  BY DEF Filters!ReadPacket, Filters!files
<1>3. /\ ipfilters' \in Seq(IPBan) /\ Len(ipfilters') <= Len(ipfilters)
      /\ Len(ipfilters') \in Nat /\ Len(ipfilters) \in Nat
      /\ \A ip : Caught(ipfilters', ip) <=> Caught(ipfilters, ip)
      /\ IPsRight(ipfilters', askedIP')
  <2>1. ipfilters \in Seq(IPBan) /\ IPsRight(ipfilters, askedIP)
    BY BansTyped DEF BansInv
  <2>2. /\ ipfilters' \in Seq(IPBan) /\ Len(ipfilters') <= Len(ipfilters)
        /\ \A ip : Caught(ipfilters', ip) <=> Caught(ipfilters, ip)
        /\ IPsRight(ipfilters', askedIP)
    BY <2>1, <1>1, SearchedKeeps
  <2> QED
    BY <2>1, <2>2, <1>2
<1>4. Filters!TypeOK'
  <2>1. Len(ipfilters') <= MAX_IPFILTERS
    BY <1>3, BansTyped, BanConstants
  <2>2. stage' \in [Peers -> {"out", "connecting", "in"}] /\ spared' \subseteq Peers
    BY <1>1, BansTyped
  <2> QED
    BY <1>2, <1>3, <2>1, <2>2, BansTyped, BansRetyped
<1>5. SparedRight'
  <2> SUFFICES ASSUME sv_filterban = 1, NEW r \in Peers, stage'[r] # "out", Caught(ipfilters, r.ip)
               PROVE  r \in spared'
    BY <1>2, <1>3, BansThen DEF SparedRight
  <2>1. CASE stage' = stage /\ spared' = spared
    BY <2>1 DEF BansInv, SparedRight
  <2>2. CASE /\ ~Filters!SV_FilterPacket(ipfilters, p.ip)
             /\ stage' = [stage EXCEPT ![p] = "connecting"] /\ spared' = spared \ {p}
    <3>1. ~Caught(ipfilters, p.ip)
      BY <2>2, BansTyped, HitIsCaught DEF Filters!SV_FilterPacket
    <3>2. r # p /\ stage[r] # "out"
      BY <2>2, <3>1, BansTyped
    <3> QED
      BY <2>2, <3>2 DEF BansInv, SparedRight
  <2> QED
    BY <1>1, <2>1, <2>2
<1>6. FilesRight'
  BY <1>2, FilesThen
<1>7. UsersRight(userfilters', askedUser')
  BY <1>2 DEF BansInv
<1> QED
  BY <1>2, <1>3, <1>4, <1>5, <1>6, <1>7, BansThen DEF BansInv

LEMMA StagesKeep ==
    ASSUME BansInv, NEW p \in Peers, Filters!Enter(p) \/ Filters!Leave(p)
    PROVE  BansInv'
<1> USE BansInv
<1>1. /\ ipfilters' = ipfilters /\ userfilters' = userfilters
      /\ sv_filterban' = sv_filterban /\ minutes' = minutes
      /\ listip' = listip /\ banned' = banned /\ written' = written
      /\ askedIP' = askedIP /\ askedUser' = askedUser /\ spared' = spared
  BY DEF Filters!Enter, Filters!Leave, Filters!files, Filters!bans
<1>2. /\ stage' \in [Peers -> {"out", "connecting", "in"}]
      /\ \A r \in Peers : stage'[r] # "out" => stage[r] # "out"
  <2>1. CASE Filters!Enter(p)
    BY <2>1, BansTyped DEF Filters!Enter
  <2>2. CASE Filters!Leave(p)
    BY <2>2, BansTyped DEF Filters!Leave, Filters!Drop
  <2> QED
    BY <2>1, <2>2
<1>3. Filters!TypeOK'
  BY <1>1, <1>2, BansTyped, BansRetyped
<1>4. SparedRight' /\ FilesRight'
  BY <1>1, <1>2, SparedStays, FilesThen
<1>5. IPsRight(ipfilters', askedIP') /\ UsersRight(userfilters', askedUser')
  BY <1>1 DEF BansInv
<1> QED
  BY <1>1, <1>3, <1>4, <1>5, BansThen DEF BansInv

LEMMA WriteIPKeeps == ASSUME BansInv, Filters!WriteIP PROVE BansInv'
<1> USE BansInv
<1> DEFINE K == {i \in DOMAIN ipfilters : ipfilters[i].banEndTime = 0}
           kept == Filters!Keeping(ipfilters, K)
           good == {f \in DOMAIN askedIP : askedIP[f] = 0}
           gn == [f \in good |-> askedIP[f]]
           Text == [ip : Filters!Address, cidr : {-1} \cup 0 .. Bytes]
<1>1. /\ listip' = [i \in DOMAIN kept |-> Filters!FilterToString(kept[i].filter)]
      /\ written' = [written EXCEPT !.ip = good]
  BY DEF Filters!WriteIP
<1>2. /\ ipfilters' = ipfilters /\ userfilters' = userfilters
      /\ sv_filterban' = sv_filterban /\ minutes' = minutes /\ stage' = stage
      /\ banned' = banned /\ askedIP' = askedIP /\ askedUser' = askedUser /\ spared' = spared
  BY DEF Filters!WriteIP, Filters!bans
<1>3. ipfilters \in Seq(IPBan) /\ K \in SUBSET DOMAIN ipfilters
  BY BansTyped
<1>4. IPsRight(kept, gn)
  <2>1. DOMAIN gn \subseteq DOMAIN askedIP /\ \A f \in DOMAIN gn : gn[f] = askedIP[f]
    OBVIOUS
  <2>2. \A i \in DOMAIN ipfilters :
          /\ ipfilters[i].filter \in DOMAIN askedIP
          /\ askedIP[ipfilters[i].filter] = ipfilters[i].banEndTime
    BY DEF BansInv, IPsRight
  <2>3. \A i \in DOMAIN ipfilters : ipfilters[i].filter \in DOMAIN gn <=> i \in K
    BY <2>2
  <2> HIDE DEF gn, K
  <2> QED
    BY <2>1, <2>3, <1>3, IPsKept DEF BansInv
<1>5. /\ kept \in Seq(IPBan) /\ Len(kept) \in Nat /\ Len(kept) <= Len(ipfilters)
      /\ DOMAIN kept = 1 .. Len(kept)
  BY <1>3, KeepingIs
<1>6. DOMAIN gn = good /\ \A f \in good : Filters!Running(gn[f])
  BY DEF Filters!Running
<1> HIDE DEF gn, K, kept
<1>7. ASSUME NEW i \in DOMAIN kept
      PROVE  /\ listip'[i] \in Text
             /\ Filters!StringToFilter(listip'[i]) = kept[i].filter
  <2>1. kept[i].filter \in Filters!Filter
    BY <1>5, IPBanIs
  <2> QED
    BY <2>1, <1>1, WrittenAndRead
<1>8. DOMAIN listip' = DOMAIN kept /\ listip' \in Seq(Text) /\ Len(listip') = Len(kept)
  <2> DEFINE l == Len(kept)
  <2>1. l \in Nat /\ DOMAIN kept = 1 .. l
    BY <1>5
  <2> HIDE DEF l, Text
  <2>2. listip' \in [1 .. l -> Text]
    BY <2>1, <1>1, <1>7
  <2> QED
    BY <2>1, <2>2 DEF l
<1>9. written' \in [ip : SUBSET Filters!Filter, user : SUBSET UserIDs]
      /\ written'.ip = good /\ written'.user = written.user
  BY <1>1, BansTyped
<1>10. FilesRight'
  <2>1. Len(listip') <= MAX_IPFILTERS
    BY <1>5, <1>8, BansTyped, BanConstants
  <2>2. \A i, j \in DOMAIN listip' :
          Filters!StringToFilter(listip'[i]) = Filters!StringToFilter(listip'[j]) => i = j
    BY <1>4, <1>7, <1>8 DEF IPsRight
  <2>3. \A i \in DOMAIN listip' : Filters!StringToFilter(listip'[i]) \in written'.ip
    BY <1>4, <1>6, <1>7, <1>8, <1>9 DEF IPsRight
  <2>4. \A f \in written'.ip : \E i \in DOMAIN listip' : Filters!StringToFilter(listip'[i]) = f
    BY <1>4, <1>6, <1>7, <1>8, <1>9 DEF IPsRight
  <2> QED
    BY <2>1, <2>2, <2>3, <2>4, <1>2, <1>9 DEF BansInv, FilesRight
<1>11. Filters!TypeOK'
  BY <1>2, <1>8, <1>9, BansTyped, BansRetyped
<1>12. SparedRight'
  BY <1>2, SparedStays
<1>13. IPsRight(ipfilters', askedIP') /\ UsersRight(userfilters', askedUser')
  BY <1>2 DEF BansInv
<1> QED
  BY <1>2, <1>10, <1>11, <1>12, <1>13, BansThen DEF BansInv

LEMMA WriteIdKeeps == ASSUME BansInv, Filters!WriteId PROVE BansInv'
<1> USE BansInv
<1> DEFINE K == {i \in DOMAIN userfilters : userfilters[i].banEndTime = 0}
           kept == Filters!Keeping(userfilters, K)
           good == {id \in DOMAIN askedUser : askedUser[id] = 0}
           gn == [id \in good |-> askedUser[id]]
<1>1. /\ banned' = [i \in DOMAIN kept |-> kept[i].userid]
      /\ written' = [written EXCEPT !.user = good]
  BY DEF Filters!WriteId
<1>2. /\ ipfilters' = ipfilters /\ userfilters' = userfilters
      /\ sv_filterban' = sv_filterban /\ minutes' = minutes /\ stage' = stage
      /\ listip' = listip /\ askedIP' = askedIP /\ askedUser' = askedUser /\ spared' = spared
  BY DEF Filters!WriteId, Filters!bans
<1>3. userfilters \in Seq(UserBan) /\ K \in SUBSET DOMAIN userfilters
  BY BansTyped
<1>4. UsersRight(kept, gn)
  <2>1. DOMAIN gn \subseteq DOMAIN askedUser /\ \A id \in DOMAIN gn : gn[id] = askedUser[id]
    OBVIOUS
  <2>2. \A i \in DOMAIN userfilters :
          /\ userfilters[i].userid \in DOMAIN askedUser
          /\ askedUser[userfilters[i].userid] = userfilters[i].banEndTime
    BY DEF BansInv, UsersRight
  <2>3. \A i \in DOMAIN userfilters : userfilters[i].userid \in DOMAIN gn <=> i \in K
    BY <2>2
  <2> HIDE DEF gn, K
  <2> QED
    BY <2>1, <2>3, <1>3, UsersKept DEF BansInv
<1>5. /\ kept \in Seq(UserBan) /\ Len(kept) \in Nat /\ Len(kept) <= Len(userfilters)
      /\ DOMAIN kept = 1 .. Len(kept)
  BY <1>3, KeepingIs
<1>6. DOMAIN gn = good /\ \A id \in good : Filters!Running(gn[id])
  BY DEF Filters!Running
<1> HIDE DEF gn, K, kept
<1>7. \A i \in DOMAIN kept : banned'[i] = kept[i].userid /\ kept[i].userid \in UserIDs
  BY <1>1, <1>5, UserBanIs
<1>8. DOMAIN banned' = DOMAIN kept /\ banned' \in Seq(UserIDs) /\ Len(banned') = Len(kept)
  <2> DEFINE l == Len(kept)
  <2>1. l \in Nat /\ DOMAIN kept = 1 .. l
    BY <1>5
  <2> HIDE DEF l
  <2>2. banned' \in [1 .. l -> UserIDs]
    BY <2>1, <1>1, <1>7
  <2> QED
    BY <2>1, <2>2 DEF l
<1>9. written' \in [ip : SUBSET Filters!Filter, user : SUBSET UserIDs]
      /\ written'.user = good /\ written'.ip = written.ip
  BY <1>1, BansTyped
<1>10. FilesRight'
  <2>1. Len(banned') <= MAX_USERFILTERS
    BY <1>5, <1>8, BansTyped, BanConstants
  <2>2. \A i, j \in DOMAIN banned' : banned'[i] = banned'[j] => i = j
    BY <1>4, <1>7, <1>8 DEF UsersRight
  <2>3. \A i \in DOMAIN banned' : banned'[i] \in written'.user
    BY <1>4, <1>6, <1>7, <1>8, <1>9 DEF UsersRight
  <2>4. \A id \in written'.user : \E i \in DOMAIN banned' : banned'[i] = id
    BY <1>4, <1>6, <1>7, <1>8, <1>9 DEF UsersRight
  <2> QED
    BY <2>1, <2>2, <2>3, <2>4, <1>2, <1>9 DEF BansInv, FilesRight
<1>11. Filters!TypeOK'
  BY <1>2, <1>8, <1>9, BansTyped, BansRetyped
<1>12. SparedRight'
  BY <1>2, SparedStays
<1>13. IPsRight(ipfilters', askedIP') /\ UsersRight(userfilters', askedUser')
  BY <1>2 DEF BansInv
<1> QED
  BY <1>2, <1>10, <1>11, <1>12, <1>13, BansThen DEF BansInv

LEMMA BansTickKeeps == ASSUME BansInv, Filters!Tick PROVE BansInv'
<1> USE BansInv
<1>1. /\ ipfilters' = ipfilters /\ userfilters' = userfilters
      /\ sv_filterban' = sv_filterban /\ stage' = stage
      /\ listip' = listip /\ banned' = banned /\ written' = written
      /\ askedIP' = askedIP /\ askedUser' = askedUser /\ spared' = spared
      /\ minutes < MaxMinutes /\ minutes' = minutes + 1
  BY DEF Filters!Tick, Filters!files, Filters!bans
<1>2. \A end \in Nat : (end = 0 \/ end > minutes') => (end = 0 \/ end > minutes)
  BY <1>1, BansTyped
<1>3. minutes' \in Nat /\ minutes' <= MaxMinutes
  BY <1>1, BansTyped, BanConstants
<1>4. Filters!TypeOK'
  BY <1>1, <1>3, BansTyped, BansRetyped
<1>5. IPsRight(ipfilters, askedIP)'
  BY <1>1, <1>2 DEF BansInv, IPsRight, Filters!Running
<1>6. UsersRight(userfilters, askedUser)'
  BY <1>1, <1>2 DEF BansInv, UsersRight, Filters!Running
<1>7. SparedRight'
  <2>1. ASSUME NEW p \in Peers, Caught(ipfilters, p.ip)' PROVE Caught(ipfilters, p.ip)
    <3>1. PICK i \in DOMAIN ipfilters :
            /\ \/ ipfilters[i].filter.compare = Filters!Broadcast
               \/ ipfilters[i].banEndTime = 0 \/ ipfilters[i].banEndTime > minutes'
            /\ Filters!Matches(p.ip, ipfilters[i].filter)
      BY <2>1, <1>1 DEF Caught, Filters!Stands, Filters!Running
    <3>2. ipfilters[i].banEndTime \in Nat
      BY BansTyped, IPBanIs
    <3> QED
      BY <3>1, <3>2, <1>2 DEF Caught, Filters!Stands, Filters!Running
  <2> QED
    BY <2>1, <1>1 DEF BansInv, SparedRight
<1>8. FilesRight'
  BY <1>1, FilesThen
<1> QED
  BY <1>4, <1>5, <1>6, <1>7, <1>8 DEF BansInv

LEMMA RestartKeeps == ASSUME BansInv, Filters!Restart PROVE BansInv'
<1> USE BansInv
<1> DEFINE Text == [ip : Filters!Address, cidr : {-1} \cup 0 .. Bytes]
<1>1. /\ ipfilters' = [i \in DOMAIN listip |->
                          [filter |-> Filters!StringToFilter(listip[i]), banEndTime |-> 0]]
      /\ userfilters' = [i \in DOMAIN banned |-> [userid |-> banned[i], banEndTime |-> 0]]
      /\ minutes' = 0 /\ stage' = [p \in Peers |-> "out"]
      /\ askedIP' = [f \in written.ip |-> 0] /\ askedUser' = [id \in written.user |-> 0]
      /\ spared' = {} /\ sv_filterban' = sv_filterban
      /\ listip' = listip /\ banned' = banned /\ written' = written
  BY DEF Filters!Restart, Filters!files
<1>2. /\ ipfilters' \in Seq(IPBan) /\ Len(ipfilters') = Len(listip) /\ DOMAIN ipfilters' = DOMAIN listip
  <2> DEFINE l == Len(listip)
  <2>1. l \in Nat /\ DOMAIN listip = 1 .. l /\ \A i \in 1 .. l : listip[i] \in Text
    <3>1. listip \in Seq(Text)
      BY BansTyped
    <3> HIDE DEF Text
    <3> QED
      BY <3>1, ElementIn
  <2> HIDE DEF l, Text
  <2>2. \A i \in 1 .. l : [filter |-> Filters!StringToFilter(listip[i]), banEndTime |-> 0] \in IPBan
    BY <2>1, StringToFilterIs DEF IPBan, Text
  <2>3. ipfilters' \in [1 .. l -> IPBan]
    BY <2>1, <2>2, <1>1
  <2> QED
    BY <2>1, <2>3 DEF l
<1>3. /\ userfilters' \in Seq(UserBan) /\ Len(userfilters') = Len(banned) /\ DOMAIN userfilters' = DOMAIN banned
  <2> DEFINE l == Len(banned)
  <2>1. l \in Nat /\ DOMAIN banned = 1 .. l /\ \A i \in 1 .. l : banned[i] \in UserIDs
    BY BansTyped
  <2> HIDE DEF l
  <2>2. userfilters' \in [1 .. l -> UserBan]
    BY <2>1, <1>1 DEF UserBan
  <2> QED
    BY <2>1, <2>2 DEF l
<1>4. /\ DOMAIN askedIP' = written.ip /\ \A f \in written.ip : askedIP'[f] = 0
      /\ DOMAIN askedUser' = written.user /\ \A id \in written.user : askedUser'[id] = 0
      /\ \A i \in DOMAIN listip : /\ ipfilters'[i].filter = Filters!StringToFilter(listip[i])
                                 /\ ipfilters'[i].banEndTime = 0
      /\ \A i \in DOMAIN banned : userfilters'[i].userid = banned[i] /\ userfilters'[i].banEndTime = 0
  BY <1>1
<1>5. Filters!TypeOK'
  <2>1. Len(ipfilters') <= MAX_IPFILTERS /\ Len(userfilters') <= MAX_USERFILTERS
    BY <1>2, <1>3 DEF BansInv, FilesRight
  <2>2. minutes' \in Nat /\ minutes' <= MaxMinutes
    BY <1>1, BanConstants
  <2>3. stage' \in [Peers -> {"out", "connecting", "in"}] /\ spared' \subseteq Peers
    BY <1>1
  <2> QED
    BY <1>1, <1>2, <1>3, <1>4, <2>1, <2>2, <2>3, BansTyped, BansRetyped
<1>6. IPsRight(ipfilters, askedIP)'
  BY <1>2, <1>4 DEF BansInv, FilesRight, IPsRight
<1>7. UsersRight(userfilters, askedUser)'
  BY <1>3, <1>4 DEF BansInv, FilesRight, UsersRight
<1>8. SparedRight'
  BY <1>1 DEF SparedRight
<1>9. FilesRight'
  BY <1>1, FilesThen
<1> QED
  BY <1>5, <1>6, <1>7, <1>8, <1>9 DEF BansInv

LEMMA BansInit == Filters!Init => BansInv
<1> SUFFICES ASSUME Filters!Init PROVE BansInv
  OBVIOUS
<1> USE DEF Filters!Init
<1>1. Filters!TypeOK
  BY BanConstants DEF Filters!TypeOK
<1>2. IPsRight(ipfilters, askedIP)
  BY DEF IPsRight
<1>3. UsersRight(userfilters, askedUser)
  BY DEF UsersRight
<1>4. FilesRight
  BY BanConstants DEF FilesRight
<1>5. SparedRight
  BY DEF SparedRight
<1> QED
  BY <1>1, <1>2, <1>3, <1>4, <1>5 DEF BansInv

LEMMA BansStep == BansInv /\ [Filters!Next]_filterVars => BansInv'
<1> SUFFICES ASSUME BansInv, [Filters!Next]_filterVars PROVE BansInv'
  OBVIOUS
<1>1. CASE UNCHANGED filterVars
  <2>1. /\ ipfilters' = ipfilters /\ userfilters' = userfilters
        /\ sv_filterban' = sv_filterban /\ minutes' = minutes /\ stage' = stage
        /\ listip' = listip /\ banned' = banned /\ written' = written
        /\ askedIP' = askedIP /\ askedUser' = askedUser /\ spared' = spared
    BY <1>1 DEF filterVars
  <2>2. Filters!TypeOK'
    BY <2>1, BansTyped, BansRetyped
  <2>3. SparedRight' /\ FilesRight'
    BY <2>1, SparedStays, FilesThen
  <2>4. IPsRight(ipfilters', askedIP') /\ UsersRight(userfilters', askedUser')
    BY <2>1 DEF BansInv
  <2> QED
    BY <2>1, <2>2, <2>3, <2>4, BansThen DEF BansInv
<1>2. ASSUME Filters!Next PROVE BansInv'
  BY <1>2, AddIPKeeps, BanIdKeeps, RemoveIPKeeps, RemoveIdKeeps, ReadPacketKeeps, ApproveKeeps,
     StagesKeep, WriteIPKeeps, WriteIdKeeps, BansTickKeeps, RestartKeeps DEF Filters!Next
<1> QED
  BY <1>1, <1>2

LEMMA BansInvGivesFilters == BansInv => FiltersAsAsked
<1> SUFFICES ASSUME BansInv PROVE FiltersAsAsked
  OBVIOUS
<1>1. ipfilters \in Seq(IPBan) /\ userfilters \in Seq(UserBan)
  BY BansTyped
<1>2. ASSUME NEW ip \in Filters!Address, ip # Filters!Broadcast
      PROVE  Filters!Hit(ipfilters, ip) # 0 <=>
               \E f \in DOMAIN askedIP : Filters!Running(askedIP[f]) /\ Filters!Matches(ip, f)
  <2>1. ASSUME Caught(ipfilters, ip)
        PROVE  \E f \in DOMAIN askedIP : Filters!Running(askedIP[f]) /\ Filters!Matches(ip, f)
    <3>1. PICK i \in DOMAIN ipfilters :
            Filters!Stands(ipfilters[i]) /\ Filters!Matches(ip, ipfilters[i].filter)
      BY <2>1 DEF Caught
    <3>2. ipfilters[i].filter \in Filters!Filter
      BY <1>1, IPBanIs
    <3>3. ipfilters[i].filter.compare # Filters!Broadcast
      BY <1>2, <3>1, <3>2, BroadcastCatchesItself
    <3>4. Filters!Running(ipfilters[i].banEndTime)
      BY <3>1, <3>3 DEF Filters!Stands
    <3> QED
      BY <3>1, <3>4 DEF BansInv, IPsRight
  <2>2. ASSUME NEW f \in DOMAIN askedIP, Filters!Running(askedIP[f]), Filters!Matches(ip, f)
        PROVE  Caught(ipfilters, ip)
    <3>1. PICK i \in DOMAIN ipfilters : ipfilters[i].filter = f
      BY <2>2 DEF BansInv, IPsRight
    <3>2. Filters!Running(ipfilters[i].banEndTime)
      BY <2>2, <3>1 DEF BansInv, IPsRight
    <3> QED
      BY <2>2, <3>1, <3>2 DEF Caught, Filters!Stands
  <2> QED
    BY <2>1, <2>2, <1>1, HitIsCaught
<1>3. ASSUME NEW id \in UserIDs
      PROVE  Filters!UserHit(id) # 0 <=> id \in DOMAIN askedUser /\ Filters!Running(askedUser[id])
  <2>1. Filters!UserHit(id) # 0 <=>
          \E i \in DOMAIN userfilters :
            userfilters[i].userid = id /\ Filters!Running(userfilters[i].banEndTime)
    BY <1>1, UserHitIs
  <2>2. /\ \A i \in DOMAIN userfilters :
            /\ userfilters[i].userid \in DOMAIN askedUser
            /\ askedUser[userfilters[i].userid] = userfilters[i].banEndTime
        /\ id \in DOMAIN askedUser /\ Filters!Running(askedUser[id]) =>
            \E i \in DOMAIN userfilters : userfilters[i].userid = id
    BY DEF BansInv, UsersRight
  <2> QED
    BY <2>1, <2>2
<1>4. Filters!AddressesAsAsked
  BY <1>2 DEF Filters!AddressesAsAsked
<1>5. Filters!UsersAsAsked
  BY <1>3 DEF Filters!UsersAsAsked
<1> QED
  BY <1>4, <1>5 DEF FiltersAsAsked, BansInv

LEMMA BansInvGivesSpared == BansInv => OnlyTheSparedPlay
<1> SUFFICES ASSUME BansInv, sv_filterban = 1, NEW p \in Filters!In,
                    Filters!SV_FilterPacket(ipfilters, p.ip)
             PROVE  p \in spared
  BY DEF OnlyTheSparedPlay, Filters!OnlyTheSparedPlay
<1>1. p \in Peers /\ stage[p] = "in"
  BY DEF Filters!In
<1>2. Caught(ipfilters, p.ip)
  BY BansTyped, HitIsCaught DEF Filters!SV_FilterPacket
<1> QED
  BY <1>1, <1>2 DEF BansInv, SparedRight

\* An address and a user are caught by SV_FilterPacket and SV_FilterUser exactly
\* when a ban on them was asked for, not removed, and is not over, in whatever
\* order bans are added, renewed, removed, taken out as expired in passing,
\* written and read back after a restart.
THEOREM FiltersAreAsAsked == Spec => []FiltersAsAsked
<1>1. Init => BansInv
  BY BansInit DEF Init
<1>2. BansInv /\ [Next]_vars => BansInv'
  <2>1. [Next]_vars => [Filters!Next]_filterVars
    BY DEF Next, Filtering, Limiting, Validating, vars
  <2> QED
    BY <2>1, BansStep
<1>3. BansInv => FiltersAsAsked
  BY BansInvGivesFilters
<1> QED
  BY <1>1, <1>2, <1>3, PTL DEF Spec

\* Under a banned address play only those whom SV_AddIP_f did not look at when it
\* was banned.
THEOREM OnlyTheSparedEverPlay == Spec => []OnlyTheSparedPlay
<1>1. Init => BansInv
  BY BansInit DEF Init
<1>2. BansInv /\ [Next]_vars => BansInv'
  <2>1. [Next]_vars => [Filters!Next]_filterVars
    BY DEF Next, Filtering, Limiting, Validating, vars
  <2> QED
    BY <2>1, BansStep
<1>3. BansInv => OnlyTheSparedPlay
  BY BansInvGivesSpared
<1> QED
  BY <1>1, <1>2, <1>3, PTL DEF Spec

(***************************************************************************)
(* Sessions                                                                *)
(***************************************************************************)

(* What is true of one slot on level n of a server in state st.  Beyond    *)
(* the invariants it says why they last: a player in the game has private  *)
(* data, so that SV_SpawnServer reports it; a slot still marked spawned    *)
(* was spawned on this level, so that "sendents" is safe; while a level    *)
(* loads nobody has been answered.                                         *)
SlotInv(c, n, st) ==
    /\ c.game # "twice"
    /\ Occupied(c) => c.edict
    /\ c.game = "in" => c.active /\ c.spawned /\ c.pvPrivateData
    /\ c.fully_connected => c.active /\ c.spawned /\ c.connected
    /\ c.active /\ c.spawned => c.level = n
    /\ c.fakeclient => c.active /\ c.spawned /\ c.address = NoAddress
    /\ ~Occupied(c) => ~c.hasusrmsgs
    /\ Occupied(c) /\ ~c.fakeclient /\ c.hasusrmsgs /\ c.m_bSentNewResponse
        => c.offered = n
    /\ st = "loading" /\ Occupied(c) /\ ~c.fakeclient => ~c.m_bSentNewResponse

Good(c) == c \in Client /\ SlotInv(c, spawncount, state)

IInv ==
    /\ TypeOK
    /\ \A s \in Slot : SlotInv(clients[s], spawncount, state)

-----------------------------------------------------------------------------
(* Types of the handlers.                                                  *)

LEMMA Levels == 0 \in Level /\ \A n \in 1 .. MaxLevels : n \in Level
BY SessionAssumption DEF Level

LEMMA ClearedClient == Cleared \in Client
BY Levels DEF Client, Cleared, Game

LEMMA NewEdictClient ==
    ASSUME NEW c \in Client, NEW s \in Slot
    PROVE  NewEdict(s, c) \in Client
BY DEF Client, NewEdict

LEMMA DisconnectClient ==
    ASSUME NEW c \in Client
    PROVE  ClientDisconnect(c) \in Client
BY DEF Client, Game, ClientDisconnect

LEMMA PutInServerClient ==
    ASSUME NEW c \in Client, TypeOK
    PROVE  PutInServer(c) \in Client
BY Levels DEF TypeOK, Client, Game, PutInServer

LEMMA EmptiedClient ==
    ASSUME NEW c \in Client
    PROVE  Emptied(c) \in Client
BY Levels, ZenonT(30) DEF Client, Emptied

LEMMA AcceptedClient ==
    ASSUME NEW c \in Client, NEW a \in Address
    PROVE  Accepted(c, a) \in Client
BY Levels DEF Client, Accepted

LEMMA RestartedClient ==
    ASSUME NEW c \in Client
    PROVE  Restarted(c) \in Client
BY Levels DEF Client, Restarted

LEMMA WithPortClient ==
    ASSUME NEW c \in Client, NEW a \in Address
    PROVE  WithPort(c, a) \in Client
<1>1. CASE c.address = NoAddress
  BY <1>1 DEF WithPort
<1>2. CASE c.address # NoAddress
  <2>1. c.address \in Address
    BY <1>2 DEF Client
  <2>2. [c.address EXCEPT !.port = a.port] \in Address
    BY <2>1 DEF Address
  <2>3. WithPort(c, a) = [c EXCEPT !.address = [c.address EXCEPT !.port = a.port]]
    BY <1>2 DEF WithPort
  <2> QED
    BY <2>2, <2>3 DEF Client
<1> QED
  BY <1>1, <1>2

-----------------------------------------------------------------------------
(* The handlers keep a slot good.                                          *)

LEMMA DropClientShape ==
    ASSUME NEW c \in Client
    PROVE  LET e == DropClient(c)
           IN  /\ e \in Client
               /\ ~Occupied(e) /\ ~e.spawned /\ ~e.fully_connected
               /\ ~e.fakeclient /\ ~e.hasusrmsgs
               /\ e.game = IF c.game = "in" /\ c.edict /\ c.spawned THEN "out" ELSE c.game
<1> DEFINE d == IF c.edict /\ c.spawned THEN ClientDisconnect(c) ELSE c
<1>1. /\ d \in Client
      /\ d.game = IF c.game = "in" /\ c.edict /\ c.spawned THEN "out" ELSE c.game
  BY DisconnectClient DEF Client, ClientDisconnect
<1>2. Emptied(d) \in Client
  BY <1>1, EmptiedClient
<1>3. LET e == Emptied(d)
      IN  /\ ~Occupied(e) /\ ~e.spawned /\ ~e.fully_connected
          /\ ~e.fakeclient /\ ~e.hasusrmsgs /\ e.game = d.game
  <2> HIDE DEF d
  <2> QED BY <1>1 DEF Emptied, Client, Occupied
<1>4. DropClient(c) = Emptied(d)
  BY DEF DropClient
<1> HIDE DEF d
<1> QED
  BY <1>1, <1>2, <1>3, <1>4

LEMMA DropClientGood ==
    ASSUME NEW c \in Client,
           c.game # "twice",
           c.game = "in" => c.spawned /\ c.edict
    PROVE  /\ Good(DropClient(c))
           /\ ~Occupied(DropClient(c))
           /\ DropClient(c).game \in {"out", "kicked"}
<1>1. DropClient(c).game \in {"out", "kicked"}
  BY DropClientShape DEF Client, Game
<1> QED
  BY <1>1, DropClientShape DEF Good, SlotInv

LEMMA EvictedGood ==
    ASSUME NEW a \in Address, NEW c \in Client, Good(c)
    PROVE  Good(Evicted(a, c))
<1>1. Good(ClientDisconnect(c))
  BY DisconnectClient DEF Good, SlotInv, ClientDisconnect, Client, Occupied
<1> QED
  BY <1>1 DEF Evicted

LEMMA WithPortGood ==
    ASSUME NEW a \in Address, NEW c \in Client, Good(c)
    PROVE  Good(WithPort(c, a))
<1>1. CASE c.address = NoAddress
  BY <1>1 DEF WithPort
<1>2. CASE c.address # NoAddress
  <2> DEFINE b == [c.address EXCEPT !.port = a.port]
             d == [c EXCEPT !.address = b]
  <2>1. d = WithPort(c, a)
    BY <1>2 DEF WithPort
  <2>2. ~c.fakeclient
    BY <1>2 DEF Good, SlotInv
  <2>3. SlotInv(d, spawncount, state)
    <3> HIDE DEF b
    <3> QED BY <2>2 DEF Good, SlotInv, Client, Occupied
  <2> QED
    BY <2>1, <2>3, WithPortClient DEF Good
<1> QED
  BY <1>1, <1>2

LEMMA AcceptedGood ==
    ASSUME NEW a \in Address, NEW c \in Client, Good(c), ~c.fakeclient,
           c.game # "in"
    PROVE  Good(Accepted(c, a))
BY AcceptedClient, ZenonT(30) DEF Good, SlotInv, Accepted, Client, Occupied

(* What SV_New_f does before the game answers. *)
LEMMA OfferGood ==
    ASSUME NEW c \in Client, Good(c), ~c.fakeclient, Occupied(c)
    PROVE  /\ Offer(c) \in Client /\ Offer(c).edict
           /\ Offer(c).game # "in" /\ Offer(c).game # "twice"
           /\ ~Offer(c).fully_connected /\ ~Offer(c).fakeclient
           /\ ~Offer(c).spawned
           /\ Occupied(Offer(c))
<1> DEFINE d == Restarted(c)
<1>1. /\ d \in Client /\ ~d.fully_connected /\ ~d.fakeclient /\ d.connected
      /\ d.game # "twice" /\ ~d.spawned
      /\ d.game = "in" => d.active
      /\ d.edict
  BY RestartedClient DEF Good, SlotInv, Restarted, Client, Occupied
<1>2. /\ ClientDisconnect(d) \in Client
      /\ ClientDisconnect(d).game # "in" /\ ClientDisconnect(d).game # "twice"
      /\ ~ClientDisconnect(d).fully_connected /\ ~ClientDisconnect(d).fakeclient
      /\ ClientDisconnect(d).connected /\ ClientDisconnect(d).edict
      /\ ~ClientDisconnect(d).spawned
  <2> HIDE DEF d
  <2> QED BY <1>1, DisconnectClient DEF ClientDisconnect, Client
<1>3. Offer(c) = IF d.active /\ d.edict THEN ClientDisconnect(d) ELSE d
  BY DEF Offer
<1> QED
  <2> HIDE DEF d
  <2> QED BY <1>1, <1>2, <1>3 DEF Occupied

LEMMA NewGood ==
    ASSUME NEW c \in Client, Good(c), ~c.fakeclient, Occupied(c), TypeOK,
           state = "active", NEW accept \in BOOLEAN
    PROVE  Good(New(c, accept))
<1> DEFINE d == Offer(c)
           e == [d EXCEPT !.m_bSentNewResponse = TRUE, !.offered = spawncount]
<1>1. /\ d \in Client /\ d.game # "in" /\ d.game # "twice" /\ d.edict
      /\ ~d.fully_connected /\ ~d.fakeclient /\ ~d.spawned /\ Occupied(d)
  BY OfferGood
<1>2. Good(e)
  <2>1. spawncount \in Level
    BY Levels DEF TypeOK
  <2> HIDE DEF d
  <2> QED BY <1>1, <2>1 DEF Good, SlotInv, Client, Occupied
<1>3. Good(DropClient(d))
  <2> HIDE DEF d
  <2> QED BY <1>1, DropClientGood
<1>4. New(c, accept) \in {c, e, DropClient(d)}
  BY DEF New
<1> QED
  BY <1>2, <1>3, <1>4

LEMMA SendResGood ==
    ASSUME NEW c \in Client, Good(c)
    PROVE  Good(SendRes(c))
<1>1. SendRes(c) \in Client
  BY DEF SendRes, Client
<1>2. SlotInv(SendRes(c), spawncount, state)
  BY DEF Good, SlotInv, SendRes, Client, Occupied
<1> QED
  BY <1>1, <1>2 DEF Good

LEMMA SendEntsGood ==
    ASSUME NEW c \in Client, Good(c), ~c.fakeclient
    PROVE  Good(SendEnts(c))
<1>1. CASE c.active /\ c.spawned /\ c.connected
  <2> DEFINE d == [c EXCEPT !.fully_connected = TRUE]
  <2>1. SendEnts(c) = d
    BY <1>1 DEF SendEnts
  <2>2. d \in Client
    BY DEF Client
  <2>3. SlotInv(d, spawncount, state)
    BY <1>1 DEF Good, SlotInv, Client, Occupied
  <2> QED
    BY <2>1, <2>2, <2>3 DEF Good
<1>2. CASE ~(c.active /\ c.spawned /\ c.connected)
  <2>1. SendEnts(c) = c
    BY <1>2 DEF SendEnts, Client
  <2> QED
    BY <2>1
<1> QED
  BY <1>1, <1>2

LEMMA SpawnedGood ==
    ASSUME NEW c \in Client, Good(c), ~c.fakeclient, ~c.spawned, Occupied(c),
           TypeOK, state = "active"
    PROVE  Good(Spawned(c)) /\ Good(KickedInside(c)) /\ Good(DropClient(c))
<1> DEFINE d == PutInServer(c)
           e == DropClient(d)
           f == [d EXCEPT !.active = TRUE, !.spawned = TRUE,
                          !.connected = TRUE, !.fully_connected = FALSE]
<1>1. /\ d \in Client /\ ~d.spawned /\ ~d.fakeclient /\ Occupied(d)
      /\ d.game = "in" /\ d.pvPrivateData /\ d.level = spawncount /\ d.edict
      /\ d.hasusrmsgs /\ d.m_bSentNewResponse => d.offered = spawncount
  <2>1. c.game # "in" /\ ~c.spawned /\ ~c.fakeclient /\ c.edict
    BY DEF Good, SlotInv
  <2>2. d \in Client
    BY PutInServerClient
  <2>3. d.game = "in" /\ d.pvPrivateData /\ d.level = spawncount
    BY <2>1 DEF Client, PutInServer
  <2>4. /\ d.spawned = c.spawned /\ d.fakeclient = c.fakeclient /\ d.edict = c.edict
        /\ d.active = c.active /\ d.connected = c.connected
        /\ d.hasusrmsgs = c.hasusrmsgs /\ d.offered = c.offered
        /\ d.m_bSentNewResponse = c.m_bSentNewResponse
    BY DEF Client, PutInServer
  <2> QED
    BY <2>1, <2>2, <2>3, <2>4 DEF Good, SlotInv, Occupied
<1>2. Good(DropClient(c))
  BY DropClientGood DEF Good, SlotInv, Occupied
<1>3. Good(f)
  <2> HIDE DEF d
  <2>1. f \in Client
    BY <1>1 DEF Client
  <2>2. SlotInv(f, spawncount, state)
    BY <1>1 DEF SlotInv, Client, Occupied
  <2> QED
    BY <2>1, <2>2 DEF Good
<1>4. Good(KickedInside(c))
  <2>1. /\ e \in Client /\ ~Occupied(e) /\ ~e.spawned /\ ~e.fully_connected
        /\ ~e.fakeclient /\ ~e.hasusrmsgs /\ e.game = "in"
    <3> HIDE DEF d
    <3> QED BY <1>1, DropClientShape
  <2>2. KickedInside(c) = [e EXCEPT !.game = "kicked"]
    BY <2>1 DEF KickedInside
  <2>3. Good([e EXCEPT !.game = "kicked"])
    <3> HIDE DEF e
    <3> QED BY <2>1 DEF Good, SlotInv, Client, Game, Occupied
  <2> QED
    BY <2>2, <2>3
<1> QED
  BY <1>2, <1>3, <1>4 DEF Spawned

LEMMA BotGood ==
    ASSUME TypeOK
    PROVE  Good(PutInServer([Cleared EXCEPT !.active = TRUE, !.spawned = TRUE,
                                            !.fully_connected = TRUE,
                                            !.connected = TRUE,
                                            !.fakeclient = TRUE, !.edict = TRUE]))
<1> DEFINE b == [Cleared EXCEPT !.active = TRUE, !.spawned = TRUE,
                                !.fully_connected = TRUE, !.connected = TRUE,
                                !.fakeclient = TRUE, !.edict = TRUE]
<1>1. b \in Client
  BY ClearedClient DEF Client
<1>2. /\ b.active /\ b.spawned /\ b.connected /\ b.edict /\ b.fakeclient
      /\ b.game = "out" /\ b.address = NoAddress
  BY DEF Cleared
<1> HIDE DEF b
<1>3. PutInServer(b) \in Client
  BY <1>1, PutInServerClient
<1>4. SlotInv(PutInServer(b), spawncount, state)
  BY <1>1, <1>2 DEF SlotInv, PutInServer, Client, Occupied
<1> QED
  BY <1>3, <1>4 DEF Good, b

LEMMA QuietGood ==
    ASSUME NEW c \in Client, Good(c), NEW q \in BOOLEAN
    PROVE  Good([c EXCEPT !.quiet = q])
<1>1. [c EXCEPT !.quiet = q] \in Client
  BY DEF Client
<1>2. SlotInv([c EXCEPT !.quiet = q], spawncount, state)
  BY DEF Good, SlotInv, Client, Occupied
<1> QED
  BY <1>1, <1>2 DEF Good

-----------------------------------------------------------------------------
(* The handlers of a change of level.                                      *)

LEMMA InactivatedShape ==
    ASSUME NEW c \in Client, Good(c)
    PROVE  LET d == InactivateClient(c)
           IN  /\ d \in Client
               /\ ~d.fully_connected /\ ~d.fakeclient /\ ~d.spawned /\ ~d.hasusrmsgs
               /\ d.game # "twice"
               /\ Occupied(d) => d.edict /\ ~d.m_bSentNewResponse
               /\ d.game = "in" => Occupied(d) /\ d.pvPrivateData
<1>1. CASE ~Occupied(c)
  BY <1>1 DEF InactivateClient, Good, SlotInv, Occupied
<1>2. CASE Occupied(c) /\ c.fakeclient
  <2>1. InactivateClient(c) = DropClient(c)
    BY <1>2 DEF InactivateClient
  <2>2. DropClient(c).game \in {"out", "kicked"}
    BY <1>2, DropClientGood DEF Good, SlotInv
  <2> QED
    BY <2>1, <2>2, DropClientShape
<1>3. CASE Occupied(c) /\ ~c.fakeclient
  <2> DEFINE d == [c EXCEPT !.active = FALSE, !.connected = TRUE,
                            !.spawned = FALSE, !.fully_connected = FALSE,
                            !.hasusrmsgs = FALSE, !.m_bSentNewResponse = FALSE,
                            !.level = 0]
  <2>1. InactivateClient(c) = d
    BY <1>3 DEF InactivateClient
  <2>2. d \in Client
    BY Levels DEF Client
  <2>3. /\ ~d.fully_connected /\ ~d.spawned /\ ~d.hasusrmsgs
        /\ ~d.m_bSentNewResponse /\ d.connected
        /\ d.fakeclient = c.fakeclient /\ d.game = c.game
        /\ d.edict = c.edict /\ d.pvPrivateData = c.pvPrivateData
    BY DEF Client
  <2> HIDE DEF d
  <2> QED
    BY <1>3, <2>1, <2>2, <2>3 DEF Good, SlotInv, Occupied
<1> QED
  BY <1>1, <1>2, <1>3

LEMMA NewLevelGood ==
    ASSUME NEW c \in Client, Good(c), NEW s \in Slot, NEW n
    PROVE  LET e == SpawnServer(s, InactivateClient(c))
           IN  e \in Client /\ SlotInv(e, n, "loading")
<1> DEFINE d == InactivateClient(c)
           e == IF Occupied(d) /\ d.edict /\ d.pvPrivateData THEN ClientDisconnect(d) ELSE d
           f == NewEdict(s, e)
           g == [f EXCEPT !.game = IF @ = "kicked" THEN "out" ELSE @]
<1>1. /\ d \in Client
      /\ ~d.fully_connected /\ ~d.fakeclient /\ ~d.spawned /\ ~d.hasusrmsgs
      /\ d.game # "twice"
      /\ Occupied(d) => d.edict /\ ~d.m_bSentNewResponse
      /\ d.game = "in" => Occupied(d) /\ d.pvPrivateData
  BY InactivatedShape
<1>2. SpawnServer(s, d) = g
  BY DEF SpawnServer
<1> HIDE DEF d
<1>3. /\ e \in Client
      /\ ~e.fully_connected /\ ~e.fakeclient /\ ~e.spawned /\ ~e.hasusrmsgs
      /\ e.game \in {"out", "kicked"}
      /\ Occupied(e) => e.edict /\ ~e.m_bSentNewResponse
  BY <1>1, DisconnectClient DEF ClientDisconnect, Client, Game, Occupied
<1> HIDE DEF e
<1>4. /\ f \in Client
      /\ ~f.fully_connected /\ ~f.fakeclient /\ ~f.spawned /\ ~f.hasusrmsgs
      /\ f.game \in {"out", "kicked"}
      /\ Occupied(f) => ~f.m_bSentNewResponse
  <2>1. f \in Client
    BY <1>3, NewEdictClient
  <2>2. /\ f.fully_connected = e.fully_connected /\ f.fakeclient = e.fakeclient
        /\ f.spawned = e.spawned /\ f.active = e.active /\ f.connected = e.connected
        /\ f.hasusrmsgs = e.hasusrmsgs /\ f.game = e.game
        /\ f.m_bSentNewResponse = e.m_bSentNewResponse
    BY <1>3 DEF NewEdict, Client
  <2> QED
    BY <1>3, <2>1, <2>2 DEF Occupied
<1>5. Occupied(f) => f.edict
  BY <1>3 DEF NewEdict, Client, Occupied
<1> HIDE DEF f
<1>6. g \in Client
  BY <1>4 DEF Client, Game
<1>7. SlotInv(g, n, "loading")
  BY <1>4, <1>5 DEF SlotInv, Client, Occupied
<1> QED
  BY <1>2, <1>6, <1>7 DEF d

LEMMA ActivatedGood ==
    ASSUME NEW c \in Client, NEW n, SlotInv(c, n, "loading")
    PROVE  ActivateClient(c) \in Client /\ SlotInv(ActivateClient(c), n, "active")
<1>1. CASE ~c.fakeclient /\ (c.active \/ c.connected)
  <2> DEFINE d == [c EXCEPT !.hasusrmsgs = TRUE, !.offered = 0]
  <2>1. ActivateClient(c) = d
    BY <1>1 DEF ActivateClient
  <2>2. d \in Client
    BY Levels DEF Client
  <2>3. SlotInv(d, n, "active")
    BY <1>1 DEF SlotInv, Client, Occupied
  <2> QED
    BY <2>1, <2>2, <2>3
<1>2. CASE ~(~c.fakeclient /\ (c.active \/ c.connected))
  <2>1. ActivateClient(c) = c
    BY <1>2 DEF ActivateClient
  <2> QED
    BY <2>1 DEF SlotInv
<1> QED
  BY <1>1, <1>2

LEMMA NewMapGood ==
    ASSUME NEW c \in Client, Good(c), NEW s \in Slot, NEW n
    PROVE  LET d == IF c.active \/ c.connected THEN DropClient(c) ELSE c
               e == NewEdict(s, [Cleared EXCEPT
                       !.game = IF d.game = "kicked" THEN "out" ELSE d.game])
           IN  e \in Client /\ SlotInv(e, n, "loading")
<1> DEFINE d == IF c.active \/ c.connected THEN DropClient(c) ELSE c
           g == IF d.game = "kicked" THEN "out" ELSE d.game
           f == [Cleared EXCEPT !.game = g]
<1>1. d.game \in {"out", "kicked"}
  <2>1. c.game \in Game /\ c.game # "twice"
    BY DEF Good, SlotInv, Client
  <2>2. DropClient(c).game \in {"out", "kicked"}
    BY DropClientGood DEF Good, SlotInv, Occupied
  <2>3. c.game = "in" => c.active
    BY DEF Good, SlotInv
  <2> QED
    BY <2>1, <2>2, <2>3 DEF Game
<1>2. g = "out"
  BY <1>1
<1> HIDE DEF g
<1>3. /\ f \in Client
      /\ ~f.active /\ ~f.spawned /\ ~f.connected /\ ~f.fully_connected
      /\ ~f.fakeclient /\ ~f.hasusrmsgs /\ f.game = "out"
  <2>1. f \in Client
    BY <1>2, ClearedClient DEF Client, Game
  <2> QED
    BY <1>2, <2>1 DEF Cleared
<1> HIDE DEF f
<1>4. NewEdict(s, f) \in Client
  BY <1>3, NewEdictClient
<1>5. SlotInv(NewEdict(s, f), n, "loading")
  BY <1>3 DEF NewEdict, Client, SlotInv, Occupied
<1> QED
  BY <1>4, <1>5 DEF f, g

-----------------------------------------------------------------------------
(* The steps.                                                              *)

LEMMA SlotGood ==
    ASSUME IInv, NEW s \in Slot
    PROVE  clients[s] \in Client /\ Good(clients[s])
BY DEF IInv, TypeOK, Good

LEMMA ReplaceInv ==
    ASSUME IInv, NEW s \in Slot, NEW c, Good(c), Replace(s, c),
           UNCHANGED <<spawncount, state>>
    PROVE  IInv'
<1>1. clients' \in [Slot -> Client]
  BY DEF IInv, TypeOK, Replace, Good
<1>2. \A t \in Slot : clients'[t] = IF t = s THEN c ELSE clients[t]
  BY DEF IInv, TypeOK, Replace
<1>3. \A t \in Slot : SlotInv(clients'[t], spawncount, state)
  BY <1>2 DEF IInv, Good
<1> QED
  BY <1>1, <1>3 DEF IInv, TypeOK

LEMMA ReceiveInv ==
    ASSUME IInv, NEW s \in Slot, NEW c, Good(c), Receive(s, c),
           UNCHANGED <<spawncount, state>>
    PROVE  IInv'
<1>1. \A t \in Slot : Good(clients'[t])
  <2> TAKE t \in Slot
  <2> DEFINE heard == Occupied(clients[t]) /\ clients[t].address = clients[s].address
             q == clients[t].quiet /\ ~heard
  <2>1. CASE t = s
    BY <2>1, QuietGood DEF Receive, Good
  <2>2. CASE t # s
    <3>1. clients'[t] = [clients[t] EXCEPT !.quiet = q]
      BY <2>2 DEF Receive
    <3>2. q \in BOOLEAN
      OBVIOUS
    <3>3. clients[t] \in Client /\ Good(clients[t])
      BY SlotGood
    <3> HIDE DEF q
    <3> QED
      BY <3>1, <3>2, <3>3, QuietGood
  <2> QED
    BY <2>1, <2>2
<1>2. clients' \in [Slot -> Client]
  <2>1. \A t \in Slot : clients'[t] \in Client
    BY <1>1 DEF Good
  <2> QED
    BY <2>1 DEF Receive
<1> QED
  BY <1>1, <1>2 DEF IInv, TypeOK, Good

LEMMA LowestIn ==
    ASSUME NEW S \in SUBSET Slot, S # {}
    PROVE  Lowest(S) \in S
<1>1. S \subseteq Nat
  BY SessionAssumption DEF Slot
<1>2. \E s \in S : \A t \in S : ~(<<t, s>> \in OpToRel(<, Nat))
  BY <1>1, NatLessThanWellFounded, WFMin
<1>3. \E s \in S : \A t \in S : s <= t
  <2>1. PICK s \in S : \A t \in S : ~(<<t, s>> \in OpToRel(<, Nat))
    BY <1>2
  <2>2. ASSUME NEW t \in S
        PROVE  s <= t
    <3>1. t \in Nat /\ s \in Nat
      BY <1>1
    <3>2. ~(t < s)
      BY <2>1, <3>1 DEF OpToRel
    <3> QED
      BY <3>1, <3>2
  <2> QED
    BY <2>2
<1> QED
  BY <1>3 DEF Lowest

LEMMA ConnectInv ==
    ASSUME IInv, NEW a \in Address, ConnectClient(a)
    PROVE  IInv'
<1> DEFINE s == Lowest(Choices(a))
           c == Evicted(a, clients[s])
<1>1. s \in Choices(a) /\ s \in Slot
  <2>1. Choices(a) \in SUBSET Slot /\ Choices(a) # {}
    BY DEF ConnectClient, Choices, Reconnects, Free
  <2> QED
    BY <2>1, LowestIn
<1>2. clients[s] \in Client /\ Good(clients[s])
  BY <1>1, SlotGood
<1>3. ~clients[s].fakeclient
  BY <1>1, <1>2 DEF Choices, Reconnects, Free, SameBase, Good, SlotInv, Occupied
<1>4. \/ Replace(s, Accepted(c, a)) \/ Replace(s, WithPort(c, a)) \/ Replace(s, c)
  BY DEF ConnectClient
<1>5. UNCHANGED <<spawncount, state>>
  BY DEF ConnectClient
<1>6. Good(c)
  BY <1>2, EvictedGood
<1>7. ~c.fakeclient /\ c.game # "in"
  <2>1. clients[s].game # "in" \/ Reconnects(a) # {}
    BY <1>1, <1>2 DEF Choices, Free, Good, SlotInv, Occupied
  <2> DEFINE d == clients[s]
  <2>2. d \in Client /\ ~d.fakeclient
    BY <1>2, <1>3
  <2>3. d.game = "in" => (d.active \/ d.spawned) /\ d.edict
    BY <1>2 DEF Good, SlotInv, Occupied
  <2>4. ClientDisconnect(d).fakeclient = d.fakeclient /\ ClientDisconnect(d).game # "in"
    BY <2>2 DEF ClientDisconnect, Client
  <2> HIDE DEF d
  <2>5. ~Evicted(a, d).fakeclient /\ Evicted(a, d).game # "in"
    BY <2>1, <2>2, <2>3, <2>4 DEF Evicted, d
  <2> QED
    BY <2>5 DEF d
<1> HIDE DEF s, c
<1>8. Good(Accepted(c, a)) /\ Good(WithPort(c, a))
  BY <1>6, <1>7, AcceptedGood, WithPortGood DEF Good
<1> QED
  BY <1>1, <1>4, <1>5, <1>6, <1>8, ReplaceInv

LEMMA CommandInv ==
    ASSUME IInv, NEW s \in Slot,
           \/ NewCommand(s) \/ SendResCommand(s) \/ SpawnCommand(s)
           \/ SendEntsCommand(s) \/ DropCommand(s)
    PROVE  IInv'
<1> DEFINE c == clients[s]
<1>1. c \in Client /\ Good(c) /\ TypeOK
  BY SlotGood DEF IInv
<1>2. Occupied(c) /\ ~c.fakeclient /\ state = "active"
  BY DEF NewCommand, SendResCommand, SpawnCommand, SendEntsCommand, DropCommand,
         Listening
<1>3. UNCHANGED <<spawncount, state>>
  BY DEF NewCommand, SendResCommand, SpawnCommand, SendEntsCommand, DropCommand
<1>4. Good(DropClient(c))
  BY <1>1, DropClientGood DEF Good, SlotInv, Occupied
<1>5. CASE NewCommand(s)
  <2>1. PICK accept \in BOOLEAN : Receive(s, New(c, accept))
    BY <1>5 DEF NewCommand
  <2>2. Good(New(c, accept))
    BY <1>1, <1>2, NewGood
  <2> QED
    BY <1>3, <2>1, <2>2, ReceiveInv
<1>6. CASE SendResCommand(s)
  BY <1>1, <1>3, <1>6, SendResGood, ReceiveInv DEF SendResCommand
<1>7. CASE SpawnCommand(s)
  <2>0. PICK n \in 1 .. MaxLevels : \E d \in SpawnResults(c, n) : Receive(s, d)
    BY <1>7 DEF SpawnCommand
  <2>1. PICK d \in SpawnResults(c, n) : Receive(s, d)
    BY <2>0
  <2>2. Good(d)
    <3>1. CASE c.spawned
      BY <1>1, <2>1, <3>1 DEF SpawnResults
    <3>2. CASE ~c.spawned /\ n = spawncount
      <4>1. d \in {Spawned(c), KickedInside(c), DropClient(c)}
        BY <2>1, <3>2 DEF SpawnResults
      <4> QED
        BY <1>1, <1>2, <3>2, <4>1, SpawnedGood
    <3>3. CASE ~c.spawned /\ n # spawncount
      <4> DEFINE e == [c EXCEPT !.m_bSentNewResponse = FALSE]
      <4>1. PICK accept \in BOOLEAN : d = New(e, accept)
        BY <2>1, <3>3 DEF SpawnResults
      <4>2. e \in Client
        BY <1>1 DEF Client
      <4>3. SlotInv(e, spawncount, state) /\ ~e.fakeclient /\ Occupied(e)
        BY <1>1, <1>2 DEF Good, SlotInv, Client, Occupied
      <4> HIDE DEF e
      <4> QED
        BY <1>1, <1>2, <4>1, <4>2, <4>3, NewGood DEF Good
    <3> QED
      BY <3>1, <3>2, <3>3
  <2> QED
    BY <1>3, <2>1, <2>2, ReceiveInv
<1>8. CASE SendEntsCommand(s)
  BY <1>1, <1>2, <1>3, <1>8, SendEntsGood, ReceiveInv DEF SendEntsCommand
<1>9. CASE DropCommand(s)
  BY <1>3, <1>4, <1>9, ReceiveInv DEF DropCommand
<1> QED
  BY <1>5, <1>6, <1>7, <1>8, <1>9

LEMMA ServerInv ==
    ASSUME IInv, NEW s \in Slot, GoesQuiet(s) \/ CheckTimeouts(s) \/ Kick(s)
    PROVE  IInv'
<1>1. clients[s] \in Client /\ Good(clients[s])
  BY SlotGood
<1>2. Good(DropClient(clients[s]))
  BY <1>1, DropClientGood DEF Good, SlotInv, Occupied
<1>3. Good([clients[s] EXCEPT !.quiet = TRUE])
  BY <1>1, QuietGood
<1>4. /\ UNCHANGED <<spawncount, state>>
      /\ \/ Replace(s, DropClient(clients[s]))
         \/ Replace(s, [clients[s] EXCEPT !.quiet = TRUE])
  BY DEF GoesQuiet, CheckTimeouts, Kick
<1> QED
  BY <1>2, <1>3, <1>4, ReplaceInv

LEMMA BotInv ==
    ASSUME IInv, CreateFakeClient
    PROVE  IInv'
<1>1. Lowest(Free) \in Slot
  <2>1. Free \in SUBSET Slot /\ Free # {}
    BY DEF CreateFakeClient, Free
  <2> QED
    BY <2>1, LowestIn
<1> DEFINE b == PutInServer([Cleared EXCEPT !.active = TRUE, !.spawned = TRUE,
                                            !.fully_connected = TRUE,
                                            !.connected = TRUE,
                                            !.fakeclient = TRUE, !.edict = TRUE])
<1>2. Good(b)
  BY BotGood DEF IInv
<1>3. Replace(Lowest(Free), b) /\ UNCHANGED <<spawncount, state>>
  BY DEF CreateFakeClient
<1> HIDE DEF b
<1> QED
  BY <1>1, <1>2, <1>3, ReplaceInv

LEMMA LevelInv ==
    ASSUME IInv, Changelevel \/ Map \/ ActivateServer
    PROVE  IInv'
<1>1. \A s \in Slot : clients[s] \in Client /\ Good(clients[s])
  BY SlotGood
<1>2. \A s \in Slot : clients'[s] \in Client /\ SlotInv(clients'[s], spawncount', state')
  <2>1. CASE Changelevel
    <3>1. /\ state' = "loading"
          /\ \A s \in Slot : clients'[s] = SpawnServer(s, InactivateClient(clients[s]))
      BY <2>1 DEF Changelevel
    <3> QED
      BY <1>1, <3>1, NewLevelGood
  <2>2. CASE Map
    <3>1. state' = "loading"
      BY <2>2 DEF Map
    <3>2. ASSUME NEW s \in Slot
          PROVE  clients'[s] \in Client /\ SlotInv(clients'[s], spawncount', "loading")
      <4> DEFINE c == clients[s]
                 d == IF c.active \/ c.connected THEN DropClient(c) ELSE c
                 e == NewEdict(s, [Cleared EXCEPT
                         !.game = IF d.game = "kicked" THEN "out" ELSE d.game])
      <4>1. clients'[s] = e
        BY <2>2 DEF Map
      <4>2. e \in Client /\ SlotInv(e, spawncount', "loading")
        BY <1>1, NewMapGood
      <4> QED
        BY <4>1, <4>2
    <3> QED
      BY <3>1, <3>2
  <2>3. CASE ActivateServer
    <3>1. /\ state = "loading" /\ state' = "active" /\ spawncount' = spawncount
          /\ \A s \in Slot : clients'[s] = ActivateClient(clients[s])
      BY <2>3 DEF ActivateServer
    <3> QED
      BY <1>1, <3>1, ActivatedGood DEF Good
  <2> QED
    BY <2>1, <2>2, <2>3
<1>3. clients' \in [Slot -> Client]
  BY <1>2 DEF Changelevel, Map, ActivateServer
<1>4. spawncount' \in 1 .. MaxLevels /\ state' \in {"active", "loading"}
  BY SessionAssumption DEF IInv, TypeOK, Changelevel, Map, ActivateServer
<1> QED
  BY <1>2, <1>3, <1>4 DEF IInv, TypeOK

-----------------------------------------------------------------------------
(* The theorems.                                                           *)

LEMMA InitInv == SessionInit => IInv
<1> SUFFICES ASSUME SessionInit PROVE IInv
  OBVIOUS
<1>1. \A s \in Slot : NewEdict(s, Cleared) \in Client
  BY ClearedClient, NewEdictClient
<1>2. \A s \in Slot : SlotInv(NewEdict(s, Cleared), 1, "active")
  BY DEF NewEdict, Cleared, SlotInv, Occupied
<1> QED
  BY <1>1, <1>2, SessionAssumption DEF SessionInit, IInv, TypeOK

LEMMA NextInv == IInv /\ [SessionNext]_sessionVars => IInv'
<1> SUFFICES ASSUME IInv, [SessionNext]_sessionVars PROVE IInv'
  OBVIOUS
<1>1. CASE SessionNext
  BY <1>1, ConnectInv, CommandInv, ServerInv, BotInv, LevelInv DEF SessionNext
<1>2. CASE UNCHANGED sessionVars
  BY <1>2 DEF sessionVars, IInv, TypeOK
<1> QED
  BY <1>1, <1>2

LEMMA SlotInvariant == SessionSpec => []IInv
<1> QED
  BY InitInv, NextInv, PTL DEF SessionSpec

(* The variables keep their types. *)
THEOREM SessionTypes == SessionSpec => []TypeOK
<1>1. IInv => TypeOK
  BY DEF IInv
<1> QED
  BY <1>1, SlotInvariant, PTL

(* Every player the game library holds is one the server serves on the     *)
(* present level: SV_DropClient, SV_New_f, SV_ConnectClient and            *)
(* SV_SpawnServer between them report every player who leaves.             *)
THEOREM NoGhostEver == SessionSpec => []NoGhost
<1>1. IInv => NoGhost
  BY DEF IInv, SlotInv, NoGhost, Occupied
<1> QED
  BY <1>1, SlotInvariant, PTL

(* SV_WriteSpawn never puts in a player the game still holds. *)
THEOREM PutInOnce == SessionSpec => []PutOnce
<1>1. IInv => PutOnce
  BY DEF IInv, SlotInv, PutOnce
<1> QED
  BY <1>1, SlotInvariant, PTL

(* SV_SendEnts_f admits only a player put in on the present level. *)
THEOREM ConnectedPlayersMatch == SessionSpec => []PlayersMatch
<1>1. IInv => PlayersMatch
  BY DEF IInv, SlotInv, PlayersMatch
<1> QED
  BY <1>1, SlotInvariant, PTL

(* SV_New_f leaves no client of a new level, or of a new connection,       *)
(* without an answer.                                                      *)
THEOREM NewIsAnswered == SessionSpec => []NewAnswered
<1>1. IInv => NewAnswered
  BY DEF IInv, SlotInv, NewAnswered
<1> QED
  BY <1>1, SlotInvariant, PTL

(* SV_ConnectClient finds no mark of a bot in the slot it takes. *)
THEOREM SlotsAreClean == SessionSpec => []SlotClean
<1>1. IInv => SlotClean
  BY DEF IInv, SlotInv, SlotClean, Occupied
<1> QED
  BY <1>1, SlotInvariant, PTL

-----------------------------------------------------------------------------
(* Addresses.  Only a connect packet gives a slot an address.              *)

SameAddress(c, d) == d \in Client /\ d.address = c.address

LEMMA DropAddress ==
    ASSUME NEW c \in Client
    PROVE  SameAddress(c, DropClient(c))
<1> DEFINE d == IF c.edict /\ c.spawned THEN ClientDisconnect(c) ELSE c
<1>1. d \in Client /\ d.address = c.address
  BY DisconnectClient DEF Client, ClientDisconnect
<1>2. DropClient(c) = Emptied(d)
  BY DEF DropClient
<1> HIDE DEF d
<1>3. Emptied(d) \in Client /\ Emptied(d).address = d.address
  BY <1>1, EmptiedClient DEF Emptied, Client
<1> QED
  BY <1>1, <1>2, <1>3 DEF SameAddress

LEMMA NewAddress ==
    ASSUME NEW c \in Client, TypeOK, NEW accept \in BOOLEAN
    PROVE  SameAddress(c, New(c, accept))
<1> DEFINE d == Restarted(c)
           e == Offer(c)
           f == [e EXCEPT !.m_bSentNewResponse = TRUE, !.offered = spawncount]
<1>1. d \in Client /\ d.address = c.address
  BY RestartedClient DEF Restarted, Client
<1>2. e = IF d.active /\ d.edict THEN ClientDisconnect(d) ELSE d
  BY DEF Offer
<1>3. New(c, accept) \in {c, f, DropClient(e)}
  BY DEF New
<1> HIDE DEF d, e
<1>4. e \in Client /\ e.address = c.address
  BY <1>1, <1>2, DisconnectClient DEF ClientDisconnect, Client
<1>5. f \in Client /\ f.address = c.address
  <2>1. spawncount \in Level
    BY Levels DEF TypeOK
  <2> QED
    BY <1>4, <2>1 DEF Client
<1>6. DropClient(e) \in Client /\ DropClient(e).address = c.address
  BY <1>4, DropAddress DEF SameAddress
<1> QED
  BY <1>3, <1>5, <1>6 DEF SameAddress

LEMMA SpawnAddress ==
    ASSUME NEW c \in Client, TypeOK, NEW n, NEW r \in SpawnResults(c, n)
    PROVE  SameAddress(c, r)
<1> DEFINE d == PutInServer(c)
           b == [c EXCEPT !.m_bSentNewResponse = FALSE]
           k == DropClient(d)
<1>1. d \in Client /\ d.address = c.address
  BY PutInServerClient DEF PutInServer, Client
<1>2. b \in Client /\ b.address = c.address
  BY DEF Client
<1>3. SameAddress(c, k) /\ SameAddress(c, DropClient(c))
  <2> HIDE DEF d
  <2> QED BY <1>1, DropAddress DEF SameAddress
<1>4. SameAddress(c, Spawned(c))
  <2>1. Spawned(c) = [d EXCEPT !.active = TRUE, !.spawned = TRUE,
                               !.connected = TRUE, !.fully_connected = FALSE]
    BY DEF Spawned
  <2> HIDE DEF d
  <2> QED BY <1>1, <2>1 DEF SameAddress, Client
<1>5. SameAddress(c, KickedInside(c))
  <2>1. KickedInside(c) = [k EXCEPT !.game = IF @ = "in" THEN "kicked" ELSE @]
    BY DEF KickedInside
  <2> HIDE DEF k
  <2> QED BY <1>3, <2>1 DEF SameAddress, Client, Game
<1>6. \A accept \in BOOLEAN : SameAddress(c, New(b, accept))
  <2> HIDE DEF b
  <2> QED BY <1>2, NewAddress DEF SameAddress
<1>7. \/ r \in {c, Spawned(c), KickedInside(c), DropClient(c)}
      \/ \E accept \in BOOLEAN : r = New(b, accept)
  BY DEF SpawnResults
<1> QED
  BY <1>3, <1>4, <1>5, <1>6, <1>7 DEF SameAddress

LEMMA InactivatedAddress ==
    ASSUME NEW c \in Client, NEW s \in Slot
    PROVE  SpawnServer(s, InactivateClient(c)).address = c.address
<1> DEFINE d == InactivateClient(c)
           e == IF Occupied(d) /\ d.edict /\ d.pvPrivateData THEN ClientDisconnect(d) ELSE d
           f == NewEdict(s, e)
<1>1. d \in Client /\ d.address = c.address
  <2> DEFINE i == [c EXCEPT !.active = FALSE, !.connected = TRUE,
                            !.spawned = FALSE, !.fully_connected = FALSE,
                            !.hasusrmsgs = FALSE, !.m_bSentNewResponse = FALSE,
                            !.level = 0]
  <2>1. d \in {c, DropClient(c), i}
    BY DEF InactivateClient
  <2>2. i \in Client /\ i.address = c.address
    BY Levels DEF Client
  <2> QED
    BY <2>1, <2>2, DropAddress DEF SameAddress
<1>2. SpawnServer(s, d) = [f EXCEPT !.game = IF @ = "kicked" THEN "out" ELSE @]
  BY DEF SpawnServer
<1> HIDE DEF d
<1>3. e \in Client /\ e.address = c.address
  BY <1>1, DisconnectClient DEF ClientDisconnect, Client
<1> HIDE DEF e
<1>4. f \in Client /\ f.address = c.address
  <2>1. f \in Client
    BY <1>3, NewEdictClient
  <2>2. f.address = e.address
    BY <1>3 DEF NewEdict, Client
  <2> QED
    BY <1>3, <2>1, <2>2
<1> HIDE DEF f
<1> QED
  BY <1>2, <1>4 DEF Client, d

(* No slot changes its address, unless it loses it. *)
KeepsAddresses ==
    \A s \in Slot : clients'[s].address \in {clients[s].address, NoAddress}

LEMMA ReplaceKeeps ==
    ASSUME IInv, NEW s \in Slot, NEW c, Replace(s, c),
           c.address \in {clients[s].address, NoAddress}
    PROVE  KeepsAddresses
<1>1. \A t \in Slot : clients'[t] = IF t = s THEN c ELSE clients[t]
  BY DEF IInv, TypeOK, Replace
<1> QED
  BY <1>1 DEF KeepsAddresses

LEMMA ReceiveKeeps ==
    ASSUME IInv, NEW s \in Slot, NEW c, Receive(s, c), SameAddress(clients[s], c)
    PROVE  KeepsAddresses
<1> SUFFICES ASSUME NEW t \in Slot
             PROVE  clients'[t].address = clients[t].address
  BY DEF KeepsAddresses
<1> DEFINE q == clients[t].quiet /\ ~(/\ Occupied(clients[t])
                                      /\ clients[t].address = clients[s].address)
<1>1. clients'[t] = IF t = s THEN [c EXCEPT !.quiet = FALSE]
                    ELSE [clients[t] EXCEPT !.quiet = q]
  BY DEF Receive
<1>2. clients[t] \in Client /\ c \in Client /\ c.address = clients[s].address
  BY SlotGood DEF SameAddress
<1> HIDE DEF q
<1> QED
  BY <1>1, <1>2 DEF Client

LEMMA OthersKeep ==
    ASSUME IInv, [SessionNext]_sessionVars, ~\E a \in Address : ConnectClient(a)
    PROVE  KeepsAddresses
<1>1. TypeOK /\ \A s \in Slot : clients[s] \in Client
  BY SlotGood DEF IInv
<1>2. ASSUME NEW s \in Slot, NewCommand(s)
      PROVE  KeepsAddresses
  BY <1>1, <1>2, NewAddress, ReceiveKeeps DEF NewCommand
<1>3. ASSUME NEW s \in Slot, SendResCommand(s)
      PROVE  KeepsAddresses
  <2>1. SameAddress(clients[s], SendRes(clients[s]))
    <3> DEFINE c == clients[s]
    <3>1. c \in Client
      BY <1>1
    <3> HIDE DEF c
    <3>2. SendRes(c) \in Client /\ SendRes(c).address = c.address
      BY <3>1 DEF SendRes, Client
    <3> QED
      BY <3>2 DEF SameAddress, c
  <2> QED
    BY <1>3, <2>1, ReceiveKeeps DEF SendResCommand
<1>4. ASSUME NEW s \in Slot, SpawnCommand(s)
      PROVE  KeepsAddresses
  <2>1. PICK n \in 1 .. MaxLevels : \E d \in SpawnResults(clients[s], n) : Receive(s, d)
    BY <1>4 DEF SpawnCommand
  <2>2. PICK d \in SpawnResults(clients[s], n) : Receive(s, d)
    BY <2>1
  <2> QED
    BY <1>1, <2>2, SpawnAddress, ReceiveKeeps
<1>5. ASSUME NEW s \in Slot, SendEntsCommand(s)
      PROVE  KeepsAddresses
  <2> DEFINE c == clients[s]
  <2>1. c \in Client /\ Good(c) /\ ~c.fakeclient
    BY <1>5, SlotGood DEF SendEntsCommand, Listening
  <2>2. SendEnts(c) \in Client
    BY <2>1, SendEntsGood DEF Good
  <2>3. SendEnts(c).address = c.address
    <3> HIDE DEF c
    <3> QED BY <2>1 DEF SendEnts, Client
  <2> QED
    BY <1>5, <2>2, <2>3, ReceiveKeeps DEF SendEntsCommand, SameAddress
<1>6. ASSUME NEW s \in Slot, DropCommand(s)
      PROVE  KeepsAddresses
  BY <1>1, <1>6, DropAddress, ReceiveKeeps DEF DropCommand
<1>7. ASSUME NEW s \in Slot, GoesQuiet(s) \/ CheckTimeouts(s) \/ Kick(s)
      PROVE  KeepsAddresses
  <2>1. DropClient(clients[s]).address = clients[s].address
    BY <1>1, DropAddress DEF SameAddress
  <2>2. [clients[s] EXCEPT !.quiet = TRUE].address = clients[s].address
    BY <1>1 DEF Client
  <2> QED
    BY <1>7, <2>1, <2>2, ReplaceKeeps DEF GoesQuiet, CheckTimeouts, Kick
<1>8. ASSUME CreateFakeClient
      PROVE  KeepsAddresses
  <2> DEFINE b == PutInServer([Cleared EXCEPT !.active = TRUE, !.spawned = TRUE,
                                              !.fully_connected = TRUE,
                                              !.connected = TRUE,
                                              !.fakeclient = TRUE, !.edict = TRUE])
  <2>1. Lowest(Free) \in Slot
    BY <1>8, LowestIn DEF CreateFakeClient, Free
  <2>2. Good(b)
    BY <1>1, BotGood
  <2>3. b.address = NoAddress
    BY DEF Cleared, PutInServer
  <2>4. Replace(Lowest(Free), b)
    BY <1>8 DEF CreateFakeClient
  <2> HIDE DEF b
  <2> QED
    BY <2>1, <2>3, <2>4, ReplaceKeeps
<1>9. ASSUME Changelevel
      PROVE  KeepsAddresses
  BY <1>1, <1>9, InactivatedAddress DEF Changelevel, KeepsAddresses
<1>10. ASSUME Map
       PROVE  KeepsAddresses
  <2>1. \A s \in Slot : \A g : NewEdict(s, [Cleared EXCEPT !.game = g]).address = NoAddress
    BY DEF NewEdict, Cleared
  <2> QED
    BY <1>10, <2>1 DEF Map, KeepsAddresses
<1>11. ASSUME ActivateServer
       PROVE  KeepsAddresses
  <2>1. \A s \in Slot : ActivateClient(clients[s]).address = clients[s].address
    BY <1>1 DEF ActivateClient, Client
  <2> QED
    BY <1>11, <2>1 DEF ActivateServer, KeepsAddresses
<1>12. CASE UNCHANGED sessionVars
  BY <1>12 DEF sessionVars, KeepsAddresses
<1> QED
  BY <1>2, <1>3, <1>4, <1>5, <1>6, <1>7, <1>8, <1>9, <1>10, <1>11, <1>12 DEF SessionNext

(* The slot that a connect packet changes. *)
Rewrites ==
    \E s \in Slot :
        LET old == clients[s].address
            new == clients'[s].address
        IN  /\ old # NoAddress /\ new # NoAddress
            /\ new.ip = old.ip /\ new.port # old.port
            /\ clients[s].quiet \/ s \in Free

LEMMA ConnectRewrites ==
    ASSUME IInv, NEW a \in Address, ConnectClient(a), OneSlotEach, ~OneSlotEach'
    PROVE  Rewrites
<1> DEFINE s == Lowest(Choices(a))
           c == Evicted(a, clients[s])
<1>1. s \in Choices(a) /\ s \in Slot
  <2>1. Choices(a) \in SUBSET Slot /\ Choices(a) # {}
    BY DEF ConnectClient, Choices, Reconnects, Free
  <2> QED
    BY <2>1, LowestIn
<1>2. \/ Replace(s, Accepted(c, a)) \/ Replace(s, WithPort(c, a)) \/ Replace(s, c)
  BY DEF ConnectClient
<1>3. clients[s] \in Client /\ c \in Client /\ c.address = clients[s].address
  <2> DEFINE d == clients[s]
  <2>1. d \in Client
    BY <1>1, SlotGood
  <2> HIDE DEF d
  <2>2. Evicted(a, d) \in Client /\ Evicted(a, d).address = d.address
    BY <2>1, DisconnectClient DEF Evicted, ClientDisconnect, Client
  <2> QED
    BY <2>1, <2>2 DEF d
<1> DEFINE new == clients'[s].address
<1>4. \A t \in Slot : t # s => clients'[t] = clients[t]
  BY <1>2 DEF Replace, IInv, TypeOK
<1>5. new # clients[s].address /\ new # NoAddress
  BY <1>1, <1>4 DEF OneSlotEach
<1>6. ASSUME Reconnects(a) # {}
      PROVE  /\ clients[s].address # NoAddress /\ clients[s].address.ip = a.ip
             /\ clients[s].address.port = a.port \/ clients[s].quiet
  BY <1>1, <1>6 DEF Choices, Reconnects, SameBase
<1>7. ASSUME Reconnects(a) = {}
      PROVE  s \in Free /\ \A t \in Slot : clients[t].address # a
  <2>1. s \in Free
    BY <1>1, <1>7 DEF Choices
  <2>2. a # NoAddress
    BY SessionAssumption DEF Address
  <2> QED
    BY <1>7, <2>1, <2>2 DEF Reconnects, SameBase
<1> HIDE DEF s
<1>8. clients'[s] \in {Accepted(c, a), WithPort(c, a), c}
  BY <1>1, <1>2 DEF Replace, IInv, TypeOK
<1> HIDE DEF c
<1>9. CASE clients'[s] = c
  BY <1>3, <1>5, <1>9
<1>10. CASE clients'[s] = Accepted(c, a)
  <2>1. new = a
    BY <1>3, <1>10 DEF Accepted, Client
  <2>2. CASE Reconnects(a) = {}
    BY <1>1, <1>4, <1>7, <2>1, <2>2 DEF OneSlotEach
  <2>3. CASE Reconnects(a) # {}
    <3>1. clients[s].address \in Address
      BY <1>3, <1>6, <2>3 DEF Client
    <3>2. clients[s].address.port # a.port
      BY <1>5, <1>6, <2>1, <2>3, <3>1 DEF Address
    <3> QED
      BY <1>1, <1>5, <1>6, <2>1, <2>3, <3>2 DEF Rewrites
  <2> QED
    BY <2>2, <2>3
<1>11. CASE clients'[s] = WithPort(c, a)
  <2> DEFINE old == clients[s].address
             b == [old EXCEPT !.port = a.port]
  <2>1. old # NoAddress
    BY <1>3, <1>5, <1>11 DEF WithPort
  <2>2. old \in Address
    BY <1>3, <2>1 DEF Client
  <2>3. new = b
    <3>1. WithPort(c, a) = [c EXCEPT !.address = b]
      BY <1>3, <2>1 DEF WithPort
    <3> HIDE DEF b
    <3> QED
      BY <1>3, <1>11, <3>1 DEF Client
  <2>4. new.ip = old.ip /\ new.port = a.port /\ old.port # a.port
    BY <1>5, <2>2, <2>3 DEF Address
  <2>5. clients[s].quiet \/ s \in Free
    BY <1>6, <1>7, <2>4
  <2> QED
    BY <1>1, <1>5, <2>1, <2>4, <2>5 DEF Rewrites
<1> QED
  BY <1>8, <1>9, <1>10, <1>11

(* Two slots come to share an address only when a connect packet rewrites  *)
(* the port of a silent client's slot or of a free one.                    *)
THEOREM AddressesApart == SessionSpec => OneSlot
<1>1. IInv /\ [SessionNext]_sessionVars => (OneSlotEach /\ ~OneSlotEach' => Rewrites)
  <2> SUFFICES ASSUME IInv, [SessionNext]_sessionVars, OneSlotEach, ~OneSlotEach'
               PROVE  Rewrites
    OBVIOUS
  <2>1. ~KeepsAddresses
    BY DEF KeepsAddresses, OneSlotEach
  <2> QED
    BY <2>1, OthersKeep, ConnectRewrites
<1>2. IInv /\ [SessionNext]_sessionVars => [OneSlotEach /\ ~OneSlotEach' => Rewrites]_sessionVars
  BY <1>1
<1> QED
  BY <1>2, SlotInvariant, PTL DEF SessionSpec, OneSlot, Rewrites
=============================================================================
