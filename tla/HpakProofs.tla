----------------------------- MODULE HpakProofs -----------------------------
(***************************************************************************)
(* The pack of customizations keeps its form and what is in it, for any    *)
(* lumps and limits.                                                       *)
(*                                                                         *)
(* The files stay directories in order (FilesInv).  What a writing is up   *)
(* to tells where the old pack and the new one are (TaskInv), and what was *)
(* promised is on one way through the queue, the writing and the file      *)
(* (PromiseInv).                                                           *)
(***************************************************************************)
EXTENDS Hpak, FiniteSetTheorems, SequenceTheorems, WellFoundedInduction, TLAPS

(* A directory holds a lump once: its entries descend.                      *)
Descends(s) == \A i, j \in DOMAIN s : i < j => s[i] > s[j]

File == [state : {"absent", "unfinished", "whole"}, lumps : Seq(Lumps)]

(* A file that is whole has entries, and no other has.                      *)
GoodFile(file) ==
    /\ file \in File
    /\ Descends(file.lumps)
    /\ file.state = "whole" <=> file.lumps # <<>>

FilesInv == GoodFile(pak) /\ GoodFile(temp) /\ GoodFile(task.file)

(* What a writing has done so far, and what it still has to do.             *)
TaskInv ==
    /\ task \in [kind : {"none", "lump", "create", "write", "unlink", "rename"},
                 lump : Lumps \cup {0}, file : File]
    /\ task.kind = "none" <=> task = Idle
    /\ server = "off" => task = Idle
    /\ task.kind \in {"lump", "create"} => task.lump \in Lumps
    /\ pak.state = "unfinished" => task.kind = "create" \/ server = "off"
    /\ task.kind = "create" => pak = Unfinished /\ task.file = Whole(<<task.lump>>)
    /\ task.kind \in {"write", "unlink", "rename"} =>
         /\ task.file.state = "whole"
         /\ wasWritten \ ToSet(task.file.lumps) \subseteq {task.lump}
    /\ task.kind = "write" => pak.state = "whole" /\ wasWritten = ToSet(pak.lumps)
    /\ task.kind = "unlink" => temp = task.file
    /\ task.kind = "rename" => temp = task.file /\ pak = Absent

(* The rest of the types.                                                   *)
RestInv ==
    /\ gp_hpak_queue \in Seq(Lumps)
    /\ flushing \in {"no", "flush", "remove"} /\ server \in {"runs", "stops", "off"}
    /\ uploads \in 0 .. MaxUploads /\ starts \in 0 .. MaxStarts
    /\ server # "runs" => starts < MaxStarts
    /\ promised \subseteq Lumps /\ wasWritten \subseteq Lumps

IInv == FilesInv /\ TaskInv /\ RestInv

(* The lumps on their way from the queue to the file.                       *)
OnTheWay ==
    CASE task.kind = "none" -> ToSet(pak.lumps)
      [] task.kind \in {"lump", "create"} -> ToSet(pak.lumps) \cup {task.lump}
      [] OTHER -> ToSet(task.file.lumps)

PromiseInv ==
    /\ promised \subseteq ToSet(gp_hpak_queue) \cup OnTheWay
    /\ server = "off" => gp_hpak_queue = <<>>

-----------------------------------------------------------------------------
(* Directories                                                             *)

LEMMA Numbers == Lumps \subseteq Nat /\ 0 \notin Lumps
  BY HpakAssumption

(* The entries in the directory s with l put before its k-th.               *)
IsInserted(r, s, k, l) ==
    /\ r \in Seq(Lumps) /\ Len(r) = Len(s) + 1
    /\ \A i \in 1 .. k - 1 : r[i] = s[i]
    /\ r[k] = l
    /\ \A i \in k + 1 .. Len(s) + 1 : r[i] = s[i - 1]

LEMMA InsertAtIs ==
    ASSUME NEW s \in Seq(Lumps), NEW k \in 1 .. Len(s), NEW l \in Lumps
    PROVE  IsInserted(InsertAt(s, k, l), s, k, l)
<1> DEFINE n == Len(s)
           a == SubSeq(s, 1, k - 1)
           b == SubSeq(s, k, n)
<1>1. n \in Nat /\ k \in Nat /\ 1 <= k /\ k <= n
  OBVIOUS
<1>2. /\ a \in Seq(Lumps) /\ Len(a) = k - 1
      /\ \A i \in 1 .. k - 1 : a[i] = s[i]
  <2>1. \A i \in 1 .. k - 1 : s[i] \in Lumps
    BY <1>1
  <2> QED
    BY <1>1, <2>1, SubSeqProperties
<1>3. /\ b \in Seq(Lumps) /\ Len(b) = n - k + 1
      /\ \A i \in 1 .. n - k + 1 : b[i] = s[k + i - 1]
  <2>1. \A i \in k .. n : s[i] \in Lumps
    BY <1>1
  <2> QED
    BY <1>1, <2>1, SubSeqProperties
<1> HIDE DEF a, b
<1>4. <<l>> \in Seq(Lumps) /\ Len(<<l>>) = 1 /\ <<l>>[1] = l
  OBVIOUS
<1>5. PICK c : c = a \o <<l>>
  OBVIOUS
<1>6. /\ c \in Seq(Lumps) /\ Len(c) = k
      /\ \A i \in 1 .. k : c[i] = IF i <= k - 1 THEN a[i] ELSE <<l>>[i - (k - 1)]
  BY <1>1, <1>2, <1>4, <1>5, ConcatProperties
<1>7. PICK r : r = c \o b
  OBVIOUS
<1>8. /\ r \in Seq(Lumps) /\ Len(r) = n + 1
      /\ \A i \in 1 .. n + 1 : r[i] = IF i <= k THEN c[i] ELSE b[i - k]
  <2>1. Len(c) + Len(b) = n + 1
    BY <1>1, <1>3, <1>6
  <2>2. /\ r \in Seq(Lumps) /\ Len(r) = Len(c) + Len(b)
        /\ \A i \in 1 .. Len(c) + Len(b) : r[i] = IF i <= Len(c) THEN c[i] ELSE b[i - Len(c)]
    BY <1>3, <1>6, <1>7, ConcatProperties
  <2> QED
    BY <1>6, <2>1, <2>2
<1>9. ASSUME NEW i \in 1 .. k - 1 PROVE r[i] = s[i]
  <2>1. i \in 1 .. n + 1 /\ i \in 1 .. k /\ i <= k /\ i <= k - 1
    BY <1>1
  <2>2. r[i] = c[i] /\ c[i] = a[i]
    BY <1>6, <1>8, <2>1
  <2> QED
    BY <1>2, <2>2
<1>10. r[k] = l
  <2>1. k \in 1 .. n + 1 /\ k \in 1 .. k /\ k <= k /\ ~(k <= k - 1) /\ k - (k - 1) = 1
    BY <1>1
  <2>2. r[k] = c[k] /\ c[k] = <<l>>[1]
    BY <1>6, <1>8, <2>1
  <2> QED
    BY <1>4, <2>2
<1>11. ASSUME NEW i \in k + 1 .. n + 1 PROVE r[i] = s[i - 1]
  <2>1. i \in 1 .. n + 1 /\ ~(i <= k) /\ i - k \in 1 .. n - k + 1 /\ k + (i - k) - 1 = i - 1
    BY <1>1
  <2>2. r[i] = b[i - k]
    BY <1>8, <2>1
  <2> QED
    BY <1>3, <2>1, <2>2
<1>12. InsertAt(s, k, l) = r
  BY <1>5, <1>7 DEF InsertAt, a, b
<1> QED
  BY <1>8, <1>9, <1>10, <1>11, <1>12 DEF IsInserted

(* A lump is entered once, and in its place.                                *)
LEMMA InsertedDirectory ==
    ASSUME NEW s \in Seq(Lumps), Descends(s), NEW l \in Lumps, l \notin ToSet(s)
    PROVE  /\ Inserted(s, l) \in Seq(Lumps) /\ Inserted(s, l) # <<>>
           /\ Descends(Inserted(s, l))
           /\ ToSet(Inserted(s, l)) = ToSet(s) \cup {l}
<1> DEFINE n == Len(s)
           below == {i \in DOMAIN s : l >= s[i]}
<1>1. n \in Nat /\ DOMAIN s = 1 .. n /\ \A i \in 1 .. n : s[i] \in Nat /\ s[i] # l
  <2>1. n \in Nat /\ DOMAIN s = 1 .. n /\ \A i \in 1 .. n : s[i] \in Lumps
    OBVIOUS
  <2>2. \A i \in 1 .. n : s[i] # l
    BY <2>1 DEF ToSet
  <2> QED
    BY <2>1, <2>2, Numbers
<1>2. l \in Nat
  BY Numbers
<1> DEFINE r == Inserted(s, l)
<1>3. PICK k \in 1 .. n + 1 :
         /\ r = Inserted(s, l) /\ IsInserted(r, s, k, l)
         /\ \A i \in 1 .. k - 1 : s[i] > l
         /\ \A i \in k .. n : l > s[i]
  <2>1. CASE below = {}
    <3>1. Inserted(s, l) = Append(s, l)
      BY <2>1 DEF Inserted
    <3>2. IsInserted(Append(s, l), s, n + 1, l)
      BY <1>1, AppendProperties DEF IsInserted
    <3>3. \A i \in 1 .. n : s[i] > l
      BY <1>1, <1>2, <2>1
    <3>4. n + 1 \in 1 .. n + 1 /\ (n + 1) - 1 = n /\ (n + 1) .. n = {}
      BY <1>1
    <3> HIDE DEF n
    <3>5. /\ IsInserted(Inserted(s, l), s, n + 1, l)
          /\ \A i \in 1 .. (n + 1) - 1 : s[i] > l
          /\ \A i \in n + 1 .. n : l > s[i]
      BY <3>1, <3>2, <3>3, <3>4
    <3> QED
      BY <3>4, <3>5
  <2>2. CASE below # {}
    <3>1. below \subseteq Nat
      BY <1>1
    <3>2. PICK k \in below : \A i \in below : ~(<<i, k>> \in OpToRel(<, Nat))
      BY <2>2, <3>1, NatLessThanWellFounded, WFMin
    <3>3. ASSUME NEW i \in below PROVE k <= i
      <4>1. i \in Nat /\ k \in Nat
        BY <3>1
      <4>2. ~(i < k)
        BY <3>2, <4>1 DEF OpToRel
      <4> QED
        BY <4>1, <4>2
    <3>4. Min(below) = k
      <4>1. \A x, y \in below : x <= y /\ y <= x => x = y
        BY <3>1
      <4> QED
        BY <3>3, <4>1 DEF Min
    <3>5. Inserted(s, l) = InsertAt(s, k, l)
      BY <2>2, <3>4 DEF Inserted
    <3>6. k \in 1 .. n /\ k \in 1 .. n + 1
      BY <1>1
    <3>7. IsInserted(InsertAt(s, k, l), s, k, l)
      BY <3>6, InsertAtIs
    <3>8. ASSUME NEW i \in 1 .. k - 1 PROVE s[i] > l
      <4>1. i \in 1 .. n /\ ~(k <= i)
        BY <3>6
      <4>2. i \notin below
        BY <3>3, <4>1
      <4> QED
        BY <1>1, <1>2, <4>1, <4>2
    <3>9. ASSUME NEW i \in k .. n PROVE l > s[i]
      <4>1. i \in 1 .. n /\ (i = k \/ k < i)
        BY <3>6
      <4>2. i = k \/ s[k] > s[i]
        BY <1>1, <3>6, <4>1 DEF Descends
      <4>3. l >= s[k]
        BY <3>2
      <4> QED
        BY <1>1, <1>2, <3>6, <4>1, <4>2, <4>3
    <3> QED
      BY <3>5, <3>6, <3>7, <3>8, <3>9
  <2> QED
    BY <2>1, <2>2
<1> HIDE DEF r
<1>4. /\ r \in Seq(Lumps) /\ Len(r) = n + 1 /\ DOMAIN r = 1 .. n + 1
      /\ \A i \in 1 .. k - 1 : r[i] = s[i]
      /\ r[k] = l
      /\ \A i \in k + 1 .. n + 1 : r[i] = s[i - 1]
  BY <1>3 DEF IsInserted
<1>5. r # <<>>
  BY <1>1, <1>4
<1>6. ASSUME NEW i \in 1 .. n + 1, NEW j \in 1 .. n + 1, i < j
      PROVE  r[i] > r[j]
  <2>1. CASE j < k
    <3>1. i \in 1 .. k - 1 /\ j \in 1 .. k - 1 /\ i \in 1 .. n /\ j \in 1 .. n
      BY <1>1, <1>6, <2>1
    <3> QED
      BY <1>1, <1>4, <1>6, <3>1 DEF Descends
  <2>2. CASE j = k
    <3>1. i \in 1 .. k - 1
      BY <1>6, <2>2
    <3> QED
      BY <1>3, <1>4, <2>2, <3>1
  <2>3. CASE i < k /\ k < j
    <3>1. /\ i \in 1 .. k - 1 /\ i \in 1 .. n /\ j \in k + 1 .. n + 1 /\ j - 1 \in 1 .. n
          /\ i < j - 1 /\ r[i] = s[i] /\ r[j] = s[j - 1]
      BY <1>1, <1>4, <2>3
    <3> QED
      BY <1>1, <3>1 DEF Descends
  <2>4. CASE i = k
    <3>1. j \in k + 1 .. n + 1 /\ j - 1 \in k .. n
      BY <1>6, <2>4
    <3> QED
      BY <1>3, <1>4, <2>4, <3>1
  <2>5. CASE k < i
    <3>1. /\ i - 1 \in 1 .. n /\ j - 1 \in 1 .. n /\ i - 1 < j - 1
          /\ i \in k + 1 .. n + 1 /\ j \in k + 1 .. n + 1
      BY <1>1, <1>6, <2>5
    <3> QED
      BY <1>1, <1>4, <3>1 DEF Descends
  <2> QED
    BY <1>6, <2>1, <2>2, <2>3, <2>4, <2>5
<1>7. ASSUME NEW x
      PROVE  x \in ToSet(r) <=> x \in ToSet(s) \/ x = l
  <2>1. ASSUME NEW i \in 1 .. n + 1 PROVE r[i] \in ToSet(s) \/ r[i] = l
    <3>1. i \in 1 .. k - 1 \/ i = k \/ i \in k + 1 .. n + 1
      OBVIOUS
    <3>2. i \in 1 .. k - 1 => i \in 1 .. n
      BY <1>1
    <3>3. i \in k + 1 .. n + 1 => i - 1 \in 1 .. n
      BY <1>1
    <3> QED
      BY <1>1, <1>4, <3>1, <3>2, <3>3 DEF ToSet
  <2>2. ASSUME NEW i \in 1 .. n PROVE s[i] \in ToSet(r)
    <3>1. CASE i < k
      <4>1. i \in 1 .. k - 1 /\ i \in 1 .. n + 1
        BY <3>1
      <4> QED
        BY <1>4, <4>1 DEF ToSet
    <3>2. CASE ~(i < k)
      <4>1. i + 1 \in k + 1 .. n + 1 /\ i + 1 \in 1 .. n + 1 /\ (i + 1) - 1 = i
        BY <1>1, <3>2
      <4> QED
        BY <1>4, <4>1 DEF ToSet
    <3> QED
      BY <3>1, <3>2
  <2>3. l \in ToSet(r)
    BY <1>4 DEF ToSet
  <2> QED
    BY <1>1, <1>4, <2>1, <2>2, <2>3 DEF ToSet
<1> QED
  BY <1>3, <1>4, <1>5, <1>6, <1>7 DEF Descends

(* The entries of the directory s but its k-th.                             *)
LEMMA RemoveAtIs ==
    ASSUME NEW s \in Seq(Lumps), NEW k \in 1 .. Len(s)
    PROVE  /\ RemoveAt(s, k) \in Seq(Lumps) /\ Len(RemoveAt(s, k)) = Len(s) - 1
           /\ \A i \in 1 .. k - 1 : RemoveAt(s, k)[i] = s[i]
           /\ \A i \in k .. Len(s) - 1 : RemoveAt(s, k)[i] = s[i + 1]
<1> DEFINE n == Len(s)
           a == SubSeq(s, 1, k - 1)
           b == SubSeq(s, k + 1, n)
<1>1. n \in Nat /\ k \in Nat /\ 1 <= k /\ k <= n
  OBVIOUS
<1>2. /\ a \in Seq(Lumps) /\ Len(a) = k - 1
      /\ \A i \in 1 .. k - 1 : a[i] = s[i]
  <2>1. \A i \in 1 .. k - 1 : s[i] \in Lumps
    BY <1>1
  <2> QED
    BY <1>1, <2>1, SubSeqProperties
<1>3. /\ b \in Seq(Lumps) /\ Len(b) = n - k
      /\ \A i \in 1 .. n - k : b[i] = s[k + i]
  <2>1. \A i \in k + 1 .. n : s[i] \in Lumps
    BY <1>1
  <2>2. /\ b \in Seq(Lumps) /\ Len(b) = IF k + 1 <= n THEN n - (k + 1) + 1 ELSE 0
        /\ \A i \in 1 .. n - (k + 1) + 1 : b[i] = s[(k + 1) + i - 1]
    BY <1>1, <2>1, SubSeqProperties
  <2>3. \A i \in 1 .. n - k : i \in 1 .. n - (k + 1) + 1 /\ (k + 1) + i - 1 = k + i
    BY <1>1
  <2> QED
    BY <1>1, <2>2, <2>3
<1> HIDE DEF a, b
<1>4. PICK r : r = a \o b
  OBVIOUS
<1>5. /\ r \in Seq(Lumps) /\ Len(r) = n - 1
      /\ \A i \in 1 .. n - 1 : r[i] = IF i <= k - 1 THEN a[i] ELSE b[i - (k - 1)]
  <2>1. Len(a) + Len(b) = n - 1
    BY <1>1, <1>2, <1>3
  <2>2. /\ r \in Seq(Lumps) /\ Len(r) = Len(a) + Len(b)
        /\ \A i \in 1 .. Len(a) + Len(b) : r[i] = IF i <= Len(a) THEN a[i] ELSE b[i - Len(a)]
    BY <1>2, <1>3, <1>4, ConcatProperties
  <2> QED
    BY <1>2, <2>1, <2>2
<1>6. ASSUME NEW i \in 1 .. k - 1 PROVE r[i] = s[i]
  <2>1. i \in 1 .. n - 1 /\ i <= k - 1
    BY <1>1
  <2> QED
    BY <1>2, <1>5, <2>1
<1>7. ASSUME NEW i \in k .. n - 1 PROVE r[i] = s[i + 1]
  <2>1. /\ i \in 1 .. n - 1 /\ ~(i <= k - 1) /\ i - (k - 1) \in 1 .. n - k
        /\ k + (i - (k - 1)) = i + 1
    BY <1>1
  <2>2. r[i] = b[i - (k - 1)]
    BY <1>5, <2>1
  <2> QED
    BY <1>3, <2>1, <2>2
<1>8. RemoveAt(s, k) = r
  BY <1>4 DEF RemoveAt, a, b
<1> QED
  BY <1>5, <1>6, <1>7, <1>8

(* Of a directory with more than one entry nothing but the lump is left out. *)
LEMMA RemovedDirectory ==
    ASSUME NEW s \in Seq(Lumps), Descends(s), NEW l \in ToSet(s), Len(s) > 1
    PROVE  /\ Removed(s, l) \in Seq(Lumps) /\ Removed(s, l) # <<>>
           /\ Descends(Removed(s, l))
           /\ ToSet(s) \ {l} \subseteq ToSet(Removed(s, l))
<1> DEFINE n == Len(s)
           k == CHOOSE i \in DOMAIN s : s[i] = l
<1>1. n \in Nat /\ DOMAIN s = 1 .. n /\ n > 1
  OBVIOUS
<1>2. \A i \in 1 .. n : s[i] \in Nat
  <2>1. \A i \in 1 .. n : s[i] \in Lumps
    BY <1>1
  <2> QED
    BY <2>1, Numbers
<1>3. k \in 1 .. n /\ s[k] = l
  BY <1>1 DEF ToSet
<1> HIDE DEF k
<1>4. PICK r : r = Removed(s, l)
  OBVIOUS
<1>5. /\ r \in Seq(Lumps) /\ Len(r) = n - 1 /\ DOMAIN r = 1 .. n - 1
      /\ \A i \in 1 .. k - 1 : r[i] = s[i]
      /\ \A i \in k .. n - 1 : r[i] = s[i + 1]
  <2>1. r = RemoveAt(s, k)
    BY <1>4 DEF Removed, k
  <2> QED
    BY <1>3, <2>1, RemoveAtIs
<1>6. r # <<>>
  BY <1>1, <1>5
<1>7. ASSUME NEW i \in 1 .. n - 1, NEW j \in 1 .. n - 1, i < j
      PROVE  r[i] > r[j]
  <2>1. CASE j < k
    <3>1. i \in 1 .. k - 1 /\ j \in 1 .. k - 1 /\ i \in 1 .. n /\ j \in 1 .. n
      BY <1>1, <1>3, <1>7, <2>1
    <3> QED
      BY <1>1, <1>5, <1>7, <3>1 DEF Descends
  <2>2. CASE i < k /\ ~(j < k)
    <3>1. /\ i \in 1 .. k - 1 /\ i \in 1 .. n /\ j \in k .. n - 1 /\ j + 1 \in 1 .. n
          /\ i < j + 1
      BY <1>1, <1>3, <1>7, <2>2
    <3> QED
      BY <1>1, <1>5, <3>1 DEF Descends
  <2>3. CASE ~(i < k)
    <3>1. /\ i \in k .. n - 1 /\ j \in k .. n - 1 /\ i + 1 \in 1 .. n /\ j + 1 \in 1 .. n
          /\ i + 1 < j + 1
      BY <1>1, <1>3, <1>7, <2>3
    <3> QED
      BY <1>1, <1>5, <3>1 DEF Descends
  <2> QED
    BY <2>1, <2>2, <2>3
<1>8. ASSUME NEW i \in 1 .. n, s[i] # l
      PROVE  s[i] \in ToSet(r)
  <2>1. CASE i < k
    <3>1. i \in 1 .. k - 1 /\ i \in 1 .. n - 1
      BY <1>1, <1>3, <2>1
    <3> QED
      BY <1>5, <3>1 DEF ToSet
  <2>2. CASE k < i
    <3>1. i - 1 \in k .. n - 1 /\ i - 1 \in 1 .. n - 1 /\ (i - 1) + 1 = i
      BY <1>1, <1>3, <2>2
    <3> QED
      BY <1>5, <3>1 DEF ToSet
  <2> QED
    BY <1>3, <1>8, <2>1, <2>2
<1> QED
  BY <1>1, <1>4, <1>5, <1>6, <1>7, <1>8 DEF Descends, ToSet

(* The lump at the head of the queue and those behind it.                   *)
LEMMA HeadAndTail ==
    ASSUME NEW q \in Seq(Lumps), q # <<>>
    PROVE  /\ Head(q) \in Lumps /\ Tail(q) \in Seq(Lumps)
           /\ ToSet(q) \subseteq ToSet(Tail(q)) \cup {Head(q)}
<1>1. /\ Head(q) \in Lumps /\ Tail(q) \in Seq(Lumps) /\ Len(Tail(q)) = Len(q) - 1
      /\ \A i \in 1 .. Len(Tail(q)) : Tail(q)[i] = q[i + 1]
  BY HeadTailProperties
<1>2. Head(q) = q[1] /\ Len(q) \in Nat /\ DOMAIN q = 1 .. Len(q)
  OBVIOUS
<1>3. ASSUME NEW i \in 1 .. Len(q)
      PROVE  q[i] \in ToSet(Tail(q)) \cup {Head(q)}
  <2>1. CASE i = 1
    BY <1>2, <2>1
  <2>2. CASE i # 1
    <3>1. i - 1 \in 1 .. Len(Tail(q)) /\ (i - 1) + 1 = i
      BY <1>1, <1>2, <2>2
    <3>2. Tail(q)[i - 1] = q[i] /\ i - 1 \in DOMAIN Tail(q)
      BY <1>1, <3>1
    <3> QED
      BY <3>2 DEF ToSet
  <2> QED
    BY <2>1, <2>2
<1> QED
  BY <1>1, <1>2, <1>3 DEF ToSet

(* A lump put at the head of the queue.                                     *)
LEMMA Queued ==
    ASSUME NEW q \in Seq(Lumps), NEW l \in Lumps
    PROVE  /\ <<l>> \o q \in Seq(Lumps)
           /\ ToSet(q) \cup {l} \subseteq ToSet(<<l>> \o q)
<1>1. <<l>> \in Seq(Lumps) /\ Len(<<l>>) = 1 /\ <<l>>[1] = l
  OBVIOUS
<1>2. PICK r : r = <<l>> \o q
  OBVIOUS
<1>3. /\ r \in Seq(Lumps) /\ Len(r) = 1 + Len(q) /\ DOMAIN r = 1 .. 1 + Len(q)
      /\ \A i \in 1 .. 1 + Len(q) : r[i] = IF i <= 1 THEN <<l>>[i] ELSE q[i - 1]
  BY <1>1, <1>2, ConcatProperties
<1>4. l \in ToSet(r)
  <2>1. 1 \in 1 .. 1 + Len(q)
    OBVIOUS
  <2> QED
    BY <1>1, <1>3, <2>1 DEF ToSet
<1>5. ASSUME NEW i \in 1 .. Len(q) PROVE q[i] \in ToSet(r)
  <2>1. i + 1 \in 1 .. 1 + Len(q) /\ ~(i + 1 <= 1) /\ (i + 1) - 1 = i
    OBVIOUS
  <2>2. r[i + 1] = q[i]
    BY <1>3, <2>1
  <2> QED
    BY <1>3, <2>1, <2>2 DEF ToSet
<1>6. ToSet(q) \cup {l} \subseteq ToSet(r)
  <2>1. DOMAIN q = 1 .. Len(q)
    OBVIOUS
  <2>2. ToSet(q) \subseteq ToSet(r)
    <3>1. \A x \in ToSet(q) : \E i \in 1 .. Len(q) : x = q[i]
      BY <2>1 DEF ToSet
    <3> QED
      BY <1>5, <3>1
  <2> QED
    BY <1>4, <2>2
<1> QED
  BY <1>2, <1>3, <1>6

(* A directory has no more entries than there are lumps.                    *)
LEMMA DirectoryFits ==
    ASSUME NEW s \in Seq(Lumps), Descends(s)
    PROVE  Len(s) <= Cardinality(Lumps)
<1>1. Len(s) \in Nat /\ DOMAIN s = 1 .. Len(s) /\ s \in [1 .. Len(s) -> Lumps]
  OBVIOUS
<1>2. \A i \in 1 .. Len(s) : s[i] \in Nat
  BY <1>1, Numbers
<1>3. ASSUME NEW i \in 1 .. Len(s), NEW j \in 1 .. Len(s), s[i] = s[j]
      PROVE  i = j
  <2>1. ~(i < j) /\ ~(j < i)
    BY <1>1, <1>2, <1>3 DEF Descends
  <2> QED
    BY <2>1
<1>4. s \in Injection(1 .. Len(s), Lumps)
  BY <1>1, <1>3 DEF Injection, IsInjective
<1>5. Cardinality(1 .. Len(s)) <= Cardinality(Lumps)
  BY <1>4, HpakAssumption, FS_Injection
<1>6. Cardinality(1 .. Len(s)) = Len(s)
  <2>1. PICK n \in Nat : n = Len(s)
    BY <1>1
  <2>2. Cardinality(1 .. n) = IF 1 > n THEN 0 ELSE n - 1 + 1
    BY FS_Interval
  <2> QED
    BY <2>1, <2>2
<1> QED
  BY <1>5, <1>6

(* The files a writing begins and ends with.                                *)
LEMMA Forms ==
    /\ GoodFile(Absent) /\ GoodFile(Unfinished)
    /\ \A l \in Lumps : GoodFile(Whole(<<l>>))
<1>1. <<>> \in Seq(Lumps) /\ DOMAIN <<>> = {}
  OBVIOUS
<1>2. GoodFile(Absent) /\ GoodFile(Unfinished)
  BY <1>1 DEF GoodFile, Absent, Unfinished, File, Descends
<1>3. ASSUME NEW l \in Lumps PROVE GoodFile(Whole(<<l>>))
  <2>1. <<l>> \in Seq(Lumps) /\ DOMAIN <<l>> = 1 .. 1 /\ <<l>> # <<>>
    OBVIOUS
  <2>2. Descends(<<l>>)
    BY <2>1 DEF Descends
  <2> QED
    BY <2>1, <2>2 DEF GoodFile, Whole, File
<1> QED
  BY <1>2, <1>3

LEMMA FormsOf ==
    ASSUME NEW file, GoodFile(file)
    PROVE  /\ file \in File /\ file.lumps \in Seq(Lumps) /\ Descends(file.lumps)
           /\ ToSet(file.lumps) \subseteq Lumps
           /\ file.state # "whole" => ToSet(file.lumps) = {}
           /\ file.state = "absent" => file = Absent
           /\ file.state = "whole" => Len(file.lumps) >= 1
<1>1. file \in File /\ file.lumps \in Seq(Lumps) /\ Descends(file.lumps)
  BY DEF GoodFile, File
<1>2. ToSet(file.lumps) \subseteq Lumps
  BY <1>1 DEF ToSet
<1>3. ASSUME file.state # "whole" PROVE file.lumps = <<>> /\ ToSet(file.lumps) = {}
  BY <1>3 DEF GoodFile, ToSet
<1>4. file.state = "absent" => file = Absent
  BY <1>1, <1>3 DEF File, Absent
<1>5. file.state = "whole" => Len(file.lumps) >= 1
  BY <1>1 DEF GoodFile
<1> QED
  BY <1>1, <1>2, <1>3, <1>4, <1>5

LEMMA IdleForm ==
    /\ Idle.kind = "none" /\ Idle.lump = 0 /\ Idle.file = Absent
    /\ Idle \in [kind : {"none", "lump", "create", "write", "unlink", "rename"},
                 lump : Lumps \cup {0}, file : File]
  BY Forms DEF Idle, GoodFile

-----------------------------------------------------------------------------
(* Every action keeps the form of the files and of the writing             *)

LEMMA InitForm == Init => IInv /\ PromiseInv
<1> SUFFICES ASSUME Init PROVE IInv /\ PromiseInv
  OBVIOUS
<1>1. FilesInv
  BY Forms, IdleForm DEF Init, FilesInv
<1>2. TaskInv
  BY IdleForm DEF Init, TaskInv, Absent
<1>3. RestInv
  BY HpakAssumption DEF Init, RestInv
<1>4. PromiseInv
  BY DEF Init, PromiseInv
<1> QED
  BY <1>1, <1>2, <1>3, <1>4 DEF IInv

(* The actions that touch neither the files nor the writing.                *)
LEMMA QueueForm ==
    ASSUME IInv,
           \/ \E l \in Lumps : Upload(l)
           \/ \E why \in {"flush", "remove"} : Flush(why)
           \/ FlushDone \/ NotRemoved \/ Shutdown \/ Stopped
    PROVE  IInv'
<1> USE DEF IInv
<1>1. pak' = pak /\ temp' = temp /\ task' = task /\ wasWritten' = wasWritten
  BY DEF Upload, Flush, FlushDone, NotRemoved, Shutdown, Stopped
<1>2. server' = "off" => server = "off" \/ task = Idle
  BY DEF Upload, Flush, FlushDone, NotRemoved, Shutdown, Stopped
<1>3. server' = server \/ server # "off"
  BY DEF Upload, Flush, FlushDone, NotRemoved, Shutdown, Stopped, Quiet
<1>4. FilesInv' /\ TaskInv'
  BY <1>1, <1>2, <1>3 DEF FilesInv, TaskInv
<1>5. RestInv'
  <2>1. ASSUME NEW l \in Lumps, Upload(l) PROVE RestInv'
    <3>1. gp_hpak_queue' \in Seq(Lumps)
      BY <2>1, Queued DEF Upload, RestInv
    <3>2. uploads' \in 0 .. MaxUploads
      BY <2>1, HpakAssumption DEF Upload, RestInv
    <3> QED
      BY <2>1, <3>1, <3>2 DEF Upload, RestInv, Quiet
  <2>2. ASSUME NEW why \in {"flush", "remove"}, Flush(why) PROVE RestInv'
    BY <2>2 DEF Flush, RestInv
  <2>3. CASE FlushDone \/ NotRemoved
    BY <2>3 DEF FlushDone, NotRemoved, RestInv
  <2>4. CASE Shutdown
    BY <2>4 DEF Shutdown, RestInv
  <2>5. CASE Stopped
    BY <2>5 DEF Stopped, RestInv
  <2> QED
    BY <2>1, <2>2, <2>3, <2>4, <2>5
<1> QED
  BY <1>4, <1>5

LEMMA FlushNextForm == ASSUME IInv, FlushNext PROVE IInv'
<1> USE DEF IInv
<1>1. Head(gp_hpak_queue) \in Lumps /\ Tail(gp_hpak_queue) \in Seq(Lumps)
  BY HeadAndTail DEF RestInv, FlushNext
<1>2. GoodFile(task'.file) /\ task'.kind = "lump" /\ task'.lump \in Lumps
      /\ task'.file = Absent /\ task'.file \in File
  BY <1>1, Forms DEF FlushNext, Lump, GoodFile
<1>3. FilesInv'
  BY <1>2 DEF FilesInv, FlushNext
<1>4. TaskInv'
  <2>1. task' \in [kind : {"none", "lump", "create", "write", "unlink", "rename"},
                   lump : Lumps \cup {0}, file : File]
    BY <1>1, <1>2 DEF FlushNext, Lump
  <2>2. pak'.state # "unfinished" /\ server' # "off"
    BY IdleForm DEF FlushNext, Free, TaskInv
  <2>3. task' # Idle
    BY <1>2, IdleForm
  <2> QED
    BY <1>2, <2>1, <2>2, <2>3 DEF TaskInv
<1>5. RestInv'
  BY <1>1 DEF FlushNext, RestInv
<1> QED
  BY <1>3, <1>4, <1>5

LEMMA CreatePakForm == ASSUME IInv, CreatePak PROVE IInv'
<1> USE DEF IInv
<1>1. task.lump \in Lumps /\ server # "off"
  BY IdleForm DEF CreatePak, TaskInv
<1>2. /\ task'.kind = "create" /\ task'.lump = task.lump
      /\ task'.file = Whole(<<task.lump>>) /\ GoodFile(task'.file)
  BY <1>1, Forms DEF CreatePak
<1>3. FilesInv'
  BY <1>2, Forms DEF FilesInv, CreatePak
<1>4. TaskInv'
  <2>1. task' \in [kind : {"none", "lump", "create", "write", "unlink", "rename"},
                   lump : Lumps \cup {0}, file : File]
    BY <1>1, <1>2 DEF CreatePak, GoodFile
  <2>2. task' # Idle
    BY <1>2, IdleForm
  <2> QED
    BY <1>1, <1>2, <2>1, <2>2 DEF TaskInv, CreatePak
<1>5. RestInv'
  BY DEF CreatePak, RestInv
<1> QED
  BY <1>3, <1>4, <1>5

LEMMA NotAddedForm == ASSUME IInv, NotAdded PROVE IInv'
<1> USE DEF IInv
<1>1. pak.state # "unfinished"
  BY IdleForm DEF NotAdded, TaskInv
<1>2. FilesInv'
  BY Forms, IdleForm DEF FilesInv, NotAdded
<1>3. TaskInv'
  BY <1>1, IdleForm DEF TaskInv, NotAdded
<1>4. RestInv'
  BY DEF NotAdded, RestInv
<1> QED
  BY <1>2, <1>3, <1>4

(* The writing of a new pack begins.                                        *)
LEMMA WriteForm ==
    ASSUME IInv, NEW l \in Lumps, NEW lumps,
           lumps \in Seq(Lumps), lumps # <<>>, Descends(lumps),
           ToSet(pak.lumps) \ {l} \subseteq ToSet(lumps),
           Readable(pak), server # "off", temp' = Unfinished,
           task' = [kind |-> "write", lump |-> l, file |-> Whole(lumps)],
           wasWritten' = ToSet(pak.lumps),
           UNCHANGED <<pak, server, uploads, starts>>
    PROVE  FilesInv' /\ TaskInv' /\ wasWritten' \subseteq Lumps
<1> USE DEF IInv
<1>1. GoodFile(Whole(lumps))
  BY DEF GoodFile, Whole, File
<1>2. /\ task'.kind = "write" /\ task'.lump = l /\ task'.file = Whole(lumps)
      /\ task'.file.state = "whole" /\ task'.file.lumps = lumps
  BY DEF Whole
<1>3. FilesInv'
  BY <1>1, <1>2, Forms DEF FilesInv
<1>4. TaskInv'
  <2>1. task' \in [kind : {"none", "lump", "create", "write", "unlink", "rename"},
                   lump : Lumps \cup {0}, file : File]
    BY <1>1 DEF GoodFile
  <2>2. task' # Idle
    BY <1>2, IdleForm
  <2>3. pak'.state = "whole"
    BY DEF Readable
  <2> QED
    BY <1>2, <2>1, <2>2, <2>3 DEF TaskInv
<1>5. wasWritten' \subseteq Lumps
  BY FormsOf DEF FilesInv
<1> QED
  BY <1>3, <1>4, <1>5

LEMMA AddLumpForm == ASSUME IInv, AddLump PROVE IInv'
<1> USE DEF IInv
<1>1. task.lump \in Lumps /\ server # "off"
  BY IdleForm DEF AddLump, TaskInv
<1>2. pak.lumps \in Seq(Lumps) /\ Descends(pak.lumps)
  BY FormsOf DEF FilesInv
<1>3. PICK lumps :
         /\ lumps = Inserted(pak.lumps, task.lump)
         /\ lumps \in Seq(Lumps) /\ lumps # <<>> /\ Descends(lumps)
         /\ ToSet(lumps) = ToSet(pak.lumps) \cup {task.lump}
  BY <1>1, <1>2, InsertedDirectory DEF AddLump
<1>4. ToSet(pak.lumps) \ {task.lump} \subseteq ToSet(lumps)
  BY <1>3
<1>5. FilesInv' /\ TaskInv' /\ wasWritten' \subseteq Lumps
  BY <1>1, <1>3, <1>4, WriteForm DEF AddLump
<1> QED
  BY <1>5 DEF AddLump, RestInv

LEMMA RemoveLumpForm == ASSUME IInv, NEW l \in Lumps, RemoveLump(l) PROVE IInv'
<1> USE DEF IInv
<1>1. server # "off"
  BY DEF RemoveLump, Free
<1>2. pak.lumps \in Seq(Lumps) /\ Descends(pak.lumps)
  BY FormsOf DEF FilesInv
<1>3. PICK lumps :
         /\ lumps = Removed(pak.lumps, l)
         /\ lumps \in Seq(Lumps) /\ lumps # <<>> /\ Descends(lumps)
         /\ ToSet(pak.lumps) \ {l} \subseteq ToSet(lumps)
  BY <1>2, RemovedDirectory DEF RemoveLump
<1>4. FilesInv' /\ TaskInv' /\ wasWritten' \subseteq Lumps
  BY <1>1, <1>3, WriteForm DEF RemoveLump
<1> QED
  BY <1>4 DEF RemoveLump, RestInv

LEMMA RemoveFinalForm == ASSUME IInv, NEW l \in Lumps, RemoveFinal(l) PROVE IInv'
<1> USE DEF IInv
<1>1. FilesInv'
  BY Forms DEF FilesInv, RemoveFinal
<1>2. TaskInv'
  BY IdleForm DEF TaskInv, RemoveFinal, Free, Absent
<1>3. RestInv'
  BY DEF RemoveFinal, RestInv
<1> QED
  BY <1>1, <1>2, <1>3

(* The steps of a writing.                                                  *)
LEMMA WritingForm ==
    ASSUME IInv, Created \/ Written \/ Unlink \/ Rename PROVE IInv'
<1> USE DEF IInv
<1>1. RestInv'
  BY DEF Created, Written, Unlink, Rename, RestInv
<1>2. server # "off" /\ server' = server
  BY IdleForm DEF Created, Written, Unlink, Rename, TaskInv
<1>3. CASE Created
  <2>1. FilesInv'
    BY <1>3, Forms, IdleForm DEF FilesInv, Created
  <2>2. pak'.state = "whole"
    BY <1>3 DEF Created, TaskInv, Whole
  <2>3. TaskInv'
    BY <1>2, <1>3, <2>2, IdleForm DEF TaskInv, Created
  <2> QED
    BY <1>1, <2>1, <2>3
<1>4. CASE Written
  <2>1. /\ task'.kind = "unlink" /\ task'.lump = task.lump /\ task'.file = task.file
        /\ task' \in [kind : {"none", "lump", "create", "write", "unlink", "rename"},
                      lump : Lumps \cup {0}, file : File]
    BY <1>4 DEF Written, TaskInv
  <2>2. task' # Idle
    BY <2>1, IdleForm
  <2>3. FilesInv'
    BY <1>4, <2>1 DEF FilesInv, Written
  <2>4. TaskInv'
    BY <1>2, <1>4, <2>1, <2>2 DEF TaskInv, Written
  <2> QED
    BY <1>1, <2>3, <2>4
<1>5. CASE Unlink
  <2>1. /\ task'.kind = "rename" /\ task'.lump = task.lump /\ task'.file = task.file
        /\ task' \in [kind : {"none", "lump", "create", "write", "unlink", "rename"},
                      lump : Lumps \cup {0}, file : File]
    BY <1>5 DEF Unlink, TaskInv
  <2>2. task' # Idle
    BY <2>1, IdleForm
  <2>3. FilesInv'
    BY <1>5, <2>1, Forms DEF FilesInv, Unlink
  <2>4. pak'.state = "absent"
    BY <1>5 DEF Unlink, Absent
  <2>5. TaskInv'
    BY <1>2, <1>5, <2>1, <2>2, <2>4 DEF TaskInv, Unlink
  <2> QED
    BY <1>1, <2>3, <2>5
<1>6. CASE Rename
  <2>1. FilesInv'
    BY <1>6, Forms, IdleForm DEF FilesInv, Rename
  <2>2. pak'.state = "whole"
    BY <1>6 DEF Rename, TaskInv
  <2>3. TaskInv'
    BY <1>2, <1>6, <2>2, IdleForm DEF TaskInv, Rename
  <2> QED
    BY <1>1, <2>1, <2>3
<1> QED
  BY <1>3, <1>4, <1>5, <1>6

LEMMA ServerForm == ASSUME IInv, CheckSize \/ Crash \/ Start PROVE IInv'
<1> USE DEF IInv
<1>1. CASE CheckSize
  <2>1. FilesInv'
    BY <1>1, Forms DEF FilesInv, CheckSize
  <2>2. TaskInv'
    BY <1>1, IdleForm DEF TaskInv, CheckSize, Quiet, Absent
  <2>3. RestInv'
    BY <1>1 DEF CheckSize, RestInv, ToSet
  <2> QED
    BY <2>1, <2>2, <2>3
<1>2. CASE Crash
  <2>1. FilesInv'
    BY <1>2, Forms, IdleForm DEF FilesInv, Crash
  <2>2. TaskInv'
    BY <1>2, IdleForm DEF TaskInv, Crash
  <2>3. RestInv'
    BY <1>2 DEF Crash, RestInv
  <2> QED
    BY <2>1, <2>2, <2>3
<1>3. CASE Start
  <2>1. FilesInv'
    BY <1>3, Forms DEF FilesInv, Start
  <2>2. pak'.state # "unfinished"
    BY <1>3 DEF Start, Readable, Absent
  <2>3. TaskInv'
    BY <1>3, <2>2, IdleForm DEF TaskInv, Start
  <2>4. RestInv'
    BY <1>3, HpakAssumption DEF Start, RestInv
  <2> QED
    BY <2>1, <2>3, <2>4
<1> QED
  BY <1>1, <1>2, <1>3

LEMMA StepForm == IInv /\ [Next]_vars => IInv'
<1> SUFFICES ASSUME IInv, [Next]_vars PROVE IInv'
  OBVIOUS
<1>1. ASSUME NEW l \in Lumps, Upload(l) \/ RemoveFinal(l) \/ RemoveLump(l) PROVE IInv'
  BY <1>1, QueueForm, RemoveFinalForm, RemoveLumpForm
<1>2. CASE Flush("flush") \/ Flush("remove") \/ FlushDone \/ NotRemoved \/ Shutdown \/ Stopped
  BY <1>2, QueueForm
<1>3. CASE FlushNext \/ CreatePak \/ NotAdded \/ AddLump
  BY <1>3, FlushNextForm, CreatePakForm, NotAddedForm, AddLumpForm
<1>4. CASE Created \/ Written \/ Unlink \/ Rename
  BY <1>4, WritingForm
<1>5. CASE CheckSize \/ Crash \/ Start
  BY <1>5, ServerForm
<1>6. CASE UNCHANGED vars
  BY <1>6 DEF vars, IInv, FilesInv, TaskInv, RestInv
<1> QED
  BY <1>1, <1>2, <1>3, <1>4, <1>5, <1>6 DEF Next

-----------------------------------------------------------------------------
(* What was promised is on its way                                         *)

Roomy == Cardinality(Lumps) <= MAX_FILE_ENTRIES

LEMMA WholeIsReadable ==
    ASSUME Roomy, NEW file, GoodFile(file), file.state = "whole"
    PROVE  Readable(file)
<1>1. file.lumps \in Seq(Lumps) /\ Len(file.lumps) >= 1 /\ Len(file.lumps) \in Nat
  BY FormsOf
<1>2. Len(file.lumps) <= Cardinality(Lumps)
  BY FormsOf, DirectoryFits
<1>3. Cardinality(Lumps) \in Nat /\ MAX_FILE_ENTRIES \in Nat
  BY HpakAssumption, FS_CardinalityType
<1> QED
  BY <1>1, <1>2, <1>3 DEF Readable, Roomy

LEMMA PakForms ==
    ASSUME IInv
    PROVE  /\ pak.state # "whole" => ToSet(pak.lumps) = {}
           /\ pak.state = "absent" => pak = Absent
           /\ pak.state \in {"absent", "unfinished", "whole"}
           /\ ToSet(Absent.lumps) = {} /\ ToSet(<<>>) = {}
           /\ Absent.state = "absent" /\ Unfinished.state = "unfinished"
           /\ Unfinished.lumps = <<>> /\ Absent.lumps = <<>>
<1>1. GoodFile(pak)
  BY DEF IInv, FilesInv
<1>2. ToSet(<<>>) = {}
  BY DEF ToSet
<1>3. pak.state \in {"absent", "unfinished", "whole"}
  BY <1>1 DEF GoodFile, File
<1> QED
  BY <1>1, <1>2, <1>3, FormsOf DEF Absent, Unfinished

(* The lumps of a file that is not being written.                           *)
LEMMA QueuePromise ==
    ASSUME IInv, PromiseInv,
           \/ \E l \in Lumps : Upload(l)
           \/ \E why \in {"flush", "remove"} : Flush(why)
           \/ FlushDone \/ NotRemoved \/ Shutdown \/ Stopped
    PROVE  PromiseInv'
<1>1. pak' = pak /\ task' = task
  BY DEF Upload, Flush, FlushDone, NotRemoved, Shutdown, Stopped
<1>2. OnTheWay' = OnTheWay
  BY <1>1 DEF OnTheWay
<1>3. ASSUME NEW l \in Lumps, Upload(l) PROVE PromiseInv'
  <2>1. ToSet(gp_hpak_queue) \cup {l} \subseteq ToSet(gp_hpak_queue')
    BY <1>3, Queued DEF Upload, IInv, RestInv
  <2>2. promised' = promised \cup {l} /\ server' = "runs"
    BY <1>3 DEF Upload, Quiet
  <2> QED
    BY <1>2, <2>1, <2>2 DEF PromiseInv
<1>4. CASE \/ \E why \in {"flush", "remove"} : Flush(why)
           \/ FlushDone \/ NotRemoved \/ Shutdown \/ Stopped
  <2>1. gp_hpak_queue' = gp_hpak_queue /\ promised' = promised
    BY <1>4 DEF Flush, FlushDone, NotRemoved, Shutdown, Stopped
  <2>2. server' = "off" => gp_hpak_queue' = <<>>
    BY <1>4 DEF Flush, FlushDone, NotRemoved, Shutdown, Stopped, Quiet, Free, PromiseInv
  <2> QED
    BY <1>2, <2>1, <2>2 DEF PromiseInv
<1> QED
  BY <1>3, <1>4

(* A lump goes from the queue to the writing and on to the file.            *)
LEMMA WritingPromise ==
    ASSUME Roomy, IInv, PromiseInv,
           \/ FlushNext \/ CreatePak \/ NotAdded \/ AddLump
           \/ Created \/ Written \/ Unlink \/ Rename
    PROVE  PromiseInv'
<1> USE DEF PromiseInv
<1>1. server' = server /\ promised' = promised /\ server # "off"
  BY IdleForm DEF FlushNext, Free, CreatePak, NotAdded, AddLump, Created, Written,
                  Unlink, Rename, IInv, TaskInv
<1>2. CASE FlushNext
  <2>1. ToSet(gp_hpak_queue) \subseteq ToSet(gp_hpak_queue') \cup {Head(gp_hpak_queue)}
    BY <1>2, HeadAndTail DEF FlushNext, IInv, RestInv
  <2>2. OnTheWay = ToSet(pak.lumps)
    BY <1>2, IdleForm DEF FlushNext, Free, OnTheWay
  <2>3. OnTheWay' = ToSet(pak.lumps) \cup {Head(gp_hpak_queue)}
    BY <1>2 DEF FlushNext, OnTheWay, Lump
  <2> QED
    BY <1>1, <2>1, <2>2, <2>3
<1>3. CASE CreatePak
  <2>1. OnTheWay = ToSet(pak.lumps) \cup {task.lump} /\ ToSet(pak.lumps) = {}
    BY <1>3, PakForms DEF CreatePak, OnTheWay
  <2>2. OnTheWay' = ToSet(pak'.lumps) \cup {task.lump}
    BY <1>3 DEF CreatePak, OnTheWay
  <2> QED
    BY <1>1, <1>3, <2>1, <2>2 DEF CreatePak
<1>4. CASE NotAdded
  <2>1. pak.state = "whole"
    BY <1>4, IdleForm, PakForms DEF NotAdded, IInv, TaskInv
  <2>2. task.lump \in ToSet(pak.lumps)
    BY <1>4, <2>1, WholeIsReadable DEF NotAdded, IInv, FilesInv
  <2>3. OnTheWay = ToSet(pak.lumps) \cup {task.lump} /\ OnTheWay' = ToSet(pak.lumps)
    BY <1>4, IdleForm DEF NotAdded, OnTheWay
  <2> QED
    BY <1>1, <1>4, <2>2, <2>3 DEF NotAdded
<1>5. CASE AddLump
  <2>1. task.lump \in Lumps
    BY <1>5 DEF AddLump, IInv, TaskInv
  <2>2. pak.lumps \in Seq(Lumps) /\ Descends(pak.lumps)
    BY FormsOf DEF IInv, FilesInv
  <2>3. ToSet(Inserted(pak.lumps, task.lump)) = ToSet(pak.lumps) \cup {task.lump}
    BY <1>5, <2>1, <2>2, InsertedDirectory DEF AddLump
  <2>4. /\ OnTheWay = ToSet(pak.lumps) \cup {task.lump}
        /\ OnTheWay' = ToSet(Inserted(pak.lumps, task.lump))
    BY <1>5 DEF AddLump, OnTheWay, Whole
  <2> QED
    BY <1>1, <1>5, <2>3, <2>4 DEF AddLump
<1>6. CASE Created
  <2>1. OnTheWay = ToSet(pak.lumps) \cup {task.lump} /\ ToSet(pak.lumps) = {}
    BY <1>6, PakForms DEF Created, OnTheWay, IInv, TaskInv
  <2>2. OnTheWay' = ToSet(<<task.lump>>)
    BY <1>6, IdleForm DEF Created, OnTheWay, IInv, TaskInv, Whole
  <2>3. task.lump \in ToSet(<<task.lump>>)
    BY DEF ToSet
  <2> QED
    BY <1>1, <1>6, <2>1, <2>2, <2>3 DEF Created
<1>7. CASE Written \/ Unlink
  <2>1. OnTheWay' = OnTheWay
    BY <1>7 DEF Written, Unlink, OnTheWay, IInv, TaskInv
  <2> QED
    BY <1>1, <1>7, <2>1 DEF Written, Unlink
<1>8. CASE Rename
  <2>1. OnTheWay = ToSet(task.file.lumps) /\ OnTheWay' = ToSet(task.file.lumps)
    BY <1>8, IdleForm DEF Rename, OnTheWay, IInv, TaskInv
  <2> QED
    BY <1>1, <1>8, <2>1 DEF Rename
<1> QED
  BY <1>2, <1>3, <1>4, <1>5, <1>6, <1>7, <1>8

(* A lump is given up by hand.                                              *)
LEMMA RemovalPromise ==
    ASSUME IInv, PromiseInv, NEW l \in Lumps, RemoveFinal(l) \/ RemoveLump(l)
    PROVE  PromiseInv'
<1> USE DEF PromiseInv
<1>1. /\ gp_hpak_queue = <<>> /\ gp_hpak_queue' = <<>> /\ promised' = promised \ {l}
      /\ server' = server
  BY DEF RemoveFinal, RemoveLump
<1>2. OnTheWay = ToSet(pak.lumps)
  BY IdleForm DEF RemoveFinal, RemoveLump, Free, OnTheWay
<1>3. promised \subseteq ToSet(pak.lumps)
  BY <1>1, <1>2, PakForms
<1>4. CASE RemoveFinal(l)
  <2>1. ToSet(pak.lumps) = {l}
    BY <1>4 DEF RemoveFinal, ToSet
  <2> QED
    BY <1>1, <1>3, <2>1
<1>5. CASE RemoveLump(l)
  <2>1. pak.lumps \in Seq(Lumps) /\ Descends(pak.lumps)
    BY FormsOf DEF IInv, FilesInv
  <2>2. ToSet(pak.lumps) \ {l} \subseteq ToSet(Removed(pak.lumps, l))
    BY <1>5, <2>1, RemovedDirectory DEF RemoveLump
  <2>3. OnTheWay' = ToSet(Removed(pak.lumps, l))
    BY <1>5 DEF RemoveLump, OnTheWay, Whole
  <2> QED
    BY <1>1, <1>3, <2>2, <2>3
<1> QED
  BY <1>4, <1>5

LEMMA ServerPromise ==
    ASSUME Roomy, IInv, PromiseInv, CheckSize \/ Crash \/ Start
    PROVE  PromiseInv'
<1> USE DEF PromiseInv
<1>1. CASE CheckSize
  BY <1>1 DEF CheckSize, Quiet
<1>2. CASE Crash
  <2>1. OnTheWay' = ToSet(pak.lumps)
    BY <1>2, IdleForm DEF Crash, OnTheWay
  <2> QED
    BY <1>2, <2>1 DEF Crash
<1>3. CASE Start
  <2>1. task = Idle /\ gp_hpak_queue = <<>>
    BY <1>3 DEF Start, IInv, TaskInv
  <2>2. promised \subseteq ToSet(pak.lumps)
    BY <2>1, IdleForm, PakForms DEF OnTheWay
  <2>3. pak' = pak \/ ToSet(pak.lumps) = {}
    BY <1>3, PakForms, WholeIsReadable DEF Start, IInv, FilesInv
  <2>4. OnTheWay' = ToSet(pak'.lumps)
    BY <1>3, <2>1, IdleForm DEF Start, OnTheWay
  <2> QED
    BY <1>3, <2>2, <2>3, <2>4 DEF Start
<1> QED
  BY <1>1, <1>2, <1>3

LEMMA StepPromise == Roomy /\ IInv /\ PromiseInv /\ [Next]_vars => PromiseInv'
<1> SUFFICES ASSUME Roomy, IInv, PromiseInv, [Next]_vars PROVE PromiseInv'
  OBVIOUS
<1>1. ASSUME NEW l \in Lumps, Upload(l) \/ RemoveFinal(l) \/ RemoveLump(l)
      PROVE  PromiseInv'
  BY <1>1, QueuePromise, RemovalPromise
<1>2. CASE Flush("flush") \/ Flush("remove") \/ FlushDone \/ NotRemoved \/ Shutdown \/ Stopped
  BY <1>2, QueuePromise
<1>3. CASE \/ FlushNext \/ CreatePak \/ NotAdded \/ AddLump
           \/ Created \/ Written \/ Unlink \/ Rename
  BY <1>3, WritingPromise
<1>4. CASE CheckSize \/ Crash \/ Start
  BY <1>4, ServerPromise
<1>5. CASE UNCHANGED vars
  BY <1>5 DEF vars, PromiseInv, OnTheWay
<1> QED
  BY <1>1, <1>2, <1>3, <1>4, <1>5 DEF Next

-----------------------------------------------------------------------------
(* Theorems                                                                *)

LEMMA FormHolds == Spec => []IInv
  BY InitForm, StepForm, PTL DEF Spec

(* However many lumps there are, the directory in custom.hpk stays in order *)
(* and without doubles, and whenever a crash comes in HPAK_AddLump or       *)
(* HPAK_RemoveLump, what the file held is whole in it or in the temporary   *)
(* file beside it.                                                          *)
THEOREM PacksStayWhole == Spec => []PacksInv
<1>1. IInv => TypeOK
  <2> SUFFICES ASSUME IInv PROVE TypeOK
    OBVIOUS
  <2>1. pak \in File /\ temp \in File /\ task.file \in File
    BY DEF IInv, FilesInv, GoodFile
  <2>2. \A i, j \in DOMAIN pak.lumps : i < j => pak.lumps[i] > pak.lumps[j]
    BY DEF IInv, FilesInv, GoodFile, Descends
  <2> QED
    BY <2>1, <2>2 DEF IInv, TaskInv, RestInv, TypeOK, File
<1>2. IInv => OneFileWhole
  <2> SUFFICES ASSUME IInv, task.kind \in {"write", "unlink", "rename"}
               PROVE  \E file \in {pak, temp} :
                         /\ file.state = "whole"
                         /\ wasWritten \ ToSet(file.lumps) \subseteq {task.lump}
    BY DEF OneFileWhole
  <2>1. CASE task.kind = "write"
    BY <2>1 DEF IInv, TaskInv
  <2>2. CASE task.kind \in {"unlink", "rename"}
    <3>1. temp = task.file /\ task.file.state = "whole"
          /\ wasWritten \ ToSet(task.file.lumps) \subseteq {task.lump}
      BY <2>2 DEF IInv, TaskInv
    <3> QED
      BY <3>1
  <2> QED
    BY <2>1, <2>2
<1> QED
  BY FormHolds, <1>1, <1>2, PTL DEF PacksInv

(* If a pack has room for all lumps there are, what SV_ProcessFile took is  *)
(* found, in the queue or in the file, past the end and the start of the    *)
(* server, until it is removed by hand, by size or by a crash.              *)
THEOREM NothingIsLost ==
    ASSUME Cardinality(Lumps) <= MAX_FILE_ENTRIES
    PROVE  Spec => []NothingLost
<1>1. Roomy
  BY DEF Roomy
<1>2. Init => IInv /\ PromiseInv
  BY InitForm
<1>3. IInv /\ PromiseInv /\ [Next]_vars => IInv' /\ PromiseInv'
  BY <1>1, StepForm, StepPromise
<1>4. IInv /\ PromiseInv => NothingLost
  <2> SUFFICES ASSUME IInv, PromiseInv, server = "runs", task = Idle
               PROVE  promised \subseteq Found
    BY DEF NothingLost
  <2>1. promised \subseteq ToSet(gp_hpak_queue) \cup ToSet(pak.lumps)
    BY IdleForm DEF PromiseInv, OnTheWay
  <2>2. Readable(pak) \/ ToSet(pak.lumps) = {}
    BY <1>1, PakForms, WholeIsReadable DEF IInv, FilesInv
  <2> QED
    BY <2>1, <2>2 DEF Found
<1> QED
  BY <1>2, <1>3, <1>4, PTL DEF Spec
=============================================================================
