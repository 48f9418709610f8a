------------------------ MODULE CommandBufferProofs ------------------------
(***************************************************************************)
(* The command buffer, for every set of commands, every alias and file and *)
(* every size of the buffer.                                               *)
(*                                                                         *)
(* Lines: an end follows every word in the buffer, unless the buffer is    *)
(* torn (Whole).  Order: of every text, what was run comes before what is  *)
(* in the buffer, and that before what a Cmd_Exec_f under way has not put  *)
(* in (Ordered).  What makes it last is where a line that Cmd_Exec_f put   *)
(* in can be when the next one comes: such a line is at the front of the   *)
(* buffer until the call of Cbuf_Execute right above the Cmd_Exec_f has    *)
(* run it, and no wait ends that call before it has (Settled, WaitRan).    *)
(***************************************************************************)
EXTENDS CommandBuffer, SequenceTheorems, WellFoundedInduction, TLAPS

-----------------------------------------------------------------------------
(* The inductive invariant                                                 *)

\* A word of one of n texts.
Word(n) == [text : 1 .. n, word : Nat, cmd : Commands]

BufferType(b, n) == b \in Seq(Word(n) \cup {NL}) /\ Len(b) < MAX_CMD_BUFFER

ExecuteCall == [kind : {"execute"}, ran : BOOLEAN]
ExecCall(n) == [kind : {"exec"}, turn : {"execute", "insert"}, rest : Seq(Word(n)) \ {<<>>}]
StackType(s, n) == s \in Seq(ExecuteCall \cup ExecCall(n))

IdSet == SUBSET (Nat \X Nat)
TextsType(T) ==
    /\ T \in Seq([words : IdSet, before : IdSet])
    /\ \A n \in 1 .. Len(T) : \A w \in T[n].words : w[1] = n

RanType(R, n) == R \in Seq((1 .. n) \X Nat)

Types ==
    /\ BufferType(cmd_text, Len(texts)) /\ StackType(stack, Len(texts))
    /\ TextsType(texts) /\ RanType(ran, Len(texts))
    /\ cmd_wait \in BOOLEAN /\ torn \in BOOLEAN /\ merged \in BOOLEAN /\ stray \in BOOLEAN
    /\ inputs \in 0 .. MaxInputs /\ waited \in {"no", "wait", "ran on"}

\* An end follows every word.
Whole(b) == \A i \in 1 .. Len(b) : b[i] # NL => i + 1 \in 1 .. Len(b) /\ b[i + 1] = NL

\* The places of the calls of Cmd_Exec_f, and the text a call puts in.
Execs(s) == {d \in 1 .. Len(s) : s[d].kind = "exec"}
TextAt(s, d) == s[d].rest[1].text

BufferOrder(b) ==
    \A i, j \in 1 .. Len(b) :
        i < j /\ b[i] # NL /\ b[i].text = b[j].text => b[i].word < b[j].word
RanOrder(R) ==
    \A i, j \in 1 .. Len(R) : i < j /\ R[i][1] = R[j][1] => R[i][2] < R[j][2]
RestOrder(s) ==
    \A d \in Execs(s) : \A i, j \in 1 .. Len(s[d].rest) :
        /\ s[d].rest[i].text = s[d].rest[j].text
        /\ i < j => s[d].rest[i].word < s[d].rest[j].word
RanThenBuffer(R, b) ==
    \A i \in 1 .. Len(R), j \in 1 .. Len(b) :
        R[i][1] = b[j].text => R[i][2] < b[j].word
RanThenRest(R, s) ==
    \A i \in 1 .. Len(R) : \A d \in Execs(s) : \A j \in 1 .. Len(s[d].rest) :
        R[i][1] = s[d].rest[j].text => R[i][2] < s[d].rest[j].word
BufferThenRest(b, s) ==
    \A i \in 1 .. Len(b) : \A d \in Execs(s) : \A j \in 1 .. Len(s[d].rest) :
        b[i].text = s[d].rest[j].text => b[i].word < s[d].rest[j].word
RestsApart(s) == \A d, e \in Execs(s) : TextAt(s, d) = TextAt(s, e) => d = e

\* Is a word among those of a text?
In(w, t) == \E i \in 1 .. Len(t) : t[i] # NL /\ w = <<t[i].text, t[i].word>>

Gone(w, R, L) == w \in L \/ \E i \in 1 .. Len(R) : R[i] = w

Kept(b, s, T, R, L) ==
    \A n \in 1 .. Len(T) : \A w \in T[n].words :
        Gone(w, R, L) \/ In(w, b) \/ \E d \in Execs(s) : In(w, s[d].rest)

PassedGone(T, R, L) ==
    \A i \in 1 .. Len(R) : \A w \in T[R[i][1]].words : w[2] < R[i][2] => Gone(w, R, L)

Ordered(b, s, T, R, L) ==
    /\ BufferOrder(b) /\ RanOrder(R) /\ RestOrder(s) /\ RestsApart(s)
    /\ RanThenBuffer(R, b) /\ RanThenRest(R, s) /\ BufferThenRest(b, s)
    /\ Kept(b, s, T, R, L) /\ PassedGone(T, R, L)

\* Nothing of a text that a Cmd_Exec_f puts in is in the buffer,
Apart(b, s) == \A d \in Execs(s) : \A i \in 1 .. Len(b) : b[i].text # TextAt(s, d)

\* or it is the next line, and the call about to run it is the last one.
Settled(b, s, wait) ==
    \A d \in Execs(s) : \A i \in 1 .. Len(b) : b[i].text = TextAt(s, d) =>
        /\ i = 1 \/ (i = 2 /\ b[1] = NL)
        /\ \/ d = Len(s) /\ s[d].turn = "execute"
           \/ d + 1 = Len(s) /\ s[d + 1].kind = "execute" /\ ~wait

\* A wait is seen by the call that has run it.
WaitRan(s, wait) == wait => s # <<>> /\ s[Len(s)].kind = "execute" /\ s[Len(s)].ran

IInv ==
    /\ Types
    /\ ~torn => Whole(cmd_text)
    /\ WholeLines
    /\ ~stray => /\ Ordered(cmd_text, stack, texts, ran, lost)
                 /\ Settled(cmd_text, stack, cmd_wait)
                 /\ WaitRan(stack, cmd_wait)

-----------------------------------------------------------------------------
(* Sequences                                                               *)

LEMMA Consts ==
    /\ MAX_CMD_BUFFER \in Nat \ {0} /\ MaxInputs \in Nat
    /\ \A c \in DOMAIN Alias : Alias[c] \in Seq(Commands) /\ Alias[c] # <<>>
    /\ \A c \in DOMAIN File : File[c] \in Seq(Commands) /\ File[c] # <<>>
    /\ \A c \in DOMAIN Added : Added[c] \in Seq(Commands) /\ Added[c] # <<>>
  BY BufferAssumption

(* One sequence behind another.                                            *)
LEMMA Joined ==
    ASSUME NEW S, NEW a \in Seq(S), NEW b \in Seq(S)
    PROVE  /\ a \o b \in Seq(S) /\ Len(a \o b) = Len(a) + Len(b)
           /\ Len(a) \in Nat /\ Len(b) \in Nat
           /\ \A i \in 1 .. Len(a) : (a \o b)[i] = a[i]
           /\ \A i \in 1 .. Len(b) : (a \o b)[Len(a) + i] = b[i]
           /\ \A i \in 1 .. Len(a \o b) :
                   i \in 1 .. Len(a) \/ \E j \in 1 .. Len(b) : i = Len(a) + j
<1>1. /\ a \o b \in Seq(S) /\ Len(a \o b) = Len(a) + Len(b)
      /\ \A i \in 1 .. Len(a) + Len(b) :
              (a \o b)[i] = IF i <= Len(a) THEN a[i] ELSE b[i - Len(a)]
  BY ConcatProperties
<1>2. Len(a) \in Nat /\ Len(b) \in Nat
  BY LenProperties
<1>3. \A i \in 1 .. Len(b) :
          Len(a) + i \in 1 .. Len(a) + Len(b) /\ ~(Len(a) + i <= Len(a)) /\ Len(a) + i - Len(a) = i
  BY <1>2
<1>4. \A i \in 1 .. Len(a) : i \in 1 .. Len(a) + Len(b) /\ i <= Len(a)
  BY <1>2
<1>5. ASSUME NEW i \in 1 .. Len(a) + Len(b), i \notin 1 .. Len(a)
      PROVE  \E j \in 1 .. Len(b) : i = Len(a) + j
  <2>1. i - Len(a) \in 1 .. Len(b) /\ i = Len(a) + (i - Len(a))
    BY <1>2, <1>5
  <2> QED
    BY <2>1
<1> QED
  BY <1>1, <1>2, <1>3, <1>4, <1>5

(* What is left of a sequence without its first places.                    *)
LEMMA Cut ==
    ASSUME NEW S, NEW s \in Seq(S), NEW n \in 0 .. Len(s)
    PROVE  LET t == SubSeq(s, n + 1, Len(s))
           IN  /\ t \in Seq(S) /\ Len(t) = Len(s) - n
               /\ \A i \in 1 .. Len(t) : t[i] = s[n + i] /\ n + i \in 1 .. Len(s)
<1>1. Len(s) \in Nat /\ \A i \in 1 .. Len(s) : s[i] \in S
  BY LenProperties, ElementOfSeq
<1>2. n \in Int /\ n + 1 \in Int /\ \A i \in n + 1 .. Len(s) : s[i] \in S
  BY <1>1
<1> DEFINE t == SubSeq(s, n + 1, Len(s))
<1>3. /\ t \in Seq(S) /\ Len(t) = IF n + 1 <= Len(s) THEN Len(s) - (n + 1) + 1 ELSE 0
      /\ \A i \in 1 .. Len(s) - (n + 1) + 1 : t[i] = s[n + 1 + i - 1]
  BY <1>1, <1>2, SubSeqProperties
<1> HIDE DEF t
<1>4. Len(t) = Len(s) - n
  BY <1>1, <1>3
<1>5. \A i \in 1 .. Len(t) : i \in 1 .. Len(s) - (n + 1) + 1 /\ n + 1 + i - 1 = n + i /\ n + i \in 1 .. Len(s)
  BY <1>1, <1>4
<1> QED
  BY <1>3, <1>4, <1>5 DEF t

(* The first places of a sequence.                                         *)
LEMMA Fronts ==
    ASSUME NEW S, NEW s \in Seq(S), NEW n \in 0 .. Len(s)
    PROVE  LET t == SubSeq(s, 1, n)
           IN  /\ t \in Seq(S) /\ Len(t) = n
               /\ \A i \in 1 .. n : t[i] = s[i] /\ i \in 1 .. Len(s)
<1>1. Len(s) \in Nat /\ \A i \in 1 .. Len(s) : s[i] \in S
  BY LenProperties, ElementOfSeq
<1>2. n \in Int /\ 1 \in Int /\ \A i \in 1 .. n : s[i] \in S /\ i \in 1 .. Len(s)
  BY <1>1
<1> DEFINE t == SubSeq(s, 1, n)
<1>3. /\ t \in Seq(S) /\ Len(t) = IF 1 <= n THEN n - 1 + 1 ELSE 0
      /\ \A i \in 1 .. n - 1 + 1 : t[i] = s[1 + i - 1]
  BY <1>1, <1>2, SubSeqProperties
<1> HIDE DEF t
<1>4. n - 1 + 1 = n /\ \A i \in 1 .. n : 1 + i - 1 = i
  BY <1>1
<1>5. Len(t) = n
  BY <1>1, <1>3, <1>4
<1> QED
  BY <1>2, <1>3, <1>4, <1>5 DEF t

(* One more at the end.                                                    *)
LEMMA Appended ==
    ASSUME NEW S, NEW s \in Seq(S), NEW e \in S
    PROVE  /\ Append(s, e) \in Seq(S) /\ Len(Append(s, e)) = Len(s) + 1
           /\ Len(s) \in Nat /\ Append(s, e)[Len(s) + 1] = e
           /\ \A i \in 1 .. Len(s) : Append(s, e)[i] = s[i] /\ i \in 1 .. Len(s) + 1
           /\ \A i \in 1 .. Len(s) + 1 : i \in 1 .. Len(s) \/ i = Len(s) + 1
<1>1. Len(s) \in Nat
  BY LenProperties
<1> QED
  BY <1>1, AppendProperties

(* A number of places to count in is a longer sequence's also.             *)
LEMMA Wider ==
    ASSUME NEW n \in Nat, NEW s
    PROVE  /\ \A b : BufferType(b, n) => BufferType(b, n + 1)
           /\ StackType(s, n) => StackType(s, n + 1)
           /\ \A R : RanType(R, n) => RanType(R, n + 1)
<1>1. Word(n) \subseteq Word(n + 1) /\ 1 .. n \subseteq 1 .. n + 1
  BY DEF Word
<1>2. \A r \in Seq(Word(n)) : r \in Seq(Word(n + 1))
  BY <1>1, SeqMonotonic
<1>3. ExecCall(n) \subseteq ExecCall(n + 1)
  BY <1>2 DEF ExecCall
<1>4. \A b \in Seq(Word(n) \cup {NL}) : b \in Seq(Word(n + 1) \cup {NL})
  BY <1>1, SeqMonotonic
<1>5. s \in Seq(ExecuteCall \cup ExecCall(n)) => s \in Seq(ExecuteCall \cup ExecCall(n + 1))
  BY <1>3, SeqMonotonic
<1>6. \A R \in Seq((1 .. n) \X Nat) : R \in Seq((1 .. n + 1) \X Nat)
  <2>1. (1 .. n) \X Nat \subseteq (1 .. n + 1) \X Nat
    BY <1>1
  <2> QED
    BY <2>1, SeqMonotonic
<1> QED
  BY <1>4, <1>5, <1>6 DEF BufferType, StackType, RanType

-----------------------------------------------------------------------------
(* Texts                                                                   *)

LEMMA WordOrEnd ==
    ASSUME NEW n \in Nat
    PROVE  /\ NL.text = 0 /\ NL.word = 0
           /\ \A x \in Word(n) : x # NL /\ x.text \in 1 .. n /\ x.word \in Nat /\ x.cmd \in Commands
           /\ \A x \in Word(n) \cup {NL} : x = NL \/ x \in Word(n)
           /\ \A x \in Word(n) \cup {NL} : x = NL <=> x.text = 0
           /\ \A x \in Word(n) \cup {NL} : x.text \in 0 .. n /\ x.word \in Nat
<1>1. NL.text = 0 /\ NL.word = 0
  BY DEF NL
<1>2. ASSUME NEW x \in Word(n)
      PROVE  x # NL /\ x.text \in 1 .. n /\ x.word \in Nat /\ x.cmd \in Commands
  BY <1>1 DEF Word
<1> QED
  BY <1>1, <1>2

\* The words and ends of the text of the number n, in their order.
IsText(t, n) ==
    /\ t \in Seq(Word(n) \cup {NL})
    /\ \A i \in 1 .. Len(t) : t[i] # NL => t[i].text = n
    /\ BufferOrder(t)

LEMMA IdsAre ==
    ASSUME NEW S, NEW t \in Seq(S)
    PROVE  \A w : w \in Ids(t) <=> In(w, t)
  BY LenProperties DEF Ids, Words, In

(* What is known of the numbers of a text's words.                         *)
LEMMA IdsOfText ==
    ASSUME NEW n \in Nat, NEW t, IsText(t, n)
    PROVE  /\ Ids(t) \in IdSet
           /\ \A w \in Ids(t) : w[1] = n /\ In(w, t)
<1>1. ASSUME NEW w \in Ids(t)
      PROVE  w \in Nat \X Nat /\ w[1] = n /\ In(w, t)
  <2>1. In(w, t)
    BY <1>1, IdsAre DEF IsText
  <2>2. PICK i \in 1 .. Len(t) : t[i] # NL /\ w = <<t[i].text, t[i].word>>
    BY <2>1 DEF In
  <2>3. t[i] \in Word(n) \cup {NL}
    BY <2>2, ElementOfSeq DEF IsText
  <2>4. t[i].text \in Nat /\ t[i].word \in Nat /\ t[i].text = n
    BY <2>2, <2>3, WordOrEnd DEF IsText
  <2> QED
    BY <2>1, <2>2, <2>4
<1> QED
  BY <1>1 DEF IdSet

LEMMA WordsAre ==
    ASSUME NEW n \in Nat \ {0}, NEW cmds \in Seq(Commands)
    PROVE  LET t == WordsOf(n, cmds)
           IN  /\ t \in Seq(Word(n)) /\ Len(t) = Len(cmds) /\ Len(cmds) \in Nat
               /\ \A i \in 1 .. Len(t) : t[i].text = n /\ t[i].word = i
<1>1. Len(cmds) \in Nat /\ \A i \in 1 .. Len(cmds) : cmds[i] \in Commands
  BY LenProperties, ElementOfSeq
<1> DEFINE t == WordsOf(n, cmds)
<1>2. t = [i \in 1 .. Len(cmds) |-> [text |-> n, word |-> i, cmd |-> cmds[i]]]
  BY DEF WordsOf
<1>3. \A i \in 1 .. Len(cmds) : [text |-> n, word |-> i, cmd |-> cmds[i]] \in Word(n)
  BY <1>1 DEF Word
<1>4. t \in [1 .. Len(cmds) -> Word(n)]
  BY <1>2, <1>3
<1>5. t \in Seq(Word(n)) /\ Len(t) = Len(cmds)
  BY <1>1, <1>4
<1> HIDE DEF t
<1>6. \A i \in 1 .. Len(cmds) : t[i].text = n /\ t[i].word = i
  BY <1>2
<1> QED
  BY <1>1, <1>5, <1>6 DEF t

LEMMA TextIs ==
    ASSUME NEW n \in Nat \ {0}, NEW cmds \in Seq(Commands)
    PROVE  LET t == TextOf(n, cmds)
           IN  /\ IsText(t, n) /\ Whole(t)
               /\ Len(t) = 2 * Len(cmds)
               /\ \A w \in Ids(t) : In(w, WordsOf(n, cmds))
               /\ \A i \in 1 .. Len(t) : t[i] # NL => i % 2 = 1 /\ t[i].word = (i + 1) \div 2
<1> DEFINE t == TextOf(n, cmds)
           u == WordsOf(n, cmds)
<1>1. /\ u \in Seq(Word(n)) /\ Len(u) = Len(cmds) /\ Len(cmds) \in Nat
      /\ \A i \in 1 .. Len(u) : u[i].text = n /\ u[i].word = i
  BY WordsAre
<1>2. t = [i \in 1 .. 2 * Len(cmds) |-> IF i % 2 = 0 THEN NL ELSE u[(i + 1) \div 2]]
  BY DEF TextOf
<1> HIDE DEF t, u
<1>3. PICK m \in Nat : m = Len(cmds)
  BY <1>1
<1>4. ASSUME NEW i \in 1 .. 2 * m
      PROVE  /\ i % 2 = 0 \/ (i % 2 = 1 /\ i + 1 \in 1 .. 2 * m /\ (i + 1) % 2 = 0)
             /\ i % 2 = 1 => (i + 1) \div 2 \in 1 .. m
  BY <1>3
<1>5. \A i \in 1 .. m : u[i] \in Word(n)
  BY <1>1, <1>3, ElementOfSeq
<1>6. ASSUME NEW i \in 1 .. 2 * m
      PROVE  /\ t[i] \in Word(n) \cup {NL}
             /\ t[i] # NL => /\ i % 2 = 1 /\ t[i].text = n /\ t[i].word = (i + 1) \div 2
                             /\ t[i] = u[(i + 1) \div 2] /\ (i + 1) \div 2 \in 1 .. m
             /\ i % 2 = 0 => t[i] = NL
  BY <1>1, <1>2, <1>3, <1>4, <1>5
<1>7. t \in [1 .. 2 * m -> Word(n) \cup {NL}] /\ 2 * m \in Nat
  BY <1>2, <1>3, <1>6
<1>8. t \in Seq(Word(n) \cup {NL}) /\ Len(t) = 2 * m
  BY <1>7
<1>9. BufferOrder(t)
  <2>1. ASSUME NEW i \in 1 .. 2 * m, NEW j \in 1 .. 2 * m, i < j, t[i] # NL, t[i].text = t[j].text
        PROVE  t[i].word < t[j].word
    <3>1. t[i].text = n /\ t[i].word = (i + 1) \div 2 /\ i % 2 = 1
      BY <1>6, <2>1
    <3>2. t[j] # NL
      BY <2>1, <3>1, WordOrEnd
    <3>3. t[j].word = (j + 1) \div 2 /\ j % 2 = 1
      BY <1>6, <3>2
    <3> QED
      BY <2>1, <3>1, <3>3
  <2> QED
    BY <1>8, <2>1 DEF BufferOrder
<1>10. Whole(t)
  <2>1. ASSUME NEW i \in 1 .. 2 * m, t[i] # NL PROVE i + 1 \in 1 .. 2 * m /\ t[i + 1] = NL
    <3>1. i % 2 = 1
      BY <1>6, <2>1
    <3>2. i + 1 \in 1 .. 2 * m /\ (i + 1) % 2 = 0
      BY <1>4, <3>1
    <3> QED
      BY <1>6, <3>2
  <2> QED
    BY <1>8, <2>1 DEF Whole
<1>11. IsText(t, n)
  BY <1>6, <1>8, <1>9 DEF IsText
<1>12. ASSUME NEW w \in Ids(t) PROVE In(w, u)
  <2>1. In(w, t)
    BY <1>8, <1>12, IdsAre
  <2>2. PICK i \in 1 .. Len(t) : t[i] # NL /\ w = <<t[i].text, t[i].word>>
    BY <2>1 DEF In
  <2>3. t[i] = u[(i + 1) \div 2] /\ (i + 1) \div 2 \in 1 .. Len(u)
    BY <1>1, <1>3, <1>6, <1>8, <2>2
  <2> QED
    BY <2>2, <2>3 DEF In
<1> QED
  BY <1>3, <1>6, <1>8, <1>10, <1>11, <1>12 DEF t, u

(* One text behind another.                                                *)
LEMMA OrderJoined ==
    ASSUME NEW S, NEW a \in Seq(S), NEW b \in Seq(S), BufferOrder(a), BufferOrder(b),
           \A i \in 1 .. Len(a), j \in 1 .. Len(b) : a[i] # NL => a[i].text # b[j].text
    PROVE  BufferOrder(a \o b)
<1> DEFINE c == a \o b
<1>1. /\ Len(c) = Len(a) + Len(b) /\ Len(a) \in Nat /\ Len(b) \in Nat
      /\ \A i \in 1 .. Len(a) : c[i] = a[i]
      /\ \A i \in 1 .. Len(b) : c[Len(a) + i] = b[i]
      /\ \A i \in 1 .. Len(c) : i \in 1 .. Len(a) \/ \E j \in 1 .. Len(b) : i = Len(a) + j
  <2>1. Len(c) = Len(a) + Len(b) /\ Len(a) \in Nat /\ Len(b) \in Nat
    BY Joined
  <2>2. \A i \in 1 .. Len(a) : c[i] = a[i]
    BY Joined
  <2>3. \A i \in 1 .. Len(b) : c[Len(a) + i] = b[i]
    BY Joined
  <2>4. \A i \in 1 .. Len(c) : i \in 1 .. Len(a) \/ \E j \in 1 .. Len(b) : i = Len(a) + j
    BY Joined
  <2> QED
    BY <2>1, <2>2, <2>3, <2>4
<1> HIDE DEF c
<1>2. ASSUME NEW i \in 1 .. Len(c), NEW j \in 1 .. Len(c),
             i < j, c[i] # NL, c[i].text = c[j].text
      PROVE  c[i].word < c[j].word
  <2>1. CASE i \in 1 .. Len(a) /\ j \in 1 .. Len(a)
    BY <1>1, <1>2, <2>1 DEF BufferOrder
  <2>2. CASE i \in 1 .. Len(a) /\ j \notin 1 .. Len(a)
    <3>1. PICK k \in 1 .. Len(b) : j = Len(a) + k
      BY <1>1, <2>2
    <3>2. c[i] = a[i] /\ c[j] = b[k]
      BY <1>1, <2>2, <3>1
    <3> QED
      BY <1>2, <2>2, <3>2
  <2>3. CASE i \notin 1 .. Len(a)
    <3>1. PICK k \in 1 .. Len(b) : i = Len(a) + k
      BY <1>1, <2>3
    <3>2. j \notin 1 .. Len(a)
      BY <1>1, <1>2, <3>1
    <3>3. PICK l \in 1 .. Len(b) : j = Len(a) + l
      BY <1>1, <3>2
    <3>4. c[i] = b[k] /\ c[j] = b[l] /\ k < l
      BY <1>1, <1>2, <3>1, <3>3
    <3> QED
      BY <1>2, <3>4 DEF BufferOrder
  <2> QED
    BY <2>1, <2>2, <2>3
<1> QED
  BY <1>2 DEF c, BufferOrder

LEMMA WholeJoined ==
    ASSUME NEW S, NEW a \in Seq(S), NEW b \in Seq(S), Whole(a), Whole(b)
    PROVE  Whole(a \o b)
<1> DEFINE c == a \o b
<1>1. /\ Len(c) = Len(a) + Len(b) /\ Len(a) \in Nat /\ Len(b) \in Nat
      /\ \A i \in 1 .. Len(a) : c[i] = a[i]
      /\ \A i \in 1 .. Len(b) : c[Len(a) + i] = b[i]
      /\ \A i \in 1 .. Len(c) : i \in 1 .. Len(a) \/ \E j \in 1 .. Len(b) : i = Len(a) + j
  BY Joined
<1> HIDE DEF c
<1>2. ASSUME NEW i \in 1 .. Len(c), c[i] # NL
      PROVE  i + 1 \in 1 .. Len(c) /\ c[i + 1] = NL
  <2>1. CASE i \in 1 .. Len(a)
    <3>1. i + 1 \in 1 .. Len(a) /\ a[i + 1] = NL
      BY <1>1, <1>2, <2>1 DEF Whole
    <3> QED
      BY <1>1, <3>1
  <2>2. CASE i \notin 1 .. Len(a)
    <3>1. PICK k \in 1 .. Len(b) : i = Len(a) + k
      BY <1>1, <2>2
    <3>2. k + 1 \in 1 .. Len(b) /\ b[k + 1] = NL
      BY <1>1, <1>2, <3>1 DEF Whole
    <3>3. c[Len(a) + (k + 1)] = NL /\ Len(a) + (k + 1) = i + 1
      BY <1>1, <3>1, <3>2
    <3> QED
      BY <1>1, <3>2, <3>3
  <2> QED
    BY <2>1, <2>2
<1> QED
  BY <1>2 DEF c, Whole

(* Words are in a sequence if they are in a part of it.                    *)
LEMMA InJoined ==
    ASSUME NEW S, NEW a \in Seq(S), NEW b \in Seq(S)
    PROVE  \A w : In(w, a \o b) <=> In(w, a) \/ In(w, b)
<1> DEFINE c == a \o b
<1>1. /\ Len(c) = Len(a) + Len(b) /\ Len(a) \in Nat /\ Len(b) \in Nat
      /\ \A i \in 1 .. Len(a) : c[i] = a[i] /\ i \in 1 .. Len(c)
      /\ \A i \in 1 .. Len(b) : c[Len(a) + i] = b[i] /\ Len(a) + i \in 1 .. Len(c)
      /\ \A i \in 1 .. Len(c) : i \in 1 .. Len(a) \/ \E j \in 1 .. Len(b) : i = Len(a) + j
  <2>1. Len(c) = Len(a) + Len(b) /\ Len(a) \in Nat /\ Len(b) \in Nat
    BY Joined
  <2>2. /\ \A i \in 1 .. Len(a) : i \in 1 .. Len(c)
        /\ \A i \in 1 .. Len(b) : Len(a) + i \in 1 .. Len(c)
    BY <2>1
  <2>3. \A i \in 1 .. Len(a) : c[i] = a[i]
    BY Joined
  <2>4. \A i \in 1 .. Len(b) : c[Len(a) + i] = b[i]
    BY Joined
  <2>5. \A i \in 1 .. Len(c) : i \in 1 .. Len(a) \/ \E j \in 1 .. Len(b) : i = Len(a) + j
    BY Joined
  <2> QED
    BY <2>1, <2>2, <2>3, <2>4, <2>5
<1> HIDE DEF c
<1>2. ASSUME NEW w, In(w, c) PROVE In(w, a) \/ In(w, b)
  <2>1. PICK i \in 1 .. Len(c) : c[i] # NL /\ w = <<c[i].text, c[i].word>>
    BY <1>2 DEF In
  <2>2. CASE i \in 1 .. Len(a)
    BY <1>1, <2>1, <2>2 DEF In
  <2>3. CASE i \notin 1 .. Len(a)
    <3>1. PICK j \in 1 .. Len(b) : i = Len(a) + j
      BY <1>1, <2>3
    <3> QED
      BY <1>1, <2>1, <3>1 DEF In
  <2> QED
    BY <2>2, <2>3
<1>3. ASSUME NEW w, In(w, a) \/ In(w, b) PROVE In(w, c)
  <2>1. CASE In(w, a)
    BY <1>1, <2>1 DEF In
  <2>2. CASE In(w, b)
    BY <1>1, <2>2 DEF In
  <2> QED
    BY <1>3, <2>1, <2>2
<1> QED
  BY <1>2, <1>3 DEF c

(* An end of line alone is part of any text.                               *)
LEMMA EndIs ==
    ASSUME NEW n \in Nat
    PROVE  /\ <<NL>> \in Seq(Word(n) \cup {NL}) /\ Len(<<NL>>) = 1
           /\ <<NL>>[1] = NL
           /\ IsText(<<NL>>, n) /\ Whole(<<NL>>)
           /\ \A w : ~In(w, <<NL>>)
<1>1. <<NL>> \in Seq(Word(n) \cup {NL}) /\ Len(<<NL>>) = 1 /\ <<NL>>[1] = NL
  OBVIOUS
<1>2. \A i \in 1 .. Len(<<NL>>) : <<NL>>[i] = NL
  BY <1>1
<1>3. IsText(<<NL>>, n) /\ Whole(<<NL>>) /\ \A w : ~In(w, <<NL>>)
  BY <1>1, <1>2 DEF IsText, Whole, BufferOrder, In
<1> QED
  BY <1>1, <1>3

LEMMA LinesAre ==
    ASSUME NEW n \in Nat, NEW t, IsText(t, n)
    PROVE  /\ IsText(Lines(t), n)
           /\ Whole(t) => Whole(Lines(t))
           /\ \A w : In(w, t) <=> In(w, Lines(t))
           /\ Len(Lines(t)) = Len(t) + 2
           /\ Lines(t)[1] = NL
           /\ \A i \in 1 .. Len(t) : Lines(t)[i + 1] = t[i]
           /\ \A i \in 1 .. Len(t) + 2 :
                  i = 1 \/ i = Len(t) + 2 \/ \E j \in 1 .. Len(t) : i = j + 1
           /\ Lines(t)[Len(t) + 2] = NL
<1> DEFINE S == Word(n) \cup {NL}
           e == <<NL>>
           a == e \o t
           c == a \o e
<1> USE DEF Lines
<1>1. /\ e \in Seq(S) /\ Len(e) = 1 /\ e[1] = NL /\ IsText(e, n) /\ Whole(e)
      /\ \A w : ~In(w, e)
  BY EndIs
<1>2. t \in Seq(S) /\ Len(t) \in Nat
  BY LenProperties DEF IsText
<1> HIDE DEF S, e
<1>3. /\ a \in Seq(S) /\ Len(a) = 1 + Len(t)
      /\ a[1] = NL /\ \A i \in 1 .. Len(t) : a[1 + i] = t[i]
  <2>1. /\ a \in Seq(S) /\ Len(a) = Len(e) + Len(t)
        /\ \A i \in 1 .. Len(e) : a[i] = e[i]
        /\ \A i \in 1 .. Len(t) : a[Len(e) + i] = t[i]
    BY <1>1, <1>2, Joined
  <2> QED
    BY <1>1, <2>1
<1> HIDE DEF a
<1>4. /\ c \in Seq(S) /\ Len(c) = Len(t) + 2
      /\ \A i \in 1 .. Len(a) : c[i] = a[i]
      /\ c[Len(a) + 1] = NL
  <2>1. /\ c \in Seq(S) /\ Len(c) = Len(a) + Len(e)
        /\ \A i \in 1 .. Len(a) : c[i] = a[i]
        /\ \A i \in 1 .. Len(e) : c[Len(a) + i] = e[i]
    <3>1. a \in Seq(S) /\ e \in Seq(S)
      BY <1>1, <1>3
    <3>2. c \in Seq(S) /\ Len(c) = Len(a) + Len(e)
      BY <3>1, Joined
    <3>3. \A i \in 1 .. Len(a) : c[i] = a[i]
      BY <3>1, Joined
    <3>4. \A i \in 1 .. Len(e) : c[Len(a) + i] = e[i]
      BY <3>1, Joined
    <3> QED
      BY <3>2, <3>3, <3>4
  <2> QED
    BY <1>1, <1>2, <1>3, <2>1
<1>5. \A w : In(w, t) <=> In(w, c)
  BY <1>1, <1>2, <1>3, InJoined DEF a
<1>6. Whole(t) => Whole(c)
  <2>1. Whole(t) => Whole(a)
    BY <1>1, <1>2, WholeJoined DEF a
  <2> QED
    BY <1>1, <1>3, <2>1, WholeJoined
<1>7. BufferOrder(c)
  <2>1. \A i \in 1 .. Len(e) : e[i] = NL
    BY <1>1
  <2>2. BufferOrder(a)
    <3>1. \A i \in 1 .. Len(e), j \in 1 .. Len(t) : e[i] # NL => e[i].text # t[j].text
      BY <2>1
    <3> QED
      BY <1>1, <1>2, <3>1, OrderJoined DEF a, IsText
  <2>3. \A i \in 1 .. Len(a), j \in 1 .. Len(e) : a[i] # NL => a[i].text # e[j].text
    <3>1. \A i \in 1 .. Len(a) : a[i] \in S
      BY <1>3, ElementOfSeq
    <3> QED
      BY <2>1, <3>1, WordOrEnd DEF S
  <2> QED
    BY <1>1, <1>3, <2>2, <2>3, OrderJoined DEF IsText
<1>8. \A i \in 1 .. Len(t) + 2 : i = 1 \/ i = Len(t) + 2 \/ \E j \in 1 .. Len(t) : i = j + 1
  <2>1. ASSUME NEW i \in 1 .. Len(t) + 2, i # 1, i # Len(t) + 2
        PROVE  i - 1 \in 1 .. Len(t) /\ i = (i - 1) + 1
    BY <1>2, <2>1
  <2> QED
    BY <2>1
<1>9. c[1] = NL /\ (\A i \in 1 .. Len(t) : c[i + 1] = t[i]) /\ c[Len(t) + 2] = NL
  <2>1. 1 \in 1 .. Len(a) /\ Len(a) + 1 = Len(t) + 2
    BY <1>2, <1>3
  <2>2. \A i \in 1 .. Len(t) : i + 1 \in 1 .. Len(a) /\ i + 1 = 1 + i
    BY <1>2, <1>3
  <2> QED
    BY <1>3, <1>4, <2>1, <2>2
<1>10. IsText(c, n)
  <2>1. ASSUME NEW i \in 1 .. Len(t) + 2, c[i] # NL PROVE c[i].text = n
    <3>1. PICK j \in 1 .. Len(t) : i = j + 1
      BY <1>8, <1>9, <2>1
    <3> QED
      BY <1>9, <2>1, <3>1 DEF IsText
  <2> QED
    BY <1>4, <1>7, <2>1 DEF IsText, S
<1> QED
  BY <1>4, <1>5, <1>6, <1>8, <1>9, <1>10 DEF a, e

-----------------------------------------------------------------------------
(* Putting a text into the buffer                                          *)

\* c is b with the text t of the number n, or with nothing.
Put(c, b, t, n) ==
    /\ BufferType(c, n)
    /\ BufferOrder(b) => BufferOrder(c)
    /\ Whole(b) /\ Whole(t) => Whole(c)
    /\ \A i \in 1 .. Len(c) : c[i] = NL \/ c[i].text = n \/ \E j \in 1 .. Len(b) : c[i] = b[j]
    /\ \A w : In(w, b) => In(w, c)

LEMMA PutJoined ==
    ASSUME NEW n \in Nat, NEW b, BufferType(b, n), NEW t, IsText(t, n + 1),
           NEW x, NEW y, (x = t /\ y = b) \/ (x = b /\ y = t),
           Len(b) + Len(t) < MAX_CMD_BUFFER
    PROVE  Put(x \o y, b, t, n + 1) /\ \A w : In(w, t) => In(w, x \o y)
<1> DEFINE S == Word(n + 1) \cup {NL}
           c == x \o y
<1>1. b \in Seq(S) /\ t \in Seq(S)
  BY Wider DEF BufferType, IsText
<1>2. x \in Seq(S) /\ y \in Seq(S)
  BY <1>1
<1>3. /\ \A i \in 1 .. Len(b) : b[i] \in Word(n) \cup {NL}
      /\ \A i \in 1 .. Len(t) : t[i] \in S
  BY <1>1, ElementOfSeq DEF BufferType
<1>4. Len(b) \in Nat /\ Len(t) \in Nat
  BY <1>1, LenProperties
<1>5. \A i \in 1 .. Len(b), j \in 1 .. Len(t) : b[i] # NL => b[i].text # t[j].text
  <2>1. ASSUME NEW i \in 1 .. Len(b), NEW j \in 1 .. Len(t), b[i] # NL
        PROVE  b[i].text # t[j].text
    <3>1. b[i].text \in 1 .. n
      BY <1>3, <2>1, WordOrEnd
    <3>2. t[j].text = n + 1 \/ t[j].text = 0
      BY WordOrEnd DEF IsText
    <3> QED
      BY <3>1, <3>2
  <2> QED
    BY <2>1
<1>6. \A i \in 1 .. Len(b), j \in 1 .. Len(t) : t[j] # NL => t[j].text # b[i].text
  <2>1. ASSUME NEW i \in 1 .. Len(b), NEW j \in 1 .. Len(t), t[j] # NL
        PROVE  t[j].text # b[i].text
    <3>1. b[i].text \in 0 .. n
      BY <1>3, WordOrEnd
    <3>2. t[j].text = n + 1
      BY <2>1 DEF IsText
    <3> QED
      BY <3>1, <3>2
  <2> QED
    BY <2>1
<1> HIDE DEF S
<1>7. c \in Seq(S) /\ Len(c) = Len(b) + Len(t)
  <2>1. c \in Seq(S) /\ Len(c) = Len(x) + Len(y)
    BY <1>2, Joined
  <2> QED
    BY <1>4, <2>1
<1>8. BufferType(c, n + 1)
  BY <1>7 DEF BufferType, S
<1>9. BufferOrder(b) => BufferOrder(c)
  <2>1. BufferOrder(t)
    BY DEF IsText
  <2>2. CASE x = t /\ y = b
    BY <1>1, <1>6, <2>1, <2>2, OrderJoined
  <2>3. CASE x = b /\ y = t
    BY <1>1, <1>5, <2>1, <2>3, OrderJoined
  <2> QED
    BY <2>2, <2>3
<1>10. Whole(b) /\ Whole(t) => Whole(c)
  BY <1>2, WholeJoined
<1>11. \A w : In(w, c) <=> In(w, b) \/ In(w, t)
  <2>1. \A w : In(w, c) <=> In(w, x) \/ In(w, y)
    BY <1>2, InJoined
  <2> QED
    BY <2>1
<1>12. ASSUME NEW i \in 1 .. Len(c)
       PROVE  c[i] = NL \/ c[i].text = n + 1 \/ \E j \in 1 .. Len(b) : c[i] = b[j]
  <2>1. (\E j \in 1 .. Len(x) : c[i] = x[j]) \/ (\E j \in 1 .. Len(y) : c[i] = y[j])
    <3>1. i \in 1 .. Len(x) \/ \E j \in 1 .. Len(y) : i = Len(x) + j
      BY <1>2, Joined
    <3>2. \A j \in 1 .. Len(x) : c[j] = x[j]
      BY <1>2, Joined
    <3>3. \A j \in 1 .. Len(y) : c[Len(x) + j] = y[j]
      BY <1>2, Joined
    <3> QED
      BY <3>1, <3>2, <3>3
  <2>2. (\E j \in 1 .. Len(b) : c[i] = b[j]) \/ (\E j \in 1 .. Len(t) : c[i] = t[j])
    BY <2>1
  <2> QED
    BY <2>2 DEF IsText
<1> QED
  BY <1>8, <1>9, <1>10, <1>11, <1>12 DEF Put

LEMMA PutNothing ==
    ASSUME NEW n \in Nat, NEW b, BufferType(b, n), NEW t
    PROVE  Put(b, b, t, n + 1)
<1>1. BufferType(b, n + 1)
  BY Wider
<1> QED
  BY <1>1 DEF Put

\* The history with one text more, of the words W.
More(T, T2, W) ==
    /\ Len(T2) = Len(T) + 1
    /\ \A i \in 1 .. Len(T) : T2[i] = T[i]
    /\ T2[Len(T) + 1].words = W
    /\ TextsType(T2)

LEMMA MoreIs ==
    ASSUME NEW T, TextsType(T), NEW W \in IdSet, NEW B \in IdSet,
           \A w \in W : w[1] = Len(T) + 1
    PROVE  More(T, Append(T, [words |-> W, before |-> B]), W)
<1> DEFINE S == [words : IdSet, before : IdSet]
           e == [words |-> W, before |-> B]
           T2 == Append(T, e)
<1>1. T \in Seq(S) /\ e \in S /\ e.words = W
  BY DEF TextsType
<1> HIDE DEF S, e
<1>2. /\ T2 \in Seq(S) /\ Len(T2) = Len(T) + 1 /\ Len(T) \in Nat /\ T2[Len(T) + 1] = e
      /\ \A i \in 1 .. Len(T) : T2[i] = T[i]
      /\ \A i \in 1 .. Len(T) + 1 : i \in 1 .. Len(T) \/ i = Len(T) + 1
  BY <1>1, Appended
<1> HIDE DEF T2
<1>3. \A n \in 1 .. Len(T2) : \A w \in T2[n].words : w[1] = n
  BY <1>1, <1>2 DEF TextsType
<1>4. TextsType(T2)
  BY <1>2, <1>3 DEF TextsType, S
<1>5. More(T, T2, W)
  BY <1>1, <1>2, <1>4 DEF More
<1> QED
  BY <1>5 DEF T2, e

LEMMA CallsAre ==
    ASSUME NEW n \in Nat, NEW s, StackType(s, n)
    PROVE  /\ Len(s) \in Nat
           /\ \A d \in 1 .. Len(s) :
                  /\ s[d] \in ExecuteCall \cup ExecCall(n)
                  /\ d \notin Execs(s) => s[d] \in ExecuteCall /\ s[d].kind = "execute"
           /\ \A d \in Execs(s) :
                  /\ d \in 1 .. Len(s) /\ s[d] \in ExecCall(n) /\ s[d].kind = "exec"
                  /\ s[d].rest \in Seq(Word(n)) /\ s[d].rest # <<>>
                  /\ Len(s[d].rest) \in Nat /\ 1 \in 1 .. Len(s[d].rest)
                  /\ TextAt(s, d) \in 1 .. n
           /\ \A d \in Execs(s) : \A j \in 1 .. Len(s[d].rest) :
                  /\ s[d].rest[j] \in Word(n)
                  /\ s[d].rest[j].text \in 1 .. n /\ s[d].rest[j].word \in Nat
                  /\ s[d].rest[j] # NL
<1>1. Len(s) \in Nat /\ \A d \in 1 .. Len(s) : s[d] \in ExecuteCall \cup ExecCall(n)
  BY LenProperties, ElementOfSeq DEF StackType
<1>2. \A f \in ExecuteCall : f.kind = "execute"
  BY DEF ExecuteCall
<1>3. \A f \in ExecCall(n) : f.kind = "exec" /\ f.rest \in Seq(Word(n)) /\ f.rest # <<>>
  BY DEF ExecCall
<1>4. "exec" # "execute"
  OBVIOUS
<1>5. ASSUME NEW d \in Execs(s)
      PROVE  /\ d \in 1 .. Len(s) /\ s[d] \in ExecCall(n) /\ s[d].kind = "exec"
             /\ s[d].rest \in Seq(Word(n)) /\ s[d].rest # <<>>
             /\ Len(s[d].rest) \in Nat /\ 1 \in 1 .. Len(s[d].rest)
             /\ \A j \in 1 .. Len(s[d].rest) : s[d].rest[j] \in Word(n)
  <2>1. d \in 1 .. Len(s) /\ s[d] \in ExecCall(n) /\ s[d].kind = "exec"
    BY <1>1, <1>2, <1>4, <1>5 DEF Execs
  <2>2. s[d].rest \in Seq(Word(n)) /\ s[d].rest # <<>>
    BY <1>3, <2>1
  <2>3. Len(s[d].rest) \in Nat \ {0}
    BY <2>2, EmptySeq
  <2>4. \A j \in 1 .. Len(s[d].rest) : s[d].rest[j] \in Word(n)
    BY <2>2, ElementOfSeq
  <2> QED
    BY <2>1, <2>2, <2>3, <2>4
<1>6. \A d \in Execs(s) : \A j \in 1 .. Len(s[d].rest) :
          /\ s[d].rest[j] \in Word(n)
          /\ s[d].rest[j].text \in 1 .. n /\ s[d].rest[j].word \in Nat
          /\ s[d].rest[j] # NL
  BY <1>5, WordOrEnd
<1>7. \A d \in Execs(s) : TextAt(s, d) \in 1 .. n
  BY <1>5, <1>6 DEF TextAt
<1>8. \A d \in 1 .. Len(s) :
          d \notin Execs(s) => s[d] \in ExecuteCall /\ s[d].kind = "execute"
  BY <1>1, <1>2, <1>3 DEF Execs
<1> QED
  BY <1>1, <1>5, <1>6, <1>7, <1>8

LEMMA RanAre ==
    ASSUME NEW n \in Nat, NEW R, RanType(R, n)
    PROVE  /\ Len(R) \in Nat
           /\ \A i \in 1 .. Len(R) : R[i][1] \in 1 .. n /\ R[i][2] \in Nat
<1>1. Len(R) \in Nat /\ \A i \in 1 .. Len(R) : R[i] \in (1 .. n) \X Nat
  BY LenProperties, ElementOfSeq DEF RanType
<1> QED
  BY <1>1

\* A text t of the words W comes into the buffer b, or is lost.
Comes(T, T2, b, c, s, R, L, L2, t, W) ==
    /\ TextsType(T) /\ BufferType(b, Len(T)) /\ StackType(s, Len(T)) /\ RanType(R, Len(T))
    /\ Put(c, b, t, Len(T) + 1) /\ More(T, T2, W)
    /\ L \subseteq L2 /\ \A w \in W : w \in L2 \/ In(w, c)

LEMMA OrderPut ==
    ASSUME NEW T, NEW T2, NEW b, NEW c, NEW s, NEW R, NEW L, NEW L2, NEW t, NEW W,
           Comes(T, T2, b, c, s, R, L, L2, t, W), Ordered(b, s, T, R, L)
    PROVE  Ordered(c, s, T2, R, L2) /\ (Apart(b, s) => Apart(c, s))
<1>0. /\ TextsType(T) /\ BufferType(b, Len(T)) /\ StackType(s, Len(T)) /\ RanType(R, Len(T))
      /\ Put(c, b, t, Len(T) + 1) /\ More(T, T2, W)
      /\ L \subseteq L2 /\ \A w \in W : w \in L2 \/ In(w, c)
  BY DEF Comes
<1> USE <1>0
<1>1. PICK n \in Nat : n = Len(T)
  BY LenProperties DEF TextsType
<1>2. /\ \A i \in 1 .. Len(R) : R[i][1] \in 1 .. n /\ R[i][2] \in Nat
      /\ \A d \in Execs(s) : TextAt(s, d) \in 1 .. n
      /\ \A d \in Execs(s) : \A j \in 1 .. Len(s[d].rest) : s[d].rest[j].text \in 1 .. n
  BY <1>1, RanAre, CallsAre
<1>3. \A i \in 1 .. Len(c) :
          c[i].text = 0 \/ c[i].text = n + 1 \/ \E j \in 1 .. Len(b) : c[i] = b[j]
  BY <1>1, WordOrEnd DEF Put
<1>4. \A k \in 1 .. n : k # 0 /\ k # n + 1
  BY <1>1
<1>5. BufferOrder(c) /\ RanOrder(R) /\ RestOrder(s) /\ RestsApart(s) /\ RanThenRest(R, s)
  BY DEF Ordered, Put
<1>6. RanThenBuffer(R, c)
  <2>1. ASSUME NEW i \in 1 .. Len(R), NEW j \in 1 .. Len(c), R[i][1] = c[j].text
        PROVE  R[i][2] < c[j].word
    <3>1. PICK k \in 1 .. Len(b) : c[j] = b[k]
      BY <1>2, <1>3, <1>4, <2>1
    <3> QED
      BY <2>1, <3>1 DEF Ordered, RanThenBuffer
  <2> QED
    BY <2>1 DEF RanThenBuffer
<1>7. BufferThenRest(c, s)
  <2>1. ASSUME NEW i \in 1 .. Len(c), NEW d \in Execs(s), NEW j \in 1 .. Len(s[d].rest),
               c[i].text = s[d].rest[j].text
        PROVE  c[i].word < s[d].rest[j].word
    <3>1. PICK k \in 1 .. Len(b) : c[i] = b[k]
      BY <1>2, <1>3, <1>4, <2>1
    <3> QED
      BY <2>1, <3>1 DEF Ordered, BufferThenRest
  <2> QED
    BY <2>1 DEF BufferThenRest
<1>8. Kept(c, s, T2, R, L2)
  <2>1. ASSUME NEW m \in 1 .. Len(T2), NEW w \in T2[m].words
        PROVE  Gone(w, R, L2) \/ In(w, c) \/ \E d \in Execs(s) : In(w, s[d].rest)
    <3>1. CASE m = n + 1
      BY <1>1, <2>1, <3>1 DEF More, Gone
    <3>2. CASE m \in 1 .. n
      <4>1. w \in T[m].words
        BY <1>1, <2>1, <3>2 DEF More
      <4>2. Gone(w, R, L) \/ In(w, b) \/ \E d \in Execs(s) : In(w, s[d].rest)
        BY <1>1, <3>2, <4>1 DEF Ordered, Kept
      <4> QED
        BY <4>2 DEF Gone, Put
    <3>3. m \in 1 .. n \/ m = n + 1
      BY <1>1 DEF More
    <3> QED
      BY <3>1, <3>2, <3>3
  <2> QED
    BY <2>1 DEF Kept
<1>9. PassedGone(T2, R, L2)
  <2>1. ASSUME NEW i \in 1 .. Len(R), NEW w \in T2[R[i][1]].words, w[2] < R[i][2]
        PROVE  Gone(w, R, L2)
    <3>1. w \in T[R[i][1]].words
      BY <1>1, <1>2, <2>1 DEF More
    <3>2. Gone(w, R, L)
      BY <2>1, <3>1 DEF Ordered, PassedGone
    <3> QED
      BY <3>2 DEF Gone
  <2> QED
    BY <2>1 DEF PassedGone
<1>10. ASSUME Apart(b, s) PROVE Apart(c, s)
  <2>1. ASSUME NEW d \in Execs(s), NEW i \in 1 .. Len(c) PROVE c[i].text # TextAt(s, d)
    BY <1>2, <1>3, <1>4, <1>10 DEF Apart
  <2> QED
    BY <2>1 DEF Apart
<1> QED
  BY <1>5, <1>6, <1>7, <1>8, <1>9, <1>10 DEF Ordered

-----------------------------------------------------------------------------
(* The calls under way                                                     *)

LEMMA ExecuteIs == Execute \in ExecuteCall /\ Execute.kind = "execute" /\ ~Execute.ran
  BY DEF Execute, ExecuteCall

(* One call more, one less, and one in the place of the last.              *)
LEMMA Calls ==
    ASSUME NEW n \in Nat, NEW s, StackType(s, n), NEW f \in ExecuteCall \cup ExecCall(n)
    PROVE  /\ LET u == Append(s, f)
              IN  /\ StackType(u, n) /\ Len(u) = Len(s) + 1 /\ u[Len(s) + 1] = f
                  /\ \A d \in 1 .. Len(s) : u[d] = s[d]
           /\ s # <<>> =>
              LET u == Front(s)
                  v == Append(Front(s), f)
              IN  /\ Len(s) \in Nat \ {0}
                  /\ StackType(u, n) /\ Len(u) = Len(s) - 1
                  /\ StackType(v, n) /\ Len(v) = Len(s) /\ v[Len(s)] = f
                  /\ \A d \in 1 .. Len(s) - 1 : u[d] = s[d] /\ v[d] = s[d]
<1> DEFINE S == ExecuteCall \cup ExecCall(n)
<1>1. s \in Seq(S) /\ f \in S
  BY DEF StackType
<1> HIDE DEF S
<1>2. /\ Append(s, f) \in Seq(S) /\ Len(Append(s, f)) = Len(s) + 1
      /\ Append(s, f)[Len(s) + 1] = f
      /\ \A d \in 1 .. Len(s) : Append(s, f)[d] = s[d]
  BY <1>1, Appended
<1>3. ASSUME s # <<>>
      PROVE  LET u == Front(s)
                 v == Append(Front(s), f)
             IN  /\ Len(s) \in Nat \ {0}
                 /\ u \in Seq(S) /\ Len(u) = Len(s) - 1
                 /\ v \in Seq(S) /\ Len(v) = Len(s) /\ v[Len(s)] = f
                 /\ \A d \in 1 .. Len(s) - 1 : u[d] = s[d] /\ v[d] = s[d]
  <2> DEFINE u == Front(s)
             v == Append(u, f)
  <2>1. Len(s) \in Nat \ {0}
    BY <1>1, <1>3, EmptySeq
  <2>2. Len(s) - 1 \in 0 .. Len(s) /\ u = SubSeq(s, 1, Len(s) - 1)
    BY <2>1 DEF Front
  <2>3. u \in Seq(S) /\ Len(u) = Len(s) - 1 /\ \A d \in 1 .. Len(s) - 1 : u[d] = s[d]
    BY <1>1, <2>2, Fronts
  <2> HIDE DEF u
  <2>4. v \in Seq(S) /\ Len(v) = Len(u) + 1 /\ v[Len(u) + 1] = f
    BY <1>1, <2>3, Appended
  <2>5. \A d \in 1 .. Len(u) : v[d] = u[d]
    BY <1>1, <2>3, Appended
  <2> HIDE DEF v
  <2>6. Len(u) + 1 = Len(s)
    BY <2>1, <2>3
  <2> QED
    BY <2>1, <2>3, <2>4, <2>5, <2>6 DEF u, v
<1> QED
  BY <1>2, <1>3 DEF StackType, S

\* The same lines are still to be put in.
SameRests(s, s2) ==
    /\ Execs(s2) = Execs(s)
    /\ \A d \in Execs(s) : s2[d].rest = s[d].rest

LEMMA OrderSame ==
    ASSUME NEW b, NEW s, NEW T, NEW R, NEW L, NEW s2, SameRests(s, s2)
    PROVE  /\ Ordered(b, s, T, R, L) => Ordered(b, s2, T, R, L)
           /\ Apart(b, s) => Apart(b, s2)
           /\ \A d \in Execs(s) : TextAt(s2, d) = TextAt(s, d)
<1>1. Execs(s2) = Execs(s) /\ \A d \in Execs(s) : TextAt(s2, d) = TextAt(s, d)
  BY DEF SameRests, TextAt
<1>2. Apart(b, s) => Apart(b, s2)
  BY <1>1 DEF Apart
<1>3. ASSUME Ordered(b, s, T, R, L) PROVE Ordered(b, s2, T, R, L)
  <2>1. RestOrder(s2)
    BY <1>3 DEF SameRests, Ordered, RestOrder
  <2>2. RestsApart(s2)
    BY <1>1, <1>3 DEF Ordered, RestsApart
  <2>3. RanThenRest(R, s2)
    BY <1>3 DEF SameRests, Ordered, RanThenRest
  <2>4. BufferThenRest(b, s2)
    BY <1>3 DEF SameRests, Ordered, BufferThenRest
  <2>5. Kept(b, s2, T, R, L)
    BY <1>3 DEF SameRests, Ordered, Kept
  <2> QED
    BY <1>3, <2>1, <2>2, <2>3, <2>4, <2>5 DEF Ordered
<1> QED
  BY <1>1, <1>2, <1>3

LEMMA LastCall ==
    ASSUME NEW n \in Nat, NEW s, StackType(s, n), s # <<>>,
           NEW f \in ExecuteCall \cup ExecCall(n)
    PROVE  /\ StackType(Append(Front(s), f), n) /\ Len(Append(Front(s), f)) = Len(s)
           /\ Append(Front(s), f)[Len(s)] = f
           /\ \A d \in 1 .. Len(s) - 1 : Append(Front(s), f)[d] = s[d]
  BY Calls

(* A call of Cbuf_Execute comes, goes or goes on.                          *)
LEMMA ExecuteCalls ==
    ASSUME NEW n \in Nat, NEW s, StackType(s, n), NEW f \in ExecuteCall
    PROVE  /\ SameRests(s, Append(s, f))
           /\ s # <<>> /\ s[Len(s)].kind = "execute" =>
              /\ SameRests(s, Front(s))
              /\ SameRests(s, Append(Front(s), f))
<1>1. f \in ExecuteCall \cup ExecCall(n) /\ f.kind # "exec" /\ Len(s) \in Nat
  BY LenProperties DEF ExecuteCall, StackType
<1>2. SameRests(s, Append(s, f))
  <2> DEFINE u == Append(s, f)
  <2>1. /\ Len(u) = Len(s) + 1 /\ u[Len(s) + 1] = f
        /\ \A d \in 1 .. Len(s) : u[d] = s[d]
    BY <1>1, Calls
  <2> HIDE DEF u
  <2>2. \A d \in 1 .. Len(u) : d \in 1 .. Len(s) \/ d = Len(s) + 1
    BY <1>1, <2>1
  <2>3. \A d \in 1 .. Len(s) : d \in 1 .. Len(u)
    BY <1>1, <2>1
  <2>4. Execs(u) = Execs(s)
    BY <1>1, <2>1, <2>2, <2>3 DEF Execs
  <2>5. \A d \in Execs(s) : u[d].rest = s[d].rest
    BY <2>1 DEF Execs
  <2> QED
    BY <2>4, <2>5 DEF SameRests, u
<1>3. ASSUME s # <<>>, s[Len(s)].kind = "execute"
      PROVE  SameRests(s, Front(s)) /\ SameRests(s, Append(Front(s), f))
  <2> DEFINE u == Front(s)
             v == Append(Front(s), f)
  <2>1. /\ Len(s) \in Nat \ {0} /\ Len(u) = Len(s) - 1
        /\ Len(v) = Len(s) /\ v[Len(s)] = f
        /\ \A d \in 1 .. Len(s) - 1 : u[d] = s[d] /\ v[d] = s[d]
    BY <1>1, <1>3, Calls
  <2> HIDE DEF u, v
  <2>2. \A d \in 1 .. Len(s) : d \in 1 .. Len(s) - 1 \/ d = Len(s)
    BY <2>1
  <2>3. \A d \in 1 .. Len(s) - 1 : d \in 1 .. Len(s)
    BY <2>1
  <2>4. \A d \in Execs(s) : d \in 1 .. Len(s) - 1
    BY <1>3, <2>2 DEF Execs
  <2>5. Execs(u) = Execs(s) /\ Execs(v) = Execs(s)
    BY <1>1, <1>3, <2>1, <2>2, <2>3, <2>4 DEF Execs
  <2>6. \A d \in Execs(s) : u[d].rest = s[d].rest /\ v[d].rest = s[d].rest
    BY <2>1, <2>4
  <2> QED
    BY <2>5, <2>6 DEF SameRests, u, v
<1> QED
  BY <1>2, <1>3

(* Cmd_Exec_f begins to put in the lines of a file one by one.             *)
LEMMA OrderLong ==
    ASSUME NEW T, TextsType(T), NEW b, BufferType(b, Len(T)), NEW s, StackType(s, Len(T)),
           NEW R, RanType(R, Len(T)), NEW L, Ordered(b, s, T, R, L),
           NEW W, NEW T2, More(T, T2, W),
           NEW f \in ExecCall(Len(T) + 1),
           \A i \in 1 .. Len(f.rest) : f.rest[i].text = Len(T) + 1 /\ f.rest[i].word = i,
           \A w \in W : In(w, f.rest)
    PROVE  /\ StackType(Append(s, f), Len(T) + 1)
           /\ Ordered(b, Append(s, f), T2, R, L)
           /\ Apart(b, s) => Apart(b, Append(s, f))
<1> DEFINE s2 == Append(s, f)
<1>1. PICK n \in Nat : n = Len(T)
  BY LenProperties DEF TextsType
<1>2. /\ n + 1 \in Nat /\ StackType(s, n + 1)
      /\ f \in ExecuteCall \cup ExecCall(n + 1) /\ Len(s) \in Nat
  BY <1>1, Wider, CallsAre
<1>3. /\ StackType(s2, n + 1) /\ Len(s2) = Len(s) + 1 /\ s2[Len(s) + 1] = f
      /\ \A d \in 1 .. Len(s) : s2[d] = s[d]
  BY <1>2, Calls
<1> HIDE DEF s2
<1>4. PICK D \in Nat : D = Len(s) + 1
  BY <1>2
<1>5. f.kind = "exec"
  BY DEF ExecCall
<1>6. /\ \A d \in Execs(s) : d \in 1 .. Len(s) /\ d # D /\ d \in Execs(s2) /\ s2[d] = s[d]
      /\ D \in Execs(s2) /\ s2[D] = f
      /\ \A d \in Execs(s2) : d \in Execs(s) \/ d = D
  <2>1. /\ \A d \in 1 .. Len(s) : d \in 1 .. Len(s2) /\ d # D
        /\ D \in 1 .. Len(s2)
        /\ \A d \in 1 .. Len(s2) : d \in 1 .. Len(s) \/ d = D
    BY <1>2, <1>3, <1>4
  <2> QED
    BY <1>3, <1>4, <1>5, <2>1 DEF Execs
<1>7. /\ \A i \in 1 .. Len(f.rest) : f.rest[i].text = n + 1 /\ f.rest[i].word = i
      /\ TextAt(s2, D) = n + 1 /\ \A d \in Execs(s) : TextAt(s2, d) = TextAt(s, d)
  <2>1. 1 \in 1 .. Len(f.rest)
    BY <1>2, <1>3, <1>6, CallsAre
  <2> QED
    BY <1>1, <1>6, <2>1 DEF TextAt
<1>8. /\ \A i \in 1 .. Len(R) : R[i][1] \in 1 .. n
      /\ \A d \in Execs(s) : TextAt(s, d) \in 1 .. n
      /\ \A i \in 1 .. Len(b) : b[i].text \in 0 .. n
  <2>1. \A i \in 1 .. Len(b) : b[i] \in Word(n) \cup {NL}
    BY <1>1, ElementOfSeq DEF BufferType
  <2>2. \A i \in 1 .. Len(b) : b[i].text \in 0 .. n
    BY <1>1, <2>1, WordOrEnd
  <2>3. \A i \in 1 .. Len(R) : R[i][1] \in 1 .. n
    BY <1>1, RanAre
  <2>4. \A d \in Execs(s) : TextAt(s, d) \in 1 .. n
    BY <1>1, CallsAre
  <2> QED
    BY <2>2, <2>3, <2>4
<1>9. \A k \in 0 .. n : k # n + 1
  BY <1>1
<1>10. BufferOrder(b) /\ RanOrder(R) /\ RanThenBuffer(R, b)
  BY DEF Ordered
<1>11. RestOrder(s2)
  <2>1. ASSUME NEW d \in Execs(s2), NEW i \in 1 .. Len(s2[d].rest), NEW j \in 1 .. Len(s2[d].rest)
        PROVE  /\ s2[d].rest[i].text = s2[d].rest[j].text
               /\ i < j => s2[d].rest[i].word < s2[d].rest[j].word
    <3>1. CASE d = D
      <4>1. i \in 1 .. Len(f.rest) /\ j \in 1 .. Len(f.rest) /\ s2[d] = f
        BY <1>6, <2>1, <3>1
      <4> QED
        BY <1>7, <4>1
    <3>2. CASE d # D
      <4>1. d \in Execs(s) /\ s2[d] = s[d]
        BY <1>6, <3>2
      <4>2. RestOrder(s)
        BY DEF Ordered
      <4> QED
        BY <2>1, <4>1, <4>2 DEF RestOrder
    <3> QED
      BY <3>1, <3>2
  <2> QED
    BY <2>1 DEF RestOrder
<1>12. RestsApart(s2)
  <2>1. \A d \in Execs(s) : TextAt(s2, d) # TextAt(s2, D)
    BY <1>7, <1>8, <1>9
  <2> QED
    BY <1>6, <1>7, <2>1 DEF Ordered, RestsApart
<1>13. RanThenRest(R, s2)
  <2>1. \A i \in 1 .. Len(R) : R[i][1] # n + 1
    BY <1>8, <1>9
  <2>2. ASSUME NEW i \in 1 .. Len(R), NEW d \in Execs(s2), NEW j \in 1 .. Len(s2[d].rest),
               R[i][1] = s2[d].rest[j].text
        PROVE  R[i][2] < s2[d].rest[j].word
    <3>1. d # D
      <4> SUFFICES ASSUME d = D PROVE FALSE
        OBVIOUS
      <4>1. s2[d] = f /\ j \in 1 .. Len(f.rest)
        BY <1>6, <2>2
      <4> QED
        BY <1>7, <2>1, <2>2, <4>1
    <3>2. d \in Execs(s) /\ s2[d] = s[d]
      BY <1>6, <3>1
    <3> QED
      BY <2>2, <3>2 DEF Ordered, RanThenRest
  <2> QED
    BY <2>2 DEF RanThenRest
<1>14. BufferThenRest(b, s2)
  <2>1. \A i \in 1 .. Len(b) : b[i].text # n + 1
    BY <1>8, <1>9
  <2>2. ASSUME NEW i \in 1 .. Len(b), NEW d \in Execs(s2), NEW j \in 1 .. Len(s2[d].rest),
               b[i].text = s2[d].rest[j].text
        PROVE  b[i].word < s2[d].rest[j].word
    <3>1. d # D
      <4> SUFFICES ASSUME d = D PROVE FALSE
        OBVIOUS
      <4>1. s2[d] = f /\ j \in 1 .. Len(f.rest)
        BY <1>6, <2>2
      <4> QED
        BY <1>7, <2>1, <2>2, <4>1
    <3>2. d \in Execs(s) /\ s2[d] = s[d]
      BY <1>6, <3>1
    <3> QED
      BY <2>2, <3>2 DEF Ordered, BufferThenRest
  <2> QED
    BY <2>2 DEF BufferThenRest
<1>15. Kept(b, s2, T2, R, L)
  <2>1. ASSUME NEW m \in 1 .. Len(T2), NEW w \in T2[m].words
        PROVE  Gone(w, R, L) \/ In(w, b) \/ \E d \in Execs(s2) : In(w, s2[d].rest)
    <3>1. CASE m = n + 1
      BY <1>1, <1>6, <2>1, <3>1 DEF More
    <3>2. CASE m \in 1 .. n
      <4>1. w \in T[m].words
        BY <1>1, <2>1, <3>2 DEF More
      <4>2. Gone(w, R, L) \/ In(w, b) \/ \E d \in Execs(s) : In(w, s[d].rest)
        BY <1>1, <3>2, <4>1 DEF Ordered, Kept
      <4> QED
        BY <1>6, <4>2
    <3>3. m \in 1 .. n \/ m = n + 1
      BY <1>1 DEF More
    <3> QED
      BY <3>1, <3>2, <3>3
  <2> QED
    BY <2>1 DEF Kept
<1>16. PassedGone(T2, R, L)
  <2>1. \A i \in 1 .. Len(R) : T2[R[i][1]] = T[R[i][1]]
    BY <1>1, <1>8 DEF More
  <2> QED
    BY <2>1 DEF Ordered, PassedGone
<1>17. ASSUME Apart(b, s) PROVE Apart(b, s2)
  <2>1. \A i \in 1 .. Len(b) : b[i].text # n + 1
    BY <1>8, <1>9
  <2> QED
    BY <1>6, <1>7, <1>17, <2>1 DEF Apart
<1>18. Ordered(b, s2, T2, R, L)
  BY <1>10, <1>11, <1>12, <1>13, <1>14, <1>15, <1>16 DEF Ordered
<1> QED
  BY <1>1, <1>3, <1>17, <1>18 DEF s2

-----------------------------------------------------------------------------
(* Taking the first line out of the buffer                                 *)

\* The first line of b has e words, with its end, if it has one, k places,
\* and c is what comes after it.
IsLine(b, k, e, c) ==
    /\ k \in 1 .. Len(b) /\ (e = k \/ e = k - 1) /\ e \in Nat
    /\ \A i \in 1 .. e : b[i] # NL
    /\ e = k - 1 => b[k] = NL
    /\ c = SubSeq(b, k + 1, Len(b))

LEMMA LineIs ==
    ASSUME NEW S, cmd_text \in Seq(S), cmd_text # <<>>
    PROVE  /\ LineLength \in 0 .. Len(cmd_text)
           /\ Len(Line) \in Nat
           /\ IsLine(cmd_text, LineLength, Len(Line), Rest(LineLength))
           /\ \A i \in 1 .. Len(Line) : Line[i] = cmd_text[i]
           /\ Line \in Seq(S)
<1>1. Len(cmd_text) \in Nat \ {0} /\ DOMAIN cmd_text = 1 .. Len(cmd_text)
  BY EmptySeq, LenProperties
<1>2. PICK k \in 1 .. Len(cmd_text), e \in 0 .. Len(cmd_text) :
          /\ LineLength = k /\ (e = k \/ e = k - 1)
          /\ Line = SubSeq(cmd_text, 1, e)
          /\ \A i \in 1 .. e : cmd_text[i] # NL
          /\ e = k - 1 => cmd_text[k] = NL
  <2>1. CASE Ends = {}
    <3>1. LineLength = Len(cmd_text) /\ Line = SubSeq(cmd_text, 1, Len(cmd_text))
      BY <2>1 DEF LineLength, Line
    <3>2. \A i \in 1 .. Len(cmd_text) : cmd_text[i] # NL
      BY <1>1, <2>1 DEF Ends
    <3>3. PICK m \in Nat \ {0} : m = Len(cmd_text)
      BY <1>1
    <3>4. m # m - 1 /\ m \in 1 .. m /\ m \in 0 .. m
      OBVIOUS
    <3> QED
      BY <3>1, <3>2, <3>3, <3>4
  <2>2. CASE Ends # {}
    <3>1. Ends \subseteq Nat /\ Ends \subseteq 1 .. Len(cmd_text)
      BY <1>1 DEF Ends
    <3>2. PICK d \in Ends : \A x \in Ends : ~(<<x, d>> \in OpToRel(<, Nat))
      BY <2>2, <3>1, NatLessThanWellFounded, WFMin
    <3>3. ASSUME NEW x \in Ends PROVE d <= x
      <4>1. x \in Nat /\ d \in Nat /\ ~(x < d)
        BY <3>1, <3>2 DEF OpToRel
      <4> QED
        BY <4>1
    <3>4. PICK m : m = Min(Ends)
      OBVIOUS
    <3>5. m \in Ends /\ \A x \in Ends : m <= x
      BY <3>3, <3>4 DEF Min
    <3>6. LineLength = m /\ Line = SubSeq(cmd_text, 1, m - 1)
      BY <2>2, <3>4 DEF LineLength, Line
    <3>7. m \in 1 .. Len(cmd_text) /\ cmd_text[m] = NL /\ m - 1 \in 0 .. Len(cmd_text)
      BY <1>1, <3>1, <3>5 DEF Ends
    <3>8. ASSUME NEW i \in 1 .. m - 1 PROVE cmd_text[i] # NL
      <4>1. i \in 1 .. Len(cmd_text) /\ ~(m <= i)
        BY <1>1, <3>7
      <4> QED
        BY <1>1, <3>5, <4>1 DEF Ends
    <3> QED
      BY <3>6, <3>7, <3>8
  <2> QED
    BY <2>1, <2>2
<1>3. Line \in Seq(S) /\ Len(Line) = e /\ \A i \in 1 .. e : Line[i] = cmd_text[i]
  BY <1>2, Fronts
<1>4. e \in Nat /\ k \in 0 .. Len(cmd_text)
  BY <1>1
<1> QED
  BY <1>2, <1>3, <1>4 DEF IsLine, Rest

LEMMA LineParts ==
    ASSUME NEW n \in Nat, NEW b, BufferType(b, n), NEW k, NEW e, NEW c, IsLine(b, k, e, c)
    PROVE  /\ BufferType(c, n) /\ Len(c) = Len(b) - k /\ Len(b) \in Nat
           /\ \A i \in 1 .. Len(c) : c[i] = b[k + i] /\ k + i \in 1 .. Len(b)
           /\ \A i \in 1 .. e : i \in 1 .. Len(b) /\ b[i] \in Word(n)
           /\ \A i \in 1 .. Len(b) : i \in 1 .. e \/ b[i] = NL \/ \E j \in 1 .. Len(c) : i = k + j
           /\ \A w : In(w, b) => In(w, c) \/ \E i \in 1 .. e : w = <<b[i].text, b[i].word>>
           /\ Whole(b) => Whole(c) /\ e <= 1
<1> DEFINE S == Word(n) \cup {NL}
<1>1. /\ b \in Seq(S) /\ Len(b) < MAX_CMD_BUFFER /\ Len(b) \in Nat
      /\ k \in 1 .. Len(b) /\ (e = k \/ e = k - 1) /\ e \in Nat
      /\ \A i \in 1 .. Len(b) : b[i] \in S
  BY LenProperties, ElementOfSeq DEF BufferType, IsLine
<1> HIDE DEF S
<1>2. k \in 0 .. Len(b)
  BY <1>1
<1>3. /\ c \in Seq(S) /\ Len(c) = Len(b) - k
      /\ \A i \in 1 .. Len(c) : c[i] = b[k + i] /\ k + i \in 1 .. Len(b)
  BY <1>1, <1>2, Cut DEF IsLine
<1>4. BufferType(c, n)
  <2>1. Len(c) < MAX_CMD_BUFFER
    BY <1>1, <1>3, Consts
  <2> QED
    BY <1>3, <2>1 DEF BufferType, S
<1>5. \A i \in 1 .. e : i \in 1 .. Len(b) /\ b[i] \in Word(n)
  <2>1. \A i \in 1 .. e : i \in 1 .. Len(b)
    BY <1>1
  <2> QED
    BY <1>1, <2>1 DEF IsLine, S
<1>6. ASSUME NEW i \in 1 .. Len(b), i \notin 1 .. e, b[i] # NL
      PROVE  \E j \in 1 .. Len(c) : i = k + j
  <2>1. i # k \/ e = k
    BY <1>1, <1>6 DEF IsLine
  <2>2. i > k
    BY <1>1, <1>6, <2>1
  <2>3. i - k \in 1 .. Len(c) /\ i = k + (i - k)
    BY <1>1, <1>3, <2>2
  <2> QED
    BY <2>3
<1>7. ASSUME NEW w, In(w, b)
      PROVE  In(w, c) \/ \E i \in 1 .. e : w = <<b[i].text, b[i].word>>
  <2>1. PICK i \in 1 .. Len(b) : b[i] # NL /\ w = <<b[i].text, b[i].word>>
    BY <1>7 DEF In
  <2>2. CASE i \in 1 .. e
    BY <2>1, <2>2
  <2>3. CASE i \notin 1 .. e
    <3>1. PICK j \in 1 .. Len(c) : i = k + j
      BY <1>6, <2>1, <2>3
    <3> QED
      BY <1>3, <2>1, <3>1 DEF In
  <2> QED
    BY <2>2, <2>3
<1>8. ASSUME Whole(b) PROVE Whole(c) /\ e <= 1
  <2>1. ASSUME NEW i \in 1 .. Len(c), c[i] # NL
        PROVE  i + 1 \in 1 .. Len(c) /\ c[i + 1] = NL
    <3>1. k + i \in 1 .. Len(b) /\ b[k + i] # NL
      BY <1>3, <2>1
    <3>2. k + i + 1 \in 1 .. Len(b) /\ b[k + i + 1] = NL
      BY <1>8, <3>1 DEF Whole
    <3>3. i + 1 \in 1 .. Len(c) /\ k + (i + 1) = k + i + 1
      BY <1>1, <1>3, <3>2
    <3> QED
      BY <1>3, <3>2, <3>3
  <2>2. e <= 1
    <3> SUFFICES ASSUME e > 1 PROVE FALSE
      BY <1>1
    <3>1. 1 \in 1 .. e /\ 2 \in 1 .. e /\ 1 \in 1 .. Len(b)
      BY <1>1
    <3>2. b[1] # NL /\ b[2] # NL
      BY <3>1 DEF IsLine
    <3>3. b[1 + 1] = NL
      BY <1>8, <3>1, <3>2 DEF Whole
    <3> QED
      BY <3>2, <3>3
  <2> QED
    BY <2>1, <2>2 DEF Whole
<1> QED
  BY <1>1, <1>3, <1>4, <1>5, <1>6, <1>7, <1>8

(* What comes after the first line is in the order it was, and nothing of  *)
(* what a Cmd_Exec_f puts in is left, if the line was not empty.           *)
LEMMA AfterTheLine ==
    ASSUME NEW n \in Nat, NEW b, BufferType(b, n), NEW k, NEW e, NEW c, IsLine(b, k, e, c),
           NEW s, NEW T, NEW R, NEW L, Ordered(b, s, T, R, L)
    PROVE  /\ BufferOrder(c) /\ RanThenBuffer(R, c) /\ BufferThenRest(c, s)
           /\ \A wait : e >= 1 /\ Settled(b, s, wait) => Apart(c, s)
<1>1. /\ Len(c) = Len(b) - k /\ Len(b) \in Nat
      /\ \A i \in 1 .. Len(c) : c[i] = b[k + i] /\ k + i \in 1 .. Len(b)
      /\ k \in 1 .. Len(b) /\ e \in Nat
  BY LineParts DEF IsLine
<1>2. BufferOrder(c)
  <2>1. ASSUME NEW i \in 1 .. Len(c), NEW j \in 1 .. Len(c), i < j, c[i] # NL, c[i].text = c[j].text
        PROVE  c[i].word < c[j].word
    <3>1. k + i < k + j
      BY <1>1, <2>1
    <3> QED
      BY <1>1, <2>1, <3>1 DEF Ordered, BufferOrder
  <2> QED
    BY <2>1 DEF BufferOrder
<1>3. RanThenBuffer(R, c)
  BY <1>1 DEF Ordered, RanThenBuffer
<1>4. BufferThenRest(c, s)
  BY <1>1 DEF Ordered, BufferThenRest
<1>5. ASSUME NEW wait, e >= 1, Settled(b, s, wait) PROVE Apart(c, s)
  <2>1. ASSUME NEW d \in Execs(s), NEW i \in 1 .. Len(c), c[i].text = TextAt(s, d) PROVE FALSE
    <3>1. k + i \in 1 .. Len(b) /\ b[k + i].text = TextAt(s, d)
      BY <1>1, <2>1
    <3>2. k + i = 1 \/ (k + i = 2 /\ b[1] = NL)
      BY <1>5, <3>1 DEF Settled
    <3>3. 1 \in 1 .. e /\ k + i # 1
      BY <1>1, <1>5
    <3> QED
      BY <3>2, <3>3 DEF IsLine
  <2> QED
    BY <2>1 DEF Apart
<1> QED
  BY <1>2, <1>3, <1>4, <1>5

(* A line that is not one word is lost.                                    *)
LEMMA OrderLost ==
    ASSUME NEW n \in Nat, NEW b, BufferType(b, n), NEW k, NEW e, NEW c, IsLine(b, k, e, c),
           NEW s, NEW T, NEW R, NEW L, Ordered(b, s, T, R, L),
           NEW L2, L \subseteq L2, \A i \in 1 .. e : <<b[i].text, b[i].word>> \in L2
    PROVE  Ordered(c, s, T, R, L2)
<1>1. BufferOrder(c) /\ RanThenBuffer(R, c) /\ BufferThenRest(c, s)
  BY AfterTheLine
<1>2. Kept(c, s, T, R, L2)
  <2>1. ASSUME NEW m \in 1 .. Len(T), NEW w \in T[m].words
        PROVE  Gone(w, R, L2) \/ In(w, c) \/ \E d \in Execs(s) : In(w, s[d].rest)
    <3>1. Gone(w, R, L) \/ In(w, b) \/ \E d \in Execs(s) : In(w, s[d].rest)
      BY <2>1 DEF Ordered, Kept
    <3>2. In(w, b) => In(w, c) \/ w \in L2
      BY LineParts
    <3> QED
      BY <3>1, <3>2 DEF Gone
  <2> QED
    BY <2>1 DEF Kept
<1>3. PassedGone(T, R, L2)
  BY DEF Ordered, PassedGone, Gone
<1> QED
  BY <1>1, <1>2, <1>3 DEF Ordered

(* The word of a line of one word is run.                                  *)
LEMMA OrderRun ==
    ASSUME NEW T, TextsType(T), NEW b, BufferType(b, Len(T)),
           NEW k, NEW c, IsLine(b, k, 1, c),
           NEW s, StackType(s, Len(T)), NEW R, RanType(R, Len(T)),
           NEW L, Ordered(b, s, T, R, L), NEW wait, Settled(b, s, wait)
    PROVE  LET R2 == Append(R, <<b[1].text, b[1].word>>)
           IN  RanType(R2, Len(T)) /\ Ordered(c, s, T, R2, L)
<1> DEFINE v == <<b[1].text, b[1].word>>
           R2 == Append(R, v)
<1>1. PICK n \in Nat : n = Len(T)
  BY LenProperties DEF TextsType
<1>2. /\ BufferOrder(c) /\ RanThenBuffer(R, c) /\ BufferThenRest(c, s) /\ Apart(c, s)
  <2>1. 1 >= 1
    OBVIOUS
  <2> QED
    BY <1>1, <2>1, AfterTheLine
<1>3. /\ 1 \in 1 .. Len(b) /\ b[1] \in Word(n) /\ Len(b) \in Nat
      /\ \A i \in 1 .. Len(c) : c[i] = b[k + i] /\ k + i \in 1 .. Len(b)
      /\ k \in Nat /\ k >= 1
      /\ \A w : In(w, b) => In(w, c) \/ w = v
  <2>1. 1 \in 1 .. 1 /\ \A i \in 1 .. 1 : i = 1
    OBVIOUS
  <2>2. \A i \in 1 .. 1 : i \in 1 .. Len(b) /\ b[i] \in Word(n)
    BY <1>1, LineParts
  <2>3. Len(b) \in Nat /\ \A i \in 1 .. Len(c) : c[i] = b[k + i] /\ k + i \in 1 .. Len(b)
    BY <1>1, LineParts
  <2>4. \A w : In(w, b) => In(w, c) \/ \E i \in 1 .. 1 : w = <<b[i].text, b[i].word>>
    BY <1>1, LineParts
  <2>5. k \in Nat /\ k >= 1
    BY <2>3 DEF IsLine
  <2> QED
    BY <2>1, <2>2, <2>3, <2>4, <2>5
<1>4. b[1] # NL /\ b[1].text \in 1 .. n /\ b[1].word \in Nat
  BY <1>3, WordOrEnd
<1>5. v \in (1 .. n) \X Nat /\ v[1] = b[1].text /\ v[2] = b[1].word
  BY <1>4
<1>6. R \in Seq((1 .. n) \X Nat)
  BY <1>1 DEF RanType
<1>7. PICK m \in Nat : m = Len(R)
  BY <1>1, RanAre
<1>8. /\ R2 \in Seq((1 .. n) \X Nat) /\ Len(R2) = m + 1 /\ R2[m + 1] = v
      /\ \A i \in 1 .. m : R2[i] = R[i] /\ i \in 1 .. m + 1
      /\ \A i \in 1 .. m + 1 : i \in 1 .. m \/ i = m + 1
  BY <1>5, <1>6, <1>7, Appended
<1> HIDE DEF R2, v
<1>9. \A w : Gone(w, R, L) \/ w = v => Gone(w, R2, L)
  <2>1. m + 1 \in 1 .. Len(R2)
    BY <1>7, <1>8
  <2> QED
    BY <1>7, <1>8, <2>1 DEF Gone
<1>10. RanType(R2, n)
  BY <1>8 DEF RanType
<1>11. RanOrder(R2)
  <2>1. ASSUME NEW i \in 1 .. m + 1, NEW j \in 1 .. m + 1, i < j, R2[i][1] = R2[j][1]
        PROVE  R2[i][2] < R2[j][2]
    <3>1. i \in 1 .. m
      BY <1>7, <2>1
    <3>2. CASE j \in 1 .. m
      BY <1>7, <1>8, <2>1, <3>1, <3>2 DEF Ordered, RanOrder
    <3>3. CASE j = m + 1
      BY <1>3, <1>5, <1>7, <1>8, <2>1, <3>1, <3>3 DEF Ordered, RanThenBuffer
    <3> QED
      BY <1>8, <3>2, <3>3
  <2> QED
    BY <1>8, <2>1 DEF RanOrder
<1>12. RanThenBuffer(R2, c)
  <2>1. ASSUME NEW i \in 1 .. m + 1, NEW j \in 1 .. Len(c), R2[i][1] = c[j].text
        PROVE  R2[i][2] < c[j].word
    <3>1. CASE i \in 1 .. m
      BY <1>2, <1>7, <1>8, <2>1, <3>1 DEF RanThenBuffer
    <3>2. CASE i = m + 1
      <4>1. b[1].text = b[k + j].text /\ 1 < k + j /\ k + j \in 1 .. Len(b) /\ c[j] = b[k + j]
        BY <1>3, <1>5, <1>8, <2>1, <3>2
      <4>2. b[1].word < b[k + j].word
        BY <1>3, <1>4, <4>1 DEF Ordered, BufferOrder
      <4> QED
        BY <1>5, <1>8, <3>2, <4>1, <4>2
    <3> QED
      BY <1>8, <3>1, <3>2
  <2> QED
    BY <1>8, <2>1 DEF RanThenBuffer
<1>13. RanThenRest(R2, s)
  <2>1. ASSUME NEW i \in 1 .. m + 1, NEW d \in Execs(s), NEW j \in 1 .. Len(s[d].rest),
               R2[i][1] = s[d].rest[j].text
        PROVE  R2[i][2] < s[d].rest[j].word
    <3>1. CASE i \in 1 .. m
      BY <1>7, <1>8, <2>1, <3>1 DEF Ordered, RanThenRest
    <3>2. CASE i = m + 1
      BY <1>3, <1>5, <1>8, <2>1, <3>2 DEF Ordered, BufferThenRest
    <3> QED
      BY <1>8, <3>1, <3>2
  <2> QED
    BY <1>8, <2>1 DEF RanThenRest
<1>14. Kept(c, s, T, R2, L)
  <2>1. ASSUME NEW q \in 1 .. Len(T), NEW w \in T[q].words
        PROVE  Gone(w, R2, L) \/ In(w, c) \/ \E d \in Execs(s) : In(w, s[d].rest)
    <3>1. Gone(w, R, L) \/ In(w, b) \/ \E d \in Execs(s) : In(w, s[d].rest)
      BY <2>1 DEF Ordered, Kept
    <3> QED
      BY <1>3, <1>9, <3>1
  <2> QED
    BY <2>1 DEF Kept
<1>15. PassedGone(T, R2, L)
  <2>1. ASSUME NEW w \in T[v[1]].words, w[2] < v[2] PROVE Gone(w, R2, L)
    <3>1. v[1] \in 1 .. Len(T) /\ w[1] = v[1]
      BY <1>1, <1>4, <1>5, <2>1 DEF TextsType
    <3>2. Gone(w, R, L) \/ In(w, b) \/ \E d \in Execs(s) : In(w, s[d].rest)
      BY <2>1, <3>1 DEF Ordered, Kept
    <3>3. ~In(w, b)
      <4> SUFFICES ASSUME In(w, b) PROVE FALSE
        OBVIOUS
      <4>1. PICK i \in 1 .. Len(b) : b[i] # NL /\ w = <<b[i].text, b[i].word>>
        BY DEF In
      <4>2. b[i].text = b[1].text /\ b[i].word < b[1].word
        BY <1>5, <2>1, <3>1, <4>1
      <4>3. b[i].word \in Nat
        <5>1. b[i] \in Word(n) \cup {NL}
          BY <1>1, ElementOfSeq DEF BufferType
        <5> QED
          BY <5>1, WordOrEnd
      <4>4. CASE i = 1
        BY <1>4, <4>2, <4>4
      <4>5. CASE i # 1
        <5>1. 1 < i
          BY <1>3, <4>5
        <5>2. b[1].word < b[i].word
          BY <1>3, <1>4, <4>2, <5>1 DEF Ordered, BufferOrder
        <5> QED
          BY <1>4, <4>2, <4>3, <5>2
      <4> QED
        BY <4>4, <4>5
    <3>4. ASSUME NEW d \in Execs(s) PROVE ~In(w, s[d].rest)
      <4> SUFFICES ASSUME In(w, s[d].rest) PROVE FALSE
        OBVIOUS
      <4>1. PICK j \in 1 .. Len(s[d].rest) : w = <<s[d].rest[j].text, s[d].rest[j].word>>
        BY DEF In
      <4>2. b[1].text = s[d].rest[j].text /\ s[d].rest[j].word < b[1].word
        BY <1>5, <2>1, <3>1, <4>1
      <4>3. b[1].word < s[d].rest[j].word
        BY <1>3, <4>2 DEF Ordered, BufferThenRest
      <4>4. s[d].rest[j].word \in Nat
        BY <1>1, CallsAre
      <4> QED
        BY <1>4, <4>2, <4>3, <4>4
    <3> QED
      BY <1>9, <3>2, <3>3, <3>4
  <2>2. ASSUME NEW i \in 1 .. m, NEW w \in T[R[i][1]].words, w[2] < R[i][2] PROVE Gone(w, R2, L)
    BY <1>7, <1>9, <2>2 DEF Ordered, PassedGone
  <2>3. ASSUME NEW i \in 1 .. Len(R2), NEW w \in T[R2[i][1]].words, w[2] < R2[i][2]
        PROVE  Gone(w, R2, L)
    <3>1. CASE i \in 1 .. m
      BY <1>8, <2>2, <2>3, <3>1
    <3>2. CASE i = m + 1
      BY <1>8, <2>1, <2>3, <3>2
    <3> QED
      BY <1>8, <3>1, <3>2
  <2> QED
    BY <2>3 DEF PassedGone
<1>16. Ordered(c, s, T, R2, L)
  <2>1. RestOrder(s) /\ RestsApart(s)
    BY DEF Ordered
  <2> QED
    BY <1>2, <1>11, <1>12, <1>13, <1>14, <1>15, <2>1 DEF Ordered
<1> QED
  BY <1>1, <1>10, <1>16 DEF R2, v

-----------------------------------------------------------------------------
(* Cmd_Exec_f puts in a line                                               *)

LEMMA LineOfOne ==
    ASSUME NEW n \in Nat, NEW h \in Word(n)
    PROVE  LET line == Lines(<<h>>)
           IN  /\ line \in Seq(Word(n) \cup {NL}) /\ Len(line) = 3
               /\ line[1] = NL /\ line[2] = h /\ line[3] = NL
               /\ Whole(line) /\ BufferOrder(line)
               /\ In(<<h.text, h.word>>, line)
               /\ \A w : w \in Ids(line) <=> In(w, line)
<1> DEFINE t == <<h>>
           line == Lines(t)
           m == h.text
<1>1. h # NL /\ h.text \in 1 .. n /\ h.word \in Nat /\ h.cmd \in Commands
  BY WordOrEnd
<1>2. m \in Nat /\ m >= 1 /\ h \in Word(m) /\ Word(m) \subseteq Word(n)
  <2>1. m \in Nat /\ m >= 1 /\ 1 .. m \subseteq 1 .. n /\ m \in 1 .. m
    BY <1>1
  <2>2. h = [text |-> h.text, word |-> h.word, cmd |-> h.cmd]
    BY DEF Word
  <2> QED
    BY <1>1, <2>1, <2>2 DEF Word
<1>3. t \in Seq(Word(m) \cup {NL}) /\ Len(t) = 1 /\ t[1] = h
  BY <1>2
<1>4. IsText(t, m)
  <2>1. \A i \in 1 .. Len(t) : i = 1
    BY <1>3
  <2>2. BufferOrder(t)
    BY <1>3, <2>1 DEF BufferOrder
  <2> QED
    BY <1>3, <2>1, <2>2 DEF IsText
<1> HIDE DEF t
<1>5. /\ IsText(line, m) /\ Len(line) = 3
      /\ line[1] = NL /\ line[2] = h /\ line[3] = NL
  <2>1. /\ IsText(line, m) /\ Len(line) = Len(t) + 2
        /\ line[1] = NL /\ line[Len(t) + 2] = NL
        /\ \A i \in 1 .. Len(t) : line[i + 1] = t[i]
    BY <1>2, <1>4, LinesAre
  <2>2. 1 \in 1 .. Len(t) /\ 1 + 1 = 2 /\ Len(t) + 2 = 3
    BY <1>3
  <2> QED
    BY <1>3, <2>1, <2>2
<1> HIDE DEF line, m
<1>6. line \in Seq(Word(n) \cup {NL})
  <2>1. line \in Seq(Word(m) \cup {NL}) /\ Word(m) \cup {NL} \subseteq Word(n) \cup {NL}
    BY <1>2, <1>5 DEF IsText
  <2> QED
    BY <2>1, SeqMonotonic
<1>7. 1 .. Len(line) = {1, 2, 3}
  BY <1>5
<1>8. Whole(line)
  <2>1. 2 + 1 = 3
    OBVIOUS
  <2> QED
    BY <1>5, <1>7, <2>1 DEF Whole
<1>9. BufferOrder(line)
  BY <1>5 DEF IsText
<1>10. In(<<h.text, h.word>>, line)
  BY <1>1, <1>5, <1>7 DEF In
<1>11. \A w : w \in Ids(line) <=> In(w, line)
  BY <1>6, IdsAre
<1> QED
  BY <1>5, <1>6, <1>8, <1>9, <1>10, <1>11 DEF line, t

\* The calls when the last one has put in a line.
NextLine(s) ==
    IF Len(s[Len(s)].rest) = 1 THEN Front(s)
    ELSE Append(Front(s), [s[Len(s)] EXCEPT !.turn = "execute", !.rest = Tail(@)])

LEMMA NextLineIs ==
    ASSUME NEW n \in Nat, NEW s, StackType(s, n), s # <<>>, Len(s) \in Execs(s)
    PROVE  LET D == Len(s)
               s2 == NextLine(s)
           IN  /\ StackType(s2, n)
               /\ \A d \in Execs(s2) : d \in Execs(s)
               /\ \A d \in Execs(s) : d # D => d \in Execs(s2) /\ s2[d] = s[d]
               /\ D \in Execs(s2) =>
                     /\ Len(s2) = D /\ s2[D].turn = "execute"
                     /\ Len(s2[D].rest) = Len(s[D].rest) - 1
                     /\ \A i \in 1 .. Len(s2[D].rest) : s2[D].rest[i] = s[D].rest[i + 1]
               /\ D \notin Execs(s2) => Len(s[D].rest) = 1
<1>1. PICK D \in Nat \ {0} : D = Len(s)
  BY EmptySeq DEF StackType
<1>2. PICK r \in Seq(Word(n)) \ {<<>>} : r = s[D].rest
  BY <1>1, CallsAre
<1>3. s[D] \in ExecCall(n) /\ s[D].kind = "exec" /\ D \in Execs(s)
  BY <1>1, CallsAre
<1>4. PICK s2 : s2 = NextLine(s)
  OBVIOUS
<1>5. \A d \in 1 .. D : d \in 1 .. D - 1 \/ d = D
  BY <1>1
<1>6. /\ \A d \in 1 .. D - 1 : d \in 1 .. D /\ d # D
      /\ D \notin 1 .. D - 1 /\ D \in 1 .. D
  BY <1>1
<1>7. CASE Len(r) = 1
  <2>1. s2 = Front(s)
    BY <1>1, <1>2, <1>4, <1>7 DEF NextLine
  <2>2. Execute \in ExecuteCall \cup ExecCall(n)
    BY ExecuteIs
  <2>3. StackType(s2, n) /\ Len(s2) = D - 1 /\ \A d \in 1 .. D - 1 : s2[d] = s[d]
    BY <1>1, <2>1, <2>2, Calls
  <2>4. \A d \in Execs(s2) : d \in Execs(s) /\ d # D
    BY <1>1, <1>6, <2>3 DEF Execs
  <2>5. \A d \in Execs(s) : d # D => d \in Execs(s2) /\ s2[d] = s[d]
    BY <1>1, <1>5, <2>3 DEF Execs
  <2> QED
    BY <1>1, <1>2, <1>4, <1>7, <2>3, <2>4, <2>5
<1>8. CASE Len(r) # 1
  <2> DEFINE f == [s[D] EXCEPT !.turn = "execute", !.rest = Tail(@)]
  <2>1. s2 = Append(Front(s), f)
    BY <1>1, <1>2, <1>4, <1>8 DEF NextLine
  <2>2. /\ Tail(r) \in Seq(Word(n)) /\ Len(Tail(r)) = Len(r) - 1
        /\ \A i \in 1 .. Len(Tail(r)) : Tail(r)[i] = r[i + 1]
    BY <1>2, HeadTailProperties
  <2>3. Tail(r) # <<>>
    <3>1. Len(r) \in Nat \ {0, 1}
      BY <1>2, <1>8, EmptySeq
    <3>2. Len(Tail(r)) # 0
      BY <2>2, <3>1
    <3> QED
      BY <3>2, EmptySeq
  <2>4. f \in ExecCall(n) /\ f.kind = "exec" /\ f.turn = "execute" /\ f.rest = Tail(r)
    BY <1>2, <1>3, <2>2, <2>3 DEF ExecCall
  <2> HIDE DEF f
  <2>5. f \in ExecuteCall \cup ExecCall(n)
    BY <2>4
  <2>6. /\ StackType(s2, n) /\ Len(s2) = D /\ s2[D] = f
        /\ \A d \in 1 .. D - 1 : s2[d] = s[d]
    BY <1>1, <2>1, <2>5, Calls
  <2>7. Execs(s2) = Execs(s) /\ \A d \in Execs(s) : d # D => s2[d] = s[d]
    BY <1>1, <1>3, <1>5, <1>6, <2>4, <2>6 DEF Execs
  <2> QED
    BY <1>1, <1>2, <1>3, <1>4, <2>2, <2>4, <2>6, <2>7
<1> QED
  BY <1>7, <1>8

LEMMA OrderInsert ==
    ASSUME NEW T, TextsType(T), NEW b, BufferType(b, Len(T)), NEW s, StackType(s, Len(T)),
           s # <<>>, s[Len(s)].kind = "exec", s[Len(s)].turn = "insert",
           NEW R, RanType(R, Len(T)), NEW L, Ordered(b, s, T, R, L),
           NEW wait, Settled(b, s, wait), WaitRan(s, wait),
           NEW c, NEW L2,
           LET line == Lines(<<s[Len(s)].rest[1]>>)
           IN  \/ c = line \o b /\ L2 = L
               \/ c = b /\ L2 = L \cup Ids(line)
    PROVE  /\ Ordered(c, NextLine(s), T, R, L2)
           /\ Settled(c, NextLine(s), wait) /\ WaitRan(NextLine(s), wait)
<1>1. PICK n \in Nat : n = Len(T)
  BY LenProperties DEF TextsType
<1>2. PICK D \in Nat \ {0} : D = Len(s)
  BY EmptySeq DEF StackType
<1>3. D \in Execs(s) /\ s[D].kind = "exec" /\ s[D].turn = "insert"
  BY <1>2 DEF Execs
<1>4. PICK r \in Seq(Word(n)) : r = s[D].rest
  BY <1>1, <1>3, CallsAre
<1>5. PICK h \in Word(n) : h = r[1]
  BY <1>1, <1>3, <1>4, CallsAre
<1>6. h # NL /\ h.text = TextAt(s, D) /\ h.text \in 1 .. n /\ h.word \in Nat
  BY <1>4, <1>5, WordOrEnd DEF TextAt
<1>7. PICK line : line = Lines(<<h>>)
  OBVIOUS
<1>8. /\ line \in Seq(Word(n) \cup {NL}) /\ Len(line) = 3
      /\ line[1] = NL /\ line[2] = h /\ line[3] = NL
      /\ BufferOrder(line)
      /\ In(<<h.text, h.word>>, line) /\ \A w : w \in Ids(line) <=> In(w, line)
  BY <1>7, LineOfOne
<1>9. (c = line \o b /\ L2 = L) \/ (c = b /\ L2 = L \cup Ids(line))
  BY <1>2, <1>4, <1>5, <1>7
<1>10. ~wait
  BY <1>2, <1>3 DEF WaitRan
<1>11. Apart(b, s)
  <2>1. ASSUME NEW d \in Execs(s), NEW i \in 1 .. Len(b), b[i].text = TextAt(s, d) PROVE FALSE
    <3>1. (d = D /\ s[d].turn = "execute") \/ (d + 1 = D /\ s[d + 1].kind = "execute")
      BY <1>2, <2>1 DEF Settled
    <3>2. "insert" # "execute" /\ "exec" # "execute"
      OBVIOUS
    <3> QED
      BY <1>3, <3>1, <3>2
  <2> QED
    BY <2>1 DEF Apart
<1>12. b \in Seq(Word(n) \cup {NL})
  BY <1>1 DEF BufferType
<1>13. ASSUME NEW i \in 1 .. Len(c)
       PROVE  c[i].text = 0 \/ (c[i] = h /\ i = 2 /\ c[1] = NL) \/ \E j \in 1 .. Len(b) : c[i] = b[j]
  <2>1. CASE c = b
    BY <1>13, <2>1
  <2>2. CASE c = line \o b
    <3> DEFINE S == Word(n) \cup {NL}
    <3>0. line \in Seq(S) /\ b \in Seq(S)
      BY <1>8, <1>12
    <3> HIDE DEF S
    <3>1. i \in 1 .. Len(line) \/ \E j \in 1 .. Len(b) : i = Len(line) + j
      BY <1>13, <2>2, <3>0, Joined
    <3>2. \A j \in 1 .. Len(line) : c[j] = line[j]
      BY <2>2, <3>0, Joined
    <3>3. \A j \in 1 .. Len(b) : c[Len(line) + j] = b[j]
      BY <2>2, <3>0, Joined
    <3>4. \A j \in 1 .. Len(line) : j = 1 \/ j = 2 \/ j = 3
      BY <1>8
    <3>5. NL.text = 0
      BY WordOrEnd
    <3>6. 1 \in 1 .. Len(line) /\ c[1] = NL
      BY <1>8, <3>2
    <3>7. CASE i \in 1 .. Len(line)
      BY <1>8, <3>2, <3>4, <3>5, <3>6, <3>7
    <3> QED
      BY <3>1, <3>3, <3>7
  <2> QED
    BY <1>9, <2>1, <2>2
<1>14. \A w : In(w, b) \/ w = <<h.text, h.word>> => In(w, c) \/ w \in L2
  <2>1. CASE c = b /\ L2 = L \cup Ids(line)
    BY <1>8, <2>1
  <2>2. CASE c = line \o b
    <3>1. \A w : In(w, c) <=> In(w, line) \/ In(w, b)
      BY <1>8, <1>12, <2>2, InJoined
    <3> QED
      BY <1>8, <3>1
  <2> QED
    BY <1>9, <2>1, <2>2
<1>15. L \subseteq L2
  BY <1>9
<1>16. BufferOrder(c)
  <2>1. BufferOrder(b)
    BY DEF Ordered
  <2>2. CASE c = line \o b
    <3>1. \A i \in 1 .. Len(line), j \in 1 .. Len(b) : line[i] # NL => line[i].text # b[j].text
      <4>1. \A j \in 1 .. Len(b) : b[j].text # h.text
        BY <1>3, <1>6, <1>11 DEF Apart
      <4>2. \A i \in 1 .. Len(line) : i = 1 \/ i = 2 \/ i = 3
        BY <1>8
      <4> QED
        BY <1>8, <4>1, <4>2
    <3> QED
      BY <1>8, <1>12, <2>1, <2>2, <3>1, OrderJoined
  <2> QED
    BY <1>9, <2>1, <2>2
<1>17. PICK s2 : s2 = NextLine(s)
  OBVIOUS
<1>18. /\ StackType(s2, n)
       /\ \A d \in Execs(s2) : d \in Execs(s)
       /\ \A d \in Execs(s) : d # D => d \in Execs(s2) /\ s2[d] = s[d]
       /\ D \in Execs(s2) =>
             /\ Len(s2) = D /\ s2[D].turn = "execute"
             /\ Len(s2[D].rest) = Len(s[D].rest) - 1
             /\ \A i \in 1 .. Len(s2[D].rest) : s2[D].rest[i] = s[D].rest[i + 1]
       /\ D \notin Execs(s2) => Len(s[D].rest) = 1
  BY <1>1, <1>2, <1>3, <1>17, NextLineIs
<1>19. ASSUME NEW d \in Execs(s2), NEW j \in 1 .. Len(s2[d].rest)
       PROVE  \E k \in 1 .. Len(s[d].rest) :
                  s2[d].rest[j] = s[d].rest[k] /\ k >= j /\ (d = D => k = j + 1)
  <2>1. CASE d = D
    <3>1. Len(r) \in Nat
      BY <1>4, LenProperties
    <3>2. j + 1 \in 1 .. Len(r) /\ j + 1 >= j
      BY <1>4, <1>18, <1>19, <2>1, <3>1
    <3>3. s2[d].rest[j] = s[d].rest[j + 1]
      BY <1>18, <1>19, <2>1
    <3> QED
      BY <1>4, <2>1, <3>2, <3>3
  <2>2. CASE d # D
    <3>1. s2[d] = s[d] /\ j >= j
      BY <1>18, <2>2
    <3> QED
      BY <2>2, <3>1
  <2> QED
    BY <2>1, <2>2
<1>20. \A d \in Execs(s2) : TextAt(s2, d) = TextAt(s, d)
  <2>1. ASSUME NEW d \in Execs(s2) PROVE TextAt(s2, d) = TextAt(s, d)
    <3>1. 1 \in 1 .. Len(s2[d].rest) /\ 1 \in 1 .. Len(s[d].rest) /\ d \in Execs(s)
      BY <1>1, <1>18, CallsAre
    <3>2. PICK k \in 1 .. Len(s[d].rest) : s2[d].rest[1] = s[d].rest[k]
      BY <1>19, <3>1
    <3> QED
      BY <3>1, <3>2 DEF TextAt, Ordered, RestOrder
  <2> QED
    BY <2>1
<1>21. RestOrder(s2)
  <2>1. ASSUME NEW d \in Execs(s2), NEW i \in 1 .. Len(s2[d].rest), NEW j \in 1 .. Len(s2[d].rest)
        PROVE  /\ s2[d].rest[i].text = s2[d].rest[j].text
               /\ i < j => s2[d].rest[i].word < s2[d].rest[j].word
    <3>1. d \in Execs(s)
      BY <1>18
    <3>2. CASE d # D
      BY <1>18, <3>1, <3>2 DEF Ordered, RestOrder
    <3>3. CASE d = D
      <4>1. PICK k \in 1 .. Len(s[d].rest) : s2[d].rest[i] = s[d].rest[k] /\ k = i + 1
        BY <1>19, <3>3
      <4>2. PICK l \in 1 .. Len(s[d].rest) : s2[d].rest[j] = s[d].rest[l] /\ l = j + 1
        BY <1>19, <3>3
      <4>3. i < j => k < l
        BY <4>1, <4>2
      <4> QED
        BY <3>1, <4>1, <4>2, <4>3 DEF Ordered, RestOrder
    <3> QED
      BY <3>2, <3>3
  <2> QED
    BY <2>1 DEF RestOrder
<1>22. RestsApart(s2)
  BY <1>18, <1>20 DEF Ordered, RestsApart
<1>23. RanThenRest(R, s2)
  <2>1. ASSUME NEW i \in 1 .. Len(R), NEW d \in Execs(s2), NEW j \in 1 .. Len(s2[d].rest),
               R[i][1] = s2[d].rest[j].text
        PROVE  R[i][2] < s2[d].rest[j].word
    <3>1. PICK k \in 1 .. Len(s[d].rest) : s2[d].rest[j] = s[d].rest[k]
      BY <1>19
    <3>2. d \in Execs(s) /\ R[i][1] = s[d].rest[k].text
      BY <1>18, <2>1, <3>1
    <3>3. R[i][2] < s[d].rest[k].word
      BY <3>2 DEF Ordered, RanThenRest
    <3> QED
      BY <3>1, <3>3
  <2> QED
    BY <2>1 DEF RanThenRest
<1>24. RanThenBuffer(R, c)
  <2>1. ASSUME NEW i \in 1 .. Len(R), NEW j \in 1 .. Len(c), R[i][1] = c[j].text
        PROVE  R[i][2] < c[j].word
    <3>1. R[i][1] # 0
      BY <1>1, RanAre
    <3>2. CASE c[j] = h
      <4>1. 1 \in 1 .. Len(s[D].rest) /\ s[D].rest[1] = h
        BY <1>1, <1>3, <1>4, <1>5, CallsAre
      <4> QED
        BY <1>3, <2>1, <3>2, <4>1 DEF Ordered, RanThenRest
    <3>3. CASE \E k \in 1 .. Len(b) : c[j] = b[k]
      BY <2>1, <3>3 DEF Ordered, RanThenBuffer
    <3> QED
      BY <1>13, <2>1, <3>1, <3>2, <3>3
  <2> QED
    BY <2>1 DEF RanThenBuffer
<1>25. BufferThenRest(c, s2)
  <2>1. ASSUME NEW i \in 1 .. Len(c), NEW d \in Execs(s2), NEW j \in 1 .. Len(s2[d].rest),
               c[i].text = s2[d].rest[j].text
        PROVE  c[i].word < s2[d].rest[j].word
    <3>1. PICK k \in 1 .. Len(s[d].rest) : s2[d].rest[j] = s[d].rest[k] /\ (d = D => k = j + 1)
      BY <1>19
    <3>2. d \in Execs(s) /\ s[d].rest[k].text # 0 /\ s[d].rest[k].text = TextAt(s, d)
      <4>1. 1 \in 1 .. Len(s[d].rest) /\ s[d].rest[k].text \in 1 .. n /\ d \in Execs(s)
        BY <1>1, <1>18, CallsAre
      <4> QED
        BY <4>1 DEF Ordered, RestOrder, TextAt
    <3>3. CASE c[i] = h
      <4>1. d = D
        BY <1>3, <1>6, <2>1, <3>1, <3>2, <3>3 DEF Ordered, RestsApart
      <4>2. 1 \in 1 .. Len(s[D].rest) /\ s[D].rest[1] = h /\ k = j + 1 /\ 1 < k
        BY <1>1, <1>3, <1>4, <1>5, <3>1, <4>1, CallsAre
      <4> QED
        BY <1>3, <3>1, <3>3, <4>1, <4>2 DEF Ordered, RestOrder
    <3>4. CASE \E l \in 1 .. Len(b) : c[i] = b[l]
      BY <2>1, <3>1, <3>2, <3>4 DEF Ordered, BufferThenRest
    <3> QED
      BY <1>13, <2>1, <3>1, <3>2, <3>3, <3>4
  <2> QED
    BY <2>1 DEF BufferThenRest
<1>26. ASSUME NEW d \in Execs(s), NEW w, In(w, s[d].rest)
       PROVE  w = <<h.text, h.word>> \/ \E e \in Execs(s2) : In(w, s2[e].rest)
  <2>1. PICK j \in 1 .. Len(s[d].rest) :
            s[d].rest[j] # NL /\ w = <<s[d].rest[j].text, s[d].rest[j].word>>
    BY <1>26 DEF In
  <2>2. CASE d # D
    BY <1>18, <1>26, <2>2
  <2>3. CASE d = D /\ j = 1
    BY <1>4, <1>5, <2>1, <2>3
  <2>4. CASE d = D /\ j # 1
    <3>1. PICK m \in Nat : m = Len(s[D].rest)
      BY <1>1, <1>3, CallsAre
    <3>2. m # 1 /\ j \in 1 .. m
      BY <2>1, <2>4, <3>1
    <3>3. D \in Execs(s2) /\ Len(s2[D].rest) = m - 1
      BY <1>18, <3>1, <3>2
    <3>4. j - 1 \in 1 .. Len(s2[D].rest) /\ j - 1 + 1 = j
      BY <2>4, <3>2, <3>3
    <3>5. s2[D].rest[j - 1] = s[D].rest[j]
      BY <1>18, <3>3, <3>4
    <3>6. In(w, s2[D].rest)
      BY <2>1, <2>4, <3>4, <3>5 DEF In
    <3> QED
      BY <3>3, <3>6
  <2> QED
    BY <2>2, <2>3, <2>4
<1>27. Kept(c, s2, T, R, L2)
  <2>1. ASSUME NEW m \in 1 .. Len(T), NEW w \in T[m].words
        PROVE  Gone(w, R, L2) \/ In(w, c) \/ \E d \in Execs(s2) : In(w, s2[d].rest)
    <3>1. Gone(w, R, L) \/ In(w, b) \/ \E d \in Execs(s) : In(w, s[d].rest)
      BY <2>1 DEF Ordered, Kept
    <3>2. Gone(w, R, L) => Gone(w, R, L2)
      BY <1>15 DEF Gone
    <3>3. In(w, b) \/ w = <<h.text, h.word>> => In(w, c) \/ Gone(w, R, L2)
      BY <1>14 DEF Gone
    <3> QED
      BY <1>26, <3>1, <3>2, <3>3
  <2> QED
    BY <2>1 DEF Kept
<1>28. PassedGone(T, R, L2)
  BY <1>15 DEF Ordered, PassedGone, Gone
<1>29. RanOrder(R)
  BY DEF Ordered
<1>30. Ordered(c, s2, T, R, L2)
  BY <1>16, <1>21, <1>22, <1>23, <1>24, <1>25, <1>27, <1>28, <1>29 DEF Ordered
<1>31. Settled(c, s2, wait)
  <2>1. ASSUME NEW d \in Execs(s2), NEW i \in 1 .. Len(c), c[i].text = TextAt(s2, d)
        PROVE  i = 2 /\ c[1] = NL /\ d = Len(s2) /\ s2[d].turn = "execute"
    <3>1. d \in Execs(s) /\ c[i].text = TextAt(s, d) /\ TextAt(s, d) # 0
      BY <1>1, <1>18, <1>20, <2>1, CallsAre
    <3>2. ~\E j \in 1 .. Len(b) : c[i] = b[j]
      BY <1>11, <3>1 DEF Apart
    <3>3. c[i] = h /\ i = 2 /\ c[1] = NL
      BY <1>13, <3>1, <3>2
    <3>4. d = D
      BY <1>3, <1>6, <3>1, <3>3 DEF Ordered, RestsApart
    <3> QED
      BY <1>18, <3>3, <3>4
  <2> QED
    BY <2>1 DEF Settled
<1>32. WaitRan(s2, wait)
  BY <1>10 DEF WaitRan
<1> QED
  BY <1>17, <1>30, <1>31, <1>32

-----------------------------------------------------------------------------
(* The commands                                                            *)

LEMMA TextComes ==
    ASSUME NEW T, NEW T2, NEW b, NEW c, NEW s, NEW R, NEW L, NEW L2, NEW t, NEW W,
           Comes(T, T2, b, c, s, R, L, L2, t, W)
    PROVE  /\ TextsType(T2) /\ BufferType(c, Len(T2)) /\ StackType(s, Len(T2)) /\ RanType(R, Len(T2))
           /\ Ordered(b, s, T, R, L) =>
                 /\ Ordered(c, s, T2, R, L2)
                 /\ Apart(b, s) => Apart(c, s)
<1>1. Len(T) \in Nat
  BY LenProperties DEF TextsType, Comes
<1>2. TextsType(T2) /\ Len(T2) = Len(T) + 1
  BY DEF More, Comes
<1>3. StackType(s, Len(T2)) /\ RanType(R, Len(T2))
  BY <1>1, <1>2, Wider DEF Comes
<1>4. BufferType(c, Len(T2))
  BY <1>2 DEF Put, Comes
<1> QED
  BY <1>2, <1>3, <1>4, OrderPut

LEMMA BufferIds ==
    ASSUME NEW n \in Nat, NEW b, BufferType(b, n)
    PROVE  Ids(b) \in IdSet
<1>1. ASSUME NEW w \in Ids(b) PROVE w \in Nat \X Nat
  <2>1. In(w, b)
    BY <1>1, IdsAre DEF BufferType
  <2>2. PICK i \in 1 .. Len(b) : w = <<b[i].text, b[i].word>>
    BY <2>1 DEF In
  <2>3. b[i] \in Word(n) \cup {NL}
    BY ElementOfSeq DEF BufferType
  <2> QED
    BY <2>2, <2>3, WordOrEnd
<1> QED
  BY <1>1 DEF IdSet

\* What a command leaves behind, when b and s were left to it.
CommandLeaves(c, b, s, R) ==
    /\ TextsType(texts') /\ BufferType(cmd_text', Len(texts'))
    /\ StackType(stack', Len(texts')) /\ RanType(R, Len(texts'))
    /\ cmd_wait' \in BOOLEAN
    /\ cmd_wait' => cmd_wait \/ (c = "wait" /\ stack' = s)
    /\ Whole(b) => Whole(cmd_text')
    /\ Ordered(b, s, texts, R, lost) =>
          /\ Ordered(cmd_text', stack', texts', R, lost')
          /\ Apart(b, s) => Apart(cmd_text', stack')

CommandComes(b, s, R) ==
    /\ TextsType(texts) /\ BufferType(b, Len(texts))
    /\ StackType(s, Len(texts)) /\ RanType(R, Len(texts))
    /\ cmd_wait \in BOOLEAN

LEMMA NumberIs ==
    ASSUME TextsType(texts)
    PROVE  Len(texts) \in Nat /\ Number \in Nat \ {0} /\ Number = Len(texts) + 1
  BY LenProperties DEF TextsType, Number

LEMMA AliasKeeps ==
    ASSUME NEW c, NEW b, NEW s, NEW R, CommandComes(b, s, R), RunAlias(c, b, s)
    PROVE  CommandLeaves(c, b, s, R)
<1> USE NumberIs DEF CommandComes
<1>1. PICK t : t = TextOf(Number, Alias[c])
  OBVIOUS
<1>2. c \in DOMAIN Alias /\ Alias[c] \in Seq(Commands)
  BY Consts DEF RunAlias
<1>3. IsText(t, Number) /\ Whole(t)
  BY <1>1, <1>2, TextIs
<1>4. /\ cmd_text' = (IF Fits(b, t) THEN t \o b ELSE b)
      /\ texts' = Append(texts, [words |-> Ids(t), before |-> Ids(b)])
      /\ lost' = (IF Fits(b, t) THEN lost ELSE lost \cup Ids(t))
      /\ stack' = s /\ cmd_wait' = cmd_wait
  BY <1>1 DEF RunAlias, Came, InsertedInto
<1>5. /\ Ids(t) \in IdSet /\ \A w \in Ids(t) : w[1] = Len(texts) + 1 /\ In(w, t)
      /\ Ids(b) \in IdSet
  BY <1>3, IdsOfText, BufferIds
<1>6. Put(cmd_text', b, t, Len(texts) + 1) /\ \A w \in Ids(t) : w \in lost' \/ In(w, cmd_text')
  <2>1. CASE Fits(b, t)
    BY <1>3, <1>4, <1>5, <2>1, PutJoined DEF Fits
  <2>2. CASE ~Fits(b, t)
    BY <1>4, <2>2, PutNothing
  <2> QED
    BY <2>1, <2>2
<1>7. lost \subseteq lost'
  BY <1>4
<1>8. Comes(texts, texts', b, cmd_text', s, R, lost, lost', t, Ids(t))
  BY <1>4, <1>5, <1>6, <1>7, MoreIs DEF Comes
<1>9. /\ TextsType(texts') /\ BufferType(cmd_text', Len(texts'))
      /\ StackType(s, Len(texts')) /\ RanType(R, Len(texts'))
      /\ Ordered(b, s, texts, R, lost) =>
            /\ Ordered(cmd_text', s, texts', R, lost')
            /\ Apart(b, s) => Apart(cmd_text', s)
  BY <1>8, TextComes
<1>10. Whole(b) => Whole(cmd_text')
  BY <1>3, <1>6 DEF Put
<1> QED
  BY <1>4, <1>9, <1>10 DEF CommandLeaves

LEMMA AddedKeeps ==
    ASSUME NEW c, NEW b, NEW s, NEW R, CommandComes(b, s, R), ServerCommand(c, b, s)
    PROVE  CommandLeaves(c, b, s, R)
<1> USE NumberIs DEF CommandComes
<1>1. PICK t : t = TextOf(Number, Added[c])
  OBVIOUS
<1>2. c \in DOMAIN Added /\ Added[c] \in Seq(Commands)
  BY Consts DEF ServerCommand
<1>3. IsText(t, Number) /\ Whole(t)
  BY <1>1, <1>2, TextIs
<1>4. /\ cmd_text' = (IF Fits(b, t) THEN b \o t ELSE b)
      /\ texts' = Append(texts, [words |-> Ids(t), before |-> {}])
      /\ lost' = (IF Fits(b, t) THEN lost ELSE lost \cup Ids(t))
      /\ stack' = s /\ cmd_wait' = cmd_wait
  BY <1>1 DEF ServerCommand, Came, AddedTo
<1>5. /\ Ids(t) \in IdSet /\ \A w \in Ids(t) : w[1] = Len(texts) + 1 /\ In(w, t)
      /\ {} \in IdSet
  BY <1>3, IdsOfText DEF IdSet
<1>6. Put(cmd_text', b, t, Len(texts) + 1) /\ \A w \in Ids(t) : w \in lost' \/ In(w, cmd_text')
  <2>1. CASE Fits(b, t)
    BY <1>3, <1>4, <1>5, <2>1, PutJoined DEF Fits
  <2>2. CASE ~Fits(b, t)
    BY <1>4, <2>2, PutNothing
  <2> QED
    BY <2>1, <2>2
<1>7. lost \subseteq lost'
  BY <1>4
<1>8. Comes(texts, texts', b, cmd_text', s, R, lost, lost', t, Ids(t))
  BY <1>4, <1>5, <1>6, <1>7, MoreIs DEF Comes
<1>9. /\ TextsType(texts') /\ BufferType(cmd_text', Len(texts'))
      /\ StackType(s, Len(texts')) /\ RanType(R, Len(texts'))
      /\ Ordered(b, s, texts, R, lost) =>
            /\ Ordered(cmd_text', s, texts', R, lost')
            /\ Apart(b, s) => Apart(cmd_text', s)
  BY <1>8, TextComes
<1>10. Whole(b) => Whole(cmd_text')
  BY <1>3, <1>6 DEF Put
<1> QED
  BY <1>4, <1>9, <1>10 DEF CommandLeaves

LEMMA ExecKeeps ==
    ASSUME NEW c, NEW b, NEW s, NEW R, CommandComes(b, s, R), Cmd_Exec_f(c, b, s)
    PROVE  CommandLeaves(c, b, s, R)
<1> USE NumberIs DEF CommandComes
<1>1. PICK t : t = TextOf(Number, File[c])
  OBVIOUS
<1>2. c \in DOMAIN File /\ File[c] \in Seq(Commands) /\ File[c] # <<>>
  BY Consts DEF Cmd_Exec_f
<1>3. IsText(t, Number) /\ Whole(t) /\ \A w \in Ids(t) : In(w, WordsOf(Number, File[c]))
  BY <1>1, <1>2, TextIs
<1>4. PICK u : u = Lines(t)
  OBVIOUS
<1>5. IsText(u, Number) /\ Whole(u) /\ \A w : In(w, t) => In(w, u)
  BY <1>3, <1>4, LinesAre
<1>6. /\ texts' = Append(texts, [words |-> Ids(t), before |-> Ids(b)])
      /\ lost' = lost /\ cmd_wait' = cmd_wait
  BY <1>1 DEF Cmd_Exec_f, Came
<1>7. /\ Ids(t) \in IdSet /\ \A w \in Ids(t) : w[1] = Len(texts) + 1 /\ In(w, t)
      /\ Ids(b) \in IdSet
  BY <1>3, IdsOfText, BufferIds
<1>8. CASE Fits(b, u)
  <2>1. cmd_text' = u \o b /\ stack' = s
    BY <1>1, <1>4, <1>8 DEF Cmd_Exec_f
  <2>2. Put(cmd_text', b, u, Len(texts) + 1) /\ \A w \in Ids(t) : w \in lost' \/ In(w, cmd_text')
    BY <1>5, <1>7, <1>8, <2>1, PutJoined DEF Fits
  <2>3. Comes(texts, texts', b, cmd_text', s, R, lost, lost', u, Ids(t))
    BY <1>6, <1>7, <2>2, MoreIs DEF Comes
  <2>4. /\ TextsType(texts') /\ BufferType(cmd_text', Len(texts'))
        /\ StackType(s, Len(texts')) /\ RanType(R, Len(texts'))
        /\ Ordered(b, s, texts, R, lost) =>
              /\ Ordered(cmd_text', s, texts', R, lost')
              /\ Apart(b, s) => Apart(cmd_text', s)
    BY <2>3, TextComes
  <2>5. Whole(b) => Whole(cmd_text')
    BY <1>5, <2>2 DEF Put
  <2> QED
    BY <1>6, <2>1, <2>4, <2>5 DEF CommandLeaves
<1>9. CASE ~Fits(b, u)
  <2> DEFINE v == WordsOf(Number, File[c])
             f == [kind |-> "exec", turn |-> "execute", rest |-> v]
  <2>1. cmd_text' = b /\ stack' = Append(s, f)
    BY <1>1, <1>4, <1>9 DEF Cmd_Exec_f
  <2>2. /\ v \in Seq(Word(Len(texts) + 1)) /\ Len(v) = Len(File[c]) /\ Len(File[c]) \in Nat
        /\ \A i \in 1 .. Len(v) : v[i].text = Len(texts) + 1 /\ v[i].word = i
    BY <1>2, WordsAre
  <2>3. v # <<>>
    <3>1. Len(File[c]) # 0
      BY <1>2, EmptySeq
    <3> QED
      BY <2>2, <3>1, EmptySeq
  <2>4. \A w \in Ids(t) : In(w, v)
    BY <1>3
  <2> HIDE DEF v
  <2>5. f \in ExecCall(Len(texts) + 1) /\ f.rest = v
    BY <2>2, <2>3 DEF ExecCall
  <2> HIDE DEF f
  <2>6. /\ TextsType(texts') /\ More(texts, texts', Ids(t)) /\ Len(texts') = Len(texts) + 1
        /\ RanType(R, Len(texts')) /\ StackType(s, Len(texts'))
    <3>1. /\ More(texts, texts', Ids(t))
      BY <1>6, <1>7, MoreIs
    <3>2. TextsType(texts') /\ Len(texts') = Len(texts) + 1
      BY <3>1 DEF More
    <3> QED
      BY <3>1, <3>2, Wider
  <2>7. BufferType(cmd_text', Len(texts'))
    BY <2>1, <2>6, Wider
  <2>8. StackType(stack', Len(texts'))
    <3>1. Len(texts) + 1 \in Nat /\ f \in ExecuteCall \cup ExecCall(Len(texts) + 1)
      BY <2>5
    <3> QED
      BY <2>1, <2>6, <3>1, Calls
  <2>9. ASSUME Ordered(b, s, texts, R, lost)
        PROVE  /\ Ordered(cmd_text', stack', texts', R, lost')
               /\ Apart(b, s) => Apart(cmd_text', stack')
    <3>1. \A i \in 1 .. Len(f.rest) : f.rest[i].text = Len(texts) + 1 /\ f.rest[i].word = i
      BY <2>2, <2>5
    <3>2. \A w \in Ids(t) : In(w, f.rest)
      BY <2>4, <2>5
    <3> QED
      BY <1>6, <2>1, <2>5, <2>6, <2>9, <3>1, <3>2, OrderLong
  <2> QED
    BY <1>6, <2>1, <2>6, <2>7, <2>8, <2>9 DEF CommandLeaves
<1> QED
  BY <1>8, <1>9

LEMMA CommandKeeps ==
    ASSUME NEW c, NEW b, NEW s, NEW R, CommandComes(b, s, R), Cmd_ExecuteString(c, b, s)
    PROVE  CommandLeaves(c, b, s, R)
<1>1. CASE Cmd_Wait_f(c, b, s)
  BY <1>1 DEF CommandComes, CommandLeaves, Cmd_Wait_f
<1>2. CASE Other(c, b, s)
  BY <1>2 DEF CommandComes, CommandLeaves, Other
<1>3. CASE ServerExecute(c, b, s)
  <2>1. /\ cmd_text' = b /\ stack' = Append(s, Execute)
        /\ cmd_wait' = cmd_wait /\ texts' = texts /\ lost' = lost
    BY <1>3 DEF ServerExecute
  <2>2. Len(texts) \in Nat /\ Execute \in ExecuteCall /\ Execute \in ExecuteCall \cup ExecCall(Len(texts))
    BY NumberIs, ExecuteIs DEF CommandComes
  <2>3. StackType(stack', Len(texts)) /\ SameRests(s, stack')
    BY <2>1, <2>2, Calls, ExecuteCalls DEF CommandComes
  <2>4. Ordered(b, s, texts, R, lost) =>
            Ordered(b, stack', texts, R, lost) /\ (Apart(b, s) => Apart(b, stack'))
    BY <2>3, OrderSame
  <2> QED
    BY <2>1, <2>3, <2>4 DEF CommandComes, CommandLeaves
<1> QED
  BY <1>1, <1>2, <1>3, AliasKeeps, AddedKeeps, ExecKeeps DEF Cmd_ExecuteString

-----------------------------------------------------------------------------
(* The steps                                                               *)

LEMMA ApartSettles ==
    ASSUME NEW b, NEW s, NEW wait, Apart(b, s)
    PROVE  Settled(b, s, wait)
  BY DEF Apart, Settled

\* What has to be shown of a step, beyond the types.
StepRight ==
    /\ ~torn' => Whole(cmd_text')
    /\ merged' => torn'
    /\ ~stray' => /\ Ordered(cmd_text', stack', texts', ran', lost')
                  /\ Settled(cmd_text', stack', cmd_wait')
                  /\ WaitRan(stack', cmd_wait')

LEMMA StepIs == Types' /\ StepRight => IInv'
  BY DEF IInv, StepRight, WholeLines

(* The call that runs a line, before and after it.                         *)
LEMMA RunningCall ==
    ASSUME Types, stack # <<>>, Top.kind = "execute", NEW f \in ExecuteCall, NEW s, s = Under(f)
    PROVE  /\ StackType(s, Len(texts)) /\ SameRests(stack, s)
           /\ Len(s) = Len(stack) /\ s # <<>> /\ s[Len(s)] = f
           /\ \A d \in 1 .. Len(stack) - 1 : s[d] = stack[d]
<1>1. Len(texts) \in Nat /\ StackType(stack, Len(texts)) /\ f \in ExecuteCall \cup ExecCall(Len(texts))
  BY NumberIs DEF Types
<1>2. s = Append(Front(stack), f) /\ stack[Len(stack)].kind = "execute"
  BY DEF Under, Top, Last
<1>3. /\ Len(stack) \in Nat \ {0} /\ StackType(s, Len(texts))
      /\ Len(s) = Len(stack) /\ s[Len(stack)] = f
      /\ \A d \in 1 .. Len(stack) - 1 : s[d] = stack[d]
  BY <1>1, <1>2, Calls
<1>4. SameRests(stack, s)
  BY <1>1, <1>2, ExecuteCalls
<1>5. s # <<>>
  BY <1>3
<1> QED
  BY <1>3, <1>4, <1>5

LEMMA RunLineKeeps == IInv /\ RunLine => IInv'
<1> SUFFICES ASSUME IInv, RunLine PROVE IInv'
  OBVIOUS
<1>1. /\ Types /\ stack # <<>> /\ Top = Execute /\ cmd_text # <<>>
      /\ inputs' = inputs /\ torn' = torn /\ stray' = stray
  BY DEF IInv, RunLine
<1>2. PICK n \in Nat : n = Len(texts)
  BY <1>1, NumberIs DEF Types
<1>3. BufferType(cmd_text, n) /\ RanType(ran, n) /\ TextsType(texts) /\ StackType(stack, n)
  BY <1>1, <1>2 DEF Types
<1>4. PICK k, e, c, line : /\ k = LineLength /\ line = Line /\ e = Len(line) /\ c = Rest(k)
  OBVIOUS
<1>5. IsLine(cmd_text, k, e, c) /\ e \in Nat /\ \A i \in 1 .. e : line[i] = cmd_text[i]
  BY <1>1, <1>3, <1>4, LineIs DEF BufferType
<1>6. /\ BufferType(c, n) /\ \A i \in 1 .. e : i \in 1 .. Len(cmd_text) /\ cmd_text[i] \in Word(n)
      /\ Whole(cmd_text) => Whole(c) /\ e <= 1
  BY <1>2, <1>3, <1>5, LineParts
<1> DEFINE f == [Top EXCEPT !.ran = TRUE]
<1>7. f \in ExecuteCall /\ f.kind = "execute" /\ f.ran /\ Top.kind = "execute" /\ ~Top.ran
  BY <1>1, ExecuteIs DEF ExecuteCall, Execute
<1> HIDE DEF f
<1>8. PICK s : s = Under(f)
  OBVIOUS
<1>9. /\ StackType(s, n) /\ SameRests(stack, s)
      /\ Len(s) = Len(stack) /\ s # <<>> /\ s[Len(s)] = f
      /\ \A d \in 1 .. Len(stack) - 1 : s[d] = stack[d]
  BY <1>1, <1>2, <1>7, <1>8, RunningCall
<1>10. ~stray => /\ Ordered(cmd_text, stack, texts, ran, lost)
                 /\ Settled(cmd_text, stack, cmd_wait) /\ ~cmd_wait
  BY <1>7 DEF IInv, WaitRan, Top, Last
<1>11. WaitRan(s, TRUE)
  BY <1>7, <1>9 DEF WaitRan
<1>12. CASE e = 1
  <2> DEFINE v == <<cmd_text[1].text, cmd_text[1].word>>
             x == line[1].cmd
  <2>1. 1 \in 1 .. e /\ line[1] = cmd_text[1]
    BY <1>5, <1>12
  <2>2. /\ Cmd_ExecuteString(x, c, s)
        /\ ran' = Append(ran, v)
        /\ waited' = CASE waited # "no" -> "ran on"
                       [] x = "wait" -> "wait"
                       [] OTHER -> "no"
        /\ merged' = merged
    BY <1>4, <1>8, <1>12, <2>1 DEF RunLine, f
  <2>3. RanType(ran', n)
    <3>1. cmd_text[1] \in Word(n)
      BY <1>6, <2>1
    <3>2. v \in (1 .. n) \X Nat
      BY <1>2, <3>1, WordOrEnd
    <3> HIDE DEF v
    <3> QED
      BY <1>3, <2>2, <3>2, Appended DEF RanType
  <2>4. CommandComes(c, s, ran')
    BY <1>1, <1>2, <1>3, <1>6, <1>9, <2>3 DEF CommandComes, Types
  <2>5. CommandLeaves(x, c, s, ran')
    BY <2>2, <2>4, CommandKeeps
  <2> HIDE DEF x
  <2>6. Types'
    <3>1. waited' \in {"no", "wait", "ran on"}
      BY <2>2
    <3> QED
      BY <1>1, <2>2, <2>5, <3>1 DEF Types, CommandLeaves
  <2>7. ~torn' => Whole(cmd_text')
    BY <1>1, <1>6, <2>5 DEF IInv, CommandLeaves
  <2>8. merged' => torn'
    BY <1>1, <2>2 DEF IInv, WholeLines
  <2>9. ASSUME ~stray'
        PROVE  /\ Ordered(cmd_text', stack', texts', ran', lost')
               /\ Settled(cmd_text', stack', cmd_wait') /\ WaitRan(stack', cmd_wait')
    <3>1. Ordered(cmd_text, stack, texts, ran, lost) /\ Settled(cmd_text, stack, cmd_wait) /\ ~cmd_wait
      BY <1>1, <1>10, <2>9
    <3>2. IsLine(cmd_text, k, 1, c)
      BY <1>5, <1>12
    <3>3. Ordered(c, stack, texts, Append(ran, v), lost)
      BY <1>2, <1>3, <3>1, <3>2, OrderRun
    <3>4. Apart(c, stack)
      <4>1. 1 >= 1
        OBVIOUS
      <4> QED
        BY <1>2, <1>3, <3>1, <3>2, <4>1, AfterTheLine
    <3>5. Ordered(c, s, texts, ran', lost) /\ Apart(c, s)
      BY <1>9, <2>2, <3>3, <3>4, OrderSame
    <3>6. Ordered(cmd_text', stack', texts', ran', lost') /\ Apart(cmd_text', stack')
      BY <2>5, <3>5 DEF CommandLeaves
    <3>7. Settled(cmd_text', stack', cmd_wait')
      BY <3>6, ApartSettles
    <3>8. WaitRan(stack', cmd_wait')
      BY <1>11, <2>5, <3>1 DEF CommandLeaves, WaitRan
    <3> QED
      BY <3>6, <3>7, <3>8
  <2> QED
    BY <2>6, <2>7, <2>8, <2>9, StepIs DEF StepRight
<1>13. CASE e # 1
  <2>1. /\ cmd_text' = c /\ stack' = s
        /\ lost' = lost \cup Ids(line)
        /\ merged' = (merged \/ e > 1)
        /\ cmd_wait' = cmd_wait /\ texts' = texts /\ ran' = ran /\ waited' = waited
    BY <1>4, <1>8, <1>13 DEF RunLine, f
  <2>2. Types'
    <3>1. merged' \in BOOLEAN
      BY <1>1, <2>1 DEF Types
    <3> QED
      BY <1>1, <1>2, <1>6, <1>9, <2>1, <3>1 DEF Types
  <2>3. ~torn' => Whole(cmd_text')
    BY <1>1, <1>6, <2>1 DEF IInv
  <2>4. merged' => torn'
    <3>1. ~torn => ~(e > 1)
      BY <1>5, <1>6 DEF IInv
    <3> QED
      BY <1>1, <2>1, <3>1 DEF IInv, WholeLines
  <2>5. ASSUME ~stray'
        PROVE  /\ Ordered(cmd_text', stack', texts', ran', lost')
               /\ Settled(cmd_text', stack', cmd_wait') /\ WaitRan(stack', cmd_wait')
    <3>1. Ordered(cmd_text, stack, texts, ran, lost) /\ Settled(cmd_text, stack, cmd_wait) /\ ~cmd_wait
      BY <1>1, <1>10, <2>5
    <3>2. lost \subseteq lost' /\ \A i \in 1 .. e : <<cmd_text[i].text, cmd_text[i].word>> \in lost'
      <4>1. ASSUME NEW i \in 1 .. e PROVE <<cmd_text[i].text, cmd_text[i].word>> \in Ids(line)
        <5>1. line \in Seq(Word(n) \cup {NL}) /\ line[i] = cmd_text[i] /\ cmd_text[i] # NL
          BY <1>1, <1>3, <1>4, <1>5, LineIs DEF BufferType, IsLine
        <5>2. In(<<cmd_text[i].text, cmd_text[i].word>>, line)
          BY <1>4, <4>1, <5>1 DEF In
        <5> QED
          BY <5>1, <5>2, IdsAre
      <4> QED
        BY <2>1, <4>1
    <3>3. Ordered(c, stack, texts, ran, lost')
      BY <1>2, <1>3, <1>5, <3>1, <3>2, OrderLost
    <3>4. Ordered(c, s, texts, ran, lost')
      BY <1>9, <3>3, OrderSame
    <3>5. Settled(c, s, cmd_wait)
      <4>1. CASE e = 0
        <5>1. k = 1 /\ cmd_text[1] = NL /\ Len(c) = Len(cmd_text) - 1
          BY <1>2, <1>3, <1>5, <4>1, LineParts DEF IsLine
        <5>2. \A i \in 1 .. Len(c) : c[i] = cmd_text[1 + i] /\ 1 + i \in 1 .. Len(cmd_text)
          BY <1>2, <1>3, <1>5, <5>1, LineParts
        <5>3. ASSUME NEW d \in Execs(s), NEW i \in 1 .. Len(c), c[i].text = TextAt(s, d)
              PROVE  i = 1 /\ d + 1 = Len(s) /\ s[d + 1].kind = "execute" /\ ~cmd_wait
          <6>1. d \in Execs(stack) /\ TextAt(s, d) = TextAt(stack, d)
            BY <1>9, OrderSame DEF SameRests
          <6>2. 1 + i \in 1 .. Len(cmd_text) /\ cmd_text[1 + i].text = TextAt(stack, d)
            BY <5>2, <5>3, <6>1
          <6>3. /\ 1 + i = 1 \/ 1 + i = 2
                /\ \/ d = Len(stack)
                   \/ d + 1 = Len(stack)
            BY <3>1, <6>1, <6>2 DEF Settled
          <6>4. d # Len(s)
            BY <1>7, <1>9, <5>3 DEF Execs
          <6>5. i = 1
            BY <6>3
          <6> QED
            BY <1>7, <1>9, <3>1, <6>3, <6>4, <6>5
        <5> QED
          BY <5>3 DEF Settled
      <4>2. CASE e # 0
        <5>1. e >= 1
          BY <1>5, <4>2
        <5>2. Apart(c, stack)
          BY <1>2, <1>3, <1>5, <3>1, <5>1, AfterTheLine
        <5> QED
          BY <1>9, <5>2, OrderSame, ApartSettles
      <4> QED
        BY <4>1, <4>2
    <3>6. WaitRan(s, cmd_wait)
      BY <3>1 DEF WaitRan
    <3> QED
      BY <2>1, <3>4, <3>5, <3>6
  <2> QED
    BY <2>2, <2>3, <2>4, <2>5, StepIs DEF StepRight
<1> QED
  BY <1>12, <1>13

(* A step that changes nothing but the calls under way.                    *)
LEMMA OnlyCalls ==
    ASSUME IInv, StackType(stack', Len(texts)), SameRests(stack, stack'), cmd_wait' \in BOOLEAN,
           waited' \in {"no", "wait", "ran on"},
           UNCHANGED <<cmd_text, inputs, texts, ran, lost, torn, merged, stray>>,
           ~stray => Settled(cmd_text, stack', cmd_wait') /\ WaitRan(stack', cmd_wait')
    PROVE  IInv'
<1>1. /\ cmd_text' = cmd_text /\ inputs' = inputs /\ texts' = texts /\ ran' = ran
      /\ lost' = lost /\ torn' = torn /\ merged' = merged /\ stray' = stray
  OBVIOUS
<1>2. Types'
  BY <1>1 DEF IInv, Types
<1>3. ASSUME ~stray
      PROVE  Ordered(cmd_text', stack', texts', ran', lost')
  <2>1. Ordered(cmd_text, stack, texts, ran, lost)
    BY <1>3 DEF IInv
  <2>2. Ordered(cmd_text, stack', texts, ran, lost)
    BY <2>1, OrderSame
  <2> QED
    BY <1>1, <2>2
<1>4. StepRight
  <2>1. (~torn => Whole(cmd_text)) /\ (merged => torn)
    BY DEF IInv, WholeLines
  <2>2. ASSUME ~torn' PROVE Whole(cmd_text')
    <3>1. ~torn
      <4> SUFFICES ASSUME torn PROVE FALSE
        OBVIOUS
      <4>1. torn = TRUE
        BY DEF IInv, Types
      <4> QED
        BY <1>1, <2>2, <4>1
    <3> QED
      BY <1>1, <2>1, <3>1
  <2>3. ASSUME merged' PROVE torn'
    <3>1. merged
      BY <1>1, <2>3
    <3>2. torn
      BY <2>1, <3>1
    <3> QED
      BY <1>1, <3>2
  <2>4. ASSUME ~stray'
        PROVE  /\ Ordered(cmd_text', stack', texts', ran', lost')
               /\ Settled(cmd_text', stack', cmd_wait') /\ WaitRan(stack', cmd_wait')
    <3>1. ~stray
      <4> SUFFICES ASSUME stray PROVE FALSE
        OBVIOUS
      <4>1. stray = TRUE
        BY DEF IInv, Types
      <4> QED
        BY <1>1, <2>4, <4>1
    <3> QED
      BY <1>1, <1>3, <3>1
  <2> QED
    BY <2>2, <2>3, <2>4 DEF StepRight
<1> QED
  BY <1>2, <1>4, StepIs

LEMMA AfterLineKeeps == IInv /\ AfterLine => IInv'
<1> SUFFICES ASSUME IInv, AfterLine PROVE IInv'
  OBVIOUS
<1>1. /\ Types /\ stack # <<>> /\ Top.kind = "execute" /\ Top.ran
      /\ stack' = (IF cmd_wait THEN Front(stack) ELSE Under(Execute))
      /\ cmd_wait' = FALSE /\ waited' = waited
      /\ UNCHANGED <<cmd_text, inputs, texts, ran, lost, torn, merged, stray>>
  BY DEF IInv, AfterLine, history
<1>2. PICK n \in Nat : n = Len(texts)
  BY <1>1, NumberIs DEF Types
<1>3. StackType(stack, n) /\ stack[Len(stack)].kind = "execute" /\ waited' \in {"no", "wait", "ran on"}
  BY <1>1, <1>2 DEF Types, Top, Last
<1>4. PICK D \in Nat \ {0} : D = Len(stack)
  BY <1>1, <1>3, EmptySeq DEF StackType
<1>5. ~stray => Settled(cmd_text, stack, cmd_wait)
  BY DEF IInv
<1>6. CASE cmd_wait
  <2>1. Execute \in ExecuteCall \cup ExecCall(n) /\ stack # <<>> /\ stack' = Front(stack)
    BY <1>1, <1>6, ExecuteIs
  <2>2. StackType(stack', n)
    <3>1. StackType(Front(stack), n)
      BY <1>3, <2>1, Calls
    <3> QED
      BY <2>1, <3>1
  <2>3. SameRests(stack, stack')
    BY <1>1, <1>3, <2>1, ExecuteIs, ExecuteCalls
  <2>4. ASSUME ~stray PROVE Settled(cmd_text, stack', FALSE)
    <3>1. Apart(cmd_text, stack)
      <4>1. ASSUME NEW d \in Execs(stack), NEW i \in 1 .. Len(cmd_text),
                   cmd_text[i].text = TextAt(stack, d)
            PROVE  FALSE
        <5>1. d = Len(stack)
          BY <1>5, <1>6, <2>4, <4>1 DEF Settled
        <5> QED
          BY <1>3, <5>1 DEF Execs
      <4> QED
        BY <4>1 DEF Apart
    <3> QED
      BY <2>3, <3>1, OrderSame, ApartSettles
  <2> QED
    BY <1>1, <1>2, <1>3, <2>2, <2>3, <2>4, OnlyCalls DEF WaitRan
<1>7. CASE ~cmd_wait
  <2>1. stack' = Under(Execute) /\ Execute \in ExecuteCall /\ Execute.kind = "execute"
    BY <1>1, <1>7, ExecuteIs
  <2>2. /\ StackType(stack', n) /\ SameRests(stack, stack')
        /\ Len(stack') = D /\ stack'[D] = Execute
        /\ \A d \in 1 .. D - 1 : stack'[d] = stack[d]
    BY <1>1, <1>2, <1>4, <2>1, RunningCall
  <2>3. ASSUME ~stray PROVE Settled(cmd_text, stack', FALSE)
    <3>1. ASSUME NEW d \in Execs(stack'), NEW i \in 1 .. Len(cmd_text),
                 cmd_text[i].text = TextAt(stack', d)
          PROVE  /\ i = 1 \/ (i = 2 /\ cmd_text[1] = NL)
                 /\ d + 1 = D
      <4>1. d \in Execs(stack) /\ TextAt(stack', d) = TextAt(stack, d)
        BY <2>2, OrderSame DEF SameRests
      <4>2. d # D
        BY <1>3, <1>4, <4>1 DEF Execs
      <4> QED
        BY <1>4, <1>5, <2>3, <3>1, <4>1, <4>2 DEF Settled
    <3> QED
      BY <2>1, <2>2, <3>1 DEF Settled
  <2> QED
    BY <1>1, <1>2, <1>3, <2>2, <2>3, OnlyCalls DEF WaitRan
<1> QED
  BY <1>6, <1>7

LEMMA DoneKeeps == IInv /\ Done => IInv'
<1> SUFFICES ASSUME IInv, Done PROVE IInv'
  OBVIOUS
<1>1. /\ Types /\ stack # <<>> /\ Top = Execute /\ cmd_text = <<>>
      /\ stack' = Front(stack) /\ cmd_wait' = cmd_wait /\ waited' = waited
      /\ UNCHANGED <<cmd_text, inputs, texts, ran, lost, torn, merged, stray>>
  BY DEF IInv, Done, history
<1>2. PICK n \in Nat : n = Len(texts)
  BY <1>1, NumberIs DEF Types
<1>3. /\ StackType(stack, n) /\ stack[Len(stack)] = Execute /\ stack[Len(stack)].kind = "execute"
      /\ waited' \in {"no", "wait", "ran on"} /\ cmd_wait' \in BOOLEAN
  BY <1>1, <1>2, ExecuteIs DEF Types, Top, Last
<1>4. Execute \in ExecuteCall \cup ExecCall(n)
  BY ExecuteIs
<1>5. StackType(stack', n)
  BY <1>1, <1>3, <1>4, Calls
<1>6. SameRests(stack, stack')
  BY <1>1, <1>3, ExecuteIs, ExecuteCalls
<1>7. Settled(cmd_text, stack', cmd_wait')
  <2>1. \A i \in 1 .. Len(cmd_text) : FALSE
    BY <1>1
  <2> QED
    BY <2>1 DEF Settled
<1>8. ~stray => ~cmd_wait
  BY <1>3, ExecuteIs DEF IInv, WaitRan
<1> QED
  BY <1>1, <1>2, <1>3, <1>5, <1>6, <1>7, <1>8, OnlyCalls DEF WaitRan

LEMMA FrameKeeps == IInv /\ Frame => IInv'
<1> SUFFICES ASSUME IInv, Frame PROVE IInv'
  OBVIOUS
<1>1. /\ Types /\ stack = <<>> /\ stack' = <<Execute>> /\ cmd_wait' = cmd_wait /\ waited' = "no"
      /\ UNCHANGED <<cmd_text, inputs, texts, ran, lost, torn, merged, stray>>
  BY DEF IInv, Frame
<1>2. Len(stack) = 0 /\ Len(stack') = 1 /\ stack'[1] = Execute
  BY <1>1
<1>3. Execs(stack) = {} /\ Execs(stack') = {}
  BY <1>2, ExecuteIs DEF Execs
<1>4. StackType(stack', Len(texts))
  BY <1>1, ExecuteIs DEF StackType
<1>5. SameRests(stack, stack')
  BY <1>3 DEF SameRests
<1>6. Settled(cmd_text, stack', cmd_wait')
  BY <1>3 DEF Settled
<1>7. cmd_wait \in BOOLEAN /\ (~stray => ~cmd_wait)
  BY <1>1 DEF IInv, Types, WaitRan
<1> QED
  BY <1>1, <1>4, <1>5, <1>6, <1>7, OnlyCalls DEF WaitRan

LEMMA ExecBeforeKeeps == IInv /\ ExecBefore => IInv'
<1> SUFFICES ASSUME IInv, ExecBefore PROVE IInv'
  OBVIOUS
<1> DEFINE f == [Top EXCEPT !.turn = "insert"]
<1>1. /\ Types /\ stack # <<>> /\ Top.kind = "exec" /\ Top.turn = "execute"
      /\ stack' = Append(Under(f), Execute)
      /\ cmd_wait' = cmd_wait /\ waited' = waited
      /\ UNCHANGED <<cmd_text, inputs, texts, ran, lost, torn, merged, stray>>
  BY DEF IInv, ExecBefore, history
<1>2. PICK n \in Nat : n = Len(texts)
  BY <1>1, NumberIs DEF Types
<1>3. /\ StackType(stack, n) /\ stack[Len(stack)].kind = "exec" /\ Top = stack[Len(stack)]
      /\ waited' \in {"no", "wait", "ran on"} /\ cmd_wait' \in BOOLEAN
  BY <1>1, <1>2 DEF Types, Top, Last
<1>4. PICK D \in Nat \ {0} : D = Len(stack)
  BY <1>1, <1>3, EmptySeq DEF StackType
<1>5. D \in Execs(stack) /\ Top = stack[D]
  <2>1. D \in 1 .. Len(stack)
    BY <1>4
  <2>2. Top = stack[D]
    BY <1>3, <1>4, Zenon
  <2>3. stack[D].kind = "exec"
    BY <1>1, <2>2, Zenon
  <2> QED
    BY <2>1, <2>2, <2>3 DEF Execs
<1>6. Top \in ExecCall(n)
  <2>1. stack[D] \in ExecCall(n)
    BY <1>3, <1>5, CallsAre
  <2> QED
    BY <1>5, <2>1
<1>7. f \in ExecCall(n) /\ f.kind = "exec" /\ f.rest = Top.rest
  BY <1>6 DEF ExecCall
<1> HIDE DEF f
<1>8. PICK s : s = Append(Front(stack), f)
  OBVIOUS
<1>9. /\ StackType(s, n) /\ Len(s) = D /\ s[D] = f
      /\ \A d \in 1 .. D - 1 : s[d] = stack[d]
  <2>1. f \in ExecuteCall \cup ExecCall(n)
    BY <1>7
  <2>2. /\ StackType(s, n) /\ Len(s) = Len(stack) /\ s[Len(stack)] = f
        /\ \A d \in 1 .. Len(stack) - 1 : s[d] = stack[d]
    <3>1. n \in Nat /\ StackType(stack, n) /\ stack # <<>>
      BY <1>1, <1>3
    <3>2. PICK g \in ExecuteCall \cup ExecCall(n) : g = f
      BY <2>1
    <3>3. /\ StackType(Append(Front(stack), g), n) /\ Len(Append(Front(stack), g)) = Len(stack)
          /\ Append(Front(stack), g)[Len(stack)] = g
          /\ \A d \in 1 .. Len(stack) - 1 : Append(Front(stack), g)[d] = stack[d]
      BY <3>1, LastCall
    <3> QED
      BY <1>8, <3>2, <3>3
  <2> QED
    BY <1>4, <1>8, <2>2
<1>10. SameRests(stack, s)
  <2>1. \A d \in 1 .. D : d \in 1 .. D - 1 \/ d = D
    BY <1>4
  <2>2. Execs(s) = Execs(stack)
    BY <1>4, <1>5, <1>7, <1>9, <2>1 DEF Execs
  <2>3. \A d \in Execs(stack) : s[d].rest = stack[d].rest
    BY <1>4, <1>5, <1>7, <1>9, <2>1 DEF Execs
  <2> QED
    BY <2>2, <2>3 DEF SameRests
<1>11. stack' = Append(s, Execute) /\ Execute \in ExecuteCall /\ Execute \in ExecuteCall \cup ExecCall(n)
  BY <1>1, <1>8, ExecuteIs DEF Under
<1>12. /\ StackType(stack', n) /\ Len(stack') = D + 1 /\ stack'[D + 1] = Execute
  BY <1>9, <1>11, Calls
<1>13. SameRests(stack, stack')
  <2>1. SameRests(s, stack')
    BY <1>9, <1>11, ExecuteCalls
  <2> QED
    BY <1>10, <2>1 DEF SameRests
<1>14. ASSUME ~stray PROVE Settled(cmd_text, stack', cmd_wait) /\ ~cmd_wait
  <2>1. Settled(cmd_text, stack, cmd_wait)
    BY <1>14 DEF IInv
  <2>2. ~cmd_wait
    <3>1. "exec" # "execute"
      OBVIOUS
    <3> QED
      BY <1>3, <1>14, <3>1 DEF IInv, WaitRan
  <2>3. ASSUME NEW d \in Execs(stack'), NEW i \in 1 .. Len(cmd_text),
               cmd_text[i].text = TextAt(stack', d)
        PROVE  /\ i = 1 \/ (i = 2 /\ cmd_text[1] = NL)
               /\ d = D
    <3>1. d \in Execs(stack) /\ TextAt(stack', d) = TextAt(stack, d)
      BY <1>13, OrderSame DEF SameRests
    <3>2. ~(d + 1 = D /\ stack[d + 1].kind = "execute")
      BY <1>3, <1>4
    <3> QED
      BY <1>4, <2>1, <2>3, <3>1, <3>2 DEF Settled
  <2>4. Settled(cmd_text, stack', cmd_wait)
    BY <1>12, <2>2, <2>3, ExecuteIs DEF Settled
  <2> QED
    BY <2>2, <2>4
<1> QED
  BY <1>1, <1>2, <1>3, <1>12, <1>13, <1>14, OnlyCalls DEF WaitRan

LEMMA ExecInsertKeeps == IInv /\ ExecInsert => IInv'
<1> SUFFICES ASSUME IInv, ExecInsert PROVE IInv'
  OBVIOUS
<1> DEFINE line == Lines(<<Head(Top.rest)>>)
<1>1. /\ Types /\ stack # <<>> /\ Top.kind = "exec" /\ Top.turn = "insert"
      /\ cmd_text' = (IF Fits(cmd_text, line) THEN line \o cmd_text ELSE cmd_text)
      /\ lost' = (IF Fits(cmd_text, line) THEN lost ELSE lost \cup Ids(line))
      /\ cmd_wait' = cmd_wait /\ inputs' = inputs /\ texts' = texts /\ ran' = ran
      /\ torn' = torn /\ merged' = merged /\ stray' = stray /\ waited' = waited
  BY DEF IInv, ExecInsert, InsertedInto
<1>2. PICK n \in Nat : n = Len(texts)
  BY <1>1, NumberIs DEF Types
<1>3. /\ StackType(stack, n) /\ Top = stack[Len(stack)]
      /\ BufferType(cmd_text, n) /\ TextsType(texts) /\ RanType(ran, n)
  BY <1>1, <1>2 DEF Types, Top, Last
<1>4. PICK D \in Nat \ {0} : D = Len(stack)
  BY <1>1, <1>3, EmptySeq DEF StackType
<1>5. D \in Execs(stack) /\ Top = stack[D] /\ Len(stack) \in Execs(stack)
  BY <1>1, <1>3, <1>4 DEF Execs
<1>6. Top.rest[1] \in Word(n) /\ Head(Top.rest) = Top.rest[1]
  <2>1. /\ stack[D].rest \in Seq(Word(n)) /\ stack[D].rest # <<>>
        /\ 1 \in 1 .. Len(stack[D].rest)
    BY <1>3, <1>5, CallsAre
  <2>2. stack[D].rest[1] \in Word(n)
    BY <2>1, ElementOfSeq
  <2> QED
    BY <1>5, <2>1, <2>2
<1>7. /\ line = Lines(<<Top.rest[1]>>)
      /\ line \in Seq(Word(n) \cup {NL}) /\ Len(line) = 3 /\ Whole(line)
  BY <1>6, LineOfOne
<1> HIDE DEF line
<1>8. stack' = NextLine(stack)
  BY <1>5, <1>3 DEF ExecInsert, NextLine, Under
<1>9. StackType(stack', n)
  BY <1>1, <1>3, <1>5, <1>8, NextLineIs
<1>10. BufferType(cmd_text', n) /\ (Whole(cmd_text) => Whole(cmd_text'))
  <2>1. CASE Fits(cmd_text, line)
    <3> DEFINE S == Word(n) \cup {NL}
    <3>1. line \in Seq(S) /\ cmd_text \in Seq(S) /\ cmd_text' = line \o cmd_text
      BY <1>1, <1>3, <1>7, <2>1 DEF BufferType
    <3> HIDE DEF S
    <3>2. line \o cmd_text \in Seq(S) /\ Len(line \o cmd_text) = Len(line) + Len(cmd_text)
      BY <3>1, Joined
    <3>3. Whole(cmd_text) => Whole(line \o cmd_text)
      BY <1>7, <3>1, WholeJoined
    <3>4. Len(cmd_text) \in Nat
      BY <3>1, LenProperties
    <3>5. Len(line \o cmd_text) < MAX_CMD_BUFFER
      BY <1>7, <2>1, <3>2, <3>4 DEF Fits
    <3> QED
      BY <3>1, <3>2, <3>3, <3>5 DEF BufferType, S
  <2>2. CASE ~Fits(cmd_text, line)
    BY <1>1, <1>3, <2>2
  <2> QED
    BY <2>1, <2>2
<1>11. Types'
  BY <1>1, <1>2, <1>9, <1>10 DEF Types
<1>12. ASSUME ~stray'
       PROVE  /\ Ordered(cmd_text', stack', texts', ran', lost')
              /\ Settled(cmd_text', stack', cmd_wait') /\ WaitRan(stack', cmd_wait')
  <2>1. ~stray
    BY <1>1, <1>12
  <2>2. /\ Ordered(cmd_text, stack, texts, ran, lost)
        /\ Settled(cmd_text, stack, cmd_wait) /\ WaitRan(stack, cmd_wait)
    BY <2>1 DEF IInv
  <2>3. \/ cmd_text' = Lines(<<stack[Len(stack)].rest[1]>>) \o cmd_text /\ lost' = lost
        \/ cmd_text' = cmd_text /\ lost' = lost \cup Ids(Lines(<<stack[Len(stack)].rest[1]>>))
    BY <1>1, <1>3, <1>7
  <2>4. stack[Len(stack)].kind = "exec" /\ stack[Len(stack)].turn = "insert"
    BY <1>1, <1>3
  <2>5. /\ Ordered(cmd_text', NextLine(stack), texts, ran, lost')
        /\ Settled(cmd_text', NextLine(stack), cmd_wait) /\ WaitRan(NextLine(stack), cmd_wait)
    BY <1>1, <1>2, <1>3, <2>2, <2>3, <2>4, OrderInsert
  <2> QED
    BY <1>1, <1>8, <2>5
<1>13. ~torn' => Whole(cmd_text')
  BY <1>1, <1>10 DEF IInv
<1>14. merged' => torn'
  BY <1>1 DEF IInv, WholeLines
<1> QED
  BY <1>11, <1>12, <1>13, <1>14, StepIs DEF StepRight

(* A text comes from outside, when no call is under way.                   *)
LEMMA Between ==
    ASSUME IInv, Input
    PROVE  /\ Types /\ stack = <<>> /\ Execs(stack) = {}
           /\ Len(texts) \in Nat /\ Number = Len(texts) + 1 /\ Number \in Nat \ {0}
           /\ inputs' \in 0 .. MaxInputs
           /\ ~stray => ~cmd_wait
<1>1. Types /\ stack = <<>> /\ inputs < MaxInputs /\ inputs' = inputs + 1
  BY DEF IInv, Input
<1>2. Len(stack) = 0
  BY <1>1
<1>3. Execs(stack) = {}
  BY <1>2 DEF Execs
<1>4. Len(texts) \in Nat /\ Number = Len(texts) + 1 /\ Number \in Nat \ {0}
  BY <1>1, NumberIs DEF Types
<1>5. inputs' \in 0 .. MaxInputs
  <2>1. inputs \in 0 .. MaxInputs /\ inputs < MaxInputs /\ inputs' = inputs + 1
    BY <1>1 DEF Types
  <2>2. MaxInputs \in Nat
    BY Consts
  <2> QED
    BY <2>1, <2>2
<1>6. ~stray => ~cmd_wait
  BY <1>1 DEF IInv, WaitRan
<1> QED
  BY <1>1, <1>3, <1>4, <1>5, <1>6

LEMMA NothingToSettle ==
    ASSUME NEW b, NEW s, NEW wait, Execs(s) = {}
    PROVE  Settled(b, s, wait)
  BY DEF Settled

LEMMA TextKeeps == \A c \in Commands : IInv /\ Text(c) => IInv'
<1> SUFFICES ASSUME NEW c \in Commands, IInv, Text(c) PROVE IInv'
  OBVIOUS
<1>1. /\ Types /\ stack = <<>> /\ Execs(stack) = {}
      /\ Len(texts) \in Nat /\ Number = Len(texts) + 1 /\ Number \in Nat \ {0}
      /\ inputs' \in 0 .. MaxInputs
      /\ ~stray => ~cmd_wait
  BY Between DEF Text
<1>2. PICK t : t = TextOf(Number, <<c>>)
  OBVIOUS
<1>3. PICK n \in Nat : n = Len(texts)
  BY <1>1
<1>4. IsText(t, n + 1) /\ Whole(t)
  <2>1. <<c>> \in Seq(Commands)
    OBVIOUS
  <2> QED
    BY <1>1, <1>2, <1>3, <2>1, TextIs
<1>5. /\ cmd_text' = (IF Fits(cmd_text, t) THEN cmd_text \o t ELSE cmd_text)
      /\ texts' = Append(texts, [words |-> Ids(t), before |-> {}])
      /\ lost' = (IF Fits(cmd_text, t) THEN lost ELSE lost \cup Ids(t))
      /\ stack' = stack /\ cmd_wait' = cmd_wait /\ ran' = ran /\ waited' = waited
      /\ torn' = torn /\ merged' = merged /\ stray' = stray
  BY <1>2 DEF Text, Came, AddedTo
<1>6. /\ Ids(t) \in IdSet /\ \A w \in Ids(t) : w[1] = n + 1 /\ In(w, t)
      /\ {} \in IdSet
  BY <1>3, <1>4, IdsOfText DEF IdSet
<1>7. BufferType(cmd_text, n) /\ TextsType(texts) /\ StackType(stack, n) /\ RanType(ran, n)
  BY <1>1, <1>3 DEF Types
<1>8. Put(cmd_text', cmd_text, t, n + 1) /\ \A w \in Ids(t) : w \in lost' \/ In(w, cmd_text')
  <2>1. CASE Fits(cmd_text, t)
    BY <1>4, <1>5, <1>6, <1>7, <2>1, PutJoined DEF Fits
  <2>2. CASE ~Fits(cmd_text, t)
    BY <1>5, <1>7, <2>2, PutNothing
  <2> QED
    BY <2>1, <2>2
<1>9. lost \subseteq lost'
  BY <1>5
<1>10. Comes(texts, texts', cmd_text, cmd_text', stack, ran, lost, lost', t, Ids(t))
  BY <1>3, <1>5, <1>6, <1>7, <1>8, <1>9, MoreIs DEF Comes
<1>11. /\ TextsType(texts') /\ BufferType(cmd_text', Len(texts'))
       /\ StackType(stack, Len(texts')) /\ RanType(ran, Len(texts'))
       /\ Ordered(cmd_text, stack, texts, ran, lost) =>
             Ordered(cmd_text', stack, texts', ran, lost')
  BY <1>10, TextComes
<1>12. Types'
  BY <1>1, <1>5, <1>11 DEF Types
<1>13. ~torn' => Whole(cmd_text')
  BY <1>4, <1>5, <1>8 DEF IInv, Put
<1>14. merged' => torn'
  BY <1>5 DEF IInv, WholeLines
<1>15. ASSUME ~stray'
       PROVE  /\ Ordered(cmd_text', stack', texts', ran', lost')
              /\ Settled(cmd_text', stack', cmd_wait') /\ WaitRan(stack', cmd_wait')
  <2>1. ~stray
    BY <1>5, <1>15
  <2>2. Ordered(cmd_text, stack, texts, ran, lost)
    BY <2>1 DEF IInv
  <2>3. Ordered(cmd_text', stack', texts', ran', lost')
    BY <1>5, <1>11, <2>2
  <2>4. Settled(cmd_text', stack', cmd_wait')
    BY <1>1, <1>5, NothingToSettle
  <2> QED
    BY <1>1, <1>5, <2>1, <2>3, <2>4 DEF WaitRan
<1> QED
  BY <1>12, <1>13, <1>14, <1>15, StepIs DEF StepRight

(* A remote command: its line and, apart from it, the end of the line.     *)
LEMMA EndPut ==
    ASSUME NEW n \in Nat, NEW b, NEW c, NEW t, Put(c, b, t, n), Fits(c, <<NL>>)
    PROVE  Put(c \o <<NL>>, b, t, n) /\ \A w : In(w, c) => In(w, c \o <<NL>>)
<1> DEFINE S == Word(n) \cup {NL}
           e == <<NL>>
<1>1. /\ e \in Seq(S) /\ Len(e) = 1 /\ e[1] = NL /\ IsText(e, n) /\ Whole(e)
  BY EndIs
<1>2. c \in Seq(S) /\ Len(c) + Len(e) < MAX_CMD_BUFFER
  BY DEF Put, BufferType, Fits
<1> HIDE DEF S, e
<1>3. PICK d : d = c \o e
  OBVIOUS
<1>4. /\ d \in Seq(S) /\ Len(d) = Len(c) + Len(e)
      /\ \A i \in 1 .. Len(c) : d[i] = c[i]
      /\ \A i \in 1 .. Len(d) :
              i \in 1 .. Len(c) \/ \E j \in 1 .. Len(e) : i = Len(c) + j
  BY <1>1, <1>2, <1>3, Joined
<1>5. \A j \in 1 .. Len(e) : d[Len(c) + j] = e[j]
  <2>1. \A j \in 1 .. Len(e) : (c \o e)[Len(c) + j] = e[j]
    BY <1>1, <1>2, Joined
  <2> QED
    BY <1>3, <2>1
<1>6. \A j \in 1 .. Len(e) : e[j] = NL
  BY <1>1
<1>7. BufferType(d, n)
  BY <1>2, <1>4 DEF BufferType, S
<1>8. BufferOrder(c) => BufferOrder(d)
  <2>1. \A i \in 1 .. Len(c) : c[i] = NL \/ c[i].text # 0
    <3>1. \A i \in 1 .. Len(c) : c[i] \in S
      BY <1>2, ElementOfSeq
    <3> QED
      BY <3>1, WordOrEnd DEF S
  <2>2. \A i \in 1 .. Len(c), j \in 1 .. Len(e) : c[i] # NL => c[i].text # e[j].text
    BY <1>6, <2>1, WordOrEnd
  <2>3. BufferOrder(e)
    BY <1>1 DEF IsText
  <2> QED
    BY <1>1, <1>2, <1>3, <2>2, <2>3, OrderJoined
<1>9. Whole(c) => Whole(d)
  BY <1>1, <1>2, <1>3, WholeJoined
<1>10. \A w : In(w, c) => In(w, d)
  BY <1>1, <1>2, <1>3, InJoined
<1>11. \A i \in 1 .. Len(d) : d[i] = NL \/ d[i].text = n \/ \E j \in 1 .. Len(b) : d[i] = b[j]
  <2>1. ASSUME NEW i \in 1 .. Len(d), i \in 1 .. Len(c)
        PROVE  d[i] = NL \/ d[i].text = n \/ \E j \in 1 .. Len(b) : d[i] = b[j]
    BY <1>4, <2>1 DEF Put
  <2>2. ASSUME NEW i \in 1 .. Len(d), i \notin 1 .. Len(c) PROVE d[i] = NL
    BY <1>4, <1>5, <1>6, <2>2
  <2> QED
    BY <2>1, <2>2
<1>12. Put(d, b, t, n)
  BY <1>7, <1>8, <1>9, <1>10, <1>11 DEF Put
<1> QED
  BY <1>3, <1>10, <1>12 DEF e

(* The line of one command, without its end.                               *)
LEMMA FrontOfOne ==
    ASSUME NEW n \in Nat \ {0}, NEW c \in Commands
    PROVE  LET t == TextOf(n, <<c>>)
               u == Front(t)
           IN  /\ IsText(u, n) /\ Whole(u \o <<NL>>)
               /\ Ids(t) \in IdSet
               /\ \A w \in Ids(t) : w[1] = n /\ In(w, u)
<1> DEFINE S == Word(n) \cup {NL}
           t == TextOf(n, <<c>>)
           u == Front(t)
<1>1. <<c>> \in Seq(Commands) /\ Len(<<c>>) = 1
  OBVIOUS
<1>2. /\ IsText(t, n) /\ Len(t) = 2 * Len(<<c>>)
      /\ \A i \in 1 .. Len(t) : t[i] # NL => i % 2 = 1
  BY <1>1, TextIs
<1>3. Ids(t) \in IdSet /\ \A w \in Ids(t) : w[1] = n /\ In(w, t)
  BY <1>2, IdsOfText
<1>4. t \in Seq(S) /\ Len(t) = 2 /\ u = SubSeq(t, 1, Len(t) - 1)
  BY <1>1, <1>2 DEF IsText, Front
<1> HIDE DEF t, u, S
<1>5. u \in Seq(S) /\ Len(u) = 1 /\ u[1] = t[1]
  <2>1. 1 \in 0 .. Len(t) /\ u = SubSeq(t, 1, 1) /\ 1 \in 1 .. 1
    BY <1>4
  <2> QED
    BY <1>4, <2>1, Fronts
<1>6. IsText(u, n)
  <2>1. u[1] # NL => u[1].text = n
    BY <1>2, <1>4, <1>5 DEF IsText
  <2>2. BufferOrder(u)
    BY <1>5 DEF BufferOrder
  <2> QED
    BY <1>5, <2>1, <2>2 DEF IsText, S
<1>7. ASSUME NEW w \in Ids(t) PROVE In(w, u)
  <2>1. PICK i \in 1 .. Len(t) : t[i] # NL /\ w = <<t[i].text, t[i].word>>
    BY <1>3 DEF In
  <2>2. i = 1
    BY <1>2, <1>4, <2>1
  <2>3. 1 \in 1 .. Len(u) /\ u[1] # NL /\ w = <<u[1].text, u[1].word>>
    BY <1>5, <2>1, <2>2
  <2> QED
    BY <2>3 DEF In
<1>8. Whole(u \o <<NL>>)
  <2> DEFINE e == <<NL>>
             d == u \o e
  <2>1. e \in Seq(S) /\ Len(e) = 1 /\ e[1] = NL
    BY EndIs DEF S
  <2> HIDE DEF e
  <2>2. u \in Seq(S) /\ e \in Seq(S)
    BY <1>5, <2>1
  <2>3. Len(d) = Len(u) + Len(e)
    BY <2>2, Joined
  <2>4. \A j \in 1 .. Len(e) : d[Len(u) + j] = e[j]
    BY <2>2, Joined
  <2>5. Len(d) = 2 /\ d[2] = NL
    BY <1>5, <2>1, <2>3, <2>4
  <2> HIDE DEF d
  <2>6. \A i \in 1 .. Len(d) : i = 1 \/ i = 2
    BY <2>5
  <2>7. Whole(d)
    BY <2>5, <2>6 DEF Whole
  <2> QED
    BY <2>7 DEF d, e
<1> QED
  BY <1>3, <1>6, <1>7, <1>8 DEF t, u

LEMMA ExecCommandKeeps == \A c \in Commands : IInv /\ ExecCommand(c) => IInv'
<1> SUFFICES ASSUME NEW c \in Commands, IInv, ExecCommand(c) PROVE IInv'
  OBVIOUS
<1>1. /\ Types /\ stack = <<>> /\ Execs(stack) = {}
      /\ Len(texts) \in Nat /\ Number = Len(texts) + 1 /\ Number \in Nat \ {0}
      /\ inputs' \in 0 .. MaxInputs
      /\ ~stray => ~cmd_wait
  BY Between DEF ExecCommand
<1>2. PICK t : t = TextOf(Number, <<c>>)
  OBVIOUS
<1>3. PICK u : u = Front(t)
  OBVIOUS
<1>4. PICK n \in Nat : n = Len(texts)
  BY <1>1
<1>5. /\ IsText(u, n + 1) /\ Whole(u \o <<NL>>)
      /\ Ids(t) \in IdSet /\ {} \in IdSet
      /\ \A w \in Ids(t) : w[1] = n + 1 /\ In(w, u)
  BY <1>1, <1>2, <1>3, <1>4, FrontOfOne DEF IdSet
<1>6. PICK b : b = AddedTo(cmd_text, u)
  OBVIOUS
<1>7. /\ cmd_text' = AddedTo(b, <<NL>>)
      /\ texts' = Append(texts, [words |-> Ids(t), before |-> {}])
      /\ lost' = (IF Fits(cmd_text, u) THEN lost ELSE lost \cup Ids(t))
      /\ torn' = (torn \/ ~Fits(b, <<NL>>))
      /\ stack' = <<Execute>> /\ waited' = "no"
      /\ cmd_wait' = cmd_wait /\ ran' = ran /\ merged' = merged /\ stray' = stray
  BY <1>2, <1>3, <1>6 DEF ExecCommand, Came
<1>8. BufferType(cmd_text, n) /\ TextsType(texts) /\ StackType(stack, n) /\ RanType(ran, n)
  BY <1>1, <1>4 DEF Types
<1>9. Put(b, cmd_text, u, n + 1) /\ \A w \in Ids(t) : w \in lost' \/ In(w, b)
  <2>1. CASE Fits(cmd_text, u)
    <3>1. b = cmd_text \o u
      BY <1>6, <2>1 DEF AddedTo
    <3> QED
      BY <1>5, <1>8, <2>1, <3>1, PutJoined DEF Fits
  <2>2. CASE ~Fits(cmd_text, u)
    <3>1. b = cmd_text
      BY <1>6, <2>2 DEF AddedTo
    <3> QED
      BY <1>7, <1>8, <2>2, <3>1, PutNothing
  <2> QED
    BY <2>1, <2>2
<1>10. Put(cmd_text', cmd_text, u, n + 1) /\ \A w : In(w, b) => In(w, cmd_text')
  <2>1. CASE Fits(b, <<NL>>)
    <3>1. cmd_text' = b \o <<NL>> /\ n + 1 \in Nat
      BY <1>7, <2>1 DEF AddedTo
    <3> QED
      BY <1>9, <2>1, <3>1, EndPut
  <2>2. CASE ~Fits(b, <<NL>>)
    <3>1. cmd_text' = b
      BY <1>7, <2>2 DEF AddedTo
    <3> QED
      BY <1>9, <3>1
  <2> QED
    BY <2>1, <2>2
<1>11. lost \subseteq lost'
  BY <1>7
<1>12. Comes(texts, texts', cmd_text, cmd_text', stack, ran, lost, lost', u, Ids(t))
  BY <1>4, <1>5, <1>7, <1>8, <1>9, <1>10, <1>11, MoreIs DEF Comes
<1>13. /\ TextsType(texts') /\ BufferType(cmd_text', Len(texts'))
       /\ StackType(stack, Len(texts')) /\ RanType(ran, Len(texts'))
       /\ Ordered(cmd_text, stack, texts, ran, lost) =>
             Ordered(cmd_text', stack, texts', ran, lost')
  BY <1>12, TextComes
<1>14. /\ StackType(stack', Len(texts')) /\ SameRests(stack, stack') /\ Execs(stack') = {}
  <2>1. Len(stack') = 1 /\ stack'[1] = Execute
    BY <1>7
  <2>2. Execs(stack') = {}
    BY <2>1, ExecuteIs DEF Execs
  <2>3. StackType(stack', Len(texts'))
    BY <1>7, ExecuteIs DEF StackType
  <2> QED
    BY <1>1, <2>2, <2>3 DEF SameRests
<1>15. Types'
  <2>1. torn' \in BOOLEAN
    BY <1>1, <1>7 DEF Types
  <2> QED
    BY <1>1, <1>7, <1>13, <1>14, <2>1 DEF Types
<1>16. ASSUME ~torn' PROVE Whole(cmd_text')
  <2>1. Fits(b, <<NL>>) /\ ~torn
    BY <1>7, <1>16
  <2>2. Whole(cmd_text) /\ cmd_text' = b \o <<NL>>
    BY <1>7, <2>1 DEF IInv, AddedTo
  <2> DEFINE S == Word(n + 1) \cup {NL}
             e == <<NL>>
  <2>3. /\ cmd_text \in Seq(S) /\ u \in Seq(S) /\ e \in Seq(S) /\ Whole(e)
    <3>1. BufferType(cmd_text, n + 1)
      BY <1>8, Wider
    <3>2. <<NL>> \in Seq(S) /\ Whole(<<NL>>)
      BY EndIs
    <3> QED
      BY <1>5, <3>1, <3>2 DEF BufferType, IsText
  <2>4. Whole(u \o e)
    BY <1>5
  <2> HIDE DEF S, e
  <2>5. CASE Fits(cmd_text, u)
    <3>1. b = cmd_text \o u
      BY <1>6, <2>5 DEF AddedTo
    <3>2. (cmd_text \o u) \o e = cmd_text \o (u \o e)
      BY <2>3, ConcatAssociative
    <3>3. u \o e \in Seq(S)
      BY <2>3, Joined
    <3>4. Whole(cmd_text \o (u \o e))
      BY <2>2, <2>3, <2>4, <3>3, WholeJoined
    <3> QED
      BY <2>2, <3>1, <3>2, <3>4 DEF e
  <2>6. CASE ~Fits(cmd_text, u)
    <3>1. b = cmd_text
      BY <1>6, <2>6 DEF AddedTo
    <3>2. Whole(cmd_text \o e)
      BY <2>2, <2>3, WholeJoined
    <3> QED
      BY <2>2, <3>1, <3>2 DEF e
  <2> QED
    BY <2>5, <2>6
<1>17. merged' => torn'
  BY <1>7 DEF IInv, WholeLines
<1>18. ASSUME ~stray'
       PROVE  /\ Ordered(cmd_text', stack', texts', ran', lost')
              /\ Settled(cmd_text', stack', cmd_wait') /\ WaitRan(stack', cmd_wait')
  <2>1. ~stray
    BY <1>7, <1>18
  <2>2. Ordered(cmd_text, stack, texts, ran, lost)
    BY <2>1 DEF IInv
  <2>3. Ordered(cmd_text', stack, texts', ran, lost')
    BY <1>13, <2>2
  <2>4. Ordered(cmd_text', stack', texts', ran', lost')
    BY <1>7, <1>14, <2>3, OrderSame
  <2>5. Settled(cmd_text', stack', cmd_wait')
    BY <1>14, NothingToSettle
  <2> QED
    BY <1>1, <1>7, <2>1, <2>4, <2>5 DEF WaitRan
<1> QED
  BY <1>15, <1>16, <1>17, <1>18, StepIs DEF StepRight

LEMMA RconKeeps == \A c \in Commands : IInv /\ SV_Rcon(c) => IInv'
<1> SUFFICES ASSUME NEW c \in Commands, IInv, SV_Rcon(c) PROVE IInv'
  OBVIOUS
<1>1. /\ Types /\ stack = <<>> /\ Execs(stack) = {}
      /\ inputs' \in 0 .. MaxInputs
      /\ ~stray => ~cmd_wait
  BY Between DEF SV_Rcon
<1>2. /\ Cmd_ExecuteString(c, cmd_text, stack)
      /\ stray' = (stray \/ c = "wait") /\ waited' = "no"
      /\ ran' = ran /\ torn' = torn /\ merged' = merged
  BY <1>1 DEF SV_Rcon
<1>3. CommandComes(cmd_text, stack, ran)
  BY <1>1 DEF Types, CommandComes
<1>4. CommandLeaves(c, cmd_text, stack, ran)
  BY <1>2, <1>3, CommandKeeps
<1>5. Types'
  <2>1. stray' \in BOOLEAN
    BY <1>1, <1>2 DEF Types
  <2> QED
    BY <1>1, <1>2, <1>4, <2>1 DEF Types, CommandLeaves
<1>6. ~torn' => Whole(cmd_text')
  BY <1>2, <1>4 DEF IInv, CommandLeaves
<1>7. merged' => torn'
  BY <1>2 DEF IInv, WholeLines
<1>8. ASSUME ~stray'
      PROVE  /\ Ordered(cmd_text', stack', texts', ran', lost')
             /\ Settled(cmd_text', stack', cmd_wait') /\ WaitRan(stack', cmd_wait')
  <2>1. ~stray /\ c # "wait"
    BY <1>2, <1>8
  <2>2. Ordered(cmd_text, stack, texts, ran, lost)
    BY <2>1 DEF IInv
  <2>3. Apart(cmd_text, stack)
    BY <1>1 DEF Apart
  <2>4. Ordered(cmd_text', stack', texts', ran, lost') /\ Apart(cmd_text', stack')
    BY <1>4, <2>2, <2>3 DEF CommandLeaves
  <2>5. Settled(cmd_text', stack', cmd_wait')
    BY <2>4, ApartSettles
  <2>6. ~cmd_wait'
    BY <1>1, <1>4, <2>1 DEF CommandLeaves
  <2> QED
    BY <1>2, <2>4, <2>5, <2>6 DEF WaitRan
<1> QED
  BY <1>5, <1>6, <1>7, <1>8, StepIs DEF StepRight

-----------------------------------------------------------------------------
(* The theorem                                                             *)

LEMMA InitKeeps == Init => IInv
<1> SUFFICES ASSUME Init PROVE IInv
  OBVIOUS
<1>1. /\ cmd_text = <<>> /\ cmd_wait = FALSE /\ stack = <<>> /\ inputs = 0
      /\ texts = <<>> /\ ran = <<>> /\ lost = {} /\ torn = FALSE /\ merged = FALSE
      /\ stray = FALSE /\ waited = "no"
  BY DEF Init
<1>2. Len(<<>>) = 0 /\ \A S : <<>> \in Seq(S)
  OBVIOUS
<1>3. Types
  <2>1. BufferType(cmd_text, Len(texts)) /\ StackType(stack, Len(texts))
    BY <1>1, <1>2, Consts DEF BufferType, StackType
  <2>2. TextsType(texts) /\ RanType(ran, Len(texts))
    BY <1>1, <1>2 DEF TextsType, RanType
  <2>3. inputs \in 0 .. MaxInputs
    BY <1>1, Consts
  <2> QED
    BY <1>1, <2>1, <2>2, <2>3 DEF Types
<1>4. Whole(cmd_text) /\ WholeLines
  BY <1>1, <1>2 DEF Whole, WholeLines
<1>5. \A i \in 1 .. Len(cmd_text) : FALSE
  BY <1>1, <1>2
<1>6. \A i \in 1 .. Len(ran) : FALSE
  BY <1>1, <1>2
<1>7. Execs(stack) = {}
  BY <1>1, <1>2 DEF Execs
<1>8. \A i \in 1 .. Len(texts) : FALSE
  BY <1>1, <1>2
<1>9. Ordered(cmd_text, stack, texts, ran, lost)
  BY <1>5, <1>6, <1>7, <1>8
     DEF Ordered, BufferOrder, RanOrder, RestOrder, RestsApart, RanThenBuffer,
         RanThenRest, BufferThenRest, Kept, PassedGone
<1>10. Settled(cmd_text, stack, cmd_wait) /\ WaitRan(stack, cmd_wait)
  BY <1>1, <1>7, NothingToSettle DEF WaitRan
<1> QED
  BY <1>3, <1>4, <1>9, <1>10 DEF IInv

LEMMA NextKeeps == IInv /\ [Next]_vars => IInv'
<1> SUFFICES ASSUME IInv, [Next]_vars PROVE IInv'
  OBVIOUS
<1>1. CASE Running
  BY <1>1, RunLineKeeps, AfterLineKeeps, DoneKeeps, ExecBeforeKeeps, ExecInsertKeeps DEF Running
<1>2. CASE Frame
  BY <1>2, FrameKeeps
<1>3. CASE \E c \in Commands : Text(c) \/ ExecCommand(c) \/ SV_Rcon(c)
  BY <1>3, TextKeeps, ExecCommandKeeps, RconKeeps
<1>4. CASE UNCHANGED vars
  BY <1>4 DEF vars, history, IInv, Types, WholeLines
<1> QED
  BY <1>1, <1>2, <1>3, <1>4 DEF Next

(* What the properties say of types is weaker: they know no bound for the  *)
(* number of a text.                                                       *)
LEMMA TypesGive == Types => TypeOK
<1> SUFFICES ASSUME Types PROVE TypeOK
  OBVIOUS
<1>1. PICK n \in Nat : n = Len(texts)
  BY NumberIs DEF Types
<1>2. /\ BufferType(cmd_text, n) /\ StackType(stack, n)
      /\ cmd_wait \in BOOLEAN /\ torn \in BOOLEAN /\ merged \in BOOLEAN /\ stray \in BOOLEAN
      /\ inputs \in 0 .. MaxInputs /\ waited \in {"no", "wait", "ran on"}
  BY <1>1 DEF Types
<1>3. PICK A, B : /\ A = [text : Nat, word : Nat, cmd : Commands]
                  /\ B = [text : Nat, word : Nat, cmd : Commands \cup {NL.cmd}]
  OBVIOUS
<1>4. Word(n) \subseteq A
  BY <1>3 DEF Word
<1>5. Word(n) \cup {NL} \subseteq B
  <2>1. NL \in B
    BY <1>3 DEF NL
  <2>2. Word(n) \subseteq B
    BY <1>3 DEF Word
  <2> QED
    BY <2>1, <2>2
<1>6. cmd_text \in Seq(B)
  BY <1>2, <1>5, SeqMonotonic DEF BufferType
<1>7. ExecuteCall \cup ExecCall(n) \subseteq Call
  <2>1. \A r \in Seq(Word(n)) : r \in Seq(A)
    BY <1>4, SeqMonotonic
  <2>2. ExecCall(n) \subseteq [kind : {"exec"}, turn : {"execute", "insert"}, rest : Seq(A)]
    BY <2>1 DEF ExecCall
  <2> QED
    BY <1>3, <2>2 DEF Call, ExecuteCall
<1>8. stack \in Seq(Call)
  BY <1>2, <1>7, SeqMonotonic DEF StackType
<1> QED
  BY <1>2, <1>3, <1>6, <1>8 DEF TypeOK, BufferType

LEMMA OrderGives ==
    ASSUME Types, Ordered(cmd_text, stack, texts, ran, lost)
    PROVE  TextsInOrder
<1>1. RanOrder(ran) /\ PassedGone(texts, ran, lost)
  BY DEF Ordered
<1>2. DOMAIN ran = 1 .. Len(ran)
  <2>1. ran \in Seq((1 .. Len(texts)) \X Nat)
    BY DEF Types, RanType
  <2> QED
    BY <2>1, LenProperties
<1>3. \A i, j \in DOMAIN ran : i < j /\ ran[i][1] = ran[j][1] => ran[i][2] < ran[j][2]
  BY <1>1, <1>2 DEF RanOrder
<1>4. ASSUME NEW i \in DOMAIN ran, NEW w \in texts[ran[i][1]].words, w[2] < ran[i][2]
      PROVE  w \in ToSet(ran) \cup lost
  <2>1. Gone(w, ran, lost)
    BY <1>1, <1>2, <1>4 DEF PassedGone
  <2> QED
    BY <1>2, <2>1 DEF Gone, ToSet
<1> QED
  BY <1>3, <1>4 DEF TextsInOrder

(* Of every text that Cbuf_AddText and Cbuf_InsertText take, or Cmd_Exec_f  *)
(* puts in line by line, each command is run once at most and after those  *)
(* before it, one passed over was lost, and a line run is one command,     *)
(* however calls of Cbuf_Execute are nested.                               *)
THEOREM BufferIsRunInOrder == Spec => []BufferInv
<1>1. IInv => BufferInv
  <2> SUFFICES ASSUME IInv PROVE BufferInv
    OBVIOUS
  <2>1. Types /\ TypeOK /\ WholeLines
    BY TypesGive DEF IInv
  <2>2. TextsInOrder
    <3>1. CASE stray
      BY <3>1 DEF TextsInOrder
    <3>2. CASE ~stray
      BY <2>1, <3>2, OrderGives DEF IInv
    <3> QED
      BY <3>1, <3>2
  <2> QED
    BY <2>1, <2>2 DEF BufferInv
<1> QED
  BY InitKeeps, NextKeeps, <1>1, PTL DEF Spec
=============================================================================
