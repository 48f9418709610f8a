---------------------------- MODULE CommandBuffer ----------------------------
(***************************************************************************)
(* The command buffer (cmd.cpp): Cbuf_Execute, the commands that change    *)
(* the buffer while it runs, and those who put text into it.               *)
(*                                                                         *)
(* The text is a sequence of words, each a whole command, and of ends of   *)
(* line (a semicolon is one).  Cbuf_Execute runs within itself: a command  *)
(* may call it.  The calls that are under way are a stack; in a dedicated  *)
(* server none is left by an error, which ends the process.                *)
(***************************************************************************)
EXTENDS Integers, SequencesExt

CONSTANTS
    Plain,          \* the commands that leave the buffer alone
    Alias,          \* of each alias, the commands it stands for
    File,           \* of each config file, by the command that execs it, its commands
    Added,          \* of each command that adds text to the buffer, the commands added
    MAX_CMD_BUFFER, \* in words and ends of line
    MaxInputs       \* bound on the texts that come from outside

Commands == Plain \cup DOMAIN Alias \cup DOMAIN File \cup DOMAIN Added
            \cup {"wait", "execute"}

ASSUME BufferAssumption ==
    /\ MAX_CMD_BUFFER \in Nat \ {0} /\ MaxInputs \in Nat
    /\ \A f \in {Alias, File, Added} : \A c \in DOMAIN f : f[c] \in Seq(Commands) \ {<<>>}

VARIABLES
    cmd_text,
    cmd_wait,
    stack,          \* calls under way, of Cbuf_Execute and of Cmd_Exec_f's loop
    inputs,
    \* history; a word is known by the number of its text and its own
    texts,          \* of each text, its words and those it was put in front of
    ran,            \* the words that were run
    lost,           \* those that found no room or were merged
    torn, merged,   \* has an end of line found no room, two words been run as one?
    stray,          \* has rcon run a wait, that no line of the buffer ends with?
    waited          \* in this frame: no wait, a wait, or lines run after one

history == <<texts, ran, lost, torn, merged, stray, waited>>
vars == <<cmd_text, cmd_wait, stack, inputs, history>>

NL == [text |-> 0, word |-> 0, cmd |-> "end of line"]
Words(t) == {i \in DOMAIN t : t[i] # NL}
Ids(t) == {<<t[i].text, t[i].word>> : i \in Words(t)}

\* The commands cmds as the words of the text of the number n,
WordsOf(n, cmds) ==
    [i \in 1 .. Len(cmds) |-> [text |-> n, word |-> i, cmd |-> cmds[i]]]

\* and as the text itself, a line each.
TextOf(n, cmds) ==
    [i \in 1 .. 2 * Len(cmds) |->
        IF i % 2 = 0 THEN NL ELSE WordsOf(n, cmds)[(i + 1) \div 2]]

Execute == [kind |-> "execute", ran |-> FALSE]

-----------------------------------------------------------------------------
(* Putting text into the buffer                                            *)

Fits(b, t) == Len(b) + Len(t) < MAX_CMD_BUFFER

\* Cbuf_AddText, Cbuf_InsertText: the whole text or nothing of it.
AddedTo(b, t) == IF Fits(b, t) THEN b \o t ELSE b
InsertedInto(b, t) == IF Fits(b, t) THEN t \o b ELSE b

\* (mutant) the text alone
LinesWithoutEnds(t) == t

\* Cbuf_InsertTextLines
Lines(t) == <<NL>> \o t \o <<NL>>

Number == Len(texts) + 1

\* What is remembered of a text that comes in, in front of some words.
Came(t, before, fits) ==
    /\ texts' = Append(texts, [words |-> Ids(t), before |-> before])
    /\ lost' = IF fits THEN lost ELSE lost \cup Ids(t)

-----------------------------------------------------------------------------
(* The commands: with b in the buffer and s the calls under way            *)

Cmd_Wait_f(c, b, s) ==
    /\ c = "wait"
    /\ cmd_wait' = TRUE
    /\ cmd_text' = b /\ stack' = s
    /\ UNCHANGED <<texts, lost>>

\* Cmd_ExecuteString_internal, when the command is an alias
RunAlias(c, b, s) ==
    /\ c \in DOMAIN Alias
    /\ LET t == TextOf(Number, Alias[c])
       IN  cmd_text' = InsertedInto(b, t) /\ Came(t, Ids(b), Fits(b, t))
    /\ stack' = s
    /\ UNCHANGED cmd_wait

\* A file that fits is inserted; the lines of another one are inserted one by
\* one, after what is in the buffer has been executed.
Cmd_Exec_f(c, b, s) ==
    /\ c \in DOMAIN File
    /\ LET t == TextOf(Number, File[c])
       IN  /\ IF Fits(b, Lines(t))
              THEN cmd_text' = Lines(t) \o b /\ stack' = s
              ELSE /\ cmd_text' = b
                   /\ stack' = Append(s, [kind |-> "exec", turn |-> "execute",
                                          rest |-> WordsOf(Number, File[c])])
           /\ Came(t, Ids(b), TRUE)
    /\ UNCHANGED cmd_wait

\* A command of the game that calls pfnServerCommand
ServerCommand(c, b, s) ==
    /\ c \in DOMAIN Added
    /\ LET t == TextOf(Number, Added[c])
       IN  cmd_text' = AddedTo(b, t) /\ Came(t, {}, Fits(b, t))
    /\ stack' = s
    /\ UNCHANGED cmd_wait

\* One that calls pfnServerExecute
ServerExecute(c, b, s) ==
    /\ c = "execute"
    /\ cmd_text' = b /\ stack' = Append(s, Execute)
    /\ UNCHANGED <<cmd_wait, texts, lost>>

Other(c, b, s) ==
    /\ c \in Plain
    /\ cmd_text' = b /\ stack' = s
    /\ UNCHANGED <<cmd_wait, texts, lost>>

Cmd_ExecuteString(c, b, s) ==
    \/ Cmd_Wait_f(c, b, s)
    \/ RunAlias(c, b, s)
    \/ Cmd_Exec_f(c, b, s)
    \/ ServerCommand(c, b, s)
    \/ ServerExecute(c, b, s)
    \/ Other(c, b, s)

-----------------------------------------------------------------------------
(* Cbuf_Execute                                                            *)

Top == Last(stack)
Under(frame) == Append(Front(stack), frame)

Ends == {i \in DOMAIN cmd_text : cmd_text[i] = NL}

\* (mutant) a line that has no end is left where it is
LineLengthWithEnd == IF Ends = {} THEN 0 ELSE Min(Ends)

\* How much of the text is its first line, with the end of the line.
LineLength == IF Ends = {} THEN Len(cmd_text) ELSE Min(Ends)

Line == SubSeq(cmd_text, 1, IF Ends = {} THEN LineLength ELSE LineLength - 1)

Rest(n) == SubSeq(cmd_text, n + 1, Len(cmd_text))

\* The first line is taken out and its command is run.
RunLine ==
    /\ stack # <<>> /\ Top = Execute /\ cmd_text # <<>>
    /\ LET line == Line
           b == Rest(LineLength)
           s == Under([Top EXCEPT !.ran = TRUE])
       IN  \/ /\ Len(line) = 1
              /\ Cmd_ExecuteString(line[1].cmd, b, s)
              /\ ran' = Append(ran, <<line[1].text, line[1].word>>)
              /\ waited' = CASE waited # "no" -> "ran on"
                             [] line[1].cmd = "wait" -> "wait"
                             [] OTHER -> "no"
              /\ UNCHANGED merged
           \/ /\ Len(line) # 1
              /\ cmd_text' = b /\ stack' = s
              /\ lost' = lost \cup Ids(line)
              /\ merged' = (merged \/ Len(line) > 1)
              /\ UNCHANGED <<cmd_wait, texts, ran, waited>>
    /\ UNCHANGED <<inputs, torn, stray>>

\* The command has returned: after a wait this call of Cbuf_Execute is over.
AfterLine ==
    /\ stack # <<>> /\ Top.kind = "execute" /\ Top.ran
    /\ stack' = IF cmd_wait THEN Front(stack) ELSE Under(Execute)
    /\ cmd_wait' = FALSE
    /\ UNCHANGED <<cmd_text, inputs, history>>

Done ==
    /\ stack # <<>> /\ Top = Execute /\ cmd_text = <<>>
    /\ stack' = Front(stack)
    /\ UNCHANGED <<cmd_text, cmd_wait, inputs, history>>

\* (mutant) the next line is inserted before the last one is executed
ExecBeforeAtOnce ==
    /\ stack # <<>> /\ Top.kind = "exec" /\ Top.turn = "execute"
    /\ stack' = Under([Top EXCEPT !.turn = "insert"])
    /\ UNCHANGED <<cmd_text, cmd_wait, inputs, history>>

\* The loop of Cmd_Exec_f for a file that does not fit: Cbuf_Execute is called
ExecBefore ==
    /\ stack # <<>> /\ Top.kind = "exec" /\ Top.turn = "execute"
    /\ stack' = Append(Under([Top EXCEPT !.turn = "insert"]), Execute)
    /\ UNCHANGED <<cmd_text, cmd_wait, inputs, history>>

\* and when it returns the next line is inserted.
ExecInsert ==
    /\ stack # <<>> /\ Top.kind = "exec" /\ Top.turn = "insert"
    /\ LET line == Lines(<<Head(Top.rest)>>)
       IN  /\ cmd_text' = InsertedInto(cmd_text, line)
           /\ lost' = IF Fits(cmd_text, line) THEN lost ELSE lost \cup Ids(line)
    /\ stack' = IF Len(Top.rest) = 1 THEN Front(stack)
                ELSE Under([Top EXCEPT !.turn = "execute", !.rest = Tail(@)])
    /\ UNCHANGED <<cmd_wait, inputs, texts, ran, torn, merged, stray, waited>>

-----------------------------------------------------------------------------
(* The server's frames and those who put text in between                   *)

\* The frame's Cbuf_Execute
Frame ==
    /\ stack = <<>>
    /\ stack' = <<Execute>>
    /\ waited' = "no"
    /\ UNCHANGED <<cmd_text, cmd_wait, inputs, texts, ran, lost, torn, merged, stray>>

Input == stack = <<>> /\ inputs < MaxInputs /\ inputs' = inputs + 1

\* The console and the game between two frames
Text(c) ==
    /\ Input
    /\ LET t == TextOf(Number, <<c>>)
       IN  cmd_text' = AddedTo(cmd_text, t) /\ Came(t, {}, Fits(cmd_text, t))
    /\ UNCHANGED <<cmd_wait, stack, ran, torn, merged, stray, waited>>

\* CServerRemoteAccess::ExecCommand: the command, the end of its line, and
\* Cbuf_Execute
ExecCommand(c) ==
    /\ Input
    /\ LET t == TextOf(Number, <<c>>)
           b == AddedTo(cmd_text, Front(t))
       IN  /\ cmd_text' = AddedTo(b, <<NL>>)
           /\ Came(t, {}, Fits(cmd_text, Front(t)))
           /\ torn' = (torn \/ ~Fits(b, <<NL>>))
    /\ stack' = <<Execute>>
    /\ waited' = "no"
    /\ UNCHANGED <<cmd_wait, ran, merged, stray>>

\* A command by rcon does not go through the buffer.
SV_Rcon(c) ==
    /\ Input
    /\ Cmd_ExecuteString(c, cmd_text, <<>>)
    /\ stray' = (stray \/ c = "wait")
    /\ waited' = "no"
    /\ UNCHANGED <<ran, torn, merged>>

Init ==
    /\ cmd_text = <<>> /\ cmd_wait = FALSE /\ stack = <<>> /\ inputs = 0
    /\ texts = <<>> /\ ran = <<>> /\ lost = {} /\ torn = FALSE /\ merged = FALSE
    /\ stray = FALSE /\ waited = "no"

Running == RunLine \/ AfterLine \/ Done \/ ExecBefore \/ ExecInsert

Next ==
    \/ Running
    \/ Frame
    \/ \E c \in Commands : Text(c) \/ ExecCommand(c) \/ SV_Rcon(c)

\* The server goes on: a call under way is carried on, and with none the next
\* frame comes.
Spec == Init /\ [][Next]_vars /\ WF_vars(Running) /\ WF_vars(Frame)

-----------------------------------------------------------------------------
(* Properties                                                              *)

Call == [kind : {"execute"}, ran : BOOLEAN]
        \cup [kind : {"exec"}, turn : {"execute", "insert"},
              rest : Seq([text : Nat, word : Nat, cmd : Commands])]

TypeOK ==
    /\ cmd_text \in Seq([text : Nat, word : Nat, cmd : Commands \cup {NL.cmd}])
    /\ Len(cmd_text) < MAX_CMD_BUFFER
    /\ cmd_wait \in BOOLEAN /\ torn \in BOOLEAN /\ merged \in BOOLEAN /\ stray \in BOOLEAN
    /\ stack \in Seq(Call) /\ inputs \in 0 .. MaxInputs
    /\ waited \in {"no", "wait", "ran on"}

Known == UNION {texts[n].words : n \in DOMAIN texts}

\* However the calls are nested, and wherever text is put in while others
\* run, of every text each command is run once at most and after those before
\* it, and one that is passed over was lost.  A wait by rcon is the exception:
\* the next Cbuf_Execute stops after its first line for it, and Cmd_Exec_f then
\* puts the second line of a file before the first.
TextsInOrder == ~stray =>
    /\ \A i, j \in DOMAIN ran :
        i < j /\ ran[i][1] = ran[j][1] => ran[i][2] < ran[j][2]
    /\ \A i \in DOMAIN ran : \A w \in texts[ran[i][1]].words :
        w[2] < ran[i][2] => w \in ToSet(ran) \cup lost

\* A line that is run is one command: text is put in at the bounds of lines
\* only, unless the end of a remote command's line found no room.
WholeLines == merged => torn

\* Texts stay in order and lines whole.
BufferInv == TypeOK /\ TextsInOrder /\ WholeLines

\* Every command put in is run in the end, or was lost.
EverythingRuns == []<>(stack = <<>> /\ Known \subseteq ToSet(ran) \cup lost)

\* Not so in the code:
\* "the text is inserted at the beginning of the buffer, before any remaining
\* unexecuted commands" (cmd.cpp:73)
InsertedFirst ==
    \A i \in DOMAIN ran : \A n \in DOMAIN texts :
        ran[i] \in texts[n].before =>
            texts[n].words \subseteq {ran[j] : j \in 1 .. i - 1} \cup lost

\* Not so in the code:
\* "skip out while text still remains in buffer, leaving it for next frame"
\* (cmd.cpp:243)
WaitEndsTheFrame == waited # "ran on"
=============================================================================
