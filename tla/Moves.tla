-------------------------------- MODULE Moves --------------------------------
(***************************************************************************)
(* Move commands: what the server runs for the players' packets, with      *)
(* losses made up from the backups a packet carries or by repeating the    *)
(* player's lastcmd, and the limits on what one player may run.            *)
(*                                                                         *)
(* The players are not in the repository; what they send is taken from how *)
(* SV_ParseMove reads it.  A player makes one command for each sequence    *)
(* number; a packet holds the commands not sent before, newest first, and  *)
(* then backups.  Not every command brings a packet, and packets are lost, *)
(* repeated and reordered (the channel reads one that is newer than the    *)
(* last).  A command is its number and its duration, of at most 50 ms (a   *)
(* longer one is run in two halves).                                       *)
(*                                                                         *)
(* svtimebase is relative to the time of the packet.  last, top and        *)
(* frameRan are history.                                                   *)
(***************************************************************************)
EXTENDS Integers, Sequences, FiniteSetsExt, Functions

CONSTANTS
    Client,
    Msec,               \* duration of each command
    MAX_DROPPED_CMDS,   \* 24
    CMD_MAXBACKUP,      \* 64
    MaxTicks,           \* sv_rehlds_movecmd_max_ticks
    BurstLow, BurstHigh,\* commands that are a flood early and late in a period
    MaxNew,             \* new commands a player puts in a packet
    NumBackups,         \* backups it wants in one, as far as it has made them
    MaxSeq              \* bound: commands each player makes

ASSUME MovesAssumption ==
    /\ MAX_DROPPED_CMDS \in Nat /\ CMD_MAXBACKUP \in Nat \ {0, 1} /\ MaxTicks \in Nat
    /\ BurstLow \in Nat /\ BurstHigh \in Nat /\ BurstLow <= BurstHigh
    /\ MaxNew \in Nat \ {0} /\ NumBackups \subseteq Nat
    /\ MaxSeq \in [Client -> Nat]
    /\ \A c \in Client : \A k \in 1 .. MaxSeq[c] : Msec[k] \in Nat

VARIABLES
    net_drop,   \* one variable for all channels
    held,       \* the game is paused or the players are frozen
    incoming,   \* netchan.incoming_sequence
    player,     \* lastcmd, svtimebase; connected
    ticks,      \* usercmd_state_t::ticksThisFrame
    counted,    \* m_CurrentMoveCmds
    outgoing,   \* number of the player's newest command
    unsent,     \* how many of them were in no packet
    up,         \* packets that may still be read
    last,       \* the packet run last and the commands run for it
    top,        \* the highest number run from the network
    frameRan    \* network commands run in this frame

limits == <<ticks, counted>>
client == <<outgoing, unsent, up>>
history == <<last, top, frameRan>>
vars == <<net_drop, held, incoming, player, limits, client, history>>

Least(a, b) == IF a < b THEN a ELSE b
Positive(a) == IF a > 0 THEN a ELSE 0
Sum(f) == FoldFunction(+, 0, f)

NoCmd == [num |-> 0, msec |-> 0]
Cmd == [num : Nat, msec : Nat]
Packet == [seq : Nat, numcmds : Nat, numbackup : Nat]

Init ==
    /\ net_drop = 0 /\ held = FALSE
    /\ incoming = [c \in Client |-> 0]
    /\ player = [c \in Client |->
                    [lastcmd |-> NoCmd, svtimebase |-> 0, connected |-> TRUE]]
    /\ ticks = [c \in Client |-> 0] /\ counted = [c \in Client |-> 0]
    /\ outgoing = [c \in Client |-> 0] /\ unsent = [c \in Client |-> 0]
    /\ up = [c \in Client |-> {}]
    /\ last = <<>>
    /\ top = [c \in Client |-> 0]
    /\ frameRan = [c \in Client |-> 0]

-----------------------------------------------------------------------------
(* Players                                                                 *)

MakeCommand(c) ==
    /\ outgoing[c] < MaxSeq[c]
    /\ outgoing' = [outgoing EXCEPT ![c] = @ + 1]
    /\ unsent' = [unsent EXCEPT ![c] = @ + 1]
    /\ UNCHANGED <<net_drop, held, incoming, player, limits, up, history>>

SendMove(c, wanted) ==
    LET numcmds == Least(unsent[c], MaxNew)
        numbackup == Least(wanted, outgoing[c] - numcmds)
    IN  /\ unsent[c] > 0
        /\ unsent' = [unsent EXCEPT ![c] = 0]
        /\ up' = [up EXCEPT ![c] = @ \cup
                    {[seq |-> outgoing[c], numcmds |-> numcmds, numbackup |-> numbackup]}]
        /\ UNCHANGED <<net_drop, held, incoming, player, limits, outgoing, history>>

-----------------------------------------------------------------------------
(* A packet: Netchan_Process, SV_ParseMove                                 *)

\* (mutant) net_drop is set only when packets were lost.
Dropped_Stale(c, m) ==
    IF m.seq = incoming[c] + 1 THEN net_drop + 1 - m.numcmds
    ELSE m.seq - (incoming[c] + 1) + 1 - m.numcmds

\* Commands that the packet does not hold as new.
Dropped(c, m) == m.seq - (incoming[c] + 1) + 1 - m.numcmds

\* When the moves are held none is made up.
ToMakeUp(c, m) == IF held THEN 0 ELSE Dropped(c, m)

TooMany(m) == m.numcmds + m.numbackup >= CMD_MAXBACKUP - 1

\* (mutant) The commands made up are not counted.
Issued_New(c, m) == m.numcmds

Issued(c, m) == m.numcmds + Positive(ToMakeUp(c, m))

cmds(m) ==
    [i \in 0 .. m.numcmds + m.numbackup - 1 |->
        [num |-> m.seq - i,
         msec |-> IF held /\ i < m.numcmds THEN 0 ELSE Msec[m.seq - i]]]

Backups(dropped, m) == Least(Positive(dropped), m.numbackup)
Repeats(dropped, m) == Positive(dropped - m.numbackup)
Local(cmd) == [cmd |-> cmd, net |-> FALSE]
Network(cmd) == [cmd |-> cmd, net |-> TRUE]

\* (mutant) The backups are run newest first.
MadeUp_Forward(c, m, dropped) ==
    IF dropped >= MAX_DROPPED_CMDS THEN <<>>
    ELSE [i \in 1 .. Repeats(dropped, m) |-> Local(player[c].lastcmd)]
         \o [i \in 1 .. Backups(dropped, m) |->
                Network(cmds(m)[m.numcmds + i - 1])]

MadeUp(c, m, dropped) ==
    IF dropped >= MAX_DROPPED_CMDS THEN <<>>
    ELSE [i \in 1 .. Repeats(dropped, m) |-> Local(player[c].lastcmd)]
         \o [i \in 1 .. Backups(dropped, m) |->
                Network(cmds(m)[m.numcmds + Backups(dropped, m) - i])]

NewCmds(m) == [i \in 1 .. m.numcmds |-> Network(cmds(m)[m.numcmds - i])]

\* All that SV_ParseMove gives to SV_RunCmd, in its order.
Commands(c, m) == MadeUp(c, m, ToMakeUp(c, m)) \o NewCmds(m)

\* (mutant) The loop over the backups stops one short.
EstablishTimeBase_Short(c, m, dropped) ==
    LET runcmd_time ==
            IF dropped >= MAX_DROPPED_CMDS THEN 0
            ELSE Repeats(dropped, m) * player[c].lastcmd.msec
                 + Sum([d \in 2 .. Backups(dropped, m) |->
                            cmds(m)[m.numcmds + d - 1].msec])
        time_at_end == Sum([i \in 0 .. m.numcmds - 1 |-> cmds(m)[i].msec])
    IN  -(time_at_end + runcmd_time)

EstablishTimeBase(c, m, dropped) ==
    LET runcmd_time ==
            IF dropped >= MAX_DROPPED_CMDS THEN 0
            ELSE Repeats(dropped, m) * player[c].lastcmd.msec
                 + Sum([d \in 1 .. Backups(dropped, m) |->
                            cmds(m)[m.numcmds + d - 1].msec])
        time_at_end == Sum([i \in 0 .. m.numcmds - 1 |-> cmds(m)[i].msec])
    IN  -(time_at_end + runcmd_time)

LastCmd(m) == cmds(m)[m.numcmds - 1]

-----------------------------------------------------------------------------
(* SV_RunCmd, CUserCmdTimeLimiter::CheckLimits                             *)

\* (mutant) The test of the ticks is left out.
WithinTicks_Any(c, k) == TRUE

\* The k-th command of the packet that comes from the network.
WithinTicks(c, k) == ticks[c] + k - 1 <= MaxTicks

Numbers(list) == {list[i].cmd.num : i \in {j \in DOMAIN list : list[j].net}}
NetCount(list, i) == Cardinality({j \in 1 .. i : list[j].net})

\* At these commands the player may be dropped: CheckLimits finds its time
\* abused once too often, or the game kicks the player while the command runs.
MayDrop(c, list, ignore) ==
    {i \in DOMAIN list : ~ignore /\ (list[i].net => WithinTicks(c, NetCount(list, i)))}

\* All commands are refused while the player's time runs ahead (ignore), and
\* those from the network that CheckLimits finds too many or abusive.  A player
\* who is dropped at the command "until" is not active any more: CheckLimits
\* neither counts nor refuses what follows, and the loops go on to run it.
Results(c, list, ignore, abusive, until) ==
    [i \in DOMAIN list |->
        [cmd |-> list[i].cmd, net |-> list[i].net,
         ran |-> /\ ~ignore
                 /\ list[i].net /\ i <= until =>
                        /\ WithinTicks(c, NetCount(list, i))
                        /\ list[i].cmd.num \notin abusive]]

TicksAfter(c, list, ignore, until) ==
    IF ignore THEN ticks[c]
    ELSE Least(ticks[c] + NetCount(list, until), MaxTicks + 1)

RanTime(list) == Sum([i \in DOMAIN list |-> IF list[i].ran THEN list[i].cmd.msec ELSE 0])
RanCount(list) == Cardinality({i \in DOMAIN list : list[i].ran})
RanNet(list) == {i \in DOMAIN list : list[i].ran /\ list[i].net}

Read(c, m) ==
    /\ player[c].connected
    /\ m.seq > incoming[c]
    /\ incoming' = [incoming EXCEPT ![c] = m.seq]
    /\ up' = [up EXCEPT ![c] = {q \in @ : q.seq > m.seq}]
    /\ UNCHANGED <<held, outgoing, unsent>>

Drop(c) == player' = [player EXCEPT ![c].connected = FALSE]

RefuseTooMany(c, m) ==
    /\ Read(c, m)
    /\ TooMany(m)
    /\ net_drop' = Dropped(c, m)
    /\ Drop(c)
    /\ UNCHANGED <<limits, history>>

\* CMoveCommandRateLimiter::MoveCommandsIssued, CheckBurstRate: the limit
\* grows with the time since the rates were refreshed.
RefuseFlood(c, m) ==
    /\ Read(c, m)
    /\ ~TooMany(m)
    /\ net_drop' = ToMakeUp(c, m)
    /\ counted' = [counted EXCEPT ![c] = @ + Issued(c, m)]
    /\ counted'[c] > BurstLow
    /\ Drop(c)
    /\ UNCHANGED <<ticks, history>>

\* drop is the command the player is dropped at, or 0.
ParseMove(c, m, ignore, abusive, drop) ==
    LET all == Commands(c, m)
        until == IF drop = 0 THEN Len(all) ELSE drop
        list == Results(c, all, ignore, abusive, until)
        base == EstablishTimeBase(c, m, ToMakeUp(c, m)) + RanTime(list)
    IN  /\ Read(c, m)
        /\ ~TooMany(m)
        /\ drop \in {0} \cup MayDrop(c, all, ignore)
        /\ counted' = [counted EXCEPT ![c] = @ + Issued(c, m)]
        /\ counted'[c] <= BurstHigh
        /\ net_drop' = IF ToMakeUp(c, m) < MAX_DROPPED_CMDS
                       THEN Least(ToMakeUp(c, m), 0) ELSE ToMakeUp(c, m)
        /\ ticks' = [ticks EXCEPT ![c] = TicksAfter(c, all, ignore, until)]
        /\ player' = [player EXCEPT ![c] = [lastcmd |-> LastCmd(m), svtimebase |-> base,
                                            connected |-> drop = 0]]
        /\ last' = [client |-> c, prev |-> incoming[c], packet |-> m,
                    held |-> held, list |-> list]
        /\ top' = [top EXCEPT ![c] =
                      Max({@} \cup {list[i].cmd.num : i \in RanNet(list)})]
        /\ frameRan' = [frameRan EXCEPT ![c] = @ + Cardinality(RanNet(list))]

-----------------------------------------------------------------------------
(* The host's frames                                                       *)

\* Rehlds_Security_Frame: the ticks start anew each frame, the rates each
\* half second, when the average of several periods may be a flood as well.
NextTicks ==
    /\ ticks' = [c \in Client |-> 0]
    /\ frameRan' = [c \in Client |-> 0]
    /\ UNCHANGED <<net_drop, held, incoming, client, last, top>>

Frame == NextTicks /\ UNCHANGED <<player, counted>>

UpdateAverageRates(flooding) ==
    /\ NextTicks
    /\ counted' = [c \in Client |-> 0]
    /\ player' = [c \in Client |->
                    [player[c] EXCEPT !.connected = @ /\ c \notin flooding]]

\* sv_paused, FL_FROZEN
ToggleHeld ==
    /\ held' = ~held
    /\ UNCHANGED <<net_drop, incoming, player, limits, client, history>>

ReadMove(c, m) ==
    \/ RefuseTooMany(c, m)
    \/ RefuseFlood(c, m)
    \/ \E abusive \in SUBSET Numbers(Commands(c, m)),
          drop \in 0 .. Len(Commands(c, m)) :
          ParseMove(c, m, FALSE, abusive, drop)
    \/ ParseMove(c, m, TRUE, {}, 0)

Next ==
    \/ \E c \in Client : MakeCommand(c)
    \/ \E c \in Client, wanted \in NumBackups : SendMove(c, wanted)
    \/ \E c \in Client : \E m \in up[c] : ReadMove(c, m)
    \/ Frame
    \/ \E flooding \in SUBSET {c \in Client : player[c].connected} : UpdateAverageRates(flooding)
    \/ ToggleHeld

Spec == Init /\ [][Next]_vars

-----------------------------------------------------------------------------
(* The types of the variables; ticks stop one above the limit.             *)
TypeOK ==
    /\ net_drop \in Int /\ held \in BOOLEAN
    /\ incoming \in [Client -> Nat]
    /\ player \in [Client -> [lastcmd : Cmd, svtimebase : Int, connected : BOOLEAN]]
    /\ ticks \in [Client -> 0 .. MaxTicks + 1]
    /\ counted \in [Client -> Nat]
    /\ outgoing \in [Client -> Nat] /\ unsent \in [Client -> Nat]
    /\ \A c \in Client : /\ up[c] \subseteq Packet
                         /\ incoming[c] + unsent[c] <= outgoing[c]
    /\ top \in [Client -> Nat] /\ frameRan \in [Client -> Nat]

(* Whatever packets were lost, each command the server had not heard of is  *)
(* made up once and in order: by itself if the packet holds it, by lastcmd  *)
(* if not; unless the moves are held or too many were lost, when only the   *)
(* new ones are.                                                            *)
EveryLossMadeUp ==
    last # <<>> =>
        LET m == last.packet
            lost == m.seq - m.numcmds - last.prev
            first == IF last.held \/ lost >= MAX_DROPPED_CMDS
                     THEN m.seq - m.numcmds ELSE last.prev
        IN  /\ Len(last.list) = m.seq - first
            /\ \A i \in DOMAIN last.list :
                 IF first + i > m.seq - m.numcmds - m.numbackup
                 THEN last.list[i].net /\ last.list[i].cmd.num = first + i
                 ELSE ~last.list[i].net

(* No command from the network is run twice or after a later one, in one    *)
(* packet or in several.                                                    *)
OnceInOrder ==
    [][last' # last =>
         \A i \in RanNet(last'.list) :
            /\ last'.list[i].cmd.num > top[last'.client]
            /\ \A j \in RanNet(last'.list) :
                 j < i => last'.list[j].cmd.num < last'.list[i].cmd.num]_vars

(* The commands of a packet end at the server's present: the base           *)
(* SV_EstablishTimeBase computes ahead of the runs is short of it by just   *)
(* what is then refused.                                                    *)
TimeBaseMeetsNow ==
    last # <<>> =>
        player[last.client].svtimebase =
            -Sum([i \in DOMAIN last.list |->
                    IF last.list[i].ran THEN 0 ELSE last.list[i].cmd.msec])

(* Every command that is run, one made up for a lost one too, has been      *)
(* counted by the rate limiter before.                                      *)
CountCoversRuns ==
    [][last' # last =>
         counted'[last'.client] - counted[last'.client] >= RanCount(last'.list)]_vars

(* A connected player has at most one command from the network more than   *)
(* sv_rehlds_movecmd_max_ticks run in a frame, in however many packets.     *)
(* One dropped in the middle of a packet has the rest of that packet run    *)
(* besides, which CheckLimits does not limit any more.                      *)
TicksBounded ==
    \A c \in Client :
        frameRan[c] <= MaxTicks + 1 + IF player[c].connected THEN 0 ELSE CMD_MAXBACKUP - 2

(* The variables keep their types, the clock of a player whose packet was   *)
(* read meets the server's, and no frame runs too many commands but for the *)
(* rest of the packet a player was dropped in.                              *)
MovesInv == TypeOK /\ TimeBaseMeetsNow /\ TicksBounded

(* Not so in the code:                                                      *)
(* "Set maximum amount of movement commands the server is able to process   *)
(* from a single player in a single frame" (README.md, the cvar's line).    *)
MaxTicksInFrame == \A c \in Client : frameRan[c] <= MaxTicks
=============================================================================
