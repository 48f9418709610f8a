------------------------------ MODULE Session ------------------------------
(***************************************************************************)
(* The client slots of the server (client_t, g_psvs.clients): how a slot   *)
(* is taken by a "connect" packet, walked through the signon commands      *)
(* "new", "sendres", "spawn" and "sendents", given to a bot, dropped, and  *)
(* carried over a change of level.                                         *)
(*                                                                         *)
(* Clients are not trusted to follow the signon: any connected client may  *)
(* send any of the commands at any time, as the string commands of         *)
(* sv_user.cpp allow.  The game library's choices (to reject a player, to  *)
(* kick one from inside a callback, to add a bot) and the Steam library's  *)
(* (to refuse a ticket) are nondeterministic.                              *)
(*                                                                         *)
(* A handler that works on one client_t is an operator from the slot's     *)
(* record to its new record.  Three fields of the record are not the       *)
(* server's: "game" is what the game library has been told of the slot,    *)
(* "level" is the level on which its player was put in, and "offered" is   *)
(* the level whose serverinfo was last queued on the slot's channel.  The  *)
(* channel itself is module Netchan.                                       *)
(*                                                                         *)
(* Left out: user info and names, resources, customizations and rates, the *)
(* checks of a connect packet made before any state changes, and a server  *)
(* of one slot, which sends serverinfo itself at a change of level.        *)
(***************************************************************************)
EXTENDS Naturals, FiniteSets

CONSTANTS
    MaxClients,     \* g_psvs.maxclients
    Ip, Port,       \* the addresses of the clients
    NoAddress,      \* remote_address of a slot never used: type 0
    MaxFromIP,      \* sv_rehlds_maxclients_from_single_ip
    MaxLevels       \* bound on g_psvs.spawncount

ASSUME SessionAssumption ==
    /\ MaxClients \in Nat \ {0, 1}
    /\ MaxFromIP \in Nat
    /\ MaxLevels \in Nat \ {0}
    /\ NoAddress \notin [ip : Ip, port : Port]

VARIABLES
    clients,        \* g_psvs.clients
    spawncount,     \* g_psvs.spawncount
    state           \* g_psv.state

sessionVars == <<clients, spawncount, state>>

Slot == 1 .. MaxClients
Address == [ip : Ip, port : Port]
Level == 0 .. MaxLevels     \* a value of spawncount; 0 for none

\* "out": not playing; "in": put in the server and not yet disconnected;
\* "twice": put in again while in; "kicked": put in and dropped from inside
\* pfnClientPutInServer, whose end the engine does not report.
Game == {"out", "in", "twice", "kicked"}

Client ==
    [active : BOOLEAN, spawned : BOOLEAN, connected : BOOLEAN,
     fully_connected : BOOLEAN, fakeclient : BOOLEAN, hasusrmsgs : BOOLEAN,
     m_bSentNewResponse : BOOLEAN, m_sendrescount : {0, 1, 2},
     edict : BOOLEAN,                    \* not NULL
     pvPrivateData : BOOLEAN,            \* of the edict of the slot's number
     address : Address \cup {NoAddress}, \* netchan.remote_address
     quiet : BOOLEAN,                    \* last_received is over 10 s old
     game : Game, level : Level, offered : Level]

Cleared ==
    [active |-> FALSE, spawned |-> FALSE, connected |-> FALSE,
     fully_connected |-> FALSE, fakeclient |-> FALSE, hasusrmsgs |-> FALSE,
     m_bSentNewResponse |-> FALSE, m_sendrescount |-> 0,
     edict |-> FALSE, pvPrivateData |-> FALSE, address |-> NoAddress,
     quiet |-> TRUE, game |-> "out", level |-> 0, offered |-> 0]

Occupied(c) == c.active \/ c.spawned \/ c.connected
Free == {s \in Slot : ~Occupied(clients[s])}
Lowest(S) == CHOOSE s \in S : \A t \in S : s <= t
Replace(s, c) == clients' = [clients EXCEPT ![s] = c]

(* SV_SpawnServer gives an edict to every slot but the last. *)
NewEdict(s, c) == [c EXCEPT !.edict = @ \/ s < MaxClients, !.pvPrivateData = FALSE]

(* The server starts on its first level, with nobody connected. *)
SessionInit ==
    /\ clients = [s \in Slot |-> NewEdict(s, Cleared)]
    /\ spawncount = 1
    /\ state = "active"

-----------------------------------------------------------------------------
(* What the game library is told.                                          *)

ClientDisconnect(c) == [c EXCEPT !.game = IF @ = "in" THEN "out" ELSE @]

PutInServer(c) ==
    [c EXCEPT !.game = IF @ = "in" THEN "twice" ELSE "in",
              !.pvPrivateData = TRUE,
              !.level = spawncount]

\* As Emptied, but a dropped bot leaves its mark on the slot.
Emptied_KeepsBot(c) ==
    [c EXCEPT !.active = FALSE, !.connected = FALSE, !.spawned = FALSE,
              !.fully_connected = FALSE, !.hasusrmsgs = FALSE,
              !.edict = FALSE, !.level = 0, !.offered = 0]

(* The slot keeps m_bSentNewResponse, m_sendrescount and its address. *)
Emptied(c) ==
    [c EXCEPT !.active = FALSE, !.connected = FALSE, !.spawned = FALSE,
              !.fully_connected = FALSE, !.hasusrmsgs = FALSE,
              !.fakeclient = FALSE, !.edict = FALSE,
              !.level = 0, !.offered = 0]

(* SV_DropClient of a client that is not crashing. *)
DropClient(c) ==
    Emptied(IF c.edict /\ c.spawned THEN ClientDisconnect(c) ELSE c)

-----------------------------------------------------------------------------
(* SV_ConnectClient.                                                       *)

SameBase(c, a) == c.address # NoAddress /\ c.address.ip = a.ip

\* As Reconnects, but only occupied slots are searched.
Reconnects_Occupied(a) ==
    {s \in Slot : /\ Occupied(clients[s])
                  /\ SameBase(clients[s], a)
                  /\ clients[s].address.port = a.port \/ clients[s].quiet}

(* The slots a connect packet from a is taken to come from again.  The     *)
(* search does not ask whether the slot is occupied.                       *)
Reconnects(a) ==
    {s \in Slot : /\ SameBase(clients[s], a)
                  /\ clients[s].address.port = a.port \/ clients[s].quiet}

Choices(a) == IF Reconnects(a) # {} THEN Reconnects(a) ELSE Free

(* The slot's old player leaves the game before the last checks.           *)
Evicted(a, c) ==
    IF Reconnects(a) # {} /\ (c.active \/ c.spawned) /\ c.edict
    THEN ClientDisconnect(c) ELSE c

TooManyConnecting(a) ==
    Cardinality({s \in Slot : /\ clients[s].connected
                              /\ ~clients[s].fully_connected
                              /\ SameBase(clients[s], a)}) > MaxFromIP

(* The port is written for the Steam library before it answers.            *)
WithPort(c, a) ==
    IF c.address = NoAddress THEN c ELSE [c EXCEPT !.address.port = a.port]

\* As Accepted, but the answer to the last player's "new" still counts.
Accepted_KeepsAnswer(c, a) ==
    [c EXCEPT !.edict = TRUE,
              !.address = a, !.quiet = FALSE, !.offered = 0,
              !.active = FALSE, !.spawned = FALSE, !.connected = TRUE,
              !.fully_connected = FALSE]

Accepted(c, a) ==
    [c EXCEPT !.edict = TRUE,
              !.address = a, !.quiet = FALSE, !.offered = 0,
              !.active = FALSE, !.spawned = FALSE, !.connected = TRUE,
              !.fully_connected = FALSE, !.m_bSentNewResponse = FALSE]

ConnectClient(a) ==
    /\ state = "active"
    /\ Choices(a) # {}
    /\ LET s == Lowest(Choices(a))
           c == Evicted(a, clients[s])
       IN  \/ ~TooManyConnecting(a) /\ Replace(s, Accepted(c, a))
           \/ ~TooManyConnecting(a) /\ Replace(s, WithPort(c, a))  \* Steam rejects
           \/ Replace(s, c)                          \* rejected before the port
    /\ UNCHANGED <<spawncount, state>>

-----------------------------------------------------------------------------
(* The commands of a connected client.                                     *)

Restarted(c) ==
    [c EXCEPT !.connected = TRUE, !.m_sendrescount = 0, !.offered = 0,
              !.spawned = FALSE, !.fully_connected = FALSE, !.hasusrmsgs = TRUE]

\* As Offer, but only a client still marked spawned is reported.
Offer_TestsSpawned(c) ==
    LET d == Restarted(c) IN IF d.spawned /\ d.edict THEN ClientDisconnect(d) ELSE d

(* SV_SendServerinfo has taken the client out of the spawned state when    *)
(* SV_New_f looks whether it was in the game: active alone tells.          *)
Offer(c) ==
    LET d == Restarted(c) IN IF d.active /\ d.edict THEN ClientDisconnect(d) ELSE d

IgnoresNew(c) == (c.hasusrmsgs /\ c.m_bSentNewResponse) \/ (~c.active /\ c.spawned)

(* SV_New_f; the game accepts the player or not. *)
New(c, accept) ==
    IF IgnoresNew(c) THEN c
    ELSE IF accept
         THEN [Offer(c) EXCEPT !.m_bSentNewResponse = TRUE, !.offered = spawncount]
         ELSE DropClient(Offer(c))

\* As SendRes, with the limit off by one.
SendRes_Thrice(c) ==
    IF (~c.spawned \/ c.active) /\ c.m_sendrescount <= 2
    THEN [c EXCEPT !.m_sendrescount = @ + 1] ELSE c

SendRes(c) ==
    IF (~c.spawned \/ c.active) /\ c.m_sendrescount <= 1
    THEN [c EXCEPT !.m_sendrescount = @ + 1] ELSE c

Spawned(c) ==
    [PutInServer(c) EXCEPT !.active = TRUE, !.spawned = TRUE,
                           !.connected = TRUE, !.fully_connected = FALSE]

(* Kicked by the game from inside pfnClientPutInServer. *)
KickedInside(c) ==
    [DropClient(PutInServer(c)) EXCEPT !.game = IF @ = "in" THEN "kicked" ELSE @]

\* As SpawnResults, but a spawned client may spawn again.
SpawnResults_Again(c, n) ==
    IF n = spawncount THEN {Spawned(c), KickedInside(c), DropClient(c)}
    ELSE {New([c EXCEPT !.m_bSentNewResponse = FALSE], accept) : accept \in BOOLEAN}

(* SV_Spawn_f: n is the level the client believes it spawns on.  A client  *)
(* that owes a consistency answer is dropped.                              *)
SpawnResults(c, n) ==
    IF c.spawned THEN {c}
    ELSE IF n = spawncount THEN {Spawned(c), KickedInside(c), DropClient(c)}
    ELSE {New([c EXCEPT !.m_bSentNewResponse = FALSE], accept) : accept \in BOOLEAN}

SendEnts(c) ==
    [c EXCEPT !.fully_connected = @ \/ (c.active /\ c.spawned /\ c.connected)]

(* SV_ReadPackets: a packet reaches every occupied slot of its address;    *)
(* slot s executes a command that leaves its record as c.                  *)
Receive(s, c) ==
    clients' = [t \in Slot |->
        LET heard == Occupied(clients[t]) /\ clients[t].address = clients[s].address
        IN  IF t = s THEN [c EXCEPT !.quiet = FALSE]
            ELSE [clients[t] EXCEPT !.quiet = @ /\ ~heard]]

Listening(s) ==
    /\ state = "active"
    /\ Occupied(clients[s]) /\ ~clients[s].fakeclient

NewCommand(s) ==
    /\ Listening(s)
    /\ \E accept \in BOOLEAN : Receive(s, New(clients[s], accept))
    /\ UNCHANGED <<spawncount, state>>

SendResCommand(s) ==
    /\ Listening(s)
    /\ Receive(s, SendRes(clients[s]))
    /\ UNCHANGED <<spawncount, state>>

SpawnCommand(s) ==
    /\ Listening(s)
    /\ \E n \in 1 .. MaxLevels : \E c \in SpawnResults(clients[s], n) : Receive(s, c)
    /\ UNCHANGED <<spawncount, state>>

SendEntsCommand(s) ==
    /\ Listening(s)
    /\ Receive(s, SendEnts(clients[s]))
    /\ UNCHANGED <<spawncount, state>>

DropCommand(s) ==
    /\ Listening(s)
    /\ Receive(s, DropClient(clients[s]))
    /\ UNCHANGED <<spawncount, state>>

-----------------------------------------------------------------------------
(* What the server does by itself.                                         *)

(* Ten seconds without a packet from the slot's address. *)
GoesQuiet(s) ==
    /\ ~clients[s].quiet
    /\ Replace(s, [clients[s] EXCEPT !.quiet = TRUE])
    /\ UNCHANGED <<spawncount, state>>

(* SV_CheckTimeouts, with sv_timeout over the ten seconds. *)
CheckTimeouts(s) ==
    /\ Listening(s)
    /\ clients[s].quiet
    /\ Replace(s, DropClient(clients[s]))
    /\ UNCHANGED <<spawncount, state>>

(* A kick, a ban, or a reliable message that overflowed. *)
Kick(s) ==
    /\ Occupied(clients[s])
    /\ Replace(s, DropClient(clients[s]))
    /\ UNCHANGED <<spawncount, state>>

(* The game asks for a bot, and puts it in the game itself. *)
CreateFakeClient ==
    /\ Free # {}
    /\ Replace(Lowest(Free),
               PutInServer([Cleared EXCEPT !.active = TRUE, !.spawned = TRUE,
                                           !.fully_connected = TRUE,
                                           !.connected = TRUE,
                                           !.fakeclient = TRUE, !.edict = TRUE]))
    /\ UNCHANGED <<spawncount, state>>

-----------------------------------------------------------------------------
(* A change of level: SV_InactivateClients, SV_SpawnServer, the loading of *)
(* the level, during which the game may add and drop clients, and          *)
(* SV_ActivateServer.                                                      *)

\* As InactivateClient, but the players stay fully connected.
InactivateClient_Connected(c) ==
    IF ~Occupied(c) THEN c
    ELSE IF c.fakeclient THEN DropClient(c)
    ELSE [c EXCEPT !.active = FALSE, !.connected = TRUE, !.spawned = FALSE,
                   !.hasusrmsgs = FALSE, !.m_bSentNewResponse = FALSE,
                   !.level = 0]

InactivateClient(c) ==
    IF ~Occupied(c) THEN c
    ELSE IF c.fakeclient THEN DropClient(c)
    ELSE [c EXCEPT !.active = FALSE, !.connected = TRUE, !.spawned = FALSE,
                   !.fully_connected = FALSE, !.hasusrmsgs = FALSE,
                   !.m_bSentNewResponse = FALSE, !.level = 0]

(* The players still in the game are disconnected; then the edicts are new *)
(* and the game starts afresh.                                             *)
SpawnServer(s, c) ==
    LET d == IF Occupied(c) /\ c.edict /\ c.pvPrivateData THEN ClientDisconnect(c) ELSE c
    IN  [NewEdict(s, d) EXCEPT !.game = IF @ = "kicked" THEN "out" ELSE @]

(* "changelevel", "restart" and "reload". *)
Changelevel ==
    /\ state = "active"
    /\ spawncount < MaxLevels
    /\ clients' = [s \in Slot |-> SpawnServer(s, InactivateClient(clients[s]))]
    /\ spawncount' = spawncount + 1
    /\ state' = "loading"

(* "map": Host_ShutdownServer drops every client and clears every slot. *)
Map ==
    /\ state = "active"
    /\ spawncount < MaxLevels
    /\ clients' = [s \in Slot |->
          LET c == clients[s]
              d == IF c.active \/ c.connected THEN DropClient(c) ELSE c
          IN  NewEdict(s, [Cleared EXCEPT !.game = IF d.game = "kicked" THEN "out" ELSE d.game])]
    /\ spawncount' = spawncount + 1
    /\ state' = "loading"

(* SV_ActivateServer tells the clients that stayed to reconnect. *)
ActivateClient(c) ==
    IF ~c.fakeclient /\ (c.active \/ c.connected)
    THEN [c EXCEPT !.hasusrmsgs = TRUE, !.offered = 0] ELSE c

ActivateServer ==
    /\ state = "loading"
    /\ clients' = [s \in Slot |-> ActivateClient(clients[s])]
    /\ state' = "active"
    /\ UNCHANGED spawncount

-----------------------------------------------------------------------------
SessionNext ==
    \/ \E a \in Address : ConnectClient(a)
    \/ \E s \in Slot : \/ NewCommand(s) \/ SendResCommand(s) \/ SpawnCommand(s)
                       \/ SendEntsCommand(s) \/ DropCommand(s)
                       \/ GoesQuiet(s) \/ CheckTimeouts(s) \/ Kick(s)
    \/ CreateFakeClient
    \/ Changelevel \/ Map \/ ActivateServer

SessionSpec == SessionInit /\ [][SessionNext]_sessionVars

-----------------------------------------------------------------------------
(* The types of the variables. *)
TypeOK ==
    /\ clients \in [Slot -> Client]
    /\ spawncount \in 1 .. MaxLevels
    /\ state \in {"active", "loading"}

(* Whatever the clients send, a player the game library holds is one the   *)
(* server serves on the present level: every way a slot loses its player   *)
(* (SV_DropClient, SV_New_f, SV_ConnectClient, SV_SpawnServer) reports it, *)
(* each by a test of its own on active, spawned, edict or pvPrivateData.   *)
(* A player kicked from inside pfnClientPutInServer is the exception.      *)
NoGhost ==
    \A s \in Slot : clients[s].game = "in" =>
        /\ clients[s].active /\ clients[s].spawned /\ clients[s].edict
        /\ clients[s].level = spawncount

(* The game is never asked to put in a player it still holds: between two  *)
(* calls of pfnClientPutInServer for a slot it is told of a disconnection. *)
PutOnce == \A s \in Slot : clients[s].game # "twice"

(* A fully connected client, one that is sent datagrams and whose moves    *)
(* are run, was put in on the present level: a "spawn" or a "sendents"     *)
(* left over from the last level does not make it one.                     *)
PlayersMatch ==
    \A s \in Slot : clients[s].fully_connected =>
        /\ clients[s].active /\ clients[s].spawned /\ clients[s].connected
        /\ clients[s].level = spawncount

(* SV_New_f ignores a "new" only of a client whose channel holds the       *)
(* serverinfo of the present level: a client that connects again, or is    *)
(* told to reconnect, is not left without an answer.                       *)
NewAnswered ==
    state = "active" =>
        \A s \in Slot :
            LET c == clients[s]
            IN  Occupied(c) /\ ~c.fakeclient /\ c.hasusrmsgs /\ c.m_bSentNewResponse
                    => c.offered = spawncount

(* SV_ConnectClient does not reset fakeclient and hasusrmsgs: a free slot  *)
(* must have none of them set, and a bot must never be taken over by a     *)
(* connect packet, or a player would be taken for a bot.                   *)
SlotClean ==
    \A s \in Slot :
        LET c == clients[s]
        IN  /\ ~Occupied(c) => ~c.fakeclient /\ ~c.hasusrmsgs /\ c.game # "in"
            /\ c.fakeclient => c.active /\ c.spawned /\ c.address = NoAddress

OneSlotEach ==
    \A s, t \in Slot : s # t /\ clients[s].address = clients[t].address
        => clients[s].address = NoAddress

(* Two slots come to share an address, so that a packet is read for both   *)
(* (SV_ReadPackets) and a connect packet may pick the wrong one, only when *)
(* a connect packet takes over the slot of a client silent for ten seconds *)
(* on another port, or leaves the port of a player refused by Steam in a   *)
(* free slot beside the address of the slot's last client.                 *)
OneSlot ==
    [][OneSlotEach /\ ~OneSlotEach' =>
        \E s \in Slot :
            LET old == clients[s].address
                new == clients'[s].address
            IN  /\ old # NoAddress /\ new # NoAddress
                /\ new.ip = old.ip /\ new.port # old.port
                /\ clients[s].quiet \/ s \in Free]_sessionVars

=============================================================================
