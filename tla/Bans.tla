-------------------------------- MODULE Bans --------------------------------
(***************************************************************************)
(* The bans: filters on addresses (addip, removeip, writeip) and on users  *)
(* (banid, removeid, writeid), each for some minutes or for good, two      *)
(* arrays from which what has expired is taken out only when a search      *)
(* comes across it.                                                        *)
(*                                                                         *)
(* An address is a sequence of bytes, a mask the number of bytes it keeps. *)
(* Time is counted in minutes; minutes below zero, which the usage of the  *)
(* commands does not speak of, are not entered.  A restart executes the    *)
(* two files the bans for good were written to.                            *)
(***************************************************************************)
EXTENDS Integers, Sequences, FiniteSetsExt, Functions

CONSTANTS
    Bytes,          \* of an address
    Byte,           \* their values; the greatest is 255
    Entered,        \* the addresses operators enter: [ip, cidr]
    UserIDs,
    Minutes,        \* what operators enter for a time
    Peers,          \* the players there are: [ip, id]
    FilterModes,    \* the values of sv_filterban
    MAX_IPFILTERS, MAX_USERFILTERS,
    MaxTime

NoCIDR == -1

BansAssumption ==
    /\ Bytes \in Nat \ {0} /\ Byte \subseteq Nat /\ 0 \in Byte
    /\ \E most \in Byte : \A b \in Byte : b <= most
    /\ Entered \subseteq [ip : [1 .. Bytes -> Byte], cidr : {NoCIDR} \cup 0 .. Bytes]
    /\ Minutes \subseteq Nat
    /\ \A p \in Peers : p.ip \in [1 .. Bytes -> Byte] /\ p.id \in UserIDs
    /\ FilterModes \subseteq {-1, 0, 1}
    /\ MAX_IPFILTERS \in Nat /\ MAX_USERFILTERS \in Nat /\ MaxTime \in Nat

VARIABLES
    ipfilters,      \* [filter, banEndTime] in the order of the array
    userfilters,    \* [userid, banEndTime]
    sv_filterban,
    realtime,
    stage,          \* of each peer: "out", "connecting", "in" (connected, active and spawned)
    listip,         \* listip.cfg: what writeip wrote
    banned,         \* banned.cfg: what writeid wrote
    \* history
    askedIP,        \* the end last asked for, of each filter not removed
    askedUser,      \* of each user
    written,        \* the filters and users banned for good when the files were written
    spared          \* players an addip found in and did not look at

bans == <<ipfilters, userfilters>>
files == <<listip, banned, written>>
vars == <<ipfilters, userfilters, sv_filterban, realtime, stage, files, askedIP, askedUser, spared>>

\* What an array holds when others are taken out and what stands after them
\* is moved: its elements at some places, in their order.
Keeping(list, places) ==
    [n \in 1 .. Cardinality(places) |->
        list[CHOOSE i \in places : Cardinality({j \in places : j <= i}) = n]]

\* fn with the end that is asked for x now, whatever it was before.
Asked(fn, x, end) == [y \in DOMAIN fn \cup {x} |-> IF y = x THEN end ELSE fn[y]]

-----------------------------------------------------------------------------
(* Filters and their text                                                  *)

Address == [1 .. Bytes -> Byte]
Broadcast == [i \in 1 .. Bytes |-> Max(Byte)]
Masked(ip, mask) == [i \in 1 .. Bytes |-> IF i <= mask THEN ip[i] ELSE 0]
Filter == {f \in [mask : 0 .. Bytes, compare : Address] : f.compare = Masked(f.compare, f.mask)}

\* All bytes but the zeros at the end.
IPToMask(ip) == Max({0} \cup {i \in 1 .. Bytes : ip[i] # 0})

StringToFilter(text) ==
    LET mask == IF text.cidr = NoCIDR THEN IPToMask(text.ip) ELSE text.cidr
    IN  [mask |-> mask, compare |-> Masked(text.ip, mask)]

\* (mutant) the mask is never written
TextWithoutMask(f) == [ip |-> f.compare, cidr |-> NoCIDR]

\* The mask is left out when the address alone gives it back.
FilterToString(f) ==
    [ip |-> f.compare, cidr |-> IF f.mask = IPToMask(f.compare) THEN NoCIDR ELSE f.mask]

Matches(ip, f) == Masked(ip, f.mask) = f.compare
IsFilterIncludesAnotherFilter(f, f2) ==
    f2.mask >= f.mask /\ Masked(f2.compare, f.mask) = f.compare

-----------------------------------------------------------------------------
(* SV_FilterPacket, SV_FilterUser                                          *)

Running(end) == end = 0 \/ end > realtime

Stands(b) == b.filter.compare = Broadcast \/ Running(b.banEndTime)

\* The place of the last filter that catches ip, or zero.
Hit(list, ip) ==
    Max({0} \cup {i \in DOMAIN list : Stands(list[i]) /\ Matches(ip, list[i].filter)})

\* What is searched from the end for each of ips loses what has expired and
\* stands after the hit.
Searched(list, ips) ==
    LET hit == Min({Hit(list, ip) : ip \in ips})
    IN  IF ips = {} THEN list
        ELSE Keeping(list, {i \in DOMAIN list : i <= hit \/ Stands(list[i])})

\* SV_FilterPacket's answer: is ip refused?
SV_FilterPacket(list, ip) == (Hit(list, ip) # 0) = (sv_filterban = 1)

UserHit(id) ==
    Max({0} \cup {i \in DOMAIN userfilters :
                    userfilters[i].userid = id /\ Running(userfilters[i].banEndTime)})

\* SV_FilterUser's answer, and what the search leaves of the array.
SV_FilterUser(id) == IF UserHit(id) # 0 THEN sv_filterban # 0 ELSE sv_filterban = 0

UsersLeft(id) ==
    {i \in DOMAIN userfilters : i <= UserHit(id) \/ Running(userfilters[i].banEndTime)}

\* (mutant) the count is lowered, but what follows is not moved
UsersNotMoved(id) == SubSeq(userfilters, 1, Cardinality(UsersLeft(id)))

UsersSearched(id) == Keeping(userfilters, UsersLeft(id))

-----------------------------------------------------------------------------
(* The commands                                                            *)

In == {p \in Peers : stage[p] = "in"}
Drop(ps) == stage' = [p \in Peers |-> IF p \in ps THEN "out" ELSE stage[p]]
End(minutes) == IF minutes = 0 THEN 0 ELSE realtime + minutes
IPPlace(f) == {i \in DOMAIN ipfilters : ipfilters[i].filter = f}
UserPlace(id) == {i \in DOMAIN userfilters : userfilters[i].userid = id}

\* SV_AddIP_f with a filter in the array: its end is changed, and no more.
RenewIP(minutes, f) ==
    \E i \in IPPlace(f) :
        /\ ipfilters' = [ipfilters EXCEPT ![i] = [filter |-> f, banEndTime |-> End(minutes)]]
        /\ spared' = spared \cup {p \in Peers : stage[p] # "out" /\ Matches(p.ip, f)}
        /\ UNCHANGED stage

\* (mutant) the players are looked up under the filters there were before
NewIPLate(minutes, f) ==
    /\ IPPlace(f) = {}
    /\ Len(ipfilters) < MAX_IPFILTERS
    /\ Drop({p \in In : SV_FilterPacket(ipfilters, p.ip)})
    /\ ipfilters' = Append(Searched(ipfilters, {p.ip : p \in In}),
                           [filter |-> f, banEndTime |-> End(minutes)])
    /\ spared' = (spared \ In) \cup {p \in Peers : stage[p] = "connecting" /\ Matches(p.ip, f)}

\* With a new one: the players that are in are looked up under the filters.
NewIP(minutes, f) ==
    LET longer == Append(ipfilters, [filter |-> f, banEndTime |-> End(minutes)])
    IN  /\ IPPlace(f) = {}
        /\ Len(ipfilters) < MAX_IPFILTERS
        /\ Drop({p \in In : SV_FilterPacket(longer, p.ip)})
        /\ ipfilters' = Searched(longer, {p.ip : p \in In})
        /\ spared' = (spared \ In) \cup
                        {p \in Peers : stage[p] = "connecting" /\ Matches(p.ip, f)}

\* SV_AddIP_f
AddIP(minutes, text) ==
    LET f == StringToFilter(text)
    IN  /\ RenewIP(minutes, f) \/ NewIP(minutes, f)
        /\ askedIP' = Asked(askedIP, f, End(minutes))
        /\ UNCHANGED <<userfilters, sv_filterban, realtime, files, askedUser>>

\* SV_RemoveIP_f; removeAll takes what the filter includes.
RemoveIP(text, removeAll) ==
    LET f == StringToFilter(text)
        Goes(g) == IF removeAll THEN IsFilterIncludesAnotherFilter(f, g) ELSE g = f
    IN  /\ ipfilters' = Keeping(ipfilters, {i \in DOMAIN ipfilters : ~Goes(ipfilters[i].filter)})
        /\ askedIP' = Restrict(askedIP, {g \in DOMAIN askedIP : ~Goes(g)})
        /\ UNCHANGED <<userfilters, sv_filterban, realtime, stage, files, askedUser, spared>>

\* SV_BanId_f; with "kick" the first player with the id is dropped.
BanId(minutes, id, kick) ==
    /\ \/ \E i \in UserPlace(id) :
            userfilters' = [userfilters EXCEPT ![i] = [userid |-> id, banEndTime |-> End(minutes)]]
       \/ /\ UserPlace(id) = {}
          /\ Len(userfilters) < MAX_USERFILTERS
          /\ userfilters' = Append(userfilters, [userid |-> id, banEndTime |-> End(minutes)])
    /\ askedUser' = Asked(askedUser, id, End(minutes))
    /\ LET its == {p \in Peers : p.id = id /\ stage[p] # "out"}
       IN  IF kick /\ its # {} THEN \E p \in its : Drop({p}) ELSE UNCHANGED stage
    /\ UNCHANGED <<ipfilters, sv_filterban, realtime, files, askedIP, spared>>

\* SV_RemoveId_f, by the number listid shows or, which comes to the same, by id.
RemoveId(i) ==
    /\ askedUser' = Restrict(askedUser, DOMAIN askedUser \ {userfilters[i].userid})
    /\ userfilters' = Keeping(userfilters, DOMAIN userfilters \ {i})
    /\ UNCHANGED <<ipfilters, sv_filterban, realtime, stage, files, askedIP, spared>>

\* SV_WriteIP_f and SV_WriteId_f: the bans for good.
WriteIP ==
    LET kept == Keeping(ipfilters, {i \in DOMAIN ipfilters : ipfilters[i].banEndTime = 0})
    IN  /\ listip' = [i \in DOMAIN kept |-> FilterToString(kept[i].filter)]
        /\ written' = [written EXCEPT !.ip = {f \in DOMAIN askedIP : askedIP[f] = 0}]
        /\ UNCHANGED <<bans, sv_filterban, realtime, stage, banned, askedIP, askedUser, spared>>

WriteId ==
    LET kept == Keeping(userfilters, {i \in DOMAIN userfilters : userfilters[i].banEndTime = 0})
    IN  /\ banned' = [i \in DOMAIN kept |-> kept[i].userid]
        /\ written' = [written EXCEPT !.user = {id \in DOMAIN askedUser : askedUser[id] = 0}]
        /\ UNCHANGED <<bans, sv_filterban, realtime, stage, listip, askedIP, askedUser, spared>>

-----------------------------------------------------------------------------
(* Packets, time, restart                                                  *)

\* SV_ReadPackets, a connectionless packet; one that is let through may be
\* the connection of a player.
ReadPacket(p) ==
    /\ ipfilters' = Searched(ipfilters, {p.ip})
    /\ \/ UNCHANGED <<stage, spared>>
       \/ /\ ~SV_FilterPacket(ipfilters, p.ip) /\ stage[p] = "out"
          /\ stage' = [stage EXCEPT ![p] = "connecting"]
          /\ spared' = spared \ {p}
    /\ UNCHANGED <<userfilters, sv_filterban, realtime, files, askedIP, askedUser>>

\* OnGSClientApprove
Approve(p) ==
    /\ stage[p] # "out"
    /\ userfilters' = UsersSearched(p.id)
    /\ IF SV_FilterUser(p.id) THEN Drop({p}) ELSE UNCHANGED stage
    /\ UNCHANGED <<ipfilters, sv_filterban, realtime, files, askedIP, askedUser, spared>>

\* The end of the signon; a player leaves.
Enter(p) ==
    /\ stage[p] = "connecting"
    /\ stage' = [stage EXCEPT ![p] = "in"]
    /\ UNCHANGED <<bans, sv_filterban, realtime, files, askedIP, askedUser, spared>>

Leave(p) ==
    /\ stage[p] # "out"
    /\ Drop({p})
    /\ UNCHANGED <<bans, sv_filterban, realtime, files, askedIP, askedUser, spared>>

Tick ==
    /\ realtime < MaxTime
    /\ realtime' = realtime + 1
    /\ UNCHANGED <<bans, sv_filterban, stage, files, askedIP, askedUser, spared>>

\* The process ends and starts again: addip 0 and banid 0 from the files.
Restart ==
    /\ ipfilters' = [i \in DOMAIN listip |->
                        [filter |-> StringToFilter(listip[i]), banEndTime |-> 0]]
    /\ userfilters' = [i \in DOMAIN banned |-> [userid |-> banned[i], banEndTime |-> 0]]
    /\ realtime' = 0
    /\ stage' = [p \in Peers |-> "out"]
    /\ askedIP' = [f \in written.ip |-> 0]
    /\ askedUser' = [id \in written.user |-> 0]
    /\ spared' = {}
    /\ UNCHANGED <<sv_filterban, files>>

Init ==
    /\ ipfilters = <<>> /\ userfilters = <<>>
    /\ sv_filterban \in FilterModes
    /\ realtime = 0
    /\ stage = [p \in Peers |-> "out"]
    /\ listip = <<>> /\ banned = <<>> /\ written = [ip |-> {}, user |-> {}]
    /\ askedIP = <<>>
    /\ askedUser = <<>>
    /\ spared = {}

Next ==
    \/ \E minutes \in Minutes :
        \/ \E text \in Entered : AddIP(minutes, text)
        \/ \E id \in UserIDs, kick \in BOOLEAN : BanId(minutes, id, kick)
    \/ \E text \in Entered, removeAll \in BOOLEAN : RemoveIP(text, removeAll)
    \/ \E i \in DOMAIN userfilters : RemoveId(i)
    \/ \E p \in Peers : ReadPacket(p) \/ Approve(p) \/ Enter(p) \/ Leave(p)
    \/ WriteIP \/ WriteId
    \/ Tick \/ Restart

Spec == Init /\ [][Next]_vars

-----------------------------------------------------------------------------
(* Properties                                                              *)

TypeOK ==
    /\ ipfilters \in Seq([filter : Filter, banEndTime : Nat]) /\ Len(ipfilters) <= MAX_IPFILTERS
    /\ userfilters \in Seq([userid : UserIDs, banEndTime : Nat])
    /\ Len(userfilters) <= MAX_USERFILTERS
    /\ sv_filterban \in FilterModes /\ realtime \in 0 .. MaxTime
    /\ stage \in [Peers -> {"out", "connecting", "in"}]
    /\ listip \in Seq([ip : Address, cidr : {NoCIDR} \cup 0 .. Bytes])
    /\ banned \in Seq(UserIDs)
    /\ written \in [ip : SUBSET Filter, user : SUBSET UserIDs]
    /\ DOMAIN askedIP \subseteq Filter /\ DOMAIN askedUser \subseteq UserIDs
    /\ spared \subseteq Peers

\* Whatever was added, changed, removed, taken out as expired, written and
\* read back, and in whatever order: an address is caught exactly when some
\* filter on it was asked for and not removed and its time is not over.
AddressesAsAsked ==
    \A ip \in Address \ {Broadcast} :
        Hit(ipfilters, ip) # 0 <=>
            \E f \in DOMAIN askedIP : Running(askedIP[f]) /\ Matches(ip, f)

\* The same of users.
UsersAsAsked ==
    \A id \in UserIDs :
        UserHit(id) # 0 <=> id \in DOMAIN askedUser /\ Running(askedUser[id])

\* Under an address that is banned play only those whom addip did not look
\* at: they were still connecting, or the filter was in the array already,
\* if only because nobody had taken it out since it expired.
OnlyTheSparedPlay ==
    sv_filterban = 1 =>
        \A p \in In : SV_FilterPacket(ipfilters, p.ip) => p \in spared

\* Not so in the code:
\* README.md:94: "0 - No checks will happen".
ZeroChecksNothing ==
    sv_filterban = 0 => \A ip \in Address : ~SV_FilterPacket(ipfilters, ip)

\* Not so in the code:
\* README.md:94: "-1 - All players will be rejected without any exceptions".
MinusOneRejectsAll ==
    sv_filterban = -1 => \A ip \in Address : SV_FilterPacket(ipfilters, ip)
=============================================================================
