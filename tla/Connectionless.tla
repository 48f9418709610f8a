--------------------------- MODULE Connectionless ---------------------------
(***************************************************************************)
(* What stands between a connectionless packet and its handler: the limit  *)
(* on queries (QueryLimit), the bans (Bans) and, for rcon, the table of    *)
(* failed attempts (Rcon).  SV_ReadPackets asks them one after the other;  *)
(* they share no variable, and each of them may meet a packet from anyone  *)
(* at any time, whatever the others let through.                           *)
(***************************************************************************)
EXTENDS Integers, FiniteSets

CONSTANTS
    Bytes, Byte, Entered, UserIDs, Minutes, Peers, FilterModes,
    MAX_IPFILTERS, MAX_USERFILTERS, MaxMinutes,
    IPs, Window, PerIP, Global, MAX_TREE_SIZE, FLUSH_TIMEOUT, MaxTime, MaxQueries,
    Addresses, Nobody, MAX_RCON_FAILURES_STORAGE,
    sv_rcon_minfailures, sv_rcon_maxfailures, sv_rcon_minfailuretime,
    MaxSeconds, MaxAttempts

VARIABLES
    ipfilters, userfilters, sv_filterban, minutes, stage, listip, banned,
    askedIP, askedUser, written, spared,
    tree, globalCount, globalTime, curTime, asked, passed, counted, last, queries,
    g_rgRconFailures, seconds, bansAsked, failed, known, mayReject, mustReject, attempts

Filters == INSTANCE Bans WITH realtime <- minutes, MaxTime <- MaxMinutes
Queries == INSTANCE QueryLimit
Remote == INSTANCE Rcon WITH realtime <- seconds, MaxTime <- MaxSeconds

ASSUME FiltersAssumption == Filters!BansAssumption
ASSUME QueriesAssumption == Queries!QueryAssumption
ASSUME RemoteAssumption == Remote!RconAssumption

filterVars == <<ipfilters, userfilters, sv_filterban, minutes, stage, listip, banned,
                askedIP, askedUser, written, spared>>
queryVars == <<tree, globalCount, globalTime, curTime, asked, passed, counted, last, queries>>
remoteVars == <<g_rgRconFailures, seconds, bansAsked, failed, known, mayReject, mustReject, attempts>>
vars == <<filterVars, queryVars, remoteVars>>

Init == Filters!Init /\ Queries!Init /\ Remote!Init

Filtering == Filters!Next /\ UNCHANGED <<queryVars, remoteVars>>
Limiting == Queries!Next /\ UNCHANGED <<filterVars, remoteVars>>
Validating == Remote!Next /\ UNCHANGED <<filterVars, queryVars>>

Next == Filtering \/ Limiting \/ Validating

Spec == Init /\ [][Next]_vars

-----------------------------------------------------------------------------
(* Properties                                                              *)

\* The variables of the bans keep their types, and whatever was added,
\* changed, removed, taken out as expired, written and read back, and in
\* whatever order: an address or a user is caught exactly when a filter on it
\* was asked for and not removed and its time is not over.
FiltersAsAsked == Filters!TypeOK /\ Filters!AddressesAsAsked /\ Filters!UsersAsAsked

\* Under an address that is banned play only those whom addip did not look
\* at: they were still connecting, or the filter was in the array already,
\* if only because nobody had taken it out since it expired.
OnlyTheSparedPlay == Filters!OnlyTheSparedPlay

\* The variables of the limits keep their types, and in no window of time,
\* wherever it begins, do an address, or all of them together, get through
\* more than the last of one window of the limit and all of the next: the
\* tree does not forget an address while that matters.  And a query is refused
\* only when its own address made too many, or too many queries passed the
\* limits of their addresses: "do this first, so one person dosing doesn't
\* add to the global max rate" (ipratelimit.cpp:68).
LimitsHold ==
    Queries!TypeOK /\ Queries!PerIPBound /\ Queries!GlobalBound /\ Queries!RefusedForCause

\* The variables of rcon keep their types, and an address is refused only
\* for its own failures, though entries pass from one address to another, and
\* is refused after them unless as many others as the table has entries
\* failed since.
RefusedAsDeserved == Remote!TypeOK /\ Remote!OnlyTheFailing /\ Remote!TheFailingRefused
=============================================================================
