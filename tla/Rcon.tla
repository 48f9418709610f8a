-------------------------------- MODULE Rcon --------------------------------
(***************************************************************************)
(* Who may use rcon: the table of failed attempts and SV_Rcon_Validate.    *)
(*                                                                         *)
(* The table has room for some addresses only (with their ports); an       *)
(* address that fails takes a free entry or the one not used for longest.  *)
(* The limits are those SV_AddFailedRcon enforces on the cvars first.      *)
(***************************************************************************)
EXTENDS Integers, SequencesExt

CONSTANTS
    Addresses,
    Nobody,                     \* the address of an entry never used
    MAX_RCON_FAILURES_STORAGE,
    sv_rcon_minfailures, sv_rcon_maxfailures, sv_rcon_minfailuretime,
    MaxTime, MaxAttempts

RconAssumption ==
    /\ IsFiniteSet(Addresses) /\ Nobody \notin Addresses
    /\ MAX_RCON_FAILURES_STORAGE \in Nat \ {0}
    /\ sv_rcon_minfailures \in 1 .. 20 /\ sv_rcon_maxfailures \in sv_rcon_minfailures .. 20
    /\ sv_rcon_minfailuretime \in Nat \ {0}
    /\ MaxTime \in Nat /\ MaxAttempts \in Nat

VARIABLES
    g_rgRconFailures,   \* [active, shouldreject, adr, failure_times, last_update]
    realtime,
    bansAsked,          \* addresses whose addip is in the command buffer or was
    \* history
    failed,             \* the times at which each address failed, since the table was reset
    known,              \* those since it may have been forgotten
    mayReject,          \* the addresses that failed too often when they last failed
    mustReject,         \* the same, counting only what is known
    attempts            \* how many there were

history == <<failed, known, mayReject, mustReject>>
vars == <<g_rgRconFailures, realtime, bansAsked, history, attempts>>

Place == 1 .. MAX_RCON_FAILURES_STORAGE
Unused == [active |-> FALSE, shouldreject |-> FALSE, adr |-> Nobody,
           failure_times |-> <<>>, last_update |-> 0]

\* How many of times are recent enough to count.
Recent(times) == Cardinality({i \in DOMAIN times : realtime - times[i] <= sv_rcon_minfailuretime})

-----------------------------------------------------------------------------
(* SV_AddFailedRcon                                                        *)

\* (mutant) the newest entry goes
PlaceNewest(adr) ==
    LET stops == {i \in Place : ~g_rgRconFailures[i].active \/ g_rgRconFailures[i].adr = adr}
        newest == {i \in Place : \A j \in Place :
                    g_rgRconFailures[i].last_update >= g_rgRconFailures[j].last_update}
    IN  IF stops # {} THEN Min(stops) ELSE Max(newest)

\* The entry of adr, or the first free one, or the last of the oldest.
PlaceFor(adr) ==
    LET stops == {i \in Place : ~g_rgRconFailures[i].active \/ g_rgRconFailures[i].adr = adr}
        oldest == {i \in Place : \A j \in Place :
                    g_rgRconFailures[i].last_update <= g_rgRconFailures[j].last_update}
    IN  IF stops # {} THEN Min(stops) ELSE Max(oldest)

\* (mutant) the times of the last user of the entry stay
EntryKeepsTimes(r, adr) ==
    IF r.active /\ r.adr = adr THEN r ELSE [r EXCEPT !.shouldreject = FALSE, !.adr = adr]

\* An entry that is not the address's own is made new.
EntryOf(r, adr) ==
    IF r.active /\ r.adr = adr THEN r ELSE [Unused EXCEPT !.adr = adr]

\* The new failure is put behind the others, the oldest of which may go.
Failure(r) ==
    LET kept == IF Len(r.failure_times) >= sv_rcon_maxfailures
                THEN Tail(SubSeq(r.failure_times, 1, sv_rcon_maxfailures))
                ELSE r.failure_times
        times == Append(kept, realtime)
    IN  [r EXCEPT !.active = TRUE, !.last_update = realtime, !.failure_times = times,
                  !.shouldreject = Recent(times) >= sv_rcon_minfailures]

\* May the entry of adr have been taken by now?  Every other address that
\* failed at or after the time adr did may have taken one.
Forgettable(adr) ==
    MAX_RCON_FAILURES_STORAGE <=
        Cardinality({other \in Addresses \ {adr} :
            failed[other] # <<>> /\ Last(failed[other]) >= Last(failed[adr])})

Judged(set, adr, times) ==
    IF Recent(times) >= sv_rcon_minfailures THEN set \cup {adr} ELSE set \ {adr}

SV_AddFailedRcon(adr) ==
    LET i == PlaceFor(adr)
        r == EntryOf(g_rgRconFailures[i], adr)
        all == Append(failed[adr], realtime)
        lately == IF failed[adr] = <<>> \/ Forgettable(adr) THEN <<realtime>>
                  ELSE Append(known[adr], realtime)
    IN  IF r.shouldreject THEN UNCHANGED <<g_rgRconFailures, history>>
        ELSE /\ g_rgRconFailures' = [g_rgRconFailures EXCEPT ![i] = Failure(r)]
             /\ failed' = [failed EXCEPT ![adr] = all]
             /\ known' = [known EXCEPT ![adr] = lately]
             /\ mayReject' = Judged(mayReject, adr, all)
             /\ mustReject' = Judged(mustReject, adr, lately)

-----------------------------------------------------------------------------
(* SV_Rcon_Validate                                                        *)

SV_CheckRconFailure(adr) ==
    \E i \in Place : g_rgRconFailures[i].adr = adr /\ g_rgRconFailures[i].shouldreject

\* Does the packet have the challenge and the password, is its address in
\* the list of those who may (if there is such a list)?
Validate(adr, challenge, password, privileged) ==
    CASE SV_CheckRconFailure(adr) -> "banning"
      [] ~challenge -> "bad challenge"
      [] ~password -> "bad password"
      [] ~privileged -> "no privilege"
      [] OTHER -> "success"

SV_Rcon_Validate(adr, challenge, password, privileged) ==
    LET result == Validate(adr, challenge, password, privileged)
    IN  /\ attempts < MaxAttempts /\ attempts' = attempts + 1
        /\ bansAsked' = IF result \in {"banning", "no privilege"}
                        THEN bansAsked \cup {adr} ELSE bansAsked
        /\ IF result = "bad password" THEN SV_AddFailedRcon(adr)
           ELSE UNCHANGED <<g_rgRconFailures, history>>
        /\ UNCHANGED realtime

SV_ResetRcon_f ==
    /\ g_rgRconFailures' = [i \in Place |-> Unused]
    /\ failed' = [adr \in Addresses |-> <<>>] /\ known' = [adr \in Addresses |-> <<>>]
    /\ mayReject' = {} /\ mustReject' = {}
    /\ UNCHANGED <<realtime, bansAsked, attempts>>

Tick ==
    /\ realtime < MaxTime
    /\ realtime' = realtime + 1
    /\ UNCHANGED <<g_rgRconFailures, bansAsked, history, attempts>>

Init ==
    /\ g_rgRconFailures = [i \in Place |-> Unused]
    /\ realtime = 0
    /\ bansAsked = {}
    /\ failed = [adr \in Addresses |-> <<>>] /\ known = [adr \in Addresses |-> <<>>]
    /\ mayReject = {} /\ mustReject = {}
    /\ attempts = 0

Next ==
    \/ \E adr \in Addresses, challenge, password, privileged \in BOOLEAN :
        SV_Rcon_Validate(adr, challenge, password, privileged)
    \/ SV_ResetRcon_f
    \/ Tick

Spec == Init /\ [][Next]_vars

-----------------------------------------------------------------------------
(* Properties                                                              *)

TypeOK ==
    /\ g_rgRconFailures \in [Place -> [active : BOOLEAN, shouldreject : BOOLEAN,
            adr : Addresses \cup {Nobody}, failure_times : Seq(Nat), last_update : Nat]]
    /\ \A i \in Place : Len(g_rgRconFailures[i].failure_times) <= sv_rcon_maxfailures
    /\ realtime \in 0 .. MaxTime /\ attempts \in 0 .. MaxAttempts
    /\ bansAsked \subseteq Addresses
    /\ mayReject \subseteq Addresses /\ mustReject \subseteq Addresses
    /\ failed \in [Addresses -> Seq(Nat)] /\ known \in [Addresses -> Seq(Nat)]

\* Nobody pays for the failures of another: an address is refused only when
\* it failed itself often enough in the time that counts, though entries
\* pass from one address to another.
OnlyTheFailing == \A adr \in Addresses : SV_CheckRconFailure(adr) => adr \in mayReject

\* Whoever did is refused, unless as many others as the table has entries
\* failed since.
TheFailingRefused ==
    \A adr \in mustReject : SV_CheckRconFailure(adr) \/ Forgettable(adr)
=============================================================================
