-------------------------------- MODULE Hpak --------------------------------
(***************************************************************************)
(* The pack of the players' customizations, custom.hpk (hashpak.cpp): the  *)
(* queue of lumps waiting to be written, the rewriting of the file through *)
(* a temporary one, the checks at the start and at a new level, and a      *)
(* crash at any moment.                                                    *)
(*                                                                         *)
(* A lump is known by its hash, a number.  A file is absent, unfinished,   *)
(* or the lumps of its directory; AddLump checks a lump against its hash   *)
(* before it takes it, so that its data needs no mention.                  *)
(***************************************************************************)
EXTENDS Integers, SequencesExt

CONSTANTS
    Lumps,
    MAX_FILE_ENTRIES,
    hpk_maxsize,        \* in lumps, 0 for no limit
    MaxUploads, MaxStarts

ASSUME HpakAssumption ==
    /\ Lumps \subseteq Nat \ {0} /\ IsFiniteSet(Lumps)
    /\ MAX_FILE_ENTRIES \in Nat \ {0} /\ hpk_maxsize \in Nat
    /\ MaxUploads \in Nat /\ MaxStarts \in Nat

VARIABLES
    pak, temp,          \* custom.hpk and custom.hp2
    gp_hpak_queue,      \* the newest lump first
    task,               \* the writing that is under way: [kind, lump, file]
    flushing,           \* is HPAK_FlushHostQueue running, and for what?
    server,             \* "runs", "stops" or "off"
    uploads, starts,
    \* history
    promised,           \* the lumps taken and not given up: by hand, by size or by a crash
    wasWritten          \* the lumps in the file before the writing under way

vars == <<pak, temp, gp_hpak_queue, task, flushing, server, uploads, starts,
          promised, wasWritten>>

Absent == [state |-> "absent", lumps |-> <<>>]
Unfinished == [state |-> "unfinished", lumps |-> <<>>]
Whole(lumps) == [state |-> "whole", lumps |-> lumps]
Idle == [kind |-> "none", lump |-> 0, file |-> Absent]
Lump(l) == [kind |-> "lump", lump |-> l, file |-> Absent]

\* What every reader checks of a file before it uses its directory.
Readable(file) == file.state = "whole" /\ Len(file.lumps) \in 1 .. MAX_FILE_ENTRIES

\* (mutant) the queue is not searched
FoundInFile == IF Readable(pak) THEN ToSet(pak.lumps) ELSE {}

\* The lumps HPAK_GetDataPointer and HPAK_ResourceForHash find.
Found == ToSet(gp_hpak_queue) \cup (IF Readable(pak) THEN ToSet(pak.lumps) ELSE {})

\* (mutant) the last entry is put at the end
InsertedLast(lumps, l) == Append(lumps, l)

\* A new entry is put before the first that is not greater.
Inserted(lumps, l) ==
    LET below == {i \in DOMAIN lumps : l >= lumps[i]}
    IN  IF below = {} THEN Append(lumps, l) ELSE InsertAt(lumps, Min(below), l)

\* All entries of l are left out: a directory has one (TypeOK).
Removed(lumps, l) == RemoveAt(lumps, CHOOSE i \in DOMAIN lumps : lumps[i] = l)

Free == server # "off" /\ task = Idle
Quiet == server = "runs" /\ task = Idle /\ flushing = "no"

-----------------------------------------------------------------------------
(* The queue                                                               *)

\* SV_ProcessFile: HPAK_AddLump and HPAK_AddToQueue.
Upload(l) ==
    /\ Quiet /\ uploads < MaxUploads
    /\ uploads' = uploads + 1
    /\ gp_hpak_queue' = <<l>> \o gp_hpak_queue
    /\ promised' = promised \cup {l}
    /\ UNCHANGED <<pak, temp, task, flushing, server, starts, wasWritten>>

\* HPAK_FlushHostQueue, for its own sake (a new level) or before a removal.
Flush(why) ==
    /\ Quiet
    /\ flushing' = why
    /\ UNCHANGED <<pak, temp, gp_hpak_queue, task, server, uploads, starts, promised, wasWritten>>

\* A lump is taken out of the queue to be written.
FlushNext ==
    /\ Free /\ (flushing # "no" \/ server = "stops") /\ gp_hpak_queue # <<>>
    /\ gp_hpak_queue' = Tail(gp_hpak_queue)
    /\ task' = Lump(Head(gp_hpak_queue))
    /\ UNCHANGED <<pak, temp, flushing, server, uploads, starts, promised, wasWritten>>

FlushDone ==
    /\ Free /\ gp_hpak_queue = <<>> /\ flushing = "flush"
    /\ flushing' = "no"
    /\ UNCHANGED <<pak, temp, gp_hpak_queue, task, server, uploads, starts, promised, wasWritten>>

-----------------------------------------------------------------------------
(* HPAK_AddLump without the queue, and HPAK_CreatePak                      *)

\* There is no pack yet: it is written in its place.
CreatePak ==
    /\ task.kind = "lump" /\ pak = Absent
    /\ pak' = Unfinished
    /\ task' = [kind |-> "create", lump |-> task.lump, file |-> Whole(<<task.lump>>)]
    /\ wasWritten' = {}
    /\ UNCHANGED <<temp, gp_hpak_queue, flushing, server, uploads, starts, promised>>

\* A pack that is no pack is left alone, and so is one that has the lump; the
\* temporary file is opened first and removed again.
NotAdded ==
    /\ task.kind = "lump" /\ pak # Absent
    /\ ~Readable(pak) \/ task.lump \in ToSet(pak.lumps)
    /\ temp' = Absent /\ task' = Idle
    /\ UNCHANGED <<pak, gp_hpak_queue, flushing, server, uploads, starts, promised, wasWritten>>

\* The old pack with one lump more is written beside it.
AddLump ==
    /\ task.kind = "lump" /\ Readable(pak) /\ task.lump \notin ToSet(pak.lumps)
    /\ temp' = Unfinished
    /\ task' = [kind |-> "write", lump |-> task.lump,
                file |-> Whole(Inserted(pak.lumps, task.lump))]
    /\ wasWritten' = ToSet(pak.lumps)
    /\ UNCHANGED <<pak, gp_hpak_queue, flushing, server, uploads, starts, promised>>

-----------------------------------------------------------------------------
(* HPAK_Remove_f and HPAK_RemoveLump, which begin with a flush             *)

\* The last lump goes with its pack.
RemoveFinal(l) ==
    /\ Free /\ flushing = "remove" /\ gp_hpak_queue = <<>>
    /\ Readable(pak) /\ pak.lumps = <<l>>
    /\ pak' = Absent /\ temp' = Absent
    /\ flushing' = "no" /\ promised' = promised \ {l}
    /\ UNCHANGED <<gp_hpak_queue, task, server, uploads, starts, wasWritten>>

RemoveLump(l) ==
    /\ Free /\ flushing = "remove" /\ gp_hpak_queue = <<>>
    /\ Readable(pak) /\ Len(pak.lumps) > 1 /\ l \in ToSet(pak.lumps)
    /\ temp' = Unfinished
    /\ task' = [kind |-> "write", lump |-> l, file |-> Whole(Removed(pak.lumps, l))]
    /\ flushing' = "no" /\ promised' = promised \ {l}
    /\ wasWritten' = ToSet(pak.lumps)
    /\ UNCHANGED <<pak, gp_hpak_queue, server, uploads, starts>>

\* There is no pack, or none that can be read, or no such entry.
NotRemoved ==
    /\ Free /\ flushing = "remove" /\ gp_hpak_queue = <<>>
    /\ flushing' = "no"
    /\ UNCHANGED <<pak, temp, gp_hpak_queue, task, server, uploads, starts, promised, wasWritten>>

-----------------------------------------------------------------------------
(* The steps of a writing, between any two of which the server may crash   *)

Created ==
    /\ task.kind = "create"
    /\ pak' = task.file /\ task' = Idle
    /\ UNCHANGED <<temp, gp_hpak_queue, flushing, server, uploads, starts, promised, wasWritten>>

\* (mutant) the old pack is removed before the new one is written
RemovedFirst ==
    /\ task.kind = "write"
    /\ pak' = Absent /\ task' = [task EXCEPT !.kind = "rename"]
    /\ temp' = temp
    /\ UNCHANGED <<gp_hpak_queue, flushing, server, uploads, starts, promised, wasWritten>>

Written ==
    /\ task.kind = "write"
    /\ temp' = task.file /\ task' = [task EXCEPT !.kind = "unlink"]
    /\ UNCHANGED <<pak, gp_hpak_queue, flushing, server, uploads, starts, promised, wasWritten>>

Unlink ==
    /\ task.kind = "unlink"
    /\ pak' = Absent /\ task' = [task EXCEPT !.kind = "rename"]
    /\ UNCHANGED <<temp, gp_hpak_queue, flushing, server, uploads, starts, promised, wasWritten>>

Rename ==
    /\ task.kind = "rename"
    /\ pak' = temp /\ temp' = Absent /\ task' = Idle
    /\ UNCHANGED <<gp_hpak_queue, flushing, server, uploads, starts, promised, wasWritten>>

-----------------------------------------------------------------------------
(* New levels, the end and the start of the server                         *)

\* HPAK_CheckSize, when a level begins
CheckSize ==
    /\ Quiet /\ hpk_maxsize # 0 /\ Len(pak.lumps) >= hpk_maxsize
    /\ pak' = Absent
    /\ promised' = ToSet(gp_hpak_queue)
    /\ UNCHANGED <<temp, gp_hpak_queue, task, flushing, server, uploads, starts, wasWritten>>

\* Host_Shutdown: the queue is flushed (FlushNext) and the process ends.
Shutdown ==
    /\ Quiet /\ starts < MaxStarts
    /\ server' = "stops"
    /\ UNCHANGED <<pak, temp, gp_hpak_queue, task, flushing, uploads, starts, promised, wasWritten>>

Stopped ==
    /\ server = "stops" /\ task = Idle /\ gp_hpak_queue = <<>>
    /\ server' = "off"
    /\ UNCHANGED <<pak, temp, gp_hpak_queue, task, flushing, uploads, starts, promised, wasWritten>>

\* What was in memory is gone; of the files, what had been done to them stays.
Crash ==
    /\ server # "off" /\ starts < MaxStarts
    /\ gp_hpak_queue' = <<>> /\ task' = Idle /\ flushing' = "no" /\ server' = "off"
    /\ promised' = promised \cap
            (IF pak.state = "whole" THEN ToSet(pak.lumps) ELSE {})
    /\ UNCHANGED <<pak, temp, uploads, starts, wasWritten>>

\* Host_Init: HPAK_CheckIntegrity and HPAK_ValidatePak
Start ==
    /\ server = "off"
    /\ server' = "runs" /\ starts' = starts + 1
    /\ pak' = IF Readable(pak) THEN pak ELSE Absent
    /\ UNCHANGED <<temp, gp_hpak_queue, task, flushing, uploads, promised, wasWritten>>

Init ==
    /\ pak = Absent /\ temp = Absent
    /\ gp_hpak_queue = <<>> /\ task = Idle /\ flushing = "no"
    /\ server = "runs" /\ uploads = 0 /\ starts = 0
    /\ promised = {} /\ wasWritten = {}

Next ==
    \/ \E l \in Lumps : Upload(l) \/ RemoveFinal(l) \/ RemoveLump(l)
    \/ Flush("flush") \/ Flush("remove") \/ FlushNext \/ FlushDone
    \/ CreatePak \/ NotAdded \/ AddLump \/ NotRemoved
    \/ Created \/ Written \/ Unlink \/ Rename
    \/ CheckSize \/ Shutdown \/ Stopped \/ Crash \/ Start

Spec == Init /\ [][Next]_vars

-----------------------------------------------------------------------------
(* Properties                                                              *)

TypeOK ==
    /\ {pak, temp, task.file} \subseteq
            [state : {"absent", "unfinished", "whole"}, lumps : Seq(Lumps)]
    /\ gp_hpak_queue \in Seq(Lumps)
    /\ task.kind \in {"none", "lump", "create", "write", "unlink", "rename"}
    /\ task.lump \in Lumps \cup {0}
    /\ flushing \in {"no", "flush", "remove"} /\ server \in {"runs", "stops", "off"}
    /\ uploads \in 0 .. MaxUploads /\ starts \in 0 .. MaxStarts
    /\ promised \subseteq Lumps /\ wasWritten \subseteq Lumps
    /\ \A i, j \in DOMAIN pak.lumps : i < j => pak.lumps[i] > pak.lumps[j]

\* What a player uploaded is found from then on, whether it waits in the
\* queue or is in the file, past the end and the start of the server, until
\* it is removed by hand, with a pack grown too large, or by a crash; a crash
\* takes no more than the queue and, in a moment between two calls of the
\* file system, the pack.
NothingLost == server = "runs" /\ task = Idle => promised \subseteq Found

\* Whatever moment a crash comes at, what the file held is whole in it or in
\* the temporary file beside it, but for what is being removed.
OneFileWhole ==
    task.kind \in {"write", "unlink", "rename"} =>
        \E file \in {pak, temp} :
            file.state = "whole" /\ wasWritten \ ToSet(file.lumps) \subseteq {task.lump}

\* The queue and the files keep their form, and one file is whole.
PacksInv == TypeOK /\ OneFileWhole

\* Not so in the code:
\* "HPAK %s had bogus # of directory entries" (hashpak.cpp:1292): a pack the
\* server wrote itself passes the checks of its readers.
OwnPackIsReadable == pak.state = "whole" => Readable(pak)
=============================================================================
