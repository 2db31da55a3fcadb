---------------------------- MODULE FileWalStore ----------------------------
(***************************************************************************)
(* The files under the write-ahead log                                     *)
(* (crates/ade_runtime/src/wal/file_wal_store.rs): length-prefixed frames  *)
(* in numbered files, an fdatasync after each append, a CRC suffix on a    *)
(* file when it is rotated out, and on open the check of those CRCs and    *)
(* the recovery of the last file.                                          *)
(*                                                                         *)
(* An entry is the number of the append call that wrote it.  The process   *)
(* may be killed, which leaves what it wrote, or the machine may lose      *)
(* power, which leaves of each file what was synced and any part of the    *)
(* rest.  The file system is one that keeps of a file a prefix of what was *)
(* written, and whose fdatasync of a new file keeps its name.  The process *)
(* calls read_all before it appends, as warm start does.                   *)
(***************************************************************************)
EXTENDS Naturals, SequencesExt

CONSTANTS
    EntriesPerFile,  \* ENTRIES_PER_FILE
    MaxAppends,      \* bound: append calls
    MaxCrashes       \* bound: stops, of the process or of the machine

ASSUME FileAssumption ==
    /\ EntriesPerFile \in Nat \ {0}
    /\ MaxAppends \in Nat /\ MaxCrashes \in Nat

VARIABLES
    files,    \* disk: the files by index; the last is the one open for append
    named,    \* how many of the files' names are on disk for good
    pc,       \* where the process is
    count,    \* current_entry_count
    buffer,   \* the frames seal_with_crc has read and has yet to write back
    acked,    \* history: the entries append has returned Ok for
    appends,  \* append calls so far
    rotating, \* history: a rotation has begun and no append has returned since
    sealTorn, \* history: the process stopped while it rewrote a file, or the
              \* machine while it was rotating
    fault, crashes

disk == <<files, named>>
vars == <<disk, pc, count, buffer, acked, appends, rotating, sealTorn, fault, crashes>>

\* The whole frames of a file and what follows them: nothing ("none"), one to
\* three bytes of a length prefix or of a CRC ("prefix"), a length prefix without
\* its whole payload ("partial"), or a CRC ("crc").  The first safe of its pieces
\* are on disk for good.
File(frames, tail, safe) == [frames |-> frames, tail |-> tail, safe |-> safe]

\* A file before the last that a loss of power has cut: it has lost its CRC, and
\* as open refuses it, what else it has lost makes no difference.
CutFile == File(<<>>, "cut", 1)

Pieces(f) == Len(f.frames) + IF f.tail = "none" THEN 0 ELSE 1

Settled(f) == File(f.frames, f.tail, Pieces(f))

ReplaceLast(f) == [files EXCEPT ![Len(files)] = f]

\* The entries read_all returns.
Logged == UNION {ToSet(files[i].frames) : i \in DOMAIN files}

Init ==
    /\ files = <<>>
    /\ named = 0
    /\ pc = "closed"
    /\ count = 0
    /\ buffer = <<>>
    /\ acked = {}
    /\ appends = 0
    /\ rotating = FALSE
    /\ sealTorn = FALSE
    /\ fault = "none"
    /\ crashes = 0

-----------------------------------------------------------------------------
(* append.                                                                   *)

\* A file is rotated when it holds EntriesPerFile entries, or sooner when the
\* entry would take it over MAX_FILE_BYTES.
BeginAppend ==
    /\ pc = "ready"
    /\ appends < MaxAppends
    /\ appends' = appends + 1
    /\ \/ count >= EntriesPerFile /\ pc' = "seal"
       \/ 0 < count /\ count < EntriesPerFile /\ pc' \in {"seal", "prefix"}
       \/ count = 0 /\ pc' = "prefix"
    /\ UNCHANGED <<disk, count, buffer, acked, rotating, sealTorn, fault, crashes>>

\* seal_with_crc reads the file, and fs::write empties it ...
SealTruncate ==
    /\ pc = "seal"
    /\ buffer' = Last(files).frames
    /\ files' = ReplaceLast(File(<<>>, "none", 0))
    /\ rotating' = TRUE
    /\ pc' = "rewrite"
    /\ UNCHANGED <<named, count, acked, appends, sealTorn, fault, crashes>>

\* ... and writes body and CRC.  Nothing ever syncs them.
SealRewrite ==
    /\ pc = "rewrite"
    /\ files' = ReplaceLast(File(buffer, "crc", 0))
    /\ buffer' = <<>>
    /\ pc' = "create"
    /\ UNCHANGED <<named, count, acked, appends, rotating, sealTorn, fault, crashes>>

\* rotate opens the next file.
CreateFile ==
    /\ pc = "create"
    /\ files' = Append(files, File(<<>>, "none", 0))
    /\ count' = 0
    /\ pc' = "prefix"
    /\ UNCHANGED <<named, buffer, acked, appends, rotating, sealTorn, fault, crashes>>

WritePrefix ==
    /\ pc = "prefix"
    /\ files' = ReplaceLast([Last(files) EXCEPT !.tail = "partial"])
    /\ pc' = "payload"
    /\ UNCHANGED <<named, count, buffer, acked, appends, rotating, sealTorn, fault, crashes>>

WritePayload ==
    /\ pc = "payload"
    /\ files' = ReplaceLast(File(Append(Last(files).frames, appends), "none", Last(files).safe))
    /\ pc' = "sync"
    /\ UNCHANGED <<named, count, buffer, acked, appends, rotating, sealTorn, fault, crashes>>

\* Faulty: current_entry_count is not advanced.
SyncDataUncounted ==
    /\ pc = "sync"
    /\ files' = ReplaceLast(Settled(Last(files)))
    /\ named' = Len(files)
    /\ acked' = acked \cup {appends}
    /\ rotating' = FALSE
    /\ pc' = "ready"
    /\ UNCHANGED <<count, buffer, appends, sealTorn, fault, crashes>>

\* sync_data returns and append with it.
SyncData ==
    /\ pc = "sync"
    /\ files' = ReplaceLast(Settled(Last(files)))
    /\ named' = Len(files)
    /\ acked' = acked \cup {appends}
    /\ rotating' = FALSE
    /\ count' = count + 1
    /\ pc' = "ready"
    /\ UNCHANGED <<buffer, appends, sealTorn, fault, crashes>>

-----------------------------------------------------------------------------
(* Stopping.                                                                 *)

\* What may follow the first k frames of a file that is cut there.
CutTails(f, k) == IF k < Len(f.frames) \/ f.tail = "partial"
                  THEN {"none", "prefix", "partial"} ELSE {"none", "prefix"}

\* What may be left of a file.
Left(f) == {f} \cup UNION {{File(SubSeq(f.frames, 1, k), t, f.safe) : t \in CutTails(f, k)}
                            : k \in f.safe .. Pieces(f) - 1}

\* File i, with all the process is about to have written to it: a stop between
\* SealTruncate and SealRewrite may fall anywhere in the one call of fs::write.
Written(i) == IF pc = "rewrite" /\ i = Len(files) THEN File(buffer, "crc", 0) ELSE files[i]

\* The files before the n-th that are not on disk for good.
Unsynced(n) == {i \in 1 .. n - 1 : files[i].safe < Pieces(files[i])}

Stop ==
    /\ crashes < MaxCrashes
    /\ crashes' = crashes + 1
    /\ pc' = "closed"
    /\ count' = 0
    /\ buffer' = <<>>
    /\ UNCHANGED <<acked, appends, rotating, fault>>

\* The process is killed; what it wrote stays.
Crash ==
    /\ pc # "closed"
    /\ Stop
    /\ sealTorn' = (sealTorn \/ pc = "rewrite")
    /\ \/ pc # "rewrite" /\ UNCHANGED files
       \/ pc = "rewrite" /\ \E f \in Left(Written(Len(files))) : files' = ReplaceLast(f)
    /\ UNCHANGED named

\* The machine loses power: the newest files may lose their names, and each of the
\* others what was not synced.
PowerLoss ==
    /\ Stop
    /\ sealTorn' = (sealTorn \/ rotating)
    /\ \/ named = 0 /\ files' = <<>> /\ named' = 0
       \/ \E n \in 1 .. Len(files) :
          /\ named <= n
          /\ named' = n
          /\ \E last \in Left(Written(n)), cut \in SUBSET Unsynced(n) :
                files' = [i \in 1 .. n |-> IF i = n THEN Settled(last)
                                           ELSE IF i \in cut THEN CutFile
                                           ELSE Settled(files[i])]

-----------------------------------------------------------------------------
(* Coming back.                                                              *)

\* Faulty: only the newest sealed file is verified.
VerifiedNewest == Len(files) > 1 => files[Len(files) - 1].tail = "crc"

\* verify_sealed_crc of every file but the last.
Verified == \A i \in 1 .. Len(files) - 1 : files[i].tail = "crc"

\* Faulty: the partial frame stays.
RecoverOpenFileKeep(f) == f

\* recover_open_file drops what starts with a whole length prefix and is cut
\* short; a CRC reads as such a prefix.  Its loop ends before it looks at a
\* prefix of less than four bytes.
RecoverOpenFile(f) ==
    IF f.tail \in {"partial", "crc"}
    THEN File(f.frames, "none", IF f.safe > Len(f.frames) THEN Len(f.frames) ELSE f.safe)
    ELSE f

Open ==
    /\ pc = "closed"
    /\ \/ /\ files = <<>>
          /\ files' = <<File(<<>>, "none", 0)>>
          /\ count' = 0
          /\ pc' = "opened"
          /\ UNCHANGED fault
       \/ /\ files # <<>> /\ Verified
          /\ files' = ReplaceLast(RecoverOpenFile(Last(files)))
          /\ count' = Len(Last(files).frames)
          /\ pc' = "opened"
          /\ UNCHANGED fault
       \/ /\ files # <<>> /\ ~Verified
          /\ fault' = "CorruptCrc"
          /\ UNCHANGED <<files, count, pc>>
    /\ UNCHANGED <<named, buffer, acked, appends, rotating, sealTorn, crashes>>

\* read_all fails on bytes it cannot read as frames, and warm start with it.
ReadAll ==
    /\ pc = "opened"
    /\ \/ /\ Last(files).tail = "none"
          /\ pc' = "ready"
          /\ fault' = "none"
          /\ UNCHANGED count
       \/ /\ Last(files).tail # "none"
          /\ pc' = "closed"
          /\ fault' = "Io"
          /\ count' = 0
    /\ UNCHANGED <<disk, buffer, acked, appends, rotating, sealTorn, crashes>>

-----------------------------------------------------------------------------

Proceed ==
    \/ SealTruncate \/ SealRewrite \/ CreateFile
    \/ WritePrefix \/ WritePayload \/ SyncData
    \/ Open \/ ReadAll

Next == BeginAppend \/ Proceed \/ Crash \/ PowerLoss

Spec == Init /\ [][Next]_vars

\* One thread, which the supervisor restarts.
FairSpec == Spec /\ WF_vars(Proceed)

-----------------------------------------------------------------------------
(* Properties.                                                               *)

\* The entries are in the order of the append calls, across all the files.
InAppendOrder ==
    \A i, j \in DOMAIN files :
        \A m \in DOMAIN files[i].frames, n \in DOMAIN files[j].frames :
            i < j \/ (i = j /\ m < n) => files[i].frames[m] < files[j].frames[n]

\* Whenever the log can be read, its entries are in the order of the append calls,
\* and every entry that append has returned Ok for is among them, unless the process
\* stopped while seal_with_crc rewrote a file in place, or the machine stopped after
\* a rotation had begun and before an append returned again.  In
\* particular, a sealed file that a loss of power cuts later, as it was never synced,
\* makes open fail and is never read as a shorter log.
AckedReadable ==
    pc \in {"opened", "ready"} =>
        InAppendOrder /\ (~sealTorn => acked \subseteq Logged)

\* current_entry_count, which decides the next rotation, is the number of
\* frames in the last file after any mix of appends, rotations and recoveries.
CountExact == pc = "ready" => count = Len(Last(files).frames)

\* A store that was stopped becomes readable again: open and read_all accept
\* whatever a stop leaves, the torn rewrite of a seal included, except less than a
\* whole length prefix at the end of the last file, and a sealed file cut by a loss
\* of power.
Reopens ==
    (pc = "closed") ~> (pc = "ready" \/ ~Verified \/ (files # <<>> /\ Last(files).tail = "prefix"))

=============================================================================
