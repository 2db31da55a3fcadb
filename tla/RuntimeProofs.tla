--------------------------- MODULE RuntimeProofs ---------------------------
(* Two parts of the runtime that share no state: the write-ahead log's files  *)
(* hold what append acknowledged, for any number of appends and stops; and no *)
(* lane of the merge starves, for any number of peers.                        *)
EXTENDS FileWalStore, FairMerge, SequenceTheorems, TLAPS

Tails == {"none", "prefix", "partial", "crc", "cut"}
Files == [frames : Seq(Nat), tail : Tails, safe : Nat]
Appending == {"seal", "rewrite", "create", "prefix", "payload"}
Places == Appending \cup {"ready", "sync", "closed", "opened"}

FileType ==
    /\ files \in Seq(Files) /\ named \in Nat /\ pc \in Places
    /\ count \in Nat /\ buffer \in Seq(Nat) /\ acked \in SUBSET Nat
    /\ appends \in Nat /\ rotating \in BOOLEAN /\ sealTorn \in BOOLEAN
    /\ pc # "closed" => files # <<>>

\* The frames of file i, those of the buffer while seal_with_crc rewrites it.
Frames(i) == Written(i).frames

\* The entries are those of the append calls so far, and the one under way is not
\* among them before its payload is written, nor acknowledged before it is synced.
Bounded ==
    /\ \A i \in DOMAIN files : \A m \in DOMAIN Frames(i) :
          Frames(i)[m] <= appends /\ (pc \in Appending => Frames(i)[m] < appends)
    /\ \A e \in acked : e <= appends /\ (pc \in Appending \cup {"sync"} => e < appends)

\* InAppendOrder, with the buffer in the place of the file it was read from.
Ordered ==
    \A i, j \in DOMAIN files :
        \A m \in DOMAIN Frames(i), n \in DOMAIN Frames(j) :
            i < j \/ (i = j /\ m < n) => Frames(i)[m] < Frames(j)[n]

\* A file is rewritten during a rotation only, and before sync_data the entry of the
\* append under way is the last of the last file.
Sealing == pc \in {"rewrite", "create"} => rotating
AtSync == pc = "sync" => \E m \in DOMAIN Frames(Len(files)) : Frames(Len(files))[m] = appends

\* What was acknowledged is in some file.
Kept == \A e \in acked : \E i \in DOMAIN files : \E m \in DOMAIN Frames(i) : Frames(i)[m] = e

\* Outside a rotation a loss of power can take neither a file's name nor an
\* acknowledged entry of the last file.
Synced ==
    /\ acked = {} \/ named = Len(files)
    /\ files # <<>> => \A m \in DOMAIN Frames(Len(files)) :
          Frames(Len(files))[m] \in acked => m <= files[Len(files)].safe

\* A sealed file was cut, and open will find it.
Refused == pc = "closed" /\ named = Len(files) /\ ~Verified

Durable == ~sealTorn => Refused \/ (Kept /\ (~rotating => Synced))

IInv == FileType /\ Bounded /\ Ordered /\ Sealing /\ AtSync /\ Durable

-----------------------------------------------------------------------------
(* Files, and what a stop and recovery make of them.                         *)

\* Which indexes of l files are among the first n.
LEMMA IndexRange ==
    ASSUME NEW l \in Nat, NEW n \in 1..l
    PROVE  /\ n \in Nat /\ n >= 1 /\ n \in 1..n
           /\ \A i \in 1..n : i \in 1..l /\ (i # n => i # l /\ i \in 1..n - 1)
           /\ \A i \in 1..n - 1 : i \in 1..n /\ i # n
           /\ l <= n => n = l
  OBVIOUS

\* The last file of a log that has one.
LEMMA LastFile ==
    ASSUME NEW s \in Seq(Files), s # <<>>
    PROVE  /\ Len(s) \in Nat /\ Len(s) >= 1 /\ DOMAIN s = 1..Len(s)
           /\ Len(s) \in DOMAIN s
           /\ Last(s) = s[Len(s)] /\ Last(s) \in Files
           /\ \A i \in DOMAIN s : s[i] \in Files
  <1>1. Len(s) \in Nat /\ Len(s) >= 1 /\ DOMAIN s = 1..Len(s)
    BY EmptySeq, LenProperties
  <1>2. \A i \in 1..Len(s) : s[i] \in Files
    BY ElementOfSeq, Zenon
  <1>3. Len(s) \in 1..Len(s)
    BY <1>1
  <1> QED
    BY <1>1, <1>2, <1>3 DEF Last

\* The last file replaced.
LEMMA Replaced ==
    ASSUME files \in Seq(Files), files # <<>>, NEW g \in Files, files' = ReplaceLast(g)
    PROVE  /\ files' \in Seq(Files) /\ Len(files') = Len(files) /\ files' # <<>>
           /\ DOMAIN files' = DOMAIN files
           /\ files'[Len(files)] = g
           /\ \A i \in DOMAIN files : i # Len(files) => files'[i] = files[i]
  <1>1. Len(files) \in Nat /\ Len(files) >= 1 /\ DOMAIN files = 1..Len(files)
          /\ Len(files) \in DOMAIN files
    BY LastFile
  <1>2. files' = [files EXCEPT ![Len(files)] = g]
    BY DEF ReplaceLast
  <1>3. files' \in Seq(Files) /\ Len(files') = Len(files)
    BY <1>1, <1>2, ExceptSeq
  <1>4. /\ DOMAIN files' = DOMAIN files
        /\ files'[Len(files)] = g
        /\ \A i \in DOMAIN files : i # Len(files) => files'[i] = files[i]
    BY <1>1, <1>2
  <1>5. files' # <<>>
    BY <1>1, <1>3, EmptySeq
  <1> QED
    BY <1>3, <1>4, <1>5

\* A file is made of its parts.
LEMMA FileParts ==
    ASSUME NEW f \in Seq(Nat), NEW t \in Tails, NEW k \in Nat
    PROVE  /\ File(f, t, k) \in Files
           /\ File(f, t, k).frames = f /\ File(f, t, k).tail = t /\ File(f, t, k).safe = k
  BY DEF File, Files

\* How many pieces a file has: its frames, and one more if something follows them.
LEMMA PiecesBound ==
    ASSUME NEW f \in Files
    PROVE  /\ Len(f.frames) \in Nat /\ Pieces(f) \in Nat
           /\ Len(f.frames) <= Pieces(f) /\ Pieces(f) <= Len(f.frames) + 1
  <1>1. Len(f.frames) \in Nat
    BY LenProperties DEF Files
  <1>2. CASE f.tail = "none"
    <2>1. Pieces(f) = Len(f.frames) + 0
      BY <1>2 DEF Pieces
    <2> QED
      BY <1>1, <2>1
  <1>3. CASE f.tail # "none"
    <2>1. Pieces(f) = Len(f.frames) + 1
      BY <1>3 DEF Pieces
    <2> QED
      BY <1>1, <2>1
  <1> QED
    BY <1>2, <1>3

\* The first frames of a file.
LEMMA FirstFrames ==
    ASSUME NEW s \in Seq(Nat), NEW k \in Nat, k <= Len(s)
    PROVE  /\ SubSeq(s, 1, k) \in Seq(Nat) /\ Len(SubSeq(s, 1, k)) = k
           /\ DOMAIN SubSeq(s, 1, k) = 1..k
           /\ \A m \in 1..k : m \in DOMAIN s /\ SubSeq(s, 1, k)[m] = s[m]
  <1>1. Len(s) \in Nat /\ DOMAIN s = 1..Len(s)
    BY LenProperties
  <1>2. \A m \in 1..k : m \in 1..Len(s)
    BY <1>1
  <1>3. \A m \in 1..k : s[m] \in Nat
    BY <1>2, ElementOfSeq, Zenon
  <1>4. SubSeq(s, 1, k) \in Seq(Nat)
    BY <1>3, SubSeqProperties
  <1>5. Len(SubSeq(s, 1, k)) = k
    BY <1>1
  <1>6. \A m \in 1..k : SubSeq(s, 1, k)[m] = s[m]
    BY <1>1
  <1> QED
    BY <1>1, <1>2, <1>4, <1>5, <1>6, LenProperties

\* A stop leaves of a file its first frames, the safe ones among them.
LEMMA LeftIsPrefix ==
    ASSUME NEW f \in Files, NEW g \in Left(f)
    PROVE  /\ g \in Files
           /\ \A m \in DOMAIN g.frames : m \in DOMAIN f.frames /\ g.frames[m] = f.frames[m]
           /\ \A m \in DOMAIN f.frames : m <= f.safe =>
                 m \in DOMAIN g.frames /\ g.frames[m] = f.frames[m]
  <1>1. CASE g = f
    BY <1>1
  <1>2. CASE g # f
    <2>1. PICK k \in f.safe .. Pieces(f) - 1 : \E t \in CutTails(f, k) :
             g = File(SubSeq(f.frames, 1, k), t, f.safe)
      BY <1>2 DEF Left
    <2>2. PICK t \in CutTails(f, k) : g = File(SubSeq(f.frames, 1, k), t, f.safe)
      BY <2>1
    <2>3. t \in Tails
      BY DEF CutTails, Tails
    <2>4. f.frames \in Seq(Nat) /\ f.safe \in Nat /\ Len(f.frames) \in Nat
            /\ DOMAIN f.frames = 1..Len(f.frames)
      BY LenProperties DEF Files
    <2>5. k \in Nat /\ k <= Len(f.frames) /\ f.safe <= k
      BY <2>4, PiecesBound
    <2>6. /\ SubSeq(f.frames, 1, k) \in Seq(Nat)
          /\ DOMAIN SubSeq(f.frames, 1, k) = 1..k
          /\ \A m \in 1..k : /\ m \in DOMAIN f.frames
                             /\ SubSeq(f.frames, 1, k)[m] = f.frames[m]
      BY <2>4, <2>5, FirstFrames
    <2>7. g \in Files /\ g.frames = SubSeq(f.frames, 1, k)
      <3>1. SubSeq(f.frames, 1, k) \in Seq(Nat) /\ f.safe \in Nat
        BY <2>4, <2>6
      <3>2. /\ File(SubSeq(f.frames, 1, k), t, f.safe) \in Files
            /\ File(SubSeq(f.frames, 1, k), t, f.safe).frames = SubSeq(f.frames, 1, k)
        BY <2>3, <3>1 DEF File, Files
      <3> QED
        BY <2>2, <3>2
    <2>8. \A m \in DOMAIN f.frames : m <= f.safe => m \in 1..k
      BY <2>4, <2>5
    <2> QED
      BY <2>6, <2>7, <2>8, Zenon
  <1> QED
    BY <1>1, <1>2

\* What is on disk for good is the same file, all of it safe.
LEMMA SettledFile ==
    ASSUME NEW f \in Files
    PROVE  /\ Settled(f) \in Files
           /\ Settled(f).frames = f.frames /\ Settled(f).tail = f.tail
           /\ \A m \in DOMAIN f.frames : m <= Settled(f).safe
  <1>1. f.frames \in Seq(Nat) /\ f.tail \in Tails /\ Pieces(f) \in Nat
    BY PiecesBound DEF Files
  <1>2. /\ Settled(f) \in Files /\ Settled(f).frames = f.frames
        /\ Settled(f).tail = f.tail /\ Settled(f).safe = Pieces(f)
    BY <1>1, FileParts DEF Settled
  <1>3. \A m \in DOMAIN f.frames : m <= Pieces(f)
    BY <1>1, PiecesBound, LenProperties
  <1> QED
    BY <1>2, <1>3

\* recover_open_file keeps every whole frame, and what was safe stays so.
LEMMA RecoveredFile ==
    ASSUME NEW f \in Files
    PROVE  /\ RecoverOpenFile(f) \in Files
           /\ RecoverOpenFile(f).frames = f.frames
           /\ \A m \in DOMAIN f.frames : m <= f.safe => m <= RecoverOpenFile(f).safe
  <1>1. CASE f.tail \in {"partial", "crc"}
    <2> DEFINE s == IF f.safe > Len(f.frames) THEN Len(f.frames) ELSE f.safe
    <2>1. f.frames \in Seq(Nat) /\ f.safe \in Nat /\ Len(f.frames) \in Nat
            /\ DOMAIN f.frames = 1..Len(f.frames)
      BY LenProperties DEF Files
    <2>2. s \in Nat /\ \A m \in DOMAIN f.frames : m <= f.safe => m <= s
      BY <2>1
    <2>3. RecoverOpenFile(f) = File(f.frames, "none", s)
      BY <1>1 DEF RecoverOpenFile
    <2>4. "none" \in Tails
      BY DEF Tails
    <2> HIDE DEF s
    <2>5. /\ RecoverOpenFile(f) \in Files /\ RecoverOpenFile(f).frames = f.frames
          /\ RecoverOpenFile(f).safe = s
      BY <2>1, <2>2, <2>3, <2>4, FileParts
    <2> QED
      BY <2>2, <2>5
  <1>2. CASE f.tail \notin {"partial", "crc"}
    BY <1>2 DEF RecoverOpenFile
  <1> QED
    BY <1>1, <1>2

-----------------------------------------------------------------------------
(* Most steps leave of the log's entries some or all, where they were.       *)

\* A step after which every frame is one that was there, at the same place.
Shrinks ==
    \A i \in DOMAIN files' : \A m \in DOMAIN Frames(i)' :
        i \in DOMAIN files /\ m \in DOMAIN Frames(i) /\ Frames(i)'[m] = Frames(i)[m]

\* A step after which every frame is there that was.
SameFrames == /\ Len(files') = Len(files) /\ DOMAIN files' = DOMAIN files
              /\ \A i \in DOMAIN files : Frames(i)' = Frames(i)

\* Outside seal_with_crc the frames are those of the file.
LEMMA FramesOfFile ==
    ASSUME NEW i
    PROVE  /\ pc # "rewrite" => Frames(i) = files[i].frames
           /\ i # Len(files) => Frames(i) = files[i].frames
           /\ pc' # "rewrite" => Frames(i)' = files'[i].frames
           /\ i # Len(files') => Frames(i)' = files'[i].frames
  BY DEF Frames, Written

\* Within it those of the last file are in the buffer.
LEMMA FramesOfBuffer ==
    /\ pc = "rewrite" => Frames(Len(files)) = buffer
    /\ pc' = "rewrite" => Frames(Len(files))' = buffer'
  BY DEF Frames, Written, File

\* An action that leaves the frames alone takes none away.
LEMMA SameShrinks == SameFrames => Shrinks
  BY DEF SameFrames, Shrinks

\* Frames are entries.
LEMMA FramesType ==
    ASSUME FileType, NEW i \in DOMAIN files
    PROVE  /\ Frames(i) \in Seq(Nat) /\ Len(Frames(i)) \in Nat
           /\ DOMAIN Frames(i) = 1..Len(Frames(i))
           /\ \A m \in DOMAIN Frames(i) : Frames(i)[m] \in Nat
  <1>1. buffer \in Seq(Nat) /\ files \in Seq(Files)
    BY DEF FileType
  <1>2. files[i] \in Files
    <2>1. DOMAIN files = 1..Len(files)
      BY <1>1, LenProperties
    <2> QED
      BY <1>1, <2>1, ElementOfSeq, Zenon
  <1>3. files[i].frames \in Seq(Nat)
    BY <1>2 DEF Files
  <1>4. Frames(i) \in Seq(Nat)
    <2>1. CASE pc = "rewrite" /\ i = Len(files)
      BY <1>1, <2>1, FramesOfBuffer
    <2>2. CASE ~(pc = "rewrite" /\ i = Len(files))
      BY <1>3, <2>2, FramesOfFile
    <2> QED
      BY <2>1, <2>2
  <1>5. Len(Frames(i)) \in Nat /\ DOMAIN Frames(i) = 1..Len(Frames(i))
    BY <1>4, LenProperties
  <1> QED
    BY <1>4, <1>5, ElementOfSeq, Zenon

\* Frames taken off leave the others in order.
LEMMA ShrinksOrdered == Ordered /\ Shrinks => Ordered'
  <1> SUFFICES ASSUME Ordered, Shrinks,
                      NEW i \in DOMAIN files', NEW j \in DOMAIN files',
                      NEW m \in DOMAIN Frames(i)', NEW n \in DOMAIN Frames(j)',
                      i < j \/ (i = j /\ m < n)
               PROVE  Frames(i)'[m] < Frames(j)'[n]
    BY DEF Ordered
  <1>1. /\ i \in DOMAIN files /\ m \in DOMAIN Frames(i) /\ Frames(i)'[m] = Frames(i)[m]
        /\ j \in DOMAIN files /\ n \in DOMAIN Frames(j) /\ Frames(j)'[n] = Frames(j)[n]
    BY Zenon DEF Shrinks
  <1>2. Frames(i)[m] < Frames(j)[n]
    BY <1>1, Zenon DEF Ordered
  <1> QED
    BY <1>1, <1>2, Zenon

\* Nor is any beyond the append calls so far.
LEMMA ShrinksBounded ==
    ASSUME Bounded, Shrinks, acked' = acked, appends' = appends,
           pc' \in Appending => pc \in Appending,
           pc' \in Appending \cup {"sync"} => pc \in Appending \cup {"sync"}
    PROVE  Bounded'
  <1>1. ASSUME NEW i \in DOMAIN files', NEW m \in DOMAIN Frames(i)'
        PROVE  /\ Frames(i)'[m] <= appends'
               /\ pc' \in Appending => Frames(i)'[m] < appends'
    <2>1. i \in DOMAIN files /\ m \in DOMAIN Frames(i) /\ Frames(i)'[m] = Frames(i)[m]
      BY Zenon DEF Shrinks
    <2>2. Frames(i)[m] <= appends /\ (pc \in Appending => Frames(i)[m] < appends)
      BY <2>1, Zenon DEF Bounded
    <2> QED
      BY <2>1, <2>2, Zenon
  <1>2. ASSUME NEW e \in acked'
        PROVE  e <= appends' /\ (pc' \in Appending \cup {"sync"} => e < appends')
    <2>1. e <= appends /\ (pc \in Appending \cup {"sync"} => e < appends)
      BY Zenon DEF Bounded
    <2> QED
      BY <2>1, Zenon
  <1> QED
    BY <1>1, <1>2, Zenon DEF Bounded

\* Where no frame is taken off, nothing acknowledged is lost.
LEMMA SameKept == SameFrames /\ acked' = acked /\ Kept => Kept'
  BY Zenon DEF SameFrames, Kept

\* Replacing the last file by one with the same frames, while it is not rewritten.
LEMMA ReplacedSame ==
    ASSUME FileType, files # <<>>, NEW g \in Files, files' = ReplaceLast(g),
           g.frames = files[Len(files)].frames, pc # "rewrite", pc' # "rewrite"
    PROVE  SameFrames
  <1>0. files \in Seq(Files)
    BY DEF FileType
  <1>1. /\ Len(files') = Len(files) /\ DOMAIN files' = DOMAIN files
        /\ files'[Len(files)] = g
        /\ \A i \in DOMAIN files : i # Len(files) => files'[i] = files[i]
    BY <1>0, Replaced
  <1>2. ASSUME NEW i \in DOMAIN files PROVE Frames(i)' = Frames(i)
    <2>1. Frames(i) = files[i].frames /\ Frames(i)' = files'[i].frames
      BY FramesOfFile
    <2>2. CASE i = Len(files)
      BY <1>1, <2>1, <2>2, Zenon
    <2>3. CASE i # Len(files)
      BY <1>1, <2>1, <2>3, Zenon
    <2> QED
      BY <2>2, <2>3
  <1> QED
    BY <1>1, <1>2, Zenon DEF SameFrames

\* Unchanged files outside seal_with_crc keep their frames.
LEMMA UnchangedSame ==
    ASSUME files' = files, pc # "rewrite", pc' # "rewrite"
    PROVE  SameFrames
  <1>1. ASSUME NEW i \in DOMAIN files PROVE Frames(i)' = Frames(i)
    BY FramesOfFile
  <1> QED
    BY <1>1 DEF SameFrames

-----------------------------------------------------------------------------
(* The invariant.                                                            *)

\* An empty directory holds what was acknowledged: nothing.
LEMMA InitHolds == Init => IInv
  <1> SUFFICES ASSUME Init PROVE IInv
    OBVIOUS
  <1>1. <<>> \in Seq(Nat) /\ <<>> \in Seq(Files)
    BY EmptySeq
  <1>2. DOMAIN files = {}
    BY DEF Init
  <1>3. FileType
    BY <1>1 DEF Init, FileType, Places
  <1>4. Bounded /\ Ordered /\ Sealing /\ AtSync
    BY <1>2 DEF Init, Bounded, Ordered, Sealing, AtSync
  <1>5. Kept /\ Synced
    BY DEF Init, Kept, Synced
  <1> QED
    BY <1>3, <1>4, <1>5 DEF IInv, Durable

\* A step that keeps all frames, and what is safe of the last file, keeps the invariant.
LEMMA SameKeeps ==
    ASSUME IInv, FileType', SameFrames, Sealing',
           acked' = acked, appends' = appends, sealTorn => sealTorn',
           pc' \in Appending => pc \in Appending, pc' = "sync" => pc = "sync",
           ~sealTorn' /\ Refused => Refused',
           ~rotating' => /\ ~rotating /\ named' = named
                         /\ files # <<>> => \A m \in DOMAIN Frames(Len(files)) :
                              m <= files[Len(files)].safe => m <= files'[Len(files)].safe
    PROVE  IInv'
  <1>1. Shrinks
    BY SameShrinks, Zenon
  <1>2. Ordered' /\ Bounded'
    <2>1. pc' \in Appending \cup {"sync"} => pc \in Appending \cup {"sync"}
      BY Zenon
    <2>2. Ordered /\ Bounded
      BY DEF IInv
    <2> QED
      BY <1>1, <2>1, <2>2, ShrinksOrdered, ShrinksBounded
  <1>3. files = <<>> <=> files' = <<>>
    <2>1. files \in Seq(Files) /\ files' \in Seq(Files) /\ Len(files') = Len(files)
      BY DEF IInv, FileType, SameFrames
    <2> QED
      BY <2>1, EmptySeq
  <1>4. files # <<>> => Frames(Len(files))' = Frames(Len(files))
    <2>1. files # <<>> => Len(files) \in DOMAIN files
      BY LastFile DEF IInv, FileType
    <2>2. ASSUME NEW l, l = Len(files), l \in DOMAIN files
          PROVE  Frames(Len(files))' = Frames(Len(files))
      <3>1. Len(files') = l /\ Frames(l)' = Frames(l)
        BY <2>2, Zenon DEF SameFrames
      <3>2. Frames(Len(files))' = Frames(l)'
        BY <3>1 DEF Frames, Written
      <3> QED
        BY <2>2, <3>1, <3>2, Zenon
    <2> QED
      BY <2>1, <2>2, Zenon
  <1>5. AtSync'
    <2> SUFFICES ASSUME pc' = "sync"
                 PROVE  \E m \in DOMAIN Frames(Len(files))' : Frames(Len(files))'[m] = appends'
      BY DEF AtSync
    <2>1. files # <<>> /\ \E m \in DOMAIN Frames(Len(files)) : Frames(Len(files))[m] = appends
      BY DEF IInv, FileType, AtSync
    <2> QED
      BY <1>4, <2>1, Zenon
  <1>6. Durable'
    <2> SUFFICES ASSUME ~sealTorn', ~Refused PROVE Kept' /\ (~rotating' => Synced')
      BY DEF Durable
    <2>1. Kept /\ (~rotating => Synced)
      BY Zenon DEF IInv, Durable
    <2>2. Kept'
      BY <2>1, SameKept, Zenon
    <2>3. ASSUME ~rotating' PROVE Synced'
      <3>1. Synced /\ named' = named /\ Len(files') = Len(files)
        BY <2>1, <2>3, Zenon DEF SameFrames
      <3>2. acked' = {} \/ named' = Len(files')
        BY <3>1, Zenon DEF Synced
      <3>3. ASSUME files' # <<>>, NEW m \in DOMAIN Frames(Len(files))',
                   Frames(Len(files))'[m] \in acked'
            PROVE  m <= files'[Len(files')].safe
        <4>1. files # <<>> /\ m \in DOMAIN Frames(Len(files))
                /\ Frames(Len(files))[m] \in acked
          BY <1>3, <1>4, <3>3, Zenon
        <4>2. m <= files[Len(files)].safe
          BY <3>1, <4>1, Zenon DEF Synced
        <4> QED
          BY <2>3, <3>1, <4>1, <4>2, Zenon
      <3> QED
        BY <3>2, <3>3, Zenon DEF Synced
    <2> QED
      BY <2>2, <2>3, Zenon
  <1>7. FileType' /\ Sealing'
    OBVIOUS
  <1> QED
    BY <1>2, <1>5, <1>6, <1>7 DEF IInv

\* The start of an append numbers it.
LEMMA BeginKeeps == IInv /\ BeginAppend => IInv'
  <1> SUFFICES ASSUME IInv, BeginAppend PROVE IInv'
    OBVIOUS
  <1>0. FileType
    BY DEF IInv
  <1>1. /\ files' = files /\ named' = named /\ acked' = acked /\ rotating' = rotating
        /\ sealTorn' = sealTorn /\ appends' = appends + 1 /\ pc = "ready"
        /\ pc' \in {"seal", "prefix"} /\ buffer' = buffer /\ count' = count
    BY DEF BeginAppend, disk
  <1>2. FileType'
    <2>1. appends' \in Nat /\ pc' \in Places /\ files' # <<>>
      BY <1>0, <1>1 DEF FileType, Places, Appending
    <2> QED
      BY <1>0, <1>1, <2>1 DEF FileType
  <1>3. SameFrames
    BY <1>1, UnchangedSame
  <1>4. Bounded'
    <2>1. ASSUME NEW i \in DOMAIN files', NEW m \in DOMAIN Frames(i)'
          PROVE  Frames(i)'[m] <= appends' /\ Frames(i)'[m] < appends'
      <3>1. i \in DOMAIN files /\ m \in DOMAIN Frames(i) /\ Frames(i)'[m] = Frames(i)[m]
        BY <1>3, Zenon DEF SameFrames
      <3>2. Frames(i)[m] <= appends /\ Frames(i)[m] \in Nat /\ appends \in Nat
        BY <1>0, <3>1, FramesType DEF IInv, Bounded, FileType
      <3>3. Frames(i)[m] <= appends + 1 /\ Frames(i)[m] < appends + 1
        BY <3>2
      <3> QED
        BY <1>1, <3>1, <3>3, Zenon
    <2>2. ASSUME NEW e \in acked' PROVE e <= appends' /\ e < appends'
      <3>1. e <= appends /\ e \in Nat /\ appends \in Nat
        BY <1>0, <1>1 DEF IInv, Bounded, FileType
      <3> QED
        BY <1>1, <3>1
    <2> QED
      BY <2>1, <2>2, Zenon DEF Bounded
  <1>5. Ordered'
    BY <1>3, SameShrinks, ShrinksOrdered, Zenon DEF IInv
  <1>6. Sealing' /\ AtSync'
    BY <1>1 DEF Sealing, AtSync
  <1>7. Durable'
    <2> SUFFICES ASSUME ~sealTorn' PROVE Kept' /\ (~rotating' => Synced')
      BY DEF Durable
    <2>1. Kept /\ (~rotating => Synced)
      BY <1>1 DEF IInv, Durable, Refused
    <2>2. Kept'
      BY <1>1, <1>3, <2>1, SameKept, Zenon
    <2>3. Frames(Len(files))' = Frames(Len(files))
      BY <1>1 DEF Frames, Written
    <2>4. Synced => Synced'
      BY <1>1, <2>3 DEF Synced
    <2> QED
      BY <1>1, <2>1, <2>2, <2>4, Zenon
  <1> QED
    BY <1>2, <1>4, <1>5, <1>6, <1>7 DEF IInv

\* Sealing moves the frames of the last file into the buffer and back.
LEMMA SealKeeps == IInv /\ (SealTruncate \/ SealRewrite) => IInv'
  <1> SUFFICES ASSUME IInv, SealTruncate \/ SealRewrite PROVE IInv'
    OBVIOUS
  <1>0. FileType /\ <<>> \in Seq(Nat)
    BY EmptySeq DEF IInv
  <1>a. /\ files \in Seq(Files) /\ files # <<>> /\ buffer \in Seq(Nat)
        /\ acked' = acked /\ appends' = appends /\ sealTorn' = sealTorn
        /\ named' = named /\ count' = count
        /\ pc \in {"seal", "rewrite"} /\ pc' \in {"rewrite", "create"}
    BY <1>0 DEF FileType, SealTruncate, SealRewrite
  <1>b. /\ Len(files) \in DOMAIN files /\ Last(files) = files[Len(files)]
        /\ Last(files) \in Files
    BY <1>a, LastFile
  <1>c. Last(files).frames \in Seq(Nat)
    BY <1>b DEF Files
  <1>d. rotating' = TRUE
    BY DEF SealTruncate, SealRewrite, IInv, Sealing
  <1>1. PICK g \in Files : files' = ReplaceLast(g)
                /\ (SealRewrite => g.frames = buffer)
    <2>1. CASE SealTruncate
      <3>1. File(<<>>, "none", 0) \in Files
        BY <1>0 DEF File, Files, Tails
      <3>2. files' = ReplaceLast(File(<<>>, "none", 0)) /\ ~SealRewrite
        BY <2>1 DEF SealTruncate, SealRewrite
      <3> QED
        BY <3>1, <3>2, Zenon
    <2>2. CASE SealRewrite
      <3>1. File(buffer, "crc", 0) \in Files /\ File(buffer, "crc", 0).frames = buffer
        BY <1>a DEF File, Files, Tails
      <3>2. files' = ReplaceLast(File(buffer, "crc", 0))
        BY <2>2 DEF SealRewrite
      <3> QED
        BY <3>1, <3>2, Zenon
    <2> QED
      BY <2>1, <2>2
  <1>2. /\ files' \in Seq(Files) /\ Len(files') = Len(files) /\ files' # <<>>
        /\ DOMAIN files' = DOMAIN files /\ files'[Len(files)] = g
        /\ \A i \in DOMAIN files : i # Len(files) => files'[i] = files[i]
    BY <1>a, <1>1, Replaced
  <1>3. SameFrames
    <2>1. ASSUME NEW i \in DOMAIN files PROVE Frames(i)' = Frames(i)
      <3>1. CASE i # Len(files)
        BY <1>2, <3>1, FramesOfFile
      <3>2. CASE i = Len(files) /\ SealTruncate
        <4>1. Frames(i) = Last(files).frames
          BY <1>b, <3>2, FramesOfFile DEF SealTruncate
        <4>2. Frames(i)' = buffer'
          BY <1>2, <3>2 DEF SealTruncate, Frames, Written, File
        <4> QED
          BY <3>2, <4>1, <4>2 DEF SealTruncate
      <3>3. CASE i = Len(files) /\ SealRewrite
        <4>1. Frames(i) = buffer
          BY <3>3 DEF SealRewrite, Frames, Written, File
        <4>2. Frames(i)' = files'[i].frames
          BY <3>3, FramesOfFile DEF SealRewrite
        <4> QED
          BY <1>1, <1>2, <3>3, <4>1, <4>2
      <3> QED
        BY <3>1, <3>2, <3>3
    <2> QED
      BY <1>2, <2>1, Zenon DEF SameFrames
  <1>4. FileType'
    <2>1. buffer' \in Seq(Nat)
      BY <1>0, <1>c DEF SealTruncate, SealRewrite
    <2>2. pc' \in Places
      BY <1>a DEF Places, Appending
    <2> QED
      BY <1>0, <1>a, <1>d, <1>2, <2>1, <2>2 DEF FileType
  <1>5. Sealing'
    BY <1>d DEF Sealing
  <1>6. pc \in Appending /\ pc' # "sync" /\ ~Refused
    BY <1>a DEF Appending, Refused
  <1> QED
    BY <1>a, <1>d, <1>3, <1>4, <1>5, <1>6, SameKeeps

\* The new file of a rotation is empty.
LEMMA CreateKeeps == IInv /\ CreateFile => IInv'
  <1> SUFFICES ASSUME IInv, CreateFile PROVE IInv'
    OBVIOUS
  <1> DEFINE g == File(<<>>, "none", 0)
  <1>0. FileType
    BY DEF IInv
  <1>a. /\ files \in Seq(Files) /\ pc = "create" /\ pc' = "prefix" /\ rotating
        /\ acked' = acked /\ appends' = appends /\ sealTorn' = sealTorn
        /\ named' = named /\ count' = 0 /\ buffer' = buffer /\ rotating' = rotating
        /\ files' = Append(files, g)
    BY <1>0 DEF FileType, CreateFile, IInv, Sealing
  <1>b. g \in Files /\ g.frames = <<>>
    BY EmptySeq DEF File, Files, Tails
  <1>1. /\ files' \in Seq(Files) /\ files' # <<>> /\ Len(files') = Len(files) + 1
        /\ files'[Len(files) + 1] = g
        /\ \A i \in 1..Len(files) : files'[i] = files[i]
    BY <1>a, <1>b, AppendProperties
  <1>2. /\ Len(files) \in Nat /\ DOMAIN files = 1..Len(files)
        /\ DOMAIN files' = 1..Len(files) + 1
    BY <1>a, <1>1, LenProperties
  <1>3. ASSUME NEW i \in DOMAIN files PROVE i \in DOMAIN files' /\ Frames(i)' = Frames(i)
    <2>1. i \in DOMAIN files' /\ files'[i] = files[i]
      BY <1>1, <1>2
    <2> QED
      BY <1>a, <2>1, FramesOfFile
  <1>4. ASSUME NEW i \in DOMAIN files', i \notin DOMAIN files PROVE DOMAIN Frames(i)' = {}
    <2>1. i = Len(files) + 1
      BY <1>2, <1>4
    <2>2. Frames(i)' = <<>>
      BY <1>a, <1>b, <1>1, <2>1, FramesOfFile
    <2> QED
      BY <2>2
  <1>5. Shrinks
    BY <1>3, <1>4, Zenon DEF Shrinks
  <1>6. FileType'
    <2>1. pc' \in Places
      BY <1>a DEF Places, Appending
    <2> QED
      BY <1>0, <1>a, <1>1, <2>1 DEF FileType
  <1>7. Bounded' /\ Ordered'
    <2>1. pc \in Appending /\ Bounded /\ Ordered
      BY <1>a DEF Appending, IInv
    <2> QED
      BY <1>a, <1>5, <2>1, ShrinksBounded, ShrinksOrdered
  <1>8. Sealing' /\ AtSync'
    BY <1>a DEF Sealing, AtSync
  <1>9. Durable'
    <2> SUFFICES ASSUME ~sealTorn' PROVE Kept'
      BY <1>a DEF Durable
    <2>1. Kept
      BY <1>a DEF IInv, Durable, Refused
    <2>2. ASSUME NEW e \in acked
          PROVE  \E i \in DOMAIN files' : \E m \in DOMAIN Frames(i)' : Frames(i)'[m] = e
      <3>1. PICK i \in DOMAIN files : \E m \in DOMAIN Frames(i) : Frames(i)[m] = e
        BY <2>1, Zenon DEF Kept
      <3>2. i \in DOMAIN files' /\ Frames(i)' = Frames(i)
        BY <1>3, Zenon
      <3> QED
        BY <3>1, <3>2, Zenon
    <2> QED
      BY <1>a, <2>2, Zenon DEF Kept
  <1> QED
    BY <1>6, <1>7, <1>8, <1>9 DEF IInv

\* The length prefix changes no frame.
LEMMA PrefixKeeps == IInv /\ WritePrefix => IInv'
  <1> SUFFICES ASSUME IInv, WritePrefix PROVE IInv'
    OBVIOUS
  <1> DEFINE g == [Last(files) EXCEPT !.tail = "partial"]
  <1>0. FileType
    BY DEF IInv
  <1>a. /\ files \in Seq(Files) /\ files # <<>> /\ pc = "prefix" /\ pc' = "payload"
        /\ acked' = acked /\ appends' = appends /\ sealTorn' = sealTorn
        /\ named' = named /\ count' = count /\ buffer' = buffer /\ rotating' = rotating
        /\ files' = ReplaceLast(g)
    BY <1>0 DEF FileType, WritePrefix
  <1>b. Last(files) = files[Len(files)] /\ Last(files) \in Files
    BY <1>a, LastFile
  <1>c. /\ g \in Files /\ g.frames = files[Len(files)].frames
        /\ g.safe = files[Len(files)].safe
    BY <1>b DEF Files, Tails
  <1> HIDE DEF g
  <1>1. files' \in Seq(Files) /\ files' # <<>> /\ files'[Len(files)] = g
    BY <1>a, <1>c, Replaced
  <1>2. SameFrames
    BY <1>0, <1>a, <1>c, ReplacedSame
  <1>3. FileType'
    <2>1. pc' \in Places
      BY <1>a DEF Places, Appending
    <2> QED
      BY <1>0, <1>a, <1>1, <2>1 DEF FileType
  <1>4. pc \in Appending /\ ~Refused /\ Sealing'
    BY <1>a DEF Appending, Refused, Sealing
  <1>5. \A m \in DOMAIN Frames(Len(files)) :
           m <= files[Len(files)].safe => m <= files'[Len(files)].safe
    BY <1>1, <1>c, Zenon
  <1> QED
    BY <1>a, <1>2, <1>3, <1>4, <1>5, SameKeeps

\* A whole payload adds the entry of the append under way at the end.
LEMMA PayloadKeeps == IInv /\ WritePayload => IInv'
  <1> SUFFICES ASSUME IInv, WritePayload PROVE IInv'
    OBVIOUS
  <1>l. PICK l : l = Len(files)
    BY Zenon
  <1> DEFINE g == File(Append(Last(files).frames, appends), "none", Last(files).safe)
  <1>0. FileType
    BY DEF IInv
  <1>a. /\ files \in Seq(Files) /\ files # <<>> /\ pc = "payload" /\ pc' = "sync"
        /\ acked' = acked /\ appends' = appends /\ sealTorn' = sealTorn
        /\ named' = named /\ count' = count /\ buffer' = buffer /\ rotating' = rotating
        /\ files' = ReplaceLast(g) /\ appends \in Nat
    BY <1>0 DEF FileType, WritePayload
  <1>b. /\ Last(files) = files[l] /\ Last(files) \in Files /\ l \in DOMAIN files
        /\ l \in Nat /\ DOMAIN files = 1..l
    BY <1>a, <1>l, LastFile
  <1>c. Last(files).frames \in Seq(Nat) /\ Last(files).safe \in Nat
    BY <1>b DEF Files
  <1>d. /\ Append(Last(files).frames, appends) \in Seq(Nat)
        /\ Len(Append(Last(files).frames, appends)) = Len(Last(files).frames) + 1
        /\ Append(Last(files).frames, appends)[Len(Last(files).frames) + 1] = appends
        /\ \A m \in 1..Len(Last(files).frames) :
              Append(Last(files).frames, appends)[m] = Last(files).frames[m]
    BY <1>a, <1>c, AppendProperties
  <1>e. g \in Files /\ g.frames = Append(Last(files).frames, appends) /\ g.safe = files[l].safe
    BY <1>b, <1>c, <1>d DEF File, Files, Tails
  <1> HIDE DEF g
  <1>1. /\ files' \in Seq(Files) /\ files' # <<>> /\ files'[l] = g
        /\ Len(files') = l /\ DOMAIN files' = DOMAIN files
        /\ \A i \in DOMAIN files : i # l => files'[i] = files[i]
    BY <1>a, <1>e, <1>l, Replaced
  <1>2. ASSUME NEW i \in DOMAIN files, i # l PROVE Frames(i)' = Frames(i)
    BY <1>a, <1>1, <1>2, FramesOfFile
  <1>3. Frames(l) = Last(files).frames /\ Frames(l)' = g.frames
    BY <1>a, <1>b, <1>1, FramesOfFile
  <1> DEFINE k == Len(Frames(l))
  <1>4. /\ k \in Nat /\ DOMAIN Frames(l) = 1..k /\ DOMAIN Frames(l)' = 1..k + 1
        /\ k + 1 \in DOMAIN Frames(l)' /\ Frames(l)'[k + 1] = appends
        /\ \A m \in 1..k : m \in DOMAIN Frames(l)' /\ Frames(l)'[m] = Frames(l)[m]
    <2>1. k \in Nat /\ DOMAIN Frames(l) = 1..k
      BY <1>c, <1>3, LenProperties
    <2>2. DOMAIN Frames(l)' = 1..k + 1
      BY <1>d, <1>e, <1>3, LenProperties
    <2>3. k + 1 \in 1..k + 1 /\ \A m \in 1..k : m \in 1..k + 1
      BY <2>1
    <2>4. Frames(l)'[k + 1] = appends /\ \A m \in 1..k : Frames(l)'[m] = Frames(l)[m]
      BY <1>d, <1>e, <1>3, Zenon
    <2> QED
      BY <2>1, <2>2, <2>3, <2>4, Zenon
  <1> HIDE DEF k
  \* Every frame but the new one was there.
  <1>5. ASSUME NEW i \in DOMAIN files', NEW m \in DOMAIN Frames(i)'
        PROVE  /\ i \in DOMAIN files
               /\ \/ m \in DOMAIN Frames(i) /\ Frames(i)'[m] = Frames(i)[m]
                  \/ i = l /\ m = k + 1 /\ Frames(i)'[m] = appends
    <2>1. CASE i # l
      BY <1>1, <1>2, <2>1, Zenon
    <2>2. CASE i = l
      <3>1. m \in 1..k + 1
        BY <1>4, <2>2, Zenon
      <3>2. m \in 1..k \/ m = k + 1
        BY <1>4, <3>1
      <3> QED
        BY <1>1, <1>4, <2>2, <3>2, Zenon
    <2> QED
      BY <2>1, <2>2
  <1>6. ASSUME NEW i \in DOMAIN files, NEW m \in DOMAIN Frames(i)
        PROVE  i \in DOMAIN files' /\ m \in DOMAIN Frames(i)' /\ Frames(i)'[m] = Frames(i)[m]
    BY <1>1, <1>2, <1>4, Zenon
  <1>7. pc \in Appending /\ appends <= appends
    BY <1>a DEF Appending
  <1>8. FileType'
    <2>1. pc' \in Places
      BY <1>a DEF Places, Appending
    <2> QED
      BY <1>0, <1>a, <1>1, <2>1 DEF FileType
  <1>9. Bounded'
    <2>1. ASSUME NEW i \in DOMAIN files', NEW m \in DOMAIN Frames(i)'
          PROVE  Frames(i)'[m] <= appends
      <3>1. \A x \in DOMAIN files : \A y \in DOMAIN Frames(x) : Frames(x)[y] <= appends
        BY Zenon DEF IInv, Bounded
      <3> QED
        BY <1>5, <1>7, <3>1, Zenon
    <2>2. pc' \notin Appending
      BY <1>a DEF Appending
    <2>3. \A e \in acked : e <= appends /\ e < appends
      BY <1>7, Zenon DEF IInv, Bounded
    <2> QED
      BY <1>a, <2>1, <2>2, <2>3, Zenon DEF Bounded
  <1>10. Ordered'
    <2> SUFFICES ASSUME NEW i \in DOMAIN files', NEW j \in DOMAIN files',
                        NEW m \in DOMAIN Frames(i)', NEW n \in DOMAIN Frames(j)',
                        i < j \/ (i = j /\ m < n)
                 PROVE  Frames(i)'[m] < Frames(j)'[n]
      BY DEF Ordered
    <2>1. i \in DOMAIN files /\ j \in DOMAIN files
      BY <1>1, Zenon
    <2>2. CASE i = l /\ m = k + 1
      \* Nothing comes after the new frame.
      <3>1. j <= l /\ j \in Nat
        BY <1>b, <2>1
      <3>2. i = j /\ m < n
        BY <1>b, <2>2, <3>1
      <3>3. n \in 1..k + 1
        BY <1>4, <2>2, <3>2, Zenon
      <3> QED
        BY <1>4, <2>2, <3>2, <3>3
    <2>3. CASE ~(i = l /\ m = k + 1)
      <3>1. m \in DOMAIN Frames(i) /\ Frames(i)'[m] = Frames(i)[m]
        BY <1>5, <2>3, Zenon
      <3>2. CASE n \in DOMAIN Frames(j) /\ Frames(j)'[n] = Frames(j)[n]
        <4>1. Frames(i)[m] < Frames(j)[n]
          BY <2>1, <3>1, <3>2, Zenon DEF IInv, Ordered
        <4> QED
          BY <3>1, <3>2, <4>1, Zenon
      <3>3. CASE Frames(j)'[n] = appends
        <4>1. Frames(i)[m] < appends
          BY <1>7, <2>1, <3>1, Zenon DEF IInv, Bounded
        <4> QED
          BY <3>1, <3>3, <4>1, Zenon
      <3> QED
        BY <1>5, <3>2, <3>3, Zenon
    <2> QED
      BY <2>2, <2>3
  <1>11. Sealing'
    BY <1>a DEF Sealing
  <1>12. AtSync'
    <2>1. Frames(Len(files))' = Frames(l)'
      BY <1>1 DEF Frames, Written
    <2> QED
      BY <1>a, <1>4, <2>1, Zenon DEF AtSync
  <1>13. Durable'
    <2> SUFFICES ASSUME ~sealTorn' PROVE Kept' /\ (~rotating' => Synced')
      BY DEF Durable
    <2>1. Kept /\ (~rotating => Synced)
      BY <1>a DEF IInv, Durable, Refused
    <2>2. Kept'
      <3> SUFFICES ASSUME NEW e \in acked
                   PROVE  \E i \in DOMAIN files' : \E m \in DOMAIN Frames(i)' :
                             Frames(i)'[m] = e
        BY <1>a DEF Kept
      <3>1. PICK i \in DOMAIN files : \E m \in DOMAIN Frames(i) : Frames(i)[m] = e
        BY <2>1, Zenon DEF Kept
      <3>2. PICK m \in DOMAIN Frames(i) : Frames(i)[m] = e
        BY <3>1
      <3>3. i \in DOMAIN files' /\ m \in DOMAIN Frames(i)' /\ Frames(i)'[m] = e
        BY <1>6, <3>2, Zenon
      <3> QED
        BY <3>3, Zenon
    <2>3. ASSUME Synced PROVE Synced'
      <3>1. acked' = {} \/ named' = Len(files')
        BY <1>a, <1>l, <1>1, <2>3, Zenon DEF Synced
      <3>2. ASSUME NEW m \in DOMAIN Frames(l)', Frames(l)'[m] \in acked
            PROVE  m <= files'[l].safe
        <4>1. appends \notin acked
          <5>1. \A e \in acked : e < appends
            BY <1>7, Zenon DEF IInv, Bounded
          <5> QED
            BY <1>a, <5>1
        <4>2. m \in DOMAIN Frames(l) /\ Frames(l)[m] \in acked
          BY <1>b, <1>1, <1>5, <3>2, <4>1, Zenon
        <4>3. m <= files[l].safe
          BY <1>a, <1>l, <2>3, <4>2, Zenon DEF Synced
        <4> QED
          BY <1>e, <1>1, <4>3, Zenon
      <3>3. Frames(Len(files))' = Frames(l)'
        BY <1>1 DEF Frames, Written
      <3> QED
        BY <1>a, <1>1, <3>1, <3>2, <3>3, Zenon DEF Synced
    <2> QED
      BY <1>a, <2>1, <2>2, <2>3, Zenon
  <1> QED
    BY <1>8, <1>9, <1>10, <1>11, <1>12, <1>13 DEF IInv

\* sync_data makes the last file, its name and the acknowledged entry safe.
LEMMA SyncKeeps == IInv /\ SyncData => IInv'
  <1> SUFFICES ASSUME IInv, SyncData PROVE IInv'
    OBVIOUS
  <1>l. PICK l : l = Len(files)
    BY Zenon
  <1> DEFINE g == Settled(Last(files))
  <1>0. FileType
    BY DEF IInv
  <1>a. /\ files \in Seq(Files) /\ files # <<>> /\ pc = "sync" /\ pc' = "ready"
        /\ acked' = acked \cup {appends} /\ appends' = appends /\ sealTorn' = sealTorn
        /\ named' = l /\ count' = count + 1 /\ buffer' = buffer /\ rotating' = FALSE
        /\ files' = ReplaceLast(g) /\ appends \in Nat /\ acked \in SUBSET Nat
    BY <1>0, <1>l DEF FileType, SyncData
  <1>b. Last(files) = files[l] /\ Last(files) \in Files /\ l \in DOMAIN files /\ l \in Nat
    BY <1>a, <1>l, LastFile
  <1>c. /\ g \in Files /\ g.frames = files[l].frames
        /\ \A m \in DOMAIN files[l].frames : m <= g.safe
    BY <1>b, SettledFile
  <1> HIDE DEF g
  <1>1. /\ files' \in Seq(Files) /\ files' # <<>> /\ files'[l] = g /\ Len(files') = l
        /\ DOMAIN files' = DOMAIN files
    BY <1>a, <1>c, <1>l, Replaced
  <1>2. SameFrames
    BY <1>0, <1>a, <1>c, <1>l, ReplacedSame
  <1>3. Frames(l) = files[l].frames /\ Frames(l)' = Frames(l)
    <2>1. Frames(l) = files[l].frames
      BY <1>a, FramesOfFile
    <2>2. Frames(l)' = Frames(l)
      BY <1>b, <1>2, Zenon DEF SameFrames
    <2> QED
      BY <2>1, <2>2
  <1>4. FileType'
    <2>1. pc' \in Places /\ count' \in Nat /\ acked' \in SUBSET Nat /\ named' \in Nat
      BY <1>0, <1>a, <1>b DEF FileType, Places
    <2> QED
      BY <1>0, <1>a, <1>1, <2>1, Zenon DEF FileType
  <1>5. Bounded'
    <2>1. ASSUME NEW i \in DOMAIN files', NEW m \in DOMAIN Frames(i)'
          PROVE  Frames(i)'[m] <= appends
      <3>1. i \in DOMAIN files /\ m \in DOMAIN Frames(i) /\ Frames(i)'[m] = Frames(i)[m]
        BY <1>2, Zenon DEF SameFrames
      <3> QED
        BY <3>1, Zenon DEF IInv, Bounded
    <2>2. ASSUME NEW e \in acked' PROVE e <= appends
      BY <1>a, <2>2 DEF IInv, Bounded
    <2>3. pc' \notin Appending \cup {"sync"}
      BY <1>a DEF Appending
    <2> QED
      BY <1>a, <2>1, <2>2, <2>3, Zenon DEF Bounded
  <1>6. Ordered'
    BY <1>2, SameShrinks, ShrinksOrdered, Zenon DEF IInv
  <1>7. Sealing' /\ AtSync'
    BY <1>a DEF Sealing, AtSync
  <1>8. Durable'
    <2> SUFFICES ASSUME ~sealTorn' PROVE Kept' /\ Synced'
      BY DEF Durable
    <2>1. Kept
      BY <1>a DEF IInv, Durable, Refused
    <2>2. \E m \in DOMAIN Frames(l) : Frames(l)[m] = appends
      BY <1>a, <1>l DEF IInv, AtSync
    <2>3. ASSUME NEW e \in acked'
          PROVE  \E i \in DOMAIN files' : \E m \in DOMAIN Frames(i)' : Frames(i)'[m] = e
      <3>1. CASE e \in acked
        <4>1. \E i \in DOMAIN files : \E m \in DOMAIN Frames(i) : Frames(i)[m] = e
          BY <2>1, <3>1, Zenon DEF Kept
        <4> QED
          BY <1>2, <4>1, Zenon DEF SameFrames
      <3>2. CASE e = appends
        BY <1>b, <1>1, <1>3, <2>2, <3>2, Zenon
      <3> QED
        BY <1>a, <3>1, <3>2
    <2>4. Kept'
      BY <2>3, Zenon DEF Kept
    <2>5. Frames(Len(files))' = Frames(l)'
      BY <1>1 DEF Frames, Written
    <2>6. \A m \in DOMAIN Frames(l)' : m <= files'[l].safe
      BY <1>c, <1>1, <1>3, Zenon
    <2>7. Synced'
      BY <1>a, <1>1, <2>5, <2>6, Zenon DEF Synced
    <2> QED
      BY <2>4, <2>7
  <1> QED
    BY <1>4, <1>5, <1>6, <1>7, <1>8 DEF IInv

\* open creates the first file, or finds a cut file, or recovers the last file.
LEMMA OpenKeeps == IInv /\ Open => IInv'
  <1> SUFFICES ASSUME IInv, Open PROVE IInv'
    OBVIOUS
  <1>0. FileType
    BY DEF IInv
  <1>a. /\ files \in Seq(Files) /\ pc = "closed" /\ pc' \in {"closed", "opened"}
        /\ acked' = acked /\ appends' = appends /\ sealTorn' = sealTorn
        /\ named' = named /\ buffer' = buffer /\ rotating' = rotating
    BY <1>0 DEF FileType, Open
  <1>b. /\ pc' \notin Appending \cup {"sync"} /\ pc' \in Places /\ pc' # "rewrite"
        /\ Sealing' /\ AtSync'
    BY <1>a DEF Places, Appending, Sealing, AtSync
  <1>1. CASE files = <<>>
    <2>1. files' = <<File(<<>>, "none", 0)>> /\ count' = 0 /\ pc' = "opened"
      BY <1>1 DEF Open
    <2>2. File(<<>>, "none", 0) \in Files /\ File(<<>>, "none", 0).frames = <<>>
      BY EmptySeq DEF File, Files, Tails
    <2>3. files' \in Seq(Files) /\ files' # <<>>
      BY <2>1, <2>2
    <2>4. ASSUME NEW i \in DOMAIN files' PROVE DOMAIN Frames(i)' = {}
      <3>1. files'[i] = File(<<>>, "none", 0)
        BY <2>1
      <3>2. Frames(i)' = <<>>
        BY <1>b, <2>2, <3>1, FramesOfFile
      <3> QED
        BY <3>2
    <2>5. FileType'
      BY <1>0, <1>a, <1>b, <2>1, <2>3 DEF FileType
    <2>6. Shrinks
      BY <2>4, Zenon DEF Shrinks
    <2>7. Bounded' /\ Ordered'
      <3>1. Bounded /\ Ordered /\ pc' \notin Appending
        BY <1>b DEF IInv
      <3> QED
        BY <1>a, <1>b, <2>6, <3>1, ShrinksBounded, ShrinksOrdered
    <2>8. Durable'
      <3> SUFFICES ASSUME ~sealTorn' PROVE Kept' /\ Synced'
        BY DEF Durable
      <3>1. Verified
        <4>1. Len(files) = 0
          BY <1>1, EmptySeq
        <4> QED
          BY <4>1 DEF Verified
      <3>2. Kept
        BY <1>a, <3>1 DEF IInv, Durable, Refused
      <3>3. acked = {}
        BY <1>1, <3>2 DEF Kept
      <3>4. Len(files') \in DOMAIN files'
        BY <2>3, LastFile
      <3>5. ASSUME NEW i, i = Len(files'), i \in DOMAIN files'
            PROVE  Synced'
        <4>1. Frames(Len(files))' = Frames(i)'
          BY <3>5 DEF Frames, Written
        <4> QED
          BY <1>a, <2>4, <3>3, <3>5, <4>1, Zenon DEF Synced
      <3> QED
        BY <1>a, <3>3, <3>4, <3>5, Zenon DEF Kept
    <2> QED
      BY <1>b, <2>5, <2>7, <2>8 DEF IInv
  <1>2. CASE files # <<>> /\ Verified
    <2> DEFINE g == RecoverOpenFile(Last(files))
    <2>1. files' = ReplaceLast(g) /\ count' = Len(Last(files).frames) /\ pc' = "opened"
      BY <1>2 DEF Open
    <2>2. Last(files) = files[Len(files)] /\ Last(files) \in Files
      BY <1>a, <1>2, LastFile
    <2>3. /\ g \in Files /\ g.frames = files[Len(files)].frames
          /\ \A m \in DOMAIN files[Len(files)].frames :
                m <= files[Len(files)].safe => m <= g.safe
      BY <2>2, RecoveredFile
    <2> HIDE DEF g
    <2>4. files' \in Seq(Files) /\ files' # <<>> /\ files'[Len(files)] = g
      BY <1>a, <1>2, <2>1, <2>3, Replaced
    <2>5. SameFrames
      BY <1>0, <1>a, <1>2, <2>1, <2>3, ReplacedSame
    <2>6. FileType'
      <3>1. count' \in Nat
        BY <2>1, <2>2, LenProperties DEF Files
      <3> QED
        BY <1>0, <1>a, <1>b, <2>4, <3>1 DEF FileType
    <2>7. Frames(Len(files)) = files[Len(files)].frames
      BY <1>a, FramesOfFile
    <2>8. \A m \in DOMAIN Frames(Len(files)) :
             m <= files[Len(files)].safe => m <= files'[Len(files)].safe
      BY <2>3, <2>4, <2>7, Zenon
    <2>9. ~Refused
      BY <1>2 DEF Refused
    <2> QED
      BY <1>a, <1>b, <2>5, <2>6, <2>8, <2>9, SameKeeps
  <1>3. CASE files # <<>> /\ ~Verified
    <2>1. files' = files /\ count' = count /\ pc' = pc
      BY <1>3 DEF Open
    <2>2. FileType'
      BY <1>0, <1>a, <2>1 DEF FileType
    <2>3. SameFrames
      BY <1>a, <2>1, UnchangedSame
    <2>4. Refused => Refused'
      BY <1>a, <2>1 DEF Refused, Verified
    <2>5. files'[Len(files)] = files[Len(files)]
      BY <2>1
    <2> QED
      BY <1>a, <1>b, <2>2, <2>3, <2>4, <2>5, SameKeeps
  <1> QED
    BY <1>1, <1>2, <1>3

\* read_all changes no file, and a step that changes nothing keeps everything.
LEMMA ReadKeeps == IInv /\ ReadAll => IInv'
  <1> SUFFICES ASSUME IInv, ReadAll PROVE IInv'
    OBVIOUS
  <1>0. FileType
    BY DEF IInv
  <1>a. /\ files' = files /\ pc = "opened" /\ pc' \in {"closed", "ready"}
        /\ acked' = acked /\ appends' = appends /\ sealTorn' = sealTorn
        /\ named' = named /\ buffer' = buffer /\ rotating' = rotating /\ count' \in Nat
    BY <1>0 DEF FileType, ReadAll, disk
  <1>1. FileType'
    <2>1. pc' \in Places /\ files' # <<>>
      BY <1>0, <1>a DEF FileType, Places
    <2> QED
      BY <1>0, <1>a, <2>1 DEF FileType
  <1>2. SameFrames
    BY <1>a, UnchangedSame
  <1>3. ~Refused /\ Sealing' /\ pc' \notin Appending /\ pc' # "sync"
    BY <1>a DEF Refused, Sealing, Appending
  <1>4. files'[Len(files)] = files[Len(files)]
    BY <1>a
  <1> QED
    BY <1>a, <1>1, <1>2, <1>3, <1>4, SameKeeps

\* The process is killed: only the file seal_with_crc rewrites can lose frames.
LEMMA CrashKeeps == IInv /\ Crash => IInv'
  <1> SUFFICES ASSUME IInv, Crash PROVE IInv'
    OBVIOUS
  <1>0. FileType
    BY DEF IInv
  <1>a. /\ files \in Seq(Files) /\ files # <<>> /\ pc # "closed" /\ pc' = "closed"
        /\ acked' = acked /\ appends' = appends /\ named' = named /\ count' = 0
        /\ buffer' = <<>> /\ rotating' = rotating
        /\ sealTorn' = (sealTorn \/ pc = "rewrite")
    BY <1>0 DEF FileType, Crash, Stop
  <1>b. /\ pc' \notin Appending \cup {"sync"} /\ pc' \in Places /\ pc' # "rewrite"
        /\ Sealing' /\ AtSync' /\ ~Refused /\ <<>> \in Seq(Nat) /\ sealTorn' \in BOOLEAN
    BY <1>0, <1>a, EmptySeq DEF FileType, Places, Appending, Sealing, AtSync, Refused
  <1>1. CASE pc # "rewrite"
    <2>1. files' = files
      BY <1>1 DEF Crash
    <2>2. FileType'
      BY <1>0, <1>a, <1>b, <2>1 DEF FileType
    <2>3. SameFrames
      BY <1>b, <1>1, <2>1, UnchangedSame
    <2>4. files'[Len(files)] = files[Len(files)]
      BY <2>1
    <2> QED
      BY <1>a, <1>b, <2>2, <2>3, <2>4, SameKeeps
  <1>2. CASE pc = "rewrite"
    <2>l. PICK l : l = Len(files)
      BY Zenon
    <2>1. PICK g \in Left(Written(l)) : files' = ReplaceLast(g)
      BY <1>2, <2>l DEF Crash
    <2>2. Written(l) \in Files
      BY <1>0, <1>2, <2>l DEF Written, File, Files, Tails, FileType
    <2>3. /\ g \in Files
          /\ \A m \in DOMAIN g.frames : m \in DOMAIN Frames(l) /\ g.frames[m] = Frames(l)[m]
      BY <2>2, LeftIsPrefix DEF Frames
    <2>4. /\ files' \in Seq(Files) /\ files' # <<>> /\ DOMAIN files' = DOMAIN files
          /\ files'[l] = g /\ \A i \in DOMAIN files : i # l => files'[i] = files[i]
      BY <1>a, <2>l, <2>1, <2>3, Replaced
    <2>5. ASSUME NEW i \in DOMAIN files', NEW m \in DOMAIN Frames(i)'
          PROVE  /\ i \in DOMAIN files /\ m \in DOMAIN Frames(i)
                 /\ Frames(i)'[m] = Frames(i)[m]
      <3>1. Frames(i)' = files'[i].frames
        BY <1>b, FramesOfFile
      <3>2. CASE i = l
        BY <2>3, <2>4, <3>1, <3>2, Zenon
      <3>3. CASE i # l
        <4>1. Frames(i) = files[i].frames
          BY <2>l, <3>3, FramesOfFile
        <4> QED
          BY <2>4, <3>1, <3>3, <4>1, Zenon
      <3> QED
        BY <3>2, <3>3
    <2>6. Shrinks
      BY <2>5, Zenon DEF Shrinks
    <2>7. FileType'
      BY <1>0, <1>a, <1>b, <2>4 DEF FileType
    <2>8. Bounded' /\ Ordered'
      <3>1. Bounded /\ Ordered /\ pc' \notin Appending
        BY <1>b DEF IInv
      <3> QED
        BY <1>a, <1>b, <2>6, <3>1, ShrinksBounded, ShrinksOrdered
    <2>9. Durable'
      BY <1>a, <1>2 DEF Durable
    <2> QED
      BY <1>b, <2>7, <2>8, <2>9 DEF IInv
  <1> QED
    BY <1>1, <1>2

\* The machine loses power.  Outside a rotation the names of all files are kept and
\* the acknowledged entries of the last; a file before it that is cut is refused.
LEMMA PowerLossKeeps == IInv /\ PowerLoss => IInv'
  <1> SUFFICES ASSUME IInv, PowerLoss PROVE IInv'
    OBVIOUS
  <1>0. FileType
    BY DEF IInv
  <1>a. /\ files \in Seq(Files) /\ pc' = "closed" /\ named \in Nat
        /\ acked' = acked /\ appends' = appends /\ count' = 0
        /\ buffer' = <<>> /\ rotating' = rotating
        /\ sealTorn' = (sealTorn \/ rotating)
    BY <1>0 DEF FileType, PowerLoss, Stop
  <1>b. /\ pc' \notin Appending \cup {"sync"} /\ pc' \in Places /\ pc' # "rewrite"
        /\ Sealing' /\ AtSync' /\ <<>> \in Seq(Nat) /\ sealTorn' \in BOOLEAN
    BY <1>0, <1>a, EmptySeq DEF FileType, Places, Appending, Sealing, AtSync
  <1>c. Len(files) \in Nat /\ DOMAIN files = 1..Len(files)
          /\ \A i \in DOMAIN files : files[i] \in Files
    <2>1. Len(files) \in Nat /\ DOMAIN files = 1..Len(files)
      BY <1>a, LenProperties
    <2> QED
      BY <1>a, <2>1, ElementOfSeq, Zenon
  <1>d. ASSUME FileType', Shrinks, Durable' PROVE IInv'
    <2>1. Bounded /\ Ordered /\ pc' \notin Appending
      BY <1>b DEF IInv
    <2>2. Bounded' /\ Ordered'
      BY <1>a, <1>b, <1>d, <2>1, ShrinksBounded, ShrinksOrdered
    <2> QED
      BY <1>b, <1>d, <2>2 DEF IInv
  <1>1. CASE named = 0 /\ files' = <<>> /\ named' = 0
    <2>1. files' \in Seq(Files) /\ Len(files') = 0 /\ DOMAIN files' = {}
      BY <1>1, EmptySeq
    <2>2. FileType'
      BY <1>0, <1>a, <1>b, <1>1, <2>1 DEF FileType
    <2>3. Shrinks
      BY <2>1, Zenon DEF Shrinks
    <2>4. Durable'
      <3> SUFFICES ASSUME ~sealTorn' PROVE Kept' /\ Synced'
        BY DEF Durable
      <3>1. ~sealTorn /\ ~rotating
        BY <1>0, <1>a DEF FileType
      <3>2. acked = {}
        <4>1. CASE Refused
          <5>1. Verified
            BY <1>1, <4>1 DEF Refused, Verified
          <5> QED
            BY <4>1, <5>1 DEF Refused
        <4>2. CASE Kept /\ Synced
          <5>1. acked = {} \/ Len(files) = 0
            BY <1>1, <4>2 DEF Synced
          <5>2. Len(files) = 0 => DOMAIN files = {}
            BY <1>c
          <5> QED
            BY <4>2, <5>1, <5>2 DEF Kept
        <4> QED
          BY <3>1, <4>1, <4>2 DEF IInv, Durable
      <3> QED
        BY <1>a, <1>1, <3>2 DEF Kept, Synced
    <2> QED
      BY <1>d, <2>2, <2>3, <2>4
  <1>2. ASSUME NEW n \in 1..Len(files), named <= n, named' = n,
               NEW last \in Left(Written(n)), NEW cut \in SUBSET Unsynced(n),
               files' = [i \in 1..n |-> IF i = n THEN Settled(last)
                                        ELSE IF i \in cut THEN CutFile
                                        ELSE Settled(files[i])]
        PROVE  IInv'
    <2>r. /\ n \in Nat /\ n >= 1 /\ n \in 1..n
          /\ \A i \in 1..n : i \in 1..Len(files) /\ (i # n => i # Len(files) /\ i \in 1..n - 1)
          /\ \A i \in 1..n - 1 : i \in 1..n /\ i # n
          /\ Len(files) <= n => n = Len(files)
      BY <1>c, IndexRange, Zenon
    <2>1. n \in Nat /\ n >= 1 /\ n \in DOMAIN files /\ \A i \in 1..n : i \in DOMAIN files
      BY <1>c, <2>r, Zenon
    <2>2. Written(n) \in Files
      <3>1. CASE pc = "rewrite" /\ n = Len(files)
        <4>1. Written(n) = File(buffer, "crc", 0)
          BY <3>1, Zenon DEF Written
        <4>2. buffer \in Seq(Nat)
          BY <1>0, Zenon DEF FileType
        <4> QED
          BY <4>1, <4>2 DEF File, Files, Tails
      <3>2. CASE ~(pc = "rewrite" /\ n = Len(files))
        BY <1>c, <2>1, <3>2, Zenon DEF Written
      <3> QED
        BY <3>1, <3>2
    <2>3. /\ last \in Files
          /\ \A m \in DOMAIN last.frames :
                m \in DOMAIN Frames(n) /\ last.frames[m] = Frames(n)[m]
          /\ \A m \in DOMAIN Frames(n) : m <= Written(n).safe =>
                m \in DOMAIN last.frames /\ last.frames[m] = Frames(n)[m]
      BY <2>2, LeftIsPrefix DEF Frames
    <2>4. /\ Settled(last) \in Files /\ Settled(last).frames = last.frames
          /\ \A m \in DOMAIN last.frames : m <= Settled(last).safe
      BY <2>3, SettledFile
    <2>5. ASSUME NEW i \in 1..n
          PROVE  Settled(files[i]) \in Files /\ Settled(files[i]).frames = files[i].frames
                   /\ Settled(files[i]).tail = files[i].tail
      BY <1>c, <2>1, SettledFile
    <2>6. CutFile \in Files /\ CutFile.frames = <<>> /\ CutFile.tail = "cut"
      BY EmptySeq DEF CutFile, File, Files, Tails
    <2>7. ASSUME NEW i \in 1..n
          PROVE  /\ files'[i] \in Files
                 /\ i = n => files'[i] = Settled(last)
                 /\ i # n /\ i \in cut => files'[i] = CutFile
                 /\ i # n /\ i \notin cut => files'[i] = Settled(files[i])
      BY <1>2, <2>4, <2>5, <2>6
    <2>8. /\ files' \in Seq(Files) /\ Len(files') = n /\ DOMAIN files' = 1..n
          /\ files' # <<>>
      <3>1. files' \in [1..n -> Files] /\ DOMAIN files' = 1..n
        BY <1>2, <2>7
      <3>2. files' \in Seq(Files)
        BY <2>1, <3>1, SeqDef
      <3>3. Len(files') = n
        BY <2>1, <3>1, <3>2, LenProperties
      <3> QED
        BY <2>1, <3>1, <3>2, <3>3, EmptySeq
    <2>9. FileType'
      BY <1>0, <1>a, <1>b, <1>2, <2>1, <2>8 DEF FileType
    <2>10. \A i \in 1..n : Frames(i)' = files'[i].frames
      BY <1>b, FramesOfFile, Zenon
    <2>11. \A i \in 1..n : i # n => Frames(i) = files[i].frames
      <3>1. ASSUME NEW i \in 1..n, i # n PROVE i # Len(files)
        BY <2>r, <3>1, Zenon
      <3> QED
        BY <3>1, FramesOfFile, Zenon
    <2>12. Shrinks
      <3> SUFFICES ASSUME NEW i \in 1..n, NEW m \in DOMAIN Frames(i)'
                   PROVE  /\ i \in DOMAIN files /\ m \in DOMAIN Frames(i)
                          /\ Frames(i)'[m] = Frames(i)[m]
        BY <2>8, Zenon DEF Shrinks
      <3>1. CASE i = n
        BY <2>1, <2>3, <2>4, <2>7, <2>10, <3>1, Zenon
      <3>2. CASE i # n /\ i \in cut
        <4>1. Frames(i)' = <<>>
          BY <2>6, <2>7, <2>10, <3>2, Zenon
        <4>2. DOMAIN Frames(i)' = {}
          BY <4>1
        <4> QED
          BY <4>2, Zenon
      <3>3. CASE i # n /\ i \notin cut
        BY <2>1, <2>5, <2>7, <2>10, <2>11, <3>3, Zenon
      <3> QED
        BY <3>1, <3>2, <3>3
    <2>13. Durable'
      <3> SUFFICES ASSUME ~sealTorn' PROVE Refused' \/ (Kept' /\ Synced')
        BY DEF Durable
      <3>1. ~sealTorn /\ ~rotating
        BY <1>0, <1>a DEF FileType
      <3>2. pc # "rewrite" /\ Written(n) = files[n]
        BY <3>1 DEF IInv, Sealing, Written
      <3>3. Frames(Len(files))' = Frames(n)'
        BY <2>8 DEF Frames, Written
      <3>4. Synced'
        <4>1. \A m \in DOMAIN Frames(n)' : m <= files'[n].safe
          <5>1. n \in 1..n
            BY <2>1
          <5> QED
            BY <2>4, <2>7, <2>10, <5>1, Zenon
        <4> QED
          BY <1>2, <2>8, <3>3, <4>1, Zenon DEF Synced
      <3>5. ASSUME NEW i \in 1..n, i # n, files'[i].tail # "crc" PROVE Refused'
        <4>1. i \in 1..Len(files') - 1
          BY <2>1, <2>8, <3>5
        <4>2. ~Verified'
          BY <3>5, <4>1, Zenon DEF Verified
        <4> QED
          BY <1>a, <1>2, <2>8, <4>2, Zenon DEF Refused
      <3>6. CASE cut # {}
        <4>1. PICK i \in cut : TRUE
          BY <3>6, Zenon
        <4>2. i \in 1..n /\ i # n
          BY <2>1 DEF Unsynced
        <4>3. files'[i].tail = "cut"
          BY <2>6, <2>7, <4>1, <4>2, Zenon
        <4> QED
          BY <3>5, <4>2, <4>3
      <3>7. CASE Refused
        <4>1. PICK i \in 1..Len(files) - 1 : files[i].tail # "crc"
          BY <3>7 DEF Refused, Verified
        <4>2. n = Len(files)
          BY <1>2, <2>r, <3>7 DEF Refused
        <4>3. i \in 1..n /\ i # n
          BY <2>r, <4>2, Zenon
        <4>4. files'[i].tail # "crc"
          <5>1. CASE i \in cut
            BY <2>6, <2>7, <4>3, <5>1
          <5>2. CASE i \notin cut
            BY <2>5, <2>7, <4>1, <4>3, <5>2, Zenon
          <5> QED
            BY <5>1, <5>2
        <4> QED
          BY <3>5, <4>3, <4>4, Zenon
      <3>8. CASE cut = {} /\ Kept /\ Synced
        <4>1. Kept'
          <5> SUFFICES ASSUME NEW e \in acked
                       PROVE  \E i \in DOMAIN files' : \E m \in DOMAIN Frames(i)' :
                                 Frames(i)'[m] = e
            BY <1>a DEF Kept
          <5>1. n = Len(files)
            BY <1>2, <2>r, <3>8, Zenon DEF Synced
          <5>2. PICK i \in DOMAIN files : \E m \in DOMAIN Frames(i) : Frames(i)[m] = e
            BY <3>8, Zenon DEF Kept
          <5>3. PICK m \in DOMAIN Frames(i) : Frames(i)[m] = e
            BY <5>2
          <5>4. i \in 1..n
            BY <1>c, <5>1
          <5>5. CASE i = n
            <6>1. files # <<>>
              BY <2>1, EmptySeq
            <6>2. m <= Written(n).safe
              BY <3>2, <3>8, <5>1, <5>3, <5>5, <6>1, Zenon DEF Synced
            <6>3. m \in DOMAIN last.frames /\ last.frames[m] = e
              BY <2>3, <5>3, <5>5, <6>2, Zenon
            <6>4. m \in DOMAIN Frames(i)' /\ Frames(i)'[m] = e
              BY <2>4, <2>7, <2>10, <5>4, <5>5, <6>3, Zenon
            <6> QED
              BY <2>8, <5>4, <6>4, Zenon
          <5>6. CASE i # n
            <6>1. Frames(i)' = Frames(i)
              <7>1. files'[i] = Settled(files[i])
                BY <2>7, <3>8, <5>4, <5>6, Zenon
              <7> QED
                BY <2>5, <2>10, <2>11, <5>4, <5>6, <7>1, Zenon
            <6> QED
              BY <2>8, <5>3, <5>4, <6>1, Zenon
          <5> QED
            BY <5>5, <5>6
        <4> QED
          BY <3>4, <4>1
      <3> QED
        BY <3>1, <3>6, <3>7, <3>8 DEF IInv, Durable
    <2> QED
      BY <1>d, <2>9, <2>12, <2>13
  <1>3. \/ named = 0 /\ files' = <<>> /\ named' = 0
        \/ \E n \in 1..Len(files) :
              /\ named <= n
              /\ named' = n
              /\ \E last \in Left(Written(n)), cut \in SUBSET Unsynced(n) :
                    files' = [i \in 1..n |-> IF i = n THEN Settled(last)
                                             ELSE IF i \in cut THEN CutFile
                                             ELSE Settled(files[i])]
    BY Zenon DEF PowerLoss
  <1> QED
    BY <1>1, <1>2, <1>3, Zenon

\* Every step of append, of sealing, of a stop and of recovery keeps the invariant.
LEMMA StepKeeps == IInv /\ [Next]_vars => IInv'
  <1> SUFFICES ASSUME IInv, [Next]_vars PROVE IInv'
    OBVIOUS
  <1>1. CASE UNCHANGED vars
    <2>1. UNCHANGED <<files, named, pc, count, buffer, acked, appends, rotating, sealTorn>>
      BY <1>1 DEF vars, disk
    <2>2. \A i : Frames(i)' = Frames(i)
      BY <2>1 DEF Frames, Written
    <2>3. FileType' /\ Sealing' /\ (Refused => Refused')
      BY <2>1 DEF IInv, FileType, Sealing, Refused, Verified
    <2>4. SameFrames
      BY <2>1, <2>2, Zenon DEF SameFrames
    <2> QED
      BY <2>1, <2>3, <2>4, SameKeeps
  <1> QED
    BY <1>1, BeginKeeps, SealKeeps, CreateKeeps, PrefixKeeps, PayloadKeeps, SyncKeeps,
       OpenKeeps, ReadKeeps, CrashKeeps, PowerLossKeeps
    DEF Next, Proceed

-----------------------------------------------------------------------------
(* The count that decides rotation.                                          *)

\* current_entry_count while the process runs: the frames of the last file, and one
\* less before append returns.
Counted ==
    /\ pc \in {"ready", "seal", "prefix", "payload", "opened"} => count = Len(Last(files).frames)
    /\ pc = "sync" => Len(Last(files).frames) = count + 1

\* The last file after it was replaced.
LEMMA ReplacedLast ==
    ASSUME FileType, files # <<>>, NEW g \in Files, files' = ReplaceLast(g)
    PROVE  Last(files') = g
  <1>1. files \in Seq(Files)
    BY DEF FileType
  <1> QED
    BY <1>1, Replaced DEF Last

\* Every step keeps current_entry_count that of the last file.
LEMMA StepCounts == FileType /\ Counted /\ [Next]_vars => Counted'
  <1> SUFFICES ASSUME FileType, Counted, [Next]_vars PROVE Counted'
    OBVIOUS
  <1>a. appends \in Nat /\ count \in Nat /\ files \in Seq(Files)
    BY DEF FileType
  <1>b. files # <<>> => /\ Last(files) \in Files /\ Last(files).frames \in Seq(Nat)
                        /\ Len(Last(files).frames) \in Nat
    <2>1. files # <<>> => Last(files) \in Files
      BY <1>a, LastFile
    <2> QED
      BY <2>1, LenProperties DEF Files
  <1>1. CASE BeginAppend \/ ReadAll
    <2>1. files' = files
      BY <1>1 DEF BeginAppend, ReadAll, disk
    <2> QED
      BY <1>1, <2>1 DEF BeginAppend, ReadAll, Counted
  <1>2. CASE SealTruncate \/ SealRewrite \/ Crash \/ PowerLoss
    <2>1. pc' \in {"rewrite", "create", "closed"}
      BY <1>2 DEF SealTruncate, SealRewrite, Crash, PowerLoss, Stop
    <2> QED
      BY <2>1 DEF Counted
  <1>3. CASE CreateFile
    <2>1. files' = Append(files, File(<<>>, "none", 0)) /\ count' = 0 /\ pc' = "prefix"
      BY <1>3 DEF CreateFile
    <2>2. File(<<>>, "none", 0) \in Files /\ File(<<>>, "none", 0).frames = <<>>
      BY EmptySeq DEF File, Files, Tails
    <2>3. /\ Len(files') = Len(files) + 1
          /\ files'[Len(files) + 1] = File(<<>>, "none", 0)
      BY <1>a, <2>1, <2>2, AppendProperties
    <2>4. Last(files').frames = <<>>
      BY <2>2, <2>3 DEF Last
    <2>5. Len(<<>>) = 0
      BY EmptySeq
    <2> QED
      BY <2>1, <2>4, <2>5 DEF Counted
  <1>4. CASE WritePrefix
    <2> DEFINE g == [Last(files) EXCEPT !.tail = "partial"]
    <2>1. /\ files # <<>> /\ files' = ReplaceLast(g) /\ count' = count
          /\ pc = "prefix" /\ pc' = "payload"
      BY <1>4 DEF WritePrefix, FileType
    <2>2. g \in Files /\ g.frames = Last(files).frames
      BY <1>b, <2>1 DEF Files, Tails
    <2> HIDE DEF g
    <2>3. Last(files') = g
      BY <2>1, <2>2, ReplacedLast
    <2> QED
      BY <2>1, <2>2, <2>3 DEF Counted
  <1>5. CASE WritePayload
    <2> DEFINE s == Append(Last(files).frames, appends)
               g == File(s, "none", Last(files).safe)
    <2>1. /\ files # <<>> /\ files' = ReplaceLast(g) /\ count' = count
          /\ pc = "payload" /\ pc' = "sync"
      BY <1>5 DEF WritePayload, FileType
    <2>2. s \in Seq(Nat) /\ Len(s) = Len(Last(files).frames) + 1
      BY <1>a, <1>b, <2>1, AppendProperties
    <2> HIDE DEF s
    <2>3. g \in Files /\ g.frames = s
      BY <1>b, <2>1, <2>2 DEF File, Files, Tails
    <2> HIDE DEF g
    <2>4. Last(files') = g
      BY <2>1, <2>3, ReplacedLast
    <2> QED
      BY <2>1, <2>2, <2>3, <2>4 DEF Counted
  <1>6. CASE SyncData
    <2>1. /\ files # <<>> /\ files' = ReplaceLast(Settled(Last(files)))
          /\ count' = count + 1 /\ pc = "sync" /\ pc' = "ready"
      BY <1>6 DEF SyncData, FileType
    <2>2. Settled(Last(files)) \in Files /\ Settled(Last(files)).frames = Last(files).frames
      BY <1>b, <2>1, SettledFile
    <2>3. Last(files') = Settled(Last(files))
      BY <2>1, <2>2, ReplacedLast
    <2> QED
      BY <2>1, <2>2, <2>3 DEF Counted
  <1>7. CASE Open
    <2>1. CASE files = <<>>
      <3>1. files' = <<File(<<>>, "none", 0)>> /\ count' = 0 /\ pc' = "opened"
        BY <1>7, <2>1 DEF Open
      <3>2. Last(files').frames = <<>>
        BY <3>1 DEF Last, File
      <3>3. Len(<<>>) = 0
        BY EmptySeq
      <3> QED
        BY <3>1, <3>2, <3>3 DEF Counted
    <2>2. CASE files # <<>> /\ Verified
      <3>1. /\ files' = ReplaceLast(RecoverOpenFile(Last(files))) /\ pc' = "opened"
            /\ count' = Len(Last(files).frames)
        BY <1>7, <2>2 DEF Open
      <3>2. /\ RecoverOpenFile(Last(files)) \in Files
            /\ RecoverOpenFile(Last(files)).frames = Last(files).frames
        BY <1>b, <2>2, RecoveredFile
      <3>3. Last(files') = RecoverOpenFile(Last(files))
        BY <2>2, <3>1, <3>2, ReplacedLast
      <3> QED
        BY <3>1, <3>2, <3>3 DEF Counted
    <2>3. CASE files # <<>> /\ ~Verified
      <3>1. pc' = "closed"
        BY <1>7, <2>3 DEF Open
      <3> QED
        BY <3>1 DEF Counted
    <2> QED
      BY <2>1, <2>2, <2>3
  <1>8. CASE UNCHANGED vars
    <2>1. files' = files /\ pc' = pc /\ count' = count
      BY <1>8 DEF vars, disk
    <2> QED
      BY <2>1 DEF Counted
  <1> QED
    BY <1>1, <1>2, <1>3, <1>4, <1>5, <1>6, <1>7, <1>8 DEF Next, Proceed

-----------------------------------------------------------------------------

\* Whatever the number of appends, rotations, kills and losses of power, a log that
\* open and read_all accept has its entries in the order of the append calls, and
\* every entry append has returned Ok for, unless a kill fell into the rewrite of a
\* file by seal_with_crc or a loss of power between the start of a rotation and the
\* next sync_data.  So the CRCs and the one sync per append are enough everywhere
\* else, although no sealed file is ever synced.
THEOREM AcknowledgedIsReadable == Spec => []AckedReadable
  <1>1. IInv => AckedReadable
    <2> SUFFICES ASSUME IInv, pc \in {"opened", "ready"}
                 PROVE  InAppendOrder /\ (~sealTorn => acked \subseteq Logged)
      BY DEF AckedReadable
    <2>1. \A i : Frames(i) = files[i].frames
      BY FramesOfFile, Zenon
    <2>2. InAppendOrder
      BY <2>1, Zenon DEF IInv, Ordered, InAppendOrder
    <2>3. ASSUME ~sealTorn, NEW e \in acked PROVE e \in Logged
      <3>1. Kept
        BY <2>3 DEF IInv, Durable, Refused
      <3>2. PICK i \in DOMAIN files : \E m \in DOMAIN Frames(i) : Frames(i)[m] = e
        BY <3>1, Zenon DEF Kept
      <3>3. e \in ToSet(files[i].frames)
        BY <2>1, <3>2, Zenon DEF ToSet
      <3> QED
        BY <3>3, Zenon DEF Logged
    <2> QED
      BY <2>2, <2>3
  <1> QED
    BY <1>1, InitHolds, StepKeeps, PTL DEF Spec

\* The cached count by which append decides to rotate is exact whenever append may be
\* called, after any number of appends, rotations, stops and recoveries.
THEOREM CountIsExact == Spec => []CountExact
  <1>1. Init => Counted
    BY DEF Init, Counted
  <1>2. IInv => FileType
    BY DEF IInv
  <1>3. Counted => CountExact
    BY DEF Counted, CountExact
  <1> QED
    BY <1>1, <1>2, <1>3, InitHolds, StepKeeps, StepCounts, PTL DEF Spec

-----------------------------------------------------------------------------
(* The fair merge of the peers' lanes. *)

\* The remainder of a number less than twice the divisor.
LEMMA ModOnce ==
    ASSUME NEW n \in Nat \ {0}, NEW x \in Nat, x < n
    PROVE  x % n = x
  BY Z3

\* The same from the divisor on.
LEMMA ModTwice ==
    ASSUME NEW n \in Nat \ {0}, NEW x \in Nat, n <= x, x < 2 * n
    PROVE  x % n = x - n
  BY Z3

\* How far a lane is from where the round begins, without the remainder.
LEMMA DistanceValue ==
    ASSUME NEW i \in Lanes, NEW s \in Lanes
    PROVE  (i + NumLanes - s) % NumLanes = IF s <= i THEN i - s ELSE i + NumLanes - s
  <1>1. NumLanes \in Nat \ {0} /\ i \in Nat /\ s \in Nat /\ i < NumLanes /\ s < NumLanes
    BY LaneAssumption DEF Lanes
  <1>2. CASE s <= i
    <2>1. /\ i + NumLanes - s \in Nat
          /\ NumLanes <= i + NumLanes - s
          /\ i + NumLanes - s < 2 * NumLanes
      BY <1>1, <1>2
    <2>2. (i + NumLanes - s) % NumLanes = (i + NumLanes - s) - NumLanes
      BY <1>1, <2>1, ModTwice
    <2> QED
      BY <1>1, <1>2, <2>2
  <1>3. CASE ~(s <= i)
    <2>1. i + NumLanes - s \in Nat /\ i + NumLanes - s < NumLanes
      BY <1>1, <1>3
    <2>2. (i + NumLanes - s) % NumLanes = i + NumLanes - s
      BY <1>1, <2>1, ModOnce
    <2> QED
      BY <1>1, <1>3, <2>2
  <1> QED
    BY <1>2, <1>3

\* Where the next round begins after lane i was served.
LEMMA RotatePastValue ==
    ASSUME NEW i \in Lanes
    PROVE  RotatePast(i) = IF i + 1 = NumLanes THEN 0 ELSE i + 1
  <1>1. NumLanes \in Nat \ {0} /\ i \in Nat /\ i < NumLanes
    BY LaneAssumption DEF Lanes
  <1>2. CASE i + 1 = NumLanes
    <2>1. i + 1 \in Nat /\ NumLanes <= i + 1 /\ i + 1 < 2 * NumLanes
      BY <1>1, <1>2
    <2>2. (i + 1) % NumLanes = (i + 1) - NumLanes
      BY <1>1, <2>1, ModTwice
    <2> QED
      BY <1>1, <1>2, <2>2 DEF RotatePast
  <1>3. CASE i + 1 # NumLanes
    <2>1. (i + 1) % NumLanes = i + 1
      BY <1>1, <1>3, ModOnce
    <2> QED
      BY <1>1, <1>3, <2>1 DEF RotatePast
  <1> QED
    BY <1>2, <1>3

\* The cursor of fair_recv stays the index of a lane.
THEOREM CursorStays ==
    ASSUME start \in Lanes, Merge
    PROVE  start' \in Lanes
  <1>1. PICK i \in Ready : Serve(i)
    BY DEF Merge
  <1>2. i \in Lanes
    BY DEF Ready
  <1>3. start' = IF i + 1 = NumLanes THEN 0 ELSE i + 1
    BY <1>1, <1>2, RotatePastValue DEF Serve
  <1> QED
    BY <1>2, <1>3, LaneAssumption DEF Lanes

\* Each time fair_recv serves another lane, a lane with an event comes strictly
\* nearer in the rotation.  As a distance is less than the number of lanes, no lane
\* with an event is passed over that many times, whatever the other peers send.
THEOREM PassedOverLess ==
    ASSUME start \in Lanes, NEW i \in Ready, NEW j \in Ready, i # j, Serve(i)
    PROVE  /\ Distance(j) \in 0..NumLanes - 1
           /\ Distance(j)' < Distance(j)
  <1>1. i \in Lanes /\ j \in Lanes
    BY DEF Ready
  <1>2. NumLanes \in Nat \ {0} /\ i \in Nat /\ j \in Nat /\ start \in Nat
          /\ i < NumLanes /\ j < NumLanes /\ start < NumLanes
    BY <1>1, LaneAssumption DEF Lanes
  <1>3. /\ Distance(i) = IF start <= i THEN i - start ELSE i + NumLanes - start
        /\ Distance(j) = IF start <= j THEN j - start ELSE j + NumLanes - start
    BY <1>1, DistanceValue DEF Distance
  <1>4. Distance(i) <= Distance(j)
    BY DEF Serve
  <1>5. start' = IF i + 1 = NumLanes THEN 0 ELSE i + 1
    BY <1>1, RotatePastValue DEF Serve
  <1>6. start' \in Lanes
    BY <1>2, <1>5 DEF Lanes
  <1>7. Distance(j)' = IF start' <= j THEN j - start' ELSE j + NumLanes - start'
    BY <1>1, <1>6, DistanceValue DEF Distance
  <1>8. Distance(j) \in 0..NumLanes - 1
    BY <1>2, <1>3
  <1>9. Distance(j)' < Distance(j)
    BY <1>2, <1>3, <1>4, <1>5, <1>7
  <1> QED
    BY <1>8, <1>9

=============================================================================
