-------------------------------- MODULE Wal --------------------------------
(***************************************************************************)
(* The write-ahead log (crates/wal): a directory of generation files, one  *)
(* of them open for appending.                                             *)
(*                                                                         *)
(* A file is a sequence of chunks, a chunk being what one write_all left   *)
(* there: a whole frame, a whole header (encrypted files only), or what is *)
(* left of either when the process died or the disk refused half way:      *)
(* a "stub" of one to three bytes, or a longer part.  The reader works on  *)
(* bytes, so what it makes of a fragment depends on what follows it.       *)
(*                                                                         *)
(* The engine keeps the log behind a mutex, so an operation is one step,   *)
(* with a step of its own for each way it can be cut short.  Writes are    *)
(* numbered in the order they are appended, and each is appended once.     *)
(***************************************************************************)
EXTENDS Integers, Sequences, FiniteSets, Functions

CONSTANTS
    KeyChoices,     \* whether the process is started with a WalCipher
    CrashResidue,   \* what a crash inside append may leave of the frame
    HeaderResidue,  \* what a crash inside rotate or open may leave of a header
    FailResidue,    \* what an append that returns an error may leave
    MaxWrites,      \* bound: writes appended in a behaviour
    MaxGen,         \* bound: the highest generation number
    MaxCrashes,     \* bound: crashes in a behaviour
    MaxFails        \* bound: operations that return an error in a behaviour

Residue == {"nothing", "stub", "part", "whole"}

VARIABLES
    files,      \* generation files in the directory: number -> chunks
    up,         \* a Wal value exists
    key,        \* the process has, or the last one had, a cipher
    generation, \* Wal::generation
    active,     \* the generation whose file Wal::file is
    seq,        \* FileEnc::seq, the number the next frame is sealed under
    next,       \* the number of the last write appended, or tried
    acked,      \* writes whose append returned Ok
    sealed,     \* what rotate returned to a flush still under way, or -1
    safe,       \* writes whose rows a flush has committed to the manifest
    crashes, fails

vars == <<files, up, key, generation, active, seq, next, acked, sealed, safe,
          crashes, fails>>

Frame(w, n) == [kind |-> "frame", write |-> w, seq |-> n]
Header == [kind |-> "header", write |-> 0, seq |-> 0]
Stub == [kind |-> "stub", write |-> 0, seq |-> 0]
PartOf(c) == [kind |-> IF c = Header THEN "headerPart" ELSE "framePart",
              write |-> 0, seq |-> 0]

\* What one write_all, cut short or not, leaves of a chunk.
Left(c, residue) ==
    CASE residue = "nothing" -> <<>>
      [] residue = "stub" -> <<Stub>>
      [] residue = "part" -> <<PartOf(c)>>
      [] residue = "whole" -> <<c>>

Generations == DOMAIN files
LastGen == CHOOSE g \in Generations : \A h \in Generations : h <= g

(***************************************************************************)
(* replay_file.  A reading says how many chunks are kept (the file is      *)
(* truncated behind them) and whether it is an error that fails Wal::open. *)
(* Where the outcome turns on the very bytes, luck decides it.             *)
(***************************************************************************)
Reading(keep, fatal) == [keep |-> keep, fatal |-> fatal]

\* The number of chunks in front of the first whose index is not in good.
Leading(c, good) ==
    CHOOSE n \in 0 .. Len(c) : 1 .. n \subseteq good /\ (n < Len(c) => n + 1 \notin good)

PlainFrames(c) == {i \in DOMAIN c : c[i].kind = "frame"}

\* A frame opens only as the one its place in the file makes it.
SealedChunks(c) ==
    {i \in DOMAIN c : IF i = 1 THEN c[i] = Header
                      ELSE c[i].kind = "frame" /\ c[i].seq = i - 2}

\* read_frame, replay_plaintext: fewer than four bytes at the end read as
\* the end of the file and stay there; any longer fragment, and whatever is
\* behind a fragment, is cut off.
ReadPlaintextLosesLast(c) ==
    LET n == Leading(c, PlainFrames(c))
    IN  Reading(IF n < Len(c) /\ n > 0 THEN n - 1 ELSE n, FALSE)

ReadPlaintext(c) ==
    LET n == Leading(c, PlainFrames(c))
    IN  Reading(IF n + 1 = Len(c) /\ c[n + 1] = Stub THEN n + 1 ELSE n, FALSE)

\* read_enc_header, read_frame_encrypted, replay_encrypted: no key is an
\* error, so is a header that is not whole, a frame that does not open under
\* its own number and anything that is not a frame; an incomplete frame at
\* the end is cut off; bytes behind a fragment make it either.
ReadEncryptedStrict(c, luck) ==
    LET n == Leading(c, SealedChunks(c))
    IN  Reading(n, n < Len(c))

ReadEncrypted(c, luck) ==
    LET n == Leading(c, SealedChunks(c))
        torn == c[n + 1].kind \in {"stub", "framePart"}
                    /\ (n + 1 = Len(c) \/ luck)
    IN  Reading(n, n = 0 \/ (n < Len(c) /\ ~torn))

\* peek_magic and the dispatch on the first four bytes of the file.
ReadFile(c, k, luck) ==
    IF c = <<>> \/ c = <<Stub>> THEN Reading(Len(c), FALSE)
    ELSE IF c[1].kind \in {"header", "headerPart"}
         THEN IF k THEN ReadEncrypted(c, luck) ELSE Reading(0, TRUE)
    ELSE IF c[1].kind \in {"frame", "framePart"} THEN ReadPlaintext(c)
    ELSE Reading(0, TRUE)

\* Opening the directory fails on the first file that cannot be read.
Opens(k, luck) == \A g \in Generations : ~ReadFile(files[g], k, luck).fatal

\* The files as replay leaves them.
Replayed(k, luck) ==
    [g \in Generations |-> SubSeq(files[g], 1, ReadFile(files[g], k, luck).keep)]
-----------------------------------------------------------------------------
Init ==
    /\ files = [g \in {} |-> <<>>]
    /\ up = FALSE
    /\ key \in KeyChoices
    /\ generation = 0
    /\ active = 0
    /\ seq = 0
    /\ next = 0
    /\ acked = {}
    /\ sealed = -1
    /\ safe = {}
    /\ crashes = 0
    /\ fails = 0

\* A file with one more chunk; it is created if it was not there.
With(fs, g, left) ==
    [h \in DOMAIN fs \cup {g} |->
        IF h # g THEN fs[h] ELSE (IF g \in DOMAIN fs THEN fs[g] ELSE <<>>) \o left]

Crash ==
    /\ crashes < MaxCrashes
    /\ crashes' = crashes + 1
    /\ up' = FALSE
    /\ sealed' = -1
    /\ UNCHANGED fails

Fail ==
    /\ fails < MaxFails
    /\ fails' = fails + 1
    /\ UNCHANGED <<crashes, up>>

\* A key, once configured, stays configured.
KeyAtStart(k) == k \in KeyChoices /\ (key => k)

\* Wal::open.  A plaintext log goes on in its last generation, an encrypted
\* one starts a fresh generation under a fresh key.
FreshGeneration == IF Generations = {} THEN 0 ELSE LastGen + 1

Open(k, luck) ==
    /\ ~up /\ KeyAtStart(k) /\ Opens(k, luck)
    /\ key' = k
    /\ generation' = IF k \/ Generations = {} THEN FreshGeneration ELSE LastGen
    /\ active' = generation'
    /\ files' = With(Replayed(k, luck), active', IF k THEN <<Header>> ELSE <<>>)
    /\ seq' = 0
    /\ up' = TRUE
    /\ UNCHANGED <<next, acked, sealed, safe, crashes, fails>>

\* The process dies while the header of the fresh generation is written.
CrashInOpen(residue) ==
    /\ ~up /\ key /\ Opens(key, FALSE)
    /\ residue \in HeaderResidue
    /\ files' = With(Replayed(key, FALSE), FreshGeneration, Left(Header, residue))
    /\ Crash
    /\ UNCHANGED <<key, generation, active, seq, next, acked, safe>>

\* append: write_all, sync_data, and only then Ok.
AppendFrame(w) ==
    /\ up /\ w = next + 1 /\ w <= MaxWrites
    /\ next' = w
    /\ files' = With(files, active, <<Frame(w, seq)>>)
    /\ seq' = IF key THEN seq + 1 ELSE seq
    /\ acked' = acked \cup {w}
    /\ UNCHANGED <<up, key, generation, active, sealed, safe, crashes, fails>>

CrashInAppend(w, residue) ==
    /\ up /\ w = next + 1 /\ w <= MaxWrites
    /\ next' = w
    /\ residue \in CrashResidue
    /\ files' = With(files, active, Left(Frame(w, seq), residue))
    /\ Crash
    /\ UNCHANGED <<key, generation, active, seq, acked, safe>>

\* A full disk or an I/O error: the engine refuses this write and goes on.
FailAppend(w, residue) ==
    /\ up /\ w = next + 1 /\ w <= MaxWrites
    /\ next' = w
    /\ residue \in FailResidue
    /\ files' = With(files, active, Left(Frame(w, seq), residue))
    /\ Fail
    /\ UNCHANGED <<key, generation, active, seq, acked, sealed, safe>>

\* rotate seals the current generation and opens the next one.
Rotate ==
    /\ up /\ generation < MaxGen
    /\ sealed' = generation
    /\ generation' = generation + 1
    /\ active' = generation'
    /\ files' = With(files, active', IF key THEN <<Header>> ELSE <<>>)
    /\ seq' = 0
    /\ UNCHANGED <<up, key, next, acked, safe, crashes, fails>>

CrashInRotate(residue) ==
    /\ up /\ generation < MaxGen
    /\ residue \in HeaderResidue
    /\ files' = With(files, generation + 1, IF key THEN Left(Header, residue) ELSE <<>>)
    /\ Crash
    /\ UNCHANGED <<key, generation, active, seq, next, acked, safe>>

\* rotate can fail in its sync, before anything changed, or with the
\* generation counted up, for want of the key or the file or with a header
\* written in part: appends go on in the old file.
FailRotate ==
    /\ up /\ generation < MaxGen
    /\ \/ UNCHANGED <<generation, files>>
       \/ generation' = generation + 1 /\ UNCHANGED files
       \/ /\ key
          /\ generation' = generation + 1
          /\ \E residue \in HeaderResidue :
                 files' = With(files, generation', Left(Header, residue))
    /\ Fail
    /\ UNCHANGED <<key, active, seq, next, acked, sealed, safe>>

\* delete_generations_upto, called by a flush that has committed the rows of
\* every generation up to the one it sealed; oldest first.
DoomedToo == {g \in Generations : g <= sealed + 1}
Doomed == {g \in Generations : g <= sealed /\ g # generation}
OlderNewestFirst(g) == {h \in Doomed : h >= g}
Older(g) == {h \in Doomed : h < g}

WritesOf(gs) == {w \in 1 .. next :
                    \E g \in gs : \E i \in DOMAIN files[g] :
                        files[g][i].kind = "frame" /\ files[g][i].write = w}

DeleteGenerationsUpto ==
    /\ up /\ sealed >= 0
    /\ safe' = safe \cup WritesOf(Doomed)
    /\ files' = Restrict(files, Generations \ Doomed)
    /\ sealed' = -1
    /\ UNCHANGED <<up, key, generation, active, seq, next, acked, crashes, fails>>

CrashInDelete(g) ==
    /\ up /\ sealed >= 0 /\ g \in Doomed
    /\ safe' = safe \cup WritesOf(Doomed)
    /\ files' = Restrict(files, Generations \ Older(g))
    /\ Crash
    /\ UNCHANGED <<key, generation, active, seq, next, acked>>

CrashIdle ==
    /\ up /\ Crash
    /\ UNCHANGED <<files, key, generation, active, seq, next, acked, safe>>

Next ==
    \/ \E k \in BOOLEAN, luck \in BOOLEAN : Open(k, luck)
    \/ \E residue \in Residue : CrashInOpen(residue) \/ CrashInRotate(residue)
    \/ \E w \in 1 .. MaxWrites : AppendFrame(w)
    \/ \E w \in 1 .. MaxWrites, residue \in Residue :
            CrashInAppend(w, residue) \/ FailAppend(w, residue)
    \/ Rotate \/ FailRotate
    \/ DeleteGenerationsUpto \/ \E g \in Generations : CrashInDelete(g)
    \/ CrashIdle

Spec == Init /\ [][Next]_vars
-----------------------------------------------------------------------------
\* Write w is in the directory, where a reader with this key and this luck
\* gets to it.
ReplaysAt(w, g, i, k, luck) ==
    /\ files[g][i].kind = "frame" /\ files[g][i].write = w
    /\ i <= ReadFile(files[g], k, luck).keep

Replays(w, k, luck) ==
    \E g \in Generations : \E i \in DOMAIN files[g] : ReplaysAt(w, g, i, k, luck)

\* If the process died now, the log would open again, whatever a crash cut
\* short: the torn tail of every generation is tolerated (replay_file).
CrashNeverBlocksOpen ==
    \A k \in BOOLEAN, luck \in BOOLEAN : KeyAtStart(k) => Opens(k, luck)

\* If the process died now, replay would return every acknowledged write
\* whose rows no flush has committed: the 204 is never taken back, through
\* crashes in every operation and through the gain of a key.
AckedSurvive ==
    \A k \in BOOLEAN, luck \in BOOLEAN : KeyAtStart(k) =>
        \A w \in acked \ safe : Replays(w, k, luck)

\* What replays of the acknowledged writes is a suffix of them in the order
\* they were acknowledged: a deletion cut short never leaves an older write
\* to be replayed without the newer ones, and replay is in order, so last
\* write wins gives the same winner after a restart.
ReplayIsSuffix ==
    \A k \in BOOLEAN, luck \in BOOLEAN : KeyAtStart(k) =>
        \A g \in Generations : \A i \in DOMAIN files[g] :
            \A v \in acked : ReplaysAt(v, g, i, k, luck) =>
                \A w \in {x \in acked : x > v} :
                    \E h \in Generations : \E j \in DOMAIN files[h] :
                        /\ ReplaysAt(w, h, j, k, luck)
                        /\ g < h \/ (g = h /\ i < j)

\* The file appends go to is in the directory, also after a rotate that
\* failed half way and the deletions of later flushes: what append syncs can
\* be found again (rotate, delete_generations_upto).
ActiveFileKept == up => active \in Generations

Chunk == [kind : {"frame", "header", "stub", "headerPart", "framePart"},
          write : 0 .. MaxWrites, seq : Nat]

TypeOK ==
    /\ Generations \subseteq Nat
    /\ \A g \in Generations : files[g] \in Seq(Chunk)
    /\ up \in BOOLEAN /\ key \in BOOLEAN
    /\ generation \in Nat /\ active \in Nat /\ seq \in Nat
    /\ next \in 0 .. MaxWrites
    /\ acked \subseteq 1 .. next
    /\ safe \subseteq 1 .. next
    /\ sealed \in -1 .. generation - 1
    /\ crashes \in 0 .. MaxCrashes /\ fails \in 0 .. MaxFails
=============================================================================
