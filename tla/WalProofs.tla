------------------------------ MODULE WalProofs ------------------------------
(***************************************************************************)
(* Proofs about Wal.  That the file appended to stays in the directory     *)
(* holds whatever a crash or an error leaves behind; what replay returns   *)
(* is proved for the residues replay repairs (Tolerated).                  *)
(***************************************************************************)
EXTENDS Wal, SequenceTheorems, TLAPS

USE ZenonT(30)

\* The directory is empty or has a newest generation.
HasLast == \A g \in Generations : \E m \in Generations : \A h \in Generations : h <= m

Numbers ==
    /\ \A g \in Generations : g \in Nat
    /\ generation \in Nat /\ active \in Nat /\ up \in BOOLEAN /\ sealed \in Int

\* The generation appended to is younger than any that a flush may delete,
\* and the counter is ahead of them all.
Ahead ==
    /\ up => /\ active \in Generations /\ sealed < active /\ active <= generation
             /\ \A g \in Generations : g <= generation
    /\ ~up => sealed = -1

Directory == HasLast /\ Numbers /\ Ahead

\* A file with a chunk more.
LEMMA WithIs ==
    ASSUME NEW fs, NEW g, NEW left
    PROVE  /\ g \in DOMAIN With(fs, g, left)
           /\ \A h \in DOMAIN fs : h \in DOMAIN With(fs, g, left)
           /\ \A h \in DOMAIN With(fs, g, left) : h \in DOMAIN fs \/ h = g
           /\ \A h \in DOMAIN fs : h # g => With(fs, g, left)[h] = fs[h]
           /\ g \in DOMAIN fs => With(fs, g, left)[g] = fs[g] \o left
           /\ g \notin DOMAIN fs => With(fs, g, left)[g] = <<>> \o left
  BY DEF With

\* The newest generation, and the number of the one after it.
LEMMA LastGenIs ==
    ASSUME Directory
    PROVE  /\ \A g \in Generations : LastGen \in Generations /\ g <= LastGen
           /\ FreshGeneration \in Nat /\ \A h \in Generations : h < FreshGeneration
  <1>1. ASSUME NEW g \in Generations
        PROVE  LastGen \in Generations /\ \A h \in Generations : h <= LastGen
    <2>1. \E m \in Generations : \A h \in Generations : h <= m
      BY <1>1 DEF Directory, HasLast
    <2>. QED  BY <2>1 DEF LastGen
  <1>2. CASE Generations = {}
    <2>1. FreshGeneration = 0
      BY <1>2 DEF FreshGeneration
    <2>. QED  BY <1>2, <2>1
  <1>3. CASE Generations # {}
    <2>1. FreshGeneration = LastGen + 1
      BY <1>3 DEF FreshGeneration
    <2>2. LastGen \in Generations /\ \A h \in Generations : h <= LastGen
      BY <1>1, <1>3
    <2>3. LastGen \in Nat /\ \A h \in Generations : h \in Nat
      BY <2>2 DEF Directory, Numbers
    <2>. QED  BY <2>1, <2>2, <2>3, SMTT(20)
  <1>. QED  BY <1>2, <1>3

\* Replay takes no file away (Wal::open).
LEMMA ReplayedIs == ASSUME NEW k, NEW luck PROVE DOMAIN Replayed(k, luck) = Generations
  BY DEF Replayed

\* The directory has one more generation, or had it already.
Gains(x) ==
    /\ x \in Generations'
    /\ \A h \in Generations : h \in Generations'
    /\ \A h \in Generations' : h \in Generations \/ h = x

\* A file is created with a number that is not below any other.
LEMMA Created ==
    ASSUME NEW x \in Nat, \A h \in Generations : h \in Nat /\ h <= x, Gains(x)
    PROVE  /\ \A h \in Generations' : h \in Nat /\ h <= x
           /\ HasLast'
  <1>1. \A h \in Generations' : h \in Nat /\ h <= x
    BY SMTT(20) DEF Gains
  <1>. QED  BY <1>1 DEF HasLast, Gains

\* A generation opened for appending, numbered past all others.
LEMMA Opened ==
    ASSUME Directory, generation' \in Nat, active' = generation', up',
           up' \in BOOLEAN, sealed' \in Int, sealed' < active',
           \A h \in Generations : h <= generation', Gains(active')
    PROVE  Directory'
  <1>1. /\ \A h \in Generations' : h \in Nat /\ h <= generation'
        /\ HasLast'
    BY Created DEF Directory, Numbers
  <1>2. Numbers'
    BY <1>1 DEF Numbers
  <1>3. Ahead'
    BY <1>1 DEF Ahead, Gains
  <1>. QED  BY <1>1, <1>2, <1>3 DEF Directory

\* The value of sealed while no flush is under way.
LEMMA NoFlush == -1 \in Int /\ FALSE \in BOOLEAN
  BY SMTT(20)

\* A crash leaves a directory with numbers, whatever it added.
LEMMA Crashed ==
    ASSUME Directory, Crash, UNCHANGED <<generation, active>>,
           \A h \in Generations' : h \in Nat, HasLast'
    PROVE  Directory'
  <1>1. up' = FALSE /\ sealed' = -1
    BY DEF Crash
  <1>2. Numbers'
    BY <1>1, NoFlush DEF Directory, Numbers
  <1>3. Ahead'
    BY <1>1 DEF Ahead
  <1>. QED  BY <1>2, <1>3 DEF Directory

\* What each step does to the set of generations.
LEMMA DirectoryStep == Directory /\ [Next]_vars => Directory'
  <1>. SUFFICES ASSUME Directory, [Next]_vars PROVE Directory'
    OBVIOUS
  <1>0. /\ \A g \in Generations : g \in Nat
        /\ generation \in Nat /\ active \in Nat /\ sealed \in Int /\ up \in BOOLEAN
        /\ generation + 1 \in Nat
    BY SMTT(20) DEF Directory, Numbers
  <1>1. ASSUME up
        PROVE  /\ active \in Generations /\ sealed < active /\ active <= generation
               /\ \A h \in Generations : h \in Nat /\ h <= generation /\ h <= generation + 1
    BY <1>0, <1>1, SMTT(20) DEF Directory, Ahead
  <1>2. ASSUME NEW k \in BOOLEAN, NEW luck \in BOOLEAN, Open(k, luck) PROVE Directory'
    <2>1. Gains(active')
      BY <1>2, ReplayedIs, WithIs, SMTT(20) DEF Open, Gains, Generations
    <2>2. /\ generation' \in Nat
          /\ \A h \in Generations : h <= generation'
      <3>1. CASE k \/ Generations = {}
        <4>1. generation' = FreshGeneration
          BY <1>2, <3>1 DEF Open
        <4>. QED  BY <1>0, <4>1, LastGenIs, SMTT(20)
      <3>2. CASE ~(k \/ Generations = {})
        <4>1. generation' = LastGen /\ \E g : g \in Generations
          BY <1>2, <3>2 DEF Open
        <4>. QED  BY <1>0, <4>1, LastGenIs
      <3>. QED  BY <3>1, <3>2
    <2>3. active' = generation' /\ up' = TRUE /\ sealed' = sealed /\ ~up
      BY <1>2 DEF Open
    <2>4. sealed' = -1
      BY <2>3 DEF Directory, Ahead
    <2>. QED  BY <2>1, <2>2, <2>3, <2>4, Opened, SMTT(20)
  <1>3. ASSUME NEW residue \in Residue, CrashInOpen(residue) PROVE Directory'
    <2>1. Gains(FreshGeneration)
      <3>1. DOMAIN Replayed(key, FALSE) = Generations
        BY ReplayedIs
      <3>. QED  BY <1>3, <3>1, WithIs DEF CrashInOpen, Gains, Generations
    <2>2. FreshGeneration \in Nat /\ \A h \in Generations : h \in Nat /\ h <= FreshGeneration
      BY <1>0, LastGenIs, SMTT(20)
    <2>3. Crash /\ UNCHANGED <<generation, active>>
      BY <1>3 DEF CrashInOpen
    <2>. QED  BY <2>1, <2>2, <2>3, Created, Crashed
  <1>4. ASSUME NEW residue \in Residue, CrashInRotate(residue) PROVE Directory'
    <2>1. Gains(generation + 1)
      BY <1>4, WithIs DEF CrashInRotate, Gains, Generations
    <2>2. up /\ Crash /\ UNCHANGED <<generation, active>>
      BY <1>4 DEF CrashInRotate
    <2>. QED  BY <1>0, <1>1, <2>1, <2>2, Created, Crashed
  <1>5. ASSUME NEW w \in 1 .. MaxWrites, AppendFrame(w) PROVE Directory'
    <2>1. Gains(active) /\ up /\ UNCHANGED <<generation, active, up, sealed>>
      BY <1>5, WithIs DEF AppendFrame, Gains, Generations
    <2>2. Generations' = Generations
      BY <1>1, <2>1 DEF Gains
    <2>. QED  BY <2>1, <2>2 DEF Directory, Numbers, Ahead, HasLast
  <1>6. ASSUME NEW w \in 1 .. MaxWrites, NEW residue \in Residue,
               CrashInAppend(w, residue) \/ FailAppend(w, residue)
        PROVE  Directory'
    <2>1. Gains(active) /\ up /\ UNCHANGED <<generation, active>>
      BY <1>6, WithIs DEF CrashInAppend, FailAppend, Gains, Generations
    <2>2. Generations' = Generations
      BY <1>1, <2>1 DEF Gains
    <2>3. HasLast'
      BY <2>2 DEF Directory, HasLast
    <2>4. CASE Crash
      BY <1>0, <2>1, <2>2, <2>3, <2>4, Crashed
    <2>5. CASE UNCHANGED <<up, sealed>>
      BY <2>1, <2>2, <2>5 DEF Directory, Numbers, Ahead, HasLast
    <2>. QED  BY <1>6, <2>4, <2>5 DEF CrashInAppend, FailAppend, Fail
  <1>7. CASE Rotate
    <2>1. Gains(active')
      BY <1>7, WithIs DEF Rotate, Gains, Generations
    <2>2. /\ generation' = generation + 1 /\ active' = generation'
          /\ up /\ up' = up /\ sealed' = generation
      BY <1>7 DEF Rotate
    <2>. QED  BY <1>0, <1>1, <2>1, <2>2, Opened, SMTT(20)
  <1>8. CASE FailRotate
    <2>1. up /\ up' = up /\ UNCHANGED <<active, sealed>>
      BY <1>8 DEF FailRotate, Fail
    <2>2. CASE UNCHANGED files /\ generation' \in {generation, generation + 1}
      <3>1. Generations' = Generations /\ generation' \in Nat /\ generation' >= generation
        BY <1>0, <2>2, SMTT(20) DEF Generations
      <3>. QED  BY <1>0, <1>1, <2>1, <3>1, SMTT(20) DEF Directory, Numbers, Ahead, HasLast
    <2>3. CASE generation' = generation + 1 /\ Gains(generation + 1)
      <3>1. /\ \A h \in Generations' : h \in Nat /\ h <= generation + 1
            /\ HasLast'
        BY <1>0, <1>1, <2>1, <2>3, Created
      <3>2. active \in Generations' /\ sealed < active /\ active <= generation + 1
        BY <1>0, <1>1, <2>1, <2>3 DEF Gains
      <3>. QED  BY <1>0, <2>1, <2>3, <3>1, <3>2 DEF Directory, Numbers, Ahead
    <2>4. ASSUME NEW left, files' = With(files, generation + 1, left)
          PROVE  Gains(generation + 1)
      BY <2>4, WithIs DEF Gains, Generations
    <2>. QED  BY <1>8, <2>2, <2>3, <2>4 DEF FailRotate
  <1>9. CASE DeleteGenerationsUpto \/ \E g \in Generations : CrashInDelete(g)
    <2>1. /\ up /\ UNCHANGED <<generation, active>> /\ sealed' = -1
          /\ up' = up \/ up' = FALSE
      BY <1>9 DEF DeleteGenerationsUpto, CrashInDelete, Crash
    <2>2. \A h \in Generations' : h \in Generations
      BY <1>9 DEF DeleteGenerationsUpto, CrashInDelete, Restrict, Generations
    <2>3. \A h \in Generations : h \notin Doomed => h \in Generations'
      BY <1>9 DEF DeleteGenerationsUpto, CrashInDelete, Older, Restrict, Generations
    <2>4. \A h \in Generations : h >= active => h \in Generations'
      BY <1>0, <1>1, <2>1, <2>3, SMTT(20) DEF Doomed
    <2>5. PICK m \in Generations : \A h \in Generations : h <= m
      BY <1>1, <2>1 DEF Directory, HasLast
    <2>6. m \in Generations' /\ active \in Generations'
      BY <1>0, <1>1, <2>1, <2>4, <2>5, SMTT(20)
    <2>7. HasLast'
      BY <2>2, <2>5, <2>6 DEF HasLast
    <2>8. Numbers'
      BY <1>0, <2>1, <2>2, NoFlush DEF Numbers
    <2>9. Ahead'
      BY <1>0, <1>1, <2>1, <2>2, <2>6, SMTT(20) DEF Ahead
    <2>. QED  BY <2>7, <2>8, <2>9 DEF Directory
  <1>10. CASE CrashIdle
    <2>1. Crash /\ UNCHANGED <<generation, active>> /\ Generations' = Generations
      BY <1>10 DEF CrashIdle, Generations
    <2>2. HasLast'
      BY <2>1 DEF Directory, HasLast
    <2>. QED  BY <1>0, <2>1, <2>2, Crashed
  <1>11. CASE UNCHANGED vars
    BY <1>11 DEF vars, Directory, Numbers, Ahead, HasLast, Generations
  <1>. QED
    BY <1>2, <1>3, <1>4, <1>5, <1>6, <1>7, <1>8, <1>9, <1>10, <1>11 DEF Next

\* A directory that does not exist yet.
LEMMA DirectoryInit == Init => Directory
  <1>. SUFFICES ASSUME Init PROVE Directory
    OBVIOUS
  <1>1. Generations = {} /\ sealed = -1 /\ up = FALSE /\ generation = 0 /\ active = 0
    BY DEF Init, Generations
  <1>2. HasLast
    BY <1>1 DEF HasLast
  <1>3. Numbers
    <2>1. 0 \in Nat
      OBVIOUS
    <2>. QED  BY <1>1, <2>1, NoFlush DEF Numbers
  <1>4. Ahead
    BY <1>1 DEF Ahead
  <1>. QED  BY <1>2, <1>3, <1>4 DEF Directory

\* Through any number of rotations that fail half way, deletions, crashes and
\* restarts, with or without a cipher: the file that append syncs is in the
\* directory (rotate, delete_generations_upto).
THEOREM ActiveStays == Spec => []ActiveFileKept
  <1>1. Directory => ActiveFileKept
    BY DEF Directory, Ahead, ActiveFileKept
  <1>. QED  BY <1>1, DirectoryInit, DirectoryStep, PTL DEF Spec
-----------------------------------------------------------------------------
(* What replay makes of a file *)

WalConstants == KeyChoices \subseteq BOOLEAN

\* The residues replay_file repairs: part of a frame, no header or less than
\* four bytes of one.  The README names the others.
Tolerated ==
    /\ CrashResidue \subseteq {"nothing", "part", "whole"}
    /\ HeaderResidue \subseteq {"nothing", "stub", "whole"}
    /\ FailResidue \subseteq {"nothing"}

\* The file ends in a frame that was not written out.
Torn(c) == Len(c) > 0 /\ c[Len(c)].kind = "framePart"

\* A plaintext file, and an encrypted one, as a process that died may leave it.
PlainFile(c) ==
    \A i \in 1 .. Len(c) : c[i].kind = "frame" \/ (i = Len(c) /\ c[i].kind = "framePart")

SealedFile(c) ==
    /\ Len(c) > 0 /\ c[1] = Header
    /\ \A i \in 2 .. Len(c) : \/ c[i].kind = "frame" /\ c[i].seq = i - 2
                              \/ i = Len(c) /\ c[i].kind = "framePart"

SoundFile(c, k) == PlainFile(c) \/ (k /\ (c = <<Stub>> \/ SealedFile(c)))

\* How much of a file replay keeps.
KeptLen(c) == IF Torn(c) THEN Len(c) - 1 ELSE Len(c)

Chunks == [kind : {"frame", "header", "stub", "headerPart", "framePart"},
           write : Nat, seq : Nat]

\* Leading is the number of good chunks in front.
LEMMA LeadingIs ==
    ASSUME NEW c \in Seq(Chunks), NEW good, NEW n \in 0 .. Len(c),
           \A i \in 1 .. n : i \in good, n < Len(c) => n + 1 \notin good
    PROVE  Leading(c, good) = n
  <1>. DEFINE P(m) == 1 .. m \subseteq good /\ (m < Len(c) => m + 1 \notin good)
  <1>0. Len(c) \in Nat
    BY SMTT(20)
  <1>1. P(n)
    OBVIOUS
  <1>2. ASSUME NEW m \in 0 .. Len(c), P(m) PROVE m = n
    <2>1. ~(m < n)
      <3>. SUFFICES ASSUME m < n PROVE FALSE
        OBVIOUS
      <3>1. m + 1 \in 1 .. n /\ m < Len(c)
        BY <1>0, SMTT(20)
      <3>. QED  BY <1>2, <3>1
    <2>2. ~(n < m)
      <3>. SUFFICES ASSUME n < m PROVE FALSE
        OBVIOUS
      <3>1. n + 1 \in 1 .. m /\ n < Len(c)
        BY <1>0, SMTT(20)
      <3>. QED  BY <1>2, <3>1
    <2>. QED  BY <1>0, <2>1, <2>2, SMTT(20)
  <1>3. Leading(c, good) = CHOOSE m \in 0 .. Len(c) : P(m)
    BY DEF Leading
  <1>. HIDE DEF P
  <1>. QED  BY <1>1, <1>2, <1>3

\* A place in a file without its last chunk.
LEMMA Before ==
    ASSUME NEW n \in Nat, NEW i \in 1 .. n - 1
    PROVE  i \in 1 .. n /\ i # n
  BY SMTT(20)

\* What is kept is the file, or the file without its last chunk.
LEMMA KeptLenIs ==
    ASSUME NEW c \in Seq(Chunks)
    PROVE  /\ Len(c) \in Nat /\ DOMAIN c = 1 .. Len(c) /\ KeptLen(c) \in 0 .. Len(c)
           /\ Torn(c) => /\ KeptLen(c) = Len(c) - 1 /\ Len(c) > 0
                         /\ c[Len(c)].kind = "framePart"
           /\ ~Torn(c) => KeptLen(c) = Len(c)
  <1>0. Len(c) \in Nat /\ DOMAIN c = 1 .. Len(c)
    BY SMTT(20)
  <1>1. CASE Torn(c)
    <2>1. KeptLen(c) = Len(c) - 1
      BY <1>1 DEF KeptLen
    <2>2. Len(c) > 0 /\ c[Len(c)].kind = "framePart"
      BY <1>1 DEF Torn
    <2>3. KeptLen(c) \in 0 .. Len(c)
      BY <1>0, <2>1, <2>2, SMTT(20)
    <2>. QED  BY <1>0, <1>1, <2>1, <2>2, <2>3
  <1>2. CASE ~Torn(c)
    <2>1. KeptLen(c) = Len(c)
      BY <1>2 DEF KeptLen
    <2>2. KeptLen(c) \in 0 .. Len(c)
      BY <1>0, <2>1, SMTT(20)
    <2>. QED  BY <1>0, <1>2, <2>1, <2>2
  <1>. QED  BY <1>1, <1>2

\* A plaintext file is read up to the torn frame.
LEMMA PlainRead ==
    ASSUME NEW c \in Seq(Chunks), PlainFile(c)
    PROVE  ReadPlaintext(c) = Reading(KeptLen(c), FALSE)
  <1>1. Len(c) \in Nat /\ DOMAIN c = 1 .. Len(c) /\ KeptLen(c) \in 0 .. Len(c)
    BY KeptLenIs
  <1>2. Leading(c, PlainFrames(c)) = KeptLen(c)
    <2>1. CASE Torn(c)
      <3>1. KeptLen(c) = Len(c) - 1 /\ Len(c) > 0 /\ c[Len(c)].kind = "framePart"
        BY <2>1, KeptLenIs
      <3>2. Len(c) \notin PlainFrames(c)
        BY <3>1 DEF PlainFrames
      <3>3. ASSUME NEW i \in 1 .. KeptLen(c) PROVE i \in PlainFrames(c)
        <4>1. i \in 1 .. Len(c) /\ i # Len(c)
          BY <1>1, <3>1, Before
        <4>. QED  BY <1>1, <4>1 DEF PlainFile, PlainFrames
      <3>4. KeptLen(c) + 1 = Len(c)
        BY <1>1, <3>1, SMTT(20)
      <3>. QED  BY <1>1, <3>2, <3>3, <3>4, LeadingIs
    <2>2. CASE ~Torn(c)
      <3>1. KeptLen(c) = Len(c)
        BY <2>2, KeptLenIs
      <3>2. ASSUME NEW i \in 1 .. KeptLen(c) PROVE i \in PlainFrames(c)
        <4>1. i \in 1 .. Len(c) /\ Len(c) > 0
          BY <1>1, <3>1, SMTT(20)
        <4>2. c[i].kind = "frame"
          BY <2>2, <4>1 DEF PlainFile, Torn
        <4>. QED  BY <1>1, <4>1, <4>2 DEF PlainFrames
      <3>. QED  BY <1>1, <3>1, <3>2, LeadingIs, SMTT(20)
    <2>. QED  BY <2>1, <2>2
  <1>3. \A i \in 1 .. Len(c) : c[i] # Stub
    BY SMTT(20) DEF PlainFile, Stub
  <1>4. ~(KeptLen(c) + 1 = Len(c) /\ c[KeptLen(c) + 1] = Stub)
    BY <1>1, <1>3, SMTT(20)
  <1>. QED  BY <1>2, <1>4 DEF ReadPlaintext

\* An encrypted file is read up to the torn frame, each frame opening under
\* the number of its place.
LEMMA SealedRead ==
    ASSUME NEW c \in Seq(Chunks), NEW luck, SealedFile(c)
    PROVE  ReadEncrypted(c, luck) = Reading(KeptLen(c), FALSE)
  <1>1. /\ Len(c) \in Nat /\ DOMAIN c = 1 .. Len(c) /\ KeptLen(c) \in 0 .. Len(c)
        /\ Len(c) > 0 /\ c[1] = Header
    BY KeptLenIs DEF SealedFile
  <1>2. CASE Torn(c)
    <2>1. KeptLen(c) = Len(c) - 1 /\ c[Len(c)].kind = "framePart"
      BY <1>2, KeptLenIs
    <2>2. Len(c) # 1
      BY <1>1, <2>1, SMTT(20) DEF Header
    <2>3. Len(c) \notin SealedChunks(c)
      BY <1>1, <2>1, <2>2 DEF SealedChunks
    <2>4. ASSUME NEW i \in 1 .. KeptLen(c) PROVE i \in SealedChunks(c)
      <3>1. i \in 1 .. Len(c) /\ i # Len(c)
        BY <1>1, <2>1, Before
      <3>2. i # 1 => c[i].kind = "frame" /\ c[i].seq = i - 2
        BY <3>1, SMTT(20) DEF SealedFile
      <3>. QED  BY <1>1, <3>1, <3>2 DEF SealedChunks
    <2>5. KeptLen(c) + 1 = Len(c) /\ KeptLen(c) # 0
      BY <1>1, <2>1, <2>2, SMTT(20)
    <2>6. Leading(c, SealedChunks(c)) = KeptLen(c)
      BY <1>1, <2>3, <2>4, <2>5, LeadingIs
    <2>. QED  BY <2>1, <2>5, <2>6 DEF ReadEncrypted
  <1>3. CASE ~Torn(c)
    <2>1. KeptLen(c) = Len(c)
      BY <1>3, KeptLenIs
    <2>2. ASSUME NEW i \in 1 .. KeptLen(c) PROVE i \in SealedChunks(c)
      <3>1. i \in 1 .. Len(c)
        BY <1>1, <2>1
      <3>2. i # 1 => c[i].kind = "frame" /\ c[i].seq = i - 2
        <4>1. c[Len(c)].kind # "framePart"
          BY <1>1, <1>3 DEF Torn
        <4>2. i # 1 => i \in 2 .. Len(c)
          BY <1>1, <3>1, SMTT(20)
        <4>. QED  BY <4>1, <4>2 DEF SealedFile
      <3>. QED  BY <1>1, <3>1, <3>2 DEF SealedChunks
    <2>3. Leading(c, SealedChunks(c)) = KeptLen(c)
      BY <1>1, <2>1, <2>2, LeadingIs, SMTT(20)
    <2>4. KeptLen(c) # 0 /\ ~(KeptLen(c) < Len(c))
      BY <1>1, <2>1, SMTT(20)
    <2>. QED  BY <2>3, <2>4 DEF ReadEncrypted
  <1>. QED  BY <1>2, <1>3

\* replay_file on a sound file: no error, and only a torn frame is cut off.
LEMMA ReadSound ==
    ASSUME NEW c \in Seq(Chunks), NEW k, NEW luck, SoundFile(c, k)
    PROVE  ReadFile(c, k, luck) = Reading(KeptLen(c), FALSE)
  <1>0. Len(c) \in Nat /\ (c # <<>> => Len(c) > 0)
    BY EmptySeq, SMTT(20)
  <1>1. CASE c = <<>> \/ c = <<Stub>>
    <2>1. KeptLen(c) = Len(c)
      BY <1>1, SMTT(20) DEF KeptLen, Torn, Stub
    <2>. QED  BY <1>1, <2>1 DEF ReadFile
  <1>2. CASE c # <<>> /\ c # <<Stub>> /\ PlainFile(c)
    <2>1. c[1].kind \in {"frame", "framePart"}
      BY <1>0, <1>2, SMTT(20) DEF PlainFile
    <2>. QED  BY <1>2, <2>1, PlainRead DEF ReadFile
  <1>3. CASE c # <<>> /\ c # <<Stub>> /\ k /\ SealedFile(c)
    <2>1. c[1].kind = "header"
      BY <1>3, SMTT(20) DEF SealedFile, Header
    <2>. QED  BY <1>3, <2>1, SealedRead DEF ReadFile
  <1>. QED  BY <1>1, <1>2, <1>3 DEF SoundFile

\* A file as replay leaves it.
LEMMA KeptIs ==
    ASSUME NEW c \in Seq(Chunks), NEW k, SoundFile(c, k)
    PROVE  LET d == SubSeq(c, 1, KeptLen(c))
           IN  /\ d \in Seq(Chunks) /\ Len(d) = KeptLen(c)
               /\ \A i \in 1 .. KeptLen(c) : d[i] = c[i]
               /\ SoundFile(d, k) /\ ~Torn(d)
               /\ PlainFile(c) => PlainFile(d)
  <1>. DEFINE d == SubSeq(c, 1, KeptLen(c))
  <1>0. Len(c) \in Nat /\ DOMAIN c = 1 .. Len(c) /\ KeptLen(c) \in 0 .. Len(c)
    BY KeptLenIs
  <1>1. /\ d \in Seq(Chunks) /\ Len(d) = KeptLen(c)
        /\ \A i \in 1 .. KeptLen(c) : d[i] = c[i]
    <2>1. \A i \in 1 .. KeptLen(c) : c[i] \in Chunks
      BY <1>0, ElementOfSeq, SMTT(20)
    <2>. QED  BY <1>0, <2>1, SubSeqProperties, SMTT(20)
  <1>2. \A i \in 1 .. KeptLen(c) : /\ i \in 1 .. Len(c)
                                   /\ i = Len(c) => c[i].kind # "framePart"
    <2>1. CASE Torn(c)
      BY <1>0, <2>1, KeptLenIs, Before
    <2>2. CASE ~Torn(c)
      <3>1. KeptLen(c) = Len(c)
        BY <2>2, KeptLenIs
      <3>2. Len(c) > 0 => c[Len(c)].kind # "framePart"
        BY <2>2 DEF Torn
      <3>3. ASSUME NEW i \in 1 .. KeptLen(c)
            PROVE  i \in 1 .. Len(c) /\ Len(c) > 0
        BY <1>0, <3>1, SMTT(20)
      <3>. QED  BY <3>2, <3>3
    <2>. QED  BY <2>1, <2>2
  <1>. HIDE DEF d
  <1>3. PlainFile(c) => PlainFile(d) /\ ~Torn(d)
    <2>. SUFFICES ASSUME PlainFile(c) PROVE PlainFile(d) /\ ~Torn(d)
      OBVIOUS
    <2>1. \A i \in 1 .. KeptLen(c) : c[i].kind = "frame"
      BY <1>2 DEF PlainFile
    <2>2. \A i \in 1 .. Len(d) : d[i].kind = "frame"
      BY <1>1, <2>1
    <2>3. Len(d) > 0 => Len(d) \in 1 .. Len(d)
      BY <1>0, <1>1, SMTT(20)
    <2>. QED  BY <2>2, <2>3 DEF PlainFile, Torn
  <1>4. SealedFile(c) => SealedFile(d) /\ ~Torn(d)
    <2>. SUFFICES ASSUME SealedFile(c) PROVE SealedFile(d) /\ ~Torn(d)
      OBVIOUS
    <2>1. Len(c) > 0 /\ c[1] = Header /\ KeptLen(c) > 0
      <3>1. Len(c) > 0 /\ c[1] = Header
        BY DEF SealedFile
      <3>2. Torn(c) => Len(c) # 1
        BY <3>1, SMTT(20) DEF Torn, Header
      <3>3. CASE Torn(c)
        BY <1>0, <3>1, <3>2, <3>3, KeptLenIs, SMTT(20)
      <3>4. CASE ~Torn(c)
        BY <1>0, <3>1, <3>4, KeptLenIs
      <3>. QED  BY <3>1, <3>3, <3>4
    <2>2. \A i \in 2 .. KeptLen(c) : d[i] = c[i] /\ c[i].kind = "frame" /\ c[i].seq = i - 2
      <3>. SUFFICES ASSUME NEW i \in 2 .. KeptLen(c)
                    PROVE  d[i] = c[i] /\ c[i].kind = "frame" /\ c[i].seq = i - 2
        OBVIOUS
      <3>1. i \in 1 .. KeptLen(c)
        BY <1>0, SMTT(20)
      <3>2. i \in 2 .. Len(c)
        BY <1>0, SMTT(20)
      <3>. QED  BY <1>1, <1>2, <3>1, <3>2 DEF SealedFile
    <2>3. d[1] = Header
      BY <1>0, <1>1, <2>1, SMTT(20)
    <2>4. SealedFile(d)
      BY <1>1, <2>1, <2>2, <2>3 DEF SealedFile
    <2>5. ~Torn(d)
      <3>1. CASE Len(d) = 1
        BY <2>3, <3>1, SMTT(20) DEF Torn, Header
      <3>2. CASE Len(d) # 1
        <4>1. Len(d) \in 2 .. KeptLen(c)
          BY <1>0, <1>1, <2>1, <3>2, SMTT(20)
        <4>2. d[Len(d)].kind = "frame"
          BY <2>2, <4>1
        <4>. QED  BY <4>2 DEF Torn
      <3>. QED  BY <3>1, <3>2
    <2>. QED  BY <2>4, <2>5
  <1>5. c = <<Stub>> => d = <<Stub>> /\ ~Torn(d)
    <2>. SUFFICES ASSUME c = <<Stub>> PROVE d = <<Stub>> /\ ~Torn(d)
      OBVIOUS
    <2>1. ~Torn(c)
      BY DEF Torn, Stub
    <2>2. Len(c) = 1 /\ KeptLen(c) = 1
      BY <2>1, KeptLenIs
    <2>3. d = c
      BY <1>0, <1>1, <2>2, SeqEqual
    <2>. QED  BY <2>1, <2>3
  <1>6. SoundFile(d, k) /\ ~Torn(d)
    BY <1>3, <1>4, <1>5 DEF SoundFile
  <1>. QED  BY <1>1, <1>3, <1>6 DEF d

\* Every frame of a sound file is kept, where it was.
LEMMA FramesKept ==
    ASSUME NEW c \in Seq(Chunks), NEW i \in 1 .. Len(c), c[i].kind = "frame"
    PROVE  i \in 1 .. KeptLen(c)
  <1>1. Len(c) \in Nat /\ KeptLen(c) \in 0 .. Len(c)
    BY KeptLenIs
  <1>2. CASE Torn(c)
    BY <1>1, <1>2, KeptLenIs, SMTT(20)
  <1>3. CASE ~Torn(c)
    BY <1>1, <1>3, KeptLenIs
  <1>. QED  BY <1>2, <1>3
-----------------------------------------------------------------------------
(* The files of the directory *)

\* Write w is chunk i of generation g.
IsFrame(fs, g, i, w) ==
    /\ g \in DOMAIN fs /\ i \in 1 .. Len(fs[g])
    /\ fs[g][i].kind = "frame" /\ fs[g][i].write = w

GoodFiles(fs, k) == \A g \in DOMAIN fs : fs[g] \in Seq(Chunks) /\ SoundFile(fs[g], k)

\* The same frames in the same places.
SameFrames(fs, gs) ==
    \A g, i, w \in Nat : IsFrame(gs, g, i, w) <=> IsFrame(fs, g, i, w)

\* What one write_all leaves of a header and of a frame.
LEMMA LeftIs ==
    /\ \A c : /\ Left(c, "nothing") = <<>> /\ Left(c, "whole") = <<c>>
              /\ Left(c, "stub") = <<Stub>> /\ Left(c, "part") = <<PartOf(c)>>
    /\ \A w \in Nat, n \in Nat : Frame(w, n) \in Chunks /\ PartOf(Frame(w, n)) \in Chunks
    /\ \A w \in Nat, n \in Nat : PartOf(Frame(w, n)).kind = "framePart"
    /\ Header \in Chunks /\ Stub \in Chunks
  <1>1. \A w \in Nat, n \in Nat : Frame(w, n) # Header
    BY DEF Frame, Header
  <1>2. \A w \in Nat, n \in Nat :
           PartOf(Frame(w, n)) = [kind |-> "framePart", write |-> 0, seq |-> 0]
    BY <1>1 DEF PartOf
  <1>3. \A w \in Nat, n \in Nat : Frame(w, n) \in Chunks
    BY DEF Frame, Chunks
  <1>4. \A w \in Nat, n \in Nat :
           PartOf(Frame(w, n)) \in Chunks /\ PartOf(Frame(w, n)).kind = "framePart"
    BY <1>2, SMTT(20) DEF Chunks
  <1>5. Header \in Chunks /\ Stub \in Chunks
    BY DEF Header, Stub, Chunks
  <1>6. \A c : /\ Left(c, "nothing") = <<>> /\ Left(c, "whole") = <<c>>
               /\ Left(c, "stub") = <<Stub>> /\ Left(c, "part") = <<PartOf(c)>>
    BY DEF Left
  <1>. QED  BY <1>3, <1>4, <1>5, <1>6

\* What an operation on an encrypted log may leave in a file it creates.
LEMMA HeaderLeft ==
    ASSUME Tolerated, NEW residue \in HeaderResidue
    PROVE  Left(Header, residue) \in {<<>>, <<Header>>, <<Stub>>}
  <1>1. residue \in {"nothing", "stub", "whole"}
    BY DEF Tolerated
  <1>. QED  BY <1>1, LeftIs

\* Files with nothing in them but a header, or less.
LEMMA BlankIs ==
    ASSUME NEW c \in {<<>>, <<Header>>, <<Stub>>}
    PROVE  /\ c \in Seq(Chunks) /\ ~Torn(c)
           /\ \A i \in 1 .. Len(c) : c[i].kind # "frame"
           /\ c = <<>> => PlainFile(c)
           /\ c = <<Header>> => SealedFile(c) /\ Len(c) = 1
           /\ \A k : c = <<>> \/ k => SoundFile(c, k)
  <1>1. CASE c = <<>>
    BY <1>1, SMTT(20) DEF Torn, PlainFile, SoundFile, Header
  <1>2. CASE c = <<Header>>
    <2>1. c \in Seq(Chunks) /\ Len(c) = 1 /\ c[1] = Header /\ Header.kind = "header"
      BY <1>2, LeftIs, SMTT(20) DEF Header
    <2>2. SealedFile(c)
      BY <2>1, SMTT(20) DEF SealedFile
    <2>3. c # <<>>
      BY <2>1, SMTT(20)
    <2>. QED  BY <2>1, <2>2, <2>3, SMTT(20) DEF Torn, SoundFile
  <1>3. CASE c = <<Stub>>
    <2>1. c \in Seq(Chunks) /\ Len(c) = 1 /\ c[1] = Stub /\ Stub.kind = "stub" /\ Stub # Header
      BY <1>3, LeftIs, SMTT(20) DEF Stub, Header
    <2>2. c # <<>> /\ c # <<Header>>
      BY <2>1, SMTT(20)
    <2>. QED  BY <1>3, <2>1, <2>2, SMTT(20) DEF Torn, SoundFile
  <1>. QED  BY <1>1, <1>2, <1>3

\* A fresh encrypted file, whose next frame has number 0.
LEMMA HeaderIs == SealedFile(<<Header>>) /\ 0 = Len(<<Header>>) - 1 /\ 0 \in Nat
  <1>1. SealedFile(<<Header>>)
    BY BlankIs
  <1>. QED  BY <1>1, SMTT(20)

\* A directory with one more file, or none, and the same frames.
Extends(fs, gs, x, left, k) ==
    /\ GoodFiles(gs, k) /\ SameFrames(fs, gs)
    /\ \A g \in DOMAIN fs : g \in DOMAIN gs /\ gs[g] = fs[g]
    /\ \A g \in DOMAIN gs : g \in DOMAIN fs \/ g = x
    /\ x \in DOMAIN gs
    /\ x \notin DOMAIN fs => gs[x] = left

\* A file is created with nothing in it but a header, or less; or an
\* existing one is opened and nothing written.
LEMMA BlankAdded ==
    ASSUME NEW fs, NEW k, GoodFiles(fs, k), NEW x, NEW left \in {<<>>, <<Header>>, <<Stub>>},
           x \notin DOMAIN fs \/ left = <<>>, left = <<>> \/ k,
           NEW gs, gs = With(fs, x, left)
    PROVE  Extends(fs, gs, x, left, k)
  <1>0. left \in Seq(Chunks) /\ SoundFile(left, k) /\ \A i \in 1 .. Len(left) : left[i].kind # "frame"
    BY BlankIs
  <1>1. /\ \A g \in DOMAIN fs : g \in DOMAIN gs
        /\ \A g \in DOMAIN gs : g \in DOMAIN fs \/ g = x
        /\ x \in DOMAIN gs
    BY WithIs
  <1>2. \A g \in DOMAIN fs : gs[g] = fs[g]
    <2>1. ASSUME x \in DOMAIN fs PROVE gs[x] = fs[x]
      <3>1. left = <<>> /\ fs[x] \in Seq(Chunks)
        BY <2>1 DEF GoodFiles
      <3>. QED  BY <2>1, <3>1, WithIs, ConcatEmptySeq
    <2>. QED  BY <2>1, WithIs, SMTT(20)
  <1>3. x \notin DOMAIN fs => gs[x] = left
    BY <1>0, WithIs, ConcatEmptySeq
  <1>4. GoodFiles(gs, k)
    BY <1>0, <1>1, <1>2, <1>3 DEF GoodFiles
  <1>5. SameFrames(fs, gs)
    BY <1>0, <1>1, <1>2, <1>3 DEF SameFrames, IsFrame
  <1>. QED  BY <1>1, <1>2, <1>3, <1>4, <1>5 DEF Extends

\* Wal::open with a key, or without one when there is no encrypted file:
\* torn frames go, nothing else.
LEMMA ReplayedAre ==
    ASSUME GoodFiles(files, key), NEW k \in BOOLEAN, NEW luck, key \in BOOLEAN, key => k,
           NEW gs, gs = Replayed(k, luck)
    PROVE  /\ GoodFiles(gs, k) /\ SameFrames(files, gs) /\ DOMAIN gs = Generations
           /\ \A g \in Generations : ~Torn(gs[g])
  <1>0. \A g \in Generations : files[g] \in Seq(Chunks) /\ SoundFile(files[g], k)
    BY DEF GoodFiles, SoundFile, Generations
  <1>1. \A g \in Generations : gs[g] = SubSeq(files[g], 1, KeptLen(files[g]))
    <2>. SUFFICES ASSUME NEW g \in Generations
                  PROVE  ReadFile(files[g], k, luck).keep = KeptLen(files[g])
      BY DEF Replayed
    <2>1. ReadFile(files[g], k, luck) = Reading(KeptLen(files[g]), FALSE)
      BY <1>0, ReadSound
    <2>. QED  BY <2>1, SMTT(20) DEF Reading
  <1>2. DOMAIN gs = Generations
    BY ReplayedIs
  <1>3. \A g \in Generations :
           /\ gs[g] \in Seq(Chunks) /\ SoundFile(gs[g], k) /\ ~Torn(gs[g])
           /\ Len(gs[g]) = KeptLen(files[g])
           /\ \A i \in 1 .. KeptLen(files[g]) : gs[g][i] = files[g][i]
    <2>. SUFFICES ASSUME NEW g \in Generations
                  PROVE  /\ gs[g] \in Seq(Chunks) /\ SoundFile(gs[g], k) /\ ~Torn(gs[g])
                         /\ Len(gs[g]) = KeptLen(files[g])
                         /\ \A i \in 1 .. KeptLen(files[g]) : gs[g][i] = files[g][i]
      OBVIOUS
    <2>. DEFINE c == files[g]
                d == SubSeq(c, 1, KeptLen(c))
    <2>1. c \in Seq(Chunks) /\ SoundFile(c, k) /\ gs[g] = d
      BY <1>0, <1>1
    <2>. HIDE DEF c
    <2>2. /\ d \in Seq(Chunks) /\ SoundFile(d, k) /\ ~Torn(d) /\ Len(d) = KeptLen(c)
          /\ \A i \in 1 .. KeptLen(c) : d[i] = c[i]
      BY <2>1, KeptIs
    <2>. QED  BY <2>1, <2>2 DEF c
  <1>4. SameFrames(files, gs)
    <2>. SUFFICES ASSUME NEW g \in Generations, NEW i \in Nat, NEW w \in Nat
                  PROVE  IsFrame(gs, g, i, w) <=> IsFrame(files, g, i, w)
      BY <1>2, SMTT(20) DEF SameFrames, IsFrame, Generations
    <2>0. Len(files[g]) \in Nat /\ KeptLen(files[g]) \in 0 .. Len(files[g])
      BY <1>0, KeptLenIs
    <2>1. ASSUME IsFrame(files, g, i, w) PROVE IsFrame(gs, g, i, w)
      <3>1. i \in 1 .. KeptLen(files[g])
        BY <1>0, <2>1, FramesKept DEF IsFrame
      <3>. QED  BY <1>2, <1>3, <2>1, <3>1 DEF IsFrame
    <2>2. ASSUME IsFrame(gs, g, i, w) PROVE IsFrame(files, g, i, w)
      <3>1. i \in 1 .. KeptLen(files[g])
        BY <1>3, <2>2 DEF IsFrame
      <3>2. i \in 1 .. Len(files[g])
        BY <2>0, <3>1, SMTT(20)
      <3>3. gs[g][i] = files[g][i]
        BY <1>3, <3>1
      <3>. QED  BY <2>2, <3>2, <3>3 DEF IsFrame, Generations
    <2>. QED  BY <2>1, <2>2
  <1>. QED  BY <1>2, <1>3, <1>4 DEF GoodFiles

\* The files are what the process, alive or dead, may have left; the one
\* appended to is whole, and the next frame gets the number of its place.
Sound ==
    /\ key \in BOOLEAN /\ seq \in Nat /\ next \in Nat
    /\ GoodFiles(files, key)
    /\ up => /\ ~Torn(files[active])
             /\ key => SealedFile(files[active]) /\ seq = Len(files[active]) - 1
             /\ ~key => PlainFile(files[active])

\* Frames are in the order of their writes, and none is behind the end.
Ordered ==
    \A g, h, i, j, v, w \in Nat :
        IsFrame(files, g, i, v) /\ IsFrame(files, h, j, w) /\ (g < h \/ (g = h /\ i < j)) => v < w

Past ==
    \A g, i, w \in Nat :
        IsFrame(files, g, i, w) => 1 <= w /\ w <= next /\ (up => g <= active)

Present(w) == \E g, i \in Nat : IsFrame(files, g, i, w)

\* What is acknowledged and in no committed file is there, and so is every
\* write acknowledged after one that is there.
Here ==
    /\ \A w \in acked : w \in Nat /\ 1 <= w /\ w <= next
    /\ \A w \in acked : w \notin safe => Present(w)
    /\ \A v, w \in acked : Present(v) /\ v < w => Present(w)

Contents == Sound /\ Ordered /\ Past /\ Here

\* A step that leaves every frame where it is.
LEMMA FramesStay ==
    ASSUME Ordered, Past, Here, SameFrames(files, files'), UNCHANGED <<acked, safe>>,
           next \in Nat, next' \in Nat, next <= next',
           up' => \A g, i, w \in Nat : IsFrame(files, g, i, w) => g <= active'
    PROVE  Ordered' /\ Past' /\ Here'
  <1>1. Ordered'
    BY SMTT(20) DEF Ordered, SameFrames
  <1>2. Past'
    BY SMTT(20) DEF Past, SameFrames
  <1>3. \A w \in Nat : Present(w)' <=> Present(w)
    BY DEF Present, SameFrames
  <1>4. Here'
    BY <1>3, SMTT(20) DEF Here
  <1>. QED  BY <1>1, <1>2, <1>4

\* A frame is written behind all others, acknowledged or not.
LEMMA FrameAdded ==
    ASSUME Ordered, Past, Here, next \in Nat, active \in Nat, up, UNCHANGED <<active, safe>>,
           next' = next + 1, acked' = acked \/ acked' = acked \cup {next + 1},
           NEW n \in Nat, \A i, w \in Nat : IsFrame(files, active, i, w) => i < n,
           \A g, i, w \in Nat : IsFrame(files', g, i, w) <=>
              \/ IsFrame(files, g, i, w)
              \/ g = active /\ i = n /\ w = next + 1
    PROVE  Ordered' /\ Past' /\ Here'
  <1>1. Ordered'
    <2>. SUFFICES ASSUME NEW g \in Nat, NEW h \in Nat, NEW i \in Nat, NEW j \in Nat,
                         NEW v \in Nat, NEW w \in Nat,
                         IsFrame(files', g, i, v), IsFrame(files', h, j, w),
                         g < h \/ (g = h /\ i < j)
                  PROVE  v < w
      BY SMTT(20) DEF Ordered
    <2>1. CASE IsFrame(files, g, i, v) /\ IsFrame(files, h, j, w)
      BY <2>1, SMTT(20) DEF Ordered
    <2>2. CASE IsFrame(files, g, i, v) /\ w = next + 1
      BY <2>2, SMTT(20) DEF Past
    <2>3. CASE g = active /\ i = n /\ v = next + 1
      <3>1. CASE IsFrame(files, h, j, w)
        <4>1. h <= active
          BY <3>1 DEF Past
        <4>2. h = active /\ i < j
          BY <2>3, <4>1, SMTT(20)
        <4>. QED  BY <2>3, <3>1, <4>2, SMTT(20)
      <3>2. CASE h = active /\ j = n
        BY <2>3, <3>2, SMTT(20)
      <3>. QED  BY <3>1, <3>2
    <2>. QED  BY <2>1, <2>2, <2>3
  <1>2. Past'
    BY SMTT(20) DEF Past
  <1>3. \A w \in Nat : Present(w)' <=> Present(w) \/ w = next + 1
    BY DEF Present
  <1>4. Here'
    <2>1. \A w \in acked' : w \in Nat /\ 1 <= w /\ w <= next' /\ (w \in acked \/ w = next + 1)
      BY SMTT(20) DEF Here
    <2>2. \A w \in acked' : w \notin safe' => Present(w)'
      BY <1>3, <2>1 DEF Here
    <2>3. ASSUME NEW v \in acked', NEW w \in acked', Present(v)', v < w PROVE Present(w)'
      <3>1. CASE w = next + 1
        BY <1>3, <3>1, SMTT(20)
      <3>2. CASE w \in acked
        <4>1. w \in Nat /\ w <= next
          BY <3>2 DEF Here
        <4>2. v # next + 1 /\ v \in Nat
          BY <2>1, <2>3, <4>1, SMTT(20)
        <4>3. v \in acked /\ Present(v)
          BY <1>3, <2>1, <2>3, <4>2
        <4>. QED  BY <1>3, <2>3, <3>2, <4>1, <4>3 DEF Here
      <3>. QED  BY <2>1, <3>1, <3>2
    <2>. QED  BY <2>1, <2>2, <2>3 DEF Here
  <1>. QED  BY <1>1, <1>2, <1>4

\* Old generations go, their writes safe.
LEMMA FramesDeleted ==
    ASSUME Ordered, Past, Here, next \in Nat, UNCHANGED <<active, acked, next>>, up, up' => up,
           \A g \in Nat : g \in DOMAIN files' => g \in DOMAIN files /\ files'[g] = files[g],
           \A g, h \in Nat : g \in DOMAIN files' /\ h \in DOMAIN files /\ g <= h => h \in DOMAIN files',
           \A w \in safe : w \in safe',
           \A g, i, w \in Nat : IsFrame(files, g, i, w) /\ g \notin DOMAIN files' => w \in safe'
    PROVE  Ordered' /\ Past' /\ Here'
  <1>0. \A g, i, w \in Nat : IsFrame(files', g, i, w) <=> IsFrame(files, g, i, w) /\ g \in DOMAIN files'
    BY DEF IsFrame
  <1>1. Ordered'
    BY <1>0, SMTT(20) DEF Ordered
  <1>2. Past'
    BY <1>0 DEF Past
  <1>3. Here'
    <2>1. \A w \in acked : w \notin safe' => Present(w)'
      <3>. SUFFICES ASSUME NEW w \in acked, w \notin safe' PROVE Present(w)'
        OBVIOUS
      <3>1. w \in Nat /\ Present(w)
        BY DEF Here
      <3>. QED  BY <1>0, <3>1 DEF Present
    <2>2. ASSUME NEW v \in acked, NEW w \in acked, Present(v)', v < w PROVE Present(w)'
      <3>0. v \in Nat /\ w \in Nat
        BY DEF Here
      <3>1. PICK g, i \in Nat : IsFrame(files', g, i, v)
        BY <2>2 DEF Present
      <3>2. Present(v)
        BY <1>0, <3>0, <3>1 DEF Present
      <3>3. PICK h, j \in Nat : IsFrame(files, h, j, w)
        BY <2>2, <3>2 DEF Here, Present
      <3>4. ~(h < g)
        BY <1>0, <2>2, <3>0, <3>1, <3>3, SMTT(20) DEF Ordered
      <3>5. h \in DOMAIN files'
        BY <3>1, <3>3, <3>4, SMTT(20) DEF IsFrame
      <3>. QED  BY <1>0, <3>0, <3>3, <3>5 DEF Present
    <2>. QED  BY <2>1, <2>2 DEF Here
  <1>. QED  BY <1>1, <1>2, <1>3

\* The places of frames, as naturals.
LEMMA FramePlaces ==
    ASSUME GoodFiles(files, key), NEW g \in Generations, NEW i \in DOMAIN files[g],
           files[g][i].kind = "frame"
    PROVE  /\ files[g][i].write \in Nat /\ i \in Nat
           /\ IsFrame(files, g, i, files[g][i].write)
  <1>1. files[g] \in Seq(Chunks)
    BY DEF GoodFiles, Generations
  <1>2. i \in 1 .. Len(files[g]) /\ files[g][i] \in Chunks /\ DOMAIN files[g] = 1 .. Len(files[g])
    BY <1>1, ElementOfSeq, SMTT(20)
  <1>. QED  BY <1>1, <1>2, SMTT(20) DEF IsFrame, Chunks, Generations

\* Wal::open.
LEMMA OpenContents ==
    ASSUME Directory, Contents, NEW k \in BOOLEAN, NEW luck \in BOOLEAN, Open(k, luck)
    PROVE  Contents'
  <1>0. /\ key \in BOOLEAN /\ (key => k) /\ ~up /\ up' = TRUE /\ key' = k /\ seq' = 0
        /\ active' = generation' /\ UNCHANGED <<next, acked, safe>> /\ next \in Nat
        /\ GoodFiles(files, key) /\ active' = generation'
    BY DEF Open, KeyAtStart, Contents, Sound
  <1>. DEFINE gs == Replayed(k, luck)
              left == IF k THEN <<Header>> ELSE <<>>
  <1>1. /\ GoodFiles(gs, k) /\ SameFrames(files, gs) /\ DOMAIN gs = Generations
        /\ \A g \in Generations : ~Torn(gs[g])
    BY <1>0, ReplayedAre
  <1>2. files' = With(gs, active', left)
    BY DEF Open
  <1>3. left \in {<<>>, <<Header>>, <<Stub>>} /\ (left = <<>> \/ k) /\ (k => left = <<Header>>)
        /\ (~k => left = <<>>)
    OBVIOUS
  <1>4. /\ generation' = FreshGeneration \/ generation' = LastGen
        /\ k => generation' = FreshGeneration
        /\ generation' # FreshGeneration => \E g : g \in Generations
    BY DEF Open
  <1>5. /\ active' \in Nat /\ \A h \in Generations : h \in Nat /\ h <= active'
        /\ k => active' \notin Generations
    <2>1. \A h \in Generations : h \in Nat
      BY DEF Directory, Numbers
    <2>2. CASE generation' = FreshGeneration
      BY <1>0, <2>1, <2>2, LastGenIs, SMTT(20)
    <2>3. CASE generation' # FreshGeneration
      BY <1>0, <1>4, <2>1, <2>3, LastGenIs
    <2>. QED  BY <2>2, <2>3
  <1>. HIDE DEF gs, left
  <1>6. /\ GoodFiles(files', k) /\ SameFrames(gs, files')
        /\ \A g \in Generations : files'[g] = gs[g]
        /\ active' \in DOMAIN files'
        /\ active' \notin Generations => files'[active'] = left
    <2>1. active' \notin DOMAIN gs \/ left = <<>>
      BY <1>1, <1>3, <1>5
    <2>2. Extends(gs, files', active', left, k)
      BY <1>1, <1>2, <1>3, <2>1, BlankAdded
    <2>. QED  BY <1>1, <2>2 DEF Extends
  <1>7. SameFrames(files, files')
    BY <1>1, <1>6 DEF SameFrames
  <1>8. \A g, i, w \in Nat : IsFrame(files, g, i, w) => g <= active'
    BY <1>5 DEF IsFrame, Generations
  <1>9. Ordered' /\ Past' /\ Here'
    BY <1>0, <1>7, <1>8, FramesStay, SMTT(20) DEF Contents
  <1>10. ~Torn(files'[active'])
    BY <1>1, <1>3, <1>6, BlankIs
  <1>11. k => SealedFile(files'[active']) /\ 0 = Len(files'[active']) - 1
    <2>1. k => files'[active'] = <<Header>>
      BY <1>3, <1>5, <1>6
    <2>. QED  BY <2>1, HeaderIs
  <1>12. ~k => PlainFile(files'[active'])
    BY <1>6 DEF GoodFiles, SoundFile
  <1>13. Sound'
    BY <1>0, <1>6, <1>10, <1>11, <1>12, HeaderIs DEF Sound
  <1>. QED  BY <1>9, <1>13 DEF Contents

\* A header is written, in whole or in part, to a file that is new: rotate,
\* and every way it or open can be cut short.
LEMMA HeaderContents ==
    ASSUME Directory, Contents, NEW x \in Nat, x \notin Generations,
           NEW left \in {<<>>, <<Header>>, <<Stub>>}, left = <<>> \/ key,
           files' = With(files, x, left), UNCHANGED <<key, next, acked, safe>>,
           \/ up' = FALSE /\ seq' = seq
           \/ up /\ UNCHANGED <<up, active, seq>>
           \/ /\ up' = TRUE /\ active' = x /\ seq' = 0 /\ up /\ active < x
              /\ left = IF key THEN <<Header>> ELSE <<>>
    PROVE  Contents'
  <1>0. /\ key \in BOOLEAN /\ next \in Nat /\ seq \in Nat /\ GoodFiles(files, key)
        /\ active \in Nat /\ (up => active \in Generations)
    BY DEF Contents, Sound, Directory, Numbers, Ahead
  <1>1. /\ GoodFiles(files', key) /\ SameFrames(files, files')
        /\ \A g \in Generations : files'[g] = files[g]
        /\ files'[x] = left
    <2>1. GoodFiles(files, key) /\ x \notin DOMAIN files
      BY <1>0 DEF Generations
    <2>2. Extends(files, files', x, left, key)
      BY <2>1, BlankAdded
    <2>. QED  BY <2>1, <2>2 DEF Generations, Extends
  <1>2. up' => \A g, i, w \in Nat : IsFrame(files, g, i, w) => g <= active'
    <2>1. up => \A g, i, w \in Nat : IsFrame(files, g, i, w) => g <= active
      BY DEF Contents, Past
    <2>2. up' => up /\ (active' = active \/ (active' = x /\ active < x))
      OBVIOUS
    <2>3. ASSUME active < x, NEW g \in Nat, g <= active PROVE g <= x
      BY <1>0, <2>3, SMTT(20)
    <2>. QED  BY <2>1, <2>2, <2>3
  <1>3. Ordered' /\ Past' /\ Here'
    <2>1. Ordered /\ Past /\ Here
      BY DEF Contents
    <2>2. UNCHANGED <<acked, safe>> /\ next' \in Nat /\ next <= next'
      BY <1>0, SMTT(20)
    <2>. QED  BY <1>0, <1>1, <1>2, <2>1, <2>2, FramesStay
  <1>4. CASE up' = FALSE /\ seq' = seq
    BY <1>0, <1>1, <1>3, <1>4 DEF Sound, Contents
  <1>5. CASE up /\ UNCHANGED <<up, active, seq>>
    <2>1. files'[active'] = files[active]
      BY <1>0, <1>1, <1>5
    <2>. QED  BY <1>0, <1>1, <1>3, <1>5, <2>1 DEF Sound, Contents
  <1>6. CASE up' = TRUE /\ active' = x /\ seq' = 0 /\ left = IF key THEN <<Header>> ELSE <<>>
    <2>1. ~Torn(files'[active'])
      BY <1>1, <1>6, BlankIs
    <2>2. key => SealedFile(files'[active']) /\ 0 = Len(files'[active']) - 1
      BY <1>1, <1>6, HeaderIs
    <2>3. ~key => PlainFile(files'[active'])
      BY <1>1, <1>6, BlankIs
    <2>4. Sound'
      BY <1>0, <1>1, <1>6, <2>1, <2>2, <2>3, HeaderIs DEF Sound
    <2>. QED  BY <1>3, <2>4 DEF Contents
  <1>. QED  BY <1>4, <1>5, <1>6

\* Wal::open cut short: the torn frames are gone, or the header is.
LEMMA CrashInOpenContents ==
    ASSUME Tolerated, Directory, Contents, NEW residue, CrashInOpen(residue)
    PROVE  Contents'
  <1>0. /\ key \in BOOLEAN /\ key /\ up' = FALSE /\ UNCHANGED <<key, seq, next, acked, safe>>
        /\ next \in Nat /\ seq \in Nat /\ GoodFiles(files, key) /\ residue \in HeaderResidue
    BY DEF CrashInOpen, Crash, Contents, Sound
  <1>. DEFINE gs == Replayed(key, FALSE)
              left == Left(Header, residue)
  <1>1. GoodFiles(gs, key) /\ SameFrames(files, gs) /\ DOMAIN gs = Generations
    BY <1>0, ReplayedAre
  <1>2. files' = With(gs, FreshGeneration, left)
    BY DEF CrashInOpen
  <1>3. left \in {<<>>, <<Header>>, <<Stub>>}
    BY <1>0, HeaderLeft
  <1>4. FreshGeneration \notin Generations
    BY LastGenIs, SMTT(20) DEF Directory, Numbers
  <1>. HIDE DEF gs, left
  <1>5. GoodFiles(files', key) /\ SameFrames(gs, files')
    BY <1>0, <1>1, <1>2, <1>3, <1>4, BlankAdded DEF Extends
  <1>6. SameFrames(files, files')
    BY <1>1, <1>5 DEF SameFrames
  <1>7. Ordered' /\ Past' /\ Here'
    BY <1>0, <1>6, FramesStay, SMTT(20) DEF Contents
  <1>. QED  BY <1>0, <1>5, <1>7 DEF Sound, Contents

\* append, acknowledged or cut short; a part of the frame is left only by a
\* process that died.
LEMMA AppendContents ==
    ASSUME Tolerated, Directory, Contents, up, next' = next + 1, NEW left,
           files' = With(files, active, left), UNCHANGED <<active, key, safe>>,
           \/ /\ left = <<Frame(next + 1, seq)>> /\ acked' = acked \cup {next + 1}
              /\ seq' = (IF key THEN seq + 1 ELSE seq) /\ up' = up
           \/ /\ acked' = acked /\ seq' = seq /\ up' = FALSE
              /\ left \in {<<>>, <<PartOf(Frame(next + 1, seq))>>, <<Frame(next + 1, seq)>>}
           \/ left = <<>> /\ acked' = acked /\ seq' = seq /\ up' = up
    PROVE  Contents'
  <1>. DEFINE c == files[active]
              d == files'[active]
              frame == Frame(next + 1, seq)
  <1>0. /\ key \in BOOLEAN /\ seq \in Nat /\ next \in Nat /\ next + 1 \in Nat
        /\ GoodFiles(files, key) /\ active \in Generations /\ active \in Nat
        /\ c \in Seq(Chunks) /\ SoundFile(c, key) /\ ~Torn(c)
        /\ key => SealedFile(c) /\ seq = Len(c) - 1
        /\ ~key => PlainFile(c)
        /\ Len(c) \in Nat
    BY SMTT(20) DEF Contents, Sound, Directory, Numbers, Ahead, GoodFiles, Generations
  <1>1. /\ frame \in Chunks /\ PartOf(frame) \in Chunks /\ PartOf(frame).kind = "framePart"
        /\ frame.kind = "frame" /\ frame.write = next + 1 /\ frame.seq = seq
    BY <1>0, LeftIs DEF Frame
  <1>2. /\ DOMAIN files' = DOMAIN files /\ d = c \o left
        /\ \A g \in DOMAIN files : g # active => files'[g] = files[g]
    BY <1>0, WithIs DEF Generations
  <1>. HIDE DEF c, d, frame
  <1>3. ASSUME left = <<>>
        PROVE  d = c
    BY <1>0, <1>2, <1>3, ConcatEmptySeq
  <1>4. ASSUME NEW x \in Chunks, left = <<x>>
        PROVE  /\ d \in Seq(Chunks) /\ Len(d) = Len(c) + 1 /\ d[Len(c) + 1] = x
               /\ \A i \in 1 .. Len(c) : d[i] = c[i]
    <2>1. left \in Seq(Chunks) /\ Len(left) = 1 /\ left[1] = x
      BY <1>4, SMTT(20)
    <2>2. /\ d \in Seq(Chunks) /\ Len(d) = Len(c) + 1
          /\ \A i \in 1 .. Len(c) + 1 : d[i] = IF i <= Len(c) THEN c[i] ELSE left[i - Len(c)]
      <3>1. /\ c \o left \in Seq(Chunks) /\ Len(c \o left) = Len(c) + Len(left)
            /\ \A i \in 1 .. Len(c) + Len(left) :
                  (c \o left)[i] = IF i <= Len(c) THEN c[i] ELSE left[i - Len(c)]
        <4>1. c \in Seq(Chunks)
          BY <1>0
        <4>. QED  BY <2>1, <4>1, ConcatProperties
      <3>. QED  BY <1>2, <2>1, <3>1
    <2>3. /\ \A i \in 1 .. Len(c) : i \in 1 .. Len(c) + 1 /\ i <= Len(c)
          /\ Len(c) + 1 \in 1 .. Len(c) + 1 /\ ~(Len(c) + 1 <= Len(c)) /\ Len(c) + 1 - Len(c) = 1
      BY <1>0, SMTT(20)
    <2>. QED  BY <2>1, <2>2, <2>3, SMTT(20)
  <1>5. \A i \in 1 .. Len(c) : c[i].kind # "framePart"
    <2>1. Len(c) > 0 => c[Len(c)].kind # "framePart"
      BY <1>0 DEF Torn
    <2>2. CASE key
      BY <1>0, <2>1, <2>2, SMTT(20) DEF SealedFile, Header
    <2>3. CASE ~key
      BY <1>0, <2>1, <2>3, SMTT(20) DEF PlainFile
    <2>. QED  BY <1>0, <2>2, <2>3
  <1>6. ASSUME NEW x \in {frame, PartOf(frame)}, left = <<x>>
        PROVE  /\ d \in Seq(Chunks) /\ SoundFile(d, key)
               /\ key => SealedFile(d)
               /\ ~key => PlainFile(d)
    <2>1. x \in Chunks /\ (x.kind = "framePart" \/ (x.kind = "frame" /\ x.seq = seq))
      BY <1>1
    <2>2. /\ d \in Seq(Chunks) /\ Len(d) = Len(c) + 1 /\ d[Len(c) + 1] = x
          /\ \A i \in 1 .. Len(c) : d[i] = c[i]
      BY <1>4, <1>6, <2>1
    <2>3. \A i \in 1 .. Len(d) : i \in 1 .. Len(c) \/ i = Len(d)
      BY <1>0, <2>2, SMTT(20)
    <2>4. CASE key
      <3>1. SealedFile(c) /\ seq = Len(c) - 1 /\ Len(c) > 0 /\ c[1] = Header
        BY <1>0, <2>4 DEF SealedFile
      <3>2. d[1] = Header /\ Len(d) > 0
        BY <1>0, <2>2, <3>1, SMTT(20)
      <3>3. ASSUME NEW i \in 2 .. Len(d)
            PROVE  \/ d[i].kind = "frame" /\ d[i].seq = i - 2
                   \/ i = Len(d) /\ d[i].kind = "framePart"
        <4>1. CASE i = Len(d)
          <5>1. d[i] = x /\ seq = i - 2
            BY <1>0, <2>2, <3>1, <4>1, SMTT(20)
          <5>. QED  BY <2>1, <4>1, <5>1
        <4>2. CASE i # Len(d)
          <5>1. i \in 1 .. Len(c) /\ i \in 2 .. Len(c)
            BY <1>0, <2>2, <4>2, SMTT(20)
          <5>. QED  BY <1>5, <2>2, <3>1, <5>1 DEF SealedFile
        <4>. QED  BY <4>1, <4>2
      <3>4. SealedFile(d)
        BY <3>2, <3>3 DEF SealedFile
      <3>. QED  BY <2>2, <2>4, <3>4 DEF SoundFile
    <2>5. CASE ~key
      <3>1. PlainFile(c)
        BY <1>0, <2>5
      <3>2. \A i \in 1 .. Len(d) : \/ d[i].kind = "frame"
                                   \/ i = Len(d) /\ d[i].kind = "framePart"
        BY <1>5, <2>1, <2>2, <2>3, <3>1 DEF PlainFile
      <3>3. PlainFile(d)
        BY <3>2 DEF PlainFile
      <3>. QED  BY <2>2, <2>5, <3>3 DEF SoundFile
    <2>. QED  BY <1>0, <2>4, <2>5
  <1>7. left = <<>> \/ \E x \in {frame, PartOf(frame)} : left = <<x>>
    BY DEF frame
  <1>8. GoodFiles(files', key)
    <2>1. d \in Seq(Chunks) /\ SoundFile(d, key)
      BY <1>0, <1>3, <1>6, <1>7
    <2>. QED  BY <1>0, <1>2, <2>1 DEF GoodFiles, d
  <1>9. ASSUME up'
        PROVE  /\ ~Torn(d)
               /\ key => SealedFile(d) /\ seq' = Len(d) - 1
               /\ ~key => PlainFile(d)
               /\ seq' \in Nat
    <2>1. CASE left = <<>> /\ seq' = seq
      BY <1>0, <1>3, <2>1
    <2>2. CASE left = <<frame>> /\ seq' = IF key THEN seq + 1 ELSE seq
      <3>1. d[Len(d)].kind = "frame" /\ Len(d) = Len(c) + 1
        BY <1>0, <1>1, <1>4, <2>2
      <3>2. ~Torn(d)
        BY <3>1 DEF Torn
      <3>3. key => seq' = Len(d) - 1
        BY <1>0, <2>2, <3>1, SMTT(20)
      <3>4. seq' \in Nat
        BY <1>0, <2>2, SMTT(20)
      <3>. QED  BY <1>6, <2>2, <3>2, <3>3, <3>4
    <2>. QED  BY <1>9, <2>1, <2>2 DEF frame
  <1>10. Sound'
    <2>1. seq' \in Nat
      <3>1. seq + 1 \in Nat
        BY <1>0, SMTT(20)
      <3>2. seq' = seq \/ seq' = seq + 1
        OBVIOUS
      <3>. QED  BY <1>0, <3>1, <3>2
    <2>2. next' \in Nat /\ key' \in BOOLEAN /\ GoodFiles(files', key')
      BY <1>0, <1>8
    <2>3. up' => /\ ~Torn(files'[active'])
                 /\ key' => SealedFile(files'[active']) /\ seq' = Len(files'[active']) - 1
                 /\ ~key' => PlainFile(files'[active'])
      BY <1>9 DEF d
    <2>. QED  BY <2>1, <2>2, <2>3 DEF Sound
  <1>11. CASE left = <<frame>>
    <2>1. /\ Len(d) = Len(c) + 1 /\ d[Len(c) + 1] = frame
          /\ \A i \in 1 .. Len(c) : d[i] = c[i]
      BY <1>1, <1>4, <1>11
    <2>2. Len(c) + 1 \in Nat /\ \A i, w \in Nat : IsFrame(files, active, i, w) => i < Len(c) + 1
      BY <1>0, SMTT(20) DEF IsFrame, c
    <2>3. ASSUME NEW g \in Nat, NEW i \in Nat, NEW w \in Nat
          PROVE  IsFrame(files', g, i, w) <=>
                    \/ IsFrame(files, g, i, w)
                    \/ g = active /\ i = Len(c) + 1 /\ w = next + 1
      <3>1. CASE g # active
        BY <1>2, <3>1 DEF IsFrame
      <3>2. CASE g = active /\ i \in 1 .. Len(c)
        <4>1. d[i] = c[i] /\ i \in 1 .. Len(d) /\ i # Len(c) + 1
          BY <1>0, <2>1, <3>2, SMTT(20)
        <4>. QED  BY <1>2, <3>2, <4>1 DEF IsFrame, c, d
      <3>3. CASE g = active /\ i \notin 1 .. Len(c)
        <4>1. i \in 1 .. Len(d) <=> i = Len(c) + 1
          BY <1>0, <2>1, <3>3, SMTT(20)
        <4>2. ~IsFrame(files, g, i, w)
          BY <3>3 DEF IsFrame, c
        <4>3. g \in DOMAIN files'
          BY <1>0, <1>2, <3>3 DEF Generations
        <4>4. IsFrame(files', g, i, w) <=> i \in 1 .. Len(d) /\ d[i].kind = "frame" /\ d[i].write = w
          BY <3>3, <4>3 DEF IsFrame, d
        <4>5. i = Len(c) + 1 => d[i].kind = "frame" /\ d[i].write = next + 1
          BY <1>1, <2>1
        <4>. QED  BY <3>3, <4>1, <4>2, <4>4, <4>5
      <3>. QED  BY <3>1, <3>2, <3>3
    <2>4. acked' = acked \/ acked' = acked \cup {next + 1}
      OBVIOUS
    <2>5. Ordered' /\ Past' /\ Here'
      BY <1>0, <2>2, <2>3, <2>4, FrameAdded DEF Contents
    <2>. QED  BY <1>10, <2>5 DEF Contents
  <1>12. CASE left # <<frame>>
    <2>1. acked' = acked /\ (left = <<>> \/ left = <<PartOf(frame)>>)
      BY <1>12 DEF frame
    <2>2. SameFrames(files, files')
      <3>. SUFFICES ASSUME NEW i \in Nat, NEW w \in Nat
                    PROVE  IsFrame(files', active, i, w) <=> IsFrame(files, active, i, w)
        BY <1>2, SMTT(20) DEF SameFrames, IsFrame
      <3>1. CASE left = <<>>
        BY <1>2, <1>3, <3>1 DEF IsFrame, c, d
      <3>2. CASE left = <<PartOf(frame)>>
        <4>1. /\ Len(d) = Len(c) + 1 /\ d[Len(c) + 1].kind = "framePart"
              /\ \A j \in 1 .. Len(c) : d[j] = c[j]
          BY <1>1, <1>4, <3>2
        <4>2. i \in 1 .. Len(d) <=> i \in 1 .. Len(c) \/ i = Len(c) + 1
          BY <1>0, <4>1, SMTT(20)
        <4>. QED  BY <1>2, <4>1, <4>2 DEF IsFrame, c, d
      <3>. QED  BY <2>1, <3>1, <3>2
    <2>3. up' => \A g, i, w \in Nat : IsFrame(files, g, i, w) => g <= active'
      BY DEF Contents, Past
    <2>4. Ordered' /\ Past' /\ Here'
      BY <1>0, <2>1, <2>2, <2>3, FramesStay, SMTT(20) DEF Contents
    <2>. QED  BY <1>10, <2>4 DEF Contents
  <1>. QED  BY <1>11, <1>12

\* delete_generations_upto, whole or cut short.
LEMMA DeleteContents ==
    ASSUME Directory, Contents, DeleteGenerationsUpto \/ \E g \in Generations : CrashInDelete(g)
    PROVE  Contents'
  <1>0. /\ key \in BOOLEAN /\ seq \in Nat /\ next \in Nat /\ GoodFiles(files, key)
        /\ \A g \in Generations : g \in Nat
        /\ active \in Nat /\ generation \in Nat /\ sealed \in Int
    BY DEF Contents, Sound, Directory, Numbers
  <1>1. /\ up /\ UNCHANGED <<key, active, seq, next, acked>>
        /\ up' = up \/ up' = FALSE
        /\ safe' = safe \cup WritesOf(Doomed)
    BY DEF DeleteGenerationsUpto, CrashInDelete, Crash
  <1>2. active \in Generations /\ sealed < active /\ active <= generation
    BY <1>1 DEF Directory, Ahead
  <1>3. PICK S \in SUBSET Doomed :
           /\ files' = Restrict(files, Generations \ S)
           /\ \A g \in S, h \in Doomed : h <= g => h \in S
    <2>1. CASE DeleteGenerationsUpto
      BY <2>1 DEF DeleteGenerationsUpto
    <2>2. ASSUME NEW g \in Generations, CrashInDelete(g)
          PROVE  /\ Older(g) \in SUBSET Doomed
                 /\ files' = Restrict(files, Generations \ Older(g))
                 /\ \A x \in Older(g), h \in Doomed : h <= x => h \in Older(g)
      <3>1. \A h \in Doomed : h \in Nat
        BY <1>0 DEF Doomed
      <3>. QED  BY <1>0, <2>2, <3>1, SMTT(20) DEF CrashInDelete, Older
    <2>. QED  BY <2>1, <2>2
  <1>4. /\ \A g : g \in DOMAIN files' <=> g \in Generations /\ g \notin S
        /\ \A g \in DOMAIN files' : files'[g] = files[g]
    BY <1>3 DEF Restrict
  <1>5. \A g \in S : g \in Generations /\ g <= sealed /\ g \in Doomed
    BY DEF Doomed
  <1>6. \A g, h \in Nat : g \in DOMAIN files' /\ h \in DOMAIN files /\ g <= h => h \in DOMAIN files'
    <2>. SUFFICES ASSUME NEW g \in Nat, NEW h \in Nat, g \in DOMAIN files', h \in Generations,
                         g <= h, h \in S
                  PROVE  FALSE
      BY <1>4 DEF Generations
    <2>1. h <= sealed /\ g \in Generations /\ g \notin S
      BY <1>4, <1>5
    <2>2. g <= sealed /\ g # generation
      BY <1>0, <1>2, <2>1, SMTT(20)
    <2>3. g \in Doomed
      BY <2>1, <2>2 DEF Doomed
    <2>. QED  BY <1>3, <2>1, <2>3
  <1>7. \A g, i, w \in Nat : IsFrame(files, g, i, w) /\ g \notin DOMAIN files' => w \in safe'
    <2>. SUFFICES ASSUME NEW g \in Nat, NEW i \in Nat, NEW w \in Nat,
                         IsFrame(files, g, i, w), g \notin DOMAIN files'
                  PROVE  w \in WritesOf(Doomed)
      BY <1>1
    <2>1. g \in Doomed
      BY <1>4, <1>5 DEF IsFrame, Generations
    <2>2. i \in DOMAIN files[g]
      BY <1>0, SMTT(20) DEF IsFrame, GoodFiles
    <2>3. w \in 1 .. next
      BY <1>0, SMTT(20) DEF Contents, Past
    <2>. QED  BY <2>1, <2>2, <2>3 DEF WritesOf, IsFrame
  <1>8. Ordered' /\ Past' /\ Here'
    <2>1. \A g \in Nat : g \in DOMAIN files' => g \in DOMAIN files /\ files'[g] = files[g]
      BY <1>4 DEF Generations
    <2>2. \A w \in safe : w \in safe'
      BY <1>1
    <2>3. up' => up
      BY <1>1
    <2>. QED  BY <1>0, <1>1, <1>6, <1>7, <2>1, <2>2, <2>3, FramesDeleted DEF Contents
  <1>9. Sound'
    <2>1. active \in DOMAIN files' /\ files'[active] = files[active]
      BY <1>0, <1>2, <1>4, <1>5, SMTT(20)
    <2>2. GoodFiles(files', key)
      BY <1>0, <1>4 DEF GoodFiles, Generations
    <2>. QED  BY <1>0, <1>1, <2>1, <2>2 DEF Sound, Contents
  <1>. QED  BY <1>8, <1>9 DEF Contents

\* A crash between operations, or nothing.
LEMMA IdleContents ==
    ASSUME Contents, UNCHANGED <<files, key, active, seq, next, acked, safe>>,
           up' = up \/ up' = FALSE
    PROVE  Contents'
  <1>1. SameFrames(files, files')
    BY DEF SameFrames
  <1>2. next \in Nat /\ next' \in Nat /\ next <= next'
    BY SMTT(20) DEF Contents, Sound
  <1>3. up' => \A g, i, w \in Nat : IsFrame(files, g, i, w) => g <= active'
    BY DEF Contents, Past
  <1>4. Ordered' /\ Past' /\ Here'
    BY <1>1, <1>2, <1>3, FramesStay DEF Contents
  <1>5. Sound'
    <2>1. files' = files /\ key' = key /\ active' = active /\ seq' = seq /\ next' = next
      OBVIOUS
    <2>2. CASE up' = up
      BY <2>1, <2>2, SMTT(20) DEF Contents, Sound
    <2>3. CASE up' = FALSE
      BY <2>1, <2>3 DEF Contents, Sound
    <2>. QED  BY <2>2, <2>3
  <1>. QED  BY <1>4, <1>5 DEF Contents

LEMMA ContentsStep == Tolerated /\ Directory /\ Contents /\ [Next]_vars => Contents'
  <1>. SUFFICES ASSUME Tolerated, Directory, Contents, [Next]_vars PROVE Contents'
    OBVIOUS
  <1>0. /\ \A g \in Generations : g \in Nat
        /\ generation \in Nat /\ generation + 1 \in Nat /\ active \in Nat
    BY SMTT(20) DEF Directory, Numbers
  <1>1. up => generation + 1 \notin Generations /\ active < generation + 1
    BY <1>0, SMTT(20) DEF Directory, Ahead
  <1>2. ASSUME NEW residue \in Residue, CrashInRotate(residue) PROVE Contents'
    <2>. DEFINE left == IF key THEN Left(Header, residue) ELSE <<>>
    <2>1. /\ up /\ up' = FALSE /\ UNCHANGED <<key, seq, next, acked, safe>>
          /\ files' = With(files, generation + 1, left) /\ residue \in HeaderResidue
      BY <1>2 DEF CrashInRotate, Crash
    <2>2. left \in {<<>>, <<Header>>, <<Stub>>} /\ (left = <<>> \/ key)
      BY <2>1, HeaderLeft
    <2>. HIDE DEF left
    <2>. QED  BY <1>0, <1>1, <2>1, <2>2, HeaderContents
  <1>3. CASE Rotate
    <2>. DEFINE left == IF key THEN <<Header>> ELSE <<>>
    <2>1. /\ up /\ up' = up /\ UNCHANGED <<key, next, acked, safe>> /\ seq' = 0
          /\ files' = With(files, generation + 1, left) /\ active' = generation + 1
      BY <1>3 DEF Rotate
    <2>2. left \in {<<>>, <<Header>>, <<Stub>>} /\ (left = <<>> \/ key)
      OBVIOUS
    <2>3. up' = TRUE
      BY <2>1 DEF Directory, Numbers
    <2>4. left = IF key THEN <<Header>> ELSE <<>>
      OBVIOUS
    <2>. HIDE DEF left
    <2>. QED  BY <1>0, <1>1, <2>1, <2>2, <2>3, <2>4, HeaderContents
  <1>4. CASE FailRotate
    <2>1. up /\ UNCHANGED <<up, key, active, seq, next, acked, safe>>
      BY <1>4 DEF FailRotate, Fail
    <2>2. CASE UNCHANGED files
      BY <2>1, <2>2, IdleContents
    <2>3. ASSUME key, NEW residue \in HeaderResidue,
                 files' = With(files, generation + 1, Left(Header, residue))
          PROVE  Contents'
      <3>1. Left(Header, residue) \in {<<>>, <<Header>>, <<Stub>>}
        BY HeaderLeft
      <3>. QED  BY <1>0, <1>1, <2>1, <2>3, <3>1, HeaderContents
    <2>. QED  BY <1>4, <2>2, <2>3 DEF FailRotate
  <1>5. ASSUME NEW w \in 1 .. MaxWrites, AppendFrame(w) PROVE Contents'
    BY <1>5, AppendContents DEF AppendFrame
  <1>6. ASSUME NEW w \in 1 .. MaxWrites, NEW residue \in Residue, CrashInAppend(w, residue)
        PROVE  Contents'
    <2>1. residue \in {"nothing", "part", "whole"}
      BY <1>6 DEF CrashInAppend, Tolerated
    <2>2. Left(Frame(w, seq), residue)
             \in {<<>>, <<PartOf(Frame(next + 1, seq))>>, <<Frame(next + 1, seq)>>}
      BY <1>6, <2>1, LeftIs DEF CrashInAppend
    <2>3. /\ up /\ next' = next + 1 /\ UNCHANGED <<active, key, safe, acked, seq>> /\ up' = FALSE
          /\ files' = With(files, active, Left(Frame(w, seq), residue))
      BY <1>6 DEF CrashInAppend, Crash
    <2>. QED  BY <2>2, <2>3, AppendContents
  <1>7. ASSUME NEW w \in 1 .. MaxWrites, NEW residue \in Residue, FailAppend(w, residue)
        PROVE  Contents'
    <2>1. residue = "nothing"
      BY <1>7 DEF FailAppend, Tolerated
    <2>2. Left(Frame(w, seq), residue) = <<>>
      BY <2>1, LeftIs
    <2>3. /\ up /\ next' = next + 1 /\ UNCHANGED <<active, key, safe, acked, seq, up>>
          /\ files' = With(files, active, <<>>)
      BY <1>7, <2>2 DEF FailAppend, Fail
    <2>. QED  BY <2>3, AppendContents
  <1>8. CASE CrashIdle
    <2>1. UNCHANGED <<files, key, active, seq, next, acked, safe>> /\ up' = FALSE
      BY <1>8 DEF CrashIdle, Crash
    <2>. QED  BY <2>1, IdleContents
  <1>9. CASE UNCHANGED vars
    BY <1>9, IdleContents DEF vars
  <1>. QED
    BY <1>2, <1>3, <1>4, <1>5, <1>6, <1>7, <1>8, <1>9, OpenContents, CrashInOpenContents,
       DeleteContents DEF Next

LEMMA ContentsInit == WalConstants /\ Init => Contents
  <1>. SUFFICES ASSUME WalConstants, Init PROVE Contents
    OBVIOUS
  <1>1. /\ DOMAIN files = {} /\ up = FALSE /\ key \in BOOLEAN /\ seq = 0 /\ next = 0
        /\ acked = {}
    BY DEF WalConstants, Init
  <1>2. \A g, i, w : ~IsFrame(files, g, i, w)
    BY <1>1 DEF IsFrame
  <1>3. Ordered /\ Past /\ Here
    BY <1>1, <1>2 DEF Ordered, Past, Here
  <1>4. 0 \in Nat
    OBVIOUS
  <1>5. Sound
    BY <1>1, <1>4 DEF Sound, GoodFiles
  <1>. QED  BY <1>3, <1>5 DEF Contents

\* The directory and its files, in every behaviour whose residues replay repairs.
LEMMA Inductive ==
    ASSUME WalConstants, Tolerated
    PROVE  Spec => [](Directory /\ Contents)
  <1>. DEFINE I == Directory /\ Contents
  <1>1. Init => I
    BY DirectoryInit, ContentsInit
  <1>2. I /\ [Next]_vars => I'
    BY DirectoryStep, ContentsStep
  <1>. QED  BY <1>1, <1>2, PTL DEF Spec

\* What a reader that may open the log gets to is every frame there is.
LEMMA ReplaysFrames ==
    ASSUME Contents, NEW k \in BOOLEAN, NEW luck \in BOOLEAN, KeyAtStart(k)
    PROVE  /\ \A g \in Generations : ~ReadFile(files[g], k, luck).fatal
           /\ \A g \in Generations : \A i \in DOMAIN files[g] : \A w \in Nat :
                 ReplaysAt(w, g, i, k, luck) <=> IsFrame(files, g, i, w)
  <1>. SUFFICES ASSUME NEW g \in Generations
                PROVE  /\ ~ReadFile(files[g], k, luck).fatal
                       /\ \A i \in DOMAIN files[g] : \A w \in Nat :
                             ReplaysAt(w, g, i, k, luck) <=> IsFrame(files, g, i, w)
    OBVIOUS
  <1>1. files[g] \in Seq(Chunks) /\ SoundFile(files[g], k)
    BY DEF Contents, Sound, GoodFiles, SoundFile, KeyAtStart, Generations
  <1>2. ReadFile(files[g], k, luck) = Reading(KeptLen(files[g]), FALSE)
    BY <1>1, ReadSound
  <1>3. ASSUME NEW i \in DOMAIN files[g], files[g][i].kind = "frame"
        PROVE  i <= KeptLen(files[g]) /\ i \in 1 .. Len(files[g])
    <2>1. i \in 1 .. Len(files[g]) /\ KeptLen(files[g]) \in Int
      BY <1>1, KeptLenIs, SMTT(20)
    <2>. QED  BY <1>1, <1>3, <2>1, FramesKept, SMTT(20)
  <1>. QED  BY <1>2, <1>3, SMTT(20) DEF Reading, ReplaysAt, IsFrame, Generations

\* Whatever a crash cut short in append, rotate, open or the deletion of old
\* generations, the log opens again (replay_file).
THEOREM OpenNeverBlocked ==
    ASSUME WalConstants, Tolerated
    PROVE  Spec => []CrashNeverBlocksOpen
  <1>1. Contents => CrashNeverBlocksOpen
    BY ReplaysFrames DEF CrashNeverBlocksOpen, Opens
  <1>. QED  BY <1>1, Inductive, PTL

\* Replay returns every write whose append returned Ok and whose rows no
\* flush has committed, through any number of crashes and the gain of a key.
THEOREM AckedReplay ==
    ASSUME WalConstants, Tolerated
    PROVE  Spec => []AckedSurvive
  <1>1. Contents => AckedSurvive
    <2>. SUFFICES ASSUME Contents, NEW k \in BOOLEAN, NEW luck \in BOOLEAN, KeyAtStart(k),
                         NEW w \in acked, w \notin safe
                  PROVE  Replays(w, k, luck)
      BY DEF AckedSurvive
    <2>1. w \in Nat /\ Present(w)
      BY DEF Contents, Here
    <2>2. PICK g, i \in Nat : IsFrame(files, g, i, w)
      BY <2>1 DEF Present
    <2>3. g \in Generations /\ i \in DOMAIN files[g]
      BY <2>2, SMTT(20) DEF IsFrame, Generations, Contents, Sound, GoodFiles
    <2>4. ReplaysAt(w, g, i, k, luck)
      BY <2>1, <2>2, <2>3, ReplaysFrames
    <2>. QED  BY <2>3, <2>4 DEF Replays
  <1>. QED  BY <1>1, Inductive, PTL

\* Replay is in the order of the acknowledgements and never skips a newer
\* write for an older one, however a deletion was cut short.
THEOREM ReplayInOrder ==
    ASSUME WalConstants, Tolerated
    PROVE  Spec => []ReplayIsSuffix
  <1>1. Directory /\ Contents => ReplayIsSuffix
    <2>. SUFFICES ASSUME Directory, Contents, NEW k \in BOOLEAN, NEW luck \in BOOLEAN,
                         KeyAtStart(k), NEW g \in Generations, NEW i \in DOMAIN files[g],
                         NEW v \in acked, ReplaysAt(v, g, i, k, luck),
                         NEW w \in acked, w > v
                  PROVE  \E h \in Generations : \E j \in DOMAIN files[h] :
                            /\ ReplaysAt(w, h, j, k, luck)
                            /\ g < h \/ (g = h /\ i < j)
      BY SMTT(20) DEF ReplayIsSuffix
    <2>1. v \in Nat /\ w \in Nat /\ g \in Nat /\ v < w
      BY DEF Contents, Here, Directory, Numbers
    <2>2. IsFrame(files, g, i, v) /\ i \in Nat
      BY <2>1, ReplaysFrames, SMTT(20) DEF IsFrame
    <2>3. PICK h, j \in Nat : IsFrame(files, h, j, w)
      BY <2>1, <2>2 DEF Contents, Here, Present
    <2>4. h \in Generations /\ j \in DOMAIN files[h]
      BY <2>3, SMTT(20) DEF IsFrame, Generations, Contents, Sound, GoodFiles
    <2>5. ~(h < g \/ (h = g /\ j < i))
      BY <2>1, <2>2, <2>3, SMTT(20) DEF Contents, Ordered
    <2>6. ~(h = g /\ j = i)
      BY <2>1, <2>2, <2>3, SMTT(20) DEF IsFrame
    <2>7. g < h \/ (g = h /\ i < j)
      BY <2>1, <2>2, <2>3, <2>5, <2>6, SMTT(20)
    <2>8. ReplaysAt(w, h, j, k, luck)
      BY <2>1, <2>3, <2>4, ReplaysFrames
    <2>. QED  BY <2>4, <2>7, <2>8
  <1>. QED  BY <1>1, Inductive, PTL
=============================================================================
