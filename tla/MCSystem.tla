------------------------------ MODULE MCSystem ------------------------------
(***************************************************************************)
(* The ingester pair together with the parts of a node that share nothing  *)
(* with it that their properties could see: one behaviour is about one     *)
(* part, chosen in SystemInit.  The parts of a node take turns with the    *)
(* variables p1 ... p12, in the order in which their modules declare them. *)
(***************************************************************************)
EXTENDS MCCluster, Cases

VARIABLES part, p1, p2, p3, p4, p5, p6, p7, p8, p9, p10, p11, p12

unused == <<>>
shared == <<p1, p2, p3, p4, p5, p6, p7, p8, p9, p10, p11, p12>>

Log == INSTANCE Wal WITH
    files <- p1, up <- p2, key <- p3, generation <- p4, active <- p5, seq <- p6,
    next <- p7, acked <- p8, sealed <- p9, safe <- p10, crashes <- p11, fails <- p12,
    KeyChoices <- BOOLEAN, CrashResidue <- {"nothing", "part", "whole"},
    HeaderResidue <- {"nothing", "stub", "whole"}, FailResidue <- {"nothing"},
    MaxWrites <- 3, MaxGen <- 3, MaxCrashes <- 2, MaxFails <- 1

Store == INSTANCE StoreStack WITH
    object <- p1, headers <- p2, slot <- p3, sealed <- p4, reads <- p5, call <- p6,
    focus <- p7, held <- p8,
    Client <- {"c1", "c2"}, Doc <- {"d"}, Cas <- {"m"}, Lens <- {0, 3},
    Ranges <- RangeCases, MaxUses <- 2, MaxObjects <- 2, MaxReads <- 2,
    Exclusive <- TRUE, LostPuts <- FALSE

Data == INSTANCE TableData WITH
    buffer <- p1, holding <- p2, files <- p3, registry <- p4, wal <- p5, sealed <- p6,
    tombstones <- p7, count <- p8,
    Lines <- LineCases, Queries <- QueryCases, Deletes <- DeleteCases, Leading <- "k",
    HourLen <- 2, RgRows <- 1, MaxWrites <- 3, MaxFlushes <- 2, MaxCompacts <- 1,
    MaxRestarts <- 1, InGate <- FALSE

Queries == INSTANCE QueryService WITH
    plan <- p1, at <- p2, told <- p3, answer <- p4, recorded <- p5, active <- p6,
    free <- p7, queue <- p8, load <- p9, mon <- p10, faults <- p11,
    Request <- 1 .. 3, Worker <- {1, 2}, Casts <- QueryPlans, Nobody <- "nobody",
    Cap <- 1, Permits <- 2, MaxRows <- 2, Capacity <- 1, TickFails <- FALSE,
    MaxFaults <- 2

Rollups == INSTANCE Rollup WITH
    fleet <- p1, now <- p2, rows <- p3, kept <- p4, target <- p5, passing <- p6,
    up <- p7, members <- p8, shard <- p9, pass <- p10, faults <- p11,
    Fleets <- StaticFleets, Hash <- 1, Interval <- 2, Lookback <- 2, Retain <- 6,
    Late <- 3, WatermarkFails <- FALSE, MaxTime <- 6, MaxRows <- 2, MaxFaults <- 1

Last == INSTANCE LastValue WITH
    batch <- p1, at <- p2, files <- p3, buffer <- p4, wal <- p5, dead <- p6,
    enabled <- p7, map <- p8, drop <- p9, admin <- p10, seen <- p11,
    Writer <- 1 .. 3, Batches <- LastBatches, Tables <- {"t", "u"}, Cap <- 2,
    Reenable <- FALSE, MaxAdmin <- 2

Rest9 == p9 = unused /\ p10 = unused /\ p11 = unused /\ p12 = unused
Rest1 ==
    /\ p1 = unused /\ p2 = unused /\ p3 = unused /\ p4 = unused
    /\ p5 = unused /\ p6 = unused /\ p7 = unused /\ p8 = unused /\ Rest9

\* The ingesters stand still while a node is looked at from the inside.
Pair == CHOOSE p \in Plans : TRUE

SystemInit ==
    /\ Init
    /\ \/ part = "pair" /\ Rest1
       \/ /\ plan = Pair
          /\ \/ part = "log" /\ Log!Init
             \/ part = "store" /\ Store!Init /\ Rest9
             \/ part = "data" /\ Data!Init /\ Rest9
             \/ part = "queries" /\ Queries!Init /\ p12 = unused
             \/ part = "rollups" /\ Rollups!Init /\ p12 = unused
             \/ part = "last" /\ Last!Init /\ p12 = unused

SystemNext ==
    /\ UNCHANGED part
    /\ \/ part = "pair" /\ Next /\ UNCHANGED shared
       \/ /\ UNCHANGED vars
          /\ \/ part = "log" /\ Log!Next
             \/ part = "store" /\ Store!Next /\ UNCHANGED <<p9, p10, p11, p12>>
             \/ part = "data" /\ Data!Next /\ UNCHANGED <<p9, p10, p11, p12>>
             \/ part = "queries" /\ Queries!Next /\ UNCHANGED p12
             \/ part = "rollups" /\ Rollups!Next /\ UNCHANGED p12
             \/ part = "last" /\ Last!Next /\ UNCHANGED p12

SystemSpec == SystemInit /\ [][SystemNext]_<<vars, part, shared>>

-----------------------------------------------------------------------------
(* The properties of the parts, each stated in its module.                 *)

\* Wal::open never fails for what a crash left in the directory.
CrashNeverBlocksOpen == part = "log" => Log!CrashNeverBlocksOpen
\* A write whose append returned Ok is replayed until a flush made it safe.
AckedSurvive == part = "log" => Log!AckedSurvive
\* Replay returns the writes of the generations that are left, in order.
ReplayIsSuffix == part = "log" => Log!ReplayIsSuffix
\* delete_up_to never takes the file that is appended to.
ActiveFileKept == part = "log" => Log!ActiveFileKept
\* A read through the encrypting store returns what was stored, or fails.
ReadsAreHonest == part = "store" => Store!ReadsAreHonest
\* Pruning, projection, compaction and tombstones never change a result.
ScanIsExact == part = "data" => Data!ScanIsExact
\* A caller told "ok" got every row once; each query is counted once.
AnswersWhole == part = "queries" => Queries!AnswersWhole
\* One client never takes the last permit, and none is leaked.
PermitsReachable == part = "queries" => Queries!PermitsReachable
\* Every row that arrives in time is in exactly one sealed bucket.
SealedExactly == part = "rollups" => Rollups!SealedExactly
\* last_cache() returns the newest rows of the series written most recently.
LastIsNewest == part = "last" => Last!LastIsNewest
=============================================================================
