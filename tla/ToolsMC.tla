------------------------------- MODULE ToolsMC -------------------------------
(***************************************************************************)
(* The programs that run without a user for TLC: ncftpspooler, ncftpget,   *)
(* ncftpput and ncftpls, and the tree walk that they share with ncftp.     *)
(* What is modelled of them shares no state, so that a behaviour is of one *)
(* part; and the parts, with those that ProgramsMC adds, share the         *)
(* variables v1 to v17, each using as many as it needs.                    *)
(***************************************************************************)
EXTENDS Integers, Sequences, FiniteSets, TLC

CONSTANTS
  Jobs, Job, HomeDir, There, Inheritable, MaxPasses,      \* of ncftpspooler
  Waiting, Delays, FirstSleeps, Factors, SleepPasses,     \* of its sleep
  Invocations, LoginDir, BookmarkDir,                     \* of ncftpget and ncftpput
  Arguments, LsOptions, HostDirs, MachineHosts, Root,     \* of ncftpls
  SourceTrees, SourceDir, TargetDir, TreeItems, TreeOps, NameLengths,     \* of a tree and its copy
  PathSpace, PathSpare, DepthLimit, MaxTroubles

VARIABLES part, v1, v2, v3, v4, v5, v6, v7, v8, v9, v10, v11, v12, v13, v14, v15, v16, v17
all == <<part, v1, v2, v3, v4, v5, v6, v7, v8, v9, v10, v11, v12, v13, v14, v15, v16, v17>>
-----------------------------------------------------------------------------
(* ncftpspooler: what it does with its jobs, and how it sleeps.            *)
Bi == INSTANCE SpoolerItem WITH
        queue <- v1, ahead <- v2, job <- v3, pc <- v4, conn <- v5, rstart <- v6, lastHost <- v7, lcwd <- v8,
        items <- v9, processed <- v10, finished <- v11, passes <- v12, dialled <- v13
ASSUME SpoolerItemAssumption == Bi!BiAssumption
Sl == INSTANCE SpoolerSleep WITH
        delay <- v1, sleepval <- v2, minDSLF <- v3, dslf <- v4, tried <- v5, failed <- v6, npass <- v7, panic <- v8
ASSUME SpoolerSleepAssumption == Sl!SlAssumption

(* ncftpget and ncftpput.                                                  *)
Ut == INSTANCE Utilities WITH
        cmd <- v1, pc <- v2, fi <- v3, loaded <- v4, asked <- v5, cwd <- v6, result <- v7, todo <- v8,
        outcomes <- v9, errNo <- v10, es <- v11, cancelXfer <- v12, restored <- v13, jobs <- v14
ASSUME UtilitiesAssumption == Ut!UtAssumption

(* ncftpls.                                                                *)
Ls == INSTANCE NcftpLs WITH
        urls <- v1, opts <- v2, pc <- v3, i <- v4, fi <- v5, savedfi <- v6, tryMLSD <- v7, es <- v8,
        conns <- v9, listed <- v10
ASSUME NcftpLsAssumption == Ls!LsAssumption

(* Trees and their copies.                                                 *)
Tr == INSTANCE TreeWalk WITH
        world <- v1, target <- v2, task <- v3, stack <- v4, depth <- v5, alloc <- v6, there <- v7, plan <- v8,
        at <- v9, pass <- v10, outcome <- v11, trouble <- v12,
        Worlds <- SourceTrees, Cwd <- SourceDir, Dst <- TargetDir, Items <- TreeItems, Ops <- TreeOps,
        Long <- NameLengths, Alloc0 <- PathSpace, Spare <- PathSpare, MaxDepth <- DepthLimit,
        MaxTrouble <- MaxTroubles
ASSUME TreeWalkAssumption == Tr!TrAssumption
=============================================================================
