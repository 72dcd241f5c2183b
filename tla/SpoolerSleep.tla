---------------------------- MODULE SpoolerSleep ---------------------------
(***************************************************************************)
(* How long ncftpbatch and ncftpspooler sleep (EventShell,                 *)
(* sh_util/ncftpbatch.c): between two passes, and a job between two tries, *)
(* for times that grow by a random factor.                                 *)
(***************************************************************************)
EXTENDS Naturals

CONSTANTS Waiting,      \* the jobs
          Delays,       \* the option -s: gDelayBetweenPasses, 0 if not given
          FirstSleeps,  \* the option -S
          Factors,      \* the tenths of the random factor: 12 to 26
          SleepPasses   \* bound: passes

VARIABLES delay, sleepval, minDSLF,
          dslf,         \* the delay since the last failure that a job's file holds
          tried, failed,   \* jobs tried and jobs failed in the last pass
          npass, panic

slvars == <<delay, sleepval, minDSLF, dslf, tried, failed, npass, panic>>

(* What is assumed of the constants.                                       *)
SlAssumption == Delays \subseteq Nat /\ FirstSleeps \subseteq Nat /\ Factors \subseteq 12..26

SlInit == /\ delay \in Delays /\ sleepval \in FirstSleeps /\ minDSLF = 0
          /\ dslf = [j \in Waiting |-> 0] /\ tried = {} /\ failed = {}
          /\ npass = 0 /\ panic = FALSE

NEW_SLEEP_VAL(s, k) == (k * s) \div 10

(* After a failure: five seconds, then more and more, a minute again after *)
(* a quarter of an hour.                                                   *)
NextDelay(d, k) ==
  IF d = 0 THEN 5 ELSE IF NEW_SLEEP_VAL(d, k) > 900 THEN 60 ELSE NEW_SLEEP_VAL(d, k)

SleepVal(k) ==
  IF minDSLF # 0 THEN (IF delay # 0 /\ delay < minDSLF THEN delay ELSE minDSLF + 1)
  ELSE IF delay # 0 THEN delay
  ELSE IF sleepval = 0 THEN 3
  ELSE IF sleepval > 900 THEN 60
  ELSE NEW_SLEEP_VAL(sleepval, k)

MustSleep == (npass > 0 \/ sleepval # 0) /\ (tried = {} \/ (failed = {} /\ tried = Waiting))

(* The sleep before a pass, none if the last one had jobs to try.          *)
Sleep(k) ==
  /\ sleepval' = IF MustSleep THEN SleepVal(k) ELSE sleepval
  /\ IF MustSleep /\ (sleepval' = 0 \/ sleepval' > 30000) THEN panic' = TRUE ELSE UNCHANGED panic

(* The jobs t are tried and the jobs f of them fail; the shortest delay is *)
(* kept from pass to pass as long as there is no sleep between.            *)
Least(S) == IF S = {} THEN 0 ELSE CHOOSE d \in S : \A e \in S : d <= e
Try(t, f, k) ==
  /\ tried' = t /\ failed' = f
  /\ dslf' = [j \in Waiting |-> IF j \in f THEN NextDelay(dslf[j], k)
                                ELSE IF j \in t THEN 0 ELSE dslf[j]]
  /\ minDSLF' = Least({dslf'[j] : j \in f} \cup (IF MustSleep \/ minDSLF = 0 THEN {} ELSE {minDSLF}))

SleepAndPass ==
  /\ ~panic /\ npass < SleepPasses /\ npass' = npass + 1
  /\ \E k \in Factors : Sleep(k) /\ \E t \in SUBSET Waiting : \E f \in SUBSET t : Try(t, f, k)
  /\ UNCHANGED delay

SlSpec == SlInit /\ [][SleepAndPass]_slvars
-----------------------------------------------------------------------------
(* The numbers stay in their ranges: a spooler never sleeps for a time it  *)
(* takes for a bug of its own, which would end it, unless that is what -s  *)
(* says; and, unless told to, no longer than the growth of a quarter of an *)
(* hour; a job waits a quarter of an hour at most after a failure.         *)
SleepsSoundly ==
  /\ panic => delay > 30000
  /\ npass > 0 => sleepval <= delay \/ sleepval <= 2340
  /\ \A j \in Waiting : dslf[j] <= 900 /\ (j \in failed => dslf[j] >= 5)
-----------------------------------------------------------------------------
(* What every step keeps, and what these follow from.                      *)
SlInv ==
  /\ delay \in Nat /\ sleepval \in Nat /\ minDSLF \in 0..900 /\ npass \in Nat /\ panic \in BOOLEAN
  /\ dslf \in [Waiting -> {0} \cup 5..900] /\ tried \subseteq Waiting /\ failed \subseteq tried
  /\ npass = 0 => tried = {} /\ failed = {}
  /\ SleepsSoundly
=============================================================================
