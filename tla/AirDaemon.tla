------------------------------ MODULE AirDaemon -----------------------------
(***************************************************************************)
(* airdaemon (src/airframe/src/airdaemon.c): starts a program again as     *)
(* long as it does not succeed, after a delay that backs off.  The child   *)
(* lives for any time and exits in any way.                                *)
(***************************************************************************)
EXTENDS Integers

CONSTANTS
  RetrySettings,   \* pairs <<ad_retry_min, ad_retry_max>>
  MaxUptime        \* bound: seconds a child lives

ASSUME AirDaemonAssumption == RetrySettings \subseteq Nat \X Nat /\ MaxUptime \in Nat

VARIABLES
  retry,     \* ad_retry_min and ad_retry_max
  delay,     \* the delay before the next start
  adstate,   \* "start", "child", "failed", or how the daemon ended
  elapsed,   \* how long the last child lived
  adlog      \* history: last delay slept, restarted children that failed early in a row
daemonVars == <<retry, delay, adstate, elapsed, adlog>>

(* The options: the delay may not exceed its maximum, if there is one.     *)
AirDaemonInit ==
  /\ \E s \in RetrySettings : retry = [min |-> s[1], max |-> s[2]]
  /\ delay = retry.min
  /\ adstate = IF retry.max # 0 /\ retry.min > retry.max THEN "refused" ELSE "start"
  /\ elapsed = 0
  /\ adlog = [slept |-> 0, early |-> 0]

(* The program is started and watched; it ends the daemon if it cannot be  *)
(* started, and if its process number cannot be written it runs unwatched. *)
SpawnChild ==
  /\ adstate = "start"
  /\ adstate' \in {"child", "aborted", "unwatched"} /\ UNCHANGED <<retry, delay, elapsed, adlog>>

(* on_child_exit: done if it exited with success, not if it failed or was  *)
(* killed by a signal.                                                     *)
ChildExits(uptime, success) ==
  /\ adstate = "child"
  /\ adstate' = IF success THEN "done" ELSE "failed"
  /\ elapsed' = uptime
  /\ adlog' = [adlog EXCEPT !.early = IF uptime >= retry.min \/ adlog.slept = 0 THEN 0 ELSE @ + 1]
  /\ UNCHANGED <<retry, delay>>

(* Fault: the delay is not reset when a child has survived.                *)
SleepNoReset ==
  /\ adstate = "failed"
  /\ adlog' = [adlog EXCEPT !.slept = delay]
  /\ delay' = IF retry.max = 0 THEN delay
              ELSE IF 2 * delay <= retry.max THEN 2 * delay ELSE retry.max
  /\ adstate' = "start" /\ UNCHANGED <<retry, elapsed>>

(* The end of the loop: reset, sleep, and double.                          *)
Sleep ==
  LET now == IF retry.max # 0 /\ elapsed >= retry.min THEN retry.min ELSE delay
  IN  /\ adstate = "failed"
      /\ adlog' = [adlog EXCEPT !.slept = now]
      /\ delay' = IF retry.max = 0 THEN now
                  ELSE IF 2 * now <= retry.max THEN 2 * now ELSE retry.max
      /\ adstate' = "start" /\ UNCHANGED <<retry, elapsed>>

(* Bound: the history counts as many early exits as there are doublings.   *)
AirDaemonNext ==
  \/ SpawnChild \/ Sleep
  \/ \E uptime \in 0..MaxUptime, success \in BOOLEAN :
       (adlog.early < retry.max + 1 \/ uptime >= retry.min) /\ ChildExits(uptime, success)

AirDaemonSpec == AirDaemonInit /\ [][AirDaemonNext]_daemonVars

----------------------------------------------------------------------------
Doubled[n \in Nat] == IF n = 0 THEN 1 ELSE 2 * Doubled[n - 1]

(* The delay before each restart is the truncated exponential backoff of   *)
(* airdaemon.pod: the retry delay after the first child and after one that *)
(* survived it, doubled for each restarted child in a row that did not,    *)
(* and at most the maximum; without a maximum it is always the retry delay.*)
BackoffTruncated ==
  adstate = "start" /\ adlog.slept # 0 =>
    LET full == retry.min * Doubled[adlog.early]
    IN  adlog.slept = IF retry.max = 0 THEN retry.min
                      ELSE IF full <= retry.max THEN full ELSE retry.max

=============================================================================
