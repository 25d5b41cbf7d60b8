------------------------------- MODULE Backoff -------------------------------
(***************************************************************************)
(* The two delay computations of the program, as pure functions:           *)
(* dispatcher.Backoff (internal/dispatcher/retry.go) for outbox retries    *)
(* and Manager.backoff (internal/modem/manager.go) for modem init retries. *)
(* Durations are natural numbers in an arbitrary unit: every value that    *)
(* either loop produces stays below twice its cap or equals the configured *)
(* base, so int64 nanoseconds never overflow.                              *)
(***************************************************************************)
EXTENDS Integers

\* What the comments of both say (retry.go:100, manager.go:170): the base doubled
\* for every failure after the first, capped.
CappedPower(failures, base, cap) ==
  LET doubled == base * 2 ^ (failures - 1) IN IF doubled <= cap THEN doubled ELSE cap

(***************************************************************************)
(* dispatcher.Backoff: the base for the first attempt, else the base       *)
(* doubled attempts-1 times, the loop leaving with the cap as soon as a    *)
(* doubling reaches it.  The early return skips the cap.                   *)
(***************************************************************************)
RetryBackoff(attempts, base, cap) ==
  LET d[k \in Nat] == IF k <= 1 THEN base
                      ELSE IF 2 * d[k-1] >= cap THEN cap ELSE 2 * d[k-1]
  IN  d[attempts]

\* Mutant: the final minimum is missing.
InitBackoffOvershoots(fails, interval, default, cap) ==
  LET base == IF interval <= 0 THEN default ELSE interval
      d[k \in Nat] == IF k <= 1 THEN base
                      ELSE IF d[k-1] < cap THEN 2 * d[k-1] ELSE d[k-1]
  IN  d[fails]

(***************************************************************************)
(* Manager.backoff: the watch interval (or its default when unset) doubled *)
(* once per failure after the first while below the cap, then the minimum  *)
(* of the result and the cap.                                              *)
(***************************************************************************)
InitBackoff(fails, interval, default, cap) ==
  LET base == IF interval <= 0 THEN default ELSE interval
      d[k \in Nat] == IF k <= 1 THEN base
                      ELSE IF d[k-1] < cap THEN 2 * d[k-1] ELSE d[k-1]
  IN  IF d[fails] < cap THEN d[fails] ELSE cap
==============================================================================
