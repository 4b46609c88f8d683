--------------------------- MODULE CleanupPolicy ---------------------------
(* How many STRM files may be removed at once: the limits of the settings   *)
(* and the verdict which the web, and every task, ask for before they       *)
(* remove anything (service/task/cleanup_policy.go).                        *)
EXTENDS Integers

Verdicts == {"allow", "confirm", "protected"}

(* The settings are numbers the user may leave at zero or set below it; the *)
(* ratio is in percent.                                                     *)
CleanupSettings == [abs: Int, ratio: Int, dirs: Int, stable: Int]

Positive(value, default) == IF value > 0 THEN value ELSE default

EffectiveCleanupLimits(cfg) ==
  [abs    |-> Positive(cfg.abs, 1000),
   ratio  |-> Positive(cfg.ratio, 10),
   dirs   |-> Positive(cfg.dirs, 20),
   stable |-> Positive(cfg.stable, 5)]

(* A limit is exceeded by n files in dirs directories of the local files;   *)
(* local and dirs are 0 where the caller does not know them.                *)
Exceeds(n, local, dirs, lim) ==
  \/ local > 0 /\ 100 * n > lim.ratio * local
  \/ n > lim.abs
  \/ dirs > lim.dirs

EvaluateCleanup(n, local, dirs, cfg) ==
  LET lim == EffectiveCleanupLimits(cfg)
  IN  IF n <= lim.stable THEN "allow"
      ELSE IF Exceeds(n, local, dirs, lim) THEN "protected"
      ELSE "confirm"
=============================================================================
