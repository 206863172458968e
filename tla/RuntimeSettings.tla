--------------------------- MODULE RuntimeSettings ---------------------------
(***************************************************************************)
(* The numbers an operator may change while the process runs               *)
(* (services/settings.py): which keys there are, what a value sent for one *)
(* becomes, what a PUT stores and what the process then runs on.  A value  *)
(* as it arrives is [type, hundredths], a number in hundredths of one; a   *)
(* stored row is the number of hundredths alone.                           *)
(***************************************************************************)
EXTENDS Integers

CONSTANTS
  Pinned,      \* the keys an environment variable pins
  Secured      \* the keys that are security relevant, by name or by section

\* RUNTIME_SETTINGS: the whole numbers among them, and the bounds of each.
WholeNumbers == {"content_retention_hours", "step_retries", "max_turns_per_step", "corrective_retries"}
Bounds ==
  [content_retention_hours |-> [low |-> 0, high |-> 24 * 365 * 100],
   threshold               |-> [low |-> 1, high |-> 100],
   step_retries            |-> [low |-> 0, high |-> 2500],
   max_turns_per_step      |-> [low |-> 100, high |-> 20000],
   corrective_retries      |-> [low |-> 0, high |-> 500]]
Keys == DOMAIN Bounds

ASSUME SettingsAssumption == Pinned \subseteq Keys /\ Secured \cap Keys = {}

\* coerce: a number, not a truth value, whole where the key is, within bounds.
Coerces(key, value) ==
  /\ value.type \in {"integer", "fraction"}
  /\ key \in WholeNumbers => value.hundredths % 100 = 0
  /\ value.hundredths \in Bounds[key].low .. Bounds[key].high

\* read_runtime_settings: the stored row wins unless the environment pins the
\* key or this build refuses the row.
Usable(key, stored) ==
  /\ key \in DOMAIN stored /\ key \notin Pinned
  /\ Coerces(key, [type |-> "fraction", hundredths |-> stored[key]])
Effective(key, stored, configured) ==
  IF Usable(key, stored) THEN stored[key] ELSE configured

\* write_runtime_settings: nothing is written unless every change is; the keys
\* are looked at first, and a security-relevant one is refused as such.
PutAnswer(changes) ==
  IF DOMAIN changes \cap Secured # {} THEN "forbidden"
  ELSE IF ~DOMAIN changes \subseteq Keys THEN "unknown"
  ELSE IF \E key \in DOMAIN changes : ~Coerces(key, changes[key]) THEN "invalid"
  ELSE "stored"
Written(stored, changes) ==
  [key \in DOMAIN stored \cup DOMAIN changes |->
     IF key \in DOMAIN changes THEN changes[key].hundredths ELSE stored[key]]

\* runtime_settings_document: what decides a key; a row the environment shadows
\* is said not to, one this build refuses is not.
Source(key, stored) ==
  IF key \in DOMAIN stored /\ key \notin Pinned THEN "database" ELSE "configuration"
=============================================================================
