----------------------------- MODULE OffsitePush -----------------------------
(***************************************************************************)
(* The offsite push (CloudPush) as a part of the maintenance loop's        *)
(* process: its constants and variables under names that leave the loop's  *)
(* own alone, and what the push promises.                                  *)
(***************************************************************************)
EXTENDS Integers

CONSTANTS Procs, Timeout, Drain, SourceMaxAge, ClockSkew, StaleAfter, Window, DayLength,
          FirstTick, LastTick, MaxFaults

VARIABLES now, config, published, decayed, remote, dirs, push, pushSuccess, faults

Push == INSTANCE CloudPush WITH Start <- FirstTick, MaxTime <- LastTick, lastSuccess <- pushSuccess

\* Offsite copies can be trusted: `ok` in health means a whole, recent snapshot is
\* offsite, the newest of each of the latest days is, none was shipped that did
\* not match its manifest, and no live push directory is swept.
OffsiteSound == Push!OffsiteSound
=============================================================================
