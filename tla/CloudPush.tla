----------------------------- MODULE CloudPush -----------------------------
(***************************************************************************)
(* The cloud_backup job: it encrypts the newest published snapshots into a *)
(* temporary directory and copies them to an append-only remote.  Two      *)
(* processes may run it at once, the maintenance loop and `oc maintenance  *)
(* run-once`; snapshots are published, pruned and decay meanwhile, a child *)
(* process may hang and either process may be killed.  A snapshot is named *)
(* by its stamp, as _published_snapshots orders them.                      *)
(***************************************************************************)
EXTENDS Integers, FiniteSets, FiniteSetsExt

CONSTANTS Procs,       \* "loop", the maintenance loop's process, and "run-once"
          Timeout,     \* _CLOUD_TIMEOUT_SECONDS
          Drain,       \* _CHILD_DRAIN_SECONDS
          SourceMaxAge, ClockSkew,  \* of the newest snapshot
          StaleAfter,  \* _CLOUD_STALE_AFTER, of the last success
          Window,      \* _CLOUD_WINDOW
          DayLength,   \* ticks in a UTC day
          Start,       \* the time at which a behaviour begins
          MaxTime,     \* bound on the clock
          MaxFaults    \* bound on kills, failures, prunes, decays and reconfigurations

PushAssumption ==
    /\ "loop" \in Procs
    /\ {Timeout, Drain, SourceMaxAge, ClockSkew, StaleAfter, Start, MaxTime} \subseteq Nat
    /\ Window \in Nat \ {0} /\ DayLength \in Nat \ {0}

Parts == {"db", "json"}
Never == -1
Times == 0..MaxTime

VARIABLES now,
          config,       \* what read_cloud_backup_config says
          published,    \* stamps of the published snapshots
          decayed,      \* those that no longer match their manifest
          remote,       \* objects offsite
          dirs,         \* push directories under the backup root: owner and mtime
          push,         \* the run of each process
          lastSuccess,  \* the loop's last_success_at for the job
          faults

vars == <<now, config, published, decayed, remote, dirs, push, lastSuccess, faults>>
disk == <<published, decayed>>

Idle == [pc |-> "idle", began |-> 0, listed |-> {}, selected |-> {}, todo |-> {}, out |-> {},
         dir |-> Never]
Object(s, part, ok) == [snap |-> s, part |-> part, ok |-> ok]

\* A stamp ahead of the clock was written while the clock was wrong.
Init ==
    /\ now = Start
    /\ config \in {"off", "problem", "good"}
    /\ published \in SUBSET (0..Start + 1)
    /\ decayed = {}
    /\ remote = {} /\ dirs = {}
    /\ push = [p \in Procs |-> Idle]
    /\ lastSuccess = Never
    /\ faults = 0

Fault == faults < MaxFaults /\ faults' = faults + 1
Goto(p, pc) == push' = [push EXCEPT ![p].pc = pc]

(***************************************************************************)
(* The world around a run.                                                 *)
(***************************************************************************)
Running(p) == push[p].pc \notin {"idle", "drain"}
Deadline(p) == push[p].began + Timeout

\* asyncio's timers fire on time: no deadline is passed.
Tick ==
    /\ now < MaxTime
    /\ \A p \in Procs : /\ Running(p) => now < Deadline(p)
                        /\ push[p].pc = "drain" => now < Deadline(p) + Drain
    /\ now' = now + 1
    /\ UNCHANGED <<config, disk, remote, dirs, push, lastSuccess, faults>>

Publish ==
    /\ now \notin published
    /\ published' = published \union {now}
    /\ UNCHANGED <<now, config, decayed, remote, dirs, push, lastSuccess, faults>>

\* Retention, in the other process or between two runs.
Prune(s) ==
    /\ s \in published /\ s # Max(published)
    /\ Fault
    /\ published' = published \ {s}
    /\ UNCHANGED <<now, config, decayed, remote, dirs, push, lastSuccess>>

\* A file may decay at any time but between its verification and its encryption.
Decay(s) ==
    /\ s \in published \ decayed
    /\ \A p \in Procs : push[p].pc \in {"verify", "encrypt"} => s \notin push[p].selected
    /\ Fault
    /\ decayed' = decayed \union {s}
    /\ UNCHANGED <<now, config, published, remote, dirs, push, lastSuccess>>

\* The container restarts with other variables; every process in it dies.
Reconfigure(c) ==
    /\ c # config
    /\ Fault
    /\ config' = c
    /\ push' = [p \in Procs |-> Idle]
    /\ UNCHANGED <<now, disk, remote, dirs, lastSuccess>>

\* A SIGKILL skips the cleanup of the push directory.
Kill(p) ==
    /\ push[p].pc # "idle"
    /\ Fault
    /\ push' = [push EXCEPT ![p] = Idle]
    /\ UNCHANGED <<now, config, disk, remote, dirs, lastSuccess>>

(***************************************************************************)
(* cloud_backup.                                                           *)
(***************************************************************************)
OwnDir(p) == [owner |-> p, born |-> push[p].dir]

\* TemporaryDirectory's exit removes the run's own directory.
End(p) ==
    /\ push' = [push EXCEPT ![p] = Idle]
    /\ dirs' = dirs \ {OwnDir(p)}

Raise(p) == End(p) /\ UNCHANGED <<now, config, disk, remote, lastSuccess>>

\* Off is a skip, which the loop stamps nowhere.
Skipped(p) == UNCHANGED lastSuccess

\* The feature is off, misconfigured, run as root or without rclone.conf.
Refuse(p) ==
    /\ push[p].pc = "idle"
    /\ config # "good"
    /\ IF config = "off" THEN Skipped(p) ELSE UNCHANGED lastSuccess
    /\ UNCHANGED <<now, config, disk, remote, dirs, push, faults>>

\* MaxTime leaves every run the time it may take.
Begin(p) ==
    /\ push[p].pc = "idle"
    /\ config = "good"
    /\ now + Timeout + Drain <= MaxTime
    /\ push' = [push EXCEPT ![p] = [Idle EXCEPT !.pc = "sweep", !.began = now]]
    /\ UNCHANGED <<now, config, disk, remote, dirs, lastSuccess, faults>>

StaleDir(d) == now - d.born > Timeout

Sweep(p) ==
    /\ push[p].pc = "sweep"
    /\ dirs' = {d \in dirs : ~StaleDir(d)}
    /\ Goto(p, "list")
    /\ UNCHANGED <<now, config, disk, remote, lastSuccess, faults>>

Day(s) == s \div DayLength
Newest(S) == {s \in S : Cardinality({t \in S : t > s}) < Window}

\* The newest, and the newest of each of the latest days.
SelectForPush(S) ==
    LET perDay == {s \in S : \A t \in S : Day(t) = Day(s) => t <= s}
    IN Newest(S) \union Newest(perDay)

\* Bug: the age of the newest snapshot is not looked at.
SourceNotFuture(newest) == newest <= now + ClockSkew

SourceFresh(newest) == newest <= now + ClockSkew /\ now - newest <= SourceMaxAge

Pushable == published # {} /\ SourceFresh(Max(published))

List(p) ==
    /\ push[p].pc = "list"
    /\ Pushable
    /\ push' = [push EXCEPT ![p] = [@ EXCEPT !.pc = "verify", !.listed = published,
                                             !.selected = SelectForPush(published),
                                             !.todo = SelectForPush(published)]]
    /\ UNCHANGED <<now, config, disk, remote, dirs, lastSuccess, faults>>

NothingToPush(p) ==
    /\ push[p].pc = "list"
    /\ ~Pushable
    /\ Raise(p)
    /\ UNCHANGED faults

Matches(s) == s \notin decayed

\* BackupCatalog.verify of one selected snapshot; it raises if the snapshot is
\* gone or does not match.
Verify(p, s) ==
    /\ push[p].pc = "verify" /\ s \in push[p].todo
    /\ IF s \in published /\ Matches(s)
       THEN /\ push' = [push EXCEPT ![p].todo = @ \ {s}]
            /\ UNCHANGED <<now, config, disk, remote, dirs, lastSuccess>>
       ELSE Raise(p)
    /\ UNCHANGED faults

MakeDir(p) ==
    /\ push[p].pc = "verify" /\ push[p].todo = {}
    /\ dirs' = dirs \union {[owner |-> p, born |-> now]}
    /\ push' = [push EXCEPT ![p].pc = "encrypt", ![p].todo = push[p].selected, ![p].dir = now]
    /\ UNCHANGED <<now, config, disk, remote, lastSuccess, faults>>

\* age on a snapshot and on its manifest.
Encrypt(p, s) ==
    /\ push[p].pc = "encrypt" /\ s \in push[p].todo
    /\ IF s \in published
       THEN /\ push' = [push EXCEPT ![p].todo = @ \ {s},
                                    ![p].out = @ \union {Object(s, part, s \notin decayed) : part \in Parts}]
            /\ UNCHANGED <<now, config, disk, remote, dirs, lastSuccess>>
       ELSE Raise(p)
    /\ UNCHANGED faults

StartCopy(p) ==
    /\ push[p].pc = "encrypt" /\ push[p].todo = {}
    /\ Goto(p, "copy")
    /\ UNCHANGED <<now, config, disk, remote, dirs, lastSuccess, faults>>

Offsite(o) == \E r \in remote : r.snap = o.snap /\ r.part = o.part

\* `copy --ignore-existing`, one object after the other.
Uploaded(p, o) == remote \union {o}

Upload(p, o) ==
    /\ push[p].pc = "copy" /\ o \in push[p].out /\ ~Offsite(o)
    /\ remote' = Uploaded(p, o)
    /\ UNCHANGED <<now, config, disk, dirs, push, lastSuccess, faults>>

\* age or rclone exits with an error.
ChildFails(p) ==
    /\ push[p].pc \in {"encrypt", "copy"}
    /\ Fault
    /\ Raise(p)

\* rclone exits 0.  The manifests are read once more for the log; one pruned
\* since makes the run fail although all of it is offsite.
Finish(p) ==
    /\ push[p].pc = "copy" /\ \A o \in push[p].out : Offsite(o)
    /\ End(p)
    /\ lastSuccess' = IF p = "loop" /\ push[p].selected \subseteq published THEN now ELSE lastSuccess
    /\ UNCHANGED <<now, config, disk, remote, faults>>

\* The bound on the whole run.  A child is killed, and its pipes drained.
TimeOut(p) ==
    /\ Running(p) /\ now = Deadline(p)
    /\ IF push[p].pc \in {"encrypt", "copy"}
       THEN Goto(p, "drain") /\ UNCHANGED <<now, config, disk, remote, dirs, lastSuccess>>
       ELSE Raise(p)
    /\ UNCHANGED faults

\* Bug: the killed child is waited for, and a grandchild holds its pipe open.
DrainedAtEndOfFile(p) == FALSE

\* A grandchild may hold the pipe for ever: the drain has its own bound.
Drained(p) == now >= Deadline(p) + Drain

EndDrain(p) ==
    /\ push[p].pc = "drain"
    /\ Drained(p)
    /\ Raise(p)
    /\ UNCHANGED faults

PipesClose(p) ==
    /\ push[p].pc = "drain"
    /\ Raise(p)
    /\ UNCHANGED faults

Push(p) ==
    \/ Refuse(p) \/ Begin(p) \/ Sweep(p) \/ List(p) \/ NothingToPush(p) \/ MakeDir(p)
    \/ StartCopy(p) \/ ChildFails(p) \/ Finish(p) \/ TimeOut(p) \/ EndDrain(p) \/ PipesClose(p)
    \/ Kill(p)
    \/ \E s \in push[p].todo : Verify(p, s) \/ Encrypt(p, s)
    \/ \E o \in push[p].out : Upload(p, o)

Next ==
    \/ Tick \/ Publish
    \/ \E s \in published : Prune(s) \/ Decay(s)
    \/ \E c \in {"off", "problem", "good"} : Reconfigure(c)
    \/ \E p \in Procs : Push(p)

Spec == Init /\ [][Next]_vars

\* Time passes and timers fire; nothing is asked of a child process.
FairSpec ==
    /\ Spec
    /\ WF_vars(Tick)
    /\ \A p \in Procs : WF_vars(TimeOut(p)) /\ WF_vars(EndDrain(p))

(***************************************************************************)
(* Properties.                                                             *)
(***************************************************************************)
\* _cloud_backup_status.
CloudStatus ==
    CASE config = "off" -> "disabled"
      [] config = "problem" -> "misconfigured"
      [] lastSuccess = Never \/ now - lastSuccess > StaleAfter -> "stale"
      [] OTHER -> "ok"

Complete(s) == \A part \in Parts : Offsite([snap |-> s, part |-> part])

\* Health says `ok` only while the remote holds, whole, a snapshot no older than
\* the two limits and one run allow: not for a deployment that never pushed, not
\* for old snapshots pushed again, and not after a copy that broke off.
OkMeansOffsite ==
    CloudStatus = "ok" =>
        \E s \in 0..now + ClockSkew :
            Complete(s) /\ now - s <= StaleAfter + SourceMaxAge + Timeout

\* When a run is through its copy, the newest snapshot of each of the latest
\* days it saw is offsite, however many snapshots later days have.
DaysOffsite ==
    \A p \in Procs : push[p].pc = "copy" /\ (\A o \in push[p].out : Offsite(o)) =>
        \A s \in push[p].listed :
            /\ \A t \in push[p].listed : t > s => Day(t) # Day(s)
            /\ Cardinality({Day(t) : t \in {u \in push[p].listed : Day(u) > Day(s)}}) < Window
            => Complete(s)

\* No snapshot leaves that did not match its manifest when the run verified it,
\* whichever of the selected ones it is.
ShippedSound == \A r \in remote : r.ok

\* The sweep of one process never takes the directory from under a run of the
\* other that has not timed out.
LiveDirKept ==
    \A p \in Procs : push[p].pc \in {"encrypt", "copy"} => OwnDir(p) \in dirs

\* What the offsite copies are trusted for: all four of the above.
OffsiteSound == OkMeansOffsite /\ DaysOffsite /\ ShippedSound /\ LiveDirKept

\* A run that began ends, with the loop's lock, though its child hangs and a
\* grandchild keeps the pipe open.
RunEnds == \A p \in Procs : push[p].pc # "idle" ~> push[p].pc = "idle"
=============================================================================
