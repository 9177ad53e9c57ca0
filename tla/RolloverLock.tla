---------------------------- MODULE RolloverLock ----------------------------
(***************************************************************************)
(* The lock of a job, JOB.lock/ with the file `pid' in it, one file system *)
(* call at a time: acquire_in makes the directory and then writes the pid, *)
(* or reads the pid that is there, takes the directory of a process that   *)
(* is dead for stale, removes it and tries again; the guard's Drop removes *)
(* it.  A process is its pid, and each pid runs once.                      *)
(***************************************************************************)
EXTENDS Integers

CONSTANTS
    Procs,   \* the pids
    NoProc   \* no pid in the file, or no file

ASSUME ConstantsAssumption == NoProc \notin Procs

\* acquire_in tries so often to create the directory.
Attempts == 3

VARIABLES
    dir,      \* JOB.lock exists
    file,     \* JOB.lock/pid: "none", "empty", or "written" with `pid' in it
    pid,      \* the pid in it, when written
    writers,  \* the processes whose open file is the one that is there now
    pc,       \* where each process is
    attempt,  \* its round of the loop in acquire_in
    seen,     \* the pid that lock_is_stale has read
    met,      \* history: another process has run since this one started
    raced     \* history: a lock was made while another process judged or removed one

vars == <<dir, file, pid, writers, pc, attempt, seen, met, raced>>
local == <<attempt, seen, met>>
fs == <<dir, file, pid, writers>>

Acquiring == {"create", "open", "write", "read", "probe", "unlink", "rmdir"}
Dropping == {"drop_unlink", "drop_rmdir"}
Alive == Acquiring \union Dropping \union {"held", "released"}
Over == {"refused", "failed", "io_error", "dead"}

\* From create_dir to the pid, and from the look at a lock to the end of its removal.
Making == {"open", "write"}
Removing == {"probe", "unlink", "rmdir", "drop_rmdir"}

\* pid_is_running
Running(q) == pc[q] \in Alive

TypeOK ==
    /\ dir \in BOOLEAN
    /\ file \in {"none", "empty", "written"}
    /\ pid \in Procs \union {NoProc}
    /\ writers \subseteq Procs
    /\ file # "none" => dir
    /\ writers # {} => file # "none"
    /\ pc \in [Procs -> Alive \union Over \union {"unborn"}]
    /\ attempt \in [Procs -> 1..Attempts]
    /\ seen \in [Procs -> Procs \union {NoProc}]
    /\ met \in [Procs -> BOOLEAN]
    /\ raced \in BOOLEAN

Init ==
    /\ dir = FALSE
    /\ file = "none"
    /\ pid = NoProc
    /\ writers = {}
    /\ pc = [q \in Procs |-> "unborn"]
    /\ attempt = [q \in Procs |-> 1]
    /\ seen = [q \in Procs |-> NoProc]
    /\ met = [q \in Procs |-> FALSE]
    /\ raced = FALSE

\* One process makes the lock while another has not done with one that it has looked at.
Race == \E q, r \in Procs : q # r /\ pc[q] \in Making /\ pc[r] \in Removing

Goto(q, l) ==
    /\ pc' = [pc EXCEPT ![q] = l]
    /\ raced' = (raced \/ Race')

-----------------------------------------------------------------------------
(* The file system.                                                        *)

\* The first half of remove_dir_all: what is in the directory goes.
UnlinkPid ==
    /\ file' = "none"
    /\ pid' = NoProc
    /\ writers' = {}
    /\ UNCHANGED dir

\* The second half: a directory in which a file has appeared meanwhile stays.
RemoveDir ==
    /\ dir' = (dir /\ file # "none")
    /\ UNCHANGED <<file, pid, writers>>

-----------------------------------------------------------------------------
(* acquire_in.                                                             *)

Start(q) ==
    /\ pc[q] = "unborn"
    /\ Goto(q, "create")
    /\ met' = [r \in Procs |-> IF r = q THEN \E s \in Procs : Running(s) ELSE met[r] \/ Running(r)]
    /\ UNCHANGED <<fs, attempt, seen>>

\* Faulty: a call that succeeds on a directory that exists.
CreateDirAll(q) ==
    /\ pc[q] = "create"
    /\ dir' = TRUE
    /\ Goto(q, "open")
    /\ UNCHANGED <<file, pid, writers, local>>

CreateDir(q) ==
    /\ pc[q] = "create"
    /\ ~dir
    /\ dir' = TRUE
    /\ Goto(q, "open")
    /\ UNCHANGED <<file, pid, writers, local>>

AlreadyExists(q) ==
    /\ pc[q] = "create"
    /\ dir
    /\ Goto(q, "read")
    /\ UNCHANGED <<fs, local>>

\* fs::write opens the file, or makes it, and leaves it empty ...
OpenPid(q) ==
    /\ pc[q] = "open"
    /\ dir
    /\ file' = "empty"
    /\ pid' = NoProc
    /\ writers' = writers \union {q}
    /\ Goto(q, "write")
    /\ UNCHANGED <<dir, local>>

\* Somebody has taken the new directory away: acquire_in is an error.
OpenFails(q) ==
    /\ pc[q] = "open"
    /\ ~dir
    /\ Goto(q, "failed")
    /\ UNCHANGED <<fs, local>>

\* ... and then writes the pid, into a file that may have been unlinked meanwhile.
WritePid(q) ==
    /\ pc[q] = "write"
    /\ IF q \in writers THEN file' = "written" /\ pid' = q ELSE UNCHANGED <<file, pid>>
    /\ Goto(q, "held")
    /\ UNCHANGED <<dir, writers, local>>

\* create_dir, or the opening or the writing of the pid, fails for a reason of its own (a
\* full disk, say): an error that leaves behind what there is.
IoError(q) ==
    /\ pc[q] \in {"create"} \union Making
    /\ Goto(q, "io_error")
    /\ writers' = writers \ {q}
    /\ UNCHANGED <<dir, file, pid, local>>

\* Faulty: only a pid can be stale.
ReadPidStrict(q) ==
    /\ pc[q] = "read"
    /\ IF file = "written"
       THEN seen' = [seen EXCEPT ![q] = pid] /\ Goto(q, "probe")
       ELSE UNCHANGED seen /\ Goto(q, "refused")
    /\ UNCHANGED <<fs, attempt, met>>

\* lock_is_stale: no file, or no pid in it, is a stale lock ...
ReadPid(q) ==
    /\ pc[q] = "read"
    /\ IF file = "written"
       THEN seen' = [seen EXCEPT ![q] = pid] /\ Goto(q, "probe")
       ELSE UNCHANGED seen /\ Goto(q, "unlink")
    /\ UNCHANGED <<fs, attempt, met>>

\* Faulty: the process is not looked for.
ProbeNobody(q) ==
    /\ pc[q] = "probe"
    /\ Goto(q, "unlink")
    /\ seen' = [seen EXCEPT ![q] = NoProc]
    /\ UNCHANGED <<fs, attempt, met>>

\* ... and so is the pid of no process.
Probe(q) ==
    /\ pc[q] = "probe"
    /\ Goto(q, IF Running(seen[q]) THEN "refused" ELSE "unlink")
    /\ seen' = [seen EXCEPT ![q] = NoProc]
    /\ UNCHANGED <<fs, attempt, met>>

ReclaimUnlink(q) ==
    /\ pc[q] = "unlink"
    /\ UnlinkPid
    /\ Goto(q, "rmdir")
    /\ UNCHANGED local

\* Whether the directory went or not: once more, or no lock after the last attempt.
ReclaimRmdir(q) ==
    /\ pc[q] = "rmdir"
    /\ RemoveDir
    /\ \/ /\ attempt[q] < Attempts
          /\ attempt' = [attempt EXCEPT ![q] = @ + 1]
          /\ Goto(q, "create")
       \/ /\ attempt[q] = Attempts
          /\ attempt' = attempt
          /\ Goto(q, "refused")
    /\ UNCHANGED <<seen, met>>

-----------------------------------------------------------------------------
(* The guard, and death.                                                   *)

\* The job is executed; the guard is dropped.
Drop(q) ==
    /\ pc[q] = "held"
    /\ Goto(q, "drop_unlink")
    /\ UNCHANGED <<fs, local>>

\* Faulty: only an empty directory is removed.
DropUnlinkNothing(q) ==
    /\ pc[q] = "drop_unlink"
    /\ Goto(q, "drop_rmdir")
    /\ UNCHANGED <<fs, local>>

DropUnlink(q) ==
    /\ pc[q] = "drop_unlink"
    /\ UnlinkPid
    /\ Goto(q, "drop_rmdir")
    /\ UNCHANGED local

\* Faulty: the directory goes, full or not.
DropRmdirFull(q) ==
    /\ pc[q] = "drop_rmdir"
    /\ dir' = FALSE
    /\ Goto(q, "released")
    /\ UNCHANGED <<file, pid, writers, local>>

\* The process lives on: a resume goes to the next job.
DropRmdir(q) ==
    /\ pc[q] = "drop_rmdir"
    /\ RemoveDir
    /\ Goto(q, "released")
    /\ UNCHANGED local

\* Killed anywhere, or done after the release.
Die(q) ==
    /\ Running(q)
    /\ Goto(q, "dead")
    /\ writers' = writers \ {q}
    /\ UNCHANGED <<dir, file, pid, local>>

Step(q) ==
    \/ CreateDir(q) \/ AlreadyExists(q) \/ OpenPid(q) \/ OpenFails(q) \/ IoError(q)
    \/ WritePid(q)
    \/ ReadPid(q) \/ Probe(q) \/ ReclaimUnlink(q) \/ ReclaimRmdir(q)
    \/ Drop(q) \/ DropUnlink(q) \/ DropRmdir(q)

Next == \E q \in Procs : Start(q) \/ Step(q) \/ Die(q)

Spec == Init /\ [][Next]_vars

-----------------------------------------------------------------------------
(* Properties.                                                             *)

\* main.rs: "rollover {} is already running" is what a second process is told: two
\* processes never execute one job at the same time.
MutualExclusion == \A q, r \in Procs : pc[q] = "held" /\ pc[r] = "held" => q = r

\* The one way to a second holder is a lock made while another process judges or removes
\* one: without that, whatever the processes do and wherever they die, one has the job.
ExclusiveUnlessRaced == ~raced => MutualExclusion

\* Without that, the lock of a job that is executed names the process that executes it, so
\* that every other one is refused: nobody removes it, nor writes another pid into it.
NamedUnlessRaced ==
    ~raced => \A q \in Procs : pc[q] = "held" => dir /\ file = "written" /\ pid = q

\* A lock that names a living process belongs to it: it holds the job, or is giving it
\* back.  So whatever errors and races there were, a lock that nobody minds is stale.
NoOrphan ==
    file = "written" /\ Running(pid) => pc[pid] \in {"held", "drop_unlink"}

\* What processes that died, at whatever call, have left behind never keeps a process
\* from the lock that meets no other one.
DeadNeverBlock == \A q \in Procs : pc[q] \in {"refused", "failed"} => met[q]

=============================================================================
