---------------------------- MODULE RolloverInv -----------------------------
(* The inductive invariant behind the safety properties of Rollover: what    *)
(* the lock, and every copy of the job, on disk or in a memory, has to say   *)
(* about the zone and the service.                                           *)
EXTENDS Rollover

\* Every copy of the job there is.  A copy can be older than the file.
Copies == ({jobfile} \union {job[q] : q \in Procs}) \ {NoJob}

HashPublished == {"wait_before_reload", "reload", "wait_before_prune", "prune"}
CertDeployed == {"wait_before_prune", "prune"}

\* c's hash is in the zone, and in every answer by the time r has gone by.
PublishedBy(c, r) == \A p \in Ports : c \in rrset[p] /\ age[p][c] + r >= Window

\* A copy's certificate exists, its deadlines are worth what the code takes them for,
\* and if it is of the certificate in the file it is right about zone and service.
CopyOK(j) ==
    /\ j.certificate <= disk
    /\ j.phase = "reload" => j.reload_after = 0
    /\ j.phase = "prune" => j.prune_after = 0
    /\ j.phase \in CertDeployed =>
          \A p \in Ports : live[p] = j.certificate => settled[p] + j.prune_after >= Wait
    /\ j.certificate = disk /\ j.phase \in HashPublished => PublishedBy(disk, j.reload_after)
    /\ j.certificate = disk /\ j.phase \in CertDeployed => \A p \in Ports : live[p] = disk

CopyInv == \A j \in Copies : CopyOK(j)

\* The processes past acquire: at most the one that holds the lock.
LockInv == \A q \in Procs : pc[q] \in Executing <=> lock = q

\* Where a process is in the code, and where its job is in its life.
PhaseOK(q) ==
    /\ pc[q] \in Phases => job[q].phase = pc[q]
    /\ pc[q] = "asleep" => job[q].phase = "wait_before_reload"
    /\ pc[q] = "reloaded" => job[q].phase = "reload"
    /\ pc[q] = "pruning" => job[q].phase = "prune"
    /\ pc[q] \notin {"publish", "wait_before_reload", "prune", "pruning"} => idx[q] = 1

\* What a process in the lock has done so far.
WorkOK(q) ==
    /\ pc[q] = "publish" => \A p \in Ports : p < idx[q] => job[q].certificate \in rrset[p]
    /\ pc[q] \in {"wait_before_reload", "asleep", "reload"} =>
          PublishedBy(job[q].certificate, job[q].reload_after)
    /\ pc[q] = "wait_before_reload" /\ job[q].certificate = disk =>
          \A p \in Ports : p < idx[q] => live[p] = disk
    /\ pc[q] = "reloaded" /\ job[q].certificate = disk => \A p \in Ports : live[p] = disk
    /\ pc[q] = "pruning" /\ job[q].certificate = disk => live_hash[q] = disk

ProcessInv == \A q \in Procs : PhaseOK(q) /\ WorkOK(q)

\* While a process works on an older certificate nobody has begun to publish the new one.
OldWorkInv ==
    \A q \in Procs : pc[q] \in Executing \ {"check"} /\ job[q].certificate # disk =>
        \A j \in Copies : j.certificate = disk => j.phase = "publish"

IInv == TypeOK /\ CopyInv /\ LockInv /\ ProcessInv /\ OldWorkInv

-----------------------------------------------------------------------------
(* With renewals that wait for the pending job, and a service that re-reads  *)
(* its file only when told to, and then does, a little more is true.         *)

Orderly == ReloadEffective /\ ~ImplicitReloads /\ ~RenewMidJob

\* Every copy is of the certificate in the file, and somebody works on it.
CurrentInv ==
    /\ \A j \in Copies : j.certificate = disk
    /\ \A q \in Procs : pc[q] = "idle" => job[q] = NoJob

\* The ports a pruning process is done with hold one hash.
PrunedInv ==
    \A q \in Procs : pc[q] \in {"prune", "pruning"} =>
        \A p \in Ports : p < idx[q] => rrset[p] = {disk}

OrderlyInv == IInv /\ Continuity /\ CurrentInv /\ PrunedInv

-----------------------------------------------------------------------------
(* With one process, a --reload that exits 0 may have left the service as it *)
(* was: the job then prunes what the service does not present, and must not  *)
(* reload any more.                                                          *)

Alone == \A q, r \in Procs : q = r

BeforeReload == {"wait_before_reload", "reload"}

\* A copy that has a reload ahead of it: its hash is in the zone, and by the time of its
\* deadline in every answer.
PendingReloadInv ==
    \A j \in Copies :
        /\ j.phase = "reload" => j.reload_after = 0
        /\ j.phase \in BeforeReload => PublishedBy(disk, j.reload_after)

\* Once a copy prunes, none has a reload ahead of it.
NoReloadAfterPruneInv ==
    \A j, k \in Copies : j.phase = "prune" => k.phase \notin BeforeReload

PortsPublishedInv ==
    \A q \in Procs : pc[q] = "publish" => \A p \in Ports : p < idx[q] => disk \in rrset[p]

\* A pruning process keeps what the port presents.
FetchedInv == \A q \in Procs : pc[q] = "pruning" => live_hash[q] = live[idx[q]]

AloneInv ==
    /\ TypeOK /\ Continuity /\ CurrentInv
    /\ \A q \in Procs : PhaseOK(q)
    /\ PendingReloadInv /\ NoReloadAfterPruneInv /\ PortsPublishedInv /\ FetchedInv
=============================================================================
