------------------------------ MODULE Rollover ------------------------------
(***************************************************************************)
(* The job engine of `gentlsa rollover': publish the hash of a renewed     *)
(* certificate, wait two TTLs, run --reload, wait two TTLs, prune.         *)
(* Several gentlsa processes (the command itself, gentlsa-rollover@JOB,    *)
(* gentlsa-resume.timer) work on ONE job file, under the job's lock, while *)
(* the certificate is renewed, the service restarts and processes die.     *)
(*                                                                         *)
(* Time, certificates and the job itself are RolloverJob's: Tick is one    *)
(* unit of time going by, so a run has no horizon and the state space is   *)
(* finite without a bound on the clock.                                    *)
(***************************************************************************)
EXTENDS RolloverJob

CONSTANTS
    NPorts,          \* length of the job's list of ports
    Procs,           \* gentlsa processes that may run at the same time
    NoProc,          \* the owner of the lock when nobody holds it
    Window,          \* how long clients can be answered from a replaced RRset
    ReloadEffective, \* a --reload that exits 0 has the service present the file
    ImplicitReloads, \* the service may re-read the file by itself (reboot)
    RenewMidJob      \* the file may be renewed while a job is pending

Ports == 1..NPorts
NoCert == -1

ASSUME ConstantsAssumption ==
    /\ NPorts \in Nat \ {0}
    /\ NoProc \notin Procs
    /\ {ReloadEffective, ImplicitReloads, RenewMidJob} \subseteq BOOLEAN

\* The waits cover the caches: what README calls "the TLSA TTL" really is one.
ASSUME WindowAssumption == Window \in Nat /\ Window <= Wait

VARIABLES
    disk,      \* the certificate in the PEM file
    live,      \* live[p]: the certificate the service presents on port p
    settled,   \* settled[p]: for how long it has presented live[p], up to Wait
    rrset,     \* rrset[p]: the 3 1 1 hashes the zone holds at port p's owner name
    age,       \* age[p][c]: for how long c has been in rrset[p], up to Window
    jobfile,   \* the job file under /var/lib/gentlsa/rollover
    lock,      \* the process whose JobGuard is alive
    pc,        \* pc[q]: where process q is
    job,       \* job[q]: the job in q's memory
    idx,       \* idx[q]: the port its loop over the ports is at
    live_hash  \* live_hash[q]: what prune fetched from the service

world == <<disk, live, settled, rrset, age>>
process == <<pc, job, idx, live_hash>>
vars == <<disk, live, settled, rrset, age, jobfile, lock, pc, job, idx, live_hash>>

\* A process past acquire: it runs resume_cmd's or rollover_cmd's execute_rollover.
Executing == {"check", "publish", "wait_before_reload", "asleep", "reload", "reloaded",
              "wait_before_prune", "prune", "pruning"}
Locations == Executing \union {"idle", "resume", "rollover"}

TypeOK ==
    /\ disk \in Certs
    /\ live \in [Ports -> Certs]
    /\ settled \in [Ports -> 0..Wait]
    /\ rrset \in [Ports -> SUBSET Certs]
    /\ age \in [Ports -> [Certs -> 0..Window]]
    /\ jobfile \in Job \union {NoJob}
    /\ lock \in Procs \union {NoProc}
    /\ pc \in [Procs -> Locations]
    /\ job \in [Procs -> Job \union {NoJob}]
    /\ idx \in [Procs -> 1..(NPorts + 1)]
    /\ live_hash \in [Procs -> Certs \union {NoCert}]
    /\ \A q \in Procs : /\ pc[q] # "idle" => job[q] \in Job
                        /\ pc[q] = "pruning" => idx[q] \in Ports

Init ==
    /\ disk = 0
    /\ live = [p \in Ports |-> 0]
    /\ settled = [p \in Ports |-> Wait]
    /\ rrset = [p \in Ports |-> {0}]
    /\ age = [p \in Ports |-> [c \in Certs |-> IF c = 0 THEN Window ELSE 0]]
    /\ jobfile = NoJob
    /\ lock = NoProc
    /\ pc = [q \in Procs |-> "idle"]
    /\ job = [q \in Procs |-> NoJob]
    /\ idx = [q \in Procs |-> 1]
    /\ live_hash = [q \in Procs |-> NoCert]

-----------------------------------------------------------------------------
(* The zone and the service.                                               *)

\* Every answer a client can still hold for port p contains c's hash.
Visible(p, c) == c \in rrset[p] /\ age[p][c] = Window

SetRRset(p, S) ==
    /\ rrset' = [rrset EXCEPT ![p] = S]
    /\ age' = [age EXCEPT ![p] = [c \in Certs |-> IF c \in rrset[p] /\ c \in S THEN @[c] ELSE 0]]

\* The ports in S now present the file, the others what they presented before.
PresentFile(S) ==
    /\ live' = [p \in Ports |-> IF p \in S THEN disk ELSE live[p]]
    /\ settled' = [p \in Ports |-> IF p \in S /\ live[p] # disk THEN 0 ELSE settled[p]]

-----------------------------------------------------------------------------
(* Steps of a process.                                                     *)

Goto(q, l) == pc' = [pc EXCEPT ![q] = l]

\* Faulty: nothing takes the lock of a dead process away.
ExitKeepsLock(q) ==
    /\ Goto(q, "idle")
    /\ job' = [job EXCEPT ![q] = NoJob]
    /\ idx' = [idx EXCEPT ![q] = 1]
    /\ live_hash' = [live_hash EXCEPT ![q] = NoCert]
    /\ lock' = lock

\* Process q is gone: its guard, if it holds it, no longer protects the job.
Exit(q) ==
    /\ Goto(q, "idle")
    /\ job' = [job EXCEPT ![q] = NoJob]
    /\ idx' = [idx EXCEPT ![q] = 1]
    /\ live_hash' = [live_hash EXCEPT ![q] = NoCert]
    /\ lock' = IF lock = q THEN NoProc ELSE lock

\* q changes its job to j and saves it over the job file, whatever that holds.
Persist(q, j) ==
    /\ job' = [job EXCEPT ![q] = j]
    /\ jobfile' = j

\* --resume reads every job before it locks the first one.
Resume(q) ==
    /\ pc[q] = "idle"
    /\ jobfile # NoJob
    /\ Goto(q, "resume")
    /\ job' = [job EXCEPT ![q] = jobfile]
    /\ UNCHANGED <<world, jobfile, lock, idx, live_hash>>

\* The command itself continues a job for the certificate in the file, or makes one.
StartRollover(q) ==
    /\ pc[q] = "idle"
    /\ Goto(q, "rollover")
    /\ \/ /\ jobfile # NoJob
          /\ jobfile.certificate = disk
          /\ job' = [job EXCEPT ![q] = jobfile]
       \/ /\ jobfile # NoJob => jobfile.certificate # disk
          /\ job' = [job EXCEPT ![q] = NewJob(disk)]
    /\ UNCHANGED <<world, jobfile, lock, idx, live_hash>>

\* --schedule saves a new job without looking at the lock.
Schedule ==
    /\ jobfile' = NewJob(disk)
    /\ UNCHANGED <<world, lock, process>>

\* Faulty: goes on without the lock.
AcquireAnyway(q) ==
    /\ pc[q] \in {"resume", "rollover"}
    /\ lock' = q
    /\ Goto(q, "check")
    /\ jobfile' = IF pc[q] = "rollover" THEN job[q] ELSE jobfile
    /\ UNCHANGED <<world, job, idx, live_hash>>

\* The lock of a dead process is reclaimed: it counts as free here.
Acquire(q) ==
    /\ pc[q] \in {"resume", "rollover"}
    /\ lock = NoProc
    /\ lock' = q
    /\ Goto(q, "check")
    /\ jobfile' = IF pc[q] = "rollover" THEN job[q] ELSE jobfile
    /\ UNCHANGED <<world, job, idx, live_hash>>

AlreadyRunning(q) ==
    /\ pc[q] \in {"resume", "rollover"}
    /\ lock # NoProc
    /\ Exit(q)
    /\ UNCHANGED <<world, jobfile>>

\* The file must still hold the job's certificate; go on at the job's phase.
CheckCertificate(q) ==
    /\ pc[q] = "check"
    /\ disk = job[q].certificate
    /\ Goto(q, job[q].phase)
    /\ UNCHANGED <<world, jobfile, lock, job, idx, live_hash>>

CertificateChanged(q) ==
    /\ pc[q] = "check"
    /\ disk # job[q].certificate
    /\ Exit(q)
    /\ UNCHANGED <<world, jobfile>>

\* Faulty: the new record takes the place of the others.
PublishPortReplaces(q) ==
    /\ pc[q] = "publish"
    /\ idx[q] <= NPorts
    /\ SetRRset(idx[q], {job[q].certificate})
    /\ idx' = [idx EXCEPT ![q] = @ + 1]
    /\ UNCHANGED <<disk, live, settled, jobfile, lock, pc, job, live_hash>>

PublishPort(q) ==
    /\ pc[q] = "publish"
    /\ idx[q] <= NPorts
    /\ SetRRset(idx[q], rrset[idx[q]] \union {job[q].certificate})
    /\ idx' = [idx EXCEPT ![q] = @ + 1]
    /\ UNCHANGED <<disk, live, settled, jobfile, lock, pc, job, live_hash>>

\* Not managed, or an error: before the write, or after the zone took it.
PublishFails(q) ==
    /\ pc[q] = "publish"
    /\ idx[q] <= NPorts
    /\ \/ SetRRset(idx[q], rrset[idx[q]] \union {job[q].certificate})
       \/ UNCHANGED <<rrset, age>>
    /\ Exit(q)
    /\ UNCHANGED <<disk, live, settled, jobfile>>

\* Faulty: the last port is not published.
PublishedEarly(q) ==
    /\ pc[q] = "publish"
    /\ idx[q] >= NPorts
    /\ Persist(q, mark_published(job[q]))
    /\ Goto(q, "wait_before_reload")
    /\ idx' = [idx EXCEPT ![q] = 1]
    /\ UNCHANGED <<world, lock, live_hash>>

Published(q) ==
    /\ pc[q] = "publish"
    /\ idx[q] > NPorts
    /\ Persist(q, mark_published(job[q]))
    /\ Goto(q, "wait_before_reload")
    /\ idx' = [idx EXCEPT ![q] = 1]
    /\ UNCHANGED <<world, lock, live_hash>>

\* live_matches_file looks at one port after the other.
PortLive(q) ==
    /\ pc[q] = "wait_before_reload"
    /\ idx[q] <= NPorts
    /\ live[idx[q]] = job[q].certificate
    /\ idx' = [idx EXCEPT ![q] = @ + 1]
    /\ UNCHANGED <<world, jobfile, lock, pc, job, live_hash>>

\* Faulty: one port that presents the new certificate is enough.
AlreadyLiveOnePort(q) ==
    /\ pc[q] = "wait_before_reload"
    /\ idx[q] > 1
    /\ Persist(q, mark_reloaded(job[q]))
    /\ Goto(q, "wait_before_prune")
    /\ idx' = [idx EXCEPT ![q] = 1]
    /\ UNCHANGED <<world, lock, live_hash>>

\* Every port presented the job's hash when it was looked at: no wait and no reload.
AlreadyLive(q) ==
    /\ pc[q] = "wait_before_reload"
    /\ idx[q] > NPorts
    /\ Persist(q, mark_reloaded(job[q]))
    /\ Goto(q, "wait_before_prune")
    /\ idx' = [idx EXCEPT ![q] = 1]
    /\ UNCHANGED <<world, lock, live_hash>>

\* This port presents another hash, or does not answer.
NotYetLive(q) ==
    /\ pc[q] = "wait_before_reload"
    /\ idx[q] <= NPorts
    /\ Goto(q, "asleep")
    /\ idx' = [idx EXCEPT ![q] = 1]
    /\ UNCHANGED <<world, jobfile, lock, job, live_hash>>

WakeToReload(q) ==
    /\ pc[q] = "asleep"
    /\ job[q].reload_after = 0
    /\ Persist(q, mark_waiting_reload(job[q]))
    /\ Goto(q, "reload")
    /\ UNCHANGED <<world, lock, idx, live_hash>>

\* The command exited 0; the job is not marked yet.
RunReload(q) ==
    /\ pc[q] = "reload"
    /\ \E S \in SUBSET Ports : /\ ReloadEffective => S = Ports
                               /\ PresentFile(S)
    /\ Goto(q, "reloaded")
    /\ UNCHANGED <<disk, rrset, age, jobfile, lock, job, idx, live_hash>>

ReloadFails(q) ==
    /\ pc[q] = "reload"
    /\ \E S \in SUBSET Ports : PresentFile(S)
    /\ Exit(q)
    /\ UNCHANGED <<disk, rrset, age, jobfile>>

Reloaded(q) ==
    /\ pc[q] = "reloaded"
    /\ Persist(q, mark_reloaded(job[q]))
    /\ Goto(q, "wait_before_prune")
    /\ UNCHANGED <<world, lock, idx, live_hash>>

WakeToPrune(q) ==
    /\ pc[q] = "wait_before_prune"
    /\ job[q].prune_after = 0
    /\ Persist(q, mark_ready_to_prune(job[q]))
    /\ Goto(q, "prune")
    /\ UNCHANGED <<world, lock, idx, live_hash>>

\* Faulty: prune keeps the hash of the job instead of the one that is presented.
FetchOwn(q) ==
    /\ pc[q] = "prune"
    /\ idx[q] <= NPorts
    /\ live_hash' = [live_hash EXCEPT ![q] = job[q].certificate]
    /\ Goto(q, "pruning")
    /\ UNCHANGED <<world, jobfile, lock, job, idx>>

FetchLive(q) ==
    /\ pc[q] = "prune"
    /\ idx[q] <= NPorts
    /\ live_hash' = [live_hash EXCEPT ![q] = live[idx[q]]]
    /\ Goto(q, "pruning")
    /\ UNCHANGED <<world, jobfile, lock, job, idx>>

\* Faulty: the hash that is presented goes, the others stay.
PrunePortInverted(q) ==
    /\ pc[q] = "pruning"
    /\ SetRRset(idx[q], rrset[idx[q]] \ {live_hash[q]})
    /\ Goto(q, "prune")
    /\ idx' = [idx EXCEPT ![q] = @ + 1]
    /\ live_hash' = [live_hash EXCEPT ![q] = NoCert]
    /\ UNCHANGED <<disk, live, settled, jobfile, lock, job>>

\* Every 3 1 1 record that is not the fetched hash goes.
PrunePort(q) ==
    /\ pc[q] = "pruning"
    /\ SetRRset(idx[q], rrset[idx[q]] \intersect {live_hash[q]})
    /\ Goto(q, "prune")
    /\ idx' = [idx EXCEPT ![q] = @ + 1]
    /\ live_hash' = [live_hash EXCEPT ![q] = NoCert]
    /\ UNCHANGED <<disk, live, settled, jobfile, lock, job>>

\* The service does not answer, or the publisher fails before or after its write.
PruneFails(q) ==
    /\ \/ pc[q] = "prune" /\ idx[q] <= NPorts /\ UNCHANGED <<rrset, age>>
       \/ pc[q] = "pruning" /\ UNCHANGED <<rrset, age>>
       \/ pc[q] = "pruning" /\ SetRRset(idx[q], rrset[idx[q]] \intersect {live_hash[q]})
    /\ Exit(q)
    /\ UNCHANGED <<disk, live, settled, jobfile>>

\* Faulty: done before the last port.
FinishedEarly(q) ==
    /\ pc[q] = "prune"
    /\ idx[q] >= NPorts
    /\ jobfile' = NoJob
    /\ Exit(q)
    /\ UNCHANGED world

\* remove_job takes the job file away, whichever job it holds by now.
Finished(q) ==
    /\ pc[q] = "prune"
    /\ idx[q] > NPorts
    /\ jobfile' = NoJob
    /\ Exit(q)
    /\ UNCHANGED world

\* Killed, or an error saving the job: nothing of what is in memory survives.
Crash(q) ==
    /\ pc[q] # "idle"
    /\ Exit(q)
    /\ UNCHANGED <<world, jobfile>>

-----------------------------------------------------------------------------
(* The machine around the processes.  A reboot is a Crash of every process *)
(* and a ServiceRestart.                                                   *)

Renew ==
    /\ disk < MaxCert
    /\ RenewMidJob \/ (jobfile = NoJob /\ \A q \in Procs : pc[q] = "idle")
    /\ disk' = disk + 1
    /\ UNCHANGED <<live, settled, rrset, age, jobfile, lock, process>>

ServiceRestart ==
    /\ ImplicitReloads
    /\ \E S \in SUBSET Ports : PresentFile(S)
    /\ UNCHANGED <<disk, rrset, age, jobfile, lock, process>>

Tick ==
    /\ age' = [p \in Ports |-> [c \in Certs |->
                  IF c \in rrset[p] /\ age[p][c] < Window THEN age[p][c] + 1 ELSE age[p][c]]]
    /\ settled' = [p \in Ports |-> IF settled[p] < Wait THEN settled[p] + 1 ELSE settled[p]]
    /\ jobfile' = Later(jobfile)
    /\ job' = [q \in Procs |-> Later(job[q])]
    /\ UNCHANGED <<disk, live, rrset, lock, pc, idx, live_hash>>

-----------------------------------------------------------------------------
\* What a process does by itself once it has a job, when nothing goes wrong.
Progress(q) ==
    \/ Acquire(q) \/ AlreadyRunning(q)
    \/ CheckCertificate(q) \/ CertificateChanged(q)
    \/ PublishPort(q) \/ Published(q)
    \/ PortLive(q) \/ AlreadyLive(q) \/ NotYetLive(q) \/ WakeToReload(q)
    \/ RunReload(q) \/ Reloaded(q)
    \/ WakeToPrune(q) \/ FetchLive(q) \/ PrunePort(q) \/ Finished(q)

Fault(q) == PublishFails(q) \/ ReloadFails(q) \/ PruneFails(q) \/ Crash(q)

\* What a user, a renewal hook or the machine does.
Command == Schedule \/ Renew \/ ServiceRestart \/ \E q \in Procs : StartRollover(q)

Next ==
    \/ \E q \in Procs : Resume(q) \/ Progress(q) \/ Fault(q)
    \/ Command
    \/ Tick

Spec == Init /\ [][Next]_vars

(* gentlsa-resume.timer starts a resume every ten minutes, a process that  *)
(* runs is scheduled, and time goes by.                                    *)
Fairness ==
    /\ \A q \in Procs : WF_vars(Resume(q)) /\ WF_vars(Progress(q))
    /\ WF_vars(Tick)

FairSpec == Spec /\ Fairness
-----------------------------------------------------------------------------
(* Safety.                                                                 *)

\* rollover.rs: "publish the new hash at least two TTLs before deploying the new
\* chain".  A process about to run --reload knows that no client can still be
\* answered without the hash of the job's certificate, whatever happened to the
\* processes, to the lock and to the job file since it was published.
ReloadSafe ==
    \A q \in Procs : pc[q] = "reload" =>
        \A p \in Ports : Visible(p, job[q].certificate)

\* The other half of the same rule: when prune is about to delete the other hashes of
\* a port that presents the job's certificate, the port has presented it for two TTLs.
PruneSettled ==
    \A q \in Procs : pc[q] \in {"prune", "pruning"} =>
        \A p \in Ports : live[p] = job[q].certificate => settled[p] = Wait

\* Whatever the rollovers do, and wherever they stop, a client always finds the hash
\* of the certificate it is presented with, even in an answer it cached long ago.
Continuity == \A p \in Ports : Visible(p, live[p])

\* Prune spares a hash because the service presents it: that hash is the job's own,
\* so the rollover never deletes what it published.
PruneWhenLive ==
    \A q \in Procs : pc[q] = "pruning" => live_hash[q] = job[q].certificate

\* The command deploys what is in the file when it runs, which is what was published.
DeploysPublished ==
    \A q \in Procs : pc[q] = "reload" => \A p \in Ports : Visible(p, disk)

\* A job file goes away only when its rollover is complete: every port presents the
\* certificate in the file and has its hash and no other.
CompletionClean ==
    [][jobfile # NoJob /\ jobfile' = NoJob =>
          \A p \in Ports : live[p] = disk /\ rrset[p] = {disk}]_vars

\* A process finishing the job of an older certificate never takes away, nor saves
\* over, the job of a newer one.
JobNotLost ==
    [][jobfile # NoJob =>
          IF jobfile' = NoJob
          THEN \E q \in Procs : pc[q] = "prune" /\ job[q].certificate = jobfile.certificate
          ELSE jobfile'.certificate >= jobfile.certificate]_vars

(* What the engine implements.                                             *)

\* RFC 7671's order, which rollover.rs is written to keep: whatever the engine does is a
\* hand-over in which a port changes to a certificate that no client can miss the hash
\* of, and hashes go only from ports that do not present their certificate.
Known == [p \in Ports |-> {c \in Certs : Visible(p, c)}]
HandedOver == INSTANCE Handover
                  WITH Ports <- Ports,
                       Certs <- Certs,
                       presented <- live,
                       known <- Known
ImplementsHandover == HandedOver!Spec

(* Liveness.                                                               *)

\* A process that leaves because the job is locked, or its certificate replaced, looks
\* like one that dies there, and is no disturbance.
Disturbance ==
    \/ Command
    \/ \E q \in Procs : Fault(q) /\ ~AlreadyRunning(q) /\ ~CertificateChanged(q)

\* Once the faults and the commands stop, a pending job is carried through.
PendingCompletes ==
    <>[][~Disturbance]_vars => (jobfile # NoJob ~> jobfile = NoJob)
=============================================================================
