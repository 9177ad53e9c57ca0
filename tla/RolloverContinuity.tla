------------------------- MODULE RolloverContinuity -------------------------
(* What a machine promises its clients that renews no certificate while a    *)
(* job is pending and whose service re-reads the file when --reload says so: *)
(* they always find the hash of the certificate they are presented with.     *)
EXTENDS RolloverSafety

\* The job of a process that runs is of the certificate in the file.
LEMMA CurrentCopy ==
  ASSUME TypeOK, CurrentInv, NEW q \in Procs, pc[q] # "idle"
  PROVE  /\ job[q] \in Copies /\ job[q] \in Job
         /\ job[q].certificate = disk /\ disk \in Certs
  BY RunningJob DEF CurrentInv

LEMMA CurrentJob ==
  ASSUME OrderlyInv, NEW q \in Procs, pc[q] # "idle"
  PROVE  /\ job[q] \in Copies /\ job[q] \in Job /\ CopyOK(job[q])
         /\ job[q].certificate = disk /\ disk \in Certs
  BY CurrentCopy DEF OrderlyInv, IInv, CopyInv

\* Where a job is for prune, the service presents the file.
LEMMA DeployedAtPrune ==
  ASSUME OrderlyInv, NEW q \in Procs, pc[q] \in {"prune", "pruning"}
  PROVE  /\ \A p \in Ports : live[p] = disk
         /\ pc[q] = "pruning" => live_hash[q] = disk
  <1>1. job[q].phase = "prune"
    BY DEF OrderlyInv, IInv, ProcessInv, PhaseOK, Phases
  <1> QED
    BY <1>1, CurrentJob DEF OrderlyInv, IInv, ProcessInv, WorkOK, CopyOK, CertDeployed

\* Where a job is for reload, every client knows the certificate in the file.
LEMMA VisibleAtReload ==
  ASSUME OrderlyInv, NEW q \in Procs, pc[q] = "reload"
  PROVE  \A p \in Ports : Visible(p, disk)
  BY CurrentJob, IInvReloadSafe DEF OrderlyInv, ReloadSafe

-----------------------------------------------------------------------------
(* Copies of the job.                                                        *)

\* A process that saves its job moved on, one that leaves, one that only looks.
LEMMA StepCopies ==
  ASSUME TypeOK, CurrentInv, NEW q \in Procs, Progress(q) \/ Fault(q)
  PROVE  /\ \A j \in Copies' : j.certificate = disk
         /\ \A r \in Procs : pc'[r] = "idle" => job'[r] = NoJob
  <1>1. CASE /\ AlreadyRunning(q) \/ CertificateChanged(q) \/ Finished(q) \/ Fault(q)
    <2>1. Exit(q) /\ (jobfile' = jobfile \/ jobfile' = NoJob)
      BY <1>1 DEF AlreadyRunning, CertificateChanged, Finished, Fault, PublishFails, ReloadFails,
             PruneFails, Crash
    <2>2. job'[q] = NoJob /\ \A r \in Procs : r # q => pc'[r] = pc[r] /\ job'[r] = job[r]
      BY <2>1 DEF Exit, Goto, TypeOK
    <2> QED
      BY <2>1, <2>2, ExitCopies DEF CurrentInv
  <1>2. CASE Published(q) \/ AlreadyLive(q) \/ WakeToReload(q) \/ Reloaded(q) \/ WakeToPrune(q)
    <2>1. job[q] \in Job /\ job[q].certificate = disk
      BY <1>2, CurrentCopy DEF Published, AlreadyLive, WakeToReload, Reloaded, WakeToPrune
    <2>2. PICK j \in Job : Persist(q, j) /\ j.certificate = disk
      BY <1>2, <2>1, MarkPublished, MarkReloaded, MarkWaitingReload, MarkReadyToPrune
      DEF Published, AlreadyLive, WakeToReload, Reloaded, WakeToPrune
    <2>3. /\ pc'[q] # "idle"
          /\ \A r \in Procs : r # q => pc'[r] = pc[r] /\ job'[r] = job[r]
      BY <1>2, <2>2 DEF Published, AlreadyLive, WakeToReload, Reloaded, WakeToPrune, Goto,
                        Persist, TypeOK
    <2> QED
      BY <2>2, <2>3, PersistCopies DEF CurrentInv
  <1>3. CASE Acquire(q) \/ CheckCertificate(q) \/ PublishPort(q) \/ PortLive(q) \/ NotYetLive(q)
             \/ RunReload(q) \/ FetchLive(q) \/ PrunePort(q)
    <2>1. job' = job /\ (jobfile' = jobfile \/ jobfile' = job[q])
      BY <1>3 DEF Acquire, CheckCertificate, PublishPort, PortLive, NotYetLive, RunReload, FetchLive,
                  PrunePort
    <2>2. Copies' \subseteq Copies
      BY <2>1, CopiesElements DEF Copies
    <2>3. pc[q] # "idle" /\ \A r \in Procs : r # q => pc'[r] = pc[r]
      BY <1>3 DEF Acquire, CheckCertificate, PublishPort, PortLive, NotYetLive, RunReload, FetchLive,
                  PrunePort, Goto, TypeOK
    <2>4. pc'[q] # "idle"
      <3>1. CASE CheckCertificate(q)
        <4>1. pc'[q] = job[q].phase /\ job[q].phase \in Phases
          BY <2>3, <3>1, CurrentCopy, JobFields DEF CheckCertificate, Goto, TypeOK
        <4> QED
          BY <4>1 DEF Phases
      <3> QED
        BY <1>3, <3>1 DEF Acquire, PublishPort, PortLive, NotYetLive, RunReload, FetchLive, PrunePort,
                          Goto, TypeOK
    <2> QED
      BY <2>1, <2>2, <2>3, <2>4 DEF CurrentInv
  <1> QED
    BY <1>1, <1>2, <1>3 DEF Progress

\* As long as the renewals wait for the job, every copy is of the certificate in the file.
LEMMA CurrentNext ==
  ASSUME ~RenewMidJob, TypeOK, CurrentInv, Next
  PROVE  CurrentInv'
  <1>1. ASSUME NEW q \in Procs, Progress(q) \/ Fault(q) PROVE CurrentInv'
    <2>1. disk' = disk
      BY <1>1 DEF Progress, Fault, Acquire, AlreadyRunning, CheckCertificate, CertificateChanged,
         PublishPort, Published, PortLive, AlreadyLive, NotYetLive, WakeToReload, RunReload, Reloaded,
         WakeToPrune, FetchLive, PrunePort, Finished, PublishFails, ReloadFails, PruneFails,
         Crash, world
    <2> QED
      BY <1>1, <2>1, StepCopies DEF CurrentInv
  <1>2. ASSUME NEW q \in Procs, Resume(q) \/ StartRollover(q) PROVE CurrentInv'
    <2>1. disk' = disk /\ disk \in Certs /\ jobfile' = jobfile
      BY <1>2 DEF Resume, StartRollover, world, TypeOK
    <2>2. PICK j \in Job : job' = [job EXCEPT ![q] = j] /\ j.certificate = disk
      BY <1>2, <2>1, NewJobFields, CopiesElements DEF Resume, StartRollover, TypeOK, CurrentInv
    <2>3. \A r \in Procs : r # q => pc'[r] = pc[r] /\ job'[r] = job[r]
      BY <1>2, <2>2 DEF Resume, StartRollover, Goto, TypeOK
    <2>4. pc'[q] # "idle" /\ job'[q] = j
      BY <1>2, <2>2 DEF Resume, StartRollover, Goto, TypeOK
    <2>5. Copies' \subseteq Copies \union {j}
      BY <2>1, <2>3, <2>4, CopiesElements DEF Copies
    <2> QED
      BY <2>1, <2>2, <2>3, <2>4, <2>5 DEF CurrentInv
  <1>3. ASSUME Schedule PROVE CurrentInv'
    <2>1. /\ disk' = disk /\ disk \in Certs /\ jobfile' = NewJob(disk) /\ UNCHANGED <<pc, job>>
      BY <1>3 DEF Schedule, process, world, TypeOK
    <2>2. Copies' \subseteq Copies \union {NewJob(disk)}
      BY <2>1 DEF Copies
    <2> QED
      BY <2>1, <2>2, NewJobFields DEF CurrentInv
  <1>4. ASSUME Renew PROVE CurrentInv'
    <2>1. /\ jobfile = NoJob /\ \A q \in Procs : pc[q] = "idle"
          /\ UNCHANGED <<jobfile, pc, job>>
      BY <1>4 DEF Renew, process
    <2>2. Copies' = {}
      BY <2>1 DEF Copies, CurrentInv
    <2> QED
      BY <2>1, <2>2 DEF CurrentInv
  <1>5. ASSUME Tick PROVE CurrentInv'
    <2>1. /\ disk' = disk /\ pc' = pc /\ jobfile' = Later(jobfile)
          /\ \A q \in Procs : job'[q] = Later(job[q])
      BY <1>5 DEF Tick
    <2>2. \A q \in Procs : pc'[q] = "idle" => job'[q] = NoJob
      BY <2>1, LaterNoJob DEF CurrentInv
    <2>3. ASSUME NEW k \in Copies' PROVE k.certificate = disk
      <3>1. k # NoJob /\ (k = Later(jobfile) \/ \E r \in Procs : k = Later(job[r]))
        BY <2>1, <2>3 DEF Copies
      <3>2. PICK j \in Copies : k = Later(j)
        BY <3>1, LaterNoJob, CopiesElements
      <3> QED
        BY <3>2, CopiesType, LaterFields DEF CurrentInv
    <2> QED
      BY <2>1, <2>2, <2>3 DEF CurrentInv
  <1>6. ASSUME ServiceRestart PROVE CurrentInv'
    BY <1>6 DEF ServiceRestart, process, CurrentInv, Copies
  <1> QED
    BY <1>1, <1>2, <1>3, <1>4, <1>5, <1>6 DEF Next, Command

-----------------------------------------------------------------------------
(* What clients see.                                                         *)

\* Replacing an RRset hides no hash that stays in it.
LEMMA KeepVisible ==
  ASSUME TypeOK, NEW p \in Ports, NEW S, SetRRset(p, S),
         NEW r \in Ports, NEW c \in Certs, Visible(r, c), r = p => c \in S
  PROVE  Visible(r, c)'
  BY DEF SetRRset, Visible, TypeOK

\* A service that starts to present a file every client knows.
LEMMA PresentVisible ==
  ASSUME Continuity, NEW S \in SUBSET Ports, PresentFile(S), UNCHANGED <<rrset, age>>,
         \A p \in Ports : Visible(p, disk)
  PROVE  Continuity'
  BY DEF Continuity, PresentFile, Visible

\* The hash of what is presented stays in every answer, if a reload deploys what is in
\* every answer and prune keeps what is presented.
LEMMA ContinuityNext ==
  ASSUME ~ImplicitReloads, TypeOK, Continuity, DeploysPublished, FetchedInv, Next
  PROVE  Continuity'
  <1>1. CASE UNCHANGED <<live, rrset, age>>
    BY <1>1 DEF Continuity, Visible
  <1>2. ASSUME NEW q \in Procs, PublishPort(q) \/ PublishFails(q), ~UNCHANGED <<live, rrset, age>>
        PROVE  Continuity'
    <2>1. /\ SetRRset(idx[q], rrset[idx[q]] \union {job[q].certificate})
          /\ live' = live /\ idx[q] \in Ports
      BY <1>2, IdxType DEF PublishPort, PublishFails
    <2>2. ASSUME NEW p \in Ports PROVE Visible(p, live[p])'
      <3>1. live[p] \in Certs /\ Visible(p, live[p])
        BY DEF Continuity, TypeOK
      <3>2. live[p] \in rrset[p]
        BY <3>1 DEF Visible
      <3>3. \A c \in Certs : Visible(p, c) /\ c \in rrset[p] => Visible(p, c)'
        BY <2>1, KeepVisible
      <3> QED
        BY <2>1, <3>1, <3>2, <3>3 DEF Visible
    <2> QED
      BY <2>2 DEF Continuity
  <1>3. ASSUME NEW q \in Procs, PrunePort(q) \/ PruneFails(q), ~UNCHANGED <<live, rrset, age>>
        PROVE  Continuity'
    <2>1. /\ SetRRset(idx[q], rrset[idx[q]] \intersect {live_hash[q]})
          /\ live' = live /\ idx[q] \in Ports /\ pc[q] = "pruning"
      BY <1>3 DEF PrunePort, PruneFails, TypeOK
    <2>2. live_hash[q] = live[idx[q]]
      BY <2>1 DEF FetchedInv
    <2>3. ASSUME NEW p \in Ports PROVE Visible(p, live[p])'
      <3>1. live[p] \in Certs /\ Visible(p, live[p])
        BY DEF Continuity, TypeOK
      <3>2. p = idx[q] => live[p] \in rrset[idx[q]] \intersect {live_hash[q]}
        BY <2>2, <3>1 DEF Visible
      <3>3. \A c \in {live[p]} : Visible(p, c)'
        BY <2>1, <3>1, <3>2, KeepVisible
      <3>4. live'[p] = live[p]
        BY <2>1
      <3>5. \A c \in {live[p]} : live'[p] = c /\ Visible(p, c)' => Visible(p, live[p])'
        BY DEF Visible
      <3> QED
        BY <3>3, <3>4, <3>5
    <2> QED
      BY <2>3 DEF Continuity
  <1>4. ASSUME NEW q \in Procs, RunReload(q) \/ ReloadFails(q) PROVE Continuity'
    <2>1. PICK S \in SUBSET Ports : PresentFile(S)
      BY <1>4 DEF RunReload, ReloadFails
    <2>2. pc[q] = "reload" /\ UNCHANGED <<rrset, age>>
      BY <1>4 DEF RunReload, ReloadFails
    <2> QED
      BY <2>1, <2>2, PresentVisible DEF DeploysPublished
  <1>5. ASSUME Tick PROVE Continuity'
    <2>1. live' = live /\ rrset' = rrset
      BY <1>5 DEF Tick
    <2>2. ASSUME NEW p \in Ports PROVE live[p] \in rrset[p] /\ age'[p][live[p]] = Window
      <3>1. live[p] \in Certs /\ live[p] \in rrset[p] /\ age[p][live[p]] = Window
        BY DEF Continuity, Visible, TypeOK
      <3> QED
        BY <1>5, <3>1, WindowAssumption DEF Tick
    <2> QED
      BY <2>1, <2>2 DEF Continuity, Visible
  <1>6. ASSUME NEW q \in Procs, Resume(q) \/ Progress(q) \/ Fault(q),
               ~(PublishPort(q) \/ PublishFails(q) \/ PrunePort(q) \/ PruneFails(q)
                 \/ RunReload(q) \/ ReloadFails(q))
        PROVE  UNCHANGED <<live, rrset, age>>
    BY <1>6 DEF Resume, Progress, Fault, Acquire, AlreadyRunning, CheckCertificate,
       CertificateChanged, Published, PortLive, AlreadyLive, NotYetLive, WakeToReload, Reloaded,
       WakeToPrune, FetchLive, Finished, Crash, world
  <1>7. ASSUME Command PROVE UNCHANGED <<live, rrset, age>>
    BY <1>7 DEF Command, Schedule, Renew, ServiceRestart, StartRollover, world
  <1> QED
    BY <1>1, <1>2, <1>3, <1>4, <1>5, <1>6, <1>7 DEF Next

-----------------------------------------------------------------------------
(* What pruning leaves.                                                      *)

LEMMA PrunedNext ==
  ASSUME Orderly, OrderlyInv, Next, TypeOK'
  PROVE  PrunedInv'
  <1> USE DEF OrderlyInv, IInv
  <1> SUFFICES ASSUME NEW r \in Procs, pc'[r] \in {"prune", "pruning"},
                      NEW p \in Ports, p < idx'[r]
               PROVE  rrset'[p] = {disk'}
    BY DEF PrunedInv
  <1> USE DEF world, process
  <1>1. CASE \/ \E q \in Procs : Resume(q) \/ StartRollover(q) \/ Acquire(q) \/ FetchLive(q)
             \/ Schedule \/ Tick
    <2>1. /\ UNCHANGED <<disk, rrset, idx>>
          /\ pc[r] \in {"prune", "pruning"}
      BY <1>1 DEF Resume, StartRollover, Acquire, FetchLive, Schedule, Tick, Goto,
                  TypeOK
    <2> QED
      BY <2>1 DEF PrunedInv
  <1>2. CASE Renew
    BY <1>2 DEF Renew, Orderly
  <1>3. CASE ServiceRestart
    BY <1>3 DEF ServiceRestart, Orderly
  <1>4. ASSUME NEW q \in Procs,
               CheckCertificate(q) \/ Published(q) \/ PortLive(q) \/ AlreadyLive(q)
               \/ NotYetLive(q) \/ WakeToReload(q) \/ Reloaded(q) \/ WakeToPrune(q)
               \/ RunReload(q)
        PROVE  rrset'[p] = {disk'}
    <2>1. /\ UNCHANGED <<disk, rrset>>
          /\ pc[q] \notin {"idle", "prune", "pruning"}
          /\ r # q => pc'[r] = pc[r] /\ idx'[r] = idx[r]
      BY <1>4 DEF CheckCertificate, Published, PortLive, AlreadyLive, NotYetLive, WakeToReload,
                  Reloaded, WakeToPrune, RunReload, Goto, Persist, TypeOK
    <2>2. CASE PortLive(q)
      BY <2>1, <2>2 DEF PortLive, PrunedInv
    <2>3. CASE ~PortLive(q)
      <3>1. idx[q] = 1 \/ Published(q) \/ AlreadyLive(q) \/ NotYetLive(q)
        BY <1>4, <2>3 DEF CheckCertificate, WakeToReload, Reloaded, WakeToPrune, RunReload,
                          ProcessInv, PhaseOK
      <3>2. idx'[q] = 1
        BY <1>4, <2>3, <3>1 DEF CheckCertificate, Published, AlreadyLive, NotYetLive,
           WakeToReload, Reloaded, WakeToPrune, RunReload, TypeOK
      <3>3. ~(p < 1)
        BY DEF Ports
      <3> QED
        BY <2>1, <3>2, <3>3 DEF PrunedInv
    <2> QED
      BY <2>2, <2>3
  <1>5. ASSUME NEW q \in Procs, PublishPort(q) PROVE rrset'[p] = {disk'}
    <2>1. pc' = pc /\ pc[q] = "publish"
      BY <1>5 DEF PublishPort
    <2>2. r = q
      BY <2>1, OneHolder DEF Executing
    <2> QED
      BY <2>1, <2>2
  <1>6. ASSUME NEW q \in Procs, PrunePort(q) PROVE rrset'[p] = {disk'}
    <2>1. /\ pc[q] = "pruning" /\ idx[q] \in Ports /\ disk' = disk
          /\ SetRRset(idx[q], rrset[idx[q]] \intersect {live_hash[q]})
      BY <1>6 DEF PrunePort, TypeOK
    <2>2. r = q
      BY <1>6, <2>1, OneHolder DEF Executing, PrunePort, Goto, TypeOK
    <2>3. idx'[q] = idx[q] + 1
      BY <1>6 DEF PrunePort, TypeOK
    <2>4. live_hash[q] = disk /\ live[p] = disk /\ disk \in rrset[p]
      BY <2>1, DeployedAtPrune DEF Continuity, Visible
    <2>5. CASE p = idx[q]
      BY <2>1, <2>4, <2>5 DEF SetRRset, TypeOK
    <2>6. CASE p # idx[q]
      <3>1. p < idx[q]
        <4>1. p \in Nat /\ idx[q] \in Nat
          BY <2>1, PortsType
        <4>2. p < idx[q] + 1
          BY <2>2, <2>3
        <4> QED
          BY <2>6, <4>1, <4>2
      <3>2. rrset[p] = {disk}
        BY <2>1, <3>1 DEF PrunedInv
      <3> QED
        BY <2>1, <2>6, <3>2 DEF SetRRset, TypeOK
    <2> QED
      BY <2>5, <2>6
  <1>7. ASSUME NEW q \in Procs,
               AlreadyRunning(q) \/ CertificateChanged(q) \/ Finished(q) \/ Fault(q)
        PROVE  rrset'[p] = {disk'}
    <2>1. Exit(q) /\ disk' = disk
      BY <1>7 DEF AlreadyRunning, CertificateChanged, Finished, Fault, PublishFails, ReloadFails,
             PruneFails, Crash
    <2>2. r # q /\ pc[r] = pc'[r] /\ idx'[r] = idx[r]
      BY <2>1, ExitProcesses
    <2>3. pc[q] \notin Executing
      BY <2>2, OneHolder DEF Executing
    <2>4. rrset' = rrset
      BY <1>7, <2>3 DEF AlreadyRunning, CertificateChanged, Finished, Fault, PublishFails,
             ReloadFails, PruneFails, Crash, Executing
    <2> QED
      BY <2>1, <2>2, <2>4 DEF PrunedInv
  <1> QED
    BY <1>1, <1>2, <1>3, <1>4, <1>5, <1>6, <1>7 DEF Next, Progress, Command

-----------------------------------------------------------------------------
(* The theorems.                                                             *)

LEMMA OrderlyInit == Init => OrderlyInv
  <1> SUFFICES ASSUME Init PROVE OrderlyInv
    OBVIOUS
  <1>1. Copies = {}
    BY DEF Init, Copies
  <1>2. CurrentInv
    BY <1>1 DEF Init, CurrentInv
  <1>3. Continuity
    <2>1. 0 \in Certs
      BY JobAssumption DEF Certs
    <2> QED
      BY <2>1 DEF Init, Continuity, Visible
  <1>4. PrunedInv
    BY DEF Init, PrunedInv
  <1> QED
    BY <1>2, <1>3, <1>4, IInvInit DEF OrderlyInv

LEMMA OrderlyNext == Orderly /\ OrderlyInv /\ [Next]_vars => OrderlyInv'
  <1> SUFFICES ASSUME Orderly, OrderlyInv, [Next]_vars PROVE OrderlyInv'
    OBVIOUS
  <1>1. IInv'
    BY IInvNext DEF Orderly, OrderlyInv
  <1>2. CASE Next
    <2>1. DeploysPublished /\ FetchedInv
      BY VisibleAtReload, DeployedAtPrune DEF DeploysPublished, FetchedInv, OrderlyInv, IInv, TypeOK
    <2> QED
      BY <1>1, <1>2, <2>1, CurrentNext, ContinuityNext, PrunedNext DEF Orderly, OrderlyInv, IInv
  <1>3. CASE UNCHANGED vars
    <2>1. Continuity' /\ PrunedInv'
      BY <1>3 DEF vars, OrderlyInv, Continuity, Visible, PrunedInv
    <2>2. CurrentInv'
      BY <1>3 DEF vars, OrderlyInv, CurrentInv, Copies
    <2> QED
      BY <1>1, <2>1, <2>2 DEF OrderlyInv
  <1> QED
    BY <1>2, <1>3

\* The invariant with the four promises below in it.
THEOREM OrderlyInvariance == Orderly => (Spec => []OrderlyInv)
  <1> SUFFICES ASSUME Orderly PROVE Spec => []OrderlyInv
    OBVIOUS
  <1>1. OrderlyInv /\ [Next]_vars => OrderlyInv'
    BY OrderlyNext
  <1> QED
    BY OrderlyInit, <1>1, PTL DEF Spec

\* What the rollover is for: no client ever holds an answer without the hash of the
\* certificate it is presented with, through every crash, error and overlap of
\* execute_rollover, in the middle of which some ports may have been reloaded.
THEOREM ContinuityHolds == Orderly => (Spec => []Continuity)
  BY OrderlyInvariance, PTL DEF OrderlyInv

\* run_reload deploys a certificate whose hash every client has.
THEOREM DeployedWasPublished == Orderly => (Spec => []DeploysPublished)
  <1>1. OrderlyInv => DeploysPublished
    BY VisibleAtReload DEF DeploysPublished
  <1> QED
    BY <1>1, OrderlyInvariance, PTL

\* The prune loop keeps the hash that the job published.
THEOREM PruneKeepsOwn == Orderly => (Spec => []PruneWhenLive)
  <1>1. OrderlyInv => PruneWhenLive
    BY CurrentJob, DeployedAtPrune DEF PruneWhenLive
  <1> QED
    BY <1>1, OrderlyInvariance, PTL

\* The step that takes a job file away.
LEMMA RemovalIsFinished ==
  ASSUME TypeOK, CurrentInv, [Next]_vars, jobfile # NoJob, jobfile' = NoJob
  PROVE  \E q \in Procs : Finished(q)
  <1>1. jobfile \in Job
    BY DEF TypeOK
  <1>2. ~Tick
    BY <1>1, LaterFields, JobFields DEF Tick
  <1>3. ~Command /\ ~UNCHANGED vars
    BY NewJobFields DEF Command, Schedule, Renew, ServiceRestart, StartRollover, vars,
       TypeOK
  <1>4. ASSUME NEW q \in Procs, Progress(q) PROVE Finished(q)
    <2>1. pc[q] # "idle" => job[q] # NoJob /\ job[q] \in Job
      BY CurrentCopy, JobFields
    <2> QED
      BY <1>4, <2>1, MarkPublished, MarkReloaded, MarkWaitingReload, MarkReadyToPrune, JobFields
      DEF Progress, Acquire, AlreadyRunning, CheckCertificate, CertificateChanged, PublishPort,
          Published, PortLive, AlreadyLive, NotYetLive, WakeToReload, RunReload, Reloaded, WakeToPrune,
          FetchLive, PrunePort, Persist
  <1>5. ASSUME NEW q \in Procs, Resume(q) \/ Fault(q) PROVE FALSE
    BY <1>5 DEF Resume, Fault, PublishFails, ReloadFails, PruneFails, Crash
  <1> QED
    BY <1>2, <1>3, <1>4, <1>5 DEF Next

\* A job file goes away only with the rollover complete on every port: the errors
\* and the crashes of execute_rollover leave it for --resume.
THEOREM CompletionIsClean == Orderly => (Spec => CompletionClean)
  <1> SUFFICES ASSUME Orderly PROVE Spec => CompletionClean
    OBVIOUS
  <1>1. ASSUME OrderlyInv, [Next]_vars, jobfile # NoJob, jobfile' = NoJob
        PROVE  \A p \in Ports : live[p] = disk /\ rrset[p] = {disk}
    <2>1. PICK q \in Procs : Finished(q)
      BY <1>1, RemovalIsFinished DEF OrderlyInv, IInv
    <2>2. pc[q] = "prune" /\ idx[q] > NPorts
      BY <2>1 DEF Finished
    <2>3. \A p \in Ports : p < idx[q]
      <3>1. idx[q] \in 1..(NPorts + 1) /\ NPorts \in Nat
        BY <1>1, ConstantsAssumption DEF OrderlyInv, IInv, TypeOK
      <3> QED
        BY <2>2, <3>1 DEF Ports
    <2> QED
      BY <1>1, <2>2, <2>3, DeployedAtPrune DEF OrderlyInv, PrunedInv
  <1>2. OrderlyInv /\ [Next]_vars =>
           [jobfile # NoJob /\ jobfile' = NoJob =>
              \A p \in Ports : live[p] = disk /\ rrset[p] = {disk}]_vars
    BY <1>1
  <1> QED
    BY <1>2, OrderlyInvariance, PTL DEF Spec, CompletionClean

-----------------------------------------------------------------------------
(* The hand-over.                                                            *)

LEMMA KnownIs ==
  ASSUME NEW p \in Ports
  PROVE  /\ Known[p] = {c \in Certs : Visible(p, c)}
         /\ Known'[p] = {c \in Certs : Visible(p, c)'}
  BY DEF Known

LEMMA SpreadStep ==
  ASSUME live' = live, \A p \in Ports, c \in Certs : Visible(p, c) => Visible(p, c)'
  PROVE  HandedOver!Spread
  <1>1. Known' \in [Ports -> SUBSET Certs]
    BY DEF Known
  <1> QED
    BY <1>1, KnownIs DEF HandedOver!Spread

LEMMA DeployStep ==
  ASSUME OrderlyInv, NEW q \in Procs, pc[q] = "reload", UNCHANGED <<rrset, age>>,
         NEW S \in SUBSET Ports, PresentFile(S)
  PROVE  HandedOver!Next
  <1>1. Known' = Known
    BY DEF Known, Visible
  <1>2. disk \in Certs /\ \A p \in Ports : disk \in Known[p]
    BY VisibleAtReload, KnownIs DEF OrderlyInv, IInv, TypeOK
  <1>3. live' \in [Ports -> Certs]
    BY PresentFileType DEF OrderlyInv, IInv, TypeOK
  <1>4. \A p \in Ports : live'[p] = live[p] \/ live'[p] = disk
    BY DEF PresentFile
  <1>5. HandedOver!Deploy(disk)
    BY <1>1, <1>2, <1>3, <1>4 DEF HandedOver!Deploy
  <1> QED
    BY <1>2, <1>5 DEF HandedOver!Next

LEMMA RetireStep ==
  ASSUME OrderlyInv, NEW q \in Procs, pc[q] = "pruning", live' = live,
         SetRRset(idx[q], rrset[idx[q]] \intersect {live_hash[q]})
  PROVE  HandedOver!Next
  <1> DEFINE p == idx[q]
  <1>1. p \in Ports /\ live_hash[q] = disk /\ live[p] = disk /\ disk \in Certs
    BY DeployedAtPrune DEF OrderlyInv, IInv, TypeOK
  <1>2. Visible(p, disk)
    BY <1>1 DEF OrderlyInv, Continuity
  <1>3. rrset' = [rrset EXCEPT ![p] = rrset[p] \intersect {disk}]
    BY <1>1 DEF SetRRset
  <1>4. age' = [age EXCEPT ![p] = [c \in Certs |->
                   IF c \in rrset[p] /\ c \in rrset[p] \intersect {disk} THEN @[c] ELSE 0]]
    BY <1>1 DEF SetRRset
  <1>5. rrset \in [Ports -> SUBSET Certs] /\ age \in [Ports -> [Certs -> 0..Window]]
    BY DEF OrderlyInv, IInv, TypeOK
  <1>6. rrset'[p] = rrset[p] \intersect {disk} /\ age'[p][disk] = age[p][disk]
    BY <1>1, <1>2, <1>3, <1>4, <1>5 DEF Visible
  <1>7. Known'[p] = {live[p]}
    BY <1>1, <1>2, <1>6, KnownIs DEF Visible
  <1>8. ASSUME NEW o \in Ports, o # p PROVE Known'[o] = Known[o]
    BY <1>3, <1>4, <1>5, <1>8, KnownIs DEF Visible
  <1>9. Known' = [Known EXCEPT ![p] = {live[p]}]
    BY <1>1, <1>7, <1>8 DEF Known
  <1>10. HandedOver!Retire(p)
    BY <1>1, <1>2, <1>9, KnownIs DEF HandedOver!Retire
  <1> QED
    BY <1>1, <1>10 DEF HandedOver!Next

LEMMA PublishStep ==
  ASSUME OrderlyInv, NEW p \in Ports, NEW c \in Certs, live' = live,
         SetRRset(p, rrset[p] \union {c})
  PROVE  HandedOver!Spread
  <1>1. rrset \in [Ports -> SUBSET Certs] /\ age \in [Ports -> [Certs -> 0..Window]]
    BY DEF OrderlyInv, IInv, TypeOK
  <1>2. ASSUME NEW o \in Ports, NEW d \in Certs, Visible(o, d) PROVE Visible(o, d)'
    BY <1>1, <1>2 DEF SetRRset, Visible
  <1> QED
    BY <1>2, SpreadStep

LEMMA TickStep ==
  ASSUME OrderlyInv, Tick
  PROVE  HandedOver!Spread
  <1>1. ASSUME NEW o \in Ports, NEW d \in Certs, Visible(o, d) PROVE Visible(o, d)'
    BY <1>1, WindowAssumption DEF Tick, Visible
  <1> QED
    BY <1>1, SpreadStep DEF Tick

LEMMA HandoverStep ==
  ASSUME Orderly, OrderlyInv, [Next]_vars
  PROVE  [HandedOver!Next]_<<live, Known>>
  <1>1. ASSUME UNCHANGED <<live, rrset, age>> PROVE UNCHANGED <<live, Known>>
    BY <1>1 DEF Known, Visible
  <1>2. ASSUME NEW q \in Procs, PublishPort(q) \/ PublishFails(q)
        PROVE  HandedOver!Next \/ UNCHANGED <<live, rrset, age>>
    <2>1. idx[q] \in Ports /\ live' = live
      BY <1>2, JobAssumption
      DEF PublishPort, PublishFails, OrderlyInv, IInv, TypeOK, Ports
    <2>2. job[q].certificate \in Certs
      BY <1>2, CurrentJob DEF PublishPort, PublishFails
    <2>3. SetRRset(idx[q], rrset[idx[q]] \union {job[q].certificate}) \/ UNCHANGED <<rrset, age>>
      BY <1>2 DEF PublishPort, PublishFails
    <2> QED
      BY <2>1, <2>2, <2>3, PublishStep DEF HandedOver!Next
  <1>3. ASSUME NEW q \in Procs, RunReload(q) \/ ReloadFails(q) PROVE HandedOver!Next
    <2>1. PICK S \in SUBSET Ports : PresentFile(S)
      BY <1>3 DEF RunReload, ReloadFails
    <2> QED
      BY <1>3, <2>1, DeployStep DEF RunReload, ReloadFails
  <1>4. ASSUME NEW q \in Procs, PrunePort(q) \/ PruneFails(q)
        PROVE  HandedOver!Next \/ UNCHANGED <<live, rrset, age>>
    BY <1>4, RetireStep DEF PrunePort, PruneFails
  <1>5. ASSUME NEW q \in Procs, Progress(q) \/ Fault(q) \/ Resume(q) \/ StartRollover(q)
        PROVE  HandedOver!Next \/ UNCHANGED <<live, rrset, age>>
    BY <1>2, <1>3, <1>4, <1>5
    DEF Progress, Fault, Resume, StartRollover, Acquire, AlreadyRunning, CheckCertificate,
        CertificateChanged, Published, PortLive, AlreadyLive, NotYetLive, WakeToReload, Reloaded,
        WakeToPrune, FetchLive, Finished, Crash, world
  <1>6. CASE Schedule \/ Renew \/ ServiceRestart \/ UNCHANGED vars
    BY <1>1, <1>6 DEF Schedule, Renew, ServiceRestart, Orderly, vars, world
  <1>7. CASE Tick
    BY <1>7, TickStep DEF HandedOver!Next
  <1> QED
    BY <1>1, <1>5, <1>6, <1>7 DEF Next, Command

\* Whatever the processes do, and wherever they stop, what the world sees of the engine
\* is a hand-over from certificate to certificate in the order of RFC 7671.
THEOREM HandoverImplemented == Orderly => (Spec => ImplementsHandover)
  <1> SUFFICES ASSUME Orderly PROVE Spec => ImplementsHandover
    OBVIOUS
  <1>1. Init => HandedOver!Init
    <2> SUFFICES ASSUME Init PROVE HandedOver!Init
      OBVIOUS
    <2>1. 0 \in Certs
      BY JobAssumption DEF Certs
    <2>2. live = [p \in Ports |-> 0]
      BY DEF Init
    <2>3. ASSUME NEW p \in Ports PROVE {c \in Certs : Visible(p, c)} = {0}
      BY <2>1 DEF Init, Visible
    <2>4. Known = [p \in Ports |-> {0}]
      BY <2>3 DEF Known
    <2> QED
      BY <2>1, <2>2, <2>4 DEF HandedOver!Init
  <1>2. OrderlyInv /\ [Next]_vars => [HandedOver!Next]_<<live, Known>>
    BY HandoverStep
  <1> QED
    BY <1>1, <1>2, OrderlyInvariance, PTL DEF Spec, ImplementsHandover, HandedOver!Spec

-----------------------------------------------------------------------------
(* One process, and reloads that may leave ports as they were.               *)

\* Where a process is, and where its job is, agree in every step.
LEMMA PhasesNext ==
  ASSUME TypeOK, \A q \in Procs : PhaseOK(q), [Next]_vars
  PROVE  \A q \in Procs : PhaseOK(q)'
  <1> SUFFICES ASSUME NEW r \in Procs PROVE PhaseOK(r)'
    OBVIOUS
  <1> USE DEF process
  <1>1. ASSUME pc'[r] = pc[r], job'[r] = job[r], idx'[r] = idx[r] PROVE PhaseOK(r)'
    BY <1>1 DEF PhaseOK
  <1>2. ASSUME NEW q \in Procs, Resume(q) \/ StartRollover(q) \/ Acquire(q) PROVE PhaseOK(r)'
    <2>1. CASE r = q
      <3>1. pc'[q] \in {"resume", "rollover", "check"} /\ idx' = idx
            /\ pc[q] \in {"idle", "resume", "rollover"}
        BY <1>2 DEF Resume, StartRollover, Acquire, Goto, TypeOK
      <3> QED
        BY <2>1, <3>1 DEF PhaseOK, Phases
    <2>2. CASE r # q
      BY <1>1, <1>2, <2>2 DEF Resume, StartRollover, Acquire, Goto, TypeOK
    <2> QED
      BY <2>1, <2>2
  <1>3. ASSUME NEW q \in Procs, Exit(q) PROVE PhaseOK(r)'
    <2>1. CASE r = q
      BY <1>3, <2>1 DEF Exit, Goto, TypeOK, PhaseOK, Phases
    <2>2. CASE r # q
      BY <1>1, <1>3, <2>2 DEF Exit, Goto, TypeOK
    <2> QED
      BY <2>1, <2>2
  <1>4. ASSUME NEW q \in Procs, Published(q) \/ AlreadyLive(q) \/ WakeToReload(q)
               \/ Reloaded(q) \/ WakeToPrune(q)
        PROVE  PhaseOK(r)'
    <2>1. CASE r = q
      <3>1. job[q] \in Job
        BY <1>4 DEF Published, AlreadyLive, WakeToReload, Reloaded, WakeToPrune, TypeOK
      <3>2. job'[q].phase = pc'[q] /\ pc'[q] \in Phases
        BY <1>4, <3>1, MarkPublished, MarkReloaded, MarkWaitingReload, MarkReadyToPrune
        DEF Published, AlreadyLive, WakeToReload, Reloaded, WakeToPrune, Persist, Goto, TypeOK, Phases
      <3>3. idx'[q] = 1
        BY <1>4 DEF Published, AlreadyLive, WakeToReload, Reloaded, WakeToPrune, TypeOK, PhaseOK
      <3> QED
        BY <2>1, <3>2, <3>3 DEF PhaseOK, Phases
    <2>2. CASE r # q
      BY <1>1, <1>4, <2>2 DEF Published, AlreadyLive, WakeToReload, Reloaded, WakeToPrune, Persist,
                              Goto, TypeOK
    <2> QED
      BY <2>1, <2>2
  <1>5. ASSUME NEW q \in Procs, CheckCertificate(q) PROVE PhaseOK(r)'
    <2>1. CASE r = q
      <3>1. pc'[q] = job'[q].phase /\ idx'[q] = 1
        BY <1>5 DEF CheckCertificate, Goto, TypeOK, PhaseOK
      <3>2. job'[q].phase \in Phases
        BY <1>5, JobFields DEF CheckCertificate, TypeOK
      <3> QED
        BY <2>1, <3>1, <3>2 DEF PhaseOK, Phases
    <2>2. CASE r # q
      BY <1>1, <1>5, <2>2 DEF CheckCertificate, Goto, TypeOK
    <2> QED
      BY <2>1, <2>2
  <1>6. ASSUME NEW q \in Procs, PublishPort(q) \/ PortLive(q) \/ NotYetLive(q) \/ RunReload(q)
               \/ FetchLive(q) \/ PrunePort(q)
        PROVE  PhaseOK(r)'
    <2>1. CASE r = q
      BY <1>6, <2>1 DEF PublishPort, PortLive, NotYetLive, RunReload, FetchLive, PrunePort, Goto,
                        TypeOK, PhaseOK, Phases
    <2>2. CASE r # q
      BY <1>1, <1>6, <2>2 DEF PublishPort, PortLive, NotYetLive, RunReload, FetchLive, PrunePort, Goto,
                        TypeOK
    <2> QED
      BY <2>1, <2>2
  <1>7. CASE Schedule \/ Renew \/ ServiceRestart \/ UNCHANGED vars
    BY <1>1, <1>7 DEF Schedule, Renew, ServiceRestart, vars
  <1>8. CASE Tick
    <2>1. pc' = pc /\ idx' = idx /\ job'[r] = Later(job[r])
      BY <1>8 DEF Tick
    <2>2. pc[r] # "idle" => job'[r].phase = job[r].phase
      BY <2>1, LaterFields DEF TypeOK
    <2> QED
      BY <2>1, <2>2 DEF PhaseOK, Phases
  <1> QED
    BY <1>2, <1>3, <1>4, <1>5, <1>6, <1>7, <1>8
    DEF Next, Command, Progress, Fault, AlreadyRunning, CertificateChanged, Finished, PublishFails,
        ReloadFails, PruneFails, Crash

\* The job of a process that may reload has been in every answer for long enough.
LEMMA AloneDeploysPublished == AloneInv => DeploysPublished
  <1> SUFFICES ASSUME AloneInv, NEW q \in Procs, pc[q] = "reload", NEW p \in Ports
               PROVE  Visible(p, disk)
    BY DEF DeploysPublished
  <1>1. job[q] \in Copies /\ disk \in Certs
    BY CurrentCopy DEF AloneInv
  <1>2. job[q].phase = "reload"
    BY DEF AloneInv, PhaseOK, Phases
  <1>3. PublishedBy(disk, job[q].reload_after) /\ job[q].reload_after = 0
    BY <1>1, <1>2 DEF AloneInv, PendingReloadInv, BeforeReload
  <1>4. age[p][disk] \in Nat /\ age[p][disk] <= Window
    BY <1>1, WindowAssumption DEF AloneInv, TypeOK
  <1> QED
    BY <1>3, <1>4, WindowAssumption DEF PublishedBy, Visible

\* No copy but new ones, and a hash that is published stays so.
LEMMA ReloadKept ==
  ASSUME AloneInv, disk' = disk, Copies' \subseteq Copies \union {NewJob(disk)},
         \A n \in Int : PublishedBy(disk, n) => PublishedBy(disk, n)'
  PROVE  PendingReloadInv' /\ NoReloadAfterPruneInv'
  <1>1. NewJob(disk).phase = "publish"
    BY NewJobFields DEF AloneInv, TypeOK
  <1>2. \A j \in Copies : j.reload_after \in Int
    BY CopiesType, JobFields DEF AloneInv
  <1>3. \A j \in Copies' : j \in Copies \/ j.phase = "publish"
    BY <1>1
  <1>4. PendingReloadInv'
    BY <1>2, <1>3 DEF AloneInv, PendingReloadInv, BeforeReload
  <1>5. NoReloadAfterPruneInv'
    BY <1>3 DEF AloneInv, NoReloadAfterPruneInv, BeforeReload
  <1> QED
    BY <1>4, <1>5

\* The one process saves its job: that is the only copy then.
LEMMA ReloadSaved ==
  ASSUME Alone, AloneInv, NEW q \in Procs, NEW j \in Job, Persist(q, j),
         j.phase = "reload" => j.reload_after = 0,
         j.phase \in BeforeReload => PublishedBy(disk, j.reload_after)'
  PROVE  PendingReloadInv' /\ NoReloadAfterPruneInv'
  <1>1. jobfile' = j /\ \A r \in Procs : job'[r] = j
    BY DEF Persist, Alone, AloneInv, TypeOK
  <1>2. Copies' \subseteq {j}
    BY <1>1 DEF Copies
  <1>3. PendingReloadInv'
    BY <1>2 DEF PendingReloadInv
  <1>4. NoReloadAfterPruneInv'
    BY <1>2 DEF NoReloadAfterPruneInv, BeforeReload
  <1> QED
    BY <1>3, <1>4

LEMMA AloneCopies ==
  ASSUME Alone, ~RenewMidJob, ~ImplicitReloads, AloneInv, Next
  PROVE  PendingReloadInv' /\ NoReloadAfterPruneInv'
  <1> DEFINE Good == PendingReloadInv' /\ NoReloadAfterPruneInv'
  <1> HIDE DEF Good
  <1> USE DEF world, process
  <1>0. TypeOK /\ CurrentInv /\ disk \in Certs
    BY DEF AloneInv, TypeOK
  <1>1. ASSUME UNCHANGED <<disk, rrset, age>>, Copies' \subseteq Copies \union {NewJob(disk)}
        PROVE  Good
    <2>1. \A n \in Int : PublishedBy(disk, n) => PublishedBy(disk, n)'
      BY <1>1 DEF PublishedBy
    <2> QED
      BY <1>1, <2>1, ReloadKept DEF Good
  <1>2. ASSUME NEW q \in Procs, Exit(q), jobfile' = jobfile \/ jobfile' = NoJob,
               UNCHANGED <<disk, rrset, age>>
        PROVE  Good
    BY <1>0, <1>1, <1>2, ExitCopies
  <1>3. ASSUME NEW q \in Procs, Resume(q) \/ StartRollover(q) PROVE Good
    <2>1. UNCHANGED <<disk, rrset, age, jobfile>>
      BY <1>3 DEF Resume, StartRollover
    <2>2. PICK j : job' = [job EXCEPT ![q] = j] /\ (j = jobfile \/ j = NewJob(disk))
      BY <1>3 DEF Resume, StartRollover
    <2>3. \A r \in Procs : job'[r] \in {job[r], j}
      BY <1>0, <2>2 DEF TypeOK
    <2>4. Copies' \subseteq Copies \union {NewJob(disk)}
      BY <2>1, <2>2, <2>3 DEF Copies
    <2> QED
      BY <1>1, <2>1, <2>4
  <1>4. ASSUME NEW q \in Procs, Acquire(q) \/ CheckCertificate(q) \/ PortLive(q) \/ NotYetLive(q)
               \/ RunReload(q) \/ FetchLive(q)
        PROVE  Good
    <2>1. UNCHANGED <<disk, rrset, age, job>> /\ (jobfile' = jobfile \/ jobfile' = job[q])
      BY <1>4 DEF Acquire, CheckCertificate, PortLive, NotYetLive, RunReload, FetchLive
    <2>2. Copies' \subseteq Copies
      BY <2>1, CopiesElements DEF Copies
    <2> QED
      BY <1>1, <2>1, <2>2
  <1>5. ASSUME NEW q \in Procs, PublishPort(q) \/ PublishFails(q), ~UNCHANGED <<rrset, age>>
        PROVE  Good
    <2>1. /\ SetRRset(idx[q], rrset[idx[q]] \union {job[q].certificate})
          /\ UNCHANGED <<disk, live, settled>> /\ idx[q] \in Ports
      BY <1>0, <1>5, IdxType DEF PublishPort, PublishFails
    <2>2. job[q].certificate \in Certs
      BY <1>0, <1>5, RunningJob DEF PublishPort, PublishFails
    <2>3. \A d \in Certs : \A n \in Int : PublishedBy(d, n) => PublishedBy(d, n)'
      BY <1>0, <2>1, <2>2, AddHash
    <2>4. \A n \in Int : PublishedBy(disk, n) => PublishedBy(disk, n)'
      BY <1>0, <2>1, <2>3 DEF PublishedBy
    <2>5. CASE PublishPort(q)
      <3>1. Copies' = Copies
        BY <2>5 DEF PublishPort, Copies
      <3> QED
        BY <2>1, <2>4, <3>1, ReloadKept DEF Good
    <2>6. CASE PublishFails(q)
      <3>1. Copies' \subseteq Copies
        BY <1>0, <2>6, ExitCopies DEF PublishFails
      <3> QED
        BY <2>1, <2>4, <3>1, ReloadKept DEF Good
    <2> QED
      BY <1>5, <2>5, <2>6
  <1>6. ASSUME NEW q \in Procs, pc[q] = "pruning", PrunePort(q) \/ PruneFails(q) PROVE Good
    <2>1. Copies' \subseteq Copies
      <3>1. CASE PrunePort(q)
        BY <3>1 DEF PrunePort, Copies
      <3>2. CASE PruneFails(q)
        BY <1>0, <3>2, ExitCopies DEF PruneFails
      <3> QED
        BY <1>6, <3>1, <3>2
    <2>2. job[q] \in Copies /\ job[q].phase = "prune"
      BY <1>0, <1>6, CurrentCopy DEF AloneInv, PhaseOK
    <2>3. \A k \in Copies : k.phase \notin BeforeReload
      BY <2>2 DEF AloneInv, NoReloadAfterPruneInv
    <2> QED
      BY <2>1, <2>3 DEF Good, PendingReloadInv, NoReloadAfterPruneInv, BeforeReload
  <1>7. ASSUME NEW q \in Procs, Published(q) PROVE Good
    <2>1. job[q] \in Job /\ pc[q] = "publish" /\ UNCHANGED <<disk, rrset, age>>
      BY <1>0, <1>7, CurrentCopy DEF Published
    <2>2. \A p \in Ports : p < idx[q]
      <3>1. idx[q] \in 1..(NPorts + 1) /\ NPorts \in Nat /\ idx[q] > NPorts
        BY <1>0, <1>7, ConstantsAssumption DEF Published, TypeOK
      <3> QED
        BY <3>1 DEF Ports
    <2>3. \A p \in Ports : disk \in rrset[p] /\ age[p][disk] \in Nat
      BY <1>0, <2>1, <2>2, WindowAssumption DEF AloneInv, PortsPublishedInv, TypeOK
    <2>4. PublishedBy(disk, Wait)'
      BY <2>1, <2>3, WindowAssumption, WaitType DEF PublishedBy
    <2>5. PICK j \in Job : Persist(q, j) /\ j.phase = "wait_before_reload" /\ j.reload_after = Wait
      BY <1>7, <2>1, MarkPublished DEF Published
    <2>6. PublishedBy(disk, j.reload_after)'
      BY <2>4, <2>5 DEF PublishedBy
    <2> QED
      BY <2>5, <2>6, ReloadSaved DEF Good
  <1>8. ASSUME NEW q \in Procs, WakeToReload(q) PROVE Good
    <2>1. job[q] \in Job /\ job[q] \in Copies /\ pc[q] = "asleep" /\ UNCHANGED <<disk, rrset, age>>
          /\ job[q].reload_after = 0
      BY <1>0, <1>8, CurrentCopy DEF WakeToReload
    <2>2. PublishedBy(disk, job[q].reload_after)
      BY <2>1 DEF AloneInv, PhaseOK, PendingReloadInv, BeforeReload
    <2>3. PICK j \in Job : Persist(q, j) /\ j.reload_after = job[q].reload_after
      BY <1>8, <2>1, MarkWaitingReload DEF WakeToReload
    <2>4. PublishedBy(disk, j.reload_after)'
      BY <2>1, <2>2, <2>3 DEF PublishedBy
    <2> QED
      BY <2>1, <2>3, <2>4, ReloadSaved DEF Good
  <1>9. ASSUME NEW q \in Procs, AlreadyLive(q) \/ Reloaded(q) \/ WakeToPrune(q) PROVE Good
    <2>1. job[q] \in Job
      BY <1>0, <1>9, CurrentCopy DEF AlreadyLive, Reloaded, WakeToPrune
    <2>2. PICK j \in Job : Persist(q, j) /\ j.phase \in {"wait_before_prune", "prune"}
      BY <1>9, <2>1, MarkReloaded, MarkReadyToPrune DEF AlreadyLive, Reloaded, WakeToPrune
    <2>3. j.phase # "reload" /\ j.phase \notin BeforeReload
      BY <2>2 DEF BeforeReload
    <2> QED
      BY <2>2, <2>3, ReloadSaved DEF Good
  <1>10. CASE Schedule
    <2>1. UNCHANGED <<disk, rrset, age, job>> /\ jobfile' = NewJob(disk)
      BY <1>10 DEF Schedule
    <2>2. Copies' \subseteq Copies \union {NewJob(disk)}
      BY <2>1 DEF Copies
    <2> QED
      BY <1>1, <2>1, <2>2 DEF Good
  <1>11. CASE Renew
    <2>1. /\ jobfile = NoJob /\ \A q \in Procs : pc[q] = "idle"
          /\ UNCHANGED <<jobfile, job>>
      BY <1>11 DEF Renew
    <2>2. Copies' = {}
      BY <1>0, <2>1 DEF Copies, CurrentInv
    <2> QED
      BY <2>2 DEF PendingReloadInv, NoReloadAfterPruneInv
  <1>12. CASE Tick
    <2>1. /\ disk' = disk /\ jobfile' = Later(jobfile) /\ \A q \in Procs : job'[q] = Later(job[q])
      BY <1>12 DEF Tick
    <2>2. ASSUME NEW k \in Copies'
          PROVE  \E j \in Copies : k = Later(j)
      <3>1. k # NoJob /\ (k = Later(jobfile) \/ \E r \in Procs : k = Later(job[r]))
        BY <2>1, <2>2 DEF Copies
      <3> QED
        BY <3>1, LaterNoJob, CopiesElements
    <2>3. ASSUME NEW j \in Copies, j.phase \in BeforeReload
          PROVE  PublishedBy(disk, Later(j).reload_after)'
      <3>1. j \in Job /\ j.reload_after \in Nat /\ PublishedBy(disk, j.reload_after)
        BY <1>0, <2>3, CopiesType, JobFields DEF AloneInv, PendingReloadInv
      <3>2. \A n \in Nat : PublishedBy(disk, n) =>
               \A c \in {disk} : PublishedBy(c, IF n = 0 THEN 0 ELSE n - 1)'
        BY <1>0, <1>12, TickPublished
      <3>3. Later(j).reload_after = IF j.reload_after = 0 THEN 0 ELSE j.reload_after - 1
        BY <3>1, LaterFields
      <3>4. \A n : (\A c \in {disk} : PublishedBy(c, n)') => PublishedBy(disk, n)'
        BY <2>1 DEF PublishedBy
      <3> QED
        BY <3>1, <3>2, <3>3, <3>4
    <2>4. \A j \in Copies : /\ Later(j).phase = j.phase
                            /\ j.reload_after = 0 => Later(j).reload_after = 0
      BY <1>0, CopiesType, LaterFields
    <2>5. PendingReloadInv'
      BY <2>2, <2>3, <2>4 DEF AloneInv, PendingReloadInv, BeforeReload
    <2>6. NoReloadAfterPruneInv'
      BY <2>2, <2>4 DEF AloneInv, NoReloadAfterPruneInv
    <2> QED
      BY <2>5, <2>6
  <1>13. ASSUME NEW q \in Procs, AlreadyRunning(q) \/ CertificateChanged(q) \/ Finished(q)
                \/ ReloadFails(q) \/ Crash(q)
         PROVE  Good
    BY <1>2, <1>13 DEF AlreadyRunning, CertificateChanged, Finished, ReloadFails, Crash
  <1>14. ASSUME NEW q \in Procs, PublishFails(q) \/ PruneFails(q), UNCHANGED <<rrset, age>>
         PROVE  Good
    BY <1>2, <1>14 DEF PublishFails, PruneFails
  <1>15. ASSUME NEW q \in Procs, PublishPort(q), UNCHANGED <<rrset, age>> PROVE Good
    <2>1. Copies' = Copies /\ disk' = disk
      BY <1>15 DEF PublishPort, Copies
    <2> QED
      BY <1>1, <1>15, <2>1
  <1>16. ASSUME NEW q \in Procs, PrunePort(q) \/ PruneFails(q), ~UNCHANGED <<rrset, age>> PROVE Good
    BY <1>6, <1>16 DEF PrunePort, PruneFails
  <1>17. ASSUME NEW q \in Procs, PrunePort(q) PROVE Good
    BY <1>6, <1>17 DEF PrunePort
  <1>18. ASSUME NEW q \in Procs, Progress(q) PROVE Good
    BY <1>4, <1>5, <1>7, <1>8, <1>9, <1>13, <1>15, <1>17, <1>18 DEF Progress
  <1>19. ASSUME NEW q \in Procs, Fault(q) PROVE Good
    BY <1>5, <1>13, <1>14, <1>16, <1>19 DEF Fault
  <1>20. Good
    BY <1>3, <1>10, <1>11, <1>12, <1>18, <1>19 DEF Next, Command, ServiceRestart, Good
  <1> QED
    BY <1>20 DEF Good

LEMMA AlonePorts ==
  ASSUME Alone, ~RenewMidJob, ~ImplicitReloads, AloneInv, Next
  PROVE  PortsPublishedInv' /\ FetchedInv'
  <1> USE DEF world, process
  <1>0. TypeOK /\ CurrentInv
    BY DEF AloneInv
  <1>1. ASSUME NEW r \in Procs, pc'[r] = "publish", NEW p \in Ports, p < idx'[r]
        PROVE  disk' \in rrset'[p]
    <2>1. CASE Schedule \/ Tick
      BY <1>1, <2>1 DEF Schedule, Tick, AloneInv, PortsPublishedInv
    <2>2. CASE Renew
      BY <1>1, <2>2 DEF Renew
    <2>3. ASSUME NEW q \in Procs, PublishPort(q) PROVE disk' \in rrset'[p]
      <3>1. r = q
        BY DEF Alone
      <3>2. /\ pc[q] = "publish" /\ idx[q] \in Ports /\ idx[q] \in Int /\ disk' = disk
            /\ SetRRset(idx[q], rrset[idx[q]] \union {job[q].certificate})
            /\ idx'[q] = idx[q] + 1
        BY <1>0, <2>3, IdxType, PortsType DEF PublishPort, TypeOK
      <3>3. job[q].certificate = disk
        BY <1>0, <3>2, CurrentCopy
      <3>4. CASE p = idx[q]
        BY <1>0, <3>2, <3>3, <3>4 DEF SetRRset, TypeOK
      <3>5. CASE p # idx[q]
        <4>1. p < idx[q]
          BY <1>1, <3>1, <3>2, <3>5, PortsType
        <4>2. disk \in rrset[p]
          BY <3>2, <4>1 DEF AloneInv, PortsPublishedInv
        <4> QED
          BY <1>0, <3>2, <3>5, <4>2 DEF SetRRset, TypeOK
      <3> QED
        BY <3>4, <3>5
    <2>4. ASSUME NEW q \in Procs, CheckCertificate(q) PROVE FALSE
      <3>1. r = q
        BY DEF Alone
      <3>2. idx'[q] = 1
        BY <2>4 DEF CheckCertificate, AloneInv, PhaseOK, Phases
      <3> QED
        BY <1>1, <3>1, <3>2 DEF Ports
    <2>5. ASSUME NEW q \in Procs, Resume(q) \/ StartRollover(q) \/ Progress(q) \/ Fault(q)
          PROVE  PublishPort(q) \/ CheckCertificate(q)
      <3>1. r = q
        BY DEF Alone
      <3> QED
        BY <1>0, <1>1, <2>5, <3>1
        DEF Resume, StartRollover, Progress, Fault, Acquire, AlreadyRunning, CertificateChanged,
            Published, PortLive, AlreadyLive, NotYetLive, WakeToReload, RunReload, Reloaded, WakeToPrune,
            FetchLive, PrunePort, Finished, PublishFails, ReloadFails, PruneFails, Crash, Exit, Goto,
            TypeOK
    <2> QED
      BY <2>1, <2>2, <2>3, <2>4, <2>5 DEF Next, Command, ServiceRestart
  <1>2. ASSUME NEW r \in Procs, pc'[r] = "pruning"
        PROVE  live_hash'[r] = live'[idx'[r]]
    <2>1. CASE Schedule \/ Tick
      BY <1>2, <2>1 DEF Schedule, Tick, AloneInv, FetchedInv
    <2>2. CASE Renew
      BY <1>2, <2>2 DEF Renew
    <2>3. ASSUME NEW q \in Procs, FetchLive(q) PROVE live_hash'[r] = live'[idx'[r]]
      <3>1. r = q
        BY DEF Alone
      <3> QED
        BY <1>0, <2>3, <3>1 DEF FetchLive, TypeOK
    <2>4. ASSUME NEW q \in Procs, Resume(q) \/ StartRollover(q) \/ Progress(q) \/ Fault(q)
          PROVE  FetchLive(q)
      <3>1. r = q
        BY DEF Alone
      <3>2. CASE CheckCertificate(q)
        <4>1. pc'[q] = job[q].phase /\ job[q].phase \in Phases
          BY <1>0, <3>2, RunningJob, JobFields DEF CheckCertificate, Goto, TypeOK
        <4> QED
          BY <1>2, <3>1, <4>1 DEF Phases
      <3> QED
        BY <1>0, <1>2, <2>4, <3>1, <3>2
        DEF Resume, StartRollover, Progress, Fault, Acquire, AlreadyRunning, CertificateChanged,
            PublishPort, Published, PortLive, AlreadyLive, NotYetLive, WakeToReload, RunReload, Reloaded,
            WakeToPrune, PrunePort, Finished, PublishFails, ReloadFails, PruneFails, Crash, Exit,
            Goto, TypeOK
    <2> QED
      BY <2>1, <2>2, <2>3, <2>4 DEF Next, Command, ServiceRestart
  <1> QED
    BY <1>1, <1>2 DEF PortsPublishedInv, FetchedInv

LEMMA AloneInit == Init => AloneInv
  <1> SUFFICES ASSUME Init PROVE AloneInv
    OBVIOUS
  <1>1. OrderlyInv /\ Copies = {}
    BY OrderlyInit DEF Init, Copies
  <1>2. PendingReloadInv /\ NoReloadAfterPruneInv
    BY <1>1 DEF PendingReloadInv, NoReloadAfterPruneInv
  <1>3. PortsPublishedInv /\ FetchedInv
    BY DEF Init, PortsPublishedInv, FetchedInv
  <1> QED
    BY <1>1, <1>2, <1>3 DEF OrderlyInv, IInv, ProcessInv, AloneInv

LEMMA AloneNext ==
  ASSUME Alone, ~RenewMidJob, ~ImplicitReloads, AloneInv, [Next]_vars
  PROVE  AloneInv'
  <1>1. TypeOK' /\ \A q \in Procs : PhaseOK(q)'
    BY TypeNext, PhasesNext DEF AloneInv
  <1>2. CASE Next
    <2>1. Continuity'
      BY <1>2, AloneDeploysPublished, ContinuityNext DEF AloneInv
    <2>2. CurrentInv'
      BY <1>2, CurrentNext DEF AloneInv
    <2> QED
      BY <1>1, <1>2, <2>1, <2>2, AloneCopies, AlonePorts DEF AloneInv
  <1>3. CASE UNCHANGED vars
    <2>1. Continuity' /\ PortsPublishedInv' /\ FetchedInv'
      BY <1>3 DEF vars, AloneInv, Continuity, Visible, PortsPublishedInv, FetchedInv
    <2>2. CurrentInv' /\ Copies' = Copies
      BY <1>3 DEF vars, AloneInv, CurrentInv, Copies
    <2>3. PendingReloadInv' /\ NoReloadAfterPruneInv'
      BY <1>3, <2>2 DEF vars, AloneInv, PendingReloadInv, NoReloadAfterPruneInv, PublishedBy
    <2> QED
      BY <1>1, <2>1, <2>2, <2>3 DEF AloneInv
  <1> QED
    BY <1>2, <1>3

\* One process at a time promises its clients as much when a --reload that exits 0 has
\* left ports as they were: execute_rollover goes on to prune, which keeps on every port
\* what that port presents, and no copy of the job is left that would reload after that.
THEOREM ContinuityAlone ==
  Alone /\ ~ImplicitReloads /\ ~RenewMidJob => (Spec => []Continuity)
  <1> SUFFICES ASSUME Alone, ~ImplicitReloads, ~RenewMidJob PROVE Spec => []Continuity
    OBVIOUS
  <1>1. AloneInv /\ [Next]_vars => AloneInv'
    BY AloneNext
  <1>2. AloneInv => Continuity
    BY DEF AloneInv
  <1> QED
    BY AloneInit, <1>1, <1>2, PTL DEF Spec

=============================================================================
