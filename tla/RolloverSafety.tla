--------------------------- MODULE RolloverSafety ---------------------------
(* Rollover for every number of ports, processes and renewals, every TTL,    *)
(* and every choice the program does not control: the types, the use of the  *)
(* lock; and, when a --reload that exits 0 has the service present the file, *)
(* the inductive invariant and what follows from it.                         *)
EXTENDS RolloverInv, RolloverJobProofs

-----------------------------------------------------------------------------
(* Type correctness.                                                         *)

LEMMA PortsType == Ports \subseteq Nat /\ Certs \subseteq Int /\ NoCert = -1
  BY JobAssumption DEF Ports, Certs, NoCert

LEMMA SetRRsetType ==
  ASSUME TypeOK, NEW p \in Ports, NEW S \in SUBSET Certs, SetRRset(p, S)
  PROVE  /\ rrset' \in [Ports -> SUBSET Certs]
         /\ age' \in [Ports -> [Certs -> 0..Window]]
  BY WindowAssumption DEF TypeOK, SetRRset

LEMMA PresentFileType ==
  ASSUME TypeOK, NEW S \in SUBSET Ports, PresentFile(S)
  PROVE  /\ live' \in [Ports -> Certs]
         /\ settled' \in [Ports -> 0..Wait]
  BY WaitType DEF TypeOK, PresentFile

\* What leaving does to the variables that belong to processes.
LEMMA ExitType ==
  ASSUME TypeOK, NEW q \in Procs, Exit(q)
  PROVE  /\ lock' \in Procs \union {NoProc}
         /\ pc' \in [Procs -> Locations]
         /\ job' \in [Procs -> Job \union {NoJob}]
         /\ idx' \in [Procs -> 1..(NPorts + 1)]
         /\ live_hash' \in [Procs -> Certs \union {NoCert}]
         /\ \A r \in Procs : /\ pc'[r] # "idle" => job'[r] \in Job
                             /\ pc'[r] = "pruning" => idx'[r] \in Ports
  BY ConstantsAssumption DEF TypeOK, Exit, Goto, Locations

\* A process that has a job leaves it alone, or changes it to another one.
LEMMA GotoType ==
  ASSUME TypeOK, NEW q \in Procs, NEW l \in Locations, Goto(q, l), job[q] \in Job,
         \/ UNCHANGED job
         \/ \E j \in Job : job' = [job EXCEPT ![q] = j]
  PROVE  /\ pc' \in [Procs -> Locations]
         /\ job' \in [Procs -> Job \union {NoJob}]
         /\ \A r \in Procs : pc'[r] # "idle" => job'[r] \in Job
  BY DEF TypeOK, Goto

LEMMA IdxType ==
  ASSUME TypeOK, NEW q \in Procs, idx[q] <= NPorts
  PROVE  /\ idx[q] \in Ports
         /\ [idx EXCEPT ![q] = @ + 1] \in [Procs -> 1..(NPorts + 1)]
  <1>1. idx \in [Procs -> 1..(NPorts + 1)] /\ NPorts \in Nat
    BY ConstantsAssumption DEF TypeOK
  <1>2. idx[q] \in 1..NPorts /\ idx[q] + 1 \in 1..(NPorts + 1)
    BY <1>1
  <1> QED
    BY <1>1, <1>2 DEF Ports

LEMMA TypeInit == Init => TypeOK
  <1> SUFFICES ASSUME Init PROVE TypeOK
    OBVIOUS
  <1>1. 0 \in Certs /\ 0 \in 0..Window /\ Window \in 0..Window /\ Wait \in 0..Wait
    BY JobAssumption, WindowAssumption, WaitType DEF Certs
  <1>2. 1 \in 1..(NPorts + 1)
    BY ConstantsAssumption
  <1> QED
    BY <1>1, <1>2 DEF Init, TypeOK, Locations

LEMMA TypeNext == TypeOK /\ [Next]_vars => TypeOK'
  <1> SUFFICES ASSUME TypeOK, [Next]_vars PROVE TypeOK'
    OBVIOUS
  <1> USE DEF world, process
  <1>1. ASSUME NEW q \in Procs, Resume(q) PROVE TypeOK'
    BY <1>1 DEF Resume, Goto, TypeOK, Locations
  <1>2. ASSUME NEW q \in Procs, Progress(q) PROVE TypeOK'
    <2>1. CASE Acquire(q)
      BY <2>1 DEF Acquire, Goto, TypeOK, Locations, Executing
    <2>2. CASE AlreadyRunning(q)
      BY <2>2, ExitType DEF AlreadyRunning, TypeOK
    <2>3. CASE CheckCertificate(q)
      <3>1. job[q] \in Job /\ job[q].phase \in Locations \ {"pruning"}
        BY <2>3, JobFields DEF CheckCertificate, TypeOK, Locations, Executing, Phases
      <3> QED
        BY <2>3, <3>1 DEF CheckCertificate, Goto, TypeOK
    <2>4. CASE CertificateChanged(q)
      BY <2>4, ExitType DEF CertificateChanged, TypeOK
    <2>5. CASE PublishPort(q)
      <3>1. job[q].certificate \in Certs
        BY <2>5, JobFields DEF PublishPort, TypeOK
      <3>2. idx[q] \in Ports /\ idx' \in [Procs -> 1..(NPorts + 1)]
        BY <2>5, IdxType DEF PublishPort
      <3>3. rrset[idx[q]] \union {job[q].certificate} \in SUBSET Certs
        BY <3>1, <3>2 DEF TypeOK
      <3>4. rrset' \in [Ports -> SUBSET Certs] /\ age' \in [Ports -> [Certs -> 0..Window]]
        BY <2>5, <3>2, <3>3, SetRRsetType DEF PublishPort
      <3>5. \A r \in Procs : pc[r] = "pruning" => idx'[r] = idx[r]
        BY <2>5 DEF PublishPort, TypeOK
      <3> QED
        BY <2>5, <3>2, <3>4, <3>5 DEF PublishPort, TypeOK
    <2>6. CASE Published(q)
      <3>1. job[q] \in Job
        BY <2>6 DEF Published, TypeOK
      <3>2. mark_published(job[q]) \in Job
        BY <3>1, MarkPublished
      <3>3. 1 \in 1..(NPorts + 1)
        BY ConstantsAssumption
      <3> QED
        BY <2>6, <3>1, <3>2, <3>3 DEF Published, Persist, Goto, TypeOK, Locations, Executing
    <2>7. CASE AlreadyLive(q)
      <3>1. job[q] \in Job
        BY <2>7 DEF AlreadyLive, TypeOK
      <3>2. mark_reloaded(job[q]) \in Job
        BY <3>1, MarkReloaded
      <3>3. 1 \in 1..(NPorts + 1)
        BY ConstantsAssumption
      <3> QED
        BY <2>7, <3>1, <3>2, <3>3 DEF AlreadyLive, Persist, Goto, TypeOK, Locations, Executing
    <2>8. CASE NotYetLive(q)
      <3>1. 1 \in 1..(NPorts + 1)
        BY ConstantsAssumption
      <3> QED
        BY <2>8, <3>1 DEF NotYetLive, Goto, TypeOK, Locations, Executing
    <2>9. CASE WakeToReload(q)
      <3>1. job[q] \in Job
        BY <2>9 DEF WakeToReload, TypeOK
      <3>2. mark_waiting_reload(job[q]) \in Job
        BY <3>1, MarkWaitingReload
      <3> QED
        BY <2>9, <3>1, <3>2 DEF WakeToReload, Persist, Goto, TypeOK, Locations, Executing
    <2>10. CASE RunReload(q)
      <3>1. PICK S \in SUBSET Ports : PresentFile(S)
        BY <2>10 DEF RunReload
      <3> QED
        BY <2>10, <3>1, PresentFileType DEF RunReload, Goto, TypeOK, Locations, Executing
    <2>11. CASE Reloaded(q)
      <3>1. job[q] \in Job
        BY <2>11 DEF Reloaded, TypeOK
      <3>2. mark_reloaded(job[q]) \in Job
        BY <3>1, MarkReloaded
      <3> QED
        BY <2>11, <3>1, <3>2 DEF Reloaded, Persist, Goto, TypeOK, Locations, Executing
    <2>12. CASE WakeToPrune(q)
      <3>1. job[q] \in Job
        BY <2>12 DEF WakeToPrune, TypeOK
      <3>2. mark_ready_to_prune(job[q]) \in Job
        BY <3>1, MarkReadyToPrune
      <3> QED
        BY <2>12, <3>1, <3>2 DEF WakeToPrune, Persist, Goto, TypeOK, Locations, Executing
    <2>13. CASE FetchLive(q)
      <3>1. live[idx[q]] \in Certs /\ idx[q] \in Ports
        BY <2>13, IdxType DEF FetchLive, TypeOK
      <3> QED
        BY <2>13, <3>1 DEF FetchLive, Goto, TypeOK, Locations, Executing
    <2>14. CASE PrunePort(q)
      <3>1. idx[q] \in Ports /\ idx[q] <= NPorts
        BY <2>14, JobAssumption DEF PrunePort, TypeOK, Ports
      <3>2. rrset[idx[q]] \intersect {live_hash[q]} \in SUBSET Certs
        BY <3>1 DEF TypeOK
      <3>3. idx' \in [Procs -> 1..(NPorts + 1)]
        BY <2>14, <3>1, IdxType DEF PrunePort
      <3>4. rrset' \in [Ports -> SUBSET Certs] /\ age' \in [Ports -> [Certs -> 0..Window]]
        BY <2>14, <3>1, <3>2, SetRRsetType DEF PrunePort
      <3>5. \A r \in Procs : pc'[r] = "pruning" => pc[r] = "pruning" /\ idx'[r] = idx[r]
        BY <2>14 DEF PrunePort, Goto, TypeOK
      <3> QED
        <4>1. pc' \in [Procs -> Locations] /\ job' = job /\ live_hash' \in [Procs -> Certs \union {NoCert}]
          BY <2>14 DEF PrunePort, Goto, TypeOK, Locations, Executing
        <4>2. \A r \in Procs : pc'[r] # "idle" => pc[r] # "idle"
          BY <2>14 DEF PrunePort, Goto, TypeOK
        <4> QED
          BY <2>14, <3>3, <3>4, <3>5, <4>1, <4>2 DEF PrunePort, TypeOK
    <2>15. CASE Finished(q)
      BY <2>15, ExitType DEF Finished, TypeOK
    <2>16. CASE PortLive(q)
      <3>1. idx' \in [Procs -> 1..(NPorts + 1)]
        BY <2>16, IdxType DEF PortLive
      <3>2. \A r \in Procs : pc[r] = "pruning" => idx'[r] = idx[r]
        BY <2>16 DEF PortLive, TypeOK
      <3> QED
        BY <2>16, <3>1, <3>2 DEF PortLive, TypeOK
    <2> QED
      BY <1>2, <2>1, <2>2, <2>3, <2>4, <2>5, <2>6, <2>7, <2>8, <2>9, <2>10, <2>11,
         <2>12, <2>13, <2>14, <2>15, <2>16 DEF Progress
  <1>3. ASSUME NEW q \in Procs, Fault(q) PROVE TypeOK'
    <2>1. CASE PublishFails(q)
      <3>1. job[q].certificate \in Certs
        BY <2>1, JobFields DEF PublishFails, TypeOK
      <3>2. idx[q] \in Ports
        BY <2>1, IdxType DEF PublishFails
      <3>3. rrset[idx[q]] \union {job[q].certificate} \in SUBSET Certs
        BY <3>1, <3>2 DEF TypeOK
      <3>4. rrset' \in [Ports -> SUBSET Certs] /\ age' \in [Ports -> [Certs -> 0..Window]]
        BY <2>1, <3>2, <3>3, SetRRsetType DEF PublishFails, TypeOK
      <3> QED
        BY <2>1, <3>4, ExitType DEF PublishFails, TypeOK
    <2>2. CASE ReloadFails(q)
      <3>1. PICK S \in SUBSET Ports : PresentFile(S)
        BY <2>2 DEF ReloadFails
      <3> QED
        BY <2>2, <3>1, PresentFileType, ExitType DEF ReloadFails, TypeOK
    <2>3. CASE PruneFails(q)
      <3>1. pc[q] = "pruning" => idx[q] \in Ports
        BY DEF TypeOK
      <3>2. rrset' \in [Ports -> SUBSET Certs] /\ age' \in [Ports -> [Certs -> 0..Window]]
        <4>1. CASE UNCHANGED <<rrset, age>>
          BY <4>1 DEF TypeOK
        <4>2. CASE pc[q] = "pruning" /\ SetRRset(idx[q], rrset[idx[q]] \intersect {live_hash[q]})
          <5>1. rrset[idx[q]] \intersect {live_hash[q]} \in SUBSET Certs
            BY <4>2, <3>1 DEF TypeOK
          <5> QED
            BY <4>2, <3>1, <5>1, SetRRsetType
        <4> QED
          BY <2>3, <4>1, <4>2 DEF PruneFails
      <3> QED
        BY <2>3, <3>2, ExitType DEF PruneFails, TypeOK
    <2>4. CASE Crash(q)
      BY <2>4, ExitType DEF Crash, TypeOK
    <2> QED
      BY <1>3, <2>1, <2>2, <2>3, <2>4 DEF Fault
  <1>4. CASE Command
    <2>1. CASE Schedule
      BY <2>1, NewJobFields DEF Schedule, TypeOK
    <2>2. CASE Renew
      <3>1. disk' \in Certs
        BY <2>2, JobAssumption DEF Renew, TypeOK, Certs
      <3> QED
        BY <2>2, <3>1 DEF Renew, TypeOK
    <2>3. CASE ServiceRestart
      <3>1. PICK S \in SUBSET Ports : PresentFile(S)
        BY <2>3 DEF ServiceRestart
      <3> QED
        BY <2>3, <3>1, PresentFileType DEF ServiceRestart, TypeOK
    <2>4. ASSUME NEW q \in Procs, StartRollover(q) PROVE TypeOK'
      <3>1. \E j \in Job : job' = [job EXCEPT ![q] = j]
        BY <2>4, NewJobFields DEF StartRollover, TypeOK
      <3> QED
        BY <2>4, <3>1 DEF StartRollover, Goto, TypeOK, Locations
    <2> QED
      BY <1>4, <2>1, <2>2, <2>3, <2>4 DEF Command
  <1>5. CASE Tick
    <2>1. age' \in [Ports -> [Certs -> 0..Window]]
      BY <1>5, WindowAssumption DEF Tick, TypeOK
    <2>2. settled' \in [Ports -> 0..Wait]
      BY <1>5, WaitType DEF Tick, TypeOK
    <2>3. jobfile' \in Job \union {NoJob}
      BY <1>5, LaterFields, LaterNoJob DEF Tick, TypeOK
    <2>4. \A q \in Procs : job'[q] = Later(job[q])
      BY <1>5 DEF Tick
    <2>5. job' \in [Procs -> Job \union {NoJob}]
      BY <1>5, LaterFields, LaterNoJob DEF Tick, TypeOK
    <2>6. \A q \in Procs : pc'[q] # "idle" => job'[q] \in Job
      BY <1>5, <2>4, LaterFields DEF Tick, TypeOK
    <2> QED
      BY <1>5, <2>1, <2>2, <2>3, <2>5, <2>6 DEF Tick, TypeOK
  <1>6. CASE UNCHANGED vars
    BY <1>6 DEF vars, TypeOK
  <1> QED
    BY <1>1, <1>2, <1>3, <1>4, <1>5, <1>6 DEF Next

\* The variables of Rollover keep their types: no phase, deadline or port out of range.
THEOREM TypeCorrect == Spec => []TypeOK
  BY TypeInit, TypeNext, PTL DEF Spec

-----------------------------------------------------------------------------
(* Copies of the job.                                                        *)

LEMMA CopiesElements ==
  ASSUME NEW j
  PROVE  j \in Copies <=> j # NoJob /\ (j = jobfile \/ \E q \in Procs : j = job[q])
  BY DEF Copies

LEMMA CopiesType == TypeOK => Copies \subseteq Job
  BY CopiesElements DEF TypeOK

LEMMA OwnCopy ==
  ASSUME TypeOK, NEW q \in Procs, pc[q] # "idle"
  PROVE  job[q] \in Copies /\ job[q] \in Job
  BY CopiesElements, JobFields DEF TypeOK

\* A process that leaves, whatever it did to the world, leaves no new copy.
LEMMA ExitCopies ==
  ASSUME TypeOK, NEW q \in Procs, Exit(q), jobfile' = jobfile \/ jobfile' = NoJob
  PROVE  Copies' \subseteq Copies
  <1>1. \A r \in Procs : job'[r] = job[r] \/ job'[r] = NoJob
    BY DEF Exit, TypeOK
  <1> QED
    BY <1>1, CopiesElements DEF Copies

\* A process that saves a job makes no other copy than that one.
LEMMA PersistCopies ==
  ASSUME TypeOK, NEW q \in Procs, NEW j \in Job, Persist(q, j)
  PROVE  Copies' \subseteq Copies \union {j}
  <1>1. \A r \in Procs : job'[r] = job[r] \/ job'[r] = j
    BY DEF Persist, TypeOK
  <1> QED
    BY <1>1 DEF Copies, Persist

LEMMA OneHolder ==
  ASSUME LockInv, NEW q \in Procs, NEW r \in Procs, pc[q] \in Executing, pc[r] \in Executing
  PROVE  q = r
  BY DEF LockInv

-----------------------------------------------------------------------------
(* The world changes under a copy: it stays right.                           *)

LEMMA SameWorld ==
  ASSUME UNCHANGED world, NEW j
  PROVE  /\ CopyOK(j)' <=> CopyOK(j)
         /\ \A c, r : PublishedBy(c, r)' <=> PublishedBy(c, r)
  BY DEF world, CopyOK, PublishedBy

LEMMA AddHash ==
  ASSUME TypeOK, NEW p \in Ports, NEW c \in Certs, SetRRset(p, rrset[p] \union {c}),
         UNCHANGED <<disk, live, settled>>
  PROVE  /\ \A r \in Ports : rrset[r] \subseteq rrset'[r]
         /\ c \in rrset'[p]
         /\ \A d \in Certs : \A n \in Int : PublishedBy(d, n) => PublishedBy(d, n)'
         /\ \A j \in Job : CopyOK(j) => CopyOK(j)'
  <1>1. \A r \in Ports : rrset[r] \subseteq rrset'[r]
    BY DEF SetRRset, TypeOK
  <1>2. c \in rrset'[p]
    BY DEF SetRRset, TypeOK
  <1>3. \A r \in Ports : \A d \in Certs : d \in rrset[r] => age'[r][d] = age[r][d]
    BY DEF SetRRset, TypeOK
  <1>4. \A d \in Certs : \A n \in Int : PublishedBy(d, n) => PublishedBy(d, n)'
    BY <1>1, <1>3 DEF PublishedBy
  <1>5. ASSUME NEW j \in Job, CopyOK(j) PROVE CopyOK(j)'
    <2>1. j.reload_after \in Int /\ disk \in Certs
      BY JobFields DEF TypeOK
    <2> QED
      BY <1>4, <1>5, <2>1 DEF CopyOK
  <1> QED
    BY <1>1, <1>2, <1>4, <1>5

\* Pruning down to hash h is harmless to a copy if h is the hash of the file, or
\* if the copy knows nothing about that hash.
LEMMA PruneHash ==
  ASSUME TypeOK, NEW p \in Ports, NEW h, SetRRset(p, rrset[p] \intersect {h}),
         UNCHANGED <<disk, live, settled>>,
         NEW j \in Job, CopyOK(j),
         h = disk \/ j.certificate # disk \/ j.phase = "publish"
  PROVE  CopyOK(j)'
  <1>1. ASSUME h = disk
        PROVE  PublishedBy(disk, j.reload_after) => PublishedBy(disk, j.reload_after)'
    <2>1. \A r \in Ports : disk \in rrset[r] => disk \in rrset'[r] /\ age'[r][disk] = age[r][disk]
      BY <1>1 DEF SetRRset, TypeOK
    <2> QED
      BY <2>1 DEF PublishedBy
  <1>2. j.phase = "publish" => j.phase \notin HashPublished
    BY DEF HashPublished
  <1> QED
    BY <1>1, <1>2 DEF CopyOK

\* The file reaches a copy that already thinks it deployed, or one that does not.
LEMMA PresentFileCopy ==
  ASSUME TypeOK, NEW S \in SUBSET Ports, PresentFile(S), UNCHANGED <<disk, rrset, age>>,
         NEW j \in Job, CopyOK(j)
  PROVE  CopyOK(j)'
  <1>1. ASSUME j.phase \in CertDeployed, NEW p \in Ports, live'[p] = j.certificate
        PROVE  settled'[p] + j.prune_after >= Wait
    <2>1. live[p] = j.certificate
      BY <1>1 DEF PresentFile, CopyOK
    <2>2. settled'[p] = settled[p]
      BY <1>1, <2>1 DEF PresentFile
    <2> QED
      BY <1>1, <2>1, <2>2 DEF CopyOK
  <1>2. ASSUME \A p \in Ports : live[p] = disk PROVE \A p \in Ports : live'[p] = disk
    BY <1>2 DEF PresentFile
  <1>3. PublishedBy(disk, j.reload_after)' <=> PublishedBy(disk, j.reload_after)
    BY DEF PublishedBy
  <1> QED
    BY <1>1, <1>2, <1>3 DEF CopyOK

LEMMA TickPublished ==
  ASSUME TypeOK, Tick, NEW c \in Certs, NEW n \in Nat, PublishedBy(c, n)
  PROVE  PublishedBy(c, IF n = 0 THEN 0 ELSE n - 1)'
  <1>1. ASSUME NEW p \in Ports
        PROVE  /\ c \in rrset'[p]
               /\ age'[p][c] + (IF n = 0 THEN 0 ELSE n - 1) >= Window
    <2>1. c \in rrset[p] /\ age[p][c] + n >= Window
      BY DEF PublishedBy
    <2>2. age'[p][c] = IF age[p][c] < Window THEN age[p][c] + 1 ELSE age[p][c]
      BY <2>1 DEF Tick
    <2>3. age[p][c] \in Nat /\ age[p][c] <= Window /\ Window \in Nat
      BY WindowAssumption DEF TypeOK
    <2>4. age'[p][c] + (IF n = 0 THEN 0 ELSE n - 1) >= Window
      BY <2>1, <2>2, <2>3
    <2> QED
      BY <2>1, <2>4 DEF Tick
  <1> QED
    BY <1>1 DEF PublishedBy

LEMMA TickCopy ==
  ASSUME TypeOK, Tick, NEW j \in Job, CopyOK(j)
  PROVE  CopyOK(Later(j))'
  <1> DEFINE k == Later(j)
  <1>1. /\ k \in Job
        /\ k.certificate = j.certificate
        /\ k.phase = j.phase
        /\ k.reload_after = IF j.reload_after = 0 THEN 0 ELSE j.reload_after - 1
        /\ k.prune_after = IF j.prune_after = 0 THEN 0 ELSE j.prune_after - 1
    BY LaterFields
  <1>2. /\ j.reload_after \in Nat
        /\ j.prune_after \in Nat
    BY JobFields
  <1>3. disk' = disk /\ live' = live /\ disk \in Certs
    BY DEF Tick, TypeOK
  <1> HIDE DEF k
  <1>4. ASSUME j.phase \in CertDeployed, NEW p \in Ports, live[p] = j.certificate
        PROVE  settled'[p] + k.prune_after >= Wait
    <2>1. settled[p] + j.prune_after >= Wait
      BY <1>4 DEF CopyOK
    <2>2. settled'[p] = IF settled[p] < Wait THEN settled[p] + 1 ELSE settled[p]
      BY DEF Tick
    <2>3. settled[p] \in Nat /\ settled[p] <= Wait /\ Wait \in Nat
      BY WaitType DEF TypeOK
    <2> QED
      BY <1>1, <1>2, <2>1, <2>2, <2>3
  <1>5. PublishedBy(disk, j.reload_after) => PublishedBy(disk, k.reload_after)'
    BY <1>1, <1>2, <1>3, TickPublished
  <1>6. CopyOK(k)'
    BY <1>1, <1>2, <1>3, <1>4, <1>5 DEF CopyOK
  <1> QED
    BY <1>6 DEF k

-----------------------------------------------------------------------------
(* Steps that leave the world, or the copies, alone.                         *)

\* No new copy, and the world is as good to the old ones as it was.
LEMMA KeepCopies ==
  ASSUME TypeOK, CopyInv, Copies' \subseteq Copies,
         \A j \in Job : j \in Copies /\ CopyOK(j) => CopyOK(j)'
  PROVE  CopyInv'
  BY CopiesType DEF CopyInv

\* q saves its own job, moved on, in an unchanged world.
LEMMA PersistInv ==
  ASSUME IInv, NEW q \in Procs, NEW j \in Job, Persist(q, j), UNCHANGED world,
         j.certificate = job[q].certificate, CopyOK(j),
         pc[q] \in Executing \ {"check"}
  PROVE  /\ CopyInv'
         /\ \A c \in Certs : c # job[q].certificate =>
               \A k \in Copies' : k.certificate = c => k \in Copies
  <1>1. Copies' \subseteq Copies \union {j}
    BY PersistCopies DEF IInv
  <1>2. \A k \in Job : CopyOK(k)' <=> CopyOK(k)
    BY SameWorld
  <1>3. CopyInv'
    BY <1>1, <1>2, CopiesType DEF IInv, CopyInv
  <1> QED
    BY <1>1, <1>3

\* The certificate in the file, and the job of a process that runs, are certificates.
LEMMA RunningJob ==
  ASSUME TypeOK, NEW q \in Procs, pc[q] # "idle"
  PROVE  /\ job[q] \in Job
         /\ job[q] \in Copies
         /\ job[q].certificate \in Certs
         /\ job[q].reload_after \in Nat
         /\ disk \in Certs
  BY OwnCopy, JobFields DEF TypeOK

\* What Exit(q) leaves of the conjuncts about processes.
LEMMA ExitProcesses ==
  ASSUME TypeOK, LockInv, NEW q \in Procs, Exit(q)
  PROVE  /\ LockInv'
         /\ pc'[q] = "idle" /\ PhaseOK(q)' /\ WorkOK(q)'
         /\ \A r \in Procs : r # q =>
               pc'[r] = pc[r] /\ job'[r] = job[r] /\ idx'[r] = idx[r] /\ live_hash'[r] = live_hash[r]
  <1>1. \A r \in Procs : r # q =>
               pc'[r] = pc[r] /\ job'[r] = job[r] /\ idx'[r] = idx[r] /\ live_hash'[r] = live_hash[r]
    BY DEF Exit, Goto, TypeOK
  <1>2. pc'[q] = "idle" /\ idx'[q] = 1
    BY DEF Exit, Goto, TypeOK
  <1>3. LockInv'
    BY <1>1, <1>2, ConstantsAssumption DEF LockInv, Exit, Executing
  <1> QED
    BY <1>1, <1>2, <1>3 DEF PhaseOK, WorkOK, Phases

\* A process that does not move, while the world stands still or another one has the lock.
LEMMA OtherProcess ==
  ASSUME IInv, NEW q \in Procs, NEW r \in Procs, r # q,
         pc'[r] = pc[r], job'[r] = job[r], idx'[r] = idx[r], live_hash'[r] = live_hash[r],
         lock = q \/ UNCHANGED world
  PROVE  PhaseOK(r)' /\ WorkOK(r)'
  <1>1. PhaseOK(r) /\ WorkOK(r)
    BY DEF IInv, ProcessInv
  <1>2. PhaseOK(r)'
    BY <1>1 DEF PhaseOK
  <1>3. CASE lock = q
    <2>1. pc[r] \notin Executing
      BY <1>3 DEF IInv, LockInv
    <2> QED
      BY <1>2, <2>1 DEF WorkOK, Executing
  <1>4. CASE UNCHANGED world
    <2>1. WorkOK(r)'
      BY <1>1, <1>4, SameWorld DEF WorkOK, world
    <2> QED
      BY <1>2, <2>1
  <1> QED
    BY <1>3, <1>4

\* No process takes up an old certificate, and no copy of the new one moves on.
LEMMA KeepOldWork ==
  ASSUME IInv, disk' = disk,
         \A r \in Procs : pc'[r] \in Executing \ {"check"} /\ job'[r].certificate # disk =>
            /\ pc[r] \in Executing \ {"check"} /\ job[r].certificate # disk
            /\ \A j \in Copies' : j.certificate = disk => j \in Copies \/ j.phase = "publish"
  PROVE  OldWorkInv'
  BY DEF IInv, OldWorkInv

\* If what q did to the world before it left harms no copy and no other process,
\* the invariant holds without it.
LEMMA ExitInv ==
  ASSUME IInv, NEW q \in Procs, Exit(q), TypeOK', disk' = disk,
         jobfile' = jobfile \/ jobfile' = NoJob,
         \A j \in Job : j \in Copies /\ CopyOK(j) => CopyOK(j)',
         lock = q \/ UNCHANGED world
  PROVE  IInv'
  <1> USE DEF IInv
  <1>1. Copies' \subseteq Copies
    BY ExitCopies
  <1>2. CopyInv'
    BY <1>1, KeepCopies
  <1>3. LockInv'
    BY ExitProcesses
  <1>4. ProcessInv'
    <2> SUFFICES ASSUME NEW r \in Procs PROVE PhaseOK(r)' /\ WorkOK(r)'
      BY DEF ProcessInv
    <2>1. CASE r = q
      BY <2>1, ExitProcesses
    <2>2. CASE r # q
      BY <2>2, ExitProcesses, OtherProcess
    <2> QED
      BY <2>1, <2>2
  <1>5. OldWorkInv'
    <2> SUFFICES ASSUME NEW r \in Procs, pc'[r] \in Executing \ {"check"},
                        job'[r].certificate # disk', NEW j \in Copies', j.certificate = disk'
                 PROVE  j.phase = "publish"
      BY DEF OldWorkInv
    <2>1. r # q
      BY ExitProcesses DEF Executing
    <2>2. pc'[r] = pc[r] /\ job'[r] = job[r]
      BY <2>1, ExitProcesses
    <2> QED
      BY <1>1, <2>2 DEF OldWorkInv
  <1> QED
    BY <1>2, <1>3, <1>4, <1>5

\* The holder of the lock saves its job moved to phase l, and goes there.
LEMMA MoveOnInv ==
  ASSUME IInv, NEW q \in Procs, NEW j \in Job, NEW l \in Phases \ {"publish"}, TypeOK',
         Persist(q, j), Goto(q, l), UNCHANGED <<world, lock, live_hash>>,
         pc[q] \in Executing \ {"check"},
         j.certificate = job[q].certificate, j.phase = l, CopyOK(j),
         idx' = [idx EXCEPT ![q] = 1],
         l \in {"wait_before_reload", "reload"} => PublishedBy(j.certificate, j.reload_after)
  PROVE  IInv'
  <1>1. CopyInv'
    BY PersistInv
  <1>2. /\ pc'[q] = l /\ job'[q] = j /\ idx'[q] = 1
        /\ \A r \in Procs : r # q => pc'[r] = pc[r] /\ job'[r] = job[r] /\ idx'[r] = idx[r]
        /\ \A r \in Procs : live_hash'[r] = live_hash[r]
        /\ disk' = disk
    BY DEF Persist, Goto, IInv, TypeOK, world
  <1>3. LockInv'
    BY <1>2 DEF IInv, LockInv, Executing, Phases
  <1>4. ProcessInv'
    <2>1. PhaseOK(q)' /\ WorkOK(q)'
      <3>1. PhaseOK(q)'
        BY <1>2 DEF PhaseOK, Phases
      <3>2. PublishedBy(j.certificate, j.reload_after)' <=> PublishedBy(j.certificate, j.reload_after)
        BY SameWorld
      <3>3. \A p \in Ports : ~(p < 1)
        BY DEF Ports
      <3> QED
        BY <1>2, <3>1, <3>2, <3>3 DEF WorkOK, Phases
    <2>2. \A r \in Procs : r # q => PhaseOK(r)' /\ WorkOK(r)'
      BY <1>2, OtherProcess
    <2> QED
      BY <2>1, <2>2 DEF ProcessInv
  <1>5. OldWorkInv'
    <2> SUFFICES ASSUME NEW r \in Procs, pc'[r] \in Executing \ {"check"}, job'[r].certificate # disk
                 PROVE  /\ pc[r] \in Executing \ {"check"} /\ job[r].certificate # disk
                        /\ \A k \in Copies' : k.certificate = disk => k \in Copies
      BY <1>2, KeepOldWork
    <2>1. r = q
      BY <1>2, OneHolder DEF IInv, Executing
    <2>2. job[q].certificate # disk /\ disk \in Certs
      BY <1>2, <2>1 DEF IInv, TypeOK
    <2> QED
      BY <1>2, <2>1, <2>2, PersistInv
  <1> QED
    BY <1>1, <1>3, <1>4, <1>5 DEF IInv

-----------------------------------------------------------------------------
(* One lemma per group of steps.                                             *)

\* Steps before the lock: what a process loads is a copy, or a job not begun.
LEMMA LoadInv ==
  ASSUME IInv, TypeOK', NEW q \in Procs, Resume(q) \/ StartRollover(q)
  PROVE  IInv'
  <1> USE DEF IInv
  <1> DEFINE new == NewJob(disk)
  <1>1. PICK j \in Job : job' = [job EXCEPT ![q] = j] /\ (j = jobfile \/ j = new)
    BY NewJobFields, JobAssumption DEF Resume, StartRollover, TypeOK
  <1>2. PICK l \in {"resume", "rollover"} : Goto(q, l) /\ pc[q] = "idle"
    BY DEF Resume, StartRollover
  <1>3. UNCHANGED <<world, jobfile, lock, idx, live_hash>>
    BY DEF Resume, StartRollover
  <1>4. /\ pc'[q] = l /\ job'[q] = j
        /\ \A r \in Procs : r # q => pc'[r] = pc[r] /\ job'[r] = job[r]
        /\ disk' = disk
    BY <1>1, <1>2, <1>3 DEF Goto, TypeOK, world
  <1>5. /\ disk \in Certs /\ new \in Job /\ new.certificate = disk /\ new.phase = "publish"
    BY NewJobFields DEF TypeOK
  <1> HIDE DEF new
  <1>6. Copies' \subseteq Copies \union {new}
    <2>1. j \in Copies \union {new}
      BY <1>1, JobFields, CopiesElements
    <2> QED
      BY <1>3, <1>4, <2>1, CopiesElements DEF Copies
  <1>7. CopyInv'
    <2>1. CopyOK(new)
      BY <1>5, PortsType DEF CopyOK, HashPublished, CertDeployed
    <2>2. \A k \in Job : CopyOK(k)' <=> CopyOK(k)
      BY <1>3, SameWorld
    <2> QED
      BY <1>5, <1>6, <2>1, <2>2, CopiesType DEF CopyInv
  <1>8. LockInv'
    BY <1>2, <1>3, <1>4 DEF LockInv, Executing
  <1>9. ProcessInv'
    <2>1. idx'[q] = 1
      BY <1>2, <1>3 DEF ProcessInv, PhaseOK, Phases
    <2>2. PhaseOK(q)' /\ WorkOK(q)'
      BY <1>4, <2>1 DEF PhaseOK, WorkOK, Phases
    <2>3. \A r \in Procs : r # q => PhaseOK(r)' /\ WorkOK(r)'
      BY <1>3, <1>4, OtherProcess
    <2> QED
      BY <2>2, <2>3 DEF ProcessInv
  <1>10. OldWorkInv'
    BY <1>4, <1>5, <1>6, KeepOldWork DEF Executing
  <1> QED
    BY <1>7, <1>8, <1>9, <1>10

LEMMA AcquireInv ==
  ASSUME IInv, TypeOK', NEW q \in Procs, Acquire(q)
  PROVE  IInv'
  <1> USE DEF IInv
  <1>1. /\ pc'[q] = "check" /\ lock' = q /\ lock = NoProc
        /\ \A r \in Procs : r # q => pc'[r] = pc[r]
        /\ UNCHANGED <<world, job, idx, live_hash>>
        /\ disk' = disk
    BY DEF Acquire, Goto, TypeOK, world
  <1>2. Copies' \subseteq Copies
    <2>1. jobfile' = jobfile \/ jobfile' = job[q]
      BY DEF Acquire
    <2> QED
      BY <1>1, <2>1, CopiesElements DEF Copies
  <1>3. CopyInv'
    BY <1>1, <1>2, SameWorld, KeepCopies
  <1>4. \A r \in Procs : pc[r] \notin Executing
    BY <1>1, ConstantsAssumption DEF LockInv
  <1>5. LockInv'
    BY <1>1, <1>4 DEF LockInv, Executing
  <1>6. ProcessInv'
    <2>1. idx[q] = 1
      BY DEF ProcessInv, PhaseOK, Acquire
    <2>2. PhaseOK(q)' /\ WorkOK(q)'
      BY <1>1, <2>1 DEF PhaseOK, WorkOK, Phases
    <2>3. \A r \in Procs : r # q => PhaseOK(r)' /\ WorkOK(r)'
      BY <1>1, OtherProcess
    <2> QED
      BY <2>2, <2>3 DEF ProcessInv
  <1>7. OldWorkInv'
    BY <1>1, <1>4 DEF OldWorkInv
  <1> QED
    BY <1>3, <1>5, <1>6, <1>7

\* Steps of the holder that change neither the world nor a job.
LEMMA LookInv ==
  ASSUME IInv, TypeOK', NEW q \in Procs,
         CheckCertificate(q) \/ PortLive(q) \/ NotYetLive(q) \/ FetchLive(q)
  PROVE  IInv'
  <1> USE DEF IInv
  <1>1. /\ UNCHANGED <<world, jobfile, lock, job>>
        /\ \A r \in Procs : r # q =>
              pc'[r] = pc[r] /\ live_hash'[r] = live_hash[r] /\ idx'[r] = idx[r]
        /\ disk' = disk
        /\ pc[q] \in Executing
        /\ pc'[q] \in Executing
    <2>1. job[q].phase \in Executing
      BY RunningJob, JobFields
      DEF CheckCertificate, PortLive, NotYetLive, FetchLive, Phases, Executing
    <2> QED
      BY <2>1
      DEF CheckCertificate, PortLive, NotYetLive, FetchLive, Goto, TypeOK, world, Executing
  <1>2. Copies' = Copies
    BY <1>1 DEF Copies
  <1>3. CopyInv'
    BY <1>1, <1>2, SameWorld, KeepCopies
  <1>4. LockInv'
    BY <1>1 DEF LockInv
  <1>5. PhaseOK(q) /\ WorkOK(q)
    BY DEF ProcessInv
  <1>6. CopyOK(job[q]) /\ job[q] \in Job /\ job[q].phase \in Phases
    BY <1>1, RunningJob, JobFields DEF CopyInv, Executing
  <1>7. PhaseOK(q)' /\ WorkOK(q)'
    <2>1. CASE CheckCertificate(q)
      <3>1. /\ pc[q] = "check" /\ disk = job[q].certificate
            /\ pc'[q] = job[q].phase /\ job'[q] = job[q] /\ idx'[q] = 1
        BY <1>5, <2>1 DEF CheckCertificate, Goto, TypeOK, PhaseOK, Phases
      <3>2. PhaseOK(q)'
        BY <1>6, <3>1 DEF PhaseOK, Phases
      <3>3. job[q].phase \in HashPublished => PublishedBy(job[q].certificate, job[q].reload_after)'
        BY <1>1, <1>6, <3>1, SameWorld DEF CopyOK
      <3>4. \A p \in Ports : ~(p < 1)
        BY DEF Ports
      <3> QED
        BY <1>6, <3>1, <3>2, <3>3, <3>4 DEF WorkOK, Phases, HashPublished
    <2>2. CASE PortLive(q) \/ NotYetLive(q)
      <3>1. /\ pc[q] = "wait_before_reload" /\ job'[q] = job[q] /\ live' = live
            /\ job[q].phase = "wait_before_reload"
        BY <1>1, <1>5, <2>2 DEF PortLive, NotYetLive, PhaseOK, Phases, world
      <3>2. PublishedBy(job[q].certificate, job[q].reload_after)'
        BY <1>1, <1>5, <3>1, SameWorld DEF WorkOK
      <3>3. CASE PortLive(q)
        <4>1. pc'[q] = "wait_before_reload" /\ idx'[q] = idx[q] + 1 /\ idx[q] \in Ports
              /\ live[idx[q]] = job[q].certificate
          BY <3>3, IdxType DEF PortLive, TypeOK
        <4>2. \A p \in Ports : p < idx'[q] => p < idx[q] \/ p = idx[q]
          <5>1. idx[q] \in Nat /\ \A p \in Ports : p \in Nat
            BY <4>1, PortsType
          <5> QED
            BY <4>1, <5>1
        <4>3. job[q].certificate = disk => \A p \in Ports : p < idx'[q] => live[p] = disk
          BY <1>5, <3>1, <4>1, <4>2 DEF WorkOK
        <4> QED
          BY <1>1, <3>1, <3>2, <4>1, <4>3 DEF PhaseOK, WorkOK, Phases
      <3>4. CASE NotYetLive(q)
        <4>1. pc'[q] = "asleep" /\ idx'[q] = 1
          BY <3>4 DEF NotYetLive, Goto, TypeOK
        <4> QED
          BY <3>1, <3>2, <4>1 DEF PhaseOK, WorkOK, Phases
      <3> QED
        BY <2>2, <3>3, <3>4
    <2>3. CASE FetchLive(q)
      <3>1. /\ pc[q] = "prune" /\ pc'[q] = "pruning" /\ live_hash'[q] = live[idx[q]]
            /\ idx[q] \in Ports /\ job'[q] = job[q]
        BY <2>3, IdxType DEF FetchLive, Goto, TypeOK
      <3>2. job[q].phase = "prune"
        BY <1>5, <3>1 DEF PhaseOK, Phases
      <3>3. job[q].certificate = disk => live[idx[q]] = disk
        BY <1>6, <3>1, <3>2 DEF CopyOK, CertDeployed
      <3> QED
        BY <1>1, <1>5, <3>1, <3>2, <3>3 DEF PhaseOK, WorkOK, Phases
    <2> QED
      BY <2>1, <2>2, <2>3
  <1>8. ProcessInv'
    <2>1. \A r \in Procs : r # q => PhaseOK(r)' /\ WorkOK(r)'
      BY <1>1, OtherProcess
    <2> QED
      BY <1>7, <2>1 DEF ProcessInv
  <1>9. OldWorkInv'
    <2>1. pc[q] = "check" => job[q].certificate = disk
      BY DEF CheckCertificate, PortLive, NotYetLive, FetchLive
    <2> QED
      BY <1>1, <1>2, <2>1, KeepOldWork
  <1> QED
    BY <1>3, <1>4, <1>8, <1>9

\* Publishing one port: the hash is there afterwards, and nothing is lost.
LEMMA PublishPortInv ==
  ASSUME IInv, TypeOK', NEW q \in Procs, PublishPort(q)
  PROVE  IInv'
  <1> USE DEF IInv
  <1>1. /\ pc[q] = "publish" /\ idx[q] \in Ports
        /\ job[q].certificate \in Certs
        /\ SetRRset(idx[q], rrset[idx[q]] \union {job[q].certificate})
        /\ UNCHANGED <<disk, live, settled, jobfile, lock, pc, job, live_hash>>
    BY RunningJob, IdxType DEF PublishPort
  <1>2. /\ \A r \in Ports : rrset[r] \subseteq rrset'[r]
        /\ job[q].certificate \in rrset'[idx[q]]
        /\ \A j \in Job : CopyOK(j) => CopyOK(j)'
    BY <1>1, AddHash
  <1>3. Copies' = Copies
    BY <1>1 DEF Copies
  <1>4. CopyInv'
    BY <1>2, <1>3, KeepCopies
  <1>5. LockInv'
    BY <1>1 DEF LockInv
  <1>6. ProcessInv'
    <2>1. PhaseOK(q)'
      BY <1>1 DEF ProcessInv, PhaseOK
    <2>2. WorkOK(q)'
      <3>1. idx'[q] = idx[q] + 1 /\ idx[q] \in Nat
        BY <1>1, PortsType DEF PublishPort, TypeOK
      <3>2. \A p \in Ports : p < idx'[q] => p < idx[q] \/ p = idx[q]
        BY <3>1, PortsType
      <3>3. \A p \in Ports : p < idx[q] => job[q].certificate \in rrset[p]
        BY <1>1 DEF ProcessInv, WorkOK
      <3> QED
        BY <1>1, <1>2, <3>2, <3>3 DEF WorkOK
    <2>3. ASSUME NEW r \in Procs, r # q PROVE PhaseOK(r)' /\ WorkOK(r)'
      <3>1. idx'[r] = idx[r]
        BY <2>3 DEF PublishPort, TypeOK
      <3>2. lock = q
        BY <1>1 DEF LockInv, Executing
      <3> QED
        BY <1>1, <2>3, <3>1, <3>2, OtherProcess
    <2> QED
      BY <2>1, <2>2, <2>3 DEF ProcessInv
  <1>7. OldWorkInv'
    BY <1>1, <1>3, KeepOldWork
  <1> QED
    BY <1>4, <1>5, <1>6, <1>7

\* Every port is published: the wait that begins now is as long as caches last.
LEMMA PublishedInv ==
  ASSUME IInv, TypeOK', NEW q \in Procs, Published(q)
  PROVE  IInv'
  <1> USE DEF IInv
  <1> DEFINE j == mark_published(job[q])
  <1>1. /\ job[q] \in Job /\ job[q].certificate \in Certs
        /\ CopyOK(job[q]) /\ pc[q] = "publish"
    BY RunningJob DEF Published, CopyInv
  <1>2. /\ j \in Job /\ j.certificate = job[q].certificate
        /\ j.phase = "wait_before_reload" /\ j.reload_after = Wait
    BY <1>1, MarkPublished
  <1>3. Persist(q, j) /\ Goto(q, "wait_before_reload") /\ UNCHANGED <<world, lock, live_hash>>
        /\ idx' = [idx EXCEPT ![q] = 1]
    BY DEF Published
  <1> HIDE DEF j
  <1>4. PublishedBy(job[q].certificate, Wait)
    <2> SUFFICES ASSUME NEW p \in Ports
                 PROVE  job[q].certificate \in rrset[p] /\ age[p][job[q].certificate] + Wait >= Window
      BY DEF PublishedBy
    <2>1. p < idx[q]
      <3>1. idx[q] \in 1..(NPorts + 1) /\ idx[q] > NPorts /\ NPorts \in Nat
        BY ConstantsAssumption DEF Published, TypeOK
      <3> QED
        BY <3>1 DEF Ports
    <2>2. job[q].certificate \in rrset[p]
      BY <1>1, <2>1 DEF ProcessInv, WorkOK
    <2>3. age[p][job[q].certificate] \in Nat
      BY <1>1, WindowAssumption DEF TypeOK
    <2> QED
      BY <2>2, <2>3, WindowAssumption, WaitType
  <1>5. CopyOK(j)
    BY <1>1, <1>2, <1>4 DEF CopyOK, CertDeployed, HashPublished
  <1> QED
    BY <1>1, <1>2, <1>3, <1>4, <1>5, MoveOnInv DEF Executing, Phases

\* The service presents the file: the job waits for prune.
LEMMA DeployedInv ==
  ASSUME IInv, TypeOK', NEW q \in Procs, AlreadyLive(q) \/ Reloaded(q)
  PROVE  IInv'
  <1> USE DEF IInv
  <1> DEFINE j == mark_reloaded(job[q])
  <1>1. /\ job[q] \in Job /\ job[q].certificate \in Certs
        /\ CopyOK(job[q]) /\ PhaseOK(q) /\ WorkOK(q)
        /\ pc[q] \in {"wait_before_reload", "reloaded"}
    BY RunningJob DEF AlreadyLive, Reloaded, CopyInv, ProcessInv
  <1>2. /\ j \in Job /\ j.certificate = job[q].certificate
        /\ j.phase = "wait_before_prune" /\ j.reload_after = job[q].reload_after
        /\ j.prune_after \in Nat /\ j.prune_after >= Wait
    BY <1>1, MarkReloaded, JobFields
  <1>3. Persist(q, j) /\ Goto(q, "wait_before_prune") /\ UNCHANGED <<world, lock, live_hash>>
    BY DEF AlreadyLive, Reloaded
  <1> HIDE DEF j
  <1>4. job[q].phase \in HashPublished
    BY <1>1 DEF PhaseOK, Phases, HashPublished
  <1>5. job[q].certificate = disk => \A p \in Ports : live[p] = disk
    <2>1. CASE Reloaded(q)
      BY <1>1, <2>1 DEF Reloaded, WorkOK
    <2>2. CASE AlreadyLive(q)
      <3>1. idx[q] \in 1..(NPorts + 1) /\ idx[q] > NPorts /\ NPorts \in Nat
        BY <2>2, ConstantsAssumption DEF AlreadyLive, TypeOK
      <3>2. \A p \in Ports : p < idx[q]
        BY <3>1 DEF Ports
      <3> QED
        BY <1>1, <2>2, <3>2 DEF AlreadyLive, WorkOK
    <2> QED
      BY <2>1, <2>2
  <1>6. \A p \in Ports : settled[p] + j.prune_after >= Wait
    BY <1>2, WaitType DEF TypeOK
  <1>7. CopyOK(j)
    BY <1>1, <1>2, <1>4, <1>5, <1>6 DEF CopyOK, CertDeployed, HashPublished
  <1>8. idx' = [idx EXCEPT ![q] = 1]
    BY <1>1 DEF PhaseOK, TypeOK, AlreadyLive, Reloaded
  <1> QED
    BY <1>1, <1>2, <1>3, <1>7, <1>8, MoveOnInv DEF Executing, Phases

\* A deadline has passed: the job is ready for what waited for it.
LEMMA WakeInv ==
  ASSUME IInv, TypeOK', NEW q \in Procs, WakeToReload(q) \/ WakeToPrune(q)
  PROVE  IInv'
  <1> USE DEF IInv
  <1>1. /\ job[q] \in Job /\ CopyOK(job[q]) /\ PhaseOK(q) /\ WorkOK(q)
        /\ pc[q] \in {"asleep", "wait_before_prune"}
    BY RunningJob DEF WakeToReload, WakeToPrune, CopyInv, ProcessInv
  <1>2. idx' = [idx EXCEPT ![q] = 1]
    BY <1>1 DEF PhaseOK, TypeOK, WakeToReload, WakeToPrune
  <1>3. CASE WakeToReload(q)
    <2> DEFINE j == mark_waiting_reload(job[q])
    <2>1. /\ j \in Job /\ j.certificate = job[q].certificate
          /\ j.phase = "reload" /\ j.reload_after = job[q].reload_after
      BY <1>1, MarkWaitingReload
    <2>2. /\ Persist(q, j) /\ Goto(q, "reload") /\ UNCHANGED <<world, lock, idx, live_hash>>
          /\ job[q].reload_after = 0 /\ pc[q] = "asleep"
      BY <1>3 DEF WakeToReload
    <2> HIDE DEF j
    <2>3. job[q].phase \in HashPublished /\ PublishedBy(job[q].certificate, job[q].reload_after)
      BY <1>1, <2>2 DEF PhaseOK, WorkOK, HashPublished
    <2>4. CopyOK(j)
      BY <1>1, <2>1, <2>2, <2>3 DEF CopyOK, CertDeployed
    <2> QED
      BY <1>2, <2>1, <2>2, <2>3, <2>4, MoveOnInv DEF Executing, Phases
  <1>4. CASE WakeToPrune(q)
    <2> DEFINE j == mark_ready_to_prune(job[q])
    <2>1. /\ j \in Job /\ j.certificate = job[q].certificate /\ j.phase = "prune"
          /\ j.reload_after = job[q].reload_after /\ j.prune_after = job[q].prune_after
      BY <1>1, MarkReadyToPrune
    <2>2. /\ Persist(q, j) /\ Goto(q, "prune") /\ UNCHANGED <<world, lock, idx, live_hash>>
          /\ job[q].prune_after = 0 /\ pc[q] = "wait_before_prune"
      BY <1>4 DEF WakeToPrune
    <2> HIDE DEF j
    <2>3. job[q].phase = "wait_before_prune"
      BY <1>1, <2>2 DEF PhaseOK, Phases
    <2>4. CopyOK(j)
      BY <1>1, <2>1, <2>2, <2>3 DEF CopyOK, CertDeployed, HashPublished
    <2> QED
      BY <1>2, <2>1, <2>2, <2>4, MoveOnInv DEF Executing, Phases
  <1> QED
    BY <1>3, <1>4

\* The command exited 0, so the service presents the file on every port.
LEMMA RunReloadInv ==
  ASSUME ReloadEffective, IInv, TypeOK', NEW q \in Procs, RunReload(q)
  PROVE  IInv'
  <1> USE DEF IInv
  <1>1. /\ PresentFile(Ports)
        /\ UNCHANGED <<disk, rrset, age, jobfile, lock, job, idx, live_hash>>
        /\ pc[q] = "reload" /\ pc'[q] = "reloaded"
        /\ \A r \in Procs : r # q => pc'[r] = pc[r]
        /\ lock = q
    BY DEF RunReload, Goto, TypeOK, LockInv, Executing
  <1>2. Copies' = Copies
    BY <1>1 DEF Copies
  <1>3. CopyInv'
    BY <1>1, <1>2, PresentFileCopy, KeepCopies
  <1>4. LockInv'
    BY <1>1 DEF LockInv, Executing
  <1>5. ProcessInv'
    <2>1. PhaseOK(q)'
      BY <1>1 DEF ProcessInv, PhaseOK, Phases
    <2>2. \A p \in Ports : live'[p] = disk
      BY <1>1 DEF PresentFile
    <2>3. WorkOK(q)'
      BY <1>1, <2>2 DEF WorkOK
    <2>4. \A r \in Procs : r # q => PhaseOK(r)' /\ WorkOK(r)'
      BY <1>1, OtherProcess
    <2> QED
      BY <2>1, <2>3, <2>4 DEF ProcessInv
  <1>6. OldWorkInv'
    BY <1>1, <1>2, KeepOldWork DEF Executing
  <1> QED
    BY <1>3, <1>4, <1>5, <1>6

\* Pruning by a process in the lock spares what any copy of the job counts on.
LEMMA PruneCopies ==
  ASSUME IInv, NEW q \in Procs, pc[q] = "pruning",
         SetRRset(idx[q], rrset[idx[q]] \intersect {live_hash[q]}),
         UNCHANGED <<disk, live, settled>>
  PROVE  \A j \in Job : j \in Copies /\ CopyOK(j) => CopyOK(j)'
  <1> USE DEF IInv
  <1>1. idx[q] \in Ports
    BY DEF TypeOK
  <1>2. CASE job[q].certificate = disk
    <2>1. live_hash[q] = disk
      BY <1>2 DEF ProcessInv, WorkOK
    <2> QED
      BY <1>1, <2>1, PruneHash
  <1>3. CASE job[q].certificate # disk
    <2>1. \A j \in Copies : j.certificate # disk \/ j.phase = "publish"
      BY <1>3 DEF OldWorkInv, Executing
    <2> QED
      BY <1>1, <2>1, PruneHash
  <1> QED
    BY <1>2, <1>3

LEMMA PrunePortInv ==
  ASSUME IInv, TypeOK', NEW q \in Procs, PrunePort(q)
  PROVE  IInv'
  <1> USE DEF IInv
  <1>1. /\ SetRRset(idx[q], rrset[idx[q]] \intersect {live_hash[q]})
        /\ UNCHANGED <<disk, live, settled, jobfile, lock, job>>
        /\ pc[q] = "pruning" /\ pc'[q] = "prune"
        /\ \A r \in Procs : r # q =>
              pc'[r] = pc[r] /\ idx'[r] = idx[r] /\ live_hash'[r] = live_hash[r]
        /\ lock = q
    BY DEF PrunePort, Goto, TypeOK, LockInv, Executing
  <1>2. Copies' = Copies
    BY <1>1 DEF Copies
  <1>3. CopyInv'
    BY <1>1, <1>2, PruneCopies, KeepCopies
  <1>4. LockInv'
    BY <1>1 DEF LockInv, Executing
  <1>5. ProcessInv'
    <2>1. PhaseOK(q)' /\ WorkOK(q)'
      BY <1>1 DEF ProcessInv, PhaseOK, WorkOK, Phases
    <2>2. \A r \in Procs : r # q => PhaseOK(r)' /\ WorkOK(r)'
      BY <1>1, OtherProcess
    <2> QED
      BY <2>1, <2>2 DEF ProcessInv
  <1>6. OldWorkInv'
    BY <1>1, <1>2, KeepOldWork DEF Executing
  <1> QED
    BY <1>3, <1>4, <1>5, <1>6

\* Every way out: with the lock or before it, after a write to the zone or none.
LEMMA LeaveInv ==
  ASSUME IInv, TypeOK', NEW q \in Procs,
         AlreadyRunning(q) \/ CertificateChanged(q) \/ Finished(q) \/ Fault(q)
  PROVE  IInv'
  <1> USE DEF IInv
  <1>1. Exit(q) /\ disk' = disk /\ (jobfile' = jobfile \/ jobfile' = NoJob)
    BY DEF AlreadyRunning, CertificateChanged, Finished, Fault, PublishFails, ReloadFails,
           PruneFails, Crash, world
  <1>2. CASE UNCHANGED world
    <2>1. \A j \in Job : CopyOK(j) => CopyOK(j)'
      BY <1>2, SameWorld
    <2> QED
      BY <1>1, <1>2, <2>1, ExitInv
  <1>3. CASE PublishFails(q) /\ ~UNCHANGED world
    <2>1. /\ SetRRset(idx[q], rrset[idx[q]] \union {job[q].certificate})
          /\ idx[q] \in Ports /\ job[q].certificate \in Certs /\ lock = q
          /\ UNCHANGED <<disk, live, settled>>
      BY <1>3, RunningJob, IdxType DEF PublishFails, LockInv, Executing, world
    <2>2. \A j \in Job : CopyOK(j) => CopyOK(j)'
      BY <2>1, AddHash
    <2> QED
      BY <1>1, <2>1, <2>2, ExitInv
  <1>4. CASE ReloadFails(q)
    <2>1. PICK S \in SUBSET Ports : PresentFile(S)
      BY <1>4 DEF ReloadFails
    <2>2. lock = q /\ UNCHANGED <<disk, rrset, age>>
      BY <1>4 DEF ReloadFails, LockInv, Executing
    <2>3. \A j \in Job : CopyOK(j) => CopyOK(j)'
      BY <2>1, <2>2, PresentFileCopy
    <2> QED
      BY <1>1, <2>2, <2>3, ExitInv
  <1>5. CASE PruneFails(q) /\ ~UNCHANGED world
    <2>1. /\ SetRRset(idx[q], rrset[idx[q]] \intersect {live_hash[q]})
          /\ pc[q] = "pruning" /\ lock = q
          /\ UNCHANGED <<disk, live, settled>>
      BY <1>5 DEF PruneFails, LockInv, Executing, world
    <2>2. \A j \in Job : j \in Copies /\ CopyOK(j) => CopyOK(j)'
      BY <2>1, PruneCopies
    <2> QED
      BY <1>1, <2>1, <2>2, ExitInv
  <1> QED
    BY <1>2, <1>3, <1>4, <1>5
    DEF AlreadyRunning, CertificateChanged, Finished, Fault, Crash

\* A new job, saved over the file: a copy that knows nothing yet.
LEMMA ScheduleInv ==
  ASSUME IInv, TypeOK', Schedule
  PROVE  IInv'
  <1> USE DEF IInv
  <1> DEFINE new == NewJob(disk)
  <1>1. /\ new \in Job /\ new.certificate = disk /\ new.phase = "publish"
        /\ jobfile' = new
    BY NewJobFields DEF TypeOK, Schedule
  <1> HIDE DEF new
  <1>2. UNCHANGED <<world, lock, pc, job, idx, live_hash>> /\ disk' = disk
    BY DEF Schedule, process, world
  <1>3. Copies' \subseteq Copies \union {new}
    BY <1>1, <1>2 DEF Copies
  <1>4. CopyInv'
    <2>1. CopyOK(new)
      BY <1>1, PortsType DEF CopyOK, HashPublished, CertDeployed, TypeOK
    <2>2. \A k \in Job : CopyOK(k)' <=> CopyOK(k)
      BY <1>2, SameWorld
    <2> QED
      BY <1>1, <1>3, <2>1, <2>2, CopiesType DEF CopyInv
  <1>5. LockInv'
    BY <1>2 DEF LockInv
  <1>6. ProcessInv'
    <2> SUFFICES ASSUME NEW r \in Procs PROVE PhaseOK(r)' /\ WorkOK(r)'
      BY DEF ProcessInv
    <2>1. PhaseOK(r)'
      BY <1>2 DEF ProcessInv, PhaseOK
    <2>2. WorkOK(r)'
      BY <1>2, SameWorld DEF ProcessInv, WorkOK, world
    <2> QED
      BY <2>1, <2>2
  <1>7. OldWorkInv'
    BY <1>1, <1>2, <1>3, KeepOldWork
  <1> QED
    BY <1>4, <1>5, <1>6, <1>7

\* A renewal: no copy is of the new certificate, and the old one is where it was.
LEMMA RenewInv ==
  ASSUME IInv, TypeOK', Renew
  PROVE  IInv'
  <1> USE DEF IInv
  <1>1. /\ disk \in Nat /\ disk' = disk + 1
        /\ UNCHANGED <<live, settled, rrset, age, jobfile, lock, pc, job, idx, live_hash>>
    BY JobAssumption DEF Renew, process, TypeOK, Certs
  <1>2. Copies' = Copies
    BY <1>1 DEF Copies
  <1>3. \A j \in Copies : CopyOK(j) /\ j \in Job /\ j.certificate \in Int /\ j.certificate # disk'
    <2> SUFFICES ASSUME NEW j \in Copies
                 PROVE  CopyOK(j) /\ j \in Job /\ j.certificate \in Int /\ j.certificate # disk'
      OBVIOUS
    <2>1. CopyOK(j) /\ j \in Job /\ j.certificate \in Int
      BY CopiesType, JobFields, PortsType DEF CopyInv
    <2> QED
      BY <1>1, <2>1 DEF CopyOK
  <1>4. CopyInv'
    <2> SUFFICES ASSUME NEW j \in Copies PROVE CopyOK(j)'
      BY <1>2 DEF CopyInv
    <2> QED
      BY <1>1, <1>3 DEF CopyOK
  <1>5. LockInv'
    BY <1>1 DEF LockInv
  <1>6. ProcessInv'
    <2> SUFFICES ASSUME NEW r \in Procs PROVE PhaseOK(r)' /\ WorkOK(r)'
      BY DEF ProcessInv
    <2>1. PhaseOK(r)'
      BY <1>1 DEF ProcessInv, PhaseOK
    <2>2. pc[r] # "idle" => job[r].certificate # disk'
      BY <1>3, RunningJob
    <2>3. \A c, n : PublishedBy(c, n)' <=> PublishedBy(c, n)
      BY <1>1 DEF PublishedBy
    <2>4. WorkOK(r)'
      BY <1>1, <2>2, <2>3 DEF ProcessInv, WorkOK
    <2> QED
      BY <2>1, <2>4
  <1>7. OldWorkInv'
    BY <1>2, <1>3 DEF OldWorkInv
  <1> QED
    BY <1>4, <1>5, <1>6, <1>7

\* The service re-reads the file by itself.
LEMMA ServiceRestartInv ==
  ASSUME IInv, TypeOK', ServiceRestart
  PROVE  IInv'
  <1> USE DEF IInv
  <1>1. PICK S \in SUBSET Ports : PresentFile(S)
    BY DEF ServiceRestart
  <1>2. UNCHANGED <<disk, rrset, age, jobfile, lock, pc, job, idx, live_hash>>
    BY DEF ServiceRestart, process
  <1>3. Copies' = Copies
    BY <1>2 DEF Copies
  <1>4. CopyInv'
    BY <1>1, <1>2, <1>3, PresentFileCopy, KeepCopies
  <1>5. LockInv'
    BY <1>2 DEF LockInv
  <1>6. ProcessInv'
    <2> SUFFICES ASSUME NEW r \in Procs PROVE PhaseOK(r)' /\ WorkOK(r)'
      BY DEF ProcessInv
    <2>1. PhaseOK(r)'
      BY <1>2 DEF ProcessInv, PhaseOK
    <2>2. \A c, n : PublishedBy(c, n)' <=> PublishedBy(c, n)
      BY <1>2 DEF PublishedBy
    <2>3. \A p \in Ports : live[p] = disk => live'[p] = disk
      BY <1>1 DEF PresentFile
    <2>4. WorkOK(r)'
      BY <1>2, <2>2, <2>3 DEF ProcessInv, WorkOK
    <2> QED
      BY <2>1, <2>4
  <1>7. OldWorkInv'
    BY <1>2, <1>3 DEF OldWorkInv
  <1> QED
    BY <1>4, <1>5, <1>6, <1>7

\* Time goes by: every copy counts down, and what it waits for comes closer.
LEMMA TickInv ==
  ASSUME IInv, TypeOK', Tick
  PROVE  IInv'
  <1> USE DEF IInv
  <1>1. /\ UNCHANGED <<disk, live, rrset, lock, pc, idx, live_hash>>
        /\ jobfile' = Later(jobfile)
        /\ \A r \in Procs : job'[r] = Later(job[r])
    BY DEF Tick
  <1>2. \A k \in Copies' : \E j \in Copies : k = Later(j)
    <2> SUFFICES ASSUME NEW k \in Copies' PROVE \E j \in Copies : k = Later(j)
      OBVIOUS
    <2>1. k # NoJob /\ (k = Later(jobfile) \/ \E r \in Procs : k = Later(job[r]))
      BY <1>1 DEF Copies
    <2> QED
      BY <2>1, LaterNoJob, CopiesElements
  <1>3. CopyInv'
    BY <1>2, TickCopy, CopiesType DEF CopyInv
  <1>4. LockInv'
    BY <1>1 DEF LockInv
  <1>5. ProcessInv'
    <2> SUFFICES ASSUME NEW r \in Procs PROVE PhaseOK(r)' /\ WorkOK(r)'
      BY DEF ProcessInv
    <2>1. CASE pc[r] = "idle"
      <3>1. PhaseOK(r)'
        BY <1>1, <2>1 DEF ProcessInv, PhaseOK, Phases
      <3> QED
        BY <1>1, <2>1, <3>1 DEF WorkOK
    <2>2. CASE pc[r] # "idle"
      <3>1. PICK j \in Job, k \in Job :
               /\ j = job[r] /\ k = job'[r]
               /\ j.certificate \in Certs /\ j.reload_after \in Nat
               /\ k.certificate = j.certificate /\ k.phase = j.phase
               /\ k.reload_after = IF j.reload_after = 0 THEN 0 ELSE j.reload_after - 1
        BY <1>1, <2>2, RunningJob, LaterFields
      <3>2. PublishedBy(j.certificate, j.reload_after) => PublishedBy(j.certificate, k.reload_after)'
        BY <3>1, TickPublished
      <3>3. PhaseOK(r)'
        BY <1>1, <3>1 DEF ProcessInv, PhaseOK
      <3>4. WorkOK(r)'
        BY <1>1, <3>1, <3>2 DEF ProcessInv, WorkOK
      <3> QED
        BY <3>3, <3>4
    <2> QED
      BY <2>1, <2>2
  <1>6. OldWorkInv'
    <2> SUFFICES ASSUME NEW r \in Procs, pc[r] \in Executing \ {"check"},
                        job'[r].certificate # disk, NEW k \in Copies', k.certificate = disk
                 PROVE  k.phase = "publish"
      BY <1>1 DEF OldWorkInv
    <2>1. job'[r].certificate = job[r].certificate
      BY <1>1, RunningJob, LaterFields DEF Executing
    <2>2. PICK j \in Copies : k = Later(j)
      BY <1>2
    <2>3. j.certificate = k.certificate /\ j.phase = k.phase
      BY <2>2, CopiesType, LaterFields
    <2> QED
      BY <2>1, <2>3 DEF OldWorkInv
  <1> QED
    BY <1>3, <1>4, <1>5, <1>6

-----------------------------------------------------------------------------
(* The invariant, and the theorems it was made for.                          *)

LEMMA IInvInit == Init => IInv
  <1> SUFFICES ASSUME Init PROVE IInv
    OBVIOUS
  <1>1. Copies = {}
    BY DEF Init, Copies
  <1>2. CopyInv /\ OldWorkInv
    BY <1>1 DEF CopyInv, OldWorkInv, Init, Executing
  <1>3. LockInv
    BY ConstantsAssumption DEF Init, LockInv, Executing
  <1>4. ProcessInv
    BY DEF Init, ProcessInv, PhaseOK, WorkOK, Phases
  <1> QED
    BY <1>2, <1>3, <1>4, TypeInit DEF IInv

LEMMA IInvNext == ReloadEffective /\ IInv /\ [Next]_vars => IInv'
  <1> SUFFICES ASSUME ReloadEffective, IInv, [Next]_vars PROVE IInv'
    OBVIOUS
  <1>1. TypeOK'
    BY TypeNext DEF IInv
  <1>2. ASSUME NEW q \in Procs, Resume(q) \/ Progress(q) \/ Fault(q) PROVE IInv'
    BY <1>1, <1>2, LoadInv, AcquireInv, LookInv, PublishPortInv, PublishedInv, DeployedInv,
       WakeInv, RunReloadInv, PrunePortInv, LeaveInv DEF Progress
  <1>3. ASSUME Command PROVE IInv'
    BY <1>1, <1>3, LoadInv, ScheduleInv, RenewInv, ServiceRestartInv DEF Command
  <1>4. ASSUME Tick PROVE IInv'
    BY <1>1, <1>4, TickInv
  <1>5. ASSUME UNCHANGED vars PROVE IInv'
    <2>1. Copies' = Copies
      BY <1>5 DEF vars, Copies
    <2>2. \A j : CopyOK(j)' <=> CopyOK(j)
      BY <1>5, SameWorld DEF vars, world
    <2>3. ProcessInv'
      BY <1>5, SameWorld DEF IInv, vars, world, ProcessInv, PhaseOK, WorkOK
    <2> QED
      BY <1>1, <1>5, <2>1, <2>2, <2>3 DEF IInv, vars, CopyInv, LockInv, OldWorkInv
  <1> QED
    BY <1>2, <1>3, <1>4, <1>5 DEF Next

\* A process at --reload has waited until every client has heard of the certificate.
LEMMA IInvReloadSafe == IInv => ReloadSafe
  <1> SUFFICES ASSUME IInv, NEW q \in Procs, pc[q] = "reload", NEW p \in Ports
               PROVE  Visible(p, job[q].certificate)
    BY DEF ReloadSafe
  <1>1. job[q] \in Copies /\ job[q].certificate \in Certs
    BY RunningJob DEF IInv
  <1>2. job[q].phase = "reload" /\ PublishedBy(job[q].certificate, job[q].reload_after)
    BY DEF IInv, ProcessInv, PhaseOK, WorkOK, Phases
  <1>3. job[q].reload_after = 0
    BY <1>1, <1>2 DEF IInv, CopyInv, CopyOK
  <1>4. age[p][job[q].certificate] \in Nat /\ age[p][job[q].certificate] <= Window
    BY <1>1, WindowAssumption DEF IInv, TypeOK
  <1> QED
    BY <1>2, <1>3, <1>4, WindowAssumption DEF PublishedBy, Visible

LEMMA IInvPruneSettled == IInv => PruneSettled
  <1> SUFFICES ASSUME IInv, NEW q \in Procs, pc[q] \in {"prune", "pruning"}, NEW p \in Ports,
                      live[p] = job[q].certificate
               PROVE  settled[p] = Wait
    BY DEF PruneSettled
  <1>1. job[q] \in Copies
    BY RunningJob DEF IInv
  <1>2. job[q].phase = "prune"
    BY DEF IInv, ProcessInv, PhaseOK, Phases
  <1>3. job[q].prune_after = 0 /\ settled[p] + job[q].prune_after >= Wait
    BY <1>1, <1>2 DEF IInv, CopyInv, CopyOK, CertDeployed
  <1>4. settled[p] \in Nat /\ settled[p] <= Wait
    BY WaitType DEF IInv, TypeOK
  <1> QED
    BY <1>3, <1>4, WaitType

\* The invariant holds in every reachable state, for any number of processes, ports
\* and renewals, if a --reload that exits 0 has the service present the file.
THEOREM Invariance == ReloadEffective => (Spec => []IInv)
  <1> SUFFICES ASSUME ReloadEffective PROVE Spec => []IInv
    OBVIOUS
  <1>1. IInv /\ [Next]_vars => IInv'
    BY IInvNext
  <1> QED
    BY IInvInit, <1>1, PTL DEF Spec

\* The two-TTL rule before --reload: whatever processes crash, resume and overlap, and
\* however often the file is renewed meanwhile, execute_rollover reaches run_reload only
\* when every answer a client can hold contains the hash of its job.
THEOREM ReloadSafety == ReloadEffective => (Spec => []ReloadSafe)
  BY Invariance, IInvReloadSafe, PTL

\* The two-TTL rule before prune: a port that presents the job's certificate when the
\* prune loop of execute_rollover comes to it has presented it for two TTLs.
THEOREM PruneSafety == ReloadEffective => (Spec => []PruneSettled)
  BY Invariance, IInvPruneSettled, PTL

=============================================================================
