------------------------- MODULE RolloverLockProofs -------------------------
(* The lock of a job: what holds however acquire_in's calls interleave, and  *)
(* what holds as long as no lock is made while another one is removed.       *)
EXTENDS RolloverLock, TLAPS

LEMMA TypeInit == Init => TypeOK
  <1> SUFFICES ASSUME Init PROVE TypeOK
    OBVIOUS
  <1>1. 1 \in 1..Attempts /\ "unborn" \in Alive \union Over \union {"unborn"}
    BY DEF Attempts
  <1>2. /\ dir \in BOOLEAN
        /\ file \in {"none", "empty", "written"}
        /\ pid \in Procs \union {NoProc}
        /\ writers \subseteq Procs
        /\ file # "none" => dir
        /\ writers # {} => file # "none"
    BY DEF Init
  <1>3. /\ pc \in [Procs -> Alive \union Over \union {"unborn"}]
        /\ attempt \in [Procs -> 1..Attempts]
    BY <1>1 DEF Init
  <1>4. /\ seen \in [Procs -> Procs \union {NoProc}]
        /\ met \in [Procs -> BOOLEAN]
        /\ raced \in BOOLEAN
    BY DEF Init
  <1> QED
    BY <1>2, <1>3, <1>4 DEF TypeOK

LEMMA TypeNext == TypeOK /\ [Next]_vars => TypeOK'
  <1> SUFFICES ASSUME TypeOK, [Next]_vars PROVE TypeOK'
    OBVIOUS
  <1> USE DEF TypeOK, Goto, fs, local, UnlinkPid, RemoveDir, Attempts
  <1>1. ASSUME NEW q \in Procs, Start(q) PROVE TypeOK'
    BY <1>1 DEF Start, Running, Alive, Acquiring
  <1>2. ASSUME NEW q \in Procs, CreateDir(q) \/ AlreadyExists(q) \/ OpenPid(q) \/ OpenFails(q)
                                \/ IoError(q) \/ WritePid(q) \/ Drop(q) \/ DropUnlink(q) \/ DropRmdir(q)
                                \/ ReclaimUnlink(q) \/ Die(q)
        PROVE  TypeOK'
    BY <1>2 DEF CreateDir, AlreadyExists, OpenPid, OpenFails, IoError, WritePid, Drop, DropUnlink,
                DropRmdir, ReclaimUnlink, Die, Alive, Acquiring, Dropping, Over
  <1>3. ASSUME NEW q \in Procs, ReadPid(q) \/ Probe(q) PROVE TypeOK'
    BY <1>3 DEF ReadPid, Probe, Alive, Acquiring, Over
  <1>4. ASSUME NEW q \in Procs, ReclaimRmdir(q) PROVE TypeOK'
    <2>1. attempt' \in [Procs -> 1..3] /\ pc' \in [Procs -> Alive \union Over \union {"unborn"}]
      BY <1>4 DEF ReclaimRmdir, Alive, Acquiring, Over
    <2> QED
      BY <1>4, <2>1 DEF ReclaimRmdir
  <1>5. CASE UNCHANGED vars
    BY <1>5 DEF vars
  <1> QED
    BY <1>1, <1>2, <1>3, <1>4, <1>5 DEF Next, Step

\* Every variable of the lock keeps its type.
THEOREM LockTypeCorrect == Spec => []TypeOK
  BY TypeInit, TypeNext, PTL DEF Spec

-----------------------------------------------------------------------------
(* However the calls interleave.                                             *)

\* A pid is in the file only if its process holds, drops or is gone.
OrphanInv == file = "written" => pid \in Procs /\ pc[pid] \in {"held", "drop_unlink"} \union Over

LEMMA OrphanNext == TypeOK /\ OrphanInv /\ [Next]_vars => OrphanInv'
  <1> SUFFICES ASSUME TypeOK, OrphanInv, [Next]_vars PROVE OrphanInv'
    OBVIOUS
  <1> USE DEF TypeOK, OrphanInv, Goto, fs, local, UnlinkPid, RemoveDir, Over
  <1>1. ASSUME NEW q \in Procs, Start(q) PROVE OrphanInv'
    BY <1>1 DEF Start
  <1>2. ASSUME NEW q \in Procs, CreateDir(q) \/ AlreadyExists(q) \/ OpenPid(q) \/ OpenFails(q)
                                \/ IoError(q) \/ WritePid(q) \/ Drop(q) \/ DropUnlink(q) \/ DropRmdir(q)
                                \/ ReclaimUnlink(q) \/ Die(q)
        PROVE  OrphanInv'
    BY <1>2 DEF CreateDir, AlreadyExists, OpenPid, OpenFails, IoError, WritePid, Drop, DropUnlink,
                DropRmdir, ReclaimUnlink, Die
  <1>3. ASSUME NEW q \in Procs, ReadPid(q) \/ Probe(q) \/ ReclaimRmdir(q) PROVE OrphanInv'
    BY <1>3 DEF ReadPid, Probe, ReclaimRmdir
  <1>4. CASE UNCHANGED vars
    BY <1>4 DEF vars
  <1> QED
    BY <1>1, <1>2, <1>3, <1>4 DEF Next, Step

\* A lock that names a living process belongs to it, for any number of processes in
\* acquire_in and Drop at once: what nobody minds can be reclaimed.
THEOREM NoOrphanHolds == Spec => []NoOrphan
  <1>1. Init => OrphanInv
    BY DEF Init, OrphanInv
  <1>2. OrphanInv => NoOrphan
    BY DEF OrphanInv, NoOrphan, Running, Alive, Acquiring, Dropping, Over
  <1> QED
    BY <1>1, <1>2, TypeInit, TypeNext, OrphanNext, PTL DEF Spec

-----------------------------------------------------------------------------
(* As long as nobody makes a lock while another process judges or removes    *)
(* one.                                                                      *)

Holding == {"held", "drop_unlink"}

\* Who makes the lock is alone with it, who holds it is named by it, and nobody who is
\* about to remove one has taken the holder for dead.
Orderly ==
    /\ \A q, r \in Procs :
          q # r /\ pc[q] \in Making => pc[r] \notin Making \union Holding \union Removing
    /\ \A q \in Procs : pc[q] \in Making => dir
    /\ \A q \in Procs : pc[q] = "write" => file # "none" /\ q \in writers
    /\ \A q \in Procs : pc[q] \in Holding => dir /\ file = "written" /\ pid = q
    /\ \A q, r \in Procs : pc[q] \in {"unlink", "rmdir"} => pc[r] \notin Holding
    /\ \A q, r \in Procs : pc[q] = "probe" /\ pc[r] \in Holding => seen[q] = r

RaceInv == ~raced => Orderly

LEMMA RaceNext == TypeOK /\ RaceInv /\ [Next]_vars => RaceInv'
  <1> SUFFICES ASSUME TypeOK, RaceInv, [Next]_vars, ~raced' PROVE Orderly'
    BY DEF RaceInv
  <1>0. CASE UNCHANGED vars
    BY <1>0 DEF vars, RaceInv, Orderly
  <1>N. CASE Next
    <2>1. PICK p \in Procs : Start(p) \/ Step(p) \/ Die(p)
      BY <1>N DEF Next
    <2>2. ~raced /\ ~Race'
      BY <2>1 DEF Start, Step, Die, CreateDir, AlreadyExists, OpenPid, OpenFails, IoError, WritePid,
                  ReadPid, Probe, ReclaimUnlink, ReclaimRmdir, Drop, DropUnlink, DropRmdir, Goto
    <2>3. Orderly
      BY <2>2 DEF RaceInv
    <2>4. \A q, r \in Procs : q # r /\ pc'[q] \in Making => pc'[r] \notin Removing
      BY <2>2 DEF Race
    <2> USE DEF TypeOK, Orderly, Goto, fs, local, UnlinkPid, RemoveDir, Making, Holding, Removing
    <2>5. CASE Start(p)
      BY <2>3, <2>4, <2>5 DEF Start
    <2>6. CASE CreateDir(p)
      BY <2>3, <2>4, <2>6 DEF CreateDir
    <2>7. CASE AlreadyExists(p) \/ OpenFails(p) \/ IoError(p)
      BY <2>3, <2>4, <2>7 DEF AlreadyExists, OpenFails, IoError
    <2>8. CASE OpenPid(p)
      BY <2>3, <2>4, <2>8 DEF OpenPid
    <2>9. CASE WritePid(p)
      BY <2>3, <2>4, <2>9 DEF WritePid
    <2>10. CASE ReadPid(p)
      <3>1. /\ \A r \in Procs : r # p => pc'[r] = pc[r] /\ seen'[r] = seen[r]
            /\ pc[p] = "read" /\ pc'[p] \in {"probe", "unlink"}
            /\ pc'[p] = "probe" => file = "written" /\ seen'[p] = pid
            /\ pc'[p] = "unlink" => file # "written"
            /\ UNCHANGED <<dir, file, pid, writers>>
        BY <2>10 DEF ReadPid
      <3> QED
        BY <2>3, <2>4, <3>1
    <2>11. CASE Probe(p)
      <3>1. /\ \A r \in Procs : r # p => pc'[r] = pc[r] /\ seen'[r] = seen[r]
            /\ pc[p] = "probe" /\ pc'[p] \in {"refused", "unlink"}
            /\ UNCHANGED <<dir, file, pid, writers>>
        BY <2>11 DEF Probe
      <3>2. pc'[p] = "unlink" => ~Running(seen[p])
        BY <2>11 DEF Probe
      <3>3. \A r \in Procs : pc[r] \in Holding => pc'[p] # "unlink"
        BY <2>3, <3>1, <3>2 DEF Running, Alive, Dropping
      <3> QED
        BY <2>3, <2>4, <3>1, <3>3
    <2>12. CASE ReclaimUnlink(p)
      BY <2>3, <2>4, <2>12 DEF ReclaimUnlink
    <2>13. CASE ReclaimRmdir(p)
      <3>1. /\ \A r \in Procs : r # p => pc'[r] = pc[r]
            /\ pc[p] = "rmdir" /\ pc'[p] \in {"create", "refused"}
            /\ seen' = seen /\ dir' = (dir /\ file # "none")
            /\ UNCHANGED <<file, pid, writers>>
        BY <2>13 DEF ReclaimRmdir
      <3> QED
        BY <2>3, <2>4, <3>1
    <2>14. CASE Drop(p) \/ DropUnlink(p)
      BY <2>3, <2>4, <2>14 DEF Drop, DropUnlink
    <2>15. CASE DropRmdir(p)
      BY <2>3, <2>4, <2>15 DEF DropRmdir
    <2>16. CASE Die(p)
      BY <2>3, <2>4, <2>16 DEF Die
    <2> QED
      BY <2>1, <2>5, <2>6, <2>7, <2>8, <2>9, <2>10, <2>11, <2>12, <2>13, <2>14, <2>15, <2>16 DEF Step
  <1> QED
    BY <1>0, <1>N

LEMMA RaceInvariance == Spec => [](TypeOK /\ RaceInv)
  <1>1. Init => RaceInv
    BY DEF Init, RaceInv, Orderly, Making, Holding
  <1> QED
    BY <1>1, TypeInit, TypeNext, RaceNext, PTL DEF Spec

\* For any number of processes that start, hold, drop and die at any time: two of them
\* execute a job together only after a lock was made while another process judged or
\* removed one.
THEOREM Exclusion == Spec => []ExclusiveUnlessRaced
  <1>1. RaceInv => ExclusiveUnlessRaced
    BY DEF RaceInv, Orderly, ExclusiveUnlessRaced, MutualExclusion, Holding
  <1> QED
    BY <1>1, RaceInvariance, PTL

\* Until that happens the lock of a job that is executed names the process that executes it.
THEOREM HolderIsNamed == Spec => []NamedUnlessRaced
  <1>1. RaceInv => NamedUnlessRaced
    BY DEF RaceInv, Orderly, NamedUnlessRaced, Holding
  <1> QED
    BY <1>1, RaceInvariance, PTL

-----------------------------------------------------------------------------
(* What the dead leave behind.                                               *)

\* A process that meets no other one gets the lock in its second attempt at the latest.
AloneOK(q) ==
    pc[q] \in Acquiring /\ ~met[q] =>
        /\ \A r \in Procs : r # q => ~Running(r)
        /\ pc[q] = "create" => attempt[q] = 1 \/ (attempt[q] = 2 /\ ~dir)
        /\ pc[q] \in {"read", "probe", "unlink", "rmdir"} => attempt[q] = 1
        /\ pc[q] = "probe" => seen[q] \in Procs \ {q}
        /\ pc[q] = "rmdir" => file = "none"
        /\ pc[q] = "open" => dir

AloneAt(q) ==
    /\ AloneOK(q)
    /\ pc[q] \in {"refused", "failed"} => met[q]
    /\ pc[q] = "unborn" => attempt[q] = 1

AloneInv == \A q \in Procs : AloneAt(q)

LEMMA AloneNext == TypeOK /\ OrphanInv /\ AloneInv /\ [Next]_vars => AloneInv'
  <1> SUFFICES ASSUME TypeOK, OrphanInv, AloneInv, [Next]_vars, NEW r \in Procs
               PROVE  AloneAt(r)'
    BY DEF AloneInv
  <1> USE DEF TypeOK, AloneInv, AloneAt, AloneOK, Goto, fs, local, UnlinkPid, RemoveDir, Acquiring,
              Dropping, Alive, Over, Running
  <1>1. ASSUME NEW q \in Procs, Start(q) PROVE AloneAt(r)'
    BY <1>1 DEF Start
  <1>2. ASSUME NEW q \in Procs, CreateDir(q) PROVE AloneAt(r)'
    BY <1>2 DEF CreateDir
  <1>3. ASSUME NEW q \in Procs, AlreadyExists(q) \/ OpenFails(q) \/ IoError(q) PROVE AloneAt(r)'
    BY <1>3 DEF AlreadyExists, OpenFails, IoError, Making
  <1>4. ASSUME NEW q \in Procs, OpenPid(q) PROVE AloneAt(r)'
    BY <1>4 DEF OpenPid
  <1>5. ASSUME NEW q \in Procs, WritePid(q) PROVE AloneAt(r)'
    BY <1>5 DEF WritePid
  <1>6. ASSUME NEW q \in Procs, ReadPid(q) PROVE AloneAt(r)'
    <2>1. /\ \A s \in Procs : s # q => pc'[s] = pc[s] /\ seen'[s] = seen[s]
          /\ pc[q] = "read"
          /\ pc'[q] \in {"probe", "unlink"}
          /\ pc'[q] = "probe" => seen'[q] \in Procs \ {q}
          /\ UNCHANGED <<dir, file, pid, writers, attempt, met>>
      BY <1>6 DEF ReadPid, OrphanInv
    <2>2. \A s \in Procs : Running(s)' => Running(s)
      BY <2>1
    <2>3. CASE r = q
      BY <2>1, <2>2, <2>3
    <2>4. CASE r # q
      BY <2>1, <2>2, <2>4
    <2> QED
      BY <2>3, <2>4
  <1>7. ASSUME NEW q \in Procs, Probe(q) PROVE AloneAt(r)'
    <2>1. /\ \A s \in Procs : s # q => pc'[s] = pc[s] /\ seen'[s] = seen[s]
          /\ pc[q] = "probe" /\ pc'[q] \in {"refused", "unlink"}
          /\ UNCHANGED <<dir, file, pid, writers, attempt, met>>
      BY <1>7 DEF Probe
    <2>2. pc'[q] = "refused" => met[q]
      BY <1>7 DEF Probe
    <2>3. \A s \in Procs : Running(s)' => Running(s)
      BY <2>1
    <2>4. CASE r = q
      BY <2>1, <2>2, <2>3, <2>4
    <2>5. CASE r # q
      BY <2>1, <2>3, <2>5
    <2> QED
      BY <2>4, <2>5
  <1>8. ASSUME NEW q \in Procs, ReclaimUnlink(q) PROVE AloneAt(r)'
    BY <1>8 DEF ReclaimUnlink
  <1>9. ASSUME NEW q \in Procs, ReclaimRmdir(q) PROVE AloneAt(r)'
    <2>1. /\ \A s \in Procs : s # q => pc'[s] = pc[s] /\ attempt'[s] = attempt[s]
          /\ pc[q] = "rmdir" /\ pc'[q] \in {"create", "refused"}
          /\ dir' = (dir /\ file # "none")
          /\ UNCHANGED <<file, pid, writers, seen, met>>
      BY <1>9 DEF ReclaimRmdir
    <2>2. ~met[q] => pc'[q] = "create" /\ attempt'[q] = 2 /\ ~dir'
      BY <1>9 DEF ReclaimRmdir, Attempts
    <2>3. \A s \in Procs : Running(s)' => Running(s)
      BY <2>1
    <2>4. CASE r = q
      BY <2>1, <2>2, <2>3, <2>4
    <2>5. CASE r # q
      <3>1. CASE pc[r] \in Acquiring /\ ~met[r]
        BY <2>1, <2>5, <3>1
      <3>2. CASE ~(pc[r] \in Acquiring /\ ~met[r])
        BY <2>1, <2>5, <3>2
      <3> QED
        BY <3>1, <3>2
    <2> QED
      BY <2>4, <2>5
  <1>10. ASSUME NEW q \in Procs, Drop(q) \/ DropUnlink(q) \/ DropRmdir(q) PROVE AloneAt(r)'
    BY <1>10 DEF Drop, DropUnlink, DropRmdir
  <1>11. ASSUME NEW q \in Procs, Die(q) PROVE AloneAt(r)'
    BY <1>11 DEF Die
  <1>12. CASE UNCHANGED vars
    BY <1>12 DEF vars
  <1> HIDE DEF TypeOK, AloneInv, AloneAt, AloneOK, Goto, fs, local, UnlinkPid, RemoveDir,
               Acquiring, Dropping, Alive, Over, Running
  <1>13. CASE Next
    <2>1. PICK q \in Procs : Start(q) \/ Step(q) \/ Die(q)
      BY <1>13 DEF Next
    <2>2. CASE Step(q)
      BY <1>2, <1>3, <1>4, <1>5, <1>6, <1>7, <1>8, <1>9, <1>10, <2>2 DEF Step
    <2> QED
      BY <1>1, <1>11, <2>1, <2>2
  <1> QED
    BY <1>12, <1>13

\* A process that meets no other one is never refused, and never fails, whatever state
\* of the directory and the pid file the dead ones left: lock_is_stale finds them out
\* and the three attempts are enough.
THEOREM DeadNeverBlockHolds == Spec => []DeadNeverBlock
  <1>1. Init => OrphanInv /\ AloneInv
    BY DEF Init, OrphanInv, AloneInv, AloneAt, AloneOK, Acquiring
  <1>2. AloneInv => DeadNeverBlock
    BY DEF AloneInv, AloneAt, DeadNeverBlock
  <1> QED
    BY <1>1, <1>2, TypeInit, TypeNext, OrphanNext, AloneNext, PTL DEF Spec

=============================================================================
