---------------------------- MODULE ResumeProofs ----------------------------
(* Proofs about Resume, for any number of jobs, ports and renewals, any TTL, *)
(* any limit, and whatever the other processes and the power do.             *)
EXTENDS Resume, RolloverJobProofs

\* While a resume is at its list, its exit code tells whether a job before the current one
\* is left over.
ExitInv ==
    /\ ExitTruth
    /\ pc \notin Ended =>
          /\ queue \union ({cur} \ {0}) \subseteq left
          /\ (code = 0) = (left = queue \union ({cur} \ {0}))

\* A job that has slept or reloaded has the whole budget, but in the sleep and the reload.
RearmInv ==
    /\ cur = 0 \/ dry => ~fresh
    /\ pc = "asleep" => ~dry
    /\ cur # 0 /\ fresh /\ nature[cur] = "prompt" /\ pc \notin {"reload", "asleep"} => elapsed = 0

\* What a record of job j, in its file or in a copy of it, may be relied on for.
Says(j, x) ==
    /\ x.certificate <= disk[j]
    /\ nature[j] # "rehearsed" /\ j \notin vain /\ x.certificate = disk[j] =>
          /\ x.phase # "publish" => done[j] = Ports
          /\ x.phase \in {"wait_before_prune", "prune"} => j \in deployed

RecordsInv ==
    /\ \A j \in Jobs : file[j] \in Job =>
           (file[j].certificate = disk[j] \/ j \in vain) /\ Says(j, file[j])
    /\ \A j \in Jobs : copy[j] \in Job => Says(j, copy[j])

\* Where the resume is in its current job agrees with its copy and with the world.
Place ==
    /\ pc \in Phases => copy[cur].phase = pc
    /\ pc \in {"looking", "not_live"} => copy[cur].phase = "wait_before_reload"
    /\ pc = "asleep" => copy[cur].phase \in {"wait_before_reload", "wait_before_prune"}
    /\ pc \in {"fetching", "pruning"} => copy[cur].phase = "prune"
    /\ cur \notin vain =>
          /\ pc = "publish" => 1..(idx - 1) \subseteq done[cur]
          /\ pc \in {"wait_before_reload", "looking"} /\ idx > 1 => cur \in deployed

CurrentInv ==
    /\ pc \in Executing \ {"check"} => copy[cur].certificate = disk[cur] \/ cur \in vain
    /\ pc \in Ended => queue = {}
    /\ dry => \A j \in queue \union ({cur} \ {0}) : nature[j] = "rehearsed"
    /\ ~dry => Place

-----------------------------------------------------------------------------
(* Types.                                                                    *)

LEMMA Constants ==
  /\ NJobs \in Nat /\ NPorts \in Nat /\ NPorts >= 1 /\ Limit \in Nat /\ Limit >= 1 /\ MaxCert \in Nat
  /\ 0 \notin Jobs /\ Jobs \subseteq Nat
  /\ NoJob \notin Job /\ Torn \notin Job /\ Torn # NoJob
  BY ResumeAssumption, TimeoutAssumption, JobAssumption DEF Jobs

\* What is known of the job that is executed.
LEMMA Executed ==
  ASSUME TypeOK, pc \in Executing
  PROVE  /\ cur \in Jobs /\ cur \notin queue /\ cur \notin elsewhere
         /\ copy[cur] \in Job
         /\ pc \notin Ended /\ pc # "next"
  BY Constants DEF TypeOK, Executing, Ended, Phases, Calls

\* The moves of a job stay in the type.
LEMMA Moves ==
  ASSUME NEW j \in Job
  PROVE  /\ {mark_published(j), mark_waiting_reload(j), mark_reloaded(j), mark_ready_to_prune(j), Later(j)}
               \subseteq Job
         /\ j.phase \in Phases
  BY MarkPublished, MarkWaitingReload, MarkReloaded, MarkReadyToPrune, LaterFields, JobFields

\* Where a process is between two jobs, or when it is over.
LEMMA Between ==
  ASSUME NEW l \in Ended \union {"next"}
  PROVE  /\ l \in Executing \union Ended \union {"next"}
         /\ l \notin Executing /\ l \notin Calls \union {"pruning"}
  BY DEF Executing, Ended, Phases, Calls

LEMMA PersistType ==
  ASSUME TypeOK, pc \in Executing, NEW k \in Job, Persist(k)
  PROVE  /\ copy' \in [Jobs -> Job \union {NoJob}]
         /\ file' \in [Jobs -> Job \union {NoJob, Torn}]
         /\ \A j \in queue \union ({cur} \ {0}) : copy'[j] # NoJob
  BY Executed, Constants DEF TypeOK, Persist

\* A job that ends leaves the resume between two jobs.
LEMMA JobEndsType ==
  ASSUME TypeOK, pc \in Executing, NEW c \in 0..1, JobEnds(c),
         UNCHANGED <<nature, disk, elsewhere, dry, queue>>,
         done' \in [Jobs -> SUBSET Ports], deployed' \subseteq Jobs, vain' \subseteq Jobs,
         file' \in [Jobs -> Job \union {NoJob, Torn}], elapsed' \in 0..Limit
  PROVE  TypeOK'
  <1>1. cur' = 0 /\ idx' = 1 /\ wait' = 0 /\ fresh' = FALSE /\ pc' = "next"
    BY DEF JobEnds
  <1>2. /\ copy' \in [Jobs -> Job \union {NoJob}]
        /\ \A j \in queue : copy'[j] # NoJob
    BY Executed, Constants DEF JobEnds, TypeOK
  <1>3. code' \in 0..1 /\ left' \subseteq Jobs
    BY DEF JobEnds, TypeOK
  <1>4. idx' \in 1..(NPorts + 1) /\ wait' \in 0..Limit /\ cur' \notin elsewhere \union queue
    BY <1>1, Constants DEF TypeOK
  <1>5. pc' \in Executing \union Ended \union {"next"} /\ (pc' \in Executing <=> cur' # 0)
        /\ pc' \notin Calls \union {"pruning"}
    BY <1>1, Between
  <1> QED
    BY <1>1, <1>2, <1>3, <1>4, <1>5 DEF TypeOK

\* A process that goes leaves nothing.
LEMMA GoneType ==
  ASSUME TypeOK, NEW l \in {"aborted", "killed"}, Gone(l), UNCHANGED <<world, dry>>,
         elsewhere' \subseteq elsewhere, file' \in [Jobs -> Job \union {NoJob, Torn}]
  PROVE  TypeOK'
  <1>1. /\ copy' \in [Jobs -> Job \union {NoJob}] /\ idx' \in 1..(NPorts + 1)
        /\ elapsed' \in 0..Limit /\ wait' \in 0..Limit /\ cur' \notin elsewhere' \union queue'
    BY Constants DEF Gone, TypeOK
  <1>2. pc' \in Executing \union Ended \union {"next"} /\ (pc' \in Executing <=> cur' # 0)
        /\ pc' \notin Calls \union {"pruning"}
    BY Between DEF Gone, Ended
  <1>3. queue' = {} /\ left' = {} /\ code' = 1 /\ fresh' = FALSE /\ cur' = 0
    BY DEF Gone
  <1>4. \A j \in queue' \union ({cur'} \ {0}) : copy'[j] # NoJob
    BY <1>3
  <1>5. /\ nature' \in Mixes /\ disk' \in [Jobs -> Certs]
        /\ done' \in [Jobs -> SUBSET Ports] /\ deployed' \subseteq Jobs /\ vain' \subseteq Jobs
        /\ elsewhere' \subseteq Jobs /\ dry' \in BOOLEAN
    BY DEF TypeOK, world
  <1>6. queue' \subseteq Jobs /\ left' \subseteq Jobs /\ cur' \in Jobs \union {0}
        /\ code' \in 0..1
    BY <1>3
  <1>7. fresh' \in BOOLEAN
    BY <1>3
  <1> QED
    BY <1>1, <1>2, <1>4, <1>5, <1>6, <1>7 DEF TypeOK

LEMMA TypeInit == Init => TypeOK
  <1> SUFFICES ASSUME Init PROVE TypeOK
    OBVIOUS
  <1>1. disk \in [Jobs -> Certs] /\ done \in [Jobs -> SUBSET Ports]
    BY Constants DEF Init, Certs
  <1>2. file \in [Jobs -> Job \union {NoJob, Torn}] /\ copy \in [Jobs -> Job \union {NoJob}]
    BY DEF Init
  <1>3. idx \in 1..(NPorts + 1) /\ elapsed \in 0..Limit /\ wait \in 0..Limit
    BY Constants DEF Init
  <1>4. pc \in Executing \union Ended \union {"next"} /\ (pc \in Executing <=> cur # 0)
        /\ pc \notin Calls \union {"pruning"}
    BY Between DEF Init, Ended
  <1>5. \A j \in queue \union ({cur} \ {0}) : copy[j] # NoJob
    BY DEF Init
  <1>6. queue \subseteq Jobs /\ left \subseteq Jobs /\ cur \in Jobs \union {0}
        /\ code \in 0..1 /\ cur \notin elsewhere \union queue
    BY DEF Init
  <1>7. fresh \in BOOLEAN /\ dry \in BOOLEAN /\ nature \in Mixes
        /\ deployed \subseteq Jobs /\ vain \subseteq Jobs /\ elsewhere \subseteq Jobs
    BY DEF Init
  <1> QED
    BY <1>1, <1>2, <1>3, <1>4, <1>5, <1>6, <1>7 DEF TypeOK
\* A step inside a job.
LEMMA GoesOnType ==
  ASSUME TypeOK, pc \in Executing, SameJob, pc' \in Executing,
         UNCHANGED <<nature, disk>>, done' \in [Jobs -> SUBSET Ports], deployed' \subseteq Jobs,
         vain' \subseteq Jobs,
         \/ UNCHANGED <<copy, file>>
         \/ \E k \in Job : Persist(k),
         idx' \in 1..(NPorts + 1), pc' \in Calls \union {"pruning"} => idx' <= NPorts,
         fresh' \in BOOLEAN, elapsed' \in 0..Limit, wait' \in 0..Limit
  PROVE  TypeOK'
  <1>1. /\ copy' \in [Jobs -> Job \union {NoJob}]
        /\ file' \in [Jobs -> Job \union {NoJob, Torn}]
        /\ \A j \in queue \union ({cur} \ {0}) : copy'[j] # NoJob
    <2>1. CASE UNCHANGED <<copy, file>>
      BY <2>1 DEF TypeOK
    <2>2. CASE \E k \in Job : Persist(k)
      BY <2>2, PersistType
    <2> QED
      BY <2>1, <2>2
  <1>2. UNCHANGED <<elsewhere, dry, queue, cur, code, left>>
    BY DEF SameJob
  <1>3. cur # 0 /\ pc' \in Executing \union Ended \union {"next"}
    BY DEF TypeOK
  <1> QED
    BY <1>1, <1>2, <1>3 DEF TypeOK

\* What Goto does, and what the waits come to.
LEMMA GotoType ==
  ASSUME NEW l \in Phases \union {"not_live", "asleep"}, Goto(l)
  PROVE  /\ pc' \in Executing /\ pc' = l /\ idx' = 1
         /\ idx' \in 1..(NPorts + 1) /\ pc' \notin Calls \union {"pruning"}
  BY Constants DEF Goto, Executing, Phases, Calls

LEMMA WaitedType ==
  ASSUME TypeOK, pc \in Executing, Waited
  PROVE  /\ \E k \in Job : Persist(k)
         /\ pc' \in {"reload", "prune"} /\ pc' \in Executing
         /\ idx' \in 1..(NPorts + 1) /\ pc' \notin Calls \union {"pruning"}
  <1>1. copy[cur] \in Job
    BY Executed
  <1>2. CASE copy[cur].phase = "wait_before_reload"
    BY <1>1, <1>2, Moves, GotoType DEF Waited, Goto, Phases
  <1>3. CASE copy[cur].phase # "wait_before_reload"
    BY <1>1, <1>3, Moves, GotoType DEF Waited, Goto, Phases
  <1> QED
    BY <1>2, <1>3

\* The steps that leave the resume in its job.
InJob ==
    \/ Check \/ Publish \/ Published \/ Look \/ PortLive \/ NotLive \/ AlreadyLive \/ NoWait \/ Sleep
    \/ Wake \/ RunReload \/ DryReload \/ Fetch \/ Fetched \/ Prune

LEMMA TypeInJob ==
  ASSUME TypeOK, InJob
  PROVE  TypeOK'
  <1> DEFINE Kept == UNCHANGED <<copy, file>> \/ \E k \in Job : Persist(k)
             Typed == /\ pc \in Executing /\ SameJob /\ pc' \in Executing
                      /\ UNCHANGED <<nature, disk>>
                      /\ done' \in [Jobs -> SUBSET Ports]
                      /\ deployed' \subseteq Jobs /\ vain' \subseteq Jobs
                      /\ idx' \in 1..(NPorts + 1)
                      /\ pc' \in Calls \union {"pruning"} => idx' <= NPorts
                      /\ elapsed' \in 0..Limit /\ wait' \in 0..Limit
  <1>0. /\ done \in [Jobs -> SUBSET Ports] /\ deployed \subseteq Jobs /\ vain \subseteq Jobs
        /\ idx \in 1..(NPorts + 1) /\ elapsed \in 0..Limit /\ wait \in 0..Limit
        /\ fresh \in BOOLEAN
        /\ pc \in Calls \union {"pruning"} => idx <= NPorts
    BY DEF TypeOK
  <1>a. Phases \union Calls \union {"check", "not_live", "asleep", "pruning"} = Executing
    BY DEF Executing
  <1>b. {"publish", "wait_before_reload", "reload", "wait_before_prune", "prune"} = Phases
        /\ Calls = {"looking", "fetching"}
    BY DEF Phases, Calls
  <1>c. 0 \in 0..Limit
    BY Constants
  <1>1. CASE Check
    <2>1. copy[cur].phase \in Phases
      BY <1>1, <1>a, Executed, Moves DEF Check
    <2>2. Typed
      BY <1>1, <1>0, <1>a, <2>1, GotoType DEF Check, world, budget
    <2> QED
      BY <1>1, <1>0, <2>2, GoesOnType DEF Check
  <1>2. CASE Publish
    <2>1. Typed
      <3>1. idx \in Ports /\ idx + 1 \in 1..(NPorts + 1)
        BY <1>2, <1>0, Constants DEF Publish, Ports
      <3> QED
        BY <1>2, <1>0, <1>a, <1>b, <3>1 DEF Publish, budget
    <2> QED
      BY <1>2, <1>0, <2>1, GoesOnType DEF Publish
  <1>3. CASE Published
    <2>1. mark_published(copy[cur]) \in Job
      BY <1>3, <1>a, <1>b, Executed, Moves DEF Published
    <2>2. Typed
      BY <1>3, <1>0, <1>a, <1>b, GotoType DEF Published, world, budget
    <2> QED
      BY <1>3, <1>0, <2>1, <2>2, GoesOnType DEF Published
  <1>4. CASE Look
    <2>1. Typed
      <3>1. Limit - elapsed \in 0..Limit
        BY <1>0, Constants
      <3> QED
        BY <1>4, <1>0, <1>a, <1>b, <3>1 DEF Look, world, Arm
    <2> QED
      BY <1>4, <1>0, <2>1, GoesOnType DEF Look
  <1>5. CASE PortLive
    <2>1. Typed
      <3>1. idx + 1 \in 1..(NPorts + 1)
        BY <1>5, <1>0, <1>b, Constants DEF PortLive
      <3> QED
        BY <1>5, <1>0, <1>a, <1>b, <1>c, <3>1 DEF PortLive, world
    <2> QED
      BY <1>5, <1>0, <2>1, GoesOnType DEF PortLive
  <1>6. CASE NotLive
    <2>1. Typed
      BY <1>6, <1>0, <1>a, <1>b, <1>c, GotoType DEF NotLive, world
    <2> QED
      BY <1>6, <1>0, <2>1, GoesOnType DEF NotLive
  <1>7. CASE AlreadyLive
    <2>1. mark_reloaded(copy[cur]) \in Job
      BY <1>7, <1>a, <1>b, Executed, Moves DEF AlreadyLive
    <2>2. Typed
      BY <1>7, <1>0, <1>a, <1>b, GotoType DEF AlreadyLive, world, budget
    <2> QED
      BY <1>7, <1>0, <2>1, <2>2, GoesOnType DEF AlreadyLive
  <1>8. CASE NoWait
    <2>1. pc \in Executing
      BY <1>8, <1>a, <1>b DEF NoWait
    <2>2. Typed
      BY <1>8, <1>0, <2>1, WaitedType DEF NoWait, world, budget
    <2> QED
      BY <1>8, <1>0, <2>1, <2>2, WaitedType, GoesOnType DEF NoWait
  <1>9. CASE Sleep
    <2>1. Typed
      BY <1>9, <1>0, <1>a, <1>b, GotoType DEF Sleep, world, budget
    <2> QED
      BY <1>9, <1>0, <2>1, GoesOnType DEF Sleep
  <1>10. CASE Wake
    <2>1. pc \in Executing
      BY <1>10, <1>a DEF Wake
    <2>2. Typed
      BY <1>10, <1>0, <1>c, <2>1, WaitedType DEF Wake, world
    <2> QED
      BY <1>10, <2>1, <2>2, WaitedType, GoesOnType DEF Wake
  <1>11. CASE RunReload
    <2>1. mark_reloaded(copy[cur]) \in Job /\ cur \in Jobs
      BY <1>11, <1>a, <1>b, Executed, Moves DEF RunReload
    <2>2. Typed
      BY <1>11, <1>0, <1>a, <1>b, <1>c, <2>1, GotoType DEF RunReload, Reloads
    <2> QED
      BY <1>11, <2>1, <2>2, GoesOnType DEF RunReload
  <1>12. CASE DryReload
    <2>1. Typed
      BY <1>12, <1>0, <1>a, <1>b, GotoType DEF DryReload, world, budget
    <2> QED
      BY <1>12, <1>0, <2>1, GoesOnType DEF DryReload
  <1>13. CASE Fetch
    <2>1. Typed
      <3>1. Limit - elapsed \in 0..Limit
        BY <1>0, Constants
      <3> QED
        BY <1>13, <1>0, <1>a, <1>b, <3>1 DEF Fetch, world, Arm
    <2> QED
      BY <1>13, <1>0, <2>1, GoesOnType DEF Fetch
  <1>14. CASE Fetched
    <2>1. Typed
      BY <1>14, <1>0, <1>a, <1>b, <1>c DEF Fetched, world
    <2> QED
      BY <1>14, <1>0, <2>1, GoesOnType DEF Fetched
  <1>15. CASE Prune
    <2>1. Typed
      <3>1. idx + 1 \in 1..(NPorts + 1)
        BY <1>15, <1>0, <1>b, Constants DEF Prune
      <3> QED
        BY <1>15, <1>0, <1>a, <1>b, <3>1 DEF Prune, budget
    <2> QED
      BY <1>15, <1>0, <2>1, GoesOnType DEF Prune
  <1> QED
    BY <1>1, <1>2, <1>3, <1>4, <1>5, <1>6, <1>7, <1>8, <1>9, <1>10, <1>11, <1>12, <1>13, <1>14, <1>15
       DEF InJob
\* The steps that end a job.
Ends(c) ==
    IF c = 0 THEN Finished \/ DryPrune
    ELSE CertificateChanged \/ PublishFails \/ ReloadFails \/ NoTimeLeft \/ FetchFails \/ PruneFails \/ Fails

LEMMA EndsEnd ==
  ASSUME TypeOK, NEW c \in 0..1, Ends(c)
  PROVE  /\ pc \in Executing /\ JobEnds(c)
         /\ UNCHANGED <<nature, disk, elsewhere, dry, queue>>
         /\ UNCHANGED file \/ Finished
  <1>1. CASE c = 0
    BY <1>1 DEF Ends, Finished, DryPrune, Executing, Phases, world
  <1>2. CASE c = 1
    BY <1>2 DEF Ends, CertificateChanged, PublishFails, ReloadFails, NoTimeLeft, FetchFails, PruneFails,
                Fails, Executing, Phases, Calls, world
  <1> QED
    BY <1>1, <1>2

LEMMA TypeEnds ==
  ASSUME TypeOK, NEW c \in 0..1, Ends(c)
  PROVE  TypeOK'
  <1>1. cur \in Jobs /\ 0 \in 0..Limit /\ elapsed \in 0..Limit
    BY EndsEnd, Executed, Constants DEF TypeOK
  <1>2. done' \in [Jobs -> SUBSET Ports]
    <2>1. idx <= NPorts => idx \in Ports
      BY DEF TypeOK, Ports
    <2>2. CASE PublishFails
      BY <1>1, <2>1, <2>2 DEF PublishFails, TypeOK
    <2>3. CASE PruneFails
      BY <1>1, <2>3 DEF PruneFails, TypeOK
    <2>4. CASE ~PublishFails /\ ~PruneFails
      BY <2>4 DEF Ends, CertificateChanged, ReloadFails, NoTimeLeft, FetchFails, Fails, Finished,
                  DryPrune, world, TypeOK
    <2> QED
      BY <2>2, <2>3, <2>4
  <1>3. deployed' \subseteq Jobs /\ vain' \subseteq Jobs
    BY <1>1 DEF Ends, CertificateChanged, PublishFails, PruneFails, ReloadFails, NoTimeLeft, FetchFails,
                Fails, Finished, DryPrune, world, TypeOK
  <1>4. file' \in [Jobs -> Job \union {NoJob, Torn}]
    BY EndsEnd, <1>1 DEF Finished, TypeOK
  <1>5. elapsed' \in 0..Limit
    BY <1>1 DEF Ends, CertificateChanged, PublishFails, PruneFails, ReloadFails, NoTimeLeft, FetchFails,
                Fails, Finished, DryPrune
  <1> QED
    BY EndsEnd, <1>2, <1>3, <1>4, <1>5, JobEndsType

\* The steps with which a process starts, and goes from job to job.
LEMMA TypeStarts ==
  ASSUME TypeOK, NEW S \in SUBSET Jobs, Load(S) \/ NothingPending(S) \/ Unreadable(S)
  PROVE  TypeOK' /\ pc \in Ended /\ cur = 0 /\ UNCHANGED <<cur, fresh>>
  <1>1. cur = 0 /\ pc \in Ended /\ pc' \in Ended \union {"next"}
    BY Between DEF Load, NothingPending, Unreadable, Starts, TypeOK, Ended
  <1>2. pc' \in Executing \union Ended \union {"next"} /\ (pc' \in Executing <=> cur # 0)
        /\ pc' \notin Calls \union {"pruning"}
    BY <1>1, Between
  <1>3. UNCHANGED <<world, file, elsewhere, cur, idx, fresh, budget>> /\ dry' \in BOOLEAN
    BY DEF Load, NothingPending, Unreadable, Starts
  <1>4. queue' \subseteq Jobs /\ copy' \in [Jobs -> Job \union {NoJob}]
        /\ \A j \in queue' : copy'[j] # NoJob
    <2>1. CASE Load(S)
      <3>1. copy' \in [Jobs -> Job \union {NoJob}] /\ queue' = Pending(S)
        BY <2>1 DEF Load, Pending, TypeOK
      <3>2. \A j \in Pending(S) : j \in Jobs /\ file[j] \in Job /\ copy'[j] = file[j]
        BY <2>1 DEF Load, Pending
      <3> QED
        BY <3>1, <3>2, Constants
    <2>2. CASE NothingPending(S) \/ Unreadable(S)
      BY <2>2 DEF NothingPending, Unreadable, TypeOK
    <2> QED
      BY <2>1, <2>2
  <1>5. left' \subseteq Jobs
    BY DEF Load, NothingPending, Unreadable, Pending
  <1>6. code' \in 0..1
    BY DEF Load, NothingPending, Unreadable
  <1>7. cur' \notin elsewhere' \union queue' /\ \A j \in queue' \union ({cur'} \ {0}) : copy'[j] # NoJob
    BY <1>1, <1>3, <1>4, Constants DEF TypeOK
  <1> QED
    BY <1>1, <1>2, <1>3, <1>4, <1>5, <1>6, <1>7 DEF TypeOK, world, budget

LEMMA TypeBetween ==
  ASSUME TypeOK, Acquire \/ AlreadyRunning \/ AllDone
  PROVE  TypeOK' /\ pc = "next" /\ cur = 0
  <1>1. pc = "next" /\ cur = 0
    BY Between DEF Acquire, AlreadyRunning, AllDone, Turn, TypeOK
  <1>2. CASE Acquire
    <2>1. PICK j \in Jobs : Turn(j) /\ j \notin elsewhere /\ cur' = j /\ queue' = queue \ {j} /\ pc' = "check"
      BY <1>2 DEF Acquire
    <2>2. pc' \in Executing /\ cur' # 0 /\ pc' \notin Calls \union {"pruning"}
      BY <2>1, Constants DEF Executing, Calls
    <2>3. UNCHANGED <<world, file, elsewhere, dry, copy, idx, code, left, fresh, budget>>
      BY <1>2 DEF Acquire
    <2>4. \A k \in queue' \union ({cur'} \ {0}) : copy'[k] # NoJob
      BY <2>1, <2>3 DEF Turn, TypeOK
    <2> QED
      BY <1>1, <2>1, <2>2, <2>3, <2>4 DEF TypeOK, world, budget
  <1>3. CASE AlreadyRunning
    <2>1. PICK j \in Jobs : /\ queue' = queue \ {j} /\ left' = left \ {j}
                            /\ copy' = [copy EXCEPT ![j] = NoJob]
      BY <1>3 DEF AlreadyRunning
    <2>2. UNCHANGED <<world, file, elsewhere, pc, dry, cur, idx, code, fresh, budget>>
      BY <1>3 DEF AlreadyRunning
    <2>3. /\ copy' \in [Jobs -> Job \union {NoJob}]
          /\ \A k \in queue' \union ({cur'} \ {0}) : copy'[k] # NoJob
      BY <1>1, <2>1, <2>2 DEF TypeOK
    <2> QED
      BY <1>1, <2>1, <2>2, <2>3 DEF TypeOK, world, budget
  <1>4. CASE AllDone
    <2>1. pc' \in Executing \union Ended \union {"next"} /\ pc' \notin Executing /\ pc' \notin Calls \union {"pruning"}
      BY <1>4, Between DEF AllDone, Ended
    <2>2. elapsed' \in 0..Limit
      BY <1>4, Constants DEF AllDone
    <2> QED
      BY <1>1, <1>4, <2>1, <2>2 DEF AllDone, TypeOK, world
  <1> QED
    BY <1>1, <1>2, <1>3, <1>4
\* The steps of the others, and of time.
LEMMA TypeSchedule ==
  ASSUME TypeOK, NEW j \in Jobs, Schedule(j)
  PROVE  TypeOK' /\ UNCHANGED <<pc, cur, queue, code, left>>
  <1>1. PICK c \in {disk[j], disk[j] + 1} \intersect Certs :
           /\ disk' = [disk EXCEPT ![j] = c]
           /\ file' = [file EXCEPT ![j] = NewJob(c)]
           /\ IF c = disk[j] THEN UNCHANGED <<done, deployed, vain>>
              ELSE /\ done' = [done EXCEPT ![j] = {}] /\ deployed' = deployed \ {j}
                   /\ vain' = IF j = cur THEN vain \union {j} ELSE vain \ {j}
    BY DEF Schedule
  <1>2. NewJob(c) \in Job
    BY NewJobFields
  <1>3. /\ disk' \in [Jobs -> Certs] /\ file' \in [Jobs -> Job \union {NoJob, Torn}]
        /\ done' \in [Jobs -> SUBSET Ports] /\ deployed' \subseteq Jobs /\ vain' \subseteq Jobs
    BY <1>1, <1>2 DEF TypeOK
  <1>4. UNCHANGED <<nature, elsewhere, pc, dry, queue, copy, cur, idx, code, left, fresh, elapsed, wait>>
    BY DEF Schedule, budget
  <1> QED
    BY <1>3, <1>4 DEF TypeOK

LEMMA TypeOther ==
  ASSUME TypeOK, NEW j \in Jobs, OtherTakes(j) \/ OtherMoves(j) \/ OtherLeaves(j)
  PROVE  TypeOK' /\ UNCHANGED <<pc, cur, queue, code, left>>
  <1>1. UNCHANGED <<nature, disk, own>>
    BY DEF OtherTakes, OtherMoves, OtherLeaves, world
  <1>2. elsewhere' \subseteq Jobs /\ cur \notin elsewhere' \union queue
    BY DEF OtherTakes, OtherMoves, OtherLeaves, TypeOK
  <1>3. /\ done' \in [Jobs -> SUBSET Ports] /\ deployed' \subseteq Jobs /\ vain' \subseteq Jobs
        /\ file' \in [Jobs -> Job \union {NoJob, Torn}]
    <2>1. CASE OtherMoves(j)
      <3>1. file[j] \in Job
        BY <2>1 DEF OtherMoves
      <3>2. \E k \in Job \union {NoJob} : file' = [file EXCEPT ![j] = k]
        BY <2>1, <3>1, Moves DEF OtherMoves
      <3>3. /\ done' \in {done, [done EXCEPT ![j] = Ports], [done EXCEPT ![j] = {}]}
            /\ deployed' \in {deployed, deployed \union {j}} /\ vain' \in {vain, vain \union {j}}
        BY <2>1 DEF OtherMoves, Reloads
      <3> QED
        BY <3>2, <3>3 DEF TypeOK
    <2>2. CASE OtherTakes(j) \/ OtherLeaves(j)
      BY <2>2 DEF OtherTakes, OtherLeaves, world, TypeOK
    <2> QED
      BY <2>1, <2>2
  <1> QED
    BY <1>1, <1>2, <1>3 DEF TypeOK, own

LEMMA TickRecords ==
  ASSUME TypeOK, Tick, NEW j \in Jobs
  PROVE  /\ file'[j] = IF file[j] = Torn THEN Torn ELSE Later(file[j])
         /\ copy'[j] = Later(copy[j])
         /\ file[j] \in Job <=> file'[j] \in Job
         /\ copy[j] \in Job <=> copy'[j] \in Job
         /\ file'[j] \in Job \union {NoJob, Torn} /\ copy'[j] \in Job \union {NoJob}
  <1>1. /\ file'[j] = IF file[j] = Torn THEN Torn ELSE Later(file[j])
        /\ copy'[j] = Later(copy[j])
    BY DEF Tick
  <1>2. file[j] \in Job \union {NoJob, Torn} /\ copy[j] \in Job \union {NoJob}
    BY DEF TypeOK
  <1> QED
    BY <1>1, <1>2, Moves, LaterNoJob, Constants

LEMMA TypeTick ==
  ASSUME TypeOK, Tick
  PROVE  TypeOK' /\ UNCHANGED <<pc, cur, queue, code, left>>
  <1>1. elapsed' \in 0..Limit /\ wait' \in 0..Limit
    BY Constants DEF TypeOK, Tick, OneMore, Lingers, Waits, Spent, budget
  <1>2. /\ file' \in [Jobs -> Job \union {NoJob, Torn}]
        /\ copy' \in [Jobs -> Job \union {NoJob}]
    BY TickRecords DEF Tick
  <1>3. \A j \in queue \union ({cur} \ {0}) : copy'[j] # NoJob
    <2> SUFFICES ASSUME NEW j \in queue \union ({cur} \ {0}) PROVE copy'[j] # NoJob
      OBVIOUS
    <2>1. j \in Jobs /\ copy[j] \in Job
      BY DEF TypeOK
    <2> QED
      BY <2>1, TickRecords, Constants
  <1>4. UNCHANGED <<world, elsewhere, pc, dry, queue, cur, idx, code, left, fresh>>
    BY DEF Tick
  <1> QED
    BY <1>1, <1>2, <1>3, <1>4 DEF TypeOK, world

LEMMA TypeGone ==
  ASSUME TypeOK, UnknownPublisher \/ AcquireFails \/ Crash \/ PowerFailure
  PROVE  TypeOK' /\ \E l \in {"aborted", "killed"} : Gone(l)
  <1>1. PICK l \in {"aborted", "killed"} : Gone(l)
    BY DEF UnknownPublisher, AcquireFails, Crash, PowerFailure
  <1>2. UNCHANGED <<world, dry>> /\ elsewhere' \subseteq elsewhere
    BY DEF UnknownPublisher, AcquireFails, Crash, PowerFailure
  <1>3. file' \in [Jobs -> Job \union {NoJob, Torn}]
    BY DEF UnknownPublisher, AcquireFails, Crash, PowerFailure, TypeOK
  <1> QED
    BY <1>1, <1>2, <1>3, GoneType

\* Every step is of one of these kinds.
LEMMA Kinds ==
  ASSUME Next
  PROVE  \/ \E S \in SUBSET Jobs : Load(S) \/ NothingPending(S) \/ Unreadable(S)
         \/ Acquire \/ AlreadyRunning \/ AllDone
         \/ InJob
         \/ \E c \in 0..1 : Ends(c)
         \/ UnknownPublisher \/ AcquireFails \/ Crash \/ PowerFailure
         \/ \E j \in Jobs : Schedule(j) \/ OtherTakes(j) \/ OtherMoves(j) \/ OtherLeaves(j)
         \/ Tick
  <1>1. Timer \/ Filtered => \E S \in SUBSET Jobs : Load(S) \/ NothingPending(S) \/ Unreadable(S)
    BY DEF Timer, Filtered
  <1>2. 0 \in 0..1 /\ 1 \in 0..1
    OBVIOUS
  <1>3. Finished \/ DryPrune => Ends(0)
    BY DEF Ends
  <1>4. CertificateChanged \/ NoTimeLeft \/ FetchFails \/ JobFaults => Ends(1)
    BY DEF Ends, JobFaults
  <1> QED
    BY <1>1, <1>2, <1>3, <1>4 DEF Next, Proceeds, InJob, Faults

LEMMA TypeNext == TypeOK /\ [Next]_vars => TypeOK'
  <1>1. ASSUME TypeOK, Next PROVE TypeOK'
    BY <1>1, Kinds, TypeStarts, TypeBetween, TypeInJob, TypeEnds, TypeGone, TypeSchedule, TypeOther,
       TypeTick
  <1>2. ASSUME TypeOK, UNCHANGED vars PROVE TypeOK'
    BY <1>2 DEF TypeOK, vars
  <1> QED
    BY <1>1, <1>2

\* Every variable of a resume keeps its type, and a job that it executes is in its memory,
\* not in anybody else's hands, nor on its list any more.
THEOREM ResumeTypeCorrect == Spec => []TypeOK
  BY TypeInit, TypeNext, PTL DEF Spec

-----------------------------------------------------------------------------
(* The exit code.                                                            *)

\* A step inside a job leaves the list and the code alone.
LEMMA InJobMoves ==
  ASSUME TypeOK, InJob
  PROVE  pc \in Executing /\ pc' \in Executing /\ SameJob
  <1>1. pc \in Executing
    BY DEF InJob, Check, Publish, Published, Look, PortLive, NotLive, AlreadyLive, NoWait, Sleep, Wake,
           RunReload, DryReload, Fetch, Fetched, Prune, Executing, Phases, Calls
  <1>2. SameJob
    BY DEF InJob, Check, Publish, Published, Look, PortLive, NotLive, AlreadyLive, NoWait, Sleep, Wake,
           RunReload, DryReload, Fetch, Fetched, Prune
  <1>3. TypeOK'
    BY TypeInJob
  <1> QED
    BY <1>1, <1>2, <1>3 DEF TypeOK, SameJob

LEMMA ExitNext ==
  ASSUME TypeOK, ExitInv, Next
  PROVE  ExitInv'
  <1>a. "next" \notin Ended /\ "over" \in Ended /\ "aborted" # "over" /\ "killed" # "over"
        /\ {"aborted", "killed"} \subseteq Ended
    BY DEF Ended
  <1>b. 0 \notin Jobs
    BY Constants
  <1>1. ASSUME NEW S \in SUBSET Jobs, Load(S) \/ NothingPending(S) \/ Unreadable(S) PROVE ExitInv'
    <2>1. cur' = 0
      BY <1>1, TypeStarts
    <2>2. CASE Load(S)
      BY <1>a, <2>1, <2>2 DEF Load, ExitInv, ExitTruth
    <2>3. CASE NothingPending(S) \/ Unreadable(S)
      BY <1>a, <2>3 DEF NothingPending, Unreadable, ExitInv, ExitTruth
    <2> QED
      BY <1>1, <2>2, <2>3
  <1>2. ASSUME Acquire \/ AlreadyRunning \/ AllDone PROVE ExitInv'
    <2>1. /\ pc = "next" /\ cur = 0 /\ pc \notin Ended
          /\ queue \subseteq left /\ (code = 0) = (left = queue)
      BY <1>a, <1>2, TypeBetween DEF ExitInv
    <2>2. CASE Acquire
      <3>1. PICK j \in Jobs : Turn(j) /\ cur' = j /\ queue' = queue \ {j} /\ pc' = "check"
        BY <2>2 DEF Acquire
      <3>2. UNCHANGED <<code, left>> /\ j \in queue
        BY <2>2, <3>1 DEF Acquire, Turn
      <3>3. queue' \union ({cur'} \ {0}) = queue /\ pc' # "over"
        BY <1>b, <3>1, <3>2
      <3> QED
        BY <2>1, <3>2, <3>3 DEF ExitInv, ExitTruth
    <2>3. CASE AlreadyRunning
      <3>1. PICK j \in Jobs : Turn(j) /\ queue' = queue \ {j} /\ left' = left \ {j}
        BY <2>3 DEF AlreadyRunning
      <3>2. UNCHANGED <<pc, cur, code>> /\ j \in queue
        BY <2>3, <3>1 DEF AlreadyRunning, Turn
      <3>3. queue' \union ({cur'} \ {0}) = queue \ {j}
        BY <2>1, <3>1, <3>2
      <3>4. queue \ {j} \subseteq left \ {j} /\ (left \ {j} = queue \ {j}) = (left = queue)
        BY <2>1, <3>2
      <3> QED
        BY <2>1, <3>1, <3>2, <3>3, <3>4 DEF ExitInv, ExitTruth
    <2>4. CASE AllDone
      BY <1>a, <2>1, <2>4 DEF AllDone, ExitInv, ExitTruth
    <2> QED
      BY <1>2, <2>2, <2>3, <2>4
  <1>3. ASSUME InJob PROVE ExitInv'
    <2>1. UNCHANGED <<queue, cur, code, left>> /\ pc \notin Ended /\ pc' \notin Ended
      BY <1>3, InJobMoves, Executed DEF SameJob, Executing, Ended, Phases, Calls
    <2> QED
      BY <1>a, <2>1 DEF ExitInv, ExitTruth
  <1>4. ASSUME NEW c \in 0..1, Ends(c) PROVE ExitInv'
    <2>1. /\ cur \in Jobs /\ cur \notin queue /\ pc \notin Ended /\ JobEnds(c)
          /\ UNCHANGED queue
      BY <1>4, EndsEnd, Executed
    <2>2. /\ queue \union {cur} \subseteq left
          /\ (code = 0) = (left = queue \union {cur})
      BY <1>b, <2>1 DEF ExitInv
    <2>3. pc' = "next" /\ cur' = 0 /\ queue' = queue
      BY <2>1 DEF JobEnds
    <2>4. queue \subseteq left' /\ (code' = 0) = (left' = queue)
      <3>1. CASE c = 0
        <4>1. left' = left \ {cur} /\ code' = code
          BY <2>1, <3>1 DEF JobEnds, TypeOK
        <4>2. (left \ {cur} = queue) = (left = queue \union {cur})
          BY <2>1, <2>2
        <4> QED
          BY <2>1, <2>2, <4>1, <4>2
      <3>2. CASE c = 1
        <4>1. left' = left /\ code' = 1
          BY <2>1, <3>2 DEF JobEnds, TypeOK
        <4> QED
          BY <2>1, <2>2, <4>1
      <3> QED
        BY <1>4, <3>1, <3>2
    <2> QED
      BY <1>a, <2>3, <2>4 DEF ExitInv, ExitTruth
  <1>5. ASSUME UnknownPublisher \/ AcquireFails \/ Crash \/ PowerFailure PROVE ExitInv'
    <2>1. pc' \in {"aborted", "killed"}
      BY <1>5, TypeGone DEF Gone
    <2> QED
      BY <1>a, <2>1 DEF ExitInv, ExitTruth
  <1>6. ASSUME \/ \E j \in Jobs : Schedule(j) \/ OtherTakes(j) \/ OtherMoves(j) \/ OtherLeaves(j)
               \/ Tick
        PROVE ExitInv'
    <2>1. UNCHANGED <<pc, cur, queue, code, left>>
      BY <1>6, TypeSchedule, TypeOther, TypeTick
    <2> QED
      BY <2>1 DEF ExitInv, ExitTruth
  <1> QED
    BY Kinds, <1>1, <1>2, <1>3, <1>4, <1>5, <1>6

\* Whatever the other processes do and the power fails, the exit code of a resume that
\* got through its list tells whether a job of the list is left over.
THEOREM ExitTells == Spec => []ExitTruth
  <1>1. Init => ExitInv
    BY DEF Init, ExitInv, ExitTruth, Ended
  <1>2. TypeOK /\ ExitInv /\ [Next]_vars => ExitInv'
    <2>1. ASSUME ExitInv, UNCHANGED vars PROVE ExitInv'
      BY <2>1 DEF ExitInv, ExitTruth, vars
    <2> QED
      BY <2>1, ExitNext
  <1>3. ExitInv => ExitTruth
    BY DEF ExitInv
  <1> QED
    BY <1>1, <1>2, <1>3, ResumeTypeCorrect, PTL DEF Spec

-----------------------------------------------------------------------------
(* The budget after a sleep or a reload.                                     *)

\* No step but a start changes --dryrun, and none the natures.
LEMMA Fixed ==
  ASSUME TypeOK, Next
  PROVE  /\ nature' = nature
         /\ dry' = dry \/ (cur = 0 /\ UNCHANGED <<cur, fresh>> /\ pc' # "asleep")
  <1>1. ASSUME NEW S \in SUBSET Jobs, Load(S) \/ NothingPending(S) \/ Unreadable(S)
        PROVE  nature' = nature /\ cur = 0 /\ UNCHANGED <<cur, fresh>> /\ pc' # "asleep"
    <2>1. cur = 0 /\ UNCHANGED <<cur, fresh>>
      BY <1>1, TypeStarts
    <2>2. nature' = nature /\ pc' # "asleep"
      BY <1>1 DEF Load, NothingPending, Unreadable, Starts, world
    <2> QED
      BY <2>1, <2>2
  <1>2. ASSUME Acquire \/ AlreadyRunning \/ AllDone \/ UnknownPublisher \/ AcquireFails \/ Crash
               \/ PowerFailure \/ Tick
        PROVE  UNCHANGED <<nature, dry>>
    BY <1>2 DEF Acquire, AlreadyRunning, AllDone, UnknownPublisher, AcquireFails, Crash, PowerFailure,
                Tick, world
  <1>3. ASSUME InJob PROVE UNCHANGED <<nature, dry>>
    <2>1. nature' = nature
      BY <1>3 DEF InJob, Check, Publish, Published, Look, PortLive, NotLive, AlreadyLive, NoWait, Sleep,
                  Wake, RunReload, DryReload, Fetch, Fetched, Prune, world
    <2> QED
      BY <1>3, <2>1, InJobMoves DEF SameJob
  <1>4. ASSUME NEW c \in 0..1, Ends(c) PROVE UNCHANGED <<nature, dry>>
    BY <1>4, EndsEnd
  <1>5. ASSUME NEW j \in Jobs, Schedule(j) \/ OtherTakes(j) \/ OtherMoves(j) \/ OtherLeaves(j)
        PROVE  UNCHANGED <<nature, dry>>
    BY <1>5 DEF Schedule, OtherTakes, OtherMoves, OtherLeaves, world, own
  <1> QED
    BY Kinds, <1>1, <1>2, <1>3, <1>4, <1>5

LEMMA RearmNext ==
  ASSUME TypeOK, RearmInv, Next
  PROVE  RearmInv'
  <1>a. (cur = 0 => ~fresh) /\ (dry => ~fresh) /\ (pc = "asleep" => ~dry)
    BY DEF RearmInv
  <1>b. {"reload", "asleep"} \subseteq Executing
    BY DEF Executing, Phases
  <1>c. ASSUME cur' = 0, ~fresh', pc' \notin Executing PROVE RearmInv'
    BY <1>b, <1>c DEF RearmInv
  <1>1. ASSUME NEW S \in SUBSET Jobs, Load(S) \/ NothingPending(S) \/ Unreadable(S) PROVE RearmInv'
    BY <1>1, <1>a, <1>c, TypeStarts DEF TypeOK
  <1>2. ASSUME Acquire \/ AlreadyRunning \/ AllDone PROVE RearmInv'
    <2>1. cur = 0 /\ ~fresh /\ pc = "next"
      BY <1>2, <1>a, TypeBetween
    <2>2. fresh' = fresh /\ pc' # "asleep"
      BY <1>2, <2>1 DEF Acquire, AlreadyRunning, AllDone
    <2> QED
      BY <2>1, <2>2 DEF RearmInv
  <1>3. ASSUME InJob PROVE RearmInv'
    <2>0. cur # 0 /\ UNCHANGED <<nature, cur, dry>>
      <3>1. cur # 0 /\ UNCHANGED <<cur, dry>>
        BY <1>3, InJobMoves DEF SameJob, TypeOK
      <3> QED
        BY <3>1, Fixed
    <2>1. CASE Check \/ Publish \/ Published \/ Look \/ PortLive \/ NotLive \/ AlreadyLive \/ NoWait
               \/ Fetch \/ Fetched \/ Prune
      <3>1. /\ UNCHANGED <<fresh, elapsed>>
            /\ pc \notin {"reload", "asleep"}
        BY <2>1 DEF Check, Publish, Published, Look, PortLive, NotLive, AlreadyLive, NoWait, Fetch, Fetched,
                    Prune, budget
      <3>2. pc' # "asleep"
        <4>1. CASE Check
          <5>1. pc' \in Phases
            BY <4>1, Executed, Moves DEF Check, Goto, Executing
          <5> QED
            BY <5>1 DEF Phases
        <4>2. CASE NoWait
          <5>1. pc \in Executing
            BY <4>2 DEF NoWait, Executing, Phases
          <5> QED
            BY <4>2, <5>1, WaitedType DEF NoWait
        <4> QED
          BY <2>1, <4>1, <4>2 DEF Publish, Published, Look, PortLive, NotLive, AlreadyLive, Fetch, Fetched,
                                  Prune, Goto
      <3> QED
        BY <2>0, <3>1, <3>2 DEF RearmInv
    <2>2. CASE Sleep
      BY <2>0, <2>2, <1>a DEF Sleep, RearmInv, Goto
    <2>3. CASE Wake
      <3>1. pc' \in {"reload", "prune"}
        BY <2>3, <1>b, WaitedType DEF Wake
      <3>2. ~dry /\ elapsed' = 0
        BY <2>3, <1>a DEF Wake
      <3> QED
        BY <2>0, <3>1, <3>2 DEF RearmInv
    <2>4. CASE RunReload
      BY <2>0, <2>4 DEF RunReload, RearmInv, Goto
    <2>5. CASE DryReload
      BY <2>0, <2>5, <1>a DEF DryReload, RearmInv, Goto
    <2> QED
      BY <1>3, <2>1, <2>2, <2>3, <2>4, <2>5 DEF InJob
  <1>4. ASSUME NEW c \in 0..1, Ends(c) PROVE RearmInv'
    <2>1. JobEnds(c)
      BY <1>4, EndsEnd
    <2>2. cur' = 0 /\ ~fresh' /\ pc' = "next"
      BY <2>1 DEF JobEnds
    <2> QED
      BY <2>2, <1>c, Between
  <1>5. ASSUME UnknownPublisher \/ AcquireFails \/ Crash \/ PowerFailure PROVE RearmInv'
    <2>1. PICK l \in {"aborted", "killed"} : Gone(l)
      BY <1>5, TypeGone
    <2>2. cur' = 0 /\ ~fresh' /\ pc' \in Ended
      BY <2>1 DEF Gone, Ended
    <2> QED
      BY <2>2, <1>c, Between
  <1>6. ASSUME NEW j \in Jobs, Schedule(j) \/ OtherTakes(j) \/ OtherMoves(j) \/ OtherLeaves(j)
        PROVE  RearmInv'
    <2>1. UNCHANGED <<nature, pc, dry, cur, fresh, elapsed>>
      BY <1>6 DEF Schedule, OtherTakes, OtherMoves, OtherLeaves, world, own, budget
    <2> QED
      BY <2>1 DEF RearmInv
  <1>7. ASSUME Tick PROVE RearmInv'
    <2>1. UNCHANGED <<nature, pc, dry, cur, fresh>>
      BY <1>7 DEF Tick, world
    <2>2. CASE pc \in Ended
      <3>1. cur = 0
        BY <2>2, Between DEF TypeOK
      <3> QED
        BY <2>1, <3>1 DEF RearmInv
    <2>3. CASE pc \in {"reload", "asleep"}
      BY <2>1, <2>3 DEF RearmInv
    <2>4. CASE pc \notin Ended \union {"reload", "asleep"}
      <3>1. nature[cur] = "slow"
        BY <1>7, <2>4 DEF Tick
      <3> QED
        BY <2>1, <3>1 DEF RearmInv
    <2> QED
      BY <2>2, <2>3, <2>4
  <1> QED
    BY Kinds, <1>1, <1>2, <1>3, <1>4, <1>5, <1>6, <1>7

\* Whatever the jobs before it used up of the budget, the prune of a job that has slept
\* or reloaded, and whose services answer at once, has time left.
THEOREM Rearmed == Spec => []RearmedServed
  <1>1. Init => RearmInv
    BY DEF Init, RearmInv
  <1>2. TypeOK /\ RearmInv /\ [Next]_vars => RearmInv'
    <2>1. ASSUME RearmInv, UNCHANGED vars PROVE RearmInv'
      BY <2>1 DEF RearmInv, vars
    <2> QED
      BY <2>1, RearmNext
  <1>3. TypeOK /\ RearmInv => RearmedServed
    <2> SUFFICES ASSUME TypeOK, RearmInv, pc = "prune", fresh, nature[cur] = "prompt"
                 PROVE  ~Spent
      BY DEF RearmedServed
    <2>1. cur # 0
      BY DEF TypeOK, Executing, Phases
    <2>2. elapsed = 0
      BY <2>1 DEF RearmInv
    <2> QED
      BY <2>2, Constants DEF Spent
  <1> QED
    BY <1>1, <1>2, <1>3, ResumeTypeCorrect, PTL DEF Spec

-----------------------------------------------------------------------------
(* What the records may be relied on for.                                    *)

\* What a record says of job j holds after the step.
SaysNext(j, y) ==
    /\ y.certificate <= disk'[j]
    /\ nature'[j] # "rehearsed" /\ j \notin vain' /\ y.certificate = disk'[j] =>
          /\ y.phase # "publish" => done'[j] = Ports
          /\ y.phase \in {"wait_before_prune", "prune"} => j \in deployed'

\* The step takes nothing from job j that a record of its certificate says, or renews it, or
\* nothing is said of it.
Keeps(j) ==
    /\ nature'[j] = nature[j]
    /\ \/ disk'[j] > disk[j]
       \/ /\ disk'[j] = disk[j]
          /\ j \in vain => j \in vain'
          /\ \/ nature[j] = "rehearsed"
             \/ j \in vain'
             \/ (done[j] = Ports => done'[j] = Ports) /\ (j \in deployed => j \in deployed')

\* Two records that say the same.
Like(y, x) == x \in Job /\ y \in Job /\ y.certificate = x.certificate /\ y.phase = x.phase

LEMMA SaysKept ==
  ASSUME TypeOK, TypeOK', NEW j \in Jobs, NEW x, NEW y, Like(y, x), Says(j, x), Keeps(j)
  PROVE  SaysNext(j, y)
  <1>1. disk[j] \in Nat /\ disk'[j] \in Nat /\ x.certificate \in Nat
    BY JobFields, Constants DEF TypeOK, Certs, Like
  <1> QED
    BY <1>1 DEF Like, Says, SaysNext, Keeps

LEMMA RecordsStep ==
  ASSUME TypeOK, TypeOK', RecordsInv, \A j \in Jobs : Keeps(j),
         \A j \in Jobs : file'[j] \in Job =>
             \/ Like(file'[j], file[j]) /\ disk'[j] = disk[j]
             \/ (file'[j].certificate = disk'[j] \/ j \in vain') /\ SaysNext(j, file'[j]),
         \A j \in Jobs : copy'[j] \in Job =>
             Like(copy'[j], copy[j]) \/ Like(copy'[j], file[j]) \/ SaysNext(j, copy'[j])
  PROVE  RecordsInv'
  <1>1. ASSUME NEW j \in Jobs, file'[j] \in Job
        PROVE  (file'[j].certificate = disk'[j] \/ j \in vain') /\ SaysNext(j, file'[j])
    <2>1. CASE Like(file'[j], file[j]) /\ disk'[j] = disk[j]
      <3>1. /\ file[j] \in Job /\ Says(j, file[j]) /\ (file[j].certificate = disk[j] \/ j \in vain)
            /\ j \in vain => j \in vain'
        BY <2>1 DEF Like, RecordsInv, Keeps, TypeOK, Certs
      <3>2. SaysNext(j, file'[j])
        BY <2>1, <3>1, SaysKept
      <3> QED
        BY <2>1, <3>1, <3>2 DEF Like
    <2> QED
      BY <1>1, <2>1
  <1>2. ASSUME NEW j \in Jobs, copy'[j] \in Job
        PROVE  SaysNext(j, copy'[j])
    <2>1. CASE Like(copy'[j], copy[j])
      <3>1. Says(j, copy[j])
        BY <2>1 DEF Like, RecordsInv
      <3> QED
        BY <2>1, <3>1, SaysKept
    <2>2. CASE Like(copy'[j], file[j])
      <3>1. Says(j, file[j])
        BY <2>2 DEF Like, RecordsInv
      <3> QED
        BY <2>2, <3>1, SaysKept
    <2> QED
      BY <1>2, <2>1, <2>2
  <1> QED
    BY <1>1, <1>2 DEF RecordsInv, Says, SaysNext

LEMMA RecordsNat ==
  ASSUME TypeOK, NEW j \in Jobs
  PROVE  disk[j] \in Nat /\ disk[j] \in Certs
  BY Constants DEF TypeOK, Certs

\* A prune takes a hash from no job whose record says that it is deployed, and can.
LEMMA PruneKeeps ==
  ASSUME TypeOK, RecordsInv, CurrentInv, pc = "pruning"
  PROVE  nature[cur] = "rehearsed" \/ cur \in deployed \/ cur \in vain
  <1>1. pc \in Executing \ {"check"}
    BY DEF Executing
  <1>2. /\ cur \in Jobs /\ copy[cur] \in Job /\ cur # 0
        /\ copy[cur].certificate = disk[cur] \/ cur \in vain
    BY <1>1, Executed, Constants DEF CurrentInv
  <1>3. CASE dry
    BY <1>2, <1>3 DEF CurrentInv
  <1>4. CASE ~dry
    <2>1. copy[cur].phase = "prune"
      BY <1>4 DEF CurrentInv, Place
    <2> QED
      BY <1>2, <2>1 DEF RecordsInv, Says
  <1> QED
    BY <1>3, <1>4 DEF TypeOK

LEMMA Keeping ==
  ASSUME TypeOK, RecordsInv, CurrentInv, Next, NEW i \in Jobs
  PROVE  Keeps(i)
  <1>a. nature' = nature
    BY Fixed
  <1>b. ASSUME disk' = disk, i \in vain => i \in vain',
               i \in deployed => i \in deployed', done[i] = Ports => done'[i] = Ports
        PROVE  Keeps(i)
    BY <1>a, <1>b DEF Keeps
  <1>c. ASSUME UNCHANGED world PROVE Keeps(i)
    BY <1>b, <1>c DEF world
  <1>1. ASSUME NEW S \in SUBSET Jobs, Load(S) \/ NothingPending(S) \/ Unreadable(S) PROVE Keeps(i)
    BY <1>1, <1>c DEF Load, NothingPending, Unreadable, Starts
  <1>2. ASSUME Acquire \/ AlreadyRunning \/ AllDone \/ UnknownPublisher \/ AcquireFails \/ Crash
               \/ PowerFailure \/ Tick
        PROVE  Keeps(i)
    BY <1>2, <1>c DEF Acquire, AlreadyRunning, AllDone, UnknownPublisher, AcquireFails, Crash,
                      PowerFailure, Tick, world
  <1>d. idx <= NPorts => idx \in Ports
    BY DEF TypeOK, Ports
  <1>e. done[i] \subseteq Ports /\ done \in [Jobs -> SUBSET Ports]
    BY DEF TypeOK
  <1>f. ASSUME pc = "publish", idx <= NPorts, UNCHANGED <<disk, deployed, vain>>,
               done' \in {done, [done EXCEPT ![cur] = @ \union {idx}]}
        PROVE  Keeps(i)
    <2>1. done[i] = Ports => done'[i] = Ports
      BY <1>d, <1>e, <1>f
    <2> QED
      BY <1>b, <1>f, <2>1
  <1>g. ASSUME pc = "pruning", UNCHANGED <<disk, deployed, vain>>,
               done' \in {done, IF cur \in deployed THEN done ELSE [done EXCEPT ![cur] = @ \ {idx}]}
        PROVE  Keeps(i)
    BY <1>a, <1>e, <1>g, PruneKeeps DEF Keeps
  <1>3. ASSUME InJob PROVE Keeps(i)
    <2>1. CASE Publish
      BY <2>1, <1>f DEF Publish
    <2>2. CASE Prune
      BY <2>2, <1>g DEF Prune
    <2>3. CASE RunReload
      BY <2>3, <1>b DEF RunReload, Reloads
    <2>4. CASE ~Publish /\ ~Prune /\ ~RunReload
      BY <1>3, <1>c, <2>4 DEF InJob, Check, Published, Look, PortLive, NotLive, AlreadyLive, NoWait, Sleep,
                              Wake, DryReload, Fetch, Fetched
    <2> QED
      BY <2>1, <2>2, <2>3, <2>4
  <1>4. ASSUME NEW c \in 0..1, Ends(c) PROVE Keeps(i)
    <2>1. CASE PublishFails
      <3>1. CASE dry \/ ~Same_file
        <4>1. done' \in {done, [done EXCEPT ![cur] = @]}
          BY <2>1, <3>1 DEF PublishFails
        <4>2. done' = done
          BY <1>e, <4>1
        <4> QED
          BY <2>1, <1>f, <4>2 DEF PublishFails
      <3>2. CASE ~dry /\ Same_file
        BY <2>1, <3>2, <1>f DEF PublishFails
      <3> QED
        BY <3>1, <3>2
    <2>2. CASE PruneFails
      BY <2>2, <1>g DEF PruneFails
    <2>3. CASE ReloadFails
      BY <2>3, <1>b DEF ReloadFails
    <2>4. CASE ~PublishFails /\ ~PruneFails /\ ~ReloadFails
      BY <1>4, <1>c, <2>4 DEF Ends, CertificateChanged, NoTimeLeft, FetchFails, Fails, Finished, DryPrune
    <2> QED
      BY <2>1, <2>2, <2>3, <2>4
  <1>5. ASSUME NEW j \in Jobs, Schedule(j) PROVE Keeps(i)
    <2>1. PICK c \in {disk[j], disk[j] + 1} \intersect Certs :
           /\ disk' = [disk EXCEPT ![j] = c]
           /\ IF c = disk[j] THEN UNCHANGED <<done, deployed, vain>>
              ELSE /\ done' = [done EXCEPT ![j] = {}] /\ deployed' = deployed \ {j}
                   /\ vain' = IF j = cur THEN vain \union {j} ELSE vain \ {j}
      BY <1>5 DEF Schedule
    <2>2. disk \in [Jobs -> Certs] /\ disk[j] \in Nat
      BY RecordsNat DEF TypeOK
    <2>3. CASE c = disk[j]
      BY <1>b, <2>1, <2>2, <2>3
    <2>4. CASE c = disk[j] + 1 /\ i = j
      BY <1>a, <2>1, <2>2, <2>4 DEF Keeps
    <2>5. CASE c = disk[j] + 1 /\ i # j
      <3>1. disk'[i] = disk[i] /\ done'[i] = done[i] /\ (i \in deployed => i \in deployed')
        BY <1>e, <2>1, <2>2, <2>5
      <3>2. i \in vain => i \in vain'
        BY <2>1, <2>2, <2>5
      <3> QED
        BY <1>a, <3>1, <3>2 DEF Keeps
    <2> QED
      BY <2>1, <2>3, <2>4, <2>5
  <1>6. ASSUME NEW j \in Jobs, OtherTakes(j) \/ OtherMoves(j) \/ OtherLeaves(j) PROVE Keeps(i)
    <2>1. CASE OtherMoves(j)
      <3>1. /\ \/ done' \in {done, [done EXCEPT ![j] = Ports]}
               \/ /\ file[j] \in Job /\ file[j].phase = "prune"
                  /\ done' = [done EXCEPT ![j] = {}] /\ j \notin deployed
            /\ deployed' \in {deployed, deployed \union {j}} /\ vain' \in {vain, vain \union {j}}
            /\ disk' = disk
        BY <2>1 DEF OtherMoves, Reloads
      <3>2. \/ i # j \/ done' \in {done, [done EXCEPT ![j] = Ports]}
            \/ i \in vain \/ nature[i] = "rehearsed"
        BY <3>1 DEF RecordsInv, Says
      <3>3. CASE i # j \/ done' \in {done, [done EXCEPT ![j] = Ports]}
        <4>1. done[i] = Ports => done'[i] = Ports
          BY <1>e, <3>1, <3>3
        <4> QED
          BY <1>b, <3>1, <4>1
      <3>4. CASE i \in vain \/ nature[i] = "rehearsed"
        BY <1>a, <3>1, <3>4 DEF Keeps
      <3> QED
        BY <3>2, <3>3, <3>4
    <2>2. CASE OtherTakes(j) \/ OtherLeaves(j)
      BY <1>c, <2>2 DEF OtherTakes, OtherLeaves
    <2> QED
      BY <1>6, <2>1, <2>2
  <1> QED
    BY Kinds, <1>1, <1>2, <1>3, <1>4, <1>5, <1>6

LEMMA PersistRecords ==
  ASSUME TypeOK, TypeOK', RecordsInv, pc \in Executing, disk' = disk, \A j \in Jobs : Keeps(j),
         \/ UNCHANGED <<copy, file>>
         \/ \E k \in Job : Persist(k) /\ SaysNext(cur, k) /\ (k.certificate = disk[cur] \/ cur \in vain')
  PROVE  RecordsInv'
  <1>1. CASE UNCHANGED <<copy, file>>
    BY <1>1, RecordsStep DEF Like
  <1>2. ASSUME NEW k \in Job, Persist(k), SaysNext(cur, k), k.certificate = disk[cur] \/ cur \in vain'
        PROVE  RecordsInv'
    <2>1. /\ copy'[cur] = k /\ file'[cur] = k
          /\ \A j \in Jobs \ {cur} : copy'[j] = copy[j] /\ file'[j] = file[j]
      BY <1>2, Executed DEF Persist, TypeOK
    <2>2. \A j \in Jobs : file'[j] \in Job =>
              \/ Like(file'[j], file[j]) /\ disk'[j] = disk[j]
              \/ (file'[j].certificate = disk'[j] \/ j \in vain') /\ SaysNext(j, file'[j])
      BY <1>2, <2>1 DEF Like
    <2>3. \A j \in Jobs : copy'[j] \in Job =>
              Like(copy'[j], copy[j]) \/ Like(copy'[j], file[j]) \/ SaysNext(j, copy'[j])
      BY <1>2, <2>1 DEF Like
    <2> QED
      BY <2>2, <2>3, RecordsStep
  <1> QED
    BY <1>1, <1>2

\* What is known of a job that is executed.
LEMMA Known ==
  ASSUME TypeOK, RecordsInv, CurrentInv, pc \in Executing
  PROVE  /\ cur # 0 /\ disk[cur] \in Nat /\ Says(cur, copy[cur])
         /\ dry => nature[cur] = "rehearsed"
         /\ copy[cur].certificate \in Nat /\ copy[cur].certificate <= disk[cur]
         /\ pc # "check" => copy[cur].certificate = disk[cur] \/ cur \in vain
         /\ pc # "check" /\ nature[cur] # "rehearsed" /\ cur \notin vain =>
               /\ copy[cur].phase # "publish" => done[cur] = Ports
               /\ copy[cur].phase \in {"wait_before_prune", "prune"} => cur \in deployed
  <1>1. copy[cur] \in Job /\ cur \in Jobs /\ copy[cur].certificate \in Nat
    BY Executed, Constants, JobFields DEF Certs
  <1> QED
    BY <1>1, Constants, RecordsNat DEF RecordsInv, CurrentInv, Says

\* A record that is saved for the job that is executed.
LEMMA Saved ==
  ASSUME TypeOK, RecordsInv, CurrentInv, pc \in Executing, UNCHANGED <<nature, disk>>, NEW k \in Job,
         k.certificate = copy[cur].certificate,
         ~dry /\ nature[cur] # "rehearsed" /\ cur \notin vain' =>
            /\ k.phase # "publish" => done'[cur] = Ports
            /\ k.phase \in {"wait_before_prune", "prune"} => cur \in deployed'
  PROVE  SaysNext(cur, k)
  BY Known DEF SaysNext

\* What Waited saves, and where it goes.
LEMMA WaitedSaves ==
  ASSUME TypeOK, RecordsInv, CurrentInv, pc \in {"not_live", "wait_before_prune", "asleep"}, Waited,
         UNCHANGED <<world, cur, dry>>
  PROVE  /\ \E k \in Job : Persist(k) /\ SaysNext(cur, k) /\ (k.certificate = disk[cur] \/ cur \in vain')
         /\ copy'[cur].certificate = disk'[cur] \/ cur \in vain'
         /\ ~dry => Place'
         /\ pc' \in {"reload", "prune"}
  <1>0. pc \in Executing /\ pc # "check"
    BY DEF Executing, Phases
  <1>1. /\ cur \in Jobs /\ copy \in [Jobs -> Job \union {NoJob}] /\ copy[cur] \in Job
        /\ copy[cur].certificate = disk[cur] \/ cur \in vain
        /\ UNCHANGED <<nature, disk, done, deployed, vain>>
    BY <1>0, Executed, Known DEF TypeOK, world
  <1>2. CASE copy[cur].phase = "wait_before_reload"
    <2> DEFINE k == mark_waiting_reload(copy[cur])
    <2>1. k \in Job /\ k.certificate = copy[cur].certificate /\ k.phase = "reload"
      BY <1>1, MarkWaitingReload
    <2>2. Persist(k) /\ pc' = "reload" /\ idx' = 1
      BY <1>2 DEF Waited, Goto
    <2>3. SaysNext(cur, k)
      BY <1>0, <1>1, <1>2, <2>1, Known, Saved
    <2>4. copy'[cur] = k
      BY <1>1, <2>2 DEF Persist
    <2> HIDE DEF k
    <2>5. Place'
      BY <2>1, <2>2, <2>4 DEF Place
    <2> QED
      BY <1>1, <2>1, <2>2, <2>3, <2>4, <2>5
  <1>3. CASE copy[cur].phase # "wait_before_reload"
    <2> DEFINE k == mark_ready_to_prune(copy[cur])
    <2>1. k \in Job /\ k.certificate = copy[cur].certificate /\ k.phase = "prune"
      BY <1>1, MarkReadyToPrune
    <2>2. Persist(k) /\ pc' = "prune" /\ idx' = 1
      BY <1>3 DEF Waited, Goto
    <2>3. ~dry => copy[cur].phase = "wait_before_prune"
      BY <1>3 DEF CurrentInv, Place, Phases
    <2>4. SaysNext(cur, k)
      BY <1>0, <1>1, <2>1, <2>3, Known, Saved
    <2>5. copy'[cur] = k
      BY <1>1, <2>2 DEF Persist
    <2> HIDE DEF k
    <2>6. Place'
      BY <2>1, <2>2, <2>5 DEF Place
    <2> QED
      BY <1>1, <2>1, <2>2, <2>4, <2>5, <2>6
  <1> QED
    BY <1>2, <1>3

LEMMA InJobInv ==
  ASSUME TypeOK, RecordsInv, CurrentInv, Next, InJob
  PROVE  RecordsInv' /\ CurrentInv'
  <1> DEFINE Saves == \/ UNCHANGED <<copy, file>>
                      \/ \E k \in Job : /\ Persist(k) /\ SaysNext(cur, k)
                                         /\ (k.certificate = disk[cur] \/ cur \in vain')
             Good == /\ Saves /\ disk' = disk /\ pc' # "check"
                     /\ (copy'[cur].certificate = disk[cur] \/ cur \in vain')
                     /\ ~dry => Place'
  <1>0. /\ pc \in Executing /\ pc' \in Executing
        /\ UNCHANGED <<nature, elsewhere, dry, queue, cur, code, left>>
    BY InJobMoves, Fixed, Executed, Constants DEF SameJob
  <1>a. /\ cur \in Jobs /\ copy \in [Jobs -> Job \union {NoJob}] /\ copy[cur] \in Job
        /\ idx \in 1..(NPorts + 1) /\ done \in [Jobs -> SUBSET Ports]
        /\ NPorts \in Nat /\ NPorts >= 1 /\ cur # 0
    BY <1>0, Executed, Constants DEF TypeOK
  <1>b. pc # "check" => copy[cur].certificate = disk[cur] \/ cur \in vain
    BY <1>0, Known
  <1>c. ~dry => Place
    BY DEF CurrentInv
  <1>d. {"publish", "wait_before_reload", "reload", "wait_before_prune", "prune"} = Phases
    BY DEF Phases
  <1>1. ASSUME Check PROVE Good
    <2>1. copy[cur].certificate = disk[cur] /\ UNCHANGED <<copy, file, disk>>
          /\ pc' = copy[cur].phase /\ idx' = 1
      BY <1>1 DEF Check, Goto, world
    <2>2. pc' \in Phases /\ 1..(1 - 1) = {}
      BY <1>a, <2>1, Moves
    <2> QED
      BY <1>0, <1>d, <2>1, <2>2 DEF Place
  <1>2. ASSUME Publish PROVE Good
    <2>1. /\ pc = "publish" /\ idx <= NPorts /\ idx' = idx + 1
          /\ UNCHANGED <<disk, vain, copy, file, pc>>
          /\ ~dry /\ cur \notin vain => done'[cur] = done[cur] \union {idx}
      BY <1>2, <1>a, <1>b DEF Publish, Same_file
    <2>2. ~dry /\ cur \notin vain => 1..(idx' - 1) \subseteq done'[cur]
      <3>1. 1..(idx' - 1) = 1..(idx - 1) \union {idx}
        BY <1>a, <2>1
      <3> QED
        BY <1>c, <2>1, <3>1 DEF Place
    <2>3. ~dry => copy[cur].phase = "publish"
      BY <1>c, <1>d, <2>1 DEF Place
    <2> QED
      BY <1>0, <1>b, <2>1, <2>2, <2>3 DEF Place
  <1>3. ASSUME Published PROVE Good
    <2> DEFINE k == mark_published(copy[cur])
    <2>1. /\ pc = "publish" /\ idx > NPorts /\ Persist(k) /\ pc' = "wait_before_reload" /\ idx' = 1
          /\ UNCHANGED <<disk, done, deployed, vain>>
      BY <1>3 DEF Published, Goto, world
    <2>2. k \in Job /\ k.certificate = copy[cur].certificate /\ k.phase = "wait_before_reload"
      BY <1>a, <1>b, <2>1, MarkPublished
    <2>3. ~dry /\ cur \notin vain => done[cur] = Ports
      <3>1. 1..(idx - 1) = Ports
        BY <1>a, <2>1 DEF Ports
      <3> QED
        BY <1>a, <1>c, <2>1, <3>1 DEF Place
    <2>4. SaysNext(cur, k)
      BY <1>0, <2>1, <2>2, <2>3, Saved
    <2>5. copy'[cur] = k
      BY <1>a, <2>1 DEF Persist
    <2> HIDE DEF k
    <2> QED
      BY <1>0, <1>b, <2>1, <2>2, <2>4, <2>5 DEF Place
  <1>4. ASSUME Look PROVE Good
    <2>1. pc = "wait_before_reload" /\ pc' = "looking" /\ UNCHANGED <<disk, done, deployed, vain, copy, file, idx>>
      BY <1>4 DEF Look, world
    <2> QED
      BY <1>0, <1>b, <1>c, <1>d, <2>1 DEF Place
  <1>5. ASSUME PortLive PROVE Good
    <2>1. pc = "looking" /\ pc' = "wait_before_reload" /\ UNCHANGED <<disk, done, deployed, vain, copy, file>>
          /\ (cur \in deployed \/ cur \in vain)
      BY <1>5, <1>b DEF PortLive, Same_file, world
    <2> QED
      BY <1>0, <1>b, <1>c, <2>1 DEF Place
  <1>6. ASSUME NotLive PROVE Good
    <2>1. pc \in {"looking", "wait_before_reload"} /\ pc' = "not_live"
          /\ UNCHANGED <<disk, done, deployed, vain, copy, file>>
      BY <1>6 DEF NotLive, Goto, world
    <2>2. ~dry => copy[cur].phase = "wait_before_reload"
      BY <1>c, <1>d, <2>1 DEF Place
    <2> QED
      BY <1>0, <1>b, <1>d, <2>1, <2>2 DEF Place
  <1>7. ASSUME AlreadyLive PROVE Good
    <2> DEFINE k == mark_reloaded(copy[cur])
    <2>1. /\ pc = "wait_before_reload" /\ idx > NPorts /\ Persist(k) /\ pc' = "wait_before_prune"
          /\ UNCHANGED <<disk, done, deployed, vain>>
      BY <1>7 DEF AlreadyLive, Goto, world
    <2>2. k \in Job /\ k.certificate = copy[cur].certificate /\ k.phase = "wait_before_prune"
      BY <1>a, <1>b, <2>1, MarkReloaded
    <2>3. ~dry => /\ cur \in deployed \/ cur \in vain
                  /\ copy[cur].phase = "wait_before_reload"
      BY <1>a, <1>c, <1>d, <2>1 DEF Place
    <2>4. SaysNext(cur, k)
      BY <1>0, <2>1, <2>2, <2>3, Known, Saved
    <2>5. copy'[cur] = k
      BY <1>a, <2>1 DEF Persist
    <2> HIDE DEF k
    <2> QED
      BY <1>0, <1>b, <2>1, <2>2, <2>4, <2>5 DEF Place
  <1>8. ASSUME NoWait PROVE Good
    <2>1. pc \in {"not_live", "wait_before_prune"} /\ Waited /\ UNCHANGED world
      BY <1>8 DEF NoWait
    <2> QED
      BY <1>0, <2>1, WaitedSaves DEF world
  <1>9. ASSUME Sleep PROVE Good
    <2>1. pc \in {"not_live", "wait_before_prune"} /\ pc' = "asleep"
          /\ UNCHANGED <<disk, done, deployed, vain, copy, file>>
      BY <1>9 DEF Sleep, Goto, world
    <2>2. ~dry => copy[cur].phase \in {"wait_before_reload", "wait_before_prune"}
      BY <1>c, <1>d, <2>1 DEF Place
    <2> QED
      BY <1>0, <1>b, <1>d, <2>1, <2>2 DEF Place
  <1>10. ASSUME Wake PROVE Good
    <2>1. pc = "asleep" /\ Waited /\ UNCHANGED world
      BY <1>10 DEF Wake
    <2> QED
      BY <1>0, <2>1, WaitedSaves DEF world
  <1>11. ASSUME RunReload PROVE Good
    <2> DEFINE k == mark_reloaded(copy[cur])
    <2>1. /\ pc = "reload" /\ ~dry /\ Persist(k) /\ pc' = "wait_before_prune"
          /\ (cur \in deployed' \/ cur \in vain') /\ vain \subseteq vain' /\ UNCHANGED <<disk, done>>
      BY <1>11 DEF RunReload, Reloads, Goto
    <2>2. k \in Job /\ k.certificate = copy[cur].certificate /\ k.phase = "wait_before_prune"
      BY <1>a, <1>b, <2>1, MarkReloaded
    <2>3. copy[cur].phase = "reload"
      BY <1>c, <1>d, <2>1 DEF Place
    <2>4. SaysNext(cur, k)
      BY <1>0, <2>1, <2>2, <2>3, Known, Saved
    <2>5. copy'[cur] = k
      BY <1>a, <2>1 DEF Persist
    <2> HIDE DEF k
    <2> QED
      BY <1>0, <1>b, <2>1, <2>2, <2>4, <2>5 DEF Place
  <1>12. ASSUME DryReload PROVE Good
    BY <1>0, <1>b, <1>12 DEF DryReload, Goto, world
  <1>13. ASSUME Fetch PROVE Good
    <2>1. pc = "prune" /\ pc' = "fetching" /\ UNCHANGED <<disk, done, deployed, vain, copy, file>>
      BY <1>13 DEF Fetch, world
    <2> QED
      BY <1>0, <1>b, <1>c, <1>d, <2>1 DEF Place
  <1>14. ASSUME Fetched PROVE Good
    <2>1. pc = "fetching" /\ pc' = "pruning" /\ UNCHANGED <<disk, done, deployed, vain, copy, file>>
      BY <1>14 DEF Fetched, world
    <2> QED
      BY <1>0, <1>b, <1>c, <1>d, <2>1 DEF Place
  <1>15. ASSUME Prune PROVE Good
    <2>1. pc = "pruning" /\ pc' = "prune" /\ UNCHANGED <<disk, vain, copy, file>>
      BY <1>15 DEF Prune
    <2> QED
      BY <1>0, <1>b, <1>c, <1>d, <2>1 DEF Place
  <1>16. Good
    BY <1>1, <1>2, <1>3, <1>4, <1>5, <1>6, <1>7, <1>8, <1>9, <1>10, <1>11, <1>12, <1>13, <1>14, <1>15
       DEF InJob
  <1>17. RecordsInv'
    BY <1>0, <1>16, TypeInJob, Keeping, PersistRecords
  <1>18. CurrentInv'
    <2>1. pc' \notin Ended
      BY <1>0 DEF Executing, Ended, Phases, Calls
    <2>2. \A j \in queue \union ({cur} \ {0}) : dry => nature[j] = "rehearsed"
      BY DEF CurrentInv
    <2> QED
      BY <1>0, <1>16, <2>1, <2>2 DEF CurrentInv
  <1> QED
    BY <1>17, <1>18

\* A resume that is not in a job.
LEMMA Idle ==
  ASSUME pc' \in Ended \union {"next"}, cur' = 0, pc' \in Ended => queue' = {},
         dry' => \A j \in queue' : nature'[j] = "rehearsed"
  PROVE  CurrentInv'
  <1>1. pc' \notin Executing /\ pc' \notin Phases
        /\ pc' \notin {"looking", "not_live", "asleep", "fetching", "pruning", "publish",
                      "wait_before_reload"}
    BY DEF Ended, Executing, Phases, Calls
  <1>2. Place'
    BY <1>1 DEF Place
  <1> QED
    BY <1>1, <1>2 DEF CurrentInv

LEMMA StartsInv ==
  ASSUME TypeOK, RecordsInv, CurrentInv, Next,
         NEW S \in SUBSET Jobs, Load(S) \/ NothingPending(S) \/ Unreadable(S)
  PROVE  RecordsInv' /\ CurrentInv'
  <1>1. /\ TypeOK' /\ pc \in Ended /\ cur' = 0 /\ queue = {}
        /\ UNCHANGED <<nature, disk, done, deployed, file>>
        /\ pc' \in Ended \union {"next"}
        /\ dry' => \A j \in S : nature[j] = "rehearsed"
    BY TypeStarts DEF Load, NothingPending, Unreadable, Starts, world, CurrentInv, Ended
  <1>2. CASE Load(S)
    <2>1. /\ pc' = "next" /\ queue' \subseteq S
          /\ \A j \in Jobs : copy'[j] \in {file[j], NoJob}
      BY <1>2 DEF Load, Pending
    <2>2. RecordsInv'
      BY <1>1, <2>1, Constants, Keeping, RecordsStep DEF Like
    <2>3. "next" \notin Ended
      BY DEF Ended
    <2> QED
      BY <1>1, <2>1, <2>2, <2>3, Idle
  <1>3. CASE NothingPending(S) \/ Unreadable(S)
    <2>1. UNCHANGED <<queue, copy>>
      BY <1>3 DEF NothingPending, Unreadable
    <2>2. RecordsInv'
      BY <1>1, <2>1, Keeping, RecordsStep DEF Like
    <2> QED
      BY <1>1, <2>1, <2>2, Idle
  <1> QED
    BY <1>2, <1>3

LEMMA BetweenInv ==
  ASSUME TypeOK, RecordsInv, CurrentInv, Next, Acquire \/ AlreadyRunning \/ AllDone
  PROVE  RecordsInv' /\ CurrentInv'
  <1>1. TypeOK' /\ pc = "next" /\ cur = 0
    BY TypeBetween
  <1>2. /\ UNCHANGED <<nature, disk, file, dry>>
        /\ \A j \in Jobs : copy'[j] \in {copy[j], NoJob}
    BY DEF Acquire, AlreadyRunning, AllDone, world, TypeOK
  <1>3. RecordsInv'
    BY <1>1, <1>2, Constants, Keeping, RecordsStep DEF Like
  <1>4. \A j \in queue : dry => nature[j] = "rehearsed"
    BY DEF CurrentInv
  <1>5. CurrentInv'
    <2>1. CASE Acquire
      <3>1. pc' = "check" /\ queue' \union {cur'} \subseteq queue
        BY <2>1 DEF Acquire, Turn
      <3>2. pc' \notin Ended /\ Place'
        BY <3>1 DEF Ended, Place, Phases
      <3> QED
        BY <1>2, <1>4, <3>1, <3>2 DEF CurrentInv
    <2>2. CASE AlreadyRunning
      <3>1. pc' = "next" /\ cur' = 0 /\ queue' \subseteq queue /\ "next" \notin Ended
        BY <1>1, <2>2 DEF AlreadyRunning, Ended
      <3> QED
        BY <1>2, <1>4, <3>1, Idle
    <2>3. CASE AllDone
      <3>1. pc' = "over" /\ cur' = 0 /\ queue' = {} /\ "over" \in Ended
        BY <1>1, <2>3 DEF AllDone, Ended
      <3> QED
        BY <3>1, Idle
    <2> QED
      BY <2>1, <2>2, <2>3
  <1> QED
    BY <1>3, <1>5

LEMMA EndsInv ==
  ASSUME TypeOK, RecordsInv, CurrentInv, Next, NEW c \in 0..1, Ends(c)
  PROVE  RecordsInv' /\ CurrentInv'
  <1>1. /\ TypeOK' /\ cur \in Jobs /\ JobEnds(c)
        /\ UNCHANGED <<nature, disk, dry, queue>> /\ (UNCHANGED file \/ Finished)
    BY EndsEnd, TypeEnds, Executed
  <1>2. /\ \A j \in Jobs : copy'[j] \in {copy[j], NoJob} /\ file'[j] \in {file[j], NoJob}
    BY <1>1 DEF JobEnds, Finished, TypeOK
  <1>3. RecordsInv'
    BY <1>1, <1>2, Constants, Keeping, RecordsStep DEF Like
  <1>4. pc' = "next" /\ cur' = 0 /\ "next" \notin Ended
    BY <1>1 DEF JobEnds, Ended
  <1>5. CurrentInv'
    BY <1>1, <1>4, Idle DEF CurrentInv
  <1> QED
    BY <1>3, <1>5

LEMMA GoneInv ==
  ASSUME TypeOK, RecordsInv, CurrentInv, Next, UnknownPublisher \/ AcquireFails \/ Crash \/ PowerFailure
  PROVE  RecordsInv' /\ CurrentInv'
  <1>1. TypeOK' /\ \E l \in {"aborted", "killed"} : Gone(l)
    BY TypeGone
  <1>2. disk' = disk /\ \A j \in Jobs : file'[j] \in {file[j], Torn}
    BY DEF UnknownPublisher, AcquireFails, Crash, PowerFailure, world
  <1>3. \A j \in Jobs : copy'[j] = NoJob
    BY <1>1 DEF Gone
  <1>4. RecordsInv'
    BY <1>1, <1>2, <1>3, Constants, Keeping, RecordsStep DEF Like
  <1>5. CurrentInv'
    BY <1>1, Idle DEF Gone, Ended
  <1> QED
    BY <1>4, <1>5

\* The step of another process leaves the current job and its world alone.
LEMMA OthersPlace ==
  ASSUME TypeOK, CurrentInv, UNCHANGED <<nature, pc, dry, queue, copy, cur, idx>>,
         cur # 0 /\ cur \in vain => cur \in vain',
         cur # 0 => \/ cur \in vain'
                    \/ /\ disk'[cur] = disk[cur] /\ done'[cur] = done[cur]
                       /\ (cur \in deployed => cur \in deployed')
  PROVE  CurrentInv'
  <1>1. CASE cur = 0
    <2>1. pc \in Ended \union {"next"}
      BY <1>1 DEF TypeOK
    <2> QED
      BY <1>1, <2>1, Idle DEF CurrentInv
  <1>2. CASE cur # 0
    <2>1. Place => Place'
      BY <1>2 DEF Place
    <2> QED
      BY <1>2, <2>1 DEF CurrentInv
  <1> QED
    BY <1>1, <1>2

LEMMA ScheduleInv ==
  ASSUME TypeOK, RecordsInv, CurrentInv, Next, NEW j \in Jobs, Schedule(j)
  PROVE  RecordsInv' /\ CurrentInv'
  <1>1. TypeOK' /\ UNCHANGED <<nature, pc, dry, queue, copy, cur, idx>>
    BY TypeSchedule DEF Schedule
  <1>2. PICK c \in {disk[j], disk[j] + 1} \intersect Certs :
           /\ disk' = [disk EXCEPT ![j] = c]
           /\ file' = [file EXCEPT ![j] = NewJob(c)]
           /\ IF c = disk[j] THEN UNCHANGED <<done, deployed, vain>>
              ELSE /\ done' = [done EXCEPT ![j] = {}] /\ deployed' = deployed \ {j}
                   /\ vain' = IF j = cur THEN vain \union {j} ELSE vain \ {j}
    BY DEF Schedule
  <1>3. /\ disk \in [Jobs -> Certs] /\ file \in [Jobs -> Job \union {NoJob, Torn}]
        /\ done \in [Jobs -> SUBSET Ports] /\ c \in Nat
    BY <1>2, Constants DEF TypeOK, Certs
  <1>4. file'[j] = NewJob(c) /\ disk'[j] = c
        /\ \A i \in Jobs \ {j} : file'[i] = file[i] /\ disk'[i] = disk[i] /\ done'[i] = done[i]
                                  /\ (i \in deployed => i \in deployed')
                                  /\ (i \in vain => i \in vain')
    BY <1>2, <1>3
  <1>5. SaysNext(j, NewJob(c)) /\ NewJob(c).certificate = c
    BY <1>2, <1>3, <1>4, NewJobFields DEF SaysNext
  <1>6. RecordsInv'
    <2>1. \A i \in Jobs : file'[i] \in Job =>
             \/ Like(file'[i], file[i]) /\ disk'[i] = disk[i]
             \/ (file'[i].certificate = disk'[i] \/ i \in vain') /\ SaysNext(i, file'[i])
      BY <1>4, <1>5 DEF Like
    <2>2. \A i \in Jobs : copy'[i] \in Job => Like(copy'[i], copy[i])
      BY <1>1 DEF Like
    <2> QED
      BY <1>1, <2>1, <2>2, Keeping, RecordsStep
  <1>7. cur # 0 => cur \in Jobs
    BY <1>1 DEF TypeOK
  <1>8. CurrentInv'
    <2>0. UNCHANGED <<disk, done, deployed, vain>> \/ cur # j \/ j \in vain'
      <3>1. disk = [disk EXCEPT ![j] = disk[j]]
        BY <1>3
      <3> QED
        BY <1>2, <3>1
    <2>1. CASE cur = j /\ j \in vain'
      BY <1>1, <2>1, OthersPlace
    <2>2. CASE cur = j /\ UNCHANGED <<disk, done, deployed, vain>>
      BY <1>1, <2>2, OthersPlace
    <2>3. CASE cur # j
      <3>1. cur # 0 => /\ disk'[cur] = disk[cur] /\ done'[cur] = done[cur]
                       /\ (cur \in deployed => cur \in deployed') /\ (cur \in vain => cur \in vain')
        BY <1>4, <1>7, <2>3
      <3> QED
        BY <1>1, <3>1, OthersPlace
    <2> QED
      BY <2>0, <2>1, <2>2, <2>3
  <1> QED
    BY <1>6, <1>8

\* What another process saves agrees with what it did.
LEMMA OtherSaves ==
  ASSUME TypeOK, RecordsInv, NEW j \in Jobs, OtherMoves(j)
  PROVE  /\ \/ /\ file'[j] = NoJob
               /\ nature[j] # "rehearsed" /\ j \notin vain => done[j] = Ports /\ j \in deployed
            \/ /\ file'[j] \in Job /\ SaysNext(j, file'[j])
               /\ file'[j].certificate = disk'[j] \/ j \in vain'
         /\ \A i \in Jobs \ {j} : file'[i] = file[i]
  <1> DEFINE f == file[j]
  <1>0. /\ f \in Job /\ (f.certificate = disk[j] \/ j \in vain) /\ Says(j, f)
        /\ vain \subseteq vain' /\ f.certificate \in Nat
        /\ f.phase \in Phases /\ disk[j] \in Nat
        /\ UNCHANGED <<nature, disk>>
        /\ file \in [Jobs -> Job \union {NoJob, Torn}] /\ done \in [Jobs -> SUBSET Ports]
    <2>1. f \in Job
      BY DEF OtherMoves
    <2>2. f.phase \in Phases /\ f.certificate \in Nat
      BY <2>1, JobFields, Constants DEF Certs
    <2> QED
      BY <2>1, <2>2, RecordsNat DEF OtherMoves, Reloads, RecordsInv, TypeOK
  <1> DEFINE Saves(k) == file' = [file EXCEPT ![j] = k]
  <1>1. ASSUME NEW k \in Job, Saves(k), k.certificate = f.certificate,
               nature[j] # "rehearsed" /\ j \notin vain' =>
                  /\ k.phase # "publish" => done'[j] = Ports
                  /\ k.phase \in {"wait_before_prune", "prune"} => j \in deployed'
        PROVE  /\ file'[j] \in Job /\ SaysNext(j, file'[j])
               /\ file'[j].certificate = disk'[j] \/ j \in vain'
               /\ \A i \in Jobs \ {j} : file'[i] = file[i]
    BY <1>0, <1>1 DEF Says, SaysNext
  <1>2. CASE f.phase = "publish" /\ Saves(mark_published(f)) /\ done' = [done EXCEPT ![j] = Ports]
    BY <1>0, <1>1, <1>2, MarkPublished
  <1>3. CASE f.phase = "wait_before_reload" /\ Saves(mark_waiting_reload(f)) /\ UNCHANGED <<done, deployed>>
    BY <1>0, <1>1, <1>3, MarkWaitingReload DEF Says
  <1>4. CASE f.phase \in {"wait_before_reload", "reload"} /\ Saves(mark_reloaded(f)) /\ UNCHANGED done
             /\ (j \in deployed' \/ j \in vain')
    BY <1>0, <1>1, <1>4, MarkReloaded DEF Says
  <1>5. CASE f.phase = "wait_before_prune" /\ Saves(mark_ready_to_prune(f)) /\ UNCHANGED <<done, deployed>>
    BY <1>0, <1>1, <1>5, MarkReadyToPrune DEF Says
  <1>6. CASE f.phase = "prune" /\ Saves(NoJob)
    BY <1>0, <1>6 DEF Says
  <1> QED
    BY <1>2, <1>3, <1>4, <1>5, <1>6 DEF OtherMoves, Reloads

LEMMA OtherInv ==
  ASSUME TypeOK, RecordsInv, CurrentInv, Next,
         NEW j \in Jobs, OtherTakes(j) \/ OtherMoves(j) \/ OtherLeaves(j)
  PROVE  RecordsInv' /\ CurrentInv'
  <1>1. /\ TypeOK' /\ disk' = disk /\ UNCHANGED <<nature, pc, dry, queue, copy, cur, idx>>
    BY TypeOther DEF OtherTakes, OtherMoves, OtherLeaves, world, own
  <1>2. \A i \in Jobs : copy'[i] \in Job => Like(copy'[i], copy[i])
    BY <1>1 DEF Like
  <1>3. CASE OtherMoves(j)
    <2>1. \A i \in Jobs : file'[i] \in Job =>
             \/ Like(file'[i], file[i]) /\ disk'[i] = disk[i]
             \/ (file'[i].certificate = disk'[i] \/ i \in vain') /\ SaysNext(i, file'[i])
      <3>1. ASSUME NEW i \in Jobs \ {j}, file'[i] \in Job PROVE Like(file'[i], file[i]) /\ disk'[i] = disk[i]
        BY <1>1, <1>3, <3>1, OtherSaves DEF Like
      <3>2. file'[j] \in Job => /\ file'[j].certificate = disk'[j] \/ j \in vain'
                                /\ SaysNext(j, file'[j])
        BY <1>3, OtherSaves, Constants
      <3> QED
        BY <3>1, <3>2
    <2>2. cur # j
      BY <1>3 DEF OtherMoves, TypeOK
    <2>3. cur # 0 => /\ done'[cur] = done[cur] /\ (cur \in deployed => cur \in deployed')
                     /\ (cur \in vain => cur \in vain')
      BY <1>3, <2>2 DEF OtherMoves, Reloads, TypeOK
    <2> QED
      BY <1>1, <1>2, <2>1, <2>3, Keeping, RecordsStep, OthersPlace
  <1>4. CASE OtherTakes(j) \/ OtherLeaves(j)
    <2>1. UNCHANGED <<file, done, deployed, vain>>
      BY <1>4 DEF OtherTakes, OtherLeaves, world
    <2>2. RecordsInv'
      BY <1>1, <1>2, <2>1, Keeping, RecordsStep DEF Like
    <2> QED
      BY <1>1, <2>1, <2>2, OthersPlace
  <1> QED
    BY <1>3, <1>4

LEMMA TickInv ==
  ASSUME TypeOK, RecordsInv, CurrentInv, Next, Tick
  PROVE  RecordsInv' /\ CurrentInv'
  <1>1. TypeOK' /\ UNCHANGED <<nature, disk, done, deployed, vain, pc, dry, queue, cur, idx>>
    BY TypeTick DEF Tick, world
  <1>2. ASSUME NEW j \in Jobs
        PROVE  /\ file'[j] \in Job => Like(file'[j], file[j])
               /\ copy'[j] \in Job => Like(copy'[j], copy[j])
    BY TickRecords, LaterFields, Constants DEF Like
  <1>3. RecordsInv'
    BY <1>1, <1>2, Keeping, RecordsStep
  <1>4. CurrentInv'
    <2>1. CASE cur = 0
      <3>1. pc \in Ended \union {"next"}
        BY <2>1 DEF TypeOK
      <3> QED
        BY <1>1, <2>1, <3>1, Idle DEF CurrentInv
    <2>2. CASE cur # 0
      <3>1. cur \in Jobs /\ copy[cur] \in Job
        BY <2>2, Executed DEF TypeOK
      <3>2. copy'[cur].certificate = copy[cur].certificate /\ copy'[cur].phase = copy[cur].phase
        BY <3>1, <1>2, TickRecords DEF Like
      <3>3. Place => Place'
        BY <1>1, <3>2 DEF Place
      <3> QED
        BY <1>1, <3>2, <3>3 DEF CurrentInv
    <2> QED
      BY <2>1, <2>2
  <1> QED
    BY <1>3, <1>4

\* A job file that goes away in a step.
LEMMA Completes ==
  ASSUME TypeOK, RecordsInv, CurrentInv, Next,
         NEW i \in Jobs, nature[i] # "rehearsed", i \notin vain, file[i] \in Job, file'[i] = NoJob
  PROVE  done[i] = Ports /\ i \in deployed
  <1>a. file' # file /\ NoJob \notin Job /\ Torn # NoJob
    BY Constants
  <1>1. ASSUME NEW S \in SUBSET Jobs PROVE ~(Load(S) \/ NothingPending(S) \/ Unreadable(S))
    BY <1>a DEF Load, NothingPending, Unreadable, Starts
  <1>2. ~(Acquire \/ AlreadyRunning \/ AllDone \/ UnknownPublisher \/ AcquireFails \/ Crash)
    BY <1>a DEF Acquire, AlreadyRunning, AllDone, UnknownPublisher, AcquireFails, Crash
  <1>3. ~PowerFailure
    BY <1>a DEF PowerFailure
  <1>4. ~Tick
    BY <1>a, TickRecords
  <1>5. ~InJob
    <2> SUFFICES ASSUME InJob PROVE FALSE
      OBVIOUS
    <2>1. UNCHANGED file \/ \E k \in Job : Persist(k)
      <3>1. pc \in Executing
        BY InJobMoves
      <3>2. copy[cur] \in Job
        BY <3>1, Executed
      <3> QED
        BY <3>1, <3>2, Moves, WaitedType
           DEF InJob, Check, Publish, Published, Look, PortLive, NotLive, AlreadyLive, NoWait, Sleep,
               Wake, RunReload, DryReload, Fetch, Fetched, Prune
    <2>2. file \in [Jobs -> Job \union {NoJob, Torn}]
      BY DEF TypeOK
    <2> QED
      BY <1>a, <2>1, <2>2 DEF Persist
  <1>6. ASSUME NEW j \in Jobs, Schedule(j) \/ OtherTakes(j) \/ OtherMoves(j) \/ OtherLeaves(j)
        PROVE  done[i] = Ports /\ i \in deployed
    <2>1. CASE Schedule(j)
      <3>1. PICK c \in Certs : file' = [file EXCEPT ![j] = NewJob(c)]
        BY <2>1 DEF Schedule
      <3> QED
        BY <1>a, <3>1, NewJobFields DEF TypeOK
    <2>2. CASE OtherMoves(j)
      BY <1>a, <2>2, OtherSaves
    <2>3. CASE OtherTakes(j) \/ OtherLeaves(j)
      BY <1>a, <2>3 DEF OtherTakes, OtherLeaves
    <2> QED
      BY <1>6, <2>1, <2>2, <2>3
  <1>7. ASSUME NEW c \in 0..1, Ends(c) PROVE done[i] = Ports /\ i \in deployed
    <2>1. Finished
      BY <1>a, <1>7, EndsEnd
    <2>2. i = cur /\ pc = "prune" /\ ~dry
      BY <1>a, <2>1 DEF Finished, TypeOK
    <2>3. pc \in Executing /\ pc \in Phases /\ pc # "check"
      BY <2>2 DEF Executing, Phases
    <2>4. copy[cur].phase = "prune"
      BY <2>2, <2>3 DEF CurrentInv, Place
    <2> QED
      BY <2>2, <2>3, <2>4, Known
  <1> QED
    BY Kinds, <1>1, <1>2, <1>3, <1>4, <1>5, <1>6, <1>7

\* A job file goes away only when the certificate's hash is published for every port and
\* the service presents the certificate, whichever processes took the job through which
\* phase: unless a dry run went through it, a reload command exited with 0 and reloaded
\* nothing, or the certificate was renewed while the resume executed the job.
THEOREM CompletionIsDone == Spec => CompletedIsDone
  <1>1. Init => RecordsInv /\ CurrentInv
    <2> SUFFICES ASSUME Init PROVE RecordsInv /\ CurrentInv
      OBVIOUS
    <2>1. RecordsInv
      BY Constants DEF Init, RecordsInv
    <2>2. CurrentInv
      BY DEF Init, CurrentInv, Ended, Executing, Phases, Calls, Place
    <2> QED
      BY <2>1, <2>2
  <1>2. TypeOK /\ RecordsInv /\ CurrentInv /\ [Next]_vars => RecordsInv' /\ CurrentInv'
    <2>1. ASSUME TypeOK, RecordsInv, CurrentInv, Next PROVE RecordsInv' /\ CurrentInv'
      BY <2>1, Kinds, StartsInv, BetweenInv, InJobInv, EndsInv, GoneInv, ScheduleInv, OtherInv, TickInv
    <2>2. ASSUME RecordsInv, CurrentInv, UNCHANGED vars PROVE RecordsInv' /\ CurrentInv'
      BY <2>2 DEF RecordsInv, CurrentInv, Says, Place, vars
    <2> QED
      BY <2>1, <2>2
  <1>3. TypeOK /\ RecordsInv /\ CurrentInv /\ [Next]_vars
        => [\A j \in Jobs : nature[j] # "rehearsed" /\ j \notin vain /\ file[j] \in Job /\ file'[j] = NoJob
               => done[j] = Ports /\ j \in deployed]_vars
    BY Completes
  <1> QED
    BY <1>1, <1>2, <1>3, ResumeTypeCorrect, PTL DEF Spec, CompletedIsDone
=============================================================================
