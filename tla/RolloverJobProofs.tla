------------------------- MODULE RolloverJobProofs --------------------------
(* Lemmas on a job: what its moves from phase to phase, and time, make of    *)
(* its fields.                                                               *)
EXTENDS RolloverJob, TLAPS

LEMMA WaitType == Wait \in Nat /\ WAIT_TTL_MULTIPLIER = 2 /\ Wait = 2 * TTL
  BY JobAssumption DEF Wait, WAIT_TTL_MULTIPLIER

LEMMA JobFields ==
  ASSUME NEW j \in Job
  PROVE  /\ j.certificate \in Certs
         /\ j.phase \in Phases
         /\ j.reload_after \in Nat /\ j.reload_after <= Wait
         /\ j.prune_after \in Nat /\ j.prune_after <= 2 * Wait
         /\ j # NoJob
  BY JobAssumption, WaitType DEF Job

LEMMA NewJobFields ==
  ASSUME NEW c \in Certs
  PROVE  /\ NewJob(c) \in Job
         /\ NewJob(c).certificate = c
         /\ NewJob(c).phase = "publish"
         /\ NewJob(c) # NoJob
  BY JobAssumption, WaitType DEF NewJob, Job, Phases

LEMMA MarkPublished ==
  ASSUME NEW j \in Job
  PROVE  /\ mark_published(j) \in Job
         /\ mark_published(j).certificate = j.certificate
         /\ mark_published(j).phase = "wait_before_reload"
         /\ mark_published(j).reload_after = Wait
  <1>1. ASSUME NEW r \in 0..Wait, NEW d \in 0..(2 * Wait)
        PROVE  LET k == [j EXCEPT !.phase = "wait_before_reload",
                                  !.reload_after = r, !.prune_after = d]
               IN  /\ k \in Job
                   /\ k.certificate = j.certificate
                   /\ k.phase = "wait_before_reload"
                   /\ k.reload_after = r
    BY DEF Job, Phases
  <1>2. Wait \in 0..Wait /\ 2 * Wait \in 0..(2 * Wait)
    BY WaitType
  <1> QED
    BY <1>1, <1>2 DEF mark_published

LEMMA MarkWaitingReload ==
  ASSUME NEW j \in Job
  PROVE  /\ mark_waiting_reload(j) \in Job
         /\ mark_waiting_reload(j).certificate = j.certificate
         /\ mark_waiting_reload(j).phase = "reload"
         /\ mark_waiting_reload(j).reload_after = j.reload_after
  BY WaitType DEF mark_waiting_reload, Job, Phases

LEMMA MarkReloaded ==
  ASSUME NEW j \in Job
  PROVE  /\ mark_reloaded(j) \in Job
         /\ mark_reloaded(j).certificate = j.certificate
         /\ mark_reloaded(j).phase = "wait_before_prune"
         /\ mark_reloaded(j).reload_after = j.reload_after
         /\ mark_reloaded(j).prune_after >= Wait
  <1>1. ASSUME NEW d \in 0..(2 * Wait)
        PROVE  LET k == [j EXCEPT !.phase = "wait_before_prune", !.prune_after = d]
               IN  /\ k \in Job
                   /\ k.certificate = j.certificate
                   /\ k.phase = "wait_before_prune"
                   /\ k.reload_after = j.reload_after
                   /\ k.prune_after = d
    BY DEF Job, Phases
  <1> DEFINE d == IF j.prune_after > Wait THEN j.prune_after ELSE Wait
  <1>2. d \in 0..(2 * Wait) /\ d >= Wait
    BY WaitType, JobFields
  <1> QED
    BY <1>1, <1>2 DEF mark_reloaded

LEMMA MarkReadyToPrune ==
  ASSUME NEW j \in Job
  PROVE  /\ mark_ready_to_prune(j) \in Job
         /\ mark_ready_to_prune(j).certificate = j.certificate
         /\ mark_ready_to_prune(j).phase = "prune"
         /\ mark_ready_to_prune(j).reload_after = j.reload_after
         /\ mark_ready_to_prune(j).prune_after = j.prune_after
  BY WaitType DEF mark_ready_to_prune, Job, Phases

\* Time goes by for a job: only its deadlines change, by one, down to zero.
LEMMA LaterFields ==
  ASSUME NEW j \in Job
  PROVE  /\ Later(j) \in Job
         /\ Later(j).certificate = j.certificate
         /\ Later(j).phase = j.phase
         /\ Later(j).reload_after = IF j.reload_after = 0 THEN 0 ELSE j.reload_after - 1
         /\ Later(j).prune_after = IF j.prune_after = 0 THEN 0 ELSE j.prune_after - 1
  <1> DEFINE r == IF j.reload_after = 0 THEN 0 ELSE j.reload_after - 1
             d == IF j.prune_after = 0 THEN 0 ELSE j.prune_after - 1
  <1>1. Later(j) = [certificate |-> j.certificate, phase |-> j.phase,
                    reload_after |-> r, prune_after |-> d]
    BY JobFields DEF Later, Job
  <1>2. r \in 0..Wait /\ d \in 0..(2 * Wait)
    BY WaitType, JobFields
  <1>3. j.phase \in Phases /\ j.certificate \in Certs
    BY JobFields
  <1>4. Later(j) \in Job
    <2> HIDE DEF r, d
    <2> QED BY <1>1, <1>2, <1>3 DEF Job
  <1> QED
    BY <1>1, <1>4

LEMMA LaterNoJob == Later(NoJob) = NoJob
  BY DEF Later
=============================================================================
