------------------------------- MODULE Resume -------------------------------
(***************************************************************************)
(* `gentlsa --resume': one process that reads every job file, and then     *)
(* executes the jobs one after the other on one timeout budget, while      *)
(* other processes execute, schedule and finish jobs, and machines lose    *)
(* their power.  Rollover has one job and many processes; here are many    *)
(* jobs, and what one of them does to the next.                            *)
(***************************************************************************)
EXTENDS RolloverJob, Timeout

CONSTANTS
    NJobs,    \* jobs there may be; a smaller number is an earlier name
    NPorts,   \* ports of each job
    Busy,     \* jobs that others execute, and that are renewed
    Again,    \* a pending job may be scheduled anew for the same certificate
    Mixes,    \* bound: the natures that the jobs of a behaviour may have
    Followed, \* bound: the jobs that CarriedThrough is checked for
    Torn      \* a job file that cannot be read

Jobs == 1..NJobs
Ports == 1..NPorts

\* What is at the other end of a job: services and publishers that answer at once, or
\* take their time, or answer at once and may be deaf to a reload command that exits
\* with 0; or a publisher that this build does not know.  A job that is rehearsed
\* answers at once, and is resumed with --dryrun as well.
Natures == {"prompt", "slow", "deaf", "foreign", "rehearsed"}

ASSUME ResumeAssumption ==
    /\ NJobs \in Nat \ {0} /\ NPorts \in Nat \ {0} /\ Mixes \subseteq [Jobs -> Natures]
    /\ Busy \subseteq Jobs /\ Followed \subseteq Jobs
    /\ Again \in BOOLEAN
    /\ Torn \notin Job /\ Torn # NoJob

VARIABLES
    nature,     \* of each job
    disk,       \* the certificate in each job's PEM file
    done,       \* the ports of each job at whose name that certificate's hash is published
    deployed,   \* the jobs whose service presents that certificate
    vain,       \* history: the jobs that were reloaded without effect, or renewed while
                \* the resume executed them, since they were scheduled for a certificate
    file,       \* the job files
    elsewhere,  \* the jobs that another process holds the lock of
    pc,         \* where the resume is
    dry,        \* --dryrun
    queue,      \* the jobs it has still to go through
    copy,       \* the jobs as it has read them, and changed them since
    cur,        \* the job it executes, or 0
    idx,        \* the port its loop over the ports is at
    code,       \* its exit code so far
    left,       \* history: the jobs it was to do, and has neither finished nor found running
    fresh       \* history: it has slept or reloaded in the current job

world == <<nature, disk, done, deployed, vain>>
budget == <<elapsed, wait>>
vars == <<nature, disk, done, deployed, vain, file, elsewhere, pc, dry, queue, copy, cur, idx, code,
          left, fresh, elapsed, wait>>

\* In execute_rollover, and where it is blocked in a call with a timeout.
Calls == {"looking", "fetching"}
Executing == Phases \union Calls \union {"check", "not_live", "asleep", "pruning"}
Ended == {"over", "aborted", "killed"}

TypeOK ==
    /\ nature \in Mixes /\ disk \in [Jobs -> Certs]
    /\ done \in [Jobs -> SUBSET Ports] /\ deployed \subseteq Jobs /\ vain \subseteq Jobs
    /\ file \in [Jobs -> Job \union {NoJob, Torn}] /\ elsewhere \subseteq Jobs
    /\ pc \in Executing \union Ended \union {"next"} /\ dry \in BOOLEAN
    /\ queue \subseteq Jobs /\ copy \in [Jobs -> Job \union {NoJob}]
    /\ cur \in Jobs \union {0} /\ idx \in 1..(NPorts + 1)
    /\ code \in 0..1 /\ left \subseteq Jobs /\ fresh \in BOOLEAN
    /\ elapsed \in 0..Limit /\ wait \in 0..Limit
    /\ pc \in Executing <=> cur # 0
    /\ \A j \in queue \union ({cur} \ {0}) : copy[j] # NoJob
    /\ cur \notin elsewhere \union queue
    /\ pc \in Calls \union {"pruning"} => idx <= NPorts

Init ==
    /\ nature \in Mixes /\ disk = [j \in Jobs |-> 0]
    /\ done = [j \in Jobs |-> {}] /\ deployed = {} /\ vain = {}
    /\ file = [j \in Jobs |-> NoJob] /\ elsewhere = {}
    /\ pc = "over" /\ dry = FALSE /\ queue = {} /\ copy = [j \in Jobs |-> NoJob]
    /\ cur = 0 /\ idx = 1 /\ code = 0 /\ left = {} /\ fresh = FALSE
    /\ elapsed = 0 /\ wait = 0

-----------------------------------------------------------------------------
(* From job to job.                                                        *)

Readable == \A j \in Jobs : file[j] # Torn
Pending(S) == {j \in S : file[j] \in Job}

\* A process starts, for the jobs in S: all, or those that a filter names.
Starts(S) ==
    /\ pc \in Ended
    /\ dry' \in {d \in BOOLEAN : d => \A j \in S : nature[j] = "rehearsed"}
    /\ UNCHANGED <<world, file, elsewhere, cur, idx, fresh, budget>>

Load(S) ==
    /\ Starts(S) /\ Readable /\ Pending(S) # {}
    /\ queue' = Pending(S) /\ left' = Pending(S)
    /\ copy' = [j \in Jobs |-> IF j \in Pending(S) THEN file[j] ELSE NoJob]
    /\ pc' = "next" /\ code' = 0

\* No pending job is an error only if one was asked for.
NothingPending(S) ==
    /\ Starts(S) /\ Readable /\ Pending(S) = {}
    /\ pc' = IF S = Jobs THEN "over" ELSE "aborted"
    /\ code' = IF S = Jobs THEN 0 ELSE 1
    /\ left' = {}
    /\ UNCHANGED <<queue, copy>>

\* One file that cannot be read is an error, whichever job was asked for.
Unreadable(S) ==
    /\ Starts(S) /\ ~Readable
    /\ pc' = "aborted" /\ code' = 1 /\ left' = {}
    /\ UNCHANGED <<queue, copy>>

\* The jobs are in the order of their names.
Turn(j) == pc = "next" /\ j \in queue /\ \A k \in queue : j <= k

\* Faulty: goes on without the lock.
Acquire_anyway ==
    /\ \E j \in Jobs : /\ Turn(j) /\ nature[j] # "foreign"
                       /\ cur' = j /\ queue' = queue \ {j} /\ pc' = "check"
    /\ UNCHANGED <<world, file, elsewhere, dry, copy, idx, code, left, fresh, budget>>

Acquire ==
    /\ \E j \in Jobs : /\ Turn(j) /\ j \notin elsewhere /\ nature[j] # "foreign"
                       /\ cur' = j /\ queue' = queue \ {j} /\ pc' = "check"
    /\ UNCHANGED <<world, file, elsewhere, dry, copy, idx, code, left, fresh, budget>>

AlreadyRunning ==
    /\ \E j \in Jobs : /\ Turn(j) /\ j \in elsewhere
                       /\ queue' = queue \ {j} /\ left' = left \ {j}
                       /\ copy' = [copy EXCEPT ![j] = NoJob]
    /\ UNCHANGED <<world, file, elsewhere, pc, dry, cur, idx, code, fresh, budget>>

\* The process is gone, and with it the guard of its job.
Gone(l) ==
    /\ pc' = l /\ code' = 1 /\ queue' = {} /\ copy' = [j \in Jobs |-> NoJob]
    /\ cur' = 0 /\ idx' = 1 /\ fresh' = FALSE /\ left' = {} /\ elapsed' = 0 /\ wait' = 0

\* job.kind()? leaves resume_cmd, with the jobs after this one not carried on ...
UnknownPublisher ==
    /\ \E j \in Jobs : Turn(j) /\ j \notin elsewhere /\ nature[j] = "foreign"
    /\ Gone("aborted")
    /\ UNCHANGED <<world, file, elsewhere, dry>>

\* ... and so does acquire()?.
AcquireFails ==
    /\ pc = "next" /\ queue # {}
    /\ Gone("aborted")
    /\ UNCHANGED <<world, file, elsewhere, dry>>

AllDone ==
    /\ pc = "next" /\ queue = {}
    /\ pc' = "over" /\ elapsed' = 0
    /\ UNCHANGED <<world, file, elsewhere, dry, queue, copy, cur, idx, code, left, fresh, wait>>

\* Faulty: the code of the last job is the code of the run.
JobEnds_last(c) ==
    /\ code' = c /\ left' = IF c = 0 THEN left \ {cur} ELSE left
    /\ pc' = "next" /\ copy' = [copy EXCEPT ![cur] = NoJob]
    /\ cur' = 0 /\ idx' = 1 /\ fresh' = FALSE /\ wait' = 0

\* Faulty: an error leaves the run, with the jobs after it not carried on.
JobEnds_leaves(c) ==
    /\ code' = (IF c > code THEN c ELSE code)
    /\ left' = IF c = 0 THEN left \ {cur} ELSE {}
    /\ pc' = (IF c = 0 THEN "next" ELSE "aborted") /\ copy' = [copy EXCEPT ![cur] = NoJob]
    /\ cur' = 0 /\ idx' = 1 /\ fresh' = FALSE /\ wait' = 0

\* execute_rollover returns c, or an error; the guard is dropped.
JobEnds(c) ==
    /\ code' = (IF c > code THEN c ELSE code)
    /\ left' = IF c = 0 THEN left \ {cur} ELSE left
    /\ pc' = "next" /\ copy' = [copy EXCEPT ![cur] = NoJob]
    /\ cur' = 0 /\ idx' = 1 /\ fresh' = FALSE /\ wait' = 0

-----------------------------------------------------------------------------
(* One job: execute_rollover.                                              *)

Goto(l) == pc' = l /\ idx' = 1

\* The phase is saved, in a dry run as well.
Persist(j) ==
    /\ copy' = [copy EXCEPT ![cur] = j]
    /\ file' = [file EXCEPT ![cur] = j]

SameJob == UNCHANGED <<elsewhere, dry, queue, cur, code, left>>

\* Faulty: the certificate is not looked at.
Check_anyway ==
    /\ pc = "check"
    /\ Goto(copy[cur].phase)
    /\ UNCHANGED <<world, file, copy, fresh, budget>> /\ SameJob

Check ==
    /\ pc = "check" /\ disk[cur] = copy[cur].certificate
    /\ Goto(copy[cur].phase)
    /\ UNCHANGED <<world, file, copy, fresh, budget>> /\ SameJob

CertificateChanged ==
    /\ pc = "check" /\ disk[cur] # copy[cur].certificate
    /\ JobEnds(1)
    /\ UNCHANGED <<world, file, elsewhere, dry, queue, elapsed>>

\* The certificate file is read once, before the loop over the phases.
Same_file == copy[cur].certificate = disk[cur]

Publish ==
    /\ pc = "publish" /\ idx <= NPorts
    /\ done' = IF dry \/ ~Same_file THEN done ELSE [done EXCEPT ![cur] = @ \union {idx}]
    /\ idx' = idx + 1
    /\ UNCHANGED <<nature, disk, deployed, vain, file, pc, copy, fresh, budget>> /\ SameJob

PublishFails ==
    /\ pc = "publish" /\ idx <= NPorts
    /\ done' \in {done, [done EXCEPT ![cur] = IF dry \/ ~Same_file THEN @ ELSE @ \union {idx}]}
    /\ JobEnds(1)
    /\ UNCHANGED <<nature, disk, deployed, vain, file, elsewhere, dry, queue, elapsed>>

Published ==
    /\ pc = "publish" /\ idx > NPorts
    /\ Persist(mark_published(copy[cur])) /\ Goto("wait_before_reload")
    /\ UNCHANGED <<world, fresh, budget>> /\ SameJob

\* live_matches_file: a port is asked what it presents, if there is time to ask.
Look ==
    /\ pc = "wait_before_reload" /\ idx <= NPorts
    /\ Arm /\ pc' = "looking"
    /\ UNCHANGED <<world, file, copy, idx, fresh, elapsed>> /\ SameJob

\* Whether a service still presents a certificate that was renewed since is not modelled.
PortLive ==
    /\ pc = "looking" /\ (cur \in deployed \/ ~Same_file)
    /\ pc' = "wait_before_reload" /\ idx' = idx + 1 /\ wait' = 0
    /\ UNCHANGED <<world, file, copy, fresh, elapsed>> /\ SameJob

\* It presents another certificate, does not answer, or there is no time left.
NotLive ==
    /\ \/ pc = "looking" /\ (cur \notin deployed \/ ~Same_file \/ nature[cur] = "slow")
       \/ pc = "wait_before_reload" /\ idx <= NPorts /\ Spent
    /\ Goto("not_live") /\ wait' = 0
    /\ UNCHANGED <<world, file, copy, fresh, elapsed>> /\ SameJob

AlreadyLive ==
    /\ pc = "wait_before_reload" /\ idx > NPorts
    /\ Persist(mark_reloaded(copy[cur])) /\ Goto("wait_before_prune")
    /\ UNCHANGED <<world, fresh, budget>> /\ SameJob

Remaining == IF copy[cur].phase = "wait_before_reload"
             THEN copy[cur].reload_after ELSE copy[cur].prune_after

\* After either wait.
Waited ==
    IF copy[cur].phase = "wait_before_reload"
    THEN Persist(mark_waiting_reload(copy[cur])) /\ Goto("reload")
    ELSE Persist(mark_ready_to_prune(copy[cur])) /\ Goto("prune")

\* wait_ttl with nothing to wait for returns as it came: the budget stays what it is.
NoWait ==
    /\ pc \in {"not_live", "wait_before_prune"} /\ (dry \/ Remaining = 0)
    /\ Waited
    /\ UNCHANGED <<world, fresh, budget>> /\ SameJob

Sleep ==
    /\ pc \in {"not_live", "wait_before_prune"} /\ ~dry /\ Remaining > 0
    /\ Goto("asleep")
    /\ UNCHANGED <<world, file, copy, fresh, budget>> /\ SameJob

\* Faulty: a restart after --reload is thought to be enough.
Wake_late ==
    /\ pc = "asleep" /\ Remaining = 0
    /\ Waited /\ fresh' = TRUE
    /\ UNCHANGED <<world, budget>> /\ SameJob

\* timeout::restart: the time that went by is not taken from the phases after it.
Wake ==
    /\ pc = "asleep" /\ Remaining = 0
    /\ Waited /\ fresh' = TRUE /\ elapsed' = 0
    /\ UNCHANGED <<world, wait>> /\ SameJob

\* run_reload looks at the exit code alone: the service may present what it did before.
Reloads(j) ==
    \/ deployed' = deployed \union {j} /\ UNCHANGED vain
    \/ nature[j] = "deaf" /\ j \notin deployed /\ vain' = vain \union {j} /\ UNCHANGED deployed

RunReload ==
    /\ pc = "reload" /\ ~dry
    /\ Reloads(cur)
    /\ elapsed' = 0 /\ fresh' = TRUE
    /\ Persist(mark_reloaded(copy[cur])) /\ Goto("wait_before_prune")
    /\ UNCHANGED <<nature, disk, done, wait>> /\ SameJob

ReloadFails ==
    /\ pc = "reload" /\ ~dry
    /\ deployed' \in {deployed, deployed \union {cur}}
    /\ elapsed' = 0 /\ JobEnds(1)
    /\ UNCHANGED <<nature, disk, done, vain, file, elsewhere, dry, queue>>

DryReload ==
    /\ pc = "reload" /\ dry
    /\ Goto("wait_before_prune")
    /\ UNCHANGED <<world, file, copy, fresh, budget>> /\ SameJob

Fetch ==
    /\ pc = "prune" /\ ~dry /\ idx <= NPorts
    /\ Arm /\ pc' = "fetching"
    /\ UNCHANGED <<world, file, copy, idx, fresh, elapsed>> /\ SameJob

NoTimeLeft ==
    /\ pc = "prune" /\ ~dry /\ idx <= NPorts /\ Spent
    /\ JobEnds(1)
    /\ UNCHANGED <<world, file, elsewhere, dry, queue, elapsed>>

Fetched ==
    /\ pc = "fetching"
    /\ pc' = "pruning" /\ wait' = 0
    /\ UNCHANGED <<world, file, copy, idx, fresh, elapsed>> /\ SameJob

\* The service does not answer, or not in time.
FetchFails ==
    /\ pc = "fetching" /\ JobEnds(1)
    /\ UNCHANGED <<world, file, elsewhere, dry, queue, elapsed>>

\* What the port does not present goes, be it the job's own hash.
Prune ==
    /\ pc = "pruning"
    /\ done' = IF cur \in deployed THEN done ELSE [done EXCEPT ![cur] = @ \ {idx}]
    /\ pc' = "prune" /\ idx' = idx + 1
    /\ UNCHANGED <<nature, disk, deployed, vain, file, copy, fresh, budget>> /\ SameJob

PruneFails ==
    /\ pc = "pruning"
    /\ done' \in {done, IF cur \in deployed THEN done ELSE [done EXCEPT ![cur] = @ \ {idx}]}
    /\ JobEnds(1)
    /\ UNCHANGED <<nature, disk, deployed, vain, file, elsewhere, dry, queue, elapsed>>

Finished ==
    /\ pc = "prune" /\ ~dry /\ idx > NPorts
    /\ file' = [file EXCEPT ![cur] = NoJob]
    /\ JobEnds(0)
    /\ UNCHANGED <<world, elsewhere, dry, queue, elapsed>>

DryPrune ==
    /\ pc = "prune" /\ dry
    /\ JobEnds(0)
    /\ UNCHANGED <<world, file, elsewhere, dry, queue, elapsed>>

\* The certificate cannot be read, or the job not be saved or removed.
Fails ==
    /\ \/ pc = "check"
       \/ pc \in {"publish", "wait_before_reload", "prune"} /\ idx > NPorts
       \/ pc \in {"not_live", "wait_before_prune"} /\ (dry \/ Remaining = 0)
       \/ pc = "asleep" /\ Remaining = 0
    /\ JobEnds(1) /\ elapsed' = IF pc = "asleep" THEN 0 ELSE elapsed
    /\ UNCHANGED <<world, file, elsewhere, dry, queue>>

Crash ==
    /\ pc \notin Ended /\ Gone("killed")
    /\ UNCHANGED <<world, file, elsewhere, dry>>

-----------------------------------------------------------------------------
(* The others.                                                             *)

\* The renewal hook, or a user, saves a new job, be it the one that the resume executes.
\* Rollover has the renewals that hit the job of another process.
Schedule(j) ==
    /\ j \notin elsewhere
    /\ \E c \in {disk[j], disk[j] + 1} \intersect Certs :
           /\ IF c > disk[j] THEN j \in Busy ELSE Again \/ file[j] \notin Job
           /\ disk' = [disk EXCEPT ![j] = c]
           /\ file' = [file EXCEPT ![j] = NewJob(c)]
           /\ IF c = disk[j] THEN UNCHANGED <<done, deployed, vain>>
              ELSE /\ done' = [done EXCEPT ![j] = {}] /\ deployed' = deployed \ {j}
                   /\ vain' = IF j = cur THEN vain \union {j} ELSE vain \ {j}
    /\ UNCHANGED <<nature, elsewhere, pc, dry, queue, copy, cur, idx, code, left, fresh, budget>>

own == <<pc, dry, queue, copy, cur, idx, code, left, fresh, elapsed, wait>>

\* Another process takes a job and finds its certificate in the file.
OtherTakes(j) ==
    /\ j \in Busy /\ j \notin elsewhere /\ j # cur /\ file[j] \in Job /\ nature[j] # "foreign"
    /\ file[j].certificate = disk[j]
    /\ elsewhere' = elsewhere \union {j}
    /\ UNCHANGED <<world, file, own>>

\* Another process takes its job to the next phase.
OtherMoves(j) ==
    /\ j \in elsewhere /\ file[j] \in Job
    /\ LET f == file[j]
           Saves(k) == file' = [file EXCEPT ![j] = k]
       IN  \/ /\ f.phase = "publish" /\ Saves(mark_published(f))
              /\ done' = [done EXCEPT ![j] = Ports] /\ UNCHANGED <<deployed, vain>>
           \/ /\ f.phase = "wait_before_reload" /\ UNCHANGED <<done, deployed, vain>>
              /\ \/ f.reload_after = 0 /\ Saves(mark_waiting_reload(f))
                 \/ j \in deployed /\ Saves(mark_reloaded(f))
           \/ /\ f.phase = "reload" /\ Saves(mark_reloaded(f))
              /\ Reloads(j) /\ UNCHANGED done
           \/ /\ f.phase = "wait_before_prune" /\ f.prune_after = 0
              /\ Saves(mark_ready_to_prune(f)) /\ UNCHANGED <<done, deployed, vain>>
           \/ /\ f.phase = "prune" /\ Saves(NoJob) /\ UNCHANGED <<deployed, vain>>
              /\ done' = IF j \in deployed THEN done ELSE [done EXCEPT ![j] = {}]
    /\ UNCHANGED <<nature, disk, elsewhere, own>>

\* It is done, gives up or dies.
OtherLeaves(j) ==
    /\ j \in elsewhere /\ elsewhere' = elsewhere \ {j}
    /\ UNCHANGED <<world, file, own>>

\* Every process is gone, and a file that was saved a moment ago may have no contents.
PowerFailure ==
    /\ Gone("killed") /\ elsewhere' = {}
    /\ \E lost \in SUBSET {j \in Jobs : (j \in elsewhere \/ j = cur) /\ file[j] \in Job} :
           file' = [j \in Jobs |-> IF j \in lost THEN Torn ELSE file[j]]
    /\ UNCHANGED <<world, dry>>

\* Time goes by while nobody computes: in a sleep, a reload command or a publisher's
\* request, in a call with a timeout, and between one resume and the next.
Tick ==
    /\ \/ pc \in Ended /\ UNCHANGED budget
       \/ (pc = "asleep" \/ (pc = "reload" /\ ~dry)) /\ elapsed' = OneMore /\ UNCHANGED wait
       \/ pc \in {"publish", "pruning"} /\ nature[cur] = "slow" /\ Lingers
       \/ pc \in Calls /\ nature[cur] = "slow" /\ Waits
    /\ file' = [j \in Jobs |-> IF file[j] = Torn THEN Torn ELSE Later(file[j])]
    /\ copy' = [j \in Jobs |-> Later(copy[j])]
    /\ UNCHANGED <<world, elsewhere, pc, dry, queue, cur, idx, code, left, fresh>>

-----------------------------------------------------------------------------
\* What the resume does by itself, when nothing goes wrong.  A slow service may leave
\* a call to its timeout.
Proceeds ==
    \/ Acquire \/ AlreadyRunning \/ UnknownPublisher \/ AllDone \/ Check \/ CertificateChanged
    \/ Publish \/ Published \/ Look \/ PortLive \/ NotLive \/ AlreadyLive \/ NoWait \/ Sleep \/ Wake
    \/ RunReload \/ DryReload \/ Fetch \/ NoTimeLeft \/ Fetched \/ Prune \/ Finished \/ DryPrune
    \/ pc = "fetching" /\ wait = 0 /\ FetchFails

\* gentlsa-resume.timer.
Timer == Load(Jobs) \/ NothingPending(Jobs) \/ Unreadable(Jobs)

\* A user names a job, or a zone with some of the jobs.
Filtered ==
    \E S \in SUBSET Jobs \ {{}, Jobs} : Load(S) \/ NothingPending(S) \/ Unreadable(S)

JobFaults == PublishFails \/ ReloadFails \/ FetchFails \/ PruneFails \/ Fails
Faults == AcquireFails \/ Crash \/ PowerFailure

Next ==
    \/ Timer \/ Filtered \/ Proceeds \/ JobFaults \/ Faults \/ Tick
    \/ \E j \in Jobs : Schedule(j) \/ OtherTakes(j) \/ OtherMoves(j) \/ OtherLeaves(j)

Spec == Init /\ [][Next]_vars

\* The timer starts a resume every ten minutes, a process that runs is scheduled, a
\* publisher answers some time, time goes by, and no process holds a job for ever.
Fairness ==
    /\ WF_vars(Timer) /\ WF_vars(Proceeds) /\ WF_vars(Tick)
    /\ \A j \in Jobs : WF_vars(OtherLeaves(j))

FairSpec == Spec /\ Fairness
-----------------------------------------------------------------------------
(* Properties.                                                             *)

\* The exit code of a resume that got through its list tells whether a job is left
\* over: one that fails is not hidden by those after it, nor keeps them from being tried.
ExitTruth == pc = "over" => (code = 0) = (left = {})

\* README.md:117, timeout.rs: a wait or a reload does not consume the budget of what
\* comes after it.  So the prune of a job whose services answer at once, once it has
\* slept or reloaded, never runs out of time, whatever the jobs before it used up.
RearmedServed ==
    pc = "prune" /\ fresh /\ nature[cur] = "prompt" => ~Spent

\* A job file goes away only when the hash of the certificate in the job's PEM file is
\* published for every port and the service presents it: whichever processes, dead or
\* alive, took it through which phase, and however old the copy that they finished.  Jobs
\* that a dry run went through apart, and those that no code can save from here on: a
\* reload command that exits with 0 need not reload (rollover.rs:529), in spite of
\* README.md:277, and a certificate is compared with its file once (main.rs:794).
CompletedIsDone ==
    [][\A j \in Jobs : nature[j] # "rehearsed" /\ j \notin vain /\ file[j] \in Job /\ file'[j] = NoJob
           => done[j] = Ports /\ j \in deployed]_vars

\* cli.rs:246: a dry run prints the sequence without writing records, sleeping, or
\* running --reload.  So it does not take the job further.
DryRunOnlyPrints ==
    [][\A j \in Jobs : dry /\ j = cur /\ file[j] \in Job /\ file'[j] \in Job
           => file'[j].phase = file[j].phase]_vars

\* Nothing before job j in the list takes time or ends the run.
Clear(j) == nature[j] = "prompt" /\ \A k \in Jobs : k < j => nature[k] = "prompt"

\* What may keep job j from being carried through.
Disturbs(j) ==
    \/ Schedule(j) \/ OtherTakes(j) \/ Faults \/ Filtered
    \/ cur = j /\ JobFaults

\* Once nothing disturbs it, every file can be read, and its own is not of an older
\* certificate, a pending job is carried through: failures of the other jobs, and their
\* waits, only make it later.
CarriedThrough ==
    \A j \in Followed :
        /\ <>[][~Disturbs(j)]_vars
        /\ <>[](Readable /\ (file[j] \in Job => file[j].certificate = disk[j]))
        => (Clear(j) /\ file[j] \in Job ~> file[j] = NoJob)
=============================================================================
