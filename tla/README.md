# gentlsa in TLA+

gentlsa publishes TLSA (DANE) records for the certificates of TLS services, and
carries a key rollover through: publish the hash of a renewed certificate, wait two
TTLs, have the service load it, wait two TTLs, delete the old hash.  This directory
holds a model of it in TLA+, the TLC configurations that check the model on small
instances, and proofs, checked by TLAPS, that the main results hold for instances of
every size.

Contents: [the system](#the-system), [modules](#modules), [the rollover
engine](#the-rollover-engine), [the lock](#the-lock), [the
publishers](#the-publishers), [verify](#verify), [a resume of several
jobs](#a-resume-of-several-jobs), [runs](#runs), [proofs](#proofs),
[disagreements](#where-the-code-and-its-docs-disagree), [plan](#plan),
[not modelled](#not-modelled).

## The system

One binary, several commands, no daemon.  What lasts lives outside the process: the
zone at a DNS provider, the certificate file, the service that presents a certificate,
and under `/var/lib/gentlsa/rollover` one `JOB.json` and one `JOB.lock/` per rollover.

| part | source | state it keeps | operations | what must be right |
|---|---|---|---|---|
| rollover job engine | `rollover.rs`, `main.rs` (`schedule_cmd`, `resume_cmd`, `rollover_cmd`, `execute_rollover`, `live_matches_file`) | the job file: phase, deadlines, certificate hash | schedule, resume, publish, wait, reload, wait, prune, save, remove | no client ever meets a certificate whose hash it cannot know; a job is never lost and is carried through |
| job lock | `rollover.rs` (`acquire_in`, `lock_is_stale`, `JobGuard`) | `JOB.lock/`, `JOB.lock/pid` | acquire, reclaim a stale lock, release | one process per job; a dead process does not block a job |
| resume of several jobs | `main.rs` (`resume_cmd`), `rollover.rs` (`load_jobs_in`, `wait_ttl`), `timeout.rs` (`restart`) | the list of jobs it has read, an exit code | read, filter, go through the jobs | a job neither hides another one's failure nor takes its time or its turn |
| publish rules | `publish.rs`, `main.rs` (`publish_cert`) | none | which records to add, replace and prune at an owner name | nothing is deleted that is not stale; publishing twice changes nothing |
| publishers | `cloudflare.rs`, `nsupdate.rs`, `route53.rs`, `azure.rs`, `google.rs` | the provider's RRset | find the zone, publish, prune; each by the requests its API has | two writers do not lose each other's records; a failure between requests leaves a usable RRset |
| verify | `report.rs`, `main.rs` (`verify`) | none | compare DNS, DNSSEC status and the live certificate; exit code | the worst outcome decides; a broken port is never reported as good |
| timeout budget | `timeout.rs` | one deadline for the process | init, restart, remaining | no wait is unbounded; time spent in a deliberate wait is not charged |
| live certificate | `cert.rs` (`fetch_live`, `TimedStream`, STARTTLS dialogues) | a connection | SMTP, IMAP, POP3, XMPP dialogues, handshake | TLS starts only after the server agreed; every dialogue ends |
| targets | `tlsa.rs`, `dns.rs`, `main.rs` (`resolve_targets`) | none | owner names, MX lookup and its normalisation | a record is written only inside the zone |
| commands | `main.rs` (`verify`, `generate`, `prune`, `list`, `file`, `rollover` without `--reload`) | none | the hosts and ports to go through, and the names that `list` looks up | every one has its turn; the exit code tells |
| command line, output, redaction | `cli.rs`, `output.rs`, `verbose.rs`, `redact.rs`, the report structures | none | parsing, JSON, text | formatting only |

The parts meet in these places.  A resume, a command and a hook may run at the same
time: they share the job file, the lock directory, the zone and the service.
`execute_rollover` calls the publish rules through a publisher once per port, and the
live certificate part once per port and look.  All network steps draw on the one
timeout budget.  Hard to test are the orders in which processes, renewals, reloads and
crashes interleave (the lock, copies of a job in memory, the file that changes under a
waiting process), failures half way through the ports, and time: deadlines that must be
as long as caches last, whenever they were computed.  `PROJECT.json` lists these hazards
line by line.

## Modules

| module | what it is |
|---|---|
| `RolloverJob` | a job and its moves from phase to phase, as operators |
| `Rollover` | the job engine: state machine and properties; one job, many processes |
| `Handover` | what a rollover promises, without phases, waits and processes: the abstract specification |
| `RolloverInv` | the inductive invariants of `Rollover` |
| `MCRollover` + `MCRollover_*.cfg` | its instances for TLC |
| `RolloverJobProofs` | lemmas on jobs, for the proofs of `Rollover` and of `Resume` |
| `RolloverSafety` | type correctness; the inductive invariant is preserved; the two two-TTL rules |
| `RolloverContinuity` | what an orderly machine promises its clients, that it is a `Handover`, and what one process does with ineffective reloads |
| `RolloverLock` | `acquire_in`, `lock_is_stale` and `Drop`, one file-system call per step |
| `MCRolloverLock` + cfgs, `RolloverLockProofs` | its instances, and its proofs |
| `Publish` | the decisions of `publish.rs`, as operators |
| `Publishers` | `publish_tlsa` and `prune_tlsa` of the five publishers, one request per step |
| `MCPublishers` + cfgs, `PublishersProofs` | its instances, and its proofs |
| `Timeout` | the budget of `--timeout`: what a call is armed with, and how time goes by |
| `Starttls` | one connection of `fetch_live`: the dialogues of `cert.rs` and a server at the other end |
| `Verdict` | the verdict of one port and of a run, and `normalize_mx`, as operators |
| `Listing` | the names that `list` looks up, as operators |
| `Verify` | the commands over hosts and ports: `verify`, `generate`, `prune`, `list`, `file`, and `rollover` without `--reload`; extends `Starttls`, `Verdict` and `Listing` |
| `MCVerify` + cfg | its instance |
| `VerifyProofs` | its proofs: the budget, that it goes on, the exit code, the dialogues |
| `VerifyHosts` | its proofs: hosts, ports and names, and the types |
| `Resume` | `--resume` over many jobs on one budget; extends `RolloverJob` and `Timeout` |
| `MCResume` + cfgs, `ResumeProofs` | its instances, and its proofs |

`Rollover` takes its lock as one variable with at most one holder, and acquiring it as one step.
`RolloverLock` has the calls behind that step, and says when it is justified: as long as no process
makes a lock while another one judges or removes one.  `Resume` shares the job and its phases with
`Rollover` (`RolloverJob`): there, many processes at one job, step by step; here, one process at
many jobs, with the other processes at a job as one `elsewhere`.  `Rollover` takes a publication of
a port for one step on the set of hashes in the zone; `Publishers` shows what the requests behind
that step do to the records, and who must not interfere.

Operators that a comment calls *Faulty* are not part of any specification.  Each is a
variant of the definition below it with a plausible bug, kept to see that the
properties notice it (`mutants` in `PROJECT.json`).

## The rollover engine

**State.**  The certificate file (`disk`), what the service presents on each port
(`live`) and for how long (`settled`), the 3 1 1 hashes that the zone holds for each
port (`rrset`) and for how long each has been there (`age`), the job file (`jobfile`),
the lock, and for each process where it is (`pc`), the job in its memory, the port its
loop is at, and the hash that `prune` fetched.  A certificate is the number of its
renewal and stands for its hash.

**Time.**  The code stores deadlines as Unix times and uses them through
`remaining(deadline, now)` alone.  The model stores that remainder, and `Tick` takes one
unit from every remainder, on disk and in memory; `age` and `settled` count up to the
bound at which they no longer matter.  The state space is finite without a horizon.
`Window` is the time for which a client may be answered from an RRset that has been
replaced; the code's factor of two TTLs is there to cover it, and `WindowAssumption`
(`Window <= 2 * TTL`) says that it does.

**Actions.**  One for each of: `resume_cmd` reading a job, `rollover_cmd` making or
continuing one, `schedule_cmd`, acquiring the lock or being refused, the comparison of
the file with the job, publishing one port, `mark_published`, looking at one port in
`live_matches_file`, sleeping, waking, `--reload`, `mark_reloaded`, fetching the live
hash in `prune`, pruning one port, `remove_job`.  Every network step and the reload
command may fail, before or after its effect.  `Crash` ends a process anywhere.  Around
them `Renew` changes the file, `ServiceRestart` has the service re-read it on some of
its ports, `Schedule` may come at any time.

Three constants select a machine: `ReloadEffective` (a `--reload` that exits 0 has
every port present the file), `ImplicitReloads` (the service may re-read its file
without being told), `RenewMidJob` (a renewal may come while a job is pending).

**Properties.**  `ReloadSafe` and `PruneSettled` are the two halves of the two-TTL rule
for the job's own certificate.  `Continuity` is the point of the tool: every answer that
a client can hold has the hash of the certificate that it is presented with.
`DeploysPublished`, `PruneWhenLive` and `CompletionClean` are what the documentation
promises of the steps, and `PendingCompletes` of the whole.  `JobNotLost`, that a job saved
for a newer certificate is not overwritten, is promised and not kept: it is there for its
counterexample only.

**Refinement.**  `Handover` has two variables: what each port presents, and which hashes
no client can miss there.  Its steps are that hashes spread, that ports go over to a
certificate that everybody knows there, and that all but the presented hash is retired.
`Rollover` implements it on an orderly machine: `presented` is `live`, and `known` is what
every answer contains that a client may hold, `Visible` (`ImplementsHandover`).  So the
phases, deadlines, crashes and copies of the job come to nothing else than that.

**Fairness.**  `Resume` is weakly fair because `contrib/systemd/gentlsa-resume.timer` starts one
every ten minutes (`OnUnitActiveSec`) and one minute after boot; `Progress` because a process that
can go on is scheduled; `Tick` because time goes by.  Nothing makes a command, a renewal, a restart,
a failure or a crash happen.  `PendingCompletes` assumes that disturbances stop at some point, and
nothing of what they left behind.

## The lock

`RolloverLock` has the directory, the pid file (absent, empty, or with a pid in it) and
who has it open.  `fs::write` is an open and a write; `remove_dir_all` is an unlink and
an rmdir, and the rmdir leaves a directory alone in which a file has appeared.  A process
may die between any two calls.  `IoError` is an error of `create_dir`, or of the opening or
the writing of the pid, other than those the code looks for: `acquire_in` returns it, and
leaves the directory, and the file, as they are.  `lock_is_stale` takes a lock for stale
whose pid file is absent or has no pid, or the pid of no process.  Any number of processes
may be in `acquire_in` and `Drop` at once.

Two processes can hold one job, and the run `lock_two` shows how.  What takes it is in the history
variable `raced`: at some moment one process was between `create_dir` and its pid (`Making`), and
another one between its look at a pid and the end of a removal (`Removing`). `ExclusiveUnlessRaced`
and `NamedUnlessRaced` say that without it one process has the job, and that the lock names it until
it gives it back, whatever errors, deaths, retries and releases there are.  It is a condition on
what happens in a behaviour, not on who may start: processes that start together, wait for each
other's calls, and reclaim one dead lock after the other all satisfy it as long as these two
stretches do not meet.  The code does nothing to keep them apart.

`NoOrphan` and `DeadNeverBlock` hold with races: a lock that names a living process
belongs to it, so that what nobody minds is stale, and a process that has met no other one
is never refused.  A pid runs once, so the module's processes come to an end, and the runs
do not look for deadlock.

## The publishers

A record has a name, a flag that says whether it is 3 1 1, a hash, and at Cloudflare an
id.  An operation reads the listing of the provider once (`Read`) and computes a plan:
records to delete one by one, and one last request.  The plan of each publisher is an
operator of its own, since they differ in what a request names:

| publisher | publish | prune | the provider refuses |
|---|---|---|---|
| Cloudflare | create a record, or update one by id | delete by id, one by one | ids that are gone, records that exist |
| nsupdate | append a record; a replace deletes one first | delete by value, one by one | nothing |
| Route 53 | overwrite the RRset | overwrite it, or delete what is named | a DELETE that names other records, or another TTL |
| Azure | overwrite the RRset | overwrite it, or delete it | nothing |
| Google | replace the RRset that was read | the same | a change whose RRset is not there |

The last column is how the providers answer, which the source relies on and does not
contain: those definitions (`Accepts`, `After`, `FreshId`, `SameRecord`) are marked
external.  A Route 53 DELETE names the records that were listed and the TTL that was
*configured* (`delete_rrset`), so it is refused, with nobody interfering, when the RRset has
another one: `other_ttl` has the owners of which that is so, `Fits` is what the provider asks of the
records, and `Accepts` adds the TTL.  A primary tells a name with nothing (NXDOMAIN, which
nsupdate's reader takes for an error) from one that has records of other types (`OtherData`).
`WriteFails` is a refusal, a failure, or a request that was done and whose
answer was lost.  `clean[c]` is a history variable: nobody else has written since client
`c` listed the records.

`OthersKept` is the promise to everyone else: a command removes 3 1 1 records with another hash, at
the names it works on, if it is a replace or a prune, and nothing else. It is unconditional with
nsupdate, which names what it deletes, and with Google, which compares; with the others it holds as
long as the listing is good, and no longer: an overwriting publisher loses what another one has
added since.  `OkMeansDone` is the promise to the caller.  `AloneAccepted` says that the plan fits
the provider: a client that alone writes is refused nothing, but for that one DELETE (`OtherTtl`).
`PlansSound` is the invariant that the first follows from.

## Verify

**State.**  `Verify` has the command line (`run`), where it is (`stage`), the hosts and
the number of the host and port it is at, what was found for it, the results so far and
the exit code; `Starttls` the connection: what the client waits for (`talk`), the lines of
the response it is reading, what is `wire`d to it and not read, and what the server is
about to do (`todo`); `Timeout` what is `elapsed`, and how long the call that is under way
may still `wait`.

**Data.**  TLSA records are told by how they compare with the chain (match, mismatch, not
comparable), a certificate by its days left, at and around the two thresholds, and a DNSSEC
status as the source has it.  An MX host is a number, in the order of the names, and a
spelling.  A reply is what the client's reader makes of it: its code, whether it is
continued, whether it has text; an XMPP element with its start and end apart.  `facts` in
a result is a history variable: the exit code that what was found asks for, written without
looking at the order in which the code folds its verdicts.

**Time.**  Calls take time and computation does not.  A call is armed with what is left;
a unit of time goes by in a call while it may wait (`Waits`), and then the call has returned
or times out.  An answer may come at any moment before that, the last one included, and
`Spent` is what the next call then meets.  A publisher's HTTP client has no timeout of its
own, and takes time all the same (`Lingers`).

**Actions.**  The MX lookup and its two outcomes, the check of the zones, the TLSA lookup,
resolving, connecting to one address after the other, `Read` of one reply, `ReadPart` of one byte or
more, the handshake, `Judge`, `Fetched` (`generate` and `prune` with the certificate), `prune`'s
listing, the publisher and its three outcomes, `list`'s two passes over the ports after its look at
the publisher, and an error at every network call.  A server is `honest` or not: an honest one
answers as its protocol says, agrees or refuses, and may send as many lines as it likes, and
whatever text it likes in its greeting; another one sends anything at any time.  `smooth` is a
history variable: the server is honest, has agreed to everything, nothing was cut, and it did
neither of two things that the client takes for a refusal: as many lines in one response as
`MaxLines` and more, and an IMAP greeting with " BYE" in its text, which `imap_negotiate` looks for
in the whole line (`cert.rs:480`) and so finds in `* OK byethost.example ready`.  The XMPP reader
goes, as the code does, by the first of the elements that it looks for, a stray end tag included,
and by a failure in any part of a reply.

**Properties.**  `WithinBudget` is the deadline.  `TlsInStep`: the handshake begins in step
with the server, and nothing of the dialogue is left over for TLS.  `HonestServed`: a
`smooth` server is not turned down but by the budget.  `HostsChosen` says what
`normalize_mx` must return, `WritesInZone` what a publisher may be asked for, `ExitByFacts`
that the exit code is the worst of the facts, `UnreachableGoesOn` that an unreachable host is
a result and not the end, and `Ends` that a run without a publisher ends.

**Fairness.**  Time goes by (`Time`), the program is scheduled (`Proceeds`), and a call whose
timeout is over returns (`TimesOut`).  Nothing is assumed of servers, resolvers and
publishers.  `Ends` therefore says nothing of a run with a publisher, which may hang.

## A resume of several jobs

**State.**  `Resume` has the job files, one per job (a file may be `Torn`: there and not to be
read), what each job's PEM file holds (`disk`), the ports at whose name its hash is published
(`done`) and the jobs whose service presents it (`deployed`), and the jobs that some other
process has the lock of (`elsewhere`).  The resume has the list of jobs that it has read
(`queue`, `copy`), the one it executes, its exit code, and `Timeout`'s budget.  `left`,
`fresh` and `vain` are history variables: the jobs it was to do and has neither finished nor found
running; whether it has slept or reloaded in the current job; and the jobs that were reloaded
without effect, or whose certificate was renewed while the resume executed them.

**Data.**  A job is a number, in the order of the ids.  Its `nature` is what is at the other end:
`prompt` services and publishers answer at once, `slow` ones take any time, a `foreign` publisher is
none that the program knows, a `deaf` service may go on as it was after a reload command that exits
with 0, which is all that `run_reload` looks at, and a `rehearsed` job is resumed with `--dryrun` as
well.  Deadlines are as in `Rollover`.

**Actions.**  Reading the files, with a filter or not, and its two ends without a job; acquiring,
`already running`, and the two errors that leave `resume_cmd` (an unknown publisher, an error of
`acquire`); in a job, the steps of `execute_rollover` in their order, each with its failure, and
each network call with what the budget has left.  `wait_ttl` returns as it came if there is
nothing to wait for, and sets the budget back if it slept; a reload sets it back before its exit
status is looked at.  `Crash` ends the process anywhere; `PowerFailure` ends all of them, and tears
files of jobs that were being executed (there is no fsync); another process may take a job, move
it on phase by phase, and leave it in any phase; `Schedule` renews a job, or schedules one that is
not there, and does so to the job that the resume executes as well: the file is compared with the
job once (`Check`), and what the resume publishes from then on is not what the file holds (`Same_file`).
The last prune deletes what the port does not present, the job's own hash included.

**Properties.**  `ExitTruth`: the exit code of a resume that got through its list is 0 exactly
if no job is left over.  `RearmedServed`: a job whose services answer at once never runs out of
time at its prune once it has slept or reloaded, whatever the jobs before it used up.
`CompletedIsDone`: a file goes away only when the hash of what is in the PEM file is published at
every port and presented, through whichever processes, copies and crashes.  It excepts, besides jobs
that a dry run went through, those in `vain`, for which it is false of the code: after a reload without
effect the resume prunes the hash that it published, and removes the job, in spite of README.md:277;
and a job renewed in mid-execution may be removed for the older certificate.  `CarriedThrough`: once
nothing disturbs it, a pending job is carried through.

`CarriedThrough` is about jobs that answer at once and that only such jobs come before (`Clear`), since
others may not be: a job behind one that takes up the budget, and whose own deadlines have passed,
waits zero seconds, sets nothing back, and fails at every resume in the same way; a job behind
one with an unknown publisher is never reached by the timer.  Its premises say that in the end
nothing disturbs the job (`Disturbs`), every file can be read, since one that cannot stops all of
them, and the job is not of an older certificate than its file, which every resume would refuse.
`Followed` names the jobs that a run checks it for.

**Fairness.**  The timer starts a resume (`Timer`), a process that runs is scheduled and its
publisher answers some time (`Proceeds`), time goes by (`Tick`), and no other process holds a job
for ever (`OtherLeaves`).  That disturbances stop is assumed in the property.

## Runs

| run | instance | checks |
|---|---|---|
| `rollover_hostile` | 2 processes, 1 port, 2 renewals, mid-job renewals and implicit reloads | `TypeOK`, `ReloadSafe`, `PruneSettled`, `IInv` |
| `rollover_orderly` | 2 processes, 2 ports, 2 renewals, orderly, with fairness | `Continuity`, `PruneWhenLive`, `DeploysPublished`, `OrderlyInv`, `CompletionClean`, `ImplementsHandover`, `PendingCompletes` |
| `rollover_ineffective` | 1 process, 2 ports, reloads that reach some ports only | `Continuity` |
| `rollover_renewed`, `rollover_job_lost` | the smallest instances that show it | see [below](#where-the-code-and-its-docs-disagree) |
| `lock_any` | 4 pids in any order | `TypeOK`, `ExclusiveUnlessRaced`, `NamedUnlessRaced`, `NoOrphan`, `DeadNeverBlock` |
| `lock_two` | 2 pids at once | see below |
| `publishers_all` | 2 clients, 2 owners, one with records of other types, 2 hashes, 3 ids, each of the five publishers | `TypeOK`, `PlansSound`, `AloneAccepted`, `OthersKept`, `OkMeansDone` |
| `publishers_owner` | 1 client at Cloudflare | see below |
| `verify_runs` | 16 command lines, 2 MX hosts, 2 preferences, 2 addresses, `Limit` 2, 2 listings | `TypeOK`, `WithinBudget`, `TlsInStep`, `HonestServed`, `HostsChosen`, `NamesLookedUp`, `WritesInZone`, `ExitByFacts`, `UnreachableGoesOn`, `Ends` |
| `resume_jobs` | 2 jobs in four mixes of natures, 1 port, 1 renewal, `TTL` 1, `Limit` 1 | `TypeOK`, `ExitTruth`, `RearmedServed`, `CompletedIsDone`, `CarriedThrough` |
| `resume_dryrun` | 1 job | see below |

Bounds, and why they are enough.  Two processes are one that acts and one that has an older copy of
the job or is refused; more of them hold more copies, and the proofs cover any number.  Two ports
are needed for a loop that stops half way; two renewals for a job that is overtaken by a second
certificate (`MaxCert` bounds them).  `TTL = 1` makes a wait of two units, so that one TTL and two
can be told apart, and `Window = 2` is the longest that the assumption allows.  Four pids give one
that holds or has died, and a reclaimer whose retries meet two others, with every overlap of their
calls.  Two hashes, two owners and both values of the 3 1 1 flag give every record that the
operations distinguish; three ids bound the records that Cloudflare may have at a time.  Where
processes, pids, clients, hashes or ids are interchangeable and no liveness is checked, the runs use
symmetry.

For `verify_runs`: the command lines (`Lines`) are each command with hosts from MX and with two
ports, with and without a publisher, DNSSEC and expiry checks, `list` with and without ports, and
between them each of the five dialogues, by port and by `--starttls`.  `Limit` of 2 has calls that
begin with all, with half and with nothing of the budget.  MX answers of up to three records
(`MaxMx`) over two hosts, the null MX, two preferences, two spellings and three proofs are all that
`normalize_mx` may merge or swap; the third record is what a merged exchange with a lowered
preference changes place with.  The listings have a name in two spellings, a name with two records,
and a port that two owners have.  Two addresses (`MaxAddrs`) give a refused one with another left.
`MaxLines` is the code's limit on responses, 2 for the 64 and 512 there: a response at the limit and
one beyond it.  `MaxWire` of 2 bounds what a server may send ahead.  A run comes to an end, so the
run does not look for deadlock.

For `resume_jobs`: what one job does to the next needs two of them, and the first one is what
makes the difference; so the second answers at once, is rehearsed, or is deaf to reloads, and the
first answers at once, or not, or ends the run (`AfterEach`).  `CarriedThrough` follows the second
one, which the first comes before.  The other processes are at the second job
(`Busy`), which is also the one that is renewed.  A `Limit` of one unit is used up by any call
that lingers, and is less than any wait of two TTLs.

## Proofs

All by TLAPS, from the assumptions on the constants that the modules name.

* `RolloverJobProofs`: what each `mark_...` function does to the fields of a job
  (`MarkPublished`, `MarkReloaded`, ...).
* `RolloverSafety`: `TypeCorrect`, `Spec => []TypeOK`;
  under `ReloadEffective`, `Invariance`, `ReloadSafety` and `PruneSafety`; all for any numbers
  of processes, ports and renewals and any TTL.
* `RolloverContinuity`: `OrderlyInvariance`, and from it `ContinuityHolds`,
  `DeployedWasPublished`, `PruneKeepsOwn`, `CompletionIsClean` and
  `HandoverImplemented`, on an `Orderly` machine (`ReloadEffective`, no implicit reload, no
  renewal in mid-job); and `ContinuityAlone`, with reloads that may be ineffective, for one process.
* `RolloverLockProofs`: `LockTypeCorrect`, `NoOrphanHolds`, `DeadNeverBlockHolds`, `Exclusion`
  (`ExclusiveUnlessRaced`) and `HolderIsNamed` (`NamedUnlessRaced`), for any set of pids, in any order,
  with no assumption but that "no process" is none of them.
* `PublishersProofs`: `PublishersInvariance`, `MeantInvariance`, and from them `TypesHold`,
  `PlansSoundHolds`, `OthersKeptHolds`, `AloneAcceptedHolds` and `OkMeansDoneHolds`, for any
  zone, any sets of owners, hashes, ids and clients, and each publisher.
* `VerifyProofs`: `DeadlineHolds`, `GoesOn`, `ExitTellsFacts`, `WireInvariance`, and from it
  `TlsInStepHolds` and `HonestServedHolds`, for any limits, thresholds, command lines, hosts
  and servers.
* `VerifyHosts`: `HostsInvariance`, and from it `HostsChosenHolds`, `WritesInZoneHolds` and
  `NamesLookedUpHolds`, for MX answers, listings and command lines of any length; and
  `VerifyTypesHold`, `Spec => []TypeOK`, which takes all of Verify's invariants together.
* `ResumeProofs`: `ResumeTypeCorrect`, `ExitTells`, `Rearmed` and `CompletionIsDone`, for any
  number of jobs, ports and renewals, any TTL and limit, and any other processes, crashes and
  power failures; the exceptions of `CompletedIsDone` are stated in it (`vain`, dry runs).

The argument for the engine.  None of its safety properties is inductive: a process that
is refused or crashes leaves copies of the job behind, one of which is continued later.
`IInv` says what *every* copy, on disk or in a memory, may be relied on for (`CopyOK`): a
copy of the current certificate that says "published" means that the hash is in every
port's RRset and will be in every answer by the copy's deadline; one that says
"reloaded", that every port presents it and will have done so for two TTLs by its second
deadline.  Tick keeps both sides of these comparisons in step.  `OldWorkInv` is what
makes it hold across renewals: while a process works on an older certificate, and may
prune, no copy claims that the new one is published.  `LockInv` gives one worker.
`OrderlyInv` adds that all copies are of the current certificate, that every answer has
the presented hash, and what pruned ports hold.

When a reload may leave ports as they were, `IInv` is false: a copy that says "reloaded" says
nothing of the service, and prune then takes the hash that was published.  `AloneInv` is about
what is left: a copy that has a reload ahead of it has its hash in the zone and in every answer by
its deadline; once a copy prunes, no other one has a reload ahead of it, which is where `Alone`
is needed; and what prune has fetched is what the port presents.  That a prune of one port and
a reload keep the promise (`ContinuityNext`) is one lemma for both invariants.

The argument for the lock.  `Orderly` says who may be where: who makes a lock is alone with it,
who holds one is named by it, and who is about to remove one has not taken the holder for dead.
It is kept by every step that ends without `Race` (`RaceNext`), so `RaceInv`, that it holds
unless there was a race, is inductive.  `OrphanInv`, that only a process that holds, drops or is gone
has its pid in the file, needs no such condition.

The argument for the publishers.  When a plan is made, it removes only what the operation
may remove (`PublishPlans`, `PrunePlans`: one case per publisher).  A step of another
client either leaves the zone as it is or makes the listing unreliable, and a step of the
client itself only makes the plan smaller and the zone it relies on too (`SoundShrinks`).
Cloudflare's ids must stay unique for this (`UniqueIds`).  That a plan also does what it is
for is a second invariant (`MeantInv`), which says of each client: whatever it has still to
send is accepted as long as its listing is good, the last request adds what a publish is for
unless it is there already, and, undisturbed, what is stale is among what goes.  From it
follow `AloneAccepted` and `OkMeansDone`.

The argument for verify.  Every step either lets a unit of time go by in a call, ends a call,
begins one with what is left, or leaves the budget alone (`EveryStepIsBudgetStep`); so
`elapsed + wait` stays within the limit (`BudgetInv`), which needs that no call is under way
while the publisher takes time.  For the exit code, `VerdictByFacts` shows that folding expiry
and the two DNSSEC verdicts into an outcome is the verdict by the facts, `WorstExit` that
`worst_verify_exit` is the maximum by Nagios's order, and `ExitInv` that each result has the
exit of its facts and that `code` keeps a failure.

The argument for the dialogues.  `TlsInStep` speaks of one moment, the handshake; to get there
the invariant (`DialogueInv`) says where client and server are at every moment before it.  While
an honest server's client waits for an answer, the wire holds part of that answer, and the
server is about to send the rest, or has sent all of it and is about to do what comes next
(`Answering`): nothing but replies that the answer goes on after (`Pending`), then one that
agrees (`Agrees`) or refuses (`Refuses`); an XMPP `<proceed>` may have its end tag on the wire or
not.  `Pending` counts the replies against the client's limit, which gives `HonestServed`.
A read is then one lemma (`ReadAnswer`), and an answer of the server's another (`AnswersMeet`).

The argument for hosts and ports.  `normalize_mx` goes through the answer record by record.
What it has after each of them (`Gathered`) is proved by induction on their number: each host of
the records so far once, with the lowest of its preferences; and `SortedSorts` shows that the place
of a host, the number of those before it, is a place of its own.  `UniqueNames` is the same for
the names of a listing.  `HostsInv` then says where the loop may be: at a host and port, or
past the last, with a result for each before it; that the hosts are in the zone once a
publisher is to write; and that a list has one host.  Every step is a `LoopStep`.

Recursion and induction.  The library's induction theorem takes a predicate as a parameter,
and so cannot be used here.  `NatInd` is the same for a set: one that has 0, and with each
number the next one, has all of them; it follows from the library's well-foundedness of inclusion
of finite sets.  The operators that go through a list are recursive functions, which
a proof gets hold of when it has shown by `NatInd` that such a function exists
(`MergingExists`, `KeepingExists`, `NamingExists`).  The provers see nothing of `SortSeq`,
`SelectSeq` and `FoldLeft`; that is why `Sorted`, `matching` and `unique_names` spell out what
these would do.

The argument for a resume.  Every step is of one of a few kinds (`Kinds`): a start, a step from job
to job, one that stays in a job, one that ends it, the end of the process, a step of the others, a
tick; each invariant has a step of its proof per kind.  `ExitInv` keeps the jobs still to do within
`left`, and equal to it as long as the code is 0.  `RearmInv`: once a job has slept or reloaded, the
budget is whole but for the sleep or reload under way.  `CompletedIsDone` needs two invariants
together: `RecordsInv` says what every record of the certificate in the PEM file may be relied on
for, in a file or in a copy, as `CopyOK` does for `Rollover`, if its job is not in `vain`, and
`CurrentInv` that the position of the resume agrees with its copy and with what it did.  That a
prune does not take the hash that a record relies on (`PruneKeeps`), and that a renewal makes every
older record say nothing (`Keeping`), are where the two meet.

Every invariant and every action property that a passing run checks is a theorem, under the
assumptions of that run or fewer.  Model-checked only is liveness (`PendingCompletes`, `Ends`,
`CarriedThrough`), which is beyond the prover.

The proofs found things in the models.  The arms of the CASE of `xmpp_read_element` overlapped, so that TLA+
left open which of them was meant; they are disjoint now.  `TypeOK` of `Verify` is not inductive
without what `TypesInv` adds: while a connection is tried there is an address left to try.

What the assumptions exclude is real.  Without `ReloadEffective`, with one more process
that resumes a stale copy of the job, `ReloadSafe` fails: `resume_cmd` reads every job
before it locks the first one, and the copy may outlive a process that finished the job
and pruned its hash.  With a race, the lock fails as `lock_two` shows.  With `RenewMidJob`,
`Continuity` fails as `rollover_renewed` shows.  With `ImplicitReloads` it fails when the
service presents a new certificate before its hash was published, which no tool that is
not in charge of the service could prevent.

## Where the code and its docs disagree

Each is a run that TLC finds a counterexample for; `findings` in `PROJECT.json` quotes
the lines.

* `rollover_renewed`: a renewal during the first wait; `--reload` then deploys a
  certificate whose hash was never published.  The file is compared with the job when
  `execute_rollover` starts, and not again.
* `rollover_job_lost`: `--schedule` writes its job without the lock; a process carrying on
  with the older certificate saves its own job over it.
* `lock_two`: `acquire_in` creates the directory before it writes the pid, and
  `lock_is_stale` takes a directory without a pid for stale.
* `publishers_owner`: the Cloudflare publisher takes the records of the apex for those of
  the host that was named, and replaces or prunes them.

* `resume_dryrun`: `--resume --dryrun` prints the phases and saves each of them as done; the
  next resume starts at the last one.

One more has no run of its own, and is why the proofs assume `ReloadEffective`.  README.md:277 says
not to prune before the service presents the new certificate.  After a reload command that exits 0
without effect, `execute_rollover` waits, prunes all but the hash that is still presented, and so
deletes the hash that it published.  `PruneWhenLive` holds only under `ReloadEffective`; with that
constant FALSE the smallest instance (one process, one port) violates it.

## Plan

Done, in order of importance: `Rollover`; `RolloverLock`; `Publish` and `Publishers`;
`Verify` with `Timeout`, `Starttls` and `Verdict`; `Rollover` as an implementation of `Handover`;
`Resume`; `Listing` and the commands that only publish or list.  Next:

1. *The zone.*  The step `PublishPort` / `PrunePort` of `Rollover` as an abstract zone that
   `Publishers` implements for a single writer; what clients see during an nsupdate replace;
   listings of several pages.
2. *An abstract verify.*  A specification that has only results and an exit code, which
   `Verify` implements.

## Not modelled

* `--dryrun` of the publishers, of `file` and of a `rollover` that stores no job: nothing is
  written.  `--resume --dryrun` is in `Resume`, since it writes the job file.
* Clocks that are set: deadlines are wall-clock times, sleeps are not.
* The file system below a rename, but for files that a power failure tears (`Resume`); two
  processes that write one job under its temporary name at the same moment.
* The reuse of a pid by another program, which would look like a lock that is held.
* TTLs of records, but for whether a Route 53 RRset has the configured one, pages of a listing
  (Cloudflare's asks for one; the others' do not split an RRset), the order of an RRset (the model
  allows every order).
* Records of other ports, credentials, tokens, HTTP, signatures and parsing: a request is done,
  refused or lost.
* Spellings of job ids: `valid_job_id` skips, when jobs are read, an id of 200 characters that
  was saved.
* The marks `current` and `stale` of a list: they are printed, and nothing reads them.
* What a certificate or a record looks like: parsing, parameters, hashes; the contents of the
  handshake; bytes of a reply, of which `ReadPart` may be any number.
* Command line, output, redaction, and the systemd units, but for what the timer starts.
