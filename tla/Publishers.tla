----------------------------- MODULE Publishers -----------------------------
(***************************************************************************)
(* publish_tlsa and prune_tlsa of the five publishers: one listing, then   *)
(* the requests that the provider's API has for the change.  Several       *)
(* gentlsa runs (two rollovers, a hook, a user) work on one zone at the    *)
(* same time; a request may fail, or be done and its answer lost.          *)
(*                                                                         *)
(* The five differ in what a write is: Cloudflare creates, updates and     *)
(* deletes single records by an id; nsupdate adds and deletes single       *)
(* records by value; Route 53 and Azure overwrite the RRset; Google        *)
(* replaces an RRset that it names by one that it names.                   *)
(***************************************************************************)
EXTENDS Integers, Publish

CONSTANTS
    Backends,  \* the publishers of this instance
    Clients,   \* gentlsa runs
    Hashes,    \* the SPKI hashes
    Owners,    \* owner names of one port, the apex among them
    OtherData, \* the names of these that have records of other types
    Ids,       \* Cloudflare's record ids; bound: the records there may ever be
    NoId,      \* a record of another publisher
    NoOp       \* a client that is not at work

ASSUME PublishersAssumption ==
    /\ Backends \subseteq {"cloudflare", "nsupdate", "route53", "azure", "google"}
    /\ Apex \in Owners
    /\ OtherData \subseteq Owners
    /\ NoId \notin Ids
    /\ NoOp \notin [kind : {"publish", "replace", "prune"}, owner : Owners, hash : Hashes]

VARIABLES
    backend,  \* whose zone it is
    zone,     \* the TLSA records of the port that the provider holds
    other_ttl, \* with Route 53: owners whose RRset has another TTL than the configured
    pc,       \* where each client is
    op,       \* what it has been asked for
    doomed,   \* records that it will delete one by one
    final,    \* the request after them
    clean     \* history: no other client has written since it listed the records

vars == <<backend, zone, other_ttl, pc, op, doomed, final, clean>>

Record == [id : Ids \union {NoId}, owner : Owners, dane : BOOLEAN, hash : Hashes]
Op == [kind : {"publish", "replace", "prune"}, owner : Owners, hash : Hashes]

NoRequest == [kind |-> "none"]
Request == {NoRequest}
    \union [kind : {"create", "append"}, rec : Record]
    \union [kind : {"update"}, id : Ids \union {NoId}, rec : Record]
    \union [kind : {"set", "drop"}, owner : Owners, records : SUBSET Record]
    \union [kind : {"erase"}, owner : Owners]
    \union [kind : {"change"}, owner : Owners, from : SUBSET Record, to : SUBSET Record]

\* The command has ended, with 0 or with an error.
Over == {"ok", "failed"}

\* Cloudflare's records have ids, each its own, and differ in more than that.
IdsOK == \A r, s \in zone :
    /\ (r.id # NoId) = (backend = "cloudflare")
    /\ r # s => [r EXCEPT !.id = NoId] # [s EXCEPT !.id = NoId]
    /\ r # s /\ backend = "cloudflare" => r.id # s.id

TypeOK ==
    /\ backend \in Backends
    /\ zone \subseteq Record
    /\ other_ttl \subseteq Owners
    /\ pc \in [Clients -> {"idle", "read", "write"} \union Over]
    /\ op \in [Clients -> Op \union {NoOp}]
    /\ doomed \in [Clients -> SUBSET Record]
    /\ final \in [Clients -> Request]
    /\ clean \in [Clients -> BOOLEAN]
    /\ IdsOK
    /\ \A c \in Clients : /\ pc[c] \in {"read", "write"} => op[c] \in Op
                          /\ pc[c] = "write" => doomed[c] # {} \/ final[c] # NoRequest

At(o) == {r \in zone : r.owner = o}

Init ==
    /\ backend \in Backends
    /\ \E S \in SUBSET [owner : Owners, dane : BOOLEAN, hash : Hashes] :
       \E id \in [S -> IF backend = "cloudflare" THEN Ids ELSE {NoId}] :
           /\ backend = "cloudflare" => \A r, s \in S : id[r] = id[s] => r = s
           /\ zone = {[id |-> id[r], owner |-> r.owner, dane |-> r.dane, hash |-> r.hash] : r \in S}
    /\ other_ttl \in SUBSET {o \in Owners : backend = "route53" /\ At(o) # {}}
    /\ pc = [c \in Clients |-> "idle"]
    /\ op = [c \in Clients |-> NoOp]
    /\ doomed = [c \in Clients |-> {}]
    /\ final = [c \in Clients |-> NoRequest]
    /\ clean = [c \in Clients |-> TRUE]

live_dane(o, h) == [id |-> NoId, owner |-> o, dane |-> TRUE, hash |-> h]

-----------------------------------------------------------------------------
(* What each publisher makes of the records it finds: the pairs of records *)
(* to delete and last request it may go on with.  No pair is no change.    *)

Plan(records, request) == [doomed |-> records, final |-> request]

\* Everything that the listing has at the owner, or at the apex.
cloudflare_ours(o) == {r \in zone : r.owner \in owner_names(o)}

cloudflare_publish(o, h, mode) ==
    LET ours == cloudflare_ours(o)
        action == publish_action(ours, h, mode)
    IN  CASE action = "already_published" -> {}
          [] action = "added" -> {Plan({}, [kind |-> "create", rec |-> live_dane(o, h)])}
          [] action = "replaced" ->
               {Plan({}, [kind |-> "update", id |-> existing.id, rec |-> live_dane(o, h)]) :
                   existing \in {r \in ours : r.dane}}

cloudflare_prune(o, h) ==
    LET stale == stale_dane(cloudflare_ours(o), h)
    IN  IF stale = {} THEN {} ELSE {Plan(stale, NoRequest)}

\* A replace is a delete and an add.
nsupdate_publish(o, h, mode) ==
    LET action == publish_action(At(o), h, mode)
        add == [kind |-> "append", rec |-> live_dane(o, h)]
    IN  CASE action = "already_published" -> {}
          [] action = "added" -> {Plan({}, add)}
          [] action = "replaced" -> {Plan({existing}, add) : existing \in {r \in At(o) : r.dane}}

\* Faulty: goes on without anything stale.
nsupdate_prune_anyway(o, h) == {Plan(stale_dane(At(o), h), NoRequest)}

nsupdate_prune(o, h) ==
    LET stale == stale_dane(At(o), h)
    IN  IF stale = {} THEN {} ELSE {Plan(stale, NoRequest)}

\* The new RRset, whatever is there by then.
route53_publish(o, h, mode) ==
    LET action == publish_action(At(o), h, mode)
    IN  IF action = "already_published" THEN {}
        ELSE {Plan({}, [kind |-> "set", owner |-> o, records |-> next]) :
                 next \in rrset_after_publish(At(o), live_dane(o, h), action)}

\* Faulty: the DELETE does not name what is there.
route53_prune_next(o, h) ==
    LET next == rrset_after_prune(At(o), h)
    IN  IF stale_dane(At(o), h) = {} THEN {}
        ELSE {Plan({}, [kind |-> IF next = {} THEN "drop" ELSE "set", owner |-> o, records |-> next])}

\* A DELETE has to name what is there; its TTL is the configured one, as an UPSERT's is.
route53_prune(o, h) ==
    LET next == rrset_after_prune(At(o), h)
    IN  IF stale_dane(At(o), h) = {} THEN {}
        ELSE IF next = {} THEN {Plan({}, [kind |-> "drop", owner |-> o, records |-> At(o)])}
        ELSE {Plan({}, [kind |-> "set", owner |-> o, records |-> next])}

\* The new RRset, or none.
azure_apply_rrset(o, next) ==
    IF next = {} THEN [kind |-> "erase", owner |-> o]
    ELSE [kind |-> "set", owner |-> o, records |-> next]

azure_publish(o, h, mode) ==
    LET action == publish_action(At(o), h, mode)
    IN  IF action = "already_published" THEN {}
        ELSE {Plan({}, azure_apply_rrset(o, next)) :
                 next \in rrset_after_publish(At(o), live_dane(o, h), action)}

azure_prune(o, h) ==
    IF stale_dane(At(o), h) = {} THEN {}
    ELSE {Plan({}, azure_apply_rrset(o, rrset_after_prune(At(o), h)))}

Change(o, next) == [kind |-> "change", owner |-> o, from |-> At(o), to |-> next]

google_publish(o, h, mode) ==
    LET action == publish_action(At(o), h, mode)
    IN  IF action = "already_published" THEN {}
        ELSE {Plan({}, Change(o, next)) : next \in rrset_after_publish(At(o), live_dane(o, h), action)}

google_prune(o, h) ==
    IF stale_dane(At(o), h) = {} THEN {}
    ELSE {Plan({}, Change(o, rrset_after_prune(At(o), h)))}

publish_tlsa(o, h, mode) ==
    CASE backend = "cloudflare" -> cloudflare_publish(o, h, mode)
      [] backend = "nsupdate" -> nsupdate_publish(o, h, mode)
      [] backend = "route53" -> route53_publish(o, h, mode)
      [] backend = "azure" -> azure_publish(o, h, mode)
      [] backend = "google" -> google_publish(o, h, mode)

prune_tlsa(o, h) ==
    CASE backend = "cloudflare" -> cloudflare_prune(o, h)
      [] backend = "nsupdate" -> nsupdate_prune(o, h)
      [] backend = "route53" -> route53_prune(o, h)
      [] backend = "azure" -> azure_prune(o, h)
      [] backend = "google" -> google_prune(o, h)

Plans(p) == IF p.kind = "prune" THEN prune_tlsa(p.owner, p.hash) ELSE publish_tlsa(p.owner, p.hash, p.kind)

-----------------------------------------------------------------------------
(* What the provider does with a request.                                  *)

SameRecord(r, s) == r.owner = s.owner /\ r.dane = s.dane /\ r.hash = s.hash

\* An id is never used again.
FreshId(i) ==
    /\ \A r \in zone : r.id # i
    /\ \A c \in Clients : /\ \A r \in doomed[c] : r.id # i
                          /\ final[c].kind = "update" => final[c].id # i

AcceptsDelete(r) == backend = "cloudflare" => \E s \in zone : s.id = r.id

Deleted(r) == IF backend = "cloudflare" THEN {s \in zone : s.id # r.id} ELSE zone \ {r}

\* The records that the request names are there, and those that it makes are not.
Fits(q) ==
    CASE q.kind = "create" -> ~\E s \in zone : SameRecord(s, q.rec)
      [] q.kind = "update" -> /\ \E s \in zone : s.id = q.id
                              /\ ~\E s \in zone : s.id # q.id /\ SameRecord(s, q.rec)
      [] q.kind = "drop" -> At(q.owner) = q.records
      [] q.kind = "change" -> At(q.owner) = q.from
      [] OTHER -> TRUE

\* Route 53 compares the TTL of the RRset that a DELETE names, too.
Accepts(q) == Fits(q) /\ (q.kind = "drop" => q.owner \notin other_ttl)

\* The zones that can come of a request that is accepted.
After(q) ==
    CASE q.kind = "create" -> {zone \union {[q.rec EXCEPT !.id = i]} : i \in {i \in Ids : FreshId(i)}}
      [] q.kind = "update" -> {{s \in zone : s.id # q.id} \union {[q.rec EXCEPT !.id = q.id]}}
      [] q.kind = "append" -> {zone \union {q.rec}}
      [] q.kind = "set" -> {(zone \ At(q.owner)) \union q.records}
      [] q.kind = "change" -> {(zone \ At(q.owner)) \union q.to}
      [] q.kind \in {"drop", "erase"} -> {zone \ At(q.owner)}
      [] OTHER -> {}

\* The last request of c is done: an UPSERT gives the RRset the configured TTL.
Do(c) ==
    /\ Accepts(final[c])
    /\ zone' \in After(final[c])
    /\ other_ttl' = IF final[c].kind = "set" THEN other_ttl \ {final[c].owner} ELSE other_ttl

-----------------------------------------------------------------------------
(* A client.                                                               *)

\* What c has been asked for, and what of it it still has to send.
Carry(c, p, records, request) ==
    /\ op' = [op EXCEPT ![c] = p]
    /\ doomed' = [doomed EXCEPT ![c] = records]
    /\ final' = [final EXCEPT ![c] = request]

Goto(c, l) == pc' = [pc EXCEPT ![c] = l]

End(c, l) == Goto(c, l) /\ Carry(c, NoOp, {}, NoRequest)

\* No other client that has its listing can rely on it any more.
Noticed(c) ==
    clean' = [d \in Clients |-> clean[d] /\ (d = c \/ zone' = zone)]

\* A command, or the next one, or the same one again.
Begin(c) ==
    /\ pc[c] \in {"idle"} \union Over
    /\ \E p \in Op : Carry(c, p, {}, NoRequest)
    /\ Goto(c, "read")
    /\ UNCHANGED <<backend, zone, other_ttl, clean>>

\* The primary answers NXDOMAIN for a name that has no record, of this type or another.
NoSuchName(c) == backend = "nsupdate" /\ At(op[c].owner) = {} /\ op[c].owner \notin OtherData

Read(c) ==
    /\ pc[c] = "read"
    /\ ~NoSuchName(c)
    /\ \/ Plans(op[c]) = {} /\ End(c, "ok")
       \/ \E plan \in Plans(op[c]) : Goto(c, "write") /\ Carry(c, op[c], plan.doomed, plan.final)
    /\ clean' = [clean EXCEPT ![c] = TRUE]
    /\ UNCHANGED <<backend, zone, other_ttl>>

\* NXDOMAIN, not configured, not managed, or the listing failed.
ReadFails(c) ==
    /\ pc[c] = "read"
    /\ End(c, "failed")
    /\ UNCHANGED <<backend, zone, other_ttl, clean>>

DeleteOne(c) ==
    /\ pc[c] = "write"
    /\ \E r \in doomed[c] :
          /\ AcceptsDelete(r)
          /\ zone' = Deleted(r)
          /\ IF doomed[c] = {r} /\ final[c] = NoRequest
             THEN End(c, "ok")
             ELSE Goto(c, "write") /\ Carry(c, op[c], doomed[c] \ {r}, final[c])
    /\ Noticed(c)
    /\ UNCHANGED <<backend, other_ttl>>

SendFinal(c) ==
    /\ pc[c] = "write"
    /\ doomed[c] = {}
    /\ Do(c)
    /\ End(c, "ok")
    /\ Noticed(c)
    /\ UNCHANGED backend

\* A request is refused, or fails, or its answer does: the rest of the plan is dropped.
WriteFails(c) ==
    /\ pc[c] = "write"
    /\ \/ UNCHANGED <<zone, other_ttl>>
       \/ /\ \E r \in doomed[c] : AcceptsDelete(r) /\ zone' = Deleted(r)
          /\ UNCHANGED other_ttl
       \/ doomed[c] = {} /\ Do(c)
    /\ End(c, "failed")
    /\ Noticed(c)
    /\ UNCHANGED backend

Write(c) == DeleteOne(c) \/ SendFinal(c) \/ WriteFails(c)

Next ==
    \E c \in Clients :
        \/ Begin(c)
        \/ Read(c) \/ ReadFails(c)
        \/ Write(c)

Spec == Init /\ [][Next]_vars

-----------------------------------------------------------------------------
(* Properties.                                                             *)

\* The owner names that an operation works on.
Touched(p) == IF backend = "cloudflare" THEN owner_names(p.owner) ELSE {p.owner}

\* What an operation is for: a replace and a prune remove 3 1 1 records with another
\* hash at the names they work on, and a publish removes nothing.
MayRemove(p) ==
    {r \in Record : p.kind # "publish" /\ r.dane /\ r.hash # p.hash /\ r.owner \in Touched(p)}

\* README: "the new hash is added and the old one is kept".  No request removes a
\* record that the operation is not for, be it the hash being kept, a record with other
\* parameters or another name's: with the value-addressed requests of nsupdate and the
\* conditional ones of Google however many clients there are, with the other publishers
\* as long as nobody has written since the listing.
OthersKept ==
    [][\A c \in Clients :
          Write(c) /\ (clean[c] \/ backend \in {"nsupdate", "google"})
              => zone \ zone' \subseteq MayRemove(op[c])]_vars

\* A publish that says it is done, even after failures, lost answers and other writers,
\* leaves its hash in the zone; a prune nobody has interfered with no stale record.
OkMeansDone ==
    [][\A c \in Clients : pc[c] # "ok" /\ pc'[c] = "ok" =>
          IF op[c].kind = "prune"
          THEN clean[c] => \A r \in zone' : r.dane /\ r.owner \in Touched(op[c]) => r.hash = op[c].hash
          ELSE \E r \in zone' : r.dane /\ r.owner \in Touched(op[c]) /\ r.hash = op[c].hash]_vars

\* A pending request fits what is there, and whatever the operation has sent, as long as
\* nobody else has written since its listing.  One is refused all the same, at every try:
\* the DELETE of a Route 53 RRset whose TTL is not the configured one.
NextAccepted(c) ==
    IF doomed[c] = {} THEN Accepts(final[c]) ELSE \A r \in doomed[c] : AcceptsDelete(r)

OtherTtl(c) == final[c].kind = "drop" /\ final[c].owner \in other_ttl

AloneAccepted ==
    \A c \in Clients : pc[c] = "write" /\ clean[c] /\ ~OtherTtl(c) => NextAccepted(c)

\* What is left of a plan takes away what the operation is for and nothing else, unless
\* the listing is not to be relied on any more and the provider does not look.
PlanSound(c) ==
    LET mine == MayRemove(op[c])
        q == final[c]
    IN  /\ doomed[c] \subseteq mine
        /\ backend = "cloudflare" /\ clean[c] =>
              \A r \in doomed[c], s \in zone : s.id = r.id => s \in mine
        /\ q.kind = "append" => backend = "nsupdate"
        /\ q.kind = "update" =>
              backend = "cloudflare" /\ (clean[c] => \A s \in zone : s.id = q.id => s \in mine)
        /\ q.kind = "set" =>
              backend \in {"route53", "azure"} /\ (clean[c] => At(q.owner) \ q.records \subseteq mine)
        /\ q.kind = "drop" => q.records \subseteq mine
        /\ q.kind = "erase" =>
              backend = "azure" /\ (clean[c] => At(q.owner) \subseteq mine)
        /\ q.kind = "change" => backend = "google" /\ q.from \ q.to \subseteq mine

PlansSound == \A c \in Clients : pc[c] = "write" => PlanSound(c)

\* cli.rs: "Remove stale TLSA records that no longer match the live certificate": the
\* records of the host that was named, and not those of the apex.
OnlyItsOwner ==
    [][\A c \in Clients : Write(c) => \A r \in zone \ zone' : r.owner = op[c].owner]_vars
=============================================================================
