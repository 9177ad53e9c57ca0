-------------------------- MODULE PublishersProofs --------------------------
(* What no request of a publisher removes, for every zone, any number of     *)
(* clients and whatever fails.                                               *)
EXTENDS Publishers, TLAPS

\* What the proofs use of a client's type.
Typed ==
    /\ zone \subseteq Record
    /\ other_ttl \subseteq Owners
    /\ pc \in [Clients -> {"idle", "read", "write"} \union Over]
    /\ op \in [Clients -> Op \union {NoOp}]
    /\ doomed \in [Clients -> SUBSET Record]
    /\ final \in [Clients -> Request]
    /\ clean \in [Clients -> BOOLEAN]
    /\ \A c \in Clients : pc[c] \in {"read", "write"} => op[c] \in Op

-----------------------------------------------------------------------------
(* The plans that publish_tlsa and prune_tlsa make of a fresh listing.       *)

\* Records that differ have different ids at Cloudflare.
UniqueIds == backend = "cloudflare" => \A r, s \in zone : r.id = s.id => r = s

\* What is true of a plan made for operation p, at the time it is made.
FreshPlan(p, plan) ==
    /\ plan.doomed \subseteq zone \intersect MayRemove(p)
    /\ plan.final \in Request
    /\ plan.final.kind = "append" => backend = "nsupdate"
    /\ plan.final.kind = "update" =>
          backend = "cloudflare" /\ \E r \in zone \intersect MayRemove(p) : r.id = plan.final.id
    /\ plan.final.kind = "set" =>
          backend \in {"route53", "azure"} /\ At(plan.final.owner) \ plan.final.records \subseteq MayRemove(p)
    /\ plan.final.kind = "drop" => plan.final.records \subseteq MayRemove(p)
    /\ plan.final.kind = "erase" => backend = "azure" /\ At(plan.final.owner) \subseteq MayRemove(p)
    /\ plan.final.kind = "change" => backend = "google" /\ plan.final.from \ plan.final.to \subseteq MayRemove(p)

LEMMA PublishPlans ==
  ASSUME PublishersAssumption, zone \subseteq Record, backend \in Backends,
         NEW p \in Op, p.kind # "prune", NEW plan \in Plans(p)
  PROVE  FreshPlan(p, plan)
  <1> DEFINE o == p.owner
             h == p.hash
             mode == p.kind
  <1>1. o \in Owners /\ h \in Hashes /\ mode \in {"publish", "replace"}
    BY DEF Op
  <1>2. live_dane(o, h) \in Record
    BY <1>1 DEF live_dane, Record
  <1>3. plan \in publish_tlsa(o, h, mode)
    BY DEF Plans
  <1>4. ASSUME NEW ours \in SUBSET zone, \A r \in ours : r.owner \in Touched(p),
               publish_action(ours, h, mode) = "replaced", NEW r \in ours, r.dane
        PROVE  r \in MayRemove(p)
    BY <1>1, <1>4 DEF publish_action, MayRemove
  <1>5. CASE backend = "cloudflare"
    <2> DEFINE ours == cloudflare_ours(o)
    <2>1. ours \in SUBSET zone /\ \A r \in ours : r.owner \in Touched(p)
      BY <1>5 DEF cloudflare_ours, Touched
    <2>2. plan \in cloudflare_publish(o, h, mode)
      BY <1>3, <1>5 DEF publish_tlsa
    <2>3. CASE publish_action(ours, h, mode) = "added"
      <3>1. plan.doomed = {} /\ plan.final = [kind |-> "create", rec |-> live_dane(o, h)]
        BY <2>2, <2>3 DEF cloudflare_publish, Plan
      <3> QED
        BY <1>2, <3>1 DEF FreshPlan, Request
    <2>4. CASE publish_action(ours, h, mode) = "replaced"
      <3>1. PICK r \in {r \in ours : r.dane} :
               plan = Plan({}, [kind |-> "update", id |-> r.id, rec |-> live_dane(o, h)])
        BY <2>2, <2>4 DEF cloudflare_publish
      <3>2. r \in zone \intersect MayRemove(p) /\ r.id \in Ids \union {NoId}
        BY <1>4, <2>1, <2>4, <3>1 DEF Record
      <3>3. plan.doomed = {} /\ plan.final = [kind |-> "update", id |-> r.id, rec |-> live_dane(o, h)]
        BY <3>1 DEF Plan
      <3> QED
        BY <1>2, <1>5, <3>2, <3>3 DEF FreshPlan, Request
    <2>5. publish_action(ours, h, mode) # "already_published"
      BY <2>2 DEF cloudflare_publish
    <2> QED
      BY <2>3, <2>4, <2>5 DEF publish_action
  <1>6. CASE backend = "nsupdate"
    <2> DEFINE add == [kind |-> "append", rec |-> live_dane(o, h)]
    <2>1. At(o) \in SUBSET zone /\ \A r \in At(o) : r.owner \in Touched(p)
      BY <1>6 DEF At, Touched
    <2>2. plan \in nsupdate_publish(o, h, mode)
      BY <1>3, <1>6 DEF publish_tlsa
    <2>3. add \in Request /\ add.kind = "append"
      BY <1>2 DEF Request
    <2>4. plan.final = add /\ plan.doomed \subseteq zone \intersect MayRemove(p)
      <3>1. CASE publish_action(At(o), h, mode) = "added"
        BY <2>2, <3>1 DEF nsupdate_publish, Plan
      <3>2. CASE publish_action(At(o), h, mode) = "replaced"
        BY <1>4, <2>1, <2>2, <3>2 DEF nsupdate_publish, Plan
      <3>3. publish_action(At(o), h, mode) # "already_published"
        BY <2>2 DEF nsupdate_publish
      <3> QED
        BY <3>1, <3>2, <3>3 DEF publish_action
    <2> QED
      BY <1>6, <2>3, <2>4 DEF FreshPlan
  <1>7. CASE backend = "route53"
    BY <1>1, <1>2, <1>3, <1>4, <1>7 DEF publish_tlsa, route53_publish, rrset_after_publish, At, Plan,
       FreshPlan, Request, Touched
  <1>8. CASE backend = "azure"
    <2>1. PICK next \in rrset_after_publish(At(o), live_dane(o, h), publish_action(At(o), h, mode)) :
              plan = Plan({}, azure_apply_rrset(o, next))
      BY <1>3, <1>8 DEF publish_tlsa, azure_publish
    <2>2. publish_action(At(o), h, mode) # "already_published"
      BY <1>3, <1>8 DEF publish_tlsa, azure_publish
    <2>3. live_dane(o, h) \in next
      BY <2>1 DEF rrset_after_publish
    <2>4. plan.final = [kind |-> "set", owner |-> o, records |-> next] /\ plan.doomed = {}
      BY <2>1, <2>3 DEF azure_apply_rrset, Plan
    <2> QED
      BY <1>1, <1>2, <1>4, <1>8, <2>1, <2>2, <2>4 DEF rrset_after_publish, At, FreshPlan, Request, Touched
  <1>9. CASE backend = "google"
    BY <1>1, <1>2, <1>3, <1>4, <1>9 DEF publish_tlsa, google_publish, rrset_after_publish, Change,
       At, Plan, FreshPlan, Request, Touched
  <1> QED
    BY <1>5, <1>6, <1>7, <1>8, <1>9 DEF PublishersAssumption

LEMMA PrunePlans ==
  ASSUME PublishersAssumption, zone \subseteq Record, backend \in Backends,
         NEW p \in Op, p.kind = "prune", NEW plan \in Plans(p)
  PROVE  FreshPlan(p, plan)
  <1> DEFINE o == p.owner
             h == p.hash
  <1>1. o \in Owners /\ h \in Hashes
    BY DEF Op
  <1>2. plan \in prune_tlsa(o, h)
    BY DEF Plans
  <1>3. ASSUME NEW ours \in SUBSET zone, \A r \in ours : r.owner \in Touched(p)
        PROVE  /\ stale_dane(ours, h) \subseteq zone \intersect MayRemove(p)
               /\ ours \ rrset_after_prune(ours, h) \subseteq MayRemove(p)
               /\ rrset_after_prune(ours, h) \subseteq Record
    BY <1>3 DEF stale_dane, rrset_after_prune, MayRemove
  <1>4. CASE backend = "cloudflare"
    BY <1>2, <1>3, <1>4 DEF prune_tlsa, cloudflare_prune, cloudflare_ours, Plan, FreshPlan,
       Request, NoRequest, Touched
  <1>5. CASE backend = "nsupdate"
    BY <1>2, <1>3, <1>5 DEF prune_tlsa, nsupdate_prune, At, Plan, FreshPlan, Request, NoRequest,
       Touched
  <1>6. CASE backend = "route53"
    BY <1>1, <1>2, <1>3, <1>6 DEF prune_tlsa, route53_prune, At, Plan, FreshPlan, Request, Touched
  <1>7. CASE backend = "azure"
    BY <1>1, <1>2, <1>3, <1>7 DEF prune_tlsa, azure_prune, azure_apply_rrset, At, Plan, FreshPlan, Request, Touched
  <1>8. CASE backend = "google"
    BY <1>1, <1>2, <1>3, <1>8 DEF prune_tlsa, google_prune, Change, At, Plan, FreshPlan, Request,
       Touched
  <1> QED
    BY <1>4, <1>5, <1>6, <1>7, <1>8 DEF PublishersAssumption

-----------------------------------------------------------------------------
(* Requests.                                                                 *)

LEMMA RequestFields ==
  ASSUME NEW q \in Request
  PROVE  /\ q.kind \in {"create", "update", "append"} => q.rec \in Record
         /\ q.kind = "update" => q.id \in Ids \union {NoId}
         /\ q.kind = "set" => q.records \subseteq Record
         /\ q.kind = "change" => q.from \subseteq Record /\ q.to \subseteq Record
  BY DEF Request, NoRequest

-----------------------------------------------------------------------------
(* The invariant.                                                            *)

PublishersInv == Typed /\ backend \in Backends /\ UniqueIds /\ PlansSound

LEMMA TypedNext == PublishersAssumption /\ PublishersInv /\ [Next]_vars => Typed'
  <1> SUFFICES ASSUME PublishersAssumption, PublishersInv, [Next]_vars PROVE Typed'
    OBVIOUS
  <1> USE DEF PublishersInv, Typed, Over, Goto, Carry, End
  <1>0. NoRequest \in Request
    BY DEF Request
  <1>1. ASSUME NEW c \in Clients, Begin(c) PROVE Typed'
    BY <1>0, <1>1 DEF Begin
  <1>2. ASSUME NEW c \in Clients, Read(c) PROVE Typed'
    <2>1. \A plan \in Plans(op[c]) : plan.doomed \in SUBSET Record /\ plan.final \in Request
      BY <1>2, PublishPlans, PrunePlans DEF Read, FreshPlan
    <2>2. CASE Plans(op[c]) = {} /\ End(c, "ok")
      BY <1>0, <1>2, <2>2 DEF Read
    <2>3. ASSUME NEW plan \in Plans(op[c]), Goto(c, "write"), Carry(c, op[c], plan.doomed, plan.final)
          PROVE  Typed'
      BY <1>2, <2>1, <2>3 DEF Read
    <2> QED
      BY <1>2, <2>2, <2>3 DEF Read
  <1>3. ASSUME NEW c \in Clients, ReadFails(c) PROVE Typed'
    BY <1>0, <1>3 DEF ReadFails
  <1>4. ASSUME NEW c \in Clients, Write(c) PROVE zone' \subseteq Record
    <2>1. ASSUME NEW r \in Record PROVE Deleted(r) \subseteq Record
      BY DEF Deleted
    <2>2. ASSUME NEW q \in Request, NEW z \in After(q) PROVE z \subseteq Record
      <3>1. CASE q.kind = "create"
        <4>1. PICK i \in Ids : z = zone \union {[q.rec EXCEPT !.id = i]}
          BY <2>2, <3>1 DEF After
        <4>2. q.rec \in Record
          BY <3>1, RequestFields
        <4> QED
          BY <4>1, <4>2 DEF Record
      <3>2. CASE q.kind = "update"
        <4>1. z = {s \in zone : s.id # q.id} \union {[q.rec EXCEPT !.id = q.id]}
          BY <2>2, <3>2 DEF After
        <4>2. q.rec \in Record /\ q.id \in Ids \union {NoId}
          BY <3>2, RequestFields
        <4> QED
          BY <4>1, <4>2 DEF Record
      <3>3. CASE q.kind = "append"
        BY <2>2, <3>3, RequestFields DEF After
      <3>4. CASE q.kind = "set"
        BY <2>2, <3>4, RequestFields DEF After
      <3>5. CASE q.kind = "change"
        BY <2>2, <3>5, RequestFields DEF After
      <3>6. CASE q.kind \in {"drop", "erase"}
        BY <2>2, <3>6 DEF After
      <3> QED
        BY <2>2, <3>1, <3>2, <3>3, <3>4, <3>5, <3>6 DEF After
    <2> QED
      BY <1>4, <2>1, <2>2 DEF Write, DeleteOne, SendFinal, WriteFails, Do
  <1>5. ASSUME NEW c \in Clients, Write(c) PROVE Typed'
    <2>1. clean' \in [Clients -> BOOLEAN] /\ other_ttl' \subseteq Owners
      BY <1>5 DEF Write, DeleteOne, SendFinal, WriteFails, Do, Noticed
    <2>2. CASE End(c, "ok") \/ End(c, "failed")
      BY <1>0, <1>4, <1>5, <2>1, <2>2
    <2>3. ASSUME NEW r \in doomed[c], Goto(c, "write"), Carry(c, op[c], doomed[c] \ {r}, final[c]),
                 pc[c] = "write"
          PROVE  Typed'
      BY <1>4, <1>5, <2>1, <2>3
    <2> QED
      BY <1>5, <2>2, <2>3 DEF Write, DeleteOne, SendFinal, WriteFails, Do
  <1>6. CASE UNCHANGED vars
    BY <1>6 DEF vars
  <1> QED
    BY <1>1, <1>2, <1>3, <1>5, <1>6 DEF Next

\* What is left of a plan stays sound while the zone that it relies on only shrinks.
LEMMA SoundShrinks ==
  ASSUME NEW d \in Clients, Typed, PlanSound(d), backend' = backend, op'[d] = op[d],
         doomed'[d] \subseteq doomed[d], final'[d] = final[d],
         clean'[d] => clean[d] /\ zone' \subseteq zone
  PROVE  PlanSound(d)'
  <1>1. MayRemove(op[d])' = MayRemove(op[d])
    BY DEF MayRemove, Touched
  <1>2. clean'[d] => At(final[d].owner)' \subseteq At(final[d].owner)
    BY DEF At
  <1> QED
    BY <1>1, <1>2 DEF PlanSound

LEMMA UniqueNext == PublishersAssumption /\ PublishersInv /\ [Next]_vars => UniqueIds'
  <1> SUFFICES ASSUME PublishersAssumption, PublishersInv, [Next]_vars, backend' = "cloudflare"
               PROVE  \A r, s \in zone' : r.id = s.id => r = s
    BY DEF UniqueIds
  <1>1. backend' = backend
    BY DEF Next, Begin, Read, ReadFails, Write, DeleteOne, SendFinal, WriteFails, Do, vars
  <1>2. \A r, s \in zone : r.id = s.id => r = s
    BY <1>1 DEF PublishersInv, UniqueIds
  <1>3. CASE zone' \subseteq zone
    BY <1>2, <1>3
  <1>4. ASSUME NEW c \in Clients, NEW r \in doomed[c], zone' = Deleted(r)
        PROVE  zone' \subseteq zone
    BY <1>1, <1>4 DEF Deleted
  <1>5. ASSUME NEW c \in Clients, pc[c] = "write", zone' \in After(final[c])
        PROVE  \A r, s \in zone' : r.id = s.id => r = s
    <2> DEFINE q == final[c]
    <2>1. q \in Request /\ PlanSound(c) /\ zone \subseteq Record
      BY <1>5 DEF PublishersInv, Typed, PlansSound
    <2>2. CASE q.kind = "create"
      <3>1. PICK i \in Ids : FreshId(i) /\ zone' = zone \union {[q.rec EXCEPT !.id = i]}
        BY <1>5, <2>2 DEF After
      <3>2. [q.rec EXCEPT !.id = i].id = i
        BY <2>1, <2>2, RequestFields DEF Record
      <3> QED
        BY <1>2, <3>1, <3>2 DEF FreshId
    <2>3. CASE q.kind = "update"
      <3>1. zone' = {s \in zone : s.id # q.id} \union {[q.rec EXCEPT !.id = q.id]}
        BY <1>5, <2>3 DEF After
      <3>2. [q.rec EXCEPT !.id = q.id].id = q.id
        BY <2>1, <2>3, RequestFields DEF Record
      <3> QED
        BY <1>2, <3>1, <3>2
    <2>4. q.kind \notin {"append", "set", "change"}
      BY <1>1, <2>1 DEF PlanSound
    <2>5. CASE q.kind \in {"drop", "erase"}
      BY <1>2, <1>5, <2>5 DEF After
    <2> QED
      BY <1>5, <2>2, <2>3, <2>4, <2>5 DEF After
  <1> QED
    BY <1>3, <1>4, <1>5 DEF Next, Begin, Read, ReadFails, Write, DeleteOne, SendFinal, WriteFails, Do, vars

LEMMA PlansNext == PublishersAssumption /\ PublishersInv /\ [Next]_vars => PlansSound'
  <1> SUFFICES ASSUME PublishersAssumption, PublishersInv, [Next]_vars,
                      NEW d \in Clients, pc'[d] = "write"
               PROVE  PlanSound(d)'
    BY DEF PlansSound
  <1> USE DEF PublishersInv, Typed
  <1>1. ASSUME NEW c \in Clients, Begin(c) PROVE PlanSound(d)'
    <2>1. d # c
      BY <1>1 DEF Begin, Goto
    <2> QED
      BY <1>1, <2>1, SoundShrinks DEF Begin, Goto, Carry, PlansSound
  <1>2. ASSUME NEW c \in Clients, ReadFails(c) PROVE PlanSound(d)'
    <2>1. d # c
      BY <1>2 DEF ReadFails, End, Goto
    <2> QED
      BY <1>2, <2>1, SoundShrinks DEF ReadFails, End, Goto, Carry, PlansSound
  <1>3. ASSUME NEW c \in Clients, Read(c), d # c PROVE PlanSound(d)'
    BY <1>3, SoundShrinks DEF Read, End, Goto, Carry, PlansSound
  <1>4. ASSUME Read(d) PROVE PlanSound(d)'
    <2>1. PICK plan \in Plans(op[d]) : Goto(d, "write") /\ Carry(d, op[d], plan.doomed, plan.final)
      BY <1>4 DEF Read, End, Goto
    <2>2. op[d] \in Op /\ FreshPlan(op[d], plan)
      BY <1>4, PublishPlans, PrunePlans DEF Read
    <2>3. op'[d] = op[d] /\ doomed'[d] = plan.doomed /\ final'[d] = plan.final
      BY <2>1, <2>2 DEF Carry, FreshPlan
    <2>4. zone' = zone /\ backend' = backend
      BY <1>4 DEF Read
    <2>5. MayRemove(op[d])' = MayRemove(op[d]) /\ At(plan.final.owner)' = At(plan.final.owner)
      BY <2>3, <2>4 DEF MayRemove, Touched, At
    <2> QED
      BY <2>2, <2>3, <2>4, <2>5 DEF PlanSound, FreshPlan, UniqueIds
  <1>5. ASSUME NEW c \in Clients, Write(c), d # c PROVE PlanSound(d)'
    <2>1. /\ backend' = backend /\ op'[d] = op[d] /\ doomed'[d] = doomed[d] /\ final'[d] = final[d]
          /\ pc'[d] = pc[d] /\ (clean'[d] => clean[d] /\ zone' = zone)
      BY <1>5 DEF Write, DeleteOne, SendFinal, WriteFails, Do, End, Goto, Carry, Noticed
    <2> QED
      BY <2>1, SoundShrinks DEF PlansSound
  <1>6. ASSUME Write(d) PROVE PlanSound(d)'
    <2>1. DeleteOne(d)
      BY <1>6 DEF Write, SendFinal, WriteFails, Do, End, Goto
    <2>2. PICK r \in doomed[d] : zone' = Deleted(r) /\ Goto(d, "write")
                                 /\ Carry(d, op[d], doomed[d] \ {r}, final[d])
      BY <2>1 DEF DeleteOne, End, Goto
    <2>3. zone' \subseteq zone
      BY <2>2 DEF Deleted
    <2>4. /\ backend' = backend /\ op'[d] = op[d] /\ doomed'[d] \subseteq doomed[d]
          /\ final'[d] = final[d] /\ pc[d] = "write" /\ clean'[d] = clean[d]
      BY <2>1, <2>2 DEF DeleteOne, Carry, Noticed
    <2> QED
      BY <2>3, <2>4, SoundShrinks DEF PlansSound
  <1>7. CASE UNCHANGED vars
    BY <1>7, SoundShrinks DEF vars, PlansSound
  <1> QED
    BY <1>1, <1>2, <1>3, <1>4, <1>5, <1>6, <1>7 DEF Next

LEMMA PublishersInit == PublishersAssumption /\ Init => PublishersInv
  <1> SUFFICES ASSUME PublishersAssumption, Init PROVE PublishersInv
    OBVIOUS
  <1> DEFINE Seed == [owner : Owners, dane : BOOLEAN, hash : Hashes]
  <1>1. PICK S \in SUBSET Seed : \E id \in [S -> IF backend = "cloudflare" THEN Ids ELSE {NoId}] :
           /\ backend = "cloudflare" => \A r, s \in S : id[r] = id[s] => r = s
           /\ zone = {[id |-> id[r], owner |-> r.owner, dane |-> r.dane, hash |-> r.hash] : r \in S}
    BY DEF Init
  <1>2. PICK id \in [S -> IF backend = "cloudflare" THEN Ids ELSE {NoId}] :
           /\ backend = "cloudflare" => \A r, s \in S : id[r] = id[s] => r = s
           /\ zone = {[id |-> id[r], owner |-> r.owner, dane |-> r.dane, hash |-> r.hash] : r \in S}
    BY <1>1
  <1>3. \A r \in S : id[r] \in Ids \union {NoId}
    BY <1>2
  <1>4. zone \subseteq Record
    BY <1>2, <1>3 DEF Record
  <1>5. UniqueIds
    BY <1>2 DEF UniqueIds
  <1>6. Typed
    BY <1>4 DEF Init, Typed, Request
  <1>7. PlansSound
    BY DEF Init, PlansSound
  <1> QED
    BY <1>5, <1>6, <1>7 DEF Init, PublishersInv

LEMMA PublishersStep == PublishersAssumption /\ PublishersInv /\ [Next]_vars => PublishersInv'
  <1>1. PublishersInv /\ [Next]_vars => (backend \in Backends)'
    BY DEF PublishersInv, Next, Begin, Read, ReadFails, Write, DeleteOne, SendFinal, WriteFails, Do, vars
  <1> QED
    BY <1>1, TypedNext, UniqueNext, PlansNext DEF PublishersInv

\* The invariant of the proofs, for any zone to begin with and any number of clients.
THEOREM PublishersInvariance == Spec => []PublishersInv
  <1>1. PublishersAssumption
    BY PublishersAssumption
  <1>2. Init => PublishersInv
    BY <1>1, PublishersInit
  <1>3. PublishersInv /\ [Next]_vars => PublishersInv'
    BY <1>1, PublishersStep
  <1> QED
    BY <1>2, <1>3, PTL DEF Spec

\* publish_tlsa and prune_tlsa: what is left of a plan never takes away more than the
\* operation is for, as long as the provider looks or the listing can be relied on.
THEOREM PlansSoundHolds == Spec => []PlansSound
  <1>1. PublishersInv => PlansSound
    BY DEF PublishersInv
  <1> QED
    BY <1>1, PublishersInvariance, PTL

-----------------------------------------------------------------------------
(* What a request takes away.                                                *)

LEMMA OneDeleteKeeps ==
  ASSUME NEW c \in Clients, PlanSound(c), clean[c] \/ backend \in {"nsupdate", "google"},
         NEW r \in doomed[c], zone' = Deleted(r)
  PROVE  zone \ zone' \subseteq MayRemove(op[c])
  BY DEF PlanSound, Deleted

LEMMA FinalKeeps ==
  ASSUME NEW c \in Clients, PlanSound(c), clean[c] \/ backend \in {"nsupdate", "google"},
         Fits(final[c]), zone' \in After(final[c])
  PROVE  zone \ zone' \subseteq MayRemove(op[c])
  <1> DEFINE q == final[c]
  <1>1. CASE q.kind \in {"create", "append"}
    BY <1>1 DEF After
  <1>2. CASE q.kind = "update"
    <2>1. zone \ zone' \subseteq {s \in zone : s.id = q.id}
      BY <1>2 DEF After
    <2> QED
      BY <1>2, <2>1 DEF PlanSound
  <1>3. CASE q.kind = "set"
    <2>1. zone \ zone' \subseteq At(q.owner) \ q.records
      BY <1>3 DEF After
    <2> QED
      BY <1>3, <2>1 DEF PlanSound
  <1>4. CASE q.kind = "drop"
    BY <1>4 DEF After, Fits, PlanSound
  <1>5. CASE q.kind = "erase"
    <2>1. zone \ zone' \subseteq At(q.owner)
      BY <1>5 DEF After
    <2> QED
      BY <1>5, <2>1 DEF PlanSound
  <1>6. CASE q.kind = "change"
    <2>1. zone \ zone' \subseteq At(q.owner) \ q.to /\ At(q.owner) = q.from
      BY <1>6 DEF After, Fits
    <2> QED
      BY <1>6, <2>1 DEF PlanSound
  <1> QED
    BY <1>1, <1>2, <1>3, <1>4, <1>5, <1>6 DEF After

\* README: "the new hash is added and the old one is kept": no request of a command takes
\* away the hash that is being kept, a record with other parameters or of another name.
THEOREM OthersKeptHolds == Spec => OthersKept
  <1> DEFINE Kept(c) == Write(c) /\ (clean[c] \/ backend \in {"nsupdate", "google"})
                           => zone \ zone' \subseteq MayRemove(op[c])
  <1>1. ASSUME PublishersInv, NEW c \in Clients PROVE Kept(c)
    <2> SUFFICES ASSUME Write(c), clean[c] \/ backend \in {"nsupdate", "google"}
                 PROVE  zone \ zone' \subseteq MayRemove(op[c])
      OBVIOUS
    <2>1. PlanSound(c)
      BY <1>1 DEF PublishersInv, PlansSound, Write, DeleteOne, SendFinal, WriteFails, Do
    <2>2. CASE \E r \in doomed[c] : zone' = Deleted(r)
      BY <2>1, <2>2, OneDeleteKeeps
    <2>3. CASE Fits(final[c]) /\ zone' \in After(final[c])
      BY <2>1, <2>3, FinalKeeps
    <2>4. CASE zone' = zone
      BY <2>4
    <2> QED
      BY <2>2, <2>3, <2>4 DEF Write, DeleteOne, SendFinal, WriteFails, Do, Accepts
  <1>2. PublishersInv => [\A c \in Clients : Kept(c)]_vars
    BY <1>1
  <1> QED
    BY <1>2, PublishersInvariance, PTL DEF OthersKept

-----------------------------------------------------------------------------
(* The types, the provider's answers, and what `ok' means: what a plan is    *)
(* made for, beside what it takes away.                                      *)

\* Records that the operation is to take away.
Stale(p) == {r \in zone : r.dane /\ r.hash # p.hash /\ r.owner \in Touched(p)}

\* What is left of a plan for p: there is something, it can be sent, and the last of it
\* does what p is for.  The listing that it is made from is still true if `trusted'.
Meant(p, records, q, trusted) ==
    /\ records # {} \/ q # NoRequest
    /\ q.kind \notin {"append", "none"} => records = {}
    /\ q.kind = "create" => backend = "cloudflare"
    /\ q.kind = "append" => q.rec.id = NoId
    /\ q.kind = "set" => \A r \in q.records : r.id = NoId
    /\ q.kind = "change" => \A r \in q.to : r.id = NoId
    /\ trusted => records \subseteq zone /\ Fits(q)
    /\ p.kind # "prune" =>
          \/ q.kind \in {"create", "update", "append"} /\ q.rec = live_dane(p.owner, p.hash)
          \/ q.kind = "set" /\ live_dane(p.owner, p.hash) \in q.records
          \/ q.kind = "change" /\ live_dane(p.owner, p.hash) \in q.to
    /\ p.kind = "prune" =>
          \/ q.kind = "none" /\ (trusted => Stale(p) \subseteq records)
          \/ q.kind = "set" /\ q.owner = p.owner /\ \A r \in q.records : ~r.dane \/ r.hash = p.hash
          \/ q.kind \in {"drop", "erase"} /\ q.owner = p.owner /\ backend # "cloudflare"
          \/ q.kind = "change" /\ q.owner = p.owner /\ \A r \in q.to : ~r.dane \/ r.hash = p.hash

PlansMeant == \A c \in Clients : pc[c] = "write" => Meant(op[c], doomed[c], final[c], clean[c])

MeantInv == PublishersInv /\ IdsOK /\ PlansMeant

LEMMA PublishMeant ==
  ASSUME PublishersAssumption, zone \subseteq Record, backend \in Backends, IdsOK,
         NEW p \in Op, p.kind # "prune", NEW plan \in Plans(p)
  PROVE  Meant(p, plan.doomed, plan.final, TRUE)
  <1> DEFINE o == p.owner
             h == p.hash
             mode == p.kind
             new == live_dane(o, h)
  <1>1. o \in Owners /\ h \in Hashes /\ mode \in {"publish", "replace"}
    BY DEF Op
  <1>2. new.id = NoId /\ new.owner = o /\ new.dane /\ new.hash = h
    BY DEF live_dane
  <1>3. plan \in publish_tlsa(o, h, mode)
    BY DEF Plans
  <1>4. ASSUME NEW ours, publish_action(ours, h, mode) # "already_published", {r \in zone : r.owner = o} \subseteq ours
        PROVE  ~\E s \in zone : SameRecord(s, new)
    BY <1>2, <1>4 DEF publish_action, SameRecord
  <1>5. ASSUME backend # "cloudflare", NEW next \in rrset_after_publish(At(o), new, publish_action(At(o), h, mode)),
               publish_action(At(o), h, mode) # "already_published"
        PROVE  new \in next /\ \A r \in next : r.id = NoId
    BY <1>2, <1>5 DEF rrset_after_publish, At, IdsOK
  <1>6. CASE backend = "cloudflare"
    <2> DEFINE ours == cloudflare_ours(o)
    <2>1. plan \in cloudflare_publish(o, h, mode)
      BY <1>3, <1>6 DEF publish_tlsa
    <2>2. publish_action(ours, h, mode) # "already_published"
      BY <2>1 DEF cloudflare_publish
    <2>3. {r \in zone : r.owner = o} \subseteq ours
      BY DEF cloudflare_ours, owner_names
    <2>4. ~\E s \in zone : SameRecord(s, new)
      BY <1>4, <2>2, <2>3
    <2>5. CASE publish_action(ours, h, mode) = "added"
      <3>1. plan.doomed = {} /\ plan.final = [kind |-> "create", rec |-> new]
        BY <2>1, <2>5 DEF cloudflare_publish, Plan
      <3>2. plan.final.kind = "create" /\ plan.final.rec = new /\ plan.final # NoRequest
        BY <3>1 DEF NoRequest
      <3>3. Fits(plan.final)
        BY <2>4, <3>2 DEF Fits
      <3> QED
        BY <1>6, <3>1, <3>2, <3>3 DEF Meant
    <2>6. CASE publish_action(ours, h, mode) = "replaced"
      <3>1. PICK r \in {r \in ours : r.dane} :
               plan = Plan({}, [kind |-> "update", id |-> r.id, rec |-> new])
        BY <2>1, <2>6 DEF cloudflare_publish
      <3>2. plan.doomed = {} /\ plan.final = [kind |-> "update", id |-> r.id, rec |-> new]
        BY <3>1 DEF Plan
      <3>3. plan.final.kind = "update" /\ plan.final.rec = new /\ plan.final.id = r.id /\ plan.final # NoRequest
        BY <3>2 DEF NoRequest
      <3>4. r \in zone
        BY <3>1 DEF cloudflare_ours
      <3>5. Fits(plan.final)
        BY <2>4, <3>3, <3>4 DEF Fits
      <3> QED
        BY <3>2, <3>3, <3>5 DEF Meant
    <2> QED
      BY <2>2, <2>5, <2>6 DEF publish_action
  <1>7. CASE backend = "nsupdate"
    <2> DEFINE add == [kind |-> "append", rec |-> new]
    <2>1. plan \in nsupdate_publish(o, h, mode)
      BY <1>3, <1>7 DEF publish_tlsa
    <2>2. plan.final = add /\ plan.doomed \subseteq zone
      <3>1. CASE publish_action(At(o), h, mode) = "added"
        BY <2>1, <3>1 DEF nsupdate_publish, Plan
      <3>2. CASE publish_action(At(o), h, mode) = "replaced"
        BY <2>1, <3>2 DEF nsupdate_publish, Plan, At
      <3>3. publish_action(At(o), h, mode) # "already_published"
        BY <2>1 DEF nsupdate_publish
      <3> QED
        BY <3>1, <3>2, <3>3 DEF publish_action
    <2>3. add.kind = "append" /\ add.rec = new /\ add # NoRequest /\ Fits(add)
      BY DEF Fits, NoRequest
    <2> QED
      BY <1>2, <2>2, <2>3 DEF Meant
  <1>8. CASE backend \in {"route53", "azure"}
    <2>1. PICK next \in rrset_after_publish(At(o), new, publish_action(At(o), h, mode)) :
              /\ publish_action(At(o), h, mode) # "already_published"
              /\ plan = Plan({}, [kind |-> "set", owner |-> o, records |-> next]) \/ plan = Plan({}, azure_apply_rrset(o, next))
      BY <1>3, <1>8 DEF publish_tlsa, route53_publish, azure_publish
    <2>2. new \in next /\ \A r \in next : r.id = NoId
      BY <1>5, <1>8, <2>1
    <2>3. plan.doomed = {} /\ plan.final = [kind |-> "set", owner |-> o, records |-> next]
      BY <2>1, <2>2 DEF Plan, azure_apply_rrset
    <2>4. plan.final.kind = "set" /\ plan.final.records = next /\ plan.final # NoRequest
      BY <2>3 DEF NoRequest
    <2>5. Fits(plan.final)
      BY <2>4 DEF Fits
    <2> QED
      BY <2>2, <2>3, <2>4, <2>5 DEF Meant
  <1>9. CASE backend = "google"
    <2>1. PICK next \in rrset_after_publish(At(o), new, publish_action(At(o), h, mode)) :
              publish_action(At(o), h, mode) # "already_published" /\ plan = Plan({}, Change(o, next))
      BY <1>3, <1>9 DEF publish_tlsa, google_publish
    <2>2. new \in next /\ \A r \in next : r.id = NoId
      BY <1>5, <1>9, <2>1
    <2>3. plan.doomed = {} /\ plan.final = Change(o, next)
      BY <2>1 DEF Plan
    <2>4. plan.final.kind = "change" /\ plan.final.to = next /\ plan.final # NoRequest /\ Fits(plan.final)
      BY <2>3 DEF Change, NoRequest, Fits
    <2> QED
      BY <2>2, <2>3, <2>4 DEF Meant
  <1> QED
    BY <1>6, <1>7, <1>8, <1>9 DEF PublishersAssumption

LEMMA PruneMeant ==
  ASSUME PublishersAssumption, zone \subseteq Record, backend \in Backends, IdsOK,
         NEW p \in Op, p.kind = "prune", NEW plan \in Plans(p)
  PROVE  Meant(p, plan.doomed, plan.final, TRUE)
  <1> DEFINE o == p.owner
             h == p.hash
             next == rrset_after_prune(At(o), h)
  <1>1. plan \in prune_tlsa(o, h)
    BY DEF Plans
  <1>2. ASSUME NEW ours, ours = {r \in zone : r.owner \in Touched(p)}
        PROVE  stale_dane(ours, h) = Stale(p)
    BY <1>2 DEF stale_dane, Stale
  <1>3. CASE backend = "cloudflare"
    <2>1. stale_dane(cloudflare_ours(o), h) = Stale(p)
      BY <1>2, <1>3 DEF cloudflare_ours, Touched
    <2>2. plan.doomed = Stale(p) /\ Stale(p) # {} /\ plan.final = NoRequest
      BY <1>1, <1>3, <2>1 DEF prune_tlsa, cloudflare_prune, Plan
    <2> QED
      BY <2>2 DEF Meant, NoRequest, Fits, Stale
  <1>4. CASE backend = "nsupdate"
    <2>1. stale_dane(At(o), h) = Stale(p)
      BY <1>2, <1>4 DEF At, Touched
    <2>2. plan.doomed = Stale(p) /\ Stale(p) # {} /\ plan.final = NoRequest
      BY <1>1, <1>4, <2>1 DEF prune_tlsa, nsupdate_prune, Plan
    <2> QED
      BY <2>2 DEF Meant, NoRequest, Fits, Stale
  <1>5. \A r \in next : ~r.dane \/ r.hash = h
    BY DEF rrset_after_prune
  <1>6. backend # "cloudflare" => \A r \in next : r.id = NoId
    BY DEF rrset_after_prune, At, IdsOK
  <1>7. ASSUME backend # "cloudflare", plan.doomed = {},
               \/ plan.final = [kind |-> "drop", owner |-> o, records |-> At(o)]
               \/ plan.final = [kind |-> "set", owner |-> o, records |-> next]
               \/ plan.final = [kind |-> "erase", owner |-> o]
               \/ plan.final = [kind |-> "change", owner |-> o, from |-> At(o), to |-> next]
        PROVE  Meant(p, plan.doomed, plan.final, TRUE)
    <2> HIDE DEF next
    <2>1. CASE plan.final = [kind |-> "drop", owner |-> o, records |-> At(o)]
      BY <1>7, <2>1 DEF Meant, NoRequest, Fits
    <2>2. CASE plan.final = [kind |-> "set", owner |-> o, records |-> next]
      BY <1>5, <1>6, <1>7, <2>2 DEF Meant, NoRequest, Fits
    <2>3. CASE plan.final = [kind |-> "erase", owner |-> o]
      BY <1>7, <2>3 DEF Meant, NoRequest, Fits
    <2>4. CASE plan.final = [kind |-> "change", owner |-> o, from |-> At(o), to |-> next]
      BY <1>5, <1>6, <1>7, <2>4 DEF Meant, NoRequest, Fits
    <2> QED
      BY <1>7, <2>1, <2>2, <2>3, <2>4
  <1>8. CASE backend = "route53"
    <2>1. stale_dane(At(o), h) # {} /\ plan \in route53_prune(o, h)
      BY <1>1, <1>8 DEF prune_tlsa, route53_prune
    <2>2. /\ plan.doomed = {}
          /\ \/ plan.final = [kind |-> "drop", owner |-> o, records |-> At(o)]
             \/ plan.final = [kind |-> "set", owner |-> o, records |-> next]
             \/ plan.final = [kind |-> "erase", owner |-> o]
             \/ plan.final = [kind |-> "change", owner |-> o, from |-> At(o), to |-> next]
      <3> HIDE DEF next
      <3> QED
        BY <2>1 DEF next, route53_prune, Plan
    <2> QED
      BY <1>7, <1>8, <2>2
  <1>9. CASE backend = "azure"
    <2>1. stale_dane(At(o), h) # {} /\ plan \in azure_prune(o, h)
      BY <1>1, <1>9 DEF prune_tlsa, azure_prune
    <2>2. /\ plan.doomed = {}
          /\ \/ plan.final = [kind |-> "drop", owner |-> o, records |-> At(o)]
             \/ plan.final = [kind |-> "set", owner |-> o, records |-> next]
             \/ plan.final = [kind |-> "erase", owner |-> o]
             \/ plan.final = [kind |-> "change", owner |-> o, from |-> At(o), to |-> next]
      <3> HIDE DEF next
      <3> QED
        BY <2>1 DEF next, azure_prune, azure_apply_rrset, Plan
    <2> QED
      BY <1>7, <1>9, <2>2
  <1>10. CASE backend = "google"
    <2>1. stale_dane(At(o), h) # {} /\ plan \in google_prune(o, h)
      BY <1>1, <1>10 DEF prune_tlsa, google_prune
    <2>2. /\ plan.doomed = {}
          /\ \/ plan.final = [kind |-> "drop", owner |-> o, records |-> At(o)]
             \/ plan.final = [kind |-> "set", owner |-> o, records |-> next]
             \/ plan.final = [kind |-> "erase", owner |-> o]
             \/ plan.final = [kind |-> "change", owner |-> o, from |-> At(o), to |-> next]
      <3> HIDE DEF next
      <3> QED
        BY <2>1 DEF next, google_prune, Change, Plan
    <2> QED
      BY <1>7, <1>10, <2>2
  <1> QED
    BY <1>3, <1>4, <1>8, <1>9, <1>10 DEF PublishersAssumption

\* What another client does leaves a plan as it is, or makes the listing one not to rely on.
LEMMA MeantStays ==
  ASSUME NEW d \in Clients, PublishersInv, Meant(op[d], doomed[d], final[d], clean[d]),
         backend' = backend, op'[d] = op[d], doomed'[d] = doomed[d], final'[d] = final[d],
         clean'[d] => clean[d] /\ zone' = zone
  PROVE  Meant(op[d], doomed[d], final[d], clean[d])'
  <1>1. clean[d] \in BOOLEAN /\ clean'[d] => Fits(final[d])' /\ Stale(op[d])' = Stale(op[d])
    <2> SUFFICES ASSUME clean'[d] PROVE Fits(final[d])' /\ Stale(op[d])' = Stale(op[d])
      BY DEF PublishersInv, Typed
    <2>1. Fits(final[d])
      BY DEF Meant
    <2> QED
      BY <2>1 DEF Fits, At, Stale, Touched
  <1> QED
    BY <1>1 DEF Meant

\* What a request makes of a zone in which each record is its own.
LEMMA IdsNext ==
  ASSUME PublishersAssumption, MeantInv, [Next]_vars
  PROVE  IdsOK'
  <1> DEFINE Bare(r) == [r EXCEPT !.id = NoId]
  <1> USE DEF MeantInv
  <1>1. backend' = backend
    BY DEF Next, Begin, Read, ReadFails, Write, DeleteOne, SendFinal, WriteFails, Do, vars
  <1>2. CASE zone' \subseteq zone
    BY <1>1, <1>2 DEF IdsOK
  <1>3. ASSUME NEW c \in Clients, NEW r \in doomed[c], zone' = Deleted(r)
        PROVE  zone' \subseteq zone
    BY <1>3 DEF Deleted
  <1>4. \A r, s \in Record : Bare(r) = Bare(s) <=> SameRecord(r, s)
    <2> SUFFICES ASSUME NEW r \in Record, NEW s \in Record PROVE Bare(r) = Bare(s) <=> SameRecord(r, s)
      OBVIOUS
    <2>1. /\ Bare(r) = [id |-> NoId, owner |-> r.owner, dane |-> r.dane, hash |-> r.hash]
          /\ Bare(s) = [id |-> NoId, owner |-> s.owner, dane |-> s.dane, hash |-> s.hash]
      BY DEF Record
    <2> QED
      BY <2>1 DEF SameRecord
  <1>5. ASSUME NEW i \in Ids, NEW rec \in Record, NEW kept \in SUBSET zone, backend = "cloudflare",
               zone' = kept \union {[rec EXCEPT !.id = i]},
               \A s \in kept : s.id # i /\ ~SameRecord(s, rec)
        PROVE  IdsOK'
    <2> DEFINE new == [rec EXCEPT !.id = i]
    <2>1. new \in Record /\ new.id = i /\ Bare(new) = Bare(rec)
      BY DEF Record
    <2>2. kept \subseteq Record
      BY DEF PublishersInv, Typed
    <2>3. \A s \in kept : Bare(s) # Bare(new)
      BY <1>4, <1>5, <2>1, <2>2
    <2>4. i # NoId
      BY DEF PublishersAssumption
    <2> HIDE DEF new, Bare
    <2>5. \A r, s \in kept : /\ r.id # NoId
                             /\ r # s => Bare(r) # Bare(s) /\ r.id # s.id
      BY <1>5 DEF IdsOK, Bare
    <2>6. zone' = kept \union {new}
      BY <1>5 DEF new
    <2>7. \A r, s \in zone' : /\ r.id # NoId
                              /\ r # s => Bare(r) # Bare(s) /\ r.id # s.id
      BY <1>5, <2>1, <2>3, <2>4, <2>5, <2>6
    <2> QED
      BY <1>1, <1>5, <2>7 DEF IdsOK, Bare
  <1>6. ASSUME backend # "cloudflare", zone' \subseteq Record, \A r \in zone' : r.id = NoId
        PROVE  IdsOK'
    <2>1. \A r \in zone' : Bare(r) = r
      BY <1>6 DEF Record
    <2> QED
      BY <1>1, <1>6, <2>1 DEF IdsOK
  <1>7. ASSUME NEW c \in Clients, pc[c] = "write", Fits(final[c]), zone' \in After(final[c])
        PROVE  IdsOK'
    <2> DEFINE q == final[c]
    <2>1. /\ q \in Request /\ zone \subseteq Record /\ zone' \subseteq Record /\ PlanSound(c)
          /\ Meant(op[c], doomed[c], q, clean[c])
      BY <1>7, TypedNext DEF PublishersInv, Typed, PlansSound, PlansMeant
    <2>2. backend # "cloudflare" => \A r \in zone : r.id = NoId
      BY DEF IdsOK
    <2>3. CASE q.kind = "create"
      <3>1. PICK i \in Ids : FreshId(i) /\ zone' = zone \union {[q.rec EXCEPT !.id = i]}
        BY <1>7, <2>3 DEF After
      <3>2. q.rec \in Record /\ backend = "cloudflare"
        BY <2>1, <2>3, RequestFields DEF Meant
      <3>3. \A s \in zone : s.id # i /\ ~SameRecord(s, q.rec)
        BY <1>7, <2>3, <3>1 DEF FreshId, Fits
      <3> QED
        BY <1>5, <3>1, <3>2, <3>3
    <2>4. CASE q.kind = "update"
      <3>1. zone' = {s \in zone : s.id # q.id} \union {[q.rec EXCEPT !.id = q.id]}
        BY <1>7, <2>4 DEF After
      <3>2. q.rec \in Record /\ backend = "cloudflare" /\ q.id \in Ids \union {NoId}
        BY <2>1, <2>4, RequestFields DEF PlanSound
      <3>3. /\ \E s \in zone : s.id = q.id
            /\ \A s \in zone : s.id # q.id => ~SameRecord(s, q.rec)
        BY <1>7, <2>4 DEF Fits
      <3>4. q.id \in Ids
        BY <3>2, <3>3 DEF IdsOK
      <3> DEFINE kept == {s \in zone : s.id # q.id}
      <3>5. kept \in SUBSET zone /\ \A s \in kept : s.id # q.id /\ ~SameRecord(s, q.rec)
        BY <3>3
      <3> HIDE DEF kept
      <3>6. zone' = kept \union {[q.rec EXCEPT !.id = q.id]}
        BY <3>1 DEF kept
      <3> QED
        BY <1>5, <3>2, <3>4, <3>5, <3>6
    <2>5. CASE q.kind = "append"
      <3>1. q.rec.id = NoId /\ zone' = zone \union {q.rec} /\ backend = "nsupdate"
        BY <1>7, <2>1, <2>5 DEF After, Meant, PlanSound
      <3> QED
        BY <1>6, <2>1, <2>2, <3>1
    <2>6. CASE q.kind = "set"
      <3>1. /\ \A r \in q.records : r.id = NoId
            /\ zone' = (zone \ At(q.owner)) \union q.records /\ backend # "cloudflare"
        BY <1>7, <2>1, <2>6 DEF After, Meant, PlanSound
      <3> QED
        BY <1>6, <2>1, <2>2, <3>1
    <2>7. CASE q.kind = "change"
      <3>1. /\ \A r \in q.to : r.id = NoId
            /\ zone' = (zone \ At(q.owner)) \union q.to /\ backend # "cloudflare"
        BY <1>7, <2>1, <2>7 DEF After, Meant, PlanSound
      <3> QED
        BY <1>6, <2>1, <2>2, <3>1
    <2>8. CASE q.kind \in {"drop", "erase"}
      BY <1>2, <1>7, <2>8 DEF After
    <2> QED
      BY <1>7, <2>3, <2>4, <2>5, <2>6, <2>7, <2>8 DEF After
  <1> QED
    BY <1>2, <1>3, <1>7 DEF Next, Begin, Read, ReadFails, Write, DeleteOne, SendFinal, WriteFails, Do,
       Accepts, vars

\* A client's own deletion: what is still to be deleted is still there.
LEMMA DeleteMeant ==
  ASSUME NEW c \in Clients, MeantInv, pc[c] = "write", NEW r \in doomed[c], zone' = Deleted(r),
         backend' = backend, doomed[c] # {r} \/ final[c] # NoRequest,
         op'[c] = op[c], doomed'[c] = doomed[c] \ {r}, final'[c] = final[c], clean'[c] = clean[c]
  PROVE  Meant(op[c], doomed[c], final[c], clean[c])'
  <1> DEFINE q == final[c]
  <1>1. Meant(op[c], doomed[c], q, clean[c])
    BY DEF MeantInv, PlansMeant
  <1>2. q.kind \in {"append", "none"}
    BY <1>1 DEF Meant
  <1>3. Fits(q)'
    BY <1>2 DEF Fits
  <1>4. clean[c] => doomed'[c] \subseteq zone'
    <2> SUFFICES ASSUME clean[c], NEW s \in doomed[c], s # r PROVE s \in zone'
      OBVIOUS
    <2>1. s \in zone /\ r \in zone
      BY <1>1 DEF Meant
    <2>2. backend = "cloudflare" => s.id # r.id
      BY <2>1 DEF MeantInv, IdsOK
    <2> QED
      BY <2>1, <2>2 DEF Deleted
  <1>5. Stale(op[c])' \subseteq Stale(op[c]) \ {r}
    BY DEF Stale, Touched, Deleted
  <1>6. doomed'[c] # {} \/ q # NoRequest
    OBVIOUS
  <1> QED
    BY <1>1, <1>2, <1>3, <1>4, <1>5, <1>6 DEF Meant

LEMMA MeantNext ==
  ASSUME PublishersAssumption, MeantInv, [Next]_vars
  PROVE  PlansMeant'
  <1> DEFINE Kept(d) == Meant(op[d], doomed[d], final[d], clean[d])'
  <1> SUFFICES ASSUME NEW d \in Clients, pc'[d] = "write" PROVE Kept(d)
    BY DEF PlansMeant
  <1> USE DEF MeantInv
  <1>0. Typed /\ PublishersInv /\ (pc[d] = "write" => Meant(op[d], doomed[d], final[d], clean[d]))
    BY DEF PublishersInv, PlansMeant
  <1>1. ASSUME NEW c \in Clients, Begin(c) \/ ReadFails(c) PROVE Kept(d)
    <2>1. d # c
      BY <1>0, <1>1 DEF Typed, Begin, ReadFails, End, Goto
    <2> QED
      BY <1>0, <1>1, <2>1, MeantStays DEF Typed, Begin, ReadFails, End, Goto, Carry
  <1>2. ASSUME NEW c \in Clients, Read(c), d # c PROVE Kept(d)
    BY <1>0, <1>2, MeantStays DEF Typed, Read, End, Goto, Carry
  <1>3. ASSUME Read(d) PROVE Kept(d)
    <2>1. PICK plan \in Plans(op[d]) : Goto(d, "write") /\ Carry(d, op[d], plan.doomed, plan.final)
      BY <1>0, <1>3 DEF Typed, Read, End, Goto
    <2>2. op[d] \in Op /\ zone \subseteq Record
      BY <1>0, <1>3 DEF Typed, Read
    <2>3. Meant(op[d], plan.doomed, plan.final, TRUE)
      BY <2>2, PublishMeant, PruneMeant DEF PublishersInv
    <2>4. op'[d] = op[d] /\ doomed'[d] = plan.doomed /\ final'[d] = plan.final
      BY <1>0, <2>1 DEF Typed, Carry
    <2>5. zone' = zone /\ backend' = backend /\ clean'[d] = TRUE
      BY <1>0, <1>3 DEF Typed, Read
    <2>6. Fits(plan.final)' = Fits(plan.final) /\ Stale(op[d])' = Stale(op[d])
      BY <2>4, <2>5 DEF Fits, At, Stale, Touched
    <2> QED
      BY <2>3, <2>4, <2>5, <2>6 DEF Meant
  <1>4. ASSUME NEW c \in Clients, Write(c), d # c PROVE Kept(d)
    <2>1. /\ backend' = backend /\ op'[d] = op[d] /\ doomed'[d] = doomed[d] /\ final'[d] = final[d]
          /\ pc'[d] = pc[d] /\ (clean'[d] => clean[d] /\ zone' = zone)
      BY <1>0, <1>4 DEF Typed, Write, DeleteOne, SendFinal, WriteFails, Do, End, Goto, Carry, Noticed
    <2> QED
      BY <1>0, <2>1, MeantStays
  <1>5. ASSUME Write(d) PROVE Kept(d)
    <2>1. DeleteOne(d)
      BY <1>0, <1>5 DEF Typed, Write, SendFinal, WriteFails, Do, End, Goto
    <2>2. PICK r \in doomed[d] : /\ zone' = Deleted(r) /\ Carry(d, op[d], doomed[d] \ {r}, final[d])
                                 /\ ~(doomed[d] = {r} /\ final[d] = NoRequest)
      BY <1>0, <2>1 DEF Typed, DeleteOne, End, Goto
    <2>3. /\ backend' = backend /\ op'[d] = op[d] /\ doomed'[d] = doomed[d] \ {r}
          /\ final'[d] = final[d] /\ pc[d] = "write" /\ clean'[d] = clean[d]
      BY <1>0, <2>1, <2>2 DEF Typed, DeleteOne, Carry, Noticed
    <2> QED
      BY <2>2, <2>3, DeleteMeant
  <1>6. CASE UNCHANGED vars
    BY <1>0, <1>6, MeantStays DEF vars
  <1> QED
    BY <1>1, <1>2, <1>3, <1>4, <1>5, <1>6 DEF Next

LEMMA IdsInit == PublishersAssumption /\ Init => IdsOK
  <1> SUFFICES ASSUME PublishersAssumption, Init PROVE IdsOK
    OBVIOUS
  <1> DEFINE Seed == [owner : Owners, dane : BOOLEAN, hash : Hashes]
             Bare(r) == [r EXCEPT !.id = NoId]
             Rec(i, r) == [id |-> i, owner |-> r.owner, dane |-> r.dane, hash |-> r.hash]
  <1>1. PICK S \in SUBSET Seed : \E id \in [S -> IF backend = "cloudflare" THEN Ids ELSE {NoId}] :
           /\ backend = "cloudflare" => \A r, s \in S : id[r] = id[s] => r = s
           /\ zone = {Rec(id[r], r) : r \in S}
    BY DEF Init
  <1>2. PICK id \in [S -> IF backend = "cloudflare" THEN Ids ELSE {NoId}] :
           /\ backend = "cloudflare" => \A r, s \in S : id[r] = id[s] => r = s
           /\ zone = {Rec(id[r], r) : r \in S}
    BY <1>1
  <1>3. \A r, s \in S : Bare(Rec(id[r], r)) = Bare(Rec(id[s], s)) => r = s
    <2> SUFFICES ASSUME NEW r \in S, NEW s \in S, Bare(Rec(id[r], r)) = Bare(Rec(id[s], s)) PROVE r = s
      OBVIOUS
    <2>1. Bare(Rec(id[r], r)) = Rec(NoId, r) /\ Bare(Rec(id[s], s)) = Rec(NoId, s)
      OBVIOUS
    <2>2. r.owner = s.owner /\ r.dane = s.dane /\ r.hash = s.hash
      BY <2>1
    <2> QED
      BY <2>2
  <1>4. \A r \in S : Rec(id[r], r).id = id[r]
    OBVIOUS
  <1>5. \A r \in S : (id[r] # NoId) = (backend = "cloudflare")
    BY <1>2 DEF PublishersAssumption
  <1> HIDE DEF Bare, Rec
  <1>6. \A r, s \in zone : /\ (r.id # NoId) = (backend = "cloudflare")
                           /\ r # s => Bare(r) # Bare(s)
                           /\ r # s /\ backend = "cloudflare" => r.id # s.id
    BY <1>2, <1>3, <1>4, <1>5
  <1> QED
    BY <1>6 DEF IdsOK, Bare

THEOREM MeantInvariance == Spec => []MeantInv
  <1>1. PublishersAssumption
    BY PublishersAssumption
  <1>2. Init => MeantInv
    BY <1>1, PublishersInit, IdsInit DEF MeantInv, PlansMeant, Init
  <1>3. MeantInv /\ [Next]_vars => MeantInv'
    BY <1>1, PublishersStep, IdsNext, MeantNext DEF MeantInv
  <1> QED
    BY <1>2, <1>3, PTL DEF Spec

\* publish_tlsa and prune_tlsa keep each client's request one that can be sent, and each
\* record of the zone its own, whatever fails and however many clients there are.
THEOREM TypesHold == Spec => []TypeOK
  <1>1. MeantInv => TypeOK
    BY DEF MeantInv, PublishersInv, Typed, PlansMeant, Meant, TypeOK
  <1> QED
    BY <1>1, MeantInvariance, PTL

\* Whatever an operation has still to send is accepted as long as nobody else has written
\* since it listed the records, but for Route 53's comparison of TTLs: its own deletions do
\* not make it fail, and the records it names are those that are there.
THEOREM AloneAcceptedHolds == Spec => []AloneAccepted
  <1>1. MeantInv => AloneAccepted
    <2> SUFFICES ASSUME MeantInv, NEW c \in Clients, pc[c] = "write", clean[c], ~OtherTtl(c)
                 PROVE  NextAccepted(c)
      BY DEF AloneAccepted
    <2>1. Meant(op[c], doomed[c], final[c], clean[c])
      BY DEF MeantInv, PlansMeant
    <2>2. Fits(final[c]) /\ (doomed[c] # {} => \A r \in doomed[c] : AcceptsDelete(r))
      BY <2>1 DEF Meant, AcceptsDelete
    <2> QED
      BY <2>2 DEF NextAccepted, Accepts, OtherTtl
  <1> QED
    BY <1>1, MeantInvariance, PTL

-----------------------------------------------------------------------------
(* What `ok' means.                                                          *)

\* What OkMeansDone says of a client that is done.
Done(c) ==
    IF op[c].kind = "prune"
    THEN clean[c] => \A r \in zone' : r.dane /\ r.owner \in Touched(op[c]) => r.hash = op[c].hash
    ELSE \E r \in zone' : r.dane /\ r.owner \in Touched(op[c]) /\ r.hash = op[c].hash

\* publish_tlsa and prune_tlsa find nothing to do: it is done already.
LEMMA NothingToDo ==
  ASSUME PublishersAssumption, backend \in Backends, NEW c \in Clients, op[c] \in Op,
         Plans(op[c]) = {}, zone' = zone
  PROVE  Done(c)
  <1> DEFINE o == op[c].owner
             h == op[c].hash
             mode == op[c].kind
  <1>1. CASE mode = "prune"
    <2>1. prune_tlsa(o, h) = {}
      BY <1>1 DEF Plans
    <2>2. CASE backend = "cloudflare"
      <3>1. stale_dane(cloudflare_ours(o), h) = {}
        BY <2>1, <2>2 DEF prune_tlsa, cloudflare_prune
      <3> QED
        BY <1>1, <2>2, <3>1 DEF stale_dane, cloudflare_ours, Done, Touched
    <2>3. CASE backend # "cloudflare"
      <3>1. stale_dane(At(o), h) = {}
        BY <2>1, <2>3 DEF prune_tlsa, nsupdate_prune, route53_prune, azure_prune, google_prune,
           PublishersAssumption
      <3> QED
        BY <1>1, <2>3, <3>1 DEF stale_dane, At, Done, Touched
    <2> QED
      BY <2>2, <2>3
  <1>2. CASE mode # "prune"
    <2> DEFINE ours == IF backend = "cloudflare" THEN cloudflare_ours(o) ELSE At(o)
    <2>1. publish_tlsa(o, h, mode) = {}
      BY <1>2 DEF Plans
    <2>2. publish_action(ours, h, mode) = "already_published"
      <3> SUFFICES ASSUME publish_action(ours, h, mode) # "already_published" PROVE FALSE
        OBVIOUS
      <3>1. publish_action(ours, h, mode) = "replaced" => \E r \in ours : r.dane
        BY DEF publish_action
      <3>2. publish_action(ours, h, mode) \in {"added", "replaced"}
        BY DEF publish_action
      <3> HIDE DEF ours
      <3>3. \A new : rrset_after_publish(ours, new, publish_action(ours, h, mode)) # {}
        BY <3>1 DEF rrset_after_publish
      <3>4. CASE backend = "cloudflare"
        <4>1. cloudflare_publish(o, h, mode) = {}
          BY <2>1, <3>4 DEF publish_tlsa
        <4>2. ours = cloudflare_ours(o)
          BY <3>4 DEF ours
        <4> QED
          BY <3>1, <3>2, <4>1, <4>2 DEF cloudflare_publish
      <3>5. CASE backend = "nsupdate"
        <4>1. nsupdate_publish(o, h, mode) = {}
          BY <2>1, <3>5 DEF publish_tlsa
        <4>2. ours = At(o)
          BY <3>5 DEF ours
        <4>3. CASE publish_action(ours, h, mode) = "added"
          BY <4>1, <4>2, <4>3 DEF nsupdate_publish
        <4>4. CASE publish_action(ours, h, mode) = "replaced"
          <5>1. PICK r \in ours : r.dane
            BY <3>1, <4>4
          <5>2. Plan({r}, [kind |-> "append", rec |-> live_dane(o, h)]) \in nsupdate_publish(o, h, mode)
            BY <4>2, <4>4, <5>1 DEF nsupdate_publish
          <5> QED
            BY <4>1, <5>2
        <4> QED
          BY <3>2, <4>3, <4>4
      <3>6. CASE backend = "route53"
        <4>1. route53_publish(o, h, mode) = {} /\ ours = At(o)
          BY <2>1, <3>6 DEF publish_tlsa, ours
        <4>2. PICK next \in rrset_after_publish(ours, live_dane(o, h), publish_action(ours, h, mode)) : TRUE
          BY <3>3
        <4>3. Plan({}, [kind |-> "set", owner |-> o, records |-> next]) \in route53_publish(o, h, mode)
          BY <3>2, <4>1, <4>2 DEF route53_publish
        <4> QED
          BY <4>1, <4>3
      <3>7. CASE backend = "azure"
        BY <2>1, <3>2, <3>3, <3>7 DEF publish_tlsa, azure_publish, ours
      <3>8. CASE backend = "google"
        BY <2>1, <3>2, <3>3, <3>8 DEF publish_tlsa, google_publish, ours
      <3> QED
        BY <3>4, <3>5, <3>6, <3>7, <3>8 DEF PublishersAssumption
    <2>3. \E r \in ours : r.dane /\ r.hash = h
      BY <2>2 DEF publish_action
    <2>4. \A r \in ours : r \in zone /\ r.owner \in Touched(op[c])
      BY DEF cloudflare_ours, At, Touched
    <2> HIDE DEF ours
    <2> QED
      BY <1>2, <2>3, <2>4 DEF Done
  <1> QED
    BY <1>1, <1>2

\* The last request of an operation does what the operation is for.
LEMMA FinalDoes ==
  ASSUME NEW c \in Clients, PublishersInv, pc[c] = "write",
         Meant(op[c], doomed[c], final[c], clean[c]), zone' \in After(final[c])
  PROVE  Done(c)
  <1> DEFINE p == op[c]
             q == final[c]
             new == live_dane(p.owner, p.hash)
  <1>1. p \in Op /\ q \in Request /\ zone \subseteq Record /\ PlanSound(c)
    BY DEF PublishersInv, Typed, PlansSound
  <1>2. CASE p.kind # "prune"
    <2>1. new.dane /\ new.owner = p.owner /\ new.hash = p.hash /\ p.owner \in Touched(p)
      BY DEF live_dane, Touched, owner_names
    <2>2. CASE q.kind \in {"create", "update", "append"} /\ q.rec = new
      <3>1. PICK r \in zone' : r = q.rec \/ \E i : r = [q.rec EXCEPT !.id = i]
        BY <2>2 DEF After
      <3>2. r.dane /\ r.owner = p.owner /\ r.hash = p.hash
        BY <2>2, <3>1 DEF live_dane
      <3> QED
        BY <1>2, <2>1, <3>2 DEF Done
    <2>3. CASE q.kind = "set" /\ new \in q.records
      <3>1. new \in zone'
        BY <2>3 DEF After
      <3> QED
        BY <1>2, <2>1, <3>1 DEF Done
    <2>4. CASE q.kind = "change" /\ new \in q.to
      <3>1. new \in zone'
        BY <2>4 DEF After
      <3> QED
        BY <1>2, <2>1, <3>1 DEF Done
    <2> QED
      BY <1>2, <2>2, <2>3, <2>4 DEF Meant
  <1>3. CASE p.kind = "prune"
    <2>1. q.kind # "none"
      BY DEF After
    <2>2. q.owner = p.owner /\ backend # "cloudflare"
      BY <1>1, <1>3, <2>1 DEF Meant, PlanSound
    <2>3. Touched(p) = {p.owner}
      BY <2>2 DEF Touched
    <2>4. CASE q.kind = "set" /\ \A r \in q.records : ~r.dane \/ r.hash = p.hash
      <3>1. zone' = (zone \ At(q.owner)) \union q.records
        BY <2>4 DEF After
      <3> QED
        BY <1>3, <2>2, <2>3, <2>4, <3>1 DEF Done, At
    <2>5. CASE q.kind \in {"drop", "erase"}
      <3>1. zone' = zone \ At(q.owner)
        BY <2>5 DEF After
      <3> QED
        BY <1>3, <2>2, <2>3, <3>1 DEF Done, At
    <2>6. CASE q.kind = "change" /\ \A r \in q.to : ~r.dane \/ r.hash = p.hash
      <3>1. zone' = (zone \ At(q.owner)) \union q.to
        BY <2>6 DEF After
      <3> QED
        BY <1>3, <2>2, <2>3, <2>6, <3>1 DEF Done, At
    <2> QED
      BY <1>3, <2>1, <2>4, <2>5, <2>6 DEF Meant
  <1> QED
    BY <1>2, <1>3

\* A publish that says it is done leaves its hash in the zone, and a prune nobody has
\* interfered with no stale record, whatever has failed before and whoever else writes.
THEOREM OkMeansDoneHolds == Spec => OkMeansDone
  <1>1. PublishersAssumption
    BY PublishersAssumption
  <1> DEFINE Ends(c) == pc[c] # "ok" /\ pc'[c] = "ok"
  <1>2. ASSUME MeantInv, Next, NEW d \in Clients, Ends(d) PROVE Done(d)
    <2>0. Typed /\ PublishersInv
      BY <1>2 DEF MeantInv, PublishersInv
    <2>1. PICK c \in Clients : Begin(c) \/ Read(c) \/ ReadFails(c) \/ Write(c)
      BY <1>2 DEF Next
    <2>2. c = d
      BY <1>2, <2>0, <2>1 DEF Typed, Begin, Read, ReadFails, Write, DeleteOne, SendFinal, WriteFails, Do, End, Goto
    <2>3. (Read(d) /\ Plans(op[d]) = {}) \/ DeleteOne(d) \/ SendFinal(d)
      BY <1>2, <2>0, <2>1, <2>2 DEF Typed, Begin, Read, ReadFails, Write, WriteFails, End, Goto
    <2>4. CASE Read(d) /\ Plans(op[d]) = {}
      BY <1>1, <2>0, <2>4, NothingToDo DEF Typed, PublishersInv, Read
    <2>5. CASE SendFinal(d)
      BY <1>2, <2>0, <2>5, FinalDoes DEF SendFinal, Do, MeantInv, PlansMeant
    <2>6. CASE DeleteOne(d)
      <3>1. PICK r \in doomed[d] : doomed[d] = {r} /\ final[d] = NoRequest /\ zone' = Deleted(r)
        BY <1>2, <2>0, <2>6 DEF Typed, DeleteOne, Goto
      <3>2. Meant(op[d], doomed[d], final[d], clean[d])
        BY <1>2, <2>6 DEF DeleteOne, MeantInv, PlansMeant
      <3>3. op[d].kind = "prune" /\ (clean[d] => Stale(op[d]) \subseteq {r})
        BY <3>1, <3>2 DEF Meant, NoRequest
      <3>4. zone' \subseteq zone \ {r}
        BY <3>1 DEF Deleted
      <3> QED
        BY <3>3, <3>4 DEF Done, Stale
    <2> QED
      BY <2>3, <2>4, <2>5, <2>6
  <1>3. MeantInv /\ [Next]_vars => [\A c \in Clients : Ends(c) => Done(c)]_vars
    BY <1>2
  <1> QED
    BY <1>3, MeantInvariance, PTL DEF OkMeansDone, Done, Spec
=============================================================================
