------------------------------ MODULE Publish -------------------------------
(* publish.rs: what a publisher decides from the records it has listed.      *)
(* A record has the field `dane' (it is a 3 1 1 record) and a hash; a list   *)
(* of records is the set of them.  The code's "first" 3 1 1 record is any of *)
(* them: a provider lists an RRset in no order.                              *)
CONSTANT Apex  \* the owner _PORT._tcp.ZONE

\* Faulty: a record with other parameters counts as well.
publish_action_any(ours, hash, mode) ==
    IF \E r \in ours : r.hash = hash THEN "already_published"
    ELSE IF mode = "replace" /\ \E r \in ours : r.dane THEN "replaced"
    ELSE "added"

publish_action(ours, hash, mode) ==
    IF \E r \in ours : r.dane /\ r.hash = hash THEN "already_published"
    ELSE IF mode = "replace" /\ \E r \in ours : r.dane THEN "replaced"
    ELSE "added"

\* The RRsets that a write of the whole set may leave behind, with the record `new'.
rrset_after_publish(ours, new, action) ==
    IF action = "replaced"
    THEN {(ours \ {first}) \union {new} : first \in {r \in ours : r.dane}}
    ELSE {ours \union {new}}

\* Faulty: whatever is not the live hash is stale.
stale_dane_any(ours, hash) == {r \in ours : r.hash # hash}

stale_dane(ours, hash) == {r \in ours : r.dane /\ r.hash # hash}

\* Faulty: records with other parameters go as well.
rrset_after_prune_any(ours, hash) == {r \in ours : r.hash = hash}

rrset_after_prune(ours, hash) == {r \in ours : ~r.dane \/ r.hash = hash}

\* A name under a host comes with the same port's name at the apex.
owner_names(owner) == {Apex, owner}
=============================================================================
