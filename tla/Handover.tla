------------------------------ MODULE Handover ------------------------------
(* What a rollover promises, without its phases, waits and processes: ports  *)
(* go from one certificate to another under clients that validate by TLSA    *)
(* records.  `known' is what every client's answer for a port contains.      *)
CONSTANTS Ports, Certs

VARIABLES
    presented,  \* presented[p]: the certificate port p presents
    known       \* known[p]: the certificates whose hash no client can miss

Init == \E c \in Certs : /\ presented = [p \in Ports |-> c]
                         /\ known = [p \in Ports |-> {c}]

\* Hashes that were published come to be in every answer.
Spread ==
    /\ known' \in [Ports -> SUBSET Certs]
    /\ \A p \in Ports : known[p] \subseteq known'[p]
    /\ UNCHANGED presented

\* Ports change to c, which everybody who connects to them knows.
Deploy(c) ==
    /\ presented' \in [Ports -> Certs]
    /\ \A p \in Ports : presented'[p] = presented[p] \/ (presented'[p] = c /\ c \in known[p])
    /\ UNCHANGED known

\* The port's other hashes are taken away.
Retire(p) ==
    /\ known' = [known EXCEPT ![p] = {presented[p]}]
    /\ presented[p] \in known[p]
    /\ UNCHANGED presented

Next == Spread \/ (\E c \in Certs : Deploy(c)) \/ (\E p \in Ports : Retire(p))

Spec == Init /\ [][Next]_<<presented, known>>
=============================================================================
