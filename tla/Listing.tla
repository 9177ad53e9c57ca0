------------------------------- MODULE Listing -------------------------------
(***************************************************************************)
(* The names that `list` looks up: those of the ports it is given, or else *)
(* those of the records that the publisher has.                            *)
(***************************************************************************)
EXTENDS Integers, Sequences

\* Whose name it is: the zone's own, the host's of the command line, or another's.
Owners == {"zone", "host", "other"}

\* The name of a record, in capital letters or not; a name has several records.
Name == [owner : Owners, port : Nat, upper : BOOLEAN]

names_equal(a, b) == a.owner = b.owner /\ a.port = b.port

\* The host that a command line is about.
own(named) == IF named THEN "host" ELSE "zone"

\* With ports, the names of the zone and of the host; without, those of any port, and
\* without a host of any host.
record_matches_filter(name, named, ports) ==
    IF ports # <<>>
    THEN (\E i \in DOMAIN ports : ports[i] = name.port) /\ name.owner \in {"zone", own(named)}
    ELSE named => name.owner \in {"zone", "host"}

\* The records of a zone that match, in their order.
matching(zone, named, ports) ==
    LET kept[i \in 0..Len(zone)] ==
            IF i = 0 THEN <<>>
            ELSE IF record_matches_filter(zone[i], named, ports) THEN Append(kept[i - 1], zone[i])
            ELSE kept[i - 1]
    IN  kept[Len(zone)]

\* Faulty: as it is spelled.
AddName_spelled(out, name) ==
    IF \E i \in DOMAIN out : out[i] = name THEN out ELSE Append(out, name)

\* One name more, if it is not there in whatever spelling.
AddName(out, name) ==
    IF \E i \in DOMAIN out : names_equal(out[i], name) THEN out ELSE Append(out, name)

unique_names(names) ==
    LET out[i \in 0..Len(names)] == IF i = 0 THEN <<>> ELSE AddName(out[i - 1], names[i])
    IN  out[Len(names)]

\* What public DNS is asked for; without a publisher nothing is listed.
dns_names(listed, named, ports) ==
    IF ports # <<>>
    THEN [i \in DOMAIN ports |-> [owner |-> own(named), port |-> ports[i], upper |-> FALSE]]
    ELSE unique_names(listed)
=============================================================================
