------------------------------ MODULE MCVerify ------------------------------
(* Small instances of Verify for TLC.                                        *)
EXTENDS Verify

Line(cmd, withmx, publisher, withdnssec, expiry, starttls, forports) ==
    [cmd |-> cmd, mx |-> withmx, publisher |-> publisher, dnssec |-> withdnssec,
     expiry |-> expiry, info |-> FALSE, starttls |-> starttls, named |-> FALSE, ports |-> forports]

\* Each command, with hosts from MX and with two ports; each dialogue.
Lines == {Line("verify", TRUE, FALSE, TRUE, TRUE, "none", <<25>>),
          Line("verify", FALSE, FALSE, TRUE, TRUE, "default", <<25, 443>>),
          Line("verify", FALSE, FALSE, FALSE, FALSE, "default", <<143, 443>>),
          Line("verify", FALSE, FALSE, FALSE, TRUE, "default", <<110, 5222>>),
          Line("generate", TRUE, FALSE, TRUE, TRUE, "default", <<443>>),
          Line("generate", TRUE, TRUE, TRUE, TRUE, "none", <<25>>),
          Line("prune", FALSE, TRUE, TRUE, TRUE, "smtp", <<2525>>),
          Line("prune", FALSE, FALSE, TRUE, TRUE, "default", <<443, 465>>),
          Line("list", FALSE, TRUE, FALSE, FALSE, "default", <<443>>),
          [Line("list", FALSE, FALSE, FALSE, FALSE, "default", <<443, 465>>) EXCEPT !.info = TRUE],
          Line("list", FALSE, TRUE, FALSE, FALSE, "none", <<>>),
          [Line("list", FALSE, TRUE, FALSE, FALSE, "none", <<>>) EXCEPT !.named = TRUE, !.info = TRUE],
          Line("list", FALSE, FALSE, FALSE, FALSE, "default", <<>>),
          Line("file", FALSE, TRUE, FALSE, FALSE, "default", <<443, 25>>),
          Line("file", FALSE, FALSE, FALSE, FALSE, "default", <<>>),
          Line("rollover", FALSE, TRUE, FALSE, FALSE, "default", <<443, 25>>)}

Tlsa(owner, onport, upper) == [owner |-> owner, port |-> onport, upper |-> upper]

\* Several records of a name, in two spellings, and two names of a port.
Listings == {<<Tlsa("zone", 443, FALSE), Tlsa("host", 443, FALSE), Tlsa("zone", 443, TRUE)>>,
             <<Tlsa("other", 25, FALSE), Tlsa("host", 25, TRUE), Tlsa("host", 25, FALSE)>>}

Statuses == {"secure", "insecure", "bogus"}
=============================================================================
