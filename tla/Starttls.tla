------------------------------ MODULE Starttls ------------------------------
(***************************************************************************)
(* One connection of fetch_live: the dialogue that asks the server for     *)
(* TLS, and the handshake.  The server either follows its protocol or      *)
(* sends whatever it likes, at any pace.  What it sends and the client has *)
(* not read is on the wire, one reply line or XML element at a time.       *)
(***************************************************************************)
EXTENDS Timeout, Sequences

CONSTANTS
    MaxLines,  \* MAX_RESPONSE_LINES, and for the limit on an XMPP response
    MaxWire    \* bound: replies on the wire

ASSUME StarttlsAssumption == MaxLines \in Nat \ {0} /\ MaxWire \in Nat \ {0}

VARIABLES
    proto,   \* the protocol of the connection
    talk,    \* what the client waits for
    lines,   \* of the response that it is reading
    wire,    \* sent and not yet read
    todo,    \* what the server is about to answer; "TLS" when it has switched
    honest,  \* the server follows its protocol
    smooth   \* history: the server has agreed to everything, within what the client
             \* takes (see Answers), and nothing was cut

conn == <<proto, talk, lines, wire, todo, honest, smooth>>

\* A reply: an SMTP line may be continued and may have text.
Plain(says) == [says |-> says, more |-> FALSE, text |-> FALSE]
Smtp(says, more, text) == [says |-> says, more |-> more, text |-> text]

Protocols == {"none", "smtp", "imap", "pop3", "xmpp"}

\* What can be on the wire.  "junk" is a line that is no reply at all; one that is too
\* long ends the dialogue as a cut does.  "*" is any untagged line of IMAP, be it OK, NO,
\* BAD or PREAUTH; "*..bye" is one with " BYE" further on in its text.
Replies(p) ==
    CASE p = "none" -> {}
      [] p = "smtp" -> [says : {"220", "250", "500", "junk"}, more : BOOLEAN, text : BOOLEAN]
      [] p = "imap" -> {Plain(s) : s \in {"*", "*..bye", "*bye", "a001_ok", "a001_no", "junk"}}
      [] p = "pop3" -> {Plain(s) : s \in {"+ok", "-err", "junk"}}
      [] p = "xmpp" -> {Plain(s) : s \in {"blank", "features_starttls", "features",
                                          "<proceed/>", "<proceed>", "</proceed>",
                                          "<failure/>", "<failure>", "</failure>"}}

Closed == "closed"      \* no connection
Tls == "handshake"      \* the server has agreed; the handshake is on
Up == "certificate"     \* the handshake has shown the server's certificate
Failed == "failed"

\* XMPP's client has read other elements before the answer, with these end tags in them.
Element(ends) == CASE ends = {} -> "element" [] ends = {"</proceed>"} -> "element_p"
                   [] ends = {"</failure>"} -> "element_f" [] OTHER -> "element_pf"
Ends_of(where) == CASE where = "element_p" -> {"</proceed>"} [] where = "element_f" -> {"</failure>"}
                    [] where = "element_pf" -> {"</proceed>", "</failure>"} [] OTHER -> {}
Elements == {"element", "element_p", "element_f", "element_pf"}

Talks == {Closed, Tls, Up, Failed, "banner", "ehlo", "starttls", "greeting", "a001", "stls",
          "features", "answer", "proceed", "proceed_failure", "failure"} \union Elements

\* The client is blocked in a read, or in a write.
Reading == talk \notin {Closed, Up, Failed}

ConnTypeOK ==
    /\ proto \in Protocols /\ talk \in Talks /\ lines \in 0..MaxLines
    /\ \A i \in DOMAIN wire : wire[i] \in Replies(proto)
    /\ Len(wire) <= MaxWire
    /\ todo \in {"nothing", "greeting", "EHLO", "STARTTLS", "stream", "</proceed>", "TLS"}
    /\ honest \in BOOLEAN /\ smooth \in BOOLEAN

ConnInit ==
    /\ proto = "none" /\ talk = Closed /\ lines = 0 /\ wire = <<>>
    /\ todo = "nothing" /\ honest = FALSE /\ smooth = FALSE

\* The first thing that the client waits for; XMPP's client speaks first.
Opening(p) ==
    CASE p = "none" -> Tls [] p = "smtp" -> "banner" [] p = "imap" -> "greeting"
      [] p = "pop3" -> "greeting" [] p = "xmpp" -> "features"

Greeting(p) == CASE p = "none" -> "TLS" [] p = "xmpp" -> "stream" [] OTHER -> "greeting"

\* tcp_connect has returned a socket to a server for protocol p.
Connected(p) ==
    /\ Arm
    /\ proto' = p /\ talk' = Opening(p) /\ lines' = 0 /\ wire' = <<>>
    /\ honest' \in BOOLEAN
    /\ todo' = Greeting(p) /\ smooth' = honest'

-----------------------------------------------------------------------------
(* The client.                                                             *)

\* What a reply makes of the client: where it is then, and its line count.
Then(where, n) == [talk |-> where, lines |-> n]
Fails == Then(Failed, 0)

\* Faulty: there is no limit.
Counts_all(n) == Then(talk, lines + n)

Counts(n) == IF lines + n > MaxLines THEN Fails ELSE Then(talk, lines + n)

smtp_next == [banner |-> [code |-> "220", talk |-> "ehlo"],
              ehlo |-> [code |-> "250", talk |-> "starttls"],
              starttls |-> [code |-> "220", talk |-> Tls]]

\* A response ends at its first line that is not continued.  Lines count if they have text.
smtp_negotiate(r) ==
    IF r.says = "junk" THEN Fails
    ELSE IF r.more THEN Counts(IF r.text THEN 1 ELSE 0)
    ELSE IF r.says = smtp_next[talk].code THEN Then(smtp_next[talk].talk, 0) ELSE Fails

\* Any untagged greeting will do, unless " BYE" is anywhere in it.
imap_greeting(r) == IF r.says = "*" THEN Then("a001", 0) ELSE Fails

\* Faulty: the first response has to be the tagged one.
imap_negotiate_at_once(r) ==
    IF talk = "greeting" THEN imap_greeting(r)
    ELSE IF r.says = "a001_ok" THEN Then(Tls, 0) ELSE Fails

\* Other lines before the tagged response are skipped, up to the limit.
imap_negotiate(r) ==
    CASE talk = "greeting" -> imap_greeting(r)
      [] talk = "a001" /\ r.says = "a001_ok" -> Then(Tls, 0)
      [] talk = "a001" /\ r.says \in {"a001_no", "*bye"} -> Fails
      [] talk = "a001" /\ r.says \in {"*", "*..bye", "junk"} ->
           IF lines + 1 = MaxLines THEN Fails ELSE Then(talk, lines + 1)

pop3_negotiate(r) ==
    IF r.says # "+ok" THEN Fails
    ELSE IF talk = "greeting" THEN Then("stls", 0) ELSE Then(Tls, 0)

\* Faulty: the start tag of the answer is taken for the whole of it.
xmpp_read_element_start(r) ==
    CASE r.says \in {"<proceed/>", "<proceed>"} -> Then(Tls, 0)
      [] r.says \in {"<failure/>", "<failure>"} -> Fails
      [] OTHER -> Counts(1)

Begins == {"<proceed/>", "<proceed>", "<failure/>", "<failure>"}

\* Up to the end of the element that answers.  After another element an empty answer is
\* taken for a start tag, since a > has been seen; and an answer whose end tag has been
\* seen is read no further than its name (its rest is left for the handshake to fail on).
\* A failure inside of a proceed is found at the end.
xmpp_read_element(r) ==
    CASE talk = "answer" /\ r.says = "<proceed/>" -> Then(Tls, 0)
      [] talk = "answer" /\ r.says = "<failure/>" -> Fails
      [] talk = "answer" /\ r.says = "<proceed>" -> Then("proceed", 0)
      [] talk = "answer" /\ r.says = "<failure>" -> Then("failure", 0)
      [] talk \in Elements /\ r.says \in {"<proceed/>", "<proceed>"} ->
           IF "</proceed>" \in Ends_of(talk) THEN Then(Tls, 0) ELSE Then("proceed", 0)
      [] talk \in Elements /\ r.says \in {"<failure/>", "<failure>"} ->
           IF "</failure>" \in Ends_of(talk) THEN Fails ELSE Then("failure", 0)
      [] \/ talk = "answer" /\ r.says \notin Begins \union {"blank"}
         \/ talk \in Elements /\ r.says \notin Begins ->
           IF lines = MaxLines THEN Fails
           ELSE Then(Element(Ends_of(talk) \union ({r.says} \intersect {"</proceed>", "</failure>"})),
                     lines + 1)
      [] talk = "proceed" /\ r.says = "</proceed>" -> Then(Tls, 0)
      [] talk = "proceed" /\ r.says \in {"<failure/>", "<failure>"} -> Then("proceed_failure", 0)
      [] talk = "proceed_failure" /\ r.says = "</proceed>" -> Fails
      [] talk = "failure" /\ r.says = "</failure>" -> Fails
      [] OTHER -> Counts(1)

xmpp_negotiate(r) ==
    IF talk # "features" THEN xmpp_read_element(r)
    ELSE CASE r.says = "features_starttls" -> Then("answer", 0)
           [] r.says = "features" -> Fails
           [] OTHER -> Counts(1)

negotiate(r) ==
    CASE proto = "smtp" -> smtp_negotiate(r) [] proto = "imap" -> imap_negotiate(r)
      [] proto = "pop3" -> pop3_negotiate(r) [] proto = "xmpp" -> xmpp_negotiate(r)

\* What the client writes when it gets somewhere.
Command(where) ==
    CASE where = "ehlo" -> "EHLO" [] where \in {"starttls", "a001", "stls", "answer"} -> "STARTTLS"
      [] OTHER -> "nothing"

\* One reply is read.  The next read or write, or the handshake, arms the
\* socket with what is left, and fails if that is nothing.
Read ==
    /\ Reading /\ wire # <<>> /\ talk # Tls
    /\ LET next == negotiate(Head(wire))
           to == IF Spent THEN Failed ELSE next.talk
       IN  /\ talk' = to
           /\ lines' = IF to = Failed THEN 0 ELSE next.lines
           /\ IF to = Failed THEN wait' = 0 ELSE Arm
           /\ todo' = IF honest /\ to # talk /\ Command(to) # "nothing" THEN Command(to) ELSE todo
    /\ wire' = Tail(wire)
    /\ UNCHANGED <<elapsed, proto, honest, smooth>>

\* Part of a reply, or of the handshake, has come: the next read is armed.
ReadPart ==
    /\ Reading
    /\ IF Spent THEN wait' = 0 /\ talk' = Failed /\ lines' = 0
       ELSE Arm /\ UNCHANGED <<talk, lines>>
    /\ UNCHANGED <<elapsed, proto, wire, todo, honest, smooth>>

\* complete_io has the server's certificate: the server has to be in the handshake too.
Handshake ==
    /\ talk = Tls /\ wire = <<>>
    /\ honest => todo = "TLS"
    /\ talk' = Up /\ wait' = 0
    /\ UNCHANGED <<elapsed, proto, lines, wire, todo, honest, smooth>>

Gives_up == /\ talk' = Failed /\ lines' = 0 /\ wait' = 0
            /\ UNCHANGED <<elapsed, proto, wire, todo, honest>>

\* The connection is cut, or the handshake fails for a reason of its own.
Cut == Reading /\ Gives_up /\ smooth' = FALSE

\* The handshake meets what is left of the dialogue.
Handshake_fails == talk = Tls /\ wire # <<>> /\ Gives_up /\ UNCHANGED smooth

\* Faulty: a read that has timed out is tried again.
Read_times_out_again == Reading /\ wait = 0 /\ UNCHANGED <<elapsed, wait, conn>>

\* The call that the client is in times out.
Read_times_out == Reading /\ wait = 0 /\ Gives_up /\ UNCHANGED smooth

Close == /\ proto' = "none" /\ talk' = Closed /\ lines' = 0 /\ wire' = <<>>
         /\ todo' = "nothing" /\ honest' = FALSE /\ smooth' = FALSE

-----------------------------------------------------------------------------
(* The server.                                                             *)

\* What a server that follows the protocol may answer, what it does next, and whether the
\* client has nothing against it: the server agrees, has said less than MaxLines lines that
\* count of this response, and has not greeted with a text that is taken for a BYE.
Answers ==
    LET reply(r, next, agrees) == [reply |-> r, todo |-> next, agrees |-> agrees]
        says(r, next) == reply(r, next, TRUE)
        refuses(r) == reply(r, "nothing", FALSE)
        more == lines + Len(wire) + 1 < MaxLines
        smtp(code, next) == {says(Smtp(code, FALSE, t), next) : t \in BOOLEAN}
            \union {refuses(Smtp("500", FALSE, TRUE))}
            \union {reply(Smtp(code, TRUE, t), todo, t => more) : t \in BOOLEAN}
    IN  CASE proto = "smtp" /\ todo = "greeting" -> smtp("220", "nothing")
          [] proto = "smtp" /\ todo = "EHLO" -> smtp("250", "nothing")
          [] proto = "smtp" /\ todo = "STARTTLS" -> smtp("220", "TLS")
          [] proto = "imap" /\ todo = "greeting" ->
               {says(Plain("*"), "nothing"), reply(Plain("*..bye"), "nothing", FALSE),
                refuses(Plain("*bye"))}
          [] proto = "imap" /\ todo = "STARTTLS" ->
               {says(Plain("a001_ok"), "TLS"), refuses(Plain("a001_no"))}
               \union {reply(Plain(t), todo, more) : t \in {"*", "*..bye"}}
          [] proto = "pop3" /\ todo = "greeting" -> {says(Plain("+ok"), "nothing"), refuses(Plain("-err"))}
          [] proto = "pop3" /\ todo = "STARTTLS" -> {says(Plain("+ok"), "TLS"), refuses(Plain("-err"))}
          [] proto = "xmpp" /\ todo = "stream" ->
               {says(Plain("features_starttls"), "nothing"), refuses(Plain("features"))}
          [] proto = "xmpp" /\ todo = "STARTTLS" ->
               {says(Plain("<proceed/>"), "TLS"), says(Plain("<proceed>"), "</proceed>"),
                refuses(Plain("<failure/>")), reply(Plain("blank"), todo, more)}
          [] proto = "xmpp" /\ todo = "</proceed>" -> {says(Plain("</proceed>"), "TLS")}
          [] OTHER -> {}

HonestServer ==
    /\ Reading /\ honest /\ Len(wire) < MaxWire
    /\ \E a \in Answers : /\ wire' = Append(wire, a.reply)
                          /\ todo' = a.todo
                          /\ smooth' = (smooth /\ a.agrees)
    /\ UNCHANGED <<elapsed, wait, proto, talk, lines, honest>>

OtherServer ==
    /\ Reading /\ ~honest /\ Len(wire) < MaxWire
    /\ \E r \in Replies(proto) : wire' = Append(wire, r)
    /\ UNCHANGED <<elapsed, wait, proto, talk, lines, todo, honest, smooth>>

Connection == \/ Read \/ ReadPart \/ Handshake \/ Handshake_fails
              \/ Read_times_out \/ Cut \/ HonestServer \/ OtherServer
=============================================================================
