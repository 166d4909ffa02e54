# A TLA+ verification project for galay-mail

galay-mail is a C++23 library of asynchronous mail clients (SMTP and POP3) on
the coroutines of galay-kernel and the TLS sockets of galay-ssl. This directory
models it in TLA+, checks the models with TLC on small instances and proves
theorems about them, for every instance, with TLAPS. All source paths below are
relative to `src/galay-mail/`.

Contents: [inventory](#1-inventory) · [modules and code](#2-modules-and-the-code-they-model) ·
[runs](#3-runs) · [bounds](#4-bounds) · [fairness](#5-fairness) · [proofs](#6-proofs) ·
[what the checks taught us](#7-what-the-checks-taught-us) ·
[not modelled](#8-not-modelled) · [plan](#9-plan)

## 1. Inventory

| Component | State | Operations | Talks to |
|---|---|---|---|
| `async/mail_transport` (MailTransport) | `m_state`, `m_tcp`, `m_ssl`, `m_ssl_context`, `m_ip_type`, `m_server_name`, the configuration | connect, startTls, sendAll, recvChunk, close | the sockets of galay-kernel and galay-ssl, the resolver; called by both clients |
| `async/smtp_client` (SmtpClient) | `m_endpoint`, the transport; a read buffer per reply | connect, ehlo, helo, startTls, authPlain, authLogin, mailFrom, rcptTo, data, sendMail, quit, close | the transport, SmtpEncoder, SmtpParser, the server |
| `async/pop3_client` (Pop3Client) | as SmtpClient | connect, capa, stls, userPass, authPlain, stat, list, retr, dele, noop, rset, quit, close | the transport, Pop3Encoder, Pop3Parser, the server |
| `protocol/smtp_protocol` | none | SmtpParser::parse, the encoders, dataBody | SmtpClient |
| `protocol/pop3_protocol` | none | Pop3Parser::parse, the encoders | Pop3Client |
| `protocol/auth` | none | base64Encode, the AUTH payloads | both clients |
| `base/mail_url`, `base/mail_config` | none | parseMailUrl, percentDecode; timeouts, TLS parameters | connect(url) of both clients |
| `base/mail_error` | none | error types, messages | everybody |
| `module/`, build files | none | exports | - |

How they work together: a client is a coroutine that awaits one call of its
transport after the other; a transport call awaits one socket operation after
the other. The client writes a command with sendAll and reads chunks with
recvChunk into a buffer that it parses from the start after every chunk, until
the parser says the reply is complete. Nothing locks and nothing queues: what
happens between two awaits is what the peer, the timers, the scheduler and the
rest of the process do.

What is hard here, and the property each component must have:

* **Descriptors** (MailTransport). STARTTLS puts a TLS socket on the descriptor
  of the TCP socket, so that two objects share one descriptor until the
  handshake is over; every failure path leaves something behind. Correct means:
  `connected()` and `encrypted()` never speak of a socket that is gone, no
  descriptor is forgotten, and nobody else's is closed.
* **Partial transfers** (MailTransport). Sockets take part of the data; the
  bytes must go out in order, each once, and success means all of them.
* **Waiting** (MailTransport, clients). Some awaits have timers, others have
  none: which calls come back, and under which conditions.
* **Matching replies to commands** (clients). No reply carries a tag. After a
  timeout the late answer is still on its way; a chunk may hold the end of one
  reply and all of another. Correct means: a caller can trust what sendMail
  returned, under conditions that can be stated.
* **Upgrades** (clients). What came in clear must not be read as encrypted;
  credentials for an encrypted endpoint must never be sent in clear; a connect
  that succeeds has the channel it was asked for.
* **The DATA phase** (SmtpEncoder). No message may end it early; the server must
  get the message as it was given.
* **Parsing** (protocol, URL). A reply cut anywhere parses like the whole reply;
  a URL is taken apart as documented.

`PROJECT.json` lists every hazard at its line with the properties that would
catch it.

## 2. Modules and the code they model

The project has five groups of modules.

### The transport

**Channel** is the abstract specification of a transport, without sockets: a
channel that is closed, in clear or encrypted, one call at a time, and the list
of ways a call may move it.

**MailTransport** is `async/mail_transport.{h,cc}`. The variables `state`, `tcp`
and `ssl` are `m_state`, `m_tcp` and `m_ssl` (the latter two as the descriptor
they hold, or `NoHandle`); `op` and `at` say which call is running and at which
`co_await` it is suspended. An action is the code between two awaits, so timers
(`TimerFires`), the peer and other parts of the process run in between. `owner`
is the kernel's view of each descriptor. The other parts of the process
(`OtherOpens`, `OtherCloses`) open and close descriptors of their own; that is
what makes a descriptor closed twice visible. `connect` contains the whole of
`close`, as in the code. Errors of the two libraries go through `mapIoError` and
`mapSslError` as in the code. External: a socket object closes its descriptor in
`close()` only. The code depends on that, as `startTls` destroys `m_tcp` and goes
on using its descriptor.

### The clients

**MailWire** holds the two byte streams of a connection. A command is one
element, which may be cut short by a failed send; a reply line is two pieces (the
text and its CRLF), so that a chunk can end inside a line. `Chunks` are the
prefixes one recv may return.

**MailClient** is what `async/smtp_client.{h,cc}` and `async/pop3_client.{h,cc}`
have in common, which is most of both: a public method is a run through *steps*
named after the methods and locals of the code (`greeting`, `pre_tls_ehlo`,
`startTls`, `upgrade`, `authPlain`, `mailFrom`, ...). Most steps are `command()`:
`SendCommand` (or `SendFails`, `SendRefused`), then turns of `readReply`'s loop
(`RecvChunk`), or `RecvFails`, `RecvTimeout`, `RecvClosed`. `RecvChunk` keeps the
code's treatment of the rest of the buffer: whatever follows a complete reply is
dropped. The transport appears with the promise of Channel (a `chan` that is
`m_state`), and with `ssl`, whether `m_ssl` holds a socket, which a failed handshake leaves
behind on a channel that is clear or closed. `close` is a call of two steps, `Close` and
`CloseEnds`, and a `dial` begins with the same wait for the closing alert, which no timer
watches (`Shutting`). A reply line is a record with `re`, the command it answers, and `enc`,
whether it was written inside TLS; these are history, and the client never looks at
them.

**SmtpClient** and **Pop3Client** add what is different: `NextStep`, the order of
the code, and `GoesOn`, its tests of replies, for every method; for POP3 also which
replies have many lines (`multiline`), on the lines of **Pop3Lines**.

### The servers and the sessions

The servers are external: they are modelled from what the clients send and
expect. **MailServer** is what they share. A server may refuse anything, write a
line that is no reply, or leave and take what was on its way with it.
**SmtpServer** keeps to the order of SMTP commands, may answer in several lines and
may say 421 at any time; `store` is what it has taken. **Pop3Server** has a
maildrop whose messages are marked by DELE, unmarked by RSET and removed at QUIT; it has
one session at a time, and lets nobody in as long as a session that the client left
holds it (`Admits`).

**MailSession** composes a client and a server on the wire: a dial, a TLS handshake
and a close are steps of both sides, everything else is a step of one. A close or a new
dial does not take back what was sent: `adrift` is what the servers of connections the
client has left may still do when they read it (`LeftBehind`, `Departs`). Such a server may
take the text of a mail (`TakesLate`) or carry out a QUIT (`QuitsLate`) at any time later,
also when the client is connected again, or never. Its replies reach nobody, so that
nothing else of it is kept. The module also has the properties both protocols share. **SmtpSession** and **Pop3Session** are the two
compositions; Pop3Session keeps `told`: the maildrop at the login, when the numbers of its
messages are fixed, the numbers that dele reported deleted since, and whether that login is
the session's and no session left behind has changed the maildrop after it (`held`).
**MCSmtpSession** and **MCPop3Session** have the endpoints, method sets and
maildrops of the runs.

**Submission** is the abstract specification of sendMail: mails, answers and
whether they can be trusted, no commands and no connections. A mail is sent at most once,
while its call runs, and is then on its way until a server takes it, refuses it or loses
it, which may be after the call has returned; an answer that is sure is final. SmtpSession
implements
it (`ImplementsSubmission`) with this mapping:

| Submission | SmtpSession |
|---|---|
| `last` | `calls` |
| `running` | `op = "sendMail"` |
| `answer` | `Says`: the code of the reply, or that there was none |
| `sure` | `lost = 0`: nothing was given up on this connection |
| `travelling` | the calls whose text is on the wire or, on a connection that was left, in `adrift` |
| `accepted` | the calls of the messages in `store` that sendMail sent |

**Removal** is the abstract specification of what a POP3 session does to a maildrop:
retr, dele, rset and quit, the messages that count as deleted, and a maildrop that
loses them at once and only while a quit runs, as long as the session is sure. A quit given
up may take messages away later: before the next session has its numbers, or after it, and
then that session is sure no more. Pop3Session implements it
(`ImplementsRemoval`):

| Removal | Pop3Session |
|---|---|
| `drop` | `store`, the server's maildrop |
| `shown`, `gone` | `told`: the maildrop at the login, and what dele and rset answered since |
| `running`, `number` | `op` if it is one of the four (`Runs`), and `arg` |
| `answer`, `text` | `Says` and `TextRead`: the status of the reply, and its lines after a retr |
| `sure` | `Quiet`: connected, `lost = 0`, and `told.held` |

Both take the maildrop without some messages from **Pop3Lines** (`Without`).

### Text: encoders, parsers, URLs, credentials

**SmtpData** is `SmtpEncoder::dataBody`, one character a step, together with a
server that reads what has been written so far. There are two kinds of server: a
strict one ends a line at CRLF, a lenient one at a bare LF as well.

**MailText**, **SmtpParser** and **Pop3Parser** are the two parsers of
`protocol/` on text made of symbols: where lines end, codes, hyphens, status words,
dot-unstuffing, and every error return. **ReplyReader** is the loop of `readReply`
around them: a server writes a reply and perhaps more, the text arrives cut at any
symbol, and the buffer is parsed anew after each chunk. The sessions read lines; the
reader shows that doing so is right.

**MailUrl** is `parseMailUrl` and `percentDecode` on character codes (a scheme, a
query key or the word "true" is one symbol); **Auth** is `protocol/auth.cc`, base64
byte by byte. **Login** goes through both: a user writes a URL, `connect(url)`
parses it and merges the TLS parameters with those of the builder, and the
credentials are sent by AUTH PLAIN, AUTH LOGIN or USER and PASS to a server that
decodes them. **MCLogin** has the URLs.

### Proofs and faults

Theorems are in eight modules: **MailTransportProofs**, **SmtpDataProofs**,
**MailSessionProofs** (what both sessions need), **SmtpSessionProofs** and
**SmtpReplyProofs** (which goes on from it), **Pop3SessionProofs**,
**ReplyReaderProofs** and **LoginProofs**.

Definitions whose name ends in `Fault` (and `AnyReply`, `NotNegative`,
`StuffsNone`, `StuffsAll`, `FinalPrefix`, `UnstuffNone`) are faulty variants of the
definition next to them. Nothing uses them; `PROJECT.json` lists under "mutants"
which property must fail when one takes the place of the original.

## 3. Runs

`tlc -config <cfg> <module>`; the cfg has the name of the run, except for `Replies`
(`ReplyReader.cfg`).

| Run | Instance | What it shows |
|---|---|---|
| MailTransport | two descriptors, data up to 3 bytes, with fairness | `ConnectedHasSocket`, `NoDescriptorLost`, `SentExactly`, `OkMeansAllSent`; `ForeignCloseNeedsFailedUpgrade`: a descriptor of somebody else is closed only after a startTls that failed on this connection (and then it can be: section 7); `ImplementsChannel`; `TimedCallsReturn`: a call comes back unless it waits in a TLS transfer or for the TLS closing alert |
| SmtpData | every message up to 5 characters, both kinds of server | `EndsWithTheMessage`, `ArrivesUnchanged` |
| SmtpMail | clear endpoint with a user; connect, sendMail and close in any order, three calls, two recipients, malformed replies | `SendMailTellsTheTruth`: while nothing was given up on the connection, sendMail returns 2yz exactly when the server took that message; `EnvelopeOfOneCall`: a message has the sender and the recipients of one call; `ImplementsSubmission`, with mails that are taken after the client has left the connection or made another one |
| SmtpLag | four calls, `data` by itself too | `ReplyLag`: the reply just read is behind its command by at most the reads and sends given up; `BodyNeverReadAsCommands`: however far behind, message text reaches the server in data mode or not at all |
| SmtpSecure | STARTTLS, implicit TLS and clear endpoints on two hosts, and a POP3 endpoint; replies of two lines, malformed ones | `OwnWholeReply`: while nothing was given up, a reply is that of the last command, whole; `NoClearReplyUnderTls`, `CredentialsEncrypted`, `ConnectOkMeansSecured`, `EndpointFollowsConnection` |
| SmtpLive | STARTTLS endpoint, every other method, with fairness | `ClearCallsReturn`: a call comes back, or the channel is encrypted, or the call waits for the closing alert of a TLS socket that a failed handshake left behind (a connect or a close, `Shutting`), whatever the server does; `ServedCallsReturn`: with a server that goes on working every call comes back, unless something was given up before; `LoginLinesWhereAsked`: user name and password are read by a server that asked for just that |
| SmtpAuthRefused | clear endpoint with a user, one call | *violated*: `ConnectOkMeansAuthenticated` (section 7) |
| Pop3Mail | clear endpoint with login; a maildrop of two messages, one of which holds a line that looks like a status; four calls | `RetrReturnsTheMessage`: a retr returns the message it asked for, from the maildrop as the session sees it; `MaildropAsTold`: after a quit answered `+OK`, what is gone from the maildrop is what the user deleted, all of it and nothing else; `OwnWholeReply`; `ImplementsRemoval`, with a QUIT that is read after the client has left the connection |
| Pop3Secure | STLS, implicit TLS and clear endpoints, every other method, with fairness | `ConnectOkMeansLoggedIn`, `NoClearReplyUnderTls`, `CredentialsEncrypted`, `EndpointFollowsConnection`, `ClearCallsReturn`, `ServedCallsReturn` |
| Replies | replies of both protocols up to two lines of two symbols, well-formed or not, five kinds of surplus behind them | `StopsAtTheEnd`: readReply goes on exactly until the last line end of the reply has arrived; `ReadsWhatWasWritten`: it returns the code and the lines the server wrote, or the error of the line that is wrong |
| Login | URLs with every kind of special character in user names, passwords, hosts, ports and options, and every short text | `LogsInAsTyped`: the server decodes the credentials the user meant; `AcceptedCanBeDialled`: an endpoint that is accepted has a host and a port, without parts of anything else; `TlsAsAsked`: what becomes of the TLS parameters |
| BuilderName | a plain URL, a builder with a server name | *violated*: `BuilderNameOverridesHost` (section 7) |

Several properties are conditional on purpose: `SendMailTellsTheTruth`,
`OwnWholeReply`, `LoginLinesWhereAsked` and others speak of connections on which
nothing was given up (`lost = 0`). Without that they are false, and TLC shows
behaviours of the code that break them. `lost` counts the sends and reads that ended
in an error while the connection stayed open; it is history and starts again with
every connection.

The session runs say `CHECK_DEADLOCK FALSE` since the user may stop calling
(`MaxCalls`) and a read inside TLS may wait for ever, which is what the code does.
The encoder and the reader stop at the end of their text, and a URL is used for one
login.

## 4. Bounds

* `MaxData` (MailTransport): longest data of a sendAll. Three bytes allow a first,
  a middle and a last partial send. The proofs have no bound.
* `Handles`: two descriptors, so that one can be closed, reopened by somebody else
  and closed again while another exists. The proofs have no bound.
* `MaxCalls`: calls in a behaviour. Three are a connect and two mails, or two
  connects and a mail; four, in SmtpLag, let a late reply of the first mail
  answer a command of the second and leave the third call to be confused by it, and
  in Pop3Mail, let a message be deleted, another read, and a second session look at
  what is left, or a quit be given up and read late, while that session runs. The proofs
  have no bound.
* `MaxRcpt`: recipients of one sendMail; with two, one can be accepted and the
  next refused.
* `MaxLines`: lines of one reply; with two, a chunk can end between them.
  `MaxText` (ReplyReader): symbols in a line behind the code; two are enough for every
  pair of CR, LF, dot and hyphen, across every line end. The proofs have no bound.
* `BadLines`: whether the server may write a line that is no reply.
* `MaxNumber`, `Maildrop` (POP3): the message numbers the user names and the messages
  there are; two, so that one can be deleted and the other stay.
* `Endpoints`, `Methods`: what the user calls. Each run has the methods its
  properties are about; between them the runs call every method.
* `MaxLen` (SmtpData): five characters of four kinds give every way to place a dot
  behind every kind of line end, twice. The proofs have no bound.
* `Asked`, `Texts`, `Builders` (Login): passwords of up to three characters out of
  eight (an incomplete escape, a whole one, one that stands for a percent sign);
  seven ports at the boundaries of digits, 16 and 32 bits; up to two options; four
  symbols of any kind behind a scheme; a builder that asks for nothing and one
  that asks for everything. Ports above 65535 are all alike (`Number`). The proofs have
  no bound.

Streams are not bounded: a command is sent only after the last one was answered
or given up, so `MaxCalls` bounds them, and `adrift` with them.

## 5. Fairness

* `FairSpec` of MailTransport: weak fairness of `Local` (a coroutine whose await is
  over is resumed; galay-kernel's scheduler resumes what is ready) and of
  `TimerFires` (an await with a `.timeout()` ends: the defaults are 5 s each,
  `base/mail_config.h:46-48`). Nothing is assumed of the peer. A configuration
  made with `noTimeout()` is not covered.
* `TimerSpec` of the sessions: weak fairness of the client's own next step, except where it
  waits for a closing alert (`~Shutting`): a dial ends, since the address is resolved and
  the connect and the handshake have timers (`mail_transport.cc:171-196`), a handshake for which both sides are ready takes place, a command is
  sent, and data that arrived is read. `Continues` contains `RecvTimeout`, which is
  enabled on clear channels only, as in `mail_transport.cc:261-283`, and the end of
  a read whose other end has closed. It does not contain `RecvFails`: a broken
  connection need not be noticed. The user is not assumed to call anything. The wait for the
  closing alert has no timer: `close` awaits `m_ssl->shutdown()`, and `connect` awaits
  `close` (`mail_transport.cc:158`, `:291`). A startTls or an implicit-TLS connect whose
  handshake failed leaves `m_ssl` engaged, so the next connect or close can wait there for
  ever although the channel is clear or closed; `TimerSpec` assumes nothing of it.
* `WorkingServer`, stated inside `ServedCallsReturn` so that the property says what it
  needs: weak fairness of the server's own steps and not of its leaving, and of `Departs`,
  which says that the server answers a closing alert or closes the connection. With that and
  no other assumption every close and connect ends.

## 6. Proofs

TLAPS checks 36 listed theorems; 35 of them state a property that a run checks. Every
invariant, every action property and every refinement that a passing run checks is one
of them.

**MailTransport** (`MailTransportProofs`), for any set `Handles` and any
`MaxData \in Nat`. From `TransportAssumption` (`NoHandle \notin Handles`), the
theorems are `TransportTypeCorrect`, `ConnectedIsBacked`, `NoLeak`, `SendsExactly`,
`ForeignCloseExplained`, `OkSentAll` and `KeepsThePromise` (MailTransport
implements Channel).

None of the invariants is inductive by itself: what close() may assume depends on
where a call was when it failed. `IInv` adds `AwaitOfCall` (which awaits a call can
be suspended at), `SocketsAtAwait` (which sockets exist there, and that connect
works on a closed channel) and `Ownership` (what the sockets hold is ours until
closed; two sockets on one descriptor are what a failed startTls leaves). `NextIInv`
proves one step per action. The theorems then follow from `IInv`. For the
refinement, `SocketsAtAwait` gives what Channel needs: that connect opens a closed
channel and startTls encrypts a clear one.

**dataBody** (`SmtpDataProofs`), for messages of any length: `NoEarlyEnd`,
`RoundTrip` and `DataTypeCorrect`. The invariant has two parts:
`Tail2` ties the last two characters written to the last two of the message, and
`InStep` says that between two turns of the loop the server is in the text, never
after a dot that could turn out to be the end, and at the start of a line only if the
encoder's flag says so too. Lemmas about `Receive` say what one character does to a
server in the text.

**The sessions**, for any endpoints and methods, any number of calls, recipients and
reply lines, and any behaviour of the server. The assumptions are those of the
constants (`ClientAssumption`, `SmtpAssumption`, `ServerAssumption`,
`SmtpServerAssumption`, `Pop3Assumption`, `MaildropAssumption`): sets are sets of the
right records, bounds are numbers, `NoEndpoint` is no endpoint, a maildrop is a
sequence of messages.

* `MailSessionProofs` has the part both protocols share, an invariant `CInv(late)`:
  which steps a call can be at on which channel (`Placed`), and that what is in
  flight was written under the conditions it needs (`AllSafe`). `late` is what
  differs: the steps of a connect that come after the upgrade. `SmtpSessionProofs` and
  `Pop3SessionProofs` instantiate it for the order of each client and prove
  `SmtpCredentialsEncrypted`, `SmtpEndpointFollowsConnection`,
  `Pop3CredentialsEncrypted` and `Pop3EndpointFollowsConnection`. The theorems on the
  endpoint rest on `PartsAtDial`: the stored endpoint and the connection can part only in the step that
  replaces the endpoint. `SmtpNoClearReplyUnderTls` adds `Wired`: under TLS nothing
  written in clear is left to read, since the handshake begins with an empty stream
  and the reply's rest was dropped before.
* `SmtpBodyNeverReadAsCommands` (`SmtpSessionProofs`). The invariant `Bodied` says that
  the right to send a message text exists once: it is a 354 still on its way or
  being read, or a client about to send the text, or the text itself in flight, and
  the server stays in data mode as long as it exists. 354 answers nothing else, so
  lag cannot forge it.
* `SmtpReplyLag` (`SmtpSessionProofs`). `Lagging` numbers everything on a connection:
  lines and their CRLFs alternate (`Alternates`), answers come in the order of the
  commands (`Ordered`), their numbers are bounded by what was sent and what the
  server has read (`Bounded`, `Queued`), and the oldest thing not yet read is behind the last
  command by no more than `lost` (`Replied`).
* `SmtpReplyProofs` has seven theorems, on top of `Lagging`.
  `SmtpOwnWholeReply`: `Owned` says that while `lost = 0` the lines of the reply read
  last all answer the last command, and only the last of them ends it.
  `SmtpSendMailTellsTheTruth`: `Honest` follows one message. Before its text is sent
  nobody can have taken it (`Composing`); while sendMail waits for the answer to DATA or
  to the text, either the server has not taken the message and no unread line says 2yz
  (`Undecided`), or it has it and its next line says 250 (`Granted`); and what the call
  returned stays true, since no text of it is in flight any more (`Told`). `Owned`
  makes the line that is read the one these speak of.
  `SmtpImplementsSubmission`: `Attributed` says that what is in flight or stored under
  the number of the running call was written by it, and that nothing else is in flight
  while `lost = 0`. `Strays` keeps the mails of connections that were left apart from those
  of the calls that follow: their numbers are smaller than any in flight and different from
  each other, so that one that is taken late cannot be the mail a later call speaks of. Each
  action is then shown to be a step of Submission or a stutter.
  `SmtpEnvelopeOfOneCall`: `Enveloped` follows the envelope. While `lost = 0`, either the
  command sendMail waits for is alone on the wire and the server has what came before it
  (`Asks`), or it was answered, and after a granted answer the server has that too
  (`Settled`); and a text sent then is the first thing the server reads (`Carried`), so
  that nothing given up later can come between it and its envelope. `Blank` is why
  recipients of a refused call cannot slip in: without a sender the server has none, and
  with one it refuses the next MAIL.
  `SmtpTypeCorrect` needs `Looping` of that invariant: where `turn` is in the loop.
  `SmtpLoginLinesWhereAsked`: by `Heard` what is on the wire is the command of the step
  the client is at, and by `Prompted` the server is in the mode for the user name (the
  password) from the moment the first line of its 334 is written until it has read the
  answer. The prompt cannot belong to another command, since `Owned` makes the line that is
  read an answer to the last one.
  `SmtpConnectOkMeansSecured`: `Underway` says which steps a connect can be at for which
  endpoint and how far the channel is there (between STARTTLS and the handshake the server
  may be ahead of the client), `Introduced` that the server knows the client as soon as
  the EHLO that counts is granted, `Connected` that the result stays true until the next
  call.
* `Pop3SessionProofs` goes on from `CInv` to an invariant `Pop3Inv` for six more theorems.
  No mark in a POP3 line says that it ends a reply. The client goes by the form: a reply is
  its status line, or, after `+OK` to a multi-line command, all up to a single dot. So
  numbers as in `Lagging` do not do, and the account is of the whole reply instead:
  while nothing was given up on a connection (`Calm`), it is at one of four places
  (`Accounted`): nothing is under way; the greeting is awaited; one command is on its
  way and it is that of the step; or its reply is, in one piece and alone. What `OneReply`
  says of that piece is that the line the server wrote last is the line the client stops
  at, which holds since the lines of a message are stuffed: a message may have lines
  that look like a status, and none of them is the single dot. `Pop3OwnWholeReply` and
  `Pop3RetrReturnsTheMessage` follow with `LastRead` and `Outcome`.
  `Pop3MaildropAsTold` needs the account of two sides: the messages the server has marked
  are those the user was told are gone (`Idle`, `Pending`), except while the answer that
  tells so is on its way (`Meant`); and `Outcome` keeps what a quit answered `+OK` has
  done. `Pop3ConnectOkMeansLoggedIn` needs `InConnect`, as above without EHLO.
  `Pop3NoClearReplyUnderTls` needs `Wired`, and `Pop3TypeCorrect` needs `Typed`: among
  others, what the server has marked are messages of the maildrop it showed this session
  (`Stocked`: while the session is open and logged in, the maildrop is the one of the login,
  since a session left behind that still holds it keeps the login from being granted, and
  one that does not must wait).
  `Pop3ImplementsRemoval` shows each action to be a step of Removal or a stutter, from
  `Pop3Inv`: `Outcome` and `Accounted` say what a reply means when a call comes back with
  it, and that the maildrop shrinks under a running quit alone while nothing was given up.
  `LogsIn` says when a session gets its numbers: at the answer to PASS or AUTH, when none of
  the four methods runs. `QuitsLate` removes messages with `sure` false (`LateRemoves`).
  `Hung` (no server outlives the connection the client closed) keeps what a quit returned
  true until the next dial.

**The reader** (`ReplyReaderProofs`), for any `MaxLines` and `MaxText` in Nat and chunks
cut anywhere: `StopsAtTheEndHolds` and `ReadsWhatWasWrittenHolds`. The invariant `Received`
is short (what was parsed is all that has arrived); the work is in what the parsers do with
a prefix of a text. `LaidOut` gives each line of a reply its place, `ArrivedShows` says that
a prefix shows the parser exactly the lines whose ends it holds, none of them cut
differently, and the lemmas about `SmtpParse` and `Pop3Parse` say that they wait while the
last line is missing and return what they should when it is there (`ReadsAtEveryCut`).

**The login** (`LoginProofs`), for any texts and any wishes of users:
`AcceptedCanBeDialledHolds`, `LogsInAsTypedHolds` and `TlsAsAskedHolds`. `LoginAssumption`
says what a wish is: the scheme is one of the six, a user name has no NUL (RFC 4616), bytes
are 0 to 255, a host is not empty and has none of the characters that end it, a port is of
digits, and the key of an option is neither `=` nor `&`; nothing is assumed of a text but
that it is one. The inductive invariant `LoginInv` only says where the parts come from: the
URL is the text or the wish as written (`UrlIs`), and the endpoint, the TLS parameters and
the credentials are made from it. The rest is about functions:

* `AcceptedIs`: what parseMailUrl returns is `Endpoint` for the texts it accepts
  (`Accepts`), and an error for all others; each part it cuts out is free of the characters
  it was cut at (`Part`, `NoneIn`).
* `ParsesAsWritten`: a URL as users write it falls apart at the same places at which it was
  put together: no separator is left in the escaped name, the last "@" is the one behind the
  password, and so on to the options.
* `DecodesAsEscaped`: percentDecode takes back any escaping, of some characters or of all;
  nothing that is not an escape looks like one, as every percent sign was escaped.
* `QueryOfOptions`: applyQuery finds the items of the options (`OptionsPlaced`, `EndsAre`) and
  keeps the value of the last with a key.
* `DecodesEncoded`: base64 comes back as it was, in each of its three endings; so do the
  two texts behind the NULs of AUTH PLAIN (`PlainIs`).

Two techniques of these two modules: induction over numbers is stated as a fact about
sets (`Least` and `Induction`, from `NatLessThanWellFounded` and `WFMin`), since the
theorems with an operator as a parameter cannot be used; and a concatenation of many pieces
(`FlattenSeq`) is described by the place at which each piece begins (`Laid`, `Sums`), so
that no induction over the data itself is needed. `PortNumbers` has a name because the
provers do badly with a long range of literal numbers.

**Only model-checked**: the liveness properties (`TimedCallsReturn`, `ServedCallsReturn`,
`ClearCallsReturn`), since TLAPS has neither fairness nor ENABLED here.

## 7. What the checks taught us

* `SmtpAuthRefused` (a finding): SmtpClient::connect sends AUTH PLAIN and tests only
  whether a reply came (`async/smtp_client.cc:112-117`). A refusal (535) is success.
  The design document lists a negative reply of the server among the errors, the
  greeting and EHLO are treated that way in the same function, and so is the login
  of Pop3Client (`ConnectOkMeansLoggedIn` holds).
* `BuilderName` (a finding): parseMailUrl always sets the TLS server name to the host
  (`base/mail_url.cc:227`), so the merge in connect never sees an empty name and the
  name given to the builder is not used; the design document promises that it is
  (`docs/plans/2026-05-12-galay-mail-design.md:96-97`).
* percentDecode turns a `+` into a space in user names and passwords too
  (`base/mail_url.cc:143`). `LogsInAsTyped` holds for users who write `%2B`; a
  password with a plain `+` logs in as something else.
* After a startTls that fails in or after the setup of the TLS socket, the transport
  has two sockets on one descriptor and `m_state` is still `Plain`. close() closes
  that descriptor twice, with an await in between. The theorem says that this is the
  only way to it; the run has behaviours in which a descriptor opened meanwhile by
  somebody else is closed.
* A timeout does not end the connection. A connect that timed out while it waited for
  the reply to EHLO returns an error and leaves the client connected; a sendMail on it
  then takes each reply for the answer to the next command, and can return 250 for a
  message that the server does not take. Whoever gets an error from a call should close
  the client before the next call; the conditions `lost = 0` say so, and Submission says
  how much is promised without them. What holds even then is
  `BodyNeverReadAsCommands`: 354 can only be answered to DATA.
* With a lag, calls may wait for ever on an encrypted channel even if the server does all
  its work, since the reply a call waits for was dropped behind another one; that is why
  `ServedCallsReturn` has the condition too.
* recv and send on TLS have no timers, so `recv_timeout` and `send_timeout` end with
  STARTTLS; close() waits for the TLS closing alert without one. That is not confined to
  encrypted channels: after a startTls or an implicit-TLS connect that failed in the
  handshake, `m_ssl` is still there, and the next connect, which closes first, can wait for
  ever. `ClearCallsReturn` holds with this exception (`Shutting`) only.
* Closing the client does not take back what a call that was given up has sent. A sendMail
  that timed out may be delivered after a reconnect, and a retry on the new connection
  delivers it twice; a QUIT that timed out may remove messages under a new session whose
  caller was shown them. Submission and Removal say what a caller can still rely on.
* A connect to a host that does not resolve leaves the old connection open, and the
  client has the new endpoint: a startTls then uses the new TLS parameters on the old
  connection. `EndpointFollowsConnection` says that nothing else leads there.
* After a read of Pop3Client was given up, a `dele` can take the `+OK` of an earlier
  command, and the caller is told that a message is gone which does not exist. An earlier
  form of `TypeOK` said that it could not; the run did not see it, because there the
  maildrop had as many messages as the user had numbers, and the proof for any number of
  both did not go through. `MaildropAsTold` has the condition `lost = 0`, and needs it.
* A strict server gets an extra dot for a line that starts with a dot after a bare LF
  (`Tidy` in SmtpData states the exception; no message breaks out of DATA in either
  case).

## 8. Not modelled

* Two coroutines using one client at the same time: the code has no protection and no
  document allows it. The modules run one call at a time.
* A user who destroys or moves a client that is not closed (hazards in
  `PROJECT.json`).
* Certificates and verification, the depth of verification, and the choice of an
  address by `resolveHost`: no property here tells them apart. Login follows the
  parameters until they are handed to the TLS library.
* The letters of schemes, keys and "true" (`iequals` ignores their case), NUL in
  credentials, and endpoints made by hand instead of from a URL.
* Texts of commands (`SmtpEncoder`, `Pop3Encoder` besides `dataBody`): a command is its
  verb and the call it belongs to.
* The setters of the builders, the example program, the module interface and the
  build files: they keep no state of the mail clients.
* Memory: a reply without end, `buffer_size` 0.

## 9. Plan

Done: the transport with its proofs; both clients with their servers and sessions; the
body encoder with its proofs; both parsers; URLs, TLS parameters and credentials; the
abstract specifications of a transport, of sendMail and of a POP3 session; the proofs of
section 6.

Next, the most useful first:

1. **Two tasks on one transport**: a variant of MailTransport with a second transport, to
   state what a moved-from object still answers, and what overlapping calls would need.
2. **What the reader shares**: `Complete` of both clients and the parsers of ReplyReader
   are connected by the runs only; `ReadsAtEveryCut` is the fact with which the sessions
   could be shown to read as the reader does.
