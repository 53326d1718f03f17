# Verification of rsipclient

TLA+ models of [rsipclient](../src/README.md), a SIP client service in Rust: its
transaction layer, the call state of an account, its registration, the accounts
themselves, the voice menu, and the parts around the calls, from the media stream
to the configuration file. TLC checks the models on small instances, and TLAPS
proves nearly all of their safety properties for any number of requests, calls,
accounts, peers and saves.

Source paths below are relative to the crate, `src/src/`.

- [Inventory](#inventory)
- [What is modelled](#what-is-modelled)
- [Runs](#runs)
- [Proofs](#proofs)
- [Not modelled](#not-modelled)
- [Plan](#plan)
- [How to run](#how-to-run)

## Inventory

The service keeps one `ManagedClient` per account in a map behind a tokio mutex.
Each holds an `Arc<Mutex<SipClient>>` that everybody shares: the handlers of the
dashboard (`service/web_handlers/`), of the control socket and of the REST command
server (`service/handlers/`), and three kinds of background tasks: one
`incoming_call_watcher` and one `registration_watcher` per account, and a session
refresher per call. There is no reader task: whoever holds the client's mutex and
waits polls the transport and dispatches what arrives.

| Component | State | Operations | What makes it correct |
|---|---|---|---|
| Client transactions (`sip/transaction.rs`) | `client_txs`, one response channel, timers | `execute_invite`, `execute_non_invite`, `process_incoming` on responses | a caller gets the answer to its own request or an error, in bounded time; failures of INVITEs are acknowledged once; CSeqs are fresh, but for a CANCEL's, which is its INVITE's; nothing stays in the table |
| Server transactions (`sip/transaction.rs`) | `server_txs`, `incoming_requests`, sleeping removal tasks | `process_incoming` on requests, `record_server_response`, `try_recv` | repetitions are answered from the cache for Timer J; the cache drains |
| Call dialog (`sip/client.rs`, `sip/operations/`) | `call_id`, `remote_uri`, `held`, `ringing_*`, `rtp_receiver`, call history | `invite`, `answer_incoming`, `reject_incoming`, `bye`, `cancel`, `hold`, `resume`, `refresh_session` | one call at a time, as long as its users keep to one; RTP, history and hold follow it; no call goes away under a request |
| Incoming call watcher (`service/watcher/incoming_call.rs`) | the message it works on, the IVR task | BYE, CANCEL, INVITE, each in several stretches under the mutex | a hangup is noticed; every caller is answered; a message affects its own call only |
| Registration (`service/watcher/registration.rs`, `sip/operations/register.rs`) | `registered`, `should_register`, the watcher's own flag and clocks | `register`, `unregister`, refresh, retry, keep-alive, leaving | what the user asked for last becomes and stays true; a deactivated watcher ends |
| Account management (`service.rs`, `service/web_handlers/`) | the map of clients, the holders of each client, the config file | start, add, edit, delete, `put_config`, reload, shutdown | what runs is what the file says; what is replaced is let go |
| IVR session (`ivr/`, `plugins/`) | where the session is, collected digits, the message it is about to send | play, collect, transfer, record, hold, hang up, ask a script or a web service | it acts on its own call, a transfer is its last act, it ends with the call, keys are taken |
| RTP receiver (`rtp/receiver.rs`) | latched peer, last DTMF timestamp, digit buffer, stop flag | receive loop, `stop`, `send_dtmf_digit`, `take_dtmf` | each key once and in order; one end is heard; the buffer keeps the latest |
| Stream transports (`sip/transport*`) | read buffer | framing by Content-Length, keep-alives, size limit | messages are cut the same way however the stream is divided |
| Peer allow-list (`sip/transport/udp.rs`) | primary and learned addresses | learn from an answer, check a request | requests come from the server or from who has answered |
| Logger (`service/logger.rs`) | call history, log and trace rings, syslog connection | record, push, forward with a reconnect | a record tells what became of its call; lines are neither doubled nor out of order |
| Login limiter (`service/web_server.rs`) | failures and lock per address | allow, fail, succeed | a lock holds for as long as it was set, though the table is full and requests overlap |
| Configuration file (`config.rs`) | the file, its sibling | load, save by write, sync and rename | the file is whole, and the latest unless a crash undoes a rename the disk did not have yet |
| Conversions (`rtp/codec.rs`, `rtp/wav.rs`, `sip/sdp.rs`, `sip/utils.rs`) | none | G.711, WAV, session descriptions, route sets, dates | what is converted keeps its meaning |
| Message builders, digest, Opus, CLI, dashboard routes, tray | none or their own | formatting, hashing, libraries, I/O | left aside |

Where it is hard: the mutex is held across exchanges of up to 32 s but released
between the steps of one incoming message; timers live inside a `select!` loop
that re-creates them; answers and requests cross on the wire; the background
tasks outlive the calls and accounts they were started for; and most operations
can leave early after they have changed the client. `PROJECT.json` lists each of
these hazards at its line with the properties that watch it.

## What is modelled

| Module | Role |
|---|---|
| `RequestResponse` | abstract: what the transaction layer promises its callers |
| `ClientTransaction` | the client half of the transaction layer, with peer and network |
| `ServerTransaction` | the server half, with the application reduced to its answers |
| `PhoneLine` | abstract: what an account promises as a telephone line |
| `CallDialog` | call state, user operations, watcher, refreshers, peers |
| `Registration` | watcher, users, registrar |
| `AccountManager` | the service's map of clients, the requests that change it, whoever still holds a client |
| `IvrSession` | the sessions that answer calls, with the part of the watcher that starts and aborts them |
| `DigitLine` | abstract: what a user may expect of the keys pressed in a call |
| `MediaStream` | the RTP of one call from one program to the other, with the network between |
| `StreamFraming` | messages in a TCP or TLS stream that arrives in pieces |
| `UdpPeers` | the addresses a UDP client takes requests from |
| `LoginLimiter` | the dashboard's login limit under overlapping requests |
| `LogBuffers` | the ring of log lines and the syslog sender |
| `ConfigFile` | saving the configuration, with failures and crashes |
| `Sound`, `Text` | operators: G.711 and WAV; session descriptions, header lists, dates |
| `Conversions` | every bounded input of these operators, against reference definitions |
| `Periphery` | the composition of the parts that share no state with the calls |
| `MC*` | the values of the constants that a configuration file cannot express |
| `*Proofs` | theorems |

Operators named in a comment that begins with "Mutant" or "Mutated" are deliberate mistakes;
each is the broken version of one definition, used to confirm that a property
notices.

### ClientTransaction

`Submit` is the head of `execute_*`: `next_cseq`, insertion of the key, the first
transmission. The branches of `select!` are the actions of `Loop`: `TimeOut` (Timer F
and B), `Retransmit` (Timer E and A), `TakeProvisional`, `TakeFinal` and `TakeGarbled`
(`rx.recv()`), `PollEnds` and `Receive` (`transport.try_recv`, with `process_incoming`).
Time is counted in ticks. `waited` counts from the beginning of an iteration, because
the retransmission sleep and the poll are created there; `elapsed` counts from the
creation of Timer F, which is pinned outside of the loop. `DrawCSeq` is `next_cseq`;
`RepeatCSeq` is `cancel()`, which draws none and sends the number of the INVITE of the
call: the client's own, or the peer's (`PeerCSeqs`), which may be any number. `Tick` may
pass only while no branch is ready, or `MaxLate` ticks longer. This is what makes the
model show that Timer E never fires in time.

A message is a transaction and a kind: `2xx`, `failure`, `1xx`, `reliable1xx`
(with RSeq), and `garbled`, a response whose Via and CSeq match but whose status
does not parse. Two keys with equal branch and method never occur, since branches
are UUIDs. Left out: the set of completed keys (it changes a log line only) and
the unreachable arm for a closed channel.

### ServerTransaction

`cache` is `last_response`; `removers` counts the tasks of a key by the time they have
left, since each `record_server_response` spawns a sleeping task of its own. `Ring`,
`AnswerNow`, `SayBusy` and `UserDecides` are what the application does about a request
as far as the cache can tell. Time has no upper bound on a task's lateness: a remover
runs at any moment after its sleep.

### CallDialog

A call is its Call-ID. `call` stands for `call_id`, `in_call` and `rtp_receiver`,
which the code sets and clears together. `op` is the operation under way and at
the same time the lock: `kind = "none"` means that the mutex is free. An operation
that sends is two actions, one that takes the mutex and one that ends it by the
answer (`op.reply`) or an error; an operation that does not wait is one action. A
challenge with all its authenticated retries is one exchange that ends in `ok`,
`refused`, `unchallenged` (no parameters to answer with) or an error, as the
control flow of `invite` distinguishes them.

The watcher's `at` names the stretch under the mutex it does next. One INVITE takes
up to three: `CheckBusy`, then `SendBusy`, `AutoAnswerCall` or `Ring`; one CANCEL
three: `TakeRequest`, `ClearRinging`, `TerminateInvite`. `rtp` is the set of calls
whose receive loop runs, which is not the same as having a receiver: dropping one
does not stop its loop. `leg` is the peer's view, and what makes CANCELs and BYEs
cross answers.

A request may reach the queue more than once. `answered` are the calls whose last
INVITE has an answer in `server_txs`, from where the transaction layer answers a
copy (`transaction.rs:240-253`). It is recorded for a 180 (`incoming_call.rs:357`), for
a 200 (`call.rs:523`) and for a rejection (`call.rs:595`); a 486 and a 487 are not.
`PeerRepeats` queues a copy of an INVITE without a recorded answer, and of a CANCEL or BYE
that still waits. `PeerReinvites` queues a re-INVITE of a call the peer has up, which
may be over here (its branch is new, so no answer is on record). The watcher compares
no Call-IDs and takes either for a new call: `again` has these calls. `offers` counts
and bounds what peers send this way (`MaxOffers`). A CANCEL of a re-INVITE is left out.

Users are unrestricted, except that `OneCallAtATime` makes them keep from placing
or answering a call during another one: the code does not check this, and the
properties of `call_manual` need it. Those of `call_any_user` hold without, and are
proved for accounts with auto-answer as well. `PhoneLine` is implemented with the call
that is up, the calls on record as ended, and `again`: a call that was offered again
(`Offer`) may be taken up again (`Reopen`, `Connect`), and no other.

Left out: REFER, INFO, MESSAGE and DTMF, which leave the dialog state alone; tags,
targets and route sets; the duration of intervals (a refresher may wake at any
time).

### Registration

`op` is again exchange and mutex. `registered` is the client's flag, `believed` the
watcher's `is_currently_registered`, `bound` the truth at the registrar. The
watcher's loop is cut at every point where it takes or gives up the mutex.
`sinceTry` and `sinceAlive` are its two `Instant`s; their clocks stop at the
longest interval anybody compares them with. `life` is how the watcher comes to an end:
an edit or a deletion clears the account's `active` flag (`deactivated`), a shutdown
command sets the flag that the watcher's loop looks at as well (`stopping`; `Staying`
is neither), and the end of `run()` drops the watcher wherever it is (`gone`).

### AccountManager

A client is a number with a port, its `active` flag and `holders`, the set of those
that keep an `Arc` to it: the map, the request at work, its two watchers, and whoever
borrows it: a command, a refresher, or the IVR session of a call
(`incoming_call.rs:276-283`). When the last one goes the socket is closed and the
port free; `CanBind` looks at just that, and `Broken` are the accounts whose client
cannot be created for another reason. `op` is the request that holds the map's
mutex, cut where it awaits: `EditLoad`, `EditWait`, `EditCreate`, then `EditSave` or
`EditRestore`. `PutSave` writes the file without the mutex, as `put_config` does;
`overlapped` records that it did so during another request, or that an edit could
not be saved, and the two agreements (`RunningIsSaved`, `NoStrays`) say so. `Stop`
may end the process anywhere, and `Start` reads what the file says.

Left out: what the accounts' clients do meanwhile (`Registration`, `CallDialog`),
and every part of an account but its name and its port.

### IvrSession

`session[k]` is the task started for call `k` and stays after the call: `at` is the
await it is at, `act` the action it carries out. The session reads `call` whenever the
code takes the client's mutex, and only then. A call may take the place of another
(`Begins`), since neither `invite()` nor `answer_incoming()` asks whether there is one;
`endedBy` then says "replaced", and the session of the first goes on. `Build` and `Send`
are the two sides of the release between drawing a CSeq and sending. A script runs
without an await (`ask`): an abort is noted (`aborted`) and takes effect at the next
await, as tokio has it. `Answers` is what the three runners make of an action a program
returns, with the conversions of its number of seconds.

### Media, streams, peers, logins, log, file

`MediaStream` has both ends: keys are queued behind the stream's mutex, sent as
packets with a clock that counts packets, lost and repeated but not reordered, and
accepted by `Accepts` (a new timestamp) from the source that `Latch` chose. The
keys the receiver has pushed, unless they are another source's, implement `DigitLine`.

`StreamFraming` has bytes `<<m, i>>`, so a reordering or a loss would be visible. The
peer writes its messages one by one (`PeerWrites`), with keep-alives between them;
body lengths are given, `Extract` cuts, `ReadMore` fills the buffer, timeouts leave
it, and a header that is not UTF-8 is `garbled`. What must be left in buffer and wire
is said by the place of each message and the order of its bytes (`InOrder`), which
needs no concatenation of all messages and can therefore be proved.

`UdpPeers`, `LoginLimiter` and `LogBuffers` are the code's tables with one action for
each operation under their lock. `guesses` counts an address's wrong ones since it
logged in or served a lock, whatever the table does; where a full table drops a count
the address is `forgotten`, and not followed until it starts afresh. `ConfigFile` has
the content of a file as version, part and whether it was synced, and each saver's step;
a crash leaves of an unsynced file anything, and `place` is where the open file of a
saver has gone. The directory is never synced (`config.rs:425-427`): `before` is the
file it still names on the disk, until the file system writes it (`Settle`), and a crash
may go back to it (`undone`). `settled` is the latest version that cannot be lost any
more.

### Sound, Text and Conversions

The operators follow the code's arithmetic and its folds over lines and characters.
`Conversions` enumerates inputs as initial states and states the results by other
means: the error bound, monotony and idempotence of G.711 over all 65 536 samples, the
mean of frames read by position, a description's own section by its position, a
path and its reversal, and the calendar by adding days.

`Periphery` keeps one part awake in each behaviour. The parts share no variable, so
a behaviour of all of them together projects onto each part as one of these, and
each property speaks of one part only.

## Runs

All configurations name their bounds in the `.cfg`. `CHECK_DEADLOCK FALSE` is set
where the system may stop: finitely many calls or requests are placed, and a
watcher that left does nothing more.

| Run | Bounds | Shows |
|---|---|---|
| `client_tx_udp` | an INVITE and a REGISTER, 2 responses each, Lifetime 4, lateness 1 | `AnswersMatch`, `NoStaleKeys`, `FailureAcked`, `BoundedWait`, `QuietAfterProvisional`, and that the layer implements `RequestResponse` |
| `client_tx_tcp` | the same over a reliable transport, and a CSeq of a peer's INVITE for a CANCEL to repeat | `EveryRequestEnds`, `FreshCSeqs` |
| `client_tx_timer_e` | lateness 0 | fails: requests are not repeated before they are given up |
| `call_manual` | 1 outgoing and 2 incoming calls, 2 INVITEs or copies from peers, timers, failing ports, no auto-answer, one call at a time | `TracesFollowTheCall` (`RtpFollowsTheCall`, `ConnectedIsCurrent`, `PeerIsTheCalls`), `HoldEndsWithItsCall`, implements `PhoneLine` |
| `call_any_user` | the same, any user | `NothingOutlivesItsCall` (`OpOwnsItsCall`, `RingingIsOpen`), `RefreshKeepsHold`, `OverStaysOver` |
| `call_auto` | 1 outgoing and 2 incoming calls, 2 INVITEs or copies, auto-answer, ports run out | `EveryCallerIsAnswered`, those excepted whose own answer found no port; `HangupIsNoticed` |
| `registration` | refresh 2, retry 1, keep-alive 1 | `StaysRegistered`, `EndsUnregistered`, `WatcherLeaves`; the watcher and the mutex agree |
| `server_tx_cache` | 1 request of 2 copies | fails: the remover of the 180 removes the final answer |
| `accounts` | 2 accounts of 2 ports each, one of them broken, 3 clients alive, one PUT at a time | `Consistent` (the file loads, what runs is saved, nothing active outside of the map), `Released` (mutex and, without a borrower, port) |
| `accounts_reload` | the same | fails: after a reload accounts without auto-answer have no call watcher |
| `ivr` | 2 calls, which may replace one another, a menu with a transfer and a script, a default | `SessionInv` (a session that its caller's hangup stopped sends nothing more), `TransferIsLast`, `SessionEnds`, `KeysAreTaken` |
| `periphery` | per part: 3 keys, 2 lost and 1 repeated packets, 1 stray; 3 messages; 5 hosts and 2 learned; 2 overlapping logins, 3 addresses in a table of 2; 5 lines of 2 threads; 3 saves of 2 savers, 1 crash; 2 requests of 2 copies; all 16-bit samples, 150 years, files of 3 chunks, descriptions of 2 sections, paths of 4 proxies | `ImplementsDigitLine`, `OnlyItsPeersKeys`, `StreamsDeliver`, `FramingIsFaithful`, `TrustIsEarned`, `LoginIsLimited`, `LogIsFaithful`, `FileIsWhole`, `RepetitionsAreAnswered`, `AnswersGo`, `SoundIsFaithful`, `TextIsFaithful` |

Why the bounds are enough. Two transactions are the least for which an answer can reach
the wrong one, a CSeq can be used twice, or a CANCEL can repeat one; transactions run
one at a time, so a third adds another predecessor and no new interleaving. Two
responses let a provisional one, a final one and a repetition come in each order. `Poll
< T1 <= T2 < Lifetime` keeps the order of the code's constants (100 ms, 500 ms, 4 s, 32
s). Three calls let one call be up, one ring and one arrive. `MaxOffers = 2` gives
either two callers, whose requests overtake each other, or one whose INVITE is repeated
or followed by a re-INVITE, beside the call the user places. Symmetry between calls of a
kind is used where no temporal liveness is checked. A refresh longer than a retry tells
the two intervals apart. With two accounts one can want the port the other has, and a
third client is a replaced one that is still held. A step that creates a client waits
for one of the `MaxClients` to be free (`Unused # {}`), so this bound delays creations
and lets none fail. Two calls let a session outlive its own into the next. A packet of a
key is sent three times, so two losses are the most that may not silence it; two learned
addresses among five hosts fill the list and make one give way; a table of two for three
addresses fills up; a second saver shares the sibling. The proofs remove these bounds
for the properties they cover.

### Findings

Three runs fail. Each checks what a comment of the repository says; `PROJECT.json`
quotes it and says what the code does instead. Other places where the models have a
behaviour that a text of the repository does not expect, or that its authors may
want to know, without a run of their own:

Transactions

- `transaction.rs:109` has finished transactions free their resources; `TakeGarbled`
  (lines 410 and 521) leaves the key in `client_txs`. `NoStaleKeys` makes exactly
  this exception.
- `docs/sip-hardening-roadmap.md:121` claims that repeated requests are filtered.
  `Receive` queues a repetition again for as long as no answer is on record, and with
  auto-answer the copy of an INVITE finds the account busy with the first and is refused
  (`incoming_call.rs:209`). The 486 of a busy account is never on record (`SayBusy`).
- A CANCEL carries the CSeq of its INVITE (`call.rs:330-345`), as it should; when the
  peer placed the call that is the peer's number, which may be one the client has used or
  will use. `FreshCSeqs` is about the other requests, which draw theirs.
- `transaction.rs:306`: over TCP and TLS nothing removes a recorded answer, so the
  cache grows for as long as the client lives. `AnswersGo` is about UDP.

Calls

- `incoming_call.rs:208` checks whether the account is busy and gives the mutex up
  before line 254 answers: with auto-answer, a call that a user places in between is
  replaced, up at its peer with no way left to end it. Nothing keeps a user from placing
  or answering a call during another one either. `ImplementsPhoneLine` and
  `TracesFollowTheCall` hold where users keep from it and nothing is answered
  automatically, and fail otherwise.
- A call that replaces another one takes over its hold: `answer_incoming` leaves `held`
  alone, and so does the 200 to an INVITE (`HoldEndsWithItsCall` needs the same users).
- A re-INVITE of the peer is a new call to the watcher. During the call it gets 486
  (`CheckBusy`); when the call has just ended here, while the peer's re-INVITE was in
  the queue behind a BYE of ours, the call that is over rings or is answered again, and
  `record_call_start` (`logger.rs:363-383`) removes its record and opens a new one. The
  same goes for a copy of an INVITE that was cancelled or given up before an answer was
  on record. `OverStaysOver`, `RingingIsOpen` and `PhoneLine` except just these calls.
- A CANCEL clears whatever rings (`incoming_call.rs:150`), also another caller's INVITE,
  which then waits until its caller gives up; and a second INVITE takes the place of one
  that rings (`Ring`), whose caller is told nothing.
- A refresher looks at `in_call` only (`managed_client.rs:203`): that of a call which has
  ended goes on in the next call, beside the refresher of that one and at its own
  interval. The refresh is redundant; `RefreshKeepsHold` says that it keeps the hold.
- `docs/tcp-protocol.md:53` says that `cancel` cancels a pending INVITE. `call_id` and
  `invite_cseq`, which `cancel()` needs, are set when the INVITE was answered, and
  `invite()` keeps the mutex until then: the CANCEL goes out for a call that is up.
- `incoming_call.rs:14` speaks of in-dialog BYEs; the Call-ID of a BYE is not compared
  with that of the call, and a BYE queued for a call that is gone ends the next one
  (`incoming_call.rs:94`, `CleanUpAfterBye`).
- `docs/sip-hardening-roadmap.md:138` wants a BYE when a refresh fails; a refresh the
  peer refuses is `Ok(false)` and ends nothing (`RefreshRefused`). If the BYE of a
  refresher fails, its error is dropped (`managed_client.rs:210`) and the call stays
  up without a refresher. A call answered automatically has none at all.
- `incoming_call.rs:109` takes a CANCEL to arrive before the answer; `TerminateInvite`
  also marks a call that was answered meanwhile as cancelled.
- `call.rs:65` clears the `remote_uri` of a failed call; `InviteWithoutPort` and
  `InviteUnchallenged` leave it.
- `call.rs:275` has `bye()` stop RTP; the receiver of a call that was replaced keeps
  running (`AnswerIncoming` and `InviteAnswered` add to `rtp` and stop nothing).

Registration and accounts

- `registration.rs:54` and `:112` speak of retries and keep-alives by the state of
  the registration; `Due` and `SendKeepAlive` go by `believed`, which a user's
  request does not change.
- `registration.rs:34` logs "Unregistering on shutdown/deactivate", and
  `docs/tcp-protocol.md:109` says of shutdown "Gracefully stop the service". The accept
  loop (`service.rs:168`) ends within 500 ms of the command and `main` with it; nobody
  waits for the watchers, which look once a second, and the registrar keeps the bindings
  of a program that is gone (`ProcessEnds`).
- `put_config` saves without the map's mutex, under the sibling's fixed name
  (`config.rs:401`): a save that overlaps another one can write into the file the
  other has already renamed. `FileIsWhole` holds as long as no two overlap. And a PUT
  between the load and the save of another request is undone by that save, or a
  PUT of an older text undoes what was saved in between (`config_handlers.rs:29`):
  `overlapped` excepts what follows from it.
- `config.rs:425-427` syncs the file but not the directory it is renamed in: a crash
  soon after a save that succeeded may bring back the version before it, whole.
- The example in the README of the repository has `ivr_default` behind the
  `[accounts.ivr_menu]` header, which makes it a key of the menu: no default is set.

IVR

- `ivr/session.rs:4` has a session stop on a hangup. A BYE of the peer aborts it; when a
  user hangs up, it goes on collecting, takes the default action, and may act on the
  next call. So does the session of a call that another one replaced, and one whose
  abort came while a script ran (`ActsOnItsCall` excepts the sessions whose call a user or a
  session ended or another call replaced, and those a script kept from being aborted;
  `SessionEnds` those on hold).
- A transfer or hangup that a script or a web service answers with is carried out,
  but its result is not heeded: the session goes on (`heeded`).
- With `ivr_timeout = 0` no key is ever collected; a menu key of several characters is
  cut to its first, and which of two colliding ones counts depends on the order of a
  `HashMap` (`parser.rs:17`); a negative number of seconds in a Rhai answer is a
  recording without end.
- `dispatch_event` of the plugin manager has no caller.

Media, streams, logs and conversions

- The receive loop takes the first source for the peer and never asks again, and an
  end packet delayed past the next key is heard as another key (`receiver.rs:320`).
  Any socket error ends the loop (`receiver.rs:366`), where the SIP transport reads on.
- `play_wav` (`rtp/mod.rs`) sends with an SSRC and a sequence of its own over the socket
  whose stream, says the comment on `TxStream`, is the only one.
- A header that is not UTF-8 stays at the head of the stream's buffer and every later
  read fails on it, until the connection is closed; the limit of 64 KiB is an error
  and does not empty the buffer (`tcp.rs:117`).
- The table of login failures makes room by dropping the counts of all addresses that
  are not locked (`web_server.rs:67-70`), which then have all their guesses again
  (`forgotten`); locks are never dropped.
- The syslog sender connects, for up to 2 s, with its lock held (`logger.rs:187`), and a
  facility above 31 overflows the `u8` it is computed in (`logger.rs:147`).
- With two audio sections, a description's port is the last one's and its codecs are
  the first one's; the table of `a=rtpmap` is shared by all sections; and a direction
  at session level is ignored. `TextIsFaithful` speaks of at most one audio section and
  distinct payload numbers.

### Fairness

- `ClientTransaction`: weak fairness of the loop and of the clock. The runtime polls
  a woken task, and time passes. Nothing is assumed of peer or network. On a
  closed stream the poll returns at once and keeps doing so: that iteration is a
  stutter of the model, so weak fairness of the loop stands for the random choice
  by which `select!` does not ignore a Timer F that is due for ever. The run over
  a stream is the harder one for `EveryRequestEnds`; over UDP `BoundedWait` bounds
  the wait in ticks, and ticks go on.
- `CallDialog`: weak fairness of the end of an exchange, which Timer B or F forces;
  strong fairness of the watcher's steps, because tokio's mutex is first come,
  first served: a waiting task gets it although others keep asking.
- `Registration`: the same, with users among those that wait. Two properties
  assume a `GoodRegistrar`, one whose exchanges of a kind succeed again and again if they are tried
  again and again; it may still refuse, lose answers and forget in between.
- `AccountManager`: weak fairness of the request that holds the map's mutex and of a
  reload that waits for it, since every wait in them is bounded, and of the watchers
  of a deactivated client. A borrower may keep a client for ever.
- `IvrSession`: weak fairness of each session's task, but not of the answer of a
  script or a web service: the HTTP client has no timeout.
- `Periphery`: weak fairness of the sending and receiving task of a stream, of the
  cutting and reading of messages, of the clock and the removal tasks. Nothing is
  assumed of users, peers or the network's faults: loss is bounded, not fair.

## Proofs

All theorems hold for every value of the constants that satisfies the `ASSUME` of the
module (`ClientTransactionAssumption`, `CallAssumption`, `IvrAssumption`,
`RegistrationAssumption`, `AccountAssumption`, `FramingAssumption`, `PeersAssumption`,
`ConfigAssumption`, `LoginAssumption`, `LogAssumption`, `RequestAssumption`,
`MediaAssumption`): sets are disjoint where names are, bounds are natural numbers, a
buffer has room for one entry, `Poll < T1 <= T2`, a menu has actions for keys. Each
proof module has one inductive invariant, one lemma for each action or kind of action
that preserves it, and the theorems that follow.

| Module | Theorem | States |
|---|---|---|
| `ClientTransactionProofs` | `TypeCorrect`, `WaitIsBounded` | `TypeOK`, `BoundedWait` |
| | `DemultiplexingCorrect`, `FailuresAreAcked`, `CSeqsAreFresh`, `TableIsSwept` | `AnswersMatch`, `FailureAcked`, `FreshCSeqs`, `NoStaleKeys` |
| | `InviteFallsSilent`, `Refinement` | `QuietAfterProvisional`, `ImplementsRequestResponse` |
| `CallDialogProofs` | `TypeCorrect`, `CallsEndWholly` | `TypeOK`, `NothingOutlivesItsCall` |
| | `CallsThatEndedStayEnded`, `RefreshesKeepHold` | `OverStaysOver`, `RefreshKeepsHold` |
| | `TracesAreOfTheCall`, `HoldsEndWithTheirCall`, `Refinement`, under `SimpleUse` | `TracesFollowTheCall`, `HoldEndsWithItsCall`, `ImplementsPhoneLine` |
| `RegistrationProofs` | `TypeCorrect` | `TypeOK` |
| `AccountManagerProofs` | `AccountsAreConsistent` | `Consistent` |
| `IvrSessionProofs` | `SessionsKeepToTheirCalls`, `TransferEndsTheSession` | `SessionInv`, `TransferIsLast` |
| `ConfigFileProofs` | `FileStaysWhole` | `FileIsWhole` |
| `UdpPeersProofs` | `TrustIsKept` | `TrustIsEarned` |
| `PeripheryProofs` | `LoginsAreLimited`, `LinesAreKeptAndSentOnce`, `RepetitionsFindAnswers` | `LoginIsLimited`, `LogIsFaithful`, `RepetitionsAreAnswered` |
| | `OneSourceIsHeard`, `KeysAreHeardInOrder` | `OnlyItsPeersKeys`, `ImplementsDigitLine` |
| | `MessagesAreCutAsWritten` | `FramingIsFaithful` |

`ClientTransactionProofs`. The inductive invariant `IInv` adds to the types what the
properties do not say themselves: an answer on its way or in the channel was decided by
its peer (so `AnswersMatch` survives the step that takes it), the channel holds answers
to the running transaction only, a peer hears only what was submitted, and a clock moves
past the poll or the lifetime only while something is late, which bounds `elapsed`. A
second layer, `Books`, is about what a transaction leaves behind: its key, its ACK and
its numbers. `FreshCSeqs` is inductive only with `Drawn`: every CSeq in use but a
CANCEL's was drawn from the counter, so that the next one is new among them, and two
PRACKs of one INVITE have different numbers though they share a transaction.
`Refinement` maps `status` and `decision` and shows each step to be one of
`RequestResponse` or a stutter.

`CallDialogProofs`. The first part holds for any account and any user. `IInv` is
the types, that an operation under way has a call, and `OpOwnsItsCall`; the step of
each action under the mutex either leaves `op` free or finds it free. The second
part assumes `SimpleUse` (no auto-answer, one call at a time) and adds `LineInv`:
while an INVITE is under way there is no call, and the watcher is never on its way
to answer. Both are needed: without them a call is set up beside another one, and
the old receiver and record are orphaned. `PeerInv` adds that the URI is that of the
callee while an INVITE is under way. `HoldsEndWithTheirCall` adds that nothing is held
without a call (`HoldNeedsACall`): by `CallIsKept` a call then comes up only after the last
one was cleared, and its hold with it.

The third part is again about any account and any user, and its invariant, `OfferInv`,
says that a call which is not in `again` is offered once: a call that was not placed
has left no trace, an INVITE in the queue is the first that is heard of its call,
what the watcher is about to ring or to answer is offered by nobody else, and while it
works on a CANCEL nothing rings. Each part is needed. Without the second an INVITE
could open the record of a call that is over; without the last a call could ring with
the record that `TerminateInvite` closes. Of the calls in `again` it keeps that they have
a record wherever they are. `OverStaysOver` follows in two steps: the call that comes
up was on offer (`NewCallIsOpen`), and a record is written only to close it or to move
on a call that is on offer (`RecordsMove`). It holds with auto-answer too: a call may be
replaced, but not by one that is over and whose INVITE came once. The refinement of
`PhoneLine` takes `LineInv` and `OfferInv` together; the step that makes a record of an
ended call in `again` an open one is `Reopen`.

`RegistrationProofs`. `TypeOK` is inductive in three independent parts. The one that
says something of the protocol is `Mutex`: the watcher is at one of its two waits
exactly while the exchange under way is its own, so that it never takes the end of a
user's exchange for its own.

`AccountManagerProofs`. `IInv` has one part per kind of agreement: the request at work
(`OpOK`), map against clients (`MapOK`), the service that is down (`DownOK`), request
against map (`OpMapOK`) and, unless a save overlapped (`Settled`), request against
file (`LoadedOK`) and map against file (`RunningOK`, with `Kept` for what may run in
the middle of an edit or a reload). A reload is the hard case: between stopping and
clearing, the map still names clients that `NoStrays` must not miss (`StoppedOK`).

`IvrSessionProofs`. `SessionsKeepToTheirCalls` is about any number of calls and any
menu, and for calls that replace one another. A session belongs to the call that is up,
and then its handle is the watcher's, or it is lost already (`Attached`): this is what
lets a BYE reach the right session. The sessions no BYE reaches are those that
`ActsOnItsCall` excepts. Each action of a session is a `SessionStep`
(`ActionsAreSteps`), and one lemma (`StepKeeps`) shows what such steps preserve.
`TransferEndsTheSession` needs `Transferred`, that a session which sent the transfer it
was to end with is done.

`ConfigFileProofs`. `FileStaysWhole` is about any number of savers, saves and crashes.
While no two saves have overlapped at most one saver is at work, and the sibling
holds what its step implies (`HasWritten`): the last conjunct, synced and whole
before the rename, is what a crash cannot take away (`Kept`). The file that the
directory still names is whole and synced as well and not older than `settled`, so
that a rename undone leaves one of the versions between.

`UdpPeersProofs`. `TrustIsKept` is about any number of hosts and any bound. The
learned addresses are distinct (`Distinct`), which makes the length of the list the
number of its addresses (`DistinctCardinality`), so that a full list is one that
really has as many others.

`PeripheryProofs` has an invariant for each part.

- Logins (`LoginInv`): the failures of an address and the requests of it that are
  being compared stay together below the limit and the number of requests. Failures
  alone are not inductive: the requests let in before the lock still count. `Counted`
  says that the table has the guesses of every address it did not forget; this turns the
  bound on what is stored into one on what was guessed.
- Log (`LogInv`): the ring is the end of what was logged (`IsEndOf`), all of it until it is
  full (`RingFollows`), and the lines
  that arrived, are on the wire, or are in the hands of a thread are all different
  (`SentOnce`); a connection that broke has nothing under way, which is what makes
  sending the line again safe.
- Requests (`CacheInv`): a removal task that has `left` to go belongs to an answer that is
  at least Timer J minus `left` old, counted from the first. This is why the first
  answer protects a repetition for all of Timer J, and why a later, final answer has no
  such protection (the failing run `server_tx_cache`).
- Stream: `FramingIsFaithful` is inductive as it stands, since `NothingIsSkipped` says
  where each message that was not received lies. The work is in the lemmas on what a
  concatenation leaves in place (`ConcatFields`, `StreamGrows`) and on the cut: the first
  byte that is not of a keep-alive begins the next message (`FirstIsWhole`), its header
  ends at the first mark of a header's end, which `CHOOSE` finds by the least-number
  principle (`LeastOne`, from well-foundedness of the naturals), and so what is cut off
  is the message (`MessageIsCut`), keep-alives, pieces and later messages regardless.
- Media (`MediaInv`): keys and timestamps tell the same story (`Before`), from the
  key being typed, through the packets on their way, to the last key heard. Then a
  timestamp other than the last is that of a later key, which is all `Accepts` looks at;
  it would not be so if packets overtook each other. The mapping to `DigitLine` hears
  what was pushed, or nothing when another source owns the session; by
  `OnlyItsPeersKeys` what was pushed is then not the user's.

Only model-checked:

- everything under fairness, which is out of the prover's reach: `EveryRequestEnds`,
  `HangupIsNoticed`, `EveryCallerIsAnswered`, `AnswersGo`, `StreamsDeliver`, `Released`,
  `SessionEnds`, `KeysAreTaken`, `WatcherLeaves`, `StaysRegistered`, `EndsUnregistered`;
- what recursive definitions compute, which needs induction over data:
  `SoundIsFaithful`, `TextIsFaithful`.

## Not modelled

- Digest authentication (`sip/auth.rs`): a hash over strings. A challenge with its
  retries is one exchange in the models.
- The building of messages, tags, targets, INFO, MESSAGE and a user's REFER: formatting
  that leaves the state of a dialog alone.
- Opus (a library), the writing of WAV files, recordings, uploads and the audio socket.
- The routes, tokens and tickets of the dashboard and the command server: they lead to
  operations that are modelled as actions.
- Arguments, the IPC client, the rest of `Config::validate`, plugin files, and the
  Windows tray.

## Plan

Done: all components with state of their own that several tasks share, the
conversions a call depends on, and proofs of every safety property that a passing run
checks but for those that need induction over data. A property watches every hazard of
`PROJECT.json` but three, which say what the code does and no text forbids: a BYE that
ends the call after its own, a CANCEL that clears another caller's ringing, and a
refresher that goes on in the next call (Findings). Others are watched in part, and their
notes say in which: a change lost to a PUT, the order of lines at the syslog server, the
calls whose INVITE comes again. What could be added:

1. The account with auto-answer whose users place calls, where `TracesFollowTheCall`,
   `HoldEndsWithItsCall` and `ImplementsPhoneLine` fail: how many receivers and records
   can be orphaned there, should the code come to limit them.
2. A user's REFER and the other requests inside a dialog, should they come to change its
   state.

## How to run

    tlc -workers 2 -config CallDialogManual.cfg MCCallDialog
    tlapm CallDialogProofs.tla

`PROJECT.json` has every run with its module and configuration, the expected
outcome, the mutants, the source lines of each definition, the findings, the
hazards and the theorems.
