# Verification of Hannah

TLA+ models of Hannah, a self-hosted voice assistant: the *Core* (Python), the
satellite *proxy* (Go), microphones and loudspeakers in the rooms (ESP32 and
Raspberry Pi *satellites*), *adapters* for ioBroker, Telegram, timers and logs
that hold gRPC streams to the Core, and a few helpers. The models follow the
source; `PROJECT.json` maps every definition to the lines it stands for, names
the runs, the mutants that show each property can fail, the hazards and the
theorems. Paths below are relative to `src/`.

    tlc -config ProxyLink.cfg ProxyLink          # one run
    tlapm ProxyLinkProofs.tla                    # one proof module

## 1. The system

### Parts, state and operations

| Part | Source | State it keeps | Operations |
|---|---|---|---|
| Proxy registration | `core/hannah/grpc_server.py`, `proxy/internal/hannah/client.go`, `proxy/cmd/proxy/main.go` | `_proxy_queues`, the revert timer, whether the Core's UDP server runs, the retained discovery address | RegisterProxy, ACK, heartbeat, revert after a grace period, reconnect |
| Satellite map | the same, `core/main.py`, `core/hannah/udp_server.py` | `_proxy_satellites`, `_known_satellites`, what the ioBroker adapter was told | NotifySatelliteRegistered / Gone, SubmitSatelliteAudio, snapshots, the restatement on each heartbeat |
| UDP server of the proxy | `proxy/internal/udp/server.go` | satellites and their addresses, audio sessions, one queue and worker per device | receive, register, heartbeat, audio, audio_end, watchdog, Start, Close |
| UDP server of the Core | `core/hannah/udp_server.py` | the same without queues | start, stop, one receive thread, heartbeat check |
| Play dispatcher | `proxy/internal/hannah/dispatcher.go`, `server.go` SendTTS | one queue and worker per device per stream | dispatch, stop, paced sending |
| Alarms | `core/hannah/alarms.py` | a row per alarm, a `threading.Timer` per enabled row, ringing satellites and their volumes | create, update, skip, delete, fire, ring, stop, boot |
| Account linking | `core/hannah/link_tokens.py`, `grpc_server.py`, `user_manager.py`, `models/user.py` | codes, rows of users and linked accounts, a user cache, the registry of channel adapters | CreateLinkToken, ChannelConnect, redeem, LinkAccount, UnlinkAccount, delete_user |
| Component tracker | `core/hannah/component_registry.py` | entries with their last sign of life and open streams | seen, stream_opened / closed, expiry, eviction |
| Presence fusion | `presence_manager.py`, `ble_location.py`, `residents_manager.py` | per user: sightings, states of sources, the last decision | state update, sighting, tick, apply |
| Trigger engine | `trigger_engine.py` | triggers, cooldowns, delay timers, a cache of states on disk | state update, phrase, time tick, delayed fire, reconcile |
| Voice pipeline | `core/main.py`, `mqtt_handler.py`, `voice_enrollment.py` | busy satellites, pending questions, waiters for playback_done | dispatch audio, answer, reopen the microphone |
| Adapter streams | `grpc_server.py` AgentConnect, AutomationConnect, TimerConnect, LogCollectorConnect, CollectorConnect | one queue per stream, pending requests | connect, displace, request, answer, timeout |
| Conversation | `conversation.py` | one context per satellite with an expiry | fill, inherit, update, expire and hand over |
| ioBroker control | `iobroker.py`, `device_control.py` | states, waiters for confirmations, deadlines | execute, confirm, time out |
| Provisioning | `satellite_manager.py` | satellite rows, seeds | provision, pair, upsert, clean up |
| Telegram adapter | `telegram/hannah_telegram/grpc_client.py` | pending redeems | reconnect, redeem, time out |
| Satellites | `satellite-pi/satellite.py`, `satellite-esp/` | registration, heartbeat failures, recording and playback | register, heartbeat, record, play, restart |
| Registry and syslog | `component_registry.py`, `syslog_target.py`, `grpc_server.py` | endpoints, subscribers' queues, the fallback, a debounce timer | register, rename, unregister, subscribe, publish |
| Wakeword capture | `grpc_server.py`, `core/main.py` | who captures which satellite, do-not-disturb, sampling mode | claim, stream, release, order |
| Text dialogue | `core/main.py`, `messages.py`, `tool_agent.py` | one open question per source, messages, what is to be said | a sentence, an answer, a message, a tool call |
| House menu | `telegram/hannah_telegram/bot.py`, `device_menu.py` | the keyboards that were drawn | draw, press, set |
| Migrations | `core/hannah/utils/db.py`, `core/deploy/` | schema, settings, routines | start, migrate, re-run |
| Autodeploy | `autodeploy/autodeploy.py` | versions installed | poll, download, verify, install, record, restart |

Text matching (NLU), speech engines, the LLM agent, formatting, settings and
vendored firmware libraries keep no state that actions interleave on.
`PROJECT.json` lists all of them under "components" with the reason.

### How they interact

A satellite sends datagrams to whoever the MQTT discovery topic names: the Core
itself, or a proxy that has registered. The proxy assembles an utterance and
sends it with a unary call; what it shall play comes back in the answer or
over its RegisterProxy stream. The Core decides, talks to adapters over the
streams *they* opened and pushes state changes to them. Nearly every callback
in the Core runs in a thread of its own and nearly every one in the proxy in a
goroutine, so two effects of one cause may arrive in either order. Locks cover
single maps; decisions are commonly taken under a lock and carried out after it.

### What is hard, and what correct means

* **Handover.** A port and a retained address pass between processes that may
  die at any point. Correct: no handover stays half done, a revert never
  starts while a stream is registered, the Core takes satellites back in the
  end, a cut-off proxy stops accepting them.
* **Satellite map.** One-shot calls may fail or overtake each other; full
  snapshots come from unordered threads and two sources. Correct: what the
  adapter shows converges to what the Core has listed, and a satellite that
  works is listed.
* **Audio sessions.** Packets come doubled or not at all, from several ports,
  while satellites restart. Correct: a recording is in order, in one piece,
  handed over once and free of an earlier session's audio; no queue is stuck.
* **Alarms.** A row, a timer and a running `_fire` are changed by threads that
  know nothing of each other. Correct: the timer stands at the row's next
  occurrence, a series never loses its timer, ringing never hangs, a stop
  silences, a failed tone becomes speech.
* **Account linking.** A check and the write that relies on it are separate;
  streams displace each other; codes expire. Correct: a code links its owner
  only, dead codes stay dead, the registry names live streams only.

* **Feeds.** A snapshot is followed by changes that were queued beside it.
  Correct: a subscriber's copy runs through what the original was; an adapter, a
  service, the Timer Service that connects is told everything it has to know.
* **Decisions applied late.** Presence, triggers, captures, brightness: what was
  decided under a lock is carried out after it. Correct: the last word wins in
  the end, a trigger fires once per transition, what ends late ends only its own.
* **Answers.** A confirmation, a playback_done, a redeem's answer, a spoken reply
  may be lost, late, or another's. Correct: whoever waits is told in the end, and
  the truth; no flag or question stays for ever; a reply means what was read.
* **Kills.** The updater, the scripts and the Core's start end anywhere. Correct:
  no row is lost, the newest release ends up installed.

The full list of hazards, each at its line, with the properties that cover it
or the reason why none does, is in `PROJECT.json`.

## 2. Plan

Done, most important behaviour first: the handover between Core and proxy, the
alarms, account linking (a store of codes and the threads that use it), the
satellite map, the proxy's sessions; then the registry and its feed
(an abstract specification and its implementation), presence and location,
triggers, commands and devices, the voice dialogue, the satellite's side, the
clients of the Core, what runs beside it, and the proxy's play queues. Proved:
the handover, account linking, what the proxy records and plays, the rooms, the
services, the clients, the alarms' timers, a tag's place, the registry's feed,
triggers, commands and typed devices (section 5).

Left:

1. The ESP firmware's network, playback and asset tasks.
2. Theorems: the safety parts of properties that are stated with liveness,
   `CountsAgree` (`ComponentTracker`) and `RingingHasThread` (`AlarmRinging`).

## 3. Modules

Each component module declares its constants, variables, actions and properties
and can be read alone. A module `MC...` puts those of one area side by side by
`INSTANCE`; its variable `part` says which of them runs in a behaviour and never
changes, so one run checks several components without multiplying their states.

| Area, run module | Modules |
|---|---|
| Proxy handover, `ProxyLink` itself | `ProxyLink`; proofs in `ProxyLinkProofs` |
| Account linking, `MCAccountLinking` | `LinkTokens` (the store of codes), `AccountLinking` (all that uses it); proofs in `AccountLinkingProofs` |
| Ringing, `MCAlarms` | `AlarmRinging` |
| Satellites on the network, `MCSatellites` | `SatelliteMap`, `ProxySessions`, `PlayDispatch`; the last two's proofs are in the run module |
| Who is there, `MCRegistry` | `LaggingCopy` (abstract feed), `Infrastructure` (implements it), `ComponentTracker`, `Presence`, `BleLocation`; `Infrastructure`'s and `BleLocation`'s proofs are in the run module |
| The house, `MCHome` | `Triggers`, `TriggerConditions`, `DeviceCommands`, `DeviceModel`; proofs in the run module |
| A room and its satellite, `MCRooms` | `Playback`, `Enrollment`, `Conversation`, `SatelliteClient`, `SatelliteVoice`, `Provisioning`, `SatelliteReports`; proofs in `RoomsProofs` |
| Clients, sentences and alarms, `MCClients` | `ChannelStream`, `HouseMenu`, `TextDialogue`, `ToolAgent`, `AlarmSchedule`; proofs in `ClientsProofs` |
| Services beside the Core, `MCServices` | `Autodeploy`, `Migrations`, `Capture`, `AutomationFeed`, `AgentStream`; proofs in `ServicesProofs` |

**ProxyLink.** A `Handler` is one server-side call: `RegisterProxy` is its
locked prologue (grpc_server.py:1298-1307), then `DisableUdp`, `SendAck`, the
drain thread's `DrainHeartbeat` and `PublishProxyAddr`, `StreamEnded`, and the
finally clause `Unregister`, which waits for that thread two seconds at most, so
that an address may be published after it. `AckUndeliverable` is the generator dropped at the
yield before its `try`. A `Reverter` is one `threading.Timer`: `RevertFires`,
`RevertDecide` (under the lock), `RevertEnableUdp`, `RevertDiscovery`,
`RevertSatellites` (after it). On the proxy: `OpenFails`, `StreamLost`,
`OnLost`, and `OnReady`, a goroutine that may run late. `CoreStops` and
`CoreStarts` drop everything in memory; the retained address stays.

**AlarmSchedule.** Each call is split where it lets go of the database or the
lock; `timer[t]` is a Timer thread with its deadline and the row `_fire` read.
`Upcoming` is `_compute_next_fire`, `Schedule` is `_schedule`, `Boot` is
`_load_and_reschedule_all`. Time is in ticks, `DayLen` per day, and a week has
`WeekLen` days; the lookahead is a week and a day, as `range(8)` is. The same
module is checked with calls one at a time (`Overlap = FALSE`) and overlapping.

**AlarmRinging.** A `Thread` is a `_fire` thread that starts ringing, rings the
first round and leaves a loop thread behind: `CheckCapture`, `ChooseLevel`
(locked), `SetRingVolume`, `PlayRound`, `StartLoop`, `LoopCheck`, `WaitEnds`,
`LoopRecheck`. `StopRinging` and `RestoreVolume` are the two halves of
`stop_ringing`. The satellite's own volume, what the Core knows of it, the
user's choice, capture mode and failing tones belong to the state.

**LinkTokens / AccountLinking.** The store has one action per locked method.
`AccountLinking` has `INSTANCE LinkTokens` and lets streams and LinkAccount
calls run through `_link_account` statement by statement, each read, insert and
locked section a step. A stream may register again, for the same service or
another one, which gives up the first. Two histories, `spent` and `contested`,
say which codes have linked an account and which ones two streams had in hand
at once. Which unique key an insert meets, the user cache
apart from the table, displaced streams and the drain thread that outlives its
stream by up to two seconds are in it.

**SatelliteMap.** `regs`, `going`, `ready`, `renotify` are goroutines that have
not finished; every call may fail. Each change of a map spawns a thread with
the snapshot of its moment (`Spawn`), which works in three steps, because
`_on_satellite_change` reads `_known_satellites` twice and sets it last. The
handover is reduced to what this map sees of it (`ProxyConnects`, `ProxyLost`,
`Revert`, `RevertSatellites`).

**ProxySessions.** `Receive` reads one packet and decides where it goes, by
the device a control packet names or by the sender's address; `Enqueue` is the
channel send, which waits for room and with it the loop; `Work` takes a
worker's next packet and handles it whole; `RunGoroutine` is `go s.handle`.
Packets carry the number of their arrival. `CheckTimeouts`, `Close`, `Start`
complete it. Start waits for the old loop's last packet, which the five
seconds between a lost stream and the next attempt cover.

**PlayDispatch.** What is played over RegisterProxy. Each stream has a dispatcher
with a queue and a worker per device, and a goroutine that receives
(`Recv`, `WorkerChan` under the lock, `Send` outside it) and that nobody waits
for. `Play` and `ChunkDone` are a worker's job; `Stop` is stop()'s locked part,
`Stopped` its `wg.Wait`, `Reconnect` the next stream. The answer to an utterance
is sent by a goroutine of its own and shares the satellite's status with the
workers (`Listen` to `Spoken`). A send on a queue that `stop` has closed panics.

**LaggingCopy / Infrastructure / ComponentTracker.** `LaggingCopy` is what a
subscriber of any feed is promised. `Infrastructure` has the registry with its
listeners (`Register`, `StreamEnds`, `DisplacedEnds`: each is one action, for the
listeners run under its lock), the feed (`Subscribe`, `Deliver`) and the syslog
target with its debounce timer, which may be past its wait when it is cancelled
(`TimerElapses`, then `FallbackDue`). `FeedIsFaithful` maps the endpoint table to
the abstract original, the subscriber's view to the copy, and the queue to the
values still on their way. `ComponentTracker` splits a streaming call into the
interceptor's `StreamCall` and the handler's `StreamOpens`, between which the
entry may expire or be evicted.

**Presence / BleLocation.** A fusing thread takes a signal (`StateUpdate`,
`Sighting`, `Tick`), decides under the lock (`Fuse`), and writes after it
(`Apply`, `Write`); a resident's handler reads and writes in two steps. Ages
count up to the grace period. `BleLocation` re-evaluates on each report and on
its timer.

**Triggers / TriggerConditions.** The firing of one trigger, from the state
update over cooldown and delay (`Fire`, `CreateTimer`, `RecordTimer`) to the
timer's event, its withdrawal, and the reconciliation after a reconnect or a
`Restart`. `TriggerConditions` builds every "when" of two conditions, each of
which may name a time, a state and a phrase together and have an `also` and an
`unless`, joins them as `_as_or_list` does and asks the three evaluators
(`FiresAtTime`, `FiresOnUpdate`, `AnswersPhrase`). What the joining loses, a
state condition's own `also` and `unless`, is lost in the model too.

**DeviceCommands / DeviceModel.** A caller registers, writes and, if the write
did not go out, takes back; the stream pops, counts and wakes in three steps;
the sweep collects what is overdue. Devices answer, stay silent, report an
intermediate value or are switched by hand. `DeviceModel` gives each list of
reported states its slots, kinds and class, and follows a cover's percentage to
the wire and back.

**Playback / Enrollment / Conversation.** The busy gate is taken in two steps
(`Check`, `Announce`), and let go by a thread that waits for `PlaybackDone` or a
time-out. Questions, their timers and the utterance that answers are steps.
`Enrollment` is the dialogue that records samples; `Conversation` keeps for each
inherited value the number of the command it comes from.

**SatelliteClient / SatelliteVoice / Provisioning / SatelliteReports.** The
Raspberry Pi's side: discovery, registration with its event, heartbeats, restart
by replacing the process; recording frame by frame; rows, seeds and the one
packet that confirms a pairing; and the MQTT topics, retained or not, through
which brightness, restarts and firmware reach the Core.

**ChannelStream / HouseMenu.** One asyncio loop: every `await` ends an action.
A redeem may be answered, time out or meet the end of its stream. A keyboard is
the list it was drawn from; pressing walks through `CheckTrust`, `FindDevice`,
`Control`, `Reload`, with the list changing in between.

**TextDialogue / ToolAgent.** Every open question of a source (who is meant,
compose a message, play the next one, reply, alarm to confirm, a choice) and
every sentence that may answer it. `Select` and `Delete` are separate because
`consume_all` reads and deletes in two statements. A sentence in smalltalk mode
takes its own path, on which the notice of messages meets whatever question is
open. In `ToolAgent` the model's
answers are any batch of calls, any text or a failure.

**Autodeploy / Migrations.** Every step that a kill may separate from the next:
download, copy (partial, copied), post-install, truncating and writing the state
file, restart; a kill while the updater's own files are unfinished may leave
nothing to start again (`gone`). And statement by statement the schema upgrade and the scripts,
where what SQLite had not committed is lost with the process.

**Capture / AutomationFeed / AgentStream.** `Capture` numbers the queues so that
what ends late can be told from what is in force. `AutomationFeed` has the table,
the shared cache, each thread's way through its filling (`Ask`, `Keep`, `Answers`)
and the queue of each service apart; `contested` holds the automations whose
switches crossed, or that were switched while a thread held an older answer.
`AgentStream` has the ids an adapter is told to watch, with the minute's reload
beside the edits (`undone`: states that a late reload took out of force), the
release of the Timer Service, and the snapshot that fills the device map in place.
That has no lock, so each drain thread loads by itself, also when its stream is
over: `newest` emptied the map last, `beside` is what others had still to fill in
then, and `Torn` is the KeyError of a thread whose map was taken away.

Definitions marked `Fault:` in a comment are the mutants' bodies: a plausible
bug in place of the definition that follows them. No specification uses them.

## 4. Runs

A property that a run names may be a conjunction of several of the component's
own; each is stated and explained in its module.

| Run | Instance | Shows |
|---|---|---|
| `proxy_link` | 1 proxy, 2 overlapping calls, 2 revert timers | `HandoverIsSound` (types, `RevertOnlyWhenNoProxy`, `RevertIsPending`), `UdpComesBack`, `SocketClosedWhenLost` |
| `account_linking` | 2 users, services, codes and accounts; two streams, or one stream and a LinkAccount call | `LinkingIsSound` (types, `CodesAgree`, `RegisteredIsAlive`, `LinksItsOwner`), `SuccessorStays`, `SecondLinkIsContested` |
| `alarms` | two ringing threads and a stopper, a capture, failing tones | `StopSilences`, `KeepsRinging` (`RingingHasThread`, `ResumesAfterCapture`, `BrokenToneIsSpoken`) |
| `satellites` | the map with 1 satellite, 2 snapshot threads, 2 calls; the sessions of 2 devices at 3 addresses, queues of 2, 4 packets; 2 streams with 4 chunks and an answer, queues of 1 | `RecordingsAreSound` (of sessions, and `SpeechIsInOrder` of what is played), `MapsSettle`, `QueuesDrain` (with `PlaysOut`) |
| `registry` | 2 collector streams and a subscriber; 2 component instances with 2 streams; one user with 2 sources; 3 satellites hearing a tag | `FeedIsFaithful` (refinement of `LaggingCopy`, and `RegisteredIsListed`), `SyslogSettles`, `ListSettles`, `PresenceSettles`, `PlaceIsSound` |
| `home` | one delayed trigger; all pairs of conditions over a time, 2 states and a phrase; a satellite and a chat commanding 2 devices; all lists of 3 states | `FiresOnlyOnTransition`, `DelayEnds`, `ConditionsJoin` (`TimeAndState`, `UnknownIsNeutral`, `WatchesWhatItAsks`), `NobodyIsLeftWaiting`, `DevicesAsReported` |
| `rooms` | one announcer, 2 questions, one lost acknowledgement; an enrolment; 4 commands; 2 servers, 2 losses; recordings of 5 frames; 2 devices and a seed; 2 brightness levels, 3 restarts | `OverlaidOnlyAfterRace`, `HeardOtherwise`, `ContextIsCurrent`, `DialogueEnds`, `KeepsInTouch`, `SpeechIsWhole`, `SeedPairsOnce`, `ReportsAreTrue` |
| `clients` | 2 redeems and 2 outages; 3 devices and 4 presses; a chat and a satellite with 2 messages; batches of 2 tool calls; an alarm over four days with skips and calls in turn, or over three with a call that overlaps its firing | `CallsAreAnswered`, `ButtonsMeanIt`, `MessagesStand`, `DeniedIsSaid`, `NeverUnscheduled` (with `TimerMatchesRow` when calls do not overlap) |
| `services` | 2 releases with 2 kills; 2 rows, 3 runs of the scripts; 2 collectors, 3 claims; a service with 2 streams, 2 automations, 3 switches from 2 threads; an adapter and the Timer Service with 3 connects in all, 2 changes, reloads | `InstallsInTheEnd`, `RowsSurvive`, `NewerStands`, `HearsAgain`, `NoGapOnConnect` (`ServiceKnows`, `TriggersAreWatched`, `HouseIsOneSnapshot`, `TimerIsReleased`) |

Three runs find a claim of the repository violated (section 6):
`timer_never_ready`, `led_tug_of_war` and `play_stops`.

### Bounds, and why they are enough

* *Handlers, reverters, timers, threads.* Slots, reused when idle: they bound
  only how many overlap. Two calls and two timers are what a reconnect that
  races an old stream's end needs; a revert that is decided and its successor
  are two timers. Two timers in the overlapping schedule: the one that rings
  and the one a call sets meanwhile. The proofs about `ProxyLink` and
  `AccountLinking` are for every number of them, those about `ProxySessions` and
  `PlayDispatch` for every number of devices, packets and streams.
* *The week* is two days so that a skip can hit the only matching day of the
  lookahead; four days contain two occurrences of every weekday and the day
  past the lookahead. Two ticks make "earlier and later on the same day". The
  overlapping schedule has one tick a day, as only the order of steps matters.
* *A user* turns the volume while no alarm is at work, at most once after the
  last alarm; the levels of alarm and escalation are one value.
* *Satellites.* In `SatelliteMap` one suffices: no action on one satellite
  reads another's entry, and a snapshot's effect on a satellite depends on
  whether it names it. `CheckTimeouts` reports one satellite after the other,
  which only delays. In `ProxySessions` there are two, since address lookup
  compares them.
* *Packets.* Four: a registration, an audio packet, an audio_end and one
  more is the shortest way to a recording and something after it; with queues
  of two, the third packet for a device makes the loop wait.
* *Chunks.* Every second one is the last of its announcement. A full queue of
  one, and two streams, let what is still read of the first meet the second.
* *Streams* of `AccountLinking` are used once: two allow one displacement.
  Codes are drawn at random and never come twice, so two codes let each user
  be given one, or one user a code that replaces another. One user is deleted;
  codes do not expire where a LinkAccount call takes part.
* *The registry* has four entries: two listed instances, each with one that was
  evicted and still has a stream. One handler of a resident's events at a time;
  `MaxSignals = 2` lets an older decision and a newer one cross.
* *Triggers.* Two changes of the state, one time of day, one restart or one loss
  of the Timer Service, never both in one behaviour: after a restart nothing the
  Core remembers refers to the earlier loss. `DelayEnds` is asked where neither
  happened; the answer otherwise is in section 6.
* *Commands.* One command per caller on at most two devices, with either a hand
  on the switch or a lost stream.
* *Questions and acknowledgements.* One loss each: every further one meets the
  same time-out.
* *Messages.* The second one comes while nobody chats with the model and no
  alarm is being set.
* *Counters of history* (`MaxChanges`, `MaxSets`, `MaxClaims`, `MaxPresses`,
  `MaxRuns` and their like) bound how often something from outside happens.
* *A publication* of the proxy's address takes no longer than the grace period of
  a revert, ten seconds (`PublishedInTime`, in the guard of `RevertFires`): a
  drain thread that is still at it when the revert fires puts the proxy's address
  in place after the Core has taken the satellites back, and `RevertIsPending`
  is violated.
* *Loads.* Three connects are a stream whose thread still loads, a second that
  loads beside it, and the Timer Service's, or a third load beside both. Two callers
  cross their switches; the second automation shares the cache with the first.
* Symmetry is used in `account_linking` only.
* `CHECK_DEADLOCK FALSE` stands where a bounded part really stops: the clock
  ends at its last day, the last message was read, the last release installed.

Switches in the configurations select a case the code has and the named
property excludes: `Calm` (nobody acts while a capture or a brightness is being
set), `TornBoots` (the Core killed within one step of
the schema), `AskFails` (a question that cannot be spoken), `Withdrawals` (a
release taken back, which may leave files of two releases), `SendFails` (a
heartbeat's Send notices a lost stream before Recv does). Section 6 says what
the other setting shows.

### Fairness

Weak fairness of a thread's, goroutine's or timer's next step: a running
process schedules them, and every wait in them has a timeout (the ringing wait
ends after `cycle_seconds`, a question's timer fires, the debounce elapses). A
connected proxy sends a heartbeat every ten seconds, RunProxy retries every
five, the transport's keepalive notices a vanished peer. Queue senders and
workers run, each stream's receiving goroutine reads on, the periodic loops tick (fusion, tracker, updater), the Pi's
receiver and its heartbeat thread run and what arrives is handled. Strong
fairness stands in one place: a component instance that lives sends heartbeats
again and again (`Heartbeat`, `Stayers`), which makes the list be looked at.
Nothing obliges a proxy or an adapter to connect, a stream to break, a packet to
arrive, a satellite to speak, a user to answer or to stop an alarm, a process to
crash or start. Where only the losses are bounded (`SatelliteClient`,
`Provisioning`), what is claimed is that the system recovers once they end.

## 5. Proofs

TLAPS proves the following for all values of the constants that satisfy the
modules' assumptions (`ProxyLinkAssumption`, `AccountLinkingAssumption`,
`RoomsAssumption`, `ServicesAssumption`, `ClientsAssumption`, `AlarmsAssumption`,
`ConstantsOK`:
sentinels outside their sets, subsets, numbers that are natural or positive).
Every theorem is about the specification a run checks. Where an area has several
parts, a lemma per part (`VoiceStep`, `RowStep`, ...) shows that a step of the
run is a step of the part or leaves it alone; then the part's invariant is
inductive by itself.

`ProxyLinkProofs`, the handover:

* `NoRevertWhileRegistered`: `RevertOnlyWhenNoProxy` is inductive given the
  types. A stored timer that can still be cancelled means that no queue is
  registered; registering cancels it, and only the last to leave arms one.
* `NeverHalfHandedOver`: `RevertIsPending` is not inductive by itself: one
  also needs that a handler which may still stop UDP or publish its address
  is registered (`ActiveIsRegistered`), or these steps could undo a finished
  revert with no new one to follow. A drain thread may outlive its call by the
  publication it is at; that it is not past the grace period then is the bound
  `PublishedInTime` of `RevertFires`. `IInv` is the conjunction, and
  `HandoverStaysSound` the invariant of the run.

`AccountLinkingProofs`, account linking:

* The store's invariant (`TypeOK`, `StoredWasIssued`, `MapsAgree`): `MapsAgree`
  needs that a code about to be drawn is not stored, hence `StoredWasIssued`. From
  it `StoreMapsAgree`, `StoreOneCodeAtMost`, `StoreDeadStaysDead`.
* `Inv` adds to the types the store's invariant and that a worker past its start
  holds a user, an account and, at its later steps, what it has read (`JobOK`).
  Every step leaves the store alone or is one of its own (`StoreStep`), so the
  store's theorems give `CodesAlwaysAgree` and `CodesStayDead`. `CodeKept` and the
  streams' phases give `LinksOnlyItsOwner`, `RegisteredStaysAlive`,
  `SuccessorIsSpared`. `LinkingStaysSound` is the invariant the run checks, from
  these.
* `SecondLinkAlwaysContested`, what is left of one-time codes when the lookup and
  the consuming are two sections: `OnceInv` says of a code that has linked and is
  not contested that whoever still has it in hand is about to consume it, and that
  it is stored no longer than that (`OnceOK`). So nobody can look it up again
  without its being contested, and after a restart it is in no map.

`MCSatellites`, what a proxy records and plays, `RecordingsAreSoundAlways`:

* Of the sessions, `SessionInv`: in each device's queue, and behind it in the
  receive loop's hand, packets stand in the order of their arrival (`DueInv`).
  Whatever was kept, and each point at which a session began or ended, is older
  than all of that, and nothing kept is still to be handled (`PastInv`). So no
  recording gets a packet twice, out of order or of another recording; the packets
  that go past the queues in goroutines of their own only have the second part.
  An address leads to no other satellite (`FoundIsSender`), since each has an IP
  of its own (`Ip`); with an address translator this is different (section 6).
* Of what is played, `PlayInv`: only the stream that stands has a receiver that
  acts, and workers with something to do (`ReceiverInv`, `WorkerInv`); what was
  sent, what waits in the channel, what the receiver holds and what is on the wire
  are together all the chunks pushed, numbered without a gap (`FlowInv`), hence
  nothing is left behind when the next stream begins. The status follows the chunk
  that is played (`StatusInv`). Hypothesis `~SendFails`: `stop` is called after
  the receiver has read to the end, as otherwise chunks are left out or sent on a
  closed channel.

`RoomsProofs`, a room and its satellite:

* `HeardOtherwiseAlways`: `WaiterIsAsked`, a waiter exists only while the
  dialogue waits. Hypothesis `~AskFails`: with it the waiter really stays.
* `SeedPairsOnceAlways`: a pairing on its way names a row that was renamed or a
  seed that is spent (`SeedsAreSpent`), so that a repeated packet pairs nobody else.
* `OverlaidOnlyAfterRaceAlways`: as long as nobody was between check and closing
  of the gate, and no file plays without it, at most one announcement is past
  the gate (`OneAtTheGate`).
* `ContextIsCurrentAlways`: each value of the context stems from the latest
  command that named it, through expiry, inheritance and history (`ContextInv`).
* `SpeechIsWholeAlways`: the counters of silence, shortest and longest recording
  (`SilenceIsCalm`), a session's packets as one run of one recording
  (`SessionIsTalk`), and the player's queue as whole answers up to the one that is
  still sent (`AnswersAreWhole`).
* `ReportsAreTrueAlways`: the messages on the retained topics, in order, end at
  what the Core will show (`RingFollows`); `HistoryIsTrueAlways` has the part that
  needs no hypothesis, the history of restarts and the notice of an update
  (`ReportsAscend`, `LoggedOnce`, `LastReportIsTrue`). `Calm`: a brightness set
  while a report is under way is what `led_tug_of_war` shows.

`ServicesProofs`, beside the Core:

* `NewerStandsAlways`: `CaptureInv`, whoever holds the claim is whom the ghost
  `rightful` names, and an open line is its collector's.
* `RowsSurviveAlways`: `RowsInv` follows each row of the old settings from where
  it is to where it was committed; `SchemaInv` says which steps of the schema are
  whole at each point of a start. Hypothesis `~TornBoots`: a start that is killed
  within one step does lose messages.
* `NoGapOnConnectAlways`, for any number of streams, threads, switches and reloads.
  For automations `FeedInv`: of an automation that is not contested there is one
  call and no older answer (`Uncontested`), so what the cache, a thread on its way
  to it and the last word in a service's queue say is the table's value, or the
  one call is under way that will make them say so. For adapters `WatchInv`: what
  a reload brings into force was stored by an editor who has still to announce it
  (`RowsRead`), or is undone, and every state in force is watched, or will be by
  somebody on the way (`AllToldOf`). `LoadInv`: what the load that began last has
  not filled in is still to do, and what is there beside it was still to be filled
  in by others (`HouseInv`). `ReleaseInv`: the flag is up before the Timer Service
  is told, and whoever connects later reads it. Hypothesis: `Generations = "v1"`;
  typed adapters are what `timer_never_ready` is about.

`ClientsProofs`, the Core's clients:

* `DeniedIsSaidAlways`: `AgentInv`, every refusal of this turn is among what will
  be spoken, whatever the model answers afterwards.
* `CallsAreAnsweredAlways`: `TruthInv`, an answer on its way is about the code it
  was asked for; `WaitInv`, whoever waits is pending on the stream that stands.
* `ButtonsMeanItAlways`: `ShownInv`, a press that is being carried out names the
  device at its position unless the list has changed since it was drawn.
* `MessagesStandAlways`, the reply and, outside smalltalk mode, the question for a
  message's words: `RightfulInv`, an open question about a reply names the
  sender of what was read last from there, preserved by every kind of sentence.
* `NeverUnscheduledAlways`, one alarm. That a series always has a next time is
  arithmetic: a week of days holds every weekday, and a later day's time is later
  than today's (`DueWithinAWeek`), for days and weeks of any length; the first
  time in the lookahead is the first of all (`FirstIsNext`), since nothing between
  now and it lies outside. The week needs its eighth day: without it the lemma
  fails, as the mutant `LookaheadShort` does in the run. Where calls wait for one
  another, `SerialInv`: one call or one firing is under way, what it has read is
  still the row, and the handle names the timer that waits; so the promise, which
  is suspended meanwhile, holds again whenever it ends. Where they overlap,
  `OverlapInv`: as long as the row has a time to come, some timer waits for it or
  somebody is about to set one (`SeenTo`). Hypothesis: one caller, as in the run.
  With two, the one that created the row may see to its timer last, by the row
  as it was before the other's update, and the update's time is lost.

`MCRegistry`:

* `FeedIsFaithfulAlways`: nothing is queued for a subscriber without a copy, and
  a copy with all that is queued told to it is the registry (`CopyInv`); every
  step is then a step of `LaggingCopy` or leaves the copy alone (`LagStep`).
  That of the deltas about a name one is the last is part of the invariant, so
  no induction over the queue is needed. `ListInv` has the other half: a stream
  that nobody displaced has its entry.
* `PlaceIsSoundAlways` from `PlaceInv`: the ages of reports, and a place that was
  right when it was last evaluated, at most one interval ago.

`MCHome`:

* `FiresOnlyOnTransitionAlways` from `DelayInv`. The reports on their way
  between the agent's cache and the device are a list of any length. A number of
  rises can be given to the cache's value and to each value on the list that
  goes up whenever the value comes on, never exceeds the rises there were, and
  covers at the cache what has fired or will (`Counted`). That such numbers
  exist is the invariant, so nothing has to be counted over the list, which
  would need induction. A restart starts again from the file: it equals the
  cache but for a value still to be saved, which is saved before the trigger
  fires (`SavedInv`), so a restart forgets at most a rise for which nothing has
  fired.
* `ConditionsJoinAlways`, for any list of conditions and any states. A fact about
  the operators: times beside states get the states as their group
  (`ListsJoined`), so a time fires with one of them and, beside a time that names
  none itself, no update fires (`JoinedStands`); what is unknown proves nothing
  (`UnknownProvesNothing`); and two caches that agree on what is watched give the
  same answers (`WatchedIsEnough`).
* `DevicesAsReportedAlways`, for commands and typed devices. A registration that
  stands is for the state the caller waits for, and a silence is said when it is
  over (`CallerTypeStep`, `WaiterStep`, `SilenceStep`). Every state has a slot of
  its own for every list of states: the slots before the next are fewer than the
  numbers that are tried, so one is free (`FreeIdIsFree`), by induction
  over the list. The library's induction theorems take an operator; `Least`, the
  least element of a set of numbers, is derived from its theorem on finite sets
  instead. A cover's mirror twice is none (`CoverSaid`).

The theorems that have a hypothesis name in it a switch of the configurations, or
their number of callers; the run has the same setting, and section 6 says which
step breaks the property without it.

Only model-checked: every liveness property (fairness and ENABLED are out of
the prover's reach), and with them `CountsAgree` of the tracker and
`RingingHasThread` of the alarms, which are stated beside liveness and not
proved yet.

## 6. Where code and claims disagree

Shown by a run, each with its counterexample:

* `timer_never_ready` (main.py:2394): `_iobroker_ready` is set, and TimerReady
  sent, only by the v1 snapshot's handler; an adapter that sends its devices
  typed never gets there, although CHANGELOG.md:2590 has TimerReady follow the
  device snapshot.
* `led_tug_of_war` (main.py:1584): a reported brightness is stored and pushed
  back so "damit Core und Satellit nicht gegeneinander arbeiten" (main.py:1581);
  two values set within one round trip chase each other for ever.
* `play_stops` (dispatcher.go:44): stop() is there "to avoid leaking worker
  goroutines across reconnects" (dispatcher.go:68-70), but with `SendFails` the
  receiver of the lost stream may ask for a queue after stop() has emptied the
  table: it gets a new worker that nobody will close, and `wg.Wait` never returns.

Stated in the modules and violated by TLC as well, without a run of their own.
To see one, name it in the configuration of its area, with the switch given:

| Property | What happens |
|---|---|
| `ReenabledAfterDisconnect` | a call ends before its ACK was sent and its queue stays registered, for the yield stands before the `try` (grpc_server.py:1314) |
| `DisabledWhileConnected` | a proxy registers between a revert's decision and `_enable_udp()` |
| `AckAfterUdpStopped` (two proxies) | the second is ACKed before the first one's handler has stopped UDP |
| `SkipKeepsSeries` | skipping the only weekday finds no other day within eight (alarms.py:199) and the series loses its timer, though :154-155 says it goes on |
| `NeverUnscheduled` (overlapping, two callers) | create, update and skip schedule what they wrote after letting go of it (alarms.py:119, :139, :164): the one that is last sets, or drops, the timer by a row another has changed since |
| `TimerMatchesRow` (overlapping) | `_fire` reschedules the row it read before the announcement over an update |
| `OneLoop`, `VolumeRestored` | a restart within one wait adopts the old loop; the ringing volume may be set after the restored one |
| `NoDuplicateRow`, `DeletedIsForgotten`, `CodeLinksOnce` | check and insert, select and cache, lookup and consume are separate steps |
| `GoneIsShown` | one failed NotifySatelliteGone leaves the satellite listed, and each heartbeat states it online (grpc_server.py:1386-1390) |
| `ArrivalOrder` | audio that arrives while its satellite's registration is queued is handled in goroutines of its own (server.go:298-299) |
| `WorkersKeepOrder` with both satellites behind one address translator | audio of one not yet registered is taken for the other's (server.go:517-523) |
| `NeverStalled` | one goroutine reads for all devices: a full queue stalls the others, although dispatcher.go:38-41 says it does not |
| `SpeechIsInOrder` with `SendFails` | a receiver that goes on after stop() leaves out or panics on what it still reads (dispatcher.go:44) |
| `StreamingIsListed` | an instance whose entry expired has a running stream and is not listed (component_registry.py:201, :113) |
| `FallbackAfterDebounce` | a debounce timer that was cancelled too late publishes at once in the next absence |
| `NothingWaitsWhenAway` | an update reported while the last resident leaves is queued after the queue was released (main.py:2646, CHANGELOG.md:2822) |
| `RecordedExists` | a timer's id is recorded after its event came back (trigger_engine.py:667) |
| `FirstFiringIsFree` | uptime counts as time since the last firing: a trigger that never fired is held back after a start (trigger_engine.py:493) |
| `FeedbackAlwaysComes` | the second command for a slot takes over the first one's registration, and the first is told nothing (iobroker.py:645, :211) |
| `FollowUpMeansLast` | an inherited room may be older than the inherited device (conversation.py:95) |
| `KeepsItsName` | registration upserts a row under the device's own id, the rename meets it, and the name given in advance is gone (grpc_server.py:1484) |
| `OutageIsTold` | the notice of an outage is sent by asking the Core that is unreachable for its recipients |
| `ButtonsMeanTheirDevice` | a list that changed makes a button switch its neighbour (bot.py:703) |
| `DeployedRuns` | a version is recorded before the restart; a failed restart is never tried again |
| `RoutinesMigrateOnce` | a second run copies every routine under the next number (migrate_routines_to_triggers.py:64-70) |
| `NothingIsLost` of `Migrations` with `TornBoots` | killed between two statements of a step, e.g. after the messages were renamed: they stay in the old table (db.py:350) |
| `QuestionsStand` | the notice of messages replaces a pending choice (main.py:1012) |
| `ConsumedWasRead` | all rows are deleted before the first is read out; the rest hangs on a question that another one replaces or that expires (messages.py:12) |
| `LightBurns` | a message that arrives between the select and the switching off of the light stays dark |
| `SwitchedIsNotAFailure` | the model fails after a device was switched, and the answer is the fallback |
| `NotSpokenInto`, `QuietWhileCaptured` and `HearsAgain` without `Calm` | modes are set outside the lock: a release between a claim and its modes leaves sampling and do-not-disturb on; checked feedback is spoken into a capture |
| `EveryServiceKnows` | two switches that cross push in the other order, a delta is queued before an older snapshot, or a cache filled late makes a switch without effect (grpc_server.py:1950, models/user.py:116-121) |
| `AllAreWatched` | a reload that is late takes an edit out of force again, and the next one brings it back without telling the adapters (trigger_engine.py:263) |
| `NothingStays` | a thread that still loads an older snapshot fills its devices into the newer map (iobroker.py:289-318) |
| `OwnConditionsCount` | a state condition beside a time loses its own `also` and `unless` (trigger_engine.py:349), though :57-64 gives them to every condition |
| `TimeAlwaysBinds` | a condition that names a time and a state itself fires on the state's update at any time (trigger_engine.py:345, :382-392), though :335 says that a time always binds |
| `NoticeSparesCompose` | in smalltalk mode the notice of messages replaces the open question for a message's words (main.py:1012-1018, :1033-1056): the next sentence is taken for the answer to the notice |
| `InstallsWhereverKilled` | the update of the updater removes and copies autodeploy.py itself (autodeploy.py:185-191): killed there, nothing is left that could start and install |
| `HeardOtherwise` with `AskFails` | a question that raises leaves its waiter, which swallows the utterances that follow (voice_enrollment.py:138) |
| `InstallsInTheEnd` with `Withdrawals` | a release is taken back while its copy failed or was killed: the recorded one is the newest again, and the mixed files stay |
| `NoDeviceBlinks` | the device map is cleared and filled in place while it is read |

Seen while modelling, beside these:

* A list response that crosses a cancel restores a timer that is gone, and the
  event of one timer removes the record of the next.
* Two loads of the device map that overlap may raise a KeyError in the older one
  (iobroker.py:318), which ends its drain thread and with it the stream. A cache of
  automations that is cleared between the two looks at it makes `has_automation`
  raise (models/user.py:116-125): the switch, or the service's registration, fails.
* Alarm speech and tones pass the busy gate without asking it; a question that
  was dropped because the satellite was busy still opens the microphone.
* The back-off of the Pi satellite lives in the process that is replaced, so
  every restart is immediate (satellite.py:467); the event cleared after sending
  may swallow the acknowledgement (satellite.py:415), which costs a restart.
* A crash between the history row and the last count doubles the row.
* A user whose link succeeded may be told to try again, and then that the code
  is invalid: the answer came after the time-out.
* `migrate_cars` leaves a car without owners that was made by hand before.

## 7. What the models leave out

* *ProxyLink.* Commands and audio on the stream. A publication that takes longer
  than the grace period (`PublishedInTime`, section 4). `UdpComesBack` is checked with
  the proxy on another host: a failed bind of the Core is logged and not tried
  again, so a proxy that still holds the port defeats it (`SameHost`). The
  late onReady goroutines are bounded by `MaxAcks`.
* *AlarmSchedule, AlarmRinging.* Changes of the wall clock (the delay is computed
  from naive local times), a crash during ringing, which loses it by design, and
  `on_fire`'s announcement before the first round.
* *AccountLinking.* Trust levels, moods and what a user may do; GetChannels only
  reads. A registration is one step: between giving up the old service and taking
  the new one (grpc_server.py:2045-2052) the stream writes its own fields, and in that moment
  a code asked for is refused and an adapter that registers displaces nobody. A
  drain thread that outlives its stream's two seconds takes up no new message.
* *SatelliteMap.* Pairing and firmware data sent along with a registration
  (`Provisioning` has them); the adapter's own reconnects, on which it is told
  nothing about satellites until the next heartbeat.
* *ProxySessions.* Malformed packets, which change nothing; the callbacks
  after a recording is complete; a watchdog tick takes one satellite at a time.
  A lost audio_end is the case in which the next utterance joins the open
  session: the code has no limit on a session's age, so no property forbids it.
* *Triggers.* One trigger; phrases and what a firing does. A creation of the timer
  that raises; one without a Timer Service is lost, as it is in the code. The wording of times
  and durations is not modelled, nor is a clock that is set back.
* *DeviceCommands.* Values beyond two, and colour; several commands of one caller.
* *SatelliteVoice.* The wake word's scores and resampling: a frame has the wake
  word, sound or silence.
* *Autodeploy.* What of a half replaced updater still starts: it may or may not
  (`Startable`), and if it does it works as it should.
* *AgentStream.* Values of states; the parts of the house (rooms, trust levels,
  the raw cache) that go with the devices. Live updates of a slot during a load.
* *Conversation.* The history that is handed over: that it may hold two
  conversations when an expired one is written to.
* *ChannelStream.* A write to a call that has just ended (grpc_client.py:394).
* *Migrations.* The content of rows: those without a mac or a topic prefix are
  skipped by the script (migrate_settings_to_models.py:58, :83) and go with their
  category.
* *TextDialogue.* What the NLU makes of a sentence is a choice among its results.
* *PlayDispatch.* The audio itself, its pacing and the UDP packets; an
  announcement that a lost stream cuts off leaves its satellite shown as
  "speaking", which `IdleAtRest` therefore leaves out.
* Everything under "not_modelled" in `PROJECT.json`, for the reason given there:
  text matching, speech engines, CRUD without interleaving, formatting and
  conversion between versions, and the ESP firmware, whose network protocol is
  that of `SatelliteClient` and whose tasks run on FreeRTOS primitives.
