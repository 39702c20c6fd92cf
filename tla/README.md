# IR hub: a TLA+ verification project

The IR hub learns the signals of infrared remotes and replays them. A Pico W
records and sends infrared and talks MQTT over Wi-Fi; a Node.js backend keeps
the remotes and automations; a web page drives the backend. This directory
holds TLA+ models of the parts whose behaviour depends on the order of events,
the TLC runs that check them, and TLAPS proofs of their safety properties.

Paths below are relative to the repository (`src/`). Every modelled definition
is tied to its lines in `PROJECT.json` under `map`.

## The system

| Component | State it keeps | Operations | Talks to |
|---|---|---|---|
| IR capture, `firmware/src/ir_capture.cpp` | ring of buffers with a busy flag each, active buffer, capture state, time of the last edge, drop counter, ready queue | edge interrupt, 2 ms alarm, capture task | `g_captureToMqttQueue`, which the network task drains |
| Network task, `firmware/src/mqtt_manager.cpp` | settings in use, candidate, event bits, Wi-Fi and MQTT state, failure counters | load, bring-up, trial (`handle_commit`), `handle_forget`, online loop, waits; lwIP's callbacks | BLE by `notify_commit` / `take_candidate`, broker, flash, IR queues |
| BLE provisioning, `firmware/src/ble_provision.cpp` | settings in use as a client sees them, staged fields, hand-over, status queue | connect, write field, APPLY, FORGET, notify, start, stop | cyw43 task; network task |
| Stored settings, `firmware/src/net_config*.cpp` | one flash sector | load, save, erase, parse, validate | the network task; masks interrupts while it writes |
| IR transmit, `firmware/src/ir_transmit.cpp` | one message | replay | `g_mqttToTransmitQueue` |
| JSON codec, `firmware/src/json_helper.cpp` | none | encode, decode | network task |
| Learn session and remotes API, `backend/server.js` | `learnSession` with its timeout, remotes in `db.json` | arm, cancel, time-out, capture, save layout | pages by HTTP and WebSocket, hub by MQTT |
| Rules and routines, `backend/server.js` | `priceRules` with their `lastTriggeredState`, routines, price cache | evaluate every minute, run, edit | broker (a press awaits its PUBACK), price API |
| Send API, `backend/server.js` | mqtt.js's outgoing store | publish, PUBACK, reconnect | pages; broker |
| Web page, `frontend/app.js` | copies of the lists, selection, dialogs, `state.learning`; the set-up form and the last hub status | dialogs, requests, pushes, reconnection; connect, apply, forget | backend; hub by Web Bluetooth |

### What is hard in it

* Two interrupt handlers and a task share the capture buffers without a lock,
  and a flash save holds the interrupts off for tens of milliseconds.
* Settings are tried before they are stored. Commands arrive over BLE at any
  moment, as bits and one hand-over slot; the trial can be interrupted, its save
  can fail, and power can go in every step of it.
* The page writes the settings field by field, long ones piece by piece, while
  its form can be edited, FORGET clicked and the connection lost; statuses come
  back through a short queue that drops the oldest.
* A button press crosses a broker connection that breaks and a hub that leaves,
  arrives in fragments, and ends in a queue that may be full.
* An HTTP answer and a WebSocket push take different connections and overtake
  each other. Answers come in any order, pages keep copies that nobody
  refreshes, and the id of a remote is made from its name.
* `evaluateRules` awaits presses and routines that take longer than the minute
  after which it is called again, while rules and routines are edited.

What makes each part correct: a buffer has one owner, captures come out whole
and in order, and times are right; the hub can always be reached, keeps only
settings that worked and answers commands; what is tried is what one form held,
and the page ends up with the hub's status; a train is transmitted whole, once
and in order; an arming is answered once and ends; copies agree with what is
stored; a rule fires once for each time its condition becomes true.
`PROJECT.json` lists each hazard with its line and the properties aimed at it.

## Modules

| Module | Models |
|---|---|
| `IRCapture` | the capture path from the interrupts to the network task's queue |
| `CaptureFifo` | what that path promises: a lossy queue that keeps order |
| `IRCaptureProofs` | theorems about `IRCapture`, with the refinement of `CaptureFifo` |
| `NetworkTask` | the network task, the BLE commands, the stored settings |
| `MCNetworkTask` | its constants for TLC |
| `NetworkTaskProofs` | theorems about `NetworkTask` |
| `BleSetup` | setting up the hub over BLE: GATT server, set-up page, and what the network task tells them |
| `MCBleSetup` | its constants for TLC |
| `BleSetupProofs` | theorems about `BleSetup` |
| `LearnSession` | learn session and remotes API, and the pages that use them |
| `LearnSessionProofs` | theorems about `LearnSession` |
| `CommandPath` | a button press from the page to the infrared LED |
| `MCCommandPath` | its constants for TLC |
| `CommandPathProofs` | theorems about `CommandPath` |
| `WebLists` | the lists of remotes, routines and rules: REST API and the page's copies |
| `MCWebLists` | its constants for TLC |
| `WebListsProofs` | theorems about `WebLists` |
| `PriceRules` | price rules and routines |
| `MCPriceRules` | its constants for TLC |
| `PriceRulesProofs` | theorems about `PriceRules` |
| `SequenceFacts` | lemmas about sequences, and about least and greatest elements, that the proofs share |

Operators whose comment begins "Mutant:" are faulty variants of the action that
follows them. No specification uses them; `PROJECT.json` pairs each with a
property that fails once the variant takes the action's place.

### IRCapture

The handlers have one interrupt priority and do not preempt each other, so each
is one action: `Edge` (`DropEdge`, `StartCapture`, `RefuseCapture`, `Glitch`,
`RecordEdge`, the branches of `gpio_edge_isr`) and `Alarm` (`NothingToEnd`,
`EndDrop`, `EndEmpty`, `HandOver`, those of `idle_timeout_cb`). The task can be
preempted anywhere; it is cut wherever it touches shared state, from
`TaskReceive` to `TaskResend`. `NetReceive` is the network task taking a capture
in `run_online`. `Mask`, `MaskedEdge` and `Unmask` are a flash save: edges in it
merge into one pending interrupt. The field `hit` marks a capture such a
window fell into.

Time is counted in ticks and the thresholds of `config.h` are scaled down,
keeping their order and keeping the longest gap plus the alarm period within
the interval's width (`CaptureConstants`). `since` saturates above that width,
where no comparison distinguishes values. Carrier frequency and log lines are
left out.

### NetworkTask

The task is a program counter cut at each wait, at each locked call and at each
read of what a callback writes. `WriteApply` and `WriteForget` are the BLE
control writes, which run on the cyw43 task. `events` is the task's own copy of
its bits, `notif` what has been notified and not merged into it. The MQTT
callbacks, link drops, flash failures and power cuts are actions of the
environment. A network or broker may or may not answer: success and failure are
both always possible. `proven` and `lastCmd` are ghosts, for the settings with
which Wi-Fi and MQTT were both up, and for the last command written.
The elapsed time of `run_online` has the three values the code tells apart.

Single fields, prepared writes and status notifications are `BleSetup`'s, the
reception of commands is `CommandPath`'s. The publishing of captures is not
modelled.

### BleSetup

BTstack's callbacks run one at a time on the cyw43 task and the network task's
calls take the lock they hold, so each is one action. `Connect`, `Disconnect`
and `Stop` are the ends of a connection at both sides. `WriteField` is one GATT
write with its answer: `WritePlain`, or a `Prepare` for each piece and an
`Execute`. The page reads a field when its turn comes (`At`), and `EditForm` may
come in between. `WriteApply` validates what is staged and hands it over;
`WriteForget` may come at any time. `Push`, `CanSendNow` and `Receive` are a
status on its way: into `s_notify_q`, out of it with one send event each, and to
`onProvStatus`. The network task appears as the reports it makes and the
hand-overs it takes (`Progress` to `StartBle`); `NetworkTask` has the rest of it.

A text is a sequence of pieces, each as long as a plain write may be, so that
`Cap` pieces are `field_cap`. The field `host` stands for broker address and
port, which are written alike. Ghosts: `own` has what a client was given and
wrote, `noted` and `overflow` say whether a failure was shown, or excused.

### LearnSession

`ServeArm`, `RefuseArm`, `ServeCancel`, `ServeLayout`, `ServeLoad`, `Timeout`
and `OnLearned` are the backend's handlers, each run to its end by the event
loop. `Restart` loses the session, its timer and the connections but not
`db.json`. The page's actions are its click handlers up to the first `await`
and the continuations after it (`ArmAnswered`, `CancelAnswered`,
`LayoutAnswered`, `Loaded`), `onLearnResult` (`IgnoreResult`, `TakeResult`) and
the loss of its WebSocket. Signals are numbered by the key press they come from
and one remote stands for all.

### CommandPath

`Tap` and `Serve` are `handleButtonTap` and `/api/send`. mqtt.js and the broker
are external: `Send` puts a message of the outgoing store on the connection,
`Accept` is the broker's, `PubAck` removes it from the store and answers the
request; `Reconnect` sends all of the store again. `HubLeaves` drops what was on
its way, for the hub's session is clean. `IncomingPublish` and `IncomingData`
are the callbacks with the decoder and its refusals (`Decoded`, `Transmissible`,
`Fits`), for every way to cut the payload. `TakeCommand` and `Transmit` are the
task. A payload is a head and one entry for each pulse; cuts inside a number are
not distinguished, since the fragments are joined before they are parsed.

### WebLists

An entry is its id, its name and the rest of it. A click appends a request, the
server serves any request under way, and answers come in in any order or not at
all; the page changes its copy only then, as the code does: `Object.assign` on
the object that was clicked (`tag`), or on the first with the id, a replacement
of the whole list (boot), or a filter (deletion). `Other` is another page. The
ghost `tangled` names the entries about which a page without refresh cannot be
right: changed by others, the subject of two of its requests at once, or of a
lost answer; a new remote that got the id of another; and an entry with the empty
id, which a save stores under a new one, so that both ids are named.
`CopiesAgree` says that it is right about all others.

### PriceRules

Each stretch of code between two awaits is one action. An evaluation walks the
live array by index with the price it read at its beginning, which is what the
code does; a routine is walked the same way, and after its deletion in the
object that is no longer stored (`live`). `Evaluations` bounds how many run
at once, since `setInterval` does not wait for the one before, and `HandRuns`
the routines started from the page. The ghost `seenOff` holds the rules that may
fire: their condition was seen off, or changed, since they last fired.
`disturbed` holds those since whose firing evaluations overlapped or the process
ended, the two ways in which the code fires a rule again.

## Runs

| Run | Result | Question |
|---|---|---|
| `capture_handoff` | passes | `OneOwner`, `HandoverHasRoom`, `ResendHasRoom`, `DropOnlyWhenFull`, the refinement `KeepsOrder`, and `BuffersComeBack` |
| `capture_timebase` | passes | `Timebase`, `FramesMatchGaps`, `IntervalsFit`, with glitches, gaps, truncation and a flash save |
| `network` | passes | `NeverLockedOut`, `OnlyProvenSettings`, `BridgesOnActive`, `TrialIsOver`, `BleOnlyInTrouble`, `CommandsGetThrough`, `BleGoesOff` |
| `ble_setup` | passes | `StagedIsOwn`, `LatestArrives`, `ReasonArrives`, `HandoffIsForm` |
| `learn_session` | passes | `TimerIsTheSessions`, `OneResultPerArm`, `SessionsEnd`, `LearnedStaysLearned` |
| `command_path` | passes | `WholeTrains`, `OnceInOrder`, `SentReachedBroker`, `TapsAnswered` |
| `web_ui` | passes | `UniqueIds`, `CopiesAgree` |
| `rules` | passes | `RefiresOnlyIfDisturbed`, `RulesSettle`, `RunsEnd` |
| `network_forget_undone` | violated | `ForgetSticks` |
| `ble_blank_password` | violated | `BlankKeepsCurrent` |
| `rules_refire` | violated | `FiresOncePerEdge` |
| `web_slug` | violated | `CreateKeepsOthers` |

Every passing run also checks the `TypeOK` of its module but `capture_timebase`,
whose module has it checked in `capture_handoff`.

Deadlock is checked except where the system may stop: when nobody clicks or
presses a key any more (`learn_session`, `command_path`, `web_ui`, `ble_setup`),
and in `rules`, where the bounded prices and outages run out while no evaluation
has anything to do.

### Bounds and why they suffice

* `capture_handoff` has the two buffers of `config.h`, an outgoing queue of one
  and three transmissions: enough for one buffer with the task, one queued and a
  third transmission refused, and for the eviction from a full queue. With more
  captures nothing new meets. There is room for one interval, so a capture
  of three edges is truncated.
* `capture_timebase` follows one capture of up to three intervals (spike, mark,
  gap, truncation) and one flash save that may begin and end anywhere in it.
* `network` has two networks so that a candidate differs from the settings in
  use, limits of one and two so that both a first failure and a repeated one end
  a trial, two commands so that one can interrupt the other, one client, one
  power cut, and failing flash writes. It starts with an empty sector, so the
  first trial has nothing to fall back on and the second has.
* `learn_session` has two pages and one button: what interferes is two armings,
  a capture, an edit and one failure (a reload, a lost socket or a restart).
* `ble_setup` has two connections, so that something may be left over from the
  first; two applies, so that the second builds on the first; texts of none, one,
  two and three pieces, three being `field_cap`, so that plain and prepared writes
  mix and a longer text than the one before is overwritten by a shorter. Three
  forms: with a long and a short password, and with none. One edit and one FORGET
  can fall between any two writes. The notification queue has two places (four in
  the code), so that it overflows. It starts from stored settings.
* `command_path` has trains of one pulse, as many as the hub holds, one more, more
  than its buffer, and a clipped capture, in fragments of one or two entries; two
  presses; a transmit queue of one; one break of each connection and one change of
  the signal between the presses.
* `web_ui` has two remotes, one of them with the empty id, one rule and no
  routine; two names, one of which makes the empty id; two clicks and two requests
  at once, so that any two requests, boot's included, can overtake each other; one
  foreign change and one loss.
* `rules` has two rules so that the array can shift under an evaluation, a routine
  with delays and one whose first press fails, two evaluations that overlap, a
  routine started by hand, two price changes, two edits and one outage or restart.
  `rules_refire` needs one rule and a slow routine.

### Fairness

* `IRCapture!FairSpec`: the task runs, a save ends, a pending interrupt is
  served. `NetReceive` has no fairness: `BuffersComeBack` holds with a
  network task that never drains its queue, because the task's send times out.
* `NetworkTask!FairSpec`: the task runs, the join and connect timeouts expire and
  the clock of `run_online` advances. Networks, brokers and BLE clients owe
  nothing: `BleGoesOff` holds even if the client never leaves.
* `LearnSession!FairSpec`: only the backend's `setTimeout` is fair.
* `BleSetup!FairSpec`: a requested send event comes and what was sent is received
  as long as the connection lasts. `LatestArrives` needs no more: neither that the
  user does anything nor that the network task goes on.
* `CommandPath!FairSpec`: the event loop serves, mqtt.js connects again
  (`reconnectPeriod`) and sends, the broker answers. The hub owes nothing.
* `PriceRules!FairSpec`: `setInterval`, delays and PUBACKs happen and the MQTT
  client reconnects, which its `reconnectPeriod` provides.

## Disagreements found

* `network_forget_undone`: an APPLY that is still pending when FORGET is written
  is handled after it, because the task tests the FORGET bit first. The forgotten
  hub tries and stores those settings.
* `ble_blank_password`: `s_staged` keeps a password that was written, also after
  its trial failed and the hub reverted. Applying again with the password left
  blank, to correct the broker say, tries the failed password.
* `rules_refire`: `lastTriggeredState` is written after the awaited action, so
  a slow routine fires again at the next evaluation.
* `web_slug`: a new remote whose name makes the id of another, or whose name has
  no Latin letters or digits where another has none either, replaces that one and
  drops its buttons.

More that the models show and no run is kept for:

* `firmware/include/config.h:41` sets two capture buffers. `README.md:84` says
  four, and `firmware/test/test_capture.cpp:202` expects three frames that
  complete before the task runs all to be kept (`RefuseCapture`).
* `s_current`, "the settings in use" (`ble_provision.cpp:42`), is not renewed
  when a trial is adopted; a client that connects then starts from older settings.
* `README.md:127` says that BLE comes on after three failed joins in a row;
  `wifi_fails` is cleared only when Wi-Fi and broker are both up.
* A flash save does not lose the capture it falls into, as `net_config.h:61-62`
  says, but delivers it distorted and unmarked.
* A page sets `state.learning` when its arming is answered. A result pushed
  earlier is dropped as stale, and the page waits on.
* A page that posts an older copy of a remote puts an older signal back.
* A rule behind a slow action fires on the price at which the evaluation began.
* A remote with the empty id cannot be deleted (the path of the request has no
  id), and renaming it makes another remote.
* Editing the set-up form while an apply is under way applies a mixture.

## Proofs

TLC checks the instances above. The theorems hold for every value of the
constants the named assumptions admit. Each invariant and action property of a
passing run, and the refinement, is the statement of one; `PROJECT.json` pairs
them. The inductive invariants were checked by TLC before they were proved.

**Capture** (from `CaptureConstants`). `TypeCorrect` is inductive as it stands.
`BuffersHaveOneOwner` proves `OneOwner`, which is inductive together with the
types: its conjuncts tie the busy flags to the ready queue and the task, and
`FindFreeFindsFree` shows what `find_free_buf` returns. `QueueFullIsUnreachable`
counts: the ready queue holds distinct busy buffers, none of them the active
one, so it is shorter than the ring. `DropsOnlyWhenFull` is the action property
from the same lemma. `ResendNeverFails` strengthens with the bound on the
outgoing queue (`QueueInv`). `IntervalsAreNeverClipped` needs `WidthInv`, which
relates the time since the last edge to the time of the next alarm: the alarm
ends a capture before an interval could outgrow its width.

`FrameCountsMatch` needs that the frame counter does not saturate. It counts
intervals of a buffer, which has room for fewer than its width holds
(`CaptureConstants`). `RecordingsKeepTime` proves `Timebase`, that the intervals
add up to the time that passed, from the step from a sequence's sum to that of
the sequence with one interval more. `SumOf` is a recursive function; that its
equation holds at every length (`SumsExist`) and that two such sums of sequences
which agree are equal (`SumsAgree`) is proved by a least counterexample, since the
induction theorems cannot be instantiated. `CaptureIsFifo` is the refinement of
`CaptureFifo`: each step adds one capture at the end of those that wait, takes the
oldest away, or leaves them alone (`StepWaiting`). `CopyInv` says that what the
task has copied is what its buffer holds.

**Network task** (from `NetworkConstants`). The inductive invariant `Control` is
the conjunction of the four checked properties with two facts about program
points: `HasTarget` (the settings a step works on exist, those being saved are
the proven candidate) and `TalksToTarget` (from `mqtt_start` on, the client
speaks with the target's broker). Without `TalksToTarget` nothing says whose
broker `Adopt` found working; without `HasTarget` a trial could fall through with
no settings. From it follow `HubIsNeverLockedOut`, `OnlyProvenSettingsAreKept`,
`OnlineMeansActive` and `NoCandidateOutlivesItsTrial`. `TypeCorrect` needs
`HasTarget`, since a join reads the network of its target.
`RadioComesOnInTrouble` is the action property `BleOnlyInTrouble`, by the actions
that switch BLE on.

**Learn session** (from `LearnConstants`). `SessionInv` is `TimerIsTheSessions`
and `OneResultPerArm` with `Fresh`, which says that armings still to come have no
result and that the session is none of them; without it an arming could open a
session that was already answered. `AnswerKeeps` (a result closes the session)
and `CloseKeeps` (anything else closes it or leaves it alone) carry every step.
`NoTimeoutOutlivesItsSession` and `ArmingsAreAnsweredOnce` follow, with the types
(`TypeCorrect`), for any number of pages, buttons, armings and restarts.
`SignalsAreNotWipedOut` is `LearnedStaysLearned`: what a capture stores is a
signal (`CapturesReal`), and a page's older layout is merged with what is stored.

**Command path** (from `PathConstants`). `TypeCorrect` holds together with
`LinkInv`: the store is ordered, and what is on the connection is a part of its
beginning, acknowledgements first. `ReportInv` adds that a message the broker does
not have still waits at the one request that published it, and that a PUBACK on
its way is for a message the broker has. `WhatIsReportedReachedBroker` follows.
`CommandsKeepTheirOrder` needs the order at every stage between broker and LED
(`OrderInv`, from `AcceptedInv` to `ComingInv`) and `FreshInv`: what the broker
gets next comes after all it got, or was sent before the connection broke and is
a repetition. `OnlyWholeTrainsAreSent` follows a payload through its fragments
(`RxInv`): what is received is the beginning of one payload (`Complete`), or a
fragment was skipped and the buffer already holds more than may be sent
(`TooLong`).
The second is why `PathConstants` wants a buffer larger than the longest train
and one fragment. In the code that is 8192 bytes against 800 pulses of at most
six bytes and a TCP segment of 1460.

**BLE set-up** (from `SetupConstants`). `TypeCorrect` and `StagedIsTheClients`
hold with `PrepInv`: a prepared write holds the first pieces of the value under
way and nothing else. Without it `Execute` could stage what an earlier client
left. `WhatIsTriedIsTheForm` needs `FormInv`, that the fields already written are
staged as the form has them while nobody types. `FailureComesBeforeRevert` speaks
of what a client has yet to hear, the statuses in the air followed by those in
the queue (`Heard`). A revert among them has a failure before it, or one was
noted, unless the queue overflowed (`ReasonInv`). `LinkInv` has what a client that
subscribes later is told: never a revert while a failure is unreported.

**Price rules** (from `RuleConstants`). `RulesRefireOnlyIfDisturbed` holds with
`WalkInv` (what an evaluation under way carries) and `SeenInv`: a rule is off for
the current price, or for the price an evaluation under way has read, only if it
may fire, and one that may not is marked as triggered or its action is awaited at
this moment. The last case is the gap between firing and writing
`lastTriggeredState`. The model's rules have one id each (`OwnIds`).

**Web lists** (from `ListConstants`). `IdsStayUnique` and `TypeCorrect` follow
from the parts about db.json, lists and requests. The types need `CountInv`: uuids
made and those that requests will still make are no more than the clicks.
`CopiesStayRight` proves `CopiesAgree`, which speaks of the copy once every answer
about an entry has come, and so is not inductive. `CopyInv` says what stands on
the way there: an answer is what is stored, a list that boot asked for is as
stored but for what is tangled (`LoadsFit`), the object a click was about still
has the id it was asked with (`ClicksFit`). With it go `OneGet` and `Ahead` (boot
has one question at a time, for a list it has not loaded), `Apart` (two requests
about an entry that is not tangled are never under way together) and `Moved` (a
save of the empty id tangles the old id and the new).

Only model-checked: liveness (`BuffersComeBack`, `CommandsGetThrough`,
`BleGoesOff`, `LatestArrives`, `SessionsEnd`, `TapsAnswered`, `RulesSettle`,
`RunsEnd`), which is out of the prover's reach with fairness and ENABLED. The
four properties of the runs that find a violation are false.

## Not modelled

* The bytes of the flash record, JSON text, log output and what pages display.
* The publishing of captures by the network task, and the encoder.
* Pairing and advertising; the download of prices (only that they change).
* What the forms of the routine and rule dialogs hold before they are saved, and
  the status pushes, which only colour a dot.
* FreeRTOS, lwIP, cyw43, BTstack, mqtt.js and the broker are represented by the
  effects the code relies on: queues, callbacks, sessions and link state.

## Plan

1. `CaptureUplink`: `IRCapture` composed with the online loop of `NetworkTask`,
   so that captures of an outage are followed to the broker.
2. `ConfigRecord`: serialising, parsing, validation and its limits as pure
   operators against a reference definition.
3. Proofs: every invariant and action property of the passing runs is a theorem.
   What is left are the theorems about the modules of items 1 and 2.
