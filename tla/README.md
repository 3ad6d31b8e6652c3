# Formal models of the W5000 fan controller

TLA+ specifications of the firmware in this repository, checked with TLC on
small instances and, for the parts named below, proved with TLAPS for every
value of their constants. Paths in this file are relative to the repository.

## 1. The system

An RP2040 board drives two fans by PWM. A DS18B20 sensor gives the
temperature, a rotary encoder and an OLED display are the panel, and MQTT
messages carry settings in and state out, through an Ethernet chip on the SPI
bus. Everything runs as FreeRTOS tasks
over a handful of global objects (`src/main.cpp`), which call each other
directly and share memory without a lock.

| part | state | operations | called by |
|---|---|---|---|
| `FanState` (`src/FanState.cpp`) | switch, day window and mode, speed, night cap, three preset temperatures and speeds, measured temperature, minute, override minutes | setters and getters, `calcSpeed`, `updateClock`, `updateFromJson` | display task, twin task, init task |
| `FanController` (`src/FanController.cpp`) | the PWM level of a pin | `notifyState` | `FanState`, in the task that called its setter |
| `DisplayAgent` (`src/DisplayAgent.cpp`) | queue of knob events, mode, item, edited value, screen number, address and online flag | a task: event, menu, edit, timeout; `shortPress`, `longPress`, `rotate` | its own task; the encoder's task |
| `RotEncAgent` (`src/RotEncAgent.cpp`) | two press flags, phases, count, position | interrupt handler, poll | GPIO interrupt; its own task |
| `init_thread` (`src/main.cpp`) | second counter | start-up, DHCP, SNTP, start of MQTT; every second: is the network there, the daily renewal, `updateClock` every tenth second | its own task, priority 8 |
| `RGBLEDMgr` (`src/RGBLEDMgr.cpp`) | none of its own | MQTT online, offline, send, receive: sets the LED and the display's flag | MQTT task |
| `OledDisplay` | none | draws two strings | display task |
| command pool, agent messages (`port/CoreMQTT-Agent`) | queue of pointers to free commands | initialise, get, release; send and receive a pointer | any MQTT client task; the agent |
| W5x00 port (`port/ioLibrary_Driver/src`) | the critical section of the chip | lock, unlock, SPI bytes, start-up | the Ethernet helper, in any task that uses the network |
| millisecond timer (`port/timer`) | callback pointer | initialise, callback | start-up; timer interrupt |
| twin library, MQTT agent, shadow service | external | `updateFromJson` from the twin task; publishing | the network |

Interactions. A setter of `FanState` ends with `setDirty`, which calls
`FanController::notifyState` in the caller's task: it asks `FanState` for the
current speed and writes the pin. The encoder's task posts to the display's
queue, waiting up to ten ticks; the display takes one event every 100 ms and
calls the setters when an edit is confirmed. The twin task turns one JSON
message into up to eight setter calls. The init task reads clock and sensor,
switches day mode, counts the override down and applies the presets. The init
task and the MQTT observer both set the one LED and both tell the display of the
network. What `setDirty` marks is published by the twin and stored by the shadow
service, which sends that record back after a restart: nothing is kept in flash.

What is hard here:

* tasks are preempted by those of higher priority (`FreeRTOSConfig.h:9`) and not
  time-sliced (`:27`). The priority-8 init task and the MQTT and network tasks
  interrupt a priority-1 task anywhere, and the kernel goes on with the next ready
  task of priority 1, so any of them can follow any other in the middle of a
  setter, a three-byte table copy or a notification (`FanState.cpp:182`, `:240`,
  `FanController.cpp:45-59`);
* the override relates three actors: the panel sets it, the clock counts it,
  and the presets must respect it;
* the clock jumps (SNTP), and the init task misses minutes while the network
  times out;
* the menu is a state machine over mode, item, edited value and screen number,
  moved by events, by its own timeout and by edits left half done;
* an interrupt sets flags that a task tests and clears, and the task blocks
  between samples when the queue is full;
* the network may come and go between any two steps of `init_thread`, which tests
  it, asks for a lease and tests it again, while the MQTT observer sets the same
  LED and display (`main.cpp:284-300`, `RGBLEDMgr.cpp:57-71`);
* the unlock of the Ethernet chip leaves its two sections in the order in which
  the lock entered them (`w5x00_spi.c:127-137`);
* more tasks may want an MQTT command than there are, and a command may end in
  the agent's queue, while it is executed or when the session is lost;
* a restart forgets everything, and the panel and the clock go on with the initial
  state until the shadow's record arrives;
* narrow integers: `uint8_t` narrowing of JSON numbers, a 16-bit PWM level, a
  16-bit override, an `int8_t` item.

What makes each part correct is in section 3, property by property. The
hazards, each at its line, are listed in PROJECT.json.

## 2. Modules

| module | role |
|---|---|
| `FanState` | the object as a record and the operators that change it; no VARIABLES, because the object has no thread |
| `EditItems` | the display's table of items: what an item loads, its range, the calls its confirmation makes; extends `FanState` |
| `FanControl` | composes `FanState` and `FanController` with the three tasks that call them; state machine |
| `FanPin` | `FanControl` with a history variable: has a decision on the speed been overtaken? |
| `DisplayAgent` | the display task and its queue, over `FanState` and `EditItems`; state machine |
| `RotEncAgent` | the encoder's interrupt, task and queue; state machine |
| `Panel` | extends `RotEncAgent` with an instance of `DisplayAgent` over their one queue; shows that each is for the other the environment its module allows |
| `NetStatus` | boot and service loop of `init_thread`, `RGBLEDMgr`, and the display's address, online flag and LED; state machine |
| `Shadow` | `FanState` with the twin, the shadow service, restarts and messages; state machine |
| `CommandLending` | abstract: a command is free, with a client, or with the agent |
| `CommandPool` | the queue of pointers and its users; implements `CommandLending` |
| `WizchipLock` | the two nested critical sections around the Ethernet chip; state machine |
| `MCFanControl`, `MCFanPin`, `MCDisplayAgent`, `MCRotEncAgent`, `MCPanel`, `MCShadow` | the inputs of the runs |
| `FanStateProofs` | lemmas on the operators of `FanState` and `EditItems` |
| `FanControlProofs` | theorems about `FanControl` and `FanPin` |
| `PanelProofs` | theorems about `RotEncAgent` and `Panel` |
| `DisplayAgentProofs`, `ShadowProofs`, `NetStatusProofs`, `CommandPoolProofs`, `WizchipLockProofs` | theorems about the module each is named after |

### FanState

One record field per field of the class. A setter call is a record; `Apply` is
the setter with its range check, `MarksDirty` says whether it ends in
`setDirty`. `CalcSpeed`, `UpdateDay`, `CountMinute`, `ClockUpdate` and
`FromJson` are `calcSpeed`, the parts and the whole of `updateClock`, and
`updateFromJson` (as the sequence of calls the message turns into).
`CurrentSpeed` is split into the decision (`SpeedRule`) and the load
(`SpeedBy`), as `getCurrentSpeed` reads the state twice. `Level` is the
arithmetic of `notifyState` in 16 bits. Bytes and words are `% 256` and
`% 65536` where the code narrows.

Abstractions: the temperature is the floor of the float, which compares with
whole degrees as the float does; an array element is the `int` that the JSON
library's 64-bit number is narrowed to before the range test (`FanState.cpp:588`,
`:616`: 2^32 + 5 is taken for 5), as only that `int` tells; an element outside a byte also stands for
a missing one or one that is not an integer (the code sets `presetsOk` to false
in all three cases; after a missing one it calls `json_getSibling` on a null
pointer, whose outcome is a rejected array, which is modelled, or a fault and a
watchdog reboot, which is the action `Reboot`). The JSON writers change nothing.

### FanControl

`ctx[t]` is what a priority-1 task is doing: the calls still to make and the
phase of the notification (`call`, `decide`, `fetch`, `gate`, `level`). Every
phase is a step, so everything can come between any two. The loads of
`getCurrentSpeed` up to its comparison count as one step. `UpdateClock` is one
step, because no task that touches the object has a higher priority than the
init task. The copy of a preset table is three calls, one per byte. `Confirm`
tests the override when the calls are chosen, `Receive` takes a message after
`StartMqtt`. `Minute`, `Resync` and `Reboot` are the clock, its daily
correction to any time, and power loss or watchdog.

Taken from the use of the external library: `setDirty` calls the attached
observer before it returns, in the same task.

`FanPin` adds one history variable, which no action reads: `overtaken` becomes true
when the object changes under a task that has decided on a speed in `notifyState`
and not yet written it, and false when the speed is next decided on with no other
task inside a notification (an `updateClock`, a reboot, or the first step of a
task's notification).

Other simplifications: `Confirm` is any edit of the constant `Edits` at any
time (`DisplayAgent` restricts which are possible); a message that changes
nothing is not taken.

### DisplayAgent

A pass of the task's loop follows the loop's order: screen number, event, menu,
drawing and edit, timeout, then the delay. It reads the object in one place at most
and is one step (`Show`), unless it confirms an item. Then it is as many steps as it
touches the object: the test that chooses the calls (`Confirm`), each setter call
(`MakeCall`), and the load that opens the second stage, with the end of the pass
(`EndConfirm`). `confirming` and `calls` hold what is left of it. The tasks of the
same priority and `init_thread`, of higher, come between any two: `UpdateClock` is
the whole of `updateClock`, with the minute, the day window, the override and the
presets, at any of `Times` and `Temps`; `TwinCall` is a setter of the twin task.
`Post` is `shortPress`, `longPress` or `rotate`, with the event dropped when the
queue is full. The carousel's screens draw and change nothing.

### RotEncAgent

The knob's position is kept on a ring of `4 * NumTicks` quarter steps. The
poll is cut at every read of a pin, test, clear and call; `wait` is a call
blocked on a full queue, which ends by room or by the drop after ten ticks. The
decoder's variables are read by the poll alone, so one poll decodes in one step.
`moves` bounds the quarter steps from the reading of phase A for one sample to
the end of the next sample. The handler's edges are abstracted to the measured
time of a press, 0 when one interrupt brings both edges. The histories `origin`,
`slow` and `owed` change nothing else.

### Panel

The module extends `RotEncAgent` and instantiates `DisplayAgent` over the same
`queue` (`main.cpp:252` makes the display the listener of the encoder). `Call` is a
send of the poll, which the display sees as a post once the event is in the queue or
dropped; `Pass` takes what the display takes. Each step is written as a step of one
of them with the rest unchanged, so that the other's specification has to accept
it: `PartsImplemented` is the conjunction of the two specifications themselves.
`inputs` counts the quarter steps and presses the user makes, `events` what the
display has been sent; `NoPhantomEvent` relates the two.

### NetStatus

`pc` walks through `main` and `init_thread`. Before the scheduler the steps of
`wizchip_initialize`: initialise, poll the link, check the version, halt. Then the
red LED and the start of the other tasks, first lease, first SNTP, start of MQTT,
and the loop: delay, test, redial, second test,
renewal, resynchronisation, count. `net` and `lease` make up `isJoined`. The
observer's two settings, LED and display, are two steps, as `init_thread` can come
between them. `count` is the number of rounds, wrapped past `Day` onto values of the
same remainder. What is shown is the LED's last steady colour and the text of the
network screen. The address itself is abstracted to whether it is zero. After a
first `dhcpClient` that failed, `hasIP` is either: what `getIPAddress` returns then
is the library's.

### Shadow

The device's `FanState`, the set of dirty parts, the record of the service, and
whether the record has been sent since the last restart. `PanelCall`, `Clock`,
`Message` are the three that change the state, each marking dirty what the code
marks; `Report` publishes the dirty parts with the JSON methods (`ToJson`), `Attach`
sends the record through `updateFromJson`, `Restart` loses everything but the record.
That a message's calls are one step is right here: the twin task that makes them
also publishes. The display's calls set one preset at a time (`CallsAssumption`,
`DisplayAgent.cpp:356-411`); tables come from messages. `updateFromJson` of a record that the device wrote marks parts
dirty again and they are reported once more.

### CommandPool and CommandLending

`Populate` is a round of the loop of `Agent_InitializePool`; a new session calls it
again. `GetCommand`, `Receive` and `Expire` are the call of `Agent_GetCommand`, the
pointer and the end of its block time; `ReleaseCommand` sends the pointer back
without waiting and asserts that it worked. Both calls assert first that the pool
has been filled. `failed` is the assertion that failed; after one nothing runs any
more (`vAssertCalled` disables the interrupts and loops). `main.cpp` starts the
clients before the agent that fills the pool (`:206-221`), so `GetCommand` is
possible from the beginning. The users are external: a client
submits its command or, when the agent's queue is full, gives it back; the agent
executes, completes in any order, and on a lost session ends what is queued. In
`CommandLending` only free and held remain: a command is borrowed, submitted,
withdrawn and given back whole. `LendsWhole` is that specification with `free`
read as the contents of the filled pool.

### WizchipLock

`irq`, `spin`, `saved` and `nesting` are the interrupt mask, the SDK's spin lock
with the mask it saved, and the kernel's nesting count (one for all tasks in the
Cortex-M0 port). A task can be switched out whenever the interrupts are unmasked,
also between the two halves of the unlock. `KernelCall` and `KernelReturn` stand
for every other section of the kernel.

## 3. Runs

All bounds are constants in the .cfg files. Deadlock is checked everywhere.

| run | instance | shows |
|---|---|---|
| `speed` | with the history of `FanPin`; two tasks, speed and cap commands (one a narrowed 356), hours on both sides of the day window's edge | `PwmSettles`: again and again the pin shows the state's speed, although a task overtaken in a notification writes a stale level. `OnlyOvertakenIsStale`: when nobody is about to write, that is the only way for the pin to disagree. `NightIsCapped`: no `updateClock` at night leaves the pin above the cap |
| `presets` | a legal table, a disordered one with a speed above 100 and a byte out of range, a table of speeds alone; temperatures at the first and the last preset | `TypeOK`; `PwmInRange`: the 16-bit level never wraps; `OverrideKeepsSpeed`; `SpeedFollowsPresets`: the documented table, also in the middle of a copy |
| `override` | an hour of three minutes, up to two missed, one correction | `OverrideRunsDown`: only a call, a reboot or one minute changes it; `OverrideExpires` |
| `menu` | six knob events, queue of two, screens scaled to 1, 2, 3; two minutes of the clock, a first override of two, a temperature that puts a preset in use | `TypeOK`; `ScreenMatchesMode`; `OverrideBounded`; `SpeedIsProtected`: a confirmed speed is set under an override and keeps it until the second stage opens, and loses it in one way only, the clock counting its last minute after the test; `ConfirmedIsShown`: the setter call of a confirmation leaves what the item loads; `ReturnsToCarousel` |
| `knob` | revolution of two turns, up to two quarter steps per poll, presses on both sides of 10, 300 and 1500 ms, queue of one that nobody need empty | `TypeOK`; `PhaseLocked`: the count fits the phases at any speed; `DecoderTracksKnob`: as long as the knob was slow the decoder is where the knob is, give or take one quarter step; `NoPressForgotten` |
| `panel` | four inputs, a press of each kind, queue of two | `NoPhantomEvent`: every event takes an input of its own; `PartsImplemented`: the composition implements each part; `PressOpensMenu`: every press is followed by an open menu, also when its event is dropped |
| `net` | a day of six rounds, an interval of three, the network up or down at the start and changed four times | `TypeOK`; `ClockIsSteady`: `updateClock` comes within two intervals although a renewal restarts the count; `NoFalseAddress`; `DeniedOnlyByRetest`: only a link lost between lease and second test makes the display deny an address; `StartsWhenLinked`; `LossIsShown`; `RecoveryIsShown` |
| `pool` | three commands, four clients, an agent queue of two | `TypeOK`; `EachInOnePlace`: no command in two places, none lost; `AssertsHold`: the one assertion that can fail is that of a client which asks before the pool is filled; `CommandsReturn`; `LendsWhole`: the pool implements `CommandLending` |
| `wizchip` | three tasks | `TypeOK`; `AccessIsExclusive`: nobody finds the lock taken and no two are inside, although the unlock unmasks before it leaves the kernel's section; `MaskedOnlyByHalf`: a task in no section runs masked only while another is in the middle of its unlock |
| `shadow` | one setting of each kind, legal and narrowed or out of range, a clock by day and by night | `TypeOK`; `ReportIsTrue`: no change of the configuration goes unreported; `ConfigurationReturns`: a restart gets back every part of the configuration (`Configuration`: all settings but `cSpeed`, see the disagreements below) |

Why the bounds are enough. Preemption needs two priority-1 tasks and the init
task, which are all there are. A speed above the cap, one below it and zero
reach every branch of `getCurrentSpeed`. The day window matters through two
comparisons; the hours of the runs fall on and inside it. Three minutes in an
hour allow a changed, an unchanged and a skipped minute. The scaled default
override (1 or 2) and screens keep the order of the real values (10; 60, 80, 200);
`MaxOverride` stays above 255 in the menu because a stale edit value must be
able to exceed a byte. Six events enter any item up to the fourth, edit it,
and confirm both stages, or leave them half done. A ring of eight quarter steps tells
plus one from minus one, and two quarter steps in one poll are the first number the
tables cannot decode. In the panel four inputs fill a queue of two, drop an event
and leave one in the poll's hands. In `net` the network can be lost at each of the
tests and come back, twice; the day is two intervals, so the renewal falls due on
and, after an outage, off a multiple. In `pool` there are more clients than
commands and more commands than places in the agent's queue, so every wait and every
refusal happens. Two tasks can be in the halves of one unlock; the third makes the
kernel call. The shadow's state space is finite without a bound.

Each property is also run against a mutant of the modelled code (PROJECT.json,
`mutants`; the mutated forms stand before the definition they replace and are
marked as slips), and must fail there.

### Where code and comment disagree

Each of these runs checks one property and TLC finds it violated.

| run | property | code |
|---|---|---|
| `net_no_ip` | `NoIPEnds` | the address is shown only in the round that gets it; if the link drops before the second test (`main.cpp:289`) and returns with the lease kept, no later round and no renewal (`:299`) shows it: NO IP for good, against `DisplayAgent.h:61` |
| `wizchip_mask` | `OutsideIsUnmasked` | a task switched in between the halves of the unlock (`w5x00_spi.c:135`) finds the kernel's nesting at one, and its next kernel call leaves the interrupts masked, against "Release a critical section" (`w5x00_spi.h:106`) |

Other disagreements met while the code was translated are in the models as
the code has them, and no run is spent on them:

* JSON preset speeds up to 255 are stored (`FanState.cpp:617`), documented 0 to
  100; such a preset is later refused by `setCurrentSpeed` and the old speed stays;
* the start hour itself counts as night (`FanState.cpp:337`);
* a timeout in a second stage leaves the item at 101 to 104
  (`DisplayAgent.cpp:164`);
* turning up from below the minimum stays below it (`DisplayAgent.cpp:481`);
* a confirmed speed is to be protected "while we set override"
  (`DisplayAgent.cpp:325`), but the override is tested before the speed is set and
  not again: when `init_thread` counts its last minute in between, the speed stands
  without one until the second stage is confirmed (`SpeedIsProtected` names this
  step, the only such one);
* an MQTT client that asks for a command before the agent has filled the pool halts
  the board (`freertos_command_pool.c:110`), and the clients are started first
  (`main.cpp:206-221`);
* two events queued behind the confirmation of an override set the minutes as a
  speed (`DisplayAgent.cpp:345`);
* the published speed is the one in force and is read back as the setting
  (`FanState.cpp:451`, `README.md:7`), so a night's cap or a switched-off fan
  comes back from a restart as the stored speed;
* `Agent_ReleaseCommand` "has no effect" for a pointer that is not of the pool
  (`freertos_command_pool.h:76`); the code accepts the address of any
  structure of the array, whether it was lent or not.

### Fairness

`FanControl`: weak fairness of the steps of each priority-1 task (every
task of priority 1 ends its work with a delay or a blocking receive, and the tasks
above it sleep between their rounds, so each gets the core again),
of `StartMqtt` (the network calls return after their timeouts and retries), of
`UpdateClock` (its loop delays one second and nothing outranks it but the
network tasks) and of `Minute` (time passes). No fairness of the panel, the
messages, the corrections or the reboot. `MaxLag` below an hour is an
assumption on the environment: the network calls of one round do not block the
init task for a full hour, or it would see the same minute again.
`OverrideExpires` holds also when reboots go on for ever, because a reboot
clears the override; `PwmSettles` then holds because the reset state is in
agreement.

`DisplayAgent`: weak fairness of its own steps only. `ReturnsToCarousel` rests
on the bound on events: the user stops eventually. `RotEncAgent`: fairness
in `Panel` only, where it is stated of the whole poll and of the whole pass: a send
ends after ten ticks and the display's delay after 100 ms. The encoder alone needs
no fairness, its properties are invariants.

`NetStatus`: weak fairness of the boot, the start and the rounds (their calls return
after their timeouts) and of the observer's second step. Strong fairness of a redial
that is answered: a network that is there answers `dhcpClient` in the end, which is
assumed of the network and needed by `RecoveryIsShown`. None of the link or the
MQTT session.

`CommandPool`: weak fairness of a client that has a command (it sends it or gives it
back), of the agent taking from its queue, and of the end of every command it
executes (an answer, a timeout or a lost session). None of the asking. `Shadow` and
`WizchipLock` state no liveness.

## 4. Proofs

All theorems are proved from the named assumptions on the constants
(`MessagesAssumption`, `EditsAssumption`, `TempsAssumption`, `TimeAssumption`,
`LagAssumption`, `ResyncAssumption`, `OverrideAssumption`; `TicksAssumption`,
`QueueAssumption`, `PressAssumption`, `MovesAssumption`; and of the other modules
those named below), which TLC evaluates in the runs.

`FanControlProofs`. `TypeOK` and `PwmInRange` are not inductive: a task may hold
a speed it has fetched and not yet written. The invariant `Inv` adds that the
stored speed and the night cap, the speed in every task's hands, and hence every
level still to be written, are within 100%. It holds because the two setters that
check are the only way to those fields: `FanStateProofs` shows that `Apply`,
`CalcSpeed` and `ClockUpdate` keep it, and that messages and confirmations turn
into well-formed calls. From `Inv`: `TypeCorrect`, `PwmStaysInRange`. The
action properties follow from `Inv` and a case split over which steps touch
the object: a call (`CallStep`), an `updateClock` (`UpdateClockStep`), a reboot,
nothing else (`OtherStep`): `OverrideIsKept`, `OverrideIsCounted`,
`PresetsAreApplied` (the search from the last preset down returns the documented
interval of an ordered table), `NightIsKept` (the level is monotone in the
speed).

`DisplayAgentProofs` (from `QueueAssumption`, `ScreenAssumption`, `TwinAssumption`,
`MenuAssumption`, `EventsAssumption`, `ClockAssumption` and `OverrideAssumption` of
its modules). Neither `OverrideBounded` nor `ScreenMatchesMode` is inductive. One
edited value serves all items and survives from one to the next, so the bound of the
override must hold of every value ever loaded, turned or left behind: `Menus` bounds
`edit` by `MaxOverride` for all items, and `SafeCalls` are the calls that respect it.
`Placed` says that the carousel turns before it reaches the menu's screens and that
an open menu is within them. `Midway` says what a confirmation cut apart may still
do: its item is still being edited, and the calls left are those of that item and
value (`CallsOf`, `ItemCall`). The proof follows a pass from inside out: a turn
(`TurnsBounded`), the calls of a confirmation (`ConfirmedBounded`), one call
(`ApplyBounded`), where it leads (`AfterConfirmType`), the drawing (`ShownMenuType`),
the pass (`PassKeeps`), and the clock meanwhile (`ClockBounded`).
`SpeedProtected` takes the actors one by one: a pass begins the confirmation of a
speed without an override with the call that starts one (`PassProtects`), no later
call of it ends an override (`CallProtects`), nor does the twin (`TwinProtects`);
only the clock is left, and it must have counted the last minute
(`ClockUnprotects`). `ConfirmedShown` follows from `Midway`, which ties the call about to be made to the
item and value of the menu. `ConfirmedIsShown` is stated of values in the item's
range, because a value that has come from another item is stored as a byte.

The pin (`StaleOnlyIfOvertaken`). `OnlyOvertakenIsStale` says nothing of a task in
the middle of a notification, so it is not inductive; `PinInv` adds that while
nothing is overtaken every decision stands (`DecisionStands`): a task that has fetched
the rule or the speed holds that of the present object. A task that decides afresh
makes its own decision stand and ends the history only if no other task is inside;
whatever then changes the object makes the history true. Without the history the
formula is false, as TLC shows with two tasks.

`PanelProofs` (from `TicksAssumption`, `QueueAssumption`, `PressAssumption`,
`MovesAssumption`, `InputsAssumption`). Three arguments.
First, `TypeOK`, `PhaseLocked` and `NoPressForgotten` are proved together with
`HalfSample` (half a sample has its low bit free). The heart is `CountsUp`: the two
tables name the neighbouring phases, four of which make a cycle, so decoding keeps
`PhaseLocked` at any knob speed (`CountStaysInPhase`, `PressesAreKept`).
Second, `DecoderFollows`. `DecoderTracksKnob` holds between polls; `Tracking` says,
for every point of the poll, how far the knob can be from the decoded count around a
ring of any size (`Apart`): within the steps since the sample began when idle, within
one step of what was read when a sample is in hand, and what half a sample already
tells of the other half (`SamplingTracks`). Two phases that differ by at most one
step determine the step (`OnePhase`), so decoding moves the count by what the knob
moved, also over the end of the revolution.
Third, the panel. `EncoderImplemented` and `DisplayImplemented`: every step of the
panel is a step of each part's own specification or leaves it alone, so what is proved
of the encoder and of the display holds in the panel (`BothImplemented`). The display's
bound on its events needs the budget that follows. `NoPhantoms`: `Paid` is a
budget, in which events sent, presses in their flags or in the poll's hands, and the
flips of each phase that are not yet decoded never exceed the inputs. Every decoded
step uses up one of those flips (`OneDecoded`), and at most one event is sent for it;
`Detour` is the triangle inequality that lets a knob shake between two reads.

`ShadowProofs` (from `CallsAssumption`, `MessagesAssumption`, `ClockAssumption`).
`ApplyCalls` is a function defined by recursion on the number of calls, of which the
models need to know what any sequence of calls does. The library's induction rules
take an operator as a parameter; `SetInduction` states induction as a fact about a
set, from `WFMin` of the well-founded sets, and `IsRun` is the sequence of states,
from which `ApplyNone` and `ApplyOneMore` follow. `Notifies` is the property of a
sequence of calls that carries `ReportIsTrue` through a message: what it leaves
different is among the parts it marks dirty, for a single call by cases over the
setters, for a table because its last byte marks it, although the others do not
(`NotifiesTable`). The types must be stronger than `TypeOK`: `Record` says that the
service's record is a message with values the setters accept, or `RestartRecovers`
would fail on a cap that is refused when it comes back. `RecordReturns` follows the
eight groups of calls of such a message, whatever the device's state
(`BackOne`, `BackTable`). It gives `ConfigurationReturns` and the attachment's step of
`ReportIsTrue`.

`NetStatusProofs` (from `DayAssumption` and `ChangesAssumption`). `NoFalseAddress`
speaks of the start of a round; `Claim` says at every step of the round what may be
claimed: nothing while a lease is asked for, and a renewal starts the count again.
`ClockIsSteady` rests on `Steady`: past the first interval, the rounds since the last
`updateClock` are the count's remainder, written with an explicit quotient because
the provers need one; before it they may be those of an interval that a renewal cut
short, which is less than one interval because the renewal comes at a count of a day
or more. The wrap of the count is where `Day % Interval = 0` is needed.
`DeniedByRetest` is the other side of `NoIPEnds`, which fails: of all the steps that
touch lease or address only the second test can leave a lease undisplayed.

`CommandPoolProofs` (from `PoolAssumption`). `EachInOnePlace` is proved as the
division of the commands into four parts, with `Quiet` (nobody waits for or has a
command before the pool is filled) and `EmptyHanded` (a client that waits has none). The
lemmas say what appending and taking do to a queue of distinct elements, and what
moving one command does to the division (`MoveToClient`, `MoveFromClient`,
`MoveInAgent`). `AssertsHold` is a pigeonhole: a command that comes back is missing
from the pool, so the pool is an injection into one command fewer than there are
(`RoomForMissing`), and by `Quiet` nothing comes back before it is filled
(`ReleaseReturns`). `PoolLends` is the refinement, with one step of the abstract
specification for each user's step and a stutter for filling, waiting and executing.

`WizchipLockProofs` (from `TasksAssumption`). The unlock opens the interrupts too
early, and still nobody meets the spin lock taken: whoever is in a section is the
running task with the interrupts masked (`Guarded`), and the spin lock is held only
by it (`SpinIsHeld`); `AccessExclusive` says both. That the nesting count stays within the number of tasks needs
`Counts`: it is the cardinality of the set of tasks inside a kernel section. From
the same count `MaskedByHalf`, the other side of `OutsideIsUnmasked`, which fails: a
section that ends without unmasking leaves another task in the count, and one that is
not running can only be in the middle of its unlock (`MaskStays`).

Only model-checked: all liveness (`PwmSettles`, `OverrideExpires`,
`ReturnsToCarousel`, `PressOpensMenu`, `StartsWhenLinked`, `LossIsShown`,
`RecoveryIsShown`, `CommandsReturn`), which needs fairness and is out of the prover's
reach; and `OutsideIsUnmasked` and `NoIPEnds`, which do not hold. Every other property
of a run is a theorem.

## 5. Not modelled, and the plan

Done, in this order because the speed of the fan and the override are what the
device is for: `FanState`, `EditItems`, `FanControl`, `DisplayAgent`, `RotEncAgent`;
then what joins them to each other and to the network: `Panel`, `NetStatus`, `Shadow`,
`CommandPool`, `WizchipLock`; and the proofs above.

Left of the plan:

1. `FanSpeed`, an abstract controller with one atomic step per command, and
   `FanControl` shown to implement it (which command was last, not how it was cut).
2. `Shadow` with the calls of a message cut apart, so that the panel and the clock
   come between them, as in `FanControl`.

Not modelled, and why:

* `OledDisplay`: output only, it keeps nothing; logging and the JSON writers'
  formatting likewise;
* the millisecond timer (`port/timer`): nothing in the tree calls it. Its callback has
  no return statement (`timer.c:39-45`), so whether the SDK repeats the timer is
  undefined; with no user there is nothing to relate it to;
* the flashes of `MQTTSend` and `MQTTRecv`: they end in the colour set before;
* pins, clocks, DMA and register copies of the SPI port, and
  `port/ioLibrary_Driver/w5x00_spi.c` and its header, older copies that are not
  built;
* the kernel's static memory and configuration (`port/FreeRTOS-Kernel`), of which the
  models take priorities, preemption and the absence of time slicing; the
  configuration headers of the MQTT and network libraries;
* the Python scripts: straight-line clients, the messages of the runs are shaped like
  theirs; 3D models and schematics;
* the twin library, the MQTT agent, the Ethernet helper and the shadow service:
  submodules that are not in the tree. The models state what they take from their
  use.
