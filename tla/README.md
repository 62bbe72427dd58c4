# Sensor Watch firmware in TLA+

A verification development of the Rust firmware under `src/src/` (Movement, the watch framework, and
the drivers it stands on) for the SAM L22 Sensor Watch. The firmware is a single main loop that reacts
to one event and goes to STANDBY, plus interrupt handlers that preempt it and share its state. What is
hard about it is rarely inside one function: it is what an interrupt between two statements, a power
cut between two flash operations, or a long sequence of button presses over several faces makes of
statements that are each right.

Paths below are relative to the repository; `movement/` is `src/src/movement/`, `watch/` is
`src/src/watch/`, `core/` is `src/core/src/`.

## 1. Inventory

| Component | State | Operations | Interacts with | What must hold |
|---|---|---|---|---|
| Event queue (`movement/mod.rs` 750-780) | ring of 8, head, length | `post_event` (interrupts), `take_event` (main) | every handler, the main loop | arrival order; on overflow the newest survive; nothing replayed |
| Dispatcher (`movement/mod.rs`, `main.rs`) | current/next face, change flag, `SCHEDULED_TASKS`, tick rate | `app_loop`, `move_to_face`, `set_tick_rate`, schedule/cancel, `cb_tick`, `cb_minute_tick`, `cb_alarm_fired` | faces by `activate`/`loop_`/`resign`; RTC; queue | a scheduled task runs, once, soon; tasks belong to faces; a face is closed properly when left |
| Faces (`countdown.rs`, `tomato.rs`, `simple_clock.rs` and about a hundred others) | mode, targets, set values | `loop_` per event | task slots, tick rate, buzzer | what the display and the slot say agree |
| RTC compare queue (`watch/rtc.rs`) | compare slots, ALARM0, callbacks | register/disable/timeouts, the RTC interrupt, `schedule_next_compare` | the minute wake and face timeouts; ALARM0 is shared with the background alarm | callbacks neither early nor late nor lost, across the year wrap |
| Buttons (`movement/debounce.rs`, `mod.rs` 1959-2090, `watch/extint.rs`, `watch/irq.rs`) | debounce state, `FAST_TICKS`, idle count, tick on/off | EIC edge, 128 Hz tick, suspend/resume | the queue; two priorities of interrupt | well-formed sequences of events; long press on time; no press missed while suspended |
| Wear storage (`watch/storage.rs`, `movement/persist.rs`, `watch/crc.rs`, `watch/timeout.rs`) | RWWEE rows, generation, saved key | namespaced write/read, settings save/load, image check at boot | survives resets | the newest committed entry survives and is the one read |
| Watchdog (`watch/wdt.rs`, `mod.rs` 1600-1625, 2030-2090) | period, count since the last kick | kick (main loop), extend, tighten | fast tick suspension, wake sources, the main loop | a loop that completes is not reset; one that hangs is |
| Fault record (`movement/fault.rs`) | backup registers, safe state | `record_fault`, `check_heartbeat`, `check_boot_throttle` | RTC, boot | faults reported when, and only when, they happened |
| UART policy, shell and its authorisation (`movement/uart_policy.rs`, `shell_auth.rs`, `watch/shell.rs`) | session, last activity, window | enable, poll, observe, commands | fast tick, settings, queue | consent is physical and bounded in time |
| Buzzer (`watch/buzzer.rs`, `mod.rs` 1030-1105) | sequence position, repeat counter, priority | play note, sequence, alarm; timer interrupt | faces, safe state | a melody is heard as written; priorities respected |
| RTC calibration (`movement/rtc_calibration_store.rs`, `core/rtc_calibration.rs`) | a third stored object | load, store | wear storage | as wear storage |
| Event log (`watch/event_log.rs`, `core/event_log.rs`) | circular log | append, read | - | newest kept, in order |
| Optical transfer (`core/transfer.rs`, `core/optical.rs`) | receiver offset and sequence, staged object; decoder buffer, last sequence, authorization | begin, write, commit, abort; bytes, service | a line that loses and garbles | objects replaced whole; frames accepted once and forwards |
| Calendar and time zones (`watch/utility.rs`, `watch/utz.rs`, `watch/zones.rs`, `movement/mod.rs` 1112-1213) | the clock's date, the configured zone | weekday, UNIX time and back, conversion between zones, summer time, local time | every face with a date or a deadline | agree with counting the days; conversions can be undone; summer time changes on its day and hour |
| Algorithms (`core/ecc.rs`, `uf2.rs`) | none | conversions | storage, updater | agree with their definition |
| Simulators and mirrors, other faces, drivers, USB, desktop programs | - | - | - | not firmware logic, or hardware programming |

`PROJECT.json` lists every component with its status, and the hazards at the line where they bite.

## 2. Modules

| Module | Stands for | Kind |
|---|---|---|
| `FifoOperators`, `EventFifo` | what the queue promises: a sequence; a post on a full queue drops its front; a take on an empty one yields `Tick` | abstract specification |
| `EventQueue` | `EVENT_QUEUE`, `EVENT_QUEUE_HEAD`, `EVENT_QUEUE_LEN` and the two functions, index for index | detailed, refines `EventFifo` |
| `Dispatcher` | `app_loop`, the callbacks that feed it, task slots, tick rate, countdown, tomato, clock | composition of the loop, the queue's abstraction and three faces |
| `CompareQueue` | `COMP_CALLBACKS` over ALARM0, `set_tick_rate`, the RTC interrupt | component |
| `Buttons` | one `DebounceState`, the EIC and the fast-tick handlers | component |
| `WearStorage` | the storage rows with the image signature and the settings as their users | component with crashes |
| `Watchdog` | the period and the kick, with the RTC interrupts, the fast tick and its suspension, the button, a loop that takes time or hangs | component |
| `PackedClock`; `Heartbeat`, `BootThrottle` | the packed clock register; the two checks of `fault.rs` that subtract it | operators; components with resets |
| `UartSession` | `UartRuntimePolicy`, `ShellAuthorization`, and the part of `app_loop` that steps both | component |
| `TransferStore` | what the transfer promises: an object is replaced whole, by a whole upload | abstract specification |
| `Transfer` | the `Receiver` over its store, a sender, a lossy line, restarts of both ends | detailed, refines `TransferStore` |
| `Optical` | `Decoder` and `OpticalSession::service`, a sender that repeats, light that loses and adds bytes | component with an unreliable channel |
| `Buzzer` | sequence validation, the sequence player, the priorities | component |
| `Calendar` | the clock's date counted day by day, and the conversions of `utility.rs` | component with pure operators |
| `TimeZone` | the rules of `utz.rs` over the shapes of `zones.rs`, and the local time of `mod.rs`; extends `Calendar` | component, refines `Calendar` |
| `InputProofs` (`EventQueue`, `Buttons`), `CompareQueueProofs`, `DispatcherProofs`, `WearStorageProofs`, `DeviceProofs` (`UartSession`, `Buzzer`), `TransferProofs` (`Transfer`, `Optical`), `ServicesProofs` (`Watchdog`, `BootThrottle`, `Heartbeat`, and the nine services of `MCServices`), `CalendarProofs` (`Calendar`, `TimeZone`) | theorems | proofs |
| `MCDispatcher`, `MCTimeZone` | values for TLC | model checking |
| `MCServices` | the nine services, `EventQueue`, `Buttons` and those from `Watchdog` to `Buzzer`, side by side | model checking |

Definitions keep the source's names where they can. A definition ending in a word that says what is
wrong with it (`...Unwrapped`, `...Unstored`) and marked "Wrong on purpose" is the mutated form of the
definition after it; no specification uses it. It shows that the property named with it in
`PROJECT.json` can fail.

### EventQueue and EventFifo

`post_event` and `take_event` each run in one critical section, so each is one action. `PostOverOldest`
is `post_event` on a full ring; the order of its two index updates is kept (`head'` is read by the slot
index). `taken` is the value `take_event` returned. `log` is a history of posted events. Under
`Queued`, which reads the ring from its head, the ring implements `EventFifo`. The dispatcher uses the
same operators (`Enqueue`, `Front`, `Dequeue`) instead of the ring.

### Dispatcher

One pass of `app_loop` is up to five steps of `pc`: `SwitchFace` (resign, activate, and whether there is
any scheduled task), `RunTask` once per due slot in index order against one clock reading,
`FinishTasks`, `React` (one event to the active face), `EnterStandby`. Every interrupt handler that
matters is an action that may come between any two of these: `SecondPasses` (the 1 Hz tick and the
minute wake), `PressButton`, `FastTick` (a wake that posts nothing), `AlarmFired`. An interrupt before
STANDBY does not keep the processor awake: `lag` and `WakeUp` say when a wake happens. Inside
`Schedule` the clock is read a second time, so a second edge may fall between the two readings; that is
the only place within a handler where it matters.

Face 0 is the clock, which changes the tick rate; the countdown schedules in its own slot; the tomato
schedules and cancels in the *current* face's slot, as its code does. `FaceLoop` is the face's `loop_`
together with the navigation it asks for. `robbed` is the history of which face's slot another face
cancelled. Time is a count of seconds; the countdown's hours, minutes and seconds are `left`, with
`Modulus` and `Weight` giving its fields. The last part of the pass (settings, peripherals, UART, kick)
is in other modules or left out.

### CompareQueue

The RTC counts seconds modulo a whole number of years. The main context's operations are split where
the code reads the clock, changes the table and writes the alarm, so the alarm interrupt and a second
edge may fall in between (`main`, `op`); the interrupt is split before its flag is cleared (`isr`).
`alarm` is ALARM0 with its mask, callback and enable bit, shared with `cb_alarm_fired` as in the code.
`SetDateTime` sets the clock to any second of the cycle and, as `set_date_time` does, leaves the targets
and the alarm alone. `disturbed` records that this happened, or that a second edge fell inside an
operation or the handler: after either a slot may be stranded, which is a hazard listed at
`rtc.rs:158`, `rtc.rs:332` and `rtc.rs:619`, and `NoSlotIsLate` and `ArmedForNearest` are stated for
behaviours without it. `NotBeforeItsTime` and `MinuteWakeRecurs` hold with it.

### Buttons

The EIC handler is split in `EdgeInterrupt`, `EdgeRead`, `EdgeCount`, `EdgeAccept`; the RTC handler has
the higher priority (`irq.rs`) and is the single action `FastTick` between any two of them. `debounce`
is read and written by both without a critical section: `raced` records the overlap in which both
accept the same change, and a stale level may then be either value a build may have read. `phase` and
`held` are histories: what the posted events say of the button, and for how many ticks.

### WearStorage

A write is `BeginWrite` (the scan for the newest entry), `EraseRow`, `WriteHeader`, `WritePayload`.
`CutShort` leaves in the row any state that a partial operation can leave, and is the common part of a
power cut (`PowerFailsInWrite`), and of an operation that times out or fails its read-back
(`OperationFails`). `ControllerHangs` makes later operations refuse. The boot is `CheckImage` (the image
signature, stored at the first boot), then `LoadSettings`, then `Wake` repeatedly, each of which may
change the settings and save them. Payloads are abstract values; the dirty key is computed as the code
does, on a register cut down to the bit that collides with the UART bit. `legacyAt` is the history of
where an old firmware left its settings. That firmware rotated over the whole area, so they may lie in
the row that the signature, or the settings' own first record, is about to erase; `LegacyErased` names
this loss, at odds with `storage.rs:511` ("Legacy unnamespaced records are accepted ... for firmware
upgrades"), and `ReadsLastCommitted` shows that a legacy record anywhere else outlives every crash until
its replacement is in place.

### Watchdog

Time is counted in beats, the periods of the fast tick. RTC interrupts are raised by `Beat` and handled
by `Interrupt`; the main loop is `AppLoop` (which ends in the kick) and `EnterStandby`, and a reaction may
last `PassBeats`. Each of the wake sources can be on or off as the code sets it: `SuspendFastTick`
extends the period, a button edge shortens it again and with it the limit of a count already under way.
`Hang` stops the main loop only; interrupts go on.

### Heartbeat and BootThrottle

Both subtract clock registers whose fields are packed into powers of two, not seconds. `PackedClock` has
the packing with smaller fields. A carry into the minutes makes the register jump by the field's width
less the last second; `MCServices.cfg` keeps the source's relation, in which that is exactly the
tolerance. `CheckBootThrottle` is the
whole function, with the reset cause and the fault it records before; only the loss of power
(`PowerOnReset`) clears the registers.

### UartSession

One pass of `app_loop` is one action, because `observe` and `observe_poll` run in it without anything
between them that they read: the event taken, the authorisation told to the shell, the poll, and the
timeout's consequences. `Tick` is `FAST_TICKS`; it may not come at all (suspended) or up to `PassTicks`
times between two passes. The window subtracts in 16 bits and the session in 32, as in the code.
`idleFor` and `heldFor` are the histories of true ages.

### Transfer and TransferStore

`Receive` is the receiver's dispatch on the one frame on the line; its refusals are the code's, in their
order, including a store that fails at `begin`, at a chunk or at the commit. The store and the sender
are outside the repository: the store follows the trait's description, the sender repeats a frame whose
answer did not come and aborts after a refusal. Either side may restart at any time. The code's `Commit`
compares the frame's sequence and length with the receiver's, but not how far the receiver has written;
that nothing is missing then follows from the sequence alone, by the invariant `InStep` of the proof.

### Optical

Bytes reach the decoder one by one, lost or replaced by noise. The byte that ends a silence longer than
the timeout is dropped with the buffer (`optical.rs:341`), so the first frame after a silence is always
lost; that is in the model and contradicts no statement. The
millisecond clock is `FAST_TICKS * 8`, so it wraps and stands still with it (`TickCountWraps`).
`provisioned` says whether keys are present: without them a time frame is refused in the decoder.

### Buzzer

`SequenceCallback` is the 64 Hz interrupt, the repeat marker it may pass included. A count of n plays the
part n + 1 times, and a marker rewinds to the start of the sequence, whereas `buzzer.rs:334` says it
rewinds by that many notes. `MelodyIsHeard` takes the player's own reading, for melodies with at most one
marker; two markers are in the model and can loop or stop early. An invalid sequence silences the piezo
and leaves a sequence that is running running. `EvenLength` matters to the firmware: the three sequences
its faces pass (`ping.rs:59` and `ping.rs:70`, `advanced_alarm.rs:256`) have seven bytes, a zero note
without a duration, so each is refused and none of them sounds.

### Calendar and TimeZone

The functions are pure, so the state is what they are about: `today`, the date in the CLOCK register,
which the chip counts up at each midnight (with the leap year every fourth year, right until 2100), and
beside it `days`, the midnights counted. The functions are held against `days`. Times of day are one
number in units of which `DayLength` make a day, 86400 seconds in the code; the month loops and the
divisions by 400, 100, 4 and 1 years are kept as the code has them, `CHOOSE` standing for the loop over
the months. The u32 wrap is `TimestampModulus`; an offset is the signed number that the code passes as
the u32 with the same bits.

A zone is its offset and its rules. `SummerHours` is `unpack_rules`, `get_active_rule` and the sum in
`get_current_offset`; the five-entry table is the set of the year's rules, which the assumption keeps to
four. `inForce` follows the rules the other way, by counting: a rule's day is known by its weekday and
its place in the month, and the hours it sets stay until the next. `ZoneMidnight` is the calendar's
`Midnight` with this history. `at_is_local_time` is in the table but read by nothing in `utz.rs`, so it
is left out: the code takes every hour for an hour of the zone's standard time.

### MCServices

The nine services share no state but the clocks, which each models for itself. Their states therefore
add up instead of multiplying: an initial choice says which is stepped. Nothing is lost by that for
properties that each speak of one service.

## 3. Runs

| Run | Checks | Bounds and why they are enough |
|---|---|---|
| `dispatcher` | `TypeOK`, `PendingRunIsScheduled`, `SettingOnlyOnScreen`, `NoticedWithinAMinute` | 3 faces (primary list of two, secondary of one), a queue of 1 so that overflow is common, two countdown fields, minute of 2 s, a tomato of 2 s, 5 s of clock: two minute wakes and a second after the later one, so that the second that falls between that wake and the pass's reading of the clock is among the behaviours |
| `dispatcher_live` | `DueTaskRuns` | one countdown field, 2 s of clock, after which seconds keep passing without being counted |
| `dispatcher_per_face` | `TasksArePerFace` (violated) | as `dispatcher` |
| `dispatcher_time` | `CountdownKeepsTime` (violated) | as `dispatcher` |
| `compare_queue` | `TypeOK`, `NoSlotIsLate`, `ArmedForNearest`, `MinuteWakeRecurs`, `NotBeforeItsTime` | 2 slots (the minute wake and one timeout), minute 2, day 4, year 8, 2 years: every second of the cycle is an initial state and one the clock can be set to; targets up to 5 s ahead cross minute, day and cycle |
| `compare_queue_background` | `BackgroundAlarmKept` (violated) | as `compare_queue` |
| `wear_storage` | `TypeOK`, `GenerationsFollowRotation`, `ReadsLastCommitted`, `SavedUpToKey`, `CorruptOnlyIfCutShort`, `NewestIsKept` | 2 objects of 3 rows, generations modulo 8 so that the counter wraps, 2 crashes: one more than a recovery has to survive; no legacy record, or one in the signature's first row, in the settings' first row, or in neither |
| `wear_storage_crash` | `CrashFindsLastEntry` (violated) | 1 crash |
| `services` | `TypesOK`, `NoResetWhileTicking`, `HangIsCut`, `LostTimeAtHourCarries`, `SafeStateForQuickBoots`, `SessionBounded`, `MutationWithinWindow`, `ImplementsStore`, `FramesAdvance`, `MelodyIsHeard`, `ImplementsFifo`, `EventsInOrder`, `SuspendedOnlyAtRest`, `LongPressOnTime`, `SteadyLevelIsAccepted` | see below |
| `calendar` | `CalendarAgrees`, `ConversionsAgree`, `DstFollowsRules` | every day of the register's 64 years and its turn back to 2020, in minutes; the first and last minute of a day and two in the morning; offsets of 0, three hours east and twelve west, in each pair; a zone of each shape in `zones.rs` |
| `local_time` | `LocalTimeIsInZone` (violated) | as `calendar` |
| `watchdog_sleep` | `CoversLongestSleep` (violated) | 3 beats to a second, 5 seconds to a minute, so that the long period (11 beats) is shorter than a minute as 16 s are |

Bounds of `services`. Event queue: a ring of 3, three events, 8 posts, two and a half times round, with
every head and every length. Buttons: 3 samples, long press 3 and really long 5 ticks, ticks modulo 7,
suspension after 4, so that the tick wraps during a press and the suspension falls into every phase of
it. Watchdog: the short period is exactly a second and the longest reaction, the least
the assumption allows; a minute is longer than the long period, as in the source. Clock: a minute of 6
seconds and an hour of 3 minutes in fields of 8, tolerance 3, two hours: every carry occurs, and the
carry into the minutes comes to exactly the tolerance, as it does in the source (64 - 59 = 5). Boots:
window 2, limit 3, count modulo 6, so that the count runs over its byte.
UART: ticks modulo 12 with an idle limit of 7 and a window of 4: both wrap while open, and the limit and
two ticks still fit under the modulus as 300 s do under 512 s. Transfer: three uploads, two of them of
one object with different chunks, so that a restarted sender can find a receiver in the middle of
another's. Optical: sequence numbers modulo 3 and four frames sent, so that they wrap, one frame back repeated. Buzzer:
melodies of one to five pairs, valid and invalid, with none, one and two markers, and one too long.

What the runs show, beyond that the code is right in them:

- `dispatcher_per_face`: the comment at `mod.rs:747` calls the slots "per face", but `tomato.rs:117`
  cancels through the current face. A tomato that rings while the countdown is on screen deletes the
  countdown's alarm. `PendingRunIsScheduled` shows that this is the *only* way a running, not yet due
  countdown loses its slot. It does not speak of a countdown whose time has come: one second of
  countdown started at the end of a second is refused by `Schedule` without a sign.
- `dispatcher_time`: `Tick` is "once per second" in `types.rs:201`, but every wake with nothing queued
  is delivered as `Tick`, so the countdown's display gets ahead while buttons bounce or the fast tick
  runs. Its alarm, which is kept by the clock, does not.
- `compare_queue_background`: hiding the seconds takes ALARM0 away from `cb_alarm_fired`, registered
  once in `app_setup`; the comment at `mod.rs:1620` says it does not.
- `wear_storage_crash`: `docs/TESTING.md:61` expects the last valid entry after a reset in mid-write;
  between the header and the payload the new row already outranks it, and the settings fall back to
  defaults. `ReadsLastCommitted` shows that this window is the only one.
- `local_time`: `mod.rs:1167` documents an offset in minutes, `get_local_date_time` and
  `get_date_time_in_zone` take it for minutes, and it is in seconds: an hour of offset moves the time by
  60 hours. It is the first of four on that path. The rules are asked about the year counted from 2020
  where `utz.rs:24` counts from 2000 (`mod.rs:1204`), so that in 2025 only the rules that had begun by
  2005 apply; the minutes of an offset that is not whole hours lose their sign (`mod.rs:1186`),
  which is wrong west of UTC; and no rule's `at_is_local_time` is read. The model has the first three as
  they are; `DstFollowsRules` is about `utz.rs` itself, asked with the year it documents.
- `DstFollowsRules` starts in the year after all rules of a zone have begun. The table of one zone
  (`zones.rs:106`, rules from 2019 and 2023) has no second rule for the years between: `utz.rs` answers
  standard time through 2022, and begins 2023 with the summer time of a rule that had not begun.
- `ConversionsAgree` says where a conversion has no answer: a date outside 2020 to 2083 comes out as all
  zeros, the day and the month included.
- `watchdog_sleep`: `wdt.rs:71` asks that the extended period cover the longest sleep, "e.g. the
  per-minute wake", and `docs/POWER.md:97` says it does. The longest period the code sets is 16 s, so with
  the seconds hidden and the fast tick suspended the chip resets in its sleep. `NoResetWhileTicking`
  shows that this is confined to that display mode. The model takes the comment at its word that the
  period may be changed while the watchdog is enabled; the hardware may refuse that.
- `LostTimeAtHourCarries` says what the heartbeat does rather than what `fault.rs:213` says of it: at
  1 Hz a sound clock is reported to have lost time at each hour and at no other time, and a frozen
  clock, whose difference is zero, never is.
- `SafeStateForQuickBoots` holds only for boots within one minute of the clock, and until the count
  runs over its byte at 256; a loop across a minute boundary starts the count again.
- `SessionBounded`: a session without input ends in time, and `early` shows that one is cut short only
  when `FAST_TICKS` has wrapped under it, when the 32-bit difference is huge. While the fast tick is
  suspended no time passes for either limit (`docs/UART_TRANSFER.md:63`).
- `MelodyIsHeard`: an alarm raises `pending_sequence_priority` for good (`mod.rs:1087`), so that a
  button's note is refused afterwards; what is proved of the melodies holds with it.

### Fairness

`Dispatcher!FairSpec` has weak fairness of the main loop's steps (the code never blocks: every wait is
bounded) and of the passing of seconds (the RTC runs in STANDBY; the tick or the minute wake is always
armed, which `NoticedWithinAMinute` depends on). Nothing is assumed of buttons or the fast tick.
`Buttons!ButtonsSpec` has weak fairness of the EIC handler (a pending interrupt is served) and of the fast
tick, which is disabled while suspended, so the assumption gives nothing there. `SteadyLevelIsAccepted`
has to find its own way out of suspension. `Watchdog!WatchdogSpec` has weak fairness of time (`Beat`), of
raised interrupts being handled, of the hardware's reset and of a loop that has kicked going to sleep;
`MCServices` states the same for the service that is stepped. Nothing is assumed of `AppLoop`: a loop that
hangs is one that stops, and `HangIsCut` must follow from time and the hardware alone.

`CHECK_DEADLOCK` is left on in every run.

## 4. Proofs

All for every value of the constants allowed by the named assumptions of each module; TLC evaluates
these assumptions for the values it uses.

- `EventQueueTypes` (`QueueSpec => []QueueTypeOK`), `NoStaleSlot` (`OccupiedIsQueued`), `NewestInOrder`
  (`HoldsNewest`), from `EventQueueAssumption`. The arithmetic is in `AheadValue` (one step wraps at most
  once), `AheadInjective`, `AheadSurjective` and `AheadShift`; no other step opens the modulus.
  `HoldsNewest` is inductive with the types.
- `RingImplementsFifo` (`QueueSpec => ImplementsFifo`): `PostAppends`, `PostReplacesOldest` and
  `TakeRemovesOldest` say what each operation does to `Queued`; every step then maps to a step of
  `EventFifo`, or to a stutter.
- `QueueTypes` (`[]TypeOK`), `NoCallbackIsLate` (`[]NoSlotIsLate`), `NearestIsArmed`
  (`[]ArmedForNearest`), `NoCallbackIsEarly` (`NotBeforeItsTime`) and `MinuteWakeIsNotLost`
  (`MinuteWakeRecurs`), from `CompareQueueAssumption`: at least two years, and registrations at most a year
  ahead. The two that speak of rest follow from `Timely`, which is inductive as long as nothing is
  `disturbed`: every enabled target is ahead, except in the second in which the alarm that will dispatch
  it has fired (`TargetsAhead`), and `StepsStand` carries what schedule_next_compare has established from
  one of its steps to the next: a registered target is ahead, the target about to be written is the
  nearest, the alarm at rest stands on it. That the nearest exists is a minimum over the slots, by well-founded
  induction. `Calendar` has all the modular arithmetic; the year rule of `target_timing` comes down to
  `DueValue`: a target at most a year ahead is due exactly when it has been reached. The two action
  properties need only the types and hold however operations are disturbed.
- `StorageTypes` (`[]TypeOK`), `RotationIsKept` (`[]GenerationsFollowRotation`), `ReadsAreLast`
  (`[]ReadsLastCommitted`), `SettingsAreSaved` (`[]SavedUpToKey`), `CorruptMeansCutShort`
  (`[]CorruptOnlyIfCutShort`) and `NewestRecordIsKept` (`NewestIsKept`), from `WearStorageAssumption`: more
  than twice as many generations as rows, an even number of them, and values that can be told apart.
  All are consequences of one invariant, and none is inductive alone. `Rotation`: an object is without
  records, or one of its rows leads and every other record is one generation older for each row back.
  `LeaderIsNewest` shows that the row that leads is the one find_last_entry ends with, by the signed
  comparison of generations across the wrap; it is the only place where that comparison is opened.
  `JobIsNext`: a write under way is at the row after the leading one, so that the erase, whole or cut
  short, can only take the oldest record, and the header, once written, makes its row the leader.
  `CommittedIsKept` and `LegacyIsKept` say where the last committed payload is, `JobIsAsked` and `SavedIsKey`
  why the saved key is that of the value being written.
- `DispatcherTypes` (`[]TypeOK`), from `DispatcherAssumption`.
- `PendingRunsAreScheduled` (`[]PendingRunIsScheduled`): with the types the property is inductive. It is
  stated for any table (`CountdownIsIn`, `TomatoIsIn`), because a due face runs with its slot already
  emptied. A running timer that is not due has its own slot full; so a face that runs as a due task is
  not pending, and only the tomato, on behalf of another face, can empty a slot that is. A tomato pending
  in its own slot is safe from the countdown, which touches no other slot than its own.
- `DueTasksAreNoticed` (`[]NoticedWithinAMinute`). `TasksAreNoticed` says for each place of the main loop how
  far the clock may have gone past a task: after the task loop, not at all, or by the one second of
  `lag`; asleep, not over the top of a minute (`QuietSince`), because the tick or the minute wake is on
  (`WakesComeBack`); in the next pass, a minute and that second. Within the loop, `ReadingIsFresh` bounds the
  age of the one clock reading it compares with.
- `SettingsCloseWithFace` (`Spec => []SettingOnlyOnScreen`), from `DispatcherAssumption`. The inductive
  invariant adds to the property only which fields the countdown record has. The argument: only a
  button opens the settings, and buttons go to the face on screen, whereas `BackgroundTask`, the one
  event that reaches a face off screen, never opens them; and `SwitchFace`, the one step that changes
  the face, resigns the old one first.
- `ButtonTypes` (`ButtonsSpec => []ButtonsTypeOK`) and `SuspensionIsSafe` (`[]SuspendedOnlyAtRest`), from
  `ButtonsAssumption`. `SuspendedOnlyAtRest` is not inductive: an idle count about to reach its limit
  with a stable level of pressed would break it. `IdleIsCounted` excludes that. The EIC handler sets the
  idle count to zero when it begins, and the fast tick preempts it at most once, so while it runs the
  count is at most one; from the second idle tick on, every sample is the fast tick's own and of a
  released pin, and the debouncer's count keeps up with the idle count. `IdleSuspend > DebounceSamples`
  then makes the release accepted before the limit (`SampleReleases`). `CountedState`, `AcceptedState`
  and `ReportedState` say what a sample does to the debounce state, once for both interrupts.
- `PressesAreInOrder` (`[]EventsInOrder`) and `LongPressesAreOnTime` (`[]LongPressOnTime`), from the same
  assumption: the counter is wider than a really-long press. Unless the handlers raced, the edge handler
  accepts only a level that is still news (`LevelIsAsked`), the debounce state and the events posted agree
  on the phase of the press (`PhaseIsRecorded`), and the wrapped difference from `down_timestamp` is the
  true age of the press or one tick more (`HoldIsMeasured`), one tick because the handler may have been
  preempted between reading the tick and using it (`StampIsFresh`). `SinceAdvances` is the only lemma
  about the wrap. The phase `really` puts no upper bound on the hold, so the press may outlast the counter.
- `WatchdogTypes` and `LivingLoopIsNotReset` (`WatchdogSpec => []NoResetWhileTicking`), from
  `WatchdogAssumption`: the short period is at least a second and the longest reaction. The property
  is not inductive. `KickedInTime` bounds the count by where the loop stands: asleep, by the beats
  since the last full second; awake, by a second and the reaction so far; after the kick, zero. With it
  the change of period by a button edge needs no argument of its own, since the count is below the
  short period whichever is set. `FastTickIsCounted` ties the suspension to the idle count.
- `QuickBootsAreCaught` (`ThrottleSpec => SafeStateForQuickBoots`), from `BootThrottleAssumption`: the window is
  shorter than a minute and the count's byte wider than the limit. `SecondsDiffer` says what the 32-bit
  subtraction of two seconds yields: a second behind the other wraps to nearly the whole register and so
  counts as outside the window. `GapIsShown` ties the register to the time since the last boot while
  that is below a minute and nobody has set the clock; `BootsAreCounted` keeps the count at or above the
  boots in a row until its byte runs over. A minute and more after the last boot the register cannot
  tell the gap, and neither half of the property speaks of it.
- `HeartbeatIsMisled` (`HeartbeatSpec => LostTimeAtHourCarries`), from `HeartbeatAssumption`, the relation of the
  source's numbers: the limit of 5 is at least what a carry out of the seconds adds to the packed
  register (64 - 60 + 1), and less than what a carry out of the minutes adds. The invariant is one line
  (`HeartbeatIsFresh`: the stored register is that of the present second, unless a check was missed or
  the clock set); the rest is the packing's arithmetic. A time is put together from its fields
  (`TimeAt`, with `DivMod` for the quotients), the next second is one of four carries (`NextTimeIs`), and
  `CarryValue` says which of their differences exceeds the limit, the borrow at the end of the day included.
- `SessionsEnd` (`[]SessionBounded`), `MutationNeedsPress` (`[]MutationWithinWindow`) and `UartTypes`, from
  `UartSessionAssumption`: the limits and the ticks between two passes fit under the tick's modulus.
  `Later(now, from, age)` says that the counter shows the true age, with at most one wrap;
  `NextIsLater` keeps it under a tick, `WrappedDifference` turns it into the 16-bit subtraction. The
  invariant is that the session's last activity (`SessionIsMeasured`) and the press
  (`PressIsMeasured`) are measured in this sense while they matter.
- `MelodiesAreHeard` (`BuzzerSpec => []MelodyIsHeard`) and `BuzzerTypesHold`, from `BuzzerAssumption`: notes and
  durations are signed bytes. `Unrolled` writes a melody out as a function on positions, so that no
  induction is needed: `UnrolledRepeats` says which pair stands at each place, pass by pass, with one lemma
  on remainders. The invariant is that what has been heard is the written melody as far as `Played` says,
  which counts the pairs from where the player stands and from the repeat counter: none passed, k passed
  and the counter at n + 1 - k, or all passed and the counter unset again. `PassMarkerPlays` shows that a rewind
  changes where the player stands and not how far it has come, `PlayedNext` that off the marker the next
  pair is the next one written. `Prior` is the half about buttons: a running melody has raised the priority.
- `TransferIsWhole` (`TransferSpec => ImplementsStore`), from `TransferAssumption`. The invariant: the line
  carries the frame of the sender's step or an answer to it (`OneFrame`); a sender past its first chunk
  finds a receiver that has exactly the chunks up to its step or the one before, or one that starts
  anew, and an Ok tells it which (`InStep`); what is staged has the announced length (`Staged`). A
  restart of either end breaks none of these, because a receiver that starts anew refuses every frame
  but the first.
- `AcceptedFramesAdvance` (`OpticalSpec => FramesAdvance`), from `OpticalAssumption`: the sender repeats frames
  less than half the sequence numbers back, which is what the decoder's half-range comparison takes for
  granted (`BehindIsReplay`). Whatever noise precedes it, only the tail of the frame being sent completes
  a frame (`PushAccepts`, `SenderPushes`); the decoder remembers the number of the frame accepted last
  (`AcceptedIsRemembered`), so a frame it accepts is newer. `AuthorizationIsTimed` ties the deadline to the
  age of the authorization, so that the RTC is set only within it.
- `ThrottleTypesHold`, `HeartbeatTypesHold`, `TransferTypesHold` and `OpticalTypesHold` state the types of these
  four.
- `ServicesTyped` (`MCSpec => []TypesOK`) and `ServicesAreSafe` (every other safety property of the run,
  the two refinements included) carry these results over to the nine services side by side. A step moves
  one service and leaves the variables of the others unchanged (`OthersRest`), so each service sees a step
  of its own or a stutter: `MCSpec` implies each service's specification without its fairness, and the
  queue's bounded `MCQueueNext` is a `QueueNext`.
- `CalendarTyped` and `CalendarIsCounted` (`CalendarSpec => []CalendarAgrees`), from `CalendarAssumption`: a
  32-bit time outlasts the register, and no offset is above a day. The invariant is that `days` is
  `DayNumber` of the date, a closed form; `MonthsFollow` and `LeapDays` carry it over the ends of months and
  years. `WeekdayIsCounted` and `YearToDays` then reduce the weekday's formula and the two formulas of
  `year_to_secs` to it, and `month_to_secs` by its table.
- `ConversionsAreInverse` (`[]ConversionsAgree`) for every pair of offsets. The way back splits a day
  number into cycles; inside the register's years the day lies in a year from March to February with a
  known number of leap days before it, so that each of the four divisions has one result
  (the 25th four-year cycle and the fourth year, whose last day belongs to it, included), and the table of
  months decides the rest. Outside these years the year is out of range on the same account.
- `SummerTimeFollows` (`ZoneSpec => []DstFollowsRules`), from `TimeZoneAssumption`, which states what every
  slice of `ZONE_RULES` satisfies: at most four rules, one a month, in order, without an end, on days
  that each year has. `DayOfWeekIsCounted` shows the weekday formula of `utz.rs` right, `RuleDays` that the
  day it unpacks lies in its month and is the one day of the year that the rule's wording names. `BegunInOrder` says that the rules begin one at a time in the table's order. The property
  is not inductive: `InForceAt` says what is in force when a day begins also for a year in which the rules
  apply for the first time, and has, for the years after it, the last rule of the table in force until
  the first comes due. `ZonesTyped`, `ZonesFollowCalendar` (`ZoneSpec => CalendarSpec`) and `ZonesConvert`
  are what it rests on and what follows for the calendar beside the zones.

The proofs found three things that the runs had not:

- `CompareQueue`: `Passed`, in which the properties are stated, called a target passed when it was less than
  half the cycle behind. In a cycle of many years, a clock set forward by years left passed targets
  that counted as ahead, and `NotBeforeItsTime` was false; with the run's two years it could not be seen. It
  now takes the year that a registration may reach ahead, and calls everything else passed.
- `Dispatcher`: the bound on a due task was a minute, and is a minute and a second. A second may begin
  between the minute wake and the reading of the clock in the pass it starts; with the clock stopped at
  the top of the second minute, the run had left no room for it, and has now.
- `Buttons`: `HoldEvent` gave both long presses in one overlapping CASE, which says nothing about which
  is taken; it now has the order of `check_long_press`.

Only model-checked: liveness (`DueTaskRuns`, `SteadyLevelIsAccepted`, `HangIsCut`), which needs fairness and
ENABLED and is out of the prover's reach, and the six properties that the code violates. Every other
property of every run is a theorem for all values of the constants. The runs state nothing of the ring
that `ImplementsFifo` does not imply: `OccupiedIsQueued` and `HoldsNewest` are theorems only.
No module declares a RECURSIVE operator, and no definition needs an induction over data.

## 5. Not modelled, and the limits of what is

- The hardware's timing: the time a handler takes appears only as what may come between its steps. One
  pass of the main loop is assumed to take less than a second, and the EIC handler less than a fast
  tick.
- Register synchronisation in the RTC is assumed to succeed; its failure records a fault and abandons
  the operation.
- In `Dispatcher`: the buzzer, LED, shell, UART and settings; the all-face background pass, of which the
  three faces make no use that changes modelled state; the RTC's year wrap, which is in `CompareQueue`.
- In `WearStorage`: raw rows, the unnamespaced write, the calibration record (a third object with the same
  guarantees) and `ecc_write` (`storage.rs:544`), which hands five bytes to a `write` that refuses odd
  lengths: it always fails and nothing calls it.
- In the fault record: the counter, the panic fingerprint and the LED codes. In the UART: the shell's
  commands, the baud rate and `UartWakeState`. In the transfer: the Read command, and the encoding on the
  wire, whose CRC is taken to tell frames from anything else. In the buzzer: the driver's blocking note,
  `play_signal`, and the profile-dependent overflow of a note's duration doubled.
- In the calendar: the week number, durations, `set_local_date_time` (which shares the offset with the
  functions that are modelled) and the names of the zones. `get_weeknumber` (`watch/utility.rs:39`) takes
  the day of the year from one where the library it follows takes it from zero.
- The event log, whose ring is that of the event queue; ECC and UF2 conversions, which are
  pure and tested beside their code; drivers, USB, simulators, the desktop programs and
  the rest of the faces, for the reasons given in `PROJECT.json`. The desktop studio alone is most of the
  repository's lines: a user interface with no protocol or state shared with the firmware, which is why
  the share of the repository's lines that the modules stand for stays small.

## 6. Plan

The modules are in place as planned; of the last row, the calendar is done and the rest open.

| | Module | Composes | Properties | Theorems |
|---|---|---|---|---|
| 1 | `EventQueue` / `EventFifo` | - | order, refinement | done |
| 2 | `Dispatcher` | queue, faces | task slots, settings page, tasks run | done |
| 3 | `CompareQueue` | ALARM0 with minute wake and background alarm | on time, recurring | done |
| 4 | `WearStorage` | signature, settings | newest kept and read | done |
| 5 | `Buttons` | EIC and fast tick | order, suspension | done |
| 6 | `Watchdog` | tick rate, fast tick suspension, standby | no reset of a live loop, a hang is cut | done |
| 7 | `Heartbeat`, `BootThrottle` | packed clock | what they report | done |
| 8 | `UartSession` | UART policy, authorisation, fast tick | sessions and windows end | done |
| 9 | `Transfer` / `TransferStore` | sender, receiver, store, line | refinement | done |
| 10 | `Optical` | decoder, session, light | frames advance | done |
| 11 | `Buzzer` | priorities, player | melodies heard | done |
| 12 | `Calendar`, `TimeZone` | clock, conversions, rules of summer time | agreement with counting | done |
| 13 | ECC, UF2 | - | agreement with reference definitions on bounded inputs | lemmas on single operators |
