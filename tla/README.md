# TLA+ models of the cm2025 earphone firmware

The repository is the firmware of a Bluetooth earphone and USB dongle on an
Actions "cuckoo" chip: a vendored Zephyr kernel with chip drivers
(`src/zephyr`), the vendor's framework (`src/framework`: base, audio, media,
bluetooth, display, ota, system, usb) and the application
(`src/application/bt_earphone`). Media, OTA and Bluetooth engines are partly
binary libraries. This project models the framework's own core in source: what
every application stands on, and where concurrency and power failure meet.

## 1. Inventory

| Component | State it keeps | Operations | Interacts with | What is hard, what must hold |
|---|---|---|---|---|
| `acts_ringbuf` | free-running counters `head`, `tail`, offsets, data area | put, get, peek, claim/finish, fill, stream read/write, drop, copy, reset, defrag | one reader and one writer thread (or the DSP), no lock | every interleaving; counter and offset wrap; failing stream callbacks. Must be a bounded FIFO; the two sides never touch one cell |
| `nvram_config` | flash segments with items; RAM: current segment, write offset, item bitmap | boot scan, set, delete, get, purge, clear_all | `nvram_lock`; flash driver | power failure in any flash operation; sequence number wrap; a full segment. Must be durable, every set atomic |
| `property_cache` | table of cached values, `global_cache_need_flush`, dvfs votes | set, get, flush, flush_req, flush_req_deal | `nvram_config` behind it, `dvfs` beside it, all threads before it | sets against flush loops; a full cache; refused values; power-off. Cache and store are one map; a request is served |
| `app_manager` | list of applications, `actived_app`, `default_app`, `exit_to_default` | active_app, exit_app, thread_exit, notify_app | `msg_manager`, thread termination table, applications' threads | one stack for all applications; lost and dropped messages; racing switches. One thread per stack; calls return |
| `msg_manager` + OS message pool | listeners, pool entries, mailboxes | send_async, send_sync, receive | everything | pool exhaustion; receiver gone between lookup and send |
| `os_wrapper` termination table | threads being waited for | prepare_terminal, wait_terminal | app and service managers | slots leak or are shared; join timeout |
| `srv_manager` | list of services, their threads | active, exit, notify, thread_exit | `msg_manager`, termination table, service threads | walks without the mutex over nodes that may be freed; callbacks dropped at exit. One thread per stack; every service is told; calls return |
| `app_switcher` | plugged applications, `cur_index`, `last_index`, locks | app_switch, add_app, lock, force_lock | `app_manager`, main's messages, the ota application | the mutex is held while applications exit. Switcher and `app_manager` agree; an upgrade is not interrupted and is left again |
| system: standby, wakelocks, power-off | standby state, reference counts and idle times, power-off timer | standby work, lock, unlock, limits | main loop, idle thread, hrtimer, applications, services, bt_manager | locks and timers between a check and the sleep; lost messages. Sleep only suspended and, left alone, again and again; power-off exactly when due |
| ota application | upgrade thread, wakelock | start, stop | `app_switcher`, `app_manager`, binary engine | late or lost requests around start and end |
| bt_manager, TWS, audio, media, usb, display | many | many | binary stacks | see `PROJECT.json` for why they are not modelled |

The list of hazards, each at its line, is in `PROJECT.json`.

## 2. Modules

| Module | Models | Proofs | Abstract specification |
|---|---|---|---|
| `ActsRingbuf` | `framework/base/utils/acts_ringbuf` | `ActsRingbufProofs` | `BoundedFifo` |
| `NvramRegion` | `zephyr/drivers/nvram/nvram_config.c` | `NvramRegionProofs` | `DurableStore` |
| `PropertyCache` | `framework/base/property/property_cache.c` | `PropertyCacheProofs` | `WriteBackStore` |
| `AppManager` | `framework/base/core/app_manager.c`, `msg_manager.c`, `zephyr/framework/osal/os_wrapper.c` | `AppManagerProofs` | - |
| `SrvManager` | `framework/base/core/srv_manager.c` with `msg_manager.c`, `os_wrapper.c`, the loop of `btsrv_main.c` | `SrvManagerProofs` | - |
| `AppSwitch` | `framework/system/app_switcher.c` with main's messages, the calls it makes of `app_manager.c`, `ota_app_foreground.c` | `AppSwitchProofs` | - |
| `SysStandby` | `framework/system/sys_standby.c`, `sys_wakelock.c`, `system_app_check_auto_standby` | `SysStandbyProofs` | - |

Each `MC*` module extends its specification and adds what a `.cfg` cannot
write; a definition whose comment begins "Mutant:" is a wrong version of the
definition after it, kept to show that a property notices the difference.

### ActsRingbuf

State: `head`, `tail`, `head_offset`, `tail_offset`, `data` are the fields of
`struct acts_ringbuf`; `ppc/pbuf/pn` and `cpc/cbuf/cn` are the program counter
and locals of the writer and reader; `got` is the last block handed out. A call
is three to four steps: the check (`PutBegin`, `GetBegin`, `PutClaim`...), the
copy (`PutCopy`, `GetCopy`), the addition to the counter (`PutPublish`,
`GetPublish`: what the other side sees) and the addition to the offset
(`PutAdvance`, `GetAdvance`). `acts_ringbuf_get` is peek plus publication, so
`PeekDone` is the alternative to `GetPublish`. Calls that fail their check
change nothing and are not steps. `acts_ringbuf_copy` is a get from one buffer
and a put to another; one module models one buffer and so each of its ends.
`acts_ringbuf_reset` and `acts_ringbuf_defrag` write both ends and are modelled
where their callers use them: both sides stopped. A stream callback may deliver
less than asked, or fail in the second half of a wrapped transfer
(`StreamReadError`, `StreamWriteError`).

`BoundedFifo` sees the queue, the block the writer hands over (`in`: the
writer's own buffer `pbuf`) and the block the reader is handed (`out`: `got`,
all of `cbuf`). A push appends exactly `in`, a pop hands over exactly what it
removes. `PushPart` and `PopPart` are not steps of that queue: they are what
`acts_ringbuf.c:271` makes of a transfer whose second callback failed, the end
of a written block lost or the end of a read block delivered again, and
`RefinesFifo` allows them in the publication after such a failure and nowhere
else (`StreamFails`).

### NvramRegion

A segment is a header, a sequence number and `NSlot` item slots. Item states
are those `item_check_validity` can tell apart. Each flash operation is one
step; `PowerFailure` may strike before, after or inside it (`TornFlash`: a torn
erase leaves garbage, a torn header is invalid, a torn item is garbage or has
bad data; a state byte is one programmed byte). RAM is lost, flash stays.
Programming over cells that are not erased gives garbage, so a write at a wrong
place is seen. Items have equal size, and a configuration's keys are fewer than
the slots (`CapacityAssumption`; `region_prepare_write_item` does not look at
the space again after a purge). `nvram_lock` makes calls exclusive, so one call
is in progress at a time. `Windows` names three places where the algorithm is
not safe against power failure; the passing run excludes them (`{}`):

| Window | Where power fails | What happens | Shown by |
|---|---|---|---|
| `purge` | while a purge copies items: the new segment is current from its header on | items not yet copied are lost | `nvram_purge` |
| `dup` | between the new item and the obsolete mark of the old one | two valid items of one key; a later set has no effect | `nvram_duplicate` |
| `wipe` | in `nvram_config_clear_all`, after the current segment was erased and before an older one that is still valid | the older data is back after the restart | `RefinesStore`, with four segments |

The third was found by the proof. An old segment can still be valid because
power failed before it was retired; the boot's `region_clear` erases only half
of the region, so with four segments or more (the board's partition has five)
it may survive; and `region_erase` goes upwards from segment 0. With two
segments, as in the runs, `region_clear` reaches the only other one.

### PropertyCache

`cache` is `globle_property_cache`, `nv` the store behind it, abstracted to the
map that `NvramRegion` provides; `votes` is the dvfs counter the code raises
around flash access. A call is cut where it takes or releases
`nvram_cache_mutex` and where it touches the unprotected flag and votes; flush
loops take one item a step. `PrefixOf` says which names are prefixes of others
(`memcmp(item->name, name, strlen(name))`), `TooBig` which values the store
refuses. When memory is short `property_cache_set` writes through although
slots are free: `SetDirect` is always possible.

### AppManager

All foreground applications run on `share_stack_area`, so they also share one
thread id, and with it one mailbox (`inbox`) and one key of the termination
table (`term`). What a client does under `app_manager_mutex` is a step, as is
what an exiting thread does at cooperative priority. The reads outside the
mutex are steps of their own: `ActiveAppExit` (`actived_app->name` after the
unlock), `NotifyApp`/`NotifySend`, `Prepare`/`SendExit`/`Waited`/`Join`. `main`
itself, always listed with a stack of its own, is not in `list`. Applications
in `CanFail` may exit by themselves after a failed initialisation (btmusic);
those in `Linger` still work after they left the list (`ota_deinit` in
`ota_app_main`). `fault` stands for a null pointer being used: the system
stops. `InitApp` may fail (`StartNone`): no memory, a stack in use, or a name
that is not in the table.

What is not ensured, and what the model then shows:

* an application that exits by itself between main's read of `actived_app` and
  its use (`app_manager.c:364`; `CanFail`, btmusic) is a null pointer; in run
  `app` this happens and stops the system, no property forbids it;
* two switching threads (`Switchers = {main, work}`; the att tool,
  `tool_att.c:268`, is a second one) violate `StackExclusive`, share a slot of
  the termination table and reach `fault`; `CurrentIsRunning` still holds;
* `JoinTimeout = TRUE` with a lingering application violates `StackExclusive`;
* `NMsg = 1` violates `SwitchSucceeded` and loses a slot at each failed exit.

Left out, for services too: `msg_manager_add_listener` returns true also when
it got no memory (`msg_manager.c:97-110`). The thread then runs and is listed,
but no message reaches it, and `thread_exit` stops at the failed
`msg_manager_remove_listener` with `actived_app` still set
(`app_manager.c:264-267`).

### SrvManager

Services differ from applications: each has a stack of its own, several run at
once, and callers start them from several threads. `list` is a sequence, since
`srv_manager_notify_service` walks it: `srv` is the walk's node, `tmp` the next
node `SYS_SLIST_FOR_EACH_NODE_SAFE` has saved, `freed` whether that node has
been freed since. A call is a chain of steps: `Start`, `Create`, `AppendNode`,
`Listen`, `SendInit` (the mutex is held from `Create` to `Listen`); `Stop`,
`ExitService`, `SendExit`, `Waited`, `Join` (no mutex, a slot of the termination
table); `Notify`, `Tell`, `Told` (no mutex). `srv_manager_thread_exit` drops
pending messages without their callbacks. `owed` is a history variable: the
services a notification still owes a message.

`Starters`, `Exiters` and `Notifiers` say which threads make which calls, as in
the firmware (main starts and stops bluetooth and notifies from standby;
players start the media service). What depends on that: a notification from
another thread than the one that stops services may wait for ever, the dropped
callback of `srv_manager.c:164`, and may use a freed node (`Notifiers = {app}`
violates `CallsReturn` and `NotifiesAll`); a notification between a service's listing
and its listener ends early (`ListenerGap = TRUE` violates `NotifiesAll`); a
thread that needs 5 s to end is overwritten by the next start (`JoinTimeout =
TRUE` with a lingering service violates `StackExclusive`); a pool without an
entry ends a notification early (`NMsg = 1` violates `NotifiesAll`) and, at an
exit, leaks a slot (`srv_manager.c:211`). `Create` may fail for lack of memory. A service that does
not call `srv_manager_thread_exit` (outside `Leaves`; `_ui_service_exit` in
`libdisplay` is one, in no product configuration) violates `ExitedIsGone`
once it is stopped. `srv_manager.h:152` says that activating an active service
returns true; `Create` shows that the code returns false.

### AppSwitch

`queue` is main's mailbox, `mpc` main's place; `switch` and `wait` are the part
of `app_switch` inside `app_manager_active_app`, with `app_switch_mutex` held.
`app`, `inbox` and `actived_app` are the one foreground application, whose life
cycle `AppManager` models in detail; here its exit is one step (`AppExit`).
`OtaStart` (a phone connects), `AppReady`, `OtaInit` and `OtaStop` are the ota
application and its upgrade thread, `wake` the wakelock they hold. `AppFails` is
any other application that cannot initialise and exits by itself, after which
none runs until main is asked for another one. The switches are those main
makes: start-up (`Launch`), `MSG_START_APP` (forced), recording on and off (not
forced), the TWS lock, power-off. `displaced` is a history variable: what ran
when ota was switched to.

`DongleStart`: a dongle that connects over BLE writes 0xf5, and the Bluetooth
service itself calls `ota_init` (`ota_tws_sppble_stream.c:445-449`), with or
without an ota application. `data_chan` is that value, which only the next BLE
connection changes. A thread that starts with it loops for ever
(`ota_process_deal`, 1152-1177): it is `dongle`, not `upgrade`, no `OtaStop`
follows, and later calls of `ota_init` return -EALREADY (1208-1211), which nobody looks at. So a phone's
upgrade while a dongle's thread exists never starts, and the ota application
keeps the switcher locked: `OtaLeaves` excepts exactly this. Abstractions: the
thread reads the value at its creation; a dongle may connect at any time (the
code asks that the stream is not connected, so the model allows more);
what a dongle's thread does with its commands (`hid_ota_init` among them) is
not modelled.

`app_switch_lock` is only called in the build with TWS retransmission;
`app_switch_unlock` needs a current application named `tws`, which is not in
`app_id_list`, so `locked` is never cleared. A null name comes only from
`ota_app_stop`, with `APP_SWITCH_LAST` and forced, so the search for the next
plugged application is not reached.

`Windows` names what the code relies on and does not ensure. With it open:

| Window | What may happen | Violated |
|---|---|---|
| `start` | main handles a switch before the new ota thread has run | `CallsReturn`, `OtaLeaves` |
| `end` | another switch is pending when the upgrade ends | `OtaUninterrupted`, `ReturnsFromOta` |
| `pool` | a message to main, or ota's message to itself, is lost | `WakeBalanced`, `OtaLeaves` |
| `exit_lost` | the exit message of the current application is lost: `init_app` is refused with `cur_index` already moved | `CurIsActive`, `ReturnsFromOta`, `WakeBalanced`, `OtaLeaves` |
| `start_fails` | the application's thread cannot be created | `WakeBalanced` |
| `nomem` | `ota_init` has no memory | `OtaLeaves` |
| `reconnect` | a second peer connects during an upgrade | `WakeBalanced` |
| `poweroff` | power-off is requested during an upgrade | `OtaUninterrupted` |

### SysStandby

One thread, main, runs the standby work (`pc` is its place; it waits inside for
the suspend and resume answers and for the wake-up); holders of wakelocks, the
idle thread, interrupts and time interleave with it. Idle times count up to
`MaxIdle`, beyond every limit that can be compared; `Wrap` stands for 2^32 and
`Never` for the limit -1. `CheckAutoStandby` changes the limits as the
application does (idle, connected, busy, powering off). `Windows`:

| Window | What may happen | Violated |
|---|---|---|
| `wakelock_in_suspend` | a lock is taken while parts suspend | `SuspendedExactlyInStandby` |
| `wakelock_before_sleep` | ... between the last check and the sleep | `SleepsUnlocked`, `PowerdownOnlyIdle`, `FullLockWakes` |
| `timer_awake` | the power-off timer expires while main is awake | `PowerdownOnlyIdle`, `PowerdownHappens` |
| `device_refuses` | a device does not suspend | `WaitsForWakeUp`, `FullLockWakes`, `EventuallySleeps` |
| `no_app` | no application is in the foreground | `FullLockWakes`, `EventuallySleeps` |
| `pool` | a message finds no pool entry | `SuspendedExactlyInStandby`, `PowerdownHappens` |

The closed windows are assumptions on the rest of the firmware, not facts about
this code. The passing runs show that the models need no others; what the
models leave out (section 5, and the notes on `AppManager` and `AppSwitch`) is
assumed besides. The proofs say which windows each property needs.

## 3. Runs

| Run | Shows | Bounds |
|---|---|---|
| `ringbuf` | the lock-free buffer refines `BoundedFifo`, with the named exception of a failed second stream callback; separation, valid claims, counters | Size 3, Wrap 5: the counters wrap at a number that is no multiple of the size, and both wraps happen many times |
| `nvram` | refinement of `DurableStore` under power failure everywhere but in the windows; bitmap, write offset and room | 2 segments of 3 slots, 2 keys, sequence numbers modulo 4: purges, ring and number wrap are all reached. The `wipe` window needs four segments; `NSeg = 4`, `NSlot = 2` passes too (1.1 million states) and is left to the proof |
| `nvram_duplicate`, `nvram_purge` | findings: the windows `purge` and `dup` | as above |
| `property` | cache and store are one map, `property_flush(NULL)` persists it, requests are served | 2 threads, 2 keys, 2 slots, one refused value, votes up to 2 |
| `property_prefix` | finding: the first set of the longer name changes what a get of the shorter one returns | 1 thread, two keys, one a prefix of the other |
| `app` | one switching thread (`main`), notifications, posts, starts that fail, one application that lingers and one that exits by itself; calls return | 3 applications, 2 clients (`main`, `work`), a pool of 6 entries |
| `standby` | suspend, wake-up and power-off, safety and liveness | standby after 2, power-off after 4 ticks, idle times to 6: both limits can expire first, in and out of sleep; 2 holders of each lock |
| `standby_wakelock` | finding: a lock taken before the sleep is not seen | as above, window `wakelock_before_sleep` open |
| `srv` | starts, a stop and notifications of services by concurrent threads | 3 services (one lingers, one does not leave), 3 clients, 3 slots, 5 pool entries, which suffice: what a lost message does is said under `SrvManager` |
| `app_switch` | switches, locks, upgrades, dongles and failing applications in any order | 4 applications, 2 pending messages: one request can be pending before or behind that of an upgrade |
| `app_switch_ota` | finding: deadlock of main and ota | 3 pending messages, window `start` open; threads at a deadlock stop, so deadlock is not checked and `CallsReturn` is violated under the same fairness |

Why the bounds are enough: two threads, two keys, two applications and two
segments are the least numbers at which every conflict of the code exists (all
its loops and searches compare two things at a time); the properties that
matter most are proved without bounds. A passing run with a violated mutant for
each property shows that its cases really occur.

The type invariants (and `LoopsExclusive` of `PropertyCache`) are proved for
every instance and left out of the runs, except that of `NvramRegion`, whose
ranges (write offset, segment and sequence numbers) are the code's limits.

### Fairness

`PropertyCache.FairSpec`: a thread inside a call keeps running (weak fairness
of its steps); the Zephyr mutex hands over to a waiter when it is released
(strong fairness of taking the lock); the main loop deals requests again and
again whenever it is idle, `system_app_monitor_work` (strong fairness of
`DealBegin(Main)`), which assumes that media playback and busy links end.
`AppManager.FairSpec`: ready threads run, and an application handles its
messages (weak fairness); nothing is assumed of the environment, which need not
call anything. `SrvManager.FairSpec`: every service thread and every call under
way gets on, also when it competes for the mutex (strong fairness, the mutex is
handed to its waiter). `AppSwitch.FairSpec`: main and the application's thread
run (weak fairness); an upgrade ends, by success or by the timeouts of its back
end, and its thread gets the mutex it waits for (strong fairness of `OtaStop`).
Nothing is assumed of a dongle's thread, which never ends.
`SysStandby.FairSpec`: main's work, the idle thread and time go on; no wakelock
need be released, no wake-up need come, no limit need change.

### Findings

Five runs end in a violation; `PROJECT.json` quotes the line that each
contradicts. In short: power failure inside a purge loses configuration, and
after a set may leave an old value in force; keys that are prefixes of others
are confused in the cache; a wakelock taken just before the sleep does not
prevent it; a switch that comes while the ota application starts
deadlocks it with main.

Each row of the two tables of windows above, and each parameter of `SrvManager`
named there, is a result of the same kind at a smaller scale: TLC violates the
properties named when the constant is changed in the `.cfg`.

Three defects are visible in the modelled code and have no run of their own: a
failed second stream write makes `acts_ringbuf_read` consume fewer elements than
it delivered (`acts_ringbuf.c:271`, `PopPart` in `RefinesFifo`); a flush request that
arrives while requests are dealt makes the dealer return a dvfs vote it never
took (`property_cache.c:296`); a failed notification unlocks a scheduler nobody
locked (`app_manager.c:411`).

Three more limits showed while modelling: a
defragmented full buffer offers no room to `acts_ringbuf_put_claim` until its
next reset; a value longer than the store accepts is acknowledged by
`property_cache_set` and never stored (`FlushReqServed` excepts it); with an
empty message pool `app_manager_active_app(NULL)` reports success while the
application keeps running (`app` uses a pool that does not run out).

## 4. Proofs

Every theorem holds for every value of the constants that satisfies the
modules' assumptions and the hypotheses the theorem names. Each inductive
invariant was checked by TLC before it was proved. Every safety property of the
passing runs is the subject of a theorem.

| Property | Theorem | Hypotheses besides the modules' assumptions |
|---|---|---|
| `ActsRingbuf`: `CountersAgree`, `ClaimsStayValid`, `NoOverlap`, `RefinesFifo` | `CountersAlwaysAgree`, `ClaimsAlwaysValid`, `LockFree`, `RingbufIsFifo` | none |
| `ActsRingbuf`: `BoundedFifo` without exception | `RingbufIsExactFifo` | `StreamErrors = {}`: no stream callback fails half-way |
| `PropertyCache`: `OneSlotPerKey`, `FlushAllPersists` | `OneSlotAlways`, `FlushAllAlwaysPersists` | none |
| `PropertyCache`: `RefinesStore` | `CacheIsStore` | no name is a prefix of another (`property_prefix` shows why) |
| `NvramRegion`: `TypeOK`, `RoomForWrite`, `SetTakesEffect` | `TypeCorrect`, `AlwaysRoomForWrite`, `SetAlwaysTakesEffect` | `dup` closed |
| `NvramRegion`: `BitmapExact` | `BitmapAlwaysExact` | `dup` closed, `RingFits` |
| `NvramRegion`: `RefinesStore`, `NothingLost` | `RegionIsStore`, `NothingEverLost` | all windows closed, `RingFits` |
| `AppManager`: `CurrentIsRunning` | `CurrentAlwaysRunning` | none |
| `AppManager`: `StackExclusive` | `StackNeverSharedByOne` | `OneSwitcher`, joins do not time out |
| `AppManager`: `SwitchSucceeded` | `SwitchAlwaysSucceeds` | `OneSwitcher`, `PoolSuffices` |
| `SrvManager`: `StackExclusive`, `ListedRuns` | `StackAlwaysExclusive`, `ListedAlwaysRuns` | no service lingers (and every service leaves) |
| `SrvManager`: `ExitedIsGone`, `StackExclusive`, `ListedRuns` | `ExitedAlwaysGone`, `OwnedStackExclusive`, `OwnedListedRuns` | `Owned(m)` |
| `SrvManager`: `NotifiesAll` | `AlwaysNotifiesAll` | `Alone(m)`, `[]PoolReady`, no listener gap |
| `AppSwitch`: `CurIsActive`, `OtaUninterrupted`, `ReturnsFromOta` | `CurAlwaysActive`, `OtaNeverInterrupted`, `AlwaysReturnsFromOta` | `end`, `poweroff`, `exit_lost` closed |
| `AppSwitch`: `WakeBalanced` | `WakeAlwaysBalanced` | all windows closed |
| `SysStandby`: `SuspendedExactlyInStandby`, `WaitsForWakeUp`, `PowerdownOnlyIdle` | `SuspendedAlwaysInStandby`, `WaitsAlwaysForWakeUp`, `PowerdownAlwaysIdle` | the windows each names |

`TypeCorrect` is proved for every module as well.

### The arguments

* `ActsRingbufProofs`. Invariant `TypeOK /\ CountersAgree /\ ClaimsStayValid`.
  `CountersAgree` alone is not inductive: that a publication keeps the length
  within `Size` needs that the claim checked earlier is still valid, which in
  turn holds because the other side only ever enlarges it. `LockFree` (no common
  cell) follows with a lemma on cells at different distances from one place.
  `RingbufIsFifo` needs besides `BlockIsPrefix`: what the reader has copied out
  and not yet published is still the front of the unread data, because the
  writer's stores miss it; and `BlockIsStaged`: what the writer has copied in and
  not yet published is its block, in the cells behind the unread data. A step is then an append of that block,
  a removal at the head, or nothing. `RingbufIsExactFifo` adds that without
  stream errors the count published is always the length of the block. Assumptions: `Size > 0`, `Wrap > Size`.
* `PropertyCacheProofs`. Invariant `TypeOK /\ OneSlotPerKey /\ LoopsExclusive
  /\ PassedFlushed`, where `PassedFlushed` says that what a flush loop has
  passed is out of the cache or was refused. It is kept because the mutex keeps
  the others out of the table; `FlushAllPersists` follows at the loop's end,
  prefixes or not. That a search has a first hit comes from the library's
  well-foundedness of `<`. Without prefixes a search finds exactly the key's
  slot, so every step is a set, a flush or a stutter of `WriteBackStore`.
* `NvramRegionProofs`. `IInv` relates RAM to the current segment in every phase
  of a call: valid items are complete and of different keys, in old segments too
  (`SoundInv`), bitmap and write offset are those of the segment and a purge's
  copies come from its source (`RamInv`), and between new item and obsolete mark
  the two are each other's only doubles (`OldInv`). With `CapacityAssumption`
  the copies are fewer than the slots, so one purge makes room. `BitmapExact`
  needs besides what `region_scan` would choose: `RingInv` says that the valid
  headers' numbers count up around the ring to that of the current segment, so
  the signed 8-bit comparison orders them through every wrap if `RingFits`
  (`NSeg - 1 <= (SeqMod - 1) \div 2`: at most 128 segments; there are five). The refinement
  adds `PrefixInv` (valid items lie before anything torn, so a scan sees them
  all), `CopiedInv` (a purge has copied what it passed) and `CallInv`. `Scan` is
  a recursive function; its facts are proved from the least index at which they
  would fail, which needs the well-foundedness of `<` and no induction theorem.
  The hypotheses are needed: opening a window violates the property in TLC.
* `AppManagerProofs`. Invariant `TypeOK /\ CurrentIsRunning /\ ListMatches`
  (the listed applications are those whose thread is before its exit). It gives
  that `actived_app` is the listed application and that the pool limit is kept,
  whatever calls race. `OneSwitcher` (only main switches, as
  `app_switcher` arranges in the product, and no application gives up by itself)
  adds that an exit is pending exactly while main waits for it, and that the slot
  main finds in the termination table is its own. It excludes the att tool and
  a btmusic that fails to initialise; run `app` has the latter. `PoolSuffices` (an entry for every client and
  every posted message) makes every exit message arrive.
* `SrvManagerProofs`. `ListInv` (the list has no duplicates, and the client
  that holds the mutex is the one between `Create` and `Listen`), `AliveInv` (a
  live thread is listed or is just being listed) and `NodeInv` (and conversely)
  hold for any callers. `Owned(m)` describes the firmware's use: whatever is
  ever stopped is started and stopped by one client `m` (main for bluetooth) and
  calls `srv_manager_thread_exit`; joins do not time out; anyone may start the
  others and notify. Then the exit message is the only one of its kind
  (`MailInv`), and the stop's place says how far the thread is (`StopInv`), so
  the thread has ended when the call returns. `Alone(m)` adds that `m` is also
  the only notifier (standby, in main): its walk and its stops exclude each
  other, so no node is freed under the walk (`FreedInv`), and what others append
  meanwhile comes behind what the walk still owes (`WalkInv`). `PoolReady` (an
  entry is free whenever a notification is sent) is a
  hypothesis on the behaviour, true in run `srv`; the code ignores the failure.
* `AppSwitchProofs`. One invariant of twelve parts: besides the stated properties,
  the switcher is locked only by a running ota application, and then main is
  not in `app_switch` (`LockInv`); the application's mailbox says where main is
  (`InboxInv`); `last_index` is another application and known once ota is
  current (`IndexInv`); the request to leave ota is the next message main takes
  (`LastInv`); while ota is current `last_index` is the application that was
  displaced (`ReturnInv`); and an ota application that has unlocked the switcher
  had a thread of its own, not a dongle's (`DongleInv`). `WakeBalanced` adds `BalanceInv`: the wakelock is held exactly while
  an upgrade is on its way, and an ota application whose upgrade is over is left
  with main's next message.
* `SysStandbyProofs`. `SuspendedAlwaysInStandby` rests on `Stage`, which relates main's place to the
  parts already suspended. `PowerdownAlwaysIdle` rests on `PartialNotLonger`
  (while FULL is free, PARTIAL has not been free for longer, because releasing
  FULL restarts both) and `TimerCovers` (the timer's remaining time plus FULL's
  idle time reaches the limit until the sleep is over), next to `SleepReady` (a
  requested sleep, and the sleep, are unlocked while `wakelock_before_sleep` is
  closed).

Only model-checked: the liveness properties (`CallsReturn` of three modules,
`FlushReqServed`, `FullLockWakes`, `EventuallySleeps`, `PowerdownHappens`,
`OtaLeaves`), since the prover handles neither fairness nor `ENABLED`. The runs
`nvram_duplicate`, `nvram_purge`, `property_prefix`, `standby_wakelock` and
`app_switch_ota` show
what the hypotheses of the theorems exclude.

## 5. Not modelled, and the plan

What would come next:

1. Proofs: `StackExclusive` and `SwitchSucceeded` of `AppManager` with
   applications that exit by themselves; `NotifiesAll` where notifier and
   owner differ but do not overlap; `FlushAllPersists` joined with
   `NvramRegion` by composing the two refinements.
2. `RingbufCopy`: two instances of `ActsRingbuf` joined by `acts_ringbuf_copy`.
3. The property API's conversions (`property_set_int` and the array variants).
4. The power-off sequence after its message, with `property_flush`.

Known hazards that no property covers, besides those listed in `PROJECT.json`:

* `nvram_config.c:1180`: `nvram_config_set_factory` and its companions use the
  shared `nvram_buf` without `nvram_lock`; the factory region is not modelled.
* `nvram_config.c:254`: `region_copy` tests a stale `err` after a write; only
  power failure is modelled, not errors of the flash driver.
* `nvram_config.c:563`: `name_size` of a torn header is not checked against the
  buffer; item sizes are abstract.
* `property_cache.c:147`: a resized value's allocation is not checked; memory
  runs out only where the code handles it.
* `property_manager.c:102`: `property_set_int` and the array setters return
  -EACCES for the 0 of a successful `property_set`; conversions are not modelled.
* `app_manager.c:282`: the request to start the default application is lost with
  an empty pool; the loss is a step, no line promises the restart.
* `app_manager.c:399`: `notify_app` keeps a next node over a wait, as
  `srv_manager_notify_service` does; only the latter's nodes are modelled.
* `tool_att.c:268`: the test tool activates an application past the switcher, so
  it is also a second switching thread of `app_manager`; slots of the
  termination table leak and null pointers are used in the orders named under
  `AppManager`.
* `msg_manager.c:97`: a listener that gets no memory is reported as added.
* `btmusic_main.c:203`: after a failed initialisation no application runs, and
  `app_switch` to the same application does nothing, because `cur_index` still
  names it; `CurIsActive` says nothing while none runs.

Left out for good, with reasons in `PROJECT.json`. Most of the repository's 1.7
million lines are not this program: vendored Zephyr, CMSIS, LVGL, FatFs and
other third-party code, fonts and tables, and chip drivers, whose behaviour the
models take as documented (mutexes, semaphores, joins, timers). Media, OTA and
the Bluetooth stack are binary libraries; `bt_manager` answers the events of
that stack, and which orders of events are possible is not in the source. The
user interface and device I/O keep little protocol state; factory test tools
are not part of the product's operation.
