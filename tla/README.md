# A verification of the RT-Thread kernel of RTRetroGame

RTRetroGame (`src/`) is a handheld console: emulators, a launcher and a UI
framework on top of the real-time operating system RT-Thread, for an STM32H7
(one Cortex-M7) and a simulator. The emulators and widgets are sequential; what
all of them stand on, and what is hard to test, is the kernel: threads of 32
priorities, interrupts that nest, timers, and objects on which threads block
with and without timeouts. This directory models the kernel in
`src/software/firmware/rt-thread/src`, and of `components/drivers` what drivers
and interrupts share with threads, as the firmware configures it (one processor,
no SMP, no signals, `RT_USING_MESSAGEQUEUE_PRIORITY` off, `RT_USING_POSIX_STDIO`
on; assertions only in the simulator).

## Inventory

| component | state | operations | interacts through |
|---|---|---|---|
| Scheduler (`scheduler_up.c`, `scheduler_comm.c`) | ready queues, bit map of priorities, running thread, lock depth, states and masks of threads, time slices | insert, remove, `rt_schedule`, enter/exit critical, tick, change of priority | called by everything that readies or suspends a thread |
| Threads (`thread.c`) | state, error number, timer, list node | startup, yield, sleep, suspend, resume, timeout, control, exit, delete | scheduler, timers, the lists of the objects waited for |
| Suspend lists (`ipc.c:60-285`) | list of waiters of an object | enqueue (FIFO or by priority), dequeue, resume all | threads and their timers |
| Semaphore | value, limit, waiters | take, trytake, release, control, detach, delete | suspend lists, interrupt handlers |
| Mutex | owner, hold, priority, ceiling, waiters, list of taken mutexes | take, release, ceiling, detach, drop_thread | priorities of other threads, end of threads |
| Event | flags, waiters with their demands | send, recv, control, detach, delete | suspend lists, interrupt handlers |
| Mailbox | ring of words, senders and receivers waiting | send, send_wait, urgent, recv, control, detach, delete | suspend lists, interrupt handlers |
| Message queue | pool of slots, linked messages, senders and receivers waiting | as the mailbox, with copies outside the lock | suspend lists, interrupt handlers |
| Timers and clock (`timer.c`, `clock.c`) | sorted lists of hard and soft timers, tick, semaphore of the timer thread | start, stop, detach, control, check, soft timer thread | tick interrupt, thread timeouts, callbacks |
| Memory pool (`mempool.c`) | free blocks, waiting allocators | alloc, free, detach, delete | suspend lists |
| Heap (`mem.c`, `memheap.c`, `slab.c`) | chain of blocks | alloc, realloc, free | callers under one lock |
| Objects, defunct threads, idle | registry, list of ended threads | init, detach, enqueue, execute | thread end, idle thread |
| Completion (`completion_*.c`) | one word: done, or who waits | wait, done | the waiter's timer, interrupts |
| Work queue (`workqueue.c`) | pending and delayed work, work under execution, completion, acknowledging semaphore | submit, delayed, urgent, cancel, cancel_sync, cancel_all, destroy; the worker | any thread, interrupt or work function |
| Data queue (`dataqueue.c`) | ring of items, two lists of waiters | push, pop, peek, reset, deinit | suspend lists, interrupts; audio and serial DMA use it |
| Serial device (`dev_serial.c`) and its reader | receive ring, wait queue, transmit completion or data queue, `activated` | open, read, write, the interrupt events | hardware, completion, data queue, wait queue, shell |
| Wait queue, condition variable, pipe, ring buffers | flag and list; indices | wait/wakeup; put/get | threads, callbacks, poll |
| Device framework, audio, file systems, network, USB, libc, shell | buffers and registers | I/O | drivers, interrupts |
| Boards, emulators, launcher, UI framework | hardware registers, machine state, widgets | | kernel services |

What is hard here: an interrupt can come between any two sections that run with
interrupts disabled; the tick interrupt takes an expired timer off its list,
*unlocks*, and only then calls back; a waiter that was readied runs later and
finds a world that has moved on; a thread may be deleted or resumed by others
in every one of these gaps; and mutexes change the priorities of threads that
wait elsewhere. `PROJECT.json` lists each hazard at its line with the
properties for it.

What would make each component correct: the scheduler always runs a most
urgent thread and never loses one; an object never keeps what a sleeper wants;
what is given (units, flags, mails, slots) is neither lost nor doubled; waiters
are served in the order promised; a timed wait ends; a mutex excludes, inherits
priorities along chains, and gives them back; the rings and chains of the
queues behave like queues; a timer fires in time, in order and only while it is
wanted; work is executed once, in time, or cancelled; a block is in one hand; a
serial line keeps the last bytes in order and wakes its reader.

## Modules

The kernel disables interrupts (or holds the scheduler lock with interrupts
disabled) around each section that touches shared state, so **one action is one
such section**, with every call it makes. Where a function gives the lock up
and goes on (to sleep, to copy a message, to call a timer back) the rest is
another action, and what the function remembers in between is state.

| module | models | state |
|---|---|---|
| `WaitList` | `rt_susp_list_enqueue`, `rt_list_remove` | none: operators on sequences of threads |
| `SuspendList` | how waits begin and end: `rt_thread_suspend_to_list`, `rt_susp_list_dequeue`, `rt_susp_list_resume_all`, `_timer_check`, `_thread_timeout`, `rt_thread_resume`, `rt_thread_close` | `susp` lists, `armed` (timers on the timer list), `ttmr` (`sched_flag_ttmr_set`), `error`, `expiring` (thread whose timer is popped and not called back), `prio` |
| `Semaphore` | `rt_sem_*` | `value`, `maxValue`, `alive`, `pc` of each thread, `balance`, `lost` (history: units released minus taken; units that went to a thread about to be called back) |
| `RecursiveLock` | what a mutex promises its users: `held` per thread and mutex | abstract specification |
| `Mutex` | `rt_mutex_*`, the end of a thread that has mutexes | owner, hold, priority, ceiling, waiters, taken lists, pending objects, priorities, calls in progress; `held` for the refinement |
| `Scheduler` | `rt_schedule`, ready queues, scheduler lock, ticks, thread states | `stat`, `yield`, `prio`, `mask`, `ready`, `group`, `current`, `remaining` slices, `nest`, `owes` (who has yet to reach `rt_schedule`) |
| `BoundedQueue` | what mailbox and message queue promise: a queue of at most *Size* items, urgent ones first | abstract specification |
| `Messaging` | what mailbox and message queue share: who waits on either side, whose wakeup is under way, waking the first of a list | `alive`, `pc` of each thread, `lost` (history: a wakeup that met nobody) |
| `Mailbox` | `rt_mb_*` | ring, `entry`, `in`, `out`, two suspend lists, calls in progress |
| `MessageQueue` | `rt_mq_*` | `next` links, head, tail, free list, `entry`, contents, two suspend lists, slots in transit |
| `Event` | `rt_event_*` | flags, demands, calls in progress; `sent`, `owed`, `lost` (history) |
| `Deadlines` | what timers promise in true time: who is due when, in which order they fire | abstract specification |
| `Timer` | `rt_timer_*`, `rt_tick_increase`, `_timer_check`, the timer thread | `tick`, the lists, where each check is and the timer it has popped, `sem`, flags, `time`; `wanted` and `Deadlines` (history) |
| `Completion` | `rt_completion_*` for one waiter: operators | the word, whether the waiter sleeps, its timer |
| `WorkQueue` | `rt_workqueue_*`, `rt_work_*`, the worker thread | the two lists, `current`, worker phase, acknowledging semaphore, cancellers, the loop of cancel_all (`clearing`, `step`, `victim`) and destroy, `tick`; `left`, `asked`, `cutOff` (history) |
| `MemPool` | `rt_mp_*`: operators | free list, alive |
| `DataQueue` | `rt_data_queue_*`: operators | ring, two flags, indices, stage of a reset |
| `Blocks` | pool and data queue used together, as the replay path of `dev_audio.c` does | the two above, who has which block, calls in progress; `lost` (history) |
| `LastBytes` | what a serial line promises its reader: the last bytes, in order | abstract specification |
| `SerialRx` | the receive events, `_serial_int_rx`, `_serial_dma_rx`, `serial_fops_open/read`, the wait queue for its one reader | ring, indices, `is_full`, `rx_indicate`, wake flag, the reader |
| `SerialTx` | `_serial_int_tx`, `_serial_dma_tx`, the transmit events | text and place in it, completion, hardware; data queue, `activated`, each writer, buffer on the wire; `sent`, `outrun` (history) |
| `Serial` | both sides of one device | |
| `MC*` | instances for TLC | |
| `WaitListProofs` | lemmas on the operators the models share | |
| `EventProofs`, `MailboxProofs`, `MessageQueueProofs`, `BlocksProofs` | theorems and proofs about the module of that name | |
| `TimerSemaphoreProofs` | theorems and proofs about `Semaphore`, then about `Timer`: two components that share no name | |
| `SchedulerSerialProofs` | the same about `Scheduler`, then about `Serial` | |
| `WorkQueueMutexProofs` | the same about `WorkQueue`, then about `Mutex` | |

`Semaphore`, `Event`, `Messaging` (which `Mailbox` and `MessageQueue` extend), `MemPool` and
`DataQueue` extend `SuspendList`, the part of the kernel they share, and so meet the same expiries,
resumes and deletions. `Mutex` extends `WaitList` and has its own account of waits, since a
mutex may not be used in interrupts and its operations hold the scheduler lock:
an expiry is one action (`MutexWaitEnds`) there.

The code's `thread->error`, timer flag and list membership are kept apart
because the code keeps them apart: `sched_flag_ttmr_set` may be set for a timer
that is no longer on the list, which is exactly the gap the properties are
about. `Raced(t)` names that situation: `rt_sched_thread_timer_stop` fails.

Reading aids: `Faulty:` marks operators no specification uses; each is the
definition that follows it with a mistake, kept to show that a property notices
(`mutants` in `PROJECT.json`).

### Choices of abstraction

* *Time.* Ticks are not counted in the blocking objects. A thread that waits
  with a timeout has an armed timer, and any armed timer may expire at any
  time. A retry with the rest of the timeout may find it used up; the data queue
  takes the whole timeout again, as the code does. `Timer` and `WorkQueue` count
  ticks, modulo `Ticks`.
* *Timers.* A list is a sequence of entries (timer, timeout): skip lists have
  one level as configured. A detached timer is one that may be initialised again.
  The list head on the stack of `_timer_check` is `popped`, at most one timer.
* *Work items.* The flags PENDING and SUBMITTING of a work item are set and
  cleared but nowhere tested, and are left out. The worker's timed sleep may end at any
  moment, since anybody may resume the worker.
* *Serial hardware* is external: it has room for one character or transfers one
  buffer. The bytes of a DMA block are taken to be in the ring when its event
  comes. A writer whose data queue is full does not push; how it waits is in
  `Blocks`. In interrupt mode one thread writes at a time, and there is one
  reader (`rt_wqueue_wakeup` wakes one, however many bytes there are).
* *Interrupts.* `ThreadContext` holds unless a popped timer has not been called
  back. Operations of threads are possible only then. Operations that handlers
  may call (release, send, urgent, submit, receiving without timeout from a mailbox
  or queue) are possible always: the tick has the lowest priority on this board
  (`SysTick` 0x0F; `drv_sdio.c` sends events at priority 0), so handlers do come
  between the pop of a timer and its callback, more than once.
* *Delete and detach* of the objects differ only in who frees the memory, except
  that `rt_mb_delete`, `rt_mq_delete` and `rt_event_delete` resume the waiters
  with interrupts enabled; an expiry in between only fails a waiter that would
  be failed anyway.
* *Waiters in the mutex.* Takes and releases hold the scheduler lock, and
  expiries lock it as well; an expiry between the sections of one operation
  commutes with it. A thread that ends releases its mutexes in any order (`Orders`):
  the list's order is that of its takes, which may be any.
* *Cancelling all work.* `rt_workqueue_cancel_all_work` locks the scheduler, not the
  interrupts, so the test of a list, the read of its first entry and the locked
  cancellation are three actions (`FindsWork`, `ReadsFirst`, and `CancelFirst` or
  `CancelHead`), between which handlers submit, delay and cancel. If the list became
  empty, the "first entry" is the head itself. Its removal leaves what was submitted
  meanwhile linked only to itself (`cutOff`). Its flags are the low half of
  `work_current`, which names no work then, also if the cancelling thread is a work function. The other fields written there, in the name and
  the links of the semaphore as a kernel object, are read by nothing modelled.
* *Resets.* One reset or deinit of a data queue, and one cancel_all or destroy of
  a work queue, is under way at a time. Nobody turns to a work queue once
  `rt_workqueue_destroy` was called for it (`InUse`): its memory is freed next.
* *Priorities* are small numbers, 0 the most urgent; `NoPrio` stands for 0xff.
* *Size of messages*, names, hooks, logging and object registration are left out.

## Runs

Passing runs (state counts of complete explorations):

| run | states | question |
|---|---|---|
| `Semaphore_core` | 104 616 | no unit is doubled or beside a sleeper, none is lost but to a thread about to be called back, which is inside its take (`TakersServed`); waiters in order; a timed take returns |
| `Mutex_core` | 1 004 072 | exclusion (`RefinesLock`), also when owners are deleted; hold counts, taken lists, nobody waits for a free mutex (`OwnershipAgrees`); inheritance and its return, with ceilings, expiries, detached mutexes and ends of threads |
| `Scheduler_queues` | 452 208 | queues, bit map, states and the running thread agree (`QueuesAgree`); the scheduler lock keeps the processor; no forgotten rescheduling; no starvation among equals |
| `Messages_core` | 515 407 | mailbox and message queue each implement `BoundedQueue`; no lost slots, counter and ends agree with the chain; no lost wakeups in either |
| `Event_core` | 1 273 166 | no flag is lost but to a thread about to be called back; one send serves all others it satisfies, receivers get what they asked for |
| `Timer_core` | 689 232 | implements `Deadlines`; a timer runs exactly while it is wanted; the timer thread does not sleep over a due timer |
| `WorkQueue_core` | 1 176 600 | each submission is executed once, cancelled, or cut off by cancel_all, not before its delay, in order; the worker does not sleep beside work, and pending work does not wait for ever |
| `Blocks_core` | 1 452 262 | a block is in one hand; the data queue implements `BoundedQueue`; nobody sleeps beside a block, an item or room below the mark |
| `Serial_core` | 360 358 | the ring implements `LastBytes` and adds all that comes; nobody sleeps beside input, room or an idle line; what is written is sent once and in order |

`WorkQueue_sync`, `Mutex_deleted` and `Semaphore_nested` end in violations and are described
below.

### Bounds

Two or three threads, because the interesting cases need one thread inside a
gap, one that takes its place and one that waits behind them; where handlers
can do what a thread does (release, send, receive) they are the third party and
two threads are enough. Priorities are distinct so that order is visible, and
equal where turns are the question. Two mutexes make chains of owners (three
threads, three priorities); `HoldMax = 2` tells recursive from single takes and
reaches the limit; one value of a ceiling lies between the priorities.
`Rounds` bounds the loop of `_thread_update_priority`, which has no bound in the code:
from an owner that is not waiting, or whose due priority has not changed, further
rounds change nothing. `RoundsAssumption` asks for as many rounds as there are pairs of a
thread and a priority, 12 in `Mutex_core`, and no loop that starts with the lists in
order is longer (proved, `UpdateOrderly`): the bound cuts nothing short. With two
mutexes one round would do (without the assumption, TLC finds the same states with 1,
2, 3, 6 and 12).
`ValueMax = 2` lets a semaphore be empty, between and full. The history counter
`balance` is cut at `BalanceMax`, above what the units and takers can be.
Mailbox and queue have three and two slots (empty, between, full, both ends
moving) and two values, so that overtaking shows. Two flags tell AND from OR.
`NestMax` bounds the depth of the scheduler lock; `PrioMax` is the number of
ready queues.

Counters of ticks have three bits (`Ticks = 8`), half ranges of three, so that
they wrap between any two events; `Times = {1, 2}` and `Delays = {1, 2}` put
timers before, beside and behind each other; `MaxLate = 1` lets the timer thread
and the worker lag by a tick, and bounds the lag as the code supposes a bound:
lag and time together stay within half the range (`TimerAssumption`,
`WorkQueueAssumption`), since a new entry is compared by its difference to the
latest one still listed. `RT_TICK_MAX / 2` ticks are 24 days at 1 kHz. One hard and
two soft timers: one in its callback, one that is inserted. Two works and one canceller, besides the anonymous threads, interrupts
and work functions that submit and cancel. `Blocks_core` has three blocks for a
ring of two and a low water mark of 0, so that each of pool and ring can be empty
while the other is full. `Serial_core` has a ring of three bytes of two values
(blocks up to the whole ring, wrapping on either side of the reader), reads of
one and two bytes, a data queue of two for two writers and three buffers, and
texts with a line feed at every place; both sides work in the same mode (`MCSpec`),
as they do not know each other's.

In `Messages_core` either the queue or the mailbox is used while the other stays as it was
made (`MCSpec`), since they do not know each other; its properties are those of both,
the mailbox's under names with `Box`.

`Mutex_core` takes the two mutexes for interchangeable, which no definition
distinguishes; `Messages_core` the threads, which all have
one priority and queue FIFO there, and the values; `Timer_core` the soft timers; `Blocks_core` and
`Serial_core` threads, blocks and buffers. These runs check invariants
and refinements of the form `Init /\ [][Next]_v` only; the runs with liveness
properties use no symmetry. Deadlock is checked in `Timer_core`; elsewhere the system may stop: all
threads may sleep, or be deleted, or a bound is reached.

### Restrictions of single runs

* The wakeup properties of mailbox and message queue are claimed until `lost`
  becomes true: a wakeup that meets a thread the timeout interrupt has already,
  or is for a thread deleted before it runs, goes nowhere, in the code as in the
  model. The same holds for `NobodyForgotten` of `Blocks`. The refinements,
  `ChainsSound` and `BlocksExclusive` are claimed without exception.
* `NobodyForgotten` of `Blocks` claims nothing for pushers above the low water
  mark, since pops wake them only at the mark; with a mark of `Size` or more it
  claims that a pusher sleeps only if those awake take all the room. While a reset
  is failing waiters it is not claimed for the queue.
* `SentInOrder` says of DMA that the wire carries the head of the queue until a
  writer is outrun (`outrun`) between its push and its look at `activated`: see
  below.
* `Timer_core` has no timers of zero ticks: see below.
* `NoForgottenSwitch` does not speak of changes of priority:
  `RT_THREAD_CTRL_CHANGE_PRIORITY` does not reschedule, so a thread made more
  urgent waits for the next scheduling point.
* `EqualsTakeTurns` is claimed if from some time on the scheduler is not locked, no
  thread is between its suspension and `rt_schedule`, and no priority changes: a tick
  that always falls into such a stretch refills the slice and drops the yield
  flag, and equals could then starve. Blocking on an object, waking, starting and
  ending of threads go on meanwhile.
* `InheritanceHolds` is claimed until the first mutex is detached: detaching
  lowers the owner without moving it in the list it waits on.
* `DueKept` is claimed of every step but the return of a take and the deletion
  of a thread, as long as no mutex has a ceiling and none is detached.
* `TakersServed` and `NoFlagLost` say what is lost to a handler that wakes the very thread
  the tick is about to call back (`lost`): one unit for each such wakeup, or the
  flags that were cleared for it, and nothing else; `ServedAsAsked` excepts that thread
  as long as it is about to be called back.
* `NoWorkForgotten` excepts work that was cut off with the head of a list under
  cancel_all, until it is submitted again.
* `RefinesLock` has no step for the deletion of an owner, so the lock it leaves behind
  stays taken; that this should not be so is `GoneOwnNothing`, in `Mutex_deleted`.

### Fairness

`Semaphore_core`: the callback follows the pop in the same interrupt (weak
fairness); ticks go on, so an armed timer that keeps becoming due is popped
(strong, since other expiries come in between); a ready thread is scheduled
(strong, since interrupts come in between; that the scheduler does this is the
subject of module `Scheduler`). Nothing is assumed of
releases. `Scheduler_queues`: ticks go on. `WorkQueue_core`: the worker
thread continues when it can (weak: it has the priority to run, and work
functions return), and its sleep timer, once due, is served by the tick (weak).

## What the code does not keep

Three runs end in the violation of what a comment in the source says;
`PROJECT.json` quotes each.

* `WorkQueue_sync`: `rt_workqueue_cancel_work_sync` compares `work_current`
  with the work without a lock, and then takes the semaphore without a timeout.
  If the work ends between the two, the worker finds nobody to wake, and the caller
  sleeps though nothing executes.
* `Mutex_deleted`: `_thread_detach_from_mutex` is to free the mutexes of a thread
  that ends, so that none is lost. If another thread deletes it, `rt_mutex_release` compares the
  owner with the thread that runs, and refuses. The mutex stays with a
  thread that is gone, and with a hold count of 1.
* `Semaphore_nested`: `_thread_timeout` asserts that its thread is suspended,
  since resuming it and stopping its timer are one step. Between the pop of the timer
  and the callback a handler above the tick finds the timer inactive: a first
  `rt_sem_release` fails, its unit is gone, and it clears the thread's timer flag; a second
  one wakes the thread. A build with assertions stops there; the firmware gives a
  thread that was served a timeout, and its unit is gone as well. In the same gap
  `rt_event_send` ignores that the thread could not be readied and clears flags
  for it, and it then reports a timeout: `drv_sdio.c` sends so (398) and waits so
  (214). What remains true of both objects is what `Semaphore_core` and `Event_core` check.
  Mailbox and message queue ignore the failure too and lose the wakeup.

Seen while modelling and not made into runs:

* *Mutex.* A failed take corrects the owner's priority only if it equals the
  priority of the thread giving up *now* (`ipc.c:1486`): in a chain where two
  waits end before either thread runs, the last owner keeps a priority nobody
  demands. Hand-over to a waiter does not apply the ceiling. Changing the priority of a waiting thread does not
  move it in the list of waiters, and neither does detaching a mutex its owner
  inherits from (`OrderKept` and `InheritanceHolds` except these).
* *Timers.* `timer.c:765` compares ticks with `<=` across the wrap: a soft timer of
  zero ticks started in the last tick before the wrap is not announced. With a
  periodic timer, SET_ONESHOT during its callback leaves it ACTIVATED though it is
  on no list, so a stop then succeeds.
* *Work queue.* If a handler cancels the last work under `rt_workqueue_cancel_all_work`
  between its look at the list and the read of the first entry (`workqueue.c:394-397`), the list
  head is cancelled as if it were a work: fields of the queue are overwritten, and
  work that another handler submits before the cancellation is never executed (`cutOff`).
  No document speaks of submissions during a cancel_all, so no run claims otherwise.
  A work that submits itself again is not awaited by
  `cancel_work_sync`, which also ignores a cancellation refused as busy. A delay
  of half the counter's range or more withdraws the work instead.
* *Data queue.* `rt_data_queue_peek` reads the ring unlocked.
* *Serial DMA.* If a writer is preempted between its push and its look at
  `activated` (`dev_serial.c:589-598`) and the transfer of its own buffer ends
  meanwhile, it sends the buffer a second time, and the end of that transfer pops
  a buffer that was not sent, or none, reporting a pointer that was never set
  (`last_data_ptr`). Two writers in the gap can send one buffer twice and the
  other not at all.
* *Serial readers.* One wakeup is made for any number of bytes, so of two readers
  of a device one may sleep beside bytes. Opening a DMA ring through the file
  system resets its open flags, so it is then read byte by byte.
* *Audio.* The first write to a replay device starts it after all is queued: one
  of more blocks than the pool has waits for ever, holding the lock.
* `RT_IPC_CMD_RESET` and `rt_sem_init` truncate the value to 16 bits and do not
  compare it with the limit; mailbox, message queue and event return a positive
  `RT_ERROR` to waiters failed by reset or detach where semaphore and mutex return
  it negated.

## Proofs

`TimerSemaphoreProofs` proves about the semaphore, for every set of threads, every
limit and every initial value:

* `TypeCorrect`: `Spec => []TypeOK`;
* `NoSleeperBesideUnitAlways`: `Spec => []NoSleeperBesideUnit`, whatever nests;
* `TimeoutFindsTakerAlways`, `UnitsConservedAlways`: the same for
  `TimeoutFindsTaker` and `UnitsConserved`;
* `TakersServedAlways`: the three together, the property of the run;
* `OrderKeptAlways`: `Spec => OrderKept`, for any number of threads.

None of them is inductive alone. The invariant `Shape` adds to the types that
the list has no duplicates, that only threads inside a take whose wait
has not ended stand on it, and that a value above zero excludes waiters. For
the conservation of units `Expiry` comes in: the thread whose timer was popped is inside
its take and asleep, or was served by a handler since, and no other thread on the list
can meet a release with its timer popped; so a unit goes nowhere only through that
one thread, and then `lost` counts it. Counting is by cardinalities of the set of
threads that were granted a unit and have not returned: each action adds or
removes at most one. `WaitListProofs` has what `Enqueue` and `Unlink` do to
membership, distinctness and order for sequences of any length; induction over
lengths is by the least counterexample (`LeastNat`), a lemma about sets of
naturals.

`SchedulerSerialProofs` proves every safety property of `Scheduler_queues` for any
finite set of threads, any number of priorities, any slices and any depth of the
scheduler lock (assumed: the idle thread exists and `main` is more urgent):

* `TypeCorrect`, `GroupMatchesQueuesAlways`, `ReadyIsQueuedAlways` and
  `CurrentCanRunAlways` for the invariants, and `QueuesAgreeAlways` for the last
  three together;
* `LockKeepsProcessorAlways` and `NoForgottenSwitchAlways` for the action
  properties.

The functions of the scheduler pass through records in which a thread's state
and its place in the queues disagree, so `Queues(s, R)` relates the tables to
the set `R` of threads that are linked, whatever their states, and there is one
lemma for each function on what it does to `R` (`RemoveQueues`, `InsertQueues`).
The invariant between two sections is `Sound`: `R` is the set of READY threads,
the idle thread is READY or RUNNING (so `rt_schedule` always finds somebody),
and `Masks`: a thread's `number_mask` has no bit but that of its current
priority, and has it from start to end. Without `Masks` the bit map is not
inductive: `rt_sched_remove_thread` clears the mask's bits when it empties the
queue of the *priority*. Each step then keeps `Sound` and ends `Settled`: just
rescheduled (`Highest`), locked, or with the call of `rt_schedule` ahead
(`Rescheduled`, `Deferred`); both action properties follow.

`EventProofs` (any finite sets of threads and flags):
`EventTypeCorrect`, `NoFlagLostAlways` and `ServedAsAskedAlways`. `rt_event_send`
walks the list, wakes whom it satisfies and clears flags at the end; that it
wakes exactly those it satisfies rests on each waiter standing on the list once,
inside a call, with the demand it came with (`Sleepers`), but for the one thread
about to be called back, which a handler may have told of flags without
waking it; and on no send meeting another popped timer (`OneExpires`). The
walk of the list is a recursive function; `UnlinkSet` is shown to have a solution
(`Traverses`, by the least prefix without one) before anything is said of it.

`MailboxProofs` (any finite set of threads, any size, any mails):

* `MailboxTypeCorrect`; `MailboxRefinesQueue`: `Spec => RefinesQueue`, the ring
  and its two offsets are a bounded queue, urgent mails and resets included;
* `NobodyForgottenAlways`: `Spec => []NobodyForgotten`.

`MessageQueueProofs` (any finite sets of threads and slots, any messages):

* `MessageQueueTypeCorrect`; `ChainsSoundAlways`: `Spec => []ChainsSound`;
* `MessageQueueRefinesQueue`: `Spec => RefinesQueue`; `NobodyForgottenAlways`.

Queue and free list are what the next pointers lead through (`Walk`), so every
operation is first a lemma about pointers: what linking at either end,
unlinking the first and returning all slots do to two disjoint chains that lead
through each slot once, to Null (`Linked`, `ChainsOf`). The invariant `Storage` adds
that a slot on neither chain is the slot of one thread, which copies or was
deleted while it did (`Owners`), and that who will link a slot has a message
(`Posts`). Conservation of slots counts: the threads with a slot and the slots on no
chain are in bijection (`StoreIsSound`).

`BlocksProofs` (any threads, finite set of blocks, size of the ring and low water
mark): `BlocksTypeCorrect`, `BlocksExclusiveAlways`, `NobodyForgottenAlways`, and
`BlocksRefineQueue` for the ring of the data queue.

In all three the wakeup property is not inductive. What is: only receivers stand on
the receivers' list and senders on the senders', each once and each inside the
matching call (`Sleepers`), so whoever is woken comes for what the waker left; and
until a wakeup is `lost`, the thread whose timer was popped still sleeps
(`Timers`), so no expiry takes a wakeup back. `Attended` counts: what is there is
at most what threads awake come for. For the rings, the indices are `entry` words
apart modulo the size (`OffsetsAgree`, `RingSound`), and for the blocks each is in
one place (`OneHand`, `Hands`). `ResetOrder` says which lists the unlocked reset of a
data queue has already emptied.

`TimerSemaphoreProofs` on the timers (any timers, any times and lag that fit half the range, any range
of the counter; the arithmetic is in the last section of `WaitListProofs`):

* `TimerTypeCorrect`, `RunsAsAskedAlways`;
* `KeepsDeadlinesAlways`: `Spec => KeepsDeadlines`, so lists sorted by differences
  of a counter that wraps, with a look at the first entry only, fire timers in
  true time and in order;
* `OverdueIsAnnouncedAlways`: `Spec => []OverdueIsAnnounced`, given `0 \notin Times`:
  with timers of 0 ticks the comparison at `timer.c:765` forgets one (see above).

The invariant ties each entry to what is left of its timer's time in truth
(`InOrder`: `timeout = (tick + left) % Ticks`, `left` between the lag and half the
range, entries in the order of `left` and then of their starts). Both
comparisons the code makes modulo the counter are then comparisons of `left`
(`Moment`, `Apart`). Besides this, popped timers are in their callbacks (`Asked`), no
hard timer is overdue when the tick is done (`Punctual`), and the timer thread
rests without a unit only if no soft timer is due (`Announced`). The refinement
takes each step to a step of `Deadlines` or a stutter (`TrueStep`).

`WorkQueueMutexProofs` on the work queue (any works, cancellers, delays and range of the tick):
`WorkQueueTypeCorrect`, `NoWorkForgottenAlways`, `DelaysKeptAlways`. The delayed
list is tied to true delays as the timers are (`InOrder` in `Dated`). What stands on the
two lists is exactly what was asked for and not cut off, also between the steps of
cancel_all; the cancelled head empties one list and moves its works to `cutOff`
(`CancelHeadStep`). That the worker is awake rests on the completion: as long as its word says that the worker
waits, or the worker is about to, the lists are as it found them (`Waiting`).

`WorkQueueMutexProofs` on the mutexes (any finite sets of threads and mutexes, any
priorities, ceilings and limit of the hold count; waits that end early, detached
mutexes and deleted threads allowed or not):

* `MutexTypeCorrect`; `OwnershipAgreesAlways`: `MutexSpec => []OwnershipAgrees`;
* `MutexRefinesLock`: `MutexSpec => RefinesLock`, so mutual exclusion and balanced
  takes and releases, across hand-overs, exits and deletions;
* `InheritanceHoldsAlways`: `MutexSpec => []InheritanceHolds`; `DueKeptAlways`:
  `MutexSpec => DueKept`.

`OwnershipAgrees` is not inductive: that a hand-over makes the hold count 1 *for the
take that was served* needs that a waiter is inside a take of that very mutex, has
none of it, and stands on one list only. An owner that was deleted
has a hold count of 1 however often it took the mutex, so the count is claimed of living owners;
of the others it is claimed that they took it. The invariant `Sane` is about the record of
fields that the operations compute with: `Listed` (who waits is inside the take,
says so in `pending_object`, lives, and waits for a mutex that has an owner), `Taken`
(lists against owner fields, detached mutexes in no list), `Counted` (the hold count
against the history, the take in progress included). What the operations do to
priorities, demands and the order of lists only `Slackens` such a record: the same
owners, counts and taken lists, nobody on a list who was not. One lemma says so for a
round of the loop (`RoundFacts`), by induction for the loop (`UpdateSlackens`), hence for
giving up a wait, ceilings and `_check_and_update_prio`. What is left to show of an
operation is the part that changes owners (`FreeSane`, `HandOverSane`, `ReturnsSane`,
`DetachedSane`, `EndedSane`); the exit of a thread repeats the hand-over for each of
its mutexes (`GivenStep`). Both loops are recursive functions, shown to have a solution
(`LoopExists`) before they are used. Each step is then a lock, an unlock, a death or a
stutter of `RecursiveLock` (`MutexStep`).

`InheritanceHolds` compares owners with waiters. What is inductive is `Orderly`, which
puts the priority a mutex asks for between them: every list is in order, no owner is
less urgent than its mutex asks, and no mutex asks for less than any of its waiters
has. While `_thread_update_priority` runs this is false, but of one thread only
(`OrderlyBut`): its place in the list it waits on is stale, and so is what that mutex
asks for. A round sorts that thread in and makes its owner the exception
(`RoundOrderly`). If the loop stops because nobody is left to follow, there is no
exception. It does stop, also when threads wait for each other in a circle: the
priority passed on never rises in number, and while it stays the same each round gives it
to a thread that did not have it, so that the set of pairs of a thread and a priority
still `Ahead` loses a member in each round. That is why `RoundsAssumption` suffices,
whatever circles threads take. Both directions matter: a ceiling or a failed take may make
an owner *less* urgent, and `OrderlyBut` holds for that just as well.
`DueKept` adds that everybody has the due priority (`AllDue`), the exception again being
the thread the round has not reached. A hand-over keeps it because the new owner, first
in the list, is the most urgent of the waiters, so that it inherits nothing from the
others; `_check_and_update_prio` may leave the old owner alone when the mutex given
up did not ask for just its priority, since then that priority was due for another
reason (`CheckDue`).

`SchedulerSerialProofs` on the serial device (any bytes, size of the ring and
lengths of reads; any writers, buffers, size of the data queue and texts):

* `SerialTypeCorrect`; `SerialForgetsNobody`: `SerialSpec => []NobodyForgotten`;
* `SerialRefinesLine`: `SerialSpec => RefinesLine`, so the ring is a queue of the
  last bytes received, filled byte by byte or by blocks and read either way;
* `SentInOrderAlways`: `SerialSpec => []SentInOrder`.

Equal indices mean an empty ring or a full one, and the two ways of filling it
use `is_full` differently: by bytes it is set when one is dropped, and then the
indices differ; by DMA it is set only while they are equal. That is `FlagAgrees`,
and with it the number of bytes is the distance of the indices (`Span`) or the
whole ring (`StoredIn`). A put of any number of bytes is one lemma on rings
(`RingPutMany` in `WaitListProofs`): the last of the old and new bytes that fit,
in order. That the reader does not sleep beside bytes is inductive once it is
known that `rx_indicate` is set after `opening`. The text sent is compared with a
recursive function (`Expanded`), which is shown to have a solution before it is used.
For the DMA writers `Orderly` says whose turn it is: one at most is between its
push and its look at `activated`, and its buffer is the last one; one at most
starts a transfer, and its buffer is the first one. It holds until a writer is
outrun; that no buffer is forgotten (`DmaGoesOn`) holds of outrun writers too.

### Model-checked only

* Liveness (`TimedTakeReturns`, `EqualsTakeTurns`, `WorkGoesOn`): out of the
  prover's reach together with ENABLED.
* What `rt_mutex_detach` leaves of the order of lists is no property of any run:
  after it `InheritanceHolds` says nothing, and that the loop then ends within
  `Rounds` is not proved either.
* `SyncSleeperIsAwaited`, `GoneOwnNothing` and `TimeoutFindsSuspended`, which are false
  (`WorkQueue_sync`, `Mutex_deleted`, `Semaphore_nested`).
* The assertion at `completion_up.c:136` is not modelled: it fails if somebody resumes
  the worker while it waits, which the model allows and the firmware, built without
  assertions, goes on from.

## Not modelled, and the plan

1. Done: suspend lists, semaphore, mutex, scheduler, event, mailbox, message
   queue, timers, completion, work queue, memory pool, data queue, serial device
   with the wait queue of its reader; proofs for all of them.
2. Proved: every safety invariant, action property and refinement a passing run checks.
   Next proofs: what is left of the order of lists once a mutex is detached.
3. Modules left: `RingBuffer` and `RingBlocks` (index arithmetic against a plain
   queue), the rest of the wait queue (several waiters, poll) with `CondVar` (on
   `Mutex`) and `Pipe`, the audio device on `Blocks`, `Defunct` (who may free an
   ended thread), `SmallMem` (list of blocks), the app life cycle of the UI
   framework.
4. Partly modelled: of threads, `rt_thread_delay_until`; of timers, `rt_tick_set`
   (which nothing calls), SET_FUNC and SET_PARM;
   of the serial device, closing and control, polling modes, bypass hooks, poll.
5. Left out for good: SMP, signals, lwp and virtual memory (not in the build),
   console formatting and shell commands, other drivers, file systems, network,
   boards, vendor code, the emulators and the launcher: I/O, third-party or
   sequential presentation code.
