# muduo-c in TLA+

A verification development for muduo-c, a small event-driven TCP library in C
after the manner of the C++ library muduo: one thread owns an event loop,
`poll()`s its file descriptors and calls back; other threads hand it functions.
Line numbers below are those of the files under `src/`.

## 1. Inventory

| Component | Source | State | Operations | Correct when |
|---|---|---|---|---|
| event loop | `src/core/eventloop.c`, `include/eventloop.h` | `status` (six flags in a plain word), the eventfd, `pending_funcs` (shared, under `mux`), `local_funcs`, `active_channels` | `event_loop`, `el_exit`, `el_add_pending_functions`, `el_next_poll_nonblock`, `el_read_eventfd`, `el_do_pending_functions`, `event_loop_destroy` | every function handed over is run once, in order; a wakeup is not lost; the loop returns when asked and only then |
| poller | `src/core/poller.c`, `include/poller.h` | `poll_list` (vector of `pollfd`), `map` (32 hash chains of `fd_map`), `cache` (8 pointers into them) | `poller_update_channel`, `poller_remove_channel`, `get_channel`, `poller_poll`, `poller_destroy` | `poll_list`, map, cache and every channel's `index` agree, through swap-with-last deletion and through freed nodes |
| channel | `src/core/channel.c`, `include/channel.h` | `fd`, `events`, `revents`, `index`, the callbacks | enable/disable read, write, both; `channel_handler`, `channel_invalidate`, `channel_destroy` | what `poll()` is asked for is what the channel wants; the right callbacks run, once |
| timer queue | `src/core/timer_queue.c`, `include/timer_queue.h`, `el_run_after` | queue sorted by expiry, free list, `next_expire`, the timerfd | `tq_add_timer`, `tq_refresh_timer`, `tq_free_timer`, `tq_callback_for_channel`, `timer_queue_destroy`, `el_run_after` | no timer fires early, every timer fires, the timerfd is always set for the head |
| vector | `src/core/vector.c`, `include/vector.h` | `ptr`, `count`, `aval` | push, delete by swap with last, clear, swap, copy, free | `count + aval` never exceeds what is allocated; nothing leaks |
| connection and transfer buffer | `src/server.c`, `server.h` | socket, channel, `t_buf` (a ring that grows by a page) | `connection_write`, `connection_close`, the four channel callbacks, `tcb_*` | bytes leave in the order written, none lost; closed and freed once |
| server | `src/server.c` | listening socket and its channel, the user's callbacks | `server_init`, `server_getfd`, `server_listen`, `server_channel_read_callback`, `server_run`, `server_destroy` | an accepted socket is one connection, one channel and one entry of the poller until it is closed, and none after |
| demo and client | `src/main.c`, `host.c` | - | - | not part of the library |
| kernel lists, `kernel.h` | `include/list.h`, `poison.h`, `kernel.h` | - | - | vendored from Linux |
| `log.c`, `buffer.c` | empty files | - | - | - |

How they interact. The loop's owner thread runs everything but four calls: the
handlers of channels, timers and connections run inside
`channel_handler()`/`el_do_pending_functions()`. Other threads touch a loop only
through `el_add_pending_functions()`, `el_run_after()` (which hands over
`eL_add_timer`), `el_next_poll_nonblock()` and `el_exit()`; what they share with
the owner is `status` (no lock, no atomics), the eventfd, and `pending_funcs`
(under `mux`). Channels register themselves with the poller; the poller fills
`active_channels`, which the loop walks. The timer queue and the eventfd are
channels of the same poller, and so is every connection.


What is hard here: the plain `status` word with its lost updates; wakeups that
are skipped because a flag was read before or after it mattered; two vectors
swapped under a lock and one run without it; a cache of pointers into freed
nodes; callbacks that remove channels, and move `poll_list`, while the list of
active channels is walked; a timerfd guarded by a remembered expiry; timers set
and freed inside callbacks; a ring whose indices, size and count are kept by
four functions; 32-bit milliseconds; descriptors that are closed before the
poller forgets them and handed out again while the closed connection is still
on the active list. The full list, each at its line, is the
`hazards` list of `PROJECT.json`.

## 2. Modules

`PROJECT.json` maps every definition to its lines; what follows is how to read
them. A definition whose comment begins with "A slip" is no part of a model: it is
the definition after it with a plausible mistake, and `PROJECT.json` names the
property that catches it (`mutants`).

### The event loop: `EventLoop`, `TaskQueue`, `EventLoopProofs`

`EventLoop` has one action for each access to shared state. The owner's program
counter `lpc` runs through `event_loop()` (eventloop.c:329-353): `EnterLoop`,
`TestExiting`, `SetPolling`, `PollReturn`, ..., `ClearActive`, `LeaveLoop`, with
`ReadEventfd` or `HandleChannel` for each active channel and `SwapPending`,
`RunPending`, `EndPending` for the pending functions. A thread's `pc[t]` runs
through `el_add_pending_functions()`, `el_next_poll_nonblock()` and `el_exit()`.

- `el->status |= F` and `&= ~F` are two steps, a load into `lreg`/`reg[t]` and a
  store (`LoopUpdate`, `ThreadSets`): updates can be lost, as they can on every
  machine the code is built for. A read is one step. Torn values and reordering
  by weak memory are not modelled: a word is stored whole, and what x86 does to
  these accesses is what is here.
- The lock makes push and swap one step each.
- `PollReturn` is `poller_poll()`: with the eventfd ready it reports it; with
  any other channel ready it may report that too; with `n` ready channels each
  is listed `n` times (poller.c:308-319: the outer `while` restarts nothing but
  the scan), in the order of `poll_list`. It can time out after 1000 ms
  (poller.c:303).
- A handler or a function run by the owner may call `el_exit()`
  (`ExitInHandler`, `ExitInPending`). A function handed over by the owner itself
  is called on the spot and changes nothing here.

`TaskQueue` is the abstract promise: a line of functions, run from the front,
nothing after the return. `QueueSpec` is its instance under the mapping
`queue <- Waiting`, `ran <- ran`, `returned <- lpc = "Done"`.

### Poller and channels: `Poller`, `PollSet`, `PollerProofs`

All of poller.c and channel.c but `poller_destroy()` and `channel_destroy()`,
which are the teardown of `Connection`. The map's nodes are a small heap `Nodes`
that `malloc()` reuses in any order; a node freed is `FREED`, and `cache` keeps
its pointer, as the code does. Channel operations (`EnableRead`, ...,
`Invalidate`) may be called between rounds and inside every callback, at most
`MaxOps` per round; `CloseChannel` closes the descriptor so that a later
`OpenChannel` may be given the same one. `HandleError` to `EndWriteCallback` are
the steps of `channel_handler()` (channel.c:18-49), so that a callback runs
between the tests of `revents`. `MayReport` is the kernel: conditions asked for,
plus POLLERR and POLLHUP; POLLNVAL needs a closed descriptor that is still
registered, which belongs to the connections. `BUG_ON` and `DIE` of poller.c
record that they were reached. A channel may have no read or no write callback
(`Readers`, `Writers`): enabling what it has none for changes `events` and does
not tell the poller (`Enable`, channel.c:57-58 and 92-93); `EventsAgree` holds
up to those events (`Unheard`).

`PollSet` is the promise: what `poll()` is asked for about a channel changes by
calls on that channel only.

### Timers: `TimerQueue`, `TimerService`, `TimerDelay`, `TimerQueueProofs`, `TimerDelayProofs`

`TimerQueue` has the queue, the free list, the timerfd (`alarm`, `interval`) and
the clock. Time passes between any two steps (`Tick`); `PollReturn` needs a
readable timerfd; `ReadTimerfd`, `ReadClock`, `Expire` and `EndExpiration` are
the steps of `tq_callback_for_channel()`, with a callback after each `Expire` in
which timers are added, refreshed and freed. `listed` is the number of times the
timerfd's channel is on the active list. `it_interval.tv_sec` is an
uninitialized stack word (timer_queue.c:138): a member of `Intervals` chosen at
each `SetTime`. `timerfd_settime()` may fail; nothing looks at its result, and
`ret` only remembers it. What is added to the clock (`Delays`) is any integer,
for the product in `timer_set_value()` overflows: a timer set for no later than
the clock is in `early` until its callback ends or it is set again. `early`,
`order` and `pass` are bookkeeping for the properties. A timer refreshed after
it fired, or freed while it is queued, is a call the header allows and the code
does not survive: the constant `Uses` has them, and the model ends with them
(`at = "Dead"`). `TimerQueueDestroy` is `timer_queue_destroy()`, called when the
loop is through with its channels.

`TimerService` is the promise: a timer that is set fires once, not early, and in
the order of expiry, first set first, until the service is over.

`TimerDelay` is arithmetic, one state per stage: `el_run_after()` splits
milliseconds into seconds and a rest by `>> 10` and `& ~(1 << 10)`,
`timer_set_value()` rounds up to 128, multiplies into an int of 32 bits and
carries into seconds. The product fits an int up to 2147 ms (`fits`).
`DelayIsClose` covers what is past that: the delay then lacks a multiple of 2^32
ns, which is how an expiry comes to lie in the past (0 s and 3000 ms, say). That
a delay is at least 128 ms (`AtLeastMinimal`) is true only while the product
fits. Nanoseconds are counted in units of 512, exact
because 1,000,000 × 128 is a multiple of 2^13.

### Sending: `SendBuffer`, `SendBufferProofs`

`connection_write()`, `conn_save()`, `tcb_copy()`, `tcb_grow()` and
`conn_channel_write_cb()`. A byte is its position in the stream, so order, loss
and doubling show. Pages have 4 bytes and the debug build's batch 3, so that the
ring grows and wraps within 10 bytes. The socket takes everything, any smaller
part, nothing for now, or fails. `PollReturn` lists a channel that asks for
POLLOUT once for every ready channel, and `BeginSend` is a call for one of these
(`listed`): of `revents`, which disabling POLLOUT leaves as they are. So the
callback may be called again in the round in which it drained the ring; it finds
`total` 0 and `t_beg` left behind, and sends bytes again, in a build without
the debug option until the socket is full. `t_left` then grows beyond the ring, which `MaxLeft`
bounds. `met` remembers which of six things the code is known not to cope with
(`Limits`, that second call among them) a connection met; what holds is stated
for the connections that met none of them. `&` is the constant `BitAnd`, and
`MaskAssumption` is all that the model needs of it: a mask keeps an index in the
ring, and that of a power of two gives the remainder. `MCSendBuffer` gives it
the bitwise conjunction, for which TLC evaluates the assumption.

### Vectors: `Vector`, `ElementLists`, `VectorProofs`

A vector's block is a sequence as long as `realloc()` was last asked for;
`count` and `aval` are what the struct says. The loop of `vector_copy()` is one
step per call of `vector_inc()`; `vector_free()` leaves an empty vector. A store
past the block ends the model and is
remembered in `overrun`. `ElementLists` is what the other modules take vectors
to be: lists.

### Sequences: `ListLemmas`

The chains of the poller's map and the timer queue's lists are sequences in
which nothing occurs twice. `ListLemmas` has the facts the proofs need of them:
what deleting, inserting, pushing and taking the head off leave of the elements,
of their order and of a sorting; and that a set of numbers has a least one.

### Connections: `Connection`, `ConnectionProofs`

The life of a connection in the three tables that know it by its descriptor.
`file[d]` is the kernel's: the connection whose socket descriptor `d` is.
`accept4()` hands out the lowest number that is free, so the number of a closed
connection comes back at once. `poll_list`, `map` and `index` are the poller's;
here the chains are one list, for what matters is that `get_channel()` finds the
channel registered last for a descriptor (`Find`). `active` is what is left of
`active_channels`. The entries of the listening channel, the timerfd and the
eventfd stand in front of `poll_list`, are never removed, and are left out.

- `Accept` is `server_channel_read_callback()` with `conn_init()`, up to the call
  of `conn_cb`. `HandleError` to `WriteKills` are the steps of
  `channel_handler()` on a connection's channel with the four `conn_channel_*`
  callbacks. `ConnError` and `ConnClose` are `conn_error()` and `conn_close()` up
  to the user's callback; `EndErrorCallback` and `EndCloseCallback` are what
  follows it, and `then` is where the caller goes on.
- A user's callback runs while `at` is `InConn`, `InError`, `InClose` or
  `InTimer`; in each, and between rounds (a pending function), the user may
  close, write to, pause or resume any connection that it has a reference to
  (`known`), `MaxOps` times in a run. `known` loses a connection when the user
  closes it or its close callback is called, not when the end of the stream
  closes it, of which the user is not told.
- The peers send, end or reset at any time. `Report` is what `poll()` says of a
  descriptor then; a socket's error is reported once (`peer = "gone"` after it).
- `UserWrites`, `WriteAll` and `WriteSome` keep of the ring only whether it is
  allocated and whether POLLOUT is asked for; the bytes are in `SendBuffer`.
- `LoopReturns` to `EndTeardown` are `event_loop_destroy()`: `poller_destroy()`
  walks the chains, `channel_destroy()` calls each close callback.
- `revents` are cleared at the end of a round. The code leaves them; nothing
  reads them before `poll()` has written them.
- `harm` records a system call on a descriptor that is another's or nobody's,
  a ring freed twice or used when freed. `met` records which of four things the
  code does not cope with (`Limits`) happened; safety is stated for `met = {}`.
  The model ends (`at = "Dead"`) where a lookup `DIE`s, an index lies outside
  `poll_list`, or SIGPIPE ends the program.

## 3. Runs

| Run | Instance | What it shows |
|---|---|---|
| `EventLoop_safety` | two threads, one call each; eventfd and a timer's channel | types; every function run at most once and in order (`NoneLost`); the loop returns only if asked; a wakeup that is skipped because the owner handles callbacks is made good before the next `poll()`; the eventfd is read when empty only on a repeated dispatch; `EXITING` once settled stays |
| `EventLoop_live` | one thread, two calls in a row, fair | the loop implements `TaskQueue`; every function is run in the end; a settled exit is obeyed |
| `EventLoop_exit` | one thread, fair | counterexample: `EXITING` lost between another update's load and store |
| `Poller_tables` | descriptors 3, 35 and 11: a shared chain, a shared cache slot | `poll_list`, index, chains and cache agree; no assertion is reached; `PollSet` is implemented |
| `Poller_handlers` | three channels, two of them successive users of descriptor 3, one without a write callback and one without a read callback; all conditions | events agree up to those without a callback; a removed channel is not called; what is handled is what was reported |
| `TimerQueue_all` | three timers, delays 1 and 2 and one that overflowed to -1, three calls, clock to 2 | the timerfd is set for the head; lists are disjoint; a run of expired timers calls back no timer set meanwhile for a time to come; `TimerService` is implemented; every timer fires; early heads and refusals of the kernel are told apart |
| `TimerDelay_all` | every ms up to 6600, seconds to 2, three clock readings | while the product fits, an expiry that the kernel accepts, at least 128 ms ahead; for every delay the distance from what was asked, with the 2^32 ns (once or twice) that an overflow takes |
| `SendBuffer_limits` | messages of 3, 5, 6, 8; all results; debug and plain builds; one or two ready channels | nothing lost, POLLOUT right, all sent, short of the six limits |
| `SendBuffer_grow` | messages of 3 written in `conn_cb` | counterexample: growing while wrapped mixes bytes |
| `Vector_lists` | two vectors, batches of three, five elements | counted is allocated; stores stay inside; lists are implemented |
| `Connection_life` | two connections, descriptors 7 and 8, one read's worth of input, two calls of the user, fair | kernel, poller and connections agree at every `poll()`; no call reaches another's socket; rings are freed once; close callbacks are made once, for a connection the user takes for open; an end is seen |
| `Connection_left` | the same without calls | counterexample: after a failed `read()` the closed connection's channel stays in the poller |

Bounds. Two threads with one call each have every pair of accesses to `status`
interleaved, including a lost wakeup and a lost flag; a third thread adds no new
kind of pair. Two calls of one thread have a second call follow a flag left over
from the first. Three channels are needed for a cache slot to point to a freed
node that was handed out for another descriptor while a third is moved by a
deletion; one operation per round suffices for the tables because rounds repeat,
two are allowed where callbacks interfere with each other. Three timers and
three calls have a callback insert before, among and after the rest, with the
clock past one, both or neither; the clock stops at 2 and no expiry is later. A
delay of -1 is enough for an expiry gone by, for one that is due at once, and
for one that equals an expiry set before, which is what keeps `next_expire` from
setting the timerfd. 6600 ms overflow the int twice. `MaxBytes` 10 and `MaxWire`
12 let a ring of one page fill, wrap, empty and grow twice; `MaxLeft` 12 lets
`t_left` exceed a ring of two pages, and two ready channels (`MaxReady`) are
what a second call in a round takes. Batches of three reach both branches of
`vector_inc()`, and a copy of five elements goes through its loop three times.
Two connections are one that is handled and one that is closed, reset or
accepted meanwhile; either may have the number that the other gave back; two
calls let the user close one connection and write to it or to the other after
that. `Connection_life` explores no further than the first of the `Limits`
(constraint `ShortOfLimits`): what was met stays met, so every property holds of
what follows by its own condition. Deadlock is not checked: each of these models
stops when its bounded calls are used up or the loop returned.

Fairness. `EventLoop`: weak fairness of the owner and of each thread in a call
(threads are scheduled, no lock is held across a step); not of beginning a call.
`poll()` has a timeout, so the owner always has a next step, except in the `goto
again` of `el_read_eventfd()`, where the model loops as the code does: the
liveness properties exclude just that state (`<>[]Spinning`). `TimerQueue`: weak
fairness of the loop and of the clock. `SendBuffer`: weak fairness of the
owner's steps (`SendStep`), from `poll()` to the end of the callback, because a
socket that drains is reported writable again; a failed connection counts as
answered. `Connection`: weak fairness of the owner's steps only; no peer and no
user need do anything.

## 4. What was found

With a counterexample (the runs named above):

- `el_exit()` can be without effect: the store of `EXITING` is overwritten by
  any other thread's, or the owner's, older copy of `status`.
- The ring of a connection mixes up its bytes when it grows while wrapped.
- A connection closed by `conn_error()` after a failed `read()` stays in the
  poller, although server.c:200-201 has the channel close itself: `poll()`
  reports POLLNVAL for it, or, when the number was handed out again, another
  connection's conditions, and it is closed a second time. An error that
  arrives between `poll()` and `read()` does it, and so does a channel that is
  listed twice: the second `read()` of the round finds nothing, and EAGAIN is
  taken for an error.

Seen in passing runs, as the condition under which a property holds:

- Each of n ready channels is listed n times, so the eventfd may be read twice
  for one wakeup; the second read finds it empty and spins, in the loop's
  thread, until another thread writes it (`SpinOnlyOnRepeat` says when).
- `WREVENTFD` is set after the write, so it can be set with no wakeup pending:
  the next call skips its wakeup and waits for the timeout of `poll()`.
- A timer that has fired cannot be refreshed, although `tq_refresh_timer()` says
  a timer out of the queue is empty: its node holds list poison
  (`RefreshFiredTimer`).
- From 2148 ms on the product in `timer_set_value()` overflows, and rounding up
  brings 2049 ms there. `el_run_after()` also takes 1024 ms for a second, and its
  remainder keeps all bits but one: 2048 ms become 4.048 s. `DelayIsClose` has
  the distance for every delay.
- An expiry that overflowed into the past is due at once. A callback that sets
  its timer so again, such as 0 s and 3000 ms, is called back by the same
  `tq_do_expiration()`, which does not end, although timer_queue.h:15 has it that
  timers must not recurse without end. `PassIsFinite` holds up to such timers.
  One that becomes the head with just the expiry that `next_expire` still holds
  does not set the timerfd (`HeadEarly`).
- A channel without a read callback that enables reading (or without a write
  callback, writing) has events the poller was not told of; any later call on it
  tells the poller of them.
- Freeing a queued timer links it into two lists; the timerfd's interval is
  uninitialized and `timerfd_settime()` unchecked.
- `connection_write()` compares -1 with an unsigned size (a full socket loses
  the message), overtakes what waits in the ring, and `t_beg` is left behind
  when the ring is drained; a short write is booked as a whole batch. When two
  channels are ready, the write callback is called twice in a round: if the first
  call drains the ring, the second sends bytes again (`repeated`).
- The user is not told of the end of a stream (the call is commented out at
  server.c:353), so it may close or write to a connection that is closed, by a
  number that may be another's (`untold`). Closing the connection in its own
  error callback frees its ring twice (`own`), and so does closing another one
  in a close callback of the teardown (`teardown`), where the walk over the
  chains may also meet a descriptor no longer in them.
- A `write()` after an error was reported raises SIGPIPE, which is not ignored.
- `vector_copy()`, which nothing calls now, reallocates one batch each time
  round its loop and counts several.

## 5. What is proved

`EventLoopProofs`, for any threads, channels and number of calls; assumptions
are those of `EventLoop` (the eventfd's channel is one of finitely many
channels at distinct places in `poll_list`).

- `TypeCorrect`: `TypeOK` is inductive. It needs that a copy of `status` is held
  only inside an update and that a thread in a call has begun one; that the list
  of active channels is one of channels rests on lemma `FillType`.
- `NoFunctionLost`: `posted = ran \o Waiting` is inductive given the types,
  where `Waiting` is what is left of `local_funcs` after the cursor, followed by
  `pending_funcs`. The second half of `NoneLost`, that the vector swapped in is
  empty, is what makes the swap preserve the first. Every step keeps, posts or
  runs (`QueueStep`).
- `ImplementsQueue`: the same three cases are a stutter, `Post`, `Run` or
  `Return` of `TaskQueue`.

On the flags of `status`, from there, with one invariant for each property:

- `ReturnsOnRequest` (`ExitTraced`): an EXITING in `status`, in a copy of it or
  about to be set comes from a call of `el_exit()`.
- `SettledForGood`: an action property. An update adds or removes flags of the
  copy that it stores, and none removes EXITING.
- `FirstReadSucceeds` (`WakeupTraced`): until the dispatch is over, the eventfd
  is not on the active list, or its wakeup is still there, or the cursor is past
  it. That it is listed only for a wakeup rests on `FillElements`, and that the
  list was empty before on the position of `v_clear()`.
- `SkippedIsServed` (`SkippedTraced`): a function whose wakeup was skipped is of a
  call that is over, and is not left in `pending_funcs` outside of the stretch
  from the dispatch to the swap. The swap leaves none because the vector swapped
  in is empty (`NoneLost`).

`VectorProofs`, for any batch of two or more (with one, the first allocation
counts no room at all), any vectors and any length:

- `TypeCorrect`, `CountedIsAllocated`, `NeverOutside` from one inductive
  invariant: elements in use lie in the block and are values (`Filled`); the
  target of a copy is empty (`CopyTarget`), without which a first batch could
  not be told from a later one; `count + aval` is the block's length or one
  less (`BlockFits`).
- `ImplementsLists`: one lemma per operation shows its effect on the list;
  growing changes none.

`PollerProofs`, for any descriptors, channels, chains and cache slots and a heap
that is never short of nodes:

- One invariant, `PollerInv`, gives `TypeOK`, `IndexAgrees`, `MapAgrees`,
  `LookupRight`, `NeverAsserts`, `EventsAgree`, `ReadyIsRegistered` and
  `HandlesWhatPollReported`. Its tables part (`TableInv`) says that open
  channels have different descriptors (`FdsApart`: without it `get_channel()`
  might find another's node); that a registered channel's entry is at its index
  and every entry is a registered channel's (`EntriesAgree`, what swapping with
  the last needs); that each registered channel has exactly one node, which
  holds its descriptor (`NodesAgree`), in the chain of its hash and in no other
  (`ChainsAgree`). Of the cache nothing is asked but its type: it may point to a
  freed node, or to one handed out again, because a hit is checked against the
  descriptor, and a node with that descriptor that is not freed is the
  channel's. What was asked of the poller differs from a channel's events by
  those without a callback only (`HearsRight`). Its control part says that the
  step of `channel_handler()` reached (`at`) and the handler's local copies
  agree with the list that is walked.
- `PollerRefinesPollSet`: `PollSet` is implemented.

`TimerQueueProofs`, for any timers, delays, clock and readings of the
uninitialized interval; delays may be 0 or negative:

- `TimerInv`, while no call the code does not survive was made: queue and free
  list have no timer twice, and a timer's node says which of them it is in
  (`QueueInv`), which is what `TimersApart` needs; the queue is sorted by expiry
  and, within one, by the order of the calls, which an insertion
  before the first later one keeps; `next_expire` is the head's, or gone by
  (`HeadInv`), so that an insertion that leaves it alone leaves the timerfd set
  for a head no later, unless that is early (`HeadArmed`); an early timer's time
  has come, and a timer set after it for a time to come expires later
  (`EarlyInv`); in a run of expired timers, those set in callbacks are early or
  not due by the clock read before it (`PassInv`), so that the run calls back
  none of the others (`PassesEnd`).
- `QueueRefinesService`: each step is one of `TimerService`'s or a stutter. That
  a timer fires in the order set rests on the sorting.

`TimerDelayProofs`, for any range of milliseconds up to 1000000 and of seconds:

- `NeverTooSoon` and `DelaysAreClose`: `DelayInv` carries from stage to stage
  what the later ones need, the split (`Given`), the rounding (`Rounded`) and
  the sum with its carry (`Added`); the rest is linear arithmetic.
  `DelaysAreClose` has no condition on the delay: the multiple of 2^32 ns that a
  wrapped product lacks is a witness, which is 0 just when the product fits.

`SendBufferProofs`, for any page size, batch of the debug build, sizes of
messages and number of bytes:

- `TypeSafety` holds past the limits too, from `ShapeInv`: the indices stay in
  the ring, and `Copy` and `Send` are reached only with a ring, for a channel is
  listed only when it has one. The ring has at
  most `MaxBytes + PAGE_SIZE` bytes, the range of `MaskAssumption`.
- `NothingIsLost` and `PolloutWhenNeeded` from `KeptInv`, while no limit is met.
  `RingInv`: the `t_used` bytes from the first one not sent are those that
  follow the ones on the wire, and `t_end` is the place after the last.
  `StreamInv`: wire, ring and what is being saved make up what was asked.
  `UseInv`: a ring in use has the size of a power of two, and POLLOUT is asked
  for while it is not empty. A call of the write callback has something to send,
  or meets the limit `repeated`. Three lemmas say where a byte is after the ring
  grew (`GrownPlace`), after a batch was copied in (`CopiedPlace`) and after a
  part was sent (`SentPlace`). Each limit is a place where a step of this proof
  would fail.

`ConnectionProofs`, for any number of connections, any descriptors, input and
number of calls of the user:

- `TypeSafety` holds past the limits too. It needs that only connections that
  were made have a descriptor or are in a table (`MadeInv`), and that what follows
  a callback is set while one runs (`ThenInv`).
- `AgreeInv`, while no limit is met, is about `Watched`: the open connections
  and the one that `conn_close()` is at work on, whose socket is closed before
  its channel is removed. The kernel's table and the connections' descriptors
  are inverse to each other (`SocketsInv`); only watched channels have `revents`
  (`ControlInv`); a closed connection has no ring unless its close callback runs
  (`RingInv`); `poll_list` has an entry for each watched channel at its index,
  and for nothing else, and the chains each of them once (`TablesInv`). At
  teardown `poll_list` is left alone while the chains are emptied, which
  `TablesInv` allows.
- `DescriptorsApart` and `RingsFreed` follow at once; `OpenArePolled` by counting
  the entries, a bijection from the open connections to places in `poll_list`.
- `ClosesAreTold` is the action property `ToldOnce`.

The inductive invariants were checked with TLC on the instances of the runs
before they were proved.

Only model-checked: all liveness (`EveryFunctionRuns`, `SettledExitReturns`,
`EveryTimerFires`, `EndIsSeen`, `EverythingIsSent`) and with it what fairness
gives, which is out of reach of TLAPS. Every other property of a passing run is
a theorem.

## 6. What is not modelled, and the plan

Not modelled: `main.c` and `host.c` (a demo and a client); name resolution and
socket set-up in `server_getfd()` and `server_listen()`; the address that
`accept4()` stores through an uninitialized length; the vendored kernel headers
beyond what a list does; `log.c` and `buffer.c`, which are empty;
`tcb_extract()`, which nothing calls; failures of `malloc()` and of `poll()`
itself; calls of other threads after `event_loop_destroy()`; what a program does
after the undefined steps that end a model (poisoned lists, a ring freed twice,
an index outside of `poll_list`).

Left to do, in this order:

1. A proof that the list of channels which stands for the poller's map in
   `Connection` finds what `Poller`, with its nodes, chains and cache, finds.
2. The bytes in the rings of `Connection`, as `SendBuffer` has them.
3. Failures of `poll()` itself (`poller.c:303`).
