# Scalable network I/O: a TLA+ verification project

The repository compares ways to serve many TCP connections from one program:
blocking threads, `select`, `poll`, `epoll` (level- and edge-triggered, fat and
lean buffers) and `io_uring`. Every server is an echo server; a load generator
written in C and several written in Python drive them, and Python scripts run
the experiments and turn their output into tables and plots. This directory
models the event loops, the sockets under them, the load generators, the
scripts and the analysis of the figures in TLA+, checks them with TLC and proves
with TLAPS, for every value of the constants, every safety property that a passing run checks,
some of them under conditions on the clients that section 4 names. Liveness is model-checked only.

All paths below are relative to the root of the repository (`code/...`).

## 1. Inventory

### The parts, their state and operations

| Part | Source | State | Operations |
|---|---|---|---|
| Level-triggered epoll server | `code/src/epoll_lt_server.c` | event batch, `client_states[fd]` (rest of a short write), registrations, `g_stop`, `g_events`, `g_requests` | accept loop, flush on `EPOLLOUT`, one `read()` + one `write()` per `EPOLLIN`, close, signal, exit |
| Edge-triggered epoll server | `code/src/epoll_et_server.c` | the same, and the kernel's ready list | the same, reading until `EAGAIN` or until a read that does not fill the buffer |
| Lean epoll server | `code/src/epoll_lt_lean_server.c` | the same, with `pending_writes[fd]` on the heap | the same, `malloc()` on a short write, `free()` on drain and close |
| Optimised io_uring server | `code/src/io_uring_opt_server.c` | submission and completion queue, ring of provided buffers, `conns[fd].active`, counters | multishot accept and recv, send, return of buffers, re-arm, `submit_and_wait` |
| poll server | `code/src/server_poll.c` | `fds`, `nfds`, `poll_cap`, scan index, `compress_array`, counters | poll, scan, accept and `realloc`, spin-write, close, compaction |
| select server | `code/src/server_select.c` | `master_set`, `readfds`, `max_fd` | select, scan, accept or refuse at `FD_SETSIZE`, spin-write, close |
| Load generator | `code/loadgen/loadgen.c` | per connection: state, send and receive offsets, registration; per worker: counters, histogram, clock | connect, send, receive, complete a request, fail, stop at the deadline, report percentiles |
| Shared helpers | `code/include/common.h` | none | `make_listener`, `set_nonblocking` |
| Baseline epoll and its v1 copy | `code/src/server_epoll.c`, `epoll_server_v1.c` | event batch, registrations, ready list | edge-triggered accept and read loops, spin-write, close |
| Reference server | `code/src/reference_server.c` | event batch, registrations | level-triggered accept loop, one read and spin-write per event, close, close on `EPOLLERR`/`EPOLLHUP` |
| Blocking server | `code/src/server_blocking.c` | one detached thread per connection, the heap cell it takes its descriptor from | accept, spawn, blocking read and write loop, close |
| Baseline io_uring and its v1 copy | `code/src/server_uring.c`, `io_uring_server_v1.c` | one `struct conn_info` on the heap per connection, `accept_conn`, submission and completion queue | one-shot accept, read and write, batches of completions, submit, close |
| Benchmark harness | 13 programs in `code/scripts/` (`bench_runner.py` has two campaigns) | server and client processes, the point of the sweep, values of its trials, rows | start a server, wait for its port, start and await clients, signal, wait, kill, add a row, write the table |
| Python load generators | `benchmark.py`, `bench_runner.py`, `exp3_runner.py`, `exp4_idle_sweep.py`, `load_worker.py` | `stop_event`, one coroutine per connection, `stats` | open idle connections in batches, send and read, stop, gather, report |
| Calibration | `task3_calibration.py`, four `task4_*.py` | medians, `chosen_thread_count`, `results/calibration.csv` | measure, judge, choose; choose again from the file |
| Crossover analysis | `exp4_idle_sweep.py` | rows of the sweep, `crossover_x` | search two curves, interpolate, draw |
| Plots, functional tests, shell wrappers | `plot_results.py`, `test_*.py`, `*.sh` | none | |

### How they interact

A server and its clients share only TCP connections. Each server is one thread
(the blocking one excepted) that alternates between waiting in the kernel and
working off what the kernel reported; between any two of its system calls the
clients and the network may do anything: connect, send, read, half-close, close,
reset. A signal handler sets `g_stop`. The load generator is such a client: a
request of `PAYLOAD_LEN` bytes, the whole answer, then the next request.

A script and the programs it starts are processes of one machine. The script
starts a server, finds out by connecting whether *some* process listens, starts
clients, signals the server, waits, and kills it if that takes too long. All
servers listen on the same port with `SO_REUSEPORT`, so one that is left over
does not keep the next from starting: it silently takes part of its connections.
A server may miss the signal (between the test of `g_stop` and `epoll_wait`), so
that is not a far-fetched case. The Python clients run inside the script or in a
child; they are coroutines that may be anywhere in their loop when the time is
up. Through `results/calibration.csv` one script influences four others.

### What is hard here

* **Interleaving with the peer.** What `epoll_wait` reported may be out of date
  when the handler acts on it; every `write()` may take all, a part or nothing,
  or fail.
* **Reuse of descriptor numbers.** A number closed while a batch is worked off
  is handed out again by the next `accept()`. With io_uring, completions that
  are still queued carry the old number.
* **Partial writes.** The rest has to be kept, the interest has to be switched,
  and both have to be undone at the right moment.
* **Edges.** In edge-triggered mode what was not drained is not announced again.
* **Resources at their limit.** Descriptors, `MAX_FDS`, `FD_SETSIZE`, provided
  buffers, submission-queue entries, the `pollfd` array, `malloc()`.
* **Tables edited while they are scanned** (poll, select).
* **Threads.** A thread may run for the first time long after `main()` has accepted
  other clients; `main()` may return under all of them.
* **Progress.** A server that spins on one client delays all others; a load
  generator must end although its server died.
* **Process life cycles.** A server that starts late, was not built, crashes or
  ignores the signal; a `kill()` that is not waited for; a wait without a limit;
  an exception between starting a process and stopping it.
* **Figures.** Values of one point used for another, answers that arrive after
  the time is up, answers that come in pieces, the median of nothing, rounding
  across a threshold, ties at the start of a curve.

The list of hazards, each at its line and with the properties that would catch
it going wrong, is in `PROJECT.json`.

### What makes each part correct

* *Every server:* a client gets back exactly a prefix of what it sent, and the
  server does not hang up on a client that is still owed an answer (`EchoService`);
  every byte is answered or the connection ends; connections whose client is
  gone are closed; queued clients are accepted.
* *epoll servers:* no event is handled for a connection other than the one it
  was reported for; no byte read is dropped; `EPOLLOUT` is registered exactly
  while bytes wait; no edge is lost; a heap block is freed once, and lost only where
  line 204 replaces one; events and requests are counted once each.
* *Blocking server:* each accepted descriptor has the one thread created for its
  connection; a client that reads is served whatever the others do.
* *Baseline io_uring:* one operation is underway for each `conn_info`, the one its
  `type` names, and one accept always.
* *Optimised io_uring:* each provided buffer is in exactly one place; each open connection
  has exactly one receive underway; completions never hit an innocent client.
* *poll, select:* the hand-kept tables equal the set of open descriptors
  whenever the kernel is asked.
* *Load generator:* one request outstanding per connection,
  each error counted once, percentiles in order, an end at the deadline.
* *Harness:* a trial measures the server it started and no other; no server is
  left running; a row is about the point it names; the table has every point and
  is written, whatever the servers do.
* *Python load generators:* the total counts every answer once, also the one
  outstanding at the end; the generator returns.
* *Calibration:* the readers come to the choice that was announced.
* *Crossover:* what is drawn is a crossing, and a lead that changes is drawn.

## 2. Modules

| Module | Models | Builds on |
|---|---|---|
| `Sockets` | the kernel's sockets and the clients (external) | |
| `EchoService` | the abstract specification: what all servers promise | |
| `EpollLt` | `epoll_lt_server.c` | `Sockets` |
| `EpollEt` | `epoll_et_server.c` | `EpollLt`, with a ready list |
| `EpollLean` | `epoll_lt_lean_server.c` | `EpollLt`, with a heap |
| `UringOpt` | `io_uring_opt_server.c` and the kernel's side of the ring | `Sockets` |
| `SpinEcho` | accept, read and spin-write as the four spinning servers share them | `Sockets` |
| `ServerPoll` | `server_poll.c` | `SpinEcho` |
| `ServerSelect` | `server_select.c` | `SpinEcho` |
| `ServerEpoll` | `server_epoll.c` (and its v1 copy, the same text) and `reference_server.c` | `SpinEcho`, with a ready list |
| `ServerBlocking` | `server_blocking.c` | `Sockets`, with threads |
| `ServerUring` | `server_uring.c` (and its v1 copy, the same text in UTF-16) and the kernel's side of the ring | `Sockets` |
| `Loadgen` | one worker of `loadgen.c` and the report of `main()` | |
| `Processes` | server processes as the operating system shows them (external) | |
| `Scripts` | the trial of each benchmark script as a program of steps, and the rules of its `main()` | |
| `Campaign` | the abstract specification: what every benchmark script promises | |
| `Harness` | a run of a script: sweep, trials, server processes, clients, rows | `Processes`, `Scripts` |
| `AsyncLoad` | the asyncio load generators | |
| `Calibration` | `task3_calibration.py` and its four readers | |
| `Crossover` | the sweep of `exp4_idle_sweep.py` and its `plot_crossover()` | |
| `Baselines` | the four spinning servers and the blocking one, one in each behaviour: `Spec`, its fairness, `ImplementsEcho` and `ServedOrReaped` | `ServerPoll`, `ServerSelect`, `ServerEpoll`, `ServerBlocking` |
| `SocketsProofs` | lemmas on bytes, descriptors and clients that all server proofs use | `Sockets` |
| `SumTheorems` | lemmas on sums over finite sets, for the proofs that add up bytes, requests or answers | |
| `EpollProofs` | theorems on the level-triggered, the edge-triggered and the lean server | `EpollEt`, `EpollLean` |
| `UringOptProofs` | theorems on the optimised io_uring server | `UringOpt`, `SumTheorems` |
| `BaselinesProofs` | theorems on the five servers of `Baselines` | `Baselines` |
| `ServerUringProofs` | theorems on the baseline io_uring server | `ServerUring` |
| `HarnessProofs` | theorems on the scripts | `Harness` |
| `FiguresProofs` | theorems on the load generators, the calibration and the crossover | `Loadgen`, `AsyncLoad`, `Calibration`, `Crossover`, `SumTheorems` |
| `MCFigures` | `Loadgen`, `AsyncLoad`, `Calibration` and `Crossover`, one in each behaviour | these four |
| other `MC...` | constants for TLC: model values for clients, sequences of servers and levels | the module named |

### Correspondence to the code

**Data.** The *i*-th byte of connection `c` is the pair `<<c, i>>`. Loss,
repetition, reordering and misdirection of bytes are all visible in `echo[c]`,
the bytes `write()` accepted for `c`. A receive queue is always a contiguous part
of what was sent, so `sent` and `taken` stand for it; `SndCap` bytes fit between
`write()` and the client, so short writes and `EAGAIN` come from the state, not
from a coin. `owner[f]` is the connection behind descriptor `f`; `accept()`
returns the lowest free number, as POSIX has it, which is what makes reuse
happen.

**Steps.** One action is one system call of the server together with the local
computation up to the next one, because that is where the peer can interleave.
A handler is therefore a short sequence of actions tied together by `pc`.

| Code | `EpollLt` |
|---|---|
| `events[]`, `i` | `batch` (events not yet handled; order is left open), `cur` |
| `buf`, the read buffer | `buf` |
| `client_states[fd].wbuf/woffset/wlen` | `pend[fd]`, the bytes still to write |
| registration by `epoll_ctl` | `interest[fd]` |
| `while (!g_stop) epoll_wait(...)` | `LoopTest`, `Enter`, `EpollWait` |
| accept loop | `AcceptClient`, `AcceptRefused`, `AcceptStops` |
| `EPOLLOUT` branch | `FlushWrite`, `FlushBlocked`, `FlushBroken`, `FlushDrained` |
| `EPOLLIN` branch | `ReadSome`, `ReadStops`, `WriteAll`, `WritePart`, `WriteBroken` |
| close, `EPOLL_CTL_DEL`, reset of the entry | `DropClient` |
| handlers, end of `main` | `Signal`, `Stop`, `Kill` |

`EpollEt` conjoins `EpollLt`'s actions with the ready list `rdl`: arrivals and
`EPOLL_CTL_MOD`/`ADD` of a ready descriptor put it there, `epoll_wait` takes it
off. After a complete or short write it goes back to `read()` unless the read
fell short of the buffer. `EpollLean` adds the number of live heap blocks; `Leaked` is what it exceeds the
entries of `pending_writes[]` by, and `Lost(f)` counts the bytes of a client that were read and are nowhere.

`UringOpt` has both sides of the ring. `Flush`, `Issue`, `Issued` and `Return`
are `submit_and_wait()`; the kernel resolves a descriptor *number* when it issues
an SQE and holds the connection from then on; completions carry the number only.
`CompleteAccept`, `CompleteRecv` and `CompleteSend` are the kernel's;
`ReapAccept`, `ReapRecv`, `Rearm`, `ReapEof` and `ReapSend` the loop's.
With `DeferTaskrun` completions appear only while the thread waits, without it
at any time (both set-ups of the code, which falls back when the flag is refused).

`ServerPoll` keeps `fds` as a sequence of entries, `poll_cap` and the number of
entries really `allocated`; `PollAcceptNoMemory` and `PollAcceptOverrun` are the two
steps of a failing `realloc()`. `ServerSelect` keeps the two sets and `max_fd`.
`FD_SETSIZE` is a variable only so that one run has a server below the limit and one at it.
`ServerEpoll` is two programs: `program` is chosen at the start and `edge` says which of
them runs. They differ in how `epoll_wait` finds descriptors (ready list or
state), in whether an event's flags are looked at (`EpollHangUp`) and in whether the
handler reads again after an answer (`EpollWriteDone`). Names that the three modules
would share carry the prefixes `Poll`, `Select` and `Epoll`.

In `ServerBlocking` a thread is named by the connection it was created for.
`BlockAccept`, `HandOver` and `HandOverFails` are `main()`; `TakeCell`, `ThreadRead`,
`ThreadWrite` and `ThreadEnds` are `client_handler()`, each a step of one thread,
and all threads and `main()` interleave. A blocking call is an action that is not
enabled until it can do something, so a thread sleeps without stopping another.
`BlockAcceptFails` and `BlockLeave` are the `break` after `accept()` and the `return`
that ends every thread.

`ServerUring` names a `conn_info` by its connection and `accept_conn` by `NoConn`.
`KernelAccept`, `KernelRead` and `KernelWrite` complete one operation each, in any
order; `UringWait` takes a batch, `ReapAccept`, `ReapRead` and `ReapWrite` work it off
and prepare what comes next, `UringSubmit` hands it over. `Prepared` and `Typed` are
what `add_accept()`, `add_read()` and `add_write()` do, also when there is no `Room`: nothing.

`Loadgen` counts bytes and does not name them; a response may be declared wrong
(`Corrupts`), and a `write()` may take any part of what it is given or nothing.
Time has three values, before, in and after the steady-state
window, and moves by `Tick`.

**Harness.** `Scripts` writes each trial down as a sequence of steps (`Popen`,
`Await`, `Load`, `Finish`, `Signal`, `Wait`, ...) in the order of the code, and
each `main()` as a record of the rules in which the fourteen loops differ: what
they sweep, whether an unbuilt server is left out, what happens to
`server_select` above its limit, which values count, and what a point without
values becomes. `Harness` interprets them; every step of a trial that can take
time or fail is an action:

| Code | `Harness` |
|---|---|
| `for server ... for conns ... for trial` | `pt`, `tr`, `NextPoint`, `SkipPoint`, `Return` |
| `subprocess.Popen([server, port])` | `Popen`: process `last + 1` is `own` |
| `wait_for_server()` | `AwaitUp` (some process listens), `AwaitTimeout` |
| `kill(); return None` | `GiveUp` |
| load generator, `mpstat` | `StartLoad`, `NoLoadgen`, `RunMpstat`, `NoMpstat` |
| `communicate()`, `asyncio.run()`, `except`, `wait(timeout)` of the client | `Finish`, `LoadRaises`, `LoadCaught`, `Overrun` |
| `send_signal()`, `wait(timeout)`, `kill()` | `Signal`, `Stopped`, `StopTimeout` |
| median or default, `rows.append` | `kept`, `EndPoint`, `EmptyPoint` |
| `writerows` | `SaveTable` |

A figure is 0 or 1, since the scripts ask only whether it is positive. The servers are
`ServerUp`, `ServerObeys`, `ServerGone`, `Serve`: they may do any of it at any
time, or never. `told` and `doomed` are the processes with a signal pending; a doomed
one runs no more instruction but still has its listening socket until it is gone.

`AsyncLoad` has one action per stretch between two `await`s, as asyncio switches
only there. Each of the six generators is a list of steps for its main coroutine and
one for each kind of connection. An answer is `Size` pieces, and `read()` takes the
pieces that are there.

`Calibration` has percentages as integers, in thousandths, and doubled medians,
so that `>= 90.0`, `round(x, 2)` and the mean of the two middle values are exact. What
`statistics.median` finds by sorting is stated by rank: `Ranked(list, k)` is the value that fewer
than `k` entries are below and at least `k` do not exceed. `Crossover` keeps `crossover_x` as a
fraction; a curve is the rows of its server, the first first (`Curve`).

Definitions whose comment begins with *Mutant* are not part of any
specification. They are plausible defects (a dropped guard, a forgotten reset);
`PROJECT.json` pairs each property with one that violates it.

## 3. Runs

A configuration gives values to the constants and nothing else. `Lockstep`
clients send `ReqMin` to `ReqMax` bytes, and only when all they sent was echoed (the load
generator and the functional test work this way); other clients keep up to `Window`
bytes outstanding.

| Run | Bounds | Shows |
|---|---|---|
| `lt_served` | 2 lockstep clients, 2 descriptors, 3 bytes each in requests of up to 3, buffer 3, send buffer 1, `EPOLL_CTL_ADD` may fail, `-DSTATS` | `TypeOK`, `EventsCurrent`, `NothingDropped`, `PendingArmed`, `StatsExact`, the refinement `ImplementsEcho`, and `ServedOrReaped` |
| `lt_pipelined` | 1 client, window of 4 bytes | violation of `EchoExact`, finding 1 |
| `et_served` | 2 lockstep clients, 2 descriptors, requests of 2 or 3 bytes for a buffer of 2, `-DSTATS` | `NoLostEdge`, `ImplementsEcho`, `ServedOrReaped` |
| `lean_pipelined` | 2 clients with a window of 3 bytes, 2 descriptors, buffer 2, send buffer 1, `malloc()` may fail | `BlocksAccounted`, `LossAccounted` |
| `uring_polite` | 2 clients that leave when answered, 4 buffers, 2 SQEs | `NothingDropped`, `OneRecv`, `ImplementsEcho` (so nobody is closed by mistake), `EveryByteEchoed` |
| `uring_wild` | 2 clients that leave at any time, 1 buffer, short sends, a descriptor beyond `MAX_FDS` | `BuffersConserved`, `RecvArmed` |
| `uring_staleclose` | 2 clients that leave at any time | violation of `NoInnocentClosed`, finding 2 |
| `baselines_served` | five programs; 2 pipelining, half-closing clients, 2 bytes each for a buffer of 2, send buffer 1, window 3, `pollfd` array of 1, failing `realloc()`, `EPOLL_CTL_ADD`, `accept()`, `malloc()` and `pthread_create()`, `FD_SETSIZE` 3 or 4 for descriptors 2 and 3 | `TableExact`, `WatchesAll`, `NoLostEdge`, `OneThreadEach`, `ImplementsEcho`, `ServedOrReaped` |
| `uring_baseline` | 2 pipelining, half-closing clients, 2 descriptors, 2 bytes each, send buffer and window 2, 3 SQEs, failing accept and `malloc()` | `OneOperation`, `ImplementsEcho`, `ServedOrReaped` |
| `uring_overflow` | 2 clients, 2 SQEs | violation of `NoRequestDropped`, finding 3 |
| `harness_scripts` | all 14 scripts; 2 servers (`server_select` and one that may not be built), levels 0 and 2000, 2 trials, `loadgen` and `mpstat` there or not, at most one dying server at a `Popen` | `OwnAnswers`, `NothingLeft`, `TableFaithful`, the refinement `ImplementsCampaign`, `Completes` |
| `figures` | a worker of `loadgen.c` with 1 active and 1 idle connection, requests of 2 bytes, latencies up to one beyond the histogram; 6 asyncio generators, 2 active and 2 idle connections opened one by one, answers in up to 2 pieces; 2 thread counts, 3 trials, 3 values for each utilisation; 2 curves of 4 levels with 3 values | `OneOutstanding`, `ErrorsExact`, `PercentilesOrdered`, `TotalExact`, `ClosedLoop`, `GeneratorReturns`, `ReadersAgree`, `CrossoverExact` |

**Why these bounds suffice.** A send buffer of 1 and requests of 1, 2 and 3
bytes give complete writes, short writes, and flushes that finish or block
again; a request of 3 bytes takes the edge-triggered server a full and a short read;
3 bytes allow a second request after one of 2 that went through
`client_states`. Two clients and two descriptors
give every pairing of an old and a new owner of a number inside one batch; an
array of 1 makes the poll server grow it with its first client, so that the
client after a failed `realloc()` finds `poll_cap` doubled; with `FD_SETSIZE`
3 the second client of the select server is at the limit while the first is
served, with 4 both are served and the highest descriptor can close before the other.
With a window of 3 and a send buffer of 1 the lean server meets a second short write before the first
rest is flushed, also on a number that was reused, and `malloc()` may fail at either. With a buffer of 2 and a window of 3 the baseline meets data that arrives while
it spins. Two submission entries make the
queue of the optimised server full in the middle of a round; the baseline needs one for
each client and one for accept, so with two clients 3 is the least that suffices and 2
already overflows, as 4096 do with 4096 clients. The second client
is accepted before the thread of the first has run, while it is served, or with the number it gave back. `LOCAL_MAX_EVENTS = 2` (and
`MAX_EVENTS_PER_WAIT = 1`) make batches smaller than what is ready.
Two points and two trials are what it takes for the values, the servers and the clients of
one to meet the next; level 2000 is above the limit of select and level 0 is the
one for which `task6_memory.py` starts no client. Two active connections finish
in any order; three trials have a median in the middle, and a trial that returns
`None` leaves two, whose median is a mean; 89996 rounds to 90.00 %. Four levels have
three intervals, so that a crossing may be missed before or after another.
Bounds on what would otherwise be unbounded: `MaxBytes` (bytes a client sends,
or the load generator's server echoes), `MaxNobufs` (times a recv finds the ring
of buffers empty), `LatMax` (longest latency), `MaxDying` (killed servers not yet
gone when another is started), `MaxReq` (requests of a coroutine before the time
is up). Counters need no further cap: each event
that bumps one needs a byte.

**Deadlock** is not checked: a server that exited, clients that all left, or a
script that is done is a legal end.

**Fairness.** Weak fairness of the server's (or worker's) thread: the operating
system runs it, and each of its system calls returns when it can. Clients read
what is sent to them and a reset reaches the server (weak fairness each; a client that closes may also reset at once); no
fairness is assumed of connecting, sending, leaving or signals. io_uring
completions get strong fairness, since with `DeferTaskrun` the kernel delivers
them only while the thread waits, again and again. For the load generator the
clock moves on (`Tick`). The threads of the
blocking server are fair each for itself; of its clients one reads, of the others nothing is
assumed, and the one that reads is served (`Reads` in `Baselines`). In `ServerUring`
the thread is fair, the kernel works off the operation of each connection, and clients
read; accept needs no fairness, as nothing is promised to who is not accepted yet.
The spinning servers owe their liveness
to clients that *all* read: one that does not stops everyone, as the `EAGAIN`
branch of their write loop retries at once. Of a script, its own steps are fair, which includes that its
time limits expire, and so is the end of a process with `SIGKILL` pending;
nothing is assumed of the servers, which need neither start, answer nor obey the
signal, nor of clients that fail. `Completes` therefore names the places where a
script may wait for ever. In `AsyncLoad` the coroutines are fair (asyncio runs what is ready, timers
fire); the server is not.

## 4. Proofs

Proved with TLAPS, for all values of the constants that the `ASSUME`s of the modules allow:
every set of clients and (finite set of) descriptors, every buffer size, socket buffer, batch,
`MAX_FDS`, window and length of request; in the scripts every choice among the fourteen, all
sequences of servers and levels, every number of trials and every set of missing programs; in the
load generators every number of connections and buckets; in the analyses every list of thread counts,
servers and levels and all measured values. Each assumption says what the code relies on:
the listener is opened first and is no client's descriptor, tables have room for one entry,
sizes are positive. `ServerSelectAssumption` adds that the listener fits an `fd_set`, and
`CrossoverAssumption` that `SERVERS` names no server twice and `IDLE_LEVELS` rises.

| Module | Theorem | Statement |
|---|---|---|
| `EpollProofs` | `Invariance`, `TypeCorrect` | `Spec => []Inv`, `Spec => []TypeOK` |
| | `EventsAreCurrent` | `Spec => []EventsCurrent` |
| | `PendingIsArmed` | `Spec => []PendingArmed` |
| | `StatsAreExact` | `Spec => StatsExact`, for all clients |
| | `DataInvariance` | `Spec => [](Inv /\ DataInv)` for `SafeClients` |
| | `EchoIsExact` | `Spec => []EchoExact` for `SafeClients` |
| | `NothingIsDropped` | `Spec => []NothingDropped` for `SafeClients` |
| | `EchoServiceImplemented` | `Spec => ImplementsEcho` for `SafeClients` that are `Polite` or do not half-close |
| | `LeanAccountsForBlocks` | `LeanSpec => BlocksAccounted`, for all clients |
| | `LeanAccountsForBytes` | `LeanSpec => LossAccounted`, for all clients |
| | `LeanLeaksNothing` | `LeanSpec => []NoLeak` for `SafeClients` |
| | `LeanEchoIsExact`, `LeanImplementsEcho` | `EchoExact` and `ImplementsEcho` of the lean server for such clients |
| | `EtImplementsEcho` | `EtSpec => ImplementsEcho` for such clients |
| | `ClientEdgesAreKept` | `EtSpec => []EdgeInv`, for all clients |
| | `NoEdgeIsLost`, `NoEdgeIsLostWithEnoughFds` | `EtSpec /\ []~AcceptNoFd => []NoLostEdge`, and without that if every client can have a descriptor |
| `UringOptProofs` | `BuffersAreConserved` | `Spec => []BuffersConserved` |
| | `RecvsAreArmed` | `Spec => []RecvArmed` |
| | `OneRecvEach` | `Spec => [](starved = 0 => OneRecv)` for `Polite` clients |
| | `EveryByteWaitsOnce` | `Spec /\ [](starved = 0) => []WaitsOnce` for such clients, if an answer fits the socket and every descriptor is below `MAX_FDS` |
| | `NothingIsDropped` | `Spec /\ [](starved = 0) => []NothingDropped` under the same conditions |
| | `UringOptImplementsEcho` | `Spec /\ [](starved = 0) => ImplementsEcho` under the same conditions |
| `BaselinesProofs` | `BaselinesImplementEcho` | `Spec => ImplementsEcho`, for all clients |
| | `TableIsExact` | `Spec => []TableExact` |
| | `AllAreWatched` | `Spec => []WatchesAll` |
| | `NoEdgeIsLost`, `NoEdgeIsLostWithEnoughFds` | `NoLostEdge`, as above |
| | `OneThreadForEach` | `Spec => []OneThreadEach` |
| `ServerUringProofs` | `OneOperationEach` | `UringSpec => []OneOperation` if there are fewer descriptors than submission entries |
| | `UringImplementsEcho` | `UringSpec => ImplementsEcho` if, besides, an answer fits the socket |
| `HarnessProofs` | `HarnessTypeCorrect` | `HarnessSpec => []HarnessTypeOK` |
| | `OnlyOwnServerAnswers` | `HarnessSpec => []OwnAnswers` |
| | `NoServerLeft` | `HarnessSpec => []NothingLeft` |
| | `TablesAreFaithful` | `HarnessSpec => []TableFaithful` |
| | `ScriptsImplementCampaign` | `HarnessSpec => ImplementsCampaign` |
| `FiguresProofs` | `RequestsAreOutstanding` | `Spec => []OneOutstanding` |
| | `ErrorsAreExact` | `Spec => []ErrorsExact` |
| | `PercentilesAreOrdered` | `Spec => []PercentilesOrdered` |
| | `ClientsWaitForAnswers` | `LoadSpec => []ClosedLoop` |
| | `TotalsAreExact` | `LoadSpec => []TotalExact` |
| | `ReadersAlwaysAgree` | `CalSpec => ReadersAgree` |
| | `CrossoverIsExact` | `CrossSpec => []CrossoverExact` |
| `SumTheorems` | `SumIsPile` | a sum over a finite set is the size of a set with that many elements for each member |

The names of specifications are those of the modules; the files give them in full.

**Common ground.** `SocketsProofs` has the lemmas on runs of bytes (`Bytes(c, lo, n)`: types,
concatenation, parts, and what a `write()` appends) and `OwnerInv`, which every server needs: no two
descriptors share a connection, a connection waits in the accept queue at most once, and the
`phase` of a connection says which of the two it does. `AcceptOwner`, `CloseOwner` and
`ClientOwner` say what `accept()`, `close()` and the clients do to it.

**Sums.** `NothingDropped`, `PercentilesOrdered` and `TotalExact` add up a function over a finite
set, with the fold `MapThenSumSet` of the community modules, which picks elements one by one. Its value
is found without an induction over an operator: the recursive function the fold stands for exists,
because the size of a `Pile` (for each member as many pairs as its number) satisfies the
recursion; and if it differed from that size on some set, it would on a smallest one, which
the recursion refutes (`LeastSubset`, from the library's well-founded orders). So a sum is the size of a pile (`SumIsPile`), and what
changes when one term changes (`SumChange`), or when an interval is cut into pieces
(`SumOfPieces`), is a fact about cardinalities.

**The level-triggered server.** `Inv` is `TypeOK /\ OwnerInv /\ LoopInv /\ ArmInv`.
`EventsCurrent` is not inductive by itself: an event stays current because a
descriptor is only closed while its own event is in hand, and a batch holds at
most one event per descriptor (`LoopInv`); and since no two descriptors share
a connection and accepted connections come from the queue (`OwnerInv`), a newly
accepted descriptor was free and so has no event in the batch. `ArmInv` says when `EPOLLOUT`
is registered at every program counter; `PendingArmed` is its value at the wait. `StatsExact`
is about steps: the lemmas on `Buffered` say how many echoes are buffered after each, and `OutInv` that
an `EPOLLOUT` event still to be handled finds something to flush, so that its request is counted for an echo
that was begun. `Abandoned` then changes only where a close or line 200 cuts an echo short (`CutShort`).

`EchoExact` needs to know where each byte is. `ConnInv` orders
`got <= Len(echo) <= taken <= sent` and says what the client's protocol adds;
`FdInv` says that what was read and not written is one consecutive run, in
`buf` while the descriptor is being served and in `pend[fd]` otherwise. The
critical step is `WritePart`: it overwrites `pend[fd]`, so `pend[fd]` must be
empty when a read has returned data. That is where the clients come in:
`SafeClients` is the condition that they are lockstep with requests no longer
than the read buffer, or that the send buffer holds a whole window (then no
write is short). Run `lt_pipelined` shows that the condition cannot simply be dropped.
For the refinement, `LeaveInv` says what is known when the server is about to close: the client is
gone (a reset, an error), or has nothing left to be answered. That last part is what a
client that half-closes too early breaks (section 5), so the theorem is about clients that do so
only when answered (`Polite`) or not at all.

**Its two variants.** The edge-triggered and the lean server change a few of the level-triggered
server's actions, so the invariants above are shown once for a step that either program may take
(`CommonNext`, with a parameter for whether the rest of a short write may be lost) and
each program adds what is its own. The lean server's are its blocks and what is in them. The same lemmas on `Buffered` say what
each step does to the entries of `pending_writes[]`, so `BlocksAccounted` holds for every client: only line 204
loses a block, the one it replaces. `LossAccounted` follows bytes in the same way and for every client: each
handler moves them between the socket, `buf`, the block and the echo of one connection, and takes them from
nowhere else because no two descriptors share one (`OwnerInv`). For `SafeClients` a read that returns data finds no bytes waiting, so nothing is
replaced and nothing is leaked (`NoLeak`); for others `NoLeak` is false (section 5), and so
no run states it. `LeanEchoIsExact` needs besides that
`malloc()` fails only under a client that then waits for ever. The edge-triggered server's is `EdgeInv`: whatever there is to read or to flush on a
descriptor is on the ready list, in the batch or in hand. It holds for every client, since
each arrival and each `EPOLL_CTL_MOD` of a ready descriptor makes an edge and every handler stops
only at `EAGAIN` or at a short read. Only the listener can lose its edge, in `accept()`
with the descriptor table full; hence `~AcceptNoFd`, or enough descriptors. The instance of run
`et_served` (requests of 3 bytes for a buffer of 2) is outside `SafeClients`, so run and
theorem complement each other.

**The optimised io_uring server.** `BuffersConserved` counts; the invariant locates. Each
buffer has one place, and two completions, sends or ring slots never name the same one. For
`RecvArmed` the multishot recv of each open connection is followed through its life: queued,
in the kernel, or ended with a completion in the queue (end of the stream, an error, no buffer)
that the loop will answer by a close or a re-arm. These two hold for all clients.

`OneRecv` and the refinement do not: a client that leaves while an answer waits makes a send fail, and
a failed send is reaped after its number may have gone to somebody else (run `uring_staleclose`); and
a recv that finds no buffer is re-armed twice (section 5). So the theorems assume
clients that leave when they have been answered (`Polite`), and `starved = 0`: the ring of buffers was never found
empty, which is the program's choice of `BUF_RING_ENTRIES`, and no number of buffers rules it out for every
schedule, because a buffer stays taken until its send is reaped. `Calm` is
the invariant. Every number in a queue is that of the connection the entry was made for (`NumberInv`).
That needs to be known when a number is closed, and `OrderInv` says it: behind the end of a stream nothing of that
number follows, because its only recv has ended; and nothing of it waits to be sent, because a client that has left has
all its bytes back and no byte is echoed twice or waits after it was echoed (`PieceInv`). `ArmOnce` counts, with
the recvs, the completions that will arm one.

With answers that fit the socket (`AnswersFit`) no send waits or is short, and `Fifo` adds the order: the pieces of a stream
are sorted in the submission queue and in the completions, and those in the first are before those in the
second (`SortInv`); they cover all that was received and not echoed (`CoverInv`). The send
that is issued next then begins where the echo ends (`FirstInLine`). And since the pieces
do not overlap and lie between the end of the echo and what was received (`BehindEcho`), their lengths
add up to the difference, which is `NothingDropped` (`WaitingIsRest`). Without `starved = 0` the
program may stop to be calm for ever, so the refinement has it as a hypothesis about the whole behaviour.

**The five baselines.** One behaviour runs one of the programs, so each lemma is about one
program and the others leave its variables alone. A server that spins is at one of few
places (`SpinInv`): what it read is what `buf` holds, and all read before is echoed. That needs nothing of
the clients, which is why `BaselinesImplementEcho` holds for those that pipeline and
half-close. `Moves` lists what a step of a spinning server does to the sockets, so that the
refinement is shown once and each program only has to be shown to move in that way.
`TableInv` says that each open client is in the `pollfd` array exactly once and that empty
slots are there only while `compress_array` is set, `ScanInv` the same in the middle of a
scan; that compaction loses nothing is the lemma on `Place`, the
number of kept slots up to one. `SelInv` compares `master_set` and `max_fd` with the open descriptors.
`EdgeInv` and `ListenerInv` are those of the edge-triggered server without `EPOLLOUT`.

In the blocking server, `HoldsInv` says that live
threads and open descriptors correspond one to one, except for the descriptor `main()`
holds between `accept()` and the hand-over; a thread's number is looked up in its cell before it
first runs and in its variable afterwards (`Has`). It is kept because `accept()` returns a number
without an owner, which by the correspondence no thread has either, and because a thread closes
its own number and ends in one step. `OwnerInv` is needed for the new thread: a
connection waits in the accept queue at most once and has had no thread before. `StreamInv` says of
each thread what `SpinInv` says of the one thread of the others.

**The baseline io_uring server.** `OneOperation` counts the operations of each `conn_info` in three
places; `PlaceInv` says instead that nobody is named twice in one place or in two, and that those
named are the accept and the `conn_info`s in use. `InfoInv` ties a `conn_info` in use
to the descriptor of its connection. Together they show that the queue has room for what
a completion asks for (`RoomLeft`): the entries in it are the accept and connections with
descriptors of their own, none of them that of the completion in hand. That needs `ENTRIES` to exceed the
number of descriptors (`Enough`); run `uring_overflow` shows what happens if it does not.
After that `add_read()`, `add_write()` and `add_accept()` never return without an entry, and a completion has four
outcomes (`ReapCases`): take on, turn away, go on, let go. `StreamInv` follows the bytes from the
read through the two queues to the write. A short write would lose the rest, so an answer must fit
(`AnswersFit`, with `OwedInv`: nobody is owed more than the protocol of the clients allows). A write fails only
on a client that is gone, which is why hanging up is a `Hangup`.

**The scripts.** The proofs need of a trial only that it is `WellFormed`: it
begins with `Popen`, any other `Popen` comes right after a wait, and it ends with
a wait. That all fourteen are is the lemma `TrialsWellFormed`, proved by expanding them once; the rest
of the proof is about any such program. `OwnAnswers` is not inductive: a
`Popen` names a new `own`, and the server before it must be unable to answer.
`Quiet` says so: at the beginning of a trial, after a wait and outside of
trials every process left has `SIGKILL` pending. It is kept because a wait is left
only when the server has exited or was killed, and because `GiveUp` kills.
`LastOwn` carries it through the trial: whatever runs and is not being killed is
`own`. `NothingLeft` follows from both, with `ReasonOfAbort` for the exceptions. For
`TableFaithful` the values kept are those of the trials of the present point, and the
rows are those of the points before it that had to have one.
For `ScriptsImplementCampaign`, `Sweep` maps the point to the number of points
visited and the rows to the points they name; `SweepStep` shows action by action
that `EndPoint` and `SkipPoint` are a `Visit`, `SaveTable` is `Save`, an exception
is `Lose`, which takes a script that is `Fragile`, and all else is a stutter.

**The load generators.** `WorkerInv` says that the connection in hand is open and at the state of its
event, that the batch is about other open connections, and what the offsets, the counters of
the kernel and the errors have to do with each other; the set of lost connections and the
error counter grow in the same steps. `ClientInv` follows a coroutine of the Python generators
through its loop: what it sent and what it counted differ by the request it is waiting for.

`HistogramInv` says that the requests counted are those in the buckets and those beyond them. The scan for a
percentile stops where the prefix sum first reaches its share, and a larger share is reached no
earlier (`ReachedOrder`); without latencies beyond the histogram all shares are reached
(`ReportOrders`). For `TotalExact`, `TotalInv` says that `total` is at every moment the sum over the clients that are
through, and `GatheredInv` that after the `gather` of the active clients there are no others; that
each of the programs has that step, and no active client after it, is read off the six lists of steps
(`MainPrograms`, `GatherLast`).

**The calibration and the crossover.** `ChoiceInv` says that while rows are made `chosen` is that of
the first optimal one, or none is optimal; and when the file is written, or else that of
the first row with the greatest utilisation. A reader that finds no `Borderline` row takes the same
rows for optimal and finds the same first one (`FirstOptimal`, `FirstExists`, `FirstIsOne`). That a median is
a number at all needs that a list has an entry of every rank (`RankExists`). For the crossover,
`RowsInv` says which server and level each row is about; hence, with every server listed once, a curve has one point for
each level, in their order (`CurveIs`, `Curves`). `SearchInv` says that up to where the search has come
the lead has not changed (`SameSide`). A first crossing that is found after
that lies in its interval, where the two lines meet (`LinesMeet`); and if the search ends without one,
no lead changed.

**Only model-checked.** Liveness (`ServedOrReaped`, `EveryByteEchoed`, `Completes`,
`GeneratorReturns`): fairness and `ENABLED` are outside the prover's reach. Two theorems about the optimised
io_uring server, `NothingIsDropped` and `UringOptImplementsEcho`, and those named
`NoEdgeIsLost` have a hypothesis about the whole behaviour, as their rows say.

## 5. Findings

1. `lt_pipelined`: a client that sends again before it has read its answer can lose
   bytes. The rest of a short write is copied to the start of
   `client_states[fd].wbuf` even if an earlier rest is still waiting there.
2. `uring_staleclose`: a failed send reaped after its descriptor number was
   reused closes the new client.
3. `uring_overflow`: when a batch asks for more operations than the submission queue
   holds, the baseline io_uring server drops the rest; the connection stays open and is never heard again,
   or accept ends. `report/final_report.md:109` describes a queue of 16,384 entries that is
   flushed and drops no request; `server_uring.c` has 4096 and no flush.

Other behaviour the models show, described here because no document of the
repository says otherwise, or because the bounds of the runs avoid it on purpose:

| Behaviour | Place | To see it |
|---|---|---|
| End of stream drops an answer waiting for `EPOLLOUT`, though a half-closed client still reads | `epoll_lt_server.c:173` | `HalfClose = TRUE` in `lt_served`: `ImplementsEcho` fails |
| When the FIN came with the data, the short-read break leaves the end of the stream unread: the read it saves would have returned 0, not `EAGAIN`. A client that half-closed makes no further edge when it closes, and its descriptor is never returned | `epoll_et_server.c:219` | `HalfClose = TRUE` in `et_served` without `ImplementsEcho`: `ServedOrReaped` fails |
| Out of descriptors, the edge-triggered accept loop leaves queued clients without an edge to come | `epoll_et_server.c:105` | `Fds = {1}` in `et_served`: `NoLostEdge` fails |
| The same in the baseline | `server_epoll.c:51` | its accept loop leaves the listener off the ready list in the same way: `Fds = {2}` in `baselines_served` refutes `NoLostEdge` in nine states |
| `ENOBUFS` re-arms the recv twice | `io_uring_opt_server.c:214`, `:229` | `Bids = {0}` in `uring_polite`: `OneRecv` fails |
| A short send is taken for a complete one | `io_uring_opt_server.c:240` | `SndCap = 1`, `Window = 2` in `uring_polite`: `NothingDropped` fails |
| A short write is taken for a complete one | `server_uring.c:126` | `SndCap = 1` in `uring_baseline`: `ImplementsEcho` fails |
| Any error of `accept()`, also a lack of descriptors, ends the server with all clients it is serving | `server_blocking.c:51` | `BlockAcceptFails`, `BlockLeave` in `baselines_served` |
| A failed `realloc()` leaves `poll_cap` doubled; the next append writes beyond the array | `server_poll.c:95`, `:105` | `PollAcceptOverrun` fires in `baselines_served` |
| A second short write before the rest of the first is flushed replaces its block, which is leaked with its bytes | `epoll_lt_lean_server.c:204` | `BlocksAccounted` and `LossAccounted` name the line; `Leaked` reaches 2 in `lean_pipelined`, and `NoLeak` in their place fails |
| Without memory for the rest of a short write, the rest is dropped | `epoll_lt_lean_server.c:208` | `LeanNoMemory`, the other place that `LossAccounted` names; for a lockstep client the echo stays a prefix only because it then waits for ever |
| Latencies of the overflow bucket are known to p99.9 only; p99 may then be reported as 0, below p50 | `loadgen.c:504` | `PercentilesOrdered` without its condition fails in `figures` |
| A server that misses the signal stops the script: `wait()` without a limit | `exp3_runner.py:90`, `:103` | `Stuck` in `Completes` |
| A client whose answer never comes stops the scripts that wait for it without a limit | `exp1_runner.py:58`, `exp2_runner.py:122` and the scripts that run the generator themselves | `Stall`; `Completes` without its second disjunct fails in `harness_scripts` |
| A point none of whose trials started a server ends the script with `ValueError`, and all its rows are lost | `task1_bottleneck_check.py:190` | `EmptyPoint`; the other scripts have a default |
| A missing `loadgen` or `mpstat` ends the script with a server left running | `task1_bottleneck_check.py:110`, `task4_*.py` | `NoLoadgen`, `NoMpstat` |
| The second server of `exp3_runner.py` may never have started, and the row is made all the same | `exp3_runner.py:93` | `AwaitAny` |
| The second piece of an answer counts as the answer to the next request | `benchmark.py:74` and the other generators | `ClosedLoop` without `split` fails in `figures` |
| The search accepts the place where poll overtakes epoll too, and the plot labels it "(epoll overtakes poll)" | `exp4_idle_sweep.py:202`, `:214` | both disjuncts of `Crosses`; a crossing `c` in `Drawn` may have `Lead(c.at + 1) > 0` |
| When both curves start level, no crossing is drawn, wherever they cross later | `exp4_idle_sweep.py:202`, `:212` | `Lead(1) * Lead(k) < 0` is false in `CrossoverExact` |
| A utilisation that rounds to 90.00 % is optimal for the readers and was not for the calibration | `task3_calibration.py:157` | `ReadersAgree` without `Borderline` fails in `figures` |

## 6. Not modelled

* `g_waits` and the arithmetic of the printed ratios; other failures of
  `epoll_wait` than `EINTR`; failing `set_nonblocking()`.
* Optimised io_uring: the `g_stop` test of a `-DSTATS` build (`Kill` covers the exit),
  `EAGAIN`/`EINTR` results of recv and send, overflow of the completion queue.
* Baseline io_uring: errors of `io_uring_wait_cqe()`, a failing `io_uring_submit()`, overflow
  of the completion queue. The kernel is one in which a read or an accept on a
  non-blocking socket waits in the ring (as since Linux 5.12).
* poll: the counters and the stop flag of the `-DSTATS` build, which are those of
  `EpollLt`; what happens in memory after the overrun.
* Load generator: several workers and their merge, the partition of the
  connections, `parse_core_list`, failing allocations, CPU accounting.
* Harness: what `/proc` says, how a figure is computed and rounded (beyond the
  calibration), time itself (a limit may expire at any moment), a failing `Popen` of
  `taskset`, interrupts from the keyboard.
* `AsyncLoad`: percentiles; running out of descriptors in the client, other than
  as a failed connection.
* The functional tests and shell wrappers, which keep no state; `plot_results.py` and
  `generate_plots()`, which only draw.

## 7. Plan

Done: the sockets and the promise; the three buffered epoll servers; the
optimised io_uring server; poll, select, the baseline epoll and the reference
server; the blocking server and the baseline io_uring server; one worker of the C load generator; the scripts, the Python load
generators, the calibration and the crossover; the safety proofs of section 4, which cover all safety
properties of the passing runs.

Left: `Loadgen` with several workers: partition, merge, start-up failures.

## 8. Running it

    tlc -workers 2 -config MCEpollLt_served.cfg MCEpollLt
    tlapm HarnessProofs.tla

Each configuration `MCx_y.cfg` belongs to module `MCx`.
