# A TLA+ model of carbon-c-relay

The relay reads graphite metrics from clients, routes each one to zero or more
servers and aggregations, and keeps a bounded queue per server from which
threads send to the peers. This directory models what runs
concurrently and the algorithms that decide where a metric goes, checks them
with TLC on small instances, and proves some of their invariants with TLAPS for
every instance.

Line numbers refer to the sources in `src/`.

## The system

| Part | Files | State | Operations | Modelled by |
|---|---|---|---|---|
| queue | `queue.c` | ring of pointers, `read`, `write`, `len`, `end` | enqueue, dequeue, dequeue vector, put back, destroy | `Queue`, refines `BoundedFifo` |
| server | `server.c` | a queue per server or cluster, batches, stream buffer, `failure`, `alive`, `stallseq`, shutdown flags | `server_send`, the reader threads, shutdown, wait, free | `Server` |
| aggregator | `aggregator.c` | invocations with buckets, `invlock`, `keep_running` | `aggregator_putmetric`, the expiry thread, stop | `Aggregator` |
| dispatcher | `dispatcher.c` | connections with buffer and waiting destinations, `hold`, `rtr`, connection counts | accept, read callback, idle timeout, close, hold, reload, stop | `Dispatcher` |
| relay | `relay.c` | the current router, a pending signal | start, signals, `do_reload`, the shutdown at the end of `main` | `Relay`; as the workers see it, `Dispatcher` |
| router | `router.c`, `conffile.y` | routes, clusters, servers, aggregators, listeners | read, optimise, route, test; compare, transplant queues, start, stop, free | `Router` on `RouteTable` on `Pattern`; life time in `Relay` |
| consistent hash | `consistent-hash.c` | sorted ring of positions | add node, get nodes | `ConsistentHash` |
| collector | `collector.c` | `pending_router`, the servers it reports on | take over a router, report, stop | `Relay` |
| receptor | `receptor.c` | sockets of the listeners | open, close | `Relay` |
| scanner, parser tables, allocator, eventpipe, md5, sendmetric | | | | not modelled, see below |

How they interact: a dispatcher's callback takes lines from a connection, asks
the router for destinations, and calls `server_send` or
`aggregator_putmetric`. `server_send` may refuse a metric while a queue is
full; the dispatcher then keeps it with the connection and stops reading
there. The expiry thread of the aggregator writes its results to a pipe that is
a connection of a dispatcher again. `main()` stops and replaces all of these
from its own thread on SIGHUP and at the end.

What makes it hard: several threads read and write a queue and look at each
other's flags; a batch can fail half way through; the expiry thread moves the
buckets that dispatchers add to; a stalled metric has been handed to some of
its destinations already; a reload replaces and frees what callbacks use; the
optimiser rearranges rules whose order matters, by the text of expressions.

## Modules

### Queue, BoundedFifo, QueueProofs

`Queue` has the fields of `struct _queue` as its variables and one action per
function of `queue.c`; each runs under the queue's mutex, so it is one step. A
heap of pointers stands for malloc and free, so that a double free or a leak
shows. `BoundedFifo` is what the comments of `queue.c` promise: a sequence of
at most `end` entries that drops its oldest one when full. `Queue` is shown to
implement it (`ImplementsFifo`), by TLC and by proof. The other modules use a
sequence in its place.

### Server

One cluster with its servers, the connections (threads) of each, the
dispatchers that send to it, and the main thread that stops it. Every call into
the queue, every update of a shared counter and every system call is an action;
a thread's `pc` follows `server_queuereader`, `server_queueread`,
`server_queuesend` and `server_connect`. The results of system calls are
choices limited by the faults a configuration allows. Each configuration of a
run (cluster type, capacities, faults, thresholds) is a value of the variable
`config`, so one run covers several clusters.

### Aggregator, AggregatorProofs

One invocation of one aggregation with its buckets. `Put` to `Update` are
`aggregator_putmetric` step by step, with the read-write lock `invlock`;
`BeginPass` to `EndPass` are the expiry thread: it marks expired buckets,
writes them with the lock released, and moves or frees them. Time is an
integer that `Tick` moves; `Lag` bounds how late a pass sees the clock. The
values of a bucket are kept as a set, so that one counted twice or put in
another period shows; the arithmetic of the results is left out.

### Dispatcher

Workers, connections and the thread of `main()`. Bytes are abstracted to
positions: a line is two pieces and `sent`, `rd` and `done` say how far the peer
has written, the worker has read and the lines were split, so reads may cut a
line in two. The callback of a connection is a sequence of actions (`ReadCb`,
`HandOver`, `Stall`, `Read`, `Parse`, `RouteLine`, `ParseEnd`, `ReadEof`), so
that each step of `do_reload` (`RemoveListener`, `Hold`, `Expired`, `Reload`,
`FreeRouter`) can come between any two. A destination carries the router it came
from: using one whose router was freed is undefined, so the worker makes no
further step and the state is called `Broken`. Whether `server_send` takes a
metric that is not forced is left open; module `Server` has the details.

### ConsistentHash, ConsistentHashProofs

`ch_addnode` (write entries, sort, give equal positions one owner) and
`ch_get_nodes` (binary search, walk to distinct servers, or the jump hash's
repeated choice), one iteration per step, on the array as the code indexes it.
The hash function is a variable, so every function from the hashed strings to
positions is tried; the strings keep which attributes of a server each ring
type hashes. What qsort does with equal elements, and what lies one past the
array, are left open.

### Pattern, RouteTable, Router, PosixRegex

`Pattern` works on the characters of expressions and replacements:
`determine_if_regex`, `router_metric_matches`, the tail `router_optimise` takes
and `router_rewrite_metric`. `RouteTable` has the routes as data:
`router_optimise`, `router_route` and `router_test` are operators on it.
`Router` is the state machine: a configuration is read statement by statement
(the semantic actions of the grammar and the `router_add_*` functions, with
every refusal), then optimised, then metrics arrive. A statement is a record of
what the grammar collects for it. `regcomp` and `regexec` are parameters;
`PosixRegex` gives the C library's answer for the expressions of the run, from
the meaning of POSIX extended expressions.

### Relay, RelayProofs

`main()` from reading the configuration to its exit, one action per call that
changes what other threads see: listeners are opened and closed in the fixed
table, the collector and the aggregator are started and replaced, signals
arrive at any time, and a reload goes through the steps of `do_reload`. The
collector thread runs beside it (`CollectorTop`, `CollectorWake`,
`RunnerReport`, `WriterReport`). Routers are numbered in the order they are put
in place; `freed`, `expired` and `destroyed` say which routers, aggregators and
queues are gone, `squeue` which queue a server has, so a queue that is lost or
used after it was freed shows. What `router_printdiffs` compares is the
configuration without what it does not print (addresses behind names, the
certificate of all but the first TLS listener of a group). The workers, the
servers' threads and the expiry thread have modules of their own and appear
here as what they work on.

One thing is assumed: `main()` sleeps a second before it looks at signals, in
which the collector has taken over its first router. Otherwise the
compare-and-swap of `collector_schedulereload` would fail unnoticed.

## Runs

| Run | Result | Question |
|---|---|---|
| `queue` | holds | do ownership and FIFO order survive every sequence of calls? |
| `server_safety` | holds | one owner per metric, what is lost is put back, counters, no use after free |
| `server_liveness` | holds | are the queues of an unreachable member drained, and does a shutdown end? |
| `aggregator` | holds | buckets aligned, no overrun, each value written once and in its period, stop returns |
| `dispatcher` | holds | each line to each server once and in order, nothing lost on close, reloads reach all and end |
| `dispatcher_reload` | violated | is a freed router unreferenced? |
| `hash` | holds | does a lookup return distinct servers in ring order, for every hash function, and end? |
| `hash_replicas` | violated | does a lookup find the number of servers asked for? |
| `router` | holds | do shortcuts, rewrites, groups and test mode mean what the rules say; are clusters sound? |
| `router_tail` | violated | does a group let through what its expressions match? |
| `relay` | holds | are listeners, queues and signals right over reloads, and is nothing used after it is freed? |
| `relay_queues` | violated | does every server that stays keep its queue over a reload? |

The runs that end in a violation each contradict a comment in the code; the
quotations are with the findings in `PROJECT.json`:

* `dispatcher_reload`: `dispatch_hold` does not wait for a running callback, and
  a stalled connection keeps pointers to servers of the router that is freed.
* `hash_replicas`: two servers on one host have the same positions under
  carbon_ch, so one of them is not on the ring; with a replication of two the
  walk at consistent-hash.c:415 goes round for ever.
* `router_tail`: for `abcx?` the optimiser takes `abcx` for a tail; once three
  rules share it, `abc` is not looked up in their group.
* `relay_queues`: a server in two clusters has its queues swapped twice.

### Bounds

* `queue`: three slots and four pointers, vectors of up to four. The ring wraps
  at every position, fills, drops and is asked for more than it holds. The
  proofs cover all sizes.
* `server_safety`: at most three metrics, one dispatcher, two servers and two
  connections, batches and buffers of one or two, one or two addresses. That gives a batch that is
  partly written, a full queue, a diverted metric and a reader that finds the
  other one's queue. Metrics are symmetric. `FAIL_WAIT_COUNT` and `maxstalls`
  are 1 or 2 instead of 6 and 4: the code only compares with them.
  `StallWrap` stands for the 256 of an unsigned char.
* `server_liveness`: two metrics, one connection per server.
* `aggregator`: interval 2, expire 3, clock from 4 to 8, timestamps too old, at
  both ends and too new, two dispatchers with one value each. The buckets move
  twice and the invocation is freed and made again. `Lag` is 1: a pass that lags
  by a full interval drops a value it should not (see below).
* `dispatcher`: two workers, two connections, two lines each, of which one goes
  to two servers, one reload. One configuration has a client, the other one
  a UDP socket and the aggregator's pipe, on different workers. A pipe that
  holds one line blocks the aggregator. A client beside the pipe
  (1,061,754 states, six minutes) satisfies the same properties; it is too slow
  to be kept as a run.

* `hash`: every hash function into three positions, clusters of two or three
  servers with two entries each. Positions collide, within a server and between
  servers, and the search ends at every index. The proofs cover all sizes.
* `router`: every expression and every replacement of up to four characters
  over the characters the code treats differently, every list of up to four
  rules out of a pool whose tails are shared, every list of up to three of the
  other statements. `PatBuf`, `MetricBuf` and `RetSize` are so small that their
  limits are met, and `Threshold` (option `-O`) is 3, so that short lists of
  rules are optimised.
* `relay`: six configurations that exchange listeners, certificates, members
  and types of clusters; `MAX_LISTENERS` is 3, which some of them fill exactly,
  and up to two reloads (`MaxReloads`), so that what was kept once is kept or
  dropped again. The proof covers any number of reloads.

Deadlock checking is off in the aggregator and dispatcher runs, where the
system stops when it was told to and the bound on time or input is reached, and
in the router runs, where the families about single expressions end once they
are read.

### Fairness

* `Server`: a thread that can run does; a dispatcher retries a stalled metric;
  the timeout of a shutdown expires if the configuration has one. Nothing is
  assumed of the peers.
* `Aggregator`: dispatchers finish a call they began and the expiry thread goes
  on, as threads do. Nothing is assumed of the clock.
* `Dispatcher`: an event loop runs the callbacks of readable descriptors, time
  passes (`Age`), `main()` goes on and the aggregator writes what it has.
  Nothing is assumed of clients, queues or the idle timeout.
* `ConsistentHash`: a lookup that began goes on; nothing asks for a lookup.
* `Relay`: `main()` and the collector each go on while they can. Nothing is
  assumed of signals, or of which configuration the file holds.

## Proofs

`QueueProofs`, for every capacity `end > 0` and every set of pointers: the
inductive invariant says that the indices are in range, that `write` is `len`
slots after `read` around the ring, and that the slots in between hold distinct
allocated pointers. Ownership alone is not inductive, since what dequeue
returns depends on where the indices are. From it follow `QueueTypeCorrect`,
`QueueOwnsItsEntries` and, with the window of the ring as refinement mapping,
`QueueImplementsFifo`.

`AggregatorProofs`, for every interval, expiry, set of dispatchers, values and
timestamps, assuming `BucketcntFits` (the bucket count fits its unsigned char)
and a pass that lags at most one interval: the inductive invariant `IInv` adds
to the type invariant who holds the lock (`Locking`), that the buckets are
consecutive periods (`Consecutive`), and that the last bucket is ahead of any
time the expiry thread uses (`Clock`, `Ahead`, `NotPast`, `Scanned`). The last
group is why the unbounded loop at aggregator.c:512 stops: it is no consequence
of the type of the buckets, only of when they were last moved. From it follow
`AggregatorTypeCorrect`, `AggregatorBucketsAligned` and `AggregatorNoOverrun`.

`ConsistentHashProofs`, for every cluster, hash function, replication count and
number of entries per server above one: the inductive invariant `HashInv` adds
to the types where the loops stand (`Control`), that the ring is sorted and
equal positions have one owner (`RingInv`), that the search is between an entry
below the position and one above it (`SearchInv`), that the walk has collected
all it has passed (`WalkInv`), and that what the jump hash has not chosen yet is
disjoint from what it has (`JumpInv`). From it follow `HashTypeCorrect`,
`HashNodesAreClockwise` and `HashNodesDistinct`. That every duplicate of a
position has the same owner is what makes the answer independent of the index
at which the search stops.

`RelayProofs`, for every set of configurations and addresses and any number of
reloads: `FreedUnusedAlways`. The property speaks of moments when something is
freed; the invariant `IInv` says for each place `main()` can be at which router
the collector holds or is about to take over (`Follows`), on which router the
servers, the dispatchers and the expiry thread work (`Users`), which threads
live (`Lives`), and that routers are freed in order, their aggregators before
them (`Order`). One lemma per action shows that it is kept.

Only model-checked: all liveness (fairness is out of reach of the prover),
`Server`, `Dispatcher` and `Router` (whose regular expressions are recursive),
the order and exactly-once properties, the properties of `Aggregator` about
single values, and listeners and queues in `Relay`.

## Observations not stated as a run

Found while modelling, by reading or by a variant of a run. In the servers,
aggregator and dispatchers:

* server.c:1085: `server_queuesend` tells by the descriptor alone whether a batch
  was sent. `server_poll` leaves it open on an event other than POLLOUT, and a
  flush that fails inside the write loop only breaks out of it, so metrics that
  were not written are freed as sent. `LostIsPutBack` leaves out such peers
  (faults `hangup` and `slow`).
* server.c:1336: a reader without secondaries leaves its loop after the first
  round that sees SERVER_STOP, so what is queued beyond one batch is destroyed;
  server.c:63 says "send all items with timeout from queue before shutdown".
* server.c:782: an address that fails counts as a failure only when it is the
  last one, but the first one that fails ends `server_connect`. An unreachable
  server whose name has two addresses keeps a failure count of 0 and its
  standby waits for ever: with `addresses` 2, `FailedMemberDrained` fails.
* server.c:1025: `alive` is set after a batch was taken, so a stopping reader
  may leave while another member still has a batch to put back.
* server.c:1750, 1789: with two dispatchers in `server_send` at once, a drop can
  go uncounted and `stallseq` can step over `maxstalls`. The runs have one
  dispatcher.
* server.c:1038: only a flush in the middle of a batch adds to the number of
  metrics sent. server.c:1198: `*idle++` moves the pointer, so an idle
  connection is never closed. server.c:1519: the thresholds of a cluster never
  take effect.
* aggregator.c:600: stopped in the middle of a pass that finds no work, the
  expiry thread ends with that pass and frees buckets that have completed
  unsent; aggregator.c:500 says they are sent.
* aggregator.c:273: an invocation freed after its last bucket was written is made
  anew by a late value, with a bucket for a period written already, which is
  then written again; the manual calls an expired period final.
* aggregator.c:81: `expire / interval` above 253 wraps `bucketcnt`.
  aggregator.c:429: a small percentile of few values gives rank 0.
* aggregator.c:323: a value that arrives while its bucket is being expired is
  added after the bucket was written, and is lost without being counted.
* dispatcher.c:821: what a full queue held up is tried again only when the client
  sends more or closes; dispatcher.c:1596 says "retry send (<1s)".
* dispatcher.c:1566, 1576: a closed connection is counted twice.
  dispatcher.c:1341: if the event of a new connection cannot be made its worker's
  count is taken down twice. dispatcher.c:1156: the socket of a UDP listener is
  not transplanted in a reload, and later reloads cannot remove it.
* aggregator.c:62: the pipe of an aggregation is never closed, so each reload
  leaves one behind for each of them.


In the router and the configuration:

* `validate … else` without destinations ends the routing of a metric that does
  not validate; the optimiser does not take it for a stop. A metric that only
  went to a group's routes can still be marked as blackholed.
* router.c:2806: `ref <= nmatch` allows one reference too many; adjoining
  references share the mark that changes case; what does not fit the buffer is
  left out silently. A validation overwrites the spans of the match before it,
  and a regular expression without groups leaves them unset; a rewrite that
  follows uses them (`Unset` in `Router`).
* A comparison with the end of a name reads in front of a name that is shorter
  than the string. `ShortcutAgrees` is stated for longer names.
* A server of a failover or load balancing cluster that a forward cluster names
  too keeps the shared queue, and over a reload can end with a destroyed one.
* `match x;` without destinations gives a route without them; a parse error in
  a nested include frees the router twice; `router_free_intern` frees one
  regular expression less than were made per rule; `masq` of inner routes is not
  initialised.

In reloads and at the end:

* A UDP listener is never transplanted; a listener that could not be bound or
  found no slot is not tried again until its configuration changes.
* A changed certificate of any but the first TLS listener of a group, or of a
  unix listener, and changed addresses behind names, are not seen as changes.
* `numaggregators` at the shutdown is the one of the start: the expiry thread of
  a router with other aggregations is not stopped, or is joined twice.
* A signal that arrives while another is handled is lost (relay.c:1032).
* `dispatch_start_connections` returns an unsigned char, so its -1 is not seen.
* The collector does not reset its `failures`.

## Not modelled

* The scanner and the parser's tables: code that flex and bison generate. The
  semantic actions of the grammar are in `Router`.
* `allocator.c`: freed as a whole, which is the life time of a router.
* `eventpipe.c`: unused since the dispatchers stop through libevent.
* `sendmetric.c`: a separate program of its own threads, no part of the relay.
* md5 and fnv1a: digests of bytes. The jump hash's order when some instances are
  numbers and others are not: `entrycmp_jump_fnv1a` is no consistent order
  then, and the result is up to qsort.
* TLS and compressed streams: same interface and buffering as the plain one.
* Command line, daemonising, log reopening, the text of the configuration that
  is printed, the values of the statistics.
* Failing allocations and threads that cannot be created.
* Resolving names anew while running.

## Plan

1. `Dispatcher` with `Aggregator`: the aggregations that are freed while a
   dispatcher adds to them.
2. Proofs: `ExactlyOnce`, `InOrder` and `ReloadReachesAll` of `Dispatcher`, then
   `OneOwner` of `Server`, `WrittenOnce` of `Aggregator`, `QueuesKept` of `Relay`.
3. More instances: two dispatchers in `Server`, several invocations in
   `Aggregator`.
