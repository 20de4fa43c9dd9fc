# TLA+ models of wenshao

`wenshao` surveys web sites: it resolves the names an operator keeps in a
database, scans the /24 networks it finds for open ports, asks the ports
whether they speak HTTP, and stores what the servers answer. This directory
models it in TLA+: the shared task queues, the pipeline of plugin threads on
top of them, the connections of the event loop and their buffers, the result
files, the log every thread writes to, start and end of the server, and the
libraries below. TLC checks the models on small instances; TLAPS proves the
most important invariants for every size.

## The system

One process, 27 threads: `main`, the log maintenance thread, 24 work threads
and one dispatcher. Every plugin thread runs `vfs_signalling_thread`
(`network/vfs_so.c`): it loads its shared object, then loops over
`epoll_wait` (100 ms), the events, and the plugin's `svc_timeout`, where all
work begins. All plugin threads are started with `port` 0, so nothing is ever
accepted: every connection is one the plugin opened.

    dispatcher --net--> port 1..8 --host--> protocol 9..16 --http--> http_detect 17..24
         (queue = number of the consuming thread; queue 0, TASK_HOME, is the free list)

| component | state | operations | interacts by |
|---|---|---|---|
| task queues, `network/vfs_task.c` | `vfstask[]`, `taskcount[]`, `mutex[]`, `task->status` | `init_task_info`, `vfs_get_task`, `vfs_set_task` | called by every plugin thread; one mutex per queue, taken with a timeout |
| task index, same file | `alltask[]` | add, get, time out, scan, change level | nobody in this build |
| dispatcher plugin, `network/dispatcher` | `g_queue_index`, targets, sub-domains, time of the last round | `do_dispatcher`, `create_task` | MySQL, DNS, queues 1..8 |
| port plugin, `network/port` | `g_get_info_queue_index` (shared by 8 threads), per-thread port list, shared reload time | `check_task`, `gen_scan_task`, `do_scan`, `reload_port_url` | blocking connects, queues 9..16 |
| protocol plugin, `network/protocol` | `g_http_queue_index` (shared), activelist, shared result file | `check_task`, `svc_*`, `get_http_task`, `dump_return_msg` | connections, queues 17..24 |
| http_detect plugin, `network/http_detect` | activelist, shared result file, per-thread URL list | `check_task`, `svc_*`, `dump_return_msg` | connections, result files |
| event loop and connections, `network/vfs_so.c`, `fdinfo.c` | `acon[]` by descriptor, shared by all threads; epoll set per thread | `do_process`, `do_recv`, `do_send`, `do_close`, `add_fd_2_efd` | kernel descriptors, `svc_*` callbacks |
| buffers, `network/mybuff.c` | data, size, len, file | set, get, skip, reinit | inside `acon[]` |
| thread manager, main, daemon, watchdog | thread states, `stop`, `restart` | register, start, stop, signals | `stop` ends every loop |
| timer, `network/vfs_timer.c` | delay lists under one mutex | add, scan with callback under the mutex | main thread |
| log, `lib/log.c` | `logentities[]`, `curlogid` | register, write, rotate, delayed close | every thread; maintenance thread |
| initialisation and IP tables, `network/vfs_init.c` | configuration, IP hash tables | init, reload, look up | main thread, timer |
| configuration, `lib/myconfig.c` | name/value hash | init, reload, get | every thread, a signal handler |
| result import, `da/src` | result files, MySQL | separate program | result files |

| unfinished tasks, `network/vfs_tmp_status.c` | a file, its blank records | load at start, add, blank | in no makefile |
| time stamps, `network/vfs_time_stamp.c` | two files of times | set | in no makefile |
| lists, `lib/list.h` | `next`, `prev` | add, delete, move, splice, scan | everything |
| shared-memory monitor, `3rdlib` | two tables per kind and an index | set, increment; read and clear by the agent | threads and another process, without a lock |

`lib` also holds access lists, URL and string helpers, hashes and MD5.
`vfs_so_r.c`, `vfs_tmp_status.c`, `vfs_time_stamp.c`, `vfs_del_file.c`,
`moni.c`, `plugins.c`, `epoll_udp.c` and `udp_client.c` are compiled by no
makefile. `PROJECT.json` lists every component with what is modelled of it.

### What is hard here, and what makes each part correct

* **Task queues**: 25 threads take and give nodes; the mutex wait can fail in
  every call. Correct: a node is in one place, calls that fail change nothing,
  counter and status follow the lists.
* **Pipeline**: two cursors are advanced by eight threads each without a lock;
  all results of `vfs_set_task` are ignored; a scan reads its task without a
  lock for minutes. Correct: a task reaches the plugin it is meant for, is not
  overwritten under its reader, and comes back to the free list.
* **Connections**: `acon[]` is shared and indexed by numbers the kernel hands
  from thread to thread; `activelist` is sorted by time only nearly. Correct:
  a thread touches and closes its own connections only, and each of them is
  closed in the end.
* **Log**: indices, descriptors and file names change under the writers. Correct:
  a line goes to a file of the log it is for, no descriptor is leaked, and the
  files thrown away are the oldest.
* **Result files**: the `FILE *`, its name and the time of the last rotation are
  statics that eight threads use without a lock. Correct: an answer handed over
  is in a file that will be, or was, moved to the output directory.
* **Start and end**: a signal or a failing thread sets `stop` at any time, also
  while threads are being started. Correct: everything comes down, and the
  tables are freed after the last thread is gone.
* **What outlives a restart**: log numbers, unfinished tasks and time stamps are
  read back from files. Correct: nothing accepted is lost, the oldest is
  overwritten, a stamp does not go back.
* **Tables under two parties**: the monitor's tables are written by threads while
  an agent reads and clears them; the configuration is reloaded under cached
  integers. Correct: only what was read is cleared, an answer is that of the
  value set now.
* **Buffers**: a protocol plugin writes one byte behind the data. Correct:
  there always is one.

The hazards, each at its line, are in `PROJECT.json`.

## Modules

| module | models | state and actions against the code |
|---|---|---|
| `TaskPool` | what the callers of the task queues rely on | `queue[q]` is the list `vfstask[q]`; `held[t]` the nodes a thread got and has not put back; `fresh` the nodes malloc can still give. `Take` and `Alloc` are the two ways `vfs_get_task` succeeds, `Put` is `vfs_set_task`; each is one step |
| `TaskQueue` | `vfs_task.c` | one action per piece another thread can see: call and range check, lock, timeout, count out, unlink, malloc, link, count in, unlock. `Pool == INSTANCE TaskPool` is the refinement |
| `TaskQueueProofs` | | proofs about `TaskQueue`: invariant, refinement, counters, results of the calls, status of the nodes |
| `Pipeline` | the four plugins on top of `TaskPool` | `dispatcher`: a round is a list of nets; `worker(t)`: `svc_timeout`, the loop of `check_task`, one step per connection tried, `vfs_get_task` + filling in, `vfs_set_task`, load and store of the cursor; `http_answer`, `close_conn`: the events |
| `PipelineProofs` | | proofs about `Pipeline` |
| `ConnTable` | `vfs_so.c` with the `svc_*` functions of protocol and http_detect | `os[f]` is the thread whose socket has descriptor `f`, `live[f]` is `acon[f].fd >= 0`, `list[t]` the activelist, `age[f]` is `now - hbtime`. `do_close` is three steps, in the order of the code |
| `ConnTableProofs` | | proofs about `ConnTable` |
| `MyBuff` | `mybuff.c` | one action per function |
| `LibraryProofs` | | proofs about `MyBuff`, `TimeStamp`, `ListHead`, `ConfigStore` and `ShmMonitor`, as `MCLibraries` puts them together |
| `LogRegistry` | `log.c` between threads: registration, `LOG`, `maintain_log` | `owner`, `fd`, `pending`, `left` are fields of `logentities[]`, `os[f]` is the log that descriptor `f` is a file of. `LoadFd` and `Write` are the two halves of `LOG`; a round of `maintain_log` is a step per log and per piece of a rotation |
| `LogRegistryProofs` | | proofs about `LogRegistry` |
| `LogRotation` | `log.c` on the disk: `shiftfile`, `initnextlogno`, restarts | a file is the time it was last written at; `out` is where `le->fd` points |
| `ResultFile` | `dump_return_msg` and the gate of `svc_timeout` in protocol and http_detect | one step per access to a static (`fp`, `last`, `tmpfile`) or call on a file; `files` is every `FILE` ever opened, with its name, directory and lines. `blame` records what the properties excuse: two threads inside at once, a failing `fopen` or `rename` |
| `Server` | `main.c`, `thread.c`, `daemon.c`, the frame of `vfs_signalling_thread` | `main` and `at[i]` are where `main()` and a thread are; `state[i]` is `threadlist[i]->state`. `stop_threads` is a marking and a join per thread |
| `ServerProofs` | | a proof about `Server` |
| `VfsTimer` | `vfs_timer.c` | one action per call; the active list is a set, as every scan meets all of it; `added` and `ran` are history |
| `TaskIndex` | the second half of `vfs_task.c` | one action per call, the queues in the form `TaskQueue` ends its calls in |
| `TmpStatus` | `vfs_tmp_status.c` | `records` is the file, `copy` its copy during a start; a start is a step per record, and `Halt` ends the program between any two |
| `FilesProofs` | | proofs about `LogRotation`, `ResultFile`, `TmpStatus`, `TaskIndex` and `VfsTimer`, as `MCFiles` puts them together |
| `TimeStamp` | `vfs_time_stamp.c`, and `get_dir1_dir2`, `check_self_stat` of `vfs_init.c` | the files as functions from position to time |
| `ListHead`, `SeqLists` | `lib/list.h` by its pointers, and the sequences its users think of | one action per operation, and a scan whose body removes or moves the item it is at; `SeqSpec` is the refinement: `lists`, `todo` are what following `next` gives (`Walk`); `ListInv` is the invariant behind it |
| `ConfigStore` | `myconfig.c` | a line is a record of what the parser makes of it; `store` the entries, newest first, with the integer kept in each |
| `ShmSlots` | `TShmBuffer.h`: the layout of a table and its operations as operators | slots by position, chains by `next` |
| `ShmTable` | a table used by one thread, growing included | |
| `ShmMonitor` | `TNmShm.cpp`: writers and the agent on two tables | a call of `set_shm_str` is four steps: index, find, choose a slot, fill |
| `ParaStrings` | `parsepara.c` | functions on sequences of character codes |
| `AccessLists` | `acl.c`: `check_referer` and the pattern table | functions on sequences of characters |
| `TextTools` | `util_str.c`, `common.c`, `util_ip.c`, `protocol.c`, `vfs_file_filter.c`, the lines of the result files and their import by `da` | functions |
| `MC*` | | values of the constants for TLC |

`MCLibraries` and `MCFiles` hold several small models each. They share no
variable: the variable `part` picks one when a behaviour starts, the others
stay in their initial states, and the run has the states of all of them, added
and not multiplied. The pure functions are invariants over the variable
`sample`, which takes every input once.

`ConnTable` and `Pipeline` describe the same threads from two sides: `Pipeline`
keeps of a connection only which site it was opened for, `ConnTable` only what
happens to its descriptor. `Pipeline`'s pool steps are atomic; `TaskQueue`
implementing `TaskPool` is what allows that.

Definitions named after a definition with a suffix and marked "Mutant" are
plausible bugs at that place. They are part of no specification; they show
that the properties notice them.

### Abstractions

* A task's address, domain and port are the net it belongs to and the stage it
  was written for. Results of DNS, MySQL and the surveyed hosts are arbitrary.
* The cursors: with the makefile's `-O2` the cursor is loaded as the argument
  of `vfs_set_task`, loaded again after the call, incremented and wrapped in a
  register and stored once. The two loads and the store are separate steps.
  A compiler that stored the unwrapped value first would let another thread see
  17 (or 25), and a host would go to an http_detect thread (or to nobody).
* A node that `vfs_set_task` could not link is in `lost`: nothing in the code
  refers to it any more.
* Time: `ConnTable` counts the seconds since `hbtime` up to the idle limit, and
  `Pipeline` lets the idle close take any number of the oldest connections.
* `LogRegistry` lets any log be rotated in any round: sizes and rotation times
  are left out. Seconds are kept, since the grace of 5 s against writers that are
  slower than a second is the point. Its scaled values are `Grace` 2, `Period` 3.
* `LogRotation` assumes a busy log: a new file is written to before it is rotated,
  in a later second than the last line of the one before. An idle log can have
  two files of the same time, and then the wrong one is overwritten after a
  restart (a hazard without a property).
* `ConnTable` treats `list_del_init` and `list_move_tail` as atomic.
* Failing `malloc` and `realloc` in `mybuff.c` are not modelled: the code
  writes through the NULL pointer.

## What the runs show

| run | instance | properties |
|---|---|---|
| `task_queue` | 3 threads, TASK_HOME and one work queue, 2 nodes (one preallocated) | `OnePlace`, `IInv`, `CountAgrees`, `StatusAgrees`, `ErrorKeepsNode`, `CallsReturn`, and that every step is a step of `TaskPool` (`PoolSpec`) |
| `pipeline_race` | 2 port, 1 protocol, 1 http_detect thread, 3 nodes, no faults | `StageRouting`, `ScanUndisturbed` |
| `pipeline_faults` | 1 thread per plugin, 2 nodes, 1 lock timeout or failed malloc | `LostOnlyByTimeout`, `HoldsWhatItNames`, `ReusedUnlessLost` |
| `pipeline_loss` | the same | `Reused`, **violated** |
| `conns` | 1 thread, 2 descriptors | `RecheckGuards`, `IdleCloses` |
| `conns_two` | 2 threads, 2 descriptors, no event both readable and writable | `ListedIsOpen`, `ClosesOwn` |
| `conns_reuse` | 2 threads, events of every kind | `RecheckGuards`, **violated** |
| `log_registry` | 2 threads, 3 descriptors, signals | `HasEntity`, `WritesItsLog`, `NoLeak`, `PendingCloses` |
| `log_ids` | the same | `OwnId`, **violated** |
| `server` | 3 threads, 2 signals | `FreedUnused`, `GoesDown` |
| `files` | `LogRotation`: 3 numbered files, 12 seconds with a line | `KeepsCurrent`, `DropsOldest` |
| | `ResultFile`: 2 threads, 3 answers (one without the end of its head), 4 s, a rotation after 3 | `LostOnlyInARace`, `PortsNotAhead` |
| | `TmpStatus`: 3 tasks, 2 records, 3 starts that may stop anywhere | `NoTaskLost` |
| | `TaskIndex`: 2 nodes, 3 queues, 2 cancellations | `CountsTheCancelled` |
| | `VfsTimer`: 2 tasks, 6 seconds, scans at any time | `RunsOnTime` |
| `libraries` | `MyBuff`: initial size 4, lengths 0, 1, 3, 4, 9 | `SpareByte`, `OneFile` |
| | `ListHead`: 3 items, 2 lists | `SeqSpec` |
| | `ShmTable`: 4 ids on 5 buckets, one slot to grow from | `BehavesAsMap` |
| | `ShmMonitor`: 2 writers, 3 calls, 2 ids in one bucket | `ClearsOnlyRead` |
| | `ConfigStore`: files of 2 lines, an argument, 2 reloads, 2 keys asked for with 2 defaults, at most 2 values of a key before an update puts another | `ReloadIsExact`, `IntegerIsCurrent` |
| | `TimeStamp`: 6 files in any order, 3 x 3 directories, 3 sources | `StampsAreNewest` |
| | every input of the bounds below | `ParametersComeBack`, `TextsAreRead`, `AnswersAreImported` |

The type invariants are parts of the invariants above (`IInv`, `HasEntity`,
`HoldsWhatItNames`, `ListedIsOpen`), or proved (`MyBuff`, `LogRotation`, `Server`,
`ResultFile`, `TmpStatus`, `TaskIndex`).

Why the bounds are enough. Three threads on one queue are a holder, one that
times out and one that gets the lock next. Two nodes make the free list empty,
so that malloc and a failing malloc happen. Two port threads are what a race
on the cursor takes; three nodes let both scan and one of them put a result.
`MaxRun`, `Hosts` and `Urls` are 1: `check_task` then ends its rounds by the
limit and by the empty queue alike. Two descriptors let one be reused while the
other is open and give an activelist an order to get wrong; `Request` 2 makes a
partial send possible. With 3 descriptors for 2 logs and their pending closes a
number is used again as soon as it is free, and a new file sometimes cannot be
opened; the 26 logs of the program never fill its 50 slots. Twelve lines rotate
through three numbers four times, which leaves room for failures and restarts
on the way. The lengths of the buffer run lie on both sides of the initial
size, of its double and of an exact fit.

Two threads in `dump_return_msg` and three answers are one answer written
before a rotation, one in the middle of it, and one after. Two records and
three tasks make the file of unfinished tasks grow, and three starts restart a
start that was stopped. Three threads let one be starting, one running and one
gone when `stop` is set. Three items on two lists have a first, a middle and a
last one. The ids 1, 6 and 11 share a bucket of five and are spread by the six
buckets after growing. The two ids of the monitor share a bucket, so that one writer's
slot is chosen while another fills its own. Texts are short: a list of three values of at most
one character each (of `a = & % \n`, the characters the code tells apart),
binary values of up to three, patterns and texts of up to four, lines of up
to five characters of two letters and a blank, addresses with the bytes at
which their number of digits or class changes, and pairs of answers of up to
two characters with line ends and blanks.

`CHECK_DEADLOCK` is off in `files`, `libraries` and `server`: a bounded history
ends, a text has no next state, and a server that is down stays down. It is on in
all other runs: those models never stop.

### Three disagreements with the documentation

* `vfs_task.h:10-13` describes a task's life as a cycle that ends on HOME,
  for consumed and for timed-out tasks. A `vfs_set_task` whose mutex wait times
  out breaks the cycle (`pipeline_loss`): every caller ignores its result.
  `LostOnlyByTimeout` and `ReusedUnlessLost` show that this is the only way out of
  the cycle.
* `global.h:38` calls `acon[fd].fd` a "recheck" against using a closed
  connection. It is one within a thread (`conns`), but not between threads
  (`conns_reuse`): between `do_recv`'s `close(fd)` and `do_send`'s recheck in
  the same event another thread can get the number and set the field.
  Without events that are readable and writable at once, the threads do not
  disturb each other (`conns_two`).
* `log.h:30` says that `registerlog` returns the log's fd. It returns
  `curlogid - 1`, read after the lock is released: of two threads that register
  at once one can be given the other's log (`log_ids`). The logs themselves are
  all right (`HasEntity`). That the first log's fd is 0 and not above 0 is a
  smaller slip of the same comment.

`WritesItsLog` has an exception: a log rotated twice during one call of `LOG`.
That needs a signal that ends `maintain_log`'s sleep early and a log that grows
over its limit twice within seconds; `delay_close` then closes what is pending
at once. `DropsOldest` has one too: failed rotations pass numbers over, and a
restart after that fills the first gap, which need not be where the oldest file
is. `KeepsCurrent` says how many failed rotations in a row it takes until the
file in use is removed: one more than there are numbered files.

Other things the models found worth knowing, none of them contradicted by a
document:

* `LostOnlyInARace`: a line of a result file is lost, or a closed `FILE` used,
  only when two threads of the plugin are in `dump_return_msg` at once, or `fopen`
  or `rename` fails. The race is there: nothing keeps the threads apart.
* `ClearsOnlyRead`: a value reported to the monitor is lost when its writer read
  the index before the agent switched it and stores after the agent has passed.
* `NoTaskLost` holds until a start finds no blank record for a task
  (`overran`); also, the positions kept after a start are those in the file that
  the copy replaced, so a finished task can come back at the next start.
* `CountsTheCancelled`: `mod_task_level` cancels the first task of the index,
  whichever was asked for, and `get_task_count` of the queue it was on counts
  it for ever.
* `IntegerIsCurrent` excepts the keys of `myconfig_update_value`: it writes over
  the text and leaves the integer read from the old one. Nothing calls it.
* `ReloadIsExact`: a line taken out of the file keeps its value, and one of the
  command line is replaced.
* `str2ip` does not bound the third number: 1.2.300.4 is read as
  1.2.44.5. `AddressComesBack` is about proper addresses.
* An HTTP answer whose head does not end in the first read is not written
  (`Headless`).

`taskcount[TASK_HOME]` is another thing to know: `init_task_info` links 2048
nodes and clears the counters afterwards, so that counter is short by 2048 for
ever. `CountAgrees` says so for every queue.

### Fairness

* `task_queue`: weak fairness of every thread inside a call. The kernel
  runs runnable threads, and a mutex wait with a timeout is never stuck. No
  strong fairness of `Lock` is assumed, since pthread mutexes are not fair.
* `pipeline_faults`, `pipeline_loss`: weak fairness of the dispatcher inside a round and of every
  worker. Neither answers nor new rounds are assumed to happen.
* `conns`: the clock, and every thread. `svc_timeout` is strongly fair:
  the loop of `vfs_signalling_thread` calls it after every batch of events, so
  events and new connections cannot keep it away. The `Spurious` bound stands
  for the kernel not reporting readable sockets without data for ever.
* `log_registry`: the maintenance thread, the clock, and the end of each `LOG` call.
* `server`: `main` and every thread. Their loops wait with timeouts (`sleep(5)`,
  `epoll_wait` 100 ms), so each goes round and sees `stop`. Signals are not fair.

## What is proved

TLAPS checks the theorems below for every value of the constants under the
assumptions named `...Assumption` in the modules:

* `PoolAssumption`, `QueueAssumption`, `PipelineAssumption`: a finite numbering of
  the queues, a preallocation without duplicates, distinct "none" values; for the
  pipeline at least one queue per stage, nets in sequences, bounds in the naturals.
* `ConnAssumption`: descriptors are some naturals, finitely many; the two time
  limits are above 0.
* `LogAssumption`: at least one slot, and `Grace` above `MaxWrite`: `delay_close`
  waits 5 s, a call of `LOG` takes less than that. `WritersAreSafe` needs it.
* `BuffAssumption`: an initial size above 0.
* `RotationAssumption`: at least two log files (`registerlog_internal` replaces a
  smaller number).
* `FilesAssumption`: the blank record is no task, finitely many task nodes, spans in
  the naturals.
* `StampAssumption`: a file's time is a natural, its path a sequence of numbers, and
  the numbers of directories and sources are above 0.
* `ServerAssumption`: bounds in the naturals.
* `ListAssumption`: finitely many items, none of them a head, and `None` no head.
* `ConfigAssumption`: the flags of lines and arguments are Booleans, their numbers and
  the defaults integers, bounds naturals.
* `ShmAssumption`: at least one bucket and not more buckets than slots, ids above 0.

None of the properties is inductive by itself; what is added, and why:

**Task queues** (`TaskPool`, `TaskQueueProofs`)

* `PoolOnePlace`: the contract keeps `OnePlace`.
* `Inductive`: `IInv = TypeOK /\ LockOwner /\ CallShape /\ OnePlace`. That `GetDel`
  unlinks the very node it returns needs `CallShape` (the node still is the head
  of the list), which survives the steps of other threads only because of
  `LockOwner` (nobody else is inside that queue's critical section).
  `TypeCorrect` and `NodeInOnePlace` follow.
* `Refinement`: `Spec => PoolSpec`. `GetDel`, `GetMalloc` and `SetLink` are the
  linearisation points; all other steps stutter. The steps of `OnePlace` reuse
  the lemmas of `TaskPool`.
* `CountCorrect`: `CountAgrees`, from `IInv`.
* `FailureKeepsNode`: `ErrorKeepsNode`, from `IInv` and `Answering`, what a call in
  progress is going to answer.
* `StatusCorrect`: `StatusAgrees`, from `IInv` and `Taking` (the node being
  unlinked already has `MAX_TASK_QUEUE`). `OnePlace` is what makes it stay true:
  a status written for one place says nothing false of another, because there
  is none.

**Pipeline** (`PipelineProofs`)

* `Inductive`: types, `Locals` (which fields a thread's place in `check_task`
  makes meaningful), `Cursors` (both stay within their stage's queues, the loaded
  copies too), the pool's own `Apart`, `HoldsWhatItNames`, `Routed`, and the
  bookkeeping of lost nodes. `StageRouting` needs `Routed`, which speaks of nodes
  in hands and not only on queues: what a thread is going to put is already a
  task for the next stage, and the cursor it has loaded is one of that stage.
  `HoldsWhatItNames` needs `Apart`: a node named by one thread is not handed to
  another.
* Every action is first shown to be a step of one of five kinds (a node taken, a
  node made, one put with its contents, one put on the cursor's queue, nothing
  of the pool touched), and each conjunct is proved once per kind.
  `TasksReachTheirStage`, `NothingForgotten`, `LossNeedsTimeout` and the action
  property `ScanIsUndisturbed` follow.
* `UsesThePool`: every step of the pipeline is a step of `TaskPool`, or leaves the
  pool alone, or loses a node after a timed out `vfs_set_task`. With `Refinement`
  this closes the argument that `Pipeline` may take the pool's calls as atomic.

**Connections** (`ConnTableProofs`): the properties hold under
`Alone`, one thread or no event readable and writable at once, and that is exactly
what separates `conns` and `conns_two` from `conns_reuse`, where TLC finds the
violation. `Inductive`: `ListedIsOpen` (the activelist of a thread has its open
descriptors, each once), `AtConnection` (the descriptor a thread is working on
is its own, or just closed by it) and `SendAfterClose` (only a combined event
sends after its receive has closed). `ActivelistIsExact`, `RecheckSuffices` and
the action property `ClosesOnlyItsOwn` follow.

**Log** (`LogRegistryProofs`)

* `Inductive`: `Registering` (no two threads between reading `curlogid` and
  raising it), `Slots`, `OpenFiles` (what `fd` and `pending` name is an open file
  of that log), `OncePlaced` (each open descriptor is in one place: a slot, a
  pending close, or the hands of `maintain_log`), and `InHand`: a descriptor that
  `LOG` has loaded is the log's, or pending with time left. The last is
  arithmetic: the seconds a call has taken and those its descriptor has left
  add up to at least `Grace`, and a call is shorter than that.
* `EveryThreadHasItsLog`, `WritersAreSafe` and `NothingLeaks` follow.

**Files** (`FilesProofs`): about `FilesSpec`, whose behaviours are shown to be
behaviours of each part (`Parts`).

* Rotation: `CurrentKept` needs `Chase`, which says how far apart the number to be
  overwritten and the file in use are while rotations fail. `OldestGoes`
  (`DropsOldest`) needs `OrderInv`: from `nextlogno` on, cyclically, the numbered
  files are in the order they were written in (`Ordered`); the numbers without a
  file are those not reached yet or the one a crash emptied (`Filled`), so that
  `initnextlogno` finds after a restart the number the process was at; and the
  file written to is the newest of all, with nothing but empty numbers after it
  when it is a numbered one (`WritesNewest`).
* Result file: `LinesArrive` (`LostOnlyInARace`) needs `OneAtATime`: while no two
  threads have overlapped in `dump_return_msg`, `fp` is an open file except
  between its `fclose` and the `fp = NULL`, it is the file that `tmpfile` names,
  and the place of the one thread inside says which. `PortsFollow`
  (`PortsNotAhead`) needs that no list is newer than the tables.
* Unfinished tasks: `TasksKept` (`NoTaskLost`) needs `Placed` (no position is given
  twice, and while a start reads only those read are given) and `Keeps`: each
  task accepted has a record that no other task will be written to, and while
  the copy is read one there as well.
* Index: `CancelledCounted` (`CountsTheCancelled`) needs `Once`: a node is on a list
  once, so a cancellation makes its old list shorter by exactly one.
* Delay tasks: `DelaysRun` (the action property `RunsOnTime`) needs `TimerInv`: a task
  still to run, and one in a loop, is on the active list once, with the time that
  follows from when it was added or ran last.

**Buffers and time stamps** (`LibraryProofs`): `RoomForNul`, `FileClosedOnce`: `SpareByte`,
`OneFile`, inductive together with `TypeOK`. `NewestStamps` (`StampsAreNewest`) needs
`StampInv`, which says the same by position in the file instead of by directory
and source. That the two agree is `Places`: the position computed from a directory
and a source is in the file and theirs alone, negative numbers in a path included.

**Lists** (`LibraryProofs`): `ListsAreSequences` (`SeqSpec`). `ListInv` is `Stands`, that
the pointers are the rings of some lists: `next` and `prev` go round each of them
(`Rings`), no list_head is in two places (`Apart`), and one in no place points to itself
(`Alone`); and `Scanning`, that `l` is the item behind `pos`. What each macro does to
pointers that stand for lists `L` is a lemma: they then stand for `L` with the item
inserted, taken off, or the lists joined. `WalkIs` shows that following `next` from a
head gives back `L`, by induction over the way gone, and with that each step of the
pointers is one of `SeqLists`.

**Configuration** (`LibraryProofs`): `ConfigInv` says that each integer kept in an entry
is that of its text, but for keys changed in place. A file is read line by line, so
what it makes of the store is proved by induction over its lines (`FileIs`):
`ReloadSets` (`ReloadIsExact`) and `CachedIntegers` (`IntegerIsCurrent`) follow.

**Monitor** (`LibraryProofs`): `AgentLosesOnlyLate` (`ClearsOnlyRead`). `MonitorInv`
says that links lead on, to slots in use (`LinksLeadOn`: a search ends, and ends in
use), that a call which has not crossed a switch is about the table being written
(`Uncrossed`), that only a late store is in a slot not in use (`Outside`), and that
what lies behind the agent has been read or is late (`Behind`).

Three of these speak of recursive functions. Two lemmas make them accessible:
`SetInduction` states induction with a set in the place of the predicate, from the
library's theorem that a well-founded order has minimal elements (`WFMin`), and
`Steps` and `Walks` show that a function defined from one argument to the next
exists, so that its equation may be used.

**Start and end** (`ServerProofs`): `TablesOutliveThreads` (`FreedUnused`), for every
number of threads. That nobody is left when the tables go needs `Waited` (the
threads before `k` have been joined) and `Kept` (tables are freed only in the
last two places of `main`).

Each invariant was checked by TLC on the run's instance before it was proved, that
of the configuration with a range in place of `Int`.

Only model-checked:

* All liveness (`CallsReturn`, `ReusedUnlessLost`, `IdleCloses`, `PendingCloses`,
  `GoesDown`): `ENABLED` and fairness are out of this prover's reach.
* `BehavesAsMap`: `Add` of a full table calls `Realloc`, which calls `Add` for each
  record, and that may grow the new table again. The two are RECURSIVE operators,
  and a module that reaches one has no SMT prover.
* `ParametersComeBack`, `TextsAreRead`, `AnswersAreImported`: the functions on texts
  (`ParaStrings`, `AccessLists`, `TextTools`) are RECURSIVE operators as well, or folds
  over texts. TLC evaluates them on every text of the bounds.

## Not modelled

* **IP tables** (`vfs_init.c`): `sub_add_cluste_ip` returns before it adds
  anything, so the tables are empty in every run of the program, and so is what
  looks things up in them. `init_global` and `reload_config` copy settings into
  a structure. (`4 << 30` for `mindiskfree` is 0 in an `int`; nothing reads it.)
* **Files no makefile compiles**: `vfs_so_r.c`, an older `vfs_so.c`;
  `vfs_del_file.c`, `epoll_udp.c`, `moni.c`, `plugins.c`, `udp_client.c`.
  `vfs_tmp_status.c` and `vfs_time_stamp.c` are modelled although they are not
  compiled, because they keep state over restarts.
* **watchdog.c**: nothing calls `start_watchdog`.
* **A reload in the middle of a look-up**: `SIGUSR1` runs `myconfig_reload` in the
  handler while other threads may walk the lists it frees. `ConfigStore` has the
  calls one after the other.
* **MySQL, DNS and the surveyed hosts** are external, arbitrary here.
* **The import** (`da`) past the fields of a line: `process_db` only logs.
* **MD5, the string hashes** (arithmetic without state), **`ktpage0_r.c`** (relays
  bytes between a terminal and a socket), `decodeurl`, `check_path`, dates,
  scripts, SQL and the documents.
* `accept_new`, `logclose` and the plugins' `set_client_fd`: never reached.

## What could follow

A proof of `BehavesAsMap`, with growing as a sequence of steps instead of two operators
that call each other. The hourly gate of the dispatcher with
failing queries, and `SIGUSR1` against the readers of the configuration.
