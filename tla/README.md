# A TLA+ verification project for enuwatch

Enuwatch copies a directory tree to a remote machine. `enu_main` scans the
directory into a tree of `TrackedNode`s, then `sync_with_remote` starts a daemon
over ssh and walks the tree with TBB tasks that send one message per entry,
drawing a progress display on the way. On the other side `daemon_main` polls its
sockets, receives messages and builds the tree.

## The parts of the system

| Part | Source | State | Operations | Module |
|---|---|---|---|---|
| Progress tree | `enu/tracked.h` | links, mutex, readiness and counters of each node; totals and drawing lock of the root | `add_child`, `remove`, `unlock`, `iter_children`, `tick`, `shift_total` | `TrackedNode` |
| Display | `enu/main.cpp:119-231` | the walk and its line count | `display_progress`, `clear_progress` | `TrackedNode` (walk), `Program` (SIGINT) |
| Scan | `enu/main.cpp:53-69, 238-292` | stack of directories, entries of the current one | the `scan_dir` thread | `ScanDir` |
| Sender | `enu/main.cpp:28-51, 294-469` | `pending`, `g_seq`, `ok`, `t_sock`, the remote process | `recurse`, `bubble`, `send_datamsg`, `report_async_error`, `terminate` | `SyncWithRemote`, `Delivery` |
| Daemon | `enu/daemon.h` | `fds`, `socket_fds`, `states`, `ANON_FILES` | one `poll` loop over all connections | `Daemon` |
| Socket I/O | `enu/net.h` | none | partial and exact reads and writes | `NetIO` |
| Process | `enu/spawn.*` | pid, three pipes | `spawn`, `wait`, `terminate`, move, destructor | `Process` |
| Shared-memory queue | `enu/shm.h` | head, tail, 1020 slots | `push`, `reader`, `pop` | `ShmQueue` |
| Watcher | `enu/watcher.h`, `fsevent.cpp`, `inotify.cpp` | handler, stream | `event_callback`, start, stop | `Watcher` |
| Command line | `enu/argparser.*` | none | `Args::parse` | `Program` |
| Program | `enu/main.cpp:503-553` | none of its own | `main`, `enu_main` | `Program` |
| Logging | `enu/log.*` | none | `fatal`, `pfatal` end the process | where they are called |

The scan is joined before the sender starts, so the two never run at once. The
sender's tasks share the tree with one another and with whichever of them is
drawing. The daemon is one thread; its partners are the clients and the kernel.
`Program` puts the phases of the local process, its ssh and the remote daemon
together, with each phase reduced to the ways it can end.

## The modules

**TrackedNode** holds the tree and the drawing walk. The tree on disk is a
constant (`Node`, `Parent`, `Dir`, `Size`); `children`, `ready`, `mutex`, `total`,
`done`, `painter` and the rest are the fields of the two classes. A node that is
not in its parent's list has been destroyed. `iter_children` is two steps,
`EnterIter` and `LeaveIter`, with the mutex held between them; the walk is one step
per list entered or left. `UPDATE_INTERVAL_MS` is left out: any tick may draw.

**SyncWithRemote** extends it with one task per node. `pc[n]` is the point the
call of `recurse` for `n` has reached, and each step makes at most one access to
shared state. `cur[n]` is the node `bubble` has climbed to. Every write may fail;
`fs::relative`, `open` and `mmap` may end the process; the remote process may
exit at any time. A task in `task_group::wait` gives up its thread, because TBB
runs other tasks on it. TBB value-initialises thread-local storage, so
`t_sock.local()` is 0 and the branch that connects is not taken. `g_seq` is read,
read again and stored, three steps as in the code.

**Delivery** is what the caller is promised: each entry is sent once, never
before its directory, and `true` means all of them. `delivered` and `sent` count, so that a
second message for an entry would be a step the promise does not have.
`SyncWithRemote` implements it under `delivered <- sent`, `outcome <- status`.

**ScanDir** models the scan thread on the same tree. The comparison given to
`std::sort` is not a strict weak ordering, so the order is any one in which no two
neighbours are out of order. A directory that cannot be opened looks empty, as it
does in the code; an error while one is read throws in the thread and ends the
process. `HandsOver` shows that the state it ends in is the one
`SyncWithRemote` starts in.

**Daemon** models the poll loop entry by entry, with `revents` as poll returned
them and `idx` as the loop variable. Descriptors are numbers and the kernel gives
out the lowest free one, because the daemon keeps numbers of descriptors it has
closed. A message is `HeaderLen` units of header, one of path and `Size[n]` of
contents; a read takes one unit at a time and waits when there is none, as
`read_partial` does. `system` selects whether a closed peer also raises POLLHUP
(BSD) or is end of file only (Linux); `user` whether permissions apply. Where
`emplace_back` moves `fds`, the descriptor then read through `pfd` is the old one
or another. `poll` may fail at any time, which ends the daemon (`PollFails`). Clients, kernel and file system are marked external in the map.

**NetIO** models the four functions of `net.h` at the two ends of a stream. Bytes
are counted, not named. A round of the loop moves any number of bytes up to the
chunk (`MAX_RW_SIZE`), what the buffer has, or what fits; a call may fail half way.

**Process** models descriptor tables: the numbers the kernel hands out, the
`dup`, `close`, `dup2`, `close` of the child on them, close-on-exec, and which ends of which
pipes everyone holds. The child runs beside the parent (`fork`) or while the parent
stands still (`vfork`), fails at any point before `execve`, writing its report in four
pieces, or is killed. The parent makes any calls in any order on its objects.
Three limits of the code are written into the properties: with SIGCHLD ignored,
or after `wait` on an object without a child, `pid` and descriptors may name
somebody else's (`sigchld`, `misused`); and when the program was started with two
standard descriptors closed, the redirection overwrites the result pipe.

**ShmQueue** models `push` as two steps, store and publish, between which the
writer may die, and `pop` as two, look and read. The counters wrap at `Wrap`. A ring
size that does not divide it makes slots jump at the wrap, so that a reader is
safe only up to `SafeLag` = 2^32 % 1020 = 256 values behind. `head_` is loaded relaxed,
so on a weakly ordered machine `pop` returns anything and only `NothingNew` is
claimed. Slots beyond `mapped` are outside the segment, and a push there faults.

**Watcher** models `event_callback` as a fold over a batch of records, and FSEvents
as an environment that cuts, merges and drops records. `Decode` keeps the NUL bytes
the path string is padded with (`fsevent.cpp:37`). `excuse` records what makes events
go missing: a batch that ends between the two records of a rename, a rename across
the border, an inode used again, dropped records. Modifications are never told.

**Program** models `Args::parse` on arguments up to what it tells apart, then `main`,
`enu_main` and `sync_with_remote` as phases, for the local process and for the remote
daemon. `fatal` ends a process by the trap of `exit_break`, so with no exit status;
`std::stod` throws on a bad latency. The init message is never written
(`main.cpp:403`), so the daemon waits on its input until ssh ends. Ctrl-C reaches the
local process and ssh at any time.

The proofs are in modules of their own: **SyncProofs** (`SyncWithRemote`, `TrackedNode` and the
refinement of `Delivery`), **ScanProofs** (`ScanDir`), **DaemonTableProofs** and **DaemonProofs**
(`Daemon`), **ProcessProofs** (`Process`), **IOProofs** (`NetIO` and `ShmQueue`) and
**ProgramProofs** (`Program`); **Lemmas** holds what several of them use. The modules named
**MC...** give the constants their values. Definitions commented "Mutant" are wrong
variants of the definition after them, kept to show that each property can fail.

## What is checked

| Run | Expectation | What it shows |
|---|---|---|
| `sync` | holds | counts in `pending` are exact, `bubble` is sound, no node is used after it is destroyed, bar and frame fit, `true` means all was sent; the call returns or dies, unless it is left reading the standard error of a live remote process; it implements `Delivery` |
| `scan` | holds | a ready list is final, the stack neither repeats nor forgets, the scan ends and hands over |
| `daemon` | holds | files appear whole, framing is kept, the disk is what was applied, temporary files and descriptors are tracked; a client that leaves does not keep the daemon from the other |
| `process` | holds | a program gets the pipes of its own spawn and nothing else, a failure before exec is reported, every child has one owner, descriptors are closed by who owns them, calls return |
| `net` | holds | counts are exact through short and failed calls, `Ok` means all or end of file, a read returns when the writer is done |
| `shm` | holds | a reader that is not too far behind gets every value in order, through wrap-around and restarts of the writer |
| `watcher` | holds | no event is invented; none but modifications is lost while `excuse` is empty |
| `program` | holds | parsing agrees with a reference, exit status 0 is honest, the program ends or is in one known mutual wait, the daemon it started ends with it |
| `sync_seq` | violated | sequence numbers do not order an entry after its directory |
| `scan_order` | violated | a larger file may be listed before a smaller one |
| `daemon_leave` | violated | after a disconnect, `accept` is called on something else |
| `daemon_crowd` | violated | a connection more than expected is accepted, since the limit is tested before the new one is counted (`daemon.h:245`) |

Each violated property states what a comment of the source says; `PROJECT.json`
quotes the comments under "findings". More behaviours of the code are modelled
without a property of their own:

- all threads write to descriptor 0, because `t_sock.local()` is 0 and not -1
  (`main.cpp:413`), so that messages of different tasks mix;
- when a connection too many is accepted, `pfd` may refer to moved storage
  (`daemon.h:245-255`); the one after it ends the daemon. No passing run has so many
  clients, and `daemon_crowd` stops before; the proofs cover both;
- a header is read with blocking reads although only a part of it may have arrived
  (`daemon.h:276`), so a client silent in the middle of a message stops the daemon;
- directories are made with mode 0, because `state.perms` is assigned to itself
  (`daemon.h:297`), so that only root can fill them;
- an entry may be applied, and fail, before its directory, as the comment at
  `daemon.h:315` says;
- the last `report_stderr_remote` reads a descriptor `terminate` has closed
  (`main.cpp:464`).

### Bounds

- `sync`: six entries, with an empty directory, a nested one with two files, files
  of 0 and 2 chunks, three threads and a terminal of three rows, so that
  siblings race in `bubble`, the count climbs two levels, and the frame is cut.
  `SeqMod = 1` keeps `g_seq` at 0, since no property of that run depends on it;
  `sync_seq` uses 100, which is never reached. `TooLong` is empty: too long a path
  takes the same branch as a failed write.
- `scan`: eight entries on three levels and one of an ignored type.
- `daemon`: two clients on two ports with two messages each, `HeaderLen = 1`; a
  directory and a file on each, the second client's inside the first client's
  root. `daemon_crowd`: three clients on the only port of a daemon that expects one,
  and `HeaderLen = 2`, the least with a part of a header in it. Clients that share a port do not
  leave (`DaemonAssumption`): a second client would outlive the listening socket, and
  the numbers closed twice are beyond what the model follows.
- `process`: two objects and two calls of `spawn`, the least for a move between live
  children; started with all standard descriptors or without standard output.
- `net`: a buffer of 3, a chunk of 2, calls of 0, 1 and 5 bytes and 10 bytes at each end,
  so that a call needs several rounds and must wait for the other end.
- `shm`: a ring of 3 and counters that wrap at 8, of which 3 is no divisor; 18 pushes
  go round the counters twice. One reader, since readers only share what the writer
  writes.
- `watcher`: three paths, two inodes and three operations, enough for a chain of two
  moves and an inode used again. Paths and inodes are symmetric. Deadlock is
  not checked, since a destroyed watcher does nothing more.
- `program`: every command line of at most four arguments out of the seven kinds
  `parse` tells apart.

### Fairness

- `sync`: each task is weakly fair, as threads of the arena are scheduled, and so
  is the end of the call; the remote process is not.
- `scan`: the scan thread.
- `daemon`: the daemon, and clients in connecting and sending: a client silent in
  the middle of a message stops the daemon, which `Served` excludes by this assumption.
  That `poll` fails is possible and never owed.
- `process`: the parent inside a call, and a child up to exec and in obeying SIGTERM. No
  program has to end, so `wait` need not return.
- `net`: an end that can go on in a call does; neither end has to call or close.
- `program`: both processes, and ssh in obeying SIGTERM and passing on the end of the
  daemon; not that ssh connects, nor that a user ends the input of a local daemon.

Deadlock is checked in every run but `watcher`. The explicit stuttering steps
(`Finished`, `ScanOver`, `Waits`, `Stopped`, `Over`) are enabled only where the program
has ended, or where the daemon has nothing to read.

## What is proved

| Theorem | Statement | For every |
|---|---|---|
| `TypeCorrect` | `Spec => []TypeOK` | finite tree, number of threads and terminal size |
| `PendingIsExact` | `Spec => []PendingExact` | the same |
| `BubbleIsSound` | `Spec => []BubbleSound` | the same |
| `NothingDangles` | `Spec => []NoDangling` | the same |
| `FrameAlwaysFits` | `Spec => []FrameFits` | the same |
| `BarAlwaysFits` | `Spec => []BarFits` | the same |
| `TrueIsComplete` | `Spec => []SuccessComplete` | the same |
| `Delivers` | `Spec => DeliverySpec` | the same |
| `ScanTypes` | `ScanSpec => []ScanTypeOK` | finite tree, sort order and failure to open |
| `ListsAreFinal` | `ScanSpec => []ReadyIsFinal` | the same |
| `StackIsSound` | `ScanSpec => []StackSound` | the same |
| `TreeIsHandedOver` | `ScanSpec => []HandsOver` | the same |
| `DaemonTypes` | `Spec => []TypeOK` | finite set of clients, ports, messages, header length, system and user |
| `FilesAreWhole` | `Spec => []FilesWhole` | the same |
| `FramingIsKept` | `Spec => []InStep` | the same |
| `DiskIsApplied` | `Spec => []OnDisk` | the same |
| `TempsAreTracked` | `Spec => []TempsTracked` | the same |
| `NoDescriptorLeaks` | `Spec => []NoFdLeak` | the same |
| `AtMostOneTooMany` | `Spec => []AtMostOneMore` | the same |
| `ProcTypes` | `ProcSpec => []ProcTypeOK` | number of objects and of spawns, set of standard descriptors, disposition of SIGCHLD and kind of fork |
| `StreamsAreRedirected` | `ProcSpec => []StreamsRedirected` | the same |
| `FailuresAreReported` | `ProcSpec => []FailureReported` | the same |
| `ChildrenHaveOwners` | `ProcSpec => []OneOwner` | the same |
| `FdsAreManaged` | `ProcSpec => []FdsManaged` | the same |
| `OkMeansWhole` | `NetSpec => []OkIsWhole` | buffer, chunk and lengths |
| `BytesAreCounted` | `NetSpec => []Counted` | the same |
| `PopIsRight` | `ShmSpec => []PopRight` | ring size and counter width |
| `NewsIsSeen` | `ShmSpec => []NothingNew` | the same |
| `ZeroIsHonest` | `Spec => []ExitTells` | set of command lines |
| `ParsingAgrees` | `Spec => []ParseAgrees` | the same |

Every invariant the passing runs check is proved but the two of `Watcher`; so is the refinement.
`AtMostOneTooMany` is the bound that holds in place of the violated `NoMoreThanExpected`.

The assumptions are those on the constants, named in the modules that declare
them: the tree is finite, `Parent` leads to `Root`, as `Depth` says, and only files have a
size; there are finitely many clients, no entry is sent twice (`ScriptAssumption`, which is
what `Delivery` promises) and, where clients leave, no two share a port; command
lines are sequences of the kinds of arguments `parse` tells apart (`LinesAssumption`); the
program is started with some of the descriptors 0 to 2; the ring is not empty and
not larger than the counters; buffer and chunk are not empty.

Two things stand in for induction, which the prover cannot do over data. Where a
proof descends a tree or a sequence, it takes the least or the greatest of a set of
naturals (`Least`, `Greatest` in `Lemmas`). And sums are sizes of sets: the chunks of a tree are
pairs of a file and a number, the units of a client's messages pairs of a message
and a number, so that a sum grows by the theorems on cardinality.

**The sender.** None of its invariants is inductive. `TypeOK` says that no entry of
`pending` goes below zero, which depends on how many decrements are owed; that
depends on which nodes are linked, and a node can be unlinked only while nobody is
in its parent's list. The inductive invariant `IInv` (theorem `Inductive`) has three
parts, each proved with the help of the ones before:

1. `Shape`: types, with `pending` an integer, and that `Root` is never removed;
2. `Locks`: a mutex is held by its own node's task while it spawns, or by the drawing
   task, and the lists the walk is in form a path of linked nodes from `Root`, told
   apart by their depth;
3. `Tasks`: a child starts only after its parent began to spawn; a task before its
   `remove` has its node linked; a task in `bubble` is at a linked directory that is past
   spawning and has an entry; and the entries are exact.

`BarAlwaysFits` adds the chunks that are counted at their node and not yet in the sum;
`TrueIsComplete` adds that a directory whose count is 0 has a task about to remove it and
that one whose entry is erased is gone; of the lists that still had an element, the
deepest one would then have a child with one.

**The refinement.** `Delivers` adds `Sends` to it: no message is counted twice, since a
task counts its own only on the way out of `send_datamsg` and its count was 0 until then,
and what the position of a task says about its message, its directory's and its children's tasks. That `true` means all is an
argument without induction over the tree: of the nodes that are not done, one has
the least depth, its directory is done, and so are then all children of that.

**The scan.** `ReadyIsFinal` needs to know how far the scan has come. `SInv` says it for the
directory being read (linked and remaining entries make up what is on disk), for
those on the stack or not yet found (untouched), and for the file between its three
steps. `HandsOver` follows at the join: of the nodes missing from the tree, one would have
the least depth, and the directory it is in was read.

**The daemon.** The numbers of closed descriptors stay in `fds` and in `sock_fd`, and the kernel
gives them out again; every invariant therefore rests on what a number may mean. `DInv`
says it in nine parts. `Table`: an open descriptor is a listening socket, a connection
with a state, or the temporary file of one; each state has its own connection, and no two
share one. `Polled`: all sockets and connections are polled, and a number is polled twice,
or without a connection, only if it is or was a listening socket's. `Framing`: `progress`
and `goal` say which unit of which message comes next. `Contents`: what has been written of
each file. `Counting`: how many entries `fds` has. `Plain` and `Loop` are types, `OnDisk` and
`TempsTracked` the properties themselves. A step that reads a message touches one
connection, so `DaemonProofs` first shows, once, that all else is kept (`ApartKeeps`).

**Process.** The first half of `ProcessProofs` is about descriptor tables: the k-th free
number exists and is larger than the one before; `Pipes` puts the eight ends on the first
eight free numbers; and `TableOK`, which says what each step of the redirection leaves in
the table, is kept by `Redirect` also when `dup` lands on the target. The second half is the
invariant `ProcInv`: `Kids` (reports and tables of children), `Own` and `EndsHeld` (descriptors of
the parent), `Reports` (what spawn has read and returned), `Owners` (who names which
child). The ways in which `wait`, `terminate`, the move assignment and the destructor
return are one lemma, `ReturnsKeep`, over what a return may close, hand on and reap.

**Sockets.** An end is closed only between two calls; with that, `Counted` and
`OkIsWhole` are inductive.

**The queue.** `head_` and `tail_` are the history counters modulo `Wrap`, and each of the
last `SafeLag` values is in its slot: two positions less than `SafeLag` apart never
share one, also across the wrap.

**The program.** Before `spawn` there is no ssh that a Ctrl-C could reach; an ssh that it
has reached stays ended by it; and from `wait` to the return the three facts that
`ExitTells` names are known. `ParseAgrees` compares a loop that reads from the left with a
reference that speaks of the whole line: an argument is a value exactly when an odd
number of value-taking flags stands right before it, and the invariant carries, for
each field, what the arguments read so far have made of it.

## What is only model-checked

- Liveness (`Returns`, `ScanEnds`, `Served`, `CallsReturn`, `ReadReturns`, `EndsOrHangs`, `RemoteEnds`),
  which TLAPS does not reach.
- `TellsTruth` and `TellsAll` of `Watcher`: what `event_callback` tells is a fold over a batch of
  records, and what a fold computes for every batch needs induction over data.
- The four violated properties, which have counterexamples and nothing to prove.

## What is not modelled

- Text and formatting, times, address space and file contents beyond their length.
- The values of ports and of the init message, and `connect_to_daemon`
  (`daemon.h:111-142`) behind its first lines: no thread calls it, because `t_sock`
  starts at 0. For the same reason sender and daemon are not composed byte by byte: no
  connection between them comes about.
- Changes to the source directory during a run, and sizes that `file_size` fails to
  find (`main.cpp:67, 325`): the tree on disk is constant.
- A callback of FSEvents that runs while `~Watcher` does (`fsevent.cpp:125`): what
  stopping the stream waits for is up to the system. `inotify.cpp` is a stub.
- The reuse of pids, and argument vectors in `spawn`.
- `HandsOver` speaks of scans in which every directory could be opened; the sender is
  not modelled on the smaller trees that other scans leave, which are trees all the
  same.
- `test/spawn.cpp`, which tests `Process`.
