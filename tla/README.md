# AgentOS in TLA+

AgentOS adds *agents* to xv6-riscv: processes that the kernel identifies,
groups into workflows, wakes by events and serves with tools.  Nearly all of
the new code is in `kernel/agent*.c`, with hooks in `kernel/proc.c`,
`kernel/trap.c`, `kernel/file.c` and `kernel/sysfile.c`.  The specifications
here model that code from its source, and the parts of xv6 under it that its
promises rest on; the line numbers of every definition are in `PROJECT.json`.

## 1. Inventory

| Component | State | Operations | Interacts through |
|---|---|---|---|
| Workflow table (`agent.c` 60-224) | `agent_global.workflows[16]`; per process `workflow_id`, `workflow_leader_generation`, `is_workflow_leader`, `workflow_member_registered` | create, join, begin_terminate, leave, cascade_terminate | `agent_global.lock`; called from fork, `agent_create`, exit, `agent_cascade_kill`; the cascade sets `killed` and wakes processes under `p->lock` |
| Identity, roles, capabilities (`agent.c` 226-250, 724-766; `agent_tool.c` 281-305) | `agent_type`, `agent_role(_locked)`, `agent_capabilities`, `identity_generation` | `agent_create`, `role_set`, `cap_set`, permission check of a tool call | the cascade, leases and tools consult them |
| Process table (`proc.c`) | `proc[64]`, `p->state`, `p->killed`, `p->chan` | fork, exit, wait, kill, sleep, wakeup, scheduler | `p->lock`, `wait_lock` |
| FIFO mailbox (`agent.c` 768-825) | ring of 8 messages per process, 2 slots reserved for SYSTEM | `agent_send_message`; consumed in `agent_wait`; cleared by `agent_create` and `agent_wait(0)` | `p->lock` of the target |
| Agent Loop (`agent_loop.c`) | `pending_events`, `watch_mask`, `wait_deadline`, `loop_state` | `agent_wait`, watch, unwatch, watch_file, signal_event, agent_tick | `p->lock`, `tickslock`, timer interrupt |
| Heartbeat wheel (`agent_loop.c` 46-145, 596-661) | 64 lists through `heartbeat_wheel_next` | insert, remove, reschedule, tick | `agent_global.lock`, partly none |
| Leases (`agent.c` 912-1060) | `agent_global.leases[8]` | begin, commit, abort, reap_expired (tick), reap_pid (exit) | `agent_global.lock`, inode lock, `ticks` |
| Dynamic tools (`agent_tool.c` 57-86, 827-899, 1017-1104, 1150-1168) | 8 tools, 8 request slots | register, call, recv, reply, exit | `agent_runtime_lock`, sleep/wakeup |
| Tool router (`agent_tool.c` 307-825, 902-1016) | a pending dependency per process | tool_call, batch_call | calls the other components, then pushes a context record |
| Context path (`agent_context.c`, `agent.c` 282-378) | up to 16 records in a region of the process, a ring of 16 digests | push, evict, rollback, clear, validate, verify | the owner only; the region is shared with the program |
| Inode versions (`agent_fs.c` 139-212) | 256 entries (dev, inum, version, deleted) | get, bump, remove | `agent_file_version_lock`; the writers in `file.c`, `vm.c`, `agent_tool.c`, `sysfile.c` |
| AgentFS index, query cache (`agent_fs.c`) | 160 metadata entries, postings, 8 cached results | attribute set and delete, index build, query | `agent_file_lock`, `agent_fs_runtime_lock`, a global version |
| Scheduler (`proc.c` 486-560, `agent_loop.c` 520-594) | score inputs: priority, boost, budget, vruntime, `runnable_since` | score, dispatch, charge, replenish, sched_set | `p->lock`s in table order |
| Spinlocks (`spinlock.c`, all of the above) | `owner` of each lock | acquire, release, sched | everything |
| Write-ahead log, buffer cache (`log.c`, `bio.c`) | `log.lh`, `outstanding`, `committing`; the log on disk; pinned buffers | begin_op, log_write, end_op, commit, recover | sleep/wakeup on `log`; every call that writes a file |
| Inodes and directories (`fs.c`, `sysfile.c`) | `itable`, sleep-locks, dinodes, entries, `p->cwd`, `p->ofile` | iget, ilock, iput, ialloc, namex, open, mkdir, link, unlink, chdir, close | sleep-locks held one inside another; `itable.lock` |
| Mapped files (`sysfile.c` 518-619, `vm.c` 459-525) | `vma_list[16]`, one list per process | mmap, munmap, page fault, write-back, fork, exec, exit | one table for all processes; `f->ref`; the inode versions |
| CodeLab programs (`user/*_agent.c`) | what each program has seen | planner, retriever, patch, test, reviewer, tool service | mailboxes, file events, the dynamic tool, the cascade |
| Workflow metrics (`workflow.c`) | counters in the workflow entry | increments, one read | `agent_global.lock` |

The rest is xv6 as it was (page tables, traps, devices, pipes), test and
benchmark programs, host-side scripts, and `baseline-xv6`, an unmodified copy
kept for measurements.

### What is hard, and what correct means

* **Workflow table.**  The cascade loop walks `proc[]` with one `p->lock` at a
  time while members fork, exit, are reaped and start workflows of their own.
  Correct: no agent of a terminating workflow is left behind, `member_count`
  is exact, a terminating workflow neither revives nor grows, and a workflow
  whose leader exits leaves the table.
* **Mailbox.**  A ring whose sender runs under the receiver's lock while
  `agent_create` clears it without one.  Correct: a bounded FIFO queue with
  numbered messages that loses nothing while its owner's loop goes on.
* **agent_wait.**  Everything that may wake a process can happen between its
  tests and its sleep.  Correct: no lost wakeup, no missed timeout, no sleep
  that nothing could end, and the call returns.
* **Leases.**  begin and commit read the clock before they lock the table.
  Correct: one lease per file; who can still commit is the last to whom the
  file was leased; a lease is ended by its owner or by time only, and it ends.
* **Heartbeat wheel.**  The tick detaches a list and walks it without the
  lock.  Correct: a heartbeat that is due is delivered, and lists stay lists.
* **Dynamic tools.**  Callers sleep on a request slot that a service answers,
  late or twice, or abandons by its exit.  Correct: a call returns with the
  answer meant for it or with SERVICE_GONE, every slot is freed, nobody sleeps
  through its answer, a killed caller returns.
* **Context path.**  The same path kept in kernel arrays, in user bytes and in
  a ring of digests, through pushes that fail half-way, evictions and
  rollbacks.  Correct: no holes, the header tells the truth, the digests vouch
  for what is there and for nothing that was rolled back.
* **Inode versions.**  Bumped after the change, outside the inode lock, by
  writers that may fail in the middle.  Correct: a record judged valid rests
  on a file that is as it was read; a watcher's last word is never an old one,
  unless the file is gone.
* **Query cache.**  Every step of a query takes a lock of its own.  Correct:
  what is served is what the attributes say.
* **Scheduler.**  Several CPUs compare scores that change while they scan.
  Correct: a process is in one place, and between two of its calls of
  agent_create no agent overtakes another for ever.
* **Locks.**  Nested spinlocks on several CPUs, a scheduler that hands
  `p->lock` over, sleep-locks of inodes held one inside another.  Correct: no
  ring of waiters.
* **Log.**  Operations overlap, share one commit, sleep for room; a crash may
  fall anywhere.  Correct: a crash leaves a whole number of commits.
* **Inodes.**  Counts of links and references change in steps of several
  calls, under different locks, and an inode number that is freed is taken
  again at once.  Correct: the counts are exact whenever nobody is between two
  steps, and no inode in use is free.
* **Mapped files.**  Areas move between processes through one table.  Correct:
  an area is in one list, once, and its pages and references go with it.
* **CodeLab.**  Six programs that assume an order of messages and events.
  Correct: no order the kernel allows makes one stumble, a verdict is true,
  and the workflow ends.

## 2. Plan

Done, in this order: `Workflow`, `AgentWait` with `Mailboxes`, `Leases`,
`KernelLocks`, `HeartbeatWheel`, then `DynamicTools` with `ToolCalls`,
`FileVersions` and `Context` composed in `Evidence`, `QueryCache`, `DiskLog` with
`AtomicDisk`, `Scheduler`, `CodeLab`, `Mmap` and `FileTree`; and the proof
modules `WorkflowProofs`, `AgentWaitProofs`, `CodingAgentsProofs`,
`HeartbeatWheelProofs`, `ToolProofs`, `StorageProofs`, `FileTreeProofs` and
`SchedulerProofs`.

Left, and worth doing next:

1. `FileTree` with crashes, on top of `AtomicDisk`: inodes that are open and
   have no name are lost on disk when the machine stops (a comment in `fs.c`
   says so), and nothing else may be.
2. Pipes and the console, which share sleep and wakeup with the agents but no
   state.

## 3. The modules and the code

An action is a region that no other CPU can look into: one under a lock, or
writes to fields only their owner reads; a call is as many actions as it has
such regions.

**`Workflow`** has `pc` for the place of a process between two regions.  fork is
`ForkAlloc` (allocproc), `ForkJoin` (agent_after_fork) or `ForkAbort` (no
memory), `ForkPublish`; agent_create is `MarkBegin`, `MarkLeave`, `MarkKey`, then
`MarkCreate` or `MarkJoin`; the cascade is `CascadeBegin` and one `CascadeStep`
per slot; exit is `ExitBegin` (whose cascade is the same loop), `ExitLeave`,
`ExitZombie`; `Reap` is freeproc.  The flag `locked` keeps the child's `p->lock`
from allocproc to its release in fork, which is what makes the cascade loop wait
for a child that is being born.  `Calls` says which system calls the program in
a slot may make; it bounds the runs and the proofs hold for every `Calls`.

**`AgentWait`** covers `agent_loop.c` from the calls that change what a process
waits for to `agent_wait`, and `agent_send_message`.  Two regions are cut in
two.  The sender's is, because `agent_create` clears the mailbox without
`p->lock` (`MarkClear`, between `MarkBegin` and `MarkNext`): `SendPut` writes
the message and moves tail, `SendCount` counts it and signals, and `lock` keeps
`p->lock` between them.  The start of `agent_wait` is, because the clock ticks
meanwhile: `WaitCall` tests the sources without the lock, `WaitEnter` sets the
deadline under it, and `WaitMessage`, `WaitEvent`, `WaitOver` or `WaitSleep`
makes the first turn of the loop.  `Reason` has the order of the tests of one
turn.  `ChildExit` is the wakeup of a parent on `chan == p`, the same channel as
agent_wait: such a wakeup has no reason and the loop sleeps again.  `Tick` and
`TickStep` are clockintr and the last loop of `agent_tick`, one process at a
time.  Heartbeats (`Heartbeat`) and reported files (`NotifyFile`) may come at
any time here; which heartbeats do is the business of `HeartbeatWheel`.

**`Mailboxes`** is what the mailboxes promise.  `AgentWait` defines the mapping:
`Queue(t)` reads the ring from head, counts the message a sender has put but
not yet counted, and `closed` is the set of agents whose `loop_state` is DONE or
that are gone.  `FifoSpec` is the abstract specification under that mapping.

**`Leases`** has `lease` (the table), `ticks`, and per process the call it is
in with the tick it has `read`: `CallBegin` takes the inode lock and reads the
clock, `BeginGrant` or `BeginFail` is the region under `agent_global.lock`; the
same for commit.  Ownership is by process of one identity, so that a pid that is
reused is another member of `Procs`.  `Patch` is `patch_file`, which changes the
file and asks for no lease.  `granted` is a history variable.

**`KernelLocks`** describes a path through the kernel by the sequence of its
acquire and release calls (`ForkPath`, `ExitPath`, `ClockPath`, ...), with
`sched` for the jump into the scheduler, and executes them one by one on each
CPU.  The scheduler is modelled in its own steps, because it keeps the lock of
the best process while it tries the others and gives it to that process.  Any
process may be found runnable and any may win; the timer interrupts CPU 1
whenever it has no spinlock (acquire turns interrupts off).

**`HeartbeatWheel`** has the wheel as a record of heads, links, marks and count,
with the pure operators `Remove` and `Push` for the two `_locked` functions;
`Walk` is their loop.  `heartbeat_wheel_active` and `heartbeat_wheel_bucket`
always change together and are one field.  A call is cut where it changes locks:
`SetFields` (`p->lock`) and `SetLink` (`agent_global.lock`), `StopRemove` and
`StopFields`, `ExitRemove` and `ExitZombie`, and agent_create into
`CreateRemove`, `CreateSet` (no lock at all) and `CreateLink`.  `agent_tick` is
`TickDetach`, then per agent `TickNext` (reads the link, no lock), `TickLook` and
`TickLink`, between which it keeps the agent's `p->lock` (`Locked`), then
`TickEnd`.  `Reset` is agent_init_proc, which clears the links of a slot without
a look at the lists.  `Races` names the overlaps that the code allows and that
break the wheel: a run says which it includes.

**`DynamicTools`** has the tools, the request slots, and per process where it is
(`pc`) and whether it is awake, `falling` asleep or asleep.  A step is a region
under `agent_runtime_lock`; going to sleep is cut in two because `kill` needs
only `p->lock`: a process that has looked at its killed flag falls asleep in a
step of its own, still with the runtime lock.  All sleep on one channel, so a
wakeup wakes everybody and each looks again.  `Exit` is agent_proc_exit, which
answers SERVICE_GONE for every request of the service.  The instance `Promise`
maps slots and callers to **`ToolCalls`**, in which a call has a service and an
answer and nothing else; `Promised` is its specification.

**`Context`** keeps what the kernel has (`nodes`, `pathLen`, `first`, `next`,
`dropped`, the digest ring) beside what the program sees (`region`, one cell per
unit of length, holding the number of the record whose bytes are there, and
`header` with the parity of its generation).  A push is `PushBegin`, one
`EvictOldest` per record that must go, then `PushEnd` or `PushFails`; its copies
may fail when the program has unmapped the region (`ContextFaults`).  A digest is the pair of
numbers it chains, not a hash.

**`FileVersions`** has the version table and everybody who changes a file.
`stamp` counts the changes of an inode and is what the versions are measured
by.  A writer changes the file under the inode lock (`WriteChunk`, `ShortChunk`,
`Patch`, `Unlink`, `Truncate`, `Create`) and reports later, holding nothing
(`NotifyBump`, `NotifySignal`, `ContentChanged`, `UnlinkRemove`).  `silent` has
the inodes with a change that nobody reports.  `unaware` says that the watched
file has got a version since the watcher took its last event, be it the one
`UnlinkRemove` writes.  The write-back of a mapping reports as write does.

**`Evidence`** composes the two: `read_file` takes content and version in one
region of the inode and leaves them as the dependency of the next record;
`Verdict` is `agent_context_validate`.

**`QueryCache`** cuts the calls of `agent_fs.c` where they change locks: setting
an attribute is the change of the inode, the rebuild (`BuildBegin`, a `Walk`
step per file, `BuildEnd`) and `BumpGlobal`; a query is the look into the cache,
the build if there is no index, `Scan` and `Store`.

**`DiskLog`** has the disk (`home`, `slot`, `head`), the buffer cache (`cache`,
`pinned`), `log.lh`, the processes and `phase`: commit copies to the log, writes
the header, installs and erases, a block at a time.  `Crash` may fall anywhere,
also into recovery.  `log_write` panics when the log is full (`Panic`).  The
instance `Promise` maps it to **`AtomicDisk`**, which knows a current and a
durable disk.

**`Scheduler`** has one record per process with the inputs of its score, and
per CPU its scan: `ScanBegin`, `Skip` and `Compare` per process, `Dispatch` or
`NobodyToRun`.  A CPU holds the lock of its best process, so no other CPU can
pass it.  Turns end by `Yield`, `Sleep` or `Exit`; `Replenish` refills budgets.
Events and deadlines of the score are any value of their range.  `Create` is
agent_create, which a normal process or an agent may call at any time and which
starts vruntime, budget and boost anew.  Two history variables:
`passed[p][q]` is how often agent q was run while p waited, by scans that began
after p was ready, and `restarts[p][q]` how often q has called agent_create
meanwhile.

**`CodeLab`** has one action per system call of the six programs and what the
program decides from its result; `doing` is the next call.  The kernel under it is
what the other modules say, in small: bounded mailboxes, a mask of FILEMOD, a
version per file, one request slot, the cascade of the planner's exit.  A
program's `sleep` is a step that may take any time.

**`FileTree`** has inodes on disk (`dinode`), their copies in `itable` (`copy`,
`ref`), the sleep-locks that are kept from one step to the next (`holder`), the
directories, and the call each process is in.  A step goes from one `ilock` that
may have to wait to the next.  `Walk` is one turn of the loop of `namex`; link is
`LinkFound`, another walk, `LinkEntry` or `LinkUndo`; unlink is `UnlinkFind`,
which keeps the directory locked, and `UnlinkEntry`; create is `CreateLook`, then
`CreateExisting` or `CreateFill`.  `puts` lists the references a call still has to
`iput`, each in a step (`Put`); the last reference to an inode without links
frees it in two (`Put`, `PutFreed`), between which the number may be taken
again.

**`Mmap`** has `vma_list` with its `next` links, the first area of each process,
which pages its page table has, and the references to the file.  munmap is
`UnmapHead` (with the write-back of each page, `WritePage`, and then `UnmapAll`
or `UnmapSome`) or `UnmapTail`.  exit goes through the list (`ExitBegin`,
`ExitUnmap`) before it closes descriptors.  `TidyNext` has the programs that
unmap mappings whole, the latest first; `UntidyNext` what they may do besides.

## 4. The runs

| Run | Checks | Instance |
|---|---|---|
| `workflow` | `MemberCountExact`, `CascadeComplete`, `TerminatingIsClosed`, `ExitReclaimsWorkflow` (fair) | 3 slots, 1 entry with 2 places, 3 pids |
| `agent_wait` | `NoLostWakeup`, `TimeoutNotMissed`, `SleeperHasSource`, `FifoSpec`, `WaitReturns` (fair) | 2 agents, ring of 3 with 1 SYSTEM slot, 3 messages, 1 tick |
| `lease_table` | `HolderIsLast`, `LeasesEnd` (fair) | 2 owners, 3 files, 2 slots, 2 leases, expiry of 1 tick |
| `wheel_apart` | `WheelSound`, `InItsBucket`, `NoHeartbeatMissed`, `QuietAfterStop` | 2 processes, 2 buckets, intervals 1 and 2, 3 ticks, 2 starts per slot |
| `wheel_exit` | `ListsEnd`, violated | 1 slot, used twice |
| `locks_clock` | `NoDeadlock`, violated | 2 CPUs, 2 processes, `yield` and `agent_wait` |
| `tool_calls` | `CallersKeepSlots`, `NoMissedWakeup`, `SlotsHaveCallers`, `Promised`, `CallReturns` (fair) | 3 processes, of which 2 are clients and 2 services, 1 tool, 2 slots, 3 calls |
| `evidence` | `NoHoles`, `PathIsShown`, `DigestsVouch`, `VerdictSound`, `WatcherHears`, `IndexIsTrue`, `CacheIsTrue` | path: 2 records, 3 units, ring of 2, 4 numbers; files: 2 inodes, 2 writers, 1 table entry, 2 changes each; cache: 2 agents, 3 files, 2 table entries, 2 cached results |
| `storage` | `SleepersAreWoken`, `ReservationHolds`, `CrashIsAtomic`, `MappingsSound`, no stop | log: 2 operations of 2 blocks, 4 blocks, a log of 3; mappings: 2 processes, 3 areas, 2 pages |
| `mmap` | `NotUsedIsNobodys`, violated | 2 processes, 3 areas, 3 pages |
| `sched_agents` | `OnePlace`, `BoundedOvertaking`, `NoDeadlock`, `InodesSound`, `InodeLocksOrdered` | scheduler: 2 CPUs, 3 processes; locks: 2 CPUs, 3 processes, 8 paths; inodes: 2 processes, 3 inodes, 1 file name, 1 directory name |
| `codelab` | `NobodyStumbles`, `VerdictTrue`, `Concludes`, `NoOrphans` (fair) | the 6 programs, mailboxes of 6, a file with or without the bug, forks that fail, a tool service that is killed |

**Slices.**  `MCEvidence`, `MCScheduler` and `MCStorage` extend components that
share no variable, choose at the start which of them moves (`moving`), and let
the others rest.  So one run has the states of each component, not their
product, and a property is checked on the states of its own.  In the evidence
slice of `MCEvidence` the path moves freely while the files are still, and the
files move freely while the path is short and whole (`Slices`).  In the
scheduler's slice of `MCScheduler` two processes do everything on two CPUs, or
three do what needs a third, that an agent is run in the place of another while
somebody waits: then one CPU is idle, nobody sleeps and the clock stands (`Few`).

**Why the bounds are enough.**  A race between a cascade and a fork needs three
processes: the one that runs the loop, the parent and the child, with the
child's slot behind or before the cursor.  One entry makes "already there" and
"table full" happen, two places make join fail.  A ring of 3 with 1 slot
reserved is filled by 2 messages, refuses the third and wraps.  Two agents
suffice for `agent_wait` because all that meets a waiter is an environment
action on it.  Two owners, three files, two slots and an expiry of 1 tick give
leases that expire between the reading of the clock and the lock, and a table
that is full.  A circular wait of spinlocks needs two CPUs, since no path waits
for more than one at a time and each lock's holder is one CPU.

On the wheel, two buckets and an interval of 2 give agents that share a bucket
with different deadlines and a deadline more than a turn ahead (2 + 1 ticks);
3 ticks visit a bucket twice.  Lists have two agents, so that one of them is not
the head.  `wheel_apart` allows every overlap of calls and agent_tick but three
(`Races` is empty): an agent that agent_tick has detached and not yet put back
does not link itself ("set") and does not exit, and its slot is not reused
("exit"); and nobody sets a heartbeat between agent_wait(0) and agent_wait(1)
("done").  `wheel_exit` adds "exit".  In both, a call is not held up between
setting a deadline and linking itself until the deadline has come (`Tick`); a
bucket missed so costs one turn of the wheel.

Two slots and two clients of different groups, one of them a service, give
requests of another caller in a slot that was given up, a service that calls its
own tool, and a table that is full.  A path of 2 records over 3 units evicts one
or both records, or none, for a push; a ring of 2 wraps and reaches behind the
path.  One version entry for two inodes gives files without a version.  One
entry of the attribute table less than there are files gives the file the index
has no room for.  A log of 3 blocks under a LOGSIZE of 4 and operations of 2 is
the proportion of the code, where the log holds its header too: an operation has
to wait for room, and a reservation can be granted that the log cannot hold
(`Panic`).  Three areas and two processes let an area go from one process to the
other and a list have one in its middle; two pages have a hole before a dirty
one.  Three inodes are the root, a directory and a file, of which the last two
are freed and taken again while somebody is freeing them; two processes make
every pair of calls meet.

The weights of the scheduler in `sched_agents` are 0 and 1, an agent has a
quota of 2 turns, as a worker has, and takes 2 turns between calls of
agent_create, of which it makes one while another process waits.  These are
enough for `BoundedOvertaking` to be met exactly: TLC finds states in which an
agent has been run as often as the bound allows, without such a call and with
one, and the bound less one is violated.  That it holds for the weights of the
code is a theorem.

`MaxPid`, `MaxSeq`, `MaxId`, `MaxTick`, `MaxRun`, `MaxRestart`, `MaxVersion`, `Patched`,
`MaxStarts`, `MaxStamp`, `MaxChange`, `ShortPath`, `Top` and `Requests` cut counters and
inputs; the theorems hold for every value of them.

**What the passing slices assume.**  `TidyNext` in `storage`: programs unmap
mappings whole, the latest first; `mmap` drops this.  `Allowed` in `FileTree`:
a directory has a name that no file has, and it is removed while no other call
is under way and nobody has it as working directory or open, since the races
with its removal lose inodes (section 6).  The paths of `KernelLocks` in
`sched_agents` are those that do not read the clock under a lock; `locks_clock`
has one that does.

`CHECK_DEADLOCK FALSE` stands where the pids, ticks, messages or turns are used
up or all programs have ended, and nothing more happens; in the slice of the
locks `NoDeadlock` says what the check for deadlock would.  In `storage` there
is always a next step, and TLC checks that.

**Fairness.**  `Workflow!Fairness`: a CPU inside the kernel goes on, and
usertrap makes a killed process exit at its next trap, which the timer forces.
`AgentWait!Fairness`: the timer interrupts for ever; a process inside a system
call goes on, with strong fairness because its next step may be an acquire of
a lock that others take in turn (a test-and-set lock gives no more than that
somebody who tries again and again gets it in the end).  `DynamicTools!Fairness`
is the same for the regions of a call and of a receive.  `Leases`: the timer
alone.  `CodeLab!FairLabSpec`: every program goes on with its next call in the end.
That a RUNNABLE process runs is the scheduler's promise, which holds with no
more processes than CPUs and is not assumed of more: `BoundedOvertaking` says
how far the score keeps it.  No fairness is assumed of programs in the kernel
modules: nobody has to send, answer, commit or exit.

**Mutants.**  Operators named `X_Y` are `X` with a plausible mistake; each
property of a passing run fails with the one `PROJECT.json` names for it.

## 5. What is proved

All for every number of processes, entries, members, agents, slots, files,
blocks and weights, from the assumptions on the constants that the modules state
(`SizesAssumption`, `WaitAssumption`, `LeaseAssumption`, `WheelAssumption`,
`ToolsAssumption`, `ContextAssumption`, `FileVersionsAssumption`,
`DepsAssumption`, `QueryCacheAssumption`, `DiskLogAssumption`, `MmapAssumption`,
`FileTreeAssumption`, `SchedulerAssumption`, `LocksAssumption`), of each component's own `Spec`: the
slices and bounds of the runs play no part.

Four theorems have a hypothesis besides, each because without it the code does
not do what the theorem says.  `LocksAreOrdered`: no process takes one of the
three paths that read the clock under another lock; with one of them the run
`locks_clock` finds CPUs that wait for each other.  `WheelStaysSound`: no exit and
no new heartbeat falls into the moment in which agent_tick has the agent off the
wheel; with an exit in it the run `wheel_exit` finds a list that does not end.
`HeartbeatsComeInTime`: no call at all of an agent falls into that moment.
`MailboxesAreFifo` (`Apart`): no program writes to an agent that still is to call
agent_create, which clears the mailbox without its lock.

* **`WorkflowProofs`.**  `TypeCorrect`, `MemberCount`, `Cascade`, `Closing`.
  `MemberCountExact` is not inductive: a fork must know that its child is
  nobody else's and still blank (`ForkInv`), agent_create where it is between
  leaving and joining (`MarkInv`), and what `p->state` says of the rest
  (`StateInv`); together `CountInv`.  The count itself is a cardinality that
  changes by one member at a time (`OneMore`, `OneLess`, `NewEntry`).
  `CascadeComplete` needs that pids and keys are never used twice (`KeyInv`),
  that whoever may fork into a workflow is a counted member of it or the one it
  is named after (`OwnerInv`), and the loop invariant `LoopInv`: behind the
  cursor only the caller is alive.  A slot behind the cursor can come alive
  again only through a join, and a TERMINATING entry accepts none
  (`NoRevival`); the entry cannot be a later one of the same name, because its
  members are counted.
* **`AgentWaitProofs`.**  `WaitTypes`, `NoWakeupIsLost`, `SleepersHaveSources`,
  `TimeoutsAreNotMissed`.  `SendInv` keeps the mailbox below its capacity
  between the two halves of a send although `agent_create` may zero it there;
  `WhereInv` says that only agent_wait sleeps; `SourceInv` carries the test of
  the sources from `WaitCall` to the sleep: what was a source then is one still
  or has become an event.  `NoLostWakeup` then follows because every signal
  records its reason and wakes in one region, `TimeoutNotMissed` because a
  deadline that passes passes at a `Tick`, which starts a scan.
  `MailboxesAreFifo` is the refinement of `Mailboxes`: the ring, read from its head
  (`View`), is the queue.  `MailInv` says that the tail is where the messages
  end, also between the two halves of a send, when one more is written than
  counted (`Written`), and that a mailbox nobody writes to is empty; every step is
  then a put, a get, a discard or nothing.
* **`CodingAgentsProofs`**, of `Leases` and of `CodeLab`.  `LeaseTypes`, `LeasesExclusive`, `HolderUndisturbed`,
  `OnlyOwnersEnd`.  begin drops the expired leases and looks for the file with
  one value of the clock in one region, so what it does not drop it finds;
  `CallInv` says that the tick a caller has read is not ahead of the clock,
  which makes what it drops expired for everyone.  That a file has one lease
  and that a lease ends by its owner or by time are theorems only, no run has
  them.
  `WorkersDoNotStumble` and `VerdictIsTrue` are `NobodyStumbles` and `VerdictTrue`
  for every size of the mailboxes, with anybody killed at any time, from
  `LabAssumption` (a file starts with the bug or without).  Neither is inductive;
  what is, `LabInv`, has one part per hazard.  `PartInv`: a worker is told its part
  once, and not before the planner has come to it.  `ReadyInv`: the planner has
  come no further than the workers have said they are ready.  `QuietInv`: until
  the retriever is told its part the file, the request and the letters between
  workers are untouched, so a late booter cannot lose one when `agent_create`
  clears its mailbox.  `TestInv`: the request of the test is answered once, after
  the file was fixed, and an error means the service was killed.  `ReviewInv`: the
  planner has the answer before the reviewer can approve on it, also in the order
  of the planner's mailbox (`PassedFirst`), so PASS and FAIL follow from the
  request alone.  `ChainInv` is the undisturbed run: who has got how far along
  retriever, patch, retriever, and that the file has the version each expects.
* **`HeartbeatWheelProofs`.**  `TypeCorrect`, `BucketCorrect`, `QuietCorrect`,
  for every value of `Races`: what these say survives even the overlaps that
  break the lists.  `InItsBucket` is not inductive: agent_tick moves a deadline
  before it moves the agent, and agent_wait(1) makes a DONE agent wanted again
  without a look at the wheel; `BucketInv` says that the first happens only
  under `p->lock` with the agent still wanted, and covers the second by not
  asking whether the loop is DONE.  `WheelStaysSound` takes the lists as
  sequences without repetition (`Sound`): each bucket has one, what agent_tick
  has detached has one (`ChainInv`), no slot is in two, and what is in none is
  off the wheel or in the hands of agent_tick (`AwayInv`).  Walking along the
  links is then induction along a sequence.  `HeartbeatsComeInTime`: an agent
  that wants its heartbeat is on the wheel or detached, and its deadline is not
  behind what agent_tick has looked at (`BeatInv`).
* **`ToolProofs`**, of `Evidence`, `QueryCache` and `DynamicTools`.  `PathHasNoHoles`, for any capacity and lengths, over
  failing pushes, evictions, rollbacks and clears.  `ValidMeansUnchanged`
  (`VerdictSound`) says that no dependency, in the path, in the record being
  pushed or left by the tool, has a version ahead of the table, and that one
  which agrees with the table has the stamp of now, or a writer or `silent`
  accounts for the difference.  `WatcherIsTold`: a version the watcher has not
  heard of comes from a bump, whose signal follows, or from an unlink, and then
  says that the file is gone until a bump replaces it.
  `RegionShowsPath`: whatever was evicted, record k of the region has the k-th
  number from the oldest on and lies where the lengths before it say
  (`ShownInv`).  `RingVouches`: the digest k places before the head is that of
  the k-th last record and names the one before it (`DigestInv`).
  `IndexAnswersTruly`, `CacheServesTruth`: the entries are those of the first
  files in order, with the attributes of now unless somebody is on the way to
  note a change, and once nobody builds the postings agree with them
  (`IndexInv`); a result scanned under the version of now, and not during a
  build, is the truth or somebody is on the way to the next version, on its
  way to the cache (`call`) as in it (`ResultInv`).
  Of `DynamicTools`: `ToolTypes`, `SlotsAreKept`, `NoSlotIsLeaked`,
  `NobodyOversleeps`, and `CallsAreAnswered`: the slots implement `ToolCalls`.
  The invariant (`RestHolds`) says that every slot in use is the slot of exactly
  one caller, who alone gives it back; that an answer is for the id of the
  request it lies in (`AnswersFit`); that tools belong to the living (`OwnersLive`), so that a request without an answer has somebody who can still
  answer it or whose exit will; and that who is not awake waits for something
  that has not come.  Every step is then a step of `ToolCalls` or a stutter.
* **`StorageProofs`.**  `CrashesAreAtomic`: `DiskLog` implements `AtomicDisk`.
  The invariant: a block of the log is pinned until it is installed, a buffer
  that is not pinned is clean, the log on the disk holds what the buffers of its
  blocks held, and no block is in the log twice.  Then only the write of the
  header changes what a crash leaves, and it changes it to the current contents
  with nobody in an operation.  `LogTypes`, and `NobodyWaitsForNothing` from it.
  `OperationsFit`: the reservations are pairs of an operation and a number
  (`Unused`), log_write spends one unless the block is in the log already, and
  every block an operation wrote is there (`Logged`).
  `MappingsStaySound` (of `TidySpec`, whole mappings unmapped and the latest
  first; what else programs may do breaks it in the run `mmap`).  The inductive
  invariant `MmapInv` has a sequence of areas for each process: it is where the
  links lead (`Linking`), they share no area and together are the areas in use
  (`Lists`), and a free area has no link, which is what the first mmap of a
  process relies on (`FreeOK`).  A step changes one list, at its end or, in exit,
  at its head (`OneListChanges`).
* **`FileTreeProofs`.**  `InodesStaySound` and `InodeLocksStayOrdered`, for every
  number of processes (with one open file each), inodes and names, and for
  calls that mix at every step; `Allowed` (section 4) is in `TreeSpec` and so in
  the theorems.  Neither is inductive; `TreeInv` (theorem `TreeStands`) is.
  A reference count is a cardinality, of the slots that hold the inode, and a
  step of one process moves each count by what its own six slots gain or lose
  (`RefsStep`); link counts are three cardinalities of which a step changes one
  member each (`LinksStep`).  What makes the counts inductive: who frees an inode
  shares it with nobody but a create that ialloc gave the same number
  (`FreesAlone`, `FreshAlone`); a valid copy is what is on disk unless the inode
  is being freed (`CopiesAgree`), so an iput that sees no link is right; an inode
  without a link has a valid copy, so the last iput sees it (`OrphansKept`); and
  a directory a call stands in has a link still (`PlacesFit`), because whoever
  removes one is alone (`RemoverAlone`).  The lock order then rests on the tree:
  only unlink and create wait with a lock in their hands, the one of a
  directory, so in a circle everybody waits for a directory with a link.  That
  is not the new inode of a create, which has none yet; and unlink of a
  directory is alone, so it would wait for itself, but no directory is its own
  parent (`IsTree`).
* **`SchedulerProofs`.**  `OvertakingIsBounded`, `EachHasOnePlace`,
  `SchedulerTypes`.  What does not grow with an agent's turns is at most
  `ScoreHigh` and at least `ScoreLow`, so an agent more than `Lead` turns ahead of
  the vruntime of one that waits has the lower score.  The invariant
  (`ScanOK`, `PassedOK`) carries this through a scan that keeps the scores of
  processes it has passed while they change behind it: the best of a scan is
  locked and cannot change, and a process that became ready after the scan began
  does not count for it (`fresh`).  An agent that is run in the place of another
  is so no more than `Lead` turns ahead of it, and with agent_create it may go
  that way again from the start, which is what `PassedOK` counts; a slot nobody
  uses has no count (`Freed`).  `LocksAreOrdered`: every path through the
  kernel gives back what it takes and takes locks in one order (`Rank`: first
  tickslock, agent_runtime_lock and wait_lock, none of which is taken inside
  another; then the processes as they stand in `proc[]`; agent_global.lock last).
  `LocksInv` says that what is left of a path is such a path for the locks held
  now.  Of several CPUs that wait for each other, the one that waits for the
  highest lock would wait for one that wants a higher one.

Induction along links, sequences and numbers goes through the least
counterexample (`MinNat`, from the well-foundedness of `<`): the induction
theorems of the library take the formula as a parameter, which the provers
cannot supply.

Only model-checked: liveness under fairness, which is beyond the prover
(`ExitReclaimsWorkflow`, `WaitReturns`, `LeasesEnd`, `CallReturns`, `Concludes`,
`NoOrphans`).  Every invariant and every other action property of the passing
runs is a theorem.

## 6. Where the code and its documents disagree

Found and shown by a run:

* **A circular wait of spinlocks** (`locks_clock`).  `clockintr` holds
  `tickslock` while `wakeup` takes every `p->lock`; `agent_proc_wait`,
  `agent_send_message` and `agent_proc_heartbeat_set` take `tickslock`
  (`agent_now_safe`) under a `p->lock`, and `agent_workflow_begin_terminate_locked`
  takes it under `agent_global.lock`, which fork takes under a `p->lock`.  Two
  CPUs can stop for ever.  The same kernel without those nestings passes
  `sched_agents`.
* **A zombie on the wheel** (`wheel_exit`).  An exit during agent_tick leaves the
  slot on a list; its next user closes the list into a ring, on which agent_tick
  spins with `agent_global.lock` held.  The same walk loses heartbeats when an
  agent sets its heartbeat anew while it is detached ("set" in `Races`).
* **A mapping unmapped in parts** (`mmap`).  After the head of a mapping is
  unmapped `sys_munmap` lowers `v->start`, where it should raise it.  Unmapping
  the rest then takes the branch for the tail and leaves an area of length 0,
  "not used", in the list; the next mmap or fork takes it while it is there.
  `mmaptest` makes these two calls.

Seen while modelling; the models have the behaviour, no run of its own:

* The mailbox does not lose messages silently, says the documentation
  (`AgentOS 接口与运行说明.md` 245), but `agent_create` clears it, without
  `p->lock` (`agent.c` 615): what was sent between fork and agent_create is
  gone.  In CodeLab that may be an assignment, which the planner sends to a
  worker before it has heard of it (`planner_agent.c` 523-529), and the planner
  then waits for ever: `Boot` and `lost` have this, `Concludes` excepts it.
* A lease is to be refused when the version differs (the same document, 216);
  `lease_commit` ignores `expected_version` (`agent.c` 1011), and `base_version`
  is always 0.
* A cached query is to be invalid after a change (142), but a result is stamped
  with the version at the time of its store, not of its scan (`agent_fs.c` 491),
  and a query may scan an index that is being rebuilt.  `CacheIsTrue` says what
  is left of the promise.
* The region of the context is to be read-only for the program (130), and is
  mapped with PTE_W (`agent.c` 583).  Sequence numbers are to be monotonic (130),
  and a rollback hands them out again (`agent_context.c` 378).
* A dynamic request is to time out (204): `deadline` is stored and never read
  (`agent_tool.c` 876), so a service that does not answer holds its caller and
  its slot.
* A heartbeat set while the loop is DONE is stored but not linked
  (`agent_loop.c` 114), and the next agent_wait(1) sleeps for it, against the
  heartbeat that `proj61赛题说明.md` 257 has it woken by.
* A leader that calls `agent_create(WORKER)` is no leader any more (`agent.c`
  652), and its exit starts no cascade.
* When the memory for a record is missing the pending dependency stays
  (`agent_tool.c` 973) and goes into the next record, against the comment at 913.
* O_TRUNC, a first chunk of a write cut short (`file.c` 181, whose comment says
  that partial writes are reported) and a `patch_file` that fails after its
  truncation change a file and report nothing: `silent`.  So does link to a file
  that is open and was just unlinked: it has a name again, and its version is
  marked removed after that (`sysfile.c` 246).  A new file in the freed inode that
  an agent reads before that is, by the same mark, judged deleted while it lives.
* unlink gives the file a newer version and signals no watcher (`agent_fs.c`
  198-209, `sysfile.c` 245): who watches a file does not hear that it is gone.
  `WatcherHears` excepts this version and no other.
* `log.size` counts the header, so the last reservation end_op admits can make
  `log_write` panic (`log.c` 134, 220; `param.h` 10; `mkfs.c` 25): `Panic`.
* vruntime has no upper bound and grows until agent_create resets it
  (`agent_loop.c` 565): an agent that has run for long waits for newer ones as
  long as they have not caught up.  That is the bound of `BoundedOvertaking`
  between two calls of agent_create.
* Any agent may call agent_create again, and each call resets its vruntime,
  budget and boost (`agent.c` 619-630).  The bound so grows with each call, and
  an agent that makes it before each turn is run in the place of others for
  ever, against the fair scheduling of agent loops that `proj61赛题说明.md` 236
  asks for.  `restarts` counts these calls.
* The three ways to run CodeLab "should all end with PASS" (`README.md` 208).
  They do not if the notes of the workers fill the mailbox of a planner that is
  late, whose senders ignore the result, or if the file is fixed already: the
  patch agent exits and the planner waits for ever.  `rule_test_tool_agent`
  looks for the text `task_count--` among others, and the marker of the bug has
  it too.
* The write-back of a mapping ends at the first page the program never touched
  and loses the dirty pages behind it; unmapping a tail writes nothing back and
  frees no page; an area that was the head of a list keeps its old `next`, which
  `sys_mmap` does not clear for the first mapping; exec forgets the dirty pages
  (and, with the panic of `freewalk` commented out, leaks them) and keeps the
  areas.  `UnmapTail`, `Freed`, `MapFile` and `Exec` have this.
* create and link find a directory, unlock it and lock it again (`sysfile.c` 265,
  153): if it is removed in between, the new file has a link and no name, or is
  in a directory that is about to be freed; and `..` of a directory that is
  removed may lead to one that has been freed ("ilock: no type").  xv6 has both.
* `mkfs` does not count the `..` of the directories it makes (`mkfs.c` 263,
  against `dp->nlink++; // for ".."` in `sysfile.c` 298).  Removing a directory
  of the image takes one link too many from its parent.  `FileTree` starts from
  an image without subdirectories.

## 7. Not modelled

* Texts, paths as strings, formats, traces, metrics and payloads; SYSTEM
  messages, which nobody sends; `wakeup_tick`, `wait_generation` and other fields
  no decision reads.
* The dispatch of built-in tools by name, their schemas and the parsing of
  parameters: they keep no state.  The per-tool capability table is a lookup.
* Workflow metrics: counters under one lock, on which nothing depends.
* Blocks of files and the bitmap, contents of mapped pages, device files, pipes,
  console, drivers, page tables and traps: xv6 as it was.
* The system call bridge (`sysagent.c`), which copies arguments; the calls it
  makes are in the components.  Of copyouts, those are modelled whose failure
  changes what is left behind (a request taken by a service, a record pushed).
* Test and benchmark programs, host tools, and the image builder but for the
  root directory it makes.
* `baseline-xv6`, an unmodified kernel that shares no code at run time.
* Crashes below `FileTree`: `DiskLog` shows that each of its calls is on the disk
  whole or not at all; inodes that are open without a name then are lost there.
