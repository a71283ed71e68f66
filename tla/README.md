# OSEXP: a TLA+ model of the process-hiding kernel patch and of the shell seush

The repository holds two programs. `hide_processes_system_call/` is a patch of
Linux 5.13.10: two system calls that hide processes, two files under `/proc`, and
changes in procfs and `fork`. `shell/` is a shell, seush, with pipes, redirection,
parallel commands and batch files. A third experiment (OSEXP-3, a file system) is
present as a report only.

This directory models both programs, checks the models with TLC on small instances
and proves theorems about them with TLAPS for every value of their constants.

## 1. Inventory

### The kernel patch

| part | state | operations | modelled in |
|---|---|---|---|
| `hide(pid, on)` (`kernel/hide.c`) | `task->cloak` | permission, find, set, flush | `HideProc` |
| `hide_user_processes(uid, binname, recover)` | `cloak` of many tasks | walk the task list, match, set, flush; recover | `HideProc` |
| `/proc/hide` (`fs/proc/hide.c`) | `hidden_flag`, position of each open file | read, write | `HideFile`; the flag in `HideProc` |
| `/proc/hidden_process` | position of each open file | read: walk the task list, build a text, copy it | `HideProc` (the walk), `HideFile` (the text) |
| `/proc/<pid>` (`fs/proc/base.c`) | dentry cache, `pid->inodes`, `task->usage` | lookup, revalidate, readdir, fill cache, flush, evict | `HideProc` |
| `/proc/<pid>/mem`, `environ`, `auxv`, `cmdline`, `exe`, `map_files` | an mm or a file reference per open file or call | open, read, release, readlink, listing | `MmLife` |
| `/proc/<pid>/oom_adj`, `oom_score_adj` | `signal->oom_score_adj(_min)` | write, carried to all who share the mm | `OomAdj` |
| `/proc/<pid>/task` | `ctx->pos`, `f_version` | listing and lookup of threads | `TaskDir` |
| `/proc/<pid>/io` | `task->ioac`, `signal->ioac` | sum over the threads | `TaskDir` |
| `/proc/<pid>/stack`, `syscall`, `wchan` | a reference to a task and to its stack | `lock_trace`, trace, release | `StackCache` |
| `/proc/<pid>/cwd`, `root` | `task->fs` under `task_lock` | readlink | `Unshare` |
| process creation (`kernel/fork.c`) | task, counters, shared structures, vfork completion | `fork`, `vfork`, `clone`, `clone3`, `kernel_clone`, `copy_process`, `wait_for_vfork_done`, `mm_release` | `CopyProcess`, seen from outside in `HideProc` |
| kernel stacks (`kernel/fork.c`) | `cached_stacks` of each CPU, charged pages, `stack_refcount` | `alloc_thread_stack_node`, `memcg_charge_kernel_stack`, `put_task_stack`, `free_thread_stack`, `free_vm_stack_cache` | `StackCache`, which implements `StackPool` |
| unshare (`kernel/fork.c`) | `task->fs`, `task->files` and their counts | `ksys_unshare`, `unshare_fs`, `unshare_fd`, `unshare_files` | `Unshare` |
| pidfd (`kernel/fork.c`) | queue of pollers | `pidfd_poll` | `TaskDir` |
| memory descriptors (`kernel/fork.c`) | `mm_users`, `mm_count`, `exe_file`, mappings | `dup_mm`, `dup_mmap`, `copy_mm`, `mmput`, `mmdrop`, `mm_access`, `get_task_mm` | `MmLife`; `copy_oom_score_adj` in `OomAdj` |
| `sched.h`, `syscalls.h`, system call table | declarations | - | fields as variables |

How they interact: a hide call sets `cloak` and flushes the dentries of the pid. A
lookup or a listing tests `hidden_flag` and `cloak`, then makes inode and dentry; a
later lookup is answered by the dentry and `pid_revalidate` alone. Nothing but the
RCU rules and reference counts orders these steps: there is no lock between the
calls that hide and the paths that look. That is where the hard behaviour is:

* the test and the making of a dentry are separate steps (stale answers);
* `hidden_flag` and `cloak` are two plain loads;
* the walks of `hide_user_processes` and `/proc/hidden_process` hold neither a lock
  nor a reference, and the flush in the middle may sleep;
* an early exit was added between `get_task_struct` and `put_task_struct`;
* `copy_process` must clear the copied cloak before the child can be found, and on
  failure give back what it has taken, no more and no less;
* a vfork parent sleeps on a completion in its own stack frame that its child will
  write to;
* an mm is used by tasks, copied by forks that fail halfway, replaced by exec, and
  read by others who keep it without its memory;
* oom scores are copied to a child in one step of clone and compared in another;
* a listing of threads finds its place again by a tid that may be somebody else's;
* a CPU's cache of stacks is used without a lock by tasks that may change CPU between
  two slots; the last user of a stack, maybe a reader of `/proc`, releases it;
* `unshare` tests who shares before it copies, and swaps the copies in later;
* a read of the patch's files makes its text anew each time, and knows its end only by
  comparing a position, which others may share, with the length of that text.

What makes it correct: a hidden process is neither listed nor found; a visible one
is not lost from a listing; nobody uses freed memory; only root hides; a forked
child starts visible; a failed fork leaves no trace; vfork parents wake up; memory
of processes that are gone is given back; those who share an mm share a score; a stack
belongs to one task at a time and holds nobody else's data; a call of unshare that fails
changes nothing; whoever reads a file to its end gets its text once.

### The shell

| part | state | operations | modelled in |
|---|---|---|---|
| running a line (`run_command.c`) | descriptor table, `save_in`, `process[]`, children, pipes | `parse_command`, `handle_pipe`, `handle_redirection(_exec)`, `run_process(es)` | `Seush` |
| main loop (`loop.c`, `seush.c`) | `environment.paths`, `environment.cwd`, batch file position | `getNextLine`, `run_shell`: exit, help, path, cd, commands | `SeushLoop` |
| utilities and the splitting of a line | none | `clean`, `strtok`, the `sscanf` patterns; `to_absolute_path` (unused) | `SeushParse` |

The loop hands a line to `parse_command`, which splits it at `&`. A command with `|`
is run at once, stage by stage, the shell moving its own stdin from pipe to pipe; the
others are queued and started together at the end of the line. Hard behaviour: who
holds which end of a pipe, waiting for "any" child, descriptors running out, fork
failing halfway, and a batch file whose offset is shared with the children.

What makes it correct: every line ends, with stdin restored, no child left and every
unit of output delivered; the path list never holds a freed string in reach; the
directory in the prompt is the one the shell is in; batch lines run once, in order; a
line means what its words say, however it is spaced.

The places where each of these can go wrong are under `hazards` in PROJECT.json, with
the properties that would notice.

## 2. Modules

`X` is a component, `MCX` gives it small constants, `XProofs` its theorems.

**HideProc.** Tasks are named by pid (pids are given out cyclically: none is used
twice within a model's horizon) and go from free to new (copied), live (attached),
dead (released) and unref (grace period over). `nxt` is `tasks.next`; a released
task keeps it, as in the kernel. `usage` counts references. `dentry` and `sib` are
the dentry cache and `pid->inodes`. A caller is a thread of control in the kernel,
with a program counter; every load of shared state and every call that may sleep is
a step of its own (for example `LookupFind`, `LookupFlag`, `LookupCloak`,
`LookupMake`, `Splice` for `proc_pid_lookup`). What goes on besides is in `System`:
fork, thread creation, exec, reaping, RCU callbacks, memory pressure. The history
variables `base`, `also` and `lapsed` are written by `Observe` in every step and read
by properties only: `base[c]` is the set of pids of which the promise of c's call has
held since the call began, so "hidden throughout" can be said.
The kernel is taken to be built without preemption, so an RCU grace period cannot end
inside code that does not sleep. A walk whose task is freed under it
(`UseAfterFree`) goes on over old memory, ends, or oopses; a NULL `thread_pid` is an
oops. `CHECK_DEADLOCK` is off in these runs since a caller that oopses is gone. A
behaviour has one workload, chosen at the start: the processes there are, the calls
each caller makes, and what the system does besides. A step outside a workload is one
nobody takes in it; the proofs are for any set of workloads.

**HideFile.** The two files as programs meet them. Texts are sequences of digits and
signs, made and parsed by what `%d`, `%ld` and `kstrtoint` do. `read` takes the lock of
the position (external, as two programs may share an open file), the handler copies its
text and moves the position by what arrived, and a reader goes on until it is told 0.
The list is built one process a step, so that hide calls come in between; a list that
does not fit its buffer ends the behaviour (`smashed`), as nothing can be said of the
kernel then. A write is parsed together with any of the `Garbage` the stack may hold
behind it. `CHECK_DEADLOCK` is off, since readers and writers end.

**CopyProcess.** Callers are threads of one process inside fork, vfork, clone or
clone3. A call is a record of its flags and of what else its argument checks look at;
`CallOK` puts the checks of the four system calls and of `kernel_clone` together, and
those of `copy_process` follow. The acquisitions of `copy_process` are the rungs of
`Ladder`; `Climb` takes one, `ClimbFails` sends the caller down through `Unwind`, one
`bad_fork_*` label a step. A resource is shared (counted in `cnt`) or the child's own
(`own`). Between the steps other callers run, which is what the checks of
`RLIMIT_NPROC` and `max_threads` have to live with. `kid`, `usage`, `vfork_done` and
`completed` are the child and the completion of a vfork; a child completes it in
`exec_mm_release` or `exit_mm_release`, whichever comes first. Exit and release of a
child are external (kernel/exit.c), modelled from what they give back and from
`mm_release` in fork.c.

**StackPool** and **StackCache.** `StackPool` says what users of kernel stacks rely on:
`Give` a blank, unused stack to a task that has none, `Write`, `Join` a stack somebody
uses, `Leave`, the last one taking it from its task. `StackCache` is the code: a task in
the making goes through the slots of the CPU it is on, each an atomic exchange, takes
and clears a cached stack or gets one from vmalloc, charges its pages one at a time,
duplicates its parent's task_struct, and may fail at each; `put_task_stack` by the last
user, a task, a failing fork or a reader, uncharges the pages and puts the stack into a
free slot or unmaps it. A reader of stack (or syscall) holds `exec_update_lock` from its
check to its end, one of wchan does not. CPUs go offline, their slots are freed by
another CPU, and come back. `Pool` maps it to `StackPool`: a stack is used by its task,
by those who walk it and by who releases it until it is in a slot or unmapped.

**Unshare.** Tasks share fs_structs and files_structs (`users` and `count`, 0 for
free). `Begin` adds what the flags imply and checks them, `unshare_fs` and `unshare_fd`
make copies if the counts, read without a lock, say shared, `Namespaces` stands for the
namespaces and credentials, `Switch` swaps under `task_lock`, and `PutFd`, `FreeNewFs`
are the labels at the end, which a success runs through as well. `unshare_files` is the
call of execve. What new namespaces do to the mounts of an fs_struct is left out. A
reader of cwd or root looks at `task->fs` under `task_lock`; of a zombie, which has
none, it takes and drops the lock and returns -ENOENT, which changes nothing and is no
step here.

**MmLife.** Tasks share, copy, replace and leave mms; `users` and `count` are
`mm_users` and `mm_count`, `stage` says how far `__mmput` is. `dup_mmap` copies one
mapping a step, under the write lock, and may fail at each. A reader opens mem,
environ or auxv (`access_get`, `access_check`, `open_grab`, `open_put`: the mm is kept
in `mm_count` only), reads from it (`mem_rw` takes `mm_users` again if there is one
left), and reads cmdline, exe and map_files. exec, exit and the out-of-memory killer
are external. A behaviour has one mix of activities, chosen at the start, so that TLC
need not explore all activities together.

**OomAdj.** Processes are cloned in the steps of `copy_process` that matter here
(scores copied, attached, scores compared under the mutex), call exec and exit. A
writer takes `oom_adj_mutex`, sets the value of its target and walks all processes.
`mm_count` is the reference count of each mm, one for all its users together and one
for each `mmgrab`, and `pin` the writer's local pointer: an mm whose count is 0 may be
allocated again, whoever still points to it, and `reused` records that this happened.
The history variable `plain` has the writers whose target was an ordinary process (not
init, not a child of vfork, not cloned by one of these with their mm) when it was found.
The scales of the two files are arithmetic, with division towards zero as in C.

**TaskDir.** A group of threads and one of four views of it, chosen at the start: a
listing of `/proc/<tgid>/task` in any number of calls, lookups in it, reads of
`/proc/<tgid>/io`, and poll on a pidfd. Threads start at the end of the list, do I/O,
exit and leave their I/O to the signal_struct; the leader, once it has exited, stays in
the list until it is the last and reaped; tids may be taken by other processes. A thread
is found in one step and named in the next, and has the number 0 if it was released
between them; a read of io that finds the process reaped ends in its own place (`late`).
The queue of the poller, its sleep and the wake-up are external.

**Seush.** `fds` is the shell's descriptor table; `pipe`, `dup`, `open` take the
lowest free descriptor or fail. A child has an input, an output and the set of pipe
ends it inherited. Data is counted in units. The programs are external: they write
some units of their own and copy what they read. `sane` records that nothing has
failed and no bare `|` was entered so far; the properties that need it say so.

**SeushLoop.** `paths` is the array with slots unset, dir, end or freed; `env_cwd` is
the string cd was given, or `Cut` if it is too long for the array (`TooLong`), and `cwd`
where the process is; where a cut name leads is not known. Batch files are read through
a buffer of `BufLines` lines, above an offset shared with children; a child that
cannot be redirected or executed calls `exit`, and the C library moves that offset back (external, and
confirmed with the shell's own binary). A failing fork in `run_processes` ends the
shell. A line is a text, a sequence of words,
blanks and signs, and `Meaning` says what the shell takes it for.

**SeushParse.** Operators only. `clean` moves a line over itself with the index
arithmetic of the code, one `CleanStep` a character; `Tokens` is strtok and `sscanf` the
patterns of `handle_redirection` (both external), `parse_command` splits at `&`,
`handle_pipe` at `|`, one `PipeStep` a call of the recursion, and `Meaning` adds the recognition of built-in commands. What the code leaves undefined (an
uninitialized command, an overrun of `argv`, `single_commands` or `environment.paths`) is a meaning of its own, and ends a behaviour
of `SeushLoop`. `Intended` is the reference: the meaning of a line by its words, blanks
only separating them. `Plain` says of which lines the two must agree. The lengths of
words are left out, and with them the arrays of characters in `handle_redirection`.

## 3. What is checked

Passing runs:

| run | what it shows | bounds |
|---|---|---|
| hide_proc | `CacheClosed`, `NoPrematureFree`, `ReaddirHonoursHide`, `ReaddirComplete`, `WalksExact`, `ForkVisible` | 2 callers, 3 pids, 6 workloads: lookups or listings against hide and flag writes; hiding by uid and name against recover, with forks or with exec; a listing by a caller whom hidepid keeps from a process; callers who are not root |
| hide_file | `DeliveredOnce`, `WriteExact` | 4 readers, two over each open file, 2 writers, 9 texts, any of 5 values in up to 2 bytes of the stack, 1 fault, 4 calls of hide, in 3 groups that act together; sizes of buffers and range of int scaled down |
| clone | `NoTrace`, `LimitsBounded`, `FlagsHonoured`, `VforkFrameAlive`; live: `VforkReturns` | 2 callers, 4 calls that make a child and 8 that are refused; limits the second child meets |
| stacks | `ChargesExact`, `TraceHonoured`, and the refinement `StacksAreExclusive` | 3 tasks, 3 areas of 2 pages, 2 CPUs of 2 slots, 1 reader; tasks, areas and CPUs are interchangeable |
| unshare | `CountsExact`, `LinkReadsLive`, `UnshareKeepsPromise` | 3 tasks and 1 reader for directories, 3 tasks for descriptors and exec, 2 tasks for combinations of flags |
| mm_life | `MmCounted`, `MmSafe`, `AccessHonoured`, `MappingsStable`; live: `MemoryReturned` | 3 tasks, 3 mms, 2 files, 2 mappings of which one is not copied, 1 reader, 6 mixes |
| oom | `ScoresAgree`, `PinnedMm`, `FloorHolds`, `LegacyScale` | 3 processes, one of them init, 2 mms with their counts, a capable writer and another; 3 scores and 1 legacy value (the scales are checked over all values) |
| task_dir | `ListingExact`, `IoExact`; live: `PidfdWakes` | 5 tids for a listing, 4 for the other views, 3 units of I/O |
| seush | `StdinRestored`, `ChildrenInOrder`, `PipelineDelivers`; live: `LineEnds` | 6 lines, any number of them, 20 descriptors, 8 pipes, 2 failing forks |
| loop | `PathsWellFormed`, `CwdAgrees`, `BatchOnce`, `LineUnderstood`; live: `BatchEnds` | a user who types a few lines; batch files of up to 4 lines with at most one that cannot be redirected or executed; every text of up to 5 characters as a batch of one line; 5 directories, one of them locked, one with a name that is too long; 3 arguments or parallel commands are too many |

The type invariant of a module is part of its first invariant, or proved (`HideProc`,
`Seush`). Every property has a mutant
in PROJECT.json, a plausible mistake in the code that makes the run fail.

Why the bounds are enough: the hazards of the patch are races between one caller that
looks and one that hides, about one task; a second task is there to be forked, reaped
or skipped, a third pid to have a neighbour in the list. In `clone` two callers suffice
to pass a limit late; the limits are the smallest at which a child is refused. In
`mm_life` the counts go from one user to two and back to none, by every way of leaving,
with a reader at every place; a second reader would only add to counts of which the
first is already one too many for a mistake to hide. In `oom` two ordinary processes
share an mm, or one is the other's child of vfork. In `task_dir` five threads leave
room for exits before, at and after the reader's place. In `stacks` three stacks fill
both slots of a CPU and one more, so that a stack meets a full cache, and a CPU dies
with stacks in its slots while its neighbour takes them over. In `unshare` an fs_struct
has one, two or three users when it is tested, and others when it is left. In
`hide_file` a list is empty, short, or too long for its buffer, and grows or shrinks
during a read. In `loop` five characters hold a command with two signs, or every
spacing of a shorter one. In `seush` descriptors leak with every command, so a table of
20 is exhausted within a few lines and the failing calls are all reached. `MaxUsage`,
`MaxChild`, `MaxFails`, `MaxLines` and `MaxPathNum` cap what would be unbounded.

Runs that end in a counterexample, each a disagreement between the code and what the
repository says of it (`findings` in PROJECT.json has the quotations):

* hide_flag_cycle: a process that was looked up while `/proc/hide` held 0 is still
  found when it holds 1 again, since its dentry survives.
* hide_ref_leak: looking up a hidden process leaks a reference to its task_struct.

Deviations the models show, for which no run is kept:

* a stage of a pipeline that writes more than a pipe holds is waited for before its
  reader is started, for ever (`LineEnds` is for stages that write less);
* in `command < in > out` with blanks around the signs, the form OSEXP-2.md shows, the
  first name keeps the blank behind it and the shell opens "in "; a tab between
  arguments ends them; a line that begins with `<` or `>` runs an uninitialized command;
  100 arguments overrun `argv`, and 100 commands between `&` `single_commands`, which
  needs one of its slots for the NULL (`Plain`, and "undefined" in `Meaning`; `process[]`
  has room for all the commands that fit there);
* reads of the two files ignore `count` and write their whole text into the caller's
  buffer; a partial fault is not reported; more than some 124 hidden processes overrun
  `kbuf`;
* a number written to `/proc/hide` without a newline may be extended by digits on the
  stack, and a text longer than 16 characters is taken for several numbers (`WriteExact`
  is for texts that end in a newline and fit);
* a lookup past its check when the hide call flushes leaves a dentry behind
  (`lapsed` in `CacheClosed`);
* `hide(pid, 2)` stores 2, which no test takes for hidden;
* names of 16 characters or more match nothing (`CommMatches`);
* `ls | |` leaves the shell reading from a pipe, and every command leaves descriptors
  open, until the last stage of a pipeline finds none for its files and does not run
  (all of these are why properties of Seush mention `sane`);
* after `cd ..` every command moves the shell up again (`CwdAgrees` is for absolute
  directories);
* `environment.cwd` has 100 characters: `cd` copies a longer name without a terminator
  and moves the process to the whole of it, so that the prompt shows, and the next
  command's chdir is given, something else; and `getcwd`, told that there are 300, writes
  past the array when the shell is started in such a directory (`CwdAgrees` and
  `CwdStaysInStep` are for names that fit);
* a command that cannot be redirected or executed makes batch lines run again, and two
  of them make it go on for ever (`BatchOnce` is for lines that can all be run,
  `BatchEnds` for batches with one such command); a failing fork ends the shell in the
  middle of a batch;
* a write to a process whose floor is not that of its mm (one still being cloned, or
  cloned with CLONE_VM by a child of vfork) is checked against its own floor and carried
  to all who share the mm, past theirs (`FloorHolds` is about the process that is named,
  and about the others when the named one was ordinary as it was found);
* map_files asks for permission before it takes the mm, an exec may come between
  (`maps_may`, `maps_get`; `AccessHonoured` is about mem, environ and auxv);
* a listing of threads may miss one if a thread it has returned exits (`lost` in
  `ListingExact`; the comments in base.c say as much);
* a thread released after a listing of threads has found it, and before it has asked for
  its number (base.c:3812), is listed under the name 0, and a second one again
  (`ListingExact` promises "none twice" of the other names);
* a read of `/proc/<pid>/io` that meets the reaping of the process finds no
  `sighand_struct` (base.c:2957), and shows the leader's I/O without that of the threads
  that went before it (the second half of `IoExact`).

### Fairness

`Seush!FairSpec`: weak fairness of "the shell or a child takes a step". The machine
does not stand still while some process can run; nothing is assumed of the user or of
any one process. `SeushLoop!FairSpec`: the shell, a sequential program, goes on when
it can. `CopyProcess!FairSpec`: each caller goes on when it can, as the scheduler
guarantees; nobody has to call clone, exit, exec or be killed. `MmLife!FairSpec`: a
teardown that has begun and a reader's system call that is under way go on; no task
need exec, exit or finish a fork, and no reader need close its file.
`TaskDir!FairSpec`: the poller goes on when it can; no thread need exit. The other modules
have no liveness property and no fairness.

## 4. What is proved

The proofs hold for any constants that satisfy the named assumptions.

* `HideProcProofs`, from `PidAssumption`, `CallerAssumption`, `ValueAssumption`:
  `TypeCorrect`, `ForkedIsVisible`, `HiddenLeavesCache`, `ListingHonoursHide`,
  `ListingComplete`, `ReferencesHold`, and, for names that comm can hold (`ShortNames`;
  with longer ones it is false, see the deviations in section 3), `WalksMissNobody`. The inductive invariants: types with `CtlInv`
  (which call a program counter belongs to, and that it points to a task); `BornInv` (a
  task that is new has cloak 0); `CacheInv` (a process past the check, or cached, that
  is hidden is lapsed or about to be flushed, and one that is cached is on
  `pid->inodes` or lapsed); `ReaddirInv` (every pid below the position is shown or out
  of `also`, and what is about to be shown is out of `base`). `CacheClosed` is not
  inductive: it says nothing of the lookups that are past their check, which is what
  `CacheInv` adds. For the walks `ListInv` says that the links make one list of the
  leaders (`Chain`: one first, one last, no two links to the same task) and that a task
  not yet attached has no link; `WalkInv` says that whoever a walk's promise is for has
  been dealt with or lies onward of the task it stands on. "Onward" is membership in
  every set that is closed under the links, so that following a link, appending a task
  (`ChainAppend`) and taking one out (`ChainRemove`) need no induction over the list, and
  it holds from a released task too, whose own link stays.
* `SeushProofs`, from `SeushAssumption`: `SeushTypes`, `ChildrenStayInOrder` (from
  `NoOrphans` and `StagesAreSerial`), `StdinComesBack`, `EverythingArrives`. `SerialInv`
  says which children may exist at which program counter, so that the zombie a
  `waitpid(-1)` finds is the expected one; `StdinInv` says what `save_in` holds while a
  pipeline runs. `DeliverInv` is a conservation law: what the commands looked at so far
  ought to show is what the terminal has (`tty`), what the queued commands still owe
  (`Owed`) and, while a pipeline runs, what its child has yet to pass on (`Pending`) and
  the pipe behind stdin holds. It needs the wiring too: stdout is the terminal, a stage
  reads a pipe other than the one it writes to, the shell holds the read end of that one,
  and no queued command has a pipe. `Passed` and `Total` are recursive functions; that
  they exist and obey their equations is proved by a least counterexample (`NatSet`,
  `RunExists`, `RunUnique`). The attempt showed that `sane` had to count a last stage
  whose files find no descriptor; `ls | wc < f` is in the run for that.
* `SeushLoopProofs`, from `LoopAssumption`: `PathsStayWellFormed`, `CwdStaysInStep`, with
  `LoopInv` (whatever names are too long; while all names fitted, `environment.cwd` is an
  absolute name, not a cut one, and chdir of it stays: `ReachedSame`), and `BatchRunsOnce`. `BatchInv` says what the stdio buffer holds: numbers of
  lines of the file, and while no child has failed exactly those after the last line run,
  up to the offset (`InStep`); a failing child moves the offset, but not before the start,
  and after a failing fork nothing is claimed.
* `StackCacheProofs`, from the assumptions of `StackCache`: `ChargesStayExact`,
  `TracesStayHonoured`, the refinement `StacksStayExclusive`, and with it
  `StacksStayIsolated`, the isolation of the pool, proved for the cache. `StackInv` says where
  each stack is: free, in one slot, with one task, or on its way between two of them at a
  named program counter, never in two places; what is charged for it there; that
  `stack_refcount` is the task and the readers past `TryGet`; and that a stack given out
  is blank. `ChargesExact` speaks of pages and leaves open who has the stack, which is
  what the steps need to know. Under the mapping a step is `Give`, `Write`, `Join`,
  `Leave` or a stutter; the stutters are the walk through the slots, the charging and the
  CPUs that go and come.
* `UnshareProofs`, from the assumptions of `Unshare`: `CountsStayExact`, `LinksReadLive`,
  `UnshareStaysTrue`. `UnshareInv` adds to the counts what a call knows at each of its
  places: which copies it holds, that nobody else can reach them, that what it is to free
  has no user left, and that a task found alone stays so until the swap, since only a
  sharer can add a user.
* `OomAdjProofs`, from the assumptions of `OomAdj`: `ScoresStayEqual`, `MmStaysPinned`,
  `ScalesAgree`, and the action property `FloorsStay`. `OomInv` says what holds while the
  mutex is taken: of the processes with the writer's mm those already visited have the
  new value and the others still agree with each other, `MMF_MULTIPROCESS` is set on an
  mm that two ordinary processes share, and a writer's value is not below the floors it
  will meet. `MmCountOk` counts: `mm_count` is 1 for an mm with users, and 1 more while
  the writer at work points to it; clone, exec, exit, `mmgrab` and `mmdrop` each move one of
  these, so the count is 0, and the mm free to be allocated, only when nobody uses it or
  goes by it (`PinnedMm`). The attempt to prove `FloorHolds` as it first stood failed for a good reason:
  it asked whether the named process is ordinary at each step of the walk, and with a
  third process that one may exec during the walk and so become ordinary, which the
  bounds of the run had left out. The property now asks when the process is found
  (`plain`).
* `CopyProcessProofs`, from `CloneAssumption`: `ForksLeaveNoTrace`, `LimitsStayBounded`,
  `FlagsStayHonoured`, `VforkFramesLive`. `CloneInv` reads off from the place of a caller
  and its rung exactly what its child owns (`Owns`), shares (`Refs`) and is counted in
  (`Born`, `Charged`), so that every counter is a cardinality; `LimitsOk` counts the
  callers that are past a check as if their children were there, which is what makes the
  bound inductive. `StepOf` reduces a step to the part of the caller that takes it.
* `MmLifeProofs`, from `MmAssumption`: `CountsExact`, `NoUseAfterFree`, `SecretsKept`, the
  action property `MappingsLocked`, and `MmInductive` under them. `MmCounted` alone is not
  inductive. `MmInv` adds how far an mm is torn down at each stage (`MmOk`: `mm_users` is
  0 from the moment `__mmput` begins, its mappings go before its file, and `mm_count` is 0
  only when it is freed); what the place of a task or a reader tells of its pointers; that
  the mm in the making in `dup_mm` or `execve` is nobody else's (`Alone`) and the child is
  the forking task's own (`KidOk`); that an mm which exec has put in place and not filled
  has one user (`SwapOk`); and that a task's credentials cover the program it runs except
  inside exec, where `exec_update_lock` keeps readers out (`SecretOk`, `ReaderOk`). Each
  count is a sum of cardinalities of sets of pointers (`UsersExact`, `CountExact`,
  `FilesExact`), and the counting lemmas move one pointer at a time. `MmSafe` follows since
  a pointer makes the count positive; `MappingsStable` from the guards of the writers of
  `mmap_lock`, since what is held is live and what is new is nobody else's.

Each inductive invariant was an invariant of TLC's run on the same instance before it was
proved. The theorems are of `Spec`, the runs with liveness of `FairSpec`, which implies it.

Only model-checked: everything live (fairness and ENABLED are out of the prover's
reach), and `TaskDir` and `HideFile` (see the plan). What `clean` and the patterns compute
is checked over bounded texts: an induction over a text is out of the prover's reach.

## 5. Not modelled

* In `base.c`: the files that format or set one value under a lock (limits, sched, comm,
  attr, loginuid, timers, timerslack_ns, id maps), the fixed tables of a directory's
  entries and their attributes, and the text of everything; in `TaskDir` an exec by a
  thread that is not the leader.
* In `fork.c`: initialisation, `set_tid_address`, the threads-max sysctl,
  `pidfd_release` and `pidfd_show_fdinfo`, and the variants of stack allocation without
  `CONFIG_VMAP_STACK`: other builds of the same functions.
* In the two files of the patch: their registration.
* In the shell: the text of the prompt, and `to_absolute_path`, which nobody calls.
* Declarations, build files, and OSEXP-3, whose code is not in the tree.

## 6. Plan

1. `ListingExact` and `IoExact` of TaskDir, `DeliveredOnce` and `WriteExact` of HideFile.
2. An atomic fork as abstract specification, and `CopyProcess` shown to implement it.
