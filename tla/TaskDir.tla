------------------------------- MODULE TaskDir -------------------------------
(***************************************************************************)
(* A group of threads as others see it, while threads start, do I/O and    *)
(* exit and their tids are taken by other processes:                       *)
(*   - the listing of /proc/<tgid>/task: proc_task_readdir finds its place *)
(*     again by the tid it could not return, if that thread is still       *)
(*     there, and by counting threads from the leader otherwise;           *)
(*   - proc_task_lookup of a tid in it;                                    *)
(*   - /proc/<tgid>/io: do_io_accounting sums over the threads alive and   *)
(*     over what those that are gone left in the signal_struct;            *)
(*   - poll on a pidfd of the group (pidfd_poll of kernel/fork.c).         *)
(* hidden_flag and cloak play no part in any of them.                      *)
(***************************************************************************)
EXTENDS Integers, Sequences, FiniteSets, SequencesExt

CONSTANTS
    Tid,         \* thread ids
    Leader,      \* that of the group's leader
    Views,       \* sets of tids and a view of them: list, lookup, io or poll
    MaxIo        \* bound: I/O done by the threads

ASSUME TidAssumption ==
    /\ Tid \subseteq Nat \ {0} /\ IsFiniteSet(Tid) /\ Leader \in Tid
    /\ Views \subseteq [view : {"list", "lookup", "io", "poll"}, tids : SUBSET Tid]

VARIABLES
    group,       \* the threads, from the leader on, as they are linked
    dead,        \* the leader has exited: it stays linked until it is reaped
    before,      \* tids of the group's threads that have exited
    other,       \* tids of threads of other processes
    pc,          \* idle, emit, next (in a call), end (a call returned nothing)
    task,        \* the thread the call has a reference to, 0 for none
    nr,          \* ctx->pos - 2
    version,     \* file->f_version
    listed,      \* the names returned since the directory was opened or rewound
    base,        \* history: threads that have been there since then
    lost,        \* history: one that was listed, or the reader's place, exited
    look,        \* a lookup: its step, its tid, and the thread found
    ioac,        \* I/O accounted to each thread
    gone,        \* signal->ioac: that of threads that are gone
    io,          \* a read of io: its step, its sum, threads to go, and history
    poll,        \* a poll: its step, and whether it was woken
    seen         \* the view of this behaviour and the tids in it, one of Views

threads == <<group, dead, before, other>>
reader == <<pc, task, nr, version, listed>>
listing == <<reader, base, lost>>
vars == <<threads, listing, look, ioac, gone, io, poll, seen>>

In(t) == t \in ToSet(group)

\* All I/O of the group so far.
Total == gone + MapThenSumSet(LAMBDA t : ioac[t], ToSet(group))

Index(t) == CHOOSE i \in DOMAIN group : group[i] = t

(***************************************************************************)
(* Threads.  They are linked and unlinked under siglock, which a read of   *)
(* io holds while it sums.                                                 *)
(***************************************************************************)
SigLocked == io.pc = "sum"

\* copy_process links a new thread at the end.
Spawn(t) ==
    /\ group # <<>> /\ ~(dead /\ Len(group) = 1) /\ ~SigLocked
    /\ ~In(t) /\ t \notin before \cup other
    /\ group' = Append(group, t)
    /\ UNCHANGED <<dead, before, other, listing, look, ioac, gone, io, poll>>

\* thread_group_exited: the leader has exited and no other thread is left.
thread_group_exited == group = <<>> \/ (dead /\ Len(group) = 1)

\* pollers on the queue of the pid; wake_up_all reaches those
OnlyAsleep(p) == p.pc = "asleep"
Queued(p) == p.pc \in {"queued", "tested", "asleep"}

\* do_notify_pidfd, when the group has just become an exited one
Notified(exited) ==
    IF exited /\ Queued(poll) THEN [poll EXCEPT !.woken = TRUE] ELSE poll

\* A thread is unlinked when it has exited; its I/O goes to the signal_struct.
Unlink(t) ==
    /\ group' = SelectSeq(group, LAMBDA u : u # t)
    /\ before' = before \cup {t}
    /\ base' = base \ {t}
    /\ lost' = (lost \/ t \in ToSet(listed) \cup {task, version})
    /\ gone' = gone + ioac[t]
    /\ UNCHANGED <<other, reader, look, ioac, io>>

Exit(t) ==
    /\ In(t) /\ t # Leader /\ ~SigLocked
    /\ Unlink(t)
    /\ poll' = Notified(dead /\ Len(group) = 2)
    /\ UNCHANGED dead

\* The leader exits, alone or not, and is unlinked as the last, by its parent.
ExitLeader ==
    /\ group # <<>> /\ ~dead
    /\ dead' = TRUE
    /\ poll' = Notified(Len(group) = 1)
    /\ UNCHANGED <<group, before, other, listing, look, ioac, gone, io>>

Reap ==
    /\ dead /\ Len(group) = 1 /\ ~SigLocked
    /\ Unlink(Leader)
    /\ UNCHANGED <<dead, poll>>

\* Another process gets a tid that is free.
Taken(t) ==
    /\ ~In(t) /\ t \notin other
    /\ other' = other \cup {t}
    /\ UNCHANGED <<group, dead, before, listing, look, ioac, gone, io, poll>>

\* A thread that runs does some I/O.
DoIo(t) ==
    /\ seen.view = "io" /\ In(t) /\ ~(t = Leader /\ dead)
    /\ Total < MaxIo
    /\ ioac' = [ioac EXCEPT ![t] = @ + 1]
    /\ UNCHANGED <<threads, listing, look, gone, io, poll>>

NoIo == [pc |-> "idle", acct |-> 0, rest |-> <<>>, low |-> 0]

(***************************************************************************)
(* proc_task_readdir                                                       *)
(***************************************************************************)
\* find_task_by_pid_ns(tid) and same_thread_group
SameGroup(t) == In(t)

\* first_tid
NthSkipped(n) == IF n + 1 >= Len(group) THEN 0 ELSE group[n + 2]
Nth(n) == IF n >= Len(group) THEN 0 ELSE group[n + 1]
first_tid(t, n) == IF t # 0 /\ n # 0 /\ SameGroup(t) THEN t ELSE Nth(n)

\* next_tid: a thread that has exited has no next.
next_tid(t) == IF In(t) /\ Index(t) < Len(group) THEN group[Index(t) + 1] ELSE 0

\* A call: the leader's inode is alive, and dots have been returned.
Getdents ==
    /\ seen.view = "list" /\ pc = "idle" /\ group # <<>>
    /\ base' = IF nr = 0 THEN ToSet(group) ELSE base
    /\ lost' = (nr # 0 /\ lost)
    /\ task' = first_tid(version, nr)
    /\ version' = 0
    /\ pc' = IF task' = 0 THEN "end" ELSE "emit"
    /\ UNCHANGED <<threads, nr, listed, look, ioac, gone, io, poll>>

\* task_pid_nr_ns, after the thread was found: one that has been unlinked since
\* has no number any more.
task_pid_nr_ns(t) == IF In(t) THEN t ELSE 0

\* proc_fill_cache returns the name, for which it needs no inode,
Emit ==
    /\ pc = "emit"
    /\ listed' = Append(listed, task_pid_nr_ns(task))
    /\ pc' = "next"
    /\ UNCHANGED <<threads, task, nr, version, base, lost, look, ioac, gone, io, poll>>

\* or finds the buffer full; the call ends and the tid is kept.
EmitFull ==
    /\ pc = "emit"
    /\ version' = task_pid_nr_ns(task)
    /\ task' = 0
    /\ pc' = "idle"
    /\ UNCHANGED <<threads, nr, listed, base, lost, look, ioac, gone, io, poll>>

Count(n) == n + 1

Advance ==
    /\ pc = "next"
    /\ task' = next_tid(task)
    /\ nr' = Count(nr)
    /\ pc' = IF task' = 0 THEN "idle" ELSE "emit"
    /\ UNCHANGED <<threads, version, listed, base, lost, look, ioac, gone, io, poll>>

\* lseek to the beginning, which clears f_version.
Rewind ==
    /\ pc \in {"idle", "end"} /\ nr # 0
    /\ pc' = "idle" /\ nr' = 0 /\ version' = 0 /\ listed' = <<>>
    /\ UNCHANGED <<threads, task, base, lost, look, ioac, gone, io, poll>>

(***************************************************************************)
(* proc_task_lookup                                                        *)
(***************************************************************************)
Pin(t) ==           \* find_task_by_pid_ns and get_task_struct
    /\ seen.view = "lookup" /\ look.pc = "idle" /\ group # <<>>
    /\ t \in seen.tids
    /\ look' = IF In(t) THEN [pc |-> "found", tid |-> t, ours |-> TRUE]
               ELSE IF t \in other THEN [pc |-> "found", tid |-> t, ours |-> FALSE]
               ELSE [pc |-> "none", tid |-> t, ours |-> FALSE]
    /\ UNCHANGED <<threads, listing, ioac, gone, io, poll>>

\* same_thread_group compares the signal_structs of two tasks, both pinned, so
\* it does not matter which of them have exited meanwhile; an inode is made of
\* a task that still has its pid only (proc_pid_make_inode).
SameAsLeader(l) == l.ours

Instantiate ==
    /\ look.pc = "found"
    /\ look' = [look EXCEPT !.pc =
                   IF SameAsLeader(look) /\ look.tid \notin before THEN "shown" ELSE "none"]
    /\ UNCHANGED <<threads, listing, ioac, gone, io, poll>>

LookAgain ==
    /\ look.pc \in {"shown", "none"}
    /\ look' = [pc |-> "idle", tid |-> 0, ours |-> FALSE]
    /\ UNCHANGED <<threads, listing, ioac, gone, io, poll>>

(***************************************************************************)
(* do_io_accounting for the whole group, read through the leader.          *)
(***************************************************************************)
IoStart ==          \* acct = task->ioac, before any lock
    /\ seen.view = "io" /\ io.pc = "idle" /\ group # <<>>
    /\ io' = [pc |-> "read", acct |-> ioac[Leader], rest |-> <<>>, low |-> Total]
    /\ UNCHANGED <<threads, listing, look, ioac, gone, poll>>

\* ptrace_may_access says no
IoRefused ==
    /\ io.pc = "read"
    /\ io' = [io EXCEPT !.pc = "refused"]
    /\ UNCHANGED <<threads, listing, look, ioac, gone, poll>>

\* lock_task_sighand fails for a leader that has been reaped: its own share is
\* shown, without that of the signal_struct
IoTooLate ==
    /\ io.pc = "read" /\ group = <<>>
    /\ io' = [io EXCEPT !.pc = "late"]
    /\ UNCHANGED <<threads, listing, look, ioac, gone, poll>>

\* while_each_thread goes over the others, not over the task itself
Everyone(g) == g
Others(g) == Tail(g)

IoLock ==
    /\ io.pc = "read" /\ group # <<>>
    /\ io' = [io EXCEPT !.pc = "sum", !.acct = @ + gone, !.rest = Others(group)]
    /\ UNCHANGED <<threads, listing, look, ioac, gone, poll>>

IoAdd ==
    /\ io.pc = "sum" /\ io.rest # <<>>
    /\ io' = [io EXCEPT !.acct = @ + ioac[Head(io.rest)], !.rest = Tail(@)]
    /\ UNCHANGED <<threads, listing, look, ioac, gone, poll>>

IoUnlock ==
    /\ io.pc = "sum" /\ io.rest = <<>>
    /\ io' = [io EXCEPT !.pc = "done"]
    /\ UNCHANGED <<threads, listing, look, ioac, gone, poll>>

IoAgain ==
    /\ io.pc \in {"done", "late", "refused"}
    /\ io' = NoIo
    /\ UNCHANGED <<threads, listing, look, ioac, gone, poll>>

(***************************************************************************)
(* pidfd_poll: get on the queue first, then test; the caller sleeps unless *)
(* it was woken in between, and tests again when it is woken.              *)
(***************************************************************************)
PollWait ==
    /\ seen.view = "poll" /\ poll.pc = "idle"
    /\ poll' = [poll EXCEPT !.pc = "queued"]
    /\ UNCHANGED <<threads, listing, look, ioac, gone, io>>

PollTest ==
    /\ poll.pc = "queued"
    /\ poll' = [pc |-> IF thread_group_exited THEN "ready" ELSE "tested", woken |-> poll.woken]
    /\ UNCHANGED <<threads, listing, look, ioac, gone, io>>

Sleep ==
    /\ poll.pc = "tested" /\ ~poll.woken
    /\ poll' = [poll EXCEPT !.pc = "asleep"]
    /\ UNCHANGED <<threads, listing, look, ioac, gone, io>>

PollAgain ==
    /\ poll.pc \in {"tested", "asleep"} /\ poll.woken
    /\ poll' = [pc |-> "queued", woken |-> FALSE]
    /\ UNCHANGED <<threads, listing, look, ioac, gone, io>>

Init ==
    /\ seen \in Views
    /\ group = <<Leader>> /\ dead = FALSE /\ before = {} /\ other = {}
    /\ pc = "idle" /\ task = 0 /\ nr = 0 /\ version = 0 /\ listed = <<>>
    /\ base = {} /\ lost = FALSE
    /\ look = [pc |-> "idle", tid |-> 0, ours |-> FALSE]
    /\ ioac = [t \in Tid |-> 0] /\ gone = 0 /\ io = NoIo
    /\ poll = [pc |-> "idle", woken |-> FALSE]

Listing == Getdents \/ Emit \/ EmitFull \/ Advance \/ Rewind
Lookup == (\E t \in Tid : Pin(t)) \/ Instantiate \/ LookAgain
ReadIo == IoStart \/ IoRefused \/ IoTooLate \/ IoLock \/ IoAdd \/ IoUnlock \/ IoAgain
Poll == PollWait \/ PollTest \/ Sleep \/ PollAgain

Next ==
    /\ UNCHANGED seen
    /\ \/ \E t \in seen.tids : Spawn(t) \/ Exit(t) \/ Taken(t) \/ DoIo(t)
       \/ ExitLeader \/ Reap
       \/ Listing \/ Lookup \/ ReadIo \/ Poll

Spec == Init /\ [][Next]_vars

\* The poller is scheduled; nothing is assumed of the threads.
FairSpec == Spec /\ WF_vars(Poll /\ UNCHANGED seen)

(***************************************************************************)
(* Properties.                                                             *)
(***************************************************************************)
\* Every variable has its type.
TypeOK ==
    /\ group \in Seq(Tid) /\ listed \in Seq(Tid \cup {0})
    /\ dead \in BOOLEAN /\ seen \in Views
    /\ before \subseteq Tid /\ other \subseteq Tid /\ base \subseteq Tid
    /\ pc \in {"idle", "emit", "next", "end"}
    /\ task \in Tid \cup {0} /\ version \in Tid \cup {0} /\ nr \in Nat
    /\ lost \in BOOLEAN
    /\ ioac \in [Tid -> 0 .. MaxIo] /\ gone \in 0 .. MaxIo
    /\ io.acct \in Nat /\ look.tid \in Tid \cup {0}
    /\ poll \in [pc : {"idle", "queued", "tested", "asleep", "ready"}, woken : BOOLEAN]

\* No tid is returned twice in one listing, whichever threads exit, and a
\* listing that has come to its end has every thread that was there from its
\* first call on, in however many calls, unless a thread it had returned, or
\* was about to, exited in between (proc_task_readdir, first_tid).  Only in that
\* case the name 0 is among those returned, once for each thread that was gone
\* when its number was asked for (task_pid_nr_ns).  A tid looked up is that of a
\* thread of the group, even if other processes take its tids
\* (proc_task_lookup).
ListingExact ==
    /\ TypeOK
    /\ look.pc = "shown" => look.tid \notin other \/ look.tid \in before
    /\ \A i, j \in DOMAIN listed : listed[i] = listed[j] /\ listed[i] # 0 => i = j
    /\ 0 \in ToSet(listed) => lost
    /\ pc = "end" /\ ~lost => base \subseteq ToSet(listed)

\* What io shows for a group lies between all the I/O its threads, those that
\* are gone included, had done when it was opened and all they have done when it
\* is read: none is left out or counted twice because it exits meanwhile, with
\* the leader's share read before the lock.  The one exception is a read that
\* meets the reaping of the leader, all other threads being gone: it shows no
\* more than the leader's own (do_io_accounting).
IoExact ==
    /\ io.pc = "done" => io.low <= io.acct /\ io.acct <= Total
    /\ io.pc = "late" => thread_group_exited /\ io.acct <= ioac[Leader]

\* A poll on a pidfd returns when the whole group has exited, and not before,
\* even if the last thread exits between its test and its sleep (pidfd_poll).
PidfdWakes ==
    /\ [](poll.pc = "ready" => thread_group_exited)
    /\ seen.view = "poll" /\ thread_group_exited ~> poll.pc = "ready"

=============================================================================
