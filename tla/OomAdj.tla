------------------------------- MODULE OomAdj -------------------------------
(***************************************************************************)
(* /proc/<pid>/oom_score_adj and oom_adj: processes that share an mm are   *)
(* killed together when memory runs out, so a write to one of them is      *)
(* carried to the others, while processes are cloned, call exec and exit.  *)
(* A child of vfork has a value of its own until it calls exec.            *)
(***************************************************************************)
EXTENDS Integers, FiniteSets

CONSTANTS
    Proc,        \* slots for processes
    Boot,        \* those that run at the beginning, each with an mm of its own
    GlobalInit,  \* kernel threads and the init process, which are not touched
    Mm,          \* slots for mm_structs
    Writer,      \* processes that write the files
    Target,      \* processes they write to
    Capable,     \* those with CAP_SYS_RESOURCE
    Score,       \* values written to oom_score_adj
    Legacy,      \* values written to oom_adj
    None

OOM_DISABLE == -17
OOM_ADJUST_MIN == -16
OOM_ADJUST_MAX == 15
OOM_SCORE_ADJ_MIN == -1000
OOM_SCORE_ADJ_MAX == 1000

ASSUME OomAssumption ==
    /\ IsFiniteSet(Proc) /\ IsFiniteSet(Mm) /\ IsFiniteSet(Writer)
    /\ Boot \subseteq Proc /\ GlobalInit \subseteq Boot /\ Target \subseteq Proc
    /\ Capable \subseteq Writer
    /\ Cardinality(Boot) <= Cardinality(Mm)
    /\ Score \subseteq Int /\ Legacy \subseteq Int
    /\ None \notin Proc \cup Mm \cup Writer

VARIABLES
    life,        \* none, signal (copy_signal done), attached, live, dead
    mm,          \* task->mm
    vfork,       \* vfork_done is set
    kid,         \* the child a process is making, or waits for after vfork
    how,         \* the kind of clone that is making a child: vm, vfork, copy
    adj,         \* signal->oom_score_adj
    adj_min,     \* signal->oom_score_adj_min
    multi,       \* MMF_MULTIPROCESS of an mm
    mm_count,    \* its reference count: one for all its users, one for each mmgrab
    reused,      \* history: writers whose mm was taken for other processes
    own,         \* history: in its mm neither by vfork nor together with init
    wpc,         \* where a writer is
    task,        \* the process it writes to
    val,         \* the value
    legacy,      \* through oom_adj
    pin,         \* its local mm, whose other users it goes to
    done,        \* processes it has been to
    plain        \* history: writers that found an ordinary process to write to
procs == <<life, mm, vfork, kid, how, multi, reused, own>>
scores == <<adj, adj_min>>
writers == <<wpc, task, val, legacy, pin, done, plain>>
vars == <<procs, mm_count, scores, writers>>

WPC == {"idle", "find", "set", "walk"}

(***************************************************************************)
(* The scale of oom_adj: C's division rounds towards zero.                 *)
(***************************************************************************)
Quot(a, b) == IF a >= 0 THEN a \div b ELSE -((-a) \div b)

\* oom_adj_write
ScaleAll(x) == Quot(x * OOM_SCORE_ADJ_MAX, -OOM_DISABLE)
Scale(x) == IF x = OOM_ADJUST_MAX THEN OOM_SCORE_ADJ_MAX
            ELSE Quot(x * OOM_SCORE_ADJ_MAX, -OOM_DISABLE)

LegacyRange == (OOM_ADJUST_MIN .. OOM_ADJUST_MAX) \cup {OOM_DISABLE}
ScoreRange == OOM_SCORE_ADJ_MIN .. OOM_SCORE_ADJ_MAX

\* oom_adj_read
Unscale(s) == LET x == IF s = OOM_SCORE_ADJ_MAX THEN OOM_ADJUST_MAX
                       ELSE Quot(s * (-OOM_DISABLE), OOM_SCORE_ADJ_MAX)
              IN  IF x > OOM_ADJUST_MAX THEN OOM_ADJUST_MAX ELSE x

(***************************************************************************)
(* Processes.                                                              *)
(***************************************************************************)
Listed(p) == life[p] \in {"attached", "live", "dead"}

\* Processes a write is carried to.
Ordinary(p) == life[p] = "live" /\ own[p]

\* An mm_struct without references is free to be allocated.
Unused(m) == mm_count[m] = 0
NewMm == CHOOSE m \in Mm : Unused(m)
NewProc == CHOOSE c \in Proc : life[c] = "none"
Ready(p) == life[p] = "live" /\ kid[p] = None

\* oom_adj_mutex is held by a writer at work.
MutexFree == \A w \in Writer : wpc[w] = "idle"

\* The parent of p no longer waits for it.
Woken(p) == [q \in Proc |-> IF kid[q] = p THEN None ELSE kid[q]]

\* References to an mm_struct, if there is one.
NoGrab(m) == mm_count
mmgrab(m) == IF m = None THEN mm_count ELSE [mm_count EXCEPT ![m] = @ + 1]
mmdrop(m) == IF m = None THEN mm_count ELSE [mm_count EXCEPT ![m] = @ - 1]

\* p leaves its mm; the last user drops the reference of them all.
mmput(p) == IF \E q \in Proc \ {p} : mm[q] = mm[p] THEN mm_count ELSE mmdrop(mm[p])

TakeNewMm ==
    /\ multi' = [multi EXCEPT ![NewMm] = FALSE]
    /\ reused' = reused \cup {w \in Writer : pin[w] = NewMm}

\* clone, up to copy_signal and copy_mm.
clone(p, k) ==
    /\ Ready(p) /\ \E c \in Proc : life[c] = "none"
    /\ life' = [life EXCEPT ![NewProc] = "signal"]
    /\ kid' = [kid EXCEPT ![p] = NewProc]
    /\ how' = [how EXCEPT ![NewProc] = k]
    /\ adj' = [adj EXCEPT ![NewProc] = adj[p]]
    /\ adj_min' = [adj_min EXCEPT ![NewProc] = adj_min[p]]
    /\ own' = [own EXCEPT ![NewProc] = k = "copy" \/ (k = "vm" /\ own[p])]
    /\ IF k = "copy"
       THEN /\ \E m \in Mm : Unused(m)
            /\ mm' = [mm EXCEPT ![NewProc] = NewMm]
            /\ TakeNewMm
            /\ mm_count' = [mm_count EXCEPT ![NewMm] = 1]
       ELSE /\ mm' = [mm EXCEPT ![NewProc] = mm[p]]
            /\ UNCHANGED <<reused, multi, mm_count>>
    /\ UNCHANGED <<vfork, writers>>

\* The child is put on the lists; a parent in vfork waits for it.
attach(p) ==
    /\ kid[p] # None /\ life[kid[p]] = "signal"
    /\ LET c == kid[p]
       IN  /\ life' = [life EXCEPT ![c] = IF how[c] = "vm" THEN "attached" ELSE "live"]
           /\ vfork' = [vfork EXCEPT ![c] = how[c] = "vfork"]
           /\ kid' = [kid EXCEPT ![p] = IF how[c] = "copy" THEN None ELSE c]
           /\ how' = [how EXCEPT ![c] = "copy"]
    /\ UNCHANGED <<mm, multi, mm_count, reused, own, scores, writers>>

\* The last step of copy_process for CLONE_VM without CLONE_VFORK.
KeepScores(p) == UNCHANGED scores
CopyScores(p) == /\ adj' = [adj EXCEPT ![kid[p]] = adj[p]]
                 /\ adj_min' = [adj_min EXCEPT ![kid[p]] = adj_min[p]]

copy_oom_score_adj(p) ==
    /\ kid[p] # None /\ life[kid[p]] = "attached" /\ MutexFree
    /\ multi' = [multi EXCEPT ![mm[kid[p]]] = TRUE]
    /\ CopyScores(p)
    /\ life' = [life EXCEPT ![kid[p]] = "live"]
    /\ kid' = [kid EXCEPT ![p] = None]
    /\ UNCHANGED <<mm, vfork, how, mm_count, reused, own, writers>>

\* exec: a new mm, which does not inherit MMF_MULTIPROCESS; mm_release wakes
\* a parent in vfork.
exec(p) ==
    /\ Ready(p) /\ \E m \in Mm : Unused(m)
    /\ mm' = [mm EXCEPT ![p] = NewMm]
    /\ TakeNewMm
    /\ mm_count' = [mmput(p) EXCEPT ![NewMm] = 1]
    /\ vfork' = [vfork EXCEPT ![p] = FALSE]
    /\ own' = [own EXCEPT ![p] = p \notin GlobalInit]
    /\ kid' = Woken(p)
    /\ UNCHANGED <<life, how, scores, writers>>

\* init never exits.
exit(p) ==
    /\ Ready(p) /\ p \notin GlobalInit
    /\ life' = [life EXCEPT ![p] = "dead"]
    /\ mm' = [mm EXCEPT ![p] = None] /\ mm_count' = mmput(p)
    /\ vfork' = [vfork EXCEPT ![p] = FALSE]
    /\ kid' = Woken(p)
    /\ UNCHANGED <<how, multi, reused, own, scores, writers>>

\* A parent is killed while it waits in vfork: wait_for_vfork_done clears the
\* child's vfork_done, and the parent exits.
vfork_killed(p) ==
    /\ life[p] = "live" /\ p \notin GlobalInit /\ kid[p] # None /\ vfork[kid[p]]
    /\ vfork' = [vfork EXCEPT ![kid[p]] = FALSE, ![p] = FALSE]
    /\ kid' = [Woken(p) EXCEPT ![p] = None]
    /\ life' = [life EXCEPT ![p] = "dead"]
    /\ mm' = [mm EXCEPT ![p] = None] /\ mm_count' = mmput(p)
    /\ UNCHANGED <<how, multi, reused, own, scores, writers>>

\* The signal_struct stays as long as a writer has the task.
reap(p) ==
    /\ life[p] = "dead" /\ \A w \in Writer : task[w] # p
    /\ life' = [life EXCEPT ![p] = "none"]
    /\ adj' = [adj EXCEPT ![p] = 0] /\ adj_min' = [adj_min EXCEPT ![p] = 0]
    /\ own' = [own EXCEPT ![p] = FALSE]
    /\ UNCHANGED <<mm, vfork, kid, how, multi, mm_count, reused, writers>>

(***************************************************************************)
(* oom_score_adj_write, oom_adj_write and __set_oom_adj.                   *)
(***************************************************************************)
\* Through oom_adj a value may be raised, through oom_score_adj it may not go
\* below the floor set last by somebody capable.
AllowAll(w, p, v, old) == TRUE
Allowed(w, p, v, old) == \/ w \in Capable
                         \/ old /\ v >= adj[p]
                         \/ ~old /\ v >= adj_min[p]

\* Up to the test under the mutex; who waits for it has changed nothing, and a
\* write that is not allowed ends here.
LockMutex(w, p, v, old) ==
    /\ wpc[w] = "idle" /\ Listed(p) /\ MutexFree /\ Allowed(w, p, v, old)
    /\ wpc' = [wpc EXCEPT ![w] = "find"]
    /\ task' = [task EXCEPT ![w] = p]
    /\ val' = [val EXCEPT ![w] = v]
    /\ legacy' = [legacy EXCEPT ![w] = old]
    /\ UNCHANGED <<procs, mm_count, scores, pin, done, plain>>

InRange(x) == x \in ScoreRange

oom_score_adj_write(w, p, x) == InRange(x) /\ LockMutex(w, p, x, FALSE)
oom_adj_write(w, p, x) == x \in LegacyRange /\ LockMutex(w, p, Scale(x), TRUE)

\* The local mm is set, and held from here on, while its users may leave it.
find_lock_task_mm(w) ==
    /\ wpc[w] = "find"
    /\ LET p == task[w]
           others == ~vfork[p] /\ mm[p] # None /\ multi[mm[p]]
           m == IF others THEN mm[p] ELSE None
       IN  pin' = [pin EXCEPT ![w] = m] /\ mm_count' = mmgrab(m)
    /\ wpc' = [wpc EXCEPT ![w] = "set"]
    /\ plain' = IF Ordinary(task[w]) THEN plain \cup {w} ELSE plain
    /\ UNCHANGED <<procs, scores, task, val, legacy, done>>

SetScore(w, p) ==
    /\ adj' = [adj EXCEPT ![p] = val[w]]
    /\ adj_min' = IF ~legacy[w] /\ w \in Capable
                  THEN [adj_min EXCEPT ![p] = val[w]] ELSE adj_min

set_oom_adj(w) ==
    /\ wpc[w] = "set"
    /\ SetScore(w, task[w])
    /\ wpc' = [wpc EXCEPT ![w] = "walk"]
    /\ done' = [done EXCEPT ![w] = {task[w]} \cup GlobalInit]
    /\ UNCHANGED <<procs, mm_count, task, val, legacy, pin, plain>>

\* A process of the list, under its task_lock.
Sharer(w, p) == ~vfork[p] /\ mm[p] = pin[w]

visit(w, p) ==
    /\ wpc[w] = "walk" /\ pin[w] # None /\ Listed(p) /\ p \notin done[w]
    /\ IF Sharer(w, p) THEN SetScore(w, p) ELSE UNCHANGED scores
    /\ done' = [done EXCEPT ![w] = @ \cup {p}]
    /\ UNCHANGED <<procs, mm_count, wpc, task, val, legacy, pin, plain>>

\* The end of the walk, where the mm is dropped, and of the call.
unlock_mutex(w) ==
    /\ wpc[w] = "walk"
    /\ pin[w] # None => \A p \in Proc : Listed(p) => p \in done[w]
    /\ wpc' = [wpc EXCEPT ![w] = "idle"]
    /\ task' = [task EXCEPT ![w] = None]
    /\ val' = [val EXCEPT ![w] = 0]
    /\ legacy' = [legacy EXCEPT ![w] = FALSE]
    /\ pin' = [pin EXCEPT ![w] = None] /\ mm_count' = mmdrop(pin[w])
    /\ done' = [done EXCEPT ![w] = {}]
    /\ plain' = plain \ {w}
    /\ UNCHANGED <<procs, scores>>

(***************************************************************************)
(* The specification.                                                      *)
(***************************************************************************)
BootMm == CHOOSE f \in [Boot -> Mm] : \A p, q \in Boot : f[p] = f[q] => p = q

Init ==
    /\ life = [p \in Proc |-> IF p \in Boot THEN "live" ELSE "none"]
    /\ mm = [p \in Proc |-> IF p \in Boot THEN BootMm[p] ELSE None]
    /\ vfork = [p \in Proc |-> FALSE] /\ own = [p \in Proc |-> p \in Boot \ GlobalInit]
    /\ kid = [p \in Proc |-> None] /\ how = [p \in Proc |-> "copy"]
    /\ adj = [p \in Proc |-> 0] /\ adj_min = [p \in Proc |-> 0]
    /\ multi = [m \in Mm |-> FALSE] /\ reused = {}
    /\ mm_count = [m \in Mm |-> IF \E p \in Boot : BootMm[p] = m THEN 1 ELSE 0]
    /\ wpc = [w \in Writer |-> "idle"] /\ task = [w \in Writer |-> None]
    /\ val = [w \in Writer |-> 0] /\ legacy = [w \in Writer |-> FALSE]
    /\ pin = [w \in Writer |-> None] /\ done = [w \in Writer |-> {}]
    /\ plain = {}

Process(p) ==
    \/ \E k \in {"vm", "vfork", "copy"} : clone(p, k)
    \/ attach(p) \/ copy_oom_score_adj(p)
    \/ exec(p) \/ exit(p) \/ vfork_killed(p) \/ reap(p)

Write(w) ==
    \/ \E p \in Target, x \in Score : oom_score_adj_write(w, p, x)
    \/ \E p \in Target, x \in Legacy : oom_adj_write(w, p, x)
    \/ find_lock_task_mm(w) \/ set_oom_adj(w)
    \/ (\E p \in Proc : visit(w, p)) \/ unlock_mutex(w)

Next == (\E p \in Proc : Process(p)) \/ (\E w \in Writer : Write(w))

Spec == Init /\ [][Next]_vars

(***************************************************************************)
(* Properties.                                                             *)
(***************************************************************************)
\* Every variable has its type.
TaskTypes ==
    /\ life \in [Proc -> {"none", "signal", "attached", "live", "dead"}]
    /\ mm \in [Proc -> Mm \cup {None}]
    /\ vfork \in [Proc -> BOOLEAN] /\ own \in [Proc -> BOOLEAN]
    /\ kid \in [Proc -> Proc \cup {None}]
    /\ how \in [Proc -> {"vm", "vfork", "copy"}]
    /\ adj \in [Proc -> ScoreRange] /\ adj_min \in [Proc -> ScoreRange]
    /\ multi \in [Mm -> BOOLEAN] /\ reused \subseteq Writer
    /\ wpc \in [Writer -> WPC] /\ task \in [Writer -> Proc \cup {None}]
    /\ val \in [Writer -> ScoreRange] /\ legacy \in [Writer -> BOOLEAN]
    /\ pin \in [Writer -> Mm \cup {None}]
    /\ done \in [Writer -> SUBSET Proc] /\ plain \subseteq Writer
TypeOK == TaskTypes /\ mm_count \in [Mm -> Nat]

\* Whenever nobody holds oom_adj_mutex, processes that share an mm have the
\* same oom_score_adj and the same floor, whatever clones, execs and exits
\* came between; init, a child of vfork and what these clone with their mm are
\* not held to it.
ScoresAgree ==
    /\ TypeOK
    /\ MutexFree =>
        \A p, q \in Proc : Ordinary(p) /\ Ordinary(q) /\ mm[p] = mm[q] =>
            adj[p] = adj[q] /\ adj_min[p] = adj_min[q]

\* "Pin the mm so it doesn't go away and get reused after task_unlock": the mm
\* a write goes through is not allocated to other processes before the write
\* has ended, and no reference is lost or left behind: an mm_struct has one
\* exactly as long as a process uses it or a write goes through it.
InUse(m) == \E p \in Proc : mm[p] = m
Held(m) == \E w \in Writer : pin[w] = m
PinnedMm ==
    /\ reused = {}
    /\ \A m \in Mm : mm_count[m] > 0 <=> InUse(m) \/ Held(m)

\* A writer that is not capable makes no process a less likely victim than
\* the floor last set for it: not the one it named, and no other that a write
\* to an ordinary process is carried to.
FloorHolds ==
    [][\A w \in Writer \ Capable, p \in Proc :
         (/\ wpc[w] \in {"set", "walk"} /\ adj'[p] < adj[p] /\ Ordinary(p)
          /\ (w \in plain \/ p = task[w])) => adj'[p] >= adj_min[p]]_vars

\* A value written through oom_adj is read back through it as itself or one
\* nearer to zero, disabled as disabled and the largest as the largest; and
\* whatever was written through oom_score_adj, oom_adj reads as one of its own.
LegacyScale ==
    /\ \A x \in LegacyRange :
         LET y == Unscale(Scale(x))
         IN  IF x >= 0 THEN y \in {x - 1, x} \cap Nat ELSE y \in {x, x + 1}
    /\ \A x \in {OOM_DISABLE, OOM_ADJUST_MAX} : Unscale(Scale(x)) = x
    /\ \A p \in Proc : Unscale(adj[p]) \in LegacyRange

=============================================================================
