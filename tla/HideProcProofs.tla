--------------------------- MODULE HideProcProofs ---------------------------
(***************************************************************************)
(* Theorems about HideProc, for every set of pids and callers, every mix   *)
(* of calls and every value of the other constants.                        *)
(***************************************************************************)
EXTENDS HideProc, FiniteSetTheorems, WellFoundedInduction, TLAPS

(***************************************************************************)
(* The inductive invariant, in named parts.                                *)
(***************************************************************************)
\* Which call a place belongs to, and where a caller points to a task.
AtTask == {"lk_flag", "lk_cloak", "lk_make", "splice", "rd_flag", "rd_cloak",
           "rd_fill", "rd_emit", "hide_set", "hide_flush", "walk_flush", "walk_adv"}

CtlAt(c) ==
    /\ pc[c] \in AtTask => task[c] \in Pid
    /\ pc[c] \in {"idle", "ret", "rd_full"} => task[c] = 0
    /\ pc[c] = "idle" => op[c] = "none" /\ seen[c] = {}
    /\ pc[c] \in {"lk_flag", "lk_cloak", "lk_make"} => op[c] = "lookup"
    /\ pc[c] = "splice" => op[c] \in {"lookup", "readdir"}
    /\ pc[c] \in {"rd_next", "rd_flag", "rd_cloak", "rd_fill", "rd_emit", "rd_full"}
         => op[c] = "readdir"
    /\ pc[c] \in {"hide_set", "hide_flush"} => op[c] = "hide"
    /\ pc[c] \in {"walk", "walk_flush", "walk_adv"} => op[c] \in {"hup", "recover", "list"}
    /\ pc[c] = "oops" => op[c] \notin {"lookup", "readdir"}
    /\ op[c] = "readdir" =>
         pc[c] \in {"rd_next", "rd_flag", "rd_cloak", "rd_fill", "rd_emit",
                    "rd_full", "splice", "ret"}

CtlInv == \A c \in Caller : CtlAt(c)

\* Nobody can point to a task that has not been attached, so nobody can have
\* cloaked it.
Born(p) == life[p] \in {"live", "dead", "unref"}
BornInv ==
    /\ \A c \in Caller : task[c] # 0 => Born(task[c])
    /\ \A p \in Pid : nxt[p] # 0 => Born(nxt[p])
    /\ \A p \in Pid : life[p] = "new" => cloak[p] = 0

\* What makes CacheClosed inductive: a task found visible is not hidden or has
\* lapsed, and what a flush cannot reach has lapsed.
Past(c, p) == task[c] = p /\ pc[c] \in {"lk_make", "splice", "rd_fill"}
Flushing(c, p) == task[c] = p /\ pc[c] \in {"hide_flush", "walk_flush"}
Hid(p) == hidden_flag = 1 /\ Live(p) /\ cloak[p] = 1

CacheAt(p) ==
    /\ p \in dentry /\ Hid(p) => p \in lapsed \/ \E c \in Caller : Flushing(c, p)
    /\ \A c \in Caller : Past(c, p) /\ Hid(p) => p \in lapsed
    /\ p \in dentry \ sib => p \in lapsed
    /\ \A c \in Caller : pc[c] = "splice" /\ task[c] = p /\ p \notin sib => p \in lapsed

CacheInv == \A p \in Pid : CacheAt(p)

\* What makes the two readdir properties inductive.
ReaddirAt(c) ==
    op[c] = "readdir" =>
        /\ base[c] \subseteq HiddenNow
        /\ also[c] \subseteq Uncloaked(c)
        /\ base[c] \cap seen[c] = {}
        /\ pc[c] \in {"rd_fill", "splice", "rd_emit"} => task[c] \notin base[c]
        /\ pc[c] \in {"rd_flag", "rd_cloak", "rd_fill", "splice", "rd_emit"}
             => pos[c] = task[c]
        /\ pc[c] # "ret" => \A p \in also[c] : p < pos[c] => p \in seen[c]
        /\ pc[c] = "ret" => also[c] \subseteq seen[c]

ReaddirInv == \A c \in Caller : ReaddirAt(c)

IInv == /\ TypeOK /\ CtlInv /\ BornInv /\ NoPrematureFree /\ CacheInv /\ ReaddirInv
(***************************************************************************)
(* Types and control.                                                      *)
(***************************************************************************)

LEMMA FirstType == ASSUME StateOK PROVE First \in Pid \cup {0}
BY PidAssumption DEF First, Leaders, StateOK

LEMMA StepState ==
    ASSUME StateOK, CtlInv, NEW c \in Caller, Step(c)
    PROVE  StateOK'
<1>0. First \in Pid \cup {0} BY FirstType
<1>1. ASSUME NEW p \in Pid, LookupCached(c, p) PROVE StateOK'
    BY <1>1 DEF LookupCached, Begin, Return, PC, OpName, StateOK, procs, cache
<1>2. ASSUME NEW p \in Pid, LookupFind(c, p) PROVE StateOK'
    BY <1>2 DEF LookupFind, Begin, Return, Goto, Get, PC, OpName, StateOK, procs, cache
<1>3. CASE LookupFlag(c)
    BY <1>3 DEF LookupFlag, Goto, PC, OpName, StateOK, procs, cache
<1>4. CASE LookupCloak(c)
    BY <1>4 DEF LookupCloak, Goto, Return, PC, OpName, StateOK, procs, cache
<1>5. CASE LookupMake(c)
  <2>1. task[c] \in Pid BY <1>5 DEF LookupMake, CtlInv, CtlAt, AtTask
  <2>2. QED BY <1>5, <2>1 DEF LookupMake, Goto, Return, Put, PC, OpName, StateOK, procs, cache
<1>6. CASE Splice(c)
  <2>1. task[c] \in Pid BY <1>6 DEF Splice, CtlInv, CtlAt, AtTask
  <2>2. QED BY <1>6, <2>1 DEF Splice, Goto, Return, Put, PC, OpName, StateOK, procs, cache
<1>7. CASE ReaddirStart(c)
    BY <1>7 DEF ReaddirStart, Begin, Goto, PC, OpName, StateOK, procs, cache
<1>8. CASE NextTgid(c)
    BY <1>8, PidAssumption DEF NextTgid, Goto, Return, Put, Leaders, AfterTgid, PC, OpName, StateOK, procs, cache
<1>9. CASE ReaddirFlag(c)
    BY <1>9 DEF ReaddirFlag, Goto, PC, OpName, StateOK, procs, cache
<1>10. CASE ReaddirCloak(c)
    BY <1>10 DEF ReaddirCloak, Goto, AfterTgid, PC, OpName, StateOK, procs, cache
<1>11. CASE FillCache(c)
  <2>1. task[c] \in Pid BY <1>11 DEF FillCache, CtlInv, CtlAt, AtTask
  <2>2. QED BY <1>11, <2>1 DEF FillCache, Goto, PC, OpName, StateOK, procs, cache
<1>12. CASE Emit(c)
  <2>1. task[c] \in Pid BY <1>12 DEF Emit, CtlInv, CtlAt, AtTask
  <2>2. QED BY <1>12, <2>1 DEF Emit, Goto, AfterTgid, PC, OpName, StateOK, procs, cache
<1>13. CASE EmitFull(c)
  <2>1. task[c] \in Pid BY <1>13 DEF EmitFull, CtlInv, CtlAt, AtTask
  <2>2. QED BY <1>13, <2>1 DEF EmitFull, Goto, Put, PC, OpName, StateOK, procs, cache
<1>14. CASE ReaddirResume(c)
    BY <1>14 DEF ReaddirResume, Goto, PC, OpName, StateOK, procs, cache
<1>15. ASSUME NEW p \in Pid, NEW on \in OnValue, HideFind(c, p, on) PROVE StateOK'
  <2>1. [NoArg EXCEPT !.on = on] \in Arg BY DEF NoArg, Arg, NoBin
  <2>2. QED BY <1>15, <2>1 DEF HideFind, Begin, Goto, Return, PC, OpName, StateOK, procs, cache
<1>16. CASE HideSet(c)
    BY <1>16 DEF HideSet, Goto, Arg, PC, OpName, StateOK, procs, cache
<1>17. CASE HideFlush(c)
  <2>1. task[c] \in Pid BY <1>17 DEF HideFlush, CtlInv, CtlAt, AtTask
  <2>2. QED BY <1>17, <2>1 DEF HideFlush, Goto, Return, Oops, Flush, PC, OpName, StateOK, procs, cache
<1>18. ASSUME NEW u \in Uid, NEW b \in BinName \cup {NoBin}, NEW all \in BOOLEAN, HupStart(c, u, b, all) PROVE StateOK'
    BY <1>18, <1>0 DEF HupStart, Begin, StartWalk, Goto, NoArg, Arg, NoBin, PC, OpName, StateOK, procs, cache
<1>19. CASE RecoverStart(c)
    BY <1>19, <1>0 DEF RecoverStart, Begin, StartWalk, Goto, NoArg, Arg, NoBin, PC, OpName, StateOK, procs, cache
<1>20. CASE HupRefused(c)
    BY <1>20 DEF HupRefused, Begin, Return, PC, OpName, StateOK, procs, cache
<1>21. CASE ListStart(c)
    BY <1>21, <1>0 DEF ListStart, Begin, StartWalk, Goto, NoArg, Arg, NoBin, PC, OpName, StateOK, procs, cache
<1>22. CASE WalkEnd(c)
    BY <1>22 DEF WalkEnd, Return, PC, OpName, StateOK, procs, cache
<1>23. CASE HupVisit(c)
  <2>1. task[c] \in Pid BY <1>23 DEF HupVisit, At, CursorFreed, StateOK
  <2>2. QED BY <1>23, <2>1 DEF HupVisit, Goto, Advance, At, PC, OpName, StateOK, procs, cache
<1>24. CASE HupFlush(c)
  <2>1. task[c] \in Pid BY <1>24 DEF HupFlush, CtlInv, CtlAt, AtTask
  <2>2. QED BY <1>24, <2>1 DEF HupFlush, Goto, Oops, Flush, PC, OpName, StateOK, procs, cache
<1>25. CASE HupAdvance(c)
  <2>1. task[c] \in Pid BY <1>25 DEF HupAdvance, CtlInv, CtlAt, AtTask
  <2>2. QED BY <1>25, <2>1 DEF HupAdvance, Goto, Advance, PC, OpName, StateOK, procs, cache
<1>26. CASE UseAfterFree(c)
  <2>1. task[c] \in Pid BY <1>26 DEF UseAfterFree, At, CursorFreed, StateOK
  <2>2. QED BY <1>26, <2>1 DEF UseAfterFree, CursorFreed, Goto, Advance, Oops, PC, OpName, StateOK, procs, cache
<1>27. CASE RecoverVisit(c)
    BY <1>27 DEF RecoverVisit, Advance, At, RestoredCloak, PC, OpName, StateOK, procs, cache
<1>28. CASE ListVisit(c)
  <2>1. task[c] \in Pid BY <1>28 DEF ListVisit, At, CursorFreed, StateOK
  <2>2. QED BY <1>28, <2>1 DEF ListVisit, Advance, At, PC, OpName, StateOK, procs, cache
<1>29. ASSUME NEW v \in FlagValue, proc_write_hidden(c, v) PROVE StateOK'
    BY <1>29 DEF proc_write_hidden, Begin, Return, StoreFlag, PC, OpName, StateOK, procs, cache
<1>30. CASE Leave(c)
    BY <1>30 DEF Leave, Goto, NoArg, Arg, NoBin, PC, OpName, StateOK, procs, cache
<1>31. QED
    BY <1>1, <1>2, <1>3, <1>4, <1>5, <1>6, <1>7, <1>8, <1>9, <1>10, <1>11, <1>12, <1>13, <1>14, <1>15, <1>16, <1>17, <1>18, <1>19, <1>20, <1>21, <1>22, <1>23, <1>24, <1>25, <1>26, <1>27, <1>28, <1>29, <1>30 DEF Step

\* A caller's step touches no process and no other caller's state.
SameAt(d) ==
    /\ pc'[d] = pc[d] /\ op'[d] = op[d] /\ task'[d] = task[d]
    /\ pos'[d] = pos[d] /\ arg'[d] = arg[d] /\ seen'[d] = seen[d]

LEMMA StepFrame ==
    ASSUME StateOK, NEW c \in Caller, Step(c)
    PROVE  UNCHANGED procs /\ \A d \in Caller \ {c} : SameAt(d)
<1>1. ASSUME NEW p \in Pid, LookupCached(c, p)
     PROVE  UNCHANGED procs /\ \A d \in Caller \ {c} : SameAt(d)
  BY <1>1 DEF LookupCached, Begin, Return, SameAt, StateOK
<1>2. ASSUME NEW p \in Pid, LookupFind(c, p)
     PROVE  UNCHANGED procs /\ \A d \in Caller \ {c} : SameAt(d)
  BY <1>2 DEF LookupFind, Begin, Return, Goto, Get, SameAt, StateOK
<1>3. CASE LookupFlag(c)
  BY <1>3 DEF LookupFlag, Goto, SameAt, StateOK
<1>4. CASE LookupCloak(c)
  BY <1>4 DEF LookupCloak, Goto, Return, SameAt, StateOK
<1>5. CASE LookupMake(c)
  BY <1>5 DEF LookupMake, Goto, Return, Put, SameAt, StateOK
<1>6. CASE Splice(c)
  BY <1>6 DEF Splice, Goto, Return, Put, SameAt, StateOK
<1>7. CASE ReaddirStart(c)
  BY <1>7 DEF ReaddirStart, Begin, Goto, SameAt, StateOK
<1>8. CASE NextTgid(c)
  BY <1>8 DEF NextTgid, Goto, Return, Put, Leaders, AfterTgid, SameAt, StateOK
<1>9. CASE ReaddirFlag(c)
  BY <1>9 DEF ReaddirFlag, Goto, SameAt, StateOK
<1>10. CASE ReaddirCloak(c)
  BY <1>10 DEF ReaddirCloak, Goto, AfterTgid, SameAt, StateOK
<1>11. CASE FillCache(c)
  BY <1>11 DEF FillCache, Goto, SameAt, StateOK
<1>12. CASE Emit(c)
  BY <1>12 DEF Emit, Goto, AfterTgid, SameAt, StateOK
<1>13. CASE EmitFull(c)
  BY <1>13 DEF EmitFull, Goto, Put, SameAt, StateOK
<1>14. CASE ReaddirResume(c)
  BY <1>14 DEF ReaddirResume, Goto, SameAt, StateOK
<1>15. ASSUME NEW p \in Pid, NEW on \in OnValue, HideFind(c, p, on)
     PROVE  UNCHANGED procs /\ \A d \in Caller \ {c} : SameAt(d)
  BY <1>15 DEF HideFind, Begin, Goto, Return, SameAt, StateOK
<1>16. CASE HideSet(c)
  BY <1>16 DEF HideSet, Goto, SameAt, StateOK
<1>17. CASE HideFlush(c)
  BY <1>17 DEF HideFlush, Goto, Return, Oops, Flush, SameAt, StateOK
<1>18. ASSUME NEW u \in Uid, NEW b \in BinName \cup {NoBin}, NEW all \in BOOLEAN,
            HupStart(c, u, b, all)
     PROVE  UNCHANGED procs /\ \A d \in Caller \ {c} : SameAt(d)
  BY <1>18 DEF HupStart, Begin, StartWalk, Goto, SameAt, StateOK
<1>19. CASE RecoverStart(c)
  BY <1>19 DEF RecoverStart, Begin, StartWalk, Goto, SameAt, StateOK
<1>20. CASE HupRefused(c)
  BY <1>20 DEF HupRefused, Begin, Return, SameAt, StateOK
<1>21. CASE ListStart(c)
  BY <1>21 DEF ListStart, Begin, StartWalk, Goto, SameAt, StateOK
<1>22. CASE WalkEnd(c)
  BY <1>22 DEF WalkEnd, Return, SameAt, StateOK
<1>23. CASE HupVisit(c)
  BY <1>23 DEF HupVisit, Goto, Advance, At, SameAt, StateOK
<1>24. CASE HupFlush(c)
  BY <1>24 DEF HupFlush, Goto, Oops, Flush, SameAt, StateOK
<1>25. CASE HupAdvance(c)
  BY <1>25 DEF HupAdvance, Goto, Advance, SameAt, StateOK
<1>26. CASE UseAfterFree(c)
  BY <1>26 DEF UseAfterFree, CursorFreed, Goto, Advance, Oops, SameAt, StateOK
<1>27. CASE RecoverVisit(c)
  BY <1>27 DEF RecoverVisit, Advance, At, RestoredCloak, SameAt, StateOK
<1>28. CASE ListVisit(c)
  BY <1>28 DEF ListVisit, Advance, At, SameAt, StateOK
<1>29. ASSUME NEW v \in FlagValue, proc_write_hidden(c, v)
     PROVE  UNCHANGED procs /\ \A d \in Caller \ {c} : SameAt(d)
  BY <1>29 DEF proc_write_hidden, Begin, Return, StoreFlag, SameAt, StateOK
<1>30. CASE Leave(c)
  BY <1>30 DEF Leave, Goto, SameAt, StateOK
<1>31. QED
  BY <1>1, <1>2, <1>3, <1>4, <1>5, <1>6, <1>7, <1>8, <1>9, <1>10, <1>11, <1>12, <1>13, <1>14, <1>15,
     <1>16, <1>17, <1>18, <1>19, <1>20, <1>21, <1>22, <1>23, <1>24, <1>25, <1>26, <1>27, <1>28, <1>29, <1>30 DEF Step

LEMMA StepCtl ==
    ASSUME StateOK, CtlInv, NEW c \in Caller, Step(c)
    PROVE  CtlAt(c)'
<1>1. ASSUME NEW p \in Pid, LookupCached(c, p)
     PROVE  CtlAt(c)'
  BY <1>1 DEF LookupCached, Begin, Return, CtlInv, CtlAt, AtTask, StateOK
<1>2. ASSUME NEW p \in Pid, LookupFind(c, p)
     PROVE  CtlAt(c)'
  BY <1>2 DEF LookupFind, Begin, Return, Goto, Get, CtlInv, CtlAt, AtTask, StateOK
<1>3. CASE LookupFlag(c)
  BY <1>3 DEF LookupFlag, Goto, CtlInv, CtlAt, AtTask, StateOK
<1>4. CASE LookupCloak(c)
  BY <1>4 DEF LookupCloak, Goto, Return, CtlInv, CtlAt, AtTask, StateOK
<1>5. CASE LookupMake(c)
  BY <1>5 DEF LookupMake, Goto, Return, Put, CtlInv, CtlAt, AtTask, StateOK
<1>6. CASE Splice(c)
  BY <1>6 DEF Splice, Goto, Return, Put, CtlInv, CtlAt, AtTask, StateOK
<1>7. CASE ReaddirStart(c)
  BY <1>7 DEF ReaddirStart, Begin, Goto, CtlInv, CtlAt, AtTask, StateOK
<1>8. CASE NextTgid(c)
  BY <1>8 DEF NextTgid, Goto, Return, Put, Leaders, AfterTgid, CtlInv, CtlAt, AtTask, StateOK
<1>9. CASE ReaddirFlag(c)
  BY <1>9 DEF ReaddirFlag, Goto, CtlInv, CtlAt, AtTask, StateOK
<1>10. CASE ReaddirCloak(c)
  BY <1>10 DEF ReaddirCloak, Goto, AfterTgid, CtlInv, CtlAt, AtTask, StateOK
<1>11. CASE FillCache(c)
  BY <1>11 DEF FillCache, Goto, CtlInv, CtlAt, AtTask, StateOK
<1>12. CASE Emit(c)
  BY <1>12 DEF Emit, Goto, AfterTgid, CtlInv, CtlAt, AtTask, StateOK
<1>13. CASE EmitFull(c)
  BY <1>13 DEF EmitFull, Goto, Put, CtlInv, CtlAt, AtTask, StateOK
<1>14. CASE ReaddirResume(c)
  BY <1>14 DEF ReaddirResume, Goto, CtlInv, CtlAt, AtTask, StateOK
<1>15. ASSUME NEW p \in Pid, NEW on \in OnValue, HideFind(c, p, on)
     PROVE  CtlAt(c)'
  BY <1>15 DEF HideFind, Begin, Goto, Return, CtlInv, CtlAt, AtTask, StateOK
<1>16. CASE HideSet(c)
  BY <1>16 DEF HideSet, Goto, CtlInv, CtlAt, AtTask, StateOK
<1>17. CASE HideFlush(c)
  BY <1>17 DEF HideFlush, Goto, Return, Oops, Flush, CtlInv, CtlAt, AtTask, StateOK
<1>18. ASSUME NEW u \in Uid, NEW b \in BinName \cup {NoBin}, NEW all \in BOOLEAN,
            HupStart(c, u, b, all)
     PROVE  CtlAt(c)'
  BY <1>18 DEF HupStart, Begin, StartWalk, Goto, CtlInv, CtlAt, AtTask, StateOK
<1>19. CASE RecoverStart(c)
  BY <1>19 DEF RecoverStart, Begin, StartWalk, Goto, CtlInv, CtlAt, AtTask, StateOK
<1>20. CASE HupRefused(c)
  BY <1>20 DEF HupRefused, Begin, Return, CtlInv, CtlAt, AtTask, StateOK
<1>21. CASE ListStart(c)
  BY <1>21 DEF ListStart, Begin, StartWalk, Goto, CtlInv, CtlAt, AtTask, StateOK
<1>22. CASE WalkEnd(c)
  BY <1>22 DEF WalkEnd, Return, CtlInv, CtlAt, AtTask, StateOK
<1>23. CASE HupVisit(c)
  BY <1>23 DEF HupVisit, Goto, Advance, At, CtlInv, CtlAt, AtTask, StateOK
<1>24. CASE HupFlush(c)
  BY <1>24 DEF HupFlush, Goto, Oops, Flush, CtlInv, CtlAt, AtTask, StateOK
<1>25. CASE HupAdvance(c)
  BY <1>25 DEF HupAdvance, Goto, Advance, CtlInv, CtlAt, AtTask, StateOK
<1>26. CASE UseAfterFree(c)
  BY <1>26 DEF UseAfterFree, CursorFreed, Goto, Advance, Oops, CtlInv, CtlAt, AtTask, StateOK
<1>27. CASE RecoverVisit(c)
  BY <1>27 DEF RecoverVisit, Advance, At, RestoredCloak, CtlInv, CtlAt, AtTask, StateOK
<1>28. CASE ListVisit(c)
  BY <1>28 DEF ListVisit, Advance, At, CtlInv, CtlAt, AtTask, StateOK
<1>29. ASSUME NEW v \in FlagValue, proc_write_hidden(c, v)
     PROVE  CtlAt(c)'
  BY <1>29 DEF proc_write_hidden, Begin, Return, StoreFlag, CtlInv, CtlAt, AtTask, StateOK
<1>30. CASE Leave(c)
  BY <1>30 DEF Leave, Goto, CtlInv, CtlAt, AtTask, StateOK
<1>31. QED
  BY <1>1, <1>2, <1>3, <1>4, <1>5, <1>6, <1>7, <1>8, <1>9, <1>10, <1>11, <1>12, <1>13, <1>14, <1>15,
     <1>16, <1>17, <1>18, <1>19, <1>20, <1>21, <1>22, <1>23, <1>24, <1>25, <1>26, <1>27, <1>28, <1>29, <1>30 DEF Step

LEMMA SystemState ==
    ASSUME StateOK, System
    PROVE  StateOK' /\ UNCHANGED ctl
<1>1. ASSUME NEW parent \in Pid, NEW p \in Pid, NEW leader \in BOOLEAN,
            DupTask(parent, p, leader)
     PROVE  StateOK' /\ UNCHANGED ctl
  BY <1>1 DEF DupTask, ChildCloak, StateOK, cache, ctl
<1>2. ASSUME NEW p \in Pid, Attach(p) PROVE StateOK' /\ UNCHANGED ctl
  BY <1>2 DEF Attach, Leaders, StateOK, cache, ctl
<1>3. ASSUME NEW p \in Pid, ForkFail(p) PROVE StateOK' /\ UNCHANGED ctl
  BY <1>3 DEF ForkFail, StateOK, cache, ctl
<1>4. ASSUME NEW p \in Pid, Reap(p) PROVE StateOK' /\ UNCHANGED ctl
  BY <1>4 DEF Reap, Leaders, StateOK, ctl
<1>5. ASSUME NEW p \in Pid, RcuPut(p) PROVE StateOK' /\ UNCHANGED ctl
  BY <1>5 DEF RcuPut, StateOK, cache, ctl
<1>6. ASSUME NEW p \in Pid, Shrink(p) PROVE StateOK' /\ UNCHANGED ctl
  BY <1>6 DEF Shrink, StateOK, procs, ctl
<1>7. ASSUME NEW p \in Pid, NEW b \in BinName, Exec(p, b) PROVE StateOK' /\ UNCHANGED ctl
  BY <1>7 DEF Exec, StateOK, cache, ctl
<1>8. QED BY <1>1, <1>2, <1>3, <1>4, <1>5, <1>6, <1>7 DEF System

LEMMA ObserveHist ==
    ASSUME StateOK', HistOK, Observe
    PROVE  HistOK'
<1>1. ASSUME NEW c \in Caller PROVE Subject(c)' \subseteq Pid /\ Opposite(c)' \subseteq Pid
  BY DEF Subject, Opposite, HiddenNow, Leaders, Uncloaked
<1>2. ASSUME NEW c \in Caller PROVE StillBase(c) \subseteq base[c]
  BY DEF StillBase, Undisturbed
<1>3. base' \in [Caller -> SUBSET Pid]
  BY <1>1, <1>2 DEF Observe, HistOK
<1>4. also' \in [Caller -> SUBSET Pid]
  BY <1>1 DEF Observe, HistOK
<1>5. lapsed' \subseteq Pid
  BY DEF Observe, StateOK, PastCheck
<1>6. QED BY <1>3, <1>4, <1>5 DEF HistOK

TC == TypeOK /\ CtlInv

LEMMA InitTC == Init => TC
<1> SUFFICES ASSUME Init PROVE TC OBVIOUS
<1>1. StateOK
  <2>1. NoArg \in Arg BY DEF NoArg, Arg, NoBin
  <2>0. Boot \subseteq Pid /\ load.names \subseteq BinName
    BY WorkloadAssumption DEF Init, Workload, Boot
  <2>2. uid \in [Pid -> Uid \cup {0}] BY DEF Init
  <2>3. image \in [Pid -> BinName \cup {NoBin}] BY <2>0 DEF Init
  <2>4. nxt \in [Pid -> Pid \cup {0}] BY <2>0 DEF Init
  <2>5. QED BY <2>1, <2>2, <2>3, <2>4 DEF Init, StateOK, PC, OpName
<1>2. HistOK BY DEF Init, HistOK
<1>3. CtlInv BY DEF Init, CtlInv, CtlAt, AtTask
<1>4. load \in Workloads BY DEF Init
<1>5. QED BY <1>1, <1>2, <1>3, <1>4 DEF TC, TypeOK

LEMMA NextTC == TC /\ [Next]_vars => TC'
<1> SUFFICES ASSUME TC, [Next]_vars PROVE TC' OBVIOUS
<1>0. StateOK /\ HistOK /\ CtlInv BY DEF TC, TypeOK
<1>l. load' \in Workloads BY DEF TC, TypeOK, Next, vars
<1>1. CASE System /\ Observe
  <2>1. StateOK' /\ UNCHANGED ctl BY <1>0, <1>1, SystemState
  <2>2. CtlInv' BY <1>0, <2>1 DEF CtlInv, CtlAt, ctl
  <2>3. QED BY <1>0, <1>1, <1>l, <2>1, <2>2, ObserveHist DEF TC, TypeOK
<1>2. ASSUME NEW c \in Caller, Step(c), Observe PROVE TC'
  <2>1. StateOK' BY <1>0, <1>2, StepState
  <2>2. CtlAt(c)' BY <1>0, <1>2, StepCtl
  <2>3. ASSUME NEW d \in Caller \ {c} PROVE CtlAt(d)'
    <3>1. SameAt(d) BY <1>0, <1>2, StepFrame
    <3>2. CtlAt(d) BY <1>0 DEF CtlInv
    <3>3. QED BY <3>1, <3>2 DEF CtlAt, SameAt
  <2>4. CtlInv' BY <2>2, <2>3 DEF CtlInv
  <2>5. QED BY <1>0, <1>2, <1>l, <2>1, <2>4, ObserveHist DEF TC, TypeOK
<1>3. CASE UNCHANGED vars
  BY <1>0, <1>l, <1>3 DEF TC, TypeOK, StateOK, HistOK, CtlInv, CtlAt, vars, procs, cache, ctl, hist
<1>4. QED BY <1>1, <1>2, <1>3 DEF Next

\* Every variable keeps its type in every behaviour of the hiding calls, the
\* procfs readers and the processes around them.
THEOREM TypeCorrect == Spec => []TypeOK
<1>1. TC => TypeOK BY DEF TC
<1>2. QED BY InitTC, NextTC, <1>1, PTL DEF Spec

(***************************************************************************)
(* A child appears uncloaked.                                              *)
(***************************************************************************)
LEMMA FirstLive == ASSUME StateOK PROVE First # 0 => First \in Pid /\ Live(First)
BY DEF First, Leaders

LEMMA StepBorn ==
    ASSUME StateOK, CtlInv, BornInv, NEW c \in Caller, Step(c)
    PROVE  (task'[c] # 0 => Born(task'[c])) /\ (\A q \in Pid : life[q] = "new" => cloak'[q] = 0)
<1>1. ASSUME NEW p \in Pid, LookupCached(c, p)
     PROVE  (task'[c] # 0 => Born(task'[c])) /\ (\A q \in Pid : life[q] = "new" => cloak'[q] = 0)
  BY <1>1 DEF LookupCached, Begin, Return, BornInv, Born, CtlInv, CtlAt, AtTask, StateOK, Live
<1>2. ASSUME NEW p \in Pid, LookupFind(c, p)
     PROVE  (task'[c] # 0 => Born(task'[c])) /\ (\A q \in Pid : life[q] = "new" => cloak'[q] = 0)
  BY <1>2 DEF LookupFind, Begin, Return, Goto, Get, BornInv, Born, CtlInv, CtlAt, AtTask, StateOK, Live
<1>3. CASE LookupFlag(c)
  BY <1>3 DEF LookupFlag, Goto, BornInv, Born, CtlInv, CtlAt, AtTask, StateOK, Live
<1>4. CASE LookupCloak(c)
  BY <1>4 DEF LookupCloak, Goto, Return, BornInv, Born, CtlInv, CtlAt, AtTask, StateOK, Live
<1>5. CASE LookupMake(c)
  BY <1>5 DEF LookupMake, Goto, Return, Put, BornInv, Born, CtlInv, CtlAt, AtTask, StateOK, Live
<1>6. CASE Splice(c)
  BY <1>6 DEF Splice, Goto, Return, Put, BornInv, Born, CtlInv, CtlAt, AtTask, StateOK, Live
<1>7. CASE ReaddirStart(c)
  BY <1>7 DEF ReaddirStart, Begin, Goto, BornInv, Born, CtlInv, CtlAt, AtTask, StateOK, Live
<1>8. CASE NextTgid(c)
  BY <1>8 DEF NextTgid, Goto, Return, Put, Leaders, AfterTgid, BornInv, Born, CtlInv, CtlAt, AtTask, StateOK, Live
<1>9. CASE ReaddirFlag(c)
  BY <1>9 DEF ReaddirFlag, Goto, BornInv, Born, CtlInv, CtlAt, AtTask, StateOK, Live
<1>10. CASE ReaddirCloak(c)
  BY <1>10 DEF ReaddirCloak, Goto, AfterTgid, BornInv, Born, CtlInv, CtlAt, AtTask, StateOK, Live
<1>11. CASE FillCache(c)
  BY <1>11 DEF FillCache, Goto, BornInv, Born, CtlInv, CtlAt, AtTask, StateOK, Live
<1>12. CASE Emit(c)
  BY <1>12 DEF Emit, Goto, AfterTgid, BornInv, Born, CtlInv, CtlAt, AtTask, StateOK, Live
<1>13. CASE EmitFull(c)
  BY <1>13 DEF EmitFull, Goto, Put, BornInv, Born, CtlInv, CtlAt, AtTask, StateOK, Live
<1>14. CASE ReaddirResume(c)
  BY <1>14 DEF ReaddirResume, Goto, BornInv, Born, CtlInv, CtlAt, AtTask, StateOK, Live
<1>15. ASSUME NEW p \in Pid, NEW on \in OnValue, HideFind(c, p, on)
     PROVE  (task'[c] # 0 => Born(task'[c])) /\ (\A q \in Pid : life[q] = "new" => cloak'[q] = 0)
  BY <1>15 DEF HideFind, Begin, Goto, Return, BornInv, Born, CtlInv, CtlAt, AtTask, StateOK, Live
<1>16. CASE HideSet(c)
  <2>1. task[c] \in Pid BY <1>16 DEF HideSet, CtlInv, CtlAt, AtTask
  <2>2. QED BY <1>16, <2>1, PidAssumption DEF HideSet, BornInv, Born, StateOK
<1>17. CASE HideFlush(c)
  BY <1>17 DEF HideFlush, Goto, Return, Oops, Flush, BornInv, Born, CtlInv, CtlAt, AtTask, StateOK, Live
<1>18. ASSUME NEW u \in Uid, NEW b \in BinName \cup {NoBin}, NEW all \in BOOLEAN,
            HupStart(c, u, b, all)
     PROVE  (task'[c] # 0 => Born(task'[c])) /\ (\A q \in Pid : life[q] = "new" => cloak'[q] = 0)
  BY <1>18, FirstLive DEF HupStart, Begin, StartWalk, Goto, BornInv, Born, CtlInv, CtlAt, AtTask, StateOK, Live
<1>19. CASE RecoverStart(c)
  BY <1>19, FirstLive DEF RecoverStart, Begin, StartWalk, Goto, BornInv, Born, CtlInv, CtlAt, AtTask, StateOK, Live
<1>20. CASE HupRefused(c)
  BY <1>20 DEF HupRefused, Begin, Return, BornInv, Born, CtlInv, CtlAt, AtTask, StateOK, Live
<1>21. CASE ListStart(c)
  BY <1>21, FirstLive DEF ListStart, Begin, StartWalk, Goto, BornInv, Born, CtlInv, CtlAt, AtTask, StateOK, Live
<1>22. CASE WalkEnd(c)
  BY <1>22 DEF WalkEnd, Return, BornInv, Born, CtlInv, CtlAt, AtTask, StateOK, Live
<1>23. CASE HupVisit(c)
  BY <1>23 DEF HupVisit, Goto, Advance, At, BornInv, Born, CtlInv, CtlAt, AtTask, StateOK, Live
<1>24. CASE HupFlush(c)
  BY <1>24 DEF HupFlush, Goto, Oops, Flush, BornInv, Born, CtlInv, CtlAt, AtTask, StateOK, Live
<1>25. CASE HupAdvance(c)
  BY <1>25 DEF HupAdvance, Goto, Advance, BornInv, Born, CtlInv, CtlAt, AtTask, StateOK, Live
<1>26. CASE UseAfterFree(c)
  BY <1>26 DEF UseAfterFree, CursorFreed, Goto, Advance, Oops, BornInv, Born, CtlInv, CtlAt, AtTask, StateOK, Live
<1>27. CASE RecoverVisit(c)
  BY <1>27 DEF RecoverVisit, Advance, At, RestoredCloak, BornInv, Born, CtlInv, CtlAt, AtTask, StateOK, Live
<1>28. CASE ListVisit(c)
  BY <1>28 DEF ListVisit, Advance, At, BornInv, Born, CtlInv, CtlAt, AtTask, StateOK, Live
<1>29. ASSUME NEW v \in FlagValue, proc_write_hidden(c, v)
     PROVE  (task'[c] # 0 => Born(task'[c])) /\ (\A q \in Pid : life[q] = "new" => cloak'[q] = 0)
  BY <1>29 DEF proc_write_hidden, Begin, Return, StoreFlag, BornInv, Born, CtlInv, CtlAt, AtTask, StateOK, Live
<1>30. CASE Leave(c)
  BY <1>30 DEF Leave, Goto, BornInv, Born, CtlInv, CtlAt, AtTask, StateOK, Live
<1>31. QED
  BY <1>1, <1>2, <1>3, <1>4, <1>5, <1>6, <1>7, <1>8, <1>9, <1>10, <1>11, <1>12, <1>13, <1>14, <1>15,
     <1>16, <1>17, <1>18, <1>19, <1>20, <1>21, <1>22, <1>23, <1>24, <1>25, <1>26, <1>27, <1>28, <1>29, <1>30 DEF Step

LEMMA SystemBorn ==
    ASSUME StateOK, CtlInv, BornInv, System
    PROVE  BornInv'
<1> USE DEF BornInv, Born, Live, StateOK, ctl
<1>1. ASSUME NEW parent \in Pid, NEW p \in Pid, NEW leader \in BOOLEAN,
            DupTask(parent, p, leader)
     PROVE  BornInv'
  BY <1>1 DEF DupTask, ChildCloak
<1>2. ASSUME NEW p \in Pid, Attach(p) PROVE BornInv'
  BY <1>2 DEF Attach
<1>3. ASSUME NEW p \in Pid, ForkFail(p) PROVE BornInv'
  BY <1>3 DEF ForkFail
<1>4. ASSUME NEW p \in Pid, Reap(p) PROVE BornInv'
  BY <1>4 DEF Reap, Leaders
<1>5. ASSUME NEW p \in Pid, RcuPut(p) PROVE BornInv'
  BY <1>5 DEF RcuPut
<1>6. ASSUME NEW p \in Pid, Shrink(p) PROVE BornInv'
  BY <1>6 DEF Shrink, procs
<1>7. ASSUME NEW p \in Pid, NEW b \in BinName, Exec(p, b) PROVE BornInv'
  BY <1>7 DEF Exec
<1>8. QED BY <1>1, <1>2, <1>3, <1>4, <1>5, <1>6, <1>7 DEF System

LEMMA NextBorn == TC /\ BornInv /\ [Next]_vars => BornInv'
<1> SUFFICES ASSUME TC, BornInv, [Next]_vars PROVE BornInv' OBVIOUS
<1>0. StateOK /\ CtlInv BY DEF TC, TypeOK
<1>1. CASE System BY <1>0, <1>1, SystemBorn
<1>2. ASSUME NEW c \in Caller, Step(c) PROVE BornInv'
  <2>1. UNCHANGED procs /\ \A d \in Caller \ {c} : SameAt(d) BY <1>0, <1>2, StepFrame
  <2>2. /\ task'[c] # 0 => Born(task'[c])
        /\ \A q \in Pid : life[q] = "new" => cloak'[q] = 0
    BY <1>0, <1>2, StepBorn
  <2>3. QED BY <2>1, <2>2 DEF BornInv, Born, SameAt, procs
<1>3. CASE UNCHANGED vars BY <1>3 DEF BornInv, Born, vars, procs, ctl
<1>4. QED BY <1>1, <1>2, <1>3 DEF Next

LEMMA InitBorn == Init => BornInv
<1> SUFFICES ASSUME Init PROVE BornInv OBVIOUS
<1>1. Boot \subseteq Pid BY WorkloadAssumption DEF Init, Workload, Boot
<1>2. \A p \in Pid : nxt[p] # 0 => nxt[p] \in Boot BY DEF Init
<1>3. QED BY <1>1, <1>2, PidAssumption DEF Init, BornInv, Born

\* A process appears with cloak 0 whatever its parent's cloak is and whoever
\* hides the parent while copy_process runs: no call can reach the child before
\* it is attached.
THEOREM ForkedIsVisible == Spec => ForkVisible
<1> DEFINE A == \A p \in Pid : life[p] = "new" /\ life'[p] = "live" => cloak'[p] = 0
<1>1. ASSUME TC, BornInv, [Next]_vars PROVE [A]_vars
  <2>0. StateOK /\ CtlInv BY <1>1 DEF TC, TypeOK
  <2>1. ASSUME NEW c \in Caller, Step(c) PROVE A
    BY <1>1, <2>0, <2>1, StepFrame DEF procs
  <2>2. ASSUME System PROVE A
    BY <1>1, <2>0, <2>2 DEF System, DupTask, Attach, ForkFail, Reap, RcuPut, Shrink, Exec,
                            procs, BornInv, StateOK
  <2>3. QED BY <1>1, <2>1, <2>2 DEF Next
<1>2. QED BY <1>1, InitTC, NextTC, InitBorn, NextBorn, PTL DEF Spec, ForkVisible

(***************************************************************************)
(* The cache.                                                              *)
(***************************************************************************)
\* What Observe says of one pid.
LapsedAt(p) ==
    p \in lapsed' <=>
        /\ p \in dentry' \/ \E c \in Caller : Past(c, p)'
        /\ \/ p \in lapsed
           \/ (\E c \in Caller : Past(c, p)) /\ p \in sib \ sib'
           \/ /\ Hid(p)' /\ ~Hid(p)
              /\ hidden_flag' # hidden_flag \/ \E c \in Caller : Past(c, p)

LEMMA ObserveLapsed == ASSUME Observe, NEW p \in Pid PROVE LapsedAt(p)
BY DEF Observe, LapsedAt, PastCheck, Past, HiddenNow, Hid

LEMMA StepCache ==
    ASSUME StateOK, CtlInv, NEW c \in Caller, Step(c), NEW q \in Pid, CacheAt(q), LapsedAt(q)
    PROVE  CacheAt(q)'
<1>1. ASSUME NEW p \in Pid, LookupCached(c, p)
     PROVE  CacheAt(q)'
  BY <1>1 DEF LookupCached, Begin, Return, LapsedAt, CacheAt, Past, Flushing, Hid, Live, StateOK, procs, cache
<1>2. ASSUME NEW p \in Pid, LookupFind(c, p)
     PROVE  CacheAt(q)'
  BY <1>2 DEF LookupFind, Begin, Return, Goto, Get, LapsedAt, CacheAt, Past, Flushing, Hid, Live, StateOK, procs, cache
<1>3. CASE LookupFlag(c)
  BY <1>3 DEF LookupFlag, Goto, LapsedAt, CacheAt, Past, Flushing, Hid, Live, StateOK, procs, cache
<1>4. CASE LookupCloak(c)
  BY <1>4 DEF LookupCloak, CloakHides, Goto, Return, LapsedAt, CacheAt, Past, Flushing, Hid, Live, StateOK, procs, cache
<1>5. CASE LookupMake(c)
  BY <1>5 DEF LookupMake, Goto, Return, Put, LapsedAt, CacheAt, Past, Flushing, Hid, Live, StateOK, procs, cache
<1>6. CASE Splice(c)
  BY <1>6 DEF Splice, Goto, Return, Put, LapsedAt, CacheAt, Past, Flushing, Hid, Live, StateOK, procs, cache
<1>7. CASE ReaddirStart(c)
  BY <1>7 DEF ReaddirStart, Begin, Goto, LapsedAt, CacheAt, Past, Flushing, Hid, Live, StateOK, procs, cache
<1>8. CASE NextTgid(c)
  BY <1>8 DEF NextTgid, Goto, Return, Put, Leaders, AfterTgid, LapsedAt, CacheAt, Past, Flushing, Hid, Live, StateOK, procs, cache
<1>9. CASE ReaddirFlag(c)
  BY <1>9 DEF ReaddirFlag, Goto, LapsedAt, CacheAt, Past, Flushing, Hid, Live, StateOK, procs, cache
<1>10. CASE ReaddirCloak(c)
  BY <1>10 DEF ReaddirCloak, CloakHides, Goto, AfterTgid, LapsedAt, CacheAt, Past, Flushing, Hid, Live, StateOK, procs, cache
<1>11. CASE FillCache(c)
  BY <1>11 DEF FillCache, Goto, LapsedAt, CacheAt, Past, Flushing, Hid, Live, StateOK, procs, cache
<1>12. CASE Emit(c)
  BY <1>12 DEF Emit, Goto, AfterTgid, LapsedAt, CacheAt, Past, Flushing, Hid, Live, StateOK, procs, cache
<1>13. CASE EmitFull(c)
  BY <1>13 DEF EmitFull, Goto, Put, LapsedAt, CacheAt, Past, Flushing, Hid, Live, StateOK, procs, cache
<1>14. CASE ReaddirResume(c)
  BY <1>14 DEF ReaddirResume, Goto, LapsedAt, CacheAt, Past, Flushing, Hid, Live, StateOK, procs, cache
<1>15. ASSUME NEW p \in Pid, NEW on \in OnValue, HideFind(c, p, on)
     PROVE  CacheAt(q)'
  BY <1>15 DEF HideFind, Begin, Goto, Return, LapsedAt, CacheAt, Past, Flushing, Hid, Live, StateOK, procs, cache
<1>16. CASE HideSet(c)
  BY <1>16 DEF HideSet, Goto, LapsedAt, CacheAt, Past, Flushing, Hid, Live, StateOK, procs, cache
<1>17. CASE HideFlush(c)
  BY <1>17 DEF HideFlush, Goto, Return, Oops, Flush, LapsedAt, CacheAt, Past, Flushing, Hid, Live, StateOK, procs, cache
<1>18. ASSUME NEW u \in Uid, NEW b \in BinName \cup {NoBin}, NEW all \in BOOLEAN,
            HupStart(c, u, b, all)
     PROVE  CacheAt(q)'
  BY <1>18 DEF HupStart, Begin, StartWalk, Goto, LapsedAt, CacheAt, Past, Flushing, Hid, Live, StateOK, procs, cache
<1>19. CASE RecoverStart(c)
  BY <1>19 DEF RecoverStart, Begin, StartWalk, Goto, LapsedAt, CacheAt, Past, Flushing, Hid, Live, StateOK, procs, cache
<1>20. CASE HupRefused(c)
  BY <1>20 DEF HupRefused, Begin, Return, LapsedAt, CacheAt, Past, Flushing, Hid, Live, StateOK, procs, cache
<1>21. CASE ListStart(c)
  BY <1>21 DEF ListStart, Begin, StartWalk, Goto, LapsedAt, CacheAt, Past, Flushing, Hid, Live, StateOK, procs, cache
<1>22. CASE WalkEnd(c)
  BY <1>22 DEF WalkEnd, Return, LapsedAt, CacheAt, Past, Flushing, Hid, Live, StateOK, procs, cache
<1>23. CASE HupVisit(c)
  BY <1>23 DEF HupVisit, Goto, Advance, At, LapsedAt, CacheAt, Past, Flushing, Hid, Live, StateOK, procs, cache
<1>24. CASE HupFlush(c)
  BY <1>24 DEF HupFlush, Goto, Oops, Flush, LapsedAt, CacheAt, Past, Flushing, Hid, Live, StateOK, procs, cache
<1>25. CASE HupAdvance(c)
  BY <1>25 DEF HupAdvance, Goto, Advance, LapsedAt, CacheAt, Past, Flushing, Hid, Live, StateOK, procs, cache
<1>26. CASE UseAfterFree(c)
  BY <1>26 DEF UseAfterFree, CursorFreed, Goto, Advance, Oops, LapsedAt, CacheAt, Past, Flushing, Hid, Live, StateOK, procs, cache
<1>27. CASE RecoverVisit(c)
  BY <1>27 DEF RecoverVisit, Advance, At, RestoredCloak, LapsedAt, CacheAt, Past, Flushing, Hid, Live, StateOK, procs, cache
<1>28. CASE ListVisit(c)
  BY <1>28 DEF ListVisit, Advance, At, LapsedAt, CacheAt, Past, Flushing, Hid, Live, StateOK, procs, cache
<1>29. ASSUME NEW v \in FlagValue, proc_write_hidden(c, v)
     PROVE  CacheAt(q)'
  BY <1>29 DEF proc_write_hidden, Begin, Return, StoreFlag, LapsedAt, CacheAt, Past, Flushing, Hid, Live, StateOK, procs, cache
<1>30. CASE Leave(c)
  BY <1>30 DEF Leave, Goto, LapsedAt, CacheAt, Past, Flushing, Hid, Live, StateOK, procs, cache
<1>31. QED
  BY <1>1, <1>2, <1>3, <1>4, <1>5, <1>6, <1>7, <1>8, <1>9, <1>10, <1>11, <1>12, <1>13, <1>14, <1>15,
     <1>16, <1>17, <1>18, <1>19, <1>20, <1>21, <1>22, <1>23, <1>24, <1>25, <1>26, <1>27, <1>28, <1>29, <1>30 DEF Step

LEMMA SystemCache ==
    ASSUME StateOK, CtlInv, BornInv, System, NEW q \in Pid, CacheAt(q), LapsedAt(q)
    PROVE  CacheAt(q)'
<1> USE DEF LapsedAt, CacheAt, Past, Flushing, Hid, Live, StateOK, ctl
<1>1. ASSUME NEW parent \in Pid, NEW p \in Pid, NEW leader \in BOOLEAN,
            DupTask(parent, p, leader)
     PROVE  CacheAt(q)'
  BY <1>1 DEF DupTask, ChildCloak, cache
<1>2. ASSUME NEW p \in Pid, Attach(p) PROVE CacheAt(q)'
  BY <1>2 DEF Attach, BornInv, cache
<1>3. ASSUME NEW p \in Pid, ForkFail(p) PROVE CacheAt(q)'
  BY <1>3 DEF ForkFail, cache
<1>4. ASSUME NEW p \in Pid, Reap(p) PROVE CacheAt(q)'
  BY <1>4 DEF Reap
<1>5. ASSUME NEW p \in Pid, RcuPut(p) PROVE CacheAt(q)'
  BY <1>5 DEF RcuPut, cache
<1>6. ASSUME NEW p \in Pid, Shrink(p) PROVE CacheAt(q)'
  BY <1>6 DEF Shrink, procs
<1>7. ASSUME NEW p \in Pid, NEW b \in BinName, Exec(p, b) PROVE CacheAt(q)'
  BY <1>7 DEF Exec, cache
<1>8. QED BY <1>1, <1>2, <1>3, <1>4, <1>5, <1>6, <1>7 DEF System

LEMMA NextCache == TC /\ BornInv /\ CacheInv /\ [Next]_vars => CacheInv'
<1> SUFFICES ASSUME TC, BornInv, CacheInv, [Next]_vars, NEW q \in Pid
             PROVE  CacheAt(q)'
  BY DEF CacheInv
<1>0. StateOK /\ CtlInv /\ CacheAt(q) BY DEF TC, TypeOK, CacheInv
<1>1. CASE System /\ Observe BY <1>0, <1>1, ObserveLapsed, SystemCache
<1>2. ASSUME NEW c \in Caller, Step(c), Observe PROVE CacheAt(q)'
  BY <1>0, <1>2, ObserveLapsed, StepCache
<1>3. CASE UNCHANGED vars
  BY <1>0, <1>3 DEF CacheAt, Past, Flushing, Hid, Live, vars, procs, cache, ctl, hist
<1>4. QED BY <1>1, <1>2, <1>3 DEF Next

LEMMA InitCache == Init => CacheInv
BY DEF Init, CacheInv, CacheAt, Past, Hid

LEMMA CacheInvCloses == CacheInv => CacheClosed
BY DEF CacheInv, CacheAt, CacheClosed, HiddenNow, Hid, FlushPending, Flushing

\* Whatever lookups, scans, hides, flag writes, forks, exits and cache
\* evictions interleave, a hidden process keeps a cached dentry only while its
\* flush is due, or if one of the three lapses of CacheClosed happened to it.
THEOREM HiddenLeavesCache == Spec => []CacheClosed
BY InitTC, NextTC, InitBorn, NextBorn, InitCache, NextCache, CacheInvCloses, PTL DEF Spec

(***************************************************************************)
(* Listings of /proc.                                                      *)
(***************************************************************************)
\* What Observe says of a caller that lists /proc.
ReaddirHist(c) ==
    op'[c] = "readdir" /\ pc'[c] # "idle" =>
        /\ pc[c] = "idle" => /\ base'[c] = HiddenNow' \ seen[c]
                             /\ also'[c] = Uncloaked(c)'
        /\ pc[c] = "rd_full" => /\ base'[c] = HiddenNow' \ seen[c]
                                /\ also'[c] = also[c] \cap Uncloaked(c)'
        /\ op[c] = "readdir" /\ pc[c] # "rd_full" =>
             /\ base'[c] = base[c] \cap HiddenNow'
             /\ also'[c] = also[c] \cap Uncloaked(c)'

LEMMA ObserveReaddir == ASSUME Observe, CtlInv, NEW c \in Caller PROVE ReaddirHist(c)
<1> SUFFICES ASSUME op'[c] = "readdir", pc'[c] # "idle" PROVE ReaddirHist(c)
  BY DEF ReaddirHist
<1>1. Subject(c)' = HiddenNow' /\ Opposite(c)' = Uncloaked(c)' BY DEF Subject, Opposite
<1>2. op[c] = "readdir" => StillBase(c) = base[c] \cap HiddenNow'
  BY <1>1 DEF StillBase, CursorFreed, CtlInv, CtlAt
<1>3. pc[c] \in {"idle", "rd_full"} => base'[c] = HiddenNow' \ seen[c]
  BY <1>1 DEF Observe
<1>4. pc[c] \notin {"idle", "rd_full"} => base'[c] = StillBase(c) BY DEF Observe
<1>5. also'[c] = IF pc[c] = "idle" THEN Uncloaked(c)' ELSE also[c] \cap Uncloaked(c)'
  BY <1>1 DEF Observe
<1>6. pc[c] = "idle" => op[c] # "readdir" BY DEF CtlInv, CtlAt
<1>7. QED BY <1>2, <1>3, <1>4, <1>5, <1>6 DEF ReaddirHist

\* A step of somebody else leaves a listing alone.
LEMMA OtherReaddir ==
    ASSUME CtlInv, NEW d \in Caller, SameAt(d), ReaddirAt(d), ReaddirHist(d)
    PROVE  ReaddirAt(d)'
<1>1. pc[d] = "idle" => op[d] # "readdir" BY DEF CtlInv, CtlAt
<1>2. QED BY <1>1 DEF ReaddirAt, ReaddirHist, SameAt

LEMMA PidLess == \A p, q \in Pid : p < q + 1 => p < q \/ p = q
BY PidAssumption

LEMMA StepReaddir ==
    ASSUME StateOK, HistOK, CtlInv, NEW c \in Caller, Step(c), ReaddirAt(c), ReaddirHist(c)
    PROVE  ReaddirAt(c)'
<1>1. ASSUME NEW p \in Pid, LookupCached(c, p)
     PROVE  ReaddirAt(c)'
  BY <1>1 DEF LookupCached, Begin, Return, ReaddirAt, CtlInv, CtlAt, AtTask, StateOK
<1>2. ASSUME NEW p \in Pid, LookupFind(c, p)
     PROVE  ReaddirAt(c)'
  BY <1>2 DEF LookupFind, Begin, Return, Goto, Get, ReaddirAt, CtlInv, CtlAt, AtTask, StateOK
<1>3. CASE LookupFlag(c)
  BY <1>3 DEF LookupFlag, Goto, ReaddirAt, CtlInv, CtlAt, AtTask, StateOK
<1>4. CASE LookupCloak(c)
  BY <1>4 DEF LookupCloak, Goto, Return, ReaddirAt, CtlInv, CtlAt, AtTask, StateOK
<1>5. CASE LookupMake(c)
  BY <1>5 DEF LookupMake, Goto, Return, Put, ReaddirAt, CtlInv, CtlAt, AtTask, StateOK
<1>6. CASE Splice(c)
  BY <1>6 DEF Splice, Goto, Return, Put, ReaddirAt, ReaddirHist, HiddenNow, Uncloaked, Leaders, Live, procs, CtlInv, CtlAt, AtTask, StateOK
<1>7. CASE ReaddirStart(c)
  <2>1. /\ pc[c] = "idle" /\ op'[c] = "readdir" /\ pc'[c] = "rd_next"
        /\ seen[c] = {} /\ seen'[c] = {} /\ pos'[c] = 0
    BY <1>7 DEF ReaddirStart, Begin, Goto, CtlInv, CtlAt, StateOK
  <2>2. base'[c] = HiddenNow' \ seen[c] /\ also'[c] = Uncloaked(c)' BY <2>1 DEF ReaddirHist
  <2>3. \A p \in Uncloaked(c)' : ~(p < 0) BY PidAssumption DEF Uncloaked, Leaders
  <2>4. QED BY <2>1, <2>2, <2>3 DEF ReaddirAt
<1>8. CASE NextTgid(c)
  <2>0. /\ op[c] = "readdir" /\ op'[c] = "readdir" /\ pc[c] = "rd_next"
        /\ pc'[c] # "idle" /\ seen'[c] = seen[c]
    BY <1>8 DEF NextTgid, Return, Goto, CtlInv, CtlAt, StateOK
  <2>1. /\ base'[c] = base[c] \cap HiddenNow'
        /\ also'[c] = also[c] \cap Uncloaked(c)'
    BY <2>0 DEF ReaddirHist
  <2>2. also[c] \subseteq Leaders /\ base[c] \cap seen[c] = {}
        /\ \A p \in also[c] : p < pos[c] => p \in seen[c]
    BY <2>0 DEF ReaddirAt, Uncloaked
  <2>3. pos[c] \in Nat /\ \A p \in Leaders : p \in Nat BY PidAssumption DEF StateOK, Leaders
  <2>4. CASE {p \in Leaders : p >= pos[c]} = {}
    <3>1. also[c] \subseteq seen[c] BY <2>2, <2>3, <2>4
    <3>2. pc'[c] = "ret" BY <1>8, <2>4 DEF NextTgid, Return, StateOK
    <3>3. QED BY <2>0, <2>1, <2>2, <3>1, <3>2 DEF ReaddirAt
  <2>5. ASSUME NEW p \in Leaders, p >= pos[c],
               \A q \in {r \in Leaders : r >= pos[c]} : p <= q,
               task' = [task EXCEPT ![c] = p],
               \/ pc' = [pc EXCEPT ![c] = "rd_flag"] /\ pos' = [pos EXCEPT ![c] = p]
               \/ /\ ~has_pid_permissions(c, p, HIDEPID_INVISIBLE)
                  /\ pc' = pc /\ pos' = [pos EXCEPT ![c] = p + 1]
        PROVE  ReaddirAt(c)'
    <3>1. \A q \in also[c] : q < p => q \in seen[c] BY <2>2, <2>3, <2>5
    <3>2. ~has_pid_permissions(c, p, HIDEPID_INVISIBLE) => p \notin Uncloaked(c)'
      BY DEF Uncloaked
    <3>3. \A q \in also'[c] : q < pos'[c] => q \in seen[c]
      BY <2>1, <2>2, <2>3, <2>5, <3>1, <3>2 DEF StateOK
    <3>4. pc'[c] \in {"rd_flag", "rd_next"} /\ (pc'[c] = "rd_flag" => pos'[c] = task'[c])
      BY <2>0, <2>5 DEF StateOK
    <3>5. QED BY <2>0, <2>1, <2>2, <3>3, <3>4 DEF ReaddirAt
  <2>6. QED BY <1>8, <2>4, <2>5 DEF NextTgid, Goto, AfterTgid
<1>9. CASE ReaddirFlag(c)
  BY <1>9 DEF ReaddirFlag, Goto, ReaddirAt, ReaddirHist, HiddenNow, Uncloaked, Leaders, Live, procs, CtlInv, CtlAt, AtTask, StateOK
<1>10. CASE ReaddirCloak(c)
  <2>1. /\ op[c] = "readdir" /\ op'[c] = "readdir" /\ pc[c] = "rd_cloak"
        /\ seen'[c] = seen[c] /\ task'[c] = task[c] /\ task[c] \in Pid /\ pos[c] = task[c]
        /\ pc'[c] \in {"rd_next", "rd_fill"}
    BY <1>10 DEF ReaddirCloak, Goto, CtlInv, CtlAt, AtTask, StateOK, ReaddirAt
  <2>2. /\ base'[c] = base[c] \cap HiddenNow'
        /\ also'[c] = also[c] \cap Uncloaked(c)'
    BY <2>1 DEF ReaddirHist
  <2>3. \A p \in also[c] : p \in Pid /\ (p < pos[c] => p \in seen[c])
    BY <2>1 DEF ReaddirAt, HistOK
  <2>4. CASE cloak[task[c]] = 1
    <3>1. task[c] \notin Uncloaked(c)' BY <1>10, <2>4 DEF ReaddirCloak, Uncloaked
    <3>2. pc'[c] = "rd_next" /\ pos'[c] = pos[c] + 1
      BY <1>10, <2>4 DEF ReaddirCloak, CloakHides, Goto, AfterTgid, StateOK
    <3>3. \A p \in also'[c] : p < pos'[c] => p \in seen[c]
      BY <2>1, <2>2, <2>3, <3>1, <3>2, PidLess
    <3>4. QED BY <2>1, <2>2, <3>2, <3>3 DEF ReaddirAt
  <2>5. CASE cloak[task[c]] # 1
    <3>1. task[c] \notin HiddenNow' BY <1>10, <2>5 DEF ReaddirCloak, HiddenNow
    <3>2. pc'[c] = "rd_fill" /\ pos'[c] = pos[c]
      BY <1>10, <2>5 DEF ReaddirCloak, CloakHides, Goto, StateOK
    <3>3. QED BY <2>1, <2>2, <2>3, <3>1, <3>2 DEF ReaddirAt
  <2>6. QED BY <2>4, <2>5
<1>11. CASE FillCache(c)
  BY <1>11 DEF FillCache, Goto, ReaddirAt, ReaddirHist, HiddenNow, Uncloaked, Leaders, Live, procs, CtlInv, CtlAt, AtTask, StateOK
<1>12. CASE Emit(c)
  <2>1. /\ op[c] = "readdir" /\ op'[c] = "readdir" /\ pc[c] = "rd_emit"
        /\ seen'[c] = seen[c] \cup {task[c]} /\ task[c] \in Pid /\ pos[c] = task[c]
        /\ pc'[c] = "rd_next" /\ pos'[c] = pos[c] + 1 /\ task[c] \notin base[c]
    BY <1>12 DEF Emit, Goto, AfterTgid, CtlInv, CtlAt, AtTask, StateOK, ReaddirAt
  <2>2. /\ base'[c] = base[c] \cap HiddenNow'
        /\ also'[c] = also[c] \cap Uncloaked(c)'
    BY <2>1 DEF ReaddirHist
  <2>3. \A p \in also[c] : p \in Pid /\ (p < pos[c] => p \in seen[c])
    BY <2>1 DEF ReaddirAt, HistOK
  <2>4. \A p \in also'[c] : p < pos'[c] => p \in seen'[c]
    BY <2>1, <2>2, <2>3, PidLess
  <2>5. QED BY <2>1, <2>2, <2>4 DEF ReaddirAt
<1>13. CASE EmitFull(c)
  BY <1>13 DEF EmitFull, Goto, Put, ReaddirAt, ReaddirHist, HiddenNow, Uncloaked, Leaders, Live, procs, CtlInv, CtlAt, AtTask, StateOK
<1>14. CASE ReaddirResume(c)
  BY <1>14 DEF ReaddirResume, Goto, ReaddirAt, ReaddirHist, HiddenNow, Uncloaked, Leaders, Live, procs, CtlInv, CtlAt, AtTask, StateOK
<1>15. ASSUME NEW p \in Pid, NEW on \in OnValue, HideFind(c, p, on)
     PROVE  ReaddirAt(c)'
  BY <1>15 DEF HideFind, Begin, Goto, Return, ReaddirAt, CtlInv, CtlAt, AtTask, StateOK
<1>16. CASE HideSet(c)
  BY <1>16 DEF HideSet, Goto, ReaddirAt, CtlInv, CtlAt, AtTask, StateOK
<1>17. CASE HideFlush(c)
  BY <1>17 DEF HideFlush, Goto, Return, Oops, Flush, ReaddirAt, CtlInv, CtlAt, AtTask, StateOK
<1>18. ASSUME NEW u \in Uid, NEW b \in BinName \cup {NoBin}, NEW all \in BOOLEAN,
            HupStart(c, u, b, all)
     PROVE  ReaddirAt(c)'
  BY <1>18 DEF HupStart, Begin, StartWalk, Goto, ReaddirAt, CtlInv, CtlAt, AtTask, StateOK
<1>19. CASE RecoverStart(c)
  BY <1>19 DEF RecoverStart, Begin, StartWalk, Goto, ReaddirAt, CtlInv, CtlAt, AtTask, StateOK
<1>20. CASE HupRefused(c)
  BY <1>20 DEF HupRefused, Begin, Return, ReaddirAt, CtlInv, CtlAt, AtTask, StateOK
<1>21. CASE ListStart(c)
  BY <1>21 DEF ListStart, Begin, StartWalk, Goto, ReaddirAt, CtlInv, CtlAt, AtTask, StateOK
<1>22. CASE WalkEnd(c)
  BY <1>22 DEF WalkEnd, Return, ReaddirAt, CtlInv, CtlAt, AtTask, StateOK
<1>23. CASE HupVisit(c)
  BY <1>23 DEF HupVisit, Goto, Advance, At, ReaddirAt, CtlInv, CtlAt, AtTask, StateOK
<1>24. CASE HupFlush(c)
  BY <1>24 DEF HupFlush, Goto, Oops, Flush, ReaddirAt, CtlInv, CtlAt, AtTask, StateOK
<1>25. CASE HupAdvance(c)
  BY <1>25 DEF HupAdvance, Goto, Advance, ReaddirAt, CtlInv, CtlAt, AtTask, StateOK
<1>26. CASE UseAfterFree(c)
  BY <1>26 DEF UseAfterFree, CursorFreed, Goto, Advance, Oops, ReaddirAt, CtlInv, CtlAt, AtTask, StateOK
<1>27. CASE RecoverVisit(c)
  BY <1>27 DEF RecoverVisit, Advance, At, RestoredCloak, ReaddirAt, CtlInv, CtlAt, AtTask, StateOK
<1>28. CASE ListVisit(c)
  BY <1>28 DEF ListVisit, Advance, At, ReaddirAt, CtlInv, CtlAt, AtTask, StateOK
<1>29. ASSUME NEW v \in FlagValue, proc_write_hidden(c, v)
     PROVE  ReaddirAt(c)'
  BY <1>29 DEF proc_write_hidden, Begin, Return, StoreFlag, ReaddirAt, CtlInv, CtlAt, AtTask, StateOK
<1>30. CASE Leave(c)
  BY <1>30 DEF Leave, Goto, ReaddirAt, CtlInv, CtlAt, AtTask, StateOK
<1>31. QED
  BY <1>1, <1>2, <1>3, <1>4, <1>5, <1>6, <1>7, <1>8, <1>9, <1>10, <1>11, <1>12, <1>13, <1>14, <1>15,
     <1>16, <1>17, <1>18, <1>19, <1>20, <1>21, <1>22, <1>23, <1>24, <1>25, <1>26, <1>27, <1>28, <1>29, <1>30 DEF Step

LEMMA NextReaddir == TC /\ ReaddirInv /\ [Next]_vars => ReaddirInv'
<1> SUFFICES ASSUME TC, ReaddirInv, [Next]_vars, NEW d \in Caller PROVE ReaddirAt(d)'
  BY DEF ReaddirInv
<1>0. StateOK /\ HistOK /\ CtlInv /\ ReaddirAt(d) BY DEF TC, TypeOK, ReaddirInv
<1>1. CASE System /\ Observe
  <2>1. SameAt(d) BY <1>0, <1>1, SystemState DEF ctl, SameAt
  <2>2. QED BY <1>0, <1>1, <2>1, ObserveReaddir, OtherReaddir
<1>2. ASSUME NEW c \in Caller, Step(c), Observe PROVE ReaddirAt(d)'
  <2>1. ReaddirHist(d) BY <1>0, <1>2, ObserveReaddir
  <2>2. CASE d = c BY <1>0, <1>2, <2>1, <2>2, StepReaddir
  <2>3. CASE d # c
    <3>1. SameAt(d) BY <1>0, <1>2, <2>3, StepFrame
    <3>2. QED BY <1>0, <2>1, <3>1, OtherReaddir
  <2>4. QED BY <2>2, <2>3
<1>3. CASE UNCHANGED vars
  BY <1>0, <1>3 DEF ReaddirAt, HiddenNow, Uncloaked, Leaders, Leader, Live,
                    vars, procs, ctl, hist
<1>4. QED BY <1>1, <1>2, <1>3 DEF Next

LEMMA InitReaddir == Init => ReaddirInv
BY DEF Init, ReaddirInv, ReaddirAt

\* No getdents call on /proc ever shows a process that has been hidden since
\* the call began.
THEOREM ListingHonoursHide == Spec => []ReaddirHonoursHide
<1>1. ReaddirInv => ReaddirHonoursHide BY DEF ReaddirInv, ReaddirAt, ReaddirHonoursHide
<1>2. QED BY InitTC, NextTC, InitReaddir, NextReaddir, <1>1, PTL DEF Spec

\* Every complete listing of /proc shows all processes that were there,
\* permitted and uncloaked throughout.
THEOREM ListingComplete == Spec => []ReaddirComplete
<1>1. ReaddirInv => ReaddirComplete BY DEF ReaddirInv, ReaddirAt, ReaddirComplete
<1>2. QED BY InitTC, NextTC, InitReaddir, NextReaddir, <1>1, PTL DEF Spec

(***************************************************************************)
(* References to tasks.                                                    *)
(***************************************************************************)
\* The reference of caller c to p, as a number.
Held(c, p) == IF task[c] = p /\ op[c] \in {"lookup", "readdir"} THEN 1 ELSE 0

LEMMA HoldersFinite ==
    ASSUME NEW p \in Pid
    PROVE  /\ IsFiniteSet(Holders(p)) /\ Cardinality(Holders(p)) \in Nat
           /\ IsFiniteSet(Holders(p)') /\ Cardinality(Holders(p)') \in Nat
<1>1. Holders(p) \subseteq Caller /\ Holders(p)' \subseteq Caller BY DEF Holders
<1>2. QED BY <1>1, CallerAssumption, FS_Subset, FS_CardinalityType

\* A step of c changes the number of holders by c's own reference.
LEMMA HoldersStep ==
    ASSUME NEW c \in Caller, \A d \in Caller \ {c} : SameAt(d), NEW p \in Pid
    PROVE  Cardinality(Holders(p)') = Cardinality(Holders(p)) + Held(c, p)' - Held(c, p)
<1>0. IsFiniteSet(Holders(p)) /\ Cardinality(Holders(p)) \in Nat BY HoldersFinite
<1>1. CASE c \in Holders(p) /\ c \in Holders(p)'
  <2>1. Holders(p)' = Holders(p) BY <1>1 DEF Holders, SameAt
  <2>2. QED BY <1>0, <1>1, <2>1 DEF Held, Holders
<1>2. CASE c \notin Holders(p) /\ c \notin Holders(p)'
  <2>1. Holders(p)' = Holders(p) BY <1>2 DEF Holders, SameAt
  <2>2. Held(c, p) = 0 /\ Held(c, p)' = 0 BY <1>2 DEF Held, Holders
  <2>3. QED BY <1>0, <2>1, <2>2
<1>3. CASE c \notin Holders(p) /\ c \in Holders(p)'
  <2>1. Holders(p)' = Holders(p) \cup {c} BY <1>3 DEF Holders, SameAt
  <2>2. Cardinality(Holders(p) \cup {c}) = Cardinality(Holders(p)) + 1
    BY <1>0, <1>3, FS_AddElement
  <2>3. Held(c, p) = 0 /\ Held(c, p)' = 1 BY <1>3 DEF Held, Holders
  <2>4. QED BY <1>0, <2>1, <2>2, <2>3
<1>4. CASE c \in Holders(p) /\ c \notin Holders(p)'
  <2>1. Holders(p)' = Holders(p) \ {c} BY <1>4 DEF Holders, SameAt
  <2>2. Cardinality(Holders(p) \ {c}) = Cardinality(Holders(p)) - 1
    BY <1>0, <1>4, FS_RemoveElement
  <2>3. Held(c, p) = 1 /\ Held(c, p)' = 0 BY <1>4 DEF Held, Holders
  <2>4. QED BY <1>0, <2>1, <2>2, <2>3
<1>5. QED BY <1>1, <1>2, <1>3, <1>4

LEMMA StepUsage ==
    ASSUME StateOK, CtlInv, NEW c \in Caller, Step(c), NEW q \in Pid
    PROVE  usage'[q] - usage[q] >= Held(c, q)' - Held(c, q)
<1>1. ASSUME NEW p \in Pid, LookupCached(c, p)
     PROVE  usage'[q] - usage[q] >= Held(c, q)' - Held(c, q)
  BY <1>1, PidAssumption DEF LookupCached, Begin, Return, Held, CtlInv, CtlAt, AtTask, StateOK
<1>2. ASSUME NEW p \in Pid, LookupFind(c, p)
     PROVE  usage'[q] - usage[q] >= Held(c, q)' - Held(c, q)
  BY <1>2, PidAssumption DEF LookupFind, Begin, Return, Goto, Get, Held, CtlInv, CtlAt, AtTask, StateOK
<1>3. CASE LookupFlag(c)
  BY <1>3, PidAssumption DEF LookupFlag, Goto, Held, CtlInv, CtlAt, AtTask, StateOK
<1>4. CASE LookupCloak(c)
  BY <1>4, PidAssumption DEF LookupCloak, Goto, Return, Held, CtlInv, CtlAt, AtTask, StateOK
<1>5. CASE LookupMake(c)
  BY <1>5, PidAssumption DEF LookupMake, Goto, Return, Put, Held, CtlInv, CtlAt, AtTask, StateOK
<1>6. CASE Splice(c)
  BY <1>6, PidAssumption DEF Splice, Goto, Return, Put, Held, CtlInv, CtlAt, AtTask, StateOK
<1>7. CASE ReaddirStart(c)
  BY <1>7, PidAssumption DEF ReaddirStart, Begin, Goto, Held, CtlInv, CtlAt, AtTask, StateOK
<1>8. CASE NextTgid(c)
  BY <1>8, PidAssumption DEF NextTgid, Goto, Return, Put, Leaders, AfterTgid, Held, CtlInv, CtlAt, AtTask, StateOK
<1>9. CASE ReaddirFlag(c)
  BY <1>9, PidAssumption DEF ReaddirFlag, Goto, Held, CtlInv, CtlAt, AtTask, StateOK
<1>10. CASE ReaddirCloak(c)
  BY <1>10, PidAssumption DEF ReaddirCloak, Goto, AfterTgid, Held, CtlInv, CtlAt, AtTask, StateOK
<1>11. CASE FillCache(c)
  BY <1>11, PidAssumption DEF FillCache, Goto, Held, CtlInv, CtlAt, AtTask, StateOK
<1>12. CASE Emit(c)
  BY <1>12, PidAssumption DEF Emit, Goto, AfterTgid, Held, CtlInv, CtlAt, AtTask, StateOK
<1>13. CASE EmitFull(c)
  BY <1>13, PidAssumption DEF EmitFull, Goto, Put, Held, CtlInv, CtlAt, AtTask, StateOK
<1>14. CASE ReaddirResume(c)
  BY <1>14, PidAssumption DEF ReaddirResume, Goto, Held, CtlInv, CtlAt, AtTask, StateOK
<1>15. ASSUME NEW p \in Pid, NEW on \in OnValue, HideFind(c, p, on)
     PROVE  usage'[q] - usage[q] >= Held(c, q)' - Held(c, q)
  BY <1>15, PidAssumption DEF HideFind, Begin, Goto, Return, Held, CtlInv, CtlAt, AtTask, StateOK
<1>16. CASE HideSet(c)
  BY <1>16, PidAssumption DEF HideSet, Goto, Held, CtlInv, CtlAt, AtTask, StateOK
<1>17. CASE HideFlush(c)
  BY <1>17, PidAssumption DEF HideFlush, Goto, Return, Oops, Flush, Held, CtlInv, CtlAt, AtTask, StateOK
<1>18. ASSUME NEW u \in Uid, NEW b \in BinName \cup {NoBin}, NEW all \in BOOLEAN,
            HupStart(c, u, b, all)
     PROVE  usage'[q] - usage[q] >= Held(c, q)' - Held(c, q)
  BY <1>18, PidAssumption DEF HupStart, Begin, StartWalk, Goto, Held, CtlInv, CtlAt, AtTask, StateOK
<1>19. CASE RecoverStart(c)
  BY <1>19, PidAssumption DEF RecoverStart, Begin, StartWalk, Goto, Held, CtlInv, CtlAt, AtTask, StateOK
<1>20. CASE HupRefused(c)
  BY <1>20, PidAssumption DEF HupRefused, Begin, Return, Held, CtlInv, CtlAt, AtTask, StateOK
<1>21. CASE ListStart(c)
  BY <1>21, PidAssumption DEF ListStart, Begin, StartWalk, Goto, Held, CtlInv, CtlAt, AtTask, StateOK
<1>22. CASE WalkEnd(c)
  BY <1>22, PidAssumption DEF WalkEnd, Return, Held, CtlInv, CtlAt, AtTask, StateOK
<1>23. CASE HupVisit(c)
  BY <1>23, PidAssumption DEF HupVisit, Goto, Advance, At, Held, CtlInv, CtlAt, AtTask, StateOK
<1>24. CASE HupFlush(c)
  BY <1>24, PidAssumption DEF HupFlush, Goto, Oops, Flush, Held, CtlInv, CtlAt, AtTask, StateOK
<1>25. CASE HupAdvance(c)
  BY <1>25, PidAssumption DEF HupAdvance, Goto, Advance, Held, CtlInv, CtlAt, AtTask, StateOK
<1>26. CASE UseAfterFree(c)
  BY <1>26, PidAssumption DEF UseAfterFree, CursorFreed, Goto, Advance, Oops, Held, CtlInv, CtlAt, AtTask, StateOK
<1>27. CASE RecoverVisit(c)
  BY <1>27, PidAssumption DEF RecoverVisit, Advance, At, RestoredCloak, Held, CtlInv, CtlAt, AtTask, StateOK
<1>28. CASE ListVisit(c)
  BY <1>28, PidAssumption DEF ListVisit, Advance, At, Held, CtlInv, CtlAt, AtTask, StateOK
<1>29. ASSUME NEW v \in FlagValue, proc_write_hidden(c, v)
     PROVE  usage'[q] - usage[q] >= Held(c, q)' - Held(c, q)
  BY <1>29, PidAssumption DEF proc_write_hidden, Begin, Return, StoreFlag, Held, CtlInv, CtlAt, AtTask, StateOK
<1>30. CASE Leave(c)
  BY <1>30, PidAssumption DEF Leave, Goto, Held, CtlInv, CtlAt, AtTask, StateOK
<1>31. QED
  BY <1>1, <1>2, <1>3, <1>4, <1>5, <1>6, <1>7, <1>8, <1>9, <1>10, <1>11, <1>12, <1>13, <1>14, <1>15,
     <1>16, <1>17, <1>18, <1>19, <1>20, <1>21, <1>22, <1>23, <1>24, <1>25, <1>26, <1>27, <1>28, <1>29, <1>30 DEF Step

LEMMA SystemRefs ==
    ASSUME StateOK, CtlInv, BornInv, NoPrematureFree, System, NEW q \in Pid
    PROVE  usage'[q] >= RcuRef(q)' + Cardinality(Holders(q)')
<1>0. Cardinality(Holders(q)) \in Nat /\ usage[q] >= RcuRef(q) + Cardinality(Holders(q))
  BY HoldersFinite DEF NoPrematureFree
<1>1. Holders(q)' = Holders(q) BY SystemState DEF Holders, ctl
<1>2. life[q] \in {"free", "new"} => Cardinality(Holders(q)) = 0
  <2>1. life[q] \in {"free", "new"} => Holders(q) = {}
    BY PidAssumption DEF Holders, BornInv, Born
  <2>2. QED BY <2>1, FS_EmptySet
<1> USE DEF RcuRef, StateOK
<1>3. ASSUME NEW parent \in Pid, NEW p \in Pid, NEW leader \in BOOLEAN,
            DupTask(parent, p, leader)
     PROVE  usage'[q] >= RcuRef(q)' + Cardinality(Holders(q)')
  BY <1>0, <1>1, <1>2, <1>3 DEF DupTask
<1>4. ASSUME NEW p \in Pid, Attach(p) PROVE usage'[q] >= RcuRef(q)' + Cardinality(Holders(q)')
  BY <1>0, <1>1, <1>4 DEF Attach
<1>5. ASSUME NEW p \in Pid, ForkFail(p) PROVE usage'[q] >= RcuRef(q)' + Cardinality(Holders(q)')
  BY <1>0, <1>1, <1>2, <1>5 DEF ForkFail
<1>6. ASSUME NEW p \in Pid, Reap(p) PROVE usage'[q] >= RcuRef(q)' + Cardinality(Holders(q)')
  BY <1>0, <1>1, <1>6 DEF Reap, Live
<1>7. ASSUME NEW p \in Pid, RcuPut(p) PROVE usage'[q] >= RcuRef(q)' + Cardinality(Holders(q)')
  BY <1>0, <1>1, <1>7 DEF RcuPut
<1>8. ASSUME NEW p \in Pid, Shrink(p) PROVE usage'[q] >= RcuRef(q)' + Cardinality(Holders(q)')
  BY <1>0, <1>1, <1>8 DEF Shrink, procs
<1>9. ASSUME NEW p \in Pid, NEW b \in BinName, Exec(p, b)
     PROVE  usage'[q] >= RcuRef(q)' + Cardinality(Holders(q)')
  BY <1>0, <1>1, <1>9 DEF Exec
<1>10. QED BY <1>3, <1>4, <1>5, <1>6, <1>7, <1>8, <1>9 DEF System

LEMMA NextRefs == TC /\ BornInv /\ NoPrematureFree /\ [Next]_vars => NoPrematureFree'
<1> SUFFICES ASSUME TC, BornInv, NoPrematureFree, [Next]_vars, NEW q \in Pid
             PROVE  (usage[q] >= RcuRef(q) + Cardinality(Holders(q)))'
  BY DEF NoPrematureFree
<1>0. StateOK /\ CtlInv /\ StateOK' BY NextTC DEF TC, TypeOK
<1>1. CASE System BY <1>0, <1>1, SystemRefs
<1>2. ASSUME NEW c \in Caller, Step(c)
     PROVE  (usage[q] >= RcuRef(q) + Cardinality(Holders(q)))'
  <2>1. UNCHANGED procs /\ \A d \in Caller \ {c} : SameAt(d) BY <1>0, <1>2, StepFrame
  <2>2. RcuRef(q)' = RcuRef(q) /\ RcuRef(q) \in {0, 1} BY <2>1 DEF RcuRef, procs
  <2>3. Cardinality(Holders(q)') = Cardinality(Holders(q)) + Held(c, q)' - Held(c, q)
    BY <2>1, HoldersStep
  <2>4. usage'[q] - usage[q] >= Held(c, q)' - Held(c, q) BY <1>0, <1>2, StepUsage
  <2>5. usage[q] >= RcuRef(q) + Cardinality(Holders(q)) BY DEF NoPrematureFree
  <2>6. /\ usage[q] \in Int /\ usage'[q] \in Int /\ Cardinality(Holders(q)) \in Nat
        /\ Held(c, q) \in Int /\ Held(c, q)' \in Int
    BY <1>0, HoldersFinite DEF StateOK, Held
  <2>7. QED BY <2>2, <2>3, <2>4, <2>5, <2>6
<1>3. CASE UNCHANGED vars
  <2>1. usage'[q] = usage[q] /\ RcuRef(q)' = RcuRef(q) /\ Holders(q)' = Holders(q)
    BY <1>3 DEF RcuRef, Holders, vars, procs, ctl
  <2>2. QED BY <2>1 DEF NoPrematureFree
<1>4. QED BY <1>1, <1>2, <1>3 DEF Next

LEMMA InitRefs == Init => NoPrematureFree
<1> SUFFICES ASSUME Init, NEW p \in Pid PROVE usage[p] >= RcuRef(p) + Cardinality(Holders(p))
  BY DEF NoPrematureFree
<1>1. Holders(p) = {} BY PidAssumption DEF Init, Holders
<1>2. Cardinality(Holders(p)) = 0 BY <1>1, FS_EmptySet
<1>3. QED BY <1>2 DEF Init, RcuRef

\* A task_struct is not freed while a lookup or a listing of /proc has it:
\* neither the exit of the process nor any other reader can take its last
\* reference away.
THEOREM ReferencesHold == Spec => []NoPrematureFree
BY InitTC, NextTC, InitBorn, NextBorn, InitRefs, NextRefs, PTL DEF Spec

(***************************************************************************)
(* The walks over the task list.  A set is closed if following the list    *)
(* does not leave it, and what lies onward of a task is in every closed    *)
(* set that the task is in.                                                *)
(***************************************************************************)
Closed(f, S) == \A x \in S : f[x] # 0 => f[x] \in S
Onward(f, p) == {q \in Pid : \A S \in SUBSET Pid : p \in S /\ Closed(f, S) => q \in S}

\* The links f make a list of L: one task is last, one is first, and the others
\* lie onward of it.
Chain(L, f) ==
    /\ f \in [Pid -> Pid \cup {0}] /\ L \subseteq Pid
    /\ \A p \in L : f[p] \in L \cup {0}
    /\ \A p, q \in L : f[p] = f[q] => p = q
    /\ L # {} => \E p \in L : f[p] = 0
    /\ L # {} => \E h \in L : (\A q \in L : f[q] # h) /\ L \subseteq Onward(f, h)

LEMMA ZeroNoPid == 0 \notin Pid
  BY PidAssumption

\* What lies onward of a task is the task itself or onward of the next.
LEMMA OnwardNext ==
    ASSUME NEW f \in [Pid -> Pid \cup {0}], NEW p \in Pid, NEW q \in Onward(f, p), q # p
    PROVE  f[p] # 0 /\ q \in Onward(f, f[p])
<1>1. f[p] # 0
  <2> SUFFICES ASSUME f[p] = 0 PROVE FALSE
    OBVIOUS
  <2>1. Closed(f, {p}) /\ p \in {p} /\ {p} \in SUBSET Pid
    BY DEF Closed
  <2> QED
    BY <2>1 DEF Onward
<1>2. ASSUME NEW S \in SUBSET Pid, f[p] \in S, Closed(f, S) PROVE q \in S
  <2>1. S \cup {p} \in SUBSET Pid /\ p \in S \cup {p} /\ Closed(f, S \cup {p})
    BY <1>2 DEF Closed
  <2>2. q \in S \cup {p}
    BY <2>1 DEF Onward
  <2> QED
    BY <2>2
<1> QED
  BY <1>1, <1>2 DEF Onward

LEMMA OnwardSelf == ASSUME NEW f, NEW p \in Pid PROVE p \in Onward(f, p)
  BY DEF Onward

\* Only the first of a list has nobody before it.
LEMMA ChainHead ==
    ASSUME NEW L, NEW f, Chain(L, f), NEW h \in L, \A q \in L : f[q] # h,
           L \subseteq Onward(f, h), NEW p \in L, p # h
    PROVE  \E q \in L : f[q] = p
<1> DEFINE S == {h} \cup {x \in L : \E q \in L : f[q] = x}
<1>1. S \in SUBSET Pid /\ h \in S
  BY DEF Chain
<1>2. Closed(f, S)
  BY DEF Chain, Closed
<1>3. p \in S
  BY <1>1, <1>2 DEF Onward
<1> QED
  BY <1>3

(***************************************************************************)
(* copy_process adds a task at the end.                                    *)
(***************************************************************************)
Appended(L, f, a) ==
    [q \in Pid |-> IF q = a THEN 0 ELSE IF q \in L /\ f[q] = 0 THEN a ELSE f[q]]

LEMMA AppendOnward ==
    ASSUME NEW L, NEW f \in [Pid -> Pid \cup {0}], NEW a \in Pid, f[a] = 0, NEW p
    PROVE  Onward(f, p) \subseteq Onward(Appended(L, f, a), p)
<1> DEFINE g == Appended(L, f, a)
<1> SUFFICES ASSUME NEW q \in Onward(f, p), NEW S \in SUBSET Pid, p \in S, Closed(g, S)
             PROVE  q \in S
  BY DEF Onward
<1>1. ASSUME NEW x \in S, f[x] # 0 PROVE f[x] \in S
  <2>1. g[x] = f[x]
    BY <1>1 DEF Appended
  <2> QED
    BY <1>1, <2>1 DEF Closed
<1> QED
  BY <1>1 DEF Onward, Closed

LEMMA ChainAppend ==
    ASSUME NEW L, NEW f, Chain(L, f), NEW a \in Pid, a \notin L, f[a] = 0
    PROVE  Chain(L \cup {a}, Appended(L, f, a))
<1> PICK g : g = Appended(L, f, a)
  OBVIOUS
<1>0. /\ f \in [Pid -> Pid \cup {0}] /\ L \subseteq Pid /\ 0 \notin Pid
      /\ \A p \in L : f[p] \in L \cup {0}
      /\ \A p, q \in L : f[p] = f[q] => p = q
  BY ZeroNoPid DEF Chain
<1>1. /\ g \in [Pid -> Pid \cup {0}] /\ g[a] = 0
      /\ \A q \in L : g[q] = IF f[q] = 0 THEN a ELSE f[q]
  BY <1>0 DEF Appended
<1>2. \A p \in L \cup {a} : g[p] \in L \cup {a, 0}
  BY <1>0, <1>1
<1>3. \A p, q \in L \cup {a} : g[p] = g[q] => p = q
  BY <1>0, <1>1
<1>4. \E h \in L \cup {a} : (\A q \in L \cup {a} : g[q] # h) /\ L \cup {a} \subseteq Onward(g, h)
  <2>1. CASE L = {}
    <3>1. a \in Onward(g, a)
      BY OnwardSelf
    <3> QED
      BY <1>0, <1>1, <2>1, <3>1
  <2>2. CASE L # {}
    <3>1. PICK h \in L : (\A q \in L : f[q] # h) /\ L \subseteq Onward(f, h)
      BY <2>2 DEF Chain
    <3>2. PICK t \in L : f[t] = 0
      BY <2>2 DEF Chain
    <3>3. \A q \in L \cup {a} : g[q] # h
      BY <1>0, <1>1, <3>1
    <3>4. L \subseteq Onward(g, h)
      BY <1>0, <3>1, AppendOnward
    <3>5. a \in Onward(g, h)
      <4> SUFFICES ASSUME NEW S \in SUBSET Pid, h \in S, Closed(g, S) PROVE a \in S
        BY DEF Onward
      <4>1. t \in S
        BY <3>4 DEF Onward
      <4>2. g[t] = a /\ a # 0
        BY <1>0, <1>1, <3>2
      <4> QED
        BY <4>1, <4>2 DEF Closed
    <3> QED
      BY <3>3, <3>4, <3>5
  <2> QED
    BY <2>1, <2>2
<1> QED
  BY <1>0, <1>1, <1>2, <1>3, <1>4 DEF Chain

(***************************************************************************)
(* release_task takes a task out, and leaves its own link.                 *)
(***************************************************************************)
Removed(L, f, r) ==
    [q \in Pid |-> IF q \in L \ {r} /\ f[q] = r THEN f[r] ELSE f[q]]

LEMMA RemoveOnward ==
    ASSUME NEW L, NEW f \in [Pid -> Pid \cup {0}], NEW r \in Pid, NEW p
    PROVE  Onward(f, p) \ {r} \subseteq Onward(Removed(L, f, r), p)
<1> PICK g : g = Removed(L, f, r)
  OBVIOUS
<1> SUFFICES ASSUME NEW q \in Onward(f, p), q # r,
                    NEW S \in SUBSET Pid, p \in S, Closed(g, S)
             PROVE  q \in S
  BY DEF Onward
<1>1. \A x \in Pid : g[x] = IF x \in L \ {r} /\ f[x] = r THEN f[r] ELSE f[x]
  BY DEF Removed
<1>2. CASE \E x \in S : f[x] = r
  <2>1. f[r] # 0 => f[r] \in S
    <3>1. PICK x \in S : f[x] = r
      BY <1>2
    <3>2. CASE x \in L \ {r}
      BY <1>1, <3>1, <3>2 DEF Closed
    <3>3. CASE x \notin L \ {r}
      <4>1. g[x] = r /\ r # 0
        BY <1>1, <3>1, <3>3, ZeroNoPid
      <4>2. r \in S
        BY <3>1, <4>1 DEF Closed
      <4>3. g[r] = f[r]
        BY <1>1
      <4> QED
        BY <4>2, <4>3 DEF Closed
    <3> QED
      BY <3>2, <3>3
  <2>2. Closed(f, S \cup {r})
    BY <1>1, <2>1 DEF Closed
  <2>3. q \in S \cup {r}
    BY <2>2 DEF Onward
  <2> QED
    BY <2>3
<1>3. CASE \A x \in S : f[x] # r
  <2>1. Closed(f, S)
    BY <1>1, <1>3 DEF Closed
  <2> QED
    BY <2>1 DEF Onward
<1> QED
  BY <1>2, <1>3

LEMMA ChainRemove ==
    ASSUME NEW L, NEW f, Chain(L, f), NEW r \in L
    PROVE  Chain(L \ {r}, Removed(L, f, r))
<1> PICK g : g = Removed(L, f, r)
  OBVIOUS
<1>0. /\ f \in [Pid -> Pid \cup {0}] /\ L \subseteq Pid /\ 0 \notin Pid /\ L # {}
      /\ \A p \in L : f[p] \in L \cup {0}
      /\ \A p, q \in L : f[p] = f[q] => p = q
  BY ZeroNoPid DEF Chain
<1>1. g \in [Pid -> Pid \cup {0}]
  BY <1>0 DEF Removed
<1>2. \A x \in L \ {r} : g[x] = IF f[x] = r THEN f[r] ELSE f[x]
  BY <1>0 DEF Removed
<1>3. \A p \in L \ {r} : g[p] \in (L \ {r}) \cup {0}
  BY <1>0, <1>2
<1>4. \A p, q \in L \ {r} : g[p] = g[q] => p = q
  BY <1>0, <1>2
<1>5. PICK h \in L : (\A q \in L : f[q] # h) /\ L \subseteq Onward(f, h)
  BY <1>0 DEF Chain
<1>6. PICK t \in L : f[t] = 0
  BY <1>0 DEF Chain
<1>7. ASSUME L \ {r} # {} PROVE \E p \in L \ {r} : g[p] = 0
  <2>1. CASE t # r
    BY <1>0, <1>2, <1>6, <2>1
  <2>2. CASE t = r
    <3>1. t # h
      <4> SUFFICES ASSUME t = h PROVE FALSE
        OBVIOUS
      <4>1. PICK p \in L : p # h
        BY <1>7, <2>2
      <4>2. p \in Onward(f, h)
        BY <1>5
      <4> QED
        BY <1>0, <1>6, <4>1, <4>2, OnwardNext
    <3>2. PICK q \in L : f[q] = t
      BY <1>5, <3>1, ChainHead
    <3>3. q # t
      BY <1>0, <1>6, <3>2
    <3> QED
      BY <1>2, <1>6, <2>2, <3>2, <3>3
  <2> QED
    BY <2>1, <2>2
<1>8. ASSUME L \ {r} # {}
      PROVE  \E k \in L \ {r} : (\A q \in L \ {r} : g[q] # k) /\ L \ {r} \subseteq Onward(g, k)
  <2>1. CASE h # r
    <3>1. \A q \in L \ {r} : g[q] # h
      BY <1>2, <1>5
    <3>2. L \ {r} \subseteq Onward(g, h)
      BY <1>0, <1>5, RemoveOnward
    <3> QED
      BY <2>1, <3>1, <3>2
  <2>2. CASE h = r
    <3>1. \A q \in L \ {r} : f[r] # 0 /\ q \in Onward(f, f[r])
      BY <1>0, <1>5, <2>2, OnwardNext
    <3>2. f[r] \in L /\ f[r] # r
      BY <1>0, <1>5, <1>8, <2>2, <3>1
    <3>3. \A q \in L \ {r} : g[q] # f[r]
      BY <1>0, <1>2, <1>5, <2>2
    <3>4. L \ {r} \subseteq Onward(g, f[r])
      BY <1>0, <3>1, RemoveOnward
    <3> QED
      BY <3>2, <3>3, <3>4
  <2> QED
    BY <2>1, <2>2
<1> QED
  BY <1>0, <1>1, <1>3, <1>4, <1>7, <1>8 DEF Chain

(***************************************************************************)
(* The task list is a list of the leaders, and new tasks have no link.     *)
(***************************************************************************)
ListInv ==
    /\ Chain(Leaders, nxt)
    /\ \A p \in Pid : life[p] \in {"free", "new"} => nxt[p] = 0

\* A set of pids has a least one.
LEMMA LeastPid ==
    ASSUME NEW T, T \subseteq Nat, T # {}
    PROVE  \E x \in T : \A y \in T : x <= y
<1> DEFINE R == {ss \in Nat \X Nat : ss[1] < ss[2]}
<1>0. IsWellFoundedOn(R, Nat)
  BY NatLessThanWellFounded, Zenon DEF OpToRel
<1>1. PICK x \in T : \A y \in T : ~(<<y, x>> \in R)
  <2> HIDE DEF R
  <2> QED
    BY <1>0, WFMin
<1>2. ASSUME NEW y \in T PROVE x <= y
  <2>1. <<y, x>> \notin R /\ x \in Nat /\ y \in Nat
    BY <1>1
  <2>2. ~(y < x)
    BY <2>1
  <2> QED
    BY <2>1, <2>2
<1> QED
  BY <1>2

\* Linked in the order of their pids the first processes are a list.
LEMMA InitList == Init => ListInv
<1> SUFFICES ASSUME Init PROVE ListInv
  OBVIOUS
<1> PICK B : B = Boot
  OBVIOUS
<1>0. B \subseteq Pid /\ B \subseteq Nat /\ 0 \notin Pid /\ IsFiniteSet(B)
  <2>1. B \subseteq Pid
    BY WorkloadAssumption DEF Init, Workload, Boot
  <2> QED
    BY <2>1, PidAssumption, FS_Subset
<1>1. Leaders = B
  BY <1>0 DEF Init, Leaders, Live, Leader
<1>2. nxt \in [Pid -> B \cup {0}]
  BY DEF Init
<1>3. \A p \in Pid : p \notin B => nxt[p] = 0
  BY DEF Init
<1>4. \A p \in B : nxt[p] # 0 => nxt[p] \in B /\ nxt[p] > p
  BY <1>0, <1>2 DEF Init
<1>5. \A p \in B, q \in B : q > p => nxt[p] # 0 /\ nxt[p] <= q
  BY <1>0 DEF Init
<1>6. ASSUME NEW p \in B, NEW q \in B, nxt[p] = nxt[q] PROVE p = q
  <2>0. p \in Nat /\ q \in Nat
    BY <1>0
  <2>1. ASSUME NEW x \in B, NEW y \in B, x < y, nxt[x] = nxt[y] PROVE FALSE
    <3>1. nxt[x] # 0 /\ nxt[x] <= y
      BY <1>5, <2>1, <1>0
    <3>2. nxt[y] \in B /\ nxt[y] > y
      BY <1>4, <2>1, <3>1
    <3>3. nxt[y] \in Nat /\ y \in Nat
      BY <1>0, <3>2
    <3> QED
      BY <2>1, <3>1, <3>2, <3>3
  <2> QED
    BY <1>6, <2>0, <2>1
<1>7. ASSUME B # {}
      PROVE  (\E h \in B : (\A q \in B : nxt[q] # h) /\ B \subseteq Onward(nxt, h))
             /\ (\E t \in B : nxt[t] = 0)
  <2>1. PICK h \in B : \A q \in B : h <= q
    BY <1>0, <1>7, LeastPid
  <2>2. \A q \in B : nxt[q] # h
    BY <1>0, <1>4, <2>1
  <2>3. \E t \in B : nxt[t] = 0
    <3> SUFFICES ASSUME \A t \in B : nxt[t] # 0 PROVE FALSE
      OBVIOUS
    <3> DEFINE f == [p \in B |-> nxt[p]]
    <3>1. f \in [B -> B \ {h}]
      BY <1>4, <2>2
    <3>2. IsFiniteSet(B \ {h}) /\ Cardinality(B \ {h}) < Cardinality(B)
      <4>1. IsFiniteSet(B \ {h}) /\ Cardinality(B \ {h}) = Cardinality(B) - 1
        BY <1>0, FS_RemoveElement
      <4>2. Cardinality(B) \in Nat
        BY <1>0, FS_CardinalityType
      <4> QED
        BY <4>1, <4>2
    <3>3. \E x, y \in B : x # y /\ f[x] = f[y]
      <4> HIDE DEF f
      <4> QED
        BY <1>0, <3>1, <3>2, FS_PigeonHole
    <3> QED
      BY <1>6, <3>3
  <2>4. ASSUME NEW S \in SUBSET Pid, h \in S, Closed(nxt, S) PROVE B \subseteq S
    <3> SUFFICES ASSUME B \ S # {} PROVE FALSE
      OBVIOUS
    <3>1. PICK q \in B \ S : \A y \in B \ S : q <= y
      BY <1>0, LeastPid
    <3> DEFINE D == {n \in Nat : \E x \in B \cap S : x < q /\ n = q - x}
    <3>2. h < q /\ h \in B \cap S /\ h \in Nat /\ q \in Nat
      BY <1>0, <2>1, <2>4, <3>1
    <3>3. q - h \in D
      BY <3>2
    <3>4. PICK n \in D : \A k \in D : n <= k
      BY <3>3, LeastPid
    <3>5. PICK x \in B \cap S : x < q /\ n = q - x
      BY <3>4
    <3>6. nxt[x] # 0 /\ nxt[x] <= q /\ nxt[x] \in B /\ nxt[x] > x
      BY <1>4, <1>5, <3>1, <3>5
    <3>7. nxt[x] \in S
      BY <2>4, <3>5, <3>6 DEF Closed
    <3>8. nxt[x] # q
      BY <3>1, <3>7
    <3>a. nxt[x] \in Nat /\ x \in Nat
      BY <1>0, <3>5, <3>6
    <3>9. nxt[x] \in Nat /\ x \in Nat /\ nxt[x] < q
      BY <3>2, <3>6, <3>8, <3>a
    <3>10. q - nxt[x] \in D
      BY <3>2, <3>6, <3>7, <3>9
    <3>11. n <= q - nxt[x]
      BY <3>4, <3>10
    <3> QED
      BY <3>2, <3>5, <3>6, <3>9, <3>11
  <2>5. B \subseteq Onward(nxt, h)
    BY <1>0, <2>4 DEF Onward
  <2> QED
    BY <2>2, <2>3, <2>5
<1>8. Chain(B, nxt)
  BY <1>0, <1>2, <1>6, <1>7 DEF Chain
<1> QED
  BY <1>1, <1>3, <1>8 DEF ListInv, Init

\* What a step leaves of a living task, and of the way ahead of a walk.
Keeps ==
    /\ \A p \in Pid : Live(p) => tgid'[p] = tgid[p] /\ uid'[p] = uid[p]
    /\ \A p \in Pid, q \in Pid : q \in Onward(nxt, p) /\ (Live(q) => Live(q)') => q \in Onward(nxt', p)

LEMMA SystemList ==
    ASSUME StateOK, ListInv, System
    PROVE  ListInv' /\ Keeps
<1>0. nxt \in [Pid -> Pid \cup {0}] /\ Leaders \subseteq Pid
  BY DEF StateOK, Leaders
<1>1. ASSUME nxt' = nxt, Leaders' = Leaders,
             \A p \in Pid : life'[p] \in {"free", "new"} => life[p] \in {"free", "new"},
             \A p \in Pid : Live(p) => tgid'[p] = tgid[p] /\ uid'[p] = uid[p]
      PROVE  ListInv' /\ Keeps
  BY <1>1 DEF ListInv, Keeps
<1>2. ASSUME NEW parent \in Pid, NEW p \in Pid, NEW leader \in BOOLEAN,
             DupTask(parent, p, leader)
      PROVE  ListInv' /\ Keeps
  <2>1. Leaders' = Leaders
    BY <1>2 DEF DupTask, Leaders, Live, Leader, StateOK
  <2> QED
    BY <1>1, <1>2, <2>1 DEF DupTask, Live, StateOK
<1>3. ASSUME NEW a \in Pid, Attach(a) PROVE ListInv' /\ Keeps
  <2>1. /\ life[a] = "new" /\ life' = [life EXCEPT ![a] = "live"]
        /\ tgid' = tgid /\ uid' = uid /\ nxt[a] = 0 /\ a \notin Leaders
    BY <1>3 DEF Attach, ListInv, Leaders, Live
  <2>2. \A p \in Pid : life'[p] \in {"free", "new"} => life[p] \in {"free", "new"} /\ p # a
    BY <2>1 DEF StateOK
  <2>3. CASE ~Leader(a)
    <3>1. nxt' = nxt
      BY <1>3, <2>3 DEF Attach
    <3>2. Leaders' = Leaders
      BY <2>1, <2>3 DEF Leaders, Live, Leader, StateOK
    <3> QED
      BY <1>1, <2>1, <2>2, <3>1, <3>2
  <2>4. CASE Leader(a)
    <3>1. nxt' = Appended(Leaders, nxt, a)
      BY <1>3, <2>4 DEF Attach, Appended
    <3>2. Leaders' = Leaders \cup {a}
      BY <2>1, <2>4 DEF Leaders, Live, Leader, StateOK
    <3>3. Chain(Leaders', nxt')
      BY <2>1, <3>1, <3>2, ChainAppend DEF ListInv
    <3>4. \A p \in Pid : life'[p] \in {"free", "new"} => nxt'[p] = 0
      <4> TAKE p \in Pid
      <4> HAVE life'[p] \in {"free", "new"}
      <4>1. p # a /\ nxt[p] = 0 /\ p \notin Leaders
        BY <2>2 DEF ListInv, Leaders, Live
      <4> QED
        BY <3>1, <4>1 DEF Appended
    <3>5. \A p \in Pid : Onward(nxt, p) \subseteq Onward(nxt', p)
      BY <1>0, <2>1, <3>1, AppendOnward
    <3> QED
      BY <2>1, <3>3, <3>4, <3>5 DEF ListInv, Keeps
  <2> QED
    BY <2>3, <2>4
<1>4. ASSUME NEW p \in Pid, ForkFail(p) PROVE ListInv' /\ Keeps
  <2>1. Leaders' = Leaders
    BY <1>4 DEF ForkFail, Leaders, Live, Leader, StateOK
  <2> QED
    BY <1>1, <1>4, <2>1 DEF ForkFail, Live, StateOK
<1>5. ASSUME NEW r \in Pid, Reap(r) PROVE ListInv' /\ Keeps
  <2>1. /\ Live(r) /\ life' = [life EXCEPT ![r] = "dead"]
        /\ tgid' = tgid /\ uid' = uid
    BY <1>5 DEF Reap
  <2>2. \A p \in Pid : life'[p] \in {"free", "new"} => life[p] \in {"free", "new"}
    BY <2>1 DEF StateOK
  <2>3. CASE ~Leader(r)
    <3>1. nxt' = nxt
      BY <1>5, <2>3 DEF Reap
    <3>2. Leaders' = Leaders
      BY <2>1, <2>3 DEF Leaders, Live, Leader, StateOK
    <3> QED
      BY <1>1, <2>1, <2>2, <3>1, <3>2
  <2>4. CASE Leader(r)
    <3>1. nxt' = Removed(Leaders, nxt, r)
      BY <1>5, <2>4 DEF Reap, Removed
    <3>2. Leaders' = Leaders \ {r} /\ r \in Leaders
      BY <2>1, <2>4 DEF Leaders, Live, Leader, StateOK
    <3>3. Chain(Leaders', nxt')
      BY <3>1, <3>2, ChainRemove DEF ListInv
    <3>4. \A p \in Pid : life'[p] \in {"free", "new"} => nxt'[p] = 0
      <4> TAKE p \in Pid
      <4> HAVE life'[p] \in {"free", "new"}
      <4>1. nxt[p] = 0 /\ p \notin Leaders
        BY <2>2 DEF ListInv, Leaders, Live
      <4> QED
        BY <3>1, <4>1 DEF Removed
    <3>5. \A p \in Pid : Onward(nxt, p) \ {r} \subseteq Onward(nxt', p)
      BY <1>0, <3>1, RemoveOnward
    <3>6. Live(r) /\ ~Live(r)'
      BY <2>1 DEF Live, StateOK
    <3> QED
      BY <2>1, <3>3, <3>4, <3>5, <3>6 DEF ListInv, Keeps
  <2> QED
    BY <2>3, <2>4
<1>6. ASSUME NEW p \in Pid, RcuPut(p) PROVE ListInv' /\ Keeps
  <2>1. Leaders' = Leaders
    BY <1>6 DEF RcuPut, Leaders, Live, Leader, StateOK
  <2> QED
    BY <1>1, <1>6, <2>1 DEF RcuPut, Live, StateOK
<1>7. ASSUME NEW p \in Pid, Shrink(p) PROVE ListInv' /\ Keeps
  <2>1. Leaders' = Leaders
    BY <1>7 DEF Shrink, procs, Leaders, Live, Leader
  <2> QED
    BY <1>1, <1>7, <2>1 DEF Shrink, procs
<1>8. ASSUME NEW p \in Pid, NEW b \in BinName, Exec(p, b) PROVE ListInv' /\ Keeps
  <2>1. Leaders' = Leaders
    BY <1>8 DEF Exec, Leaders, Live, Leader
  <2> QED
    BY <1>1, <1>8, <2>1 DEF Exec
<1> QED
  BY <1>2, <1>3, <1>4, <1>5, <1>6, <1>7, <1>8 DEF System

LEMMA ProcsKept ==
    ASSUME ListInv, UNCHANGED procs
    PROVE  ListInv' /\ Keeps /\ Leaders' = Leaders
  BY DEF ListInv, Keeps, procs, Leaders, Live, Leader

\* A walk that begins has every process ahead of it.
LEMMA FirstReaches ==
    ASSUME ListInv, StateOK
    PROVE  Leaders \subseteq (IF First = 0 THEN {} ELSE Onward(nxt, First))
<1>1. CASE Leaders = {}
  BY <1>1
<1>2. CASE Leaders # {}
  <2>1. PICK h \in Leaders : (\A q \in Leaders : nxt[q] # h) /\ Leaders \subseteq Onward(nxt, h)
    BY <1>2 DEF ListInv, Chain
  <2>2. \A p \in Leaders : p # h => \E q \in Leaders : nxt[q] = p
    BY <2>1, ChainHead DEF ListInv
  <2>3. {q \in Leaders : \A r \in Leaders : nxt[r] # q} = {h}
    BY <2>1, <2>2
  <2>4. First = h
    BY <2>3 DEF First
  <2>5. h # 0
    BY ZeroNoPid DEF Leaders
  <2> QED
    BY <2>1, <2>4, <2>5
<1> QED
  BY <1>1, <1>2

(***************************************************************************)
(* What a walk has done and what lies ahead of it: whoever its promise is  *)
(* for is dealt with, or lies onward of the task it stands on.             *)
(***************************************************************************)
Walking == {"walk", "walk_flush", "walk_adv"}
Ahead(c) ==
    IF pc[c] \notin Walking \/ task[c] = 0 THEN {}
    ELSE Onward(nxt, task[c]) \ (IF pc[c] = "walk" THEN {} ELSE {task[c]})

WalkAt(c) ==
    pc[c] \in Walking \cup {"ret"} =>
        /\ op[c] \in {"hup", "recover"} => base[c] \subseteq Leaders
        /\ op[c] = "hup" => \A p \in base[c] : /\ Selected(p, arg[c])
                                               /\ cloak[p] = 1 \/ p \in Ahead(c)
        /\ op[c] = "recover" => \A p \in base[c] : cloak[p] = 0 \/ p \in Ahead(c)
        /\ op[c] = "list" =>
             /\ base[c] \subseteq seen[c] \cup Ahead(c)
             /\ base[c] \subseteq {p \in Leaders : cloak[p] = 1}
             /\ also[c] \subseteq {p \in Leaders : cloak[p] # 1}
             /\ also[c] \cap seen[c] = {}

WalkInv == \A c \in Caller : WalkAt(c)

\* What Observe says of a caller that is on a walk or back from it.
WalkHist(c) ==
    pc[c] \in Walking \cup {"ret"} /\ pc'[c] # "idle" =>
        /\ op'[c] \in {"hup", "recover"} /\ op[c] = op'[c] =>
             /\ base'[c] \subseteq Undisturbed(c)
        /\ op'[c] = "list" /\ op[c] = "list" =>
             /\ base'[c] \subseteq base[c] \cap {p \in Leaders' : cloak'[p] = 1}
             /\ also'[c] = also[c] \cap {p \in Leaders' : cloak'[p] # 1}
        /\ CursorFreed(c) => base'[c] = {}

LEMMA ObserveWalk == ASSUME Observe, NEW c \in Caller PROVE WalkHist(c)
<1> SUFFICES ASSUME pc[c] \in Walking \cup {"ret"}, pc'[c] # "idle" PROVE WalkHist(c)
  BY DEF WalkHist
<1>1. base'[c] = StillBase(c)
  BY DEF Observe, Walking
<1>2. also'[c] = also[c] \cap Opposite(c)'
  BY DEF Observe, Walking
<1>3. op'[c] = "list" => /\ Subject(c)' = {p \in Leaders' : cloak'[p] = 1}
                         /\ Opposite(c)' = {p \in Leaders' : cloak'[p] # 1}
  BY DEF Subject, Opposite
<1>4. CursorFreed(c) => StillBase(c) = {}
  BY DEF StillBase
<1>5. op[c] \in {"hup", "recover"} => StillBase(c) \subseteq Undisturbed(c)
  BY DEF StillBase
<1>6. op[c] = "list" => StillBase(c) \subseteq base[c] \cap Subject(c)'
  BY DEF StillBase
<1> QED
  BY <1>1, <1>2, <1>3, <1>4, <1>5, <1>6 DEF WalkHist

\* A walk keeps what it has over a step that lets it stand or go on, if the
\* step deals with the task it passes.
LEMMA WalkKept ==
    ASSUME StateOK, HistOK, NEW c \in Caller, WalkAt(c), WalkHist(c), Keeps,
           pc[c] \in Walking \cup {"ret"}, pc'[c] # "idle",
           op'[c] = op[c], arg'[c] = arg[c],
           seen[c] \subseteq seen'[c], seen'[c] \cap also'[c] \subseteq seen[c],
           \A p \in base[c] : Live(p)' /\ p \in Ahead(c) =>
               \/ p \in Ahead(c)'
               \/ op[c] = "hup" /\ cloak'[p] = 1
               \/ op[c] = "recover" /\ cloak'[p] = 0
               \/ op[c] = "list" /\ (cloak'[p] = 1 => p \in seen'[c])
    PROVE  WalkAt(c)'
<1>0. base[c] \subseteq Pid
  BY DEF HistOK
<1>1. ASSUME op[c] \in {"hup", "recover"}, NEW p \in base'[c]
      PROVE  /\ p \in base[c] /\ p \in Leaders /\ p \in Leaders' /\ Live(p)'
             /\ uid'[p] = uid[p] /\ image'[p] = image[p]
             /\ cloak'[p] \in {cloak[p], Goal(c)}
  <2>1. p \in Undisturbed(c)
    BY <1>1 DEF WalkHist
  <2>2. p \in base[c] /\ Live(p)' /\ image'[p] = image[p] /\ cloak'[p] \in {cloak[p], Goal(c)}
    BY <2>1 DEF Undisturbed
  <2>3. p \in Leaders /\ p \in Pid
    BY <1>0, <1>1, <2>2 DEF WalkAt
  <2>4. tgid'[p] = tgid[p] /\ uid'[p] = uid[p]
    BY <2>3 DEF Keeps, Leaders
  <2>5. p \in Leaders'
    BY <2>2, <2>3, <2>4 DEF Leaders, Leader
  <2> QED
    BY <2>2, <2>3, <2>4, <2>5
<1>2. ASSUME op[c] = "hup", NEW p \in base'[c]
      PROVE  Selected(p, arg[c])' /\ (cloak'[p] = 1 \/ p \in Ahead(c)')
  <2>1. Selected(p, arg[c]) /\ (cloak[p] = 1 \/ p \in Ahead(c))
    BY <1>1, <1>2 DEF WalkAt
  <2>2. Goal(c) = 1
    BY <1>2 DEF Goal
  <2>3. Selected(p, arg[c])'
    BY <1>1, <1>2, <2>1 DEF Selected
  <2> QED
    BY <1>1, <1>2, <2>1, <2>2, <2>3
<1>3. ASSUME op[c] = "recover", NEW p \in base'[c]
      PROVE  cloak'[p] = 0 \/ p \in Ahead(c)'
  <2>1. cloak[p] = 0 \/ p \in Ahead(c)
    BY <1>1, <1>3 DEF WalkAt
  <2>2. Goal(c) = 0
    BY <1>3 DEF Goal
  <2> QED
    BY <1>1, <1>3, <2>1, <2>2
<1>4. ASSUME op[c] = "list"
      PROVE  /\ base'[c] \subseteq seen'[c] \cup Ahead(c)'
             /\ base'[c] \subseteq {p \in Leaders' : cloak'[p] = 1}
             /\ also'[c] \subseteq {p \in Leaders' : cloak'[p] # 1}
             /\ also'[c] \cap seen'[c] = {}
  <2>1. /\ base'[c] \subseteq base[c] \cap {p \in Leaders' : cloak'[p] = 1}
        /\ also'[c] = also[c] \cap {p \in Leaders' : cloak'[p] # 1}
    BY <1>4 DEF WalkHist
  <2>2. base[c] \subseteq seen[c] \cup Ahead(c) /\ also[c] \cap seen[c] = {}
    BY <1>4 DEF WalkAt
  <2>3. \A p \in base'[c] : Live(p)' /\ cloak'[p] = 1
    BY <2>1 DEF Leaders
  <2>4. \A p \in base'[c] : p \in seen'[c] \/ p \in Ahead(c)'
    BY <1>4, <2>1, <2>2, <2>3
  <2> QED
    BY <2>1, <2>2, <2>4
<1> QED
  BY <1>1, <1>2, <1>3, <1>4 DEF WalkAt

\* A step of somebody else leaves a walk where it is, and the way ahead of it.
LEMMA OtherWalk ==
    ASSUME StateOK, HistOK, NEW d \in Caller, SameAt(d), WalkAt(d), WalkHist(d), Keeps
    PROVE  WalkAt(d)'
<1>1. CASE pc[d] \in Walking \cup {"ret"}
  <2>1. pc'[d] = pc[d] /\ pc'[d] # "idle" /\ op'[d] = op[d] /\ arg'[d] = arg[d]
        /\ seen'[d] = seen[d] /\ task'[d] = task[d]
    BY <1>1 DEF SameAt, Walking
  <2>2. ASSUME NEW p \in base[d], Live(p)', p \in Ahead(d) PROVE p \in Ahead(d)'
    <3>1. p \in Pid /\ task[d] \in Pid /\ p \in Onward(nxt, task[d])
      BY <2>2 DEF HistOK, StateOK, Ahead
    <3>2. p \in Onward(nxt', task[d])
      BY <2>2, <3>1 DEF Keeps
    <3> QED
      BY <2>1, <2>2, <3>2 DEF Ahead
  <2> QED
    BY <1>1, <2>1, <2>2, WalkKept
<1>2. CASE pc[d] \notin Walking \cup {"ret"}
  BY <1>2 DEF SameAt, WalkAt
<1> QED
  BY <1>1, <1>2

\* A call that begins a walk has everybody ahead of it.
LEMMA WalkBegins ==
    ASSUME StateOK, CtlInv, ListInv, Observe, NEW c \in Caller, NEW name \in {"hup", "recover", "list"},
           NEW a, pc[c] = "idle", StartWalk(c, name, a)
    PROVE  WalkAt(c)'
<1>1. /\ op'[c] = name /\ arg'[c] = a /\ task'[c] = First /\ pc'[c] = "walk"
      /\ seen'[c] = seen[c] /\ cloak' = cloak /\ UNCHANGED procs
    BY DEF StartWalk, Goto, StateOK
<1>2. seen[c] = {}
  BY DEF CtlInv, CtlAt
<1>3. Leaders' = Leaders /\ nxt' = nxt
  BY <1>1, ProcsKept DEF procs
<1>4. base'[c] = Subject(c)' /\ also'[c] = Opposite(c)'
  BY <1>1, <1>2 DEF Observe
<1>5. Leaders' \subseteq Ahead(c)'
  BY <1>1, <1>3, FirstReaches DEF Ahead, Walking
<1>6. /\ name = "hup" => Subject(c)' = {p \in Leaders' : Selected(p, arg[c])'}
      /\ name = "recover" => Subject(c)' = Leaders'
      /\ name = "list" => /\ Subject(c)' = {p \in Leaders' : cloak'[p] = 1}
                          /\ Opposite(c)' = {p \in Leaders' : cloak'[p] # 1}
  BY <1>1 DEF Subject, Opposite
<1> QED
  BY <1>1, <1>2, <1>4, <1>5, <1>6 DEF WalkAt

\* Going on from a task passes nobody but that task.
LEMMA WalkAdvances ==
    ASSUME StateOK, NEW c \in Caller, pc[c] \in Walking, task[c] \in Pid,
           UNCHANGED procs, task'[c] = nxt[task[c]], pc'[c] = "walk",
           NEW p \in Ahead(c), p # task[c]
    PROVE  p \in Ahead(c)'
<1>1. p \in Onward(nxt, task[c]) /\ nxt \in [Pid -> Pid \cup {0}]
  BY DEF Ahead, StateOK
<1>2. nxt[task[c]] # 0 /\ p \in Onward(nxt, nxt[task[c]])
  BY <1>1, OnwardNext
<1>3. nxt' = nxt
  BY DEF procs
<1> QED
  BY <1>2, <1>3 DEF Ahead, Walking

\* What hide_user_processes is asked to hide its walk recognises, if comm can
\* hold the names of programs.
ShortNames == \A b \in BinName : ~b.long

LEMMA SelectedMatches ==
    ASSUME ShortNames, StateOK, NEW c \in Caller, NEW p \in Pid, Selected(p, arg[c])
    PROVE  Matches(p, arg[c])
<1>1. arg[c].bin \in BinName \cup {NoBin}
  BY DEF StateOK, Arg
<1>2. ~arg[c].bin.long
  BY <1>1 DEF ShortNames, NoBin
<1> QED
  BY <1>2 DEF Selected, Matches, CommMatches

LEMMA StepWalk ==
    ASSUME ShortNames, StateOK, HistOK, CtlInv, ListInv, Observe,
           NEW c \in Caller, Step(c), WalkAt(c), WalkHist(c)
    PROVE  WalkAt(c)'
<1>0. UNCHANGED procs /\ Keeps /\ ListInv'
  BY StepFrame, ProcsKept
<1>1. ASSUME NEW p \in Pid, LookupCached(c, p) PROVE WalkAt(c)'
  BY <1>1 DEF LookupCached, Begin, Return, WalkAt, Walking, CtlInv, CtlAt, StateOK
<1>2. ASSUME NEW p \in Pid, LookupFind(c, p) PROVE WalkAt(c)'
  BY <1>2 DEF LookupFind, Begin, Return, Goto, WalkAt, Walking, CtlInv, CtlAt, StateOK
<1>3. CASE LookupFlag(c)
  BY <1>3 DEF LookupFlag, Goto, WalkAt, Walking, CtlInv, CtlAt, StateOK
<1>4. CASE LookupCloak(c)
  BY <1>4 DEF LookupCloak, Goto, Return, WalkAt, Walking, CtlInv, CtlAt, StateOK
<1>5. CASE LookupMake(c)
  BY <1>5 DEF LookupMake, Goto, Return, WalkAt, Walking, CtlInv, CtlAt, StateOK
<1>6. CASE Splice(c)
  BY <1>6 DEF Splice, Goto, Return, WalkAt, Walking, CtlInv, CtlAt, StateOK
<1>7. CASE ReaddirStart(c)
  BY <1>7 DEF ReaddirStart, Begin, Goto, WalkAt, Walking, CtlInv, CtlAt, StateOK
<1>8. CASE NextTgid(c)
  BY <1>8 DEF NextTgid, Goto, Return, WalkAt, Walking, CtlInv, CtlAt, StateOK
<1>9. CASE ReaddirFlag(c)
  BY <1>9 DEF ReaddirFlag, Goto, WalkAt, Walking, CtlInv, CtlAt, StateOK
<1>10. CASE ReaddirCloak(c)
  BY <1>10 DEF ReaddirCloak, Goto, WalkAt, Walking, CtlInv, CtlAt, StateOK
<1>11. CASE FillCache(c)
  BY <1>11 DEF FillCache, Goto, WalkAt, Walking, CtlInv, CtlAt, StateOK
<1>12. CASE Emit(c)
  BY <1>12 DEF Emit, Goto, WalkAt, Walking, CtlInv, CtlAt, StateOK
<1>13. CASE EmitFull(c)
  BY <1>13 DEF EmitFull, Goto, WalkAt, Walking, CtlInv, CtlAt, StateOK
<1>14. CASE ReaddirResume(c)
  BY <1>14 DEF ReaddirResume, Goto, WalkAt, Walking, CtlInv, CtlAt, StateOK
<1>15. ASSUME NEW p \in Pid, NEW on \in OnValue, HideFind(c, p, on) PROVE WalkAt(c)'
  BY <1>15 DEF HideFind, Begin, Goto, Return, WalkAt, Walking, CtlInv, CtlAt, StateOK
<1>16. CASE HideSet(c)
  BY <1>16 DEF HideSet, Goto, WalkAt, Walking, CtlInv, CtlAt, StateOK
<1>17. CASE HideFlush(c)
  BY <1>17 DEF HideFlush, Goto, Return, Oops, WalkAt, Walking, CtlInv, CtlAt, StateOK
<1>18. ASSUME NEW u \in Uid, NEW b \in BinName \cup {NoBin}, NEW all \in BOOLEAN,
             HupStart(c, u, b, all)
       PROVE  WalkAt(c)'
  BY <1>18, WalkBegins DEF HupStart, Begin
<1>19. CASE RecoverStart(c)
  BY <1>19, WalkBegins DEF RecoverStart, Begin
<1>20. CASE HupRefused(c)
  BY <1>20 DEF HupRefused, Begin, Return, WalkAt, Walking, StateOK
<1>21. CASE ListStart(c)
  BY <1>21, WalkBegins DEF ListStart, Begin
<1>22. CASE WalkEnd(c)
  <2>1. /\ pc[c] = "walk" /\ pc'[c] = "ret" /\ task[c] = 0 /\ seen'[c] = seen[c]
        /\ op'[c] = op[c] /\ arg'[c] = arg[c]
    BY <1>22 DEF WalkEnd, Return, StateOK
  <2>2. Ahead(c) = {}
    BY <2>1 DEF Ahead
  <2> QED
    BY <1>0, <2>1, <2>2, WalkKept DEF Walking
<1>23. CASE HupVisit(c)
  <2>1. /\ pc[c] = "walk" /\ op[c] = "hup" /\ op'[c] = "hup" /\ arg'[c] = arg[c]
        /\ seen'[c] = seen[c] /\ task[c] \in Pid /\ task[c] # 0
    BY <1>23 DEF HupVisit, At, StateOK
  <2>2. CASE Matches(task[c], arg[c])
    <3>1. cloak'[task[c]] = 1 /\ pc'[c] = "walk_flush" /\ task'[c] = task[c]
      BY <1>23, <2>1, <2>2 DEF HupVisit, Goto, StateOK
    <3>2. \A p \in Ahead(c) : p # task[c] => p \in Ahead(c)'
      BY <1>0, <2>1, <3>1 DEF Ahead, Walking, procs
    <3> QED
      BY <1>0, <2>1, <3>1, <3>2, WalkKept DEF Walking
  <2>3. CASE ~Matches(task[c], arg[c])
    <3>1. task'[c] = nxt[task[c]] /\ pc'[c] = "walk"
      BY <1>23, <2>1, <2>3 DEF HupVisit, Advance, StateOK
    <3>2. task[c] \notin base[c]
      BY <2>1, <2>3, SelectedMatches DEF WalkAt, Walking
    <3>3. \A p \in Ahead(c) : p # task[c] => p \in Ahead(c)'
      BY <1>0, <2>1, <3>1, WalkAdvances DEF Walking
    <3> QED
      BY <1>0, <2>1, <3>1, <3>2, <3>3, WalkKept DEF Walking
  <2> QED
    BY <2>2, <2>3
<1>24. CASE HupFlush(c)
  <2>1. CASE Live(task[c])
    <3>1. /\ pc[c] = "walk_flush" /\ pc'[c] = "walk_adv" /\ task'[c] = task[c]
          /\ op'[c] = op[c] /\ arg'[c] = arg[c] /\ seen'[c] = seen[c]
      BY <1>24, <2>1 DEF HupFlush, Goto, StateOK
    <3>2. Ahead(c)' = Ahead(c)
      BY <1>0, <3>1 DEF Ahead, Walking, procs
    <3> QED
      BY <1>0, <3>1, <3>2, WalkKept DEF Walking
  <2>2. CASE ~Live(task[c])
    BY <1>24, <2>2 DEF HupFlush, Oops, Goto, WalkAt, Walking, StateOK
  <2> QED
    BY <2>1, <2>2
<1>25. CASE HupAdvance(c)
  <2>1. /\ pc[c] = "walk_adv" /\ pc'[c] = "walk" /\ task'[c] = nxt[task[c]]
        /\ op'[c] = op[c] /\ arg'[c] = arg[c] /\ seen'[c] = seen[c] /\ task[c] \in Pid
    BY <1>25 DEF HupAdvance, Advance, Goto, StateOK, CtlInv, CtlAt, AtTask
  <2>2. task[c] \notin Ahead(c)
    BY <2>1 DEF Ahead
  <2>3. \A p \in Ahead(c) : p \in Ahead(c)'
    BY <1>0, <2>1, <2>2, WalkAdvances DEF Walking
  <2> QED
    BY <1>0, <2>1, <2>3, WalkKept DEF Walking
<1>26. CASE UseAfterFree(c)
  <2>1. /\ CursorFreed(c) /\ pc[c] \in Walking /\ pc'[c] \in {"walk", "oops"}
        /\ op'[c] = op[c] /\ arg'[c] = arg[c] /\ seen'[c] = seen[c]
    BY <1>26 DEF UseAfterFree, CursorFreed, Goto, Oops, Walking, StateOK
  <2>2. base'[c] = {}
    BY <2>1 DEF WalkHist
  <2>3. op[c] = "list" => also'[c] = also[c] \cap {p \in Leaders' : cloak'[p] # 1}
    BY <2>1 DEF WalkHist
  <2> QED
    BY <2>1, <2>2, <2>3 DEF WalkAt
<1>27. CASE RecoverVisit(c)
  <2>1. /\ pc[c] = "walk" /\ pc'[c] = "walk" /\ task'[c] = nxt[task[c]] /\ task[c] \in Pid
        /\ op[c] = "recover" /\ op'[c] = "recover" /\ arg'[c] = arg[c]
        /\ seen'[c] = seen[c] /\ cloak'[task[c]] = 0
    BY <1>27 DEF RecoverVisit, RestoredCloak, At, Advance, StateOK
  <2>2. \A p \in Ahead(c) : p # task[c] => p \in Ahead(c)'
    BY <1>0, <2>1, WalkAdvances DEF Walking
  <2> QED
    BY <1>0, <2>1, <2>2, WalkKept DEF Walking
<1>28. CASE ListVisit(c)
  <2>1. /\ pc[c] = "walk" /\ pc'[c] = "walk" /\ task'[c] = nxt[task[c]] /\ task[c] \in Pid
        /\ op[c] = "list" /\ op'[c] = "list" /\ arg'[c] = arg[c] /\ cloak' = cloak
        /\ seen'[c] = IF cloak[task[c]] = 1 THEN seen[c] \cup {task[c]} ELSE seen[c]
    BY <1>28 DEF ListVisit, CloakHides, At, Advance, StateOK
  <2>2. \A p \in Ahead(c) : p # task[c] => p \in Ahead(c)'
    BY <1>0, <2>1, WalkAdvances DEF Walking
  <2>3. also'[c] = also[c] \cap {p \in Leaders' : cloak'[p] # 1}
    BY <2>1 DEF WalkHist, Walking
  <2>4. seen[c] \subseteq seen'[c] /\ seen'[c] \cap also'[c] \subseteq seen[c]
    BY <2>1, <2>3
  <2>5. cloak'[task[c]] = 1 => task[c] \in seen'[c]
    BY <2>1
  <2> QED
    BY <1>0, <2>1, <2>2, <2>4, <2>5, WalkKept DEF Walking
<1>29. ASSUME NEW v \in FlagValue, proc_write_hidden(c, v) PROVE WalkAt(c)'
  BY <1>29 DEF proc_write_hidden, Begin, Return, WalkAt, Walking, StateOK
<1>30. CASE Leave(c)
  BY <1>30 DEF Leave, Goto, WalkAt, Walking, StateOK
<1>31. QED
  BY <1>1, <1>2, <1>3, <1>4, <1>5, <1>6, <1>7, <1>8, <1>9, <1>10, <1>11, <1>12, <1>13, <1>14, <1>15,
     <1>16, <1>17, <1>18, <1>19, <1>20, <1>21, <1>22, <1>23, <1>24, <1>25, <1>26, <1>27, <1>28, <1>29, <1>30 DEF Step

LEMMA NextWalk ==
    ASSUME ShortNames
    PROVE  TC /\ ListInv /\ WalkInv /\ [Next]_vars => ListInv' /\ WalkInv'
<1> SUFFICES ASSUME TC, ListInv, WalkInv, [Next]_vars PROVE ListInv' /\ WalkInv'
  OBVIOUS
<1>0. StateOK /\ HistOK /\ CtlInv
  BY DEF TC, TypeOK
<1>1. CASE System /\ Observe
  <2>1. ListInv' /\ Keeps
    BY <1>0, <1>1, SystemList
  <2>2. ASSUME NEW d \in Caller PROVE WalkAt(d)'
    <3>1. SameAt(d)
      BY <1>0, <1>1, SystemState DEF ctl, SameAt
    <3>2. WalkAt(d) /\ WalkHist(d)
      BY <1>1, ObserveWalk DEF WalkInv
    <3> QED
      BY <1>0, <2>1, <3>1, <3>2, OtherWalk
  <2> QED
    BY <2>1, <2>2 DEF WalkInv
<1>2. ASSUME NEW c \in Caller, Step(c), Observe PROVE ListInv' /\ WalkInv'
  <2>1. ListInv' /\ Keeps
    BY <1>0, <1>2, StepFrame, ProcsKept
  <2>2. ASSUME NEW d \in Caller PROVE WalkAt(d)'
    <3>1. WalkAt(d) /\ WalkHist(d)
      BY <1>2, ObserveWalk DEF WalkInv
    <3>2. CASE d = c
      BY <1>0, <1>2, <3>1, <3>2, StepWalk
    <3>3. CASE d # c
      <4>1. SameAt(d)
        BY <1>0, <1>2, <3>3, StepFrame
      <4> QED
        BY <1>0, <2>1, <3>1, <4>1, OtherWalk
    <3> QED
      BY <3>2, <3>3
  <2> QED
    BY <2>1, <2>2 DEF WalkInv
<1>3. CASE UNCHANGED vars
  <2>1. UNCHANGED <<procs, cloak, ctl, hist>> /\ ListInv' /\ Leaders' = Leaders
    BY <1>3, ProcsKept DEF vars
  <2>2. ASSUME NEW d \in Caller PROVE WalkAt(d)'
    BY <2>1 DEF WalkInv, WalkAt, Ahead, Selected, procs, ctl, hist
  <2> QED
    BY <2>1, <2>2 DEF WalkInv
<1> QED
  BY <1>1, <1>2, <1>3 DEF Next

LEMMA InitWalk == Init => WalkInv
  BY DEF Init, WalkInv, WalkAt, Walking

\* With names that comm can hold, the unlocked walks over a task list of any
\* length miss nobody, whatever forks, exits and execs beside them: the call
\* hide_user_processes leaves every process it was asked for cloaked, recover
\* leaves every process visible, and a read of /proc/hidden_process has those
\* that were cloaked all along and none that was not.
THEOREM WalksMissNobody ==
    ASSUME ShortNames PROVE Spec => []WalksExact
<1>1. WalkInv => WalksExact
  BY DEF WalkInv, WalkAt, Ahead, Walking, WalksExact
<1>2. Init => TC /\ ListInv /\ WalkInv
  BY InitTC, InitList, InitWalk
<1>3. TC /\ ListInv /\ WalkInv /\ [Next]_vars => (TC /\ ListInv /\ WalkInv)'
  BY NextTC, NextWalk
<1>4. QED
  BY <1>1, <1>2, <1>3, PTL DEF Spec
=============================================================================
