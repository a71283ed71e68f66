---------------------------- MODULE SeushProofs ----------------------------
(***************************************************************************)
(* Theorems about Seush, for every set of lines, every size of descriptor  *)
(* table and pipe, and any number of failed forks.                         *)
(***************************************************************************)
EXTENDS Seush, FiniteSetTheorems, WellFoundedInduction, TLAPS

(***************************************************************************)
(* Descriptors.                                                            *)
(***************************************************************************)
\* A set of descriptors that is not empty has a lowest one.
LEMMA LeastOf ==
    ASSUME NEW S, S \subseteq Nat, S # {}
    PROVE  \E x \in S : \A y \in S : x <= y
<1> DEFINE R == {ss \in Nat \X Nat : ss[1] < ss[2]}
<1>0. IsWellFoundedOn(R, Nat)
  BY NatLessThanWellFounded, Zenon DEF OpToRel
<1>1. PICK x \in S : \A y \in S : ~(<<y, x>> \in R)
  <2> HIDE DEF R
  <2> QED
    BY <1>0, WFMin
<1>2. ASSUME NEW y \in S
      PROVE  x <= y
  <2>1. <<y, x>> \notin R /\ x \in Nat /\ y \in Nat
    BY <1>1
  <2>2. ~(y < x)
    BY <2>1
  <2> QED
    BY <2>1, <2>2
<1> QED
  BY <1>2

LEMMA LowestIn ==
    ASSUME NEW S, S \subseteq Nat, S # {}
    PROVE  Lowest(S) \in S
BY LeastOf DEF Lowest

\* The descriptor a dup or open returns was free, or is -1 if none was.
LEMMA NewFdFree ==
    ASSUME NEW t \in [Fd -> Obj]
    PROVE  \/ NewFd(t) = -1
           \/ NewFd(t) \in Fd /\ t[NewFd(t)] = Closed
<1>1. Free(t) \subseteq Nat
  BY SeushAssumption DEF Free, Fd
<1>2. CASE Free(t) = {}
  BY <1>2 DEF NewFd
<1>3. CASE Free(t) # {}
  BY <1>1, <1>3, LowestIn DEF NewFd, Free
<1> QED
  BY <1>2, <1>3

LEMMA ObjFacts ==
    /\ Closed \in Obj /\ Tty \in Obj /\ File \in Obj
    /\ Closed # Tty /\ Closed # File
    /\ \A k \in Pipe : /\ <<"r", k>> \in Obj /\ <<"w", k>> \in Obj
                       /\ <<"r", k>> # Closed /\ <<"w", k>> # Closed
                       /\ <<"r", k>> # Tty /\ <<"w", k>> # Tty
    /\ \A o \in Obj : o[1] \in {"r", "w"} => o[2] \in Pipe
BY DEF Obj, Closed, Tty, File

LEMMA PutType ==
    ASSUME NEW t \in [Fd -> Obj], NEW n, NEW o \in Obj
    PROVE  Put(t, n, o) \in [Fd -> Obj]
BY DEF Put

LEMMA DupType ==
    ASSUME NEW t \in [Fd -> Obj], NEW n \in Fd
    PROVE  Dup(t, n) \in [Fd -> Obj]
BY PutType DEF Dup

\* The two ends of a new pipe get two descriptors that were free.
LEMMA PipeFdsFree ==
    ASSUME fds \in [Fd -> Obj], CanPipe
    PROVE  /\ PipeFds[1] \in Fd /\ PipeFds[2] \in Fd /\ PipeFds[1] # PipeFds[2]
           /\ fds[PipeFds[1]] = Closed /\ fds[PipeFds[2]] = Closed
<1> DEFINE S == Free(fds)  r == Lowest(S)
<1>1. S \subseteq Nat /\ S \subseteq Fd /\ IsFiniteSet(S)
  <2>1. IsFiniteSet(Fd)
    BY FS_Interval, SeushAssumption DEF Fd
  <2> QED
    BY <2>1, FS_Subset, SeushAssumption DEF Fd, Free
<1>2. S # {}
  BY FS_EmptySet DEF CanPipe
<1>3. r \in S
  BY <1>1, <1>2, LowestIn
<1>4. S \ {r} # {}
  <2>1. Cardinality(S \ {r}) = Cardinality(S) - 1 /\ Cardinality(S) >= 2
    BY <1>1, <1>3, FS_RemoveElement DEF CanPipe
  <2>2. Cardinality(S) \in Nat
    BY <1>1, FS_CardinalityType
  <2> QED
    BY <2>1, <2>2, FS_EmptySet
<1>5. Lowest(S \ {r}) \in S \ {r}
  BY <1>1, <1>4, LowestIn
<1> QED
  BY <1>3, <1>5 DEF PipeFds, Free

LEMMA OpenedType ==
    ASSUME NEW t \in [Fd -> Obj], NEW prog \in Prog
    PROVE  /\ Opened(t, prog) \in [Fd -> Obj]
           /\ OutFd(t, prog) \in Fd \cup {-1}
           /\ InFd(t, prog) \in Fd \cup {-1}
<1>1. OutFd(t, prog) \in Fd \cup {-1}
  BY NewFdFree DEF OutFd
<1>2. Put(t, OutFd(t, prog), File) \in [Fd -> Obj]
  BY PutType, ObjFacts
<1>3. InFd(t, prog) \in Fd \cup {-1}
  BY <1>2, NewFdFree DEF InFd
<1> QED
  BY <1>1, <1>2, <1>3, PutType, ObjFacts DEF Opened

LEMMA NewChildType ==
    ASSUME NEW t \in [Fd -> Obj], NEW prog \in Prog, NEW o, NEW i
    PROVE  /\ NewChild(t, prog, o, i) \in Child
           /\ NewChild(t, prog, o, i).st \in {"run", "zombie"}
<1>1. 0 \in Fd /\ 1 \in Fd
  BY SeushAssumption DEF Fd
<1>2. Redirected(t, prog) \in [Fd -> Obj]
  BY ObjFacts DEF Redirected
<1>3. PipeEnds(Redirected(t, prog)) \in SUBSET Obj
  BY DEF PipeEnds, Obj
<1>4. prog.gen \in Nat /\ prog.reads \in BOOLEAN
  BY DEF Prog
<1> QED
  BY <1>1, <1>2, <1>3, <1>4, ObjFacts DEF NewChild, Child, NoChild

LEMMA StageChildType ==
    ASSUME NEW t \in [Fd -> Obj], NEW prog \in Prog
    PROVE  /\ StageChild(t, prog) \in Child
           /\ StageChild(t, prog).st \in {"run", "zombie"}
BY OpenedType, NewChildType DEF StageChild

LEMMA PipeTableType ==
    ASSUME fds \in [Fd -> Obj], NEW k \in Pipe, CanPipe
    PROVE  /\ PipeTable(k) \in [Fd -> Obj]
           /\ StageTable(PipeTable(k), PipeFds) \in [Fd -> Obj]
           /\ ParentTable(PipeTable(k), PipeFds) \in [Fd -> Obj]
<1>1. PipeTable(k) \in [Fd -> Obj]
  BY ObjFacts DEF PipeTable
<1> QED
  BY <1>1, ObjFacts, PipeFdsFree DEF StageTable, ParentTable

\* Starting, killing or advancing a child keeps the table of children a table.
LEMMA ChildExcept ==
    ASSUME child \in [Slot -> Child], NEW s, NEW r \in Child
    PROVE  [child EXCEPT ![s] = r] \in [Slot -> Child]
OBVIOUS

LEMMA NoChildType == NoChild \in Child /\ [NoChild EXCEPT !.st = "zombie"] \in Child
BY ObjFacts DEF NoChild, Child

LEMMA LeftType ==
    ASSUME NEW r \in Child
    PROVE  r.left \in Nat /\ \A n \in Nat : [r EXCEPT !.left = n] \in Child
BY DEF Child

LEMMA OnlyStage ==
    ASSUME NEW T, NEW q \in Seq(T), Len(q) = 1
    PROVE  Head(q) \in T
OBVIOUS

LEMMA SeqFacts ==
    ASSUME NEW T
    PROVE  /\ <<>> \in Seq(T) /\ Len(<<>>) = 0
           /\ \A q \in Seq(T) : Len(q) > 0 \/ q # <<>> =>
                /\ Head(q) \in T /\ Tail(q) \in Seq(T)
                /\ Len(q) > 0 /\ Len(Tail(q)) = Len(q) - 1
           /\ \A q \in Seq(T), e \in T :
                Append(q, e) \in Seq(T) /\ Len(Append(q, e)) = Len(q) + 1
           /\ \A q \in Seq(T) : Len(q) \in Nat /\ \A j \in 1 .. Len(q) : q[j] \in T
OBVIOUS

(***************************************************************************)
(* Type correctness.                                                       *)
(***************************************************************************)
LEMMA TypeInit == Init => TypeOK
<1> SUFFICES ASSUME Init PROVE TypeOK
  OBVIOUS
<1>1. fds \in [Fd -> Obj] /\ child \in [Slot -> Child]
  BY ObjFacts, NoChildType DEF Init
<1>2. buf \in [Pipe -> 0 .. Capacity]
  BY SeushAssumption DEF Init
<1>3. leader \in BOOLEAN /\ dangling \in BOOLEAN /\ sane \in BOOLEAN
  BY DEF Init
<1>4. /\ line \in Seq(Command) /\ stages \in Seq(Prog) /\ queue \in Seq(Process)
      /\ nforked \in 0 .. Len(queue)
  <2>1. line = <<>> /\ stages = <<>> /\ queue = <<>> /\ nforked = 0
    BY DEF Init
  <2> QED
    BY <2>1, SeqFacts
<1>5. /\ pc \in PCs /\ save_in \in Fd \cup {-1} /\ tty \in Nat
      /\ fails \in 0 .. MaxFails
  <2>1. pc = "prompt" /\ save_in = -1 /\ tty = 0 /\ fails = 0
    BY DEF Init
  <2> QED
    BY <2>1, SeushAssumption DEF PCs
<1> QED
  BY <1>1, <1>2, <1>3, <1>4, <1>5 DEF TypeOK

LEMMA TypeShell ==
    ASSUME TypeOK, ShellStep
    PROVE  TypeOK'
<1> USE DEF TypeOK, PCs, shell
<1>0. 0 \in Fd /\ 1 \in Fd
  BY SeushAssumption DEF Fd
<1>1. CASE NextCommand
  <2>1. /\ Head(line) \in Command /\ Tail(line) \in Seq(Command)
        /\ Head(line).stages \in Seq(Prog) /\ Head(line).dangling \in BOOLEAN
    <3>1. Head(line) \in Command /\ Tail(line) \in Seq(Command)
      BY <1>1, SeqFacts DEF NextCommand
    <3> QED
      BY <3>1 DEF Command
  <2>2. fds' \in [Fd -> Obj] /\ save_in' \in Fd \cup {-1}
    BY <1>0, <1>1, DupType, NewFdFree DEF NextCommand
  <2> QED
    BY <1>1, <2>1, <2>2 DEF NextCommand
<1>2. CASE LineParsed
  BY <1>2 DEF LineParsed
<1>3. CASE Enqueue
  <2>1. Head(stages) \in Prog
    <3>1. Len(stages) = 1
      BY <1>3 DEF Enqueue
    <3>2. stages \in Seq(Prog)
      OBVIOUS
    <3> QED
      BY <3>1, <3>2, OnlyStage
  <2>2. /\ fds' \in [Fd -> Obj]
        /\ queue' \in Seq(Process) /\ Len(queue') = Len(queue) + 1
    <3> DEFINE r == [prog |-> Head(stages), outfd |-> OutFd(fds, Head(stages)),
                     infd |-> InFd(fds, Head(stages))]
    <3>1. r \in Process /\ Opened(fds, Head(stages)) \in [Fd -> Obj]
      BY <2>1, OpenedType DEF Process
    <3>2. queue' = Append(queue, r) /\ fds' = Opened(fds, Head(stages))
      BY <1>3 DEF Enqueue
    <3> HIDE DEF r
    <3> QED
      BY <3>1, <3>2, SeqFacts
  <2>3. sane' \in BOOLEAN
    BY <1>3 DEF Enqueue
  <2> QED
    BY <1>3, <2>2, <2>3 DEF Enqueue
<1>4. CASE NoCommand
  BY <1>4 DEF NoCommand
<1>5. CASE PipeFails
  BY <1>5 DEF PipeFails
<1>6. ASSUME NEW k \in SomePipe, StartStage(k)
      PROVE  TypeOK'
  <2>1. k \in Pipe
    BY <1>6 DEF SomePipe, FreshPipes
  <2>2. Head(stages) \in Prog /\ Tail(stages) \in Seq(Prog)
    BY <1>6, SeqFacts DEF StartStage, HasNext
  <2>3. fds' \in [Fd -> Obj] /\ child' \in [Slot -> Child]
    BY <1>6, <2>1, <2>2, PipeTableType, StageChildType, ChildExcept DEF StartStage
  <2>4. buf' \in [Pipe -> 0 .. Capacity]
    BY <1>6, <2>1, SeushAssumption DEF StartStage
  <2> QED
    BY <1>6, <2>2, <2>3, <2>4 DEF StartStage, Leftover
<1>7. ASSUME NEW k \in SomePipe, StartLast(k)
      PROVE  TypeOK'
  <2>1. k \in Pipe
    BY <1>7 DEF SomePipe, FreshPipes
  <2>2. Head(stages) \in Prog
    <3>1. Len(stages) = 1
      BY <1>7 DEF StartLast, IsLast
    <3>2. stages \in Seq(Prog)
      OBVIOUS
    <3> QED
      BY <3>1, <3>2, OnlyStage
  <2>3. fds' \in [Fd -> Obj] /\ child' \in [Slot -> Child]
    BY <1>7, <2>1, <2>2, PipeTableType, StageChildType, ChildExcept DEF StartLast
  <2>4. buf' \in [Pipe -> 0 .. Capacity]
    BY <1>7, <2>1, SeushAssumption DEF StartLast
  <2> QED
    BY <1>7, <2>2, <2>3, <2>4, SeqFacts DEF StartLast
<1>8. ASSUME NEW k \in SomePipe, ForkFails(k)
      PROVE  TypeOK'
  <2>1. k \in Pipe
    BY <1>8 DEF SomePipe, FreshPipes
  <2>2. fds' \in [Fd -> Obj] /\ buf' \in [Pipe -> 0 .. Capacity]
    BY <1>8, <2>1, PipeTableType, SeushAssumption DEF ForkFails
  <2>3. fails' \in 0 .. MaxFails /\ pc' \in PCs
    BY <1>8, SeushAssumption DEF ForkFails
  <2> QED
    BY <1>8, <2>2, <2>3 DEF ForkFails
<1>9. CASE WaitStage
  BY <1>9, NoChildType, ChildExcept DEF WaitStage
<1>10. CASE WaitLast
  <2>1. fds' \in [Fd -> Obj]
    BY <1>10 DEF WaitLast, RestoreStdin
  <2> QED
    BY <1>10, <2>1, NoChildType, ChildExcept DEF WaitLast
<1>11. CASE StartQueued
  <2>1. nforked + 1 \in 1 .. Len(queue)
    BY <1>11 DEF StartQueued
  <2>2. queue[nforked + 1].prog \in Prog
    <3>1. queue[nforked + 1] \in Process
      BY <2>1, SeqFacts
    <3> QED
      BY <3>1 DEF Process
  <2>3. child' \in [Slot -> Child]
    BY <1>11, <2>2, NewChildType, ChildExcept DEF StartQueued
  <2> QED
    BY <1>11, <2>1, <2>3 DEF StartQueued
<1>12. CASE QueuedForkFails
  <2>1. fails' \in 0 .. MaxFails
    BY <1>12, SeushAssumption DEF QueuedForkFails
  <2> QED
    BY <1>12, <2>1 DEF QueuedForkFails
<1>13. CASE AllStarted
  BY <1>13 DEF AllStarted
<1>14. CASE Reap
  BY <1>14, NoChildType, ChildExcept DEF Reap
<1>15. CASE AllReaped
  BY <1>15 DEF AllReaped
<1>16. CASE LineDone
  <2>1. /\ pc' \in PCs /\ stages' = <<>> /\ queue' = <<>> /\ nforked' = 0 /\ save_in' = -1
        /\ UNCHANGED <<line, fds, child, buf, tty, fails>>
    BY <1>16 DEF LineDone
  <2>2. leader' \in BOOLEAN /\ dangling' \in BOOLEAN /\ sane' \in BOOLEAN
    BY <1>16 DEF LineDone
  <2>3. <<>> \in Seq(Prog) /\ <<>> \in Seq(Process) /\ 0 \in 0 .. Len(<<>>)
    BY SeqFacts
  <2> QED
    BY <2>1, <2>2, <2>3
<1> QED
  BY <1>1, <1>2, <1>3, <1>4, <1>5, <1>6, <1>7, <1>8, <1>9, <1>10, <1>11, <1>12,
     <1>13, <1>14, <1>15, <1>16 DEF ShellStep

LEMMA TypeChild ==
    ASSUME TypeOK, NEW s \in Slot, ChildStep(s)
    PROVE  TypeOK'
<1> USE DEF TypeOK, PCs, shell, childOnly
<1>0. child[s] \in Child
  OBVIOUS
<1>1. CASE ReadUnit(s)
  <2> DEFINE k == child[s].in[2]
  <2>1. k \in Pipe
    BY <1>0, <1>1, ObjFacts DEF ReadUnit, Child
  <2>2. buf' \in [Pipe -> 0 .. Capacity]
    <3>1. buf[k] \in 0 .. Capacity /\ buf[k] > 0 /\ buf' = [buf EXCEPT ![k] = buf[k] - 1]
      BY <1>1, <2>1 DEF ReadUnit
    <3> HIDE DEF k
    <3>2. buf[k] - 1 \in 0 .. Capacity
      BY <3>1, SeushAssumption
    <3> QED
      BY <3>1, <3>2
  <2>3. child' \in [Slot -> Child]
    <3>1. child[s].left + 1 \in Nat
      BY <1>0, LeftType
    <3>2. child' = [child EXCEPT ![s] = [child[s] EXCEPT !.left = child[s].left + 1]]
      BY <1>1 DEF ReadUnit
    <3> QED
      BY <1>0, <3>1, <3>2, LeftType, ChildExcept
  <2> QED
    BY <1>1, <2>2, <2>3 DEF ReadUnit
<1>2. CASE ReadEof(s)
  <2>1. [child[s] EXCEPT !.reading = FALSE] \in Child
    BY <1>0 DEF Child
  <2>2. child' \in [Slot -> Child]
    BY <1>2, <2>1, ChildExcept DEF ReadEof
  <2> QED
    BY <1>2, <2>2 DEF ReadEof
<1>3. CASE WriteUnit(s)
  <2>1. child' \in [Slot -> Child]
    <3>1. /\ child[s].left > 0
          /\ child' = [child EXCEPT ![s] = [child[s] EXCEPT !.left = child[s].left - 1]]
      BY <1>3 DEF WriteUnit
    <3>2. child[s].left - 1 \in Nat
      BY <1>0, <3>1, LeftType
    <3> QED
      BY <1>0, <3>1, <3>2, LeftType, ChildExcept
  <2>2. CASE child[s].out[1] = "w"
    <3> DEFINE k == child[s].out[2]
    <3>1. k \in Pipe
      BY <1>0, <2>2, ObjFacts DEF Child
    <3>2. /\ buf[k] \in 0 .. Capacity /\ buf[k] < Capacity
          /\ buf' = [buf EXCEPT ![k] = buf[k] + 1] /\ tty' = tty
      BY <1>3, <2>2, <3>1 DEF WriteUnit
    <3>3. buf[k] + 1 \in 0 .. Capacity
      BY <3>2, SeushAssumption
    <3>4. buf' \in [Pipe -> 0 .. Capacity]
      BY <3>2, <3>3
    <3> QED
      BY <1>3, <2>1, <3>2, <3>4 DEF WriteUnit
  <2>3. CASE child[s].out[1] # "w"
    <3>1. buf' = buf /\ tty' \in Nat
      BY <1>3, <2>3 DEF WriteUnit
    <3> QED
      BY <1>3, <2>1, <3>1 DEF WriteUnit
  <2> QED
    BY <2>2, <2>3
<1>4. CASE Exit(s)
  <2>1. child' \in [Slot -> Child]
    BY <1>4, NoChildType, ChildExcept DEF Exit
  <2> QED
    BY <1>4, <2>1 DEF Exit
<1> QED
  BY <1>1, <1>2, <1>3, <1>4 DEF ChildStep

LEMMA TypeStep == TypeOK /\ [Next]_vars => TypeOK'
<1> SUFFICES ASSUME TypeOK, [Next]_vars PROVE TypeOK'
  OBVIOUS
<1>1. ASSUME NEW l \in Lines, ReadLine(l)
      PROVE  TypeOK'
  <2>1. l \in Seq(Command)
    BY SeushAssumption
  <2>2. sane' \in BOOLEAN
    BY <1>1 DEF ReadLine
  <2> QED
    BY <1>1, <2>1, <2>2 DEF ReadLine, TypeOK, PCs
<1>2. CASE UNCHANGED vars
  BY <1>2 DEF vars, TypeOK
<1> QED
  BY <1>1, <1>2, TypeShell, TypeChild DEF Next, LostInput, Ended

\* Every variable keeps its type: descriptors stay in the table, no pipe holds
\* more than its capacity, run_processes never starts more than was queued.
THEOREM SeushTypes == Spec => []TypeOK
<1>1. Init => TypeOK
  BY TypeInit
<1>2. TypeOK /\ [Next]_vars => TypeOK'
  BY TypeStep
<1> QED
  BY <1>1, <1>2, PTL DEF Spec

(***************************************************************************)
(* Who may have children when.  The waitpid(-1) of a stage takes any child *)
(* of the shell: it takes the right one since no queued command has been   *)
(* started yet, and run_processes may skip its wait if it started none.    *)
(***************************************************************************)
Live(s) == child[s].st # "none"

SerialInv ==
    /\ pc \notin {"run", "reap", "exited"} => \A s \in Slot \ {0} : ~Live(s)
    /\ pc \notin {"wait", "last"} => ~Live(0)
    /\ pc = "run" => \A s \in Slot : s > nforked => ~Live(s)

LEMMA SerialShell ==
    ASSUME TypeOK, SerialInv, ShellStep
    PROVE  SerialInv'
<1> USE DEF SerialInv, Live, shell
<1>0. 0 \in Slot /\ child \in [Slot -> Child] /\ Slot \subseteq Int
  BY SeushAssumption DEF Slot, TypeOK
<1>1. CASE NextCommand
  BY <1>1 DEF NextCommand
<1>2. CASE LineParsed
  BY <1>2 DEF LineParsed, Slot
<1>3. CASE Enqueue
  BY <1>3 DEF Enqueue
<1>4. CASE NoCommand
  BY <1>4 DEF NoCommand
<1>5. CASE PipeFails
  BY <1>5 DEF PipeFails
<1>6. ASSUME NEW k \in SomePipe, StartStage(k)
      PROVE  SerialInv'
  BY <1>0, <1>6 DEF StartStage
<1>7. ASSUME NEW k \in SomePipe, StartLast(k)
      PROVE  SerialInv'
  BY <1>0, <1>7 DEF StartLast
<1>8. ASSUME NEW k \in SomePipe, ForkFails(k)
      PROVE  SerialInv'
  BY <1>8 DEF ForkFails
<1>9. CASE WaitStage \/ WaitLast
  <2>1. /\ pc \in {"wait", "last"} /\ pc' \in {"stage", "command"}
        /\ \E s \in Zombies : child' = [child EXCEPT ![s] = NoChild]
    BY <1>9 DEF WaitStage, WaitLast
  <2>2. Zombies \subseteq {0}
    BY <2>1 DEF Zombies
  <2>3. child' = [child EXCEPT ![0] = NoChild]
    BY <2>1, <2>2
  <2> QED
    BY <1>0, <2>1, <2>3 DEF NoChild
<1>11. CASE StartQueued
  <2> DEFINE n == nforked + 1
             r == NewChild(fds, queue[n].prog, queue[n].outfd, queue[n].infd)
  <2>1. /\ pc = "run" /\ pc' = "run" /\ nforked' = n
        /\ child' = [child EXCEPT ![n] = r]
    BY <1>11 DEF StartQueued
  <2>2. nforked \in Nat
    BY SeqFacts DEF TypeOK
  <2> HIDE DEF r
  <2> QED
    BY <1>0, <2>1, <2>2
<1>12. CASE QueuedForkFails
  BY <1>12 DEF QueuedForkFails
<1>13. CASE AllStarted
  <2>1. CASE queue = <<>>
    <3>1. pc = "run" /\ pc' = "done" /\ nforked = 0 /\ child' = child
      BY <1>13, <2>1, SeqFacts DEF AllStarted
    <3> QED
      BY <1>0, <3>1 DEF Slot
  <2>2. CASE queue # <<>>
    BY <1>13, <2>2 DEF AllStarted
  <2> QED
    BY <2>1, <2>2
<1>14. CASE Reap
  <2>1. /\ pc = "reap" /\ pc' = "reap"
        /\ \E s \in Zombies : child' = [child EXCEPT ![s] = NoChild]
    BY <1>14 DEF Reap
  <2> QED
    BY <1>0, <2>1 DEF NoChild, Zombies
<1>15. CASE AllReaped
  BY <1>0, <1>15 DEF AllReaped, NoChildLeft
<1>16. CASE LineDone
  BY <1>16 DEF LineDone
<1> QED
  BY <1>1, <1>2, <1>3, <1>4, <1>5, <1>6, <1>7, <1>8, <1>9, <1>11, <1>12,
     <1>13, <1>14, <1>15, <1>16 DEF ShellStep

\* A child's own step neither makes nor removes a child.
LEMMA SerialChild ==
    ASSUME TypeOK, SerialInv, NEW s \in Slot, ChildStep(s)
    PROVE  SerialInv'
<1>1. child \in [Slot -> Child] /\ child[s].st = "run"
  BY DEF ChildStep, ReadUnit, ReadEof, WriteUnit, Exit, TypeOK
<1>2. pc' = pc /\ nforked' = nforked
  BY DEF ChildStep, ReadUnit, ReadEof, WriteUnit, Exit, childOnly, shell
<1>3. child' \in [Slot -> Child] /\ \A u \in Slot : u # s => child'[u] = child[u]
  BY <1>1, TypeChild DEF ChildStep, ReadUnit, ReadEof, WriteUnit, Exit, TypeOK
<1>4. \A u \in Slot : ~Live(u) => ~Live(u)'
  BY <1>1, <1>3 DEF Live
<1>5. 0 \in Slot
  BY SeushAssumption DEF Slot
<1> QED
  BY <1>2, <1>4, <1>5 DEF SerialInv

LEMMA SerialStep == TypeOK /\ SerialInv /\ [Next]_vars => SerialInv'
<1> SUFFICES ASSUME TypeOK, SerialInv, [Next]_vars PROVE SerialInv'
  OBVIOUS
<1>1. ASSUME NEW l \in Lines, ReadLine(l)
      PROVE  SerialInv'
  BY <1>1 DEF ReadLine, SerialInv, Live
<1>2. CASE UNCHANGED vars
  BY <1>2 DEF vars, SerialInv, Live
<1> QED
  BY <1>1, <1>2, SerialShell, SerialChild DEF Next, LostInput, Ended

LEMMA SerialAlways == Spec => []SerialInv
<1>1. Init => SerialInv
  <2> SUFFICES ASSUME Init PROVE SerialInv
    OBVIOUS
  <2>1. pc = "prompt" /\ child = [s \in Slot |-> NoChild] /\ 0 \in Slot
    BY SeushAssumption DEF Init, Slot
  <2> QED
    BY <2>1 DEF SerialInv, Live, NoChild
<1>2. TypeOK /\ SerialInv /\ [Next]_vars => SerialInv'
  BY SerialStep
<1> QED
  BY <1>1, <1>2, SeushTypes, PTL DEF Spec

\* parse_command never returns to the prompt with a child left behind, whatever
\* fork or pipe failed on the way.
THEOREM NoOrphans == Spec => []NoChildAtPrompt
<1>1. SerialInv => NoChildAtPrompt
  BY DEF SerialInv, NoChildAtPrompt, Live
<1> QED
  BY <1>1, SerialAlways, PTL

\* The stages of a pipeline run one at a time, before and apart from the
\* commands that run together.
THEOREM StagesAreSerial == Spec => []SerialPipelines
<1>1. SerialInv => SerialPipelines
  BY DEF SerialInv, SerialPipelines, Live
<1> QED
  BY <1>1, SerialAlways, PTL

\* Both together: every child of the shell is where parse_command, handle_pipe
\* and run_processes account for it.
THEOREM ChildrenStayInOrder == Spec => []ChildrenInOrder
<1>1. NoChildAtPrompt /\ SerialPipelines => ChildrenInOrder
  BY DEF ChildrenInOrder
<1> QED
  BY <1>1, NoOrphans, StagesAreSerial, PTL

(***************************************************************************)
(* The shell's stdin.  While a pipeline is under way save_in is the one    *)
(* descriptor that still leads to the terminal, so nothing may reuse or    *)
(* close it; a pipeline that is not cut short has a last stage.            *)
(***************************************************************************)
InPipeline == pc \in {"stage", "wait", "last"}

StdinInv ==
    sane =>
      /\ ~InPipeline => fds[0] = Tty
      /\ pc = "stage" /\ leader => fds[0] = Tty
      /\ InPipeline /\ save_in # -1 => save_in # 0 /\ fds[save_in] = Tty
      /\ pc = "wait" => ~leader
      /\ pc \in {"stage", "wait"} => stages # <<>> /\ ~dangling
      /\ \A j \in 1 .. Len(line) : ~line[j].dangling

LEMMA StdinNextCommand ==
    ASSUME TypeOK, StdinInv, NextCommand
    PROVE  StdinInv'
<1> SUFFICES ASSUME sane
             PROVE  StdinInv'
  BY DEF StdinInv, NextCommand
<1>0. 0 \in Fd /\ 1 \in Fd /\ -1 \notin Fd /\ fds \in [Fd -> Obj]
  BY SeushAssumption DEF Fd, TypeOK
<1>1. fds[0] = Tty /\ pc = "command" /\ pc' = "stage" /\ leader'
  BY DEF StdinInv, InPipeline, NextCommand
<1>2. line \in Seq(Command) /\ line # <<>> /\ \A j \in 1 .. Len(line) : ~line[j].dangling
  BY DEF StdinInv, NextCommand, TypeOK
<1>3. Head(line) \in Command /\ Head(line) = line[1] /\ 1 \in 1 .. Len(line)
  BY <1>2
<1>4. \A j \in 1 .. Len(Tail(line)) : Tail(line)[j] = line[j + 1] /\ j + 1 \in 1 .. Len(line)
  BY <1>2
<1>5. stages' # <<>> /\ ~dangling'
  <2>1. Head(line).stages # <<>>
    BY <1>3 DEF Command
  <2>2. ~Head(line).dangling
    BY <1>2, <1>3
  <2> QED
    BY <2>1, <2>2 DEF NextCommand
<1>6. \A j \in 1 .. Len(line') : ~line'[j].dangling
  BY <1>2, <1>4 DEF NextCommand
<1>7. DEFINE t == Dup(fds, 0)
<1>8. t \in [Fd -> Obj] /\ t[0] = Tty
  BY <1>0, <1>1, DupType, NewFdFree, ObjFacts DEF Dup, Put
<1>9. save_in' # -1 => save_in' \in Fd /\ save_in' # 0 /\ t[save_in'] = Tty
  BY <1>0, <1>1, NewFdFree, ObjFacts DEF NextCommand, Dup, Put
<1>10. /\ fds'[0] = Tty
       /\ save_in' # -1 => fds'[save_in'] = Tty
  <2> HIDE DEF t
  <2>1. fds' = Put(t, NewFd(t), t[1])
    BY DEF NextCommand, Dup, t
  <2> QED
    BY <1>0, <1>8, <1>9, <2>1, NewFdFree, ObjFacts DEF Put
<1> QED
  BY <1>1, <1>5, <1>6, <1>9, <1>10 DEF StdinInv, InPipeline

\* A pipeline of two stages or more has one left after its first.
LEMMA TailOfLonger ==
    ASSUME NEW S, NEW s \in Seq(S), Len(s) > 1
    PROVE  Tail(s) # <<>>
<1>1. s # <<>> /\ Len(s) \in Nat
  OBVIOUS
<1>2. Len(Tail(s)) = Len(s) - 1
  BY <1>1
<1>3. Len(Tail(s)) # 0
  BY <1>1, <1>2
<1>4. Len(<<>>) = 0
  OBVIOUS
<1> QED
  BY <1>3, <1>4

LEMMA StdinStage ==
    ASSUME TypeOK, StdinInv, NEW k \in SomePipe, StartStage(k)
    PROVE  StdinInv'
<1> SUFFICES ASSUME sane
             PROVE  StdinInv'
  BY DEF StdinInv, StartStage
<1>0. k \in Pipe /\ fds \in [Fd -> Obj] /\ save_in \in Fd \cup {-1}
  BY DEF SomePipe, FreshPipes, TypeOK
<1>1. /\ pc = "stage" /\ pc' = "wait" /\ CanPipe /\ save_in' = save_in
      /\ line' = line /\ stages' = Tail(stages)
      /\ fds' = ParentTable(PipeTable(k), PipeFds)
  BY DEF StartStage, Leftover
<1>2. ~dangling /\ ~dangling' /\ Len(stages) > 1
  BY <1>1 DEF StdinInv, HasNext, StartStage
<1>3. stages' # <<>>
  <2>1. stages \in Seq(Prog)
    BY DEF TypeOK
  <2>2. Tail(stages) # <<>>
    BY <1>2, <2>1, TailOfLonger
  <2> QED
    BY <1>1, <2>2
<1>4. save_in # -1 => save_in # 0 /\ fds[save_in] = Tty
  BY <1>1 DEF StdinInv, InPipeline
<1>5. save_in # -1 => fds'[save_in] = Tty
  <2>1. save_in # -1 => save_in \in Fd /\ save_in \notin {0, PipeFds[1], PipeFds[2]}
    BY <1>0, <1>1, <1>4, PipeFdsFree, ObjFacts
  <2> QED
    BY <1>0, <1>1, <1>4, <2>1 DEF ParentTable, PipeTable
<1>6. \A j \in 1 .. Len(line) : ~line[j].dangling
  BY DEF StdinInv
<1>7. ~leader'
  BY DEF StartStage
<1> QED
  BY <1>1, <1>2, <1>3, <1>4, <1>5, <1>6, <1>7 DEF StdinInv, InPipeline

LEMMA StdinLast ==
    ASSUME TypeOK, StdinInv, NEW k \in SomePipe, StartLast(k)
    PROVE  StdinInv'
<1> SUFFICES ASSUME sane
             PROVE  StdinInv'
  BY DEF StdinInv, StartLast
<1>0. k \in Pipe /\ fds \in [Fd -> Obj] /\ save_in \in Fd \cup {-1}
  BY DEF SomePipe, FreshPipes, TypeOK
<1>1. /\ pc = "stage" /\ pc' = "last" /\ CanPipe /\ save_in' = save_in
      /\ line' = line /\ fds' = PipeTable(k)
  BY DEF StartLast
<1>2. save_in # -1 => save_in # 0 /\ fds[save_in] = Tty
  BY <1>1 DEF StdinInv, InPipeline
<1>3. save_in # -1 => fds'[save_in] = Tty
  <2>1. save_in # -1 => save_in \in Fd /\ save_in \notin {PipeFds[1], PipeFds[2]}
    BY <1>0, <1>1, <1>2, PipeFdsFree, ObjFacts
  <2> QED
    BY <1>0, <1>1, <1>2, <2>1 DEF PipeTable
<1>4. \A j \in 1 .. Len(line) : ~line[j].dangling
  BY DEF StdinInv
<1> QED
  BY <1>1, <1>2, <1>3, <1>4 DEF StdinInv, InPipeline

LEMMA StdinEnqueue ==
    ASSUME TypeOK, StdinInv, Enqueue
    PROVE  StdinInv'
<1> SUFFICES ASSUME sane
             PROVE  StdinInv'
  BY DEF StdinInv, Enqueue
<1>1. /\ pc' = "command" /\ line' = line /\ fds' = Opened(fds, Head(stages))
  BY DEF Enqueue
<1>2. fds[0] = Tty /\ \A j \in 1 .. Len(line) : ~line[j].dangling
  BY DEF StdinInv, Enqueue
<1>3. fds' [0] = Tty
  <2> DEFINE prog == Head(stages)
             t == Put(fds, OutFd(fds, prog), File)
  <2>0. 0 \in Fd /\ fds \in [Fd -> Obj]
    BY SeushAssumption DEF Fd, TypeOK
  <2>1. t \in [Fd -> Obj] /\ t[0] = Tty
    <3>1. OutFd(fds, prog) # 0
      BY <1>2, <2>0, NewFdFree, ObjFacts DEF OutFd
    <3> QED
      BY <1>2, <2>0, <3>1, PutType, ObjFacts DEF Put
  <2>2. InFd(fds, prog) # 0
    BY <2>1, NewFdFree, ObjFacts DEF InFd
  <2>3. fds' = Put(t, InFd(fds, prog), File)
    BY <1>1 DEF Opened
  <2> HIDE DEF t, prog
  <2> QED
    BY <2>0, <2>1, <2>2, <2>3 DEF Put
<1> QED
  BY <1>1, <1>2, <1>3 DEF StdinInv, InPipeline

LEMMA StdinShell ==
    ASSUME TypeOK, StdinInv, ShellStep
    PROVE  StdinInv'
<1> USE DEF StdinInv, InPipeline, shell
<1>2. CASE LineParsed
  BY <1>2 DEF LineParsed
<1>4. CASE NoCommand
  BY <1>4 DEF NoCommand
<1>5. CASE PipeFails
  BY <1>5 DEF PipeFails
<1>8. ASSUME NEW k \in SomePipe, ForkFails(k)
      PROVE  StdinInv'
  BY <1>8 DEF ForkFails
<1>9. CASE WaitStage
  <2>1. /\ pc = "wait" /\ pc' = "stage"
        /\ UNCHANGED <<line, stages, dangling, leader, fds, save_in, sane>>
    BY <1>9 DEF WaitStage
  <2> QED
    BY <2>1
<1>10. CASE WaitLast
  <2>1. /\ pc = "last" /\ pc' = "command" /\ line' = line
        /\ fds' = RestoreStdin(fds) /\ (sane' => sane /\ save_in # -1)
    BY <1>10 DEF WaitLast
  <2>2. sane' => fds'[0] = Tty
    <3>1. 0 \in Fd /\ fds \in [Fd -> Obj]
      BY SeushAssumption DEF Fd, TypeOK
    <3> QED
      BY <2>1, <3>1 DEF RestoreStdin
  <2> QED
    BY <2>1, <2>2
<1>11. CASE StartQueued
  BY <1>11 DEF StartQueued
<1>12. CASE QueuedForkFails
  BY <1>12 DEF QueuedForkFails
<1>13. CASE AllStarted
  BY <1>13 DEF AllStarted
<1>14. CASE Reap
  BY <1>14 DEF Reap
<1>15. CASE AllReaped
  BY <1>15 DEF AllReaped
<1>16. CASE LineDone
  BY <1>16 DEF LineDone
<1> QED
  BY <1>2, <1>4, <1>5, <1>8, <1>9, <1>10, <1>11, <1>12, <1>13, <1>14, <1>15, <1>16,
     StdinNextCommand, StdinEnqueue, StdinStage, StdinLast DEF ShellStep

LEMMA StdinStep == TypeOK /\ StdinInv /\ [Next]_vars => StdinInv'
<1> SUFFICES ASSUME TypeOK, StdinInv, [Next]_vars PROVE StdinInv'
  OBVIOUS
<1>1. ASSUME NEW l \in Lines, ReadLine(l)
      PROVE  StdinInv'
  <2>1. /\ pc' = "command" /\ line' = l /\ fds' = fds /\ fds[0] = Tty
        /\ sane' => \A j \in DOMAIN l : ~l[j].dangling
    BY <1>1 DEF ReadLine
  <2>2. DOMAIN l = 1 .. Len(l)
    BY SeushAssumption
  <2> QED
    BY <2>1, <2>2 DEF StdinInv, InPipeline
<1>2. CASE UNCHANGED vars
  BY <1>2 DEF vars, StdinInv, InPipeline
<1>3. ASSUME NEW s \in Slot, ChildStep(s)
      PROVE  StdinInv'
  BY <1>3 DEF ChildStep, ReadUnit, ReadEof, WriteUnit, Exit, childOnly, shell,
              StdinInv, InPipeline
<1> QED
  BY <1>1, <1>2, <1>3, StdinShell DEF Next, LostInput, Ended

LEMMA StdinAlways == Spec => []StdinInv
<1>1. Init => StdinInv
  <2> SUFFICES ASSUME Init PROVE StdinInv
    OBVIOUS
  <2>1. pc = "prompt" /\ fds[0] = Tty /\ line = <<>>
    BY SeushAssumption DEF Init, Fd
  <2> QED
    BY <2>1 DEF StdinInv, InPipeline
<1>2. TypeOK /\ StdinInv /\ [Next]_vars => StdinInv'
  BY StdinStep
<1> QED
  BY <1>1, <1>2, SeushTypes, PTL DEF Spec

\* Every pipeline that is not cut short gives the shell its stdin back:
\* dup2(save_in, 0) finds the terminal still there.
THEOREM StdinComesBack == Spec => []StdinRestored
<1>1. StdinInv => StdinRestored
  BY DEF StdinInv, StdinRestored, InPipeline
<1> QED
  BY <1>1, StdinAlways, PTL

(***************************************************************************)
(* Recursion over the stages of a command and the commands of a line.      *)
(***************************************************************************)
\* Induction over the natural numbers, for a set.
LEMMA NatSet ==
    ASSUME NEW S, 0 \in S, \A n \in Nat : n \in S => n + 1 \in S
    PROVE  Nat \subseteq S
<1> SUFFICES ASSUME Nat \ S # {} PROVE FALSE
  OBVIOUS
<1> DEFINE T == Nat \ S
<1>1. PICK m \in T : \A k \in T : m <= k
  <2> HIDE DEF T
  <2>1. T \subseteq Nat /\ T # {}
    BY DEF T
  <2> QED
    BY <2>1, LeastOf
<1>2. m # 0 /\ m - 1 \in Nat /\ m - 1 \notin T /\ (m - 1) + 1 = m
  BY <1>1
<1> QED
  BY <1>1, <1>2

\* f is what step makes of 0, going from 1 to n.
Runs(f, step, n) ==
    /\ f \in [0 .. n -> Nat]
    /\ f[0] = 0
    /\ \A j \in 1 .. n : f[j] = step[<<j, f[j - 1]>>]

LEMMA RunExists ==
    ASSUME NEW n \in Nat, NEW step \in [(1 .. n) \X Nat -> Nat]
    PROVE  \E f : Runs(f, step, n)
<1> DEFINE S == {m \in Nat : m <= n => \E f : Runs(f, step, m)}
<1>1. 0 \in S
  <2>1. PICK f : f = [j \in 0 .. 0 |-> 0]
    OBVIOUS
  <2>2. Runs(f, step, 0)
    BY <2>1 DEF Runs
  <2> QED
    BY <2>2
<1>2. ASSUME NEW m \in Nat, m \in S
      PROVE  m + 1 \in S
  <2> SUFFICES ASSUME m + 1 <= n
               PROVE  \E f : Runs(f, step, m + 1)
    OBVIOUS
  <2>1. PICK f : Runs(f, step, m)
    BY <1>2
  <2>2. PICK g : g = [j \in 0 .. m + 1 |-> IF j = m + 1 THEN step[<<m + 1, f[m]>>] ELSE f[j]]
    OBVIOUS
  <2>3. f[m] \in Nat /\ step[<<m + 1, f[m]>>] \in Nat
    BY <2>1 DEF Runs
  <2>4. g \in [0 .. m + 1 -> Nat] /\ g[0] = 0
    BY <2>1, <2>2, <2>3 DEF Runs
  <2>5. ASSUME NEW j \in 1 .. m + 1
        PROVE  g[j] = step[<<j, g[j - 1]>>]
    <3>1. g[j - 1] = f[j - 1]
      BY <2>2
    <3>2. CASE j = m + 1
      <4>1. g[j] = step[<<m + 1, f[m]>>] /\ j - 1 = m
        BY <2>2, <3>2
      <4> QED
        BY <3>1, <3>2, <4>1
    <3>3. CASE j # m + 1
      BY <2>1, <2>2, <3>1, <3>3 DEF Runs
    <3> QED
      BY <3>2, <3>3
  <2>6. Runs(g, step, m + 1)
    BY <2>4, <2>5 DEF Runs
  <2> QED
    BY <2>6
<1>3. n \in S
  <2> HIDE DEF S
  <2> QED
    BY <1>1, <1>2, NatSet
<1> QED
  BY <1>3

\* Whatever obeys the same recursion up to m is the same up to m.
LEMMA RunUnique ==
    ASSUME NEW n \in Nat, NEW step, NEW f, Runs(f, step, n), NEW m \in 0 .. n,
           NEW h, h[0] = 0, \A j \in 1 .. m : h[j - 1] \in Nat => h[j] = step[<<j, h[j - 1]>>]
    PROVE  h[m] = f[m]
<1> DEFINE S == {j \in Nat : j <= m => h[j] = f[j]}
<1>1. 0 \in S
  BY DEF Runs
<1>2. ASSUME NEW j \in Nat, j \in S
      PROVE  j + 1 \in S
  <2> SUFFICES ASSUME j + 1 <= m
               PROVE  h[j + 1] = f[j + 1]
    OBVIOUS
  <2>1. h[j] = f[j] /\ (j + 1) - 1 = j /\ j + 1 \in 1 .. n /\ j + 1 \in 1 .. m /\ j \in 0 .. n
    BY <1>2
  <2>2. f[j] \in Nat /\ f[j + 1] = step[<<j + 1, f[j]>>]
    BY <2>1 DEF Runs
  <2>3. h[j + 1] = step[<<j + 1, h[j]>>]
    BY <2>1, <2>2
  <2> QED
    BY <2>1, <2>2, <2>3
<1>3. m \in S
  <2> HIDE DEF S
  <2> QED
    BY <1>1, <1>2, NatSet
<1> QED
  BY <1>3

LEMMA PassesType ==
    ASSUME NEW p \in Prog, NEW x \in Nat
    PROVE  Passes(p, x) \in Nat
BY DEF Passes, Prog

\* Passed and Total are the runs of their recursions.
LEMMA PassedRun ==
    ASSUME NEW s \in Seq(Prog)
    PROVE  \E f : /\ f \in [0 .. Len(s) -> Nat] /\ f[0] = 0
                  /\ \A j \in 1 .. Len(s) : f[j] = Passes(s[j], f[j - 1])
                  /\ \A n \in 0 .. Len(s) : Passed(s, n) = f[n]
<1>0. PICK N : N = Len(s) /\ N \in Nat
  OBVIOUS
<1>1. PICK step : step = [q \in (1 .. N) \X Nat |-> Passes(s[q[1]], q[2])]
  OBVIOUS
<1>2. step \in [(1 .. N) \X Nat -> Nat]
  <2>1. ASSUME NEW q \in (1 .. N) \X Nat
        PROVE  Passes(s[q[1]], q[2]) \in Nat
    <3>1. q[1] \in 1 .. Len(s) /\ q[2] \in Nat
      BY <1>0
    <3>2. s[q[1]] \in Prog
      BY <3>1
    <3> QED
      BY <3>1, <3>2, PassesType
  <2> QED
    BY <1>1, <2>1
<1>3. PICK f : Runs(f, step, N)
  BY <1>0, <1>2, RunExists
<1>4. ASSUME NEW j \in 1 .. N, NEW x \in Nat
      PROVE  step[<<j, x>>] = Passes(s[j], x)
  BY <1>1
<1>5. ASSUME NEW j \in 1 .. N
      PROVE  f[j] = Passes(s[j], f[j - 1]) /\ f[j - 1] \in Nat
  <2>1. f[j - 1] \in Nat /\ f[j] = step[<<j, f[j - 1]>>]
    BY <1>0, <1>3 DEF Runs
  <2> QED
    BY <1>4, <2>1
<1>6. ASSUME NEW n \in 0 .. N
      PROVE  Passed(s, n) = f[n]
  <2> DEFINE Rec(h) == h = [j \in 0 .. n |-> IF j = 0 THEN 0 ELSE Passes(s[j], h[j - 1])]
             h == CHOOSE g : Rec(g)
  <2>1. PICK g : g = [j \in 0 .. n |-> f[j]]
    OBVIOUS
  <2>2. Rec(g)
    <3>1. ASSUME NEW j \in 0 .. n
          PROVE  g[j] = IF j = 0 THEN 0 ELSE Passes(s[j], g[j - 1])
      BY <1>0, <1>3, <1>5, <2>1 DEF Runs
    <3> QED
      BY <2>1, <3>1
  <2>3. Rec(h)
    <3> HIDE DEF Rec
    <3> QED
      BY <2>2
  <2>4. Passed(s, n) = h[n]
    BY DEF Passed
  <2> HIDE DEF h
  <2>5. h[0] = 0 /\ \A j \in 1 .. n : h[j] = Passes(s[j], h[j - 1])
    BY <1>0, <2>3
  <2>6. \A j \in 1 .. n : h[j - 1] \in Nat => h[j] = step[<<j, h[j - 1]>>]
    BY <1>0, <1>4, <2>5
  <2> HIDE DEF Rec
  <2>7. h[n] = f[n]
    BY <1>0, <1>3, <2>5, <2>6, RunUnique
  <2> QED
    BY <2>4, <2>7
<1> QED
  BY <1>0, <1>3, <1>5, <1>6 DEF Runs

LEMMA TotalRun ==
    ASSUME NEW N \in Nat, NEW F \in [1 .. N -> Nat]
    PROVE  \E f : /\ f \in [0 .. N -> Nat] /\ f[0] = 0
                  /\ \A j \in 1 .. N : f[j] = f[j - 1] + F[j]
                  /\ \A n \in 0 .. N : Total(F, n) = f[n]
<1>1. PICK step : step = [q \in (1 .. N) \X Nat |-> q[2] + F[q[1]]]
  OBVIOUS
<1>2. step \in [(1 .. N) \X Nat -> Nat]
  BY <1>1
<1>3. PICK f : Runs(f, step, N)
  BY <1>2, RunExists
<1>4. ASSUME NEW j \in 1 .. N, NEW x \in Nat
      PROVE  step[<<j, x>>] = x + F[j]
  BY <1>1
<1>5. ASSUME NEW j \in 1 .. N
      PROVE  f[j] = f[j - 1] + F[j] /\ f[j - 1] \in Nat
  <2>1. f[j - 1] \in Nat /\ f[j] = step[<<j, f[j - 1]>>]
    BY <1>3 DEF Runs
  <2> QED
    BY <1>4, <2>1
<1>6. ASSUME NEW n \in 0 .. N
      PROVE  Total(F, n) = f[n]
  <2> DEFINE Rec(h) == h = [j \in 0 .. n |-> IF j = 0 THEN 0 ELSE h[j - 1] + F[j]]
             h == CHOOSE g : Rec(g)
  <2>1. PICK g : g = [j \in 0 .. n |-> f[j]]
    OBVIOUS
  <2>2. Rec(g)
    <3>1. ASSUME NEW j \in 0 .. n
          PROVE  g[j] = IF j = 0 THEN 0 ELSE g[j - 1] + F[j]
      BY <1>3, <1>5, <2>1 DEF Runs
    <3> QED
      BY <2>1, <3>1
  <2>3. Rec(h)
    <3> HIDE DEF Rec
    <3> QED
      BY <2>2
  <2>4. Total(F, n) = h[n]
    BY DEF Total
  <2> HIDE DEF h
  <2>5. h[0] = 0 /\ \A j \in 1 .. n : h[j] = h[j - 1] + F[j]
    BY <2>3
  <2>6. \A j \in 1 .. n : h[j - 1] \in Nat => h[j] = step[<<j, h[j - 1]>>]
    BY <1>4, <2>5
  <2> HIDE DEF Rec
  <2>7. h[n] = f[n]
    BY <1>3, <2>5, <2>6, RunUnique
  <2> QED
    BY <2>4, <2>7
<1> QED
  BY <1>3, <1>5, <1>6 DEF Runs

LEMMA PassedStep ==
    ASSUME NEW s \in Seq(Prog)
    PROVE  /\ Passed(s, 0) = 0
           /\ \A n \in 0 .. Len(s) : Passed(s, n) \in Nat
           /\ \A n \in 1 .. Len(s) : Passed(s, n) = Passes(s[n], Passed(s, n - 1))
<1>1. PICK f : /\ f \in [0 .. Len(s) -> Nat] /\ f[0] = 0
               /\ \A j \in 1 .. Len(s) : f[j] = Passes(s[j], f[j - 1])
               /\ \A n \in 0 .. Len(s) : Passed(s, n) = f[n]
  BY PassedRun
<1>2. Len(s) \in Nat
  OBVIOUS
<1>3. ASSUME NEW n \in 1 .. Len(s)
      PROVE  Passed(s, n) = Passes(s[n], Passed(s, n - 1))
  <2>1. n - 1 \in 0 .. Len(s) /\ n \in 0 .. Len(s)
    BY <1>2
  <2> QED
    BY <1>1, <2>1
<1> QED
  BY <1>1, <1>2, <1>3

LEMMA TotalStep ==
    ASSUME NEW N \in Nat, NEW F \in [1 .. N -> Nat]
    PROVE  /\ Total(F, 0) = 0
           /\ \A n \in 0 .. N : Total(F, n) \in Nat
           /\ \A n \in 1 .. N : Total(F, n) = Total(F, n - 1) + F[n]
<1>1. PICK f : /\ f \in [0 .. N -> Nat] /\ f[0] = 0
               /\ \A j \in 1 .. N : f[j] = f[j - 1] + F[j]
               /\ \A n \in 0 .. N : Total(F, n) = f[n]
  BY TotalRun
<1>2. ASSUME NEW n \in 1 .. N
      PROVE  Total(F, n) = Total(F, n - 1) + F[n]
  <2>1. n - 1 \in 0 .. N /\ n \in 0 .. N
    OBVIOUS
  <2> QED
    BY <1>1, <2>1
<1> QED
  BY <1>1, <1>2

LEMMA TotalZero ==
    ASSUME NEW N \in Nat, NEW F \in [1 .. N -> Nat], \A n \in 1 .. N : F[n] = 0
    PROVE  Total(F, N) = 0
<1> DEFINE S == {n \in Nat : n <= N => Total(F, n) = 0}
<1>1. 0 \in S
  BY TotalStep
<1>2. ASSUME NEW n \in Nat, n \in S
      PROVE  n + 1 \in S
  <2> SUFFICES ASSUME n + 1 <= N
               PROVE  Total(F, n + 1) = 0
    OBVIOUS
  <2>1. n + 1 \in 1 .. N /\ (n + 1) - 1 = n /\ Total(F, n) = 0
    BY <1>2
  <2>2. Total(F, n + 1) = Total(F, (n + 1) - 1) + F[n + 1]
    BY <2>1, TotalStep
  <2> QED
    BY <2>1, <2>2
<1>3. N \in S
  <2> HIDE DEF S
  <2> QED
    BY <1>1, <1>2, NatSet
<1> QED
  BY <1>3

\* A change of one summand is the change of the sum.
LEMMA TotalChange ==
    ASSUME NEW N \in Nat, NEW F \in [1 .. N -> Nat], NEW G \in [1 .. N -> Nat],
           NEW k \in 1 .. N, \A n \in 1 .. N : n # k => G[n] = F[n]
    PROVE  Total(G, N) = Total(F, N) + G[k] - F[k]
<1> DEFINE S == {n \in Nat : n <= N =>
                    Total(G, n) = IF n < k THEN Total(F, n) ELSE Total(F, n) + G[k] - F[k]}
<1>1. 0 \in S
  <2>1. Total(F, 0) = 0
    BY TotalStep
  <2>2. Total(G, 0) = 0
    BY TotalStep
  <2>3. 0 < k
    OBVIOUS
  <2> QED
    BY <2>1, <2>2, <2>3
<1>2. ASSUME NEW n \in Nat, n \in S
      PROVE  n + 1 \in S
  <2> SUFFICES ASSUME n + 1 <= N
               PROVE  Total(G, n + 1) = IF n + 1 < k THEN Total(F, n + 1)
                                        ELSE Total(F, n + 1) + G[k] - F[k]
    OBVIOUS
  <2>1. /\ n + 1 \in 1 .. N /\ (n + 1) - 1 = n /\ n \in 0 .. N
        /\ Total(G, n) = IF n < k THEN Total(F, n) ELSE Total(F, n) + G[k] - F[k]
    BY <1>2
  <2>2. /\ Total(F, n + 1) = Total(F, n) + F[n + 1] /\ Total(F, n) \in Nat
        /\ Total(G, n + 1) = Total(G, n) + G[n + 1]
    BY <2>1, TotalStep
  <2>3. F[n + 1] \in Nat /\ G[n + 1] \in Nat /\ F[k] \in Nat /\ G[k] \in Nat
    BY <2>1
  <2>4. CASE n + 1 = k
    <3>1. Total(G, n) = Total(F, n) /\ ~(n + 1 < k)
      BY <2>1, <2>4
    <3>2. G[n + 1] = G[k] /\ F[n + 1] = F[k]
      BY <2>4
    <3> QED
      BY <2>2, <2>3, <3>1, <3>2
  <2>5. CASE n + 1 # k
    <3>1. G[n + 1] = F[n + 1]
      BY <2>1, <2>5
    <3> QED
      BY <2>1, <2>2, <2>3, <2>5, <3>1
  <2> QED
    BY <2>4, <2>5
<1>3. N \in S
  <2> HIDE DEF S
  <2> QED
    BY <1>1, <1>2, NatSet
<1> QED
  BY <1>3

(***************************************************************************)
(* What arrives at the terminal.  While a line runs, what its commands so  *)
(* far ought to show is what the terminal has, what the queued commands    *)
(* still owe, and for the pipeline under way what its child and the pipe   *)
(* behind stdin hold.  L is the line, j the number of its commands looked  *)
(* at, i the number of stages of the j-th that were started.               *)
(***************************************************************************)
\* What a running child c will still send to o: what it has in hand and, while
\* it reads, what waits in the pipe b it reads from.
Unread(b, c) == IF c.reading /\ c.in[1] = "r" THEN b[c.in[2]] ELSE 0
Pending(b, c, o) == IF c.st = "run" /\ c.out = o THEN c.left + Unread(b, c) ELSE 0

\* What the commands without '|' will still send to the terminal.
Owes(c, q, n, k) ==
    IF k <= n THEN (IF c[k].st = "run" /\ c[k].out = Tty THEN c[k].left ELSE 0)
    ELSE IF k <= Len(q) THEN Passes(q[k].prog, 0) ELSE 0
Owed(c, q, n) == [k \in 1 .. MaxChild |-> Owes(c, q, n, k)]
Paid == tty + Total(Owed(child, queue, nforked), MaxChild)

\* A queued command has its files, and misses those that are not there.
Ready(r) ==
    /\ r.prog.redir => r.outfd # -1
    /\ r.prog.infile = "exists" => r.infd # -1
    /\ r.prog.infile = "missing" => r.infd = -1

\* What is left of q is what follows its first n elements.
After(rest, q, n) ==
    Len(rest) = Len(q) - n /\ \A i \in 1 .. Len(rest) : rest[i] = q[n + i]

\* The first i stages of s have been started; base is what the commands before
\* ought to show.
AtStage(s, i, base) ==
    /\ After(stages, s, i)
    /\ pc # "last" => Paid = base
    /\ pc = "stage" => /\ leader <=> i = 0
                       /\ i > 0 => fds[0][1] = "r" /\ buf[fds[0][2]] = Passed(s, i)
    /\ pc = "wait" =>
         /\ i > 0 /\ fds[0][1] = "r"
         /\ child[0].st = "run" => /\ child[0].out \in {File, <<"w", fds[0][2]>>}
                                   /\ child[0].in # fds[0]
         /\ buf[fds[0][2]] + Pending(buf, child[0], <<"w", fds[0][2]>>) = Passed(s, i)
    /\ pc = "last" =>
         /\ i = Len(s)
         /\ child[0].st = "run" => child[0].out \in {File, Tty}
         /\ Paid + Pending(buf, child[0], Tty) = base + Passed(s, i)

\* j commands of the line L have been looked at.
AtCommand(L, j) ==
    /\ want = Expected(L)
    /\ After(line, L, j)
    /\ Len(queue) <= j
    /\ pc \in {"run", "reap"} => j = Len(L)
    /\ pc \in {"command", "run", "reap"} => Paid = Total(Flows(L), j)
    /\ pc = "reap" => nforked = Len(queue)
    /\ InPipeline =>
         /\ Len(queue) < j
         /\ \E i \in 0 .. Len(L[j].stages) :
              AtStage(L[j].stages, i, Total(Flows(L), j - 1))

DeliverInv ==
    sane =>
      /\ pc \notin {"exited", "crashed"}
      /\ fds[1] = Tty
      /\ pc \in {"prompt", "done"} => tty = want
      /\ pc = "prompt" => queue = <<>>
      /\ pc \notin {"run", "reap", "done"} => nforked = 0
      /\ \A k \in 1 .. Len(queue) : Ready(queue[k])
      /\ \A s \in Slot \ {0} : child[s].st = "run" =>
            child[s].in \in {Tty, File} /\ child[s].out \in {Tty, File}
      /\ pc \in {"run", "reap"} => \A s \in Slot : s > nforked => child[s].st = "none"
      /\ pc \notin {"prompt", "done"} =>
            \E L \in Lines : \E j \in 0 .. Len(L) : AtCommand(L, j)

LEMMA FlowsStep ==
    ASSUME NEW L \in Lines
    PROVE  /\ L \in Seq(Command) /\ Len(L) \in 0 .. MaxChild
           /\ \A j \in 1 .. Len(L) : L[j].stages \in Seq(Prog) /\ L[j].stages # <<>>
           /\ Total(Flows(L), 0) = 0
           /\ \A j \in 0 .. Len(L) : Total(Flows(L), j) \in Nat
           /\ \A j \in 1 .. Len(L) : Total(Flows(L), j) =
                Total(Flows(L), j - 1) + Passed(L[j].stages, Len(L[j].stages))
<1>1. L \in Seq(Command) /\ Len(L) \in Nat /\ Len(L) <= MaxChild /\ MaxChild \in Nat
  BY SeushAssumption
<1>2. ASSUME NEW j \in 1 .. Len(L)
      PROVE  L[j].stages \in Seq(Prog) /\ L[j].stages # <<>>
  <2>1. L[j] \in Command
    BY <1>1
  <2> QED
    BY <2>1 DEF Command
<1>3. ASSUME NEW j \in 1 .. Len(L)
      PROVE  Passed(L[j].stages, Len(L[j].stages)) \in Nat
  <2>1. Len(L[j].stages) \in 0 .. Len(L[j].stages)
    BY <1>2
  <2> QED
    BY <1>2, <2>1, PassedStep
<1>4. Flows(L) \in [1 .. Len(L) -> Nat]
  BY <1>3 DEF Flows
<1>5. \A j \in 1 .. Len(L) : Flows(L)[j] = Passed(L[j].stages, Len(L[j].stages))
  BY DEF Flows
<1>6. /\ Total(Flows(L), 0) = 0
      /\ \A j \in 0 .. Len(L) : Total(Flows(L), j) \in Nat
      /\ \A j \in 1 .. Len(L) : Total(Flows(L), j) = Total(Flows(L), j - 1) + Flows(L)[j]
  BY <1>1, <1>4, TotalStep
<1>7. \A j \in 1 .. Len(L) : Total(Flows(L), j) =
          Total(Flows(L), j - 1) + Passed(L[j].stages, Len(L[j].stages))
  BY <1>5, <1>6
<1> QED
  BY <1>1, <1>2, <1>6, <1>7

LEMMA OwedType ==
    ASSUME NEW c \in [Slot -> Child], NEW q \in Seq(Process), NEW n \in Nat
    PROVE  /\ Owed(c, q, n) \in [1 .. MaxChild -> Nat]
           /\ \A k \in 1 .. MaxChild :
                Owed(c, q, n)[k] = Owes(c, q, n, k) /\ Owes(c, q, n, k) \in Nat
           /\ Total(Owed(c, q, n), MaxChild) \in Nat
<1>1. ASSUME NEW k \in 1 .. MaxChild
      PROVE  Owes(c, q, n, k) \in Nat
  <2>1. k \in Slot
    BY SeushAssumption DEF Slot
  <2>2. c[k].left \in Nat
    BY <2>1 DEF Child
  <2>3. k <= Len(q) => Passes(q[k].prog, 0) \in Nat
    <3> SUFFICES ASSUME k <= Len(q) PROVE Passes(q[k].prog, 0) \in Nat
      OBVIOUS
    <3>1. q[k] \in Process
      OBVIOUS
    <3>2. q[k].prog \in Prog
      BY <3>1 DEF Process
    <3> QED
      BY <3>2, PassesType
  <2> QED
    BY <2>2, <2>3 DEF Owes
<1>2. Owed(c, q, n) \in [1 .. MaxChild -> Nat]
  BY <1>1 DEF Owed
<1>3. MaxChild \in Nat /\ MaxChild \in 0 .. MaxChild
  BY SeushAssumption
<1>4. \A k \in 1 .. MaxChild : Owed(c, q, n)[k] = Owes(c, q, n, k)
  BY DEF Owed
<1> QED
  BY <1>1, <1>2, <1>3, <1>4, TotalStep

\* The sum changes by as much as what one command owes.
LEMMA OwedChange ==
    ASSUME NEW c \in [Slot -> Child], NEW q \in Seq(Process), NEW n \in Nat,
           NEW d \in [Slot -> Child], NEW r \in Seq(Process), NEW m \in Nat,
           NEW k \in 1 .. MaxChild,
           \A i \in 1 .. MaxChild : i # k => Owes(d, r, m, i) = Owes(c, q, n, i)
    PROVE  Total(Owed(d, r, m), MaxChild)
             = Total(Owed(c, q, n), MaxChild) + Owes(d, r, m, k) - Owes(c, q, n, k)
<1>1. PICK F, G : F = Owed(c, q, n) /\ G = Owed(d, r, m)
  OBVIOUS
<1>2. /\ F \in [1 .. MaxChild -> Nat] /\ G \in [1 .. MaxChild -> Nat]
      /\ \A i \in 1 .. MaxChild : F[i] = Owes(c, q, n, i) /\ G[i] = Owes(d, r, m, i)
  BY <1>1, OwedType
<1>3. MaxChild \in Nat /\ \A i \in 1 .. MaxChild : i # k => G[i] = F[i]
  BY <1>2, SeushAssumption
<1>4. Total(G, MaxChild) = Total(F, MaxChild) + G[k] - F[k]
  BY <1>2, <1>3, TotalChange
<1> QED
  BY <1>1, <1>2, <1>4

LEMMA OpenedKeeps ==
    ASSUME NEW t \in [Fd -> Obj], NEW prog \in Prog, NEW n \in Fd, t[n] # Closed
    PROVE  Opened(t, prog)[n] = t[n]
<1>1. PICK u : u = Put(t, OutFd(t, prog), File)
  OBVIOUS
<1>2. u \in [Fd -> Obj] /\ u[n] = t[n]
  <2>1. OutFd(t, prog) # n
    BY NewFdFree, SeushAssumption DEF OutFd, Fd
  <2> QED
    BY <1>1, <2>1, PutType, ObjFacts DEF Put
<1>3. InFd(t, prog) # n
  BY <1>1, <1>2, NewFdFree, SeushAssumption DEF InFd, Fd
<1>4. Opened(t, prog) = Put(u, InFd(t, prog), File)
  BY <1>1 DEF Opened
<1> QED
  BY <1>2, <1>3, <1>4 DEF Put

\* What a program that got its descriptors from table t will send to stdout.
LEMMA NewChildIs ==
    ASSUME NEW t \in [Fd -> Obj], NEW prog \in Prog, NEW o, NEW i,
           Ready([prog |-> prog, outfd |-> o, infd |-> i])
    PROVE  LET c == NewChild(t, prog, o, i) IN
           /\ c.st = "run" <=> prog.found /\ prog.infile # "missing"
           /\ c.st = "run" =>
                /\ c.in = (IF prog.infile = "none" THEN t[0] ELSE File)
                /\ c.out = (IF prog.redir THEN File ELSE t[1])
                /\ c.left = prog.gen /\ c.reading = prog.reads
<1>1. PICK c : c = NewChild(t, prog, o, i)
  OBVIOUS
<1>2. 0 \in Fd /\ 1 \in Fd
  BY SeushAssumption DEF Fd
<1>3. prog.infile \in {"none", "exists", "missing"}
  BY DEF Prog
<1>4. CanRun(prog, o, i) <=> prog.found /\ prog.infile # "missing"
  BY <1>3 DEF CanRun, Ready
<1>5. c.st = "run" <=> prog.found /\ prog.infile # "missing"
  BY <1>1, <1>4 DEF NewChild, NoChild
<1>6. ASSUME c.st = "run"
      PROVE  /\ c.in = (IF prog.infile = "none" THEN t[0] ELSE File)
             /\ c.out = (IF prog.redir THEN File ELSE t[1])
             /\ c.left = prog.gen /\ c.reading = prog.reads
  <2>1. CanRun(prog, o, i)
    BY <1>4, <1>5, <1>6
  <2>2. /\ c.in = Redirected(t, prog)[0] /\ c.out = Redirected(t, prog)[1]
        /\ c.left = prog.gen /\ c.reading = prog.reads
    BY <1>1, <2>1 DEF NewChild
  <2> QED
    BY <1>2, <2>2 DEF Redirected
<1> QED
  BY <1>1, <1>5, <1>6

LEMMA NewChildSends ==
    ASSUME NEW t \in [Fd -> Obj], NEW prog \in Prog, NEW o, NEW i,
           Ready([prog |-> prog, outfd |-> o, infd |-> i]), NEW b,
           t[1] # File
    PROVE  Pending(b, NewChild(t, prog, o, i), t[1])
              = Passes(prog, IF t[0][1] = "r" THEN b[t[0][2]] ELSE 0)
<1>1. PICK c : c = NewChild(t, prog, o, i)
  OBVIOUS
<1>2. /\ c.st = "run" <=> prog.found /\ prog.infile # "missing"
      /\ c.st = "run" =>
                /\ c.in = (IF prog.infile = "none" THEN t[0] ELSE File)
                /\ c.out = (IF prog.redir THEN File ELSE t[1])
                /\ c.left = prog.gen /\ c.reading = prog.reads
  BY <1>1, NewChildIs
<1>3. File[1] # "r"
  BY DEF File
<1> QED
  BY <1>1, <1>2, <1>3 DEF Pending, Unread, Passes, Prog

\* A stage that finds descriptors for its files.
LEMMA StageChildSends ==
    ASSUME NEW t \in [Fd -> Obj], NEW prog \in Prog, FilesOpen(t, prog), NEW b,
           t[0] # Closed, t[1] # Closed, t[1] # File
    PROVE  /\ Pending(b, StageChild(t, prog), t[1])
                = Passes(prog, IF t[0][1] = "r" THEN b[t[0][2]] ELSE 0)
           /\ StageChild(t, prog).st = "run" =>
                /\ StageChild(t, prog).in \in {File, t[0]}
                /\ StageChild(t, prog).out \in {File, t[1]}
<1>1. PICK u, o, i : u = Opened(t, prog) /\ o = OutFd(t, prog) /\ i = InFd(t, prog)
  OBVIOUS
<1>2. 0 \in Fd /\ 1 \in Fd
  BY SeushAssumption DEF Fd
<1>3. u \in [Fd -> Obj] /\ u[0] = t[0] /\ u[1] = t[1]
  BY <1>1, <1>2, OpenedType, OpenedKeeps
<1>4. Ready([prog |-> prog, outfd |-> o, infd |-> i])
  BY <1>1 DEF Ready, FilesOpen, InFd
<1>5. StageChild(t, prog) = NewChild(u, prog, o, i)
  BY <1>1 DEF StageChild
<1>6. Pending(b, NewChild(u, prog, o, i), u[1])
        = Passes(prog, IF u[0][1] = "r" THEN b[u[0][2]] ELSE 0)
  BY <1>3, <1>4, NewChildSends
<1>7. NewChild(u, prog, o, i).st = "run" =>
         /\ NewChild(u, prog, o, i).in \in {File, u[0]}
         /\ NewChild(u, prog, o, i).out \in {File, u[1]}
  BY <1>3, <1>4, NewChildIs
<1> QED
  BY <1>3, <1>5, <1>6, <1>7

LEMMA AfterTail ==
    ASSUME NEW T, NEW q \in Seq(T), NEW rest \in Seq(T), NEW n \in 0 .. Len(q),
           After(rest, q, n), rest # <<>>
    PROVE  /\ n + 1 \in 1 .. Len(q) /\ Head(rest) = q[n + 1]
           /\ After(Tail(rest), q, n + 1)
<1>1. Len(rest) > 0 /\ Len(rest) = Len(q) - n /\ Len(rest) \in Nat /\ Len(q) \in Nat
  BY DEF After
<1>2. Head(rest) = rest[1] /\ rest[1] = q[n + 1]
  BY <1>1 DEF After
<1>3. Len(Tail(rest)) = Len(rest) - 1
  BY <1>1
<1>4. ASSUME NEW i \in 1 .. Len(Tail(rest))
      PROVE  Tail(rest)[i] = q[(n + 1) + i]
  <2>1. Tail(rest)[i] = rest[i + 1] /\ i + 1 \in 1 .. Len(rest)
    BY <1>1, <1>3
  <2>2. rest[i + 1] = q[n + (i + 1)] /\ n + (i + 1) = (n + 1) + i
    BY <2>1 DEF After
  <2> QED
    BY <2>1, <2>2
<1> QED
  BY <1>1, <1>2, <1>3, <1>4 DEF After

LEMMA PaidType ==
    ASSUME TypeOK
    PROVE  Paid \in Nat /\ tty \in Nat
<1>1. child \in [Slot -> Child] /\ queue \in Seq(Process) /\ nforked \in Nat /\ tty \in Nat
  BY DEF TypeOK
<1> QED
  BY <1>1, OwedType DEF Paid

\* Nobody owes anything once every command was started and has ended.
LEMMA AllPaid ==
    ASSUME NEW c \in [Slot -> Child], NEW q \in Seq(Process), NEW n, n = Len(q),
           \A s \in Slot \ {0} : c[s].st = "none"
    PROVE  Total(Owed(c, q, n), MaxChild) = 0
<1>0. n \in Nat
  OBVIOUS
<1>1. ASSUME NEW k \in 1 .. MaxChild
      PROVE  Owes(c, q, n, k) = 0
  <2>1. k \in Slot \ {0}
    BY SeushAssumption DEF Slot
  <2> QED
    BY <1>0, <2>1 DEF Owes
<1>2. PICK F : F = Owed(c, q, n)
  OBVIOUS
<1>3. F \in [1 .. MaxChild -> Nat] /\ \A k \in 1 .. MaxChild : F[k] = 0
  BY <1>0, <1>1, <1>2, OwedType
<1>4. Total(F, MaxChild) = 0
  BY <1>3, SeushAssumption, TotalZero
<1> QED
  BY <1>2, <1>4

\* A step of the pipeline's child leaves the others' debts alone.
LEMMA OwedStage ==
    ASSUME TypeOK, NEW c, UNCHANGED <<queue, nforked>>, child' = [child EXCEPT ![0] = c]
    PROVE  Owed(child, queue, nforked)' = Owed(child, queue, nforked)
<1>1. ASSUME NEW k \in 1 .. MaxChild
      PROVE  Owes(child', queue', nforked', k) = Owes(child, queue, nforked, k)
  <2>1. k \in Slot /\ k # 0 /\ child \in [Slot -> Child]
    BY SeushAssumption DEF Slot, TypeOK
  <2>2. child'[k] = child[k]
    BY <2>1
  <2> QED
    BY <2>2 DEF Owes
<1> QED
  BY <1>1 DEF Owed

LEMMA DeliverReadLine ==
    ASSUME TypeOK, SerialInv, DeliverInv, NEW l \in Lines, ReadLine(l)
    PROVE  DeliverInv'
<1> SUFFICES ASSUME sane
             PROVE  DeliverInv'
  BY DEF DeliverInv, ReadLine
<1>1. /\ pc = "prompt" /\ pc' = "command" /\ line' = l /\ tty' = 0 /\ want' = Expected(l)
      /\ UNCHANGED <<fds, queue, nforked, child>>
  BY DEF ReadLine
<1>2. /\ fds[1] = Tty /\ queue = <<>> /\ nforked = 0
      /\ \A s \in Slot : child[s].st = "none"
  BY <1>1, SeushAssumption DEF DeliverInv, SerialInv, Live, Slot
<1>3. /\ l \in Seq(Command) /\ Len(l) \in Nat /\ Total(Flows(l), 0) = 0
      /\ 0 \in 0 .. Len(l)
  BY FlowsStep
<1>4. Paid' = 0
  <2>1. /\ Len(queue) = 0 /\ nforked = Len(queue)
        /\ child \in [Slot -> Child] /\ queue \in Seq(Process)
    BY <1>2 DEF TypeOK
  <2>2. Total(Owed(child, queue, nforked), MaxChild) = 0
    BY <1>2, <2>1, AllPaid
  <2> QED
    BY <1>1, <2>2 DEF Paid
<1>5. After(l, l, 0)
  BY <1>3 DEF After
<1>6. AtCommand(l, 0)'
  BY <1>1, <1>2, <1>3, <1>4, <1>5 DEF AtCommand, InPipeline
<1> QED
  BY <1>1, <1>2, <1>3, <1>6 DEF DeliverInv

LEMMA DeliverNextCommand ==
    ASSUME TypeOK, StdinInv, DeliverInv, NextCommand
    PROVE  DeliverInv'
<1> SUFFICES ASSUME sane
             PROVE  DeliverInv'
  BY DEF DeliverInv, NextCommand
<1>0. 0 \in Fd /\ 1 \in Fd /\ -1 \notin Fd /\ fds \in [Fd -> Obj] /\ line \in Seq(Command)
  BY SeushAssumption DEF Fd, TypeOK
<1>1. /\ pc = "command" /\ pc' = "stage" /\ line # <<>> /\ line' = Tail(line)
      /\ stages' = Head(line).stages /\ leader' = TRUE
      /\ fds' = Dup(Dup(fds, 0), 1)
      /\ UNCHANGED <<queue, nforked, child, buf, tty, want, sane>>
  BY DEF NextCommand
<1>2. fds[1] = Tty /\ nforked = 0
  BY <1>1 DEF DeliverInv
<1>3. PICK L \in Lines : \E j \in 0 .. Len(L) : AtCommand(L, j)
  BY <1>1 DEF DeliverInv
<1>4. PICK j \in 0 .. Len(L) : AtCommand(L, j)
  BY <1>3
<1>5. L \in Seq(Command) /\ Len(L) \in Nat
  BY FlowsStep
<1>6. /\ want = Expected(L) /\ After(line, L, j) /\ Len(queue) <= j
      /\ Paid = Total(Flows(L), j)
  BY <1>1, <1>4 DEF AtCommand
<1>7. PICK m : m = j + 1 /\ m \in 1 .. Len(L) /\ m \in 0 .. Len(L) /\ m - 1 = j
  BY <1>0, <1>1, <1>5, <1>6, AfterTail
<1>8. Head(line) = L[m] /\ After(Tail(line), L, m)
  BY <1>0, <1>1, <1>5, <1>6, <1>7, AfterTail
<1>9. fds'[1] = Tty
  <2>1. PICK t : t = Dup(fds, 0)
    OBVIOUS
  <2>2. t \in [Fd -> Obj] /\ t[1] = Tty
    BY <1>0, <1>2, <2>1, DupType, NewFdFree, ObjFacts DEF Dup, Put
  <2>3. fds' = Put(t, NewFd(t), t[1])
    BY <1>1, <2>1 DEF Dup
  <2> QED
    BY <1>0, <2>2, <2>3, NewFdFree, ObjFacts DEF Put
<1>10. L[m].stages \in Seq(Prog)
  BY <1>7, FlowsStep
<1>11. AtStage(L[m].stages, 0, Total(Flows(L), m - 1))'
  <2>1. After(L[m].stages, L[m].stages, 0)
    BY <1>10 DEF After
  <2>2. Paid' = Paid
    BY <1>1 DEF Paid
  <2> QED
    BY <1>1, <1>6, <1>7, <1>8, <2>1, <2>2 DEF AtStage
<1>12. Len(queue') < m
  <2>1. Len(queue) \in Nat
    BY DEF TypeOK
  <2> QED
    BY <1>1, <1>6, <1>7, <2>1
<1>13. AtCommand(L, m)'
  <2>1. 0 \in 0 .. Len(L[m].stages)
    BY <1>10
  <2> QED
    BY <1>1, <1>6, <1>7, <1>8, <1>11, <1>12, <2>1 DEF AtCommand, InPipeline
<1> QED
  BY <1>1, <1>2, <1>7, <1>9, <1>13 DEF DeliverInv

\* The line and the command that a step of handle_pipe works on.
LEMMA Working ==
    ASSUME TypeOK, DeliverInv, sane, InPipeline
    PROVE  \E L \in Lines : \E j \in 1 .. Len(L) : \E i \in 0 .. Len(L[j].stages) :
              AtCommand(L, j) /\ AtStage(L[j].stages, i, Total(Flows(L), j - 1))
<1>1. PICK L \in Lines : \E j \in 0 .. Len(L) : AtCommand(L, j)
  BY DEF DeliverInv, InPipeline
<1>2. PICK j \in 0 .. Len(L) : AtCommand(L, j)
  BY <1>1
<1>3. Len(L) \in Nat /\ Len(queue) \in Nat
  BY FlowsStep DEF TypeOK
<1>4. /\ Len(queue) < j
      /\ \E i \in 0 .. Len(L[j].stages) :
            AtStage(L[j].stages, i, Total(Flows(L), j - 1))
  BY <1>2 DEF AtCommand
<1>5. j \in 1 .. Len(L)
  BY <1>3, <1>4
<1> QED
  BY <1>2, <1>4, <1>5

\* handle_pipe stays with the command it works on.
LEMMA StaysAtCommand ==
    ASSUME NEW L, NEW j, AtCommand(L, j), InPipeline, InPipeline',
           UNCHANGED <<want, line, queue>>,
           NEW i \in 0 .. Len(L[j].stages),
           AtStage(L[j].stages, i, Total(Flows(L), j - 1))'
    PROVE  AtCommand(L, j)'
BY DEF AtCommand, InPipeline

LEMMA DeliverEnqueue ==
    ASSUME TypeOK, TypeOK', StdinInv, DeliverInv, Enqueue
    PROVE  DeliverInv'
<1> SUFFICES ASSUME sane, sane'
             PROVE  DeliverInv'
  BY DEF DeliverInv, Enqueue
<1>0. 0 \in Fd /\ 1 \in Fd /\ -1 \notin Fd /\ fds \in [Fd -> Obj] /\ stages \in Seq(Prog)
  BY SeushAssumption DEF Fd, TypeOK
<1>1. PICK prog, r : /\ prog = Head(stages)
                     /\ r = [prog |-> prog, outfd |-> OutFd(fds, prog), infd |-> InFd(fds, prog)]
  OBVIOUS
<1>2. /\ pc = "stage" /\ pc' = "command" /\ leader /\ Len(stages) = 1
      /\ queue' = Append(queue, r) /\ fds' = Opened(fds, prog) /\ FilesOpen(fds, prog)
      /\ UNCHANGED <<line, nforked, child, tty, want>>
  BY <1>1 DEF Enqueue
<1>3. PICK L \in Lines : \E j \in 1 .. Len(L) : \E i \in 0 .. Len(L[j].stages) :
              AtCommand(L, j) /\ AtStage(L[j].stages, i, Total(Flows(L), j - 1))
  BY <1>2, Working DEF InPipeline
<1>4. PICK j \in 1 .. Len(L) : \E i \in 0 .. Len(L[j].stages) :
              AtCommand(L, j) /\ AtStage(L[j].stages, i, Total(Flows(L), j - 1))
  BY <1>3
<1>5. PICK s : s = L[j].stages /\ s \in Seq(Prog)
  BY FlowsStep
<1>6. AtCommand(L, j) /\ AtStage(s, 0, Total(Flows(L), j - 1))
  BY <1>2, <1>4, <1>5 DEF AtStage
<1>7. prog = s[1] /\ Len(s) = 1 /\ prog \in Prog
  <2>1. Len(stages) = Len(s) - 0 /\ stages[1] = s[0 + 1] /\ Head(stages) = stages[1]
    BY <1>0, <1>2, <1>6 DEF AtStage, After
  <2>2. Len(s) \in Nat
    BY <1>5
  <2>3. Head(stages) \in Prog
    BY <1>0, <1>2, OnlyStage
  <2>4. stages[1] = s[1]
    BY <2>1
  <2>5. Len(s) = 1
    <3>1. PICK n : n = Len(s)
      OBVIOUS
    <3>2. n \in Nat /\ 1 = n - 0
      BY <1>2, <2>1, <2>2, <3>1
    <3>3. n = 1
      BY <3>2
    <3> QED
      BY <3>1, <3>3
  <2> QED
    BY <1>1, <2>1, <2>3, <2>4, <2>5
<1>8. Passed(s, Len(s)) = Passes(prog, 0) /\ Passes(prog, 0) \in Nat
  <2>1. 1 \in 1 .. Len(s) /\ 1 - 1 = 0
    BY <1>7
  <2>2. Passed(s, 1) = Passes(s[1], Passed(s, 0)) /\ Passed(s, 0) = 0
    BY <1>5, <2>1, PassedStep
  <2> QED
    BY <1>7, <2>2, PassesType
<1>9. /\ Total(Flows(L), j) = Total(Flows(L), j - 1) + Passes(prog, 0)
      /\ Total(Flows(L), j - 1) \in Nat /\ Len(L) <= MaxChild /\ Len(L) \in Nat
  <2>1. Len(L) \in 0 .. MaxChild /\ MaxChild \in Nat
    BY FlowsStep, SeushAssumption
  <2>2. j - 1 \in 0 .. Len(L)
    BY <2>1
  <2> QED
    BY <1>5, <1>8, <2>1, <2>2, FlowsStep
<1>10. /\ want = Expected(L) /\ After(line, L, j) /\ Len(queue) < j
       /\ Paid = Total(Flows(L), j - 1)
  BY <1>2, <1>6 DEF AtCommand, AtStage, InPipeline
<1>11. /\ queue \in Seq(Process) /\ queue' \in Seq(Process)
       /\ child \in [Slot -> Child] /\ nforked = 0 /\ fds[1] = Tty /\ tty \in Nat
       /\ \A k \in 1 .. Len(queue) : Ready(queue[k])
  BY <1>2 DEF TypeOK, DeliverInv
<1>12. PICK n : n = Len(queue) + 1 /\ n \in 1 .. MaxChild /\ Len(queue') = n /\ Len(queue) \in Nat
  <2>1. Len(queue) \in Nat /\ Len(Append(queue, r)) = Len(queue) + 1
    BY <1>11
  <2>2. Len(queue) + 1 \in 1 .. MaxChild
    BY <1>9, <1>10, <2>1, SeushAssumption
  <2> QED
    BY <1>2, <2>1, <2>2
<1>13. queue'[n] = r /\ \A k \in 1 .. Len(queue) : queue'[k] = queue[k]
  BY <1>2, <1>11, <1>12
<1>14. Paid' = Paid + Passes(prog, 0)
  <2>1. PICK q : q = queue'
    OBVIOUS
  <2>2. Owes(child, q, 0, n) = Passes(prog, 0) /\ Owes(child, queue, 0, n) = 0
    BY <1>1, <1>12, <1>13, <2>1 DEF Owes
  <2>3. ASSUME NEW k \in 1 .. MaxChild, k # n
        PROVE  Owes(child, q, 0, k) = Owes(child, queue, 0, k)
    BY <1>12, <1>13, <2>1, <2>3 DEF Owes
  <2>4. q \in Seq(Process)
    BY <1>11, <2>1
  <2>5. Total(Owed(child, q, 0), MaxChild)
           = Total(Owed(child, queue, 0), MaxChild) + Owes(child, q, 0, n) - Owes(child, queue, 0, n)
    BY <1>11, <1>12, <2>3, <2>4, OwedChange
  <2>6. Total(Owed(child, queue, 0), MaxChild) \in Nat
    BY <1>11, OwedType
  <2>7. Total(Owed(child, q, 0), MaxChild)
           = Total(Owed(child, queue, 0), MaxChild) + Passes(prog, 0)
    BY <1>8, <2>2, <2>5, <2>6
  <2>8. /\ Paid = tty + Total(Owed(child, queue, 0), MaxChild)
        /\ Paid' = tty + Total(Owed(child, q, 0), MaxChild)
    BY <1>2, <1>11, <2>1 DEF Paid
  <2> QED
    BY <1>8, <1>11, <2>6, <2>7, <2>8
<1>15. Ready(r)
  BY <1>1, <1>2 DEF Ready, FilesOpen, InFd
<1>16. \A k \in 1 .. Len(queue') : Ready(queue'[k])
  BY <1>11, <1>12, <1>13, <1>15
<1>17. fds'[1] = Tty
  BY <1>0, <1>2, <1>7, <1>11, OpenedKeeps, ObjFacts
<1>18. AtCommand(L, j)'
  <2>1. Len(queue') <= j
    BY <1>9, <1>10, <1>12
  <2> QED
    BY <1>2, <1>9, <1>10, <1>14, <2>1 DEF AtCommand, InPipeline
<1>19. j \in 0 .. Len(L)
  BY <1>9
<1>20. \A u \in Slot \ {0} : child[u].st = "run" =>
            child[u].in \in {Tty, File} /\ child[u].out \in {Tty, File}
  BY DEF DeliverInv
<1> QED
  BY <1>2, <1>11, <1>16, <1>17, <1>18, <1>19, <1>20 DEF DeliverInv

\* Two free descriptors are enough for a program's files.
LEMMA FilesFit ==
    ASSUME NEW t \in [Fd -> Obj], NEW prog, NEW a \in Fd, NEW b \in Fd, a # b,
           t[a] = Closed, t[b] = Closed
    PROVE  FilesOpen(t, prog)
<1>1. -1 \notin Fd /\ Fd \subseteq Nat
  BY SeushAssumption DEF Fd
<1>2. ASSUME NEW u \in [Fd -> Obj], NEW n \in Fd, u[n] = Closed
      PROVE  NewFd(u) \in Fd
  <2>1. Free(u) # {} /\ Free(u) \subseteq Fd
    BY <1>2 DEF Free
  <2> QED
    BY <1>1, <2>1, LowestIn DEF NewFd
<1>3. PICK u : u = Put(t, OutFd(t, prog), File)
  OBVIOUS
<1>4. u \in [Fd -> Obj]
  BY <1>3, PutType, ObjFacts
<1>5. u[a] = Closed \/ u[b] = Closed
  BY <1>3 DEF Put
<1>6. NewFd(t) # -1 /\ NewFd(u) # -1
  BY <1>1, <1>2, <1>4, <1>5
<1> QED
  BY <1>3, <1>6 DEF FilesOpen, OutFd, InFd

\* A new pipe is not the one that stdin is.
LEMMA PipeIsNew ==
    ASSUME TypeOK, NEW k \in SomePipe, CanPipe, fds[0] # Closed, fds[1] # Closed
    PROVE  /\ k \in Pipe /\ fds[0] # <<"r", k>>
           /\ PipeFds[1] \in Fd \ {0, 1} /\ PipeFds[2] \in Fd \ {0, 1}
           /\ PipeFds[1] # PipeFds[2]
<1>1. 0 \in Fd /\ 1 \in Fd /\ fds \in [Fd -> Obj]
  BY SeushAssumption DEF Fd, TypeOK
<1>2. k \in Pipe /\ <<"r", k>> \notin Open(fds)
  BY DEF SomePipe, FreshPipes
<1>3. fds[0] # <<"r", k>>
  BY <1>1, <1>2 DEF Open, PipeEnds
<1> QED
  BY <1>1, <1>2, <1>3, PipeFdsFree

\* What waits at stdin for the next stage is what the stages before passed on.
LEMMA StageInput ==
    ASSUME TypeOK, StdinInv, sane, pc = "stage", NEW s \in Seq(Prog),
           NEW i \in 0 .. Len(s), NEW base, AtStage(s, i, base),
           NEW k, fds[0] # <<"r", k>>
    PROVE  (IF fds[0][1] = "r" THEN [buf EXCEPT ![k] = 0][fds[0][2]] ELSE 0) = Passed(s, i)
<1>1. 0 \in Fd /\ fds[0] \in Obj /\ buf \in [Pipe -> 0 .. Capacity]
  BY SeushAssumption DEF Fd, TypeOK
<1>2. CASE i = 0
  <2>1. fds[0] = Tty
    BY <1>2 DEF AtStage, StdinInv
  <2> QED
    BY <1>2, <2>1, PassedStep DEF Tty
<1>3. CASE i > 0
  <2>1. fds[0][1] = "r" /\ buf[fds[0][2]] = Passed(s, i)
    BY <1>3 DEF AtStage
  <2>2. fds[0][2] \in Pipe /\ fds[0] = <<"r", fds[0][2]>>
    BY <1>1, <2>1 DEF Obj, Closed, Tty, File
  <2>3. fds[0][2] # k
    BY <2>2
  <2> QED
    BY <1>1, <2>1, <2>2, <2>3
<1>4. Len(s) \in Nat
  OBVIOUS
<1> QED
  BY <1>2, <1>3, <1>4

LEMMA StdinOpen ==
    ASSUME TypeOK, StdinInv, DeliverInv, sane, pc = "stage"
    PROVE  fds[0] # Closed /\ fds[1] = Tty /\ fds[1] # Closed
<1>1. fds[1] = Tty
  BY DEF DeliverInv
<1>2. PICK L \in Lines : \E j \in 1 .. Len(L) : \E i \in 0 .. Len(L[j].stages) :
              AtCommand(L, j) /\ AtStage(L[j].stages, i, Total(Flows(L), j - 1))
  BY Working DEF InPipeline
<1>3. PICK j \in 1 .. Len(L) : \E i \in 0 .. Len(L[j].stages) :
              AtStage(L[j].stages, i, Total(Flows(L), j - 1))
  BY <1>2
<1>4. L[j].stages \in Seq(Prog)
  BY FlowsStep
<1>5. PICK i \in 0 .. Len(L[j].stages) : AtStage(L[j].stages, i, Total(Flows(L), j - 1))
  BY <1>3
<1>6. leader \/ i > 0
  BY <1>4, <1>5 DEF AtStage
<1>7. fds[0] = Tty \/ fds[0][1] = "r"
  BY <1>5, <1>6 DEF AtStage, StdinInv
<1> QED
  BY <1>1, <1>7, ObjFacts DEF Closed

LEMMA DeliverStage ==
    ASSUME TypeOK, StdinInv, DeliverInv, NEW k \in SomePipe, StartStage(k)
    PROVE  DeliverInv'
<1> SUFFICES ASSUME sane
             PROVE  DeliverInv'
  BY DEF DeliverInv, StartStage
<1>0. 0 \in Fd /\ 1 \in Fd /\ fds \in [Fd -> Obj] /\ stages \in Seq(Prog) /\ 0 \in Slot
      /\ child \in [Slot -> Child] /\ buf \in [Pipe -> 0 .. Capacity]
  BY SeushAssumption DEF Fd, Slot, TypeOK
<1>1. PICK t, prog, c : /\ t = StageTable(PipeTable(k), PipeFds) /\ prog = Head(stages)
                        /\ c = StageChild(t, prog)
  OBVIOUS
<1>2. /\ pc = "stage" /\ pc' = "wait" /\ HasNext /\ CanPipe /\ leader' = FALSE
      /\ child' = [child EXCEPT ![0] = c] /\ fds' = ParentTable(PipeTable(k), PipeFds)
      /\ buf' = [buf EXCEPT ![k] = 0] /\ stages' = Tail(stages)
      /\ UNCHANGED <<line, queue, nforked, tty, want, sane>>
  BY <1>1 DEF StartStage, Leftover
<1>3. fds[0] # Closed /\ fds[1] = Tty /\ fds[1] # Closed
  BY <1>2, StdinOpen
<1>4. /\ k \in Pipe /\ fds[0] # <<"r", k>>
      /\ PipeFds[1] \in Fd \ {0, 1} /\ PipeFds[2] \in Fd \ {0, 1}
      /\ PipeFds[1] # PipeFds[2]
  BY <1>2, <1>3, PipeIsNew
<1>5. PICK p1, p2 : p1 = PipeFds[1] /\ p2 = PipeFds[2]
  OBVIOUS
<1>6. PICK u : /\ u = PipeTable(k) /\ u \in [Fd -> Obj] /\ u[0] = fds[0] /\ u[1] = fds[1]
               /\ u[p1] = <<"r", k>> /\ u[p2] = <<"w", k>>
  <2>1. PICK u : u = [fds EXCEPT ![p1] = <<"r", k>>, ![p2] = <<"w", k>>]
    OBVIOUS
  <2>2. u = PipeTable(k)
    BY <1>5, <2>1 DEF PipeTable
  <2>3. u \in [Fd -> Obj]
    BY <1>0, <1>2, <1>4, <2>2, PipeTableType
  <2>4. u[0] = fds[0] /\ u[1] = fds[1] /\ u[p1] = <<"r", k>> /\ u[p2] = <<"w", k>>
    BY <1>0, <1>4, <1>5, <2>1
  <2> QED
    BY <2>2, <2>3, <2>4
<1>7. /\ t \in [Fd -> Obj] /\ t[0] = fds[0] /\ t[1] = <<"w", k>>
      /\ t[p1] = Closed /\ t[p2] = Closed
  BY <1>0, <1>1, <1>2, <1>4, <1>5, <1>6, PipeTableType DEF StageTable
<1>8. fds'[0] = <<"r", k>> /\ fds'[1] = Tty
  BY <1>0, <1>2, <1>3, <1>4, <1>5, <1>6 DEF ParentTable
<1>9. PICK L \in Lines : \E j \in 1 .. Len(L) : \E i \in 0 .. Len(L[j].stages) :
              AtCommand(L, j) /\ AtStage(L[j].stages, i, Total(Flows(L), j - 1))
  BY <1>2, Working DEF InPipeline
<1>10. PICK j \in 1 .. Len(L) : \E i \in 0 .. Len(L[j].stages) :
              AtCommand(L, j) /\ AtStage(L[j].stages, i, Total(Flows(L), j - 1))
  BY <1>9
<1>11. PICK s : s = L[j].stages /\ s \in Seq(Prog)
  BY FlowsStep
<1>12. PICK i \in 0 .. Len(s) : AtCommand(L, j) /\ AtStage(s, i, Total(Flows(L), j - 1))
  BY <1>10, <1>11
<1>13. stages # <<>> /\ After(stages, s, i) /\ Paid = Total(Flows(L), j - 1)
  BY <1>2, <1>12 DEF AtStage, StdinInv
<1>14. PICK m : m = i + 1 /\ m \in 1 .. Len(s) /\ m \in 0 .. Len(s) /\ m - 1 = i /\ m > 0
  <2>1. i + 1 \in 1 .. Len(s) /\ Len(s) \in Nat
    BY <1>0, <1>11, <1>13, AfterTail
  <2> QED
    BY <2>1
<1>15. prog = s[m] /\ After(Tail(stages), s, m) /\ prog \in Prog
  BY <1>0, <1>1, <1>11, <1>13, <1>14, AfterTail
<1>16. PICK b : b = buf'
  OBVIOUS
<1>17. (IF fds[0][1] = "r" THEN b[fds[0][2]] ELSE 0) = Passed(s, i)
  <2>1. b = [buf EXCEPT ![k] = 0] /\ pc = "stage"
    BY <1>2, <1>16
  <2>2. AtStage(s, i, Total(Flows(L), j - 1)) /\ s \in Seq(Prog) /\ fds[0] # <<"r", k>>
    BY <1>4, <1>11, <1>12
  <2>3. (IF fds[0][1] = "r" THEN [buf EXCEPT ![k] = 0][fds[0][2]] ELSE 0) = Passed(s, i)
    BY <2>1, <2>2, StageInput, Zenon
  <2> QED
    BY <2>1, <2>3
<1>18. /\ Pending(b, c, t[1]) = Passes(prog, IF t[0][1] = "r" THEN b[t[0][2]] ELSE 0)
       /\ c.st = "run" => c.in \in {File, t[0]} /\ c.out \in {File, t[1]}
  <2>1. FilesOpen(t, prog)
    BY <1>4, <1>5, <1>7, FilesFit
  <2>2. t[0] # Closed /\ t[1] # Closed
    BY <1>3, <1>4, <1>7, ObjFacts
  <2>3. t[1] # File
    BY <1>7 DEF File
  <2> QED
    BY <1>1, <1>7, <1>15, <2>1, <2>2, <2>3, StageChildSends
<1>19. Pending(b, c, <<"w", k>>) = Passed(s, m)
  <2>1. Passed(s, m) = Passes(s[m], Passed(s, m - 1))
    BY <1>11, <1>14, PassedStep
  <2> QED
    BY <1>7, <1>14, <1>15, <1>17, <1>18, <2>1
<1>20. child'[0] = c /\ buf'[k] = 0
  BY <1>0, <1>2, <1>4
<1>21. AtStage(s, m, Total(Flows(L), j - 1))'
  <2>1. Paid' = Paid
    BY <1>2, OwedStage DEF Paid
  <2>2. fds'[0][1] = "r" /\ fds'[0][2] = k
    BY <1>8
  <2>3. child'[0].st = "run" => child'[0].out \in {File, <<"w", k>>} /\ child'[0].in # fds'[0]
    <3>1. File # <<"r", k>>
      BY DEF File
    <3> QED
      BY <1>4, <1>7, <1>8, <1>18, <1>20, <3>1
  <2>4. Passed(s, m) \in Nat
    BY <1>11, <1>14, PassedStep
  <2>5. buf'[k] + Pending(buf', child'[0], <<"w", k>>) = Passed(s, m)
    BY <1>16, <1>19, <1>20, <2>4
  <2>6. After(stages', s, m)
    BY <1>2, <1>15
  <2> QED
    BY <1>2, <1>13, <1>14, <2>1, <2>2, <2>3, <2>5, <2>6 DEF AtStage
<1>22. AtCommand(L, j)'
  BY <1>2, <1>11, <1>12, <1>14, <1>21, StaysAtCommand DEF InPipeline
<1>23. j \in 0 .. Len(L)
  BY FlowsStep
<1>24. /\ nforked = 0 /\ \A n \in 1 .. Len(queue) : Ready(queue[n])
       /\ \A v \in Slot \ {0} : child[v].st = "run" =>
            child[v].in \in {Tty, File} /\ child[v].out \in {Tty, File}
  BY <1>2 DEF DeliverInv
<1>25. \A v \in Slot \ {0} : child'[v] = child[v]
  BY <1>0, <1>2
<1> QED
  BY <1>2, <1>8, <1>22, <1>23, <1>24, <1>25 DEF DeliverInv

LEMMA DeliverLast ==
    ASSUME TypeOK, StdinInv, DeliverInv, NEW k \in SomePipe, StartLast(k)
    PROVE  DeliverInv'
<1> SUFFICES ASSUME sane, FilesOpen(PipeTable(k), Head(stages))
             PROVE  DeliverInv'
  BY DEF DeliverInv, StartLast
<1>0. 0 \in Fd /\ 1 \in Fd /\ fds \in [Fd -> Obj] /\ stages \in Seq(Prog) /\ 0 \in Slot
      /\ child \in [Slot -> Child] /\ buf \in [Pipe -> 0 .. Capacity]
  BY SeushAssumption DEF Fd, Slot, TypeOK
<1>1. PICK t, prog, c : t = PipeTable(k) /\ prog = Head(stages) /\ c = StageChild(t, prog)
  OBVIOUS
<1>2. /\ pc = "stage" /\ pc' = "last" /\ IsLast /\ CanPipe
      /\ child' = [child EXCEPT ![0] = c] /\ fds' = t
      /\ buf' = [buf EXCEPT ![k] = 0] /\ stages' = <<>>
      /\ UNCHANGED <<line, queue, nforked, tty, want>>
  BY <1>1 DEF StartLast
<1>3. fds[0] # Closed /\ fds[1] = Tty /\ fds[1] # Closed
  BY <1>2, StdinOpen
<1>4. /\ k \in Pipe /\ fds[0] # <<"r", k>>
      /\ PipeFds[1] \in Fd \ {0, 1} /\ PipeFds[2] \in Fd \ {0, 1}
      /\ PipeFds[1] # PipeFds[2]
  BY <1>2, <1>3, PipeIsNew
<1>5. t \in [Fd -> Obj] /\ t[0] = fds[0] /\ t[1] = Tty
  BY <1>0, <1>1, <1>2, <1>3, <1>4, PipeTableType DEF PipeTable
<1>9. PICK L \in Lines : \E j \in 1 .. Len(L) : \E i \in 0 .. Len(L[j].stages) :
              AtCommand(L, j) /\ AtStage(L[j].stages, i, Total(Flows(L), j - 1))
  BY <1>2, Working DEF InPipeline
<1>10. PICK j \in 1 .. Len(L) : \E i \in 0 .. Len(L[j].stages) :
              AtCommand(L, j) /\ AtStage(L[j].stages, i, Total(Flows(L), j - 1))
  BY <1>9
<1>11. PICK s : s = L[j].stages /\ s \in Seq(Prog)
  BY FlowsStep
<1>12. PICK i \in 0 .. Len(s) : AtCommand(L, j) /\ AtStage(s, i, Total(Flows(L), j - 1))
  BY <1>10, <1>11
<1>13. stages # <<>> /\ After(stages, s, i) /\ Paid = Total(Flows(L), j - 1)
  BY <1>2, <1>12 DEF AtStage, StdinInv
<1>14. PICK m : m = i + 1 /\ m \in 1 .. Len(s) /\ m \in 0 .. Len(s) /\ m - 1 = i /\ m = Len(s)
  <2>1. Len(stages) = Len(s) - i /\ Len(stages) = 1 /\ Len(s) \in Nat
    BY <1>2, <1>11, <1>13 DEF After, IsLast
  <2>2. PICK n : n = Len(s) /\ n \in Nat /\ 1 = n - i
    BY <2>1
  <2>3. i + 1 = n /\ i + 1 \in 1 .. n
    BY <2>2
  <2> QED
    BY <2>2, <2>3
<1>15. prog = s[m] /\ prog \in Prog
  BY <1>0, <1>1, <1>11, <1>13, <1>14, AfterTail
<1>16. PICK b : b = buf'
  OBVIOUS
<1>17. (IF fds[0][1] = "r" THEN b[fds[0][2]] ELSE 0) = Passed(s, i)
  <2>1. b = [buf EXCEPT ![k] = 0] /\ pc = "stage"
    BY <1>2, <1>16
  <2>2. AtStage(s, i, Total(Flows(L), j - 1)) /\ s \in Seq(Prog) /\ fds[0] # <<"r", k>>
    BY <1>4, <1>11, <1>12
  <2>3. (IF fds[0][1] = "r" THEN [buf EXCEPT ![k] = 0][fds[0][2]] ELSE 0) = Passed(s, i)
    BY <2>1, <2>2, StageInput, Zenon
  <2> QED
    BY <2>1, <2>3
<1>18. /\ Pending(b, c, t[1]) = Passes(prog, IF t[0][1] = "r" THEN b[t[0][2]] ELSE 0)
       /\ c.st = "run" => c.in \in {File, t[0]} /\ c.out \in {File, t[1]}
  <2>2. t[0] # Closed /\ t[1] # Closed /\ t[1] # File
    BY <1>3, <1>5 DEF File, Tty
  <2> QED
    BY <1>1, <1>5, <1>15, <2>2, StageChildSends
<1>19. Pending(b, c, Tty) = Passed(s, m)
  <2>1. Passed(s, m) = Passes(s[m], Passed(s, m - 1))
    BY <1>11, <1>14, PassedStep
  <2> QED
    BY <1>5, <1>14, <1>15, <1>17, <1>18, <2>1
<1>20. child'[0] = c
  BY <1>0, <1>2
<1>21. AtStage(s, m, Total(Flows(L), j - 1))'
  <2>1. Paid' = Paid
    BY <1>2, OwedStage DEF Paid
  <2>2. child'[0].st = "run" => child'[0].out \in {File, Tty}
    BY <1>5, <1>18, <1>20
  <2>3. Paid' + Pending(buf', child'[0], Tty) = Total(Flows(L), j - 1) + Passed(s, m)
    BY <1>13, <1>16, <1>19, <1>20, <2>1
  <2>4. After(stages', s, m)
    BY <1>2, <1>11, <1>14 DEF After
  <2> QED
    BY <1>2, <1>14, <2>2, <2>3, <2>4 DEF AtStage
<1>22. AtCommand(L, j)'
  BY <1>2, <1>11, <1>12, <1>14, <1>21, StaysAtCommand DEF InPipeline
<1>23. j \in 0 .. Len(L)
  BY FlowsStep
<1>24. /\ nforked = 0 /\ \A n \in 1 .. Len(queue) : Ready(queue[n])
       /\ \A v \in Slot \ {0} : child[v].st = "run" =>
            child[v].in \in {Tty, File} /\ child[v].out \in {Tty, File}
  BY <1>2 DEF DeliverInv
<1>25. \A v \in Slot \ {0} : child'[v] = child[v]
  BY <1>0, <1>2
<1> QED
  BY <1>2, <1>5, <1>22, <1>23, <1>24, <1>25 DEF DeliverInv

\* waitpid(-1) finds the child of the stage, as no other is there.
LEMMA ReapsStage ==
    ASSUME TypeOK, SerialInv, pc \in {"wait", "last"},
           \E z \in Zombies : child' = [child EXCEPT ![z] = NoChild]
    PROVE  /\ child' = [child EXCEPT ![0] = NoChild]
           /\ child[0].st = "zombie" /\ child'[0].st = "none"
           /\ \A v \in Slot \ {0} : child'[v] = child[v]
<1>1. 0 \in Slot /\ child \in [Slot -> Child]
  BY SeushAssumption DEF Slot, TypeOK
<1>2. Zombies \subseteq {0}
  BY DEF SerialInv, Live, Zombies
<1>3. child' = [child EXCEPT ![0] = NoChild] /\ 0 \in Zombies
  BY <1>2
<1> QED
  BY <1>1, <1>3 DEF Zombies, NoChild

LEMMA DeliverWaitStage ==
    ASSUME TypeOK, SerialInv, StdinInv, DeliverInv, WaitStage
    PROVE  DeliverInv'
<1> SUFFICES ASSUME sane
             PROVE  DeliverInv'
  BY DEF DeliverInv, WaitStage
<1>1. /\ pc = "wait" /\ pc' = "stage" /\ ~leader
      /\ \E z \in Zombies : child' = [child EXCEPT ![z] = NoChild]
      /\ UNCHANGED <<line, stages, leader, fds, queue, nforked, buf, tty, want>>
  BY DEF WaitStage, shell, StdinInv
<1>2. /\ child' = [child EXCEPT ![0] = NoChild] /\ child[0].st = "zombie"
      /\ \A v \in Slot \ {0} : child'[v] = child[v]
  BY <1>1, ReapsStage
<1>9. PICK L \in Lines : \E j \in 1 .. Len(L) : \E i \in 0 .. Len(L[j].stages) :
              AtCommand(L, j) /\ AtStage(L[j].stages, i, Total(Flows(L), j - 1))
  BY <1>1, Working DEF InPipeline
<1>10. PICK j \in 1 .. Len(L) : \E i \in 0 .. Len(L[j].stages) :
              AtCommand(L, j) /\ AtStage(L[j].stages, i, Total(Flows(L), j - 1))
  BY <1>9
<1>11. PICK s : s = L[j].stages /\ s \in Seq(Prog)
  BY FlowsStep
<1>12. PICK i \in 0 .. Len(s) : AtCommand(L, j) /\ AtStage(s, i, Total(Flows(L), j - 1))
  BY <1>10, <1>11
<1>13. /\ After(stages, s, i) /\ Paid = Total(Flows(L), j - 1) /\ i > 0 /\ fds[0][1] = "r"
       /\ buf[fds[0][2]] + Pending(buf, child[0], <<"w", fds[0][2]>>) = Passed(s, i)
  BY <1>1, <1>12 DEF AtStage
<1>14. buf[fds[0][2]] = Passed(s, i)
  <2>1. Pending(buf, child[0], <<"w", fds[0][2]>>) = 0
    BY <1>2 DEF Pending
  <2>2. buf[fds[0][2]] \in Nat
    <3>1. fds[0] \in Obj /\ buf \in [Pipe -> 0 .. Capacity]
      BY SeushAssumption DEF Fd, TypeOK
    <3>2. fds[0][2] \in Pipe
      BY <1>13, <3>1, ObjFacts
    <3> QED
      BY <3>1, <3>2
  <2> QED
    BY <1>13, <2>1, <2>2
<1>15. AtStage(s, i, Total(Flows(L), j - 1))'
  <2>1. Paid' = Paid
    BY <1>1, <1>2, OwedStage DEF Paid
  <2>2. i # 0
    BY <1>13
  <2> QED
    BY <1>1, <1>13, <1>14, <2>1, <2>2 DEF AtStage
<1>16. AtCommand(L, j)'
  BY <1>1, <1>11, <1>12, <1>15, StaysAtCommand DEF InPipeline
<1>17. j \in 0 .. Len(L)
  BY FlowsStep
<1>18. /\ nforked = 0 /\ fds[1] = Tty /\ \A n \in 1 .. Len(queue) : Ready(queue[n])
       /\ \A v \in Slot \ {0} : child[v].st = "run" =>
            child[v].in \in {Tty, File} /\ child[v].out \in {Tty, File}
  BY <1>1 DEF DeliverInv
<1> QED
  BY <1>1, <1>2, <1>16, <1>17, <1>18 DEF DeliverInv

LEMMA DeliverWaitLast ==
    ASSUME TypeOK, SerialInv, StdinInv, DeliverInv, WaitLast
    PROVE  DeliverInv'
<1> SUFFICES ASSUME sane
             PROVE  DeliverInv'
  BY DEF DeliverInv, WaitLast
<1>1. /\ pc = "last" /\ pc' = "command"
      /\ \E z \in Zombies : child' = [child EXCEPT ![z] = NoChild]
      /\ fds' = RestoreStdin(fds)
      /\ UNCHANGED <<line, queue, nforked, tty, want>>
  BY DEF WaitLast, shell
<1>2. /\ child' = [child EXCEPT ![0] = NoChild] /\ child[0].st = "zombie"
      /\ \A v \in Slot \ {0} : child'[v] = child[v]
  BY <1>1, ReapsStage
<1>9. PICK L \in Lines : \E j \in 1 .. Len(L) : \E i \in 0 .. Len(L[j].stages) :
              AtCommand(L, j) /\ AtStage(L[j].stages, i, Total(Flows(L), j - 1))
  BY <1>1, Working DEF InPipeline
<1>10. PICK j \in 1 .. Len(L) : \E i \in 0 .. Len(L[j].stages) :
              AtCommand(L, j) /\ AtStage(L[j].stages, i, Total(Flows(L), j - 1))
  BY <1>9
<1>11. PICK s : s = L[j].stages /\ s \in Seq(Prog)
  BY FlowsStep
<1>12. PICK i \in 0 .. Len(s) : AtCommand(L, j) /\ AtStage(s, i, Total(Flows(L), j - 1))
  BY <1>10, <1>11
<1>13. /\ i = Len(s)
       /\ Paid + Pending(buf, child[0], Tty) = Total(Flows(L), j - 1) + Passed(s, i)
  BY <1>1, <1>12 DEF AtStage
<1>14. Paid = Total(Flows(L), j)
  <2>1. Pending(buf, child[0], Tty) = 0
    BY <1>2 DEF Pending
  <2>2. Total(Flows(L), j) = Total(Flows(L), j - 1) + Passed(s, Len(s))
    BY <1>11, FlowsStep
  <2>3. Paid \in Nat
    BY PaidType
  <2> QED
    BY <1>13, <2>1, <2>2, <2>3
<1>15. Paid' = Paid
  BY <1>1, <1>2, OwedStage DEF Paid
<1>16. /\ want = Expected(L) /\ After(line, L, j) /\ Len(queue) < j
  BY <1>1, <1>12 DEF AtCommand, InPipeline
<1>17. j \in 0 .. Len(L) /\ Len(queue) <= j
  <2>1. Len(L) \in Nat /\ Len(queue) \in Nat
    BY FlowsStep DEF TypeOK
  <2> QED
    BY <1>16, <2>1
<1>18. AtCommand(L, j)'
  BY <1>1, <1>14, <1>15, <1>16, <1>17 DEF AtCommand, InPipeline
<1>19. /\ nforked = 0 /\ fds[1] = Tty /\ \A n \in 1 .. Len(queue) : Ready(queue[n])
       /\ \A v \in Slot \ {0} : child[v].st = "run" =>
            child[v].in \in {Tty, File} /\ child[v].out \in {Tty, File}
  BY <1>1 DEF DeliverInv
<1>20. fds'[1] = Tty
  <2>1. 0 \in Fd /\ 1 \in Fd /\ fds \in [Fd -> Obj]
    BY SeushAssumption DEF Fd, TypeOK
  <2> QED
    BY <1>1, <1>19, <2>1 DEF RestoreStdin
<1> QED
  BY <1>1, <1>2, <1>17, <1>18, <1>19, <1>20 DEF DeliverInv

LEMMA DeliverStartQueued ==
    ASSUME TypeOK, TypeOK', SerialInv, StdinInv, DeliverInv, StartQueued
    PROVE  DeliverInv'
<1> SUFFICES ASSUME sane
             PROVE  DeliverInv'
  BY DEF DeliverInv, StartQueued
<1>1. PICK n, c : /\ n = nforked + 1
                  /\ c = NewChild(fds, queue[n].prog, queue[n].outfd, queue[n].infd)
  OBVIOUS
<1>2. /\ pc = "run" /\ pc' = "run" /\ nforked < Len(queue) /\ nforked' = n
      /\ child' = [child EXCEPT ![n] = c]
      /\ UNCHANGED <<line, fds, queue, tty, want>>
  BY <1>1 DEF StartQueued
<1>3. /\ fds[0] = Tty /\ fds[1] = Tty /\ fds \in [Fd -> Obj]
      /\ \A k \in 1 .. Len(queue) : Ready(queue[k])
      /\ \A v \in Slot \ {0} : child[v].st = "run" =>
            child[v].in \in {Tty, File} /\ child[v].out \in {Tty, File}
      /\ \A v \in Slot : v > nforked => child[v].st = "none"
  BY <1>2 DEF DeliverInv, StdinInv, InPipeline, TypeOK
<1>4. PICK L \in Lines : \E j \in 0 .. Len(L) : AtCommand(L, j)
  BY <1>2 DEF DeliverInv
<1>5. PICK j \in 0 .. Len(L) : AtCommand(L, j)
  BY <1>4
<1>6. /\ want = Expected(L) /\ After(line, L, j) /\ Len(queue) <= j /\ j = Len(L)
      /\ Paid = Total(Flows(L), j)
  BY <1>2, <1>5 DEF AtCommand
<1>7. /\ queue \in Seq(Process) /\ Len(queue) \in Nat /\ nforked \in Nat
      /\ child \in [Slot -> Child]
  BY DEF TypeOK
<1>8. n \in 1 .. Len(queue) /\ n \in 1 .. MaxChild /\ n \in Slot /\ n \in Nat /\ n # 0
  <2>1. Len(L) \in 0 .. MaxChild /\ MaxChild \in Nat
    BY FlowsStep, SeushAssumption
  <2> QED
    BY <1>1, <1>2, <1>6, <1>7, <2>1 DEF Slot
<1>9. PICK p, o, e : p = queue[n].prog /\ o = queue[n].outfd /\ e = queue[n].infd /\ p \in Prog
  <2>1. queue[n] \in Process
    BY <1>7, <1>8
  <2>2. queue[n].prog \in Prog
    BY <2>1 DEF Process
  <2> QED
    BY <2>2
<1>10. Ready([prog |-> p, outfd |-> o, infd |-> e])
  BY <1>3, <1>8, <1>9 DEF Ready
<1>11. /\ c.st = "run" <=> p.found /\ p.infile # "missing"
       /\ c.st = "run" =>
            /\ c.in = (IF p.infile = "none" THEN fds[0] ELSE File)
            /\ c.out = (IF p.redir THEN File ELSE fds[1])
            /\ c.left = p.gen /\ c.reading = p.reads
  BY <1>1, <1>3, <1>9, <1>10, NewChildIs
<1>12. (IF c.st = "run" /\ c.out = Tty THEN c.left ELSE 0) = Passes(p, 0)
  <2>1. File # Tty /\ p.gen \in Nat
    BY <1>9 DEF File, Tty, Prog
  <2> QED
    BY <1>3, <1>11, <2>1 DEF Passes
<1>13. child'[n] = c /\ \A v \in Slot : v # n => child'[v] = child[v]
  BY <1>2, <1>7, <1>8
<1>14. Paid' = Paid
  <2>1. ASSUME NEW k \in 1 .. MaxChild
        PROVE  Owes(child', queue', nforked', k) = Owes(child, queue, nforked, k)
    <3>1. k \in Slot /\ k \in Nat
      BY SeushAssumption DEF Slot
    <3>2. CASE k = n
      BY <1>1, <1>2, <1>7, <1>8, <1>9, <1>12, <1>13, <3>2 DEF Owes
    <3>3. CASE k < n
      BY <1>1, <1>2, <1>7, <1>8, <1>13, <3>1, <3>3 DEF Owes
    <3>4. CASE k > n
      BY <1>1, <1>2, <1>7, <1>8, <3>1, <3>4 DEF Owes
    <3> QED
      BY <1>8, <3>1, <3>2, <3>3, <3>4
  <2>2. Owed(child, queue, nforked)' = Owed(child, queue, nforked)
    BY <2>1 DEF Owed
  <2> QED
    BY <1>2, <2>2 DEF Paid
<1>15. AtCommand(L, j)'
  BY <1>2, <1>6, <1>14 DEF AtCommand, InPipeline
<1>16. c.st = "run" => c.in \in {Tty, File} /\ c.out \in {Tty, File}
  BY <1>3, <1>11
<1>17. \A v \in Slot : v > n => child'[v].st = "none"
  BY <1>1, <1>3, <1>7, <1>8, <1>13 DEF Slot
<1>18. \A v \in Slot \ {0} : child'[v].st = "run" =>
            child'[v].in \in {Tty, File} /\ child'[v].out \in {Tty, File}
  BY <1>3, <1>13, <1>16
<1> QED
  BY <1>2, <1>3, <1>15, <1>17, <1>18 DEF DeliverInv

LEMMA DeliverShell ==
    ASSUME TypeOK, TypeOK', SerialInv, StdinInv, DeliverInv, ShellStep
    PROVE  DeliverInv'
<1>2. CASE LineParsed
  <2> SUFFICES ASSUME sane
               PROVE  DeliverInv'
    BY <1>2 DEF DeliverInv, LineParsed
  <2>1. /\ pc = "command" /\ pc' = "run" /\ line = <<>> /\ nforked' = 0
        /\ UNCHANGED <<line, fds, queue, child, tty, want>>
    BY <1>2 DEF LineParsed
  <2>2. nforked = 0 /\ \A v \in Slot : child[v].st = "none"
    BY <2>1, SeushAssumption DEF DeliverInv, SerialInv, Live, Slot
  <2>3. PICK L \in Lines : \E j \in 0 .. Len(L) : AtCommand(L, j)
    BY <2>1 DEF DeliverInv
  <2>4. PICK j \in 0 .. Len(L) : AtCommand(L, j)
    BY <2>3
  <2>5. Paid' = Paid
    BY <2>1, <2>2 DEF Paid
  <2>6. j = Len(L)
    <3>1. After(line, L, j) /\ Len(L) \in Nat /\ Len(line) = 0
      BY <2>1, <2>4, FlowsStep DEF AtCommand
    <3>2. PICK n : n = Len(L) /\ n \in Nat /\ 0 = n - j
      BY <3>1 DEF After
    <3>3. j = n
      BY <3>2
    <3> QED
      BY <3>2, <3>3
  <2>7. AtCommand(L, j)'
    BY <2>1, <2>4, <2>5, <2>6 DEF AtCommand, InPipeline
  <2> QED
    BY <2>1, <2>2, <2>7 DEF DeliverInv
<1>4. CASE NoCommand
  BY <1>4 DEF NoCommand, DeliverInv, StdinInv
<1>5. CASE PipeFails
  BY <1>5 DEF PipeFails, DeliverInv
<1>8. ASSUME NEW k \in SomePipe, ForkFails(k)
      PROVE  DeliverInv'
  BY <1>8 DEF ForkFails, DeliverInv
<1>12. CASE QueuedForkFails
  BY <1>12 DEF QueuedForkFails, DeliverInv
<1>13. CASE AllStarted
  <2> SUFFICES ASSUME sane
               PROVE  DeliverInv'
    BY <1>13 DEF DeliverInv, AllStarted
  <2>1. /\ pc = "run" /\ pc' = (IF queue = <<>> THEN "done" ELSE "reap")
        /\ nforked = Len(queue)
        /\ UNCHANGED <<line, fds, queue, nforked, child, tty, want>>
    BY <1>13 DEF AllStarted, shell
  <2>2. PICK L \in Lines : \E j \in 0 .. Len(L) : AtCommand(L, j)
    BY <2>1 DEF DeliverInv
  <2>3. PICK j \in 0 .. Len(L) : AtCommand(L, j)
    BY <2>2
  <2>4. want = Expected(L) /\ j = Len(L) /\ Paid = Total(Flows(L), j)
    BY <2>1, <2>3 DEF AtCommand
  <2>5. Paid' = Paid
    BY <2>1 DEF Paid
  <2>6. CASE queue # <<>>
    <3>1. AtCommand(L, j)'
      BY <2>1, <2>3, <2>5, <2>6 DEF AtCommand, InPipeline
    <3> QED
      BY <2>1, <2>6, <3>1 DEF DeliverInv
  <2>7. CASE queue = <<>>
    <3>1. /\ child \in [Slot -> Child] /\ queue \in Seq(Process) /\ tty \in Nat
          /\ \A v \in Slot \ {0} : child[v].st = "none"
      BY <2>1, <2>7 DEF TypeOK, DeliverInv, Slot
    <3>2. Total(Owed(child, queue, nforked), MaxChild) = 0
      BY <2>1, <3>1, AllPaid
    <3>3. tty = want
      BY <2>4, <3>1, <3>2 DEF Paid, Expected
    <3> QED
      BY <2>1, <2>7, <3>3 DEF DeliverInv
  <2> QED
    BY <2>6, <2>7
<1>14. CASE Reap
  <2> SUFFICES ASSUME sane
               PROVE  DeliverInv'
    BY <1>14 DEF DeliverInv, Reap
  <2>1. /\ pc = "reap" /\ pc' = "reap"
        /\ UNCHANGED <<line, fds, queue, nforked, tty, want>>
    BY <1>14 DEF Reap, shell
  <2>2. PICK z \in Zombies : child' = [child EXCEPT ![z] = NoChild]
    BY <1>14 DEF Reap
  <2>3. /\ child \in [Slot -> Child] /\ z \in Slot /\ child[z].st = "zombie"
        /\ child'[z].st = "none" /\ \A v \in Slot : v # z => child'[v] = child[v]
    BY <2>2 DEF TypeOK, Zombies, NoChild
  <2>4. Paid' = Paid
    <3>1. ASSUME NEW k \in 1 .. MaxChild
          PROVE  Owes(child', queue', nforked', k) = Owes(child, queue, nforked, k)
      <4>1. k \in Slot
        BY SeushAssumption DEF Slot
      <4> QED
        BY <2>1, <2>3, <4>1 DEF Owes
    <3>2. Owed(child, queue, nforked)' = Owed(child, queue, nforked)
      BY <3>1 DEF Owed
    <3> QED
      BY <2>1, <3>2 DEF Paid
  <2>5. PICK L \in Lines : \E j \in 0 .. Len(L) : AtCommand(L, j)
    BY <2>1 DEF DeliverInv
  <2>6. PICK j \in 0 .. Len(L) : AtCommand(L, j)
    BY <2>5
  <2>7. AtCommand(L, j)'
    BY <2>1, <2>4, <2>6 DEF AtCommand, InPipeline
  <2> QED
    BY <2>1, <2>3, <2>7 DEF DeliverInv
<1>15. CASE AllReaped
  <2> SUFFICES ASSUME sane
               PROVE  DeliverInv'
    BY <1>15 DEF DeliverInv, AllReaped
  <2>1. /\ pc = "reap" /\ pc' = "done" /\ NoChildLeft
        /\ UNCHANGED <<line, fds, queue, nforked, child, tty, want>>
    BY <1>15 DEF AllReaped, shell
  <2>2. PICK L \in Lines : \E j \in 0 .. Len(L) : AtCommand(L, j)
    BY <2>1 DEF DeliverInv
  <2>3. PICK j \in 0 .. Len(L) : AtCommand(L, j)
    BY <2>2
  <2>4. want = Expected(L) /\ j = Len(L) /\ Paid = Total(Flows(L), j) /\ nforked = Len(queue)
    BY <2>1, <2>3 DEF AtCommand
  <2>5. /\ child \in [Slot -> Child] /\ queue \in Seq(Process) /\ tty \in Nat
        /\ \A v \in Slot \ {0} : child[v].st = "none"
    BY <2>1 DEF TypeOK, NoChildLeft
  <2>6. Total(Owed(child, queue, nforked), MaxChild) = 0
    BY <2>4, <2>5, AllPaid
  <2>7. tty = want
    BY <2>4, <2>5, <2>6 DEF Paid, Expected
  <2> QED
    BY <2>1, <2>7 DEF DeliverInv
<1>16. CASE LineDone
  <2>1. /\ pc = "done" /\ pc' = "prompt" /\ queue' = <<>> /\ nforked' = 0
        /\ UNCHANGED <<fds, child, tty, want, sane>>
    BY <1>16 DEF LineDone
  <2>2. Len(queue') = 0
    BY <2>1
  <2> QED
    BY <2>1, <2>2 DEF DeliverInv
<1> QED
  BY <1>2, <1>4, <1>5, <1>8, <1>12, <1>13, <1>14, <1>15, <1>16,
     DeliverNextCommand, DeliverEnqueue, DeliverStage, DeliverLast,
     DeliverWaitStage, DeliverWaitLast, DeliverStartQueued DEF ShellStep

\* A command without '|' writes what it owes and nothing else.
LEMMA DeliverQueued ==
    ASSUME TypeOK, TypeOK', SerialInv, DeliverInv, NEW s \in Slot \ {0}, ChildStep(s)
    PROVE  DeliverInv'
<1> SUFFICES ASSUME sane
             PROVE  DeliverInv'
  BY DEF DeliverInv, ChildStep, ReadUnit, ReadEof, WriteUnit, Exit, childOnly
<1>1. /\ child[s].st = "run" /\ child \in [Slot -> Child] /\ child' \in [Slot -> Child]
      /\ queue \in Seq(Process) /\ nforked \in Nat /\ tty \in Nat
      /\ UNCHANGED <<pc, line, fds, queue, nforked, want>>
  <2>1. /\ child \in [Slot -> Child] /\ child' \in [Slot -> Child]
        /\ queue \in Seq(Process) /\ nforked \in Nat /\ tty \in Nat
    BY DEF TypeOK
  <2>2. child[s].st = "run" /\ UNCHANGED childOnly
    BY DEF ChildStep, ReadUnit, ReadEof, WriteUnit, Exit, childOnly, shell
  <2> QED
    BY <2>1, <2>2 DEF childOnly, shell
<1>2. pc \in {"run", "reap"}
  BY <1>1 DEF SerialInv, Live, DeliverInv
<1>3. /\ child[s].in \in {Tty, File} /\ child[s].out \in {Tty, File}
      /\ s <= nforked /\ s \in 1 .. MaxChild
  <2>1. ~(s > nforked) /\ child[s].in \in {Tty, File} /\ child[s].out \in {Tty, File}
    BY <1>1, <1>2 DEF DeliverInv
  <2> QED
    BY <1>1, <2>1, SeushAssumption DEF Slot
<1>4. /\ child[s].in[1] # "r" /\ child[s].out[1] # "w" /\ child[s].left \in Nat
      /\ Tty # File
  BY <1>1, <1>3 DEF Tty, File, Child
<1>5. PICK d : d = child'
  OBVIOUS
<1>6. \A v \in Slot : v # s => d[v] = child[v]
  BY <1>1, <1>5 DEF ChildStep, ReadUnit, ReadEof, WriteUnit, Exit
<1>7. /\ d[s].st = "run" => d[s].in = child[s].in /\ d[s].out = child[s].out
      /\ d[s].st # "none"
      /\ tty' + Owes(d, queue, nforked, s) = tty + Owes(child, queue, nforked, s)
      /\ tty' \in Nat
  <2>1. CASE ReadUnit(s)
    BY <1>4, <2>1 DEF ReadUnit
  <2>2. CASE ReadEof(s)
    <3>1. d[s] = [child[s] EXCEPT !.reading = FALSE] /\ tty' = tty
      BY <1>1, <1>5, <2>2 DEF ReadEof
    <3>2. /\ d[s].st = "run" /\ d[s].in = child[s].in /\ d[s].out = child[s].out
          /\ d[s].left = child[s].left
      BY <1>1, <3>1 DEF Child
    <3> QED
      BY <1>1, <1>3, <3>1, <3>2 DEF Owes
  <2>3. CASE WriteUnit(s)
    <3>1. /\ d[s] = [child[s] EXCEPT !.left = @ - 1] /\ child[s].left > 0
          /\ tty' = IF child[s].out = Tty THEN tty + 1 ELSE tty
      BY <1>1, <1>4, <1>5, <2>3 DEF WriteUnit
    <3>2. /\ d[s].st = "run" /\ d[s].in = child[s].in /\ d[s].out = child[s].out
          /\ d[s].left = child[s].left - 1
      BY <1>1, <3>1 DEF Child
    <3>3. CASE child[s].out = Tty
      <4>1. /\ Owes(d, queue, nforked, s) = child[s].left - 1
            /\ Owes(child, queue, nforked, s) = child[s].left
        BY <1>1, <1>3, <3>2, <3>3 DEF Owes
      <4> QED
        BY <1>1, <1>4, <3>1, <3>2, <3>3, <4>1
    <3>4. CASE child[s].out # Tty
      <4>1. /\ Owes(d, queue, nforked, s) = 0
            /\ Owes(child, queue, nforked, s) = 0
        BY <1>1, <1>3, <3>2, <3>4 DEF Owes
      <4> QED
        BY <1>1, <3>1, <3>2, <3>4, <4>1
    <3> QED
      BY <3>3, <3>4
  <2>4. CASE Exit(s)
    <3>1. d[s].st = "zombie" /\ tty' = tty /\ child[s].left = 0
      BY <1>1, <1>4, <1>5, <2>4 DEF Exit, NoChild
    <3>2. Owes(d, queue, nforked, s) = 0 /\ Owes(child, queue, nforked, s) = 0
      BY <1>1, <1>3, <3>1 DEF Owes
    <3> QED
      BY <1>1, <3>1, <3>2
  <2> QED
    BY <2>1, <2>2, <2>3, <2>4 DEF ChildStep
<1>8. Paid' = Paid
  <2>1. ASSUME NEW k \in 1 .. MaxChild, k # s
        PROVE  Owes(d, queue, nforked, k) = Owes(child, queue, nforked, k)
    <3>1. k \in Slot
      BY SeushAssumption DEF Slot
    <3> QED
      BY <1>6, <2>1, <3>1 DEF Owes
  <2>2. Total(Owed(d, queue, nforked), MaxChild) = Total(Owed(child, queue, nforked), MaxChild)
           + Owes(d, queue, nforked, s) - Owes(child, queue, nforked, s)
    BY <1>1, <1>3, <1>5, <2>1, OwedChange
  <2>3. PICK a, b, x, y : /\ a = Total(Owed(d, queue, nforked), MaxChild)
                          /\ b = Total(Owed(child, queue, nforked), MaxChild)
                          /\ x = Owes(d, queue, nforked, s)
                          /\ y = Owes(child, queue, nforked, s)
    OBVIOUS
  <2>4. a \in Nat /\ b \in Nat /\ x \in Nat /\ y \in Nat
    BY <1>1, <1>3, <1>5, <2>3, OwedType
  <2>5. Paid = tty + b /\ Paid' = tty' + a
    BY <1>1, <1>5, <2>3 DEF Paid
  <2>6. a = b + x - y /\ tty' + x = tty + y
    BY <1>7, <2>2, <2>3
  <2>7. PICK u : u = tty' /\ u \in Nat /\ u + x = tty + y
    BY <1>7, <2>6
  <2>8. u + a = tty + b
    <3>1. PICK w : w = tty /\ w \in Nat /\ u + x = w + y /\ u \in Nat
      BY <1>1, <2>7
    <3>2. a = b + x - y
      BY <2>6
    <3>3. u + a = w + b
      BY <2>4, <3>1, <3>2
    <3> QED
      BY <3>1, <3>3
  <2> QED
    BY <2>5, <2>7, <2>8
<1>9. PICK L \in Lines : \E j \in 0 .. Len(L) : AtCommand(L, j)
  BY <1>2 DEF DeliverInv
<1>10. PICK j \in 0 .. Len(L) : AtCommand(L, j)
  BY <1>9
<1>11. AtCommand(L, j)'
  BY <1>1, <1>2, <1>8, <1>10 DEF AtCommand, InPipeline
<1>12. \A v \in Slot \ {0} : d[v].st = "run" =>
            d[v].in \in {Tty, File} /\ d[v].out \in {Tty, File}
  BY <1>3, <1>6, <1>7 DEF DeliverInv
<1>13. \A v \in Slot : v > nforked => d[v].st = "none"
  BY <1>1, <1>2, <1>3, <1>6 DEF DeliverInv
<1> QED
  BY <1>1, <1>2, <1>5, <1>11, <1>12, <1>13 DEF DeliverInv

\* What the child of a stage reads it still has to pass on.
LEMMA ReadKeeps ==
    ASSUME TypeOK, ReadUnit(0) \/ ReadEof(0), NEW o
    PROVE  /\ Pending(buf', child'[0], o) = Pending(buf, child[0], o) /\ tty' = tty
           /\ \A k \in Pipe : child[0].in # <<"r", k>> => buf'[k] = buf[k]
<1>1. 0 \in Slot /\ child \in [Slot -> Child] /\ buf \in [Pipe -> 0 .. Capacity]
  BY SeushAssumption DEF TypeOK, Slot
<1>2. PICK c : /\ c = child[0] /\ c \in Child /\ c.in \in Obj /\ c.left \in Nat
               /\ c.st = "run" /\ c.reading
  BY <1>1 DEF ReadUnit, ReadEof, Child
<1>3. PICK d, b, e : d = child'[0] /\ b = buf /\ e = buf'
  OBVIOUS
<1>4. CASE ReadUnit(0)
  <2>1. PICK m : m = c.in[2]
    OBVIOUS
  <2>2. /\ c.in[1] = "r" /\ b[m] > 0 /\ e = [b EXCEPT ![m] = @ - 1] /\ tty' = tty
        /\ d = [c EXCEPT !.left = @ + 1]
    BY <1>1, <1>2, <1>3, <1>4, <2>1 DEF ReadUnit
  <2>3. c.in = <<"r", m>> /\ m \in Pipe
    BY <1>2, <2>1, <2>2 DEF Obj, Closed, Tty, File
  <2>4. /\ d.st = c.st /\ d.in = c.in /\ d.out = c.out /\ d.reading = c.reading
        /\ d.left = c.left + 1
    BY <1>2, <2>2 DEF Child
  <2>5. e[m] = b[m] - 1 /\ b[m] \in Nat /\ \A k \in Pipe : k # m => e[k] = b[k]
    BY <1>1, <1>3, <2>2, <2>3
  <2>6. Unread(b, c) = b[m] /\ Unread(e, d) = e[m]
    BY <1>2, <2>1, <2>2, <2>4 DEF Unread
  <2>7. d.left + Unread(e, d) = c.left + Unread(b, c)
    BY <1>2, <2>4, <2>5, <2>6
  <2>8. Pending(e, d, o) = Pending(b, c, o)
    BY <2>4, <2>7 DEF Pending
  <2> QED
    BY <1>2, <1>3, <2>2, <2>3, <2>5, <2>8
<1>5. CASE ReadEof(0)
  <2>1. /\ c.in[1] = "r" => b[c.in[2]] = 0
        /\ d = [c EXCEPT !.reading = FALSE] /\ e = b /\ tty' = tty
    BY <1>1, <1>2, <1>3, <1>5 DEF ReadEof
  <2>2. d.st = c.st /\ d.out = c.out /\ d.left = c.left /\ ~d.reading
    BY <1>2, <2>1 DEF Child
  <2>3. Unread(b, c) = 0 /\ Unread(e, d) = 0
    BY <2>1, <2>2 DEF Unread
  <2>4. Pending(e, d, o) = Pending(b, c, o)
    BY <2>2, <2>3 DEF Pending
  <2> QED
    BY <1>2, <1>3, <2>1, <2>4
<1> QED
  BY <1>4, <1>5

\* What it writes into its pipe is there, and it is not killed: the shell holds
\* the read end.
LEMMA PipeStep ==
    ASSUME TypeOK, ChildStep(0), NEW k \in Pipe, fds[0] = <<"r", k>>,
           child[0].out \in {File, <<"w", k>>}, child[0].in # <<"r", k>>
    PROVE  /\ tty' = tty
           /\ buf'[k] + Pending(buf', child'[0], <<"w", k>>)
                = buf[k] + Pending(buf, child[0], <<"w", k>>)
<1>1. /\ 0 \in Slot /\ child \in [Slot -> Child] /\ buf \in [Pipe -> 0 .. Capacity]
      /\ 0 \in Fd
  BY SeushAssumption DEF TypeOK, Slot, Fd
<1>2. PICK c : /\ c = child[0] /\ c \in Child /\ c.in \in Obj /\ c.left \in Nat
               /\ c.st = "run"
  BY <1>1 DEF ChildStep, ReadUnit, ReadEof, WriteUnit, Exit, Child
<1>3. PICK d, b, e, o : d = child'[0] /\ b = buf /\ e = buf' /\ o = <<"w", k>>
  OBVIOUS
<1>4. /\ c.out \in {File, o} /\ o[1] = "w" /\ o[2] = k /\ File[1] # "w"
      /\ File # Tty /\ o # Tty /\ o # File
  BY <1>2, <1>3 DEF File, Tty
<1>5. CASE ReadUnit(0) \/ ReadEof(0)
  BY <1>5, ReadKeeps
<1>6. CASE WriteUnit(0)
  <2>1. d = [c EXCEPT !.left = @ - 1] /\ c.left > 0
    BY <1>1, <1>2, <1>3, <1>6 DEF WriteUnit
  <2>2. /\ d.st = "run" /\ d.in = c.in /\ d.out = c.out /\ d.reading = c.reading
        /\ d.left = c.left - 1
    BY <1>2, <2>1 DEF Child
  <2>3. CASE c.out = o
    <3>1. e = [b EXCEPT ![k] = @ + 1] /\ tty' = tty
      BY <1>2, <1>3, <1>4, <1>6, <2>3 DEF WriteUnit
    <3>2. e[k] = b[k] + 1 /\ b[k] \in Nat
      BY <1>1, <1>3, <3>1
    <3>3. Unread(e, d) = Unread(b, c) /\ Unread(b, c) \in Nat
      <4>1. CASE c.reading /\ c.in[1] = "r"
        <5>1. c.in[2] \in Pipe /\ c.in[2] # k
          BY <1>2, <4>1 DEF Obj, Closed, Tty, File
        <5> QED
          BY <1>1, <1>3, <2>2, <3>1, <4>1, <5>1 DEF Unread
      <4>2. CASE ~(c.reading /\ c.in[1] = "r")
        BY <2>2, <4>2 DEF Unread
      <4> QED
        BY <4>1, <4>2
    <3>4. /\ Pending(e, d, o) = (c.left - 1) + Unread(b, c)
          /\ Pending(b, c, o) = c.left + Unread(b, c)
      BY <1>2, <2>2, <2>3, <3>3 DEF Pending
    <3>5. e[k] + Pending(e, d, o) = b[k] + Pending(b, c, o)
      BY <1>2, <3>2, <3>3, <3>4
    <3> QED
      BY <1>2, <1>3, <3>1, <3>5
  <2>4. CASE c.out = File
    <3>1. e = b /\ tty' = tty
      BY <1>2, <1>3, <1>4, <1>6, <2>4 DEF WriteUnit
    <3>2. Pending(e, d, o) = 0 /\ Pending(b, c, o) = 0
      BY <1>4, <2>2, <2>4 DEF Pending
    <3> QED
      BY <1>2, <1>3, <3>1, <3>2
  <2> QED
    BY <1>4, <2>3, <2>4
<1>7. CASE Exit(0)
  <2>1. Readers(k)
    BY <1>1 DEF Readers, Open, PipeEnds
  <2>2. /\ c.left = 0 /\ ~c.reading /\ d = [NoChild EXCEPT !.st = "zombie"]
        /\ e = b /\ tty' = tty
    BY <1>1, <1>2, <1>3, <1>4, <1>7, <2>1 DEF Exit
  <2>3. Pending(e, d, o) = 0 /\ Pending(b, c, o) = 0
    BY <2>2 DEF Pending, Unread, NoChild
  <2> QED
    BY <1>2, <1>3, <2>2, <2>3
<1> QED
  BY <1>5, <1>6, <1>7 DEF ChildStep

\* The last stage writes to the terminal what it has left to pass on.
LEMMA LastStep ==
    ASSUME TypeOK, ChildStep(0), child[0].out \in {File, Tty}
    PROVE  /\ tty' + Pending(buf', child'[0], Tty) = tty + Pending(buf, child[0], Tty)
           /\ Pending(buf, child[0], Tty) \in Nat /\ Pending(buf', child'[0], Tty) \in Nat
           /\ tty' \in Nat
<1>1. /\ 0 \in Slot /\ child \in [Slot -> Child] /\ buf \in [Pipe -> 0 .. Capacity]
      /\ tty \in Nat
  BY SeushAssumption DEF TypeOK, Slot
<1>2. PICK c : /\ c = child[0] /\ c \in Child /\ c.in \in Obj /\ c.left \in Nat
               /\ c.st = "run"
  BY <1>1 DEF ChildStep, ReadUnit, ReadEof, WriteUnit, Exit, Child
<1>3. PICK d, b, e : d = child'[0] /\ b = buf /\ e = buf'
  OBVIOUS
<1>4. c.out \in {File, Tty} /\ File[1] # "w" /\ Tty[1] # "w" /\ File # Tty
  BY <1>2 DEF File, Tty
<1>5. Unread(b, c) \in Nat /\ Pending(b, c, Tty) \in Nat
  <2>1. c.in[1] = "r" => b[c.in[2]] \in Nat
    BY <1>1, <1>2, <1>3, ObjFacts
  <2>2. Unread(b, c) \in Nat
    BY <2>1 DEF Unread
  <2> QED
    BY <1>2, <2>2 DEF Pending
<1>6. CASE ReadUnit(0) \/ ReadEof(0)
  BY <1>1, <1>2, <1>3, <1>5, <1>6, ReadKeeps
<1>7. CASE WriteUnit(0)
  <2>1. /\ d = [c EXCEPT !.left = @ - 1] /\ c.left > 0 /\ e = b
        /\ tty' = IF c.out = Tty THEN tty + 1 ELSE tty
    BY <1>1, <1>2, <1>3, <1>4, <1>7 DEF WriteUnit
  <2>2. /\ d.st = "run" /\ d.in = c.in /\ d.out = c.out /\ d.reading = c.reading
        /\ d.left = c.left - 1
    BY <1>2, <2>1 DEF Child
  <2>3. Unread(e, d) = Unread(b, c)
    BY <2>1, <2>2 DEF Unread
  <2>4. CASE c.out = Tty
    <3>1. /\ Pending(e, d, Tty) = (c.left - 1) + Unread(b, c)
          /\ Pending(b, c, Tty) = c.left + Unread(b, c)
      BY <1>2, <2>2, <2>3, <2>4 DEF Pending
    <3>2. /\ tty' \in Nat /\ Pending(e, d, Tty) \in Nat
          /\ tty' + Pending(e, d, Tty) = tty + Pending(b, c, Tty)
      BY <1>1, <1>2, <1>5, <2>1, <2>4, <3>1
    <3> QED
      BY <1>2, <1>3, <1>5, <3>2
  <2>5. CASE c.out = File
    <3>1. Pending(e, d, Tty) = 0 /\ Pending(b, c, Tty) = 0
      BY <1>4, <2>2, <2>5 DEF Pending
    <3> QED
      BY <1>1, <1>2, <1>3, <1>4, <2>1, <2>5, <3>1
  <2> QED
    BY <1>4, <2>4, <2>5
<1>8. CASE Exit(0)
  <2>1. /\ c.left = 0 /\ ~c.reading /\ d = [NoChild EXCEPT !.st = "zombie"]
        /\ e = b /\ tty' = tty
    BY <1>1, <1>2, <1>3, <1>4, <1>8 DEF Exit
  <2>2. Pending(e, d, Tty) = 0 /\ Pending(b, c, Tty) = 0
    BY <2>1 DEF Pending, Unread, NoChild
  <2> QED
    BY <1>1, <1>2, <1>3, <2>1, <2>2
<1> QED
  BY <1>6, <1>7, <1>8 DEF ChildStep

\* The child of a stage passes on what it reads and what it makes, to the pipe
\* that is the shell's stdin or to the terminal, and loses nothing.
LEMMA DeliverPiped ==
    ASSUME TypeOK, TypeOK', SerialInv, DeliverInv, ChildStep(0)
    PROVE  DeliverInv'
<1> SUFFICES ASSUME sane
             PROVE  DeliverInv'
  BY DEF DeliverInv, ChildStep, ReadUnit, ReadEof, WriteUnit, Exit, childOnly
<1>1. /\ child \in [Slot -> Child] /\ child' \in [Slot -> Child] /\ 0 \in Slot
      /\ fds \in [Fd -> Obj] /\ 0 \in Fd
      /\ buf \in [Pipe -> 0 .. Capacity] /\ buf' \in [Pipe -> 0 .. Capacity]
  BY SeushAssumption DEF TypeOK, Slot, Fd
<1>2. child[0].st = "run" /\ UNCHANGED <<pc, line, stages, leader, fds, queue, nforked, want>>
  BY DEF ChildStep, ReadUnit, ReadEof, WriteUnit, Exit, childOnly, shell
<1>3. pc \in {"wait", "last"}
  BY <1>2 DEF SerialInv, Live
<1>4. PICK c : /\ c = child[0] /\ c.st = "run" /\ c.in \in Obj /\ c.out \in Obj
               /\ c.left \in Nat /\ c.reading \in BOOLEAN /\ c \in Child
  BY <1>1, <1>2 DEF Child
<1>5. PICK d : d = child'[0] /\ child' = [child EXCEPT ![0] = d]
  BY <1>1 DEF ChildStep, ReadUnit, ReadEof, WriteUnit, Exit
<1>9. PICK L \in Lines : \E j \in 1 .. Len(L) : \E i \in 0 .. Len(L[j].stages) :
              AtCommand(L, j) /\ AtStage(L[j].stages, i, Total(Flows(L), j - 1))
  BY <1>3, Working DEF InPipeline
<1>10. PICK j \in 1 .. Len(L) : \E i \in 0 .. Len(L[j].stages) :
              AtCommand(L, j) /\ AtStage(L[j].stages, i, Total(Flows(L), j - 1))
  BY <1>9
<1>11. PICK s : s = L[j].stages /\ s \in Seq(Prog)
  BY FlowsStep
<1>12. PICK i \in 0 .. Len(s) : AtCommand(L, j) /\ AtStage(s, i, Total(Flows(L), j - 1))
  BY <1>10, <1>11
<1>13. PICK b, e : b = buf /\ e = buf'
  OBVIOUS
<1>14. Owed(child, queue, nforked)' = Owed(child, queue, nforked)
  BY <1>2, <1>5, OwedStage
<1>15. /\ d.st = "run" => d.in = c.in /\ d.out = c.out
       /\ d.st \in {"run", "zombie"}
  <2>1. CASE ReadUnit(0)
    <3>1. d = [c EXCEPT !.left = @ + 1]
      BY <1>1, <1>4, <1>5, <2>1 DEF ReadUnit
    <3> QED
      BY <1>4, <3>1 DEF Child
  <2>2. CASE ReadEof(0)
    <3>1. d = [c EXCEPT !.reading = FALSE]
      BY <1>1, <1>4, <1>5, <2>2 DEF ReadEof
    <3> QED
      BY <1>4, <3>1 DEF Child
  <2>3. CASE WriteUnit(0)
    <3>1. d = [c EXCEPT !.left = @ - 1]
      BY <1>1, <1>4, <1>5, <2>3 DEF WriteUnit
    <3> QED
      BY <1>4, <3>1 DEF Child
  <2>4. CASE Exit(0)
    <3>1. d = [NoChild EXCEPT !.st = "zombie"]
      BY <1>1, <1>5, <2>4 DEF Exit
    <3> QED
      BY <3>1 DEF NoChild
  <2> QED
    BY <2>1, <2>2, <2>3, <2>4 DEF ChildStep
<1>16. ASSUME pc = "wait"
       PROVE  AtCommand(L, j)'
  <2>1. /\ After(stages, s, i) /\ Paid = Total(Flows(L), j - 1) /\ i > 0 /\ fds[0][1] = "r"
        /\ c.out \in {File, <<"w", fds[0][2]>>} /\ c.in # fds[0]
        /\ buf[fds[0][2]] + Pending(buf, child[0], <<"w", fds[0][2]>>) = Passed(s, i)
    BY <1>4, <1>12, <1>16 DEF AtStage
  <2>2. PICK k : k = fds[0][2] /\ k \in Pipe /\ fds[0] = <<"r", k>>
    BY <1>1, <2>1 DEF Obj, Closed, Tty, File
  <2>3. e[k] + Pending(e, d, <<"w", k>>) = b[k] + Pending(b, c, <<"w", k>>) /\ tty' = tty
    BY <1>4, <1>5, <1>13, <2>1, <2>2, PipeStep
  <2>4. Paid' = Paid
    BY <1>14, <2>3 DEF Paid
  <2>5. AtStage(s, i, Total(Flows(L), j - 1))'
    <3>1. fds'[0] = fds[0] /\ fds'[0][2] = k
      BY <1>2, <2>2
    <3>2. buf'[k] + Pending(buf', child'[0], <<"w", k>>) = Passed(s, i)
      BY <1>4, <1>5, <1>13, <2>1, <2>2, <2>3
    <3>3. child'[0].st = "run" => child'[0].out \in {File, <<"w", k>>} /\ child'[0].in # fds'[0]
      BY <1>5, <1>15, <2>1, <2>2, <3>1
    <3> QED
      BY <1>2, <1>16, <2>1, <2>2, <2>4, <3>1, <3>2, <3>3 DEF AtStage
  <2> QED
    BY <1>2, <1>11, <1>12, <1>16, <2>5, StaysAtCommand DEF InPipeline
<1>17. ASSUME pc = "last"
       PROVE  AtCommand(L, j)'
  <2>1. /\ After(stages, s, i) /\ i = Len(s) /\ c.out \in {File, Tty}
        /\ Paid + Pending(buf, child[0], Tty) = Total(Flows(L), j - 1) + Passed(s, i)
    BY <1>4, <1>12, <1>17 DEF AtStage
  <2>2. /\ tty' + Pending(buf', child'[0], Tty) = tty + Pending(buf, child[0], Tty)
        /\ Pending(buf, child[0], Tty) \in Nat /\ Pending(buf', child'[0], Tty) \in Nat
        /\ tty' \in Nat
    BY <1>4, <2>1, LastStep
  <2>3. PICK a : a = Total(Owed(child, queue, nforked), MaxChild) /\ a \in Nat
    <3>1. queue \in Seq(Process) /\ nforked \in Nat
      BY DEF TypeOK
    <3> QED
      BY <1>1, <3>1, OwedType
  <2>4. Paid = tty + a /\ Paid' = tty' + a /\ tty \in Nat
    BY <1>14, <2>3 DEF Paid, TypeOK
  <2>5. Paid' + Pending(buf', child'[0], Tty) = Paid + Pending(buf, child[0], Tty)
    <3>1. PICK u, w, x, y : /\ u = tty' /\ w = tty /\ x = Pending(buf', child'[0], Tty)
                            /\ y = Pending(buf, child[0], Tty)
      OBVIOUS
    <3>2. u + x = w + y /\ u \in Nat /\ w \in Nat /\ x \in Nat /\ y \in Nat
      BY <2>2, <2>4, <3>1
    <3>3. a \in Nat
      BY <2>3
    <3>4. (u + a) + x = (w + a) + y
      BY <3>2, <3>3
    <3> QED
      BY <2>4, <3>1, <3>4
  <2>6. AtStage(s, i, Total(Flows(L), j - 1))'
    <3>1. child'[0].st = "run" => child'[0].out \in {File, Tty}
      BY <1>5, <1>15, <2>1
    <3> QED
      BY <1>2, <1>17, <2>1, <2>5, <3>1 DEF AtStage
  <2> QED
    BY <1>2, <1>11, <1>12, <1>17, <2>6, StaysAtCommand DEF InPipeline
<1>18. AtCommand(L, j)'
  BY <1>3, <1>16, <1>17
<1>19. j \in 0 .. Len(L)
  BY FlowsStep
<1>20. /\ nforked = 0 /\ fds[1] = Tty /\ \A n \in 1 .. Len(queue) : Ready(queue[n])
       /\ \A v \in Slot \ {0} : child[v].st = "run" =>
            child[v].in \in {Tty, File} /\ child[v].out \in {Tty, File}
  BY <1>3 DEF DeliverInv
<1>21. \A v \in Slot \ {0} : child'[v] = child[v]
  BY <1>1, <1>5
<1> QED
  BY <1>2, <1>3, <1>18, <1>19, <1>20, <1>21 DEF DeliverInv

LEMMA DeliverStep ==
    TypeOK /\ TypeOK' /\ SerialInv /\ StdinInv /\ DeliverInv /\ [Next]_vars => DeliverInv'
<1> SUFFICES ASSUME TypeOK, TypeOK', SerialInv, StdinInv, DeliverInv, [Next]_vars
             PROVE  DeliverInv'
  OBVIOUS
<1>1. CASE UNCHANGED vars
  BY <1>1 DEF vars, DeliverInv, AtCommand, AtStage, InPipeline, Paid
<1>2. ASSUME NEW s \in Slot, ChildStep(s)
      PROVE  DeliverInv'
  BY <1>2, DeliverPiped, DeliverQueued
<1> QED
  BY <1>1, <1>2, DeliverReadLine, DeliverShell DEF Next, LostInput, Ended

\* A line that nothing cut short has shown on the terminal all that its programs
\* send there, for every line, pipe capacity and order in which children run:
\* handle_pipe and run_processes lose nothing in a pipe between two stages, give
\* no program another's input, and let none be killed by a closed pipe.
THEOREM EverythingArrives == Spec => []PipelineDelivers
<1>1. Init => DeliverInv
  <2> SUFFICES ASSUME Init PROVE DeliverInv
    OBVIOUS
  <2>1. /\ pc = "prompt" /\ fds[1] = Tty /\ tty = want /\ queue = <<>> /\ nforked = 0
        /\ \A s \in Slot : child[s].st = "none"
    BY SeushAssumption DEF Init, Fd, NoChild
  <2> QED
    BY <2>1 DEF DeliverInv
<1>2. DeliverInv => PipelineDelivers
  BY DEF DeliverInv, PipelineDelivers
<1> QED
  BY <1>1, <1>2, DeliverStep, SeushTypes, SerialAlways, StdinAlways, PTL DEF Spec

=============================================================================
