------------------------------- MODULE Seush -------------------------------
(***************************************************************************)
(* How the shell seush runs one line after another: parse_command splits a *)
(* line at '&' into commands, handle_pipe runs a command with '|' at once, *)
(* stage by stage, run_processes starts the commands without '|' together  *)
(* and waits for them.  The model keeps the shell's file descriptor table, *)
(* the pipes with their capacity, and the children with what they inherit. *)
(*                                                                         *)
(* Data is counted in units: a program writes gen units of its own and, if *)
(* it reads, what it reads; the terminal as input is at its end.           *)
(***************************************************************************)
EXTENDS Integers, FiniteSets, Sequences

CONSTANTS
    Lines,      \* the lines a user may enter: sequences of commands
    MaxFd,      \* size of a file descriptor table (RLIMIT_NOFILE)
    Capacity,   \* units a pipe holds
    Pipe,       \* identities of pipes
    MaxChild,   \* most commands without '|' in a line
    MaxFails    \* how many times fork may fail

(***************************************************************************)
(* A program (found is FALSE if no path leads to it; infile is its input   *)
(* redirection, if any); a command, of which dangling says that after the  *)
(* last stage comes a '|' with no command behind it ("ls | |"); open files.*)
(***************************************************************************)
Prog == [gen : Nat, reads : BOOLEAN, redir : BOOLEAN,
         infile : {"none", "exists", "missing"}, found : BOOLEAN]
Command == [stages : Seq(Prog) \ {<<>>}, dangling : BOOLEAN]

ASSUME SeushAssumption ==
    /\ Lines \subseteq Seq(Command)
    /\ MaxFd \in Nat /\ MaxFd >= 3
    /\ Capacity \in Nat \ {0}
    /\ MaxChild \in Nat /\ MaxFails \in Nat
    /\ \A l \in Lines : Len(l) <= MaxChild
    /\ IsFiniteSet(Pipe)

Fd == 0 .. MaxFd - 1
Closed == <<"closed", 0>>
Tty == <<"tty", 0>>
File == <<"file", 0>>
Obj == {Closed, Tty, File} \cup ({"r", "w"} \X Pipe)

VARIABLES
    pc,         \* prompt, command, stage, last, wait, run, reap, exited, crashed
    line,       \* the commands of the line not yet looked at
    stages,     \* the stages of the current command not yet started
    dangling,   \* the current command ends in a bare '|'
    leader,     \* handle_pipe is at its first stage
    fds,        \* the shell's descriptor table
    save_in,    \* dup of stdin, -1 if dup failed
    queue,      \* Process records of the commands without '|'
    nforked,    \* how many of them run_processes has started
    child,      \* children: slot 0 for a pipeline's stage, k for queue[k]
    buf,        \* units in each pipe
    tty,        \* units this line has sent to the terminal
    want,       \* units it should send there
    fails,      \* how many forks failed
    sane   \* no failure and no bare '|' so far in the shell's life
vars == <<pc, line, stages, dangling, leader, fds, save_in, queue, nforked,
          child, buf, tty, want, fails, sane>>

shell == <<line, stages, dangling, leader, queue, nforked>>

Process == [prog : Prog, outfd : Fd \cup {-1}, infd : Fd \cup {-1}]
Slot == 0 .. MaxChild
Child == [st : {"none", "run", "zombie"}, in : Obj, out : Obj, held : SUBSET Obj,
          left : Nat, reading : BOOLEAN]
NoChild == [st |-> "none", in |-> Closed, out |-> Closed, held |-> {},
            left |-> 0, reading |-> FALSE]

(***************************************************************************)
(* Descriptors.                                                            *)
(***************************************************************************)
Free(t) == {n \in Fd : t[n] = Closed}
Lowest(S) == CHOOSE n \in S : \A m \in S : n <= m

\* dup, open and the like give the lowest free descriptor, or -1.
NewFd(t) == IF Free(t) = {} THEN -1 ELSE Lowest(Free(t))
Put(t, n, o) == IF n = -1 THEN t ELSE [t EXCEPT ![n] = o]
Dup(t, n) == Put(t, NewFd(t), t[n])

PipeEnds(t) == {t[n] : n \in Fd} \cap ({"r", "w"} \X Pipe)
Running == {s \in Slot : child[s].st = "run"}
Open(t) == PipeEnds(t) \cup UNION {child[s].held : s \in Running}

\* Pipes nobody has an end of.
FreshPipes == {k \in Pipe : <<"r", k>> \notin Open(fds) /\ <<"w", k>> \notin Open(fds)}
Writers(k) == <<"w", k>> \in Open(fds)
Readers(k) == <<"r", k>> \in Open(fds)

\* pipe() takes the two lowest free descriptors, or fails.
PipeFds == LET r == Lowest(Free(fds)) IN <<r, Lowest(Free(fds) \ {r})>>
PipeTable(k) == [fds EXCEPT ![PipeFds[1]] = <<"r", k>>, ![PipeFds[2]] = <<"w", k>>]
CanPipe == Cardinality(Free(fds)) >= 2

(***************************************************************************)
(* handle_redirection opens the output file, then the input file, in table *)
(* t; -1 is a file that is not there or not asked for.                     *)
(***************************************************************************)
OutFd(t, prog) == IF prog.redir THEN NewFd(t) ELSE -1
InFd(t, prog) ==
    IF prog.infile = "exists" THEN NewFd(Put(t, OutFd(t, prog), File)) ELSE -1
Opened(t, prog) == Put(Put(t, OutFd(t, prog), File), InFd(t, prog), File)

\* There is a descriptor for every file that can be opened.
FilesOpen(t, prog) ==
    /\ prog.redir => OutFd(t, prog) # -1
    /\ prog.infile = "exists" => InFd(t, prog) # -1

\* dup2 onto stdout, stderr and stdin in the child; a file that could not be
\* opened makes dup2 fail, and the child exits, as it does when exec fails.
CanRun(prog, outfd, infd) ==
    /\ prog.redir => outfd # -1
    /\ prog.infile # "none" => infd # -1
    /\ prog.found

Redirected(t, prog) ==
    [n \in Fd |-> IF prog.redir /\ n \in {1, 2} THEN File
                  ELSE IF prog.infile # "none" /\ n = 0 THEN File ELSE t[n]]

NewChild(t, prog, outfd, infd) ==
    IF CanRun(prog, outfd, infd)
    THEN [st |-> "run", in |-> Redirected(t, prog)[0], out |-> Redirected(t, prog)[1],
          held |-> PipeEnds(Redirected(t, prog)),
          left |-> prog.gen, reading |-> prog.reads]
    ELSE [NoChild EXCEPT !.st = "zombie"]

\* handle_redirection_exec: a stage opens its own files.
StageChild(t, prog) == NewChild(Opened(t, prog), prog, OutFd(t, prog), InFd(t, prog))

(***************************************************************************)
(* What a program sends to its own standard output if x units wait in the  *)
(* pipe it may read; what the first n stages of a command pass on; what a  *)
(* command, and what a line, ought to send to the terminal.                *)
(***************************************************************************)
Passes(p, x) ==
    IF p.redir \/ ~p.found \/ p.infile = "missing" THEN 0
    ELSE p.gen + (IF p.reads /\ p.infile = "none" THEN x ELSE 0)

Passed(s, n) ==
    LET f[j \in 0 .. n] == IF j = 0 THEN 0 ELSE Passes(s[j], f[j - 1])
    IN  f[n]

Total(f, n) ==
    LET g[j \in 0 .. n] == IF j = 0 THEN 0 ELSE g[j - 1] + f[j]
    IN  g[n]

Flows(l) == [j \in 1 .. Len(l) |-> Passed(l[j].stages, Len(l[j].stages))]
Expected(l) == Total(Flows(l), Len(l))

(***************************************************************************)
(* The main loop hands over a line; built-in commands are in SeushLoop.    *)
(***************************************************************************)
ReadLine(l) ==
    /\ pc = "prompt" /\ fds[0] = Tty
    /\ pc' = "command"
    /\ line' = l
    /\ tty' = 0 /\ want' = Expected(l)
    /\ sane' = (sane /\ \A j \in DOMAIN l : ~l[j].dangling)
    /\ UNCHANGED <<stages, dangling, leader, fds, save_in, queue, nforked,
                   child, buf, fails>>

\* stdin is a pipe: getline gets end of file and tries again, or takes what a
\* program wrote for a line; either way no line of the user is read.
LostInput ==
    /\ pc = "prompt" /\ fds[0] # Tty
    /\ UNCHANGED vars

\* The next command of the line: save stdin and stdout, enter handle_pipe.
NextCommand ==
    /\ pc = "command" /\ line # <<>>
    /\ save_in' = NewFd(fds)
    /\ fds' = Dup(Dup(fds, 0), 1)
    /\ stages' = Head(line).stages /\ dangling' = Head(line).dangling
    /\ line' = Tail(line)
    /\ leader' = TRUE
    /\ pc' = "stage"
    /\ UNCHANGED <<queue, nforked, child, buf, tty, want, fails, sane>>

\* All commands are parsed and the pipelines done: run_processes.
LineParsed ==
    /\ pc = "command" /\ line = <<>>
    /\ pc' = "run" /\ nforked' = 0
    /\ UNCHANGED <<line, stages, dangling, leader, fds, save_in, queue,
                   child, buf, tty, want, fails, sane>>

\* A command without '|' is queued; its files are opened in the shell.
Enqueue ==
    /\ pc = "stage" /\ leader /\ Len(stages) = 1 /\ ~dangling
    /\ LET prog == Head(stages)
           o == OutFd(fds, prog)
           i == InFd(fds, prog)
       IN  /\ queue' = Append(queue, [prog |-> prog, outfd |-> o, infd |-> i])
           /\ fds' = Opened(fds, prog)
           /\ sane' = (sane /\ FilesOpen(fds, prog))
    /\ pc' = "command"
    /\ UNCHANGED <<line, stages, dangling, leader, save_in, nforked, child,
                   buf, tty, want, fails>>

\* handle_pipe finds no command, after the first stages of "ls | |".
NoCommand ==
    /\ pc = "stage" /\ stages = <<>>
    /\ pc' = "command"
    /\ UNCHANGED <<shell, fds, save_in, child, buf, tty, want, fails, sane>>

HasNext == Len(stages) > 1 \/ (stages # <<>> /\ dangling)
IsLast == ~leader /\ Len(stages) = 1 /\ ~dangling

\* pipe() fails: handle_pipe returns, with stdin as it is.
PipeFails ==
    /\ pc = "stage" /\ (HasNext \/ IsLast) /\ ~CanPipe
    /\ pc' = "command" /\ sane' = FALSE
    /\ UNCHANGED <<shell, fds, save_in, child, buf, tty, want, fails>>

\* The child of a stage: close(1) and dup make the write end its stdout, as
\* descriptor 0 is open, and both ends are closed.
StageKeepsStdout(t, p) == [t EXCEPT ![p[1]] = Closed, ![p[2]] = Closed]
StageTable(t, p) == [t EXCEPT ![p[1]] = Closed, ![1] = t[p[2]], ![p[2]] = Closed]

\* The parent: close(0) and dup make the read end its stdin.
ParentTable(t, p) == [t EXCEPT ![p[2]] = Closed, ![0] = t[p[1]], ![p[1]] = Closed]

\* What follows the first '|'.
WholeLine(s) == s
Leftover(s) == Tail(s)

\* A stage that is not the last: pipe, fork, and the parent's redirection.
StartStage(k) ==
    /\ pc = "stage" /\ HasNext /\ CanPipe
    /\ LET t == PipeTable(k) IN
       /\ child' = [child EXCEPT ![0] = StageChild(StageTable(t, PipeFds), Head(stages))]
       /\ fds' = ParentTable(t, PipeFds)
    /\ buf' = [buf EXCEPT ![k] = 0]
    /\ stages' = Leftover(stages)
    /\ leader' = FALSE
    /\ pc' = "wait"
    /\ UNCHANGED <<line, dangling, save_in, queue, nforked, tty, want, fails, sane>>

\* The last stage: one more pipe, whose ends nobody uses or closes.
StartLast(k) ==
    /\ pc = "stage" /\ IsLast /\ CanPipe
    /\ fds' = PipeTable(k)
    /\ child' = [child EXCEPT ![0] = StageChild(PipeTable(k), Head(stages))]
    /\ buf' = [buf EXCEPT ![k] = 0]
    /\ stages' = <<>>
    /\ sane' = (sane /\ FilesOpen(PipeTable(k), Head(stages)))
    /\ pc' = "last"
    /\ UNCHANGED <<line, dangling, leader, save_in, queue, nforked, tty, want, fails>>

\* fork fails in handle_pipe.  In the last stage it returns NULL; in another
\* it runs off its end, and its caller gets NULL or a wild pointer.
ForkFails(k) ==
    /\ pc = "stage" /\ (HasNext \/ IsLast) /\ CanPipe /\ fails < MaxFails
    /\ fails' = fails + 1
    /\ fds' = PipeTable(k)
    /\ buf' = [buf EXCEPT ![k] = 0]
    /\ pc' \in IF IsLast THEN {"command"} ELSE {"command", "crashed"}
    /\ sane' = FALSE
    /\ UNCHANGED <<shell, save_in, child, tty, want>>

Zombies == {s \in Slot : child[s].st = "zombie"}

\* waitpid(-1) after a stage: any child will do.
WaitStage ==
    /\ pc = "wait"
    /\ \E s \in Zombies : child' = [child EXCEPT ![s] = NoChild]
    /\ pc' = "stage"
    /\ UNCHANGED <<shell, fds, save_in, buf, tty, want, fails, sane>>

\* The end of a pipeline: dup2(save_in, 0).
KeepStdin(t) == t
RestoreStdin(t) == IF save_in = -1 THEN t ELSE [t EXCEPT ![0] = t[save_in]]

WaitLast ==
    /\ pc = "last"
    /\ \E s \in Zombies : child' = [child EXCEPT ![s] = NoChild]
    /\ fds' = RestoreStdin(fds)
    /\ pc' = "command"
    /\ sane' = (sane /\ save_in # -1)
    /\ UNCHANGED <<shell, save_in, buf, tty, want, fails>>

(***************************************************************************)
(* run_processes.                                                          *)
(***************************************************************************)
\* fork and exec one queued command after another.
StartQueued ==
    /\ pc = "run" /\ nforked < Len(queue)
    /\ LET n == nforked + 1 IN
       /\ child' = [child EXCEPT ![n] = NewChild(fds, queue[n].prog, queue[n].outfd, queue[n].infd)]
       /\ nforked' = n
    /\ UNCHANGED <<pc, line, stages, dangling, leader, fds, save_in, queue, buf,
                   tty, want, fails, sane>>

\* A failed fork ends the shell, whatever it has started.
QueuedForkFails ==
    /\ pc = "run" /\ nforked < Len(queue) /\ fails < MaxFails
    /\ fails' = fails + 1
    /\ pc' = "exited" /\ sane' = FALSE
    /\ UNCHANGED <<shell, fds, save_in, child, buf, tty, want>>

\* Every command is started: wait until there is no child.  Without a queue
\* pid is still 0 and the parent does not wait at all.
AllStarted ==
    /\ pc = "run" /\ nforked = Len(queue)
    /\ pc' = IF queue = <<>> THEN "done" ELSE "reap"
    /\ UNCHANGED <<shell, fds, save_in, child, buf, tty, want, fails, sane>>

\* wait() has no child to wait for.
NoWait == TRUE
NoChildLeft == \A s \in Slot : child[s].st = "none"

Reap ==
    /\ pc = "reap"
    /\ \E s \in Zombies : child' = [child EXCEPT ![s] = NoChild]
    /\ UNCHANGED <<pc, shell, fds, save_in, buf, tty, want, fails, sane>>

AllReaped ==
    /\ pc = "reap" /\ NoChildLeft
    /\ pc' = "done"
    /\ UNCHANGED <<shell, fds, save_in, child, buf, tty, want, fails, sane>>

\* parse_command frees what it allocated; back to the main loop.  The global
\* save_in is forgotten too: it is set before it is used again.
LineDone ==
    /\ pc = "done"
    /\ pc' = "prompt"
    /\ queue' = <<>> /\ nforked' = 0 /\ stages' = <<>>
    /\ leader' = TRUE /\ dangling' = FALSE /\ save_in' = -1
    /\ UNCHANGED <<line, fds, child, buf, tty, want, fails, sane>>

(***************************************************************************)
(* Children.                                                               *)
(***************************************************************************)
childOnly == <<pc, shell, fds, save_in, want, fails, sane>>

ReadUnit(s) ==
    /\ child[s].st = "run" /\ child[s].reading /\ child[s].in[1] = "r"
    /\ buf[child[s].in[2]] > 0
    /\ buf' = [buf EXCEPT ![child[s].in[2]] = @ - 1]
    /\ child' = [child EXCEPT ![s].left = @ + 1]
    /\ UNCHANGED <<childOnly, tty>>

\* End of file: the terminal, a file, or a pipe without data and writers.
ReadEof(s) ==
    /\ child[s].st = "run" /\ child[s].reading
    /\ child[s].in[1] = "r" => buf[child[s].in[2]] = 0 /\ ~Writers(child[s].in[2])
    /\ child' = [child EXCEPT ![s].reading = FALSE]
    /\ UNCHANGED <<childOnly, buf, tty>>

\* A program writes as it goes; into a full pipe it has to wait, and a pipe
\* without readers kills it.
WriteUnit(s) ==
    /\ child[s].st = "run" /\ child[s].left > 0
    /\ IF child[s].out[1] = "w"
       THEN /\ Readers(child[s].out[2]) /\ buf[child[s].out[2]] < Capacity
            /\ buf' = [buf EXCEPT ![child[s].out[2]] = @ + 1]
            /\ UNCHANGED tty
       ELSE /\ tty' = IF child[s].out = Tty THEN tty + 1 ELSE tty
            /\ UNCHANGED buf
    /\ child' = [child EXCEPT ![s].left = @ - 1]
    /\ UNCHANGED childOnly

Exit(s) ==
    /\ child[s].st = "run"
    /\ \/ child[s].left = 0 /\ ~child[s].reading
       \/ child[s].left > 0 /\ child[s].out[1] = "w" /\ ~Readers(child[s].out[2])
    /\ child' = [child EXCEPT ![s] = [NoChild EXCEPT !.st = "zombie"]]
    /\ UNCHANGED <<childOnly, buf, tty>>

(***************************************************************************)
(* The specification.                                                      *)
(***************************************************************************)
Init ==
    /\ pc = "prompt" /\ line = <<>> /\ stages = <<>>
    /\ dangling = FALSE /\ leader = TRUE
    /\ fds = [n \in Fd |-> IF n < 3 THEN Tty ELSE Closed]
    /\ save_in = -1
    /\ queue = <<>> /\ nforked = 0
    /\ child = [s \in Slot |-> NoChild]
    /\ buf = [k \in Pipe |-> 0]
    /\ tty = 0 /\ want = 0 /\ fails = 0 /\ sane = TRUE

\* Which pipe a pipe() makes does not matter.
SomePipe == IF FreshPipes = {} THEN {} ELSE {CHOOSE k \in FreshPipes : TRUE}

ShellStep ==
    \/ NextCommand \/ LineParsed \/ Enqueue \/ NoCommand \/ PipeFails
    \/ \E k \in SomePipe : StartStage(k) \/ StartLast(k) \/ ForkFails(k)
    \/ WaitStage \/ WaitLast \/ StartQueued \/ QueuedForkFails \/ AllStarted
    \/ Reap \/ AllReaped \/ LineDone

ChildStep(s) == ReadUnit(s) \/ ReadEof(s) \/ WriteUnit(s) \/ Exit(s)

\* The shell has ended and so have its children.
Ended == pc \in {"exited", "crashed"} /\ UNCHANGED vars

Next ==
    \/ \E l \in Lines : ReadLine(l)
    \/ LostInput
    \/ ShellStep
    \/ \E s \in Slot : ChildStep(s)
    \/ Ended

Spec == Init /\ [][Next]_vars

\* The machine does not stand still while the shell or a child can go on.
FairSpec == Spec /\ WF_vars(ShellStep \/ \E s \in Slot : ChildStep(s))

(***************************************************************************)
(* Properties.                                                             *)
(***************************************************************************)
PCs == {"prompt", "command", "stage", "wait", "last", "run", "reap", "done",
        "exited", "crashed"}

\* Every variable has its type.
TypeOK ==
    /\ pc \in PCs
    /\ line \in Seq(Command) /\ stages \in Seq(Prog)
    /\ dangling \in BOOLEAN /\ leader \in BOOLEAN /\ sane \in BOOLEAN
    /\ fds \in [Fd -> Obj]
    /\ save_in \in Fd \cup {-1}
    /\ queue \in Seq(Process)
    /\ nforked \in 0 .. Len(queue)
    /\ child \in [Slot -> Child]
    /\ buf \in [Pipe -> 0 .. Capacity]
    /\ tty \in Nat /\ fails \in 0 .. MaxFails

\* At the prompt the shell reads from where it read at the start: each pipeline
\* has put its stdin back (dup2(save_in, 0) in handle_pipe), unless a bare '|'
\* or a failed fork, pipe or dup cut one short.
StdinRestored == pc = "prompt" /\ sane => fds[0] = Tty

\* At the prompt no child is left, running or unreaped, whatever failed: the
\* waitpid(-1) of a stage never takes the status of another command's child
\* and leaves one behind.
NoChildAtPrompt == pc = "prompt" => \A s \in Slot : child[s].st = "none"

\* A pipeline has one stage running at a time, and the commands of the line
\* without '|' start when every pipeline of the line is over.
SerialPipelines ==
    /\ child[0].st # "none" => \A s \in Slot \ {0} : child[s].st = "none"
    /\ pc \in {"command", "stage", "run", "reap"} => child[0].st = "none"

\* Children are accounted for at every moment: one stage at a time, and none left.
ChildrenInOrder == NoChildAtPrompt /\ SerialPipelines

\* A line whose pipelines ran undisturbed has shown on the terminal all that
\* its programs send there: nothing is lost or left over in a pipe between two
\* stages.
PipelineDelivers == pc = "prompt" /\ sane => tty = want

\* Every line comes to its end.
LineEnds == pc # "prompt" ~> pc \in {"prompt", "exited", "crashed"}

=============================================================================
