----------------------------- MODULE SeushLoop -----------------------------
(***************************************************************************)
(* The main loop of seush: lines from a batch file or the terminal, the    *)
(* built-in commands exit, help, path and cd, and what the loop keeps      *)
(* between lines, that is environment.paths, environment.cwd and the       *)
(* position in the batch file.  How a command runs is in module Seush;     *)
(* here it is run_command as the loop sees it: chdir(environment->cwd),    *)
(* children that may exit before or after a failed exec, and a fork that   *)
(* may fail (what a failing fork leaves of a pipeline is in module Seush). *)
(* Lines are texts, taken apart as in module SeushParse.                   *)
(*                                                                         *)
(* Batch files are read through stdio: the FILE holds BufLines lines at a  *)
(* time, and the offset below it is shared with every child.  Lines have   *)
(* one length, and none lies across the end of a buffer.                   *)
(***************************************************************************)
EXTENDS Integers, FiniteSets, Sequences, SeushParse

CONSTANTS
    Texts,          \* the texts of lines
    Batches,        \* batch files: sequences of texts; <<>> to be interactive
    Typed,          \* texts a user may type
    Programs,       \* the words a path leads to a program for
    Files,          \* the names a redirection can open
    BufLines,       \* lines in a stdio buffer
    Dirs,           \* the directories: sequences of names from the root
    Locked,         \* those one may list but not enter
    TooLong,        \* the paths of MAX_PATH characters and more
    MaxLines        \* how many lines a user types
Step == Seq(STRING)

\* A path: a directory from the root, or one step from where the shell is.
AbsPath == [abs : {TRUE}, to : Step]
RelPath == [abs : {FALSE}, to : STRING]
Path == AbsPath \cup RelPath

\* What the array environment.cwd holds of a path that is too long for it: its
\* beginning, with no end of its own.
Cut == [abs |-> FALSE, to |-> "a name cut short"]

\* A line as the shell takes it; in and out are empty without redirection.
Text == Seq(STRING)
Process == [argv : Seq(Text), in : Text, out : Text]
Line == [kind : {"exit", "help", "blank", "undefined"}]
        \cup [kind : {"path"}, num : 0 .. MaxPathNum - 1]
        \cup [kind : {"cd"}, dir : Path]
        \cup [kind : {"command"}, parts : Seq(Seq(Process))]

ASSUME LoopAssumption ==
    /\ Batches \subseteq Seq(Texts) /\ Typed \subseteq Texts
    /\ \A t \in Texts : Meaning(t) \in Line
    /\ MaxPathNum \in Nat /\ MaxPathNum >= 2
    /\ BufLines \in Nat \ {0} /\ MaxLines \in Nat
    /\ <<>> \in Dirs /\ Dirs \subseteq Step /\ Locked \subseteq Dirs
    /\ <<>> \notin Locked /\ TooLong \subseteq Path
    /\ \A d \in Dirs : d # <<>> => SubSeq(d, 1, Len(d) - 1) \in Dirs

VARIABLES
    pc,         \* read, run, exited, crashed, or undefined
    batch,      \* the batch file, <<>> if lines are typed
    offset,     \* where the next read of the batch file starts
    fbuf,       \* lines of it, by number, in the FILE's buffer
    cur,        \* the line being run
    paths,      \* environment.paths
    env_cwd,    \* environment.cwd
    cwd,        \* the working directory of the process
    last,       \* number of the batch line run last
    ordered,    \* the batch lines were run from the first on, each once
    typed,      \* lines typed so far
    plain,      \* every cd was to an absolute path that fits and one may enter
    failed      \* how many commands failed to run, counted to two
vars == <<pc, batch, offset, fbuf, cur, paths, env_cwd, cwd, last, ordered, typed, plain, failed>>

\* A text, carried with what the shell takes it for.
LineOf(t) == [text |-> t, line |-> Meaning(t)]
TypedLines == {LineOf(t) : t \in Typed}

Slots == 0 .. MaxPathNum - 1
NoLine == [kind |-> "blank"]
Interactive == batch = <<>>

(***************************************************************************)
(* Directories.  chdir fails, and changes nothing, if there is no such     *)
(* directory or one may not enter it.                                      *)
(***************************************************************************)
Parent(d) == IF d = <<>> THEN d ELSE SubSeq(d, 1, Len(d) - 1)
Resolve(d, p) ==
    IF p.abs THEN p.to ELSE IF p.to = ".." THEN Parent(d) ELSE Append(d, p.to)
Chdir(d, p) == IF Resolve(d, p) \in Dirs \ Locked THEN Resolve(d, p) ELSE d

\* strncpy(environment.cwd, name, MAX_PATH): a name that does not fit is cut.
Stored(p) == IF p \in TooLong THEN Cut ELSE p

\* Where chdir(environment->cwd) may lead: what the beginning of a name and the
\* bytes behind the array name is not known.
Reached(d, p) == IF p = Cut THEN {d} \cup (Dirs \ Locked) ELSE {Chdir(d, p)}

(***************************************************************************)
(* environment.paths: a slot never written, a directory name, the empty    *)
(* string that ends the list, or a string that has been freed.             *)
(***************************************************************************)
SlotState == {"unset", "dir", "end", "freed"}

\* The slots a walk up to the first empty string goes over.
Walked(p) == {i \in Slots : \A j \in 0 .. i - 1 : p[j] = "dir"}
\* Such a walk reads no freed or unset slot and does end.
WellFormed(p) == \E i \in Walked(p) : p[i] = "end"

\* path: free every directory, then write num new ones and an empty string.
Freed(p) == [i \in Slots |-> IF i \in Walked(p) /\ p[i] = "dir" THEN "freed" ELSE p[i]]
NoTerminator(p, num) == [i \in Slots |-> IF i < num THEN "dir" ELSE Freed(p)[i]]
NewPaths(p, num) ==
    [i \in Slots |-> IF i < num THEN "dir" ELSE IF i = num THEN "end" ELSE Freed(p)[i]]

(***************************************************************************)
(* Reading.                                                                *)
(***************************************************************************)
\* getline on the batch file: refill an empty buffer from the offset.
Refill == IF fbuf # <<>> THEN fbuf
          ELSE [i \in 1 .. (IF Len(batch) - offset < BufLines
                            THEN Len(batch) - offset ELSE BufLines) |-> offset + i]
OffsetAfter == IF fbuf # <<>> THEN offset ELSE offset + Len(Refill)

\* getNextLine: the next line of the batch file, whatever it holds; a line that
\* is only a newline is not the end.
BlankEnds(n) == n \in 1 .. Len(batch) /\ batch[n].text # <<Newline>>
HasLine(n) == n \in 1 .. Len(batch)
MoreLines == Refill # <<>> /\ HasLine(Head(Refill))

BatchLine ==
    /\ pc = "read" /\ ~Interactive
    /\ MoreLines
    /\ offset' = OffsetAfter
    /\ fbuf' = Tail(Refill)
    /\ cur' = batch[Head(Refill)].line
    /\ last' = Head(Refill)
    /\ ordered' = (ordered /\ Head(Refill) = last + 1)
    /\ pc' = "run"
    /\ UNCHANGED <<batch, paths, env_cwd, cwd, typed, plain, failed>>

\* The end of the batch file ends the loop.
EofRetry ==
    /\ pc = "read" /\ ~Interactive
    /\ ~MoreLines
    /\ UNCHANGED vars

BatchEof ==
    /\ pc = "read" /\ ~Interactive
    /\ ~MoreLines
    /\ pc' = "exited"
    /\ UNCHANGED <<batch, offset, fbuf, cur, paths, env_cwd, cwd, last, ordered, typed, plain, failed>>

\* A line from the terminal; at its end of file getNextLine tries again, for
\* ever, so there is no step for it.
TypedLine(l) ==
    /\ pc = "read" /\ Interactive /\ typed < MaxLines
    /\ cur' = l.line /\ typed' = typed + 1
    /\ pc' = "run"
    /\ UNCHANGED <<batch, offset, fbuf, paths, env_cwd, cwd, last, ordered, plain, failed>>

(***************************************************************************)
(* Running a line.                                                         *)
(***************************************************************************)
Exit ==
    /\ pc = "run" /\ cur.kind = "exit"
    /\ pc' = "exited"
    /\ UNCHANGED <<batch, offset, fbuf, cur, paths, env_cwd, cwd, last, ordered, typed, plain, failed>>

Help ==
    /\ pc = "run" /\ cur.kind = "help"
    /\ pc' = "read"
    /\ UNCHANGED <<batch, offset, fbuf, cur, paths, env_cwd, cwd, last, ordered, typed, plain, failed>>

\* A walk over slots that are freed or unset is undefined.
PathCommand ==
    /\ pc = "run" /\ cur.kind = "path"
    /\ IF WellFormed(paths)
       THEN pc' = "read" /\ paths' = NewPaths(paths, cur.num)
       ELSE pc' = "crashed" /\ UNCHANGED paths
    /\ UNCHANGED <<batch, offset, fbuf, cur, env_cwd, cwd, last, ordered, typed, plain, failed>>

\* opendir decides; the name is stored as far as it fits, and chdir, which gets
\* the whole name, may still fail.
AnyName(p) == TRUE
CanOpen(p) == Resolve(cwd, p) \in Dirs

CdCommand ==
    /\ pc = "run" /\ cur.kind = "cd"
    /\ IF CanOpen(cur.dir)
       THEN /\ env_cwd' = Stored(cur.dir)
            /\ cwd' = Chdir(cwd, cur.dir)
            /\ plain' = (plain /\ cur.dir.abs /\ cur.dir.to \notin Locked
                            /\ cur.dir \notin TooLong)
       ELSE UNCHANGED <<env_cwd, cwd, plain>>
    /\ pc' = "read"
    /\ UNCHANGED <<batch, offset, fbuf, cur, paths, last, ordered, typed, failed>>

\* The memory behind an array was written, or a buffer read that nothing was
\* written to: nothing is known of the shell, or of its child, from here on.
OutOfBounds ==
    /\ pc = "run" /\ cur.kind = "undefined"
    /\ pc' = "undefined"
    /\ UNCHANGED <<batch, offset, fbuf, cur, paths, env_cwd, cwd, last, ordered, typed, plain, failed>>

\* run_command: chdir(environment->cwd), then the children.  The search for a
\* program walks environment.paths.  A child that cannot open what it is to be
\* redirected to or from, or whose exec fails, calls exit, and stdio moves the
\* offset it shares with the shell back over what it has in its copy of the
\* buffer (and leaves it where it is if that is before the start).
SeekBack(children) ==
    LET unread == Len(fbuf)
        most   == IF unread = 0 THEN 0 ELSE offset \div unread
    IN  offset - unread * (IF children < most THEN children ELSE most)

Runs(p) == p.argv[1][1] \in Programs /\ {p.in, p.out} \subseteq Files \cup {None}

Failing(l) ==       \* the children of a line that do not get to run a program
    IF l.kind # "command" THEN {}
    ELSE {c \in UNION {{n} \X DOMAIN l.parts[n] : n \in DOMAIN l.parts} :
             ~Runs(l.parts[c[1]][c[2]])}

OneMore(n) == IF n < 2 THEN n + 1 ELSE n

Command ==
    /\ pc = "run" /\ cur.kind \in {"command", "blank"}
    /\ IF cur.kind = "command" /\ ~WellFormed(paths)
       THEN pc' = "crashed" /\ UNCHANGED <<offset, cwd, failed>>
       ELSE /\ cwd' \in Reached(cwd, env_cwd)
            /\ offset' = SeekBack(Cardinality(Failing(cur)))
            /\ failed' = IF Failing(cur) # {} THEN OneMore(failed) ELSE failed
            /\ pc' = "read"
    /\ UNCHANGED <<batch, fbuf, cur, paths, env_cwd, last, ordered, typed, plain>>

\* A fork for a command outside pipelines fails in run_processes: the shell exits.
ForkFails ==
    /\ pc = "run" /\ cur.kind = "command" /\ WellFormed(paths)
    /\ \E n \in DOMAIN cur.parts : Len(cur.parts[n]) = 1
    /\ cwd' \in Reached(cwd, env_cwd)
    /\ failed' = OneMore(failed)
    /\ pc' = "exited"
    /\ UNCHANGED <<batch, offset, fbuf, cur, paths, env_cwd, last, ordered, typed, plain>>

Done == pc \in {"exited", "crashed", "undefined"} /\ UNCHANGED vars

\* The user types no more.
Idle == pc = "read" /\ Interactive /\ typed = MaxLines /\ UNCHANGED vars

(***************************************************************************)
(* The specification.                                                      *)
(***************************************************************************)
\* getcwd is told that environment.cwd has MAX_CWD characters, and writes a name
\* that is too long over what lies behind it; where that does no harm, setting
\* path_set_by_user, which comes next, cuts it.
Init ==
    /\ offset = 0 /\ fbuf = <<>> /\ cur = NoLine
    /\ batch \in {[k \in DOMAIN b |-> LineOf(b[k])] : b \in Batches}
    /\ paths = [i \in Slots |-> IF i = 0 THEN "dir" ELSE IF i = 1 THEN "end" ELSE "unset"]
    /\ cwd \in Dirs \ Locked
    /\ env_cwd = Stored([abs |-> TRUE, to |-> cwd])
    /\ plain = ([abs |-> TRUE, to |-> cwd] \notin TooLong)
    /\ pc \in IF plain THEN {"read"} ELSE {"read", "undefined"}
    /\ last = 0 /\ ordered = TRUE /\ typed = 0 /\ failed = 0

Work == BatchLine \/ BatchEof \/ Exit \/ Help \/ PathCommand \/ CdCommand \/ Command
        \/ OutOfBounds

Next == Work \/ ForkFails \/ (\E l \in TypedLines : TypedLine(l)) \/ Done \/ Idle

Spec == Init /\ [][Next]_vars
FairSpec == Spec /\ WF_vars(Work)

(***************************************************************************)
(* Properties.                                                             *)
(***************************************************************************)
\* Every variable has its type.
TypeOK ==
    /\ pc \in {"read", "run", "exited", "crashed", "undefined"}
    /\ cur \in Line
    /\ offset \in 0 .. Len(batch)
    /\ paths \in [Slots -> SlotState]
    /\ env_cwd \in Path \cup {Cut}
    /\ cwd \in Dirs \ Locked
    /\ failed \in 0 .. 2 /\ typed \in 0 .. MaxLines

\* However often path is used, with fewer or more directories than before, the
\* list ends in an empty string with no freed or unset slot before it: the next
\* path frees nothing twice and the next search reads nothing freed.
PathsWellFormed == WellFormed(paths) /\ pc # "crashed"

\* As long as the shell was started in a directory, and every cd was to an
\* absolute path, whose name fits environment.cwd (it has less than MAX_PATH
\* characters) and that may be entered, the prompt names the directory the shell
\* is in, and run_command's chdir leaves it there.
CwdAgrees == plain => Resolve(cwd, env_cwd) = cwd

\* As long as every command of a batch could be forked, redirected and executed
\* (run_process, run_processes), its lines are run from the first on, each once;
\* and the loop stops early at an exit only.
BatchOnce ==
    /\ TypeOK
    /\ ~Interactive /\ failed = 0 =>
        /\ ordered
        /\ pc = "exited" => last = Len(batch) \/ cur.kind = "exit"

\* A plain line, from a batch file or typed, is taken for what its words say,
\* whatever blanks stand between them: a built-in command with its arguments, or
\* commands with arguments and redirections, in parallel and in pipelines; and
\* as long as no command has MAX_ARGUMENTS_NUM arguments, no line as many parts
\* between &, and no path command MAX_PATH_NUM directories, none runs over argv,
\* single_commands or environment.paths (clean, parse_command, handle_pipe,
\* handle_redirection).
LineUnderstood ==
    [][ /\ BatchLine /\ Plain(batch[last'].text) => cur' = Intended(batch[last'].text)
        /\ \A l \in TypedLines : TypedLine(l) /\ Plain(l.text) => cur' = Intended(l.text) ]_vars

\* A batch comes to its end although a child that fails moves the offset back
\* under the shell: the lines read again are at some time all read.  This is said
\* of the batches of the run, with one failing command at most; with two the lines
\* from one to the other can be run for ever.
BatchEnds == batch # <<>> ~> pc \in {"exited", "undefined"}

=============================================================================
