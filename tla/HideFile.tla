------------------------------ MODULE HideFile ------------------------------
(***************************************************************************)
(* The text side of the two files the patch adds: what a program that      *)
(* reads /proc/hide or /proc/hidden_process to the end is given, and what  *)
(* a program that writes a number to /proc/hide stores                     *)
(* (fs/proc/hide.c, fs/proc/hidden_process.c).                             *)
(*                                                                         *)
(* Neither read handler looks at the size of the caller's buffer.  Each    *)
(* makes its whole text, copies it out, adds its length to the position    *)
(* and reports the end of the file once the position is past the length    *)
(* of the text just made, which may differ from the one delivered.  The    *)
(* write handler gives a buffer on its stack to kstrtoint without a        *)
(* terminator: the bytes that follow are whatever the stack holds.         *)
(*                                                                         *)
(* Characters are the digits 0..9 and the four names below; a text is a    *)
(* sequence of them.  Numbers are cut down to MinInt..MaxInt, the buffers  *)
(* to ProcMaxSize and KbufSize characters.                                 *)
(***************************************************************************)
EXTENDS Integers, Sequences, FiniteSets, SequencesExt

CONSTANTS Readers,       \* programs that read until they are told the end
          OpenFile,      \* the open file of a reader; two may share one
          ListFiles,     \* those of them that are /proc/hidden_process
          Writers,       \* programs that write to /proc/hide
          Texts,         \* what a writer may write
          Garbage,       \* what the stack may hold behind the written bytes
          TaskList,      \* the pids of for_each_process, in its order
          ProcMaxSize,   \* PROC_MAX_SIZE
          KbufSize,      \* sizeof(kbuf)
          MinInt, MaxInt,
          MaxFaults,     \* bound: copies to the reader that fault
          MaxHides,      \* bound: calls of hide
          Crowds         \* the readers and writers that act in one behaviour

Files == {OpenFile[r] : r \in Readers}
Pids == ToSet(TaskList)
Newline == 10
Nul == 11
Minus == 12
Space == 13

ASSUME SizesAssumption == ProcMaxSize \in Nat \ {0} /\ KbufSize \in Nat \ {0}

VARIABLES hidden_flag,  \* the variable /proc/hide shows and sets
          cloaked,      \* the pids whose cloak is 1
          ppos,         \* position of each open file
          posLock,      \* f_pos_lock of each open file: its holder or NoOne
          delivered,    \* what the reads of each open file returned, in order
          reader,       \* local state of the readers
          writer,       \* local state of the writers
          faults, hides,
          smashed,      \* kbuf was written past its end
          active        \* one of Crowds, chosen at the start

vars == <<hidden_flag, cloaked, ppos, posLock, delivered, reader, writer,
          faults, hides, smashed, active>>

NoOne == "no one"

(***************************************************************************)
(* Conversions.  Decimal is the digits of %d and %ld; FlagText the text of *)
(* /proc/hide, Entry what is appended to the list for one process.         *)
(***************************************************************************)
Decimal[n \in Nat] ==
    IF n < 10 THEN <<n>> ELSE Append(Decimal[n \div 10], n % 10)

FlagText(n) ==
    (IF n < 0 THEN <<Minus>> \o Decimal[-n] ELSE Decimal[n]) \o <<Newline>>

Entry(p) == Append(Decimal[p], Space)

(***************************************************************************)
(* kstrtoint (a library function): an optional sign, digits, an optional   *)
(* newline, and then the terminator; NoNumber stands for its errors.  Its  *)
(* argument is the memory from the buffer on, which ends in a Nul.         *)
(***************************************************************************)
NoNumber == MaxInt + 1

DigitsAt(s, i) ==       \* the longest run of digits from i on
    LET stop == CHOOSE j \in i .. Len(s) :
                    s[j] \notin 0 .. 9 /\ \A k \in i .. j - 1 : s[k] \in 0 .. 9
    IN  SubSeq(s, i, stop - 1)

kstrtoint(s) ==
    LET first  == IF s[1] = Minus THEN 2 ELSE 1
        digits == DigitsAt(s, first)
        after  == first + Len(digits)
        stop   == IF s[after] = Newline THEN after + 1 ELSE after
        size   == FoldLeft(LAMBDA n, d : 10 * n + d, 0, digits)
        value  == IF first = 2 THEN -size ELSE size
    IN  IF digits # <<>> /\ s[stop] = Nul /\ value \in MinInt .. MaxInt
        THEN value ELSE NoNumber

-----------------------------------------------------------------------------
Idle == [pc |-> "ready", pos |-> 0, rest |-> <<>>, kbuf |-> <<>>,
         always |-> {}, ever |-> {}]

Init ==
    /\ hidden_flag = 1
    /\ cloaked = {}
    /\ ppos = [f \in Files |-> 0]
    /\ posLock = [f \in Files |-> NoOne]
    /\ delivered = [f \in Files |-> <<>>]
    /\ reader = [r \in Readers |-> Idle]
    /\ active \in Crowds
    /\ writer \in [Writers \cap active -> {[pc |-> "write", text |-> t, ret |-> 0,
                                             stored |-> NoNumber] : t \in Texts}]
    /\ faults = 0 /\ hides = 0
    /\ smashed = FALSE

(***************************************************************************)
(* A call of hide by somebody else; HideProc has its steps.  It matters    *)
(* where somebody reads the list.                                          *)
(***************************************************************************)
Hide(p) ==
    /\ hides < MaxHides
    /\ \E r \in Readers \cap active : OpenFile[r] \in ListFiles
    /\ hides' = hides + 1
    /\ cloaked' = (IF p \in cloaked THEN cloaked \ {p} ELSE cloaked \cup {p})
    /\ reader' = [r \in Readers |->
                    IF reader[r].pc # "walk" THEN reader[r]
                    ELSE [reader[r] EXCEPT !.always = @ \cap cloaked',
                                           !.ever = @ \cup cloaked']]
    /\ UNCHANGED <<hidden_flag, ppos, posLock, delivered, writer, faults, smashed>>

(***************************************************************************)
(* read(2) takes the lock of the position, reads the position, calls the   *)
(* handler with a copy of it and stores the copy when the handler returns. *)
(***************************************************************************)
PosFree(f) == posLock[f] = NoOne

(***************************************************************************)
(* The handler's last lines: copy_to_user leaves ret characters uncopied,  *)
(* the position moves by what was copied, and the handler returns 0 if the *)
(* position is now past this text, the length of this text otherwise.  A   *)
(* fault is not reported.                                                  *)
(***************************************************************************)
ReturnsAtEnd(pos, cnt) == IF pos >= cnt THEN 0 ELSE cnt

ReadReturns(pos, cnt) == IF pos > cnt THEN 0 ELSE cnt

CopyOut(r, pos, text) ==
    LET f   == OpenFile[r]
        cnt == Len(text)
    IN \E ret \in 0 .. cnt :
        /\ ret > 0 => faults < MaxFaults
        /\ faults' = IF ret > 0 THEN faults + 1 ELSE faults
        /\ ppos' = [ppos EXCEPT ![f] = pos + (cnt - ret)]
        /\ posLock' = [posLock EXCEPT ![f] = NoOne]
        /\ LET got == ReadReturns(pos + (cnt - ret), cnt)
           IN  /\ delivered' =
                    IF got = 0 THEN delivered
                    ELSE [delivered EXCEPT ![f] = Append(@,
                            [text |-> SubSeq(text, 1, cnt - ret), ret |-> got,
                             always |-> reader[r].always,
                             ever |-> reader[r].ever])]
               /\ reader' = [reader EXCEPT ![r].pc = IF got = 0 THEN "end" ELSE "ready"]

(***************************************************************************)
(* proc_read_hidden: one load of the flag, so one step.                    *)
(***************************************************************************)
proc_read_hidden(r) ==
    /\ OpenFile[r] \notin ListFiles
    /\ reader[r].pc = "ready"
    /\ PosFree(OpenFile[r])
    /\ CopyOut(r, ppos[OpenFile[r]], FlagText(hidden_flag))
    /\ UNCHANGED <<hidden_flag, cloaked, writer, hides, smashed>>

(***************************************************************************)
(* proc_read_hidden_process: the walk, one process a step, and the copy.   *)
(***************************************************************************)
StartList(r) ==
    /\ OpenFile[r] \in ListFiles
    /\ reader[r].pc = "ready"
    /\ PosFree(OpenFile[r])
    /\ posLock' = [posLock EXCEPT ![OpenFile[r]] = r]
    /\ reader' = [reader EXCEPT ![r] =
                    [pc |-> "walk", pos |-> ppos[OpenFile[r]], rest |-> TaskList,
                     kbuf |-> <<>>, always |-> cloaked, ever |-> cloaked]]
    /\ UNCHANGED <<hidden_flag, cloaked, ppos, delivered, writer, faults, hides, smashed>>

Visit(r) ==
    LET p    == Head(reader[r].rest)
        text == reader[r].kbuf \o (IF p \in cloaked THEN Entry(p) ELSE <<>>)
    IN  /\ reader[r].pc = "walk"
        /\ reader[r].rest # <<>>
        /\ reader' = [reader EXCEPT ![r].rest = Tail(@), ![r].kbuf = text]
        /\ smashed' = (Len(text) + 1 > KbufSize)      \* strcat's terminator too
        /\ UNCHANGED <<hidden_flag, cloaked, ppos, posLock, delivered, writer,
                       faults, hides>>

CopyList(r) ==
    /\ reader[r].pc = "walk"
    /\ reader[r].rest = <<>>
    /\ CopyOut(r, reader[r].pos, reader[r].kbuf)
    /\ UNCHANGED <<hidden_flag, cloaked, writer, hides, smashed>>

(***************************************************************************)
(* proc_write_hidden: at most ProcMaxSize characters are taken, kstrtoint  *)
(* reads on into the stack, and the count of those taken is returned.  The *)
(* writer writes the rest of its text, as a stdio stream does, and gives   *)
(* up at an error (-1).                                                    *)
(***************************************************************************)
TakenForNul(count) == IF count >= ProcMaxSize THEN ProcMaxSize - 1 ELSE count

Taken(count) == IF count > ProcMaxSize THEN ProcMaxSize ELSE count

proc_write_hidden(w) ==
    LET count == Taken(Len(writer[w].text) - writer[w].ret)
        temp  == SubSeq(writer[w].text, writer[w].ret + 1, writer[w].ret + count)
    IN  /\ writer[w].pc = "write"
        /\ \E g \in Garbage :
             LET tmp_flag == kstrtoint(temp \o g \o <<Nul>>)
             IN  \/ /\ tmp_flag = NoNumber
                    /\ writer' = [writer EXCEPT ![w].pc = "refused"]
                    /\ UNCHANGED hidden_flag
                 \/ /\ tmp_flag # NoNumber
                    /\ hidden_flag' = tmp_flag
                    /\ writer' = [writer EXCEPT ![w].ret = @ + count,
                                    ![w].stored = tmp_flag,
                                    ![w].pc = IF writer[w].ret + count < Len(writer[w].text)
                                              THEN "write" ELSE "written"]
        /\ UNCHANGED <<cloaked, ppos, posLock, delivered, reader, faults, hides, smashed>>

(***************************************************************************)
(* copy_from_user faults: -EFAULT, before anything is stored.              *)
(***************************************************************************)
WriteFaults(w) ==
    /\ writer[w].pc = "write"
    /\ faults < MaxFaults
    /\ faults' = faults + 1
    /\ writer' = [writer EXCEPT ![w].pc = "refused"]
    /\ UNCHANGED <<hidden_flag, cloaked, ppos, posLock, delivered, reader, hides, smashed>>

\* Nothing can be said of the kernel once kbuf was written past its end.
Next ==
    /\ ~smashed
    /\ UNCHANGED active
    /\ \/ \E p \in Pids : Hide(p)
       \/ \E r \in Readers \cap active : proc_read_hidden(r) \/ StartList(r) \/ Visit(r) \/ CopyList(r)
       \/ \E w \in Writers \cap active : proc_write_hidden(w) \/ WriteFaults(w)

Spec == Init /\ [][Next]_vars

-----------------------------------------------------------------------------
(***************************************************************************)
(* Properties.                                                             *)
(***************************************************************************)
\* Every variable has its type.
TypeOK ==
    /\ hidden_flag \in MinInt .. MaxInt /\ cloaked \subseteq Pids
    /\ ppos \in [Files -> Nat] /\ posLock \in [Files -> Readers \cup {NoOne}]
    /\ \A r \in Readers : /\ reader[r].pc \in {"ready", "walk", "end"}
                          /\ reader[r].always \subseteq reader[r].ever
    /\ faults \in 0 .. MaxFaults /\ hides \in 0 .. MaxHides /\ smashed \in BOOLEAN

ListText(S) == FlattenSeq([i \in 1 .. Len(TaskList) |->
                    IF TaskList[i] \in S THEN Entry(TaskList[i]) ELSE <<>>])

(***************************************************************************)
(* Programs that read one of the files to its end get its text once, all   *)
(* those that share the open file together, although the position is       *)
(* compared with the length of a text made anew at every call: as long as  *)
(* no copy faulted, at most one read of an open file returns anything, the *)
(* end of /proc/hide is never reported before that one, the end of         *)
(* /proc/hidden_process is reported without it only to a reader whose own  *)
(* walk could find nobody hidden throughout, and a list delivered has      *)
(* every process that was hidden during its walk, once, in the order of    *)
(* the task list, and none that was not (hide.c lines 39 to 46,            *)
(* hidden_process.c lines 33 to 50).  kbuf is overrun only when the        *)
(* entries of the processes hidden at some time do not fit into it.        *)
(***************************************************************************)
DeliveredOnce ==
    /\ TypeOK
    /\ faults = 0 =>
         /\ \A f \in Files : Len(delivered[f]) <= 1
         /\ \A f \in ListFiles \cap Files : \A i \in DOMAIN delivered[f] :
              \E S \in SUBSET Pids :
                 /\ delivered[f][i].always \subseteq S
                 /\ S \subseteq delivered[f][i].ever
                 /\ delivered[f][i].text = ListText(S)
         /\ \A r \in Readers :
              reader[r].pc = "end" /\ delivered[OpenFile[r]] = <<>> =>
                 OpenFile[r] \in ListFiles /\ reader[r].kbuf = <<>>
    /\ smashed => \E r \in Readers : Len(ListText(reader[r].ever)) >= KbufSize

(***************************************************************************)
(* A program that writes a number and a newline of at most ProcMaxSize     *)
(* characters to /proc/hide either stores exactly that number or is        *)
(* refused and stores nothing, whatever the stack holds behind the bytes   *)
(* it wrote and whoever else writes (proc_write_hidden); and nothing is    *)
(* accepted that is no number.                                             *)
(***************************************************************************)
WriteExact ==
    \A w \in Writers \cap active :
        LET t == writer[w].text
        IN  Len(t) <= ProcMaxSize /\ t[Len(t)] = Newline =>
              \/ writer[w].stored = NoNumber /\ writer[w].ret = 0
              \/ /\ writer[w].pc = "written" /\ writer[w].ret = Len(t)
                 /\ \E n \in MinInt .. MaxInt, z \in 0 .. ProcMaxSize :
                       /\ writer[w].stored = n
                       /\ t = (IF n < 0 THEN <<Minus>> ELSE <<>>)
                              \o [i \in 1 .. z |-> 0]
                              \o SelectSeq(FlagText(n), LAMBDA c : c # Minus)
=============================================================================
