-------------------------- MODULE SeushLoopProofs --------------------------
(***************************************************************************)
(* Theorems about SeushLoop, for any directories, any lines, and any size  *)
(* of environment.paths.                                                   *)
(***************************************************************************)
EXTENDS SeushLoop, FiniteSetTheorems, TLAPS

\* What path writes is well formed whatever was there before: it ends in the
\* new empty string, below which all slots are new.
LEMMA NewPathsWellFormed ==
    ASSUME NEW p, NEW num \in Slots
    PROVE  WellFormed(NewPaths(p, num))
<1>1. \A i \in Slots : i < num => NewPaths(p, num)[i] = "dir"
  BY DEF NewPaths
<1>2. NewPaths(p, num)[num] = "end"
  BY LoopAssumption DEF NewPaths, Slots
<1>3. num \in Walked(NewPaths(p, num))
  BY <1>1, LoopAssumption DEF Walked, Slots
<1> QED
  BY <1>2, <1>3 DEF WellFormed

LEMMA FirstPathsWellFormed ==
    WellFormed([i \in Slots |-> IF i = 0 THEN "dir" ELSE IF i = 1 THEN "end" ELSE "unset"])
<1> DEFINE p == [i \in Slots |-> IF i = 0 THEN "dir" ELSE IF i = 1 THEN "end" ELSE "unset"]
<1>1. 0 \in Slots /\ 1 \in Slots
  BY LoopAssumption DEF Slots
<1>2. p[0] = "dir" /\ p[1] = "end"
  BY <1>1
<1> HIDE DEF p
<1>3. 1 \in Walked(p)
  <2>1. \A j \in 0 .. 1 - 1 : p[j] = "dir"
    BY <1>2
  <2> QED
    BY <1>1, <2>1 DEF Walked
<1>4. WellFormed(p)
  BY <1>2, <1>3 DEF WellFormed
<1> QED
  BY <1>4 DEF p

\* A text with the line it is taken for.
Read == [text : Texts, line : Line]

LEMMA TextIsLine ==
    ASSUME NEW t \in Texts
    PROVE  LineOf(t) \in Read
  BY LoopAssumption DEF LineOf, Read

LEMMA BatchIsRead ==
    ASSUME NEW b \in Batches
    PROVE  [k \in DOMAIN b |-> LineOf(b[k])] \in Seq(Read)
<1>1. b \in Seq(Texts)
  BY LoopAssumption
<1>2. \A k \in DOMAIN b : LineOf(b[k]) \in Read
  BY <1>1, TextIsLine
<1> QED
  BY <1>1, <1>2

(***************************************************************************)
(* The inductive invariant: what the properties say, and that a line being *)
(* run is a line, so that path never has more directories than slots.      *)
(***************************************************************************)
LoopInv ==
    /\ cur \in Line
    /\ batch \in Seq(Read)
    /\ WellFormed(paths) /\ pc # "crashed"
    /\ cwd \in Dirs \ Locked
    /\ plain \in BOOLEAN
    /\ plain => env_cwd.abs = TRUE /\ env_cwd.to = cwd

\* chdir leads to directories one may enter.  A name that is stored as a whole
\* and is that of the directory the shell is in leaves it there.
LEMMA ReachedIn ==
    ASSUME NEW d \in Dirs \ Locked, NEW p
    PROVE  Reached(d, p) \subseteq Dirs \ Locked
  BY DEF Reached, Chdir

LEMMA ReachedSame ==
    ASSUME NEW d \in Dirs \ Locked, NEW p, p.abs = TRUE, p.to = d
    PROVE  Reached(d, p) = {d}
<1>1. p # Cut
  <2>1. Cut.abs = FALSE
    BY DEF Cut
  <2> QED
    BY <2>1
<1>2. Resolve(d, p) = d
  BY DEF Resolve
<1> QED
  BY <1>1, <1>2 DEF Reached, Chdir

LEMMA LoopInit == Init => LoopInv
<1> SUFFICES ASSUME Init PROVE LoopInv
  OBVIOUS
<1>1. cur \in Line
  BY DEF Init, NoLine, Line
<1>2. WellFormed(paths)
  BY FirstPathsWellFormed DEF Init
<1>3. batch \in Seq(Read)
  BY BatchIsRead DEF Init
<1>4. plain \in BOOLEAN /\ (plain => env_cwd.abs = TRUE /\ env_cwd.to = cwd)
  BY DEF Init, Stored
<1>5. pc # "crashed"
  BY DEF Init
<1> QED
  BY <1>1, <1>2, <1>3, <1>4, <1>5 DEF Init, LoopInv

LEMMA LoopStep == LoopInv /\ [Next]_vars => LoopInv'
<1> SUFFICES ASSUME LoopInv, [Next]_vars PROVE LoopInv'
  OBVIOUS
<1> USE DEF LoopInv
<1>1. CASE BatchLine
  <2>1. batch[Head(Refill)] \in Read
    BY <1>1 DEF BatchLine, MoreLines, HasLine
  <2>2. batch[Head(Refill)].line \in Line
    BY <2>1 DEF Read
  <2> QED
    BY <1>1, <2>2 DEF BatchLine
<1>2. CASE BatchEof
  BY <1>2 DEF BatchEof
<1>3. CASE Exit
  BY <1>3 DEF Exit
<1>4. CASE Help
  BY <1>4 DEF Help
<1>5. CASE PathCommand
  <2>1. cur.num \in Slots
    BY <1>5 DEF PathCommand, Line, Slots
  <2>2. pc' = "read" /\ paths' = NewPaths(paths, cur.num)
    BY <1>5 DEF PathCommand
  <2>3. WellFormed(paths')
    BY <2>1, <2>2, NewPathsWellFormed
  <2> QED
    BY <1>5, <2>2, <2>3 DEF PathCommand
<1>6. CASE CdCommand
  <2>1. CASE CanOpen(cur.dir)
    <3>1. cwd' = Chdir(cwd, cur.dir) /\ env_cwd' = Stored(cur.dir)
      BY <1>6, <2>1 DEF CdCommand
    <3>2. plain' = (plain /\ cur.dir.abs /\ cur.dir.to \notin Locked
                       /\ cur.dir \notin TooLong)
      BY <1>6, <2>1 DEF CdCommand
    <3>3. cwd' \in Dirs \ Locked
      BY <3>1 DEF Chdir
    <3>4. cur.dir \in Path
      BY <1>6 DEF CdCommand, Line
    <3>5. cur.dir.abs \in BOOLEAN
      BY <3>4 DEF Path, AbsPath, RelPath
    <3>6. plain' => cur.dir.abs = TRUE /\ cur.dir.to = cwd'
      BY <2>1, <3>1, <3>2, <3>5 DEF CanOpen, Resolve, Chdir
    <3>7. plain' => env_cwd' = cur.dir
      BY <3>1, <3>2 DEF Stored
    <3> QED
      BY <1>6, <3>1, <3>2, <3>3, <3>6, <3>7 DEF CdCommand
  <2>2. CASE ~CanOpen(cur.dir)
    BY <1>6, <2>2 DEF CdCommand
  <2> QED
    BY <2>1, <2>2
<1>7. CASE Command
  <2>1. pc' = "read" /\ cwd' \in Reached(cwd, env_cwd)
    BY <1>7 DEF Command
  <2>2. cwd' \in Dirs \ Locked
    BY <2>1, ReachedIn
  <2>3. ASSUME plain PROVE cwd' = cwd
    <3>1. cwd \in Dirs \ Locked /\ env_cwd.abs = TRUE /\ env_cwd.to = cwd
      BY <2>3
    <3>2. Reached(cwd, env_cwd) = {cwd}
      BY <3>1, ReachedSame
    <3> QED
      BY <2>1, <3>2
  <2> QED
    BY <1>7, <2>1, <2>2, <2>3 DEF Command
<1>8. ASSUME NEW l \in TypedLines, TypedLine(l)
      PROVE  LoopInv'
  <2>1. l.line \in Line
    BY LoopAssumption, TextIsLine DEF TypedLines, Read
  <2> QED
    BY <1>8, <2>1 DEF TypedLine
<1>10. CASE OutOfBounds
  BY <1>10 DEF OutOfBounds
<1>11. CASE ForkFails
  <2>1. pc' = "exited" /\ cwd' \in Reached(cwd, env_cwd)
    BY <1>11 DEF ForkFails
  <2>2. cwd' \in Dirs \ Locked
    BY <2>1, ReachedIn
  <2>3. ASSUME plain PROVE cwd' = cwd
    <3>1. cwd \in Dirs \ Locked /\ env_cwd.abs = TRUE /\ env_cwd.to = cwd
      BY <2>3
    <3>2. Reached(cwd, env_cwd) = {cwd}
      BY <3>1, ReachedSame
    <3> QED
      BY <2>1, <3>2
  <2> QED
    BY <1>11, <2>1, <2>2, <2>3 DEF ForkFails
<1>9. CASE UNCHANGED vars
  BY <1>9 DEF vars
<1> QED
  BY <1>1, <1>2, <1>3, <1>4, <1>5, <1>6, <1>7, <1>8, <1>9, <1>10, <1>11
  DEF Next, Work, Done, Idle

LEMMA LoopAlways == Spec => []LoopInv
<1>1. Init => LoopInv
  BY LoopInit
<1>2. LoopInv /\ [Next]_vars => LoopInv'
  BY LoopStep
<1> QED
  BY <1>1, <1>2, PTL DEF Spec

\* No sequence of path commands makes the loop or a search touch a slot of
\* environment.paths that is freed or was never set.
THEOREM PathsStayWellFormed == Spec => []PathsWellFormed
<1>1. LoopInv => PathsWellFormed
  BY DEF LoopInv, PathsWellFormed
<1> QED
  BY <1>1, LoopAlways, PTL

\* Whatever the directories and the names of them that are too long: as long as
\* the shell starts in a directory, and is told with absolute paths to go to ones
\* it may enter, whose names all fit environment.cwd, that names the working
\* directory, and the chdir of no command leads away from it.
THEOREM CwdStaysInStep == Spec => []CwdAgrees
<1>1. LoopInv => CwdAgrees
  BY DEF LoopInv, CwdAgrees, Resolve
<1> QED
  BY <1>1, LoopAlways, PTL

(***************************************************************************)
(* Reading a batch file.                                                   *)
(***************************************************************************)
LEMMA DivBelow ==
    ASSUME NEW a \in Nat, NEW b \in Nat \ {0}
    PROVE  a \div b \in Nat /\ b * (a \div b) <= a
  OBVIOUS

LEMMA Times ==
    ASSUME NEW b \in Nat, NEW k \in Nat, NEW m \in Nat, k <= m
    PROVE  b * k \in Nat /\ b * k <= b * m /\ b * m \in Nat
  OBVIOUS

\* The children of a line are finitely many.
LEMMA FailingFinite ==
    ASSUME NEW l \in Line
    PROVE  IsFiniteSet(Failing(l)) /\ Cardinality(Failing(l)) \in Nat
<1>1. CASE l.kind # "command"
  BY <1>1, FS_EmptySet DEF Failing
<1>2. CASE l.kind = "command"
  <2>1. l.parts \in Seq(Seq(Process))
    BY <1>2 DEF Line
  <2> DEFINE p == l.parts
             f == [n \in DOMAIN p |-> {n} \X DOMAIN p[n]]
             T == {{n} \X DOMAIN p[n] : n \in DOMAIN p}
  <2>2. IsFiniteSet(DOMAIN p)
    <3>1. DOMAIN p = 1 .. Len(p) /\ Len(p) \in Nat
      BY <2>1
    <3> QED
      BY <3>1, FS_Interval
  <2>3. \A n \in DOMAIN p : IsFiniteSet({n} \X DOMAIN p[n])
    <3> TAKE n \in DOMAIN p
    <3>1. p[n] \in Seq(Process)
      BY <2>1
    <3>2. DOMAIN p[n] = 1 .. Len(p[n]) /\ Len(p[n]) \in Nat
      BY <3>1
    <3>3. IsFiniteSet(DOMAIN p[n])
      BY <3>2, FS_Interval
    <3>4. IsFiniteSet({n})
      BY FS_Singleton
    <3> QED
      BY <3>3, <3>4, FS_Product
  <2>4. f \in Surjection(DOMAIN p, T)
    BY DEF Surjection
  <2>5. IsFiniteSet(T)
    BY <2>2, <2>4, FS_Surjection
  <2>6. IsFiniteSet(UNION T)
    BY <2>3, <2>5, FS_UNION
  <2>7. Failing(l) \subseteq UNION T
    BY <1>2 DEF Failing
  <2> QED
    BY <2>6, <2>7, FS_Subset, FS_CardinalityType
<1> QED
  BY <1>1, <1>2

(***************************************************************************)
(* What is read of the batch file: the buffer holds numbers of its lines;  *)
(* as long as no child has moved the offset they are the ones after the    *)
(* last that was run, up to the offset.                                    *)
(***************************************************************************)
InStep ==
    /\ ordered
    /\ last \in Nat /\ last + Len(fbuf) = offset
    /\ \A i \in 1 .. Len(fbuf) : fbuf[i] = last + i

BatchInv ==
    /\ LoopInv /\ TypeOK
    /\ fbuf \in Seq(1 .. Len(batch))
    /\ ~Interactive /\ failed = 0 =>
        /\ InStep
        /\ pc = "exited" => last = Len(batch) \/ cur.kind = "exit"

LEMMA BatchInit == Init => BatchInv
<1> SUFFICES ASSUME Init PROVE BatchInv
  OBVIOUS
<1>1. LoopInv
  BY LoopInit
<1>2. Len(batch) \in Nat
  BY <1>1 DEF LoopInv
<1>3. paths \in [Slots -> SlotState]
  BY DEF Init, SlotState
<1>4. env_cwd \in Path \cup {Cut}
  BY LoopAssumption DEF Init, Path, AbsPath, Stored
<1>5. TypeOK
  BY <1>1, <1>2, <1>3, <1>4, LoopAssumption DEF Init, TypeOK, LoopInv
<1> QED
  BY <1>1, <1>5 DEF Init, BatchInv, InStep

\* A step that leaves the file and the count of failures alone.
BatchSame == UNCHANGED <<batch, offset, fbuf, last, ordered, failed>>

LEMMA BatchFrame ==
    ASSUME BatchInv, BatchSame, LoopInv', TypeOK',
           pc' = "exited" => (~Interactive /\ failed = 0 => last = Len(batch) \/ cur'.kind = "exit")
    PROVE  BatchInv'
  BY DEF BatchInv, BatchSame, InStep, Interactive

\* What getline finds in the buffer, or fills it with.
LEMMA RefillGives ==
    ASSUME BatchInv, ~Interactive
    PROVE  /\ Refill \in Seq(1 .. Len(batch))
           /\ OffsetAfter \in 0 .. Len(batch)
           /\ failed = 0 => /\ last + Len(Refill) = OffsetAfter
                            /\ \A i \in 1 .. Len(Refill) : Refill[i] = last + i
           /\ Refill = <<>> => fbuf = <<>> /\ offset = Len(batch)
<1>1. Len(batch) \in Nat /\ offset \in 0 .. Len(batch)
  BY DEF BatchInv, LoopInv, TypeOK
<1>2. CASE fbuf # <<>>
  BY <1>1, <1>2 DEF Refill, OffsetAfter, BatchInv, InStep
<1>3. CASE fbuf = <<>>
  <2> DEFINE n == IF Len(batch) - offset < BufLines THEN Len(batch) - offset ELSE BufLines
             r == [i \in 1 .. n |-> offset + i]
  <2>1. n \in Nat /\ offset + n <= Len(batch) /\ (n = 0 => offset = Len(batch))
    BY <1>1, LoopAssumption
  <2>2. Refill = r
    BY <1>3 DEF Refill
  <2> HIDE DEF n
  <2>3. \A i \in 1 .. n : offset + i \in 1 .. Len(batch)
    BY <1>1, <2>1
  <2>4. r \in Seq(1 .. Len(batch)) /\ Len(r) = n
    BY <2>1, <2>3
  <2>5. OffsetAfter = offset + n
    BY <1>3, <2>2, <2>4 DEF OffsetAfter
  <2>6. r = <<>> => n = 0
    BY <2>4
  <2>7. failed = 0 => last = offset
    BY <1>1, <1>3 DEF BatchInv, InStep
  <2> HIDE DEF r
  <2>8. \A i \in 1 .. Len(r) : r[i] = offset + i
    BY <2>4 DEF r
  <2> QED
    BY <1>1, <1>3, <2>1, <2>2, <2>4, <2>5, <2>6, <2>7, <2>8
<1> QED
  BY <1>2, <1>3

\* Failing children move the offset back, and never before the start.
LEMMA SeekStays ==
    ASSUME BatchInv, NEW k \in Nat
    PROVE  /\ SeekBack(k) \in 0 .. Len(batch)
           /\ k = 0 => SeekBack(k) = offset
<1>1. /\ Len(batch) \in Nat /\ offset \in Nat /\ offset <= Len(batch)
      /\ Len(fbuf) \in Nat
  BY DEF BatchInv, LoopInv, TypeOK
<1> DEFINE most == IF Len(fbuf) = 0 THEN 0 ELSE offset \div Len(fbuf)
           n == IF k < most THEN k ELSE most
<1>2. most \in Nat /\ Len(fbuf) * most <= offset
  <2>1. CASE Len(fbuf) = 0
    BY <1>1, <2>1
  <2>2. CASE Len(fbuf) # 0
    BY <1>1, <2>2, DivBelow
  <2> QED
    BY <2>1, <2>2
<1>3. SeekBack(k) = offset - Len(fbuf) * n
  BY DEF SeekBack
<1> HIDE DEF most
<1>4. n \in Nat /\ n <= most /\ (k = 0 => n = 0)
  BY <1>2
<1> HIDE DEF n
<1>5. Len(fbuf) * n \in Nat /\ Len(fbuf) * n <= Len(fbuf) * most /\ Len(fbuf) * most \in Nat
  BY <1>1, <1>2, <1>4, Times
<1>6. n = 0 => Len(fbuf) * n = 0
  BY <1>1
<1> QED
  BY <1>1, <1>2, <1>3, <1>4, <1>5, <1>6

LEMMA BatchStep == BatchInv /\ [Next]_vars => BatchInv'
<1> SUFFICES ASSUME BatchInv, [Next]_vars PROVE BatchInv'
  OBVIOUS
<1>0. LoopInv'
  BY LoopStep DEF BatchInv
<1>1. CASE BatchLine
  <2>1. ~Interactive /\ Refill # <<>>
    BY <1>1 DEF BatchLine, MoreLines
  <2> PICK r : r = Refill
    OBVIOUS
  <2>2. /\ r \in Seq(1 .. Len(batch)) /\ r # <<>>
        /\ OffsetAfter \in 0 .. Len(batch)
        /\ failed = 0 => /\ last + Len(r) = OffsetAfter
                         /\ \A i \in 1 .. Len(r) : r[i] = last + i
    BY <2>1, RefillGives
  <2>3. /\ offset' = OffsetAfter /\ fbuf' = Tail(r) /\ last' = Head(r)
        /\ ordered' = (ordered /\ Head(r) = last + 1)
        /\ pc' = "run"
        /\ UNCHANGED <<batch, paths, env_cwd, cwd, typed, plain, failed>>
    BY <1>1 DEF BatchLine
  <2>4. fbuf' \in Seq(1 .. Len(batch)) /\ Len(fbuf') = Len(r) - 1
    BY <2>2, <2>3
  <2>5. TypeOK'
    BY <1>0, <2>2, <2>3 DEF TypeOK, BatchInv, LoopInv
  <2>6. ASSUME failed = 0 PROVE InStep'
    <3>1. Head(r) = last + 1 /\ Len(r) \in Nat /\ Len(r) >= 1 /\ last \in Nat
      BY <2>1, <2>2, <2>6 DEF BatchInv, InStep
    <3>2. ordered
      BY <2>1, <2>6 DEF BatchInv, InStep
    <3>3. \A i \in 1 .. Len(fbuf') : fbuf'[i] = r[i + 1]
      BY <2>2, <2>3
    <3>4. last' + Len(fbuf') = offset'
      BY <2>2, <2>3, <2>4, <2>6, <3>1
    <3>5. \A i \in 1 .. Len(fbuf') : fbuf'[i] = last' + i
      BY <2>2, <2>3, <2>4, <2>6, <3>1, <3>3
    <3>6. Head(r) = last + 1
      BY <3>1
    <3>7. ordered'
      BY <2>3, <3>2, <3>6, Zenon
    <3>8. last' \in Nat
      BY <2>3, <3>1
    <3> QED
      BY <3>4, <3>5, <3>7, <3>8 DEF InStep
  <2> QED
    BY <1>0, <2>3, <2>4, <2>5, <2>6 DEF BatchInv
<1>2. CASE BatchEof
  <2>1. failed = 0 => last = Len(batch)
    <3>1. ~Interactive /\ ~MoreLines
      BY <1>2 DEF BatchEof
    <3>2. Refill \in Seq(1 .. Len(batch))
      BY <3>1, RefillGives
    <3>3. Refill = <<>>
      BY <3>1, <3>2 DEF MoreLines, HasLine
    <3>4. fbuf = <<>> /\ offset = Len(batch)
      BY <3>1, <3>3, RefillGives
    <3> QED
      BY <3>1, <3>4 DEF BatchInv, InStep
  <2>2. TypeOK'
    BY <1>2 DEF BatchEof, BatchInv, TypeOK
  <2> QED
    BY <1>0, <1>2, <2>1, <2>2, BatchFrame DEF BatchEof, BatchSame
<1>3. CASE Exit
  <2>1. TypeOK'
    BY <1>3 DEF Exit, BatchInv, TypeOK
  <2> QED
    BY <1>0, <1>3, <2>1, BatchFrame DEF Exit, BatchSame
<1>4. CASE Help
  <2>1. TypeOK'
    BY <1>4 DEF Help, BatchInv, TypeOK
  <2> QED
    BY <1>0, <1>4, <2>1, BatchFrame DEF Help, BatchSame
<1>5. CASE PathCommand
  <2>1. pc' = "read" /\ paths' = NewPaths(paths, cur.num)
    BY <1>5 DEF PathCommand, BatchInv, LoopInv
  <2>2. paths \in [Slots -> SlotState]
    BY DEF BatchInv, TypeOK
  <2>3. paths' \in [Slots -> SlotState]
    BY <2>1, <2>2 DEF NewPaths, Freed, SlotState
  <2>4. TypeOK'
    BY <1>5, <2>1, <2>3 DEF PathCommand, BatchInv, TypeOK
  <2> QED
    BY <1>0, <1>5, <2>1, <2>4, BatchFrame DEF PathCommand, BatchSame
<1>6. CASE CdCommand
  <2>1. cur.dir \in Path
    BY <1>6 DEF CdCommand, Line, BatchInv, LoopInv
  <2>2. env_cwd' \in Path \cup {Cut}
    BY <1>6, <2>1 DEF CdCommand, BatchInv, TypeOK, Stored
  <2>3. TypeOK'
    BY <1>0, <1>6, <2>2 DEF CdCommand, BatchInv, TypeOK, LoopInv
  <2> QED
    BY <1>0, <1>6, <2>3, BatchFrame DEF CdCommand, BatchSame
<1>7. CASE Command
  <2>1. PICK k : k = Cardinality(Failing(cur))
    OBVIOUS
  <2>2. k \in Nat /\ IsFiniteSet(Failing(cur))
    BY <2>1, FailingFinite DEF BatchInv, LoopInv
  <2>3. Failing(cur) = {} => k = 0
    BY <2>1, FS_EmptySet
  <2>4. /\ pc' = "read" /\ offset' = SeekBack(k)
        /\ failed' = IF Failing(cur) # {} THEN OneMore(failed) ELSE failed
        /\ UNCHANGED <<batch, fbuf, cur, paths, env_cwd, last, ordered, typed, plain>>
    BY <1>7, <2>1 DEF Command, BatchInv, LoopInv
  <2>5. failed \in 0 .. 2
    BY DEF BatchInv, TypeOK
  <2>6. failed' \in 0 .. 2 /\ (failed' = 0 => failed = 0 /\ Failing(cur) = {})
    BY <2>4, <2>5 DEF OneMore
  <2>7. offset' \in 0 .. Len(batch) /\ (failed' = 0 => offset' = offset)
    BY <2>2, <2>3, <2>4, <2>6, SeekStays
  <2>8. TypeOK'
    BY <1>0, <2>4, <2>6, <2>7 DEF BatchInv, TypeOK, LoopInv
  <2> QED
    BY <1>0, <2>4, <2>6, <2>7, <2>8 DEF BatchInv, InStep, Interactive
<1>8. ASSUME NEW l \in TypedLines, TypedLine(l)
      PROVE  BatchInv'
  <2>1. TypeOK'
    BY <1>0, <1>8, LoopAssumption DEF TypedLine, BatchInv, TypeOK, LoopInv
  <2> QED
    BY <1>0, <1>8, <2>1, BatchFrame DEF TypedLine, BatchSame
<1>9. CASE OutOfBounds
  <2>1. TypeOK'
    BY <1>9 DEF OutOfBounds, BatchInv, TypeOK
  <2> QED
    BY <1>0, <1>9, <2>1, BatchFrame DEF OutOfBounds, BatchSame
<1>11. CASE ForkFails
  <2>1. /\ pc' = "exited" /\ failed' = OneMore(failed)
        /\ UNCHANGED <<batch, offset, fbuf, cur, paths, env_cwd, last, ordered, typed, plain>>
    BY <1>11 DEF ForkFails
  <2>2. failed \in 0 .. 2
    BY DEF BatchInv, TypeOK
  <2>3. failed' \in 1 .. 2
    BY <2>1, <2>2 DEF OneMore
  <2>4. TypeOK'
    BY <1>0, <2>1, <2>3 DEF BatchInv, TypeOK, LoopInv
  <2> QED
    BY <1>0, <2>1, <2>3, <2>4 DEF BatchInv
<1>10. CASE UNCHANGED vars
  <2>1. TypeOK'
    BY <1>10 DEF vars, BatchInv, TypeOK
  <2> QED
    BY <1>0, <1>10, <2>1 DEF vars, BatchInv, InStep, Interactive
<1> QED
  BY <1>1, <1>2, <1>3, <1>4, <1>5, <1>6, <1>7, <1>8, <1>9, <1>10, <1>11
  DEF Next, Work, Done, Idle

\* A batch file of any length, read through a buffer of any size, is run line
\* by line from the first on, each once, as long as every command could be
\* forked, redirected and executed; the loop ends at the end of the file or at an exit.
THEOREM BatchRunsOnce == Spec => []BatchOnce
<1>1. Init => BatchInv
  BY BatchInit
<1>2. BatchInv /\ [Next]_vars => BatchInv'
  BY BatchStep
<1>3. BatchInv => BatchOnce
  BY DEF BatchInv, BatchOnce, InStep
<1> QED
  BY <1>1, <1>2, <1>3, PTL DEF Spec
=============================================================================
