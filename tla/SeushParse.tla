----------------------------- MODULE SeushParse -----------------------------
(***************************************************************************)
(* How seush takes a line apart: clean (utilities.c), the built-in         *)
(* commands it looks for (loop.c), and the splitting of everything else at *)
(* &, at |, at < and > and at spaces into the arguments of processes       *)
(* (parse_command, handle_pipe and handle_redirection of run_command.c);   *)
(* and, for comparison, what a line means by its words.                    *)
(*                                                                         *)
(* A text is a sequence of characters.  The shell tells apart blanks, the  *)
(* newline and the four signs; a word is one character here, whatever its  *)
(* letters, and two words never stand side by side without a blank or a    *)
(* sign.                                                                   *)
(***************************************************************************)
EXTENDS Integers, Sequences, SequencesExt

CONSTANTS MaxArguments,   \* MAX_ARGUMENTS_NUM
          MaxPathNum,     \* MAX_PATH_NUM
          Names           \* the directory a word names, for some words

Sp == " "
Tab == "tab"
Newline == "nl"
Blanks == {Sp, Tab}
Signs == {"&", "|", "<", ">"}

\* The character at k; behind the last one is the terminator.
Nul == "nul"
At(t, k) == IF k \in 1 .. Len(t) THEN t[k] ELSE Nul

\* The first position from k on with a character outside, or inside, S.
PastAll(t, k, S) ==
    CHOOSE j \in k .. Len(t) + 1 : At(t, j) \notin S /\ \A i \in k .. j - 1 : t[i] \in S
UpTo(t, k, S) ==
    CHOOSE j \in k .. Len(t) + 1 :
        At(t, j) \in S \cup {Nul} /\ \A i \in k .. j - 1 : t[i] \notin S

(***************************************************************************)
(* clean: the line is moved down over itself, character by character; at   *)
(* the first blank of a run i is moved on over the run and back by one.    *)
(* Nothing behind the last character that is no blank is kept.             *)
(***************************************************************************)
CleanStart(t) == [character |-> 1, i |-> PastAll(t, 1, Blanks) - 1,
                  moved |-> <<>>, lastNonSpace |-> 0]

CleanStepPast(t, s) ==
    LET k == s.character + s.i
    IN  IF At(t, k) \in {Nul, Newline} THEN s
        ELSE [character |-> s.character + 1,
              i |-> IF t[k] \in Blanks THEN PastAll(t, k, Blanks) - s.character ELSE s.i,
              moved |-> Append(s.moved, t[k]),
              lastNonSpace |-> IF t[k] \in Blanks THEN s.lastNonSpace ELSE s.character]

CleanStep(t, s) ==
    LET k == s.character + s.i
    IN  IF At(t, k) \in {Nul, Newline} THEN s
        ELSE [character |-> s.character + 1,
              i |-> IF t[k] \in Blanks THEN PastAll(t, k, Blanks) - s.character - 1 ELSE s.i,
              moved |-> Append(s.moved, t[k]),
              lastNonSpace |-> IF t[k] \in Blanks THEN s.lastNonSpace ELSE s.character]

\* A step for each character is enough.
CleanLoop(t) == FoldLeft(LAMBDA s, n : CleanStep(t, s), CleanStart(t), t)

clean(t) == SubSeq(CleanLoop(t).moved, 1, CleanLoop(t).lastNonSpace)

(***************************************************************************)
(* strtok, until it returns NULL: the runs of characters outside S.        *)
(***************************************************************************)
Tokens(t, S) ==
    LET starts == {k \in DOMAIN t : t[k] \notin S /\ (k = 1 \/ t[k - 1] \in S)}
        first  == SetToSortSeq(starts, LAMBDA a, b : a < b)
    IN  [n \in DOMAIN first |-> SubSeq(t, first[n], UpTo(t, first[n], S) - 1)]

(***************************************************************************)
(* sscanf with a pattern of %[^\t\n<>] with signs in between: a conversion *)
(* takes at least one character, spaces too; a blank in the pattern skips  *)
(* any; the scan ends at the first thing that does not fit.  The result is *)
(* the sequence of the strings converted.                                  *)
(***************************************************************************)
Unscanned == {Tab, Newline, "<", ">"}

Convert(t, s) ==
    LET stop == UpTo(t, s.at, Unscanned)
    IN  IF stop = s.at THEN [s EXCEPT !.fits = FALSE]
        ELSE [s EXCEPT !.at = stop, !.got = Append(@, SubSeq(t, s.at, stop - 1))]

Expect(t, s, sign) ==
    LET k == PastAll(t, s.at, Blanks \cup {Newline})
    IN  IF ~s.fits \/ At(t, k) # sign THEN [s EXCEPT !.fits = FALSE]
        ELSE Convert(t, [s EXCEPT !.at = PastAll(t, k + 1, Blanks \cup {Newline})])

sscanf(t, signs) ==
    FoldLeft(LAMBDA s, sign : Expect(t, s, sign),
             Convert(t, [at |-> 1, got |-> <<>>, fits |-> TRUE]), signs).got

(***************************************************************************)
(* The first part of handle_redirection: the four patterns, in the order   *)
(* they are tried.  A command that starts with < or > matches none of them *)
(* and leaves the buffer of the command uninitialized.                     *)
(***************************************************************************)
None == <<>>
Undefined == [argv |-> None, in |-> None, out |-> None]

Redirections(t) ==
    LET outin == sscanf(t, <<">", "<">>)
        inout == sscanf(t, <<"<", ">">>)
        in    == sscanf(t, <<"<">>)
        out   == sscanf(t, <<">">>)
    IN  IF Len(outin) = 3 THEN [argv |-> outin[1], in |-> outin[3], out |-> outin[2]]
        ELSE IF Len(inout) = 3 THEN [argv |-> inout[1], in |-> inout[2], out |-> inout[3]]
        ELSE IF Len(in) = 2 THEN [argv |-> in[1], in |-> in[2], out |-> None]
        ELSE IF Len(out) = 2 THEN [argv |-> out[1], in |-> None, out |-> out[2]]
        ELSE [argv |-> out[1], in |-> None, out |-> None]

\* The rest: the command is cleaned and split at spaces into argv, which has
\* MaxArguments slots and needs one of them for the NULL at its end.
handle_redirection(t) ==
    IF t = <<>> \/ t[1] \in Unscanned THEN Undefined
    ELSE LET r    == Redirections(t)
             argv == Tokens(clean(r.argv), {Sp})
         IN  IF Len(argv) >= MaxArguments THEN Undefined ELSE [r EXCEPT !.argv = argv]

(***************************************************************************)
(* handle_pipe: the line up to the next |, cleaned, is a stage, and the    *)
(* rest, cleaned, is handled in the same way until strtok finds nothing in *)
(* it.  strtok skips any | the rest starts with, so that one blank stage   *)
(* behind a | is passed over, and at the end returns NULL for blank ones.  *)
(***************************************************************************)
PipeStep(s) ==
    LET first == PastAll(s.rest, 1, {"|"})
        stop  == UpTo(s.rest, first, {"|"})
    IN  IF first > Len(s.rest) THEN s
        ELSE [stages |-> Append(s.stages, clean(SubSeq(s.rest, first, stop - 1))),
              rest |-> clean(SubSeq(s.rest, stop + 1, Len(s.rest)))]

\* A call for each character is enough.
handle_pipe(t) ==
    FoldLeft(LAMBDA s, n : PipeStep(s), [stages |-> <<>>, rest |-> t], t).stages

(***************************************************************************)
(* parse_command: the parts between & fill single_commands, which has      *)
(* MaxArguments slots and needs one of them for the NULL at its end; then  *)
(* the blank ones are left out, and each other one is taken apart into its *)
(* stages.  (process[] has MAX_PIDS slots, which are more than there can   *)
(* be parts.)                                                              *)
(***************************************************************************)
parse_command(t) ==
    LET single_commands == Tokens(t, {"&"})
        parts == SelectSeq(single_commands, LAMBDA p : clean(p) # <<>>)
    IN  IF Len(single_commands) >= MaxArguments THEN <<<<Undefined>>>>
        ELSE [n \in DOMAIN parts |->
                LET stages == handle_pipe(parts[n])
                IN  [m \in DOMAIN stages |-> handle_redirection(stages[m])]]

(***************************************************************************)
(* The built-in commands of run_shell, which looks for them in the cleaned *)
(* line.  A path list that is too long, too many arguments or parts, and a *)
(* command that starts with a redirection leave what follows undefined.    *)
(***************************************************************************)
NoSuchName == [abs |-> FALSE, to |-> "no such name"]
Named(w) == IF Len(w) = 1 /\ w[1] \in DOMAIN Names THEN Names[w[1]] ELSE NoSuchName

Meaning(text) ==
    LET t     == clean(text)
        dirs  == Tokens(SubSeq(t, 2, Len(t)), {Sp})
        parts == parse_command(t)
    IN  CASE t = <<"exit">> -> [kind |-> "exit"]
          [] t = <<"help">> -> [kind |-> "help"]
          [] At(t, 1) = "path" /\ At(t, 2) \in {Nul, Sp} ->
               IF Len(dirs) < MaxPathNum THEN [kind |-> "path", num |-> Len(dirs)]
               ELSE [kind |-> "undefined"]
          [] At(t, 1) = "cd" /\ At(t, 2) = Sp ->
               [kind |-> "cd", dir |-> Named(SubSeq(t, 3, Len(t)))]
          [] OTHER ->
               IF parts = <<>> THEN [kind |-> "blank"]
               ELSE IF \E n \in DOMAIN parts : \E m \in DOMAIN parts[n] : parts[n][m] = Undefined
               THEN [kind |-> "undefined"]
               ELSE [kind |-> "command", parts |-> parts]

-----------------------------------------------------------------------------
(***************************************************************************)
(* The meaning of a line by its words: blanks only separate.  For lines    *)
(* that are plain: words are separated by blanks that start with a space,  *)
(* signs stand between words, redirections follow the arguments, each at   *)
(* most once and with one name, and a name with another redirection behind *)
(* it is not followed by a blank (the pattern would make that blank part   *)
(* of the name).                                                           *)
(***************************************************************************)
Words(t) == SelectSeq(t, LAMBDA c : c \notin Blanks \cup {Newline})

After(ws, sign) ==          \* the word behind a sign, None without the sign
    IF \E k \in DOMAIN ws : ws[k] = sign
    THEN <<ws[1 + CHOOSE k \in DOMAIN ws : ws[k] = sign]>> ELSE None

Stage(ws) ==
    LET args == SubSeq(ws, 1, UpTo(ws, 1, {"<", ">"}) - 1)
    IN  [argv |-> [n \in DOMAIN args |-> <<args[n]>>], in |-> After(ws, "<"), out |-> After(ws, ">")]

Intended(text) ==
    LET ws    == Words(text)
        parts == Tokens(ws, {"&"})
    IN  CASE ws = <<>> -> [kind |-> "blank"]
          [] ws = <<"exit">> -> [kind |-> "exit"]
          [] ws = <<"help">> -> [kind |-> "help"]
          [] At(ws, 1) = "path" -> [kind |-> "path", num |-> Len(ws) - 1]
          [] At(ws, 1) = "cd" /\ Len(ws) = 2 -> [kind |-> "cd", dir |-> Named(Tail(ws))]
          [] OTHER -> [kind |-> "command",
                       parts |-> [n \in DOMAIN parts |->
                                    LET stages == Tokens(parts[n], {"|"})
                                    IN  [m \in DOMAIN stages |-> Stage(stages[m])]]]

Plain(text) ==
    LET t    == IF \E k \in DOMAIN text : text[k] = Newline
                THEN SubSeq(text, 1, UpTo(text, 1, {Newline}) - 1) ELSE text
        ws   == Words(text)
        Word(k) == At(t, k) \notin Blanks \cup Signs \cup {Nul}
        Redirect(k) == k \in DOMAIN ws /\ ws[k] \in {"<", ">"}
    IN  /\ \A k \in 2 .. Len(t) : t[k] = Tab => ~Word(k - 1) \/ PastAll(t, k, Blanks) > Len(t)
        /\ \A k \in DOMAIN ws : ws[k] \in Signs =>
              k > 1 /\ k < Len(ws) /\ ws[k - 1] \notin Signs /\ ws[k + 1] \notin Signs
        /\ \A k \in DOMAIN ws : Redirect(k) =>
              /\ At(ws, k + 2) \in {Nul} \cup Signs
              /\ ~(Redirect(k + 2) /\ (ws[k] = ws[k + 2] \/ Redirect(k + 4)))
        /\ \A k \in DOMAIN t : t[k] \in {"<", ">"} =>
              LET name == PastAll(t, k + 1, Blanks)
              IN  At(t, PastAll(t, name + 1, Blanks)) \in {"<", ">"} =>
                     At(t, name + 1) \notin Blanks
        /\ At(ws, 1) = "cd" => Len(ws) = 2
        /\ At(ws, 1) \in {"exit", "help"} => Len(ws) = 1
        /\ At(ws, 1) = "path" => Len(ws) <= MaxPathNum /\ \A k \in DOMAIN ws : ws[k] \notin Signs
        /\ \A n \in DOMAIN Tokens(ws, Signs) : Len(Tokens(ws, Signs)[n]) < MaxArguments
        /\ Len(Tokens(ws, {"&"})) < MaxArguments
=============================================================================
