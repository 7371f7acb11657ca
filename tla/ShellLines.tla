------------------------------ MODULE ShellLines ------------------------------
(* The SSH decoy's shell in one session (command_router.py): route takes a    *)
(* line apart into simple commands and runs them over the session's state;    *)
(* beside it, what a shell does with the same line.                           *)
(*                                                                            *)
(* A line is a list of commands joined by operators, a loop or an if.  One    *)
(* file stands for the session's files.  Fields of PipeFilters also stand for *)
(* paths and for the messages a command may answer with.                      *)
EXTENDS PipeFilters

CONSTANTS Home, Dirs,      \* the home directory, and the directories
          Variables,       \* environment variables, PWD and OLDPWD among them
          Unset, Absent,   \* no value; no file
          Error,           \* a message with one of the phrases of _is_error
          SudoSays,        \* the refusal of sudo
          Jumble,          \* text a shell would not print: operators, glued words, the
                           \* refusal of a long pipe
          IsRoot,          \* the session's uid is 0
          Texts,           \* what the file may hold at first
          Lines,           \* lines that may be typed
          Filters,         \* the filters compared with their programs
          LoopCap,         \* iterations of a loop (100 in the code)
          MaxPipeDepth,    \* segments of a pipe (20 in the code)
          MaxText          \* bound: lines of the file, and fields of a line

\* A simple command, and the parts of a line: one follows the first, every ";",
\* "&&" and "||"; a filter follows every "|".
Command ==
    [name : {"echo", "echo $", "export", "unset", "false", "cd", "cd -", "cd to", "cat", "rm"},
     arg : Nat, var : Variables, sudo : BOOLEAN]
IsFilterPart(c) == c.name = "filter" /\ IsFilter(c.filter)
IsList(line) ==
    /\ line.cmds \in Seq(Range(line.cmds)) /\ line.ops \in Seq({";", "&&", "||", "|", ">", ">>"})
    /\ Len(line.cmds) = Len(line.ops) + 1 /\ line.cmds[1] \in Command
    /\ \A k \in DOMAIN line.ops :
          /\ line.ops[k] \in {";", "&&", "||"} => line.cmds[k + 1] \in Command
          /\ line.ops[k] = "|" => IsFilterPart(line.cmds[k + 1])
          /\ line.ops[k] \in {">", ">>"} => line.cmds[k + 1].name = "file"
IsLine(line) ==
    \/ line.kind = "list" /\ IsList(line)
    \/ line.kind = "set" /\ IsList(line) /\ line.var \in Variables /\ line.arg \in Nat
    \/ /\ line.kind = "for" /\ line.var \in Variables /\ line.items \in Seq(Nat)
       /\ line.body \in Command
    \/ /\ line.kind = "if" /\ line.cond \in Command /\ line.then \in Command
       /\ line.else \in Command \/ line.else.name = "none"
    \/ line.kind = "while" /\ line.cond \in Command /\ line.body \in Command

ASSUME ShellAssumption ==
    /\ Home \in Dirs /\ Dirs \subseteq Nat /\ {"PWD", "OLDPWD"} \subseteq Variables
    /\ {Error, SudoSays, Jumble} \subseteq Nat /\ Unset \notin Nat
    /\ Texts \subseteq Text /\ Absent \notin Text
    /\ \A line \in Lines : IsLine(line)
    /\ \A f \in Filters : IsFilter(f)
    /\ LoopCap \in Nat /\ MaxPipeDepth \in Nat /\ MaxText \in Nat

VARIABLES
    session,  \* SessionState, and the file of the session's filesystem
    raised,   \* the line before this one raised
    closed    \* the session is over

linesVars == <<session, raised, closed>>

Answer(s, t) == [s |-> s, out |-> t]
Says(m) == Bare(<<m>>)

\* _is_error: a phrase anywhere in the output.
IsError(t) == \E l \in Range(t.lines) : Error \in Range(l)

----------------------------------------------------------------------------
(* Simple commands.                                                           *)
BuiltinCd(c, s) ==
    LET old == IF s.env["OLDPWD"] = Unset THEN Home ELSE s.env["OLDPWD"]
    IN CASE c.name = "cd" -> Answer([s EXCEPT !.cwd = Home], NoText)
         [] c.name = "cd -" ->
              Answer([s EXCEPT !.env["OLDPWD"] = s.cwd, !.cwd = old], Says(old))
         [] c.name = "cd to" /\ c.arg \in Dirs ->
              Answer([s EXCEPT !.env["OLDPWD"] = s.cwd, !.cwd = c.arg], NoText)
         [] OTHER -> Answer(s, Says(Error))

\* A variable that is not set is not replaced in what echo prints.
HandleBuiltin(c, s) ==
    CASE c.name = "echo"   -> Answer(s, Says(c.arg))
      [] c.name = "echo $" -> Answer(s, Says(IF s.env[c.var] = Unset THEN Jumble ELSE s.env[c.var]))
      [] c.name = "export" -> Answer([s EXCEPT !.env[c.var] = c.arg], NoText)
      [] c.name = "unset"  -> Answer([s EXCEPT !.env[c.var] = Unset], NoText)
      [] c.name = "false"  -> Answer(s, NoText)
      [] c.name \in {"cd", "cd -", "cd to"} -> BuiltinCd(c, s)

HandleCommon(c, s) ==
    IF s.file = Absent THEN Answer(s, Says(Error))
    ELSE IF c.name = "cat" THEN Answer(s, s.file)
    ELSE Answer([s EXCEPT !.file = Absent], NoText)

Run(c, s) == IF c.name \in {"cat", "rm"} THEN HandleCommon(c, s) ELSE HandleBuiltin(c, s)

\* What is left of a line that has operators in it is handed on as one command,
\* the operators and the other commands as its arguments.
RunJumble(line, s) ==
    LET c == line.cmds[1]
        exported == {k \in DOMAIN line.cmds : line.cmds[k].name = "export"}
        last == Last(line.cmds)
    IN CASE c.name \in {"echo", "echo $"} -> Answer(s, Says(Jumble))
         [] c.name = "cat" -> IF last.name \in {"cat", "rm", "file"} THEN HandleCommon(c, s)
                                                                     ELSE Answer(s, Says(Error))
         [] c.name = "rm" -> Answer([s EXCEPT !.file = Absent], Says(Error))
         [] c.name = "cd" -> Answer(s, Says(Error))
         [] c.name = "export" ->
              Answer([s EXCEPT !.env = [v \in Variables |->
                  LET of == {k \in exported : line.cmds[k].var = v}
                  IN IF of = {} THEN @[v]
                     ELSE line.cmds[CHOOSE k \in of : \A j \in of : j <= k].arg]], NoText)
         [] OTHER -> Run(c, s)

\* sudo: the first of a session that is not root's is refused, later ones are
\* let through.
Refused(c, s) == c.sudo /\ ~IsRoot /\ ~s.sudo
RouteSingle(line, s) ==
    IF Refused(line.cmds[1], s) THEN Answer([s EXCEPT !.sudo = TRUE], Says(SudoSays))
    ELSE IF Len(line.cmds) = 1 THEN Run(line.cmds[1], s)
    ELSE RunJumble(line, s)
Single(c, s) == RouteSingle([cmds |-> <<c>>], s)

----------------------------------------------------------------------------
(* Redirection: the content is written as it is, without a newline at its end.*)
RedirectWrite(t, s) == [s EXCEPT !.file = t]

Glued(l, m) ==
    IF l = << >> THEN m ELSE IF m = << >> THEN l
    ELSE Front(l) \o <<Jumble>> \o SubSeq(m, 2, Len(m))
Concat(t, u) ==
    IF t.ended \/ u.lines = << >>
    THEN [lines |-> t.lines \o u.lines, ended |-> IF u.lines = << >> THEN t.ended ELSE u.ended]
    ELSE [lines |-> Front(t.lines) \o <<Glued(Last(t.lines), u.lines[1])>>
                        \o SubSeq(u.lines, 2, Len(u.lines)),
          ended |-> u.ended]
RedirectAppend(t, s) ==
    [s EXCEPT !.file = IF s.file = Absent THEN t ELSE Concat(s.file, t)]

(* Outputs are joined with a newline, those that are empty left out.          *)
Join(a, b) ==
    IF a.lines = << >> THEN b
    ELSE IF b.lines = << >> THEN a
    ELSE [lines |-> a.lines \o (IF a.ended THEN << << >> >> ELSE << >>) \o b.lines,
          ended |-> b.ended]

\* The commands from the i-th to the j-th with the operators between them.
Part(line, i, j) == [cmds |-> SubSeq(line.cmds, i, j), ops |-> SubSeq(line.ops, i, j - 1)]
Size(line) == Len(line.cmds)
Has(line, op) == op \in Range(line.ops)
FirstOp(line, op) == CHOOSE k \in DOMAIN line.ops :
                        line.ops[k] = op /\ \A j \in 1..(k - 1) : line.ops[j] # op
Left(line, op) == Part(line, 1, FirstOp(line, op))
Right(line, op) == Part(line, FirstOp(line, op) + 1, Size(line))

Pieces(line, op) == \* split at every op
    LET ends == Ascending({k \in DOMAIN line.ops : line.ops[k] = op} \cup {Size(line)})
    IN [k \in DOMAIN ends |-> Part(line, IF k = 1 THEN 1 ELSE ends[k - 1] + 1, ends[k])]

Then(a, b) == Answer(b.s, Join(a.out, b.out))

\* ";"
RouteSequence(line, s) ==
    FoldLeft(LAMBDA a, part : Then(a, RouteSingle(part, a.s)),
             Answer(s, NoText), Pieces(line, ";"))

\* Mutant: the right side of && runs whatever the left said.
RouteAndAlways(line, s) ==
    LET a == RouteSingle(Left(line, "&&"), s)
    IN Then(a, RouteSingle(Right(line, "&&"), a.s))

\* The right side of && runs unless the left printed an error, that of || if it
\* did or if it printed nothing.
RouteAnd(line, s) ==
    LET a == RouteSingle(Left(line, "&&"), s)
    IN IF IsError(a.out) THEN a ELSE Then(a, RouteSingle(Right(line, "&&"), a.s))
RouteOr(line, s) ==
    LET a == RouteSingle(Left(line, "||"), s)
    IN IF a.out.lines # << >> /\ ~IsError(a.out) THEN a
       ELSE RouteSingle(Right(line, "||"), a.s)

\* A filter is the first command of its segment; one that raises leaves no text.
\* Of a pipe with too many segments nothing is run.
RoutePipe(line, s) ==
    LET segments == Pieces(line, "|")
        a == RouteSingle(segments[1], s)
        Step(t, seg) == LET f == seg.cmds[1].filter
                        IN IF t = Absent \/ Raises(f, t) THEN Absent ELSE ApplyPipe(f, t)
    IN IF Len(segments) > MaxPipeDepth THEN Answer(s, Says(Jumble))
       ELSE Answer(a.s, FoldLeft(Step, a.out, SubSeq(segments, 2, Len(segments))))

\* The rest of the line names the file; if it holds operators, another file.
RouteRedirect(line, op, s) ==
    LET a == RouteSingle(Left(line, op), s)
        written == IF op = ">" THEN RedirectWrite(a.out, a.s) ELSE RedirectAppend(a.out, a.s)
    IN Answer(IF Size(Right(line, op)) = 1 THEN written ELSE a.s, NoText)

RouteList(line, s) ==
    IF Has(line, ";") THEN RouteSequence(line, s)
    ELSE IF Has(line, "&&") THEN RouteAnd(line, s)
    ELSE IF Has(line, "||") THEN RouteOr(line, s)
    ELSE IF Has(line, "|") THEN RoutePipe(line, s)
    ELSE IF Has(line, ">>") THEN RouteRedirect(line, ">>", s)
    ELSE IF Has(line, ">") THEN RouteRedirect(line, ">", s)
    ELSE RouteSingle(line, s)

\* In a body the loop's variable is replaced by the item.
Bound(c, var, item) == IF c.name = "echo $" /\ c.var = var
                       THEN [c EXCEPT !.name = "echo", !.arg = item] ELSE c
FirstItems(line) == SubSeq(line.items, 1, Least(LoopCap, Len(line.items)))
RouteFor(line, s) ==
    FoldLeft(LAMBDA a, item :
                LET set == [a.s EXCEPT !.env[line.var] = item]
                IN Then(a, Single(Bound(line.body, line.var, item), set)),
             Answer(s, NoText), FirstItems(line))

RouteIf(line, s) ==
    LET a == Single(line.cond, s)
    IN IF ~IsError(a.out) THEN Single(line.then, a.s)
       ELSE IF line.else.name # "none" THEN Single(line.else, a.s) ELSE Answer(a.s, NoText)

RouteWhile(line, s) ==
    LET Turn(a, k) ==
            LET cond == Single(line.cond, a.s)
                b == Then(a, Single(line.body, cond.s))
            IN IF ~a.on THEN a
               ELSE IF IsError(cond.out) THEN [a EXCEPT !.s = cond.s, !.on = FALSE]
               ELSE [a EXCEPT !.s = b.s, !.out = b.out]
    IN FoldLeft(LAMBDA a, k : Turn(a, k), [s |-> s, out |-> NoText, on |-> TRUE], [k \in 1..LoopCap |-> k])

\* NAME=value in front of a command sets the variable, for good.
Route(line, s) ==
    CASE line.kind = "list"  -> RouteList(line, s)
      [] line.kind = "set"   -> RouteList(line, [s EXCEPT !.env[line.var] = line.arg])
      [] line.kind = "for"   -> RouteFor(line, s)
      [] line.kind = "if"    -> RouteIf(line, s)
      [] line.kind = "while" -> RouteWhile(line, s)

----------------------------------------------------------------------------
(* What a shell does: [s, lines, ok], and whether the decoy is known to do    *)
(* something else (plain is then FALSE).  s0 is the decoy's session at the    *)
(* start of the line; the shell's own PWD is right, the decoy's is that of an *)
(* earlier directory within a line and after one that raised.                 *)
Ran(s, lines, ok, plain) == [s |-> s, lines |-> lines, ok |-> ok, plain |-> plain]
Upright(s) == [s EXCEPT !.env["PWD"] = s.cwd]
Enters(s, d) == [s EXCEPT !.env["OLDPWD"] = s.cwd, !.cwd = d, !.env["PWD"] = d]

ShellRuns(c, s, s0) ==
    LET known == ~c.sudo \/ IsRoot \/ s0.sudo
        v == s.env[c.var]
        old == s.env["OLDPWD"]
    IN CASE c.name = "echo"   -> Ran(s, << <<c.arg>> >>, TRUE, known)
         [] c.name = "echo $" -> Ran(s, << <<v>> >>, TRUE,
                                     known /\ v # Unset /\ (c.var = "PWD" => v = s0.env["PWD"]))
         [] c.name = "export" -> Ran([s EXCEPT !.env[c.var] = c.arg], << >>, TRUE,
                                     known /\ c.var # "PWD") \* undone after the line
         [] c.name = "unset"  -> Ran([s EXCEPT !.env[c.var] = Unset], << >>, TRUE,
                                     known /\ c.var # "PWD")
         [] c.name = "false"  -> Ran(s, << >>, FALSE, known)
         [] c.name = "cd"     -> Ran(Enters(s, Home), << >>, TRUE, FALSE)
         [] c.name = "cd to"  -> IF c.arg \in Dirs THEN Ran(Enters(s, c.arg), << >>, TRUE, known)
                                                   ELSE Ran(s, << >>, FALSE, known)
         [] c.name = "cd -"   -> IF old \in Dirs THEN Ran(Enters(s, old), << <<old>> >>, TRUE, known)
                                                 ELSE Ran(s, << >>, FALSE, FALSE)
         [] c.name \in {"cat", "rm"} ->
              IF s.file = Absent THEN Ran(s, << >>, FALSE, known)
              ELSE IF c.name = "cat" THEN Ran(s, s.file.lines, TRUE, known)
              ELSE Ran([s EXCEPT !.file = Absent], << >>, TRUE, known)

\* The code takes a status from what is printed: nothing is a success to &&, if
\* and while and a failure to ||, and a file may well hold the words of an error.
Telling(r) == /\ ~r.ok => r.plain
              /\ r.ok => \A l \in Range(r.lines) : Error \notin Range(l)
TellsAnd(c, r) == Telling(r) /\ c.name # "false"
TellsOr(c, r) == Telling(r) /\ (r.ok => r.lines # << >>)

\* One operator, or ";" any number of times.
Both(x, y) == Ran(y.s, x.lines \o y.lines, y.ok, x.plain /\ y.plain)
ShellRunsAll(line, s0) ==
    FoldLeft(LAMBDA x, c : Both(x, ShellRuns(c, x.s, s0)), Ran(Upright(s0), << >>, TRUE, TRUE), line.cmds)
ShellRedirects(line, s0) ==
    LET a == ShellRuns(line.cmds[1], Upright(s0), s0)
        held == IF line.ops[1] = ">" \/ a.s.file = Absent THEN << >> ELSE a.s.file.lines
        bare == line.ops[1] = ">>" /\ a.s.file # Absent /\ ~a.s.file.ended
    IN Ran([a.s EXCEPT !.file = Ended(held \o a.lines)], << >>, a.ok,
           a.plain /\ a.ok /\ ~bare /\ line.cmds[1].name \notin {"cat", "rm"})
ShellRunsList(line, s0) ==
    LET a == ShellRuns(line.cmds[1], Upright(s0), s0)
        b == ShellRuns(line.cmds[2], a.s, s0)
        and == IF a.ok THEN Both(a, b) ELSE a
        or == IF a.ok THEN a ELSE Both(a, b)
    IN IF Size(line) = 1 THEN a
       ELSE IF Range(line.ops) = {";"} THEN ShellRunsAll(line, s0)
       ELSE IF line.ops = <<"&&">> THEN [and EXCEPT !.plain = @ /\ TellsAnd(line.cmds[1], a)]
       ELSE IF line.ops = <<"||">> THEN [or EXCEPT !.plain = @ /\ TellsOr(line.cmds[1], a)]
       ELSE IF line.ops \in {<<">">>, <<">>">>} THEN ShellRedirects(line, s0)
       ELSE Ran(Upright(s0), << >>, TRUE, FALSE)

\* Plain if it has no more items than the code's limit.
ShellRunsFor(line, s0) ==
    FoldLeft(LAMBDA x, item :
                Both(x, ShellRuns(line.body, [x.s EXCEPT !.env[line.var] = item], s0)),
             Ran(Upright(s0), << >>, TRUE, line.var # "PWD" /\ Len(line.items) <= LoopCap),
             line.items)

\* What a condition prints is shown, and lost by the code.
Quiet(r) == r.plain /\ r.lines = << >>
ShellRunsIf(line, s0) ==
    LET a == ShellRuns(line.cond, Upright(s0), s0)
        b == IF a.ok THEN ShellRuns(line.then, a.s, s0)
             ELSE IF line.else.name # "none" THEN ShellRuns(line.else, a.s, s0)
             ELSE Ran(a.s, << >>, TRUE, TRUE)
    IN Ran(b.s, a.lines \o b.lines, b.ok, b.plain /\ Quiet(a) /\ TellsAnd(line.cond, a))

\* Plain if it ends by itself, in fewer turns than the code's limit.
ShellRunsWhile(line, s0) ==
    LET Turn(x) ==
            LET a == ShellRuns(line.cond, x.s, s0)
                b == ShellRuns(line.body, a.s, s0)
                tells == x.plain /\ Quiet(a) /\ TellsAnd(line.cond, a)
            IN IF ~x.on THEN x
               ELSE IF ~a.ok THEN [x EXCEPT !.s = a.s, !.on = FALSE, !.plain = tells]
               ELSE [x EXCEPT !.s = b.s, !.lines = @ \o b.lines, !.plain = tells /\ b.plain]
        end == FoldLeft(LAMBDA x, k : Turn(x),
                        [s |-> Upright(s0), lines |-> << >>, on |-> TRUE, plain |-> TRUE],
                        [k \in 1..LoopCap |-> k])
    IN Ran(end.s, end.lines, TRUE, end.plain /\ ~end.on)

Shell(line, s0) ==
    CASE line.kind = "list"  -> ShellRunsList(line, s0)
      [] line.kind = "for"   -> ShellRunsFor(line, s0)
      [] line.kind = "if"    -> ShellRunsIf(line, s0)
      [] line.kind = "while" -> ShellRunsWhile(line, s0)
      [] line.kind = "set"   -> Ran(Upright(s0), << >>, TRUE, FALSE)

----------------------------------------------------------------------------
(* The session: a line at a time.                                             *)
NewSession(file) ==
    [cwd |-> Home, sudo |-> FALSE, file |-> file,
     env |-> [v \in Variables |-> IF v = "PWD" THEN Home ELSE Unset]]
LinesInit ==
    /\ \E file \in Texts \cup {Absent} : session = NewSession(file)
    /\ raised = FALSE /\ closed = FALSE

\* update_from_command: PWD follows the directory, after the line.
UpdateFromCommand(s) == [s EXCEPT !.env["PWD"] = s.cwd]

Fits(t) == Len(t.lines) <= MaxText /\ \A l \in Range(t.lines) : Len(l) <= MaxText

\* A line that raises shows nothing, and what it did stays; the session goes on.
HandleCommand(line) ==
    LET r == Route(line, session)
    IN /\ ~closed
       /\ r.s.file # Absent => Fits(r.s.file)
       /\ raised' = (r.out = Absent)
       /\ session' = IF r.out = Absent THEN r.s ELSE UpdateFromCommand(r.s)
       /\ UNCHANGED closed

\* exit, logout or quit.
Exit ==
    /\ ~closed /\ closed' = TRUE
    /\ UNCHANGED <<session, raised>>

LinesNext == (\E line \in Lines : HandleCommand(line)) \/ Exit

LinesSpec == LinesInit /\ [][LinesNext]_linesVars
----------------------------------------------------------------------------
(* Properties.                                                                *)

\* Blank lines and error messages aside.
Shown(ls) == KeptLines(ls, LAMBDA i : ls[i] # << >> /\ Error \notin Range(ls[i]))

\* In whatever state earlier lines left the session, those that raised among
\* them, a line of the shapes the shell is written for, one operator or one loop,
\* takes it where a shell goes and shows what a shell shows, the listed
\* differences aside: no command of it is skipped, run twice, or run in another
\* order or directory.
LinesAgree ==
    ~closed => \A line \in Lines :
        LET r == Route(line, session)
            e == Shell(line, session)
        IN e.plain =>
             /\ UpdateFromCommand(r.s).env = e.s.env /\ r.s.cwd = e.s.cwd
             /\ (r.s.file = Absent) <=> (e.s.file = Absent)
             /\ r.s.file # Absent => r.s.file.lines = e.s.file.lines
             /\ r.out # Absent /\ Shown(r.out.lines) = Shown(e.lines)

\* On whatever text the file comes to hold, with its last newline or without, a
\* filter prints what the program of its name prints, the listed differences
\* aside.
FiltersAgree ==
    session.file # Absent => \A f \in Filters :
        LET t == session.file
        IN ~Raises(f, t) /\ ~Differs(f, t) => Program(f, t.lines, ApplyPipe(f, t).lines)
=============================================================================
