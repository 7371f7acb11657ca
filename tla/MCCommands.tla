------------------------------ MODULE MCCommands ------------------------------
(* What the shell makes of a line, and where the answer to a command comes    *)
(* from.  The lines: two directories and a path that is none, a variable      *)
(* beside PWD and OLDPWD, lines with each operator alone, the mixtures that   *)
(* are taken apart wrongly, each kind of loop, a loop and a pipe longer than  *)
(* the limits, a line that raises in another directory, and every filter with *)
(* the flags that change its result.  The answers: MCAdaptiveTier.  The two   *)
(* share no variable, so a behaviour is one of the one or of the other, as    *)
(* `part` says.                                                               *)
EXTENDS ShellLines, MCAdaptiveTier
VARIABLE part

\* While answers are followed, the session whose lines are followed is over.
CommandsInit ==
    \/ part = "lines" /\ LinesInit /\ Init
    \/ part = "tier" /\ Init /\ session = NewSession(Absent) /\ raised = FALSE /\ closed = TRUE
CommandsNext ==
    /\ UNCHANGED part
    /\ \/ part = "lines" /\ LinesNext /\ UNCHANGED vars
       \/ part = "tier" /\ Next /\ UNCHANGED linesVars
CommandsSpec == CommandsInit /\ [][CommandsNext]_<<part, linesVars, vars>>

MCVariables == {"PWD", "OLDPWD", "V"}
MCTexts == {Ended(<< >>), Ended(<< <<10>> >>), Ended(<< <<9, 1>> >>),
            Ended(<< <<9, 1>>, <<10>>, <<9, 1>> >>), Ended(<< <<9>>, <<10>>, <<10>> >>),
            Ended(<< <<1, 9>>, <<9, 1>> >>),
            Ended(<< << >>, <<9, 1>> >>), Ended(<< <<Error>>, <<9>> >>), Bare(<<9, 1>>)}

Cmd(n) == [name |-> n, arg |-> 0, var |-> "V", sudo |-> FALSE]
Echo(w) == [Cmd("echo") EXCEPT !.arg = w]
EchoVar(v) == [Cmd("echo $") EXCEPT !.var = v]
CdTo(d) == [Cmd("cd to") EXCEPT !.arg = d]
Export(v, x) == [Cmd("export") EXCEPT !.var = v, !.arg = x]
Unsets(v) == [Cmd("unset") EXCEPT !.var = v]
Pipe(f) == [name |-> "filter", filter |-> f]
TheFile == Cmd("file")

Firsts == {Echo(9), EchoVar("V"), Cmd("cat"), Cmd("rm"), Cmd("cd -"), CdTo(51), CdTo(59),
           Cmd("false")}
Seconds == {EchoVar("PWD"), Cmd("cat"), Cmd("rm"), Export("V", 9)}

Heads == {[cmd |-> c, n |-> n, plus |-> p] : c \in {"head", "tail"}, n \in -1..2, p \in BOOLEAN}
Greps == {[cmd |-> "grep", pattern |-> 9, tokens |-> t] :
            t \in {<< >>, << <<"v">> >>, << <<"c">> >>, << <<"v">>, <<"c">> >>, << <<"c", "v">> >>}}
Sorts == {[cmd |-> "sort", flags |-> s] : s \in SUBSET {"n", "r", "u"}}
Uniqs == {[cmd |-> "uniq", flags |-> s] : s \in SUBSET {"c", "d"}}
Seds == {[cmd |-> "sed", old |-> 9, new |-> 10, g |-> g] : g \in BOOLEAN}
Cuts == {[cmd |-> "cut", list |-> l, space |-> sp] : l \in SUBSET (0..2), sp \in BOOLEAN}
Awks == {[cmd |-> "awk", cond |-> c, n |-> n, arg |-> a] :
            c \in {"always", "match", "no match", "NR==", "NR>", "END"}, n \in {1, 9},
            a \in {"$0", "$2", "$NF", "NR"}}
Others == {[cmd |-> c] : c \in {"wc", "less", "tee", "xargs", "other"}}
MCFilters == Heads \cup Greps \cup Sorts \cup Uniqs \cup Seds \cup Cuts \cup Awks \cup Others

\* Filters for the lines themselves: the others read what these leave.
Piped == {[cmd |-> "wc"], [cmd |-> "sort", flags |-> {}],
          [cmd |-> "cut", list |-> {1}, space |-> TRUE]}

List(cmds, ops) == [kind |-> "list", cmds |-> cmds, ops |-> ops]
MCLines ==
    {List(<<c>>, << >>) : c \in Firsts \cup Seconds \cup
        {Cmd("cd"), Export("OLDPWD", 59), Export("PWD", 59), Unsets("V"), [Cmd("cat") EXCEPT !.sudo = TRUE]}}
    \cup {List(<<c, d>>, <<op>>) : c \in Firsts, d \in Seconds, op \in {";", "&&", "||"}}
    \cup {List(<<c, TheFile>>, <<op>>) : c \in {EchoVar("V"), Cmd("cat"), CdTo(59)}, op \in {">", ">>"}}
    \cup {List(<<Cmd("cat"), Pipe(f)>>, <<"|">>) : f \in Piped}
    \cup {List(<<Cmd("cat"), Pipe(f), Pipe(g)>>, <<"|", "|">>) : f \in Piped, g \in Piped}
    \cup {List(<<Cmd("cd -"), Pipe(f)>>, <<"|">>) : f \in {g \in Piped : g.cmd = "cut"}}
    \cup {List(<<Cmd("rm"), Pipe(f), Pipe(f), Pipe(f)>>, <<"|", "|", "|">>) : f \in {[cmd |-> "wc"]}}
    \cup {List(<<CdTo(51), Cmd("cat"), EchoVar("V")>>, ops) :
            ops \in {<<";", ";">>, <<"&&", "&&">>, <<";", "&&">>, <<"||", ";">>, <<"&&", "||">>}}
    \cup {List(<<Export("V", 9), Export("OLDPWD", 51), Cmd("rm")>>, <<"&&", "&&">>)}
    \cup {List(<<Echo(9), TheFile, Cmd("cat")>>, <<op, ";">>) : op \in {">", ">>"}}
    \cup {List(<<Cmd("cat"), Pipe([cmd |-> "wc"]), TheFile>>, <<"|", ">">>),
          List(<<Echo(9), TheFile, TheFile>>, <<">", ">>">>)}
    \cup {[kind |-> "set", var |-> "V", arg |-> 9, cmds |-> <<EchoVar("V")>>, ops |-> << >>]}
    \cup {[kind |-> "for", var |-> "V", items |-> <<10, 9>>, body |-> c] :
            c \in {EchoVar("V"), Cmd("rm"), CdTo(51)}}
    \cup {[kind |-> "for", var |-> "V", items |-> <<9, 10, 9, 10>>, body |-> EchoVar("V")]}
    \cup {[kind |-> "if", cond |-> c, then |-> Echo(9), else |-> e] :
            c \in {Cmd("rm"), Cmd("cat"), CdTo(51), CdTo(59), Cmd("false")}, e \in {Cmd("none"), Cmd("cat")}}
    \cup {[kind |-> "while", cond |-> c, body |-> d] :
            c \in {Cmd("rm"), Cmd("cat"), CdTo(59)}, d \in {EchoVar("V"), Cmd("rm")}}
=============================================================================
