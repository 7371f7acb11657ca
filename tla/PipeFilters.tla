----------------------------- MODULE PipeFilters -----------------------------
(* The filters that the SSH decoy's shell emulates on the right of a pipe     *)
(* (command_router.py, _apply_pipe and _pipe_awk), and beside each of them    *)
(* what the program of that name does.                                        *)
(*                                                                            *)
(* A text is its lines and whether the last one has its newline: the decoy's  *)
(* own commands answer without it, files may have it.  A line is a sequence   *)
(* of fields, separated by the delimiter that cut and awk are given; a field  *)
(* is a number below 100, which tells the textual order from the numeric one. *)
(* A pattern is one field.  tr, and awk's print with several arguments, are   *)
(* left out.                                                                  *)
EXTENDS Integers, Sequences, FiniteSets, SequencesExt

Ended(ls) == [lines |-> ls, ended |-> TRUE]
NoText == Ended(<< >>)
Bare(l) == [lines |-> <<l>>, ended |-> FALSE]

\* "\n".join(result) + "\n" if that string is not empty: a single empty line
\* is lost.
EndedUnlessEmpty(ls) == IF ls = << << >> >> THEN NoText ELSE Ended(ls)

\* What these texts and the filters of a line are made of.
Text == {t \in [lines : Seq(Seq(Nat)), ended : BOOLEAN] : t.lines = << >> => t.ended}
IsFilter(f) ==
    \/ f.cmd \in {"head", "tail"} /\ f.n \in Int /\ f.plus \in BOOLEAN
    \/ f.cmd = "grep" /\ f.pattern \in Nat /\ f.tokens \in Seq(Seq({"v", "c"}) \ {<< >>})
    \/ f.cmd = "sort" /\ f.flags \subseteq {"n", "r", "u"}
    \/ f.cmd = "uniq" /\ f.flags \subseteq {"c", "d"}
    \/ f.cmd = "sed" /\ f.old \in Nat /\ f.new \in Nat /\ f.g \in BOOLEAN
    \/ f.cmd = "cut" /\ f.list \subseteq Nat /\ f.space \in BOOLEAN
    \/ /\ f.cmd = "awk" /\ f.n \in Nat /\ f.arg \in {"$0", "$2", "$NF", "NR"}
       /\ f.cond \in {"always", "match", "no match", "NR==", "NR>", "END"}
    \/ f.cmd \in {"wc", "less", "tee", "xargs", "other"}

Least(a, b) == IF a <= b THEN a ELSE b
NewLines(t) == Len(t.lines) - (IF t.ended THEN 0 ELSE 1)

(* Python's slices, and a stable sort.                                        *)
Upto(n, ls) == SubSeq(ls, 1, Least(Len(ls), IF n >= 0 THEN n ELSE Len(ls) + n))
From(n, ls) == SubSeq(ls, (IF n >= 0 THEN n ELSE Len(ls) + n) + 1, Len(ls))
LastOf(n, ls) == IF n >= Len(ls) THEN ls ELSE From(-n, ls)

\* The lines of ls that are in a set, a set of numbers in ascending order, and
\* the lines at these places.
Among(ls, K) ==
    FoldLeft(LAMBDA kept, l : IF l \in K THEN Append(kept, l) ELSE kept, << >>, ls)
Ascending(S) ==
    [k \in 1..Cardinality(S) |-> CHOOSE i \in S : Cardinality({j \in S : j <= i}) = k]
LinesAt(ls, places) == [k \in 1..Cardinality(places) |-> ls[Ascending(places)[k]]]

StableSort(ls, Before(_, _)) ==
    LET rank(i) == 1 + Cardinality({j \in DOMAIN ls :
                        \/ Before(ls[j], ls[i])
                        \/ ~Before(ls[i], ls[j]) /\ j < i})
    IN [k \in DOMAIN ls |-> ls[CHOOSE i \in DOMAIN ls : rank(i) = k]]

\* The order of the characters, of numbers below 100 and of lines of them.
TextRank(w) == IF w < 10 THEN 100 * w ELSE 100 * (w \div 10) + 1 + (w % 10)
Textually(a, b) ==
    \E i \in 1..Len(b) :
        /\ \A j \in 1..(i - 1) : j <= Len(a) /\ a[j] = b[j]
        /\ i <= Len(a) => TextRank(a[i]) < TextRank(b[i])
NumberOf(l) == IF l = << >> THEN 0 ELSE l[1]
Numerically(a, b) == NumberOf(a) < NumberOf(b)

----------------------------------------------------------------------------
(* The filters.  A flag is looked up as "-v" in a token of the command: in    *)
(* -cv the token begins with another letter and v is not found.               *)
HasToken(tokens, x) == \E k \in DOMAIN tokens : tokens[k][1] = x

PipeGrep(f, t) ==
    LET found(l) == f.pattern \in Range(l)
        matched == Among(t.lines, {l \in Range(t.lines) : found(l) <=> ~HasToken(f.tokens, "v")})
    IN IF HasToken(f.tokens, "c") THEN Ended(<< <<Len(matched)>> >>) ELSE Ended(matched)

\* int() reads +2 as 2.
PipeHead(f, t) == EndedUnlessEmpty(Upto(f.n, t.lines))

\* The slice [-n:], which is all the lines for 0.
PipeTail(f, t) ==
    EndedUnlessEmpty(IF f.n <= 0 THEN SubSeq(t.lines, 1 - f.n, Len(t.lines))
                                 ELSE LastOf(f.n, t.lines))

PipeWc(f, t) == Ended(<< <<NewLines(t)>> >>)

FirstOfEach(ls) ==
    FoldLeft(LAMBDA kept, l : IF l \in Range(kept) THEN kept ELSE Append(kept, l), << >>, ls)

PipeSort(f, t) ==
    LET before(a, b) == IF "n" \in f.flags THEN Numerically(a, b) ELSE Textually(a, b)
        prior(a, b) == IF "r" \in f.flags THEN before(b, a) ELSE before(a, b)
        ordered == StableSort(t.lines, prior)
    IN Ended(IF "u" \in f.flags THEN FirstOfEach(ordered) ELSE ordered)

Groups(ls) ==
    FoldLeft(LAMBDA gs, l :
        IF gs # << >> /\ Last(gs).line = l
        THEN [gs EXCEPT ![Len(gs)].count = @ + 1]
        ELSE Append(gs, [count |-> 1, line |-> l]), << >>, ls)

\* Mutant: the last group is not closed.
UniqWithoutLast(f, t) ==
    LET gs == Groups(t.lines)
    IN Ended([k \in 1..(Len(gs) - 1) |-> gs[k].line])

PipeUniq(f, t) ==
    LET gs == Groups(t.lines)
        kept == Among(gs, {g \in Range(gs) : "d" \in f.flags => g.count >= 2})
    IN Ended([k \in DOMAIN kept |-> IF "c" \in f.flags THEN <<kept[k].count>> \o kept[k].line
                                                       ELSE kept[k].line])

Replaced(l, where, new) == [k \in DOMAIN l |-> IF k \in where THEN new ELSE l[k]]
Places(l, old) == {k \in DOMAIN l : l[k] = old}

\* re.sub over the whole text, with count 1 if there is no g.
PipeSed(f, t) ==
    LET hits == {i \in DOMAIN t.lines : f.old \in Range(t.lines[i])}
        first == CHOOSE i \in hits : \A j \in hits : i <= j
        places(i) == Places(t.lines[i], f.old)
        changed(i) ==
            IF f.g THEN places(i)
            ELSE IF hits # {} /\ i = first THEN {CHOOSE k \in places(i) : \A j \in places(i) : k <= j}
            ELSE {}
    IN [t EXCEPT !.lines = [i \in DOMAIN @ |-> Replaced(@[i], changed(i), f.new)]]

\* Of the fields asked for, those the line has.  Index 0 is fields[-1], and no
\* list at all leaves the text as it is.
PipeCut(f, t) ==
    LET at(l) == {k \in 1..Len(l) : k \in f.list} \* in their order
        zero(l) == IF 0 \in f.list /\ l # << >> THEN <<Last(l)>> ELSE << >>
        picked(l) == zero(l) \o LinesAt(l, at(l))
    IN IF f.list = {} THEN t ELSE Ended([k \in DOMAIN t.lines |-> picked(t.lines[k])])

\* END blocks print the number of lines whatever they say.  A program is a
\* condition on the line or its number and one argument to print.
AwkSelects(f, l, nr) ==
    CASE f.cond = "always"   -> TRUE
      [] f.cond = "match"    -> f.n \in Range(l)
      [] f.cond = "no match" -> f.n \notin Range(l)
      [] f.cond = "NR=="     -> nr = f.n
      [] f.cond = "NR>"      -> nr > f.n
AwkPrints(f, l, nr) ==
    CASE f.arg = "$0"  -> l
      [] f.arg = "NR"  -> <<nr>>
      [] f.arg = "$NF" -> IF l = << >> THEN << >> ELSE <<Last(l)>>
      [] f.arg = "$2"  -> IF Len(l) >= 2 THEN <<l[2]>> ELSE << >>
AwkLines(f, t) ==
    LET numbered == [k \in DOMAIN t.lines |-> <<k, t.lines[k]>>]
        chosen == Among(numbered, {p \in Range(numbered) : AwkSelects(f, p[2], p[1])})
    IN [k \in DOMAIN chosen |-> AwkPrints(f, chosen[k][2], chosen[k][1])]
PipeAwk(f, t) ==
    IF f.cond = "END" THEN Ended(<< <<Len(t.lines)>> >>) ELSE Ended(AwkLines(f, t))

\* tee, less, more, xargs and every command that is not known.
PassThrough(t) == t

ApplyPipe(f, t) ==
    CASE f.cmd = "grep" -> PipeGrep(f, t)
      [] f.cmd = "head" -> PipeHead(f, t)
      [] f.cmd = "tail" -> PipeTail(f, t)
      [] f.cmd = "wc"   -> PipeWc(f, t)
      [] f.cmd = "sort" -> PipeSort(f, t)
      [] f.cmd = "uniq" -> PipeUniq(f, t)
      [] f.cmd = "sed"  -> PipeSed(f, t)
      [] f.cmd = "cut"  -> PipeCut(f, t)
      [] f.cmd = "awk"  -> PipeAwk(f, t)
      [] f.cmd \in {"less", "tee", "xargs", "other"} -> PassThrough(t)

\* An empty delimiter, which is what the quoted space of cut -d ' ' becomes, is
\* one that split() refuses: the exception leaves the router, and the line shows
\* nothing.
Raises(f, t) == f.cmd = "cut" /\ f.list # {} /\ f.space /\ t.lines # << >>

----------------------------------------------------------------------------
(* What the programs do to the lines of their input.                          *)
Flags(tokens) == UNION {Range(tokens[k]) : k \in DOMAIN tokens}
KeptLines(ls, Keep(_)) == LinesAt(ls, {i \in DOMAIN ls : Keep(i)})

ProgramGrep(f, ls) ==
    LET flags == Flags(f.tokens)
        kept == KeptLines(ls, LAMBDA i : (\E k \in DOMAIN ls[i] : ls[i][k] = f.pattern)
                                             <=> "v" \notin flags)
    IN IF "c" \in flags THEN << <<Len(kept)>> >> ELSE kept

ProgramUniq(f, ls) ==
    LET start(i) == i = 1 \/ ls[i - 1] # ls[i]
        run(i) == Cardinality({j \in i..Len(ls) : \A k \in i..j : ls[k] = ls[i]})
        starts == Ascending({i \in DOMAIN ls : start(i) /\ ("d" \in f.flags => run(i) > 1)})
    IN [k \in DOMAIN starts |-> (IF "c" \in f.flags THEN <<run(starts[k])>> ELSE << >>)
                                    \o ls[starts[k]]]

\* Any ordering of the lines by the key (sort breaks ties by comparing them).
ProgramSorts(f, ls, result) ==
    LET before(a, b) == IF "n" \in f.flags THEN Numerically(a, b) \/
                                                (NumberOf(a) = NumberOf(b) /\ Textually(a, b))
                                           ELSE Textually(a, b)
        count(l, s) == Cardinality({i \in DOMAIN s : s[i] = l})
    IN /\ Range(result) = Range(ls)
       /\ \A l \in Range(ls) : count(l, result) = IF "u" \in f.flags THEN 1 ELSE count(l, ls)
       /\ \A i, j \in DOMAIN result : i < j =>
             ~ IF "r" \in f.flags THEN before(result[i], result[j]) ELSE before(result[j], result[i])

ProgramSed(f, ls) ==
    [i \in DOMAIN ls |->
        Replaced(ls[i], {k \in Places(ls[i], f.old) : f.g \/ \A j \in 1..(k-1) : ls[i][j] # f.old}, f.new)]

\* A line without the delimiter is printed whole.
ProgramCut(f, ls) ==
    [i \in DOMAIN ls |-> IF Len(ls[i]) <= 1 THEN ls[i]
                         ELSE KeptLines(ls[i], LAMBDA k : k \in f.list)]

ProgramAwk(f, ls) ==
    IF f.cond = "END"
    THEN IF f.arg = "NR" THEN << <<Len(ls)>> >> ELSE << IF ls = << >> THEN << >> ELSE Last(ls) >>
    ELSE LET at == Ascending({i \in DOMAIN ls : AwkSelects(f, ls[i], i)})
         IN [k \in DOMAIN at |-> AwkPrints(f, ls[at[k]], at[k])]

\* result is what the program prints for the lines ls.
Program(f, ls, result) ==
    CASE f.cmd = "grep" -> result = ProgramGrep(f, ls)
      [] f.cmd = "head" -> result = IF f.n >= 0 THEN KeptLines(ls, LAMBDA i : i <= f.n)
                                                ELSE KeptLines(ls, LAMBDA i : i <= Len(ls) + f.n)
      [] f.cmd = "tail" -> result = IF f.plus THEN KeptLines(ls, LAMBDA i : i >= f.n)
                                    ELSE KeptLines(ls, LAMBDA i : i > Len(ls) - Least(f.n, Len(ls)))
      [] f.cmd = "wc"   -> result = << <<Len(ls)>> >>
      [] f.cmd = "sort" -> ProgramSorts(f, ls, result)
      [] f.cmd = "uniq" -> result = ProgramUniq(f, ls)
      [] f.cmd = "sed"  -> result = ProgramSed(f, ls)
      [] f.cmd = "cut"  -> result = ProgramCut(f, ls)
      [] f.cmd = "awk"  -> result = ProgramAwk(f, ls)
      [] f.cmd \in {"less", "tee"} -> result = ls

\* Where a filter is known to differ from its program.
Differs(f, t) ==
    CASE f.cmd = "grep" -> \E k \in DOMAIN f.tokens : Len(f.tokens[k]) > 1
      [] f.cmd = "head" -> Upto(f.n, t.lines) = << << >> >>
      [] f.cmd = "tail" -> f.plus \/ f.n <= 0 \/ LastOf(f.n, t.lines) = << << >> >>
      [] f.cmd = "wc"   -> ~t.ended
      [] f.cmd = "sort" -> "n" \in f.flags /\ \E l, m \in Range(t.lines) :
                              l # m /\ NumberOf(l) = NumberOf(m)
      [] f.cmd = "sed"  -> ~f.g /\ Cardinality({i \in DOMAIN t.lines :
                              f.old \in Range(t.lines[i])}) > 1
      [] f.cmd = "cut"  -> \/ f.list = {} \/ 0 \in f.list \/ f.space
                           \/ \E l \in Range(t.lines) : Len(l) = 1 /\ 1 \notin f.list
      [] f.cmd = "awk"  -> f.cond = "END" /\ f.arg # "NR"
      [] f.cmd \in {"xargs", "other"} -> TRUE
      [] OTHER -> FALSE
=============================================================================
