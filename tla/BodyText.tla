------------------------------ MODULE BodyText ------------------------------
(***************************************************************************)
(* The text of a post and what becomes of it: ParseBody (src/parser/       *)
(* body.go) collects the results of its hash commands and its links once,  *)
(* when the post is closed, and two renderers turn the text and the        *)
(* results into nested tags whenever it is shown, the templates of the     *)
(* server (src/templates/body.go) and the scripts of the browser (src/     *)
(* client/posts/render/body.ts).  Neither is told which result belongs to  *)
(* which command: they count.  The options of the board may have changed   *)
(* in the meantime.                                                        *)
(*                                                                         *)
(* A text is a sequence of tokens: words, single spaces, newlines and the  *)
(* marks of formats.  Punctuation and what is escaped are left out.        *)
(***************************************************************************)
EXTENDS Integers, Sequences, SequencesExt

CONSTANT TextBounds    \* sets of tokens, how many of them, and the options that change

Mark == <<"spoiler", "bold", "italic", "red", "blue">>       \* by level
Tag == <<"del", "b", "i", "red", "blue">>
Levels == <<1, 2, 3, 4, 5>>

\* #flip stands for the commands that are shown whatever they find, as 8ball, roulette and
\* sw do; dice are too large for both parsers
Counting == {"#pyu", "#pcount"}
Command == {"#flip", "#rcount", "#dice"} \cup Counting
Quoting == {">text", ">>link", ">>dead", ">>>/ref/"}
Alphanumeric == {"x", "text", "url", "embed"}      \* x is of one letter, the others of several
Word == Alphanumeric \cup Quoting \cup Command
Token == Word \cup ToSet(Mark) \cup {"code", " ", "nl", "(", "'", "//"}

ASSUME TextAssumption == \A x \in TextBounds :
    x.tokens \subseteq Token /\ x.length \in Nat /\ x.changes \subseteq {"pyu", "rbText"}

VARIABLES
    body,        \* what was typed
    editing,
    commands,    \* results: the word, and its place in the body
    pyu, rbText, \* options of the board
    parsedWith,  \* history: pyu when the post was closed
    bound

vars == <<body, editing, commands, pyu, rbText, parsedWith, bound>>

Positions == [k \in 1..Len(body) |-> k]

(***************************************************************************)
(* ParseBody.                                                              *)
(***************************************************************************)
Blank(k) == k \notin DOMAIN body \/ body[k] \in {" ", "nl"}

\* Words end at spaces and newlines only, not at marks
Apart(k) == Blank(k - 1) /\ Blank(k + 1)

LineStart(k) == IF \E j \in 1..k : body[j] = "nl"
                THEN 1 + (CHOOSE j \in 1..k : body[j] = "nl" /\ \A i \in (j + 1)..k : body[i] # "nl")
                ELSE 1

Quoted(k) == body[LineStart(k)] \in Quoting

\* Mutant of IsCommand: commands in quotes are run, too
IsCommandQuoted(k) ==
    /\ body[k] \in Command \ {"#dice"} /\ Apart(k)
    /\ body[k] \in Counting => pyu

IsCommand(k) ==
    /\ body[k] \in Command \ {"#dice"} /\ Apart(k)
    /\ ~Quoted(k)
    /\ body[k] \in Counting => pyu

ParseBody == LET found == SelectSeq(Positions, IsCommand)
             IN  [n \in DOMAIN found |-> <<body[found[n]], found[n]>>]

\* Links are looked for in quotes, too; >>dead is the ID of no post
IsLink(k) == body[k] = ">>link" /\ Apart(k)
Linked == ~editing /\ \E k \in DOMAIN body : IsLink(k)

(***************************************************************************)
(* Tags.  Formats are nested by their level and last until they are        *)
(* switched off, over the ends of lines.                                   *)
(***************************************************************************)
Open(levels) == [n \in DOMAIN levels |-> <<"open", Tag[levels[n]]>>]
Shut(levels) == [n \in DOMAIN levels |-> <<"close", Tag[Reverse(levels)[n]]>>]
From(on, level) == SelectSeq(Levels, LAMBDA i : i \in on /\ i >= level)

\* Mutant of wrapTags: formats that are nested deeper stay open
WrapOne(on, level) == IF level \in on THEN Shut(<<level>>) ELSE Open(<<level>>)

wrapTags(on, level) ==
    Shut(From(on, level)) \o (IF level \in on THEN <<>> ELSE Open(<<level>>)) \o Open(From(on, level + 1))

Toggle(S, e) == IF e \in S THEN S \ {e} ELSE S \cup {e}

Start == [on |-> {}, quote |-> FALSE, code |-> FALSE, next |-> 1, empty |-> 0, first |-> TRUE,
          out |-> <<>>, thrown |-> FALSE, type |-> "unmatched", held |-> <<>>, lone |-> FALSE]

Write(s, out) == [s EXCEPT !.out = @ \o out]
Text(s, k) == Write(s, << <<"text", k>> >>)
Anchor(s, k) == Write(s, << <<"open", "a">>, <<"text", k>>, <<"close", "a">> >>)
Embed(s, k) == Write(s, << <<"open", "em">>, <<"open", "a">>, <<"text", k>>, <<"close", "a">>, <<"close", "em">> >>)
Strong(s, k, n) == Write(s, << <<"open", "strong">>, <<"result", k, n>>, <<"close", "strong">> >>)

(***************************************************************************)
(* Code: what stands between two marks of code, or one and the end of its  *)
(* line, has spans of its own for operators, functions, strings and        *)
(* comments.  The bytes of a word are held until it ends; the first one is *)
(* not asked whether it is the last, too, and holds on to what follows.    *)
(***************************************************************************)
Span(s, texts) == Write(s, << <<"open", "span">> >> \o texts \o << <<"close", "span">> >>)

BeginCode(s) == [Write(s, << <<"open", "code">> >>) EXCEPT !.type = "unmatched"]

\* Mutant of EndCode: a comment is not closed at the end of its line
EndCodeOpen(s) ==
    LET ended == [Write(s, s.held) EXCEPT !.held = <<>>, !.type = "unmatched", !.lone = @ \/ s.type = "word"]
    IN  Write(ended, (IF s.type \in {"unmatched", "comment"} THEN <<>> ELSE << <<"close", "span">> >>)
                     \o << <<"close", "code">> >>)

\* A word that is held at the end is closed as if it had opened a span
EndCode(s) ==
    LET ended == [Write(s, s.held) EXCEPT !.held = <<>>, !.type = "unmatched", !.lone = @ \/ s.type = "word"]
    IN  Write(ended, (IF s.type = "unmatched" THEN <<>> ELSE << <<"close", "span">> >>) \o << <<"close", "code">> >>)

After(k) == IF k = Len(body) THEN "nl" ELSE body[k + 1]

Release(s, k) ==
    LET held == Append(s.held, <<"text", k>>)
        freed == [s EXCEPT !.held = <<>>, !.type = "unmatched"]
    IN  IF After(k) = "(" THEN Span(freed, held) ELSE Write(freed, held)

highlightSyntax(s, k) ==
    LET text == << <<"text", k>> >> IN
    CASE s.type = "unmatched" ->
           (CASE body[k] = "//" -> [Write(s, << <<"open", "span">> >> \o text) EXCEPT !.type = "comment"]
              [] body[k] = "'" -> [Write(s, << <<"open", "span">> >> \o text) EXCEPT !.type = "quoted"]
              [] body[k] \in ToSet(Mark) -> Span(s, text)
              [] body[k] = "x" -> [s EXCEPT !.held = text, !.type = "word"]
              [] body[k] \in Alphanumeric \ {"x"} -> Release(s, k)
              [] OTHER -> Write(s, text))
      [] s.type = "word" -> IF After(k) \in Alphanumeric THEN [s EXCEPT !.held = @ \o text] ELSE Release(s, k)
      [] s.type = "quoted" /\ body[k] = "'" -> [Write(s, text \o << <<"close", "span">> >>) EXCEPT !.type = "unmatched"]
      [] OTHER -> Write(s, text)

(***************************************************************************)
(* Results of commands, the next one of the list for each word.            *)
(***************************************************************************)
Show(s, k) == Strong([s EXCEPT !.next = @ + 1], k, s.next)
None == 0

ServerCommand(s, k) ==
    LET type == commands[s.next][1] IN
    CASE s.next > Len(commands) -> Text(s, k)
      [] s.next <= Len(commands) /\ ~pyu /\ type \in Counting -> Text([s EXCEPT !.next = @ + 1], k)
      [] OTHER -> CASE body[k] = "#flip" -> Show(s, k)
                    [] body[k] = "#dice" -> Text(s, k)
                    [] type \in Counting \cup {"#rcount"} -> Show(s, k)
                    [] OTHER -> Strong(Text(s, k), k, None)     \* no return after the invalid command

\* The type is compared with that of the result that was last counted, which
\* throws if none was
ClientCommand(s, k) ==
    LET type == commands[s.next][1]
        taken == \/ body[k] = "#flip"
                 \/ (body[k] \in Counting => pyu) /\ type \in Counting \cup {"#rcount"}
        counted == IF taken THEN s.next + 1 ELSE s.next
        shifted == [s EXCEPT !.next = counted]
    IN  CASE s.next > Len(commands) -> Text(s, k)
          [] s.next <= Len(commands) /\ ~pyu /\ type \in Counting -> Text([s EXCEPT !.next = @ + 1], k)
          [] OTHER -> CASE body[k] = "#dice" -> Text(s, k)
                        [] body[k] # "#dice" /\ counted = 1 -> [s EXCEPT !.thrown = TRUE]
                        [] OTHER -> IF commands[counted - 1][1] = body[k]
                                    THEN Strong(shifted, k, IF taken THEN s.next ELSE None)
                                    ELSE Text(shifted, k)

(***************************************************************************)
(* Lines.                                                                  *)
(***************************************************************************)
Fragment(s, k, server) ==
    CASE body[k] \in Command /\ ~s.quote -> IF server THEN ServerCommand(s, k) ELSE ClientCommand(s, k)
      [] body[k] = ">>link" /\ Linked -> Anchor(s, k)
      [] body[k] \in {">>>/ref/", "url"} -> Anchor(s, k)
      [] body[k] = "embed" -> Embed(s, k)
      [] OTHER -> Text(s, k)

RenderToken(s, k, server) ==
    CASE s.thrown -> s
      [] ~s.thrown /\ body[k] = "code" -> [(IF s.code THEN EndCode(s) ELSE BeginCode(s)) EXCEPT !.code = ~@]
      [] ~s.thrown /\ body[k] # "code" /\ s.code -> highlightSyntax(s, k)
      [] OTHER -> IF \E level \in 1..5 : Mark[level] = body[k]
                  THEN LET level == CHOOSE l \in 1..5 : Mark[l] = body[k]
                       IN  IF level > 3 /\ ~rbText THEN s
                           ELSE [Write(s, wrapTags(s.on, level)) EXCEPT !.on = Toggle(@, level)]
                  ELSE IF editing THEN Text(s, k) ELSE Fragment(s, k, server)

\* Mutant of Break: the server breaks no line before an empty one
BreakFull(s, server) ==
    IF server THEN ~s.first /\ s.empty < 1 ELSE s.out # <<>> /\ s.empty < 2

\* No more than two line breaks in a row; the browser has none at the top
Break(s, server) == s.empty < 2 /\ IF server THEN ~s.first ELSE s.out # <<>>

RenderLine(s, line, server) ==
    LET broken == [Write(s, IF Break(s, server) THEN << <<"br">> >> ELSE <<>>) EXCEPT !.first = FALSE]
    IN  IF line = <<>> THEN [broken EXCEPT !.empty = @ + 1]
        ELSE LET quote == body[line[1]] \in Quoting
                 begun == Write([broken EXCEPT !.empty = 0, !.quote = quote],
                                (IF quote THEN << <<"open", "em">> >> ELSE <<>>) \o Open(From(s.on, 1)))
                 read == FoldLeft(LAMBDA t, k : RenderToken(t, k, server),
                                  IF s.code THEN BeginCode(begun) ELSE begun, line)
                 done == IF read.code /\ ~read.thrown THEN EndCode(read) ELSE read
             IN  Write(done, Shut(From(done.on, 1)) \o IF quote THEN << <<"close", "em">> >> ELSE <<>>)

\* Positions of the tokens of each line
Lines == FoldLeft(LAMBDA ls, k : IF body[k] = "nl" THEN Append(ls, <<>>)
                                 ELSE [ls EXCEPT ![Len(ls)] = Append(@, k)],
                  << <<>> >>, Positions)

Render(server) == FoldLeft(LAMBDA s, line : RenderLine(s, line, server), Start, Lines)

streambody == Render(TRUE)      \* the page of the server
renderBody == Render(FALSE)     \* the page of the browser

(***************************************************************************)
(* A post is typed and closed, the options of its board change.            *)
(***************************************************************************)
Init ==
    /\ body = <<>> /\ editing = TRUE /\ commands = <<>>
    /\ pyu \in BOOLEAN /\ rbText = TRUE /\ parsedWith = pyu
    /\ bound \in TextBounds

\* Two words have a space between them
Type(t) ==
    /\ editing /\ Len(body) < bound.length
    /\ t \in Word /\ body # <<>> => Last(body) \notin Word
    /\ body' = Append(body, t)
    /\ UNCHANGED <<editing, commands, pyu, rbText, parsedWith, bound>>

Close ==
    /\ editing /\ editing' = FALSE
    /\ commands' = ParseBody
    /\ parsedWith' = pyu
    /\ UNCHANGED <<body, pyu, rbText, bound>>

ChangeBoard ==
    /\ ~editing
    /\ \/ "pyu" \in bound.changes /\ pyu' = ~pyu /\ UNCHANGED rbText
       \/ "rbText" \in bound.changes /\ rbText' = ~rbText /\ UNCHANGED pyu
    /\ UNCHANGED <<body, editing, commands, parsedWith, bound>>

Next == Close \/ ChangeBoard \/ \E t \in bound.tokens : Type(t)

Spec == Init /\ [][Next]_vars

(***************************************************************************)
(* Properties.                                                             *)
(***************************************************************************)
\* The tags that are open after each element of a page; <<"wrong">> if one is closed
\* that was not opened last
Nest(stack, e) == CASE e[1] = "open" -> Append(stack, e[2])
                    [] e[1] = "close" -> IF stack # <<>> /\ Last(stack) = e[2] THEN Front(stack)
                                         ELSE <<"wrong">>
                    [] OTHER -> stack

Nested(out) == FoldLeft(Nest, <<>>, out) = <<>>

\* What the author has asked for at token k: marks between here and the beginning of
\* the text, outside of code, that are there an odd number of times
CountTo(k, P(_)) == Len(SelectSeq(SubSeq(Positions, 1, k - 1), P))
InCode(k) == CountTo(k, LAMBDA j : body[j] = "code") % 2 = 1
Asked(k) == {l \in 1..5 : (l > 3 => rbText)
                          /\ CountTo(k, LAMBDA j : body[j] = Mark[l] /\ ~InCode(j)) % 2 = 1}

Formats(k) == (IF Quoted(k) THEN <<"em">> ELSE <<>>) \o [n \in DOMAIN From(Asked(k), 1) |-> Tag[From(Asked(k), 1)[n]]]

IsText(e) == e[1] \in {"text", "result"}

\* Words, and the marks that are code, are on the page once and in order
WordsKept(out) ==
    LET texts == SelectSeq(out, IsText)
        words == SelectSeq(Positions, LAMBDA k : body[k] \notin {"code", "nl"}
                                                 /\ (body[k] \in ToSet(Mark) => InCode(k)))
    IN  [n \in DOMAIN texts |-> texts[n][2]] = words

\* body.go:169, "Open and close any tags up to level, if they are set": tags are closed
\* in the order they were opened in, whatever the formats, quotes and code blocks
\* of a text and their order, and each word is under the formats that were typed
FormattedAsTyped(out) ==
    /\ Nested(out)
    /\ \A n \in DOMAIN out : IsText(out[n]) =>
          IsPrefix(Formats(out[n][2]), FoldLeft(Nest, <<>>, SubSeq(out, 1, n - 1)))
    /\ (\A k \in DOMAIN body : body[k] \notin Command) => WordsKept(out)

\* A code block that ends with a word of one letter gets a tag too many
TagsAreNested == LET server == streambody IN ~server.lone => FormattedAsTyped(server.out)

\* A command in code or next to a mark is counted by one of the parsers only
CommandsApart == \A k \in DOMAIN body : body[k] \in Command => Apart(k) /\ ~InCode(k)

Shown(out) == {<<e[2], e[3]>> : e \in {f \in ToSet(out) : f[1] = "result"}}

\* body.go:554, "Protect from index shifts on boardConfig.pyu toggle": on a board that
\* had #pyu when the post was closed, no word is lost or written twice and each command
\* that shows a result shows its own, on both pages, also when #pyu is off by now
OwnResults(out) ==
    /\ WordsKept(out)
    /\ \A r \in Shown(out) : r[2] # None /\ commands[r[2]] = <<body[r[1]], r[1]>>
    /\ \A n \in DOMAIN commands : (commands[n][1] \in Counting => pyu) => <<commands[n][2], n>> \in Shown(out)

NoLargeDice == \A k \in DOMAIN body : body[k] # "#dice"

ResultsAreOwn ==
    ~editing /\ parsedWith /\ CommandsApart /\ (pyu \/ NoLargeDice) =>
        OwnResults(streambody.out) /\ OwnResults(renderBody.out) /\ ~renderBody.thrown

RECURSIVE FromText(_)
FromText(out) == IF out # <<>> /\ Head(out) = <<"br">> THEN FromText(Tail(out)) ELSE out

\* A post looks the same on a page of the server and in a browser that has it from
\* a message, but for line breaks at the top
PagesAgree ==
    ~editing /\ parsedWith /\ CommandsApart /\ (pyu \/ NoLargeDice) =>
        FromText(streambody.out) = FromText(renderBody.out)

\* code.go:337, "close open tag": the tags of a code block are closed as they were opened
CodeIsNested == Nested(streambody.out)

\* body.go:554, the same of boards that switched #pyu on, or never had it
IndexNeverShifts == ~editing /\ CommandsApart /\ NoLargeDice => OwnResults(streambody.out)
=============================================================================
