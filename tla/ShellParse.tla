----------------------------- MODULE ShellParse -----------------------------
(***************************************************************************)
(* What the shell takes a line to say (userspace/sh/src/parse.rs): quotes, *)
(* expansions, redirections and ";" turned into commands.                  *)
(*                                                                         *)
(* A line is a sequence of characters; a program types it one by one, so   *)
(* that every line up to MaxLine over Alphabet is a state, and each        *)
(* property compares what the parser makes of lines built from it.  Words  *)
(* are sequences of characters too; every variable is named by one letter. *)
(***************************************************************************)
EXTENDS Naturals, Sequences

CONSTANTS Alphabet, MaxLine

VARIABLE line

Letters == {"a", "b"}
Blanks == {" "}
\* The characters that have a meaning of their own outside quotes.
Special == {" ", ";", "<", ">", "'", "\"", "\\", "$", "#"}

Unterminated == [error |-> "UnterminatedQuote"]
MissingTarget == [error |-> "MissingRedirectTarget"]
BadSubstitution == [error |-> "BadSubstitution"]
IsError(r) == "error" \in DOMAIN r

\* The character at i, or "end".
At(l, i) == IF i <= Len(l) THEN l[i] ELSE "end"

\* Where the run of name characters from i ends (is_name).
NameEnd(l, i) == CHOOSE j \in i .. Len(l) + 1 :
                    /\ At(l, j) \notin Letters
                    /\ \A k \in i .. j - 1 : l[k] \in Letters

---------------------------------------------------------------------------

\* expand, from after the "$": the value, and where the rest of the line starts.
Expand(l, i, vars) ==
    LET value(name) == IF name \in DOMAIN vars THEN vars[name] ELSE << >>
        nameTo(from, to) == SubSeq(l, from, to)
    IN  CASE At(l, i) = "?" -> [text |-> value(<< "?" >>), next |-> i + 1]
          [] At(l, i) = "{" ->
                LET to == NameEnd(l, i + 1)
                IN  IF At(l, to) = "}" /\ to > i + 1
                    THEN [text |-> value(nameTo(i + 1, to - 1)), next |-> to + 1]
                    ELSE BadSubstitution
          [] At(l, i) \in Letters ->
                [text |-> value(nameTo(i, NameEnd(l, i) - 1)), next |-> NameEnd(l, i)]
          [] OTHER -> [text |-> << "$" >>, next |-> i]

\* The inside of '...': from i to the next quote, as it is.
Single(l, i) ==
    LET ends == {j \in i .. Len(l) : l[j] = "'"}
    IN  IF ends = {} THEN Unterminated
        ELSE LET j == CHOOSE e \in ends : \A f \in ends : e <= f
             IN  [text |-> SubSeq(l, i, j - 1), next |-> j + 1]

\* Seeded fault: a backslash does not escape a backslash.
DoubleEscape_NotItself(c) == IF c \in {"\"", "$"} THEN << c >> ELSE << "\\", c >>

\* What a backslash and the character c stand for in "...".
DoubleEscape(c) == IF c \in {"\"", "\\", "$"} THEN << c >> ELSE << "\\", c >>

\* The inside of "...", after the text so far.
RECURSIVE Double(_, _, _, _)
Double(l, i, vars, text) ==
    CASE At(l, i) = "end" -> Unterminated
      [] At(l, i) = "\"" -> [text |-> text, next |-> i + 1]
      [] At(l, i) = "\\" -> IF At(l, i + 1) = "end" THEN Unterminated
                            ELSE Double(l, i + 2, vars, text \o DoubleEscape(l[i + 1]))
      [] At(l, i) = "$" -> LET e == Expand(l, i + 1, vars)
                           IN  IF IsError(e) THEN e ELSE Double(l, e.next, vars, text \o e.text)
      [] OTHER -> Double(l, i + 1, vars, Append(text, l[i]))

\* A word being read: its text, whether there is one, and whether any of it was quoted.
NoWord == [text |-> << >>, open |-> FALSE, quoted |-> FALSE]
More(word, text, quoted) ==
    [text |-> word.text \o text, open |-> TRUE, quoted |-> word.quoted \/ quoted]


\* finish: an unquoted word that came to nothing is dropped.
Finish(tokens, word) ==
    IF word.open /\ (word.text # << >> \/ word.quoted)
    THEN Append(tokens, [kind |-> "word", text |-> word.text]) ELSE tokens

\* tokenize, from i on
RECURSIVE Tokens(_, _, _, _, _)
Tokens(l, i, vars, tokens, word) ==
    LET done == Finish(tokens, word)
        after(r, quoted) ==
            IF IsError(r) THEN r
            ELSE Tokens(l, r.next, vars, tokens, More(word, r.text, quoted))
        mark(kind, n) == Tokens(l, i + n, vars, Append(done, [kind |-> kind]), NoWord)
        c == At(l, i)
    IN  CASE c = "end" \/ (c = "#" /\ ~ word.open) -> [tokens |-> done]
          [] c \in Blanks -> Tokens(l, i + 1, vars, done, NoWord)
          [] c = ";" -> mark(";", 1)
          [] c = "<" -> mark("<", 1)
          [] c = ">" -> IF At(l, i + 1) = ">" THEN mark(">>", 2) ELSE mark(">", 1)
          [] c = "'" -> after(Single(l, i + 1), TRUE)
          [] c = "\"" -> after(Double(l, i + 1, vars, << >>), TRUE)
          [] c = "\\" -> after([text |-> SubSeq(l, i + 1, IF i < Len(l) THEN i + 1 ELSE i),
                               next |-> i + 2], TRUE)
          [] c = "$" -> after(Expand(l, i + 1, vars), FALSE)
          [] OTHER -> after([text |-> << c >>, next |-> i + 1], FALSE)

Empty == [words |-> << >>, redirects |-> << >>]
\* Commands with the one being read, unless it is empty.
Closed(commands, current) == IF current = Empty THEN commands ELSE Append(commands, current)

\* parse, from token i on
RECURSIVE Commands(_, _, _, _)
Commands(tokens, i, commands, current) ==
    IF i > Len(tokens) THEN [commands |-> Closed(commands, current)]
    ELSE LET t == tokens[i] IN
         CASE t.kind = "word" ->
                Commands(tokens, i + 1, commands, [current EXCEPT !.words = Append(@, t.text)])
           [] t.kind = ";" -> Commands(tokens, i + 1, Closed(commands, current), Empty)
           [] OTHER ->
                IF i < Len(tokens) /\ tokens[i + 1].kind = "word"
                THEN Commands(tokens, i + 2, commands,
                              [current EXCEPT !.redirects =
                                Append(@, [kind |-> t.kind, target |-> tokens[i + 1].text])])
                ELSE MissingTarget

Parse(l, vars) ==
    LET t == Tokens(l, 1, vars, << >>, NoWord)
    IN  IF IsError(t) THEN t ELSE Commands(t.tokens, 1, << >>, Empty)

---------------------------------------------------------------------------

Init == line = << >>

Type(c) == Len(line) < MaxLine /\ line' = Append(line, c)

Next == \E c \in Alphabet : Type(c)

Spec == Init /\ [][Next]_line

---------------------------------------------------------------------------
(* Properties *)

NoVars == [name \in {} |-> << >>]
OneWord(text) == [commands |-> << [words |-> << text >>, redirects |-> << >>] >>]
\* A text with a backslash before each of its characters, or before those in `which`.
Escaped(text, which) ==
    LET e[i \in 0 .. Len(text)] ==
            IF i = 0 THEN << >>
            ELSE e[i - 1] \o (IF text[i] \in which THEN << "\\", text[i] >> ELSE << text[i] >>)
    IN  e[Len(text)]

\* Any text can be said literally in three ways, and is then one word, whatever it holds: in '...'
\* (without a quote of that kind), in "..." with a backslash before each ", \ and $, and with a
\* backslash before each special character.
QuotingWorks ==
    /\ (\A i \in DOMAIN line : line[i] # "'") =>
            Parse(<< "'" >> \o line \o << "'" >>, NoVars) = OneWord(line)
    /\ Parse(<< "\"" >> \o Escaped(line, {"\"", "\\", "$"}) \o << "\"" >>, NoVars) = OneWord(line)
    /\ line # << >> => Parse(Escaped(line, Special), NoVars) = OneWord(line)

\* What a variable holds is never parsed: a word of its own, one when quoted even if it is empty,
\* none at all when not.  "$?" is no different after a ";": the status from before the line.
ExpansionsWhole ==
    LET vars == [name \in {<< "a" >>, << "?" >>} |-> line]
    IN  /\ Parse(<< "\"", "$", "a", "\"" >>, vars) = OneWord(line)
        /\ Parse(<< "$", "{", "a", "}" >>, vars) =
                IF line = << >> THEN [commands |-> << >>] ELSE OneWord(line)
        /\ Parse(<< "b", "$", "a", ";", "b" >>, vars) =
                [commands |-> OneWord(<< "b" >> \o line).commands \o OneWord(<< "b" >>).commands]
        /\ Parse(<< "b", ";", "b", "$", "?" >>, vars) =
                [commands |-> OneWord(<< "b" >>).commands \o OneWord(<< "b" >> \o line).commands]

\* A ";" between two lines joins their commands: what the first says does not change what the
\* second says (as long as the first is whole, is not a comment and does not escape the ";").
LinesCompose ==
    \A i \in DOMAIN line :
        LET first == SubSeq(line, 1, i - 1)
            second == SubSeq(line, i + 1, Len(line))
            a == Parse(first, NoVars)
            b == Parse(second, NoVars)
        IN  /\ line[i] = ";" /\ ~ IsError(a)
            /\ \A j \in DOMAIN first : first[j] # "#"
            /\ first # << >> => first[Len(first)] # "\\"
            => Parse(line, NoVars) =
                    IF IsError(b) THEN b ELSE [commands |-> a.commands \o b.commands]

=============================================================================
