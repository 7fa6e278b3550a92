---------------------------- MODULE TextCommand ----------------------------
(***************************************************************************)
(* The language of commands (core/text_command.rl): one command on a line, *)
(*     a(1)      a = Class(1)      a~port => port~b      a || b     # text *)
(* The parser is a Ragel machine that reads character by character and     *)
(* calls the planet while it reads: names are collected in registers       *)
(* (token_, var_, from_port_ ...) and a command is executed on the         *)
(* character after it.  The registers outlive the line, and so does the    *)
(* state of the machine: an argument may contain a string that goes on     *)
(* over several lines.                                                     *)
(*                                                                         *)
(* A character of the model is a token: a whole name, class or value, a    *)
(* run of blanks, or a sign.  Relative names stand for the urls that       *)
(* names_to_urls() makes of them.                                          *)
(***************************************************************************)
EXTENDS Naturals, SequencesExt

CONSTANTS Name,         \* identifiers
          Class,        \* names that begin with a capital
          Value,        \* lists of values other than strings left open
          Line,         \* lines that are typed or read from a file
          MaxText       \* bound: tokens of a line and of those an open string adds

Sign == {"=", "=>", "||", "~", "(", ")", "space", "#", "quote", "nl", "other"}

ASSUME TokenAssumption ==
    /\ Name \cap Class = {} /\ Name \cap Value = {} /\ Class \cap Value = {}
    /\ (Name \cup Class \cup Value) \cap Sign = {}
Token == Name \cup Class \cup Value \cup Sign

\* A run of blanks is one token.
RunsOfBlanks(s) == \A i \in 1..Len(s) - 1 : ~(s[i] = "space" /\ s[i + 1] = "space")

ASSUME LineAssumption ==
    \A line \in Line : line \in Seq(Token \ {"nl"}) /\ RunsOfBlanks(line)

VARIABLES parser,       \* current_state_ and the registers
          calls,        \* history: what the latest line asked the planet for
          refused,      \* history: a syntax error was printed for it
          said          \* history: that line, or lines if it has an open string

textVars == <<parser, calls, refused, said>>

-----------------------------------------------------------------------------
(* The machine: <<state, kind of token, next state, actions>>.             *)

Kind(t) == IF t \in Name THEN "name" ELSE IF t \in Class THEN "class"
           ELSE IF t \in Value THEN "value" ELSE t

\* The links of main: create_link and remove_link differ in their sign only.
LinkMoves ==
    {<<"word", "~", "from_port", <<"set_var", "set_from">>>>,
     <<"from_port", "name", "from", <<"a">>>>,
     <<"from", "space", "from_end", <<"set_var", "set_from_port">>>>,
     <<"to", "space", "to", <<>>>>,
     <<"to", "name", "port_or_end", <<"a">>>>,
     <<"port_or_end", "~", "to_end", <<"set_var", "set_to_port">>>>,
     <<"to_end", "name", "end", <<"a">>>>}
    \cup (UNION {{<<"word", op, "to", <<"set_var", "set_from", "set_op">>>>,
                  <<"var", op, "to", <<"set_op">>>>,
                  <<"from", op, "to", <<"set_var", "set_from_port", "set_op">>>>,
                  <<"from_end", op, "to", <<"set_op">>>>} : op \in {"=>", "||"}})
    \cup (UNION {{<<end, "nl", "main", <<"set_var", "change_link", "prompt">>>>,
                  <<end, "space", "rest", <<"set_var", "change_link">>>>,
                  <<end, "#", "comment", <<"set_var", "change_link">>>>}
                    : end \in {"port_or_end", "end"}})

\* create_instance of main.
CreateMoves ==
    {<<"word", "=", "new", <<"set_var", "set_from">>>>,
     <<"var", "=", "new", <<>>>>,
     <<"new", "space", "new", <<>>>>,
     <<"new", "class", "class", <<"a">>>>,
     <<"class", "(", "new_args", <<"set_class">>>>,
     <<"new_args", ")", "created", <<>>>>,
     <<"new_args", "value", "new_value", <<"params">>>>,
     <<"new_args", "quote", "new_string", <<"params">>>>,
     <<"new_string", "quote", "new_value", <<"params">>>>,
     <<"new_value", ")", "created", <<>>>>,
     <<"created", "nl", "main", <<"create_instance", "prompt">>>>,
     <<"created", "space", "rest", <<"create_instance">>>>,
     <<"created", "#", "comment", <<"create_instance">>>>}

\* execute_command of main.
CommandMoves ==
    {<<"word", "nl", "main", <<"set_method", "execute_command", "prompt">>>>,
     <<"word", "(", "args", <<"set_method">>>>,
     <<"args", ")", "called", <<>>>>,
     <<"args", "value", "arg", <<"params">>>>,
     <<"args", "quote", "string", <<"params">>>>,
     <<"string", "quote", "arg", <<"params">>>>,
     <<"arg", ")", "called", <<>>>>,
     <<"called", "nl", "main", <<"execute_command", "prompt">>>>}

\* The rest of main, and eat_line.
OtherMoves ==
    {<<"main", "name", "word", <<"a">>>>,
     <<"main", "space", "blank", <<>>>>,
     <<"main", "#", "comment", <<>>>>,
     <<"main", "nl", "main", <<"prompt">>>>,
     <<"word", "space", "var", <<"set_var", "set_from">>>>,
     <<"blank", "nl", "main", <<"prompt">>>>,
     <<"rest", "#", "comment", <<>>>>,
     <<"comment", "nl", "main", <<"prompt">>>>,
     <<"eat_line", "nl", "main", <<>>>>}

Moves == LinkMoves \cup CreateMoves \cup CommandMoves \cup OtherMoves

\* States that take whatever is not in the table.
Swallow == [s \in {"string", "new_string", "comment", "eat_line"} |->
               IF s \in {"string", "new_string"} THEN <<"params">> ELSE <<>>]

-----------------------------------------------------------------------------
(* The actions.                                                            *)

\* Mutant: the ports of the latest link stay.
ClearNames(p) == [p EXCEPT !.token = <<>>, !.var = <<>>, !.class = <<>>,
                           !.params = <<>>]

\* clear(): method_, from_node_ and to_node_ keep their values.
Clear(p) == [p EXCEPT !.token = <<>>, !.var = <<>>, !.class = <<>>,
                      !.params = <<>>, !.from_port = <<>>, !.to_port = <<>>]

\* What the planet is asked for: execute_command(), create_instance() and
\* change_link() with the registers they read.
CommandCall(p) == [does |-> "command", method |-> p.method, params |-> p.params]
CreateCall(p) == [does |-> "new", var |-> p.var, class |-> p.class, params |-> p.params]
LinkCall(p) == [does |-> p.op, from_node |-> p.from_node, from_port |-> p.from_port,
                to_node |-> p.var, to_port |-> p.to_port]

\* One action on the machine m, a record of the parser and what it did.
Perform(m, action, t) ==
    LET p == m.parser
        to(q) == [m EXCEPT !.parser = q]
        moved(q) == to([q EXCEPT !.token = <<>>])
        asks(call) == [m EXCEPT !.calls = Append(@, call)]
    IN  CASE action = "a" -> to([p EXCEPT !.token = Append(@, t)])
          [] action = "params" -> to([p EXCEPT !.params = Append(@, t)])
          [] action = "set_var" -> moved([p EXCEPT !.var = p.token])
          [] action = "set_method" -> moved([p EXCEPT !.method = p.token])
          [] action = "set_class" -> moved([p EXCEPT !.class = p.token])
          [] action = "set_from" -> to([p EXCEPT !.from_node = p.var])
          [] action = "set_from_port" -> to([p EXCEPT !.from_port = p.var])
          [] action = "set_to_port" -> to([p EXCEPT !.to_port = p.var])
          [] action = "set_op" -> to([p EXCEPT !.op = t])
          [] action = "change_link" ->
                [asks(LinkCall(p)) EXCEPT !.parser.to_node = p.var]
          [] action = "create_instance" -> asks(CreateCall(p))
          [] action = "execute_command" -> asks(CommandCall(p))
          [] action = "prompt" -> to(Clear(p))

Performed(m, actions, t) ==
    LET after[k \in 0..Len(actions)] ==
            IF k = 0 THEN m ELSE Perform(after[k - 1], actions[k], t)
    IN  after[Len(actions)]

\* Mutant: the machine stays where it was, the error is only printed.
PrintOnly(m, t) == [m EXCEPT !.refused = TRUE, !.parser = Clear(m.parser)]

\* The error action: print, clear() and read the same character once more in
\* eat_line, where only the end of the line matters.
SyntaxError(m, t) ==
    [m EXCEPT !.refused = TRUE,
              !.parser = [Clear(m.parser) EXCEPT
                            !.cs = IF t = "nl" THEN "main" ELSE "eat_line"]]

\* One character.
Step(m, t) ==
    LET cs == m.parser.cs
        moves == {move \in Moves : move[1] = cs /\ move[2] = Kind(t)}
    IN  IF moves # {}
        THEN LET move == CHOOSE move \in moves : TRUE
             IN  [Performed(m, move[4], t) EXCEPT !.parser.cs = move[3]]
        ELSE IF cs \in DOMAIN Swallow THEN Performed(m, Swallow[cs], t)
        ELSE SyntaxError(m, t)

\* parse(): one character after the other.
Run(m, text) ==
    LET after[k \in 0..Len(text)] ==
            IF k = 0 THEN m ELSE Step(after[k - 1], text[k])
    IN  after[Len(text)]

InString == parser.cs \in {"string", "new_string"}

\* listen(): getline() returns; nothing was read of the new line yet.
Getline ==
    /\ said # <<>>
    /\ ~InString
    /\ calls' = <<>>
    /\ refused' = FALSE
    /\ said' = <<>>
    /\ UNCHANGED parser

\* listen(): parse(line), then parse("\n").
Parse(line) ==
    LET text == Append(line, "nl")
        after == Run([parser |-> parser, calls |-> calls, refused |-> refused], text)
    IN  /\ said = <<>> \/ InString
        /\ Len(said) + Len(text) <= MaxText
        /\ parser' = after.parser
        /\ calls' = after.calls
        /\ refused' = after.refused
        /\ said' = said \o text

-----------------------------------------------------------------------------
TextInit ==
    /\ parser = [cs |-> "main", op |-> "=>", token |-> <<>>, var |-> <<>>,
                 method |-> <<>>, class |-> <<>>, params |-> <<>>,
                 from_node |-> <<>>, from_port |-> <<>>,
                 to_node |-> <<>>, to_port |-> <<>>]
    /\ calls = <<>>
    /\ refused = FALSE
    /\ said = <<>>

TextNext == Getline \/ \E line \in Line : Parse(line)

TextSpec == TextInit /\ [][TextNext]_textVars

-----------------------------------------------------------------------------
(* What a line means.                                                      *)

Blank == {<<>>, <<"space">>}

\* A node with or without a port.
FromEnd(node, port) == IF port = <<>> THEN node ELSE node \o <<"~">> \o port
ToEnd(node, port) == IF port = <<>> THEN node ELSE port \o <<"~">> \o node

\* The ways to write a call.
Spellings(c) ==
    CASE c.does = "command" ->
            {c.method \o <<"(">> \o c.params \o <<")">>}
            \cup (IF c.params = <<>> THEN {c.method} ELSE {})
      [] c.does = "new" ->
            {c.var \o b1 \o <<"=">> \o b2 \o c.class \o <<"(">> \o c.params \o <<")">>
                : b1 \in Blank, b2 \in Blank}
      [] c.does \in {"=>", "||"} ->
            {FromEnd(c.from_node, c.from_port) \o b1 \o <<c.does>> \o b2
                \o ToEnd(c.to_node, c.to_port) : b1 \in Blank, b2 \in Blank}

One(set) == {<<x>> : x \in set}

\* What lies between a quote of s and the next one, quotes included.
StringsIn(s) ==
    LET quotes == {k \in DOMAIN s : s[k] = "quote"}
    IN  {SubSeq(s, q[1], q[2]) :
            q \in {q \in quotes \X quotes :
                     q[1] < q[2] /\ quotes \cap ((q[1] + 1)..(q[2] - 1)) = {}}}

\* The calls that the text s could be about.
CallsIn(s) ==
    LET params == {<<>>} \cup One(Value) \cup StringsIn(s)
        port == {<<>>} \cup One(Name)
    IN  [does : {"command"}, method : One(Name), params : params]
        \cup [does : {"new"}, var : One(Name), class : One(Class), params : params]
        \cup [does : {"=>", "||"}, from_node : One(Name), from_port : port,
              to_node : One(Name), to_port : port]

\* A command stands alone on its line.  A link and a new node are done as
\* soon as a blank or a comment follows, whatever comes after it.
Asks(s, c) ==
    \E w \in Spellings(c) :
        /\ IsPrefix(w, s)
        /\ s[Len(w) + 1] \in IF c.does = "command" THEN {"nl"} ELSE {"nl", "space", "#"}
        /\ c.does = "command" => Len(s) = Len(w) + 1

\* Nothing but blanks, or a comment that begins at the very start.
IsSilent(s) == s \in {<<"nl">>, <<"space", "nl">>} \/ s[1] = "#"

\* A call, and after a link or a new node nothing or a comment.
IsSentence(s) ==
    \/ IsSilent(s)
    \/ \E c \in CallsIn(s) : \E w \in Spellings(c) :
          /\ IsPrefix(w, s)
          /\ LET rest == SubSeq(s, Len(w) + 1, Len(s))
             IN  \/ rest = <<"nl">>
                 \/ c.does # "command" /\ (rest[1] = "#" \/ (rest[1] = "space" /\ rest[2] = "#"))

-----------------------------------------------------------------------------
(* Properties.                                                             *)

\* text_command.rl:186 (main): a line asks the planet for exactly what is
\* written on it, once; no name, port or argument of an earlier line, refused
\* or not, gets into it, also when an argument goes on over several lines.
CallsAsWritten ==
    ~InString /\ said # <<>> =>
                 \/ calls = <<>> /\ \A c \in CallsIn(said) : ~Asks(said, c)
                 \/ \E c \in CallsIn(said) : calls = <<c>> /\ Asks(said, c)

\* An error is printed for a line if and only if it is not in the language,
\* and the parser is back at the start of a line after it.
ErrorsPrinted ==
    ~InString /\ said # <<>> =>
        (refused <=> ~IsSentence(said)) /\ parser.cs = "main"
=============================================================================
