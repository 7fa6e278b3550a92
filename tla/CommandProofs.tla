--------------------------- MODULE CommandProofs ---------------------------
(***************************************************************************)
(* Theorems about commands: the language they are written in, for every    *)
(* set of names, classes, values and lines, and the threads that read them *)
(* from the start of a planet to its end, however they interleave.         *)
(***************************************************************************)
EXTENDS TextCommand, PlanetLife, ListProofs

-----------------------------------------------------------------------------
(* The machine.                                                            *)

State == {"main", "blank", "word", "var", "from_port", "from", "from_end", "to",
          "port_or_end", "to_end", "end", "new", "class", "new_args", "new_string",
          "new_value", "created", "args", "string", "arg", "called", "rest",
          "comment", "eat_line"}

Action == {"a", "params", "set_var", "set_method", "set_class", "set_from",
           "set_from_port", "set_to_port", "set_op", "change_link",
           "create_instance", "execute_command", "prompt"}

Text == Seq(Token)

CallRecord ==
    [does : {"command"}, method : Text, params : Text]
    \cup [does : {"new"}, var : Text, class : Text, params : Text]
    \cup [does : Token, from_node : Text, from_port : Text,
          to_node : Text, to_port : Text]

Parser ==
    [cs : State, op : Token, token : Text, var : Text, method : Text, class : Text,
     params : Text, from_node : Text, from_port : Text, to_node : Text, to_port : Text]

Machine == [parser : Parser, calls : Seq(CallRecord), refused : BOOLEAN]

\* A token is of one kind, and a sign is its own.
LEMMA Kinds ==
    /\ \A t \in Name : Kind(t) = "name"
    /\ \A t \in Class : Kind(t) = "class"
    /\ \A t \in Value : Kind(t) = "value"
    /\ \A t \in Sign : Kind(t) = t
BY TokenAssumption DEF Kind

LEMMA ClearKeeps == \A p \in Parser : Clear(p) \in Parser
<1>1. <<>> \in Text
  BY DEF Text
<1>2. QED
  BY <1>1 DEF Clear, Parser

LEMMA PerformKeeps ==
    ASSUME NEW m \in Machine, NEW action \in Action, NEW t \in Token
    PROVE  Perform(m, action, t) \in Machine
<1> DEFINE p == m.parser
<1>1. /\ p \in Parser /\ m.calls \in Seq(CallRecord) /\ m.refused \in BOOLEAN
      /\ m = [parser |-> p, calls |-> m.calls, refused |-> m.refused]
  BY DEF Machine
<1>2. <<>> \in Text
  BY DEF Text
<1>3. /\ p.op \in Token
      /\ {p.token, p.var, p.method, p.class, p.params, p.from_node, p.from_port,
          p.to_node, p.to_port} \subseteq Text
  BY <1>1 DEF Parser
<1>4. ASSUME NEW q \in Parser PROVE [m EXCEPT !.parser = q] \in Machine
  BY DEF Machine
<1>5. ASSUME NEW c \in CallRecord PROVE [m EXCEPT !.calls = Append(@, c)] \in Machine
  BY <1>1 DEF Machine
<1>6. CASE action \in {"a", "params"}
  <2>1. Append(p.token, t) \in Text /\ Append(p.params, t) \in Text
    BY <1>3 DEF Text
  <2>2. /\ [p EXCEPT !.token = Append(p.token, t)] \in Parser
        /\ [p EXCEPT !.params = Append(p.params, t)] \in Parser
    BY <1>1, <2>1 DEF Parser
  <2>3. QED
    BY <1>4, <1>6, <2>2 DEF Perform
<1>7. CASE action \in {"set_var", "set_method", "set_class"}
  <2>1. /\ [[p EXCEPT !.var = p.token] EXCEPT !.token = <<>>] \in Parser
        /\ [[p EXCEPT !.method = p.token] EXCEPT !.token = <<>>] \in Parser
        /\ [[p EXCEPT !.class = p.token] EXCEPT !.token = <<>>] \in Parser
    BY <1>1, <1>2, <1>3 DEF Parser
  <2>2. QED
    BY <1>4, <1>7, <2>1 DEF Perform
<1>8. CASE action \in {"set_from", "set_from_port", "set_to_port", "set_op"}
  <2>1. /\ [p EXCEPT !.from_node = p.var] \in Parser
        /\ [p EXCEPT !.from_port = p.var] \in Parser
        /\ [p EXCEPT !.to_port = p.var] \in Parser
        /\ [p EXCEPT !.op = t] \in Parser
    BY <1>1, <1>3 DEF Parser
  <2>2. QED
    BY <1>4, <1>8, <2>1 DEF Perform
<1>9. CASE action = "change_link"
  <2> DEFINE q == [p EXCEPT !.to_node = p.var]
  <2>1. LinkCall(p) \in CallRecord
    BY <1>3 DEF LinkCall, CallRecord
  <2>2. q \in Parser
    BY <1>1, <1>3 DEF Parser
  <2>3. Perform(m, action, t) = [[m EXCEPT !.calls = Append(@, LinkCall(p))] EXCEPT !.parser = q]
    BY <1>1, <1>9 DEF Perform, Machine
  <2>4. QED
    BY <1>5, <2>1, <2>2, <2>3 DEF Machine
<1>10. CASE action \in {"create_instance", "execute_command"}
  <2>1. CreateCall(p) \in CallRecord /\ CommandCall(p) \in CallRecord
    BY <1>3 DEF CreateCall, CommandCall, CallRecord
  <2>2. QED
    BY <1>5, <1>10, <2>1 DEF Perform
<1>11. CASE action = "prompt"
  BY <1>1, <1>4, <1>11, ClearKeeps DEF Perform
<1>12. QED
  BY <1>6, <1>7, <1>8, <1>9, <1>10, <1>11 DEF Action

\* The actions of a move, one after the other.
LEMMA PerformedIs ==
    ASSUME NEW m \in Machine, NEW actions \in Seq(Action), NEW t \in Token
    PROVE  \E g \in [0..Len(actions) -> Machine] :
              /\ g[0] = m
              /\ \A k \in 1..Len(actions) : g[k] = Perform(g[k - 1], actions[k], t)
              /\ Performed(m, actions, t) = g[Len(actions)]
<1> DEFINE n == Len(actions)
           after[k \in 0..n] ==
              IF k = 0 THEN m ELSE Perform(after[k - 1], actions[k], t)
           step == [k \in 1..n |-> [x \in Machine |-> Perform(x, actions[k], t)]]
<1>1. n \in Nat /\ \A k \in 1..n : actions[k] \in Action
  BY ElementsOf
<1>2. \A k \in 1..n, x \in Machine : Perform(x, actions[k], t) \in Machine
  BY <1>1, PerformKeeps
<1>3. step \in [1..n -> [Machine -> Machine]]
  BY <1>1, <1>2
<1>4. \A k \in 1..n, x \in Machine : step[k][x] = Perform(x, actions[k], t)
  OBVIOUS
<1> HIDE DEF step
<1>5. PICK g \in [0..n -> Machine] :
         g[0] = m /\ \A k \in 1..n : g[k] = step[k][g[k - 1]]
  <2>1. \E g : Recursion(g, n, Machine, m, step)
    BY <1>1, <1>3, RecursionExists
  <2>2. QED
    BY <2>1 DEF Recursion
<1>6. \A k \in 1..n : g[k] = Perform(g[k - 1], actions[k], t)
  <2>1. \A k \in 1..n : g[k - 1] \in Machine
    BY <1>1, <1>5
  <2>2. QED
    BY <2>1, <1>4, <1>5
<1>7. g = [k \in 0..n |-> IF k = 0 THEN m ELSE Perform(g[k - 1], actions[k], t)]
  <2>1. \A k \in 0..n : k = 0 \/ k \in 1..n
    BY <1>1
  <2>2. \A k \in 0..n : g[k] = IF k = 0 THEN m ELSE Perform(g[k - 1], actions[k], t)
    BY <2>1, <1>5, <1>6
  <2>3. QED
    BY <1>5, <2>2
<1>8. after = [k \in 0..n |-> IF k = 0 THEN m ELSE Perform(after[k - 1], actions[k], t)]
  BY <1>7
<1>9. Performed(m, actions, t) = after[n]
  BY DEF Performed
<1> HIDE DEF after
<1> DEFINE G == {k \in 0..n : after[k] = g[k]}
<1>10. after[0] = m /\ \A k \in 1..n : after[k] = Perform(after[k - 1], actions[k], t)
  <2>1. 0 \in 0..n /\ \A k \in 1..n : k \in 0..n /\ k # 0
    BY <1>1
  <2>2. QED
    BY <2>1, <1>8
<1>11. 0 \in G
  BY <1>1, <1>5, <1>10
<1>12. \A k \in 1..n : k - 1 \in G => k \in G
  BY <1>1, <1>6, <1>10
<1>13. 0..n \subseteq G
  <2> HIDE DEF G
  <2>1. QED
    BY <1>1, <1>11, <1>12, UpTo
<1>14. after[n] = g[n]
  BY <1>1, <1>13
<1>15. QED
  BY <1>5, <1>6, <1>9, <1>14

LEMMA PerformedKeeps ==
    ASSUME NEW m \in Machine, NEW actions \in Seq(Action), NEW t \in Token
    PROVE  Performed(m, actions, t) \in Machine
<1>1. Len(actions) \in 0..Len(actions)
  BY LenProperties
<1>2. QED
  BY <1>1, PerformedIs

LEMMA PerformedNone ==
    ASSUME NEW m \in Machine, NEW t \in Token
    PROVE  Performed(m, <<>>, t) = m
<1> DEFINE actions == <<>>
<1>1. actions \in Seq(Action) /\ Len(actions) = 0
  OBVIOUS
<1> HIDE DEF actions
<1>2. PICK g \in [0..Len(actions) -> Machine] :
         /\ g[0] = m
         /\ \A k \in 1..Len(actions) : g[k] = Perform(g[k - 1], actions[k], t)
         /\ Performed(m, actions, t) = g[Len(actions)]
  BY <1>1, PerformedIs, ZenonT(60)
<1>3. QED
  BY <1>1, <1>2 DEF actions

LEMMA PerformedOne ==
    ASSUME NEW m \in Machine, NEW t \in Token, NEW a \in Action
    PROVE  Performed(m, <<a>>, t) = Perform(m, a, t)
<1>1. <<a>> \in Seq(Action) /\ Len(<<a>>) = 1
  OBVIOUS
<1>2. PICK g : g[0] = m /\ (\A k \in 1..1 : g[k] = Perform(g[k - 1], <<a>>[k], t))
               /\ Performed(m, <<a>>, t) = g[1]
  <2> DEFINE actions == <<a>>
  <2>1. actions \in Seq(Action) /\ Len(actions) = 1
    BY <1>1
  <2> HIDE DEF actions
  <2>2. PICK g : g[0] = m /\ (\A k \in 1..1 : g[k] = Perform(g[k - 1], actions[k], t))
                 /\ Performed(m, actions, t) = g[1]
    BY <2>1, PerformedIs
  <2>3. QED
    BY <2>2 DEF actions
<1>3. QED
  BY <1>2

LEMMA PerformedTwo ==
    ASSUME NEW m \in Machine, NEW t \in Token, NEW a \in Action, NEW b \in Action
    PROVE  Performed(m, <<a, b>>, t) = Perform(Perform(m, a, t), b, t)
<1>1. <<a, b>> \in Seq(Action) /\ Len(<<a, b>>) = 2
  OBVIOUS
<1>2. PICK g : g[0] = m /\ (\A k \in 1..2 : g[k] = Perform(g[k - 1], <<a, b>>[k], t))
               /\ Performed(m, <<a, b>>, t) = g[2]
  <2> DEFINE actions == <<a, b>>
  <2>1. actions \in Seq(Action) /\ Len(actions) = 2
    BY <1>1
  <2> HIDE DEF actions
  <2>2. PICK g : g[0] = m /\ (\A k \in 1..2 : g[k] = Perform(g[k - 1], actions[k], t))
                 /\ Performed(m, actions, t) = g[2]
    BY <2>1, PerformedIs
  <2>3. QED
    BY <2>2 DEF actions
<1>3. 1 \in 1..2 /\ 2 \in 1..2 /\ 1 - 1 = 0 /\ 2 - 1 = 1
  OBVIOUS
<1>4. g[1] = Perform(m, a, t) /\ g[2] = Perform(g[1], b, t)
  BY <1>2, <1>3
<1>5. QED
  BY <1>2, <1>4

LEMMA PerformedThree ==
    ASSUME NEW m \in Machine, NEW t \in Token,
           NEW a \in Action, NEW b \in Action, NEW c \in Action
    PROVE  Performed(m, <<a, b, c>>, t)
             = Perform(Perform(Perform(m, a, t), b, t), c, t)
<1>1. <<a, b, c>> \in Seq(Action) /\ Len(<<a, b, c>>) = 3
  OBVIOUS
<1>2. PICK g : g[0] = m
               /\ (\A k \in 1..3 : g[k] = Perform(g[k - 1], <<a, b, c>>[k], t))
               /\ Performed(m, <<a, b, c>>, t) = g[3]
  <2> DEFINE actions == <<a, b, c>>
  <2>1. actions \in Seq(Action) /\ Len(actions) = 3
    BY <1>1
  <2> HIDE DEF actions
  <2>2. PICK g : g[0] = m /\ (\A k \in 1..3 : g[k] = Perform(g[k - 1], actions[k], t))
                 /\ Performed(m, actions, t) = g[3]
    BY <2>1, PerformedIs
  <2>3. QED
    BY <2>2 DEF actions
<1>3. 1 \in 1..3 /\ 2 \in 1..3 /\ 3 \in 1..3 /\ 1 - 1 = 0 /\ 2 - 1 = 1 /\ 3 - 1 = 2
  OBVIOUS
<1>4. g[1] = Perform(m, a, t) /\ g[2] = Perform(g[1], b, t) /\ g[3] = Perform(g[2], c, t)
  BY <1>2, <1>3
<1>5. QED
  BY <1>2, <1>4

-----------------------------------------------------------------------------
(* The table.                                                              *)

\* The moves of links without the unions over signs and ends.
NameRows ==
    {<<"word", "~", "from_port", <<"set_var", "set_from">>>>,
     <<"from_port", "name", "from", <<"a">>>>,
     <<"from", "space", "from_end", <<"set_var", "set_from_port">>>>,
     <<"to", "space", "to", <<>>>>,
     <<"to", "name", "port_or_end", <<"a">>>>,
     <<"port_or_end", "~", "to_end", <<"set_var", "set_to_port">>>>,
     <<"to_end", "name", "end", <<"a">>>>}

SignRows(op) ==
    {<<"word", op, "to", <<"set_var", "set_from", "set_op">>>>,
     <<"var", op, "to", <<"set_op">>>>,
     <<"from", op, "to", <<"set_var", "set_from_port", "set_op">>>>,
     <<"from_end", op, "to", <<"set_op">>>>}

EndRows(end) ==
    {<<end, "nl", "main", <<"set_var", "change_link", "prompt">>>>,
     <<end, "space", "rest", <<"set_var", "change_link">>>>,
     <<end, "#", "comment", <<"set_var", "change_link">>>>}

LEMMA LinkMovesAre ==
    LinkMoves = NameRows \cup (SignRows("=>") \cup SignRows("||"))
                          \cup (EndRows("port_or_end") \cup EndRows("end"))
<1> DEFINE AllOps == UNION {SignRows(op) : op \in {"=>", "||"}}
           AllEnds == UNION {EndRows(end) : end \in {"port_or_end", "end"}}
<1>1. LinkMoves = NameRows \cup AllOps \cup AllEnds
  BY DEF LinkMoves, NameRows, SignRows, EndRows
<1>2. AllOps = SignRows("=>") \cup SignRows("||")
  OBVIOUS
<1>3. AllEnds = EndRows("port_or_end") \cup EndRows("end")
  OBVIOUS
<1>4. QED
  BY <1>1, <1>2, <1>3

AllRows ==
    NameRows \cup (SignRows("=>") \cup SignRows("||"))
             \cup (EndRows("port_or_end") \cup EndRows("end"))
    \cup CreateMoves \cup CommandMoves \cup OtherMoves

LEMMA MovesInAll == Moves = AllRows
BY LinkMovesAre DEF Moves, AllRows

\* What the table says of a state and a kind of token.
OnlyMove(a, k, c, d) == \A c2, d2 : <<a, k, c2, d2>> \in Moves <=> c2 = c /\ d2 = d

NoMove(a, k) == \A c, d : <<a, k, c, d>> \notin Moves

\* The table, state by state.
LEMMA MainMoves ==
    /\ OnlyMove("main", "name", "word", <<"a">>)
    /\ OnlyMove("main", "space", "blank", <<>>)
    /\ OnlyMove("main", "#", "comment", <<>>)
    /\ OnlyMove("main", "nl", "main", <<"prompt">>)
    /\ \A k : k \notin {"name", "space", "#", "nl"} => NoMove("main", k)
BY MovesInAll DEF AllRows, NameRows, SignRows, EndRows, CreateMoves, CommandMoves, OtherMoves,
                  OnlyMove, NoMove

LEMMA BlankMoves ==
    /\ OnlyMove("blank", "nl", "main", <<"prompt">>)
    /\ \A k : k # "nl" => NoMove("blank", k)
BY MovesInAll DEF AllRows, NameRows, SignRows, EndRows, CreateMoves, CommandMoves, OtherMoves,
                  OnlyMove, NoMove

LEMMA WordMoves ==
    /\ OnlyMove("word", "=>", "to", <<"set_var", "set_from", "set_op">>)
    /\ OnlyMove("word", "||", "to", <<"set_var", "set_from", "set_op">>)
    /\ OnlyMove("word", "~", "from_port", <<"set_var", "set_from">>)
    /\ OnlyMove("word", "=", "new", <<"set_var", "set_from">>)
    /\ OnlyMove("word", "nl", "main", <<"set_method", "execute_command", "prompt">>)
    /\ OnlyMove("word", "(", "args", <<"set_method">>)
    /\ OnlyMove("word", "space", "var", <<"set_var", "set_from">>)
    /\ \A k : k \notin {"=>", "||", "~", "=", "nl", "(", "space"} => NoMove("word", k)
BY MovesInAll DEF AllRows, NameRows, SignRows, EndRows, CreateMoves, CommandMoves, OtherMoves,
                  OnlyMove, NoMove

LEMMA VarMoves ==
    /\ OnlyMove("var", "=>", "to", <<"set_op">>)
    /\ OnlyMove("var", "||", "to", <<"set_op">>)
    /\ OnlyMove("var", "=", "new", <<>>)
    /\ \A k : k \notin {"=>", "||", "="} => NoMove("var", k)
BY MovesInAll DEF AllRows, NameRows, SignRows, EndRows, CreateMoves, CommandMoves, OtherMoves,
                  OnlyMove, NoMove

LEMMA FromPortMoves ==
    /\ OnlyMove("from_port", "name", "from", <<"a">>)
    /\ \A k : k # "name" => NoMove("from_port", k)
BY MovesInAll DEF AllRows, NameRows, SignRows, EndRows, CreateMoves, CommandMoves, OtherMoves,
                  OnlyMove, NoMove

LEMMA FromMoves ==
    /\ OnlyMove("from", "=>", "to", <<"set_var", "set_from_port", "set_op">>)
    /\ OnlyMove("from", "||", "to", <<"set_var", "set_from_port", "set_op">>)
    /\ OnlyMove("from", "space", "from_end", <<"set_var", "set_from_port">>)
    /\ \A k : k \notin {"=>", "||", "space"} => NoMove("from", k)
BY MovesInAll DEF AllRows, NameRows, SignRows, EndRows, CreateMoves, CommandMoves, OtherMoves,
                  OnlyMove, NoMove

LEMMA FromEndMoves ==
    /\ OnlyMove("from_end", "=>", "to", <<"set_op">>)
    /\ OnlyMove("from_end", "||", "to", <<"set_op">>)
    /\ \A k : k \notin {"=>", "||"} => NoMove("from_end", k)
BY MovesInAll DEF AllRows, NameRows, SignRows, EndRows, CreateMoves, CommandMoves, OtherMoves,
                  OnlyMove, NoMove

LEMMA ToMoves ==
    /\ OnlyMove("to", "space", "to", <<>>)
    /\ OnlyMove("to", "name", "port_or_end", <<"a">>)
    /\ \A k : k \notin {"space", "name"} => NoMove("to", k)
BY MovesInAll DEF AllRows, NameRows, SignRows, EndRows, CreateMoves, CommandMoves, OtherMoves,
                  OnlyMove, NoMove

LEMMA PortOrEndMoves ==
    /\ OnlyMove("port_or_end", "~", "to_end", <<"set_var", "set_to_port">>)
    /\ OnlyMove("port_or_end", "nl", "main", <<"set_var", "change_link", "prompt">>)
    /\ OnlyMove("port_or_end", "space", "rest", <<"set_var", "change_link">>)
    /\ OnlyMove("port_or_end", "#", "comment", <<"set_var", "change_link">>)
    /\ \A k : k \notin {"~", "nl", "space", "#"} => NoMove("port_or_end", k)
BY MovesInAll DEF AllRows, NameRows, SignRows, EndRows, CreateMoves, CommandMoves, OtherMoves,
                  OnlyMove, NoMove

LEMMA ToEndMoves ==
    /\ OnlyMove("to_end", "name", "end", <<"a">>)
    /\ \A k : k # "name" => NoMove("to_end", k)
BY MovesInAll DEF AllRows, NameRows, SignRows, EndRows, CreateMoves, CommandMoves, OtherMoves,
                  OnlyMove, NoMove

LEMMA EndMoves ==
    /\ OnlyMove("end", "nl", "main", <<"set_var", "change_link", "prompt">>)
    /\ OnlyMove("end", "space", "rest", <<"set_var", "change_link">>)
    /\ OnlyMove("end", "#", "comment", <<"set_var", "change_link">>)
    /\ \A k : k \notin {"nl", "space", "#"} => NoMove("end", k)
BY MovesInAll DEF AllRows, NameRows, SignRows, EndRows, CreateMoves, CommandMoves, OtherMoves,
                  OnlyMove, NoMove

LEMMA NewMoves ==
    /\ OnlyMove("new", "space", "new", <<>>)
    /\ OnlyMove("new", "class", "class", <<"a">>)
    /\ \A k : k \notin {"space", "class"} => NoMove("new", k)
BY MovesInAll DEF AllRows, NameRows, SignRows, EndRows, CreateMoves, CommandMoves, OtherMoves,
                  OnlyMove, NoMove

LEMMA ClassMoves ==
    /\ OnlyMove("class", "(", "new_args", <<"set_class">>)
    /\ \A k : k # "(" => NoMove("class", k)
BY MovesInAll DEF AllRows, NameRows, SignRows, EndRows, CreateMoves, CommandMoves, OtherMoves,
                  OnlyMove, NoMove

LEMMA NewArgsMoves ==
    /\ OnlyMove("new_args", ")", "created", <<>>)
    /\ OnlyMove("new_args", "value", "new_value", <<"params">>)
    /\ OnlyMove("new_args", "quote", "new_string", <<"params">>)
    /\ \A k : k \notin {")", "value", "quote"} => NoMove("new_args", k)
BY MovesInAll DEF AllRows, NameRows, SignRows, EndRows, CreateMoves, CommandMoves, OtherMoves,
                  OnlyMove, NoMove

LEMMA NewStringMoves ==
    /\ OnlyMove("new_string", "quote", "new_value", <<"params">>)
    /\ \A k : k # "quote" => NoMove("new_string", k)
BY MovesInAll DEF AllRows, NameRows, SignRows, EndRows, CreateMoves, CommandMoves, OtherMoves,
                  OnlyMove, NoMove

LEMMA NewValueMoves ==
    /\ OnlyMove("new_value", ")", "created", <<>>)
    /\ \A k : k # ")" => NoMove("new_value", k)
BY MovesInAll DEF AllRows, NameRows, SignRows, EndRows, CreateMoves, CommandMoves, OtherMoves,
                  OnlyMove, NoMove

LEMMA CreatedMoves ==
    /\ OnlyMove("created", "nl", "main", <<"create_instance", "prompt">>)
    /\ OnlyMove("created", "space", "rest", <<"create_instance">>)
    /\ OnlyMove("created", "#", "comment", <<"create_instance">>)
    /\ \A k : k \notin {"nl", "space", "#"} => NoMove("created", k)
BY MovesInAll DEF AllRows, NameRows, SignRows, EndRows, CreateMoves, CommandMoves, OtherMoves,
                  OnlyMove, NoMove

LEMMA ArgsMoves ==
    /\ OnlyMove("args", ")", "called", <<>>)
    /\ OnlyMove("args", "value", "arg", <<"params">>)
    /\ OnlyMove("args", "quote", "string", <<"params">>)
    /\ \A k : k \notin {")", "value", "quote"} => NoMove("args", k)
BY MovesInAll DEF AllRows, NameRows, SignRows, EndRows, CreateMoves, CommandMoves, OtherMoves,
                  OnlyMove, NoMove

LEMMA StringMoves ==
    /\ OnlyMove("string", "quote", "arg", <<"params">>)
    /\ \A k : k # "quote" => NoMove("string", k)
BY MovesInAll DEF AllRows, NameRows, SignRows, EndRows, CreateMoves, CommandMoves, OtherMoves,
                  OnlyMove, NoMove

LEMMA ArgMoves ==
    /\ OnlyMove("arg", ")", "called", <<>>)
    /\ \A k : k # ")" => NoMove("arg", k)
BY MovesInAll DEF AllRows, NameRows, SignRows, EndRows, CreateMoves, CommandMoves, OtherMoves,
                  OnlyMove, NoMove

LEMMA CalledMoves ==
    /\ OnlyMove("called", "nl", "main", <<"execute_command", "prompt">>)
    /\ \A k : k # "nl" => NoMove("called", k)
BY MovesInAll DEF AllRows, NameRows, SignRows, EndRows, CreateMoves, CommandMoves, OtherMoves,
                  OnlyMove, NoMove

LEMMA RestMoves ==
    /\ OnlyMove("rest", "#", "comment", <<>>)
    /\ \A k : k # "#" => NoMove("rest", k)
BY MovesInAll DEF AllRows, NameRows, SignRows, EndRows, CreateMoves, CommandMoves, OtherMoves,
                  OnlyMove, NoMove

LEMMA CommentMoves ==
    /\ OnlyMove("comment", "nl", "main", <<"prompt">>)
    /\ \A k : k # "nl" => NoMove("comment", k)
BY MovesInAll DEF AllRows, NameRows, SignRows, EndRows, CreateMoves, CommandMoves, OtherMoves,
                  OnlyMove, NoMove

LEMMA EatLineMoves ==
    /\ OnlyMove("eat_line", "nl", "main", <<>>)
    /\ \A k : k # "nl" => NoMove("eat_line", k)
BY MovesInAll DEF AllRows, NameRows, SignRows, EndRows, CreateMoves, CommandMoves, OtherMoves,
                  OnlyMove, NoMove

LEMMA MovesAre == \A x \in Moves : x = <<x[1], x[2], x[3], x[4]>>
<1>1. \A x \in LinkMoves : \E a, b, c, d : x = <<a, b, c, d>>
  BY LinkMovesAre DEF NameRows, SignRows, EndRows
<1>2. \A x \in CreateMoves : \E a, b, c, d : x = <<a, b, c, d>>
  BY DEF CreateMoves
<1>3. \A x \in CommandMoves : \E a, b, c, d : x = <<a, b, c, d>>
  BY DEF CommandMoves
<1>4. \A x \in OtherMoves : \E a, b, c, d : x = <<a, b, c, d>>
  BY DEF OtherMoves
<1>5. QED
  BY <1>1, <1>2, <1>3, <1>4 DEF Moves


\* A machine in another state.
Moved(m, cs) == [m EXCEPT !.parser.cs = cs]

LEMMA StepMoves ==
    ASSUME NEW m \in Machine, NEW t \in Token, NEW c, NEW d,
           OnlyMove(m.parser.cs, Kind(t), c, d)
    PROVE  Step(m, t) = Moved(Performed(m, d, t), c)
<1> DEFINE cs == m.parser.cs
           moves == {move \in Moves : move[1] = cs /\ move[2] = Kind(t)}
           x == <<cs, Kind(t), c, d>>
<1>1. moves = {x}
  <2>1. x \in moves
    BY DEF OnlyMove
  <2>2. ASSUME NEW y \in moves PROVE y = x
    BY MovesAre DEF OnlyMove
  <2>3. QED
    BY <2>1, <2>2
<1>2. (CHOOSE move \in moves : TRUE) = x
  <2> HIDE DEF x, moves
  <2>1. QED
    BY <1>1
<1>3. moves # {}
  BY <1>1
<1>4. x[4] = d /\ x[3] = c
  OBVIOUS
<1> HIDE DEF x
<1>5. QED
  BY <1>2, <1>3, <1>4 DEF Step, Moved

LEMMA StepElse ==
    ASSUME NEW m \in Machine, NEW t \in Token,
           NoMove(m.parser.cs, Kind(t))
    PROVE  /\ m.parser.cs \in {"string", "new_string"} =>
                 Step(m, t) = Performed(m, <<"params">>, t)
           /\ m.parser.cs \in {"comment", "eat_line"} => Step(m, t) = m
           /\ m.parser.cs \notin {"string", "new_string", "comment", "eat_line"} =>
                 Step(m, t) = SyntaxError(m, t)
<1> DEFINE cs == m.parser.cs
<1>1. {move \in Moves : move[1] = cs /\ move[2] = Kind(t)} = {}
  BY MovesAre DEF NoMove
<1>2. /\ DOMAIN Swallow = {"string", "new_string", "comment", "eat_line"}
      /\ \A s \in {"string", "new_string"} : Swallow[s] = <<"params">>
      /\ \A s \in {"comment", "eat_line"} : Swallow[s] = <<>>
  BY DEF Swallow
<1>3. Performed(m, <<>>, t) = m
  BY PerformedNone
<1>4. QED
  BY <1>1, <1>2, <1>3 DEF Step

-----------------------------------------------------------------------------
(* What the actions of the table do together.                              *)

With(m, q) == [m EXCEPT !.parser = q]

Collected(p, t) == [p EXCEPT !.token = Append(@, t)]
ParamsAdded(p, t) == [p EXCEPT !.params = Append(@, t)]
VarSet(p) == [p EXCEPT !.var = p.token, !.token = <<>>]
MethodSet(p) == [p EXCEPT !.method = p.token, !.token = <<>>]
ClassSet(p) == [p EXCEPT !.class = p.token, !.token = <<>>]
FromSet(p) == [p EXCEPT !.from_node = p.var]
FromPortSet(p) == [p EXCEPT !.from_port = p.var]
ToPortSet(p) == [p EXCEPT !.to_port = p.var]
OpSet(p, t) == [p EXCEPT !.op = t]

LEMMA WithIs ==
    ASSUME NEW m \in Machine, NEW q \in Parser
    PROVE  /\ With(m, q) \in Machine
           /\ With(m, q).parser = q
           /\ With(m, q).calls = m.calls
           /\ With(m, q).refused = m.refused
           /\ With(m, m.parser) = m
           /\ \A r : With(With(m, q), r) = With(m, r)
BY DEF With, Machine

\* The new registers are registers again.
LEMMA SetKeeps ==
    ASSUME NEW p \in Parser, NEW t \in Token
    PROVE  {Collected(p, t), ParamsAdded(p, t), VarSet(p), MethodSet(p), ClassSet(p),
            FromSet(p), FromPortSet(p), ToPortSet(p), OpSet(p, t), Clear(p)} \subseteq Parser
<1>1. /\ <<>> \in Text /\ p.token \in Text /\ p.params \in Text /\ p.var \in Text
      /\ Append(p.token, t) \in Text /\ Append(p.params, t) \in Text
  BY DEF Parser, Text
<1>2. Collected(p, t) \in Parser /\ ParamsAdded(p, t) \in Parser
  BY <1>1 DEF Parser, Collected, ParamsAdded
<1>3. VarSet(p) \in Parser /\ MethodSet(p) \in Parser /\ ClassSet(p) \in Parser
  BY <1>1 DEF Parser, VarSet, MethodSet, ClassSet
<1>4. FromSet(p) \in Parser /\ FromPortSet(p) \in Parser
  BY <1>1 DEF Parser, FromSet, FromPortSet
<1>5. ToPortSet(p) \in Parser /\ OpSet(p, t) \in Parser
  BY <1>1 DEF Parser, ToPortSet, OpSet
<1>6. QED
  BY <1>2, <1>3, <1>4, <1>5, ClearKeeps

\* One action on the registers p.
LEMMA PerformIs ==
    ASSUME NEW m \in Machine, NEW t \in Token, NEW p \in Parser
    PROVE  /\ Perform(With(m, p), "a", t) = With(m, Collected(p, t))
           /\ Perform(With(m, p), "params", t) = With(m, ParamsAdded(p, t))
           /\ Perform(With(m, p), "set_var", t) = With(m, VarSet(p))
           /\ Perform(With(m, p), "set_method", t) = With(m, MethodSet(p))
           /\ Perform(With(m, p), "set_class", t) = With(m, ClassSet(p))
           /\ Perform(With(m, p), "set_from", t) = With(m, FromSet(p))
           /\ Perform(With(m, p), "set_from_port", t) = With(m, FromPortSet(p))
           /\ Perform(With(m, p), "set_to_port", t) = With(m, ToPortSet(p))
           /\ Perform(With(m, p), "set_op", t) = With(m, OpSet(p, t))
           /\ Perform(With(m, p), "prompt", t) = With(m, Clear(p))
<1> DEFINE n == With(m, p)
<1>1. n.parser = p /\ \A r : [n EXCEPT !.parser = r] = With(m, r)
  BY WithIs DEF With
<1>2. /\ [[p EXCEPT !.var = p.token] EXCEPT !.token = <<>>] = VarSet(p)
      /\ [[p EXCEPT !.method = p.token] EXCEPT !.token = <<>>] = MethodSet(p)
      /\ [[p EXCEPT !.class = p.token] EXCEPT !.token = <<>>] = ClassSet(p)
  BY DEF Parser, VarSet, MethodSet, ClassSet
<1> HIDE DEF n
<1>3. /\ Perform(n, "a", t) = With(m, Collected(p, t))
      /\ Perform(n, "params", t) = With(m, ParamsAdded(p, t))
  BY <1>1 DEF Perform, Collected, ParamsAdded
<1>4. /\ Perform(n, "set_var", t) = With(m, VarSet(p))
      /\ Perform(n, "set_method", t) = With(m, MethodSet(p))
      /\ Perform(n, "set_class", t) = With(m, ClassSet(p))
  BY <1>1, <1>2 DEF Perform
<1>5. /\ Perform(n, "set_from", t) = With(m, FromSet(p))
      /\ Perform(n, "set_from_port", t) = With(m, FromPortSet(p))
      /\ Perform(n, "set_to_port", t) = With(m, ToPortSet(p))
      /\ Perform(n, "set_op", t) = With(m, OpSet(p, t))
      /\ Perform(n, "prompt", t) = With(m, Clear(p))
  BY <1>1 DEF Perform, FromSet, FromPortSet, ToPortSet, OpSet
<1>6. QED
  BY <1>3, <1>4, <1>5 DEF n

\* The lists of actions that only move what the registers hold.
LEMMA PerformedAre ==
    ASSUME NEW m \in Machine, NEW t \in Token
    PROVE  LET p == m.parser
           IN  /\ Performed(m, <<>>, t) = With(m, p)
               /\ Performed(m, <<"a">>, t) = With(m, Collected(p, t))
               /\ Performed(m, <<"params">>, t) = With(m, ParamsAdded(p, t))
               /\ Performed(m, <<"set_op">>, t) = With(m, OpSet(p, t))
               /\ Performed(m, <<"set_method">>, t) = With(m, MethodSet(p))
               /\ Performed(m, <<"set_class">>, t) = With(m, ClassSet(p))
               /\ Performed(m, <<"prompt">>, t) = With(m, Clear(p))
               /\ Performed(m, <<"set_var", "set_from">>, t) = With(m, FromSet(VarSet(p)))
               /\ Performed(m, <<"set_var", "set_from", "set_op">>, t)
                    = With(m, OpSet(FromSet(VarSet(p)), t))
               /\ Performed(m, <<"set_var", "set_from_port">>, t)
                    = With(m, FromPortSet(VarSet(p)))
               /\ Performed(m, <<"set_var", "set_from_port", "set_op">>, t)
                    = With(m, OpSet(FromPortSet(VarSet(p)), t))
               /\ Performed(m, <<"set_var", "set_to_port">>, t) = With(m, ToPortSet(VarSet(p)))
<1> DEFINE p == m.parser
           q == VarSet(p)
           v == With(m, q)
<1>1. p \in Parser /\ With(m, p) = m
  <2>1. p \in Parser
    BY DEF Machine
  <2>2. QED
    BY <2>1, WithIs
<1>2. q \in Parser /\ FromSet(q) \in Parser /\ FromPortSet(q) \in Parser
  BY <1>1, SetKeeps
<1>3. Perform(m, "set_var", t) = v /\ v \in Machine
  BY <1>1, <1>2, PerformIs, WithIs
<1>4. /\ Performed(m, <<"a">>, t) = Perform(m, "a", t)
      /\ Performed(m, <<"params">>, t) = Perform(m, "params", t)
      /\ Performed(m, <<"set_op">>, t) = Perform(m, "set_op", t)
      /\ Performed(m, <<"set_method">>, t) = Perform(m, "set_method", t)
      /\ Performed(m, <<"set_class">>, t) = Perform(m, "set_class", t)
      /\ Performed(m, <<"prompt">>, t) = Perform(m, "prompt", t)
  BY PerformedOne DEF Action
<1>5. /\ Performed(m, <<"set_var", "set_from">>, t) = Perform(v, "set_from", t)
      /\ Performed(m, <<"set_var", "set_from_port">>, t) = Perform(v, "set_from_port", t)
      /\ Performed(m, <<"set_var", "set_to_port">>, t) = Perform(v, "set_to_port", t)
  BY <1>3, PerformedTwo DEF Action
<1>6. /\ Performed(m, <<"set_var", "set_from", "set_op">>, t)
           = Perform(Perform(v, "set_from", t), "set_op", t)
      /\ Performed(m, <<"set_var", "set_from_port", "set_op">>, t)
           = Perform(Perform(v, "set_from_port", t), "set_op", t)
  <2>1. "set_var" \in Action /\ "set_from" \in Action
        /\ "set_from_port" \in Action /\ "set_op" \in Action
    BY DEF Action
  <2> HIDE DEF v
  <2>2. Performed(m, <<"set_var", "set_from", "set_op">>, t)
          = Perform(Perform(Perform(m, "set_var", t), "set_from", t), "set_op", t)
    BY <2>1, PerformedThree
  <2>3. Performed(m, <<"set_var", "set_from_port", "set_op">>, t)
          = Perform(Perform(Perform(m, "set_var", t), "set_from_port", t), "set_op", t)
    BY <2>1, PerformedThree
  <2>4. QED
    BY <1>3, <2>2, <2>3
<1>7. /\ Perform(v, "set_from", t) = With(m, FromSet(q))
      /\ Perform(v, "set_from_port", t) = With(m, FromPortSet(q))
      /\ Perform(v, "set_to_port", t) = With(m, ToPortSet(q))
  BY <1>2, PerformIs
<1>8. /\ Perform(With(m, FromSet(q)), "set_op", t) = With(m, OpSet(FromSet(q), t))
      /\ Perform(With(m, FromPortSet(q)), "set_op", t) = With(m, OpSet(FromPortSet(q), t))
  BY <1>2, PerformIs
<1>9. /\ Perform(m, "a", t) = With(m, Collected(p, t))
      /\ Perform(m, "params", t) = With(m, ParamsAdded(p, t))
      /\ Perform(m, "set_op", t) = With(m, OpSet(p, t))
      /\ Perform(m, "set_method", t) = With(m, MethodSet(p))
      /\ Perform(m, "set_class", t) = With(m, ClassSet(p))
      /\ Perform(m, "prompt", t) = With(m, Clear(p))
  BY <1>1, PerformIs
<1> HIDE DEF v
<1>10. QED
  BY <1>1, PerformedNone, <1>4, <1>5, <1>6, <1>7, <1>8, <1>9

\* The lists of actions that ask the planet.
Cleared(p) == p.token = <<>> /\ p.params = <<>> /\ p.from_port = <<>> /\ p.to_port = <<>>

Asked(m, r, call) == r \in Machine /\ r.calls = Append(m.calls, call) /\ r.refused = m.refused

LEMMA ClearIs == \A p \in Parser : Cleared(Clear(p)) /\ Clear(p).cs = p.cs
BY DEF Parser, Cleared, Clear

LEMMA CallsMade ==
    ASSUME NEW m \in Machine, NEW t \in Token
    PROVE  /\ Asked(m, Performed(m, <<"set_var", "change_link">>, t),
                    LinkCall(VarSet(m.parser)))
           /\ LET r == Performed(m, <<"set_var", "change_link", "prompt">>, t)
              IN  Asked(m, r, LinkCall(VarSet(m.parser))) /\ Cleared(r.parser)
           /\ Asked(m, Performed(m, <<"create_instance">>, t), CreateCall(m.parser))
           /\ LET r == Performed(m, <<"create_instance", "prompt">>, t)
              IN  Asked(m, r, CreateCall(m.parser)) /\ Cleared(r.parser)
           /\ LET r == Performed(m, <<"execute_command", "prompt">>, t)
              IN  Asked(m, r, CommandCall(m.parser)) /\ Cleared(r.parser)
           /\ LET r == Performed(m, <<"set_method", "execute_command", "prompt">>, t)
              IN  Asked(m, r, CommandCall(MethodSet(m.parser))) /\ Cleared(r.parser)
<1> DEFINE p == m.parser
           q == VarSet(p)
           v == With(m, q)
           u == MethodSet(p)
           w == With(m, u)
<1>1. p \in Parser /\ With(m, p) = m /\ m.calls \in Seq(CallRecord)
  <2>1. p \in Parser /\ m.calls \in Seq(CallRecord)
    BY DEF Machine
  <2>2. QED
    BY <2>1, WithIs
<1>2. q \in Parser /\ u \in Parser
  BY <1>1, SetKeeps
<1>3. /\ v \in Machine /\ v.parser = q /\ v.calls = m.calls /\ v.refused = m.refused
      /\ w \in Machine /\ w.parser = u /\ w.calls = m.calls /\ w.refused = m.refused
  BY <1>2, WithIs
<1>4. Perform(m, "set_var", t) = v /\ Perform(m, "set_method", t) = w
  <2>1. Perform(With(m, p), "set_var", t) = v /\ Perform(With(m, p), "set_method", t) = w
    BY <1>1, PerformIs
  <2>2. QED
    BY <1>1, <2>1
<1>5. ASSUME NEW n \in Machine
      PROVE  /\ Asked(n, Perform(n, "change_link", t), LinkCall(n.parser))
             /\ Asked(n, Perform(n, "create_instance", t), CreateCall(n.parser))
             /\ Asked(n, Perform(n, "execute_command", t), CommandCall(n.parser))
  <2>1. /\ Perform(n, "change_link", t) \in Machine
        /\ Perform(n, "create_instance", t) \in Machine
        /\ Perform(n, "execute_command", t) \in Machine
    BY PerformKeeps DEF Action
  <2>2. n.calls \in Seq(CallRecord)
    BY DEF Machine
  <2>3. /\ Perform(n, "change_link", t).calls = Append(n.calls, LinkCall(n.parser))
        /\ Perform(n, "change_link", t).refused = n.refused
    BY DEF Perform, Machine
  <2>4. /\ Perform(n, "create_instance", t).calls = Append(n.calls, CreateCall(n.parser))
        /\ Perform(n, "create_instance", t).refused = n.refused
    BY DEF Perform, Machine
  <2>5. /\ Perform(n, "execute_command", t).calls = Append(n.calls, CommandCall(n.parser))
        /\ Perform(n, "execute_command", t).refused = n.refused
    BY DEF Perform, Machine
  <2>6. QED
    BY <2>1, <2>3, <2>4, <2>5 DEF Asked
<1>6. ASSUME NEW n, NEW call, Asked(m, n, call)
      PROVE  Asked(m, Perform(n, "prompt", t), call) /\ Cleared(Perform(n, "prompt", t).parser)
  <2>1. n \in Machine /\ n.parser \in Parser /\ With(n, n.parser) = n
    <3>1. n \in Machine
      BY <1>6 DEF Asked
    <3>2. n.parser \in Parser
      BY <3>1 DEF Machine
    <3>3. QED
      BY <3>1, <3>2, WithIs
  <2>2. Perform(n, "prompt", t) = With(n, Clear(n.parser))
    <3>1. Perform(With(n, n.parser), "prompt", t) = With(n, Clear(n.parser))
      BY <2>1, PerformIs
    <3>2. QED
      BY <2>1, <3>1
  <2>3. Clear(n.parser) \in Parser /\ Cleared(Clear(n.parser))
    BY <2>1, ClearIs, ClearKeeps
  <2>4. QED
    BY <1>6, <2>1, <2>2, <2>3, WithIs DEF Asked
<1>7. {"set_var", "set_method", "change_link", "create_instance", "execute_command",
       "prompt"} \subseteq Action
  BY DEF Action
<1>8. Asked(m, Perform(v, "change_link", t), LinkCall(q))
  BY <1>3, <1>5 DEF Asked
<1>9. Asked(m, Perform(w, "execute_command", t), CommandCall(u))
  BY <1>3, <1>5 DEF Asked
<1>10. /\ Performed(m, <<"create_instance">>, t) = Perform(m, "create_instance", t)
       /\ Performed(m, <<"set_var", "change_link">>, t) = Perform(v, "change_link", t)
       /\ Performed(m, <<"create_instance", "prompt">>, t)
            = Perform(Perform(m, "create_instance", t), "prompt", t)
       /\ Performed(m, <<"execute_command", "prompt">>, t)
            = Perform(Perform(m, "execute_command", t), "prompt", t)
  BY <1>4, <1>7, PerformedOne, PerformedTwo
<1>11. Performed(m, <<"set_var", "change_link", "prompt">>, t)
         = Perform(Perform(v, "change_link", t), "prompt", t)
  BY <1>4, <1>7, PerformedThree
<1>12. Performed(m, <<"set_method", "execute_command", "prompt">>, t)
         = Perform(Perform(w, "execute_command", t), "prompt", t)
  BY <1>4, <1>7, PerformedThree
<1> HIDE DEF v, w
<1>13. QED
  BY <1>5, <1>6, <1>8, <1>9, <1>10, <1>11, <1>12

-----------------------------------------------------------------------------
(* Texts.                                                                  *)

LEMMA TextAlgebra ==
    /\ <<>> \in Text
    /\ \A t \in Token : <<t>> \in Text
    /\ \A x, y \in Text : x \o y \in Text
    /\ \A x \in Text : x \o <<>> = x /\ <<>> \o x = x
    /\ \A x, y, z \in Text : (x \o y) \o z = x \o (y \o z)
    /\ \A x \in Text, t \in Token : Append(x, t) = x \o <<t>>
BY DEF Text

LEMMA ConcatIs ==
    ASSUME NEW x \in Text, NEW y \in Text
    PROVE  /\ Len(x) \in Nat /\ Len(y) \in Nat
           /\ Len(x \o y) = Len(x) + Len(y)
           /\ \A k \in 1..Len(x) : (x \o y)[k] = x[k]
           /\ \A k \in 1..Len(y) : (x \o y)[Len(x) + k] = y[k]
           /\ IsPrefix(x, x \o y)
           /\ SubSeq(x \o y, Len(x) + 1, Len(x \o y)) = y
BY DEF Text, IsPrefix

\* A prefix and what follows it.
LEMMA PrefixIs ==
    ASSUME NEW x \in Text, NEW s \in Text, IsPrefix(x, s)
    PROVE  LET y == SubSeq(s, Len(x) + 1, Len(s))
           IN  y \in Text /\ s = x \o y /\ Len(s) = Len(x) + Len(y)
BY DEF Text, IsPrefix

-----------------------------------------------------------------------------
(* One character.                                                          *)

LEMMA KindIs ==
    ASSUME NEW t \in Token
    PROVE  /\ Kind(t) = "name" <=> t \in Name
           /\ Kind(t) = "class" <=> t \in Class
           /\ Kind(t) = "value" <=> t \in Value
           /\ \A sign \in Sign : Kind(t) = sign <=> t = sign
           /\ t \in Sign => t \notin Name \cup Class \cup Value
<1>1. t \in Sign => t \notin Name \cup Class \cup Value
  BY TokenAssumption
<1>2. "name" \notin Sign /\ "class" \notin Sign /\ "value" \notin Sign
  BY DEF Sign
<1>3. t \notin Name \cup Class \cup Value => t \in Sign /\ Kind(t) = t
  BY DEF Token, Kind
<1>4. t \in Name => Kind(t) = "name" /\ t \notin Class \cup Value
  BY Kinds, TokenAssumption
<1>5. t \in Class => Kind(t) = "class" /\ t \notin Name \cup Value
  BY Kinds, TokenAssumption
<1>6. t \in Value => Kind(t) = "value" /\ t \notin Name \cup Class
  BY Kinds, TokenAssumption
<1>7. QED
  BY <1>1, <1>2, <1>3, <1>4, <1>5, <1>6

\* The new machine after a move: registers q, state cs.
Go(m, q, cs) == Moved(With(m, q), cs)

LEMMA GoIs ==
    ASSUME NEW m \in Machine, NEW q \in Parser, NEW cs \in State
    PROVE  LET n == Go(m, q, cs)
           IN  /\ n \in Machine /\ n.calls = m.calls /\ n.refused = m.refused
               /\ n.parser.cs = cs /\ n.parser.op = q.op
               /\ n.parser.token = q.token /\ n.parser.var = q.var
               /\ n.parser.method = q.method /\ n.parser.class = q.class
               /\ n.parser.params = q.params
               /\ n.parser.from_node = q.from_node /\ n.parser.from_port = q.from_port
               /\ n.parser.to_node = q.to_node /\ n.parser.to_port = q.to_port
<1> DEFINE v == With(m, q)
           r == [q EXCEPT !.cs = cs]
<1>1. v \in Machine /\ v.parser = q /\ v.calls = m.calls /\ v.refused = m.refused
  BY WithIs
<1>2. r \in Parser
  BY DEF Parser
<1>3. /\ r.cs = cs /\ r.op = q.op /\ r.token = q.token /\ r.var = q.var
      /\ r.method = q.method /\ r.class = q.class /\ r.params = q.params
      /\ r.from_node = q.from_node /\ r.from_port = q.from_port
      /\ r.to_node = q.to_node /\ r.to_port = q.to_port
  BY DEF Parser
<1>4. Go(m, q, cs) = [v EXCEPT !.parser = r]
  BY <1>1 DEF Go, Moved
<1> HIDE DEF v, r
<1>5. Go(m, q, cs) = With(v, r)
  BY <1>4 DEF With
<1>6. QED
  BY <1>1, <1>2, <1>3, <1>5, WithIs

\* The state does not matter for the rest of a machine that asked for a call.
LEMMA AskedGo ==
    ASSUME NEW m, NEW n, NEW call, Asked(m, n, call), NEW cs \in State
    PROVE  LET r == Moved(n, cs)
           IN  /\ Asked(m, r, call) /\ r.parser.cs = cs
               /\ Cleared(n.parser) => Cleared(r.parser)
<1> DEFINE q == [n.parser EXCEPT !.cs = cs]
<1>1. n \in Machine /\ n.parser \in Parser
  BY DEF Asked, Machine
<1>2. q \in Parser /\ q.cs = cs
  BY <1>1 DEF Parser
<1>3. Cleared(n.parser) => Cleared(q)
  BY <1>1 DEF Parser, Cleared
<1>4. Moved(n, cs) = With(n, q)
  BY DEF With, Moved
<1> HIDE DEF q
<1>5. /\ With(n, q) \in Machine /\ With(n, q).parser = q
      /\ With(n, q).calls = n.calls /\ With(n, q).refused = n.refused
  BY <1>1, <1>2, WithIs
<1> DEFINE r == Moved(n, cs)
<1>6. r = With(n, q)
  BY <1>4
<1> HIDE DEF r
<1>7. Asked(m, r, call) /\ r.parser.cs = cs /\ (Cleared(n.parser) => Cleared(r.parser))
  BY <1>2, <1>3, <1>5, <1>6 DEF Asked
<1>8. QED
  BY <1>7 DEF r

\* A register update that is the only move for a token.
LEMMA StepGoes ==
    ASSUME NEW m \in Machine, NEW t \in Token, NEW a, m.parser.cs = a,
           NEW k, Kind(t) = k, NEW c \in State, NEW d, NEW q \in Parser,
           OnlyMove(a, k, c, d),
           Performed(m, d, t) = With(m, q)
    PROVE  Step(m, t) = Go(m, q, c)
<1>1. OnlyMove(m.parser.cs, Kind(t), c, d)
  OBVIOUS
<1>2. Step(m, t) = Moved(Performed(m, d, t), c)
  BY <1>1, StepMoves
<1>3. QED
  BY <1>2 DEF Go

\* The same with a call.
LEMMA StepAsks ==
    ASSUME NEW m \in Machine, NEW t \in Token, NEW a, m.parser.cs = a,
           NEW k, Kind(t) = k, NEW c \in State, NEW d, NEW call,
           OnlyMove(a, k, c, d),
           Asked(m, Performed(m, d, t), call)
    PROVE  /\ Asked(m, Step(m, t), call) /\ Step(m, t).parser.cs = c
           /\ Cleared(Performed(m, d, t).parser) => Cleared(Step(m, t).parser)
<1>1. OnlyMove(m.parser.cs, Kind(t), c, d)
  OBVIOUS
<1>2. Step(m, t) = Moved(Performed(m, d, t), c)
  BY <1>1, StepMoves
<1>3. QED
  BY <1>2, AskedGo

\* A syntax error.
LEMMA StepRefuses ==
    ASSUME NEW m \in Machine, NEW t \in Token, NEW a, m.parser.cs = a,
           a \notin {"string", "new_string", "comment", "eat_line"},
           NEW k, Kind(t) = k, NoMove(a, k)
    PROVE  /\ Step(m, t) \in Machine
           /\ Step(m, t).refused
           /\ Step(m, t).calls = m.calls
           /\ Step(m, t).parser.cs = IF t = "nl" THEN "main" ELSE "eat_line"
           /\ Cleared(Step(m, t).parser)
<1> DEFINE cs == IF t = "nl" THEN "main" ELSE "eat_line"
           q == Clear(m.parser)
           r == [q EXCEPT !.cs = cs]
<1>1. Step(m, t) = SyntaxError(m, t)
  BY StepElse
<1>2. m.parser \in Parser /\ m.calls \in Seq(CallRecord)
  BY DEF Machine
<1>3. q \in Parser /\ Cleared(q)
  BY <1>2, ClearKeeps, ClearIs
<1>4. cs \in State
  BY DEF State
<1> HIDE DEF cs, q
<1>5. r \in Parser /\ r.cs = cs /\ Cleared(r)
  BY <1>3, <1>4 DEF Parser, Cleared
<1>6. SyntaxError(m, t) = [m EXCEPT !.refused = TRUE, !.parser = r]
  BY DEF SyntaxError, cs, q
<1> HIDE DEF r
<1>7. /\ SyntaxError(m, t) \in Machine /\ SyntaxError(m, t).parser = r
      /\ SyntaxError(m, t).calls = m.calls /\ SyntaxError(m, t).refused = TRUE
  BY <1>2, <1>5, <1>6 DEF Machine
<1>8. QED
  BY <1>1, <1>5, <1>7 DEF cs

-----------------------------------------------------------------------------
(* What the machine does with the next token, state by state.              *)

\* After a syntax error.
Refused(m, n, t) ==
    /\ n \in Machine /\ n.refused = TRUE /\ n.calls = m.calls
    /\ n.parser.cs = IF t = "nl" THEN "main" ELSE "eat_line"
    /\ Cleared(n.parser)

\* After a call.
Called(m, n, call, cs) == Asked(m, n, call) /\ n.parser.cs = cs

LEMMA MainSteps ==
    ASSUME NEW m \in Machine, NEW t \in Token, m.parser.cs = "main"
    PROVE  LET p == m.parser
           IN  /\ t \in Name => Step(m, t) = Go(m, Collected(p, t), "word")
               /\ t = "space" => Step(m, t) = Go(m, p, "blank")
               /\ t = "#" => Step(m, t) = Go(m, p, "comment")
               /\ t = "nl" => Step(m, t) = Go(m, Clear(p), "main")
               /\ t \notin Name \cup {"space", "#", "nl"} => Refused(m, Step(m, t), t)
<1> DEFINE p == m.parser
<1>1. {"blank", "comment", "main", "word"} \subseteq State
  BY DEF State
<1>2. p \in Parser /\ Clear(p) \in Parser /\ Collected(p, t) \in Parser
  BY SetKeeps DEF Machine
<1>3. ASSUME t \in Name
      PROVE  Step(m, t) = Go(m, Collected(p, t), "word")
  <2>1. Kind(t) = "name"
    BY <1>3, KindIs
  <2>2. OnlyMove("main", "name", "word", <<"a">>)
    BY MainMoves
  <2>3. Performed(m, <<"a">>, t) = With(m, Collected(p, t))
    BY PerformedAre
  <2>4. QED
    BY <1>1, <1>2, <1>3, <2>1, <2>2, <2>3, StepGoes
<1>4. ASSUME t = "space"
      PROVE  Step(m, t) = Go(m, p, "blank")
  <2>1. Kind(t) = "space"
    BY <1>4, KindIs DEF Sign
  <2>2. OnlyMove("main", "space", "blank", <<>>)
    BY MainMoves
  <2>3. Performed(m, <<>>, t) = With(m, p)
    BY PerformedAre
  <2>4. QED
    BY <1>1, <1>2, <1>4, <2>1, <2>2, <2>3, StepGoes
<1>5. ASSUME t = "#"
      PROVE  Step(m, t) = Go(m, p, "comment")
  <2>1. Kind(t) = "#"
    BY <1>5, KindIs DEF Sign
  <2>2. OnlyMove("main", "#", "comment", <<>>)
    BY MainMoves
  <2>3. Performed(m, <<>>, t) = With(m, p)
    BY PerformedAre
  <2>4. QED
    BY <1>1, <1>2, <1>5, <2>1, <2>2, <2>3, StepGoes
<1>6. ASSUME t = "nl"
      PROVE  Step(m, t) = Go(m, Clear(p), "main")
  <2>1. Kind(t) = "nl"
    BY <1>6, KindIs DEF Sign
  <2>2. OnlyMove("main", "nl", "main", <<"prompt">>)
    BY MainMoves
  <2>3. Performed(m, <<"prompt">>, t) = With(m, Clear(p))
    BY PerformedAre
  <2>4. QED
    BY <1>1, <1>2, <1>6, <2>1, <2>2, <2>3, StepGoes
<1>7. ASSUME t \notin Name \cup {"space", "#", "nl"}
      PROVE  Refused(m, Step(m, t), t)
  <2>1. Kind(t) \notin {"name", "space", "#", "nl"}
    BY <1>7, KindIs DEF Sign
  <2>2. NoMove("main", Kind(t))
    BY <2>1, MainMoves
  <2>3. QED
    BY <1>7, <2>2, StepRefuses DEF Refused
<1>8. QED
  BY <1>3, <1>4, <1>5, <1>6, <1>7

LEMMA BlankSteps ==
    ASSUME NEW m \in Machine, NEW t \in Token, m.parser.cs = "blank"
    PROVE  LET p == m.parser
           IN  /\ t = "nl" => Step(m, t) = Go(m, Clear(p), "main")
               /\ t # "nl" => Refused(m, Step(m, t), t)
<1> DEFINE p == m.parser
<1>1. {"main"} \subseteq State
  BY DEF State
<1>2. p \in Parser /\ Clear(p) \in Parser
  BY SetKeeps DEF Machine
<1>3. ASSUME t = "nl"
      PROVE  Step(m, t) = Go(m, Clear(p), "main")
  <2>1. Kind(t) = "nl"
    BY <1>3, KindIs DEF Sign
  <2>2. OnlyMove("blank", "nl", "main", <<"prompt">>)
    BY BlankMoves
  <2>3. Performed(m, <<"prompt">>, t) = With(m, Clear(p))
    BY PerformedAre
  <2>4. QED
    BY <1>1, <1>2, <1>3, <2>1, <2>2, <2>3, StepGoes
<1>4. ASSUME t # "nl"
      PROVE  Refused(m, Step(m, t), t)
  <2>1. Kind(t) # "nl"
    BY <1>4, KindIs DEF Sign
  <2>2. NoMove("blank", Kind(t))
    BY <2>1, BlankMoves
  <2>3. QED
    BY <1>4, <2>2, StepRefuses DEF Refused
<1>5. QED
  BY <1>3, <1>4

LEMMA WordSteps ==
    ASSUME NEW m \in Machine, NEW t \in Token, m.parser.cs = "word"
    PROVE  LET p == m.parser
           IN  /\ t \in {"=>", "||"} =>
                    Step(m, t) = Go(m, OpSet(FromSet(VarSet(p)), t), "to")
               /\ t = "~" => Step(m, t) = Go(m, FromSet(VarSet(p)), "from_port")
               /\ t = "=" => Step(m, t) = Go(m, FromSet(VarSet(p)), "new")
               /\ t = "nl" =>
                    Called(m, Step(m, t), CommandCall(MethodSet(p)), "main") /\ Cleared(Step(m, t).parser)
               /\ t = "(" => Step(m, t) = Go(m, MethodSet(p), "args")
               /\ t = "space" => Step(m, t) = Go(m, FromSet(VarSet(p)), "var")
               /\ t \notin {"=>", "||", "~", "=", "nl", "(", "space"} =>
                    Refused(m, Step(m, t), t)
<1> DEFINE p == m.parser
<1>1. {"args", "from_port", "main", "new", "to", "var"} \subseteq State
  BY DEF State
<1>2. p \in Parser /\ VarSet(p) \in Parser /\ MethodSet(p) \in Parser /\ FromSet(VarSet(p)) \in Parser /\ OpSet(FromSet(VarSet(p)), t) \in Parser
  BY SetKeeps DEF Machine
<1>3. ASSUME t = "=>"
      PROVE  Step(m, t) = Go(m, OpSet(FromSet(VarSet(p)), t), "to")
  <2>1. Kind(t) = "=>"
    BY <1>3, KindIs DEF Sign
  <2>2. OnlyMove("word", "=>", "to", <<"set_var", "set_from", "set_op">>)
    BY WordMoves
  <2>3. Performed(m, <<"set_var", "set_from", "set_op">>, t) = With(m, OpSet(FromSet(VarSet(p)), t))
    BY PerformedAre
  <2>4. QED
    BY <1>1, <1>2, <1>3, <2>1, <2>2, <2>3, StepGoes
<1>4. ASSUME t = "||"
      PROVE  Step(m, t) = Go(m, OpSet(FromSet(VarSet(p)), t), "to")
  <2>1. Kind(t) = "||"
    BY <1>4, KindIs DEF Sign
  <2>2. OnlyMove("word", "||", "to", <<"set_var", "set_from", "set_op">>)
    BY WordMoves
  <2>3. Performed(m, <<"set_var", "set_from", "set_op">>, t) = With(m, OpSet(FromSet(VarSet(p)), t))
    BY PerformedAre
  <2>4. QED
    BY <1>1, <1>2, <1>4, <2>1, <2>2, <2>3, StepGoes
<1>5. ASSUME t = "~"
      PROVE  Step(m, t) = Go(m, FromSet(VarSet(p)), "from_port")
  <2>1. Kind(t) = "~"
    BY <1>5, KindIs DEF Sign
  <2>2. OnlyMove("word", "~", "from_port", <<"set_var", "set_from">>)
    BY WordMoves
  <2>3. Performed(m, <<"set_var", "set_from">>, t) = With(m, FromSet(VarSet(p)))
    BY PerformedAre
  <2>4. QED
    BY <1>1, <1>2, <1>5, <2>1, <2>2, <2>3, StepGoes
<1>6. ASSUME t = "="
      PROVE  Step(m, t) = Go(m, FromSet(VarSet(p)), "new")
  <2>1. Kind(t) = "="
    BY <1>6, KindIs DEF Sign
  <2>2. OnlyMove("word", "=", "new", <<"set_var", "set_from">>)
    BY WordMoves
  <2>3. Performed(m, <<"set_var", "set_from">>, t) = With(m, FromSet(VarSet(p)))
    BY PerformedAre
  <2>4. QED
    BY <1>1, <1>2, <1>6, <2>1, <2>2, <2>3, StepGoes
<1>7. ASSUME t = "nl"
      PROVE  Called(m, Step(m, t), CommandCall(MethodSet(p)), "main") /\ Cleared(Step(m, t).parser)
  <2>1. Kind(t) = "nl"
    BY <1>7, KindIs DEF Sign
  <2>2. OnlyMove("word", "nl", "main", <<"set_method", "execute_command", "prompt">>)
    BY WordMoves
  <2> DEFINE n == Performed(m, <<"set_method", "execute_command", "prompt">>, t)
  <2>3. Asked(m, n, CommandCall(MethodSet(p))) /\ Cleared(n.parser)
    BY CallsMade
  <2>4. QED
    BY <1>1, <1>7, <2>1, <2>2, <2>3, StepAsks DEF Called
<1>8. ASSUME t = "("
      PROVE  Step(m, t) = Go(m, MethodSet(p), "args")
  <2>1. Kind(t) = "("
    BY <1>8, KindIs DEF Sign
  <2>2. OnlyMove("word", "(", "args", <<"set_method">>)
    BY WordMoves
  <2>3. Performed(m, <<"set_method">>, t) = With(m, MethodSet(p))
    BY PerformedAre
  <2>4. QED
    BY <1>1, <1>2, <1>8, <2>1, <2>2, <2>3, StepGoes
<1>9. ASSUME t = "space"
      PROVE  Step(m, t) = Go(m, FromSet(VarSet(p)), "var")
  <2>1. Kind(t) = "space"
    BY <1>9, KindIs DEF Sign
  <2>2. OnlyMove("word", "space", "var", <<"set_var", "set_from">>)
    BY WordMoves
  <2>3. Performed(m, <<"set_var", "set_from">>, t) = With(m, FromSet(VarSet(p)))
    BY PerformedAre
  <2>4. QED
    BY <1>1, <1>2, <1>9, <2>1, <2>2, <2>3, StepGoes
<1>10. ASSUME t \notin {"=>", "||", "~", "=", "nl", "(", "space"}
      PROVE  Refused(m, Step(m, t), t)
  <2>1. Kind(t) \notin {"=>", "||", "~", "=", "nl", "(", "space"}
    BY <1>10, KindIs DEF Sign
  <2>2. NoMove("word", Kind(t))
    BY <2>1, WordMoves
  <2>3. QED
    BY <1>10, <2>2, StepRefuses DEF Refused
<1>11. QED
  BY <1>3, <1>4, <1>5, <1>6, <1>7, <1>8, <1>9, <1>10

LEMMA VarSteps ==
    ASSUME NEW m \in Machine, NEW t \in Token, m.parser.cs = "var"
    PROVE  LET p == m.parser
           IN  /\ t \in {"=>", "||"} => Step(m, t) = Go(m, OpSet(p, t), "to")
               /\ t = "=" => Step(m, t) = Go(m, p, "new")
               /\ t \notin {"=>", "||", "="} => Refused(m, Step(m, t), t)
<1> DEFINE p == m.parser
<1>1. {"new", "to"} \subseteq State
  BY DEF State
<1>2. p \in Parser /\ OpSet(p, t) \in Parser
  BY SetKeeps DEF Machine
<1>3. ASSUME t = "=>"
      PROVE  Step(m, t) = Go(m, OpSet(p, t), "to")
  <2>1. Kind(t) = "=>"
    BY <1>3, KindIs DEF Sign
  <2>2. OnlyMove("var", "=>", "to", <<"set_op">>)
    BY VarMoves
  <2>3. Performed(m, <<"set_op">>, t) = With(m, OpSet(p, t))
    BY PerformedAre
  <2>4. QED
    BY <1>1, <1>2, <1>3, <2>1, <2>2, <2>3, StepGoes
<1>4. ASSUME t = "||"
      PROVE  Step(m, t) = Go(m, OpSet(p, t), "to")
  <2>1. Kind(t) = "||"
    BY <1>4, KindIs DEF Sign
  <2>2. OnlyMove("var", "||", "to", <<"set_op">>)
    BY VarMoves
  <2>3. Performed(m, <<"set_op">>, t) = With(m, OpSet(p, t))
    BY PerformedAre
  <2>4. QED
    BY <1>1, <1>2, <1>4, <2>1, <2>2, <2>3, StepGoes
<1>5. ASSUME t = "="
      PROVE  Step(m, t) = Go(m, p, "new")
  <2>1. Kind(t) = "="
    BY <1>5, KindIs DEF Sign
  <2>2. OnlyMove("var", "=", "new", <<>>)
    BY VarMoves
  <2>3. Performed(m, <<>>, t) = With(m, p)
    BY PerformedAre
  <2>4. QED
    BY <1>1, <1>2, <1>5, <2>1, <2>2, <2>3, StepGoes
<1>6. ASSUME t \notin {"=>", "||", "="}
      PROVE  Refused(m, Step(m, t), t)
  <2>1. Kind(t) \notin {"=>", "||", "="}
    BY <1>6, KindIs DEF Sign
  <2>2. NoMove("var", Kind(t))
    BY <2>1, VarMoves
  <2>3. QED
    BY <1>6, <2>2, StepRefuses DEF Refused
<1>7. QED
  BY <1>3, <1>4, <1>5, <1>6

LEMMA FromPortSteps ==
    ASSUME NEW m \in Machine, NEW t \in Token, m.parser.cs = "from_port"
    PROVE  LET p == m.parser
           IN  /\ t \in Name => Step(m, t) = Go(m, Collected(p, t), "from")
               /\ t \notin Name => Refused(m, Step(m, t), t)
<1> DEFINE p == m.parser
<1>1. {"from"} \subseteq State
  BY DEF State
<1>2. p \in Parser /\ Collected(p, t) \in Parser
  BY SetKeeps DEF Machine
<1>3. ASSUME t \in Name
      PROVE  Step(m, t) = Go(m, Collected(p, t), "from")
  <2>1. Kind(t) = "name"
    BY <1>3, KindIs
  <2>2. OnlyMove("from_port", "name", "from", <<"a">>)
    BY FromPortMoves
  <2>3. Performed(m, <<"a">>, t) = With(m, Collected(p, t))
    BY PerformedAre
  <2>4. QED
    BY <1>1, <1>2, <1>3, <2>1, <2>2, <2>3, StepGoes
<1>4. ASSUME t \notin Name
      PROVE  Refused(m, Step(m, t), t)
  <2>1. Kind(t) # "name"
    BY <1>4, KindIs
  <2>2. NoMove("from_port", Kind(t))
    BY <2>1, FromPortMoves
  <2>3. QED
    BY <1>4, <2>2, StepRefuses DEF Refused
<1>5. QED
  BY <1>3, <1>4

LEMMA FromSteps ==
    ASSUME NEW m \in Machine, NEW t \in Token, m.parser.cs = "from"
    PROVE  LET p == m.parser
           IN  /\ t \in {"=>", "||"} =>
                    Step(m, t) = Go(m, OpSet(FromPortSet(VarSet(p)), t), "to")
               /\ t = "space" => Step(m, t) = Go(m, FromPortSet(VarSet(p)), "from_end")
               /\ t \notin {"=>", "||", "space"} => Refused(m, Step(m, t), t)
<1> DEFINE p == m.parser
<1>1. {"from_end", "to"} \subseteq State
  BY DEF State
<1>2. p \in Parser /\ VarSet(p) \in Parser /\ FromPortSet(VarSet(p)) \in Parser /\ OpSet(FromPortSet(VarSet(p)), t) \in Parser
  BY SetKeeps DEF Machine
<1>3. ASSUME t = "=>"
      PROVE  Step(m, t) = Go(m, OpSet(FromPortSet(VarSet(p)), t), "to")
  <2>1. Kind(t) = "=>"
    BY <1>3, KindIs DEF Sign
  <2>2. OnlyMove("from", "=>", "to", <<"set_var", "set_from_port", "set_op">>)
    BY FromMoves
  <2>3. Performed(m, <<"set_var", "set_from_port", "set_op">>, t) = With(m, OpSet(FromPortSet(VarSet(p)), t))
    BY PerformedAre
  <2>4. QED
    BY <1>1, <1>2, <1>3, <2>1, <2>2, <2>3, StepGoes
<1>4. ASSUME t = "||"
      PROVE  Step(m, t) = Go(m, OpSet(FromPortSet(VarSet(p)), t), "to")
  <2>1. Kind(t) = "||"
    BY <1>4, KindIs DEF Sign
  <2>2. OnlyMove("from", "||", "to", <<"set_var", "set_from_port", "set_op">>)
    BY FromMoves
  <2>3. Performed(m, <<"set_var", "set_from_port", "set_op">>, t) = With(m, OpSet(FromPortSet(VarSet(p)), t))
    BY PerformedAre
  <2>4. QED
    BY <1>1, <1>2, <1>4, <2>1, <2>2, <2>3, StepGoes
<1>5. ASSUME t = "space"
      PROVE  Step(m, t) = Go(m, FromPortSet(VarSet(p)), "from_end")
  <2>1. Kind(t) = "space"
    BY <1>5, KindIs DEF Sign
  <2>2. OnlyMove("from", "space", "from_end", <<"set_var", "set_from_port">>)
    BY FromMoves
  <2>3. Performed(m, <<"set_var", "set_from_port">>, t) = With(m, FromPortSet(VarSet(p)))
    BY PerformedAre
  <2>4. QED
    BY <1>1, <1>2, <1>5, <2>1, <2>2, <2>3, StepGoes
<1>6. ASSUME t \notin {"=>", "||", "space"}
      PROVE  Refused(m, Step(m, t), t)
  <2>1. Kind(t) \notin {"=>", "||", "space"}
    BY <1>6, KindIs DEF Sign
  <2>2. NoMove("from", Kind(t))
    BY <2>1, FromMoves
  <2>3. QED
    BY <1>6, <2>2, StepRefuses DEF Refused
<1>7. QED
  BY <1>3, <1>4, <1>5, <1>6

LEMMA FromEndSteps ==
    ASSUME NEW m \in Machine, NEW t \in Token, m.parser.cs = "from_end"
    PROVE  LET p == m.parser
           IN  /\ t \in {"=>", "||"} => Step(m, t) = Go(m, OpSet(p, t), "to")
               /\ t \notin {"=>", "||"} => Refused(m, Step(m, t), t)
<1> DEFINE p == m.parser
<1>1. {"to"} \subseteq State
  BY DEF State
<1>2. p \in Parser /\ OpSet(p, t) \in Parser
  BY SetKeeps DEF Machine
<1>3. ASSUME t = "=>"
      PROVE  Step(m, t) = Go(m, OpSet(p, t), "to")
  <2>1. Kind(t) = "=>"
    BY <1>3, KindIs DEF Sign
  <2>2. OnlyMove("from_end", "=>", "to", <<"set_op">>)
    BY FromEndMoves
  <2>3. Performed(m, <<"set_op">>, t) = With(m, OpSet(p, t))
    BY PerformedAre
  <2>4. QED
    BY <1>1, <1>2, <1>3, <2>1, <2>2, <2>3, StepGoes
<1>4. ASSUME t = "||"
      PROVE  Step(m, t) = Go(m, OpSet(p, t), "to")
  <2>1. Kind(t) = "||"
    BY <1>4, KindIs DEF Sign
  <2>2. OnlyMove("from_end", "||", "to", <<"set_op">>)
    BY FromEndMoves
  <2>3. Performed(m, <<"set_op">>, t) = With(m, OpSet(p, t))
    BY PerformedAre
  <2>4. QED
    BY <1>1, <1>2, <1>4, <2>1, <2>2, <2>3, StepGoes
<1>5. ASSUME t \notin {"=>", "||"}
      PROVE  Refused(m, Step(m, t), t)
  <2>1. Kind(t) \notin {"=>", "||"}
    BY <1>5, KindIs DEF Sign
  <2>2. NoMove("from_end", Kind(t))
    BY <2>1, FromEndMoves
  <2>3. QED
    BY <1>5, <2>2, StepRefuses DEF Refused
<1>6. QED
  BY <1>3, <1>4, <1>5

LEMMA ToSteps ==
    ASSUME NEW m \in Machine, NEW t \in Token, m.parser.cs = "to"
    PROVE  LET p == m.parser
           IN  /\ t = "space" => Step(m, t) = Go(m, p, "to")
               /\ t \in Name => Step(m, t) = Go(m, Collected(p, t), "port_or_end")
               /\ t \notin Name \cup {"space"} => Refused(m, Step(m, t), t)
<1> DEFINE p == m.parser
<1>1. {"port_or_end", "to"} \subseteq State
  BY DEF State
<1>2. p \in Parser /\ Collected(p, t) \in Parser
  BY SetKeeps DEF Machine
<1>3. ASSUME t = "space"
      PROVE  Step(m, t) = Go(m, p, "to")
  <2>1. Kind(t) = "space"
    BY <1>3, KindIs DEF Sign
  <2>2. OnlyMove("to", "space", "to", <<>>)
    BY ToMoves
  <2>3. Performed(m, <<>>, t) = With(m, p)
    BY PerformedAre
  <2>4. QED
    BY <1>1, <1>2, <1>3, <2>1, <2>2, <2>3, StepGoes
<1>4. ASSUME t \in Name
      PROVE  Step(m, t) = Go(m, Collected(p, t), "port_or_end")
  <2>1. Kind(t) = "name"
    BY <1>4, KindIs
  <2>2. OnlyMove("to", "name", "port_or_end", <<"a">>)
    BY ToMoves
  <2>3. Performed(m, <<"a">>, t) = With(m, Collected(p, t))
    BY PerformedAre
  <2>4. QED
    BY <1>1, <1>2, <1>4, <2>1, <2>2, <2>3, StepGoes
<1>5. ASSUME t \notin Name \cup {"space"}
      PROVE  Refused(m, Step(m, t), t)
  <2>1. Kind(t) \notin {"space", "name"}
    BY <1>5, KindIs DEF Sign
  <2>2. NoMove("to", Kind(t))
    BY <2>1, ToMoves
  <2>3. QED
    BY <1>5, <2>2, StepRefuses DEF Refused
<1>6. QED
  BY <1>3, <1>4, <1>5

LEMMA PortOrEndSteps ==
    ASSUME NEW m \in Machine, NEW t \in Token, m.parser.cs = "port_or_end"
    PROVE  LET p == m.parser
           IN  /\ t = "~" => Step(m, t) = Go(m, ToPortSet(VarSet(p)), "to_end")
               /\ t = "nl" =>
                    Called(m, Step(m, t), LinkCall(VarSet(p)), "main") /\ Cleared(Step(m, t).parser)
               /\ t = "space" => Called(m, Step(m, t), LinkCall(VarSet(p)), "rest")
               /\ t = "#" => Called(m, Step(m, t), LinkCall(VarSet(p)), "comment")
               /\ t \notin {"~", "nl", "space", "#"} => Refused(m, Step(m, t), t)
<1> DEFINE p == m.parser
<1>1. {"comment", "main", "rest", "to_end"} \subseteq State
  BY DEF State
<1>2. p \in Parser /\ VarSet(p) \in Parser /\ ToPortSet(VarSet(p)) \in Parser
  BY SetKeeps DEF Machine
<1>3. ASSUME t = "~"
      PROVE  Step(m, t) = Go(m, ToPortSet(VarSet(p)), "to_end")
  <2>1. Kind(t) = "~"
    BY <1>3, KindIs DEF Sign
  <2>2. OnlyMove("port_or_end", "~", "to_end", <<"set_var", "set_to_port">>)
    BY PortOrEndMoves
  <2>3. Performed(m, <<"set_var", "set_to_port">>, t) = With(m, ToPortSet(VarSet(p)))
    BY PerformedAre
  <2>4. QED
    BY <1>1, <1>2, <1>3, <2>1, <2>2, <2>3, StepGoes
<1>4. ASSUME t = "nl"
      PROVE  Called(m, Step(m, t), LinkCall(VarSet(p)), "main") /\ Cleared(Step(m, t).parser)
  <2>1. Kind(t) = "nl"
    BY <1>4, KindIs DEF Sign
  <2>2. OnlyMove("port_or_end", "nl", "main", <<"set_var", "change_link", "prompt">>)
    BY PortOrEndMoves
  <2> DEFINE n == Performed(m, <<"set_var", "change_link", "prompt">>, t)
  <2>3. Asked(m, n, LinkCall(VarSet(p))) /\ Cleared(n.parser)
    BY CallsMade
  <2>4. QED
    BY <1>1, <1>4, <2>1, <2>2, <2>3, StepAsks DEF Called
<1>5. ASSUME t = "space"
      PROVE  Called(m, Step(m, t), LinkCall(VarSet(p)), "rest")
  <2>1. Kind(t) = "space"
    BY <1>5, KindIs DEF Sign
  <2>2. OnlyMove("port_or_end", "space", "rest", <<"set_var", "change_link">>)
    BY PortOrEndMoves
  <2> DEFINE n == Performed(m, <<"set_var", "change_link">>, t)
  <2>3. Asked(m, n, LinkCall(VarSet(p)))
    BY CallsMade
  <2>4. QED
    BY <1>1, <1>5, <2>1, <2>2, <2>3, StepAsks DEF Called
<1>6. ASSUME t = "#"
      PROVE  Called(m, Step(m, t), LinkCall(VarSet(p)), "comment")
  <2>1. Kind(t) = "#"
    BY <1>6, KindIs DEF Sign
  <2>2. OnlyMove("port_or_end", "#", "comment", <<"set_var", "change_link">>)
    BY PortOrEndMoves
  <2> DEFINE n == Performed(m, <<"set_var", "change_link">>, t)
  <2>3. Asked(m, n, LinkCall(VarSet(p)))
    BY CallsMade
  <2>4. QED
    BY <1>1, <1>6, <2>1, <2>2, <2>3, StepAsks DEF Called
<1>7. ASSUME t \notin {"~", "nl", "space", "#"}
      PROVE  Refused(m, Step(m, t), t)
  <2>1. Kind(t) \notin {"~", "nl", "space", "#"}
    BY <1>7, KindIs DEF Sign
  <2>2. NoMove("port_or_end", Kind(t))
    BY <2>1, PortOrEndMoves
  <2>3. QED
    BY <1>7, <2>2, StepRefuses DEF Refused
<1>8. QED
  BY <1>3, <1>4, <1>5, <1>6, <1>7

LEMMA ToEndSteps ==
    ASSUME NEW m \in Machine, NEW t \in Token, m.parser.cs = "to_end"
    PROVE  LET p == m.parser
           IN  /\ t \in Name => Step(m, t) = Go(m, Collected(p, t), "end")
               /\ t \notin Name => Refused(m, Step(m, t), t)
<1> DEFINE p == m.parser
<1>1. {"end"} \subseteq State
  BY DEF State
<1>2. p \in Parser /\ Collected(p, t) \in Parser
  BY SetKeeps DEF Machine
<1>3. ASSUME t \in Name
      PROVE  Step(m, t) = Go(m, Collected(p, t), "end")
  <2>1. Kind(t) = "name"
    BY <1>3, KindIs
  <2>2. OnlyMove("to_end", "name", "end", <<"a">>)
    BY ToEndMoves
  <2>3. Performed(m, <<"a">>, t) = With(m, Collected(p, t))
    BY PerformedAre
  <2>4. QED
    BY <1>1, <1>2, <1>3, <2>1, <2>2, <2>3, StepGoes
<1>4. ASSUME t \notin Name
      PROVE  Refused(m, Step(m, t), t)
  <2>1. Kind(t) # "name"
    BY <1>4, KindIs
  <2>2. NoMove("to_end", Kind(t))
    BY <2>1, ToEndMoves
  <2>3. QED
    BY <1>4, <2>2, StepRefuses DEF Refused
<1>5. QED
  BY <1>3, <1>4

LEMMA EndSteps ==
    ASSUME NEW m \in Machine, NEW t \in Token, m.parser.cs = "end"
    PROVE  LET p == m.parser
           IN  /\ t = "nl" =>
                    Called(m, Step(m, t), LinkCall(VarSet(p)), "main") /\ Cleared(Step(m, t).parser)
               /\ t = "space" => Called(m, Step(m, t), LinkCall(VarSet(p)), "rest")
               /\ t = "#" => Called(m, Step(m, t), LinkCall(VarSet(p)), "comment")
               /\ t \notin {"nl", "space", "#"} => Refused(m, Step(m, t), t)
<1> DEFINE p == m.parser
<1>1. {"comment", "main", "rest"} \subseteq State
  BY DEF State
<1>2. p \in Parser
  BY DEF Machine
<1>3. ASSUME t = "nl"
      PROVE  Called(m, Step(m, t), LinkCall(VarSet(p)), "main") /\ Cleared(Step(m, t).parser)
  <2>1. Kind(t) = "nl"
    BY <1>3, KindIs DEF Sign
  <2>2. OnlyMove("end", "nl", "main", <<"set_var", "change_link", "prompt">>)
    BY EndMoves
  <2> DEFINE n == Performed(m, <<"set_var", "change_link", "prompt">>, t)
  <2>3. Asked(m, n, LinkCall(VarSet(p))) /\ Cleared(n.parser)
    BY CallsMade
  <2>4. QED
    BY <1>1, <1>3, <2>1, <2>2, <2>3, StepAsks DEF Called
<1>4. ASSUME t = "space"
      PROVE  Called(m, Step(m, t), LinkCall(VarSet(p)), "rest")
  <2>1. Kind(t) = "space"
    BY <1>4, KindIs DEF Sign
  <2>2. OnlyMove("end", "space", "rest", <<"set_var", "change_link">>)
    BY EndMoves
  <2> DEFINE n == Performed(m, <<"set_var", "change_link">>, t)
  <2>3. Asked(m, n, LinkCall(VarSet(p)))
    BY CallsMade
  <2>4. QED
    BY <1>1, <1>4, <2>1, <2>2, <2>3, StepAsks DEF Called
<1>5. ASSUME t = "#"
      PROVE  Called(m, Step(m, t), LinkCall(VarSet(p)), "comment")
  <2>1. Kind(t) = "#"
    BY <1>5, KindIs DEF Sign
  <2>2. OnlyMove("end", "#", "comment", <<"set_var", "change_link">>)
    BY EndMoves
  <2> DEFINE n == Performed(m, <<"set_var", "change_link">>, t)
  <2>3. Asked(m, n, LinkCall(VarSet(p)))
    BY CallsMade
  <2>4. QED
    BY <1>1, <1>5, <2>1, <2>2, <2>3, StepAsks DEF Called
<1>6. ASSUME t \notin {"nl", "space", "#"}
      PROVE  Refused(m, Step(m, t), t)
  <2>1. Kind(t) \notin {"nl", "space", "#"}
    BY <1>6, KindIs DEF Sign
  <2>2. NoMove("end", Kind(t))
    BY <2>1, EndMoves
  <2>3. QED
    BY <1>6, <2>2, StepRefuses DEF Refused
<1>7. QED
  BY <1>3, <1>4, <1>5, <1>6

LEMMA NewSteps ==
    ASSUME NEW m \in Machine, NEW t \in Token, m.parser.cs = "new"
    PROVE  LET p == m.parser
           IN  /\ t = "space" => Step(m, t) = Go(m, p, "new")
               /\ t \in Class => Step(m, t) = Go(m, Collected(p, t), "class")
               /\ t \notin Class \cup {"space"} => Refused(m, Step(m, t), t)
<1> DEFINE p == m.parser
<1>1. {"class", "new"} \subseteq State
  BY DEF State
<1>2. p \in Parser /\ Collected(p, t) \in Parser
  BY SetKeeps DEF Machine
<1>3. ASSUME t = "space"
      PROVE  Step(m, t) = Go(m, p, "new")
  <2>1. Kind(t) = "space"
    BY <1>3, KindIs DEF Sign
  <2>2. OnlyMove("new", "space", "new", <<>>)
    BY NewMoves
  <2>3. Performed(m, <<>>, t) = With(m, p)
    BY PerformedAre
  <2>4. QED
    BY <1>1, <1>2, <1>3, <2>1, <2>2, <2>3, StepGoes
<1>4. ASSUME t \in Class
      PROVE  Step(m, t) = Go(m, Collected(p, t), "class")
  <2>1. Kind(t) = "class"
    BY <1>4, KindIs
  <2>2. OnlyMove("new", "class", "class", <<"a">>)
    BY NewMoves
  <2>3. Performed(m, <<"a">>, t) = With(m, Collected(p, t))
    BY PerformedAre
  <2>4. QED
    BY <1>1, <1>2, <1>4, <2>1, <2>2, <2>3, StepGoes
<1>5. ASSUME t \notin Class \cup {"space"}
      PROVE  Refused(m, Step(m, t), t)
  <2>1. Kind(t) \notin {"space", "class"}
    BY <1>5, KindIs DEF Sign
  <2>2. NoMove("new", Kind(t))
    BY <2>1, NewMoves
  <2>3. QED
    BY <1>5, <2>2, StepRefuses DEF Refused
<1>6. QED
  BY <1>3, <1>4, <1>5

LEMMA ClassSteps ==
    ASSUME NEW m \in Machine, NEW t \in Token, m.parser.cs = "class"
    PROVE  LET p == m.parser
           IN  /\ t = "(" => Step(m, t) = Go(m, ClassSet(p), "new_args")
               /\ t # "(" => Refused(m, Step(m, t), t)
<1> DEFINE p == m.parser
<1>1. {"new_args"} \subseteq State
  BY DEF State
<1>2. p \in Parser /\ ClassSet(p) \in Parser
  BY SetKeeps DEF Machine
<1>3. ASSUME t = "("
      PROVE  Step(m, t) = Go(m, ClassSet(p), "new_args")
  <2>1. Kind(t) = "("
    BY <1>3, KindIs DEF Sign
  <2>2. OnlyMove("class", "(", "new_args", <<"set_class">>)
    BY ClassMoves
  <2>3. Performed(m, <<"set_class">>, t) = With(m, ClassSet(p))
    BY PerformedAre
  <2>4. QED
    BY <1>1, <1>2, <1>3, <2>1, <2>2, <2>3, StepGoes
<1>4. ASSUME t # "("
      PROVE  Refused(m, Step(m, t), t)
  <2>1. Kind(t) # "("
    BY <1>4, KindIs DEF Sign
  <2>2. NoMove("class", Kind(t))
    BY <2>1, ClassMoves
  <2>3. QED
    BY <1>4, <2>2, StepRefuses DEF Refused
<1>5. QED
  BY <1>3, <1>4

LEMMA NewArgsSteps ==
    ASSUME NEW m \in Machine, NEW t \in Token, m.parser.cs = "new_args"
    PROVE  LET p == m.parser
           IN  /\ t = ")" => Step(m, t) = Go(m, p, "created")
               /\ t \in Value => Step(m, t) = Go(m, ParamsAdded(p, t), "new_value")
               /\ t = "quote" => Step(m, t) = Go(m, ParamsAdded(p, t), "new_string")
               /\ t \notin Value \cup {")", "quote"} => Refused(m, Step(m, t), t)
<1> DEFINE p == m.parser
<1>1. {"created", "new_string", "new_value"} \subseteq State
  BY DEF State
<1>2. p \in Parser /\ ParamsAdded(p, t) \in Parser
  BY SetKeeps DEF Machine
<1>3. ASSUME t = ")"
      PROVE  Step(m, t) = Go(m, p, "created")
  <2>1. Kind(t) = ")"
    BY <1>3, KindIs DEF Sign
  <2>2. OnlyMove("new_args", ")", "created", <<>>)
    BY NewArgsMoves
  <2>3. Performed(m, <<>>, t) = With(m, p)
    BY PerformedAre
  <2>4. QED
    BY <1>1, <1>2, <1>3, <2>1, <2>2, <2>3, StepGoes
<1>4. ASSUME t \in Value
      PROVE  Step(m, t) = Go(m, ParamsAdded(p, t), "new_value")
  <2>1. Kind(t) = "value"
    BY <1>4, KindIs
  <2>2. OnlyMove("new_args", "value", "new_value", <<"params">>)
    BY NewArgsMoves
  <2>3. Performed(m, <<"params">>, t) = With(m, ParamsAdded(p, t))
    BY PerformedAre
  <2>4. QED
    BY <1>1, <1>2, <1>4, <2>1, <2>2, <2>3, StepGoes
<1>5. ASSUME t = "quote"
      PROVE  Step(m, t) = Go(m, ParamsAdded(p, t), "new_string")
  <2>1. Kind(t) = "quote"
    BY <1>5, KindIs DEF Sign
  <2>2. OnlyMove("new_args", "quote", "new_string", <<"params">>)
    BY NewArgsMoves
  <2>3. Performed(m, <<"params">>, t) = With(m, ParamsAdded(p, t))
    BY PerformedAre
  <2>4. QED
    BY <1>1, <1>2, <1>5, <2>1, <2>2, <2>3, StepGoes
<1>6. ASSUME t \notin Value \cup {")", "quote"}
      PROVE  Refused(m, Step(m, t), t)
  <2>1. Kind(t) \notin {")", "value", "quote"}
    BY <1>6, KindIs DEF Sign
  <2>2. NoMove("new_args", Kind(t))
    BY <2>1, NewArgsMoves
  <2>3. QED
    BY <1>6, <2>2, StepRefuses DEF Refused
<1>7. QED
  BY <1>3, <1>4, <1>5, <1>6

LEMMA NewStringSteps ==
    ASSUME NEW m \in Machine, NEW t \in Token, m.parser.cs = "new_string"
    PROVE  LET p == m.parser
           IN  /\ t = "quote" => Step(m, t) = Go(m, ParamsAdded(p, t), "new_value")
               /\ t # "quote" => Step(m, t) = With(m, ParamsAdded(p, t))
<1> DEFINE p == m.parser
<1>1. {"new_value"} \subseteq State
  BY DEF State
<1>2. p \in Parser /\ ParamsAdded(p, t) \in Parser
  BY SetKeeps DEF Machine
<1>3. ASSUME t = "quote"
      PROVE  Step(m, t) = Go(m, ParamsAdded(p, t), "new_value")
  <2>1. Kind(t) = "quote"
    BY <1>3, KindIs DEF Sign
  <2>2. OnlyMove("new_string", "quote", "new_value", <<"params">>)
    BY NewStringMoves
  <2>3. Performed(m, <<"params">>, t) = With(m, ParamsAdded(p, t))
    BY PerformedAre
  <2>4. QED
    BY <1>1, <1>2, <1>3, <2>1, <2>2, <2>3, StepGoes
<1>4. ASSUME t # "quote"
      PROVE  Step(m, t) = With(m, ParamsAdded(p, t))
  <2>1. Kind(t) # "quote"
    BY <1>4, KindIs DEF Sign
  <2>2. QED
    BY <1>4, <2>1, NewStringMoves, PerformedAre, StepElse
<1>5. QED
  BY <1>3, <1>4

LEMMA NewValueSteps ==
    ASSUME NEW m \in Machine, NEW t \in Token, m.parser.cs = "new_value"
    PROVE  LET p == m.parser
           IN  /\ t = ")" => Step(m, t) = Go(m, p, "created")
               /\ t # ")" => Refused(m, Step(m, t), t)
<1> DEFINE p == m.parser
<1>1. {"created"} \subseteq State
  BY DEF State
<1>2. p \in Parser
  BY SetKeeps DEF Machine
<1>3. ASSUME t = ")"
      PROVE  Step(m, t) = Go(m, p, "created")
  <2>1. Kind(t) = ")"
    BY <1>3, KindIs DEF Sign
  <2>2. OnlyMove("new_value", ")", "created", <<>>)
    BY NewValueMoves
  <2>3. Performed(m, <<>>, t) = With(m, p)
    BY PerformedAre
  <2>4. QED
    BY <1>1, <1>2, <1>3, <2>1, <2>2, <2>3, StepGoes
<1>4. ASSUME t # ")"
      PROVE  Refused(m, Step(m, t), t)
  <2>1. Kind(t) # ")"
    BY <1>4, KindIs DEF Sign
  <2>2. NoMove("new_value", Kind(t))
    BY <2>1, NewValueMoves
  <2>3. QED
    BY <1>4, <2>2, StepRefuses DEF Refused
<1>5. QED
  BY <1>3, <1>4

LEMMA CreatedSteps ==
    ASSUME NEW m \in Machine, NEW t \in Token, m.parser.cs = "created"
    PROVE  LET p == m.parser
           IN  /\ t = "nl" =>
                    Called(m, Step(m, t), CreateCall(p), "main") /\ Cleared(Step(m, t).parser)
               /\ t = "space" => Called(m, Step(m, t), CreateCall(p), "rest")
               /\ t = "#" => Called(m, Step(m, t), CreateCall(p), "comment")
               /\ t \notin {"nl", "space", "#"} => Refused(m, Step(m, t), t)
<1> DEFINE p == m.parser
<1>1. {"comment", "main", "rest"} \subseteq State
  BY DEF State
<1>2. p \in Parser
  BY DEF Machine
<1>3. ASSUME t = "nl"
      PROVE  Called(m, Step(m, t), CreateCall(p), "main") /\ Cleared(Step(m, t).parser)
  <2>1. Kind(t) = "nl"
    BY <1>3, KindIs DEF Sign
  <2>2. OnlyMove("created", "nl", "main", <<"create_instance", "prompt">>)
    BY CreatedMoves
  <2> DEFINE n == Performed(m, <<"create_instance", "prompt">>, t)
  <2>3. Asked(m, n, CreateCall(p)) /\ Cleared(n.parser)
    BY CallsMade
  <2>4. QED
    BY <1>1, <1>3, <2>1, <2>2, <2>3, StepAsks DEF Called
<1>4. ASSUME t = "space"
      PROVE  Called(m, Step(m, t), CreateCall(p), "rest")
  <2>1. Kind(t) = "space"
    BY <1>4, KindIs DEF Sign
  <2>2. OnlyMove("created", "space", "rest", <<"create_instance">>)
    BY CreatedMoves
  <2> DEFINE n == Performed(m, <<"create_instance">>, t)
  <2>3. Asked(m, n, CreateCall(p))
    BY CallsMade
  <2>4. QED
    BY <1>1, <1>4, <2>1, <2>2, <2>3, StepAsks DEF Called
<1>5. ASSUME t = "#"
      PROVE  Called(m, Step(m, t), CreateCall(p), "comment")
  <2>1. Kind(t) = "#"
    BY <1>5, KindIs DEF Sign
  <2>2. OnlyMove("created", "#", "comment", <<"create_instance">>)
    BY CreatedMoves
  <2> DEFINE n == Performed(m, <<"create_instance">>, t)
  <2>3. Asked(m, n, CreateCall(p))
    BY CallsMade
  <2>4. QED
    BY <1>1, <1>5, <2>1, <2>2, <2>3, StepAsks DEF Called
<1>6. ASSUME t \notin {"nl", "space", "#"}
      PROVE  Refused(m, Step(m, t), t)
  <2>1. Kind(t) \notin {"nl", "space", "#"}
    BY <1>6, KindIs DEF Sign
  <2>2. NoMove("created", Kind(t))
    BY <2>1, CreatedMoves
  <2>3. QED
    BY <1>6, <2>2, StepRefuses DEF Refused
<1>7. QED
  BY <1>3, <1>4, <1>5, <1>6

LEMMA ArgsSteps ==
    ASSUME NEW m \in Machine, NEW t \in Token, m.parser.cs = "args"
    PROVE  LET p == m.parser
           IN  /\ t = ")" => Step(m, t) = Go(m, p, "called")
               /\ t \in Value => Step(m, t) = Go(m, ParamsAdded(p, t), "arg")
               /\ t = "quote" => Step(m, t) = Go(m, ParamsAdded(p, t), "string")
               /\ t \notin Value \cup {")", "quote"} => Refused(m, Step(m, t), t)
<1> DEFINE p == m.parser
<1>1. {"arg", "called", "string"} \subseteq State
  BY DEF State
<1>2. p \in Parser /\ ParamsAdded(p, t) \in Parser
  BY SetKeeps DEF Machine
<1>3. ASSUME t = ")"
      PROVE  Step(m, t) = Go(m, p, "called")
  <2>1. Kind(t) = ")"
    BY <1>3, KindIs DEF Sign
  <2>2. OnlyMove("args", ")", "called", <<>>)
    BY ArgsMoves
  <2>3. Performed(m, <<>>, t) = With(m, p)
    BY PerformedAre
  <2>4. QED
    BY <1>1, <1>2, <1>3, <2>1, <2>2, <2>3, StepGoes
<1>4. ASSUME t \in Value
      PROVE  Step(m, t) = Go(m, ParamsAdded(p, t), "arg")
  <2>1. Kind(t) = "value"
    BY <1>4, KindIs
  <2>2. OnlyMove("args", "value", "arg", <<"params">>)
    BY ArgsMoves
  <2>3. Performed(m, <<"params">>, t) = With(m, ParamsAdded(p, t))
    BY PerformedAre
  <2>4. QED
    BY <1>1, <1>2, <1>4, <2>1, <2>2, <2>3, StepGoes
<1>5. ASSUME t = "quote"
      PROVE  Step(m, t) = Go(m, ParamsAdded(p, t), "string")
  <2>1. Kind(t) = "quote"
    BY <1>5, KindIs DEF Sign
  <2>2. OnlyMove("args", "quote", "string", <<"params">>)
    BY ArgsMoves
  <2>3. Performed(m, <<"params">>, t) = With(m, ParamsAdded(p, t))
    BY PerformedAre
  <2>4. QED
    BY <1>1, <1>2, <1>5, <2>1, <2>2, <2>3, StepGoes
<1>6. ASSUME t \notin Value \cup {")", "quote"}
      PROVE  Refused(m, Step(m, t), t)
  <2>1. Kind(t) \notin {")", "value", "quote"}
    BY <1>6, KindIs DEF Sign
  <2>2. NoMove("args", Kind(t))
    BY <2>1, ArgsMoves
  <2>3. QED
    BY <1>6, <2>2, StepRefuses DEF Refused
<1>7. QED
  BY <1>3, <1>4, <1>5, <1>6

LEMMA StringSteps ==
    ASSUME NEW m \in Machine, NEW t \in Token, m.parser.cs = "string"
    PROVE  LET p == m.parser
           IN  /\ t = "quote" => Step(m, t) = Go(m, ParamsAdded(p, t), "arg")
               /\ t # "quote" => Step(m, t) = With(m, ParamsAdded(p, t))
<1> DEFINE p == m.parser
<1>1. {"arg"} \subseteq State
  BY DEF State
<1>2. p \in Parser /\ ParamsAdded(p, t) \in Parser
  BY SetKeeps DEF Machine
<1>3. ASSUME t = "quote"
      PROVE  Step(m, t) = Go(m, ParamsAdded(p, t), "arg")
  <2>1. Kind(t) = "quote"
    BY <1>3, KindIs DEF Sign
  <2>2. OnlyMove("string", "quote", "arg", <<"params">>)
    BY StringMoves
  <2>3. Performed(m, <<"params">>, t) = With(m, ParamsAdded(p, t))
    BY PerformedAre
  <2>4. QED
    BY <1>1, <1>2, <1>3, <2>1, <2>2, <2>3, StepGoes
<1>4. ASSUME t # "quote"
      PROVE  Step(m, t) = With(m, ParamsAdded(p, t))
  <2>1. Kind(t) # "quote"
    BY <1>4, KindIs DEF Sign
  <2>2. QED
    BY <1>4, <2>1, StringMoves, PerformedAre, StepElse
<1>5. QED
  BY <1>3, <1>4

LEMMA ArgSteps ==
    ASSUME NEW m \in Machine, NEW t \in Token, m.parser.cs = "arg"
    PROVE  LET p == m.parser
           IN  /\ t = ")" => Step(m, t) = Go(m, p, "called")
               /\ t # ")" => Refused(m, Step(m, t), t)
<1> DEFINE p == m.parser
<1>1. {"called"} \subseteq State
  BY DEF State
<1>2. p \in Parser
  BY SetKeeps DEF Machine
<1>3. ASSUME t = ")"
      PROVE  Step(m, t) = Go(m, p, "called")
  <2>1. Kind(t) = ")"
    BY <1>3, KindIs DEF Sign
  <2>2. OnlyMove("arg", ")", "called", <<>>)
    BY ArgMoves
  <2>3. Performed(m, <<>>, t) = With(m, p)
    BY PerformedAre
  <2>4. QED
    BY <1>1, <1>2, <1>3, <2>1, <2>2, <2>3, StepGoes
<1>4. ASSUME t # ")"
      PROVE  Refused(m, Step(m, t), t)
  <2>1. Kind(t) # ")"
    BY <1>4, KindIs DEF Sign
  <2>2. NoMove("arg", Kind(t))
    BY <2>1, ArgMoves
  <2>3. QED
    BY <1>4, <2>2, StepRefuses DEF Refused
<1>5. QED
  BY <1>3, <1>4

LEMMA CalledSteps ==
    ASSUME NEW m \in Machine, NEW t \in Token, m.parser.cs = "called"
    PROVE  LET p == m.parser
           IN  /\ t = "nl" =>
                    Called(m, Step(m, t), CommandCall(p), "main") /\ Cleared(Step(m, t).parser)
               /\ t # "nl" => Refused(m, Step(m, t), t)
<1> DEFINE p == m.parser
<1>1. {"main"} \subseteq State
  BY DEF State
<1>2. p \in Parser
  BY DEF Machine
<1>3. ASSUME t = "nl"
      PROVE  Called(m, Step(m, t), CommandCall(p), "main") /\ Cleared(Step(m, t).parser)
  <2>1. Kind(t) = "nl"
    BY <1>3, KindIs DEF Sign
  <2>2. OnlyMove("called", "nl", "main", <<"execute_command", "prompt">>)
    BY CalledMoves
  <2> DEFINE n == Performed(m, <<"execute_command", "prompt">>, t)
  <2>3. Asked(m, n, CommandCall(p)) /\ Cleared(n.parser)
    BY CallsMade
  <2>4. QED
    BY <1>1, <1>3, <2>1, <2>2, <2>3, StepAsks DEF Called
<1>4. ASSUME t # "nl"
      PROVE  Refused(m, Step(m, t), t)
  <2>1. Kind(t) # "nl"
    BY <1>4, KindIs DEF Sign
  <2>2. NoMove("called", Kind(t))
    BY <2>1, CalledMoves
  <2>3. QED
    BY <1>4, <2>2, StepRefuses DEF Refused
<1>5. QED
  BY <1>3, <1>4

LEMMA RestSteps ==
    ASSUME NEW m \in Machine, NEW t \in Token, m.parser.cs = "rest"
    PROVE  LET p == m.parser
           IN  /\ t = "#" => Step(m, t) = Go(m, p, "comment")
               /\ t # "#" => Refused(m, Step(m, t), t)
<1> DEFINE p == m.parser
<1>1. {"comment"} \subseteq State
  BY DEF State
<1>2. p \in Parser
  BY SetKeeps DEF Machine
<1>3. ASSUME t = "#"
      PROVE  Step(m, t) = Go(m, p, "comment")
  <2>1. Kind(t) = "#"
    BY <1>3, KindIs DEF Sign
  <2>2. OnlyMove("rest", "#", "comment", <<>>)
    BY RestMoves
  <2>3. Performed(m, <<>>, t) = With(m, p)
    BY PerformedAre
  <2>4. QED
    BY <1>1, <1>2, <1>3, <2>1, <2>2, <2>3, StepGoes
<1>4. ASSUME t # "#"
      PROVE  Refused(m, Step(m, t), t)
  <2>1. Kind(t) # "#"
    BY <1>4, KindIs DEF Sign
  <2>2. NoMove("rest", Kind(t))
    BY <2>1, RestMoves
  <2>3. QED
    BY <1>4, <2>2, StepRefuses DEF Refused
<1>5. QED
  BY <1>3, <1>4

LEMMA CommentSteps ==
    ASSUME NEW m \in Machine, NEW t \in Token, m.parser.cs = "comment"
    PROVE  LET p == m.parser
           IN  /\ t = "nl" => Step(m, t) = Go(m, Clear(p), "main")
               /\ t # "nl" => Step(m, t) = m
<1> DEFINE p == m.parser
<1>1. {"main"} \subseteq State
  BY DEF State
<1>2. p \in Parser /\ Clear(p) \in Parser
  BY SetKeeps DEF Machine
<1>3. ASSUME t = "nl"
      PROVE  Step(m, t) = Go(m, Clear(p), "main")
  <2>1. Kind(t) = "nl"
    BY <1>3, KindIs DEF Sign
  <2>2. OnlyMove("comment", "nl", "main", <<"prompt">>)
    BY CommentMoves
  <2>3. Performed(m, <<"prompt">>, t) = With(m, Clear(p))
    BY PerformedAre
  <2>4. QED
    BY <1>1, <1>2, <1>3, <2>1, <2>2, <2>3, StepGoes
<1>4. ASSUME t # "nl"
      PROVE  Step(m, t) = m
  <2>1. Kind(t) # "nl"
    BY <1>4, KindIs DEF Sign
  <2>2. QED
    BY <1>4, <2>1, CommentMoves, StepElse
<1>5. QED
  BY <1>3, <1>4

LEMMA EatLineSteps ==
    ASSUME NEW m \in Machine, NEW t \in Token, m.parser.cs = "eat_line"
    PROVE  LET p == m.parser
           IN  /\ t = "nl" => Step(m, t) = Go(m, p, "main")
               /\ t # "nl" => Step(m, t) = m
<1> DEFINE p == m.parser
<1>1. {"main"} \subseteq State
  BY DEF State
<1>2. p \in Parser
  BY SetKeeps DEF Machine
<1>3. ASSUME t = "nl"
      PROVE  Step(m, t) = Go(m, p, "main")
  <2>1. Kind(t) = "nl"
    BY <1>3, KindIs DEF Sign
  <2>2. OnlyMove("eat_line", "nl", "main", <<>>)
    BY EatLineMoves
  <2>3. Performed(m, <<>>, t) = With(m, p)
    BY PerformedAre
  <2>4. QED
    BY <1>1, <1>2, <1>3, <2>1, <2>2, <2>3, StepGoes
<1>4. ASSUME t # "nl"
      PROVE  Step(m, t) = m
  <2>1. Kind(t) # "nl"
    BY <1>4, KindIs DEF Sign
  <2>2. QED
    BY <1>4, <2>1, EatLineMoves, StepElse
<1>5. QED
  BY <1>3, <1>4
-----------------------------------------------------------------------------
(* What the machine has read of a line, in each of its states.             *)

\* The parameters of a command or a new node: none, values or a string.
Quoted(v) ==
    /\ Len(v) >= 2 /\ v[1] = "quote" /\ v[Len(v)] = "quote"
    /\ \A k \in 2..Len(v) - 1 : v[k] # "quote"

\* A string that is still open.
Open(v) == Len(v) >= 1 /\ v[1] = "quote" /\ \A k \in 2..Len(v) : v[k] # "quote"

Params == {<<>>} \cup One(Value) \cup {v \in Text : Quoted(v)}

Port == {<<>>} \cup One(Name)

Calls ==
    [does : {"command"}, method : One(Name), params : Params]
    \cup [does : {"new"}, var : One(Name), class : One(Class), params : Params]
    \cup [does : {"=>", "||"}, from_node : One(Name), from_port : Port,
          to_node : One(Name), to_port : Port]

\* A link up to its second node, a new node up to its class; what follows.
LinkStart(node, port, op, b1, b2) == FromEnd(node, port) \o b1 \o <<op>> \o b2
LinkTexts(node, port, op) ==
    {LinkStart(node, port, op, b1, b2) : b1 \in Blank, b2 \in Blank}
LinkWhole(y, c) == y \o ToEnd(c.to_node, c.to_port)

NewStart(var, b1, b2) == var \o b1 \o <<"=">> \o b2
NewTexts(var) == {NewStart(var, b1, b2) : b1 \in Blank, b2 \in Blank}
NewWhole(y, c) == y \o c.class \o <<"(">> \o c.params \o <<")">>

\* What may stand after a link or a new node, and what is silent there.
Tails == {r \in Text : Len(r) >= 1 /\ r[1] \in {"space", "#"}}

Remarks ==
    {r \in Tails : r[1] = "#" \/ (Len(r) >= 2 /\ r[1] = "space" /\ r[2] = "#")}

\* The machine asked for one call, and x is that call with more after it.
Followed(m, x, R) ==
    \E c \in Calls : \E w \in Spellings(c) : \E r \in R :
        /\ m.calls = <<c>> /\ x = w \o r
        /\ c.does = "command" => r = <<"nl">>

\* No call yet.
Quiet(m, cs) == m \in Machine /\ m.parser.cs = cs /\ m.calls = <<>>

AtMain(m, x) == Quiet(m, "main") /\ x = <<>> /\ Cleared(m.parser)

AtBlank(m, x) == Quiet(m, "blank") /\ x = <<"space">>

AtWord(m, x) ==
    /\ Quiet(m, "word") /\ m.parser.token \in One(Name) /\ x = m.parser.token
    /\ m.parser.params = <<>> /\ m.parser.from_port = <<>> /\ m.parser.to_port = <<>>

AtVar(m, x) ==
    /\ Quiet(m, "var") /\ Cleared(m.parser) /\ m.parser.var \in One(Name)
    /\ m.parser.from_node = m.parser.var /\ x = m.parser.var \o <<"space">>

AtFromPort(m, x) ==
    /\ Quiet(m, "from_port") /\ m.parser.from_node \in One(Name)
    /\ x = m.parser.from_node \o <<"~">>
    /\ m.parser.token = <<>> /\ m.parser.to_port = <<>>

AtFrom(m, x) ==
    /\ Quiet(m, "from") /\ m.parser.from_node \in One(Name)
    /\ m.parser.token \in One(Name) /\ m.parser.to_port = <<>>
    /\ x = m.parser.from_node \o <<"~">> \o m.parser.token

AtFromEnd(m, x) ==
    /\ Quiet(m, "from_end") /\ m.parser.from_node \in One(Name)
    /\ m.parser.from_port \in One(Name)
    /\ m.parser.token = <<>> /\ m.parser.to_port = <<>>
    /\ x = m.parser.from_node \o <<"~">> \o m.parser.from_port \o <<"space">>

\* y is the link that p has up to its second node.
LinkHead(p, y) ==
    /\ p.from_node \in One(Name) /\ p.from_port \in Port /\ p.op \in {"=>", "||"}
    /\ y \in LinkTexts(p.from_node, p.from_port, p.op)

AtTo(m, x) ==
    /\ Quiet(m, "to") /\ LinkHead(m.parser, x)
    /\ m.parser.token = <<>> /\ m.parser.to_port = <<>>

AtPortOrEnd(m, x) ==
    /\ Quiet(m, "port_or_end") /\ m.parser.token \in One(Name)
    /\ m.parser.to_port = <<>>
    /\ \E y \in Text : LinkHead(m.parser, y) /\ x = y \o m.parser.token

AtToEnd(m, x) ==
    /\ Quiet(m, "to_end") /\ m.parser.token = <<>> /\ m.parser.to_port \in One(Name)
    /\ \E y \in Text : LinkHead(m.parser, y) /\ x = y \o (m.parser.to_port \o <<"~">>)

AtEnd(m, x) ==
    /\ Quiet(m, "end") /\ m.parser.token \in One(Name) /\ m.parser.to_port \in One(Name)
    /\ \E y \in Text :
          LinkHead(m.parser, y) /\ x = y \o (m.parser.to_port \o <<"~">> \o m.parser.token)

AtNew(m, x) ==
    /\ Quiet(m, "new") /\ m.parser.var \in One(Name) /\ x \in NewTexts(m.parser.var)
    /\ m.parser.token = <<>> /\ m.parser.params = <<>>

AtClass(m, x) ==
    /\ Quiet(m, "class") /\ m.parser.var \in One(Name) /\ m.parser.params = <<>>
    /\ m.parser.token \in One(Class)
    /\ \E y \in NewTexts(m.parser.var) : x = y \o m.parser.token

\* x is the new node or the command that p has, parameters included.
NewText(p, x) ==
    /\ p.var \in One(Name) /\ p.class \in One(Class)
    /\ \E y \in NewTexts(p.var) : x = y \o p.class \o <<"(">> \o p.params

CommandText(p, x) == p.method \in One(Name) /\ x = p.method \o <<"(">> \o p.params

AtNewArgs(m, x) ==
    Quiet(m, "new_args") /\ NewText(m.parser, x) /\ m.parser.params = <<>>

AtNewString(m, x) ==
    Quiet(m, "new_string") /\ NewText(m.parser, x) /\ Open(m.parser.params)

AtNewValue(m, x) ==
    Quiet(m, "new_value") /\ NewText(m.parser, x) /\ m.parser.params \in Params

AtCreated(m, x) ==
    /\ Quiet(m, "created") /\ m.parser.params \in Params
    /\ \E y \in Text : NewText(m.parser, y) /\ x = y \o <<")">>

AtArgs(m, x) ==
    Quiet(m, "args") /\ CommandText(m.parser, x) /\ m.parser.params = <<>>

AtString(m, x) ==
    Quiet(m, "string") /\ CommandText(m.parser, x) /\ Open(m.parser.params)

AtArg(m, x) ==
    Quiet(m, "arg") /\ CommandText(m.parser, x) /\ m.parser.params \in Params

AtCalled(m, x) ==
    /\ Quiet(m, "called") /\ m.parser.params \in Params
    /\ \E y \in Text : CommandText(m.parser, y) /\ x = y \o <<")">>

AtRest(m, x) ==
    m \in Machine /\ m.parser.cs = "rest" /\ Followed(m, x, {<<"space">>})

AtComment(m, x) ==
    /\ m \in Machine /\ m.parser.cs = "comment"
    /\ \/ m.calls = <<>> /\ Len(x) >= 1 /\ x[1] = "#"
       \/ Followed(m, x, Remarks)

AtEatLine(m, x) ==
    /\ m \in Machine /\ m.parser.cs = "eat_line" /\ m.refused = TRUE /\ Cleared(m.parser)
    /\ m.calls = <<>> \/ Followed(m, x, Tails)

Within(m, x) ==
    \/ AtMain(m, x) \/ AtBlank(m, x) \/ AtWord(m, x) \/ AtVar(m, x)
    \/ AtFromPort(m, x) \/ AtFrom(m, x) \/ AtFromEnd(m, x) \/ AtTo(m, x)
    \/ AtPortOrEnd(m, x) \/ AtToEnd(m, x) \/ AtEnd(m, x)
    \/ AtNew(m, x) \/ AtClass(m, x) \/ AtNewArgs(m, x) \/ AtNewString(m, x)
    \/ AtNewValue(m, x) \/ AtCreated(m, x)
    \/ AtArgs(m, x) \/ AtString(m, x) \/ AtArg(m, x) \/ AtCalled(m, x)
    \/ AtRest(m, x) \/ AtComment(m, x) \/ AtEatLine(m, x)

\* The line x was read to its end.
Over(m, x) ==
    /\ m \in Machine /\ m.parser.cs = "main" /\ Cleared(m.parser)
    /\ \/ m.calls = <<>> /\ (m.refused = TRUE \/ IsSilent(x))
       \/ Followed(m, x, {<<"nl">>})
       \/ Followed(m, x, Remarks)
       \/ m.refused = TRUE /\ Followed(m, x, Tails)

Strings == {"string", "new_string"}

\* After the token t, the last one of x.
Read(m, x, t) ==
    IF t = "nl" /\ m.parser.cs \notin Strings THEN Over(m, x) ELSE Within(m, x)

LEMMA OnesAre ==
    /\ One(Name) \subseteq Text /\ One(Class) \subseteq Text /\ One(Value) \subseteq Text
    /\ \A t \in Name : <<t>> \in One(Name)
    /\ \A t \in Class : <<t>> \in One(Class)
    /\ \A t \in Value : <<t>> \in One(Value)
    /\ Port \subseteq Text /\ Params \subseteq Text /\ Blank \subseteq Text
    /\ One(Name) \subseteq Port /\ <<>> \in Port /\ <<>> \in Params /\ <<>> \in Blank
    /\ <<"space">> \in Blank
    /\ \A v \in One(Name) : v # <<>>
<1>1. Name \subseteq Token /\ Class \subseteq Token /\ Value \subseteq Token
      /\ "space" \in Token
  BY DEF Token, Sign
<1>2. \A t \in Token : <<t>> \in Text
  BY TextAlgebra
<1>3. One(Name) \subseteq Text /\ One(Class) \subseteq Text /\ One(Value) \subseteq Text
  BY <1>1, <1>2 DEF One
<1>4. QED
  BY <1>1, <1>2, <1>3, TextAlgebra DEF One, Port, Params, Blank

LEMMA SpellingsAre ==
    ASSUME NEW c
    PROVE  /\ c.does = "command" =>
                 Spellings(c) = {c.method \o <<"(">> \o c.params \o <<")">>}
                                \cup (IF c.params = <<>> THEN {c.method} ELSE {})
           /\ c.does = "new" =>
                 \A w : w \in Spellings(c) <=> \E y \in NewTexts(c.var) : w = NewWhole(y, c)
           /\ c.does \in {"=>", "||"} =>
                 \A w : w \in Spellings(c) <=>
                    \E y \in LinkTexts(c.from_node, c.from_port, c.does) : w = LinkWhole(y, c)
<1>1. CASE c.does = "command"
  BY <1>1 DEF Spellings
<1>2. CASE c.does = "new"
  <2>1. Spellings(c) = {NewWhole(NewStart(c.var, b1, b2), c) : b1 \in Blank, b2 \in Blank}
    BY <1>2 DEF Spellings, NewWhole, NewStart
  <2>2. QED
    BY <1>2, <2>1 DEF NewTexts
<1>3. ASSUME c.does = "=>" \/ c.does = "||"
      PROVE  Spellings(c) = {LinkWhole(LinkStart(c.from_node, c.from_port, c.does, b1, b2), c)
                               : b1 \in Blank, b2 \in Blank}
  <2>1. CASE c.does = "=>"
    BY <2>1 DEF Spellings, LinkWhole, LinkStart
  <2>2. CASE c.does = "||"
    BY <2>2 DEF Spellings, LinkWhole, LinkStart
  <2>3. QED
    BY <1>3, <2>1, <2>2
<1>4. CASE c.does \in {"=>", "||"}
  <2>1. Spellings(c) = {LinkWhole(LinkStart(c.from_node, c.from_port, c.does, b1, b2), c)
                           : b1 \in Blank, b2 \in Blank}
    BY <1>3, <1>4
  <2>2. LinkTexts(c.from_node, c.from_port, c.does)
          = {LinkStart(c.from_node, c.from_port, c.does, b1, b2) : b1 \in Blank, b2 \in Blank}
    BY DEF LinkTexts
  <2>3. \A w : w \in Spellings(c) <=>
           \E y \in LinkTexts(c.from_node, c.from_port, c.does) : w = LinkWhole(y, c)
    BY <2>1, <2>2
  <2>4. QED
    BY <1>4, <2>3
<1>5. QED
  BY <1>1, <1>2, <1>4

\* The spellings of the calls that the registers stand for.
LEMMA LinkSaid ==
    ASSUME NEW p \in Parser, NEW y, LinkHead(p, y), p.token \in One(Name),
           p.to_port \in Port
    PROVE  LET c == LinkCall(VarSet(p))
           IN  /\ c \in Calls /\ c.does # "command"
               /\ y \o ToEnd(p.token, p.to_port) \in Spellings(c)
<1> DEFINE q == VarSet(p)
           c == [does |-> p.op, from_node |-> p.from_node, from_port |-> p.from_port,
                 to_node |-> p.token, to_port |-> p.to_port]
<1>1. q.op = p.op /\ q.from_node = p.from_node /\ q.from_port = p.from_port
      /\ q.var = p.token /\ q.to_port = p.to_port
  BY DEF VarSet, Parser
<1>2. LinkCall(q) = c
  BY <1>1 DEF LinkCall
<1>3. /\ p.from_node \in One(Name) /\ p.from_port \in Port /\ p.op \in {"=>", "||"}
      /\ y \in LinkTexts(p.from_node, p.from_port, p.op)
  BY DEF LinkHead
<1>4. c \in Calls /\ c.does \in {"=>", "||"}
  BY <1>3 DEF Calls
<1>5. y \o ToEnd(p.token, p.to_port) \in Spellings(c)
  <2>1. /\ c.from_node = p.from_node /\ c.from_port = p.from_port /\ c.does = p.op
        /\ c.to_node = p.token /\ c.to_port = p.to_port
    OBVIOUS
  <2> HIDE DEF c
  <2>2. QED
    BY <1>3, <1>4, <2>1, SpellingsAre DEF LinkWhole
<1>6. QED
  BY <1>2, <1>4, <1>5

LEMMA NewSaid ==
    ASSUME NEW p \in Parser, NEW y, NewText(p, y), p.params \in Params
    PROVE  LET c == CreateCall(p)
           IN  c \in Calls /\ c.does # "command" /\ y \o <<")">> \in Spellings(c)
<1> DEFINE c == [does |-> "new", var |-> p.var, class |-> p.class, params |-> p.params]
<1>1. CreateCall(p) = c
  BY DEF CreateCall
<1>2. c \in Calls /\ c.does = "new"
  BY DEF Calls, NewText
<1>3. y \o <<")">> \in Spellings(c)
  <2>1. c.var = p.var /\ c.class = p.class /\ c.params = p.params
    OBVIOUS
  <2> HIDE DEF c
  <2>2. QED
    BY <1>2, <2>1, SpellingsAre DEF NewText, NewWhole
<1>4. QED
  BY <1>1, <1>2, <1>3

LEMMA CommandSaid ==
    ASSUME NEW p \in Parser, p.method \in One(Name), p.params \in Params
    PROVE  LET c == CommandCall(p)
           IN  /\ c \in Calls /\ c.does = "command"
               /\ p.method \o <<"(">> \o p.params \o <<")">> \in Spellings(c)
               /\ p.params = <<>> => p.method \in Spellings(c)
<1> DEFINE c == [does |-> "command", method |-> p.method, params |-> p.params]
<1>1. CommandCall(p) = c
  BY DEF CommandCall
<1>2. c \in Calls /\ c.does = "command"
  BY DEF Calls
<1>3. Spellings(c) = {c.method \o <<"(">> \o c.params \o <<")">>}
                     \cup (IF c.params = <<>> THEN {c.method} ELSE {})
  BY <1>2 DEF Spellings
<1>4. QED
  BY <1>1, <1>2, <1>3

\* How the machine is told to have read a token.
LEMMA ReadWithin ==
    ASSUME NEW m, NEW x, NEW t, Within(m, x), t # "nl" \/ m.parser.cs \in Strings
    PROVE  Read(m, x, t)
BY DEF Read

LEMMA ReadOver ==
    ASSUME NEW m, NEW x, NEW t, Over(m, x), t = "nl"
    PROVE  Read(m, x, t)
BY DEF Read, Over, Strings

\* A syntax error before any call.
LEMMA ReadRefused ==
    ASSUME NEW m, NEW n, NEW x, NEW t, m.calls = <<>>, Refused(m, n, t)
    PROVE  Read(n, x, t)
<1>1. /\ n \in Machine /\ n.refused = TRUE /\ n.calls = <<>> /\ Cleared(n.parser)
      /\ n.parser.cs = IF t = "nl" THEN "main" ELSE "eat_line"
  BY DEF Refused
<1>2. CASE t = "nl"
  BY <1>1, <1>2, ReadOver DEF Over
<1>3. CASE t # "nl"
  <2>1. AtEatLine(n, x)
    BY <1>1, <1>3 DEF AtEatLine
  <2>2. QED
    BY <1>3, <2>1, ReadWithin DEF Within
<1>4. QED
  BY <1>2, <1>3

\* A call, and what follows it.
LEMMA CalledFollows ==
    ASSUME NEW m, NEW n, NEW c \in Calls, NEW cs, NEW w \in Spellings(c), NEW t, NEW R,
           m.calls = <<>>, Called(m, n, c, cs), <<t>> \in R,
           c.does = "command" => t = "nl"
    PROVE  Followed(n, w \o <<t>>, R)
<1>1. n.calls = <<c>>
  BY DEF Called, Asked
<1>2. QED
  BY <1>1 DEF Followed

\* The machine n, in the state cs, did what m did.
Goes(m, n, cs) ==
    /\ n \in Machine /\ n.parser.cs = cs
    /\ n.calls = m.calls /\ n.refused = m.refused

\* The machine after each of the moves without a call.
LEMMA StayIs ==
    ASSUME NEW m \in Machine, NEW t \in Token, NEW cs \in State
    PROVE  LET n == Go(m, m.parser, cs)
           IN  /\ Goes(m, n, cs)
               /\ n.parser.op = m.parser.op
               /\ n.parser.token = m.parser.token
               /\ n.parser.var = m.parser.var
               /\ n.parser.method = m.parser.method
               /\ n.parser.class = m.parser.class
               /\ n.parser.params = m.parser.params
               /\ n.parser.from_node = m.parser.from_node
               /\ n.parser.from_port = m.parser.from_port
               /\ n.parser.to_node = m.parser.to_node
               /\ n.parser.to_port = m.parser.to_port
<1> DEFINE q == m.parser
<1>1. q \in Parser
  BY DEF Machine
<1>2. QED
  BY <1>1, GoIs DEF Goes

LEMMA CollectIs ==
    ASSUME NEW m \in Machine, NEW t \in Token, NEW cs \in State
    PROVE  LET n == Go(m, Collected(m.parser, t), cs)
           IN  /\ Goes(m, n, cs)
               /\ n.parser.op = m.parser.op
               /\ n.parser.token = m.parser.token \o <<t>>
               /\ n.parser.var = m.parser.var
               /\ n.parser.method = m.parser.method
               /\ n.parser.class = m.parser.class
               /\ n.parser.params = m.parser.params
               /\ n.parser.from_node = m.parser.from_node
               /\ n.parser.from_port = m.parser.from_port
               /\ n.parser.to_node = m.parser.to_node
               /\ n.parser.to_port = m.parser.to_port
<1> DEFINE q == Collected(m.parser, t)
<1>1. m.parser \in Parser
  BY SetKeeps DEF Machine
<1>2. q \in Parser
  BY <1>1, SetKeeps
<1>3. /\ q.op = m.parser.op
      /\ q.token = m.parser.token \o <<t>>
      /\ q.var = m.parser.var
      /\ q.method = m.parser.method
      /\ q.class = m.parser.class
      /\ q.params = m.parser.params
      /\ q.from_node = m.parser.from_node
      /\ q.from_port = m.parser.from_port
      /\ q.to_node = m.parser.to_node
      /\ q.to_port = m.parser.to_port
  <2>1. Append(m.parser.token, t) = m.parser.token \o <<t>>
    BY <1>1, TextAlgebra DEF Parser
  <2>2. QED
    BY <1>1, <2>1 DEF Collected, Parser
<1> HIDE DEF q
<1>4. QED
  BY <1>2, <1>3, GoIs DEF Goes, q

LEMMA ParamsIs ==
    ASSUME NEW m \in Machine, NEW t \in Token, NEW cs \in State
    PROVE  LET n == Go(m, ParamsAdded(m.parser, t), cs)
           IN  /\ Goes(m, n, cs)
               /\ n.parser.op = m.parser.op
               /\ n.parser.token = m.parser.token
               /\ n.parser.var = m.parser.var
               /\ n.parser.method = m.parser.method
               /\ n.parser.class = m.parser.class
               /\ n.parser.params = m.parser.params \o <<t>>
               /\ n.parser.from_node = m.parser.from_node
               /\ n.parser.from_port = m.parser.from_port
               /\ n.parser.to_node = m.parser.to_node
               /\ n.parser.to_port = m.parser.to_port
<1> DEFINE q == ParamsAdded(m.parser, t)
<1>1. m.parser \in Parser
  BY SetKeeps DEF Machine
<1>2. q \in Parser
  BY <1>1, SetKeeps
<1>3. /\ q.op = m.parser.op
      /\ q.token = m.parser.token
      /\ q.var = m.parser.var
      /\ q.method = m.parser.method
      /\ q.class = m.parser.class
      /\ q.params = m.parser.params \o <<t>>
      /\ q.from_node = m.parser.from_node
      /\ q.from_port = m.parser.from_port
      /\ q.to_node = m.parser.to_node
      /\ q.to_port = m.parser.to_port
  <2>1. Append(m.parser.params, t) = m.parser.params \o <<t>>
    BY <1>1, TextAlgebra DEF Parser
  <2>2. QED
    BY <1>1, <2>1 DEF ParamsAdded, Parser
<1> HIDE DEF q
<1>4. QED
  BY <1>2, <1>3, GoIs DEF Goes, q

LEMMA OpIs ==
    ASSUME NEW m \in Machine, NEW t \in Token, NEW cs \in State
    PROVE  LET n == Go(m, OpSet(m.parser, t), cs)
           IN  /\ Goes(m, n, cs)
               /\ n.parser.op = t
               /\ n.parser.token = m.parser.token
               /\ n.parser.var = m.parser.var
               /\ n.parser.method = m.parser.method
               /\ n.parser.class = m.parser.class
               /\ n.parser.params = m.parser.params
               /\ n.parser.from_node = m.parser.from_node
               /\ n.parser.from_port = m.parser.from_port
               /\ n.parser.to_node = m.parser.to_node
               /\ n.parser.to_port = m.parser.to_port
<1> DEFINE q == OpSet(m.parser, t)
<1>1. m.parser \in Parser
  BY SetKeeps DEF Machine
<1>2. q \in Parser
  BY <1>1, SetKeeps
<1>3. /\ q.op = t
      /\ q.token = m.parser.token
      /\ q.var = m.parser.var
      /\ q.method = m.parser.method
      /\ q.class = m.parser.class
      /\ q.params = m.parser.params
      /\ q.from_node = m.parser.from_node
      /\ q.from_port = m.parser.from_port
      /\ q.to_node = m.parser.to_node
      /\ q.to_port = m.parser.to_port
  BY <1>1 DEF OpSet, Parser
<1> HIDE DEF q
<1>4. QED
  BY <1>2, <1>3, GoIs DEF Goes, q

LEMMA MethodIs ==
    ASSUME NEW m \in Machine, NEW t \in Token, NEW cs \in State
    PROVE  LET n == Go(m, MethodSet(m.parser), cs)
           IN  /\ Goes(m, n, cs)
               /\ n.parser.op = m.parser.op
               /\ n.parser.token = <<>>
               /\ n.parser.var = m.parser.var
               /\ n.parser.method = m.parser.token
               /\ n.parser.class = m.parser.class
               /\ n.parser.params = m.parser.params
               /\ n.parser.from_node = m.parser.from_node
               /\ n.parser.from_port = m.parser.from_port
               /\ n.parser.to_node = m.parser.to_node
               /\ n.parser.to_port = m.parser.to_port
<1> DEFINE q == MethodSet(m.parser)
<1>1. m.parser \in Parser
  BY SetKeeps DEF Machine
<1>2. q \in Parser
  BY <1>1, SetKeeps
<1>3. /\ q.op = m.parser.op
      /\ q.token = <<>>
      /\ q.var = m.parser.var
      /\ q.method = m.parser.token
      /\ q.class = m.parser.class
      /\ q.params = m.parser.params
      /\ q.from_node = m.parser.from_node
      /\ q.from_port = m.parser.from_port
      /\ q.to_node = m.parser.to_node
      /\ q.to_port = m.parser.to_port
  BY <1>1 DEF MethodSet, Parser
<1> HIDE DEF q
<1>4. QED
  BY <1>2, <1>3, GoIs DEF Goes, q

LEMMA ClassIs ==
    ASSUME NEW m \in Machine, NEW t \in Token, NEW cs \in State
    PROVE  LET n == Go(m, ClassSet(m.parser), cs)
           IN  /\ Goes(m, n, cs)
               /\ n.parser.op = m.parser.op
               /\ n.parser.token = <<>>
               /\ n.parser.var = m.parser.var
               /\ n.parser.method = m.parser.method
               /\ n.parser.class = m.parser.token
               /\ n.parser.params = m.parser.params
               /\ n.parser.from_node = m.parser.from_node
               /\ n.parser.from_port = m.parser.from_port
               /\ n.parser.to_node = m.parser.to_node
               /\ n.parser.to_port = m.parser.to_port
<1> DEFINE q == ClassSet(m.parser)
<1>1. m.parser \in Parser
  BY SetKeeps DEF Machine
<1>2. q \in Parser
  BY <1>1, SetKeeps
<1>3. /\ q.op = m.parser.op
      /\ q.token = <<>>
      /\ q.var = m.parser.var
      /\ q.method = m.parser.method
      /\ q.class = m.parser.token
      /\ q.params = m.parser.params
      /\ q.from_node = m.parser.from_node
      /\ q.from_port = m.parser.from_port
      /\ q.to_node = m.parser.to_node
      /\ q.to_port = m.parser.to_port
  BY <1>1 DEF ClassSet, Parser
<1> HIDE DEF q
<1>4. QED
  BY <1>2, <1>3, GoIs DEF Goes, q

LEMMA FromIs ==
    ASSUME NEW m \in Machine, NEW t \in Token, NEW cs \in State
    PROVE  LET n == Go(m, FromSet(VarSet(m.parser)), cs)
           IN  /\ Goes(m, n, cs)
               /\ n.parser.op = m.parser.op
               /\ n.parser.token = <<>>
               /\ n.parser.var = m.parser.token
               /\ n.parser.method = m.parser.method
               /\ n.parser.class = m.parser.class
               /\ n.parser.params = m.parser.params
               /\ n.parser.from_node = m.parser.token
               /\ n.parser.from_port = m.parser.from_port
               /\ n.parser.to_node = m.parser.to_node
               /\ n.parser.to_port = m.parser.to_port
<1> DEFINE q == FromSet(VarSet(m.parser))
<1>1. m.parser \in Parser /\ VarSet(m.parser) \in Parser
  BY SetKeeps DEF Machine
<1>2. q \in Parser
  BY <1>1, SetKeeps
<1>3. /\ q.op = m.parser.op
      /\ q.token = <<>>
      /\ q.var = m.parser.token
      /\ q.method = m.parser.method
      /\ q.class = m.parser.class
      /\ q.params = m.parser.params
      /\ q.from_node = m.parser.token
      /\ q.from_port = m.parser.from_port
      /\ q.to_node = m.parser.to_node
      /\ q.to_port = m.parser.to_port
  BY <1>1 DEF FromSet, VarSet, Parser
<1> HIDE DEF q
<1>4. QED
  BY <1>2, <1>3, GoIs DEF Goes, q

LEMMA FromOpIs ==
    ASSUME NEW m \in Machine, NEW t \in Token, NEW cs \in State
    PROVE  LET n == Go(m, OpSet(FromSet(VarSet(m.parser)), t), cs)
           IN  /\ Goes(m, n, cs)
               /\ n.parser.op = t
               /\ n.parser.token = <<>>
               /\ n.parser.var = m.parser.token
               /\ n.parser.method = m.parser.method
               /\ n.parser.class = m.parser.class
               /\ n.parser.params = m.parser.params
               /\ n.parser.from_node = m.parser.token
               /\ n.parser.from_port = m.parser.from_port
               /\ n.parser.to_node = m.parser.to_node
               /\ n.parser.to_port = m.parser.to_port
<1> DEFINE q == OpSet(FromSet(VarSet(m.parser)), t)
<1>1. m.parser \in Parser /\ VarSet(m.parser) \in Parser /\ FromSet(VarSet(m.parser)) \in Parser
  BY SetKeeps DEF Machine
<1>2. q \in Parser
  BY <1>1, SetKeeps
<1>3. /\ q.op = t
      /\ q.token = <<>>
      /\ q.var = m.parser.token
      /\ q.method = m.parser.method
      /\ q.class = m.parser.class
      /\ q.params = m.parser.params
      /\ q.from_node = m.parser.token
      /\ q.from_port = m.parser.from_port
      /\ q.to_node = m.parser.to_node
      /\ q.to_port = m.parser.to_port
  BY <1>1 DEF OpSet, FromSet, VarSet, Parser
<1> HIDE DEF q
<1>4. QED
  BY <1>2, <1>3, GoIs DEF Goes, q

LEMMA FromPortIs ==
    ASSUME NEW m \in Machine, NEW t \in Token, NEW cs \in State
    PROVE  LET n == Go(m, FromPortSet(VarSet(m.parser)), cs)
           IN  /\ Goes(m, n, cs)
               /\ n.parser.op = m.parser.op
               /\ n.parser.token = <<>>
               /\ n.parser.var = m.parser.token
               /\ n.parser.method = m.parser.method
               /\ n.parser.class = m.parser.class
               /\ n.parser.params = m.parser.params
               /\ n.parser.from_node = m.parser.from_node
               /\ n.parser.from_port = m.parser.token
               /\ n.parser.to_node = m.parser.to_node
               /\ n.parser.to_port = m.parser.to_port
<1> DEFINE q == FromPortSet(VarSet(m.parser))
<1>1. m.parser \in Parser /\ VarSet(m.parser) \in Parser
  BY SetKeeps DEF Machine
<1>2. q \in Parser
  BY <1>1, SetKeeps
<1>3. /\ q.op = m.parser.op
      /\ q.token = <<>>
      /\ q.var = m.parser.token
      /\ q.method = m.parser.method
      /\ q.class = m.parser.class
      /\ q.params = m.parser.params
      /\ q.from_node = m.parser.from_node
      /\ q.from_port = m.parser.token
      /\ q.to_node = m.parser.to_node
      /\ q.to_port = m.parser.to_port
  BY <1>1 DEF FromPortSet, VarSet, Parser
<1> HIDE DEF q
<1>4. QED
  BY <1>2, <1>3, GoIs DEF Goes, q

LEMMA FromPortOpIs ==
    ASSUME NEW m \in Machine, NEW t \in Token, NEW cs \in State
    PROVE  LET n == Go(m, OpSet(FromPortSet(VarSet(m.parser)), t), cs)
           IN  /\ Goes(m, n, cs)
               /\ n.parser.op = t
               /\ n.parser.token = <<>>
               /\ n.parser.var = m.parser.token
               /\ n.parser.method = m.parser.method
               /\ n.parser.class = m.parser.class
               /\ n.parser.params = m.parser.params
               /\ n.parser.from_node = m.parser.from_node
               /\ n.parser.from_port = m.parser.token
               /\ n.parser.to_node = m.parser.to_node
               /\ n.parser.to_port = m.parser.to_port
<1> DEFINE q == OpSet(FromPortSet(VarSet(m.parser)), t)
<1>1. m.parser \in Parser /\ VarSet(m.parser) \in Parser /\ FromPortSet(VarSet(m.parser)) \in Parser
  BY SetKeeps DEF Machine
<1>2. q \in Parser
  BY <1>1, SetKeeps
<1>3. /\ q.op = t
      /\ q.token = <<>>
      /\ q.var = m.parser.token
      /\ q.method = m.parser.method
      /\ q.class = m.parser.class
      /\ q.params = m.parser.params
      /\ q.from_node = m.parser.from_node
      /\ q.from_port = m.parser.token
      /\ q.to_node = m.parser.to_node
      /\ q.to_port = m.parser.to_port
  BY <1>1 DEF OpSet, FromPortSet, VarSet, Parser
<1> HIDE DEF q
<1>4. QED
  BY <1>2, <1>3, GoIs DEF Goes, q

LEMMA ToPortIs ==
    ASSUME NEW m \in Machine, NEW t \in Token, NEW cs \in State
    PROVE  LET n == Go(m, ToPortSet(VarSet(m.parser)), cs)
           IN  /\ Goes(m, n, cs)
               /\ n.parser.op = m.parser.op
               /\ n.parser.token = <<>>
               /\ n.parser.var = m.parser.token
               /\ n.parser.method = m.parser.method
               /\ n.parser.class = m.parser.class
               /\ n.parser.params = m.parser.params
               /\ n.parser.from_node = m.parser.from_node
               /\ n.parser.from_port = m.parser.from_port
               /\ n.parser.to_node = m.parser.to_node
               /\ n.parser.to_port = m.parser.token
<1> DEFINE q == ToPortSet(VarSet(m.parser))
<1>1. m.parser \in Parser /\ VarSet(m.parser) \in Parser
  BY SetKeeps DEF Machine
<1>2. q \in Parser
  BY <1>1, SetKeeps
<1>3. /\ q.op = m.parser.op
      /\ q.token = <<>>
      /\ q.var = m.parser.token
      /\ q.method = m.parser.method
      /\ q.class = m.parser.class
      /\ q.params = m.parser.params
      /\ q.from_node = m.parser.from_node
      /\ q.from_port = m.parser.from_port
      /\ q.to_node = m.parser.to_node
      /\ q.to_port = m.parser.token
  BY <1>1 DEF ToPortSet, VarSet, Parser
<1> HIDE DEF q
<1>4. QED
  BY <1>2, <1>3, GoIs DEF Goes, q

LEMMA ClearedIs ==
    ASSUME NEW m \in Machine, NEW cs \in State
    PROVE  LET n == Go(m, Clear(m.parser), cs)
           IN  Goes(m, n, cs) /\ Cleared(n.parser)
<1> DEFINE q == Clear(m.parser)
<1>1. m.parser \in Parser
  BY DEF Machine
<1>2. q \in Parser /\ Cleared(q)
  BY <1>1, ClearKeeps, ClearIs
<1> HIDE DEF q
<1>3. QED
  BY <1>2, GoIs DEF Goes, Cleared, q

-----------------------------------------------------------------------------
(* Growing a link and a new node by a token.                               *)

LEMMA LinkWords ==
    ASSUME NEW v \in One(Name), NEW op
    PROVE  /\ v \o <<op>> \in LinkTexts(v, <<>>, op)
           /\ v \o <<"space">> \o <<op>> \in LinkTexts(v, <<>>, op)
           /\ \A w \in One(Name) :
                 /\ v \o <<"~">> \o w \o <<op>> \in LinkTexts(v, w, op)
                 /\ v \o <<"~">> \o w \o <<"space">> \o <<op>> \in LinkTexts(v, w, op)
<1> DEFINE s == <<"space">>
<1>1. v \in Text /\ <<op>> \o <<>> = <<op>>
  BY OnesAre
<1>2. <<>> \in Blank /\ s \in Blank
  BY DEF Blank
<1>3. /\ LinkStart(v, <<>>, op, <<>>, <<>>) = v \o <<op>>
      /\ LinkStart(v, <<>>, op, s, <<>>) = v \o s \o <<op>>
  BY DEF LinkStart, FromEnd, Text
<1>4. ASSUME NEW w \in One(Name)
      PROVE  /\ LinkStart(v, w, op, <<>>, <<>>) = v \o <<"~">> \o w \o <<op>>
             /\ LinkStart(v, w, op, s, <<>>) = v \o <<"~">> \o w \o s \o <<op>>
  <2>1. w \in Text /\ w # <<>>
    BY OnesAre
  <2>2. QED
    BY <1>1, <2>1 DEF LinkStart, FromEnd, Text
<1>5. QED
  <2>1. \A w : \A b1, b2 \in Blank : LinkStart(v, w, op, b1, b2) \in LinkTexts(v, w, op)
    BY DEF LinkTexts
  <2>2. v \o <<op>> \in LinkTexts(v, <<>>, op)
    BY <1>2, <1>3, <2>1
  <2>3. v \o s \o <<op>> \in LinkTexts(v, <<>>, op)
    BY <1>2, <1>3, <2>1
  <2>4. ASSUME NEW w \in One(Name)
        PROVE  /\ v \o <<"~">> \o w \o <<op>> \in LinkTexts(v, w, op)
               /\ v \o <<"~">> \o w \o s \o <<op>> \in LinkTexts(v, w, op)
    BY <1>2, <1>4, <2>1
  <2>5. QED
    BY <2>2, <2>3, <2>4

LEMMA NewWords ==
    ASSUME NEW v \in One(Name)
    PROVE  /\ v \o <<"=">> \in NewTexts(v)
           /\ v \o <<"space">> \o <<"=">> \in NewTexts(v)
<1> DEFINE s == <<"space">>
<1>1. v \in Text
  BY OnesAre
<1>2. <<>> \in Blank /\ s \in Blank
  BY DEF Blank
<1>3. /\ NewStart(v, <<>>, <<>>) = v \o <<"=">>
      /\ NewStart(v, s, <<>>) = v \o s \o <<"=">>
  BY <1>1 DEF NewStart, Text
<1>4. QED
  BY <1>2, <1>3, SMTT(30) DEF NewTexts

\* The last call of a line.
LEMMA CalledOver ==
    ASSUME NEW m, NEW n, NEW c \in Calls, NEW w \in Spellings(c), NEW t, t = "nl",
           m.calls = <<>>, Called(m, n, c, "main"), Cleared(n.parser)
    PROVE  Over(n, w \o <<t>>)
<1>1. Followed(n, w \o <<t>>, {<<"nl">>})
  BY CalledFollows
<1>2. n \in Machine /\ n.parser.cs = "main"
  BY DEF Called, Asked
<1>3. QED
  BY <1>1, <1>2 DEF Over

LEMMA SilentLines == IsSilent(<<"nl">>) /\ IsSilent(<<"space", "nl">>)
BY DEF IsSilent

LEMMA TwoTokens ==
    ASSUME NEW t \in Token, NEW u \in Token
    PROVE  <<t>> \o <<u>> = <<t, u>>
<1> DEFINE x == <<t>>
           y == <<u>>
           z == <<t, u>>
<1>1. /\ x \in Text /\ y \in Text /\ z \in Text
      /\ Len(x) = 1 /\ Len(y) = 1 /\ Len(z) = 2
      /\ x[1] = t /\ y[1] = u /\ z[1] = t /\ z[2] = u
  BY DEF Text
<1> HIDE DEF x, y, z
<1>2. /\ x \o y \in Seq(Token) /\ Len(x \o y) = 2
      /\ (x \o y)[1] = t /\ (x \o y)[2] = u
  BY <1>1, ConcatProperties DEF Text
<1>3. x \o y = z
  BY <1>1, <1>2, SeqEqual DEF Text
<1>4. QED
  BY <1>3 DEF x, y, z

\* A text and one more token.
LEMMA OneMore ==
    ASSUME NEW x \in Text, NEW t \in Token
    PROVE  LET y == x \o <<t>>
           IN  /\ y \in Text /\ Len(y) = Len(x) + 1 /\ y[Len(x) + 1] = t
               /\ \A k \in 1..Len(x) : y[k] = x[k]
<1> DEFINE z == <<t>>
<1>1. z \in Text /\ Len(z) = 1 /\ z[1] = t
  BY DEF Text
<1> HIDE DEF z
<1>2. QED
  BY <1>1, ConcatIs, TextAlgebra DEF z

LEMMA NoTwoBlanks ==
    ASSUME NEW x \in Text
    PROVE  ~RunsOfBlanks(x \o <<"space">> \o <<"space">>)
<1> DEFINE y == x \o <<"space">>
           z == y \o <<"space">>
<1>1. "space" \in Token
  BY DEF Token, Sign
<1>2. y \in Text /\ Len(y) = Len(x) + 1 /\ y[Len(y)] = "space" /\ Len(x) \in Nat
  BY <1>1, OneMore, ConcatIs
<1> HIDE DEF y
<1>3. Len(z) = Len(y) + 1 /\ z[Len(y)] = "space" /\ z[Len(y) + 1] = "space"
  BY <1>1, <1>2, OneMore
<1> HIDE DEF z
<1>4. Len(y) \in 1..Len(z) - 1
  BY <1>2, <1>3
<1>5. ~RunsOfBlanks(z)
  BY <1>3, <1>4 DEF RunsOfBlanks
<1>6. QED
  BY <1>5 DEF y, z

\* A blank more, where there may be one.
LEMMA LinkBlank ==
    ASSUME NEW v \in One(Name), NEW w \in Port, NEW op \in {"=>", "||"},
           NEW x \in LinkTexts(v, w, op), RunsOfBlanks(x \o <<"space">>)
    PROVE  x \o <<"space">> \in LinkTexts(v, w, op)
<1> DEFINE s == <<"space">>
<1>1. PICK b1 \in Blank, b2 \in Blank : x = LinkStart(v, w, op, b1, b2)
  BY DEF LinkTexts
<1>2. FromEnd(v, w) \in Text /\ <<op>> \in Text /\ b1 \in Text
  <2>1. v \in Text /\ w \in Text /\ op \in Token /\ "~" \in Token
    BY OnesAre DEF Token, Sign
  <2>2. QED
    BY <2>1, OnesAre, TextAlgebra DEF FromEnd
<1> DEFINE f == FromEnd(v, w) \o b1 \o <<op>>
<1>3. f \in Text
  BY <1>2, TextAlgebra
<1>4. x = f \o b2
  BY <1>1 DEF LinkStart
<1>5. b2 = <<>> \/ b2 = s
  BY DEF Blank
<1>6. b2 # s
  BY <1>3, <1>4, NoTwoBlanks
<1>7. x \o s = LinkStart(v, w, op, b1, s)
  BY <1>3, <1>4, <1>5, <1>6, TextAlgebra DEF LinkStart
<1>8. s \in Blank
  BY DEF Blank
<1>9. QED
  BY <1>7, <1>8 DEF LinkTexts

LEMMA NewBlank ==
    ASSUME NEW v \in One(Name), NEW x \in NewTexts(v), RunsOfBlanks(x \o <<"space">>)
    PROVE  x \o <<"space">> \in NewTexts(v)
<1> DEFINE s == <<"space">>
<1>1. PICK b1 \in Blank, b2 \in Blank : x = NewStart(v, b1, b2)
  BY DEF NewTexts
<1>2. v \in Text /\ <<"=">> \in Text /\ b1 \in Text
  BY OnesAre, TextAlgebra DEF Token, Sign
<1> DEFINE f == v \o b1 \o <<"=">>
<1>3. f \in Text
  BY <1>2, TextAlgebra
<1>4. x = f \o b2
  BY <1>1 DEF NewStart
<1>5. b2 = <<>> \/ b2 = s
  BY DEF Blank
<1>6. b2 # s
  BY <1>3, <1>4, NoTwoBlanks
<1>7. x \o s = NewStart(v, b1, s)
  BY <1>3, <1>4, <1>5, <1>6, TextAlgebra DEF NewStart
<1>8. s \in Blank
  BY DEF Blank
<1>9. QED
  BY <1>7, <1>8 DEF NewTexts

\* Spellings are texts, and so are their parts.
LEMMA PartsAreText ==
    /\ \A v \in One(Name), w \in Port : FromEnd(v, w) \in Text /\ ToEnd(v, w) \in Text
    /\ \A v \in One(Name), w \in Port, op \in Token : LinkTexts(v, w, op) \subseteq Text
    /\ \A v \in One(Name) : NewTexts(v) \subseteq Text
<1>1. /\ Port \subseteq Text /\ Blank \subseteq Text /\ One(Name) \subseteq Text
      /\ "~" \in Token /\ "=" \in Token
  BY OnesAre DEF Token, Sign
<1>2. \A v \in One(Name), w \in Port : FromEnd(v, w) \in Text /\ ToEnd(v, w) \in Text
  BY <1>1, TextAlgebra DEF FromEnd, ToEnd
<1>3. \A v \in One(Name), w \in Port, op \in Token, b1, b2 \in Blank :
         LinkStart(v, w, op, b1, b2) \in Text
  BY <1>1, <1>2, TextAlgebra DEF LinkStart
<1>4. \A v \in One(Name), b1, b2 \in Blank : NewStart(v, b1, b2) \in Text
  BY <1>1, TextAlgebra DEF NewStart
<1>5. QED
  BY <1>2, <1>3, <1>4 DEF LinkTexts, NewTexts

LEMMA SpellingsAreText ==
    ASSUME NEW c \in Calls
    PROVE  Spellings(c) \subseteq Text
<1>1. {"=>", "||", "(", ")"} \subseteq Token
  BY DEF Token, Sign
<1>2. CASE c \in [does : {"command"}, method : One(Name), params : Params]
  <2>1. c.does = "command" /\ c.method \in Text /\ c.params \in Text
    BY <1>2, OnesAre
  <2>2. c.method \o <<"(">> \o c.params \o <<")">> \in Text
    BY <1>1, <2>1, TextAlgebra
  <2>3. Spellings(c) \subseteq {c.method \o <<"(">> \o c.params \o <<")">>, c.method}
    <3>1. Spellings(c) = {c.method \o <<"(">> \o c.params \o <<")">>}
                         \cup (IF c.params = <<>> THEN {c.method} ELSE {})
      BY <2>1, SpellingsAre
    <3>2. QED
      BY <3>1, Zenon
  <2>4. QED
    BY <2>1, <2>2, <2>3
<1>3. CASE c \in [does : {"new"}, var : One(Name), class : One(Class), params : Params]
  <2>1. c.does = "new" /\ c.var \in One(Name) /\ c.class \in Text /\ c.params \in Text
    BY <1>3, OnesAre
  <2>2. \A y \in NewTexts(c.var) : NewWhole(y, c) \in Text
    BY <1>1, <2>1, PartsAreText, TextAlgebra DEF NewWhole
  <2>3. \A w \in Spellings(c) : \E y \in NewTexts(c.var) : w = NewWhole(y, c)
    BY <2>1, SpellingsAre
  <2>4. QED
    BY <2>2, <2>3
<1>4. CASE c \in [does : {"=>", "||"}, from_node : One(Name), from_port : Port,
                  to_node : One(Name), to_port : Port]
  <2>1. /\ c.does \in {"=>", "||"} /\ c.from_node \in One(Name) /\ c.from_port \in Port
        /\ c.to_node \in One(Name) /\ c.to_port \in Port
    BY <1>4
  <2>2. \A y \in LinkTexts(c.from_node, c.from_port, c.does) : LinkWhole(y, c) \in Text
    BY <1>1, <2>1, PartsAreText, TextAlgebra DEF LinkWhole
  <2>3. \A w \in Spellings(c) :
           \E y \in LinkTexts(c.from_node, c.from_port, c.does) : w = LinkWhole(y, c)
    BY <2>1, SpellingsAre
  <2>4. QED
    BY <2>2, <2>3
<1>5. QED
  BY <1>2, <1>3, <1>4 DEF Calls

\* A tail stays one whatever is added to it.
LEMMA TailsGrow ==
    ASSUME NEW t \in Token
    PROVE  /\ \A r \in Tails : r \o <<t>> \in Tails
           /\ \A r \in Remarks : r \o <<t>> \in Remarks
<1>1. ASSUME NEW r \in Tails PROVE r \o <<t>> \in Tails
  <2>1. r \in Text /\ Len(r) \in Nat /\ Len(r) >= 1 /\ r[1] \in {"space", "#"}
    BY ConcatIs DEF Tails
  <2> DEFINE y == r \o <<t>>
  <2>2. y \in Text /\ Len(y) = Len(r) + 1 /\ y[1] = r[1]
    BY <2>1, OneMore
  <2> HIDE DEF y
  <2>3. y \in Tails
    BY <2>1, <2>2 DEF Tails
  <2>4. QED
    BY <2>3 DEF y
<1>2. ASSUME NEW r \in Remarks PROVE r \o <<t>> \in Remarks
  <2>1. /\ r \in Tails /\ r \in Text /\ Len(r) \in Nat /\ Len(r) >= 1
        /\ r[1] = "#" \/ (Len(r) >= 2 /\ r[1] = "space" /\ r[2] = "#")
    BY ConcatIs DEF Remarks, Tails
  <2> DEFINE y == r \o <<t>>
  <2>2. y \in Text /\ Len(y) = Len(r) + 1 /\ y[1] = r[1] /\ (Len(r) >= 2 => y[2] = r[2])
    BY <2>1, OneMore
  <2>3. y \in Tails
    BY <1>1, <2>1
  <2> HIDE DEF y
  <2>4. y \in Remarks
    BY <2>1, <2>2, <2>3 DEF Remarks
  <2>5. QED
    BY <2>4 DEF y
<1>3. QED
  BY <1>1, <1>2

LEMMA FollowedGrows ==
    ASSUME NEW m, NEW n, NEW x, NEW t \in Token, NEW R \in {Tails, Remarks},
           Followed(m, x, R), n.calls = m.calls
    PROVE  Followed(n, x \o <<t>>, R)
<1>0. PICK c \in Calls : \E w \in Spellings(c) : \E r \in R :
         m.calls = <<c>> /\ x = w \o r /\ (c.does = "command" => r = <<"nl">>)
  BY DEF Followed
<1>1. PICK w \in Spellings(c), r \in R :
         m.calls = <<c>> /\ x = w \o r /\ (c.does = "command" => r = <<"nl">>)
  BY <1>0
<1>2. w \in Text /\ r \in Text /\ r \o <<t>> \in R /\ <<t>> \in Text
  BY SpellingsAreText, TailsGrow, TextAlgebra DEF Tails, Remarks
<1>3. x \o <<t>> = w \o (r \o <<t>>)
  BY <1>1, <1>2, TextAlgebra
<1>4. r # <<"nl">>
  BY DEF Tails, Remarks
<1>5. QED
  BY <1>1, <1>2, <1>3, <1>4 DEF Followed

\* A blank after a link or a new node, and the token after it.
LEMMA BlankGrows ==
    ASSUME NEW m, NEW n, NEW x, NEW t \in Token,
           Followed(m, x, {<<"space">>}), n.calls = m.calls
    PROVE  /\ Followed(n, x \o <<t>>, Tails)
           /\ t = "#" => Followed(n, x \o <<t>>, Remarks)
<1>0. PICK c \in Calls : \E w \in Spellings(c) : \E r \in {<<"space">>} :
         m.calls = <<c>> /\ x = w \o r /\ (c.does = "command" => r = <<"nl">>)
  BY DEF Followed
<1>1. PICK w \in Spellings(c) :
         m.calls = <<c>> /\ x = w \o <<"space">> /\ c.does # "command"
  <2>1. <<"space">> # <<"nl">>
    OBVIOUS
  <2>2. QED
    BY <1>0, <2>1
<1>2. "space" \in Token
  BY DEF Token, Sign
<1>3. w \in Text /\ <<"space">> \in Text /\ <<t>> \in Text
  BY <1>2, SpellingsAreText, TextAlgebra
<1> DEFINE r == <<"space", t>>
<1>4. x \o <<t>> = w \o r
  <2>1. <<"space">> \o <<t>> = r
    BY <1>2, TwoTokens
  <2>2. x \o <<t>> = w \o (<<"space">> \o <<t>>)
    BY <1>1, <1>3, TextAlgebra
  <2>3. QED
    BY <2>1, <2>2
<1>5. r \in Text /\ Len(r) = 2 /\ r[1] = "space" /\ r[2] = t
  BY <1>2 DEF Text
<1> HIDE DEF r
<1>6. r \in Tails /\ (t = "#" => r \in Remarks)
  <2>1. r \in Tails
    BY <1>5, SMTT(30) DEF Tails
  <2>2. QED
    BY <1>5, <2>1 DEF Remarks
<1>7. QED
  BY <1>1, <1>4, <1>6 DEF Followed

\* The tokens a tail begins with.
LEMMA TailTokens ==
    /\ \A t : t = "space" => <<t>> \in {<<"space">>}
    /\ \A t : t = "#" => <<t>> \in Remarks
<1> DEFINE r == <<"#">>
<1>1. r \in Text /\ Len(r) = 1 /\ r[1] = "#"
  BY DEF Text, Token, Sign
<1> HIDE DEF r
<1>2. r \in Remarks
  BY <1>1 DEF Remarks, Tails
<1>3. QED
  BY <1>2 DEF r

\* A command and a new node with one more token among the parameters.
LEMMA NewTextGrows ==
    ASSUME NEW p \in Parser, NEW r, NEW x, NEW t \in Token, NewText(p, x),
           r.var = p.var, r.class = p.class, r.params = p.params \o <<t>>
    PROVE  NewText(r, x \o <<t>>)
<1>1. PICK y \in NewTexts(p.var) : x = y \o p.class \o <<"(">> \o p.params
  BY DEF NewText
<1>2. p.var \in One(Name) /\ p.class \in One(Class)
  BY DEF NewText
<1>3. y \in Text /\ p.class \in Text /\ <<"(">> \in Text /\ p.params \in Text /\ <<t>> \in Text
  BY <1>2, PartsAreText, OnesAre, TextAlgebra DEF Parser, Token, Sign
<1> DEFINE z == y \o p.class \o <<"(">>
<1>4. z \in Text
  BY <1>3, TextAlgebra
<1>5. x \o <<t>> = z \o (p.params \o <<t>>)
  BY <1>1, <1>3, <1>4, TextAlgebra, ZenonT(60)
<1>6. QED
  BY <1>2, <1>5 DEF NewText

LEMMA CommandTextGrows ==
    ASSUME NEW p \in Parser, NEW r, NEW x, NEW t \in Token, CommandText(p, x),
           r.method = p.method, r.params = p.params \o <<t>>
    PROVE  CommandText(r, x \o <<t>>)
<1>1. p.method \in One(Name) /\ x = p.method \o <<"(">> \o p.params
  BY DEF CommandText
<1>2. p.method \in Text /\ <<"(">> \in Text /\ p.params \in Text /\ <<t>> \in Text
  BY <1>1, OnesAre, TextAlgebra DEF Parser, Token, Sign
<1> DEFINE z == p.method \o <<"(">>
<1>3. z \in Text
  BY <1>2, TextAlgebra
<1>4. x \o <<t>> = z \o (p.params \o <<t>>)
  BY <1>1, <1>2, <1>3, TextAlgebra
<1>5. QED
  BY <1>1, <1>4 DEF CommandText

\* Parameters with one more token.
LEMMA ParamsGrow ==
    ASSUME NEW t \in Token
    PROVE  /\ t \in Value => <<>> \o <<t>> \in Params
           /\ t = "quote" => Open(<<>> \o <<t>>)
           /\ \A v \in Text : Open(v) /\ t # "quote" => Open(v \o <<t>>)
           /\ \A v \in Text : Open(v) /\ t = "quote" => v \o <<t>> \in Params
<1>1. <<>> \o <<t>> = <<t>>
  BY TextAlgebra
<1>2. t \in Value => <<t>> \in Params
  BY OnesAre DEF Params
<1>3. t = "quote" => Open(<<t>>)
  BY DEF Open
<1>4. ASSUME NEW v \in Text, Open(v)
      PROVE  /\ t # "quote" => Open(v \o <<t>>)
             /\ t = "quote" => v \o <<t>> \in Params
  <2> DEFINE y == v \o <<t>>
  <2>1. y \in Text /\ Len(y) = Len(v) + 1 /\ y[Len(v) + 1] = t /\ Len(v) \in Nat
        /\ \A k \in 1..Len(v) : y[k] = v[k]
    BY OneMore, ConcatIs
  <2>2. Len(v) >= 1 /\ v[1] = "quote" /\ \A k \in 2..Len(v) : v[k] # "quote"
    BY <1>4 DEF Open
  <2> HIDE DEF y
  <2>3. y[1] = "quote" /\ \A k \in 2..Len(v) : y[k] # "quote"
    BY <2>1, <2>2
  <2>4. \A k \in 2..Len(y) : k \in 2..Len(v) \/ k = Len(v) + 1
    BY <2>1
  <2>5. t # "quote" => Open(y)
    BY <2>1, <2>2, <2>3, <2>4 DEF Open
  <2>6. t = "quote" => Quoted(y)
    BY <2>1, <2>2, <2>3 DEF Quoted
  <2>7. QED
    BY <2>1, <2>5, <2>6 DEF Params, y
<1>5. QED
  BY <1>1, <1>2, <1>3, <1>4

\* A string goes on: the machine stays in its state.
LEMMA ParamsStay ==
    ASSUME NEW m \in Machine, NEW t \in Token, NEW cs, m.parser.cs = cs
    PROVE  With(m, ParamsAdded(m.parser, t)) = Go(m, ParamsAdded(m.parser, t), cs)
<1> DEFINE q == ParamsAdded(m.parser, t)
           v == With(m, q)
<1>1. m.parser \in Parser
  BY DEF Machine
<1>2. q \in Parser /\ q.cs = cs
  <2>1. q \in Parser
    BY <1>1, SetKeeps
  <2>2. QED
    BY <1>1, <2>1 DEF ParamsAdded, Parser
<1> HIDE DEF q
<1>3. v \in Machine /\ v.parser = q
  BY <1>2, WithIs
<1> HIDE DEF v
<1>4. [v EXCEPT !.parser.cs = cs] = v
  BY <1>2, <1>3 DEF Machine, Parser
<1>5. Moved(v, cs) = v
  BY <1>4 DEF Moved
<1>6. QED
  BY <1>5 DEF Go, v, q

-----------------------------------------------------------------------------
(* What the machine makes of the next token.                               *)

\* A token of these kinds does not end the line.
LEMMA NotTheEnd == \A t \in Name \cup Class \cup Value : t # "nl"
BY TokenAssumption DEF Sign

LEMMA MainReads ==
    ASSUME NEW m, NEW x \in Text, AtMain(m, x), NEW t \in Token
    PROVE  Read(Step(m, t), x \o <<t>>, t)
<1> DEFINE p == m.parser
           n == Step(m, t)
           y == x \o <<t>>
<1>1. /\ m \in Machine /\ m.calls = <<>> /\ p \in Parser /\ p.cs = "main"
  BY DEF AtMain, Quiet, Machine
<1>3. /\ x = <<>> /\ Cleared(p)
  BY DEF AtMain
<1>4. y = <<t>>
  BY <1>3, TextAlgebra
<1>2. {"blank", "comment", "main", "word"} \subseteq State
  BY DEF State
<1>10. ASSUME t \in Name PROVE Read(n, y, t)
  <2>1. n = Go(m, Collected(p, t), "word")
    BY <1>1, <1>10, MainSteps
  <2>2. p.token \o <<t>> = <<t>> /\ <<t>> \in One(Name)
    BY <1>3, <1>10, TextAlgebra, OnesAre DEF Cleared
  <2>3. /\ Goes(m, n, "word")
        /\ n.parser.token = p.token \o <<t>>
        /\ n.parser.params = p.params
        /\ n.parser.from_port = p.from_port
        /\ n.parser.to_port = p.to_port
    BY <1>1, <1>2, <2>1, CollectIs
  <2> HIDE DEF n, p, y
  <2>4. AtWord(n, y)
    BY <1>1, <1>3, <1>10, <2>2, <2>3, <1>4
       DEF AtWord, Quiet, Goes, Cleared
  <2>5. QED
    BY <1>10, <2>4, ReadWithin, NotTheEnd DEF Within
<1>11. ASSUME t = "space" PROVE Read(n, y, t)
  <2>1. n = Go(m, p, "blank")
    BY <1>1, <1>11, MainSteps
  <2>2. /\ Goes(m, n, "blank")
    BY <1>1, <1>2, <2>1, StayIs
  <2> HIDE DEF n, p, y
  <2>3. AtBlank(n, y)
    BY <1>1, <1>3, <1>11, <2>2, <1>4
       DEF AtBlank, Quiet, Goes
  <2>4. QED
    BY <1>11, <2>3, ReadWithin DEF Within
<1>12. ASSUME t = "#" PROVE Read(n, y, t)
  <2>1. n = Go(m, p, "comment")
    BY <1>1, <1>12, MainSteps
  <2>2. Len(y) = 1 /\ y[1] = t
    BY <1>4
  <2>3. /\ Goes(m, n, "comment")
    BY <1>1, <1>2, <2>1, StayIs
  <2> HIDE DEF n, p, y
  <2>4. AtComment(n, y)
    BY <1>1, <1>3, <1>12, <2>2, <2>3
       DEF AtComment, Quiet, Goes
  <2>5. QED
    BY <1>12, <2>4, ReadWithin DEF Within
<1>13. ASSUME t = "nl" PROVE Read(n, y, t)
  <2>1. n = Go(m, Clear(p), "main")
    BY <1>1, <1>13, MainSteps
  <2>2. Goes(m, n, "main") /\ Cleared(n.parser)
    BY <1>1, <1>2, <2>1, ClearedIs
  <2> HIDE DEF n, y
  <2>3. Over(n, y)
    BY <1>1, <1>4, <1>13, <2>2, SilentLines DEF Over, Goes
  <2>4. QED
    BY <1>13, <2>3, ReadOver
<1>14. ASSUME t \notin Name \cup {"space", "#", "nl"} PROVE Read(n, y, t)
  BY <1>1, <1>14, MainSteps, ReadRefused
<1>15. QED
  BY <1>10, <1>11, <1>12, <1>13, <1>14

LEMMA BlankReads ==
    ASSUME NEW m, NEW x \in Text, AtBlank(m, x), NEW t \in Token
    PROVE  Read(Step(m, t), x \o <<t>>, t)
<1> DEFINE p == m.parser
           n == Step(m, t)
           y == x \o <<t>>
<1>1. /\ m \in Machine /\ m.calls = <<>> /\ p \in Parser /\ p.cs = "blank"
  BY DEF AtBlank, Quiet, Machine
<1>3. /\ x = <<"space">>
  BY DEF AtBlank
<1>2. {"main"} \subseteq State
  BY DEF State
<1>10. ASSUME t = "nl" PROVE Read(n, y, t)
  <2>1. n = Go(m, Clear(p), "main")
    BY <1>1, <1>10, BlankSteps
  <2>2. Goes(m, n, "main") /\ Cleared(n.parser)
    BY <1>1, <1>2, <2>1, ClearedIs
  <2>3. y = <<"space", "nl">>
    BY <1>3, <1>10, TwoTokens DEF Token, Sign
  <2> HIDE DEF n, y
  <2>4. IsSilent(y)
    BY <2>3, SilentLines
  <2>5. Over(n, y)
    BY <1>1, <2>2, <2>4 DEF Over, Goes
  <2>6. QED
    BY <1>10, <2>5, ReadOver
<1>11. ASSUME t # "nl" PROVE Read(n, y, t)
  BY <1>1, <1>11, BlankSteps, ReadRefused
<1>12. QED
  BY <1>10, <1>11

LEMMA WordReads ==
    ASSUME NEW m, NEW x \in Text, AtWord(m, x), NEW t \in Token
    PROVE  Read(Step(m, t), x \o <<t>>, t)
<1> DEFINE p == m.parser
           n == Step(m, t)
           y == x \o <<t>>
<1>1. /\ m \in Machine /\ m.calls = <<>> /\ p \in Parser /\ p.cs = "word"
  BY DEF AtWord, Quiet, Machine
<1>3. /\ p.token \in One(Name) /\ x = p.token
      /\ p.params = <<>> /\ p.from_port = <<>> /\ p.to_port = <<>>
  BY DEF AtWord
<1>2. {"args", "from_port", "main", "new", "to", "var"} \subseteq State
  BY DEF State
<1>10. ASSUME t \in {"=>", "||"} PROVE Read(n, y, t)
  <2>1. n = Go(m, OpSet(FromSet(VarSet(p)), t), "to")
    BY <1>1, <1>10, WordSteps
  <2>2. y \in LinkTexts(p.token, <<>>, t)
    BY <1>3, LinkWords
  <2>3. /\ Goes(m, n, "to")
        /\ n.parser.op = t
        /\ n.parser.from_node = p.token
        /\ n.parser.from_port = p.from_port
        /\ n.parser.token = <<>>
        /\ n.parser.to_port = p.to_port
    BY <1>1, <1>2, <2>1, FromOpIs
  <2> HIDE DEF n, p, y
  <2>4. AtTo(n, y)
    BY <1>1, <1>3, <1>10, <2>2, <2>3, OnesAre
       DEF AtTo, Quiet, Goes, LinkHead
  <2>5. QED
    BY <1>10, <2>4, ReadWithin DEF Within
<1>11. ASSUME t = "~" PROVE Read(n, y, t)
  <2>1. n = Go(m, FromSet(VarSet(p)), "from_port")
    BY <1>1, <1>11, WordSteps
  <2>2. y = p.token \o <<"~">>
    BY <1>3, <1>11
  <2>3. /\ Goes(m, n, "from_port")
        /\ n.parser.from_node = p.token
        /\ n.parser.token = <<>>
        /\ n.parser.to_port = p.to_port
    BY <1>1, <1>2, <2>1, FromIs
  <2> HIDE DEF n, p, y
  <2>4. AtFromPort(n, y)
    BY <1>1, <1>3, <1>11, <2>2, <2>3
       DEF AtFromPort, Quiet, Goes
  <2>5. QED
    BY <1>11, <2>4, ReadWithin DEF Within
<1>12. ASSUME t = "=" PROVE Read(n, y, t)
  <2>1. n = Go(m, FromSet(VarSet(p)), "new")
    BY <1>1, <1>12, WordSteps
  <2>2. y \in NewTexts(p.token)
    BY <1>3, <1>12, NewWords
  <2>3. /\ Goes(m, n, "new")
        /\ n.parser.var = p.token
        /\ n.parser.token = <<>>
        /\ n.parser.params = p.params
    BY <1>1, <1>2, <2>1, FromIs
  <2> HIDE DEF n, p, y
  <2>4. AtNew(n, y)
    BY <1>1, <1>3, <1>12, <2>2, <2>3
       DEF AtNew, Quiet, Goes
  <2>5. QED
    BY <1>12, <2>4, ReadWithin DEF Within
<1>13. ASSUME t = "space" PROVE Read(n, y, t)
  <2>1. n = Go(m, FromSet(VarSet(p)), "var")
    BY <1>1, <1>13, WordSteps
  <2>2. y = p.token \o <<"space">>
    BY <1>3, <1>13
  <2>3. /\ Goes(m, n, "var")
        /\ n.parser.token = <<>>
        /\ n.parser.params = p.params
        /\ n.parser.from_port = p.from_port
        /\ n.parser.to_port = p.to_port
        /\ n.parser.var = p.token
        /\ n.parser.from_node = p.token
    BY <1>1, <1>2, <2>1, FromIs
  <2> HIDE DEF n, p, y
  <2>4. AtVar(n, y)
    BY <1>1, <1>3, <1>13, <2>2, <2>3
       DEF AtVar, Quiet, Goes, Cleared
  <2>5. QED
    BY <1>13, <2>4, ReadWithin DEF Within
<1>14. ASSUME t = "(" PROVE Read(n, y, t)
  <2>1. n = Go(m, MethodSet(p), "args")
    BY <1>1, <1>14, WordSteps
  <2>2. y = p.token \o <<"(">> \o <<>>
    BY <1>3, <1>14, TextAlgebra, OnesAre
  <2>3. /\ Goes(m, n, "args")
        /\ n.parser.method = p.token
        /\ n.parser.params = p.params
    BY <1>1, <1>2, <2>1, MethodIs
  <2> HIDE DEF n, p, y
  <2>4. AtArgs(n, y)
    BY <1>1, <1>3, <1>14, <2>2, <2>3
       DEF AtArgs, Quiet, Goes, CommandText
  <2>5. QED
    BY <1>14, <2>4, ReadWithin DEF Within
<1>15. ASSUME t = "nl" PROVE Read(n, y, t)
  <2> DEFINE q == MethodSet(p)
             c == CommandCall(q)
  <2>1. q \in Parser /\ q.method = p.token /\ q.params = <<>>
    <3>1. q \in Parser
      BY <1>1, SetKeeps
    <3>2. QED
      BY <1>1, <1>3, <3>1 DEF MethodSet, Parser
  <2>2. Called(m, n, c, "main") /\ Cleared(n.parser)
    BY <1>1, <1>15, WordSteps
  <2> HIDE DEF q
  <2>3. c \in Calls /\ x \in Spellings(c)
    BY <1>3, <2>1, CommandSaid, OnesAre
  <2>4. Over(n, y)
    BY <1>1, <1>3, <1>15, <2>2, <2>3, CalledOver
  <2>5. QED
    BY <1>15, <2>4, ReadOver
<1>16. ASSUME t \notin {"=>", "||", "~", "=", "nl", "(", "space"} PROVE Read(n, y, t)
  BY <1>1, <1>16, WordSteps, ReadRefused
<1>17. QED
  BY <1>10, <1>11, <1>12, <1>13, <1>14, <1>15, <1>16

LEMMA VarReads ==
    ASSUME NEW m, NEW x \in Text, AtVar(m, x), NEW t \in Token
    PROVE  Read(Step(m, t), x \o <<t>>, t)
<1> DEFINE p == m.parser
           n == Step(m, t)
           y == x \o <<t>>
<1>1. /\ m \in Machine /\ m.calls = <<>> /\ p \in Parser /\ p.cs = "var"
  BY DEF AtVar, Quiet, Machine
<1>3. /\ Cleared(p) /\ p.var \in One(Name) /\ p.from_node = p.var
      /\ x = p.var \o <<"space">>
  BY DEF AtVar
<1>2. {"new", "to"} \subseteq State
  BY DEF State
<1>10. ASSUME t \in {"=>", "||"} PROVE Read(n, y, t)
  <2>1. n = Go(m, OpSet(p, t), "to")
    BY <1>1, <1>10, VarSteps
  <2>2. y \in LinkTexts(p.from_node, <<>>, t)
    BY <1>3, LinkWords
  <2>3. /\ Goes(m, n, "to")
        /\ n.parser.op = t
        /\ n.parser.from_node = p.from_node
        /\ n.parser.from_port = p.from_port
        /\ n.parser.token = p.token
        /\ n.parser.to_port = p.to_port
    BY <1>1, <1>2, <2>1, OpIs
  <2> HIDE DEF n, p, y
  <2>4. AtTo(n, y)
    BY <1>1, <1>3, <1>10, <2>2, <2>3, OnesAre
       DEF AtTo, Quiet, Goes, LinkHead, Cleared
  <2>5. QED
    BY <1>10, <2>4, ReadWithin DEF Within
<1>11. ASSUME t = "=" PROVE Read(n, y, t)
  <2>1. n = Go(m, p, "new")
    BY <1>1, <1>11, VarSteps
  <2>2. y \in NewTexts(p.var)
    BY <1>3, <1>11, NewWords
  <2>3. /\ Goes(m, n, "new")
        /\ n.parser.var = p.var
        /\ n.parser.token = p.token
        /\ n.parser.params = p.params
    BY <1>1, <1>2, <2>1, StayIs
  <2> HIDE DEF n, p, y
  <2>4. AtNew(n, y)
    BY <1>1, <1>3, <1>11, <2>2, <2>3
       DEF AtNew, Quiet, Goes, Cleared
  <2>5. QED
    BY <1>11, <2>4, ReadWithin DEF Within
<1>12. ASSUME t \notin {"=>", "||", "="} PROVE Read(n, y, t)
  BY <1>1, <1>12, VarSteps, ReadRefused
<1>13. QED
  BY <1>10, <1>11, <1>12

LEMMA FromPortReads ==
    ASSUME NEW m, NEW x \in Text, AtFromPort(m, x), NEW t \in Token
    PROVE  Read(Step(m, t), x \o <<t>>, t)
<1> DEFINE p == m.parser
           n == Step(m, t)
           y == x \o <<t>>
<1>1. /\ m \in Machine /\ m.calls = <<>> /\ p \in Parser /\ p.cs = "from_port"
  BY DEF AtFromPort, Quiet, Machine
<1>3. /\ p.from_node \in One(Name) /\ x = p.from_node \o <<"~">>
      /\ p.token = <<>> /\ p.to_port = <<>>
  BY DEF AtFromPort
<1>2. {"from"} \subseteq State
  BY DEF State
<1>10. ASSUME t \in Name PROVE Read(n, y, t)
  <2>1. n = Go(m, Collected(p, t), "from")
    BY <1>1, <1>10, FromPortSteps
  <2>2. p.token \o <<t>> = <<t>> /\ <<t>> \in One(Name)
    BY <1>3, <1>10, TextAlgebra, OnesAre
  <2>3. y = p.from_node \o <<"~">> \o <<t>>
    BY <1>3
  <2>4. /\ Goes(m, n, "from")
        /\ n.parser.from_node = p.from_node
        /\ n.parser.token = p.token \o <<t>>
        /\ n.parser.to_port = p.to_port
    BY <1>1, <1>2, <2>1, CollectIs
  <2> HIDE DEF n, p, y
  <2>5. AtFrom(n, y)
    BY <1>1, <1>3, <1>10, <2>2, <2>3, <2>4
       DEF AtFrom, Quiet, Goes
  <2>6. QED
    BY <1>10, <2>5, ReadWithin, NotTheEnd DEF Within
<1>11. ASSUME t \notin Name PROVE Read(n, y, t)
  BY <1>1, <1>11, FromPortSteps, ReadRefused
<1>12. QED
  BY <1>10, <1>11

LEMMA FromReads ==
    ASSUME NEW m, NEW x \in Text, AtFrom(m, x), NEW t \in Token
    PROVE  Read(Step(m, t), x \o <<t>>, t)
<1> DEFINE p == m.parser
           n == Step(m, t)
           y == x \o <<t>>
<1>1. /\ m \in Machine /\ m.calls = <<>> /\ p \in Parser /\ p.cs = "from"
  BY DEF AtFrom, Quiet, Machine
<1>3. /\ p.from_node \in One(Name) /\ p.token \in One(Name) /\ p.to_port = <<>>
      /\ x = p.from_node \o <<"~">> \o p.token
  BY DEF AtFrom
<1>2. {"from_end", "to"} \subseteq State
  BY DEF State
<1>10. ASSUME t \in {"=>", "||"} PROVE Read(n, y, t)
  <2>1. n = Go(m, OpSet(FromPortSet(VarSet(p)), t), "to")
    BY <1>1, <1>10, FromSteps
  <2>2. y \in LinkTexts(p.from_node, p.token, t)
    BY <1>3, LinkWords
  <2>3. /\ Goes(m, n, "to")
        /\ n.parser.op = t
        /\ n.parser.from_node = p.from_node
        /\ n.parser.from_port = p.token
        /\ n.parser.token = <<>>
        /\ n.parser.to_port = p.to_port
    BY <1>1, <1>2, <2>1, FromPortOpIs
  <2> HIDE DEF n, p, y
  <2>4. AtTo(n, y)
    BY <1>1, <1>3, <1>10, <2>2, <2>3, OnesAre
       DEF AtTo, Quiet, Goes, LinkHead
  <2>5. QED
    BY <1>10, <2>4, ReadWithin DEF Within
<1>11. ASSUME t = "space" PROVE Read(n, y, t)
  <2>1. n = Go(m, FromPortSet(VarSet(p)), "from_end")
    BY <1>1, <1>11, FromSteps
  <2>2. y = p.from_node \o <<"~">> \o p.token \o <<"space">>
    BY <1>3, <1>11
  <2>3. /\ Goes(m, n, "from_end")
        /\ n.parser.from_node = p.from_node
        /\ n.parser.from_port = p.token
        /\ n.parser.token = <<>>
        /\ n.parser.to_port = p.to_port
    BY <1>1, <1>2, <2>1, FromPortIs
  <2> HIDE DEF n, p, y
  <2>4. AtFromEnd(n, y)
    BY <1>1, <1>3, <1>11, <2>2, <2>3
       DEF AtFromEnd, Quiet, Goes
  <2>5. QED
    BY <1>11, <2>4, ReadWithin DEF Within
<1>12. ASSUME t \notin {"=>", "||", "space"} PROVE Read(n, y, t)
  BY <1>1, <1>12, FromSteps, ReadRefused
<1>13. QED
  BY <1>10, <1>11, <1>12

LEMMA FromEndReads ==
    ASSUME NEW m, NEW x \in Text, AtFromEnd(m, x), NEW t \in Token
    PROVE  Read(Step(m, t), x \o <<t>>, t)
<1> DEFINE p == m.parser
           n == Step(m, t)
           y == x \o <<t>>
<1>1. /\ m \in Machine /\ m.calls = <<>> /\ p \in Parser /\ p.cs = "from_end"
  BY DEF AtFromEnd, Quiet, Machine
<1>3. /\ p.from_node \in One(Name) /\ p.from_port \in One(Name)
      /\ p.token = <<>> /\ p.to_port = <<>>
      /\ x = p.from_node \o <<"~">> \o p.from_port \o <<"space">>
  BY DEF AtFromEnd
<1>2. {"to"} \subseteq State
  BY DEF State
<1>10. ASSUME t \in {"=>", "||"} PROVE Read(n, y, t)
  <2>1. n = Go(m, OpSet(p, t), "to")
    BY <1>1, <1>10, FromEndSteps
  <2>2. y \in LinkTexts(p.from_node, p.from_port, t)
    BY <1>3, LinkWords
  <2>3. /\ Goes(m, n, "to")
        /\ n.parser.op = t
        /\ n.parser.from_node = p.from_node
        /\ n.parser.from_port = p.from_port
        /\ n.parser.token = p.token
        /\ n.parser.to_port = p.to_port
    BY <1>1, <1>2, <2>1, OpIs
  <2> HIDE DEF n, p, y
  <2>4. AtTo(n, y)
    BY <1>1, <1>3, <1>10, <2>2, <2>3, OnesAre
       DEF AtTo, Quiet, Goes, LinkHead
  <2>5. QED
    BY <1>10, <2>4, ReadWithin DEF Within
<1>11. ASSUME t \notin {"=>", "||"} PROVE Read(n, y, t)
  BY <1>1, <1>11, FromEndSteps, ReadRefused
<1>12. QED
  BY <1>10, <1>11

LEMMA ToReads ==
    ASSUME NEW m, NEW x \in Text, AtTo(m, x), NEW t \in Token, RunsOfBlanks(x \o <<t>>)
    PROVE  Read(Step(m, t), x \o <<t>>, t)
<1> DEFINE p == m.parser
           n == Step(m, t)
           y == x \o <<t>>
<1>1. /\ m \in Machine /\ m.calls = <<>> /\ p \in Parser /\ p.cs = "to"
  BY DEF AtTo, Quiet, Machine
<1>3. /\ LinkHead(p, x) /\ p.token = <<>> /\ p.to_port = <<>>
  BY DEF AtTo
<1>2. {"port_or_end", "to"} \subseteq State
  BY DEF State
<1>10. ASSUME t = "space" PROVE Read(n, y, t)
  <2>1. n = Go(m, p, "to")
    BY <1>1, <1>10, ToSteps
  <2>2. LinkHead(p, y)
    BY <1>3, <1>10, LinkBlank DEF LinkHead
  <2>3. /\ Goes(m, n, "to")
        /\ n.parser.op = p.op
        /\ n.parser.from_node = p.from_node
        /\ n.parser.from_port = p.from_port
        /\ n.parser.token = p.token
        /\ n.parser.to_port = p.to_port
    BY <1>1, <1>2, <2>1, StayIs
  <2> HIDE DEF n, p, y
  <2>4. AtTo(n, y)
    BY <1>1, <1>3, <1>10, <2>2, <2>3
       DEF AtTo, Quiet, Goes, LinkHead
  <2>5. QED
    BY <1>10, <2>4, ReadWithin DEF Within
<1>11. ASSUME t \in Name PROVE Read(n, y, t)
  <2>1. n = Go(m, Collected(p, t), "port_or_end")
    BY <1>1, <1>11, ToSteps
  <2>2. p.token \o <<t>> = <<t>> /\ <<t>> \in One(Name)
    BY <1>3, <1>11, TextAlgebra, OnesAre
  <2>3. y = x \o <<t>>
    OBVIOUS
  <2>4. /\ Goes(m, n, "port_or_end")
        /\ n.parser.op = p.op
        /\ n.parser.from_node = p.from_node
        /\ n.parser.from_port = p.from_port
        /\ n.parser.token = p.token \o <<t>>
        /\ n.parser.to_port = p.to_port
    BY <1>1, <1>2, <2>1, CollectIs
  <2> HIDE DEF n, p, y
  <2>5. AtPortOrEnd(n, y)
    BY <1>1, <1>3, <1>11, <2>2, <2>3, <2>4
       DEF AtPortOrEnd, Quiet, Goes, LinkHead
  <2>6. QED
    BY <1>11, <2>5, ReadWithin, NotTheEnd DEF Within
<1>12. ASSUME t \notin Name \cup {"space"} PROVE Read(n, y, t)
  BY <1>1, <1>12, ToSteps, ReadRefused
<1>13. QED
  BY <1>10, <1>11, <1>12

LEMMA PortOrEndReads ==
    ASSUME NEW m, NEW x \in Text, AtPortOrEnd(m, x), NEW t \in Token
    PROVE  Read(Step(m, t), x \o <<t>>, t)
<1> DEFINE p == m.parser
           n == Step(m, t)
           y == x \o <<t>>
<1>1. /\ m \in Machine /\ m.calls = <<>> /\ p \in Parser /\ p.cs = "port_or_end"
  BY DEF AtPortOrEnd, Quiet, Machine
<1>3. /\ p.token \in One(Name) /\ p.to_port = <<>>
  BY DEF AtPortOrEnd
<1>4. PICK z \in Text : LinkHead(p, z) /\ x = z \o p.token
  BY DEF AtPortOrEnd
<1>5. x = z \o ToEnd(p.token, p.to_port) /\ p.to_port \in Port
  BY <1>3, <1>4, OnesAre DEF ToEnd
<1>2. {"main", "to_end"} \subseteq State
  BY DEF State
<1>10. ASSUME t = "~" PROVE Read(n, y, t)
  <2>1. n = Go(m, ToPortSet(VarSet(p)), "to_end")
    BY <1>1, <1>10, PortOrEndSteps
  <2>2. p.token \in Text /\ <<t>> \in Text
    BY <1>3, OnesAre, TextAlgebra
  <2>3. y = z \o (p.token \o <<"~">>)
    BY <1>4, <1>10, <2>2, TextAlgebra, ZenonT(60)
  <2>4. /\ Goes(m, n, "to_end")
        /\ n.parser.op = p.op
        /\ n.parser.from_node = p.from_node
        /\ n.parser.from_port = p.from_port
        /\ n.parser.token = <<>>
        /\ n.parser.to_port = p.token
    BY <1>1, <1>2, <2>1, ToPortIs
  <2> HIDE DEF n, p, y
  <2>5. AtToEnd(n, y)
    BY <1>1, <1>3, <1>10, <2>2, <2>3, <2>4, <1>4
       DEF AtToEnd, Quiet, Goes, LinkHead
  <2>6. QED
    BY <1>10, <2>5, ReadWithin DEF Within
<1>11. ASSUME t = "nl" PROVE Read(n, y, t)
  <2> DEFINE c == LinkCall(VarSet(p))
  <2>1. c \in Calls /\ c.does # "command" /\ x \in Spellings(c)
    BY <1>1, <1>3, <1>4, <1>5, LinkSaid
  <2>2. Called(m, n, c, "main") /\ Cleared(n.parser)
    BY <1>1, <1>11, PortOrEndSteps
  <2> HIDE DEF c
  <2>3. Over(n, y)
    BY <1>1, <1>11, <2>1, <2>2, CalledOver
  <2>4. QED
    BY <1>11, <2>3, ReadOver
<1>12. ASSUME t = "space" PROVE Read(n, y, t)
  <2> DEFINE c == LinkCall(VarSet(p))
  <2>1. c \in Calls /\ c.does # "command" /\ x \in Spellings(c)
    BY <1>1, <1>3, <1>4, <1>5, LinkSaid
  <2>2. Called(m, n, c, "rest")
    BY <1>1, <1>12, PortOrEndSteps
  <2> HIDE DEF c
  <2>3. <<t>> \in {<<"space">>}
    BY <1>12, TailTokens
  <2>4. Followed(n, y, {<<"space">>})
    BY <1>1, <1>12, <2>1, <2>2, <2>3, CalledFollows
  <2>5. AtRest(n, y)
    BY <2>2, <2>4 DEF AtRest, Called, Asked
  <2>6. QED
    BY <1>12, <2>5, ReadWithin DEF Within
<1>13. ASSUME t = "#" PROVE Read(n, y, t)
  <2> DEFINE c == LinkCall(VarSet(p))
  <2>1. c \in Calls /\ c.does # "command" /\ x \in Spellings(c)
    BY <1>1, <1>3, <1>4, <1>5, LinkSaid
  <2>2. Called(m, n, c, "comment")
    BY <1>1, <1>13, PortOrEndSteps
  <2> HIDE DEF c
  <2>3. <<t>> \in Remarks
    BY <1>13, TailTokens
  <2>4. Followed(n, y, Remarks)
    BY <1>1, <1>13, <2>1, <2>2, <2>3, CalledFollows
  <2>5. AtComment(n, y)
    BY <2>2, <2>4 DEF AtComment, Called, Asked
  <2>6. QED
    BY <1>13, <2>5, ReadWithin DEF Within
<1>14. ASSUME t \notin {"~", "nl", "space", "#"} PROVE Read(n, y, t)
  BY <1>1, <1>14, PortOrEndSteps, ReadRefused
<1>15. QED
  BY <1>10, <1>11, <1>12, <1>13, <1>14

LEMMA ToEndReads ==
    ASSUME NEW m, NEW x \in Text, AtToEnd(m, x), NEW t \in Token
    PROVE  Read(Step(m, t), x \o <<t>>, t)
<1> DEFINE p == m.parser
           n == Step(m, t)
           y == x \o <<t>>
<1>1. /\ m \in Machine /\ m.calls = <<>> /\ p \in Parser /\ p.cs = "to_end"
  BY DEF AtToEnd, Quiet, Machine
<1>3. /\ p.token = <<>> /\ p.to_port \in One(Name)
  BY DEF AtToEnd
<1>4. PICK z \in Text : LinkHead(p, z) /\ x = z \o (p.to_port \o <<"~">>)
  BY DEF AtToEnd
<1>2. {"end"} \subseteq State
  BY DEF State
<1>10. ASSUME t \in Name PROVE Read(n, y, t)
  <2>1. n = Go(m, Collected(p, t), "end")
    BY <1>1, <1>10, ToEndSteps
  <2>2. p.token \o <<t>> = <<t>> /\ <<t>> \in One(Name)
    BY <1>3, <1>10, TextAlgebra, OnesAre
  <2>3. p.to_port \o <<"~">> \in Text
    BY <1>3, OnesAre, TextAlgebra DEF Token, Sign
  <2>4. y = z \o (p.to_port \o <<"~">> \o <<t>>)
    BY <1>4, <2>3, TextAlgebra
  <2>5. /\ Goes(m, n, "end")
        /\ n.parser.op = p.op
        /\ n.parser.from_node = p.from_node
        /\ n.parser.from_port = p.from_port
        /\ n.parser.token = p.token \o <<t>>
        /\ n.parser.to_port = p.to_port
    BY <1>1, <1>2, <2>1, CollectIs
  <2> HIDE DEF n, p, y
  <2>6. AtEnd(n, y)
    BY <1>1, <1>3, <1>10, <2>2, <2>3, <2>4, <2>5, <1>4
       DEF AtEnd, Quiet, Goes, LinkHead
  <2>7. QED
    BY <1>10, <2>6, ReadWithin, NotTheEnd DEF Within
<1>11. ASSUME t \notin Name PROVE Read(n, y, t)
  BY <1>1, <1>11, ToEndSteps, ReadRefused
<1>12. QED
  BY <1>10, <1>11

LEMMA EndReads ==
    ASSUME NEW m, NEW x \in Text, AtEnd(m, x), NEW t \in Token
    PROVE  Read(Step(m, t), x \o <<t>>, t)
<1> DEFINE p == m.parser
           n == Step(m, t)
           y == x \o <<t>>
<1>1. /\ m \in Machine /\ m.calls = <<>> /\ p \in Parser /\ p.cs = "end"
  BY DEF AtEnd, Quiet, Machine
<1>3. /\ p.token \in One(Name) /\ p.to_port \in One(Name)
  BY DEF AtEnd
<1>4. PICK z \in Text : LinkHead(p, z) /\ x = z \o (p.to_port \o <<"~">> \o p.token)
  BY DEF AtEnd
<1>5. x = z \o ToEnd(p.token, p.to_port) /\ p.to_port \in Port
  BY <1>3, <1>4, OnesAre DEF ToEnd
<1>2. {"main"} \subseteq State
  BY DEF State
<1>10. ASSUME t = "nl" PROVE Read(n, y, t)
  <2> DEFINE c == LinkCall(VarSet(p))
  <2>1. c \in Calls /\ c.does # "command" /\ x \in Spellings(c)
    BY <1>1, <1>3, <1>4, <1>5, LinkSaid
  <2>2. Called(m, n, c, "main") /\ Cleared(n.parser)
    BY <1>1, <1>10, EndSteps
  <2> HIDE DEF c
  <2>3. Over(n, y)
    BY <1>1, <1>10, <2>1, <2>2, CalledOver
  <2>4. QED
    BY <1>10, <2>3, ReadOver
<1>11. ASSUME t = "space" PROVE Read(n, y, t)
  <2> DEFINE c == LinkCall(VarSet(p))
  <2>1. c \in Calls /\ c.does # "command" /\ x \in Spellings(c)
    BY <1>1, <1>3, <1>4, <1>5, LinkSaid
  <2>2. Called(m, n, c, "rest")
    BY <1>1, <1>11, EndSteps
  <2> HIDE DEF c
  <2>3. <<t>> \in {<<"space">>}
    BY <1>11, TailTokens
  <2>4. Followed(n, y, {<<"space">>})
    BY <1>1, <1>11, <2>1, <2>2, <2>3, CalledFollows
  <2>5. AtRest(n, y)
    BY <2>2, <2>4 DEF AtRest, Called, Asked
  <2>6. QED
    BY <1>11, <2>5, ReadWithin DEF Within
<1>12. ASSUME t = "#" PROVE Read(n, y, t)
  <2> DEFINE c == LinkCall(VarSet(p))
  <2>1. c \in Calls /\ c.does # "command" /\ x \in Spellings(c)
    BY <1>1, <1>3, <1>4, <1>5, LinkSaid
  <2>2. Called(m, n, c, "comment")
    BY <1>1, <1>12, EndSteps
  <2> HIDE DEF c
  <2>3. <<t>> \in Remarks
    BY <1>12, TailTokens
  <2>4. Followed(n, y, Remarks)
    BY <1>1, <1>12, <2>1, <2>2, <2>3, CalledFollows
  <2>5. AtComment(n, y)
    BY <2>2, <2>4 DEF AtComment, Called, Asked
  <2>6. QED
    BY <1>12, <2>5, ReadWithin DEF Within
<1>13. ASSUME t \notin {"nl", "space", "#"} PROVE Read(n, y, t)
  BY <1>1, <1>13, EndSteps, ReadRefused
<1>14. QED
  BY <1>10, <1>11, <1>12, <1>13

LEMMA NewReads ==
    ASSUME NEW m, NEW x \in Text, AtNew(m, x), NEW t \in Token, RunsOfBlanks(x \o <<t>>)
    PROVE  Read(Step(m, t), x \o <<t>>, t)
<1> DEFINE p == m.parser
           n == Step(m, t)
           y == x \o <<t>>
<1>1. /\ m \in Machine /\ m.calls = <<>> /\ p \in Parser /\ p.cs = "new"
  BY DEF AtNew, Quiet, Machine
<1>3. /\ p.var \in One(Name) /\ x \in NewTexts(p.var)
      /\ p.token = <<>> /\ p.params = <<>>
  BY DEF AtNew
<1>2. {"class", "new"} \subseteq State
  BY DEF State
<1>10. ASSUME t = "space" PROVE Read(n, y, t)
  <2>1. n = Go(m, p, "new")
    BY <1>1, <1>10, NewSteps
  <2>2. y \in NewTexts(p.var)
    BY <1>3, <1>10, NewBlank
  <2>3. /\ Goes(m, n, "new")
        /\ n.parser.var = p.var
        /\ n.parser.token = p.token
        /\ n.parser.params = p.params
    BY <1>1, <1>2, <2>1, StayIs
  <2> HIDE DEF n, p, y
  <2>4. AtNew(n, y)
    BY <1>1, <1>3, <1>10, <2>2, <2>3
       DEF AtNew, Quiet, Goes
  <2>5. QED
    BY <1>10, <2>4, ReadWithin DEF Within
<1>11. ASSUME t \in Class PROVE Read(n, y, t)
  <2>1. n = Go(m, Collected(p, t), "class")
    BY <1>1, <1>11, NewSteps
  <2>2. p.token \o <<t>> = <<t>> /\ <<t>> \in One(Class)
    BY <1>3, <1>11, TextAlgebra, OnesAre
  <2>3. y = x \o <<t>>
    OBVIOUS
  <2>4. /\ Goes(m, n, "class")
        /\ n.parser.var = p.var
        /\ n.parser.token = p.token \o <<t>>
        /\ n.parser.params = p.params
    BY <1>1, <1>2, <2>1, CollectIs
  <2> HIDE DEF n, p, y
  <2>5. AtClass(n, y)
    BY <1>1, <1>3, <1>11, <2>2, <2>3, <2>4
       DEF AtClass, Quiet, Goes
  <2>6. QED
    BY <1>11, <2>5, ReadWithin, NotTheEnd DEF Within
<1>12. ASSUME t \notin Class \cup {"space"} PROVE Read(n, y, t)
  BY <1>1, <1>12, NewSteps, ReadRefused
<1>13. QED
  BY <1>10, <1>11, <1>12

LEMMA ClassReads ==
    ASSUME NEW m, NEW x \in Text, AtClass(m, x), NEW t \in Token
    PROVE  Read(Step(m, t), x \o <<t>>, t)
<1> DEFINE p == m.parser
           n == Step(m, t)
           y == x \o <<t>>
<1>1. /\ m \in Machine /\ m.calls = <<>> /\ p \in Parser /\ p.cs = "class"
  BY DEF AtClass, Quiet, Machine
<1>3. /\ p.var \in One(Name) /\ p.params = <<>> /\ p.token \in One(Class)
  BY DEF AtClass
<1>4. PICK z \in NewTexts(p.var) : x = z \o p.token
  BY DEF AtClass
<1>2. {"new_args"} \subseteq State
  BY DEF State
<1>10. ASSUME t = "(" PROVE Read(n, y, t)
  <2>1. n = Go(m, ClassSet(p), "new_args")
    BY <1>1, <1>10, ClassSteps
  <2>2. z \o p.token \o <<"(">> \in Text
    BY <1>3, <1>4, PartsAreText, OnesAre, TextAlgebra DEF Token, Sign
  <2>3. y = z \o p.token \o <<"(">> \o <<>>
    BY <1>4, <1>10, <2>2, TextAlgebra
  <2>4. /\ Goes(m, n, "new_args")
        /\ n.parser.var = p.var
        /\ n.parser.class = p.token
        /\ n.parser.params = p.params
    BY <1>1, <1>2, <2>1, ClassIs
  <2> HIDE DEF n, p, y
  <2>5. AtNewArgs(n, y)
    BY <1>1, <1>3, <1>10, <2>2, <2>3, <2>4, <1>4
       DEF AtNewArgs, Quiet, Goes, NewText
  <2>6. QED
    BY <1>10, <2>5, ReadWithin DEF Within
<1>11. ASSUME t # "(" PROVE Read(n, y, t)
  BY <1>1, <1>11, ClassSteps, ReadRefused
<1>12. QED
  BY <1>10, <1>11

LEMMA NewArgsReads ==
    ASSUME NEW m, NEW x \in Text, AtNewArgs(m, x), NEW t \in Token
    PROVE  Read(Step(m, t), x \o <<t>>, t)
<1> DEFINE p == m.parser
           n == Step(m, t)
           y == x \o <<t>>
<1>1. /\ m \in Machine /\ m.calls = <<>> /\ p \in Parser /\ p.cs = "new_args"
  BY DEF AtNewArgs, Quiet, Machine
<1>3. /\ NewText(p, x) /\ p.params = <<>>
  BY DEF AtNewArgs
<1>2. {"created", "new_string", "new_value"} \subseteq State
  BY DEF State
<1>10. ASSUME t = ")" PROVE Read(n, y, t)
  <2>1. n = Go(m, p, "created")
    BY <1>1, <1>10, NewArgsSteps
  <2>2. /\ Goes(m, n, "created")
        /\ n.parser.var = p.var
        /\ n.parser.class = p.class
        /\ n.parser.params = p.params
    BY <1>1, <1>2, <2>1, StayIs
  <2>3. NewText(n.parser, x)
    BY <1>3, <2>2 DEF NewText
  <2>4. n.parser.params \in Params
    BY <1>3, <2>2, OnesAre
  <2> HIDE DEF n, p
  <2>5. AtCreated(n, y)
    BY <1>1, <1>10, <2>2, <2>3, <2>4 DEF AtCreated, Quiet, Goes
  <2>6. QED
    BY <1>10, <2>5, ReadWithin DEF Within
<1>11. ASSUME t \in Value PROVE Read(n, y, t)
  <2>1. n = Go(m, ParamsAdded(p, t), "new_value")
    BY <1>1, <1>11, NewArgsSteps
  <2>2. /\ Goes(m, n, "new_value")
        /\ n.parser.var = p.var
        /\ n.parser.class = p.class
        /\ n.parser.params = p.params \o <<t>>
    BY <1>1, <1>2, <2>1, ParamsIs
  <2>3. NewText(n.parser, y)
    BY <1>1, <1>3, <2>2, NewTextGrows
  <2>4. n.parser.params \in Params
    BY <1>3, <1>11, <2>2, ParamsGrow
  <2> HIDE DEF n, p, y
  <2>5. AtNewValue(n, y)
    BY <1>1, <2>2, <2>3, <2>4 DEF AtNewValue, Quiet, Goes
  <2>6. QED
    BY <1>11, <2>2, <2>5, ReadWithin, NotTheEnd DEF Within, Goes, Strings
<1>12. ASSUME t = "quote" PROVE Read(n, y, t)
  <2>1. n = Go(m, ParamsAdded(p, t), "new_string")
    BY <1>1, <1>12, NewArgsSteps
  <2>2. /\ Goes(m, n, "new_string")
        /\ n.parser.var = p.var
        /\ n.parser.class = p.class
        /\ n.parser.params = p.params \o <<t>>
    BY <1>1, <1>2, <2>1, ParamsIs
  <2>3. NewText(n.parser, y)
    BY <1>1, <1>3, <2>2, NewTextGrows
  <2>4. Open(n.parser.params)
    BY <1>3, <1>12, <2>2, ParamsGrow
  <2> HIDE DEF n, p, y
  <2>5. AtNewString(n, y)
    BY <1>1, <2>2, <2>3, <2>4 DEF AtNewString, Quiet, Goes
  <2>6. QED
    BY <1>12, <2>2, <2>5, ReadWithin DEF Within, Goes, Strings
<1>13. ASSUME t \notin Value \cup {")", "quote"} PROVE Read(n, y, t)
  BY <1>1, <1>13, NewArgsSteps, ReadRefused
<1>14. QED
  BY <1>10, <1>11, <1>12, <1>13

LEMMA NewStringReads ==
    ASSUME NEW m, NEW x \in Text, AtNewString(m, x), NEW t \in Token
    PROVE  Read(Step(m, t), x \o <<t>>, t)
<1> DEFINE p == m.parser
           n == Step(m, t)
           y == x \o <<t>>
<1>1. /\ m \in Machine /\ m.calls = <<>> /\ p \in Parser /\ p.cs = "new_string"
  BY DEF AtNewString, Quiet, Machine
<1>3. /\ NewText(p, x) /\ Open(p.params)
  BY DEF AtNewString
<1>4. p.params \in Text
  BY <1>1 DEF Parser
<1>2. {"new_string", "new_value"} \subseteq State
  BY DEF State
<1>10. ASSUME t = "quote" PROVE Read(n, y, t)
  <2>1. n = Go(m, ParamsAdded(p, t), "new_value")
    BY <1>1, <1>10, NewStringSteps
  <2>2. /\ Goes(m, n, "new_value")
        /\ n.parser.var = p.var
        /\ n.parser.class = p.class
        /\ n.parser.params = p.params \o <<t>>
    BY <1>1, <1>2, <2>1, ParamsIs
  <2>3. NewText(n.parser, y)
    BY <1>1, <1>3, <2>2, NewTextGrows
  <2>4. n.parser.params \in Params
    BY <1>3, <1>4, <1>10, <2>2, ParamsGrow
  <2> HIDE DEF n, p, y
  <2>5. AtNewValue(n, y)
    BY <1>1, <2>2, <2>3, <2>4 DEF AtNewValue, Quiet, Goes
  <2>6. QED
    BY <1>10, <2>2, <2>5, ReadWithin DEF Within, Goes, Strings
<1>11. ASSUME t # "quote" PROVE Read(n, y, t)
  <2>1. n = Go(m, ParamsAdded(p, t), "new_string")
    <3>1. n = With(m, ParamsAdded(p, t))
      BY <1>1, <1>11, NewStringSteps
    <3>2. QED
      BY <1>1, <3>1, ParamsStay
  <2>2. /\ Goes(m, n, "new_string")
        /\ n.parser.var = p.var
        /\ n.parser.class = p.class
        /\ n.parser.params = p.params \o <<t>>
    BY <1>1, <1>2, <2>1, ParamsIs
  <2>3. NewText(n.parser, y)
    BY <1>1, <1>3, <2>2, NewTextGrows
  <2>4. Open(n.parser.params)
    BY <1>3, <1>4, <1>11, <2>2, ParamsGrow
  <2> HIDE DEF n, p, y
  <2>5. AtNewString(n, y)
    BY <1>1, <2>2, <2>3, <2>4 DEF AtNewString, Quiet, Goes
  <2>6. QED
    BY <1>11, <2>2, <2>5, ReadWithin DEF Within, Goes, Strings
<1>12. QED
  BY <1>10, <1>11

LEMMA NewValueReads ==
    ASSUME NEW m, NEW x \in Text, AtNewValue(m, x), NEW t \in Token
    PROVE  Read(Step(m, t), x \o <<t>>, t)
<1> DEFINE p == m.parser
           n == Step(m, t)
           y == x \o <<t>>
<1>1. /\ m \in Machine /\ m.calls = <<>> /\ p \in Parser /\ p.cs = "new_value"
  BY DEF AtNewValue, Quiet, Machine
<1>3. /\ NewText(p, x) /\ p.params \in Params
  BY DEF AtNewValue
<1>2. {"created"} \subseteq State
  BY DEF State
<1>10. ASSUME t = ")" PROVE Read(n, y, t)
  <2>1. n = Go(m, p, "created")
    BY <1>1, <1>10, NewValueSteps
  <2>2. /\ Goes(m, n, "created")
        /\ n.parser.var = p.var
        /\ n.parser.class = p.class
        /\ n.parser.params = p.params
    BY <1>1, <1>2, <2>1, StayIs
  <2>3. NewText(n.parser, x)
    BY <1>3, <2>2 DEF NewText
  <2>4. n.parser.params \in Params
    BY <1>3, <2>2, OnesAre
  <2> HIDE DEF n, p
  <2>5. AtCreated(n, y)
    BY <1>1, <1>10, <2>2, <2>3, <2>4 DEF AtCreated, Quiet, Goes
  <2>6. QED
    BY <1>10, <2>5, ReadWithin DEF Within
<1>11. ASSUME t # ")" PROVE Read(n, y, t)
  BY <1>1, <1>11, NewValueSteps, ReadRefused
<1>12. QED
  BY <1>10, <1>11

LEMMA CreatedReads ==
    ASSUME NEW m, NEW x \in Text, AtCreated(m, x), NEW t \in Token
    PROVE  Read(Step(m, t), x \o <<t>>, t)
<1> DEFINE p == m.parser
           n == Step(m, t)
           y == x \o <<t>>
<1>1. /\ m \in Machine /\ m.calls = <<>> /\ p \in Parser /\ p.cs = "created"
  BY DEF AtCreated, Quiet, Machine
<1>3. /\ p.params \in Params
  BY DEF AtCreated
<1>4. PICK z \in Text : NewText(p, z) /\ x = z \o <<")">>
  BY DEF AtCreated
<1>2. {"main"} \subseteq State
  BY DEF State
<1>10. ASSUME t = "nl" PROVE Read(n, y, t)
  <2> DEFINE c == CreateCall(p)
  <2>1. c \in Calls /\ c.does # "command" /\ x \in Spellings(c)
    BY <1>1, <1>3, <1>4, NewSaid
  <2>2. Called(m, n, c, "main") /\ Cleared(n.parser)
    BY <1>1, <1>10, CreatedSteps
  <2> HIDE DEF c
  <2>3. Over(n, y)
    BY <1>1, <1>10, <2>1, <2>2, CalledOver
  <2>4. QED
    BY <1>10, <2>3, ReadOver
<1>11. ASSUME t = "space" PROVE Read(n, y, t)
  <2> DEFINE c == CreateCall(p)
  <2>1. c \in Calls /\ c.does # "command" /\ x \in Spellings(c)
    BY <1>1, <1>3, <1>4, NewSaid
  <2>2. Called(m, n, c, "rest")
    BY <1>1, <1>11, CreatedSteps
  <2> HIDE DEF c
  <2>3. <<t>> \in {<<"space">>}
    BY <1>11, TailTokens
  <2>4. Followed(n, y, {<<"space">>})
    BY <1>1, <1>11, <2>1, <2>2, <2>3, CalledFollows
  <2>5. AtRest(n, y)
    BY <2>2, <2>4 DEF AtRest, Called, Asked
  <2>6. QED
    BY <1>11, <2>5, ReadWithin DEF Within
<1>12. ASSUME t = "#" PROVE Read(n, y, t)
  <2> DEFINE c == CreateCall(p)
  <2>1. c \in Calls /\ c.does # "command" /\ x \in Spellings(c)
    BY <1>1, <1>3, <1>4, NewSaid
  <2>2. Called(m, n, c, "comment")
    BY <1>1, <1>12, CreatedSteps
  <2> HIDE DEF c
  <2>3. <<t>> \in Remarks
    BY <1>12, TailTokens
  <2>4. Followed(n, y, Remarks)
    BY <1>1, <1>12, <2>1, <2>2, <2>3, CalledFollows
  <2>5. AtComment(n, y)
    BY <2>2, <2>4 DEF AtComment, Called, Asked
  <2>6. QED
    BY <1>12, <2>5, ReadWithin DEF Within
<1>13. ASSUME t \notin {"nl", "space", "#"} PROVE Read(n, y, t)
  BY <1>1, <1>13, CreatedSteps, ReadRefused
<1>14. QED
  BY <1>10, <1>11, <1>12, <1>13

LEMMA ArgsReads ==
    ASSUME NEW m, NEW x \in Text, AtArgs(m, x), NEW t \in Token
    PROVE  Read(Step(m, t), x \o <<t>>, t)
<1> DEFINE p == m.parser
           n == Step(m, t)
           y == x \o <<t>>
<1>1. /\ m \in Machine /\ m.calls = <<>> /\ p \in Parser /\ p.cs = "args"
  BY DEF AtArgs, Quiet, Machine
<1>3. /\ CommandText(p, x) /\ p.params = <<>>
  BY DEF AtArgs
<1>2. {"arg", "called", "string"} \subseteq State
  BY DEF State
<1>10. ASSUME t = ")" PROVE Read(n, y, t)
  <2>1. n = Go(m, p, "called")
    BY <1>1, <1>10, ArgsSteps
  <2>2. /\ Goes(m, n, "called")
        /\ n.parser.method = p.method
        /\ n.parser.params = p.params
    BY <1>1, <1>2, <2>1, StayIs
  <2>3. CommandText(n.parser, x)
    BY <1>3, <2>2 DEF CommandText
  <2>4. n.parser.params \in Params
    BY <1>3, <2>2, OnesAre
  <2> HIDE DEF n, p
  <2>5. AtCalled(n, y)
    BY <1>1, <1>10, <2>2, <2>3, <2>4 DEF AtCalled, Quiet, Goes
  <2>6. QED
    BY <1>10, <2>5, ReadWithin DEF Within
<1>11. ASSUME t \in Value PROVE Read(n, y, t)
  <2>1. n = Go(m, ParamsAdded(p, t), "arg")
    BY <1>1, <1>11, ArgsSteps
  <2>2. /\ Goes(m, n, "arg")
        /\ n.parser.method = p.method
        /\ n.parser.params = p.params \o <<t>>
    BY <1>1, <1>2, <2>1, ParamsIs
  <2>3. CommandText(n.parser, y)
    BY <1>1, <1>3, <2>2, CommandTextGrows
  <2>4. n.parser.params \in Params
    BY <1>3, <1>11, <2>2, ParamsGrow
  <2> HIDE DEF n, p, y
  <2>5. AtArg(n, y)
    BY <1>1, <2>2, <2>3, <2>4 DEF AtArg, Quiet, Goes
  <2>6. QED
    BY <1>11, <2>2, <2>5, ReadWithin, NotTheEnd DEF Within, Goes, Strings
<1>12. ASSUME t = "quote" PROVE Read(n, y, t)
  <2>1. n = Go(m, ParamsAdded(p, t), "string")
    BY <1>1, <1>12, ArgsSteps
  <2>2. /\ Goes(m, n, "string")
        /\ n.parser.method = p.method
        /\ n.parser.params = p.params \o <<t>>
    BY <1>1, <1>2, <2>1, ParamsIs
  <2>3. CommandText(n.parser, y)
    BY <1>1, <1>3, <2>2, CommandTextGrows
  <2>4. Open(n.parser.params)
    BY <1>3, <1>12, <2>2, ParamsGrow
  <2> HIDE DEF n, p, y
  <2>5. AtString(n, y)
    BY <1>1, <2>2, <2>3, <2>4 DEF AtString, Quiet, Goes
  <2>6. QED
    BY <1>12, <2>2, <2>5, ReadWithin DEF Within, Goes, Strings
<1>13. ASSUME t \notin Value \cup {")", "quote"} PROVE Read(n, y, t)
  BY <1>1, <1>13, ArgsSteps, ReadRefused
<1>14. QED
  BY <1>10, <1>11, <1>12, <1>13

LEMMA StringReads ==
    ASSUME NEW m, NEW x \in Text, AtString(m, x), NEW t \in Token
    PROVE  Read(Step(m, t), x \o <<t>>, t)
<1> DEFINE p == m.parser
           n == Step(m, t)
           y == x \o <<t>>
<1>1. /\ m \in Machine /\ m.calls = <<>> /\ p \in Parser /\ p.cs = "string"
  BY DEF AtString, Quiet, Machine
<1>3. /\ CommandText(p, x) /\ Open(p.params)
  BY DEF AtString
<1>4. p.params \in Text
  BY <1>1 DEF Parser
<1>2. {"arg", "string"} \subseteq State
  BY DEF State
<1>10. ASSUME t = "quote" PROVE Read(n, y, t)
  <2>1. n = Go(m, ParamsAdded(p, t), "arg")
    BY <1>1, <1>10, StringSteps
  <2>2. /\ Goes(m, n, "arg")
        /\ n.parser.method = p.method
        /\ n.parser.params = p.params \o <<t>>
    BY <1>1, <1>2, <2>1, ParamsIs
  <2>3. CommandText(n.parser, y)
    BY <1>1, <1>3, <2>2, CommandTextGrows
  <2>4. n.parser.params \in Params
    BY <1>3, <1>4, <1>10, <2>2, ParamsGrow
  <2> HIDE DEF n, p, y
  <2>5. AtArg(n, y)
    BY <1>1, <2>2, <2>3, <2>4 DEF AtArg, Quiet, Goes
  <2>6. QED
    BY <1>10, <2>2, <2>5, ReadWithin DEF Within, Goes, Strings
<1>11. ASSUME t # "quote" PROVE Read(n, y, t)
  <2>1. n = Go(m, ParamsAdded(p, t), "string")
    <3>1. n = With(m, ParamsAdded(p, t))
      BY <1>1, <1>11, StringSteps
    <3>2. QED
      BY <1>1, <3>1, ParamsStay
  <2>2. /\ Goes(m, n, "string")
        /\ n.parser.method = p.method
        /\ n.parser.params = p.params \o <<t>>
    BY <1>1, <1>2, <2>1, ParamsIs
  <2>3. CommandText(n.parser, y)
    BY <1>1, <1>3, <2>2, CommandTextGrows
  <2>4. Open(n.parser.params)
    BY <1>3, <1>4, <1>11, <2>2, ParamsGrow
  <2> HIDE DEF n, p, y
  <2>5. AtString(n, y)
    BY <1>1, <2>2, <2>3, <2>4 DEF AtString, Quiet, Goes
  <2>6. QED
    BY <1>11, <2>2, <2>5, ReadWithin DEF Within, Goes, Strings
<1>12. QED
  BY <1>10, <1>11

LEMMA ArgReads ==
    ASSUME NEW m, NEW x \in Text, AtArg(m, x), NEW t \in Token
    PROVE  Read(Step(m, t), x \o <<t>>, t)
<1> DEFINE p == m.parser
           n == Step(m, t)
           y == x \o <<t>>
<1>1. /\ m \in Machine /\ m.calls = <<>> /\ p \in Parser /\ p.cs = "arg"
  BY DEF AtArg, Quiet, Machine
<1>3. /\ CommandText(p, x) /\ p.params \in Params
  BY DEF AtArg
<1>2. {"called"} \subseteq State
  BY DEF State
<1>10. ASSUME t = ")" PROVE Read(n, y, t)
  <2>1. n = Go(m, p, "called")
    BY <1>1, <1>10, ArgSteps
  <2>2. /\ Goes(m, n, "called")
        /\ n.parser.method = p.method
        /\ n.parser.params = p.params
    BY <1>1, <1>2, <2>1, StayIs
  <2>3. CommandText(n.parser, x)
    BY <1>3, <2>2 DEF CommandText
  <2>4. n.parser.params \in Params
    BY <1>3, <2>2, OnesAre
  <2> HIDE DEF n, p
  <2>5. AtCalled(n, y)
    BY <1>1, <1>10, <2>2, <2>3, <2>4 DEF AtCalled, Quiet, Goes
  <2>6. QED
    BY <1>10, <2>5, ReadWithin DEF Within
<1>11. ASSUME t # ")" PROVE Read(n, y, t)
  BY <1>1, <1>11, ArgSteps, ReadRefused
<1>12. QED
  BY <1>10, <1>11

LEMMA CalledReads ==
    ASSUME NEW m, NEW x \in Text, AtCalled(m, x), NEW t \in Token
    PROVE  Read(Step(m, t), x \o <<t>>, t)
<1> DEFINE p == m.parser
           n == Step(m, t)
           y == x \o <<t>>
<1>1. /\ m \in Machine /\ m.calls = <<>> /\ p \in Parser /\ p.cs = "called"
  BY DEF AtCalled, Quiet, Machine
<1>3. /\ p.params \in Params
  BY DEF AtCalled
<1>4. PICK z \in Text : CommandText(p, z) /\ x = z \o <<")">>
  BY DEF AtCalled
<1>2. {"main"} \subseteq State
  BY DEF State
<1>10. ASSUME t = "nl" PROVE Read(n, y, t)
  <2> DEFINE c == CommandCall(p)
  <2>1. c \in Calls /\ x \in Spellings(c)
    BY <1>1, <1>3, <1>4, CommandSaid DEF CommandText
  <2>2. Called(m, n, c, "main") /\ Cleared(n.parser)
    BY <1>1, <1>10, CalledSteps
  <2> HIDE DEF c
  <2>3. Over(n, y)
    BY <1>1, <1>10, <2>1, <2>2, CalledOver
  <2>4. QED
    BY <1>10, <2>3, ReadOver
<1>11. ASSUME t # "nl" PROVE Read(n, y, t)
  BY <1>1, <1>11, CalledSteps, ReadRefused
<1>12. QED
  BY <1>10, <1>11

LEMMA RestReads ==
    ASSUME NEW m, NEW x \in Text, AtRest(m, x), NEW t \in Token
    PROVE  Read(Step(m, t), x \o <<t>>, t)
<1> DEFINE n == Step(m, t)
           y == x \o <<t>>
<1>1. m \in Machine /\ m.parser.cs = "rest" /\ Followed(m, x, {<<"space">>})
  BY DEF AtRest
<1>2. "comment" \in State
  BY DEF State
<1>3. CASE t = "#"
  <2>1. n = Go(m, m.parser, "comment")
    BY <1>1, <1>3, RestSteps
  <2>2. Goes(m, n, "comment")
    BY <1>1, <1>2, <2>1, StayIs
  <2>3. Followed(n, y, Remarks)
    BY <1>1, <1>3, <2>2, BlankGrows DEF Goes
  <2>4. AtComment(n, y)
    BY <2>2, <2>3 DEF AtComment, Goes
  <2>5. QED
    BY <1>3, <2>4, ReadWithin DEF Within
<1>4. CASE t # "#"
  <2>1. Refused(m, n, t)
    BY <1>1, <1>4, RestSteps
  <2>2. /\ n \in Machine /\ n.refused = TRUE /\ n.calls = m.calls /\ Cleared(n.parser)
        /\ n.parser.cs = IF t = "nl" THEN "main" ELSE "eat_line"
    BY <2>1 DEF Refused
  <2>3. Followed(n, y, Tails)
    BY <1>1, <2>2, BlankGrows
  <2> HIDE DEF n, y
  <2>4. CASE t = "nl"
    <3>1. Over(n, y)
      BY <2>2, <2>3, <2>4 DEF Over
    <3>2. QED
      BY <2>4, <3>1, ReadOver DEF n, y
  <2>5. CASE t # "nl"
    <3>1. AtEatLine(n, y)
      BY <2>2, <2>3, <2>5 DEF AtEatLine
    <3>2. Within(n, y)
      BY <3>1 DEF Within
    <3>3. QED
      BY <2>5, <3>2, ReadWithin DEF n, y
  <2>6. QED
    BY <2>4, <2>5
<1>5. QED
  BY <1>3, <1>4

LEMMA CommentReads ==
    ASSUME NEW m, NEW x \in Text, AtComment(m, x), NEW t \in Token
    PROVE  Read(Step(m, t), x \o <<t>>, t)
<1> DEFINE n == Step(m, t)
           y == x \o <<t>>
<1>1. m \in Machine /\ m.parser.cs = "comment"
  BY DEF AtComment
<1>2. "main" \in State
  BY DEF State
<1>3. ASSUME n.calls = m.calls
      PROVE  \/ n.calls = <<>> /\ Len(y) >= 1 /\ y[1] = "#"
             \/ Followed(n, y, Remarks)
  <2>1. CASE m.calls = <<>> /\ Len(x) >= 1 /\ x[1] = "#"
    <3>1. Len(x) \in Nat /\ 1 \in 1..Len(x)
      BY <2>1, ConcatIs
    <3>2. Len(y) = Len(x) + 1 /\ y[1] = x[1]
      BY <3>1, OneMore
    <3>3. QED
      BY <1>3, <2>1, <3>1, <3>2
  <2>2. CASE Followed(m, x, Remarks)
    BY <1>3, <2>2, FollowedGrows
  <2>3. QED
    BY <2>1, <2>2 DEF AtComment
<1>4. CASE t = "nl"
  <2>1. n = Go(m, Clear(m.parser), "main")
    BY <1>1, <1>4, CommentSteps
  <2>2. Goes(m, n, "main") /\ Cleared(n.parser)
    BY <1>1, <1>2, <2>1, ClearedIs
  <2>3. (n.calls = <<>> /\ y[1] = "#") \/ Followed(n, y, Remarks)
    BY <1>3, <2>2 DEF Goes
  <2> HIDE DEF n, y
  <2>4. Over(n, y)
    BY <2>2, <2>3 DEF Over, Goes, IsSilent
  <2>5. QED
    BY <1>4, <2>4, ReadOver DEF n, y
<1>5. CASE t # "nl"
  <2>1. n = m
    BY <1>1, <1>5, CommentSteps
  <2>2. AtComment(n, y)
    BY <1>1, <1>3, <2>1 DEF AtComment
  <2>3. QED
    BY <1>5, <2>2, ReadWithin DEF Within
<1>6. QED
  BY <1>4, <1>5

LEMMA EatLineReads ==
    ASSUME NEW m, NEW x \in Text, AtEatLine(m, x), NEW t \in Token
    PROVE  Read(Step(m, t), x \o <<t>>, t)
<1> DEFINE n == Step(m, t)
           y == x \o <<t>>
<1>1. m \in Machine /\ m.parser.cs = "eat_line" /\ m.refused = TRUE /\ Cleared(m.parser)
  BY DEF AtEatLine
<1>2. "main" \in State
  BY DEF State
<1>3. ASSUME n.calls = m.calls
      PROVE  n.calls = <<>> \/ Followed(n, y, Tails)
  BY <1>3, FollowedGrows DEF AtEatLine
<1>4. CASE t = "nl"
  <2>1. n = Go(m, m.parser, "main")
    BY <1>1, <1>4, EatLineSteps
  <2>2. Goes(m, n, "main") /\ Cleared(n.parser)
    BY <1>1, <1>2, <2>1, StayIs DEF Cleared
  <2>3. n.calls = <<>> \/ Followed(n, y, Tails)
    BY <1>3, <2>2 DEF Goes
  <2> HIDE DEF n, y
  <2>4. Over(n, y)
    BY <1>1, <2>2, <2>3 DEF Over, Goes
  <2>5. QED
    BY <1>4, <2>4, ReadOver DEF n, y
<1>5. CASE t # "nl"
  <2>1. n = m
    BY <1>1, <1>5, EatLineSteps
  <2>2. AtEatLine(n, y)
    BY <1>1, <1>3, <2>1 DEF AtEatLine
  <2>3. QED
    BY <1>5, <2>2, ReadWithin DEF Within
<1>6. QED
  BY <1>4, <1>5

\* One token more, in every state.
LEMMA WithinReads ==
    ASSUME NEW m, NEW x \in Text, Within(m, x), NEW t \in Token, RunsOfBlanks(x \o <<t>>)
    PROVE  Read(Step(m, t), x \o <<t>>, t)
BY MainReads, BlankReads, WordReads, VarReads, FromPortReads, FromReads, FromEndReads,
   ToReads, PortOrEndReads, ToEndReads, EndReads, NewReads, ClassReads, NewArgsReads,
   NewStringReads, NewValueReads, CreatedReads, ArgsReads, StringReads, ArgReads,
   CalledReads, RestReads, CommentReads, EatLineReads
   DEF Within

-----------------------------------------------------------------------------
(* A whole text.                                                           *)

\* What holds of the empty text and of every text with one more token.
LEMMA TextInduction ==
    ASSUME NEW S, <<>> \in S, \A x \in Text, t \in Token : x \in S => x \o <<t>> \in S
    PROVE  Text \subseteq S
<1> SUFFICES ASSUME NEW s \in Text PROVE s \in S
  OBVIOUS
<1> DEFINE n == Len(s)
           G == {k \in 0..n : SubSeq(s, 1, k) \in S}
<1>1. n \in Nat /\ \A k \in 1..n : s[k] \in Token
  BY ElementsOf DEF Text
<1>2. SubSeq(s, 1, 0) = <<>>
  BY DEF Text
<1>3. \A k \in 1..n : /\ SubSeq(s, 1, k - 1) \in Text
                      /\ SubSeq(s, 1, k) = SubSeq(s, 1, k - 1) \o <<s[k]>>
  <2> SUFFICES ASSUME NEW k \in 1..n
               PROVE  /\ SubSeq(s, 1, k - 1) \in Text
                      /\ SubSeq(s, 1, k) = SubSeq(s, 1, k - 1) \o <<s[k]>>
    OBVIOUS
  <2>1. s \in Seq(Token) /\ k - 1 \in 0..n
    BY <1>1 DEF Text
  <2>2. SubSeq(s, 1, k - 1) \in Text
    BY <1>1, <2>1, SubSeqProperties DEF Text
  <2>3. 1 \in 1..n /\ k \in 1..Len(s)
    BY <1>1
  <2>4. SubSeq(s, 1, k) = SubSeq(s, 1, k - 1) \o <<s[k]>>
    BY <2>1, <2>3, SubSeqRecursiveSecond
  <2>5. QED
    BY <2>2, <2>4
<1>4. 0 \in G
  <2>1. SubSeq(s, 1, 0) \in S
    BY <1>2
  <2>2. 0 \in 0..n
    BY <1>1
  <2>3. QED
    BY <2>1, <2>2
<1>5. \A k \in 1..n : k - 1 \in G => k \in G
  <2> SUFFICES ASSUME NEW k \in 1..n, k - 1 \in G PROVE k \in G
    OBVIOUS
  <2> DEFINE x == SubSeq(s, 1, k - 1)
  <2>1. x \in S /\ x \in Text /\ s[k] \in Token /\ SubSeq(s, 1, k) = x \o <<s[k]>>
    BY <1>1, <1>3
  <2>2. SubSeq(s, 1, k) \in S
    <3> HIDE DEF x
    <3>1. QED
      BY <2>1
  <2>3. QED
    BY <1>1, <2>2
<1>6. n \in G
  <2> HIDE DEF n, G
  <2>1. 0..n \subseteq G
    BY <1>1, <1>4, <1>5, UpTo
  <2>2. QED
    BY <1>1, <2>1
<1>7. SubSeq(s, 1, n) = s
  BY SubSeqFull DEF Text
<1>8. QED
  BY <1>6, <1>7

\* What a step never undoes: a syntax error and a call.
Follows(m, n) ==
    /\ n \in Machine
    /\ m.refused = TRUE => n.refused = TRUE
    /\ m.calls # <<>> => n.calls # <<>>

LEMMA StepFollows ==
    ASSUME NEW m \in Machine, NEW t \in Token
    PROVE  Follows(m, Step(m, t))
<1> DEFINE p == m.parser
           n == Step(m, t)
<1>1. m.parser \in Parser /\ m.parser.cs \in State /\ m.calls \in Seq(CallRecord)
  BY DEF Machine, Parser
<1>2. \A q \in Parser, cs \in State : Follows(m, Go(m, q, cs))
  BY GoIs DEF Follows
<1>3. \A q \in Parser : Follows(m, With(m, q))
  BY WithIs DEF Follows
<1>4. \A r, u : Refused(m, r, u) => Follows(m, r)
  BY DEF Refused, Follows
<1>5. \A r, call, cs : Called(m, r, call, cs) => Follows(m, r)
  <2> SUFFICES ASSUME NEW r, NEW call, NEW cs, Called(m, r, call, cs) PROVE Follows(m, r)
    OBVIOUS
  <2>1. r \in Machine /\ r.calls = Append(m.calls, call) /\ r.refused = m.refused
    BY DEF Called, Asked
  <2>2. r.calls # <<>>
    BY <1>1, <2>1
  <2>3. QED
    BY <2>1, <2>2 DEF Follows
<1>6. Follows(m, m)
  BY DEF Follows
<1>7. p \in Parser
  BY <1>1
<1>8. {Collected(p, t), ParamsAdded(p, t), VarSet(p), MethodSet(p), ClassSet(p), OpSet(p, t),
       Clear(p), FromSet(VarSet(p)), FromPortSet(VarSet(p)), ToPortSet(VarSet(p)),
       OpSet(FromSet(VarSet(p)), t), OpSet(FromPortSet(VarSet(p)), t)} \subseteq Parser
  <2>1. {Collected(p, t), ParamsAdded(p, t), VarSet(p), MethodSet(p), ClassSet(p), OpSet(p, t),
         Clear(p)} \subseteq Parser
    BY <1>7, SetKeeps
  <2>2. VarSet(p) \in Parser
    BY <2>1
  <2>3. {FromSet(VarSet(p)), FromPortSet(VarSet(p)), ToPortSet(VarSet(p))} \subseteq Parser
    BY <2>2, SetKeeps
  <2>4. \A q \in Parser : OpSet(q, t) \in Parser
    BY SetKeeps
  <2>5. QED
    BY <2>1, <2>3, <2>4
<1> HIDE DEF p
<1>9. State = {"main", "blank", "word", "var", "from_port", "from", "from_end", "to",
               "port_or_end", "to_end", "end", "new", "class", "new_args", "new_string",
               "new_value", "created", "args", "string", "arg", "called", "rest",
               "comment", "eat_line"}
  BY DEF State
<1>10. m.parser.cs = "main" => Follows(m, n)
  BY <1>2, <1>3, <1>4, <1>5, <1>6, <1>7, <1>8, <1>9, MainSteps DEF p
<1>11. m.parser.cs = "blank" => Follows(m, n)
  BY <1>2, <1>3, <1>4, <1>5, <1>6, <1>7, <1>8, <1>9, BlankSteps DEF p
<1>12. m.parser.cs = "word" => Follows(m, n)
  BY <1>2, <1>3, <1>4, <1>5, <1>6, <1>7, <1>8, <1>9, WordSteps DEF p
<1>13. m.parser.cs = "var" => Follows(m, n)
  BY <1>2, <1>3, <1>4, <1>5, <1>6, <1>7, <1>8, <1>9, VarSteps DEF p
<1>14. m.parser.cs = "from_port" => Follows(m, n)
  BY <1>2, <1>3, <1>4, <1>5, <1>6, <1>7, <1>8, <1>9, FromPortSteps DEF p
<1>15. m.parser.cs = "from" => Follows(m, n)
  BY <1>2, <1>3, <1>4, <1>5, <1>6, <1>7, <1>8, <1>9, FromSteps DEF p
<1>16. m.parser.cs = "from_end" => Follows(m, n)
  BY <1>2, <1>3, <1>4, <1>5, <1>6, <1>7, <1>8, <1>9, FromEndSteps DEF p
<1>17. m.parser.cs = "to" => Follows(m, n)
  BY <1>2, <1>3, <1>4, <1>5, <1>6, <1>7, <1>8, <1>9, ToSteps DEF p
<1>18. m.parser.cs = "port_or_end" => Follows(m, n)
  BY <1>2, <1>3, <1>4, <1>5, <1>6, <1>7, <1>8, <1>9, PortOrEndSteps DEF p
<1>19. m.parser.cs = "to_end" => Follows(m, n)
  BY <1>2, <1>3, <1>4, <1>5, <1>6, <1>7, <1>8, <1>9, ToEndSteps DEF p
<1>20. m.parser.cs = "end" => Follows(m, n)
  BY <1>2, <1>3, <1>4, <1>5, <1>6, <1>7, <1>8, <1>9, EndSteps DEF p
<1>21. m.parser.cs = "new" => Follows(m, n)
  BY <1>2, <1>3, <1>4, <1>5, <1>6, <1>7, <1>8, <1>9, NewSteps DEF p
<1>22. m.parser.cs = "class" => Follows(m, n)
  BY <1>2, <1>3, <1>4, <1>5, <1>6, <1>7, <1>8, <1>9, ClassSteps DEF p
<1>23. m.parser.cs = "new_args" => Follows(m, n)
  BY <1>2, <1>3, <1>4, <1>5, <1>6, <1>7, <1>8, <1>9, NewArgsSteps DEF p
<1>24. m.parser.cs = "new_string" => Follows(m, n)
  BY <1>2, <1>3, <1>4, <1>5, <1>6, <1>7, <1>8, <1>9, NewStringSteps DEF p
<1>25. m.parser.cs = "new_value" => Follows(m, n)
  BY <1>2, <1>3, <1>4, <1>5, <1>6, <1>7, <1>8, <1>9, NewValueSteps DEF p
<1>26. m.parser.cs = "created" => Follows(m, n)
  BY <1>2, <1>3, <1>4, <1>5, <1>6, <1>7, <1>8, <1>9, CreatedSteps DEF p
<1>27. m.parser.cs = "args" => Follows(m, n)
  BY <1>2, <1>3, <1>4, <1>5, <1>6, <1>7, <1>8, <1>9, ArgsSteps DEF p
<1>28. m.parser.cs = "string" => Follows(m, n)
  BY <1>2, <1>3, <1>4, <1>5, <1>6, <1>7, <1>8, <1>9, StringSteps DEF p
<1>29. m.parser.cs = "arg" => Follows(m, n)
  BY <1>2, <1>3, <1>4, <1>5, <1>6, <1>7, <1>8, <1>9, ArgSteps DEF p
<1>30. m.parser.cs = "called" => Follows(m, n)
  BY <1>2, <1>3, <1>4, <1>5, <1>6, <1>7, <1>8, <1>9, CalledSteps DEF p
<1>31. m.parser.cs = "rest" => Follows(m, n)
  BY <1>2, <1>3, <1>4, <1>5, <1>6, <1>7, <1>8, <1>9, RestSteps DEF p
<1>32. m.parser.cs = "comment" => Follows(m, n)
  BY <1>2, <1>3, <1>4, <1>5, <1>6, <1>7, <1>8, <1>9, CommentSteps DEF p
<1>33. m.parser.cs = "eat_line" => Follows(m, n)
  BY <1>2, <1>3, <1>4, <1>5, <1>6, <1>7, <1>8, <1>9, EatLineSteps DEF p
<1>34. QED
  BY <1>1, <1>9, <1>10, <1>11, <1>12, <1>13, <1>14, <1>15, <1>16, <1>17, <1>18, <1>19, <1>20, <1>21, <1>22, <1>23, <1>24, <1>25, <1>26, <1>27, <1>28, <1>29, <1>30, <1>31, <1>32, <1>33

LEMMA StepKeeps ==
    ASSUME NEW m \in Machine, NEW t \in Token
    PROVE  Step(m, t) \in Machine
BY StepFollows DEF Follows

\* g is the machine m after each token of x.
Reading(g, m, x) ==
    /\ g \in [0..Len(x) -> Machine] /\ g[0] = m
    /\ \A k \in 1..Len(x) : g[k] = Step(g[k - 1], x[k])

LEMMA ReadingUnique ==
    ASSUME NEW m \in Machine, NEW x \in Text, NEW g, NEW h,
           Reading(g, m, x), Reading(h, m, x)
    PROVE  g[Len(x)] = h[Len(x)]
<1> DEFINE n == Len(x)
           G == {k \in 0..n : g[k] = h[k]}
<1>1. n \in Nat
  BY ConcatIs
<1>2. 0 \in G
  BY <1>1 DEF Reading
<1>3. \A k \in 1..n : k - 1 \in G => k \in G
  BY <1>1 DEF Reading
<1>4. n \in G
  <2> HIDE DEF n, G
  <2>1. 0..n \subseteq G
    BY <1>1, <1>2, <1>3, UpTo
  <2>2. QED
    BY <1>1, <2>1
<1>5. QED
  BY <1>4

LEMMA RunIs ==
    ASSUME NEW m \in Machine, NEW x \in Text
    PROVE  \E g : Reading(g, m, x) /\ Run(m, x) = g[Len(x)]
<1> DEFINE n == Len(x)
           after[k \in 0..n] == IF k = 0 THEN m ELSE Step(after[k - 1], x[k])
           step == [k \in 1..n |-> [y \in Machine |-> Step(y, x[k])]]
<1>1. n \in Nat /\ \A k \in 1..n : x[k] \in Token
  BY ElementsOf DEF Text
<1>2. \A k \in 1..n, y \in Machine : Step(y, x[k]) \in Machine
  BY <1>1, StepKeeps
<1>3. step \in [1..n -> [Machine -> Machine]]
  BY <1>1, <1>2
<1>4. \A k \in 1..n, y \in Machine : step[k][y] = Step(y, x[k])
  OBVIOUS
<1> HIDE DEF step
<1>5. PICK g \in [0..n -> Machine] :
         g[0] = m /\ \A k \in 1..n : g[k] = step[k][g[k - 1]]
  <2>1. \E g : Recursion(g, n, Machine, m, step)
    BY <1>1, <1>3, RecursionExists
  <2>2. QED
    BY <2>1 DEF Recursion
<1>6. \A k \in 1..n : g[k] = Step(g[k - 1], x[k])
  <2>1. \A k \in 1..n : g[k - 1] \in Machine
    BY <1>1, <1>5
  <2>2. QED
    BY <2>1, <1>4, <1>5
<1>7. g = [k \in 0..n |-> IF k = 0 THEN m ELSE Step(g[k - 1], x[k])]
  <2>1. \A k \in 0..n : k = 0 \/ k \in 1..n
    BY <1>1
  <2>2. \A k \in 0..n : g[k] = IF k = 0 THEN m ELSE Step(g[k - 1], x[k])
    BY <2>1, <1>5, <1>6
  <2>3. QED
    BY <1>5, <2>2
<1>8. after = [k \in 0..n |-> IF k = 0 THEN m ELSE Step(after[k - 1], x[k])]
  BY <1>7
<1>9. Run(m, x) = after[n]
  BY DEF Run
<1> HIDE DEF after
<1> DEFINE G == {k \in 0..n : after[k] = g[k]}
<1>10. after[0] = m /\ \A k \in 1..n : after[k] = Step(after[k - 1], x[k])
  <2>1. 0 \in 0..n /\ \A k \in 1..n : k \in 0..n /\ k # 0
    BY <1>1
  <2>2. QED
    BY <2>1, <1>8
<1>11. 0 \in G
  BY <1>1, <1>5, <1>10
<1>12. \A k \in 1..n : k - 1 \in G => k \in G
  BY <1>1, <1>6, <1>10
<1>13. n \in G
  <2> HIDE DEF n, G
  <2>1. 0..n \subseteq G
    BY <1>1, <1>11, <1>12, UpTo
  <2>2. QED
    BY <1>1, <2>1
<1>14. Reading(g, m, x)
  BY <1>5, <1>6 DEF Reading
<1>15. QED
  BY <1>9, <1>13, <1>14

LEMMA RunEmpty == \A m \in Machine : Run(m, <<>>) = m
<1> SUFFICES ASSUME NEW m \in Machine PROVE Run(m, <<>>) = m
  OBVIOUS
<1> DEFINE x == <<>>
<1>1. x \in Text /\ Len(x) = 0
  BY DEF Text
<1> HIDE DEF x
<1>2. Run(m, x) = m
  BY <1>1, RunIs DEF Reading
<1>3. QED
  BY <1>2 DEF x

LEMMA RunMore ==
    ASSUME NEW m \in Machine, NEW x \in Text, NEW t \in Token
    PROVE  /\ Run(m, x) \in Machine
           /\ Run(m, x \o <<t>>) = Step(Run(m, x), t)
<1> DEFINE y == x \o <<t>>
           n == Len(x)
<1>1. /\ y \in Text /\ Len(y) = n + 1 /\ y[n + 1] = t /\ n \in Nat
      /\ \A k \in 1..n : y[k] = x[k]
  BY OneMore, ConcatIs
<1> HIDE DEF y
<1>2. PICK g : Reading(g, m, y) /\ Run(m, y) = g[n + 1]
  BY <1>1, RunIs
<1> DEFINE h == [k \in 0..n |-> g[k]]
<1>3. Reading(h, m, x)
  <2>1. /\ g \in [0..n + 1 -> Machine] /\ g[0] = m
        /\ \A k \in 1..n + 1 : g[k] = Step(g[k - 1], y[k])
    BY <1>1, <1>2 DEF Reading
  <2>2. h \in [0..n -> Machine] /\ \A k \in 0..n : h[k] = g[k]
    BY <1>1, <2>1
  <2> HIDE DEF h
  <2>3. h[0] = m /\ \A k \in 1..n : h[k] = Step(h[k - 1], x[k])
    BY <1>1, <2>1, <2>2
  <2>4. QED
    BY <2>2, <2>3 DEF Reading
<1>4. h[n] = g[n] /\ h[n] \in Machine
  BY <1>1, <1>3 DEF Reading
<1> HIDE DEF h
<1>5. Run(m, x) = h[n]
  BY <1>3, RunIs, ReadingUnique
<1>6. g[n + 1] = Step(g[n], t)
  BY <1>1, <1>2 DEF Reading
<1>7. QED
  BY <1>2, <1>4, <1>5, <1>6 DEF y

LEMMA RunOne == \A m \in Machine, t \in Token : Run(m, <<t>>) = Step(m, t)
<1>1. \A t \in Token : <<>> \o <<t>> = <<t>> /\ <<>> \in Text
  BY TextAlgebra
<1>2. QED
  BY <1>1, RunEmpty, RunMore

LEMMA RunBoth ==
    ASSUME NEW m \in Machine, NEW x \in Text, NEW y \in Text
    PROVE  Run(m, x \o y) = Run(Run(m, x), y)
<1> DEFINE S == {z \in Text : Run(m, x \o z) = Run(Run(m, x), z)}
<1>1. Run(m, x) \in Machine
  <2>1. "nl" \in Token
    BY DEF Token, Sign
  <2>2. QED
    BY <2>1, RunMore
<1>2. <<>> \in S
  BY <1>1, TextAlgebra, RunEmpty
<1>3. ASSUME NEW z \in Text, NEW t \in Token, z \in S PROVE z \o <<t>> \in S
  <2>1. x \o z \in Text /\ <<t>> \in Text /\ z \o <<t>> \in Text
        /\ x \o (z \o <<t>>) = (x \o z) \o <<t>>
    BY TextAlgebra
  <2>2. Run(m, (x \o z) \o <<t>>) = Step(Run(m, x \o z), t)
    BY <2>1, RunMore
  <2>3. Run(Run(m, x), z \o <<t>>) = Step(Run(Run(m, x), z), t)
    BY <1>1, RunMore
  <2>4. QED
    BY <1>3, <2>1, <2>2, <2>3
<1> HIDE DEF S
<1>4. y \in S
  BY <1>2, <1>3, TextInduction
<1>5. QED
  BY <1>4 DEF S

-----------------------------------------------------------------------------
(* A command as it is read: from the start of a line to a line feed that   *)
(* no string is open at.                                                   *)

\* The machine at the start of a line.
Fresh(m) ==
    /\ m \in Machine /\ m.parser.cs = "main" /\ Cleared(m.parser)
    /\ m.calls = <<>> /\ m.refused = FALSE

\* A string is open at every line feed of x.
OpenAtEnds(m, x) ==
    \A y, z \in Text :
        x = (y \o <<"nl">>) \o z => Run(m, y \o <<"nl">>).parser.cs \in Strings

LEMMA BlanksBefore ==
    ASSUME NEW x \in Text, NEW t \in Token, RunsOfBlanks(x \o <<t>>)
    PROVE  RunsOfBlanks(x)
<1> DEFINE y == x \o <<t>>
<1>1. /\ Len(x) \in Nat /\ Len(y) = Len(x) + 1
      /\ \A k \in 1..Len(x) : y[k] = x[k]
  BY OneMore, ConcatIs
<1> HIDE DEF y
<1>2. \A i \in 1..Len(y) - 1 : ~(y[i] = "space" /\ y[i + 1] = "space")
  BY DEF RunsOfBlanks, y
<1>3. \A i \in 1..Len(x) - 1 : ~(x[i] = "space" /\ x[i + 1] = "space")
  BY <1>1, <1>2
<1>4. QED
  BY <1>3 DEF RunsOfBlanks

LEMMA BlanksJoin ==
    ASSUME NEW x \in Text, NEW y \in Text, RunsOfBlanks(x \o <<"nl">>), RunsOfBlanks(y)
    PROVE  RunsOfBlanks((x \o <<"nl">>) \o y)
<1> DEFINE a == x \o <<"nl">>
           s == a \o y
<1>1. "nl" \in Token
  BY DEF Token, Sign
<1>2. a \in Text /\ Len(a) = Len(x) + 1 /\ a[Len(x) + 1] = "nl" /\ Len(x) \in Nat
  BY <1>1, OneMore, ConcatIs
<1>3. RunsOfBlanks(a)
  OBVIOUS
<1> HIDE DEF a
<1>4. /\ Len(a) \in Nat /\ Len(y) \in Nat /\ Len(s) = Len(a) + Len(y)
      /\ \A k \in 1..Len(a) : s[k] = a[k]
      /\ \A k \in 1..Len(y) : s[Len(a) + k] = y[k]
  BY <1>2, ConcatIs
<1> HIDE DEF s
<1>5. ASSUME NEW i \in 1..Len(s) - 1, s[i] = "space", s[i + 1] = "space" PROVE FALSE
  <2>1. CASE i < Len(a)
    <3>1. s[i] = a[i] /\ s[i + 1] = a[i + 1] /\ i \in 1..Len(a) - 1
      BY <1>4, <2>1
    <3>2. QED
      BY <1>3, <1>5, <3>1 DEF RunsOfBlanks
  <2>2. CASE i = Len(a)
    <3>1. s[i] = "nl"
      BY <1>2, <1>4, <2>2
    <3>2. QED
      BY <1>5, <3>1
  <2>3. CASE i > Len(a)
    <3> DEFINE k == i - Len(a)
    <3>1. k \in 1..Len(y) - 1 /\ i = Len(a) + k /\ i + 1 = Len(a) + (k + 1)
      BY <1>4, <2>3
    <3>2. k \in 1..Len(y) /\ k + 1 \in 1..Len(y)
      BY <1>4, <3>1
    <3> HIDE DEF k
    <3>3. s[i] = y[k] /\ s[i + 1] = y[k + 1]
      BY <1>4, <3>1, <3>2
    <3>4. QED
      BY <1>5, <3>1, <3>3 DEF RunsOfBlanks
  <2>4. QED
    BY <1>4, <2>1, <2>2, <2>3
<1>6. QED
  BY <1>5 DEF RunsOfBlanks, s, a

\* s is c and something more.
Begins(c, s) == \E e \in Text : s = c \o e

\* Of two texts that begin a third one, the longer one begins with the shorter.
LEMMA Split ==
    ASSUME NEW a \in Text, NEW c \in Text, NEW s, Begins(a, s), Begins(c, s),
           Len(c) <= Len(a)
    PROVE  Begins(c, a)
<1> PICK b \in Text, d \in Text : s = a \o b /\ s = c \o d
  BY DEF Begins
<1> DEFINE e == SubSeq(a, Len(c) + 1, Len(a))
           n == Len(a) - Len(c)
<1>1. /\ Len(a) \in Nat /\ Len(c) \in Nat
      /\ \A k \in 1..Len(a) : (a \o b)[k] = a[k]
      /\ \A k \in 1..Len(c) : (c \o d)[k] = c[k]
  BY ConcatIs
<1>2. \A k \in 1..Len(a) : a[k] \in Token
  BY ElementsOf DEF Text
<1>3. /\ e \in Text /\ Len(e) = n
      /\ \A k \in 1..n : e[k] = a[Len(c) + k]
  <2>1. Len(c) + 1 \in Int /\ Len(a) \in Int
    BY <1>1
  <2>2. \A k \in Len(c) + 1..Len(a) : a[k] \in Token
    BY <1>1, <1>2
  <2>3. /\ e \in Seq(Token)
        /\ Len(e) = IF Len(c) + 1 <= Len(a) THEN Len(a) - (Len(c) + 1) + 1 ELSE 0
        /\ \A k \in 1..Len(a) - (Len(c) + 1) + 1 : e[k] = a[(Len(c) + 1) + k - 1]
    BY <2>1, <2>2, SubSeqProperties
  <2> HIDE DEF e
  <2>4. Len(e) = n
    BY <1>1, <2>3
  <2>5. \A k \in 1..n : e[k] = a[Len(c) + k]
    BY <1>1, <2>3
  <2>6. QED
    BY <2>3, <2>4, <2>5 DEF Text
<1> HIDE DEF e
<1> DEFINE f == c \o e
<1>4. /\ f \in Text /\ Len(f) = Len(c) + Len(e)
      /\ \A k \in 1..Len(c) : f[k] = c[k]
      /\ \A k \in 1..Len(e) : f[Len(c) + k] = e[k]
  BY <1>3, ConcatIs, TextAlgebra
<1> HIDE DEF f
<1>5. \A k \in 1..Len(a) : a[k] = f[k]
  <2> SUFFICES ASSUME NEW k \in 1..Len(a) PROVE a[k] = f[k]
    OBVIOUS
  <2>1. CASE k <= Len(c)
    <3>1. a[k] = c[k]
      BY <1>1, <2>1
    <3>2. QED
      BY <1>1, <1>4, <2>1, <3>1
  <2>2. CASE k > Len(c)
    <3> DEFINE j == k - Len(c)
    <3>1. j \in 1..n /\ k = Len(c) + j
      BY <1>1, <2>2
    <3> HIDE DEF j
    <3>2. a[k] = e[j] /\ f[k] = e[j]
      BY <1>1, <1>3, <1>4, <3>1
    <3>3. QED
      BY <3>2
  <2>3. QED
    BY <1>1, <2>1, <2>2
<1>6. Len(f) = Len(a)
  BY <1>1, <1>3, <1>4
<1>7. a = f
  BY <1>4, <1>5, <1>6, SeqEqual DEF Text
<1>8. QED
  BY <1>3, <1>7 DEF f, Begins

LEMMA OpenBefore ==
    ASSUME NEW m \in Machine, NEW x \in Text, NEW t \in Token, OpenAtEnds(m, x \o <<t>>)
    PROVE  /\ OpenAtEnds(m, x)
           /\ t = "nl" => Run(m, x \o <<t>>).parser.cs \in Strings
<1>1. <<t>> \in Text /\ x \o <<t>> \in Text /\ <<>> \in Text
      /\ (x \o <<t>>) \o <<>> = x \o <<t>>
  BY TextAlgebra
<1>2. t = "nl" => Run(m, x \o <<t>>).parser.cs \in Strings
  BY <1>1 DEF OpenAtEnds
<1>3. ASSUME NEW y \in Text, NEW z \in Text, x = (y \o <<"nl">>) \o z
      PROVE  Run(m, y \o <<"nl">>).parser.cs \in Strings
  <2>1. "nl" \in Token
    BY DEF Token, Sign
  <2>2. y \o <<"nl">> \in Text /\ z \o <<t>> \in Text
    BY <2>1, <1>1, TextAlgebra
  <2>3. x \o <<t>> = (y \o <<"nl">>) \o (z \o <<t>>)
    BY <1>1, <1>3, <2>2, TextAlgebra, ZenonT(60)
  <2>4. QED
    BY <2>2, <2>3 DEF OpenAtEnds
<1>4. OpenAtEnds(m, x)
  BY <1>3 DEF OpenAtEnds
<1>5. QED
  BY <1>2, <1>4

\* What the machine has read of a command, at every token of it.
LEMMA TextWithin ==
    ASSUME NEW m, Fresh(m), NEW x \in Text, RunsOfBlanks(x), OpenAtEnds(m, x)
    PROVE  Within(Run(m, x), x)
<1> DEFINE S == {z \in Text : RunsOfBlanks(z) /\ OpenAtEnds(m, z) => Within(Run(m, z), z)}
<1>1. m \in Machine
  BY DEF Fresh
<1>2. <<>> \in S
  <2>1. AtMain(m, <<>>)
    BY DEF Fresh, AtMain, Quiet
  <2>2. Within(m, <<>>)
    BY <2>1 DEF Within
  <2>3. Run(m, <<>>) = m
    BY <1>1, RunEmpty
  <2>4. QED
    BY <2>2, <2>3, TextAlgebra
<1>3. ASSUME NEW z \in Text, NEW t \in Token, z \in S PROVE z \o <<t>> \in S
  <2> DEFINE y == z \o <<t>>
             n == Run(m, y)
  <2>1. y \in Text
    BY TextAlgebra
  <2>2. ASSUME RunsOfBlanks(y), OpenAtEnds(m, y) PROVE Within(n, y)
    <3>1. RunsOfBlanks(z) /\ OpenAtEnds(m, z) /\ (t = "nl" => n.parser.cs \in Strings)
      BY <1>1, <2>2, BlanksBefore, OpenBefore
    <3>2. Within(Run(m, z), z)
      BY <1>3, <3>1
    <3>3. n = Step(Run(m, z), t)
      BY <1>1, RunMore
    <3>4. Read(n, y, t)
      BY <2>2, <3>2, <3>3, WithinReads
    <3>5. QED
      BY <3>1, <3>4 DEF Read
  <2>3. QED
    BY <2>1, <2>2
<1>4. x \in S
  <2> HIDE DEF S
  <2>1. Text \subseteq S
    BY <1>2, <1>3, TextInduction
  <2>2. QED
    BY <2>1
<1>5. QED
  BY <1>4

\* A whole command, or the lines of one whose string is still open.
LEMMA TextRead ==
    ASSUME NEW m, Fresh(m), NEW x \in Text, RunsOfBlanks(x \o <<"nl">>), OpenAtEnds(m, x)
    PROVE  Read(Run(m, x \o <<"nl">>), x \o <<"nl">>, "nl")
<1>1. m \in Machine /\ "nl" \in Token
  BY DEF Fresh, Token, Sign
<1>2. RunsOfBlanks(x)
  BY <1>1, BlanksBefore
<1>3. Within(Run(m, x), x)
  BY <1>2, TextWithin
<1>4. Run(m, x \o <<"nl">>) = Step(Run(m, x), "nl")
  BY <1>1, RunMore
<1>5. QED
  BY <1>1, <1>3, <1>4, WithinReads

-----------------------------------------------------------------------------
(* The lines that listen() gives to the machine.                           *)

LEMMA LinesAre ==
    \A line \in Line : /\ line \in Text /\ RunsOfBlanks(line)
                       /\ \A k \in 1..Len(line) : line[k] # "nl"
                       /\ Append(line, "nl") = line \o <<"nl">>
<1> SUFFICES ASSUME NEW line \in Line
             PROVE  /\ line \in Text /\ RunsOfBlanks(line)
                    /\ \A k \in 1..Len(line) : line[k] # "nl"
                    /\ Append(line, "nl") = line \o <<"nl">>
  OBVIOUS
<1>1. line \in Seq(Token \ {"nl"}) /\ RunsOfBlanks(line)
  BY LineAssumption
<1>2. \A k \in 1..Len(line) : line[k] \in Token \ {"nl"}
  BY <1>1, ElementsOf
<1>3. line \in Text
  BY <1>1 DEF Text
<1>4. "nl" \in Token
  BY DEF Token, Sign
<1>5. QED
  BY <1>1, <1>2, <1>3, <1>4, TextAlgebra

LEMMA BlanksEnd ==
    ASSUME NEW x \in Text, RunsOfBlanks(x)
    PROVE  RunsOfBlanks(x \o <<"nl">>)
<1> DEFINE y == x \o <<"nl">>
<1>1. "nl" \in Token
  BY DEF Token, Sign
<1>2. /\ Len(x) \in Nat /\ Len(y) = Len(x) + 1 /\ y[Len(x) + 1] = "nl"
      /\ \A k \in 1..Len(x) : y[k] = x[k]
  BY <1>1, OneMore, ConcatIs
<1> HIDE DEF y
<1>3. ASSUME NEW i \in 1..Len(y) - 1, y[i] = "space", y[i + 1] = "space" PROVE FALSE
  <2>1. i \in 1..Len(x)
    BY <1>2
  <2>2. CASE i = Len(x)
    BY <1>2, <1>3, <2>2
  <2>3. CASE i # Len(x)
    <3>1. i \in 1..Len(x) - 1 /\ i + 1 \in 1..Len(x)
      BY <1>2, <2>1, <2>3
    <3>2. x[i] = "space" /\ x[i + 1] = "space"
      BY <1>2, <1>3, <2>1, <3>1
    <3>3. QED
      BY <3>1, <3>2 DEF RunsOfBlanks
  <2>4. QED
    BY <2>2, <2>3
<1>4. QED
  BY <1>3 DEF RunsOfBlanks, y

\* Where a line feed within a text is.
LEMMA LineFeedAt ==
    ASSUME NEW y \in Text, NEW z \in Text
    PROVE  LET s == (y \o <<"nl">>) \o z
           IN  /\ s \in Text /\ y \o <<"nl">> \in Text
               /\ Len(y) \in Nat /\ Len(y \o <<"nl">>) = Len(y) + 1
               /\ Len(y) + 1 \in 1..Len(s) /\ s[Len(y) + 1] = "nl"
<1> DEFINE a == y \o <<"nl">>
<1>1. "nl" \in Token
  BY DEF Token, Sign
<1>2. a \in Text /\ Len(a) = Len(y) + 1 /\ a[Len(y) + 1] = "nl" /\ Len(y) \in Nat
  BY <1>1, OneMore, ConcatIs
<1> HIDE DEF a
<1>3. /\ Len(a) \in Nat /\ Len(z) \in Nat /\ Len(a \o z) = Len(a) + Len(z)
      /\ \A k \in 1..Len(a) : (a \o z)[k] = a[k]
      /\ a \o z \in Text
  BY <1>2, ConcatIs, TextAlgebra
<1>4. Len(y) + 1 \in 1..Len(a) /\ Len(y) + 1 \in 1..Len(a \o z)
  BY <1>2, <1>3
<1>5. QED
  BY <1>2, <1>3, <1>4 DEF a

LEMMA OpenInLine ==
    ASSUME NEW m \in Machine, NEW line \in Line
    PROVE  OpenAtEnds(m, line)
<1>1. \A k \in 1..Len(line) : line[k] # "nl"
  BY LinesAre
<1>2. \A y, z \in Text : line # (y \o <<"nl">>) \o z
  BY <1>1, LineFeedAt
<1>3. QED
  BY <1>2 DEF OpenAtEnds

\* A line more, when the string of the lines before is open.
LEMMA OpenOneMore ==
    ASSUME NEW m \in Machine, NEW x \in Text, NEW line \in Line, OpenAtEnds(m, x),
           Run(m, x \o <<"nl">>).parser.cs \in Strings
    PROVE  OpenAtEnds(m, (x \o <<"nl">>) \o line)
<1> DEFINE a == x \o <<"nl">>
           s == a \o line
<1>1. line \in Text /\ \A k \in 1..Len(line) : line[k] # "nl"
  BY LinesAre
<1>2. /\ a \in Text /\ s \in Text /\ <<"nl">> \in Text /\ <<"nl">> \o line \in Text
      /\ s = x \o (<<"nl">> \o line)
  <2>1. "nl" \in Token
    BY DEF Token, Sign
  <2>2. <<"nl">> \in Text
    BY <2>1, TextAlgebra
  <2>3. QED
    BY <1>1, <2>2, TextAlgebra
<1>3. ASSUME NEW y \in Text, NEW z \in Text, s = (y \o <<"nl">>) \o z
      PROVE  Run(m, y \o <<"nl">>).parser.cs \in Strings
  <2> DEFINE b == y \o <<"nl">>
  <2>1. /\ b \in Text /\ Len(b) = Len(y) + 1 /\ Len(y) \in Nat
        /\ Len(b) \in 1..Len(s) /\ s[Len(b)] = "nl"
    BY <1>3, LineFeedAt
  <2>2. Len(a) = Len(x) + 1 /\ Len(x) \in Nat
    BY LineFeedAt, TextAlgebra
  <2>3. /\ Len(s) = Len(a) + Len(line) /\ Len(line) \in Nat
        /\ \A k \in 1..Len(line) : s[Len(a) + k] = line[k]
    BY <1>1, <1>2, ConcatIs
  <2>4. s = b \o z
    BY <1>3
  <2> HIDE DEF a, b, s
  <2>5. CASE Len(b) <= Len(x)
    <3> DEFINE u == <<"nl">> \o line
    <3>1. x \o u = b \o z /\ u \in Text /\ b \in Text
      BY <1>2, <2>1, <2>4
    <3> HIDE DEF u
    <3>2. Begins(x, s) /\ Begins(b, s)
      BY <1>2, <2>4, <3>1 DEF Begins, u
    <3>3. Begins(b, x)
      BY <2>1, <2>5, <3>2, Split
    <3>4. PICK e \in Text : x = b \o e
      BY <3>3 DEF Begins
    <3>5. QED
      BY <3>4 DEF OpenAtEnds, b
  <2>6. CASE Len(b) = Len(a)
    <3>1. PICK e \in Text : a = b \o e
      <4>1. Begins(a, s) /\ Begins(b, s)
        BY <1>1, <2>4 DEF Begins, s
      <4>2. Len(b) <= Len(a)
        BY <2>1, <2>2, <2>6
      <4>3. Begins(b, a)
        BY <1>2, <2>1, <4>1, <4>2, Split
      <4>4. QED
        BY <4>3 DEF Begins
    <3>2. Len(a) = Len(b) + Len(e) /\ Len(e) \in Nat
      BY <2>1, <3>1, ConcatIs
    <3>3. Len(e) = 0
      BY <2>1, <2>6, <3>2
    <3>4. e = <<>>
      BY <3>3 DEF Text
    <3>5. a = b
      BY <2>1, <3>1, <3>4, TextAlgebra
    <3>6. QED
      BY <3>5 DEF a, b
  <2>7. CASE Len(b) > Len(a)
    <3> DEFINE k == Len(b) - Len(a)
    <3>1. k \in 1..Len(line) /\ Len(b) = Len(a) + k
      BY <2>1, <2>2, <2>3, <2>7
    <3> HIDE DEF k
    <3>2. s[Len(b)] = line[k]
      BY <2>3, <3>1
    <3>3. QED
      BY <1>1, <2>1, <3>1, <3>2
  <2>8. QED
    BY <2>1, <2>2, <2>5, <2>6, <2>7
<1>4. QED
  BY <1>3 DEF OpenAtEnds, s, a

-----------------------------------------------------------------------------
(* The invariant.                                                          *)

Reader == [parser |-> parser, calls |-> calls, refused |-> refused]

\* m is what a fresh machine is after s, the lines of one command.
HasRead(m, s) ==
    \E first \in Machine : \E x \in Text :
        /\ Fresh(first) /\ s = x \o <<"nl">> /\ RunsOfBlanks(s)
        /\ OpenAtEnds(first, x) /\ m = Run(first, s)

\* A reader at the start of a line that was asked nothing is fresh.
LEMMA FreshReader ==
    ASSUME NEW p \in Parser, p.cs = "main", Cleared(p)
    PROVE  Fresh([parser |-> p, calls |-> <<>>, refused |-> FALSE])
<1> DEFINE r == [parser |-> p, calls |-> <<>>, refused |-> FALSE]
<1>1. <<>> \in Seq(CallRecord)
  OBVIOUS
<1>2. r \in Machine
  BY <1>1 DEF Machine
<1>3. r.parser = p /\ r.calls = <<>> /\ r.refused = FALSE
  OBVIOUS
<1> HIDE DEF r
<1>4. Fresh(r)
  BY <1>2, <1>3 DEF Fresh
<1>5. QED
  BY <1>4 DEF r

\* Between two lines: what the machine is, from what was said to it since the
\* last command.
CommandInv ==
    /\ Reader \in Machine /\ said \in Text
    /\ said = <<>> => Fresh(Reader)
    /\ said # <<>> => HasRead(Reader, said)

LEMMA InitInv == TextInit => CommandInv
<1> SUFFICES ASSUME TextInit PROVE CommandInv
  OBVIOUS
<1>1. <<>> \in Text /\ "=>" \in Token /\ "main" \in State
  BY TextAlgebra DEF Token, Sign, State
<1>2. parser \in Parser /\ parser.cs = "main" /\ Cleared(parser)
  BY <1>1 DEF TextInit, Parser, Cleared
<1>3. Reader \in Machine /\ Fresh(Reader)
  <2>1. Reader = [parser |-> parser, calls |-> <<>>, refused |-> FALSE]
    BY DEF TextInit, Reader
  <2>2. Fresh(Reader)
    BY <1>2, <2>1, FreshReader
  <2>3. QED
    BY <2>2 DEF Fresh
<1>4. QED
  BY <1>1, <1>3 DEF TextInit, CommandInv

LEMMA GetlineInv == CommandInv /\ Getline => CommandInv'
<1> SUFFICES ASSUME CommandInv, Getline PROVE CommandInv'
  OBVIOUS
<1>1. said # <<>> /\ parser.cs \notin Strings /\ parser' = parser
      /\ calls' = <<>> /\ refused' = FALSE /\ said' = <<>>
  BY DEF Getline, InString, Strings
<1>2. PICK first \in Machine, x \in Text :
         /\ Fresh(first) /\ said = x \o <<"nl">> /\ RunsOfBlanks(said)
         /\ OpenAtEnds(first, x) /\ Reader = Run(first, said)
  BY <1>1 DEF CommandInv, HasRead
<1>3. Read(Reader, said, "nl")
  BY <1>2, TextRead
<1>4. Reader.parser = parser /\ Reader \in Machine
  BY DEF Reader, CommandInv
<1>5. Over(Reader, said)
  BY <1>1, <1>3, <1>4 DEF Read
<1>6. parser \in Parser /\ parser.cs = "main" /\ Cleared(parser)
  BY <1>4, <1>5 DEF Over, Machine
<1>7. Reader' \in Machine /\ (Fresh(Reader))'
  <2>1. Reader' = [parser |-> parser, calls |-> <<>>, refused |-> FALSE]
    BY <1>1 DEF Reader
  <2> DEFINE r == Reader'
  <2>2. Fresh(r)
    BY <1>6, <2>1, FreshReader
  <2>3. QED
    BY <2>2 DEF Fresh
<1>8. QED
  BY <1>1, <1>7, TextAlgebra DEF CommandInv

LEMMA ParseInv == ASSUME NEW line \in Line PROVE CommandInv /\ Parse(line) => CommandInv'
<1> SUFFICES ASSUME CommandInv, Parse(line) PROVE CommandInv'
  OBVIOUS
<1> DEFINE text == line \o <<"nl">>
           m == Reader
           n == Run(m, text)
<1>1. /\ line \in Text /\ RunsOfBlanks(line) /\ Append(line, "nl") = text
      /\ "nl" \in Token
  BY LinesAre DEF Token, Sign
<1>2. m \in Machine /\ said \in Text /\ text \in Text /\ RunsOfBlanks(text)
  BY <1>1, TextAlgebra, BlanksEnd DEF CommandInv
<1>3. n \in Machine /\ text # <<>>
  <2>1. Run(m, line) \in Machine /\ n = Step(Run(m, line), "nl")
    BY <1>1, <1>2, RunMore
  <2>2. Len(text) = Len(line) + 1 /\ Len(line) \in Nat
    BY <1>1, OneMore, ConcatIs
  <2>3. QED
    BY <2>1, <2>2, <1>1, <1>2, StepKeeps
<1>4. /\ parser' = n.parser /\ calls' = n.calls /\ refused' = n.refused
      /\ said' = said \o text
      /\ said = <<>> \/ parser.cs \in Strings
  BY <1>1 DEF Parse, Reader, InString, Strings
<1> HIDE DEF n
<1>5. Reader' = n
  <2>1. n = [parser |-> n.parser, calls |-> n.calls, refused |-> n.refused]
    BY <1>3 DEF Machine
  <2>2. QED
    BY <1>4, <2>1 DEF Reader
<1>6. said' \in Text /\ said' # <<>>
  <2>1. Len(said \o text) = Len(said) + Len(text) /\ Len(said) \in Nat
        /\ Len(text) = Len(line) + 1 /\ Len(line) \in Nat
    BY <1>1, <1>2, OneMore, ConcatIs
  <2>2. QED
    BY <1>2, <1>4, <2>1, TextAlgebra
<1>7. HasRead(n, said')
  <2>1. CASE said = <<>>
    <3>1. said' = text
      BY <1>2, <1>4, <2>1, TextAlgebra
    <3>2. Fresh(m)
      BY <2>1 DEF CommandInv
    <3>3. OpenAtEnds(m, line)
      BY <1>2, OpenInLine
    <3>4. QED
      BY <1>1, <1>2, <3>1, <3>2, <3>3 DEF HasRead, n
  <2>2. CASE said # <<>>
    <3>1. PICK first \in Machine, x \in Text :
             /\ Fresh(first) /\ said = x \o <<"nl">> /\ RunsOfBlanks(said)
             /\ OpenAtEnds(first, x) /\ m = Run(first, said)
      BY <2>2 DEF CommandInv, HasRead
    <3>2. m.parser.cs \in Strings
      BY <1>4, <2>2 DEF Reader
    <3>3. OpenAtEnds(first, said \o line)
      BY <3>1, <3>2, OpenOneMore
    <3>4. said' = (said \o line) \o <<"nl">> /\ said \o line \in Text
      BY <1>1, <1>2, <1>4, TextAlgebra
    <3>5. RunsOfBlanks(said')
      BY <1>2, <1>4, <3>1, BlanksJoin
    <3>6. n = Run(first, said')
      BY <1>2, <1>4, <3>1, RunBoth DEF n
    <3>7. QED
      BY <3>1, <3>3, <3>4, <3>5, <3>6 DEF HasRead
  <2>3. QED
    BY <2>1, <2>2
<1>8. QED
  BY <1>3, <1>5, <1>6, <1>7 DEF CommandInv

\* The machine has read what was said, and nothing else, from the start of a line.
THEOREM CommandInvAlways == TextSpec => []CommandInv
<1>1. CommandInv /\ [TextNext]_textVars => CommandInv'
  <2>1. CommandInv /\ UNCHANGED textVars => CommandInv'
    BY DEF CommandInv, Reader, textVars
  <2>2. QED
    BY <2>1, GetlineInv, ParseInv DEF TextNext
<1>2. QED
  BY <1>1, InitInv, PTL DEF TextSpec

-----------------------------------------------------------------------------
(* The other direction: what is written on a line is read as it.           *)

\* From m to n, in the state cs, without a syntax error.
Led(m, n, cs) == n \in Machine /\ n.parser.cs = cs /\ n.refused = m.refused

\* The text w takes the machine from the state a to b.
Leads(a, w, b) == \A m \in Machine : m.parser.cs = a => Led(m, Run(m, w), b)

LEMMA LeadsOne ==
    ASSUME NEW t \in Token, NEW a, NEW b,
           \A m \in Machine : m.parser.cs = a => Led(m, Step(m, t), b)
    PROVE  Leads(a, <<t>>, b)
BY RunOne DEF Leads

LEMMA LeadsNone == \A a : Leads(a, <<>>, a)
BY RunEmpty DEF Leads, Led

LEMMA LeadsBoth ==
    ASSUME NEW w \in Text, NEW x \in Text, NEW a, NEW b, NEW c,
           Leads(a, w, b), Leads(b, x, c)
    PROVE  Leads(a, w \o x, c)
<1> SUFFICES ASSUME NEW m \in Machine, m.parser.cs = a PROVE Led(m, Run(m, w \o x), c)
  BY DEF Leads
<1> DEFINE n == Run(m, w)
<1>1. Led(m, n, b)
  BY DEF Leads
<1>2. Run(m, w \o x) = Run(n, x)
  BY RunBoth
<1> HIDE DEF n
<1>3. Led(n, Run(n, x), c)
  BY <1>1 DEF Leads, Led
<1>4. QED
  BY <1>1, <1>2, <1>3 DEF Led

LEMMA GoesLeads ==
    \A m, n, cs : Goes(m, n, cs) => Led(m, n, cs)
BY DEF Goes, Led

\* The moves of a command, of a new node and of a link.
LEMMA CommandLeads ==
    /\ \A t \in Name : Leads("main", <<t>>, "word")
    /\ \A t \in {"("} : Leads("word", <<t>>, "args")
    /\ \A t \in {")"} : Leads("args", <<t>>, "called")
    /\ \A t \in Value : Leads("args", <<t>>, "arg")
    /\ \A t \in {"quote"} : Leads("args", <<t>>, "string")
    /\ \A t \in {"quote"} : Leads("string", <<t>>, "arg")
    /\ \A t \in Token \ {"quote"} : Leads("string", <<t>>, "string")
    /\ \A t \in {")"} : Leads("arg", <<t>>, "called")
<1>1. Sign \subseteq Token /\ Name \subseteq Token /\ Class \subseteq Token /\ Value \subseteq Token
  BY DEF Token
<1>2. {"=", "=>", "||", "~", "(", ")", "space", "quote"} \subseteq Token
  BY <1>1 DEF Sign
<1>3. ASSUME NEW t \in Name PROVE Leads("main", <<t>>, "word")
  <2>1. t \in Token /\ "word" \in State
    BY <1>1, <1>2 DEF State
  <2>2. ASSUME NEW m \in Machine, m.parser.cs = "main" PROVE Led(m, Step(m, t), "word")
    <3>1. Goes(m, Step(m, t), "word")
      BY <2>1, <2>2, MainSteps, CollectIs
    <3>2. QED
      BY <3>1, GoesLeads
  <2>3. QED
    BY <2>1, <2>2, LeadsOne
<1>4. ASSUME NEW t \in {"("} PROVE Leads("word", <<t>>, "args")
  <2>1. t \in Token /\ "args" \in State
    BY <1>1, <1>2 DEF State
  <2>2. ASSUME NEW m \in Machine, m.parser.cs = "word" PROVE Led(m, Step(m, t), "args")
    <3>1. Goes(m, Step(m, t), "args")
      BY <2>1, <2>2, WordSteps, MethodIs
    <3>2. QED
      BY <3>1, GoesLeads
  <2>3. QED
    BY <2>1, <2>2, LeadsOne
<1>5. ASSUME NEW t \in {")"} PROVE Leads("args", <<t>>, "called")
  <2>1. t \in Token /\ "called" \in State
    BY <1>1, <1>2 DEF State
  <2>2. ASSUME NEW m \in Machine, m.parser.cs = "args" PROVE Led(m, Step(m, t), "called")
    <3>1. Goes(m, Step(m, t), "called")
      BY <2>1, <2>2, ArgsSteps, StayIs
    <3>2. QED
      BY <3>1, GoesLeads
  <2>3. QED
    BY <2>1, <2>2, LeadsOne
<1>6. ASSUME NEW t \in Value PROVE Leads("args", <<t>>, "arg")
  <2>1. t \in Token /\ "arg" \in State
    BY <1>1, <1>2 DEF State
  <2>2. ASSUME NEW m \in Machine, m.parser.cs = "args" PROVE Led(m, Step(m, t), "arg")
    <3>1. Goes(m, Step(m, t), "arg")
      BY <2>1, <2>2, ArgsSteps, ParamsIs
    <3>2. QED
      BY <3>1, GoesLeads
  <2>3. QED
    BY <2>1, <2>2, LeadsOne
<1>7. ASSUME NEW t \in {"quote"} PROVE Leads("args", <<t>>, "string")
  <2>1. t \in Token /\ "string" \in State
    BY <1>1, <1>2 DEF State
  <2>2. ASSUME NEW m \in Machine, m.parser.cs = "args" PROVE Led(m, Step(m, t), "string")
    <3>1. Goes(m, Step(m, t), "string")
      BY <2>1, <2>2, ArgsSteps, ParamsIs
    <3>2. QED
      BY <3>1, GoesLeads
  <2>3. QED
    BY <2>1, <2>2, LeadsOne
<1>8. ASSUME NEW t \in {"quote"} PROVE Leads("string", <<t>>, "arg")
  <2>1. t \in Token /\ "arg" \in State
    BY <1>1, <1>2 DEF State
  <2>2. ASSUME NEW m \in Machine, m.parser.cs = "string" PROVE Led(m, Step(m, t), "arg")
    <3>1. Goes(m, Step(m, t), "arg")
      BY <2>1, <2>2, StringSteps, ParamsIs
    <3>2. QED
      BY <3>1, GoesLeads
  <2>3. QED
    BY <2>1, <2>2, LeadsOne
<1>9. ASSUME NEW t \in Token \ {"quote"} PROVE Leads("string", <<t>>, "string")
  <2>1. t \in Token /\ "string" \in State
    BY <1>1, <1>2 DEF State
  <2>2. ASSUME NEW m \in Machine, m.parser.cs = "string" PROVE Led(m, Step(m, t), "string")
    <3>1. Step(m, t) = Go(m, ParamsAdded(m.parser, t), "string")
      BY <2>1, <2>2, StringSteps, ParamsStay
    <3>2. Goes(m, Step(m, t), "string")
      BY <2>1, <2>2, <3>1, ParamsIs
    <3>3. QED
      BY <3>2, GoesLeads
  <2>3. QED
    BY <2>1, <2>2, LeadsOne
<1>10. ASSUME NEW t \in {")"} PROVE Leads("arg", <<t>>, "called")
  <2>1. t \in Token /\ "called" \in State
    BY <1>1, <1>2 DEF State
  <2>2. ASSUME NEW m \in Machine, m.parser.cs = "arg" PROVE Led(m, Step(m, t), "called")
    <3>1. Goes(m, Step(m, t), "called")
      BY <2>1, <2>2, ArgSteps, StayIs
    <3>2. QED
      BY <3>1, GoesLeads
  <2>3. QED
    BY <2>1, <2>2, LeadsOne
<1>11. QED
  BY <1>3, <1>4, <1>5, <1>6, <1>7, <1>8, <1>9, <1>10

LEMMA NewLeads ==
    /\ \A t \in {"="} : Leads("word", <<t>>, "new")
    /\ \A t \in {"space"} : Leads("word", <<t>>, "var")
    /\ \A t \in {"="} : Leads("var", <<t>>, "new")
    /\ \A t \in {"space"} : Leads("new", <<t>>, "new")
    /\ \A t \in Class : Leads("new", <<t>>, "class")
    /\ \A t \in {"("} : Leads("class", <<t>>, "new_args")
    /\ \A t \in {")"} : Leads("new_args", <<t>>, "created")
    /\ \A t \in Value : Leads("new_args", <<t>>, "new_value")
    /\ \A t \in {"quote"} : Leads("new_args", <<t>>, "new_string")
    /\ \A t \in {"quote"} : Leads("new_string", <<t>>, "new_value")
    /\ \A t \in Token \ {"quote"} : Leads("new_string", <<t>>, "new_string")
    /\ \A t \in {")"} : Leads("new_value", <<t>>, "created")
<1>1. Sign \subseteq Token /\ Name \subseteq Token /\ Class \subseteq Token /\ Value \subseteq Token
  BY DEF Token
<1>2. {"=", "=>", "||", "~", "(", ")", "space", "quote"} \subseteq Token
  BY <1>1 DEF Sign
<1>3. ASSUME NEW t \in {"="} PROVE Leads("word", <<t>>, "new")
  <2>1. t \in Token /\ "new" \in State
    BY <1>1, <1>2 DEF State
  <2>2. ASSUME NEW m \in Machine, m.parser.cs = "word" PROVE Led(m, Step(m, t), "new")
    <3>1. Goes(m, Step(m, t), "new")
      BY <2>1, <2>2, WordSteps, FromIs
    <3>2. QED
      BY <3>1, GoesLeads
  <2>3. QED
    BY <2>1, <2>2, LeadsOne
<1>4. ASSUME NEW t \in {"space"} PROVE Leads("word", <<t>>, "var")
  <2>1. t \in Token /\ "var" \in State
    BY <1>1, <1>2 DEF State
  <2>2. ASSUME NEW m \in Machine, m.parser.cs = "word" PROVE Led(m, Step(m, t), "var")
    <3>1. Goes(m, Step(m, t), "var")
      BY <2>1, <2>2, WordSteps, FromIs
    <3>2. QED
      BY <3>1, GoesLeads
  <2>3. QED
    BY <2>1, <2>2, LeadsOne
<1>5. ASSUME NEW t \in {"="} PROVE Leads("var", <<t>>, "new")
  <2>1. t \in Token /\ "new" \in State
    BY <1>1, <1>2 DEF State
  <2>2. ASSUME NEW m \in Machine, m.parser.cs = "var" PROVE Led(m, Step(m, t), "new")
    <3>1. Goes(m, Step(m, t), "new")
      BY <2>1, <2>2, VarSteps, StayIs
    <3>2. QED
      BY <3>1, GoesLeads
  <2>3. QED
    BY <2>1, <2>2, LeadsOne
<1>6. ASSUME NEW t \in {"space"} PROVE Leads("new", <<t>>, "new")
  <2>1. t \in Token /\ "new" \in State
    BY <1>1, <1>2 DEF State
  <2>2. ASSUME NEW m \in Machine, m.parser.cs = "new" PROVE Led(m, Step(m, t), "new")
    <3>1. Goes(m, Step(m, t), "new")
      BY <2>1, <2>2, NewSteps, StayIs
    <3>2. QED
      BY <3>1, GoesLeads
  <2>3. QED
    BY <2>1, <2>2, LeadsOne
<1>7. ASSUME NEW t \in Class PROVE Leads("new", <<t>>, "class")
  <2>1. t \in Token /\ "class" \in State
    BY <1>1, <1>2 DEF State
  <2>2. ASSUME NEW m \in Machine, m.parser.cs = "new" PROVE Led(m, Step(m, t), "class")
    <3>1. Goes(m, Step(m, t), "class")
      BY <2>1, <2>2, NewSteps, CollectIs
    <3>2. QED
      BY <3>1, GoesLeads
  <2>3. QED
    BY <2>1, <2>2, LeadsOne
<1>8. ASSUME NEW t \in {"("} PROVE Leads("class", <<t>>, "new_args")
  <2>1. t \in Token /\ "new_args" \in State
    BY <1>1, <1>2 DEF State
  <2>2. ASSUME NEW m \in Machine, m.parser.cs = "class" PROVE Led(m, Step(m, t), "new_args")
    <3>1. Goes(m, Step(m, t), "new_args")
      BY <2>1, <2>2, ClassSteps, ClassIs
    <3>2. QED
      BY <3>1, GoesLeads
  <2>3. QED
    BY <2>1, <2>2, LeadsOne
<1>9. ASSUME NEW t \in {")"} PROVE Leads("new_args", <<t>>, "created")
  <2>1. t \in Token /\ "created" \in State
    BY <1>1, <1>2 DEF State
  <2>2. ASSUME NEW m \in Machine, m.parser.cs = "new_args" PROVE Led(m, Step(m, t), "created")
    <3>1. Goes(m, Step(m, t), "created")
      BY <2>1, <2>2, NewArgsSteps, StayIs
    <3>2. QED
      BY <3>1, GoesLeads
  <2>3. QED
    BY <2>1, <2>2, LeadsOne
<1>10. ASSUME NEW t \in Value PROVE Leads("new_args", <<t>>, "new_value")
  <2>1. t \in Token /\ "new_value" \in State
    BY <1>1, <1>2 DEF State
  <2>2. ASSUME NEW m \in Machine, m.parser.cs = "new_args" PROVE Led(m, Step(m, t), "new_value")
    <3>1. Goes(m, Step(m, t), "new_value")
      BY <2>1, <2>2, NewArgsSteps, ParamsIs
    <3>2. QED
      BY <3>1, GoesLeads
  <2>3. QED
    BY <2>1, <2>2, LeadsOne
<1>11. ASSUME NEW t \in {"quote"} PROVE Leads("new_args", <<t>>, "new_string")
  <2>1. t \in Token /\ "new_string" \in State
    BY <1>1, <1>2 DEF State
  <2>2. ASSUME NEW m \in Machine, m.parser.cs = "new_args" PROVE Led(m, Step(m, t), "new_string")
    <3>1. Goes(m, Step(m, t), "new_string")
      BY <2>1, <2>2, NewArgsSteps, ParamsIs
    <3>2. QED
      BY <3>1, GoesLeads
  <2>3. QED
    BY <2>1, <2>2, LeadsOne
<1>12. ASSUME NEW t \in {"quote"} PROVE Leads("new_string", <<t>>, "new_value")
  <2>1. t \in Token /\ "new_value" \in State
    BY <1>1, <1>2 DEF State
  <2>2. ASSUME NEW m \in Machine, m.parser.cs = "new_string" PROVE Led(m, Step(m, t), "new_value")
    <3>1. Goes(m, Step(m, t), "new_value")
      BY <2>1, <2>2, NewStringSteps, ParamsIs
    <3>2. QED
      BY <3>1, GoesLeads
  <2>3. QED
    BY <2>1, <2>2, LeadsOne
<1>13. ASSUME NEW t \in Token \ {"quote"} PROVE Leads("new_string", <<t>>, "new_string")
  <2>1. t \in Token /\ "new_string" \in State
    BY <1>1, <1>2 DEF State
  <2>2. ASSUME NEW m \in Machine, m.parser.cs = "new_string" PROVE Led(m, Step(m, t), "new_string")
    <3>1. Step(m, t) = Go(m, ParamsAdded(m.parser, t), "new_string")
      BY <2>1, <2>2, NewStringSteps, ParamsStay
    <3>2. Goes(m, Step(m, t), "new_string")
      BY <2>1, <2>2, <3>1, ParamsIs
    <3>3. QED
      BY <3>2, GoesLeads
  <2>3. QED
    BY <2>1, <2>2, LeadsOne
<1>14. ASSUME NEW t \in {")"} PROVE Leads("new_value", <<t>>, "created")
  <2>1. t \in Token /\ "created" \in State
    BY <1>1, <1>2 DEF State
  <2>2. ASSUME NEW m \in Machine, m.parser.cs = "new_value" PROVE Led(m, Step(m, t), "created")
    <3>1. Goes(m, Step(m, t), "created")
      BY <2>1, <2>2, NewValueSteps, StayIs
    <3>2. QED
      BY <3>1, GoesLeads
  <2>3. QED
    BY <2>1, <2>2, LeadsOne
<1>15. QED
  BY <1>3, <1>4, <1>5, <1>6, <1>7, <1>8, <1>9, <1>10, <1>11, <1>12, <1>13, <1>14

LEMMA LinkLeads ==
    /\ \A t \in {"=>", "||"} : Leads("word", <<t>>, "to")
    /\ \A t \in {"=>", "||"} : Leads("var", <<t>>, "to")
    /\ \A t \in {"~"} : Leads("word", <<t>>, "from_port")
    /\ \A t \in Name : Leads("from_port", <<t>>, "from")
    /\ \A t \in {"=>", "||"} : Leads("from", <<t>>, "to")
    /\ \A t \in {"space"} : Leads("from", <<t>>, "from_end")
    /\ \A t \in {"=>", "||"} : Leads("from_end", <<t>>, "to")
    /\ \A t \in {"space"} : Leads("to", <<t>>, "to")
    /\ \A t \in Name : Leads("to", <<t>>, "port_or_end")
    /\ \A t \in {"~"} : Leads("port_or_end", <<t>>, "to_end")
    /\ \A t \in Name : Leads("to_end", <<t>>, "end")
<1>1. Sign \subseteq Token /\ Name \subseteq Token /\ Class \subseteq Token /\ Value \subseteq Token
  BY DEF Token
<1>2. {"=", "=>", "||", "~", "(", ")", "space", "quote"} \subseteq Token
  BY <1>1 DEF Sign
<1>3. ASSUME NEW t \in {"=>", "||"} PROVE Leads("word", <<t>>, "to")
  <2>1. t \in Token /\ "to" \in State
    BY <1>1, <1>2 DEF State
  <2>2. ASSUME NEW m \in Machine, m.parser.cs = "word" PROVE Led(m, Step(m, t), "to")
    <3>1. Goes(m, Step(m, t), "to")
      BY <2>1, <2>2, WordSteps, FromOpIs
    <3>2. QED
      BY <3>1, GoesLeads
  <2>3. QED
    BY <2>1, <2>2, LeadsOne
<1>4. ASSUME NEW t \in {"=>", "||"} PROVE Leads("var", <<t>>, "to")
  <2>1. t \in Token /\ "to" \in State
    BY <1>1, <1>2 DEF State
  <2>2. ASSUME NEW m \in Machine, m.parser.cs = "var" PROVE Led(m, Step(m, t), "to")
    <3>1. Goes(m, Step(m, t), "to")
      BY <2>1, <2>2, VarSteps, OpIs
    <3>2. QED
      BY <3>1, GoesLeads
  <2>3. QED
    BY <2>1, <2>2, LeadsOne
<1>5. ASSUME NEW t \in {"~"} PROVE Leads("word", <<t>>, "from_port")
  <2>1. t \in Token /\ "from_port" \in State
    BY <1>1, <1>2 DEF State
  <2>2. ASSUME NEW m \in Machine, m.parser.cs = "word" PROVE Led(m, Step(m, t), "from_port")
    <3>1. Goes(m, Step(m, t), "from_port")
      BY <2>1, <2>2, WordSteps, FromIs
    <3>2. QED
      BY <3>1, GoesLeads
  <2>3. QED
    BY <2>1, <2>2, LeadsOne
<1>6. ASSUME NEW t \in Name PROVE Leads("from_port", <<t>>, "from")
  <2>1. t \in Token /\ "from" \in State
    BY <1>1, <1>2 DEF State
  <2>2. ASSUME NEW m \in Machine, m.parser.cs = "from_port" PROVE Led(m, Step(m, t), "from")
    <3>1. Goes(m, Step(m, t), "from")
      BY <2>1, <2>2, FromPortSteps, CollectIs
    <3>2. QED
      BY <3>1, GoesLeads
  <2>3. QED
    BY <2>1, <2>2, LeadsOne
<1>7. ASSUME NEW t \in {"=>", "||"} PROVE Leads("from", <<t>>, "to")
  <2>1. t \in Token /\ "to" \in State
    BY <1>1, <1>2 DEF State
  <2>2. ASSUME NEW m \in Machine, m.parser.cs = "from" PROVE Led(m, Step(m, t), "to")
    <3>1. Goes(m, Step(m, t), "to")
      BY <2>1, <2>2, FromSteps, FromPortOpIs
    <3>2. QED
      BY <3>1, GoesLeads
  <2>3. QED
    BY <2>1, <2>2, LeadsOne
<1>8. ASSUME NEW t \in {"space"} PROVE Leads("from", <<t>>, "from_end")
  <2>1. t \in Token /\ "from_end" \in State
    BY <1>1, <1>2 DEF State
  <2>2. ASSUME NEW m \in Machine, m.parser.cs = "from" PROVE Led(m, Step(m, t), "from_end")
    <3>1. Goes(m, Step(m, t), "from_end")
      BY <2>1, <2>2, FromSteps, FromPortIs
    <3>2. QED
      BY <3>1, GoesLeads
  <2>3. QED
    BY <2>1, <2>2, LeadsOne
<1>9. ASSUME NEW t \in {"=>", "||"} PROVE Leads("from_end", <<t>>, "to")
  <2>1. t \in Token /\ "to" \in State
    BY <1>1, <1>2 DEF State
  <2>2. ASSUME NEW m \in Machine, m.parser.cs = "from_end" PROVE Led(m, Step(m, t), "to")
    <3>1. Goes(m, Step(m, t), "to")
      BY <2>1, <2>2, FromEndSteps, OpIs
    <3>2. QED
      BY <3>1, GoesLeads
  <2>3. QED
    BY <2>1, <2>2, LeadsOne
<1>10. ASSUME NEW t \in {"space"} PROVE Leads("to", <<t>>, "to")
  <2>1. t \in Token /\ "to" \in State
    BY <1>1, <1>2 DEF State
  <2>2. ASSUME NEW m \in Machine, m.parser.cs = "to" PROVE Led(m, Step(m, t), "to")
    <3>1. Goes(m, Step(m, t), "to")
      BY <2>1, <2>2, ToSteps, StayIs
    <3>2. QED
      BY <3>1, GoesLeads
  <2>3. QED
    BY <2>1, <2>2, LeadsOne
<1>11. ASSUME NEW t \in Name PROVE Leads("to", <<t>>, "port_or_end")
  <2>1. t \in Token /\ "port_or_end" \in State
    BY <1>1, <1>2 DEF State
  <2>2. ASSUME NEW m \in Machine, m.parser.cs = "to" PROVE Led(m, Step(m, t), "port_or_end")
    <3>1. Goes(m, Step(m, t), "port_or_end")
      BY <2>1, <2>2, ToSteps, CollectIs
    <3>2. QED
      BY <3>1, GoesLeads
  <2>3. QED
    BY <2>1, <2>2, LeadsOne
<1>12. ASSUME NEW t \in {"~"} PROVE Leads("port_or_end", <<t>>, "to_end")
  <2>1. t \in Token /\ "to_end" \in State
    BY <1>1, <1>2 DEF State
  <2>2. ASSUME NEW m \in Machine, m.parser.cs = "port_or_end" PROVE Led(m, Step(m, t), "to_end")
    <3>1. Goes(m, Step(m, t), "to_end")
      BY <2>1, <2>2, PortOrEndSteps, ToPortIs
    <3>2. QED
      BY <3>1, GoesLeads
  <2>3. QED
    BY <2>1, <2>2, LeadsOne
<1>13. ASSUME NEW t \in Name PROVE Leads("to_end", <<t>>, "end")
  <2>1. t \in Token /\ "end" \in State
    BY <1>1, <1>2 DEF State
  <2>2. ASSUME NEW m \in Machine, m.parser.cs = "to_end" PROVE Led(m, Step(m, t), "end")
    <3>1. Goes(m, Step(m, t), "end")
      BY <2>1, <2>2, ToEndSteps, CollectIs
    <3>2. QED
      BY <3>1, GoesLeads
  <2>3. QED
    BY <2>1, <2>2, LeadsOne
<1>14. QED
  BY <1>3, <1>4, <1>5, <1>6, <1>7, <1>8, <1>9, <1>10, <1>11, <1>12, <1>13

-----------------------------------------------------------------------------
(* What is spelled leads to the state in which the call is made.           *)

LEMMA OneLeads ==
    ASSUME NEW T, NEW a, NEW b, \A t \in T : Leads(a, <<t>>, b)
    PROVE  \A v \in One(T) : Leads(a, v, b)
BY DEF One

LEMMA QuotedIs ==
    ASSUME NEW v \in Text, Quoted(v)
    PROVE  \E u \in Text : /\ v = (<<"quote">> \o u) \o <<"quote">>
                           /\ \A k \in 1..Len(u) : u[k] # "quote"
<1> DEFINE n == Len(v) - 2
           u == SubSeq(v, 2, Len(v) - 1)
           q == <<"quote">>
           a == q \o u
           f == a \o q
<1>1. /\ Len(v) \in Nat /\ Len(v) >= 2 /\ v[1] = "quote" /\ v[Len(v)] = "quote"
      /\ \A k \in 2..Len(v) - 1 : v[k] # "quote"
      /\ \A k \in 1..Len(v) : v[k] \in Token
  BY ElementsOf DEF Quoted, Text
<1>2. "quote" \in Token
  BY DEF Token, Sign
<1>3. n \in Nat /\ u \in Text /\ Len(u) = n /\ \A k \in 1..n : u[k] = v[k + 1]
  <2>1. 2 \in Int /\ Len(v) - 1 \in Int /\ \A k \in 2..Len(v) - 1 : v[k] \in Token
    BY <1>1
  <2>2. /\ u \in Seq(Token)
        /\ Len(u) = IF 2 <= Len(v) - 1 THEN (Len(v) - 1) - 2 + 1 ELSE 0
        /\ \A k \in 1..(Len(v) - 1) - 2 + 1 : u[k] = v[2 + k - 1]
    BY <2>1, SubSeqProperties
  <2> HIDE DEF u
  <2>3. n \in Nat /\ (Len(v) - 1) - 2 + 1 = n /\ (2 <= Len(v) - 1 <=> n # 0)
    <3>1. \A l \in Nat : l >= 2 => /\ l - 2 \in Nat /\ (l - 1) - 2 + 1 = l - 2
                                  /\ (2 <= l - 1 <=> l - 2 # 0)
      OBVIOUS
    <3>2. QED
      BY <1>1, <3>1
  <2> HIDE DEF n
  <2>4. Len(u) = n /\ u \in Text
    BY <2>2, <2>3 DEF Text
  <2>5. \A k \in 1..n : u[k] = v[k + 1]
    <3>1. \A k \in 1..n : 2 + k - 1 = k + 1
      BY <2>3
    <3>2. QED
      BY <2>2, <2>3, <3>1
  <2>6. QED
    BY <2>3, <2>4, <2>5
<1> HIDE DEF u
<1>4. /\ q \in Text /\ Len(q) = 1 /\ q[1] = "quote"
  BY <1>2, TextAlgebra
<1> HIDE DEF q
<1>5. /\ a \in Text /\ Len(a) = 1 + n /\ a[1] = "quote"
      /\ \A k \in 1..n : a[1 + k] = u[k]
  <2>1. /\ Len(a) = Len(q) + Len(u)
        /\ \A k \in 1..Len(q) : a[k] = q[k]
        /\ \A k \in 1..Len(u) : a[Len(q) + k] = u[k]
    BY <1>3, <1>4, ConcatIs
  <2>2. 1 \in 1..Len(q)
    BY <1>4
  <2> HIDE DEF a
  <2>3. a[1] = q[1] /\ Len(a) = 1 + n /\ \A k \in 1..n : a[1 + k] = u[k]
    BY <1>3, <1>4, <2>1, <2>2
  <2>4. a \in Text
    BY <1>3, <1>4, TextAlgebra DEF a
  <2>5. QED
    BY <1>4, <2>3, <2>4
<1> HIDE DEF a
<1>6. /\ f \in Text /\ Len(f) = n + 2 /\ f[n + 2] = "quote"
      /\ \A k \in 1..n + 1 : f[k] = a[k]
  <2>1. /\ Len(f) = Len(a) + Len(q)
        /\ \A k \in 1..Len(a) : f[k] = a[k]
        /\ \A k \in 1..Len(q) : f[Len(a) + k] = q[k]
    BY <1>4, <1>5, ConcatIs
  <2>2. 1 \in 1..Len(q)
    BY <1>4
  <2> HIDE DEF f
  <2>3. f[Len(a) + 1] = q[1] /\ Len(f) = n + 2 /\ \A k \in 1..n + 1 : f[k] = a[k]
    BY <1>3, <1>4, <1>5, <2>1, <2>2
  <2>4. f \in Text
    BY <1>4, <1>5, TextAlgebra DEF f
  <2>5. QED
    BY <1>3, <1>4, <1>5, <2>3, <2>4
<1> HIDE DEF f
<1>7. \A k \in 1..Len(v) : v[k] = f[k]
  <2> SUFFICES ASSUME NEW k \in 1..Len(v) PROVE v[k] = f[k]
    OBVIOUS
  <2>1. CASE k = 1
    <3>1. f[1] = a[1]
      BY <1>3, <1>6
    <3>2. QED
      BY <1>1, <1>5, <2>1, <3>1
  <2>2. CASE k = n + 2
    BY <1>1, <1>6, <2>2
  <2>3. CASE k \notin {1, n + 2}
    <3> DEFINE j == k - 1
    <3>1. j \in 1..n /\ k = 1 + j /\ k = j + 1 /\ k \in 1..n + 1
      BY <1>1, <2>3
    <3> HIDE DEF j
    <3>2. f[k] = u[j] /\ u[j] = v[k]
      BY <1>3, <1>5, <1>6, <3>1
    <3>3. QED
      BY <3>2
  <2>4. QED
    BY <2>1, <2>2, <2>3
<1>8. v = f
  BY <1>1, <1>3, <1>6, <1>7, SeqEqual DEF Text
<1>9. \A k \in 1..Len(u) : u[k] # "quote"
  BY <1>1, <1>3
<1>10. QED
  BY <1>3, <1>8, <1>9 DEF f, a, q

LEMMA StringLeads ==
    ASSUME NEW a, \A t \in Token \ {"quote"} : Leads(a, <<t>>, a),
           NEW u \in Text, \A k \in 1..Len(u) : u[k] # "quote"
    PROVE  Leads(a, u, a)
<1> DEFINE S == {x \in Text : (\A k \in 1..Len(x) : x[k] # "quote") => Leads(a, x, a)}
<1>1. <<>> \in S
  BY TextAlgebra, LeadsNone
<1>2. ASSUME NEW x \in Text, NEW t \in Token, x \in S PROVE x \o <<t>> \in S
  <2> DEFINE y == x \o <<t>>
  <2>1. /\ y \in Text /\ <<t>> \in Text /\ Len(x) \in Nat /\ Len(y) = Len(x) + 1
        /\ y[Len(x) + 1] = t /\ \A k \in 1..Len(x) : y[k] = x[k]
    BY OneMore, ConcatIs, TextAlgebra
  <2>2. ASSUME \A k \in 1..Len(y) : y[k] # "quote" PROVE Leads(a, y, a)
    <3> HIDE DEF y
    <3>1. t # "quote" /\ \A k \in 1..Len(x) : x[k] # "quote"
      BY <2>1, <2>2
    <3>2. Leads(a, x, a) /\ Leads(a, <<t>>, a)
      BY <1>2, <3>1
    <3>3. QED
      BY <2>1, <3>2, LeadsBoth DEF y
  <2>3. QED
    BY <2>1, <2>2
<1>3. u \in S
  <2> HIDE DEF S
  <2>1. Text \subseteq S
    BY <1>1, <1>2, TextInduction
  <2>2. QED
    BY <2>1
<1>4. QED
  BY <1>3

\* From the parenthesis that opens, in a, to the one that closes, in e.
LEMMA ArgumentsLead ==
    ASSUME NEW a, NEW s, NEW b, NEW e,
           Leads(a, <<")">>, e), \A t \in Value : Leads(a, <<t>>, b),
           Leads(a, <<"quote">>, s), \A t \in Token \ {"quote"} : Leads(s, <<t>>, s),
           Leads(s, <<"quote">>, b), Leads(b, <<")">>, e),
           NEW v \in Params
    PROVE  Leads(a, v \o <<")">>, e)
<1>1. <<")">> \in Text /\ <<"quote">> \in Text
  <2>1. {")", "quote"} \subseteq Token
    BY DEF Token, Sign
  <2>2. QED
    BY <2>1, TextAlgebra
<1>2. v \in Text
  BY OnesAre
<1>3. CASE v = <<>>
  BY <1>1, <1>3, TextAlgebra
<1>4. CASE Leads(a, v, b)
  BY <1>1, <1>2, <1>4, LeadsBoth
<1>5. CASE v \in One(Value)
  <2>1. Leads(a, v, b)
    BY <1>5, OneLeads
  <2>2. QED
    BY <1>4, <2>1
<1>6. CASE Quoted(v)
  <2>1. PICK u \in Text : /\ v = (<<"quote">> \o u) \o <<"quote">>
                          /\ \A k \in 1..Len(u) : u[k] # "quote"
    BY <1>2, <1>6, QuotedIs
  <2>2. Leads(s, u, s)
    BY <2>1, StringLeads
  <2>3. Leads(a, <<"quote">> \o u, s) /\ <<"quote">> \o u \in Text
    BY <1>1, <2>2, LeadsBoth, TextAlgebra
  <2> DEFINE x == <<"quote">> \o u
  <2> HIDE DEF x
  <2>4. Leads(a, x \o <<"quote">>, b)
    BY <1>1, <2>3, LeadsBoth DEF x
  <2>5. QED
    BY <1>4, <2>1, <2>4 DEF x
<1>7. QED
  BY <1>3, <1>5, <1>6 DEF Params

LEMMA CallParts ==
    ASSUME NEW c \in Calls
    PROVE  /\ c.does = "command" => c.method \in One(Name) /\ c.params \in Params
           /\ c.does = "new" =>
                 c.var \in One(Name) /\ c.class \in One(Class) /\ c.params \in Params
           /\ c.does \in {"=>", "||"} =>
                 /\ c.from_node \in One(Name) /\ c.from_port \in Port
                 /\ c.to_node \in One(Name) /\ c.to_port \in Port
           /\ c.does \in {"command", "new", "=>", "||"}
BY DEF Calls

LEMMA CommandSpelled ==
    ASSUME NEW c \in Calls, c.does = "command", NEW w \in Spellings(c)
    PROVE  Leads("main", w, "word") \/ Leads("main", w, "called")
<1> DEFINE v == c.method
           a == c.params
           x == v \o <<"(">>
           y == a \o <<")">>
<1>1. v \in One(Name) /\ a \in Params
  BY CallParts
<1>2. v \in Text /\ a \in Text /\ <<"(">> \in Text /\ <<")">> \in Text
  <2>1. {"(", ")"} \subseteq Token
    BY DEF Token, Sign
  <2>2. QED
    BY <1>1, <2>1, OnesAre, TextAlgebra
<1>3. w = v \/ w = (x \o a) \o <<")">>
  BY SpellingsAre
<1>4. x \in Text /\ y \in Text /\ (x \o a) \o <<")">> = x \o y
  <2> DEFINE p == <<"(">>
             q == <<")">>
  <2>1. p \in Text /\ q \in Text
    BY <1>2
  <2> HIDE DEF p, q
  <2>2. v \o p \in Text /\ a \o q \in Text
    BY <1>2, <2>1, TextAlgebra
  <2>3. ((v \o p) \o a) \o q = (v \o p) \o (a \o q)
    BY <1>2, <2>1, <2>2, TextAlgebra, ZenonT(60)
  <2>4. QED
    BY <2>2, <2>3 DEF p, q
<1>5. Leads("main", v, "word")
  BY <1>1, CommandLeads, OneLeads
<1>6. Leads("word", <<"(">>, "args")
  BY CommandLeads
<1>7. Leads("main", x, "args")
  BY <1>2, <1>5, <1>6, LeadsBoth
<1>8. Leads("args", y, "called")
  BY <1>1, CommandLeads, ArgumentsLead
<1> HIDE DEF x, y
<1>9. Leads("main", x \o y, "called")
  BY <1>4, <1>7, <1>8, LeadsBoth
<1>10. QED
  BY <1>3, <1>4, <1>5, <1>9

LEMMA BlankLeads ==
    ASSUME NEW a, NEW b \in Blank, Leads(a, <<"space">>, a)
    PROVE  Leads(a, b, a)
BY LeadsNone DEF Blank

\* A name, or a name and a blank, and then a sign.
LEMMA NameLeads ==
    ASSUME NEW x \in Text, NEW b1 \in Blank, NEW b2 \in Blank, NEW op \in Token,
           NEW s, NEW t, NEW e,
           Leads("main", x, s), Leads(s, <<"space">>, t),
           Leads(s, <<op>>, e), Leads(t, <<op>>, e), Leads(e, <<"space">>, e)
    PROVE  ((x \o b1) \o <<op>>) \o b2 \in Text /\ Leads("main", ((x \o b1) \o <<op>>) \o b2, e)
<1> DEFINE p == x \o b1
           q == p \o <<op>>
<1>1. b1 \in Text /\ b2 \in Text /\ <<op>> \in Text /\ <<"space">> \in Text
  BY OnesAre, TextAlgebra
<1>2. p \in Text /\ q \in Text /\ q \o b2 \in Text
  BY <1>1, TextAlgebra
<1>3. Leads("main", p, s) \/ Leads("main", p, t)
  <2>1. CASE b1 = <<>>
    BY <2>1, TextAlgebra
  <2>2. CASE b1 = <<"space">>
    BY <1>1, <2>2, LeadsBoth
  <2>3. QED
    BY <2>1, <2>2 DEF Blank
<1> HIDE DEF p
<1>4. Leads("main", q, e)
  BY <1>1, <1>2, <1>3, LeadsBoth
<1>5. Leads(e, b2, e)
  BY BlankLeads
<1> HIDE DEF q
<1>6. Leads("main", q \o b2, e)
  BY <1>1, <1>2, <1>4, <1>5, LeadsBoth
<1>7. QED
  BY <1>2, <1>6 DEF p, q

LEMMA NewSpelled ==
    ASSUME NEW c \in Calls, c.does = "new", NEW w \in Spellings(c)
    PROVE  Leads("main", w, "created")
<1>1. c.var \in One(Name) /\ c.class \in One(Class) /\ c.params \in Params
  BY CallParts
<1>2. PICK y \in NewTexts(c.var) : w = NewWhole(y, c)
  BY SpellingsAre
<1>3. PICK b1 \in Blank, b2 \in Blank : y = NewStart(c.var, b1, b2)
  BY <1>2 DEF NewTexts
<1>4. {"=", "(", ")", "space"} \subseteq Token
  BY DEF Token, Sign
<1>5. c.var \in Text /\ c.class \in Text /\ c.params \in Text
  BY <1>1, OnesAre
<1>6. y \in Text /\ Leads("main", y, "new")
  <2>1. Leads("main", c.var, "word")
    BY <1>1, CommandLeads, OneLeads
  <2>2. /\ Leads("word", <<"space">>, "var") /\ Leads("word", <<"=">>, "new")
        /\ Leads("var", <<"=">>, "new") /\ Leads("new", <<"space">>, "new")
    BY NewLeads
  <2>3. "=" \in Token
    BY <1>4
  <2>4. y = ((c.var \o b1) \o <<"=">>) \o b2
    BY <1>3 DEF NewStart
  <2>5. QED
    BY <1>5, <2>1, <2>2, <2>3, <2>4, NameLeads
<1> DEFINE l == <<"(">>
           r == <<")">>
           p == y \o c.class
           q == p \o l
           a == c.params \o r
<1>7. l \in Text /\ r \in Text
  BY <1>4, TextAlgebra
<1>8. Leads("new", c.class, "class") /\ Leads("class", l, "new_args")
  BY <1>1, NewLeads, OneLeads
<1>9. Leads("new_args", a, "created")
  BY <1>1, NewLeads, ArgumentsLead
<1> HIDE DEF l, r
<1>10. p \in Text /\ q \in Text /\ a \in Text
  BY <1>5, <1>6, <1>7, TextAlgebra
<1>11. Leads("main", p, "class")
  BY <1>5, <1>6, <1>8, LeadsBoth
<1> HIDE DEF p
<1>12. Leads("main", q, "new_args")
  BY <1>7, <1>8, <1>10, <1>11, LeadsBoth
<1>13. Leads("main", q \o a, "created")
  <2> HIDE DEF q, a
  <2>1. QED
    BY <1>9, <1>10, <1>12, LeadsBoth
<1>14. w = q \o a
  <2>1. w = (q \o c.params) \o r
    BY <1>2 DEF NewWhole, p, l, r
  <2>2. (q \o c.params) \o r = q \o a
    <3>1. a = c.params \o r
      OBVIOUS
    <3> HIDE DEF q, a
    <3>2. (q \o c.params) \o r = q \o (c.params \o r)
      BY <1>5, <1>7, <1>10, TextAlgebra, ZenonT(60)
    <3>3. QED
      BY <3>1, <3>2
  <2>3. QED
    BY <2>1, <2>2
<1>15. QED
  BY <1>13, <1>14

LEMMA LinkSpelled ==
    ASSUME NEW c \in Calls, c.does \in {"=>", "||"}, NEW w \in Spellings(c)
    PROVE  Leads("main", w, "port_or_end") \/ Leads("main", w, "end")
<1> DEFINE v == c.from_node
           f == c.from_port
           op == c.does
           n == c.to_node
           u == c.to_port
           d == <<"~">>
<1>1. /\ v \in One(Name) /\ f \in Port /\ n \in One(Name) /\ u \in Port
  BY CallParts
<1>2. v \in Text /\ f \in Text /\ n \in Text /\ u \in Text
  BY <1>1, OnesAre
<1>3. op \in Token /\ d \in Text
  <2>1. {"=>", "||", "~"} \subseteq Token
    BY DEF Token, Sign
  <2>2. QED
    BY <2>1, TextAlgebra
<1>4. PICK y \in LinkTexts(v, f, op) : w = LinkWhole(y, c)
  BY SpellingsAre
<1>5. PICK b1 \in Blank, b2 \in Blank : y = LinkStart(v, f, op, b1, b2)
  BY <1>4 DEF LinkTexts
<1> DEFINE x == FromEnd(v, f)
<1>6. x \in Text /\ y = ((x \o b1) \o <<op>>) \o b2
  BY <1>1, <1>5, PartsAreText DEF LinkStart
<1>7. Leads("main", v, "word")
  BY <1>1, CommandLeads, OneLeads
<1>8. Leads("to", <<"space">>, "to")
  BY LinkLeads
<1>9. y \in Text /\ Leads("main", y, "to")
  <2>1. CASE f = <<>>
    <3>1. x = v
      BY <2>1 DEF FromEnd
    <3>2. /\ Leads("word", <<"space">>, "var") /\ Leads("word", <<op>>, "to")
          /\ Leads("var", <<op>>, "to")
      BY LinkLeads, NewLeads
    <3> HIDE DEF x
    <3>3. QED
      BY <1>3, <1>6, <1>7, <1>8, <3>1, <3>2, NameLeads
  <2>2. CASE f # <<>>
    <3>1. x = (v \o d) \o f /\ f \in One(Name)
      BY <1>1, <2>2 DEF FromEnd, Port
    <3>2. /\ Leads("word", d, "from_port") /\ Leads("from_port", f, "from")
          /\ Leads("from", <<op>>, "to") /\ Leads("from", <<"space">>, "from_end")
          /\ Leads("from_end", <<op>>, "to")
      BY <3>1, LinkLeads, OneLeads
    <3> HIDE DEF d, x
    <3>3. Leads("main", v \o d, "from_port") /\ v \o d \in Text
      BY <1>2, <1>3, <1>7, <3>2, LeadsBoth, TextAlgebra
    <3>4. Leads("main", x, "from")
      BY <1>2, <3>1, <3>2, <3>3, LeadsBoth
    <3>5. QED
      BY <1>3, <1>6, <1>8, <3>2, <3>4, NameLeads
  <2>3. QED
    BY <2>1, <2>2
<1>10. CASE u = <<>>
  <2>1. w = y \o n
    BY <1>4, <1>10 DEF LinkWhole, ToEnd
  <2>2. Leads("to", n, "port_or_end")
    BY <1>1, LinkLeads, OneLeads
  <2>3. QED
    BY <1>2, <1>9, <2>1, <2>2, LeadsBoth
<1>11. CASE u # <<>>
  <2> DEFINE k == (u \o d) \o n
  <2>1. w = y \o k /\ u \in One(Name)
    BY <1>1, <1>4, <1>11 DEF LinkWhole, ToEnd, Port
  <2>2. /\ Leads("to", u, "port_or_end") /\ Leads("port_or_end", d, "to_end")
        /\ Leads("to_end", n, "end")
    BY <1>1, <2>1, LinkLeads, OneLeads
  <2> HIDE DEF d
  <2>3. u \o d \in Text /\ Leads("to", u \o d, "to_end")
    BY <1>2, <1>3, <2>2, LeadsBoth, TextAlgebra
  <2>4. k \in Text /\ Leads("to", k, "end")
    BY <1>2, <2>2, <2>3, LeadsBoth, TextAlgebra
  <2> HIDE DEF k
  <2>5. QED
    BY <1>9, <2>1, <2>4, LeadsBoth
<1>12. QED
  BY <1>10, <1>11

-----------------------------------------------------------------------------
(* The call is made on the token after it.                                 *)

After(t) == IF t = "nl" THEN "main" ELSE IF t = "space" THEN "rest" ELSE "comment"

LEMMA CalledLed ==
    \A m \in Machine : \A n, call, cs :
        Called(m, n, call, cs) => Led(m, n, cs) /\ n.calls # <<>>
<1> SUFFICES ASSUME NEW m \in Machine, NEW n, NEW call, NEW cs, Called(m, n, call, cs)
             PROVE  Led(m, n, cs) /\ n.calls # <<>>
  OBVIOUS
<1>1. n \in Machine /\ n.calls = Append(m.calls, call) /\ n.refused = m.refused
      /\ n.parser.cs = cs
  BY DEF Called, Asked
<1>2. m.calls \in Seq(CallRecord)
  BY DEF Machine
<1>3. n.calls # <<>>
  BY <1>1, <1>2
<1>4. QED
  BY <1>1, <1>3 DEF Led

LEMMA EndsHere ==
    ASSUME NEW m \in Machine, NEW t \in {"nl", "space", "#"}
    PROVE  /\ m.parser.cs \in {"word", "called"} /\ t = "nl" =>
                 \E call : Called(m, Step(m, t), call, After(t))
           /\ m.parser.cs \in {"created", "port_or_end", "end"} =>
                 \E call : Called(m, Step(m, t), call, After(t))
<1>1. {"nl", "space", "#"} \subseteq Token
  BY DEF Token, Sign
<1>2. t \in Token
  BY <1>1
<1>3. ASSUME m.parser.cs = "word", t = "nl"
      PROVE  \E call : Called(m, Step(m, t), call, After(t))
  BY <1>2, <1>3, WordSteps DEF After
<1>4. ASSUME m.parser.cs = "called", t = "nl"
      PROVE  \E call : Called(m, Step(m, t), call, After(t))
  BY <1>2, <1>4, CalledSteps DEF After
<1>5. ASSUME m.parser.cs = "created"
      PROVE  \E call : Called(m, Step(m, t), call, After(t))
  BY <1>2, <1>5, CreatedSteps DEF After
<1>6. ASSUME m.parser.cs = "port_or_end"
      PROVE  \E call : Called(m, Step(m, t), call, After(t))
  BY <1>2, <1>6, PortOrEndSteps DEF After
<1>7. ASSUME m.parser.cs = "end"
      PROVE  \E call : Called(m, Step(m, t), call, After(t))
  BY <1>2, <1>7, EndSteps DEF After
<1>8. QED
  BY <1>3, <1>4, <1>5, <1>6, <1>7

\* Where the machine is when a call is spelled to its end.
LEMMA SpelledLed ==
    ASSUME NEW m \in Machine, m.parser.cs = "main", NEW c \in Calls, NEW w \in Spellings(c)
    PROVE  LET n == Run(m, w)
           IN  /\ n \in Machine /\ n.refused = m.refused
               /\ c.does = "command" => n.parser.cs \in {"word", "called"}
               /\ c.does # "command" => n.parser.cs \in {"created", "port_or_end", "end"}
<1>1. c.does \in {"command", "new", "=>", "||"}
  BY CallParts
<1>2. /\ c.does = "command" => Leads("main", w, "word") \/ Leads("main", w, "called")
      /\ c.does = "new" => Leads("main", w, "created")
      /\ c.does \in {"=>", "||"} =>
            Leads("main", w, "port_or_end") \/ Leads("main", w, "end")
  BY CommandSpelled, NewSpelled, LinkSpelled
<1>3. QED
  BY <1>1, <1>2 DEF Leads, Led

LEMMA CallMade ==
    ASSUME NEW m \in Machine, m.parser.cs = "main", NEW c \in Calls, NEW w \in Spellings(c),
           NEW t \in {"nl", "space", "#"}, c.does = "command" => t = "nl"
    PROVE  LET n == Run(m, w \o <<t>>)
           IN  Led(m, n, After(t)) /\ n.calls # <<>>
<1> DEFINE v == Run(m, w)
           n == Run(m, w \o <<t>>)
<1>1. w \in Text /\ t \in Token
  <2>1. {"nl", "space", "#"} \subseteq Token
    BY DEF Token, Sign
  <2>2. QED
    BY <2>1, SpellingsAreText
<1>2. n = Step(v, t)
  BY <1>1, RunMore
<1>3. /\ v \in Machine /\ v.refused = m.refused
      /\ c.does = "command" => v.parser.cs \in {"word", "called"}
      /\ c.does # "command" => v.parser.cs \in {"created", "port_or_end", "end"}
  BY SpelledLed
<1> HIDE DEF n, v
<1>4. PICK call : Called(v, n, call, After(t))
  BY <1>2, <1>3, EndsHere
<1>5. Led(v, n, After(t)) /\ n.calls # <<>>
  BY <1>3, <1>4, CalledLed
<1>6. QED
  BY <1>3, <1>5 DEF Led, n

LEMMA RunFollows ==
    ASSUME NEW m \in Machine, NEW x \in Text
    PROVE  Follows(m, Run(m, x))
<1> DEFINE S == {z \in Text : Follows(m, Run(m, z))}
<1>1. <<>> \in S
  BY TextAlgebra, RunEmpty DEF Follows
<1>2. ASSUME NEW z \in Text, NEW t \in Token, z \in S PROVE z \o <<t>> \in S
  <2>1. z \o <<t>> \in Text
    BY TextAlgebra
  <2>2. Run(m, z) \in Machine /\ Run(m, z \o <<t>>) = Step(Run(m, z), t)
    BY RunMore
  <2>3. Follows(Run(m, z), Step(Run(m, z), t))
    BY <2>2, StepFollows
  <2>4. QED
    BY <1>2, <2>1, <2>2, <2>3 DEF Follows
<1>3. x \in S
  <2> HIDE DEF S
  <2>1. Text \subseteq S
    BY <1>1, <1>2, TextInduction
  <2>2. QED
    BY <2>1
<1>4. QED
  BY <1>3

-----------------------------------------------------------------------------
(* Comments.                                                               *)

InComment(n) == n \in Machine /\ n.parser.cs = "comment" /\ n.refused = FALSE

LEMMA CommentGoesOn ==
    ASSUME NEW m \in Machine, NEW u \in Text, InComment(Run(m, u)),
           NEW z \in Text, OpenAtEnds(m, u \o z)
    PROVE  InComment(Run(m, u \o z))
<1> DEFINE S == {x \in Text : OpenAtEnds(m, u \o x) => InComment(Run(m, u \o x))}
<1>1. <<>> \in S
  BY TextAlgebra
<1>2. ASSUME NEW x \in Text, NEW t \in Token, x \in S PROVE x \o <<t>> \in S
  <2> DEFINE y == u \o x
             n == Run(m, y)
  <2>1. /\ x \o <<t>> \in Text /\ y \in Text /\ <<t>> \in Text
        /\ u \o (x \o <<t>>) = y \o <<t>>
    BY TextAlgebra
  <2>2. ASSUME OpenAtEnds(m, y \o <<t>>) PROVE InComment(Run(m, y \o <<t>>))
    <3>1. OpenAtEnds(m, y) /\ (t = "nl" => Run(m, y \o <<t>>).parser.cs \in Strings)
      <4> HIDE DEF y
      <4>1. QED
        BY <2>1, <2>2, OpenBefore
    <3>2. InComment(n)
      BY <1>2, <3>1
    <3>3. Run(m, y \o <<t>>) = Step(n, t)
      <4> HIDE DEF y
      <4>1. QED
        BY <2>1, RunMore
    <3> HIDE DEF n, y
    <3>4. t # "nl"
      <4>1. SUFFICES ASSUME t = "nl" PROVE FALSE
        OBVIOUS
      <4>2. Step(n, t) = Go(n, Clear(n.parser), "main") /\ "main" \in State
        BY <3>2, <4>1, CommentSteps DEF InComment, State
      <4>3. Step(n, t).parser.cs = "main"
        BY <3>2, <4>2, ClearedIs DEF InComment, Goes
      <4>4. QED
        BY <3>1, <3>3, <4>1, <4>3 DEF Strings
    <3>5. Step(n, t) = n
      BY <3>2, <3>4, CommentSteps DEF InComment
    <3>6. QED
      BY <3>2, <3>3, <3>5
  <2>3. QED
    BY <2>1, <2>2
<1>3. z \in S
  <2> HIDE DEF S
  <2>1. Text \subseteq S
    BY <1>1, <1>2, TextInduction
  <2>2. QED
    BY <2>1
<1>4. QED
  BY <1>3

\* A comment takes everything up to the end of the line.
LEMMA CommentEnds ==
    ASSUME NEW m \in Machine, NEW x \in Text, OpenAtEnds(m, x),
           NEW u \in Text, Begins(u, x), InComment(Run(m, u))
    PROVE  Run(m, x \o <<"nl">>).refused = FALSE
<1>1. PICK z \in Text : x = u \o z
  BY DEF Begins
<1> DEFINE n == Run(m, x)
<1>2. InComment(n)
  BY <1>1, CommentGoesOn
<1>3. "nl" \in Token /\ "main" \in State
  BY DEF Token, Sign, State
<1>4. Run(m, x \o <<"nl">>) = Step(n, "nl")
  BY <1>3, RunMore
<1> HIDE DEF n
<1>5. Step(n, "nl") = Go(n, Clear(n.parser), "main")
  BY <1>2, <1>3, CommentSteps DEF InComment
<1>6. QED
  BY <1>2, <1>3, <1>4, <1>5, ClearedIs DEF InComment, Goes

-----------------------------------------------------------------------------
(* The calls that a text could be about.                                   *)

LEMMA StringsAre ==
    ASSUME NEW s \in Text
    PROVE  StringsIn(s) \subseteq Params
<1> SUFFICES ASSUME NEW v \in StringsIn(s) PROVE v \in Params
  OBVIOUS
<1> DEFINE quotes == {k \in DOMAIN s : s[k] = "quote"}
<1>1. Len(s) \in Nat /\ DOMAIN s = 1..Len(s) /\ \A k \in 1..Len(s) : s[k] \in Token
  BY ElementsOf DEF Text
<1>2. PICK i \in quotes, j \in quotes :
         i < j /\ quotes \cap ((i + 1)..(j - 1)) = {} /\ v = SubSeq(s, i, j)
  <2>1. PICK q \in quotes \X quotes :
           /\ q[1] < q[2] /\ quotes \cap ((q[1] + 1)..(q[2] - 1)) = {}
           /\ v = SubSeq(s, q[1], q[2])
    BY DEF StringsIn
  <2>2. QED
    BY <2>1
<1>3. /\ i \in 1..Len(s) /\ j \in 1..Len(s) /\ i \in Int /\ j \in Int
      /\ s[i] = "quote" /\ s[j] = "quote"
      /\ \A k \in (i + 1)..(j - 1) : s[k] # "quote"
  <2>1. i \in 1..Len(s) /\ j \in 1..Len(s) /\ s[i] = "quote" /\ s[j] = "quote"
    BY <1>1
  <2>2. ASSUME NEW k \in (i + 1)..(j - 1), s[k] = "quote" PROVE FALSE
    <3>1. k \in 1..Len(s)
      BY <1>1, <2>1
    <3>2. k \in quotes
      BY <1>1, <2>2, <3>1
    <3> HIDE DEF quotes
    <3>3. QED
      BY <1>2, <3>2
  <2>3. QED
    BY <2>1, <2>2
<1> HIDE DEF quotes
<1> DEFINE n == j - i + 1
<1>4. v \in Text /\ Len(v) = n /\ \A k \in 1..n : v[k] = s[i + k - 1]
  <2>1. \A k \in i..j : s[k] \in Token
    BY <1>1, <1>3
  <2>2. /\ SubSeq(s, i, j) \in Seq(Token)
        /\ Len(SubSeq(s, i, j)) = IF i <= j THEN j - i + 1 ELSE 0
        /\ \A k \in 1..j - i + 1 : SubSeq(s, i, j)[k] = s[i + k - 1]
    BY <1>3, <2>1, SubSeqProperties
  <2>3. i <= j
    BY <1>2, <1>3
  <2>4. QED
    BY <1>2, <2>2, <2>3 DEF Text
<1>5. n \in Nat /\ n >= 2 /\ 1 \in 1..n /\ n \in 1..n /\ i + 1 - 1 = i /\ i + n - 1 = j
  BY <1>2, <1>3
<1>6. v[1] = "quote" /\ v[n] = "quote"
  BY <1>3, <1>4, <1>5
<1>7. \A k \in 2..n - 1 : v[k] # "quote"
  <2> SUFFICES ASSUME NEW k \in 2..n - 1 PROVE v[k] # "quote"
    OBVIOUS
  <2>1. k \in 1..n /\ i + k - 1 \in (i + 1)..(j - 1)
    BY <1>3, <1>5
  <2>2. QED
    BY <1>3, <1>4, <2>1
<1> HIDE DEF n
<1>8. Quoted(v)
  BY <1>4, <1>5, <1>6, <1>7 DEF Quoted
<1>9. QED
  BY <1>4, <1>8 DEF Params

LEMMA CallsInAre ==
    ASSUME NEW s \in Text
    PROVE  CallsIn(s) \subseteq Calls
<1>1. {<<>>} \cup One(Value) \cup StringsIn(s) \subseteq Params
  BY StringsAre DEF Params
<1>2. QED
  BY <1>1 DEF CallsIn, Calls, Port

LEMMA QuotedInside ==
    ASSUME NEW a \in Text, NEW v \in Text, NEW b \in Text, Quoted(v)
    PROVE  v \in StringsIn((a \o v) \o b)
<1> DEFINE y == a \o v
           s == y \o b
           i == Len(a) + 1
           j == Len(a) + Len(v)
           quotes == {k \in DOMAIN s : s[k] = "quote"}
<1>1. /\ Len(v) \in Nat /\ Len(v) >= 2 /\ v[1] = "quote" /\ v[Len(v)] = "quote"
      /\ \A k \in 2..Len(v) - 1 : v[k] # "quote"
  BY ElementsOf DEF Quoted, Text
<1>2. /\ y \in Text /\ Len(a) \in Nat /\ Len(y) = j
      /\ \A k \in 1..Len(v) : y[Len(a) + k] = v[k]
  BY ConcatIs, TextAlgebra
<1> HIDE DEF y
<1>3. /\ s \in Text /\ Len(b) \in Nat /\ Len(s) = j + Len(b)
      /\ \A k \in 1..j : s[k] = y[k]
  <2>1. s \in Text
    BY <1>2, TextAlgebra
  <2>2. /\ Len(b) \in Nat /\ Len(s) = Len(y) + Len(b)
        /\ \A k \in 1..Len(y) : s[k] = y[k]
    BY <1>2, ConcatIs
  <2> HIDE DEF s, j
  <2>3. QED
    BY <1>2, <2>1, <2>2
<1>4. DOMAIN s = 1..Len(s)
  BY <1>3, ElementsOf DEF Text
<1> HIDE DEF s
<1>5. \A k \in 1..Len(v) : s[Len(a) + k] = v[k] /\ Len(a) + k \in 1..Len(s)
  <2> SUFFICES ASSUME NEW k \in 1..Len(v)
               PROVE  s[Len(a) + k] = v[k] /\ Len(a) + k \in 1..Len(s)
    OBVIOUS
  <2>1. Len(a) + k \in 1..j /\ Len(a) + k \in 1..Len(s)
    BY <1>1, <1>2, <1>3
  <2>2. QED
    BY <1>2, <1>3, <2>1
<1>6. i \in quotes /\ j \in quotes /\ i < j
  <2>1. 1 \in 1..Len(v) /\ Len(v) \in 1..Len(v)
    BY <1>1
  <2>2. s[i] = "quote" /\ s[j] = "quote" /\ i \in 1..Len(s) /\ j \in 1..Len(s)
    BY <1>1, <1>5, <2>1
  <2>3. i < j
    BY <1>1, <1>2
  <2>4. QED
    BY <1>4, <2>2, <2>3
<1>7. quotes \cap ((i + 1)..(j - 1)) = {}
  <2> SUFFICES ASSUME NEW l \in (i + 1)..(j - 1), s[l] = "quote" PROVE FALSE
    OBVIOUS
  <2> DEFINE k == l - Len(a)
  <2>1. k \in 2..Len(v) - 1 /\ k \in 1..Len(v) /\ l = Len(a) + k
    BY <1>1, <1>2
  <2> HIDE DEF k
  <2>2. s[l] = v[k]
    BY <1>5, <2>1
  <2>3. QED
    BY <1>1, <2>1, <2>2
<1>8. v = SubSeq(s, i, j)
  <2>1. i \in Int /\ j \in Int /\ \A k \in i..j : s[k] \in Token
    <3>1. i \in Int /\ j \in Int /\ \A k \in i..j : k \in 1..Len(s)
      BY <1>1, <1>2, <1>3
    <3>2. \A k \in 1..Len(s) : s[k] \in Token
      BY <1>3, ElementsOf DEF Text
    <3>3. QED
      BY <3>1, <3>2
  <2> DEFINE u == SubSeq(s, i, j)
  <2>2. /\ u \in Seq(Token)
        /\ Len(u) = IF i <= j THEN j - i + 1 ELSE 0
        /\ \A k \in 1..j - i + 1 : u[k] = s[i + k - 1]
    BY <2>1, SubSeqProperties
  <2> HIDE DEF u
  <2>3. i <= j /\ j - i + 1 = Len(v)
    BY <1>1, <1>2
  <2>4. \A k \in 1..Len(v) : i + k - 1 = Len(a) + k
    BY <1>1, <1>2
  <2>5. \A k \in 1..Len(v) : u[k] = v[k]
    BY <1>5, <2>2, <2>3, <2>4
  <2>6. Len(u) = Len(v) /\ u \in Seq(Token) /\ v \in Seq(Token)
    BY <2>2, <2>3 DEF Text
  <2>7. u = v
    BY <2>5, <2>6, SeqEqual
  <2>8. QED
    BY <2>7 DEF u
<1>9. v \in StringsIn(s)
  <2> DEFINE q == <<i, j>>
  <2>1. /\ q \in quotes \X quotes /\ q[1] < q[2]
        /\ quotes \cap ((q[1] + 1)..(q[2] - 1)) = {}
        /\ v = SubSeq(s, q[1], q[2])
    <3> HIDE DEF quotes, i, j
    <3>1. QED
      BY <1>6, <1>7, <1>8
  <2> HIDE DEF q
  <2>2. QED
    BY <2>1 DEF StringsIn
<1>10. QED
  BY <1>9 DEF s, y

\* The string of a call is in every text that begins with the call.
LEMMA ParamsIn ==
    ASSUME NEW a \in Text, NEW v \in Params, NEW r \in Text, NEW y \in Text
    PROVE  v \in {<<>>} \cup One(Value) \cup StringsIn(((a \o v) \o r) \o y)
<1>1. v \in Text /\ a \o v \in Text /\ r \o y \in Text
  BY OnesAre, TextAlgebra
<1>2. CASE Quoted(v)
  <2>1. v \in StringsIn((a \o v) \o (r \o y))
    BY <1>1, <1>2, QuotedInside
  <2> DEFINE p == a \o v
  <2>2. p \in Text
    BY <1>1
  <2> HIDE DEF p
  <2>3. (p \o r) \o y = p \o (r \o y)
    BY <2>2, TextAlgebra
  <2>4. QED
    BY <2>1, <2>3 DEF p
<1>3. QED
  BY <1>2 DEF Params

LEMMA SpelledIn ==
    ASSUME NEW c \in Calls, NEW w \in Spellings(c), NEW y \in Text
    PROVE  c \in CallsIn(w \o y)
<1> DEFINE s == w \o y
           params == {<<>>} \cup One(Value) \cup StringsIn(s)
<1>1. c.does \in {"command", "new", "=>", "||"}
  BY CallParts
<1>2. <<"(">> \in Text /\ <<")">> \in Text
  <2>1. {"(", ")"} \subseteq Token
    BY DEF Token, Sign
  <2>2. QED
    BY <2>1, TextAlgebra
<1>3. ASSUME c.does \in {"command", "new"} PROVE c.params \in params
  <2>1. c.params \in Params
    BY <1>3, CallParts
  <2>2. CASE c.params = <<>>
    BY <2>2
  <2>3. CASE \E a \in Text : w = (a \o c.params) \o <<")">>
    BY <1>2, <2>1, <2>3, ParamsIn
  <2>4. CASE c.does = "command" /\ c.params # <<>>
    <3>1. w = ((c.method \o <<"(">>) \o c.params) \o <<")">>
      BY <2>4, SpellingsAre
    <3>2. c.method \in Text
      BY <2>4, CallParts, OnesAre
    <3>3. c.method \o <<"(">> \in Text
      BY <1>2, <3>2, TextAlgebra
    <3>4. QED
      BY <2>3, <3>1, <3>3
  <2>5. CASE c.does = "new"
    <3>1. PICK u \in NewTexts(c.var) : w = NewWhole(u, c)
      BY <2>5, SpellingsAre
    <3>2. u \in Text /\ c.class \in Text
      BY <2>5, CallParts, OnesAre, PartsAreText
    <3>3. (u \o c.class) \o <<"(">> \in Text
      BY <1>2, <3>2, TextAlgebra
    <3>4. w = (((u \o c.class) \o <<"(">>) \o c.params) \o <<")">>
      BY <3>1 DEF NewWhole
    <3>5. QED
      BY <2>3, <3>3, <3>4
  <2>6. QED
    BY <1>3, <2>2, <2>4, <2>5
<1> HIDE DEF s
<1>4. c \in CallsIn(s)
  <2>1. CASE c.does = "command"
    <3>1. c \in [does : {"command"}, method : One(Name), params : Params]
      BY <2>1 DEF Calls
    <3>2. c.params \in params
      BY <1>3, <2>1
    <3> HIDE DEF params
    <3>3. c \in [does : {"command"}, method : One(Name), params : params]
      BY <3>1, <3>2
    <3>4. QED
      BY <3>3 DEF CallsIn, params
  <2>2. CASE c.does = "new"
    <3>1. c \in [does : {"new"}, var : One(Name), class : One(Class), params : Params]
      BY <2>2 DEF Calls
    <3>2. c.params \in params
      BY <1>3, <2>2
    <3> HIDE DEF params
    <3>3. c \in [does : {"new"}, var : One(Name), class : One(Class), params : params]
      BY <3>1, <3>2
    <3>4. QED
      BY <3>3 DEF CallsIn, params
  <2>3. CASE c.does \in {"=>", "||"}
    <3>1. c \in [does : {"=>", "||"}, from_node : One(Name), from_port : Port,
                 to_node : One(Name), to_port : Port]
      BY <2>3 DEF Calls
    <3>2. QED
      BY <3>1 DEF CallsIn, Port
  <2>4. QED
    BY <1>1, <2>1, <2>2, <2>3
<1>5. QED
  BY <1>4 DEF s

-----------------------------------------------------------------------------
(* A whole command: both directions.                                       *)

\* m read x and then the line feed that ends the command.
Whole(m, x) ==
    /\ Fresh(m) /\ x \in Text /\ RunsOfBlanks(x \o <<"nl">>) /\ OpenAtEnds(m, x)
    /\ Run(m, x \o <<"nl">>).parser.cs \notin Strings

LEMMA WholeIs ==
    ASSUME NEW m, NEW x, Whole(m, x)
    PROVE  LET s == x \o <<"nl">>
           IN  /\ Over(Run(m, s), s)
               /\ m \in Machine /\ m.parser.cs = "main" /\ m.refused = FALSE
               /\ s \in Text /\ Len(x) \in Nat /\ Len(s) = Len(x) + 1 /\ s[Len(s)] = "nl"
               /\ Begins(x, s)
<1>1. "nl" \in Token
  BY DEF Token, Sign
<1>2. Over(Run(m, x \o <<"nl">>), x \o <<"nl">>)
  BY TextRead DEF Whole, Read
<1>3. m \in Machine /\ m.parser.cs = "main" /\ m.refused = FALSE /\ x \in Text
  BY DEF Whole, Fresh
<1>4. Begins(x, x \o <<"nl">>)
  BY <1>1, TextAlgebra DEF Begins
<1> DEFINE s == x \o <<"nl">>
<1>5. s \in Text /\ Len(x) \in Nat /\ Len(s) = Len(x) + 1 /\ s[Len(x) + 1] = "nl"
  BY <1>1, <1>3, OneMore, ConcatIs
<1>6. QED
  BY <1>2, <1>3, <1>4, <1>5

LEMMA HeadIs ==
    ASSUME NEW y \in Text, Len(y) >= 1
    PROVE  y[1] \in Token /\ \E z \in Text : y = <<y[1]>> \o z
<1> DEFINE h == <<y[1]>>
           z == SubSeq(y, 2, Len(y))
           f == h \o z
<1>1. Len(y) \in Nat /\ \A k \in 1..Len(y) : y[k] \in Token
  BY ElementsOf DEF Text
<1>2. y[1] \in Token
  BY <1>1
<1>3. h \in Text /\ Len(h) = 1 /\ h[1] = y[1]
  BY <1>2, TextAlgebra
<1> HIDE DEF h
<1>4. /\ z \in Text /\ Len(z) = Len(y) - 1
      /\ \A k \in 1..Len(y) - 1 : z[k] = y[1 + k]
  <2>1. 2 \in Int /\ Len(y) \in Int /\ \A k \in 2..Len(y) : y[k] \in Token
    BY <1>1
  <2>2. /\ z \in Seq(Token)
        /\ Len(z) = IF 2 <= Len(y) THEN Len(y) - 2 + 1 ELSE 0
        /\ \A k \in 1..Len(y) - 2 + 1 : z[k] = y[2 + k - 1]
    BY <2>1, SubSeqProperties
  <2> HIDE DEF z
  <2>3. \A l \in Nat : l >= 1 => /\ l - 2 + 1 = l - 1 /\ (2 <= l \/ l - 1 = 0)
                                /\ \A k \in 1..l - 1 : 2 + k - 1 = 1 + k
    OBVIOUS
  <2>4. Len(y) - 2 + 1 = Len(y) - 1 /\ Len(z) = Len(y) - 1
    BY <1>1, <2>2, <2>3
  <2>5. \A k \in 1..Len(y) - 1 : z[k] = y[1 + k]
    BY <1>1, <2>2, <2>3, <2>4
  <2>6. QED
    BY <2>2, <2>4, <2>5 DEF Text
<1> HIDE DEF z
<1>5. /\ f \in Text /\ Len(f) = Len(y)
      /\ f[1] = y[1] /\ \A k \in 1..Len(y) - 1 : f[1 + k] = y[1 + k]
  <2>1. f \in Text
    BY <1>3, <1>4, TextAlgebra
  <2>2. /\ Len(f) = Len(h) + Len(z)
        /\ \A k \in 1..Len(h) : f[k] = h[k]
        /\ \A k \in 1..Len(z) : f[Len(h) + k] = z[k]
    BY <1>3, <1>4, ConcatIs
  <2>3. 1 \in 1..Len(h)
    BY <1>3
  <2> HIDE DEF f
  <2>4. Len(f) = Len(y)
    BY <1>1, <1>3, <1>4, <2>2
  <2>5. f[1] = y[1]
    BY <1>3, <2>2, <2>3
  <2>6. \A k \in 1..Len(y) - 1 : f[1 + k] = y[1 + k]
    BY <1>3, <1>4, <2>2
  <2>7. QED
    BY <2>1, <2>4, <2>5, <2>6
<1> HIDE DEF f
<1>6. \A k \in 1..Len(y) : y[k] = f[k]
  <2> SUFFICES ASSUME NEW k \in 1..Len(y) PROVE y[k] = f[k]
    OBVIOUS
  <2>1. CASE k = 1
    BY <1>5, <2>1
  <2>2. CASE k # 1
    <3> DEFINE j == k - 1
    <3>1. j \in 1..Len(y) - 1 /\ k = 1 + j
      BY <1>1, <2>2
    <3> HIDE DEF j
    <3>2. QED
      BY <1>5, <3>1
  <2>3. QED
    BY <2>1, <2>2
<1>7. y = f
  BY <1>5, <1>6, SeqEqual DEF Text
<1>8. QED
  BY <1>2, <1>4, <1>7 DEF f, h

Says(x, s) == s = x \o <<"nl">>
Rest(w, s) == SubSeq(s, Len(w) + 1, Len(s))

\* What follows a call that is spelled at the start of a command.
LEMMA SpelledRest ==
    ASSUME NEW m, NEW x, Whole(m, x), NEW s, Says(x, s),
           NEW c \in Calls, NEW w \in Spellings(c), IsPrefix(w, s)
    PROVE  LET y == Rest(w, s)
           IN  /\ w \in Text /\ y \in Text /\ s = w \o y /\ Len(y) >= 1
               /\ Len(w) \in Nat /\ Len(y) \in Nat /\ Len(s) = Len(w) + Len(y)
               /\ \A k \in 1..Len(y) : y[k] = s[Len(w) + k]
<1> DEFINE y == Rest(w, s)
<1>1. w \in Text
  BY SpellingsAreText
<1>2. s \in Text /\ Over(Run(m, s), s) /\ m \in Machine /\ m.parser.cs = "main"
  BY WholeIs DEF Says
<1>3. y \in Text /\ s = w \o y /\ Len(s) = Len(w) + Len(y)
  BY <1>1, <1>2, PrefixIs DEF Rest
<1> HIDE DEF y
<1>4. /\ Len(w) \in Nat /\ Len(y) \in Nat
      /\ \A k \in 1..Len(y) : y[k] = s[Len(w) + k]
  <2>1. /\ Len(w) \in Nat /\ Len(y) \in Nat
        /\ \A k \in 1..Len(y) : (w \o y)[Len(w) + k] = y[k]
    BY <1>1, <1>3, ConcatIs
  <2>2. QED
    BY <1>3, <2>1
<1>5. Len(y) # 0
  <2> SUFFICES ASSUME Len(y) = 0 PROVE FALSE
    OBVIOUS
  <2>1. y = <<>>
    BY <1>3 DEF Text
  <2>2. s = w
    BY <1>1, <1>3, <2>1, TextAlgebra
  <2> DEFINE cs == Run(m, w).parser.cs
  <2>3. cs \in {"word", "called", "created", "port_or_end", "end"}
    BY <1>2, SpelledLed
  <2>4. cs = "main"
    BY <1>2, <2>2 DEF Over
  <2> HIDE DEF cs
  <2>5. QED
    BY <2>3, <2>4
<1>6. QED
  BY <1>1, <1>3, <1>4, <1>5 DEF y

\* The call that is written is made.
LEMMA AskedIsCalled ==
    ASSUME NEW m, NEW x, Whole(m, x), NEW c \in Calls, Asks(x \o <<"nl">>, c)
    PROVE  Run(m, x \o <<"nl">>).calls # <<>>
<1> DEFINE s == x \o <<"nl">>
<1>1. PICK w \in Spellings(c) :
         /\ IsPrefix(w, s)
         /\ s[Len(w) + 1] \in IF c.does = "command" THEN {"nl"} ELSE {"nl", "space", "#"}
  BY DEF Asks
<1>2. s \in Text /\ m \in Machine /\ m.parser.cs = "main"
  BY WholeIs
<1> DEFINE y == Rest(w, s)
<1>3. Says(x, s)
  BY DEF Says
<1> HIDE DEF s
<1>4. /\ w \in Text /\ y \in Text /\ s = w \o y /\ Len(y) >= 1 /\ Len(y) \in Nat
      /\ \A k \in 1..Len(y) : y[k] = s[Len(w) + k]
  BY <1>1, <1>3, SpelledRest
<1> HIDE DEF y
<1> DEFINE t == y[1]
<1>5. t = s[Len(w) + 1]
  BY <1>4
<1>6. PICK z \in Text : y = <<t>> \o z
  BY <1>4, HeadIs
<1>7. t \in {"nl", "space", "#"} /\ (c.does = "command" => t = "nl") /\ t \in Token
  <2>1. t \in Token
    BY <1>4, HeadIs
  <2>2. QED
    BY <1>1, <1>5, <2>1
<1> HIDE DEF t
<1> DEFINE v == w \o <<t>>
           n == Run(m, v)
<1>8. Led(m, n, After(t)) /\ n.calls # <<>>
  BY <1>2, <1>7, CallMade
<1>9. v \in Text /\ s = v \o z
  <2>1. <<t>> \in Text
    BY <1>7, TextAlgebra
  <2> DEFINE h == <<t>>
  <2>2. h \in Text /\ y = h \o z
    BY <1>6, <2>1
  <2> HIDE DEF h
  <2>3. (w \o h) \o z = w \o (h \o z) /\ w \o h \in Text
    BY <1>4, <2>2, TextAlgebra
  <2>4. s = (w \o h) \o z
    BY <1>4, <2>2, <2>3
  <2>5. QED
    BY <2>3, <2>4 DEF h
<1> HIDE DEF v
<1>10. Run(m, s) = Run(n, z)
  BY <1>2, <1>9, RunBoth
<1> HIDE DEF n
<1>11. Follows(n, Run(n, z))
  BY <1>8, RunFollows DEF Led
<1>12. QED
  BY <1>8, <1>10, <1>11 DEF Follows, s

\* A call that was made is written.
LEMMA CalledIsAsked ==
    ASSUME NEW n, NEW s, NEW R \in {{<<"nl">>}, Remarks, Tails}, Followed(n, s, R)
    PROVE  \E c \in CallsIn(s) : n.calls = <<c>> /\ Asks(s, c)
<1>1. PICK c \in Calls : \E w \in Spellings(c) : \E r \in R :
         /\ n.calls = <<c>> /\ s = w \o r
         /\ c.does = "command" => r = <<"nl">>
  BY DEF Followed
<1>2. PICK w \in Spellings(c) : \E r \in R :
         /\ n.calls = <<c>> /\ s = w \o r
         /\ c.does = "command" => r = <<"nl">>
  BY <1>1
<1>3. PICK r \in R : /\ n.calls = <<c>> /\ s = w \o r
                     /\ c.does = "command" => r = <<"nl">>
  BY <1>2
<1>4. r \in Text /\ Len(r) >= 1 /\ r[1] \in {"nl", "space", "#"}
  <2>1. <<"nl">> \in Text
    <3>1. "nl" \in Token
      BY DEF Token, Sign
    <3>2. QED
      BY <3>1, TextAlgebra
  <2>2. CASE r = <<"nl">>
    BY <2>1, <2>2
  <2>3. CASE r \in Tails
    BY <2>3 DEF Tails
  <2>4. QED
    BY <2>2, <2>3 DEF Remarks
<1>5. w \in Text
  BY SpellingsAreText
<1>6. c \in CallsIn(s)
  BY <1>3, <1>4, SpelledIn
<1>7. Asks(s, c)
  <2>1. /\ IsPrefix(w, w \o r) /\ Len(w) \in Nat /\ Len(r) \in Nat
        /\ Len(w \o r) = Len(w) + Len(r)
        /\ \A k \in 1..Len(r) : (w \o r)[Len(w) + k] = r[k]
    BY <1>4, <1>5, ConcatIs
  <2>2. IsPrefix(w, s) /\ Len(s) = Len(w) + Len(r) /\ s[Len(w) + 1] = r[1]
    BY <1>3, <1>4, <2>1
  <2>3. c.does = "command" => r[1] = "nl" /\ Len(r) = 1
    BY <1>3
  <2>4. /\ s[Len(w) + 1] \in IF c.does = "command" THEN {"nl"} ELSE {"nl", "space", "#"}
        /\ c.does = "command" => Len(s) = Len(w) + 1
    BY <1>4, <2>2, <2>3
  <2>5. QED
    BY <2>2, <2>4 DEF Asks
<1>8. QED
  BY <1>3, <1>6, <1>7

\* A comment that begins before the end of the line is read to that end.
LEMMA CommentIsRead ==
    ASSUME NEW m, NEW x, Whole(m, x), NEW s, Says(x, s),
           NEW u \in Text, Begins(u, s), Len(u) <= Len(x), InComment(Run(m, u))
    PROVE  Run(m, s).refused = FALSE
<1>1. m \in Machine /\ x \in Text /\ OpenAtEnds(m, x) /\ Begins(x, s)
  BY WholeIs DEF Whole, Says
<1>2. Begins(u, x)
  BY <1>1, Split
<1>3. QED
  BY <1>1, <1>2, CommentEnds DEF Says

LEMMA SilentIsRead ==
    ASSUME NEW m, NEW x, Whole(m, x), NEW s, Says(x, s), IsSilent(s)
    PROVE  Run(m, s).refused = FALSE
<1>1. /\ m \in Machine /\ m.parser.cs = "main" /\ m.refused = FALSE
      /\ s \in Text /\ Len(x) \in Nat /\ Len(s) = Len(x) + 1 /\ s[Len(s)] = "nl"
  BY WholeIs DEF Says
<1>2. {"nl", "space", "#"} \subseteq Token /\ {"main", "blank", "comment"} \subseteq State
  BY DEF Token, Sign, State
<1>3. CASE s = <<"nl">>
  <2>1. Run(m, s) = Go(m, Clear(m.parser), "main")
    BY <1>1, <1>2, <1>3, RunOne, MainSteps
  <2>2. QED
    BY <1>1, <1>2, <2>1, ClearedIs DEF Goes
<1>4. CASE s = <<"space", "nl">>
  <2> DEFINE n == Step(m, "space")
  <2>1. n = Go(m, m.parser, "blank")
    BY <1>1, <1>2, MainSteps
  <2>2. n \in Machine /\ n.parser.cs = "blank" /\ n.refused = FALSE
    BY <1>1, <1>2, <2>1, StayIs DEF Goes
  <2>3. Run(m, s) = Step(n, "nl")
    <3>1. s = <<"space">> \o <<"nl">> /\ <<"space">> \in Text
      BY <1>2, <1>4, TwoTokens, TextAlgebra
    <3>2. Run(m, <<"space">>) = n
      BY <1>1, <1>2, RunOne
    <3>3. Run(m, <<"space">> \o <<"nl">>) = Step(Run(m, <<"space">>), "nl")
      BY <1>1, <1>2, <3>1, RunMore
    <3>4. QED
      BY <3>1, <3>2, <3>3
  <2> HIDE DEF n
  <2>4. Step(n, "nl") = Go(n, Clear(n.parser), "main")
    BY <1>2, <2>2, BlankSteps
  <2>5. QED
    BY <1>2, <2>2, <2>3, <2>4, ClearedIs DEF Goes
<1>5. CASE s[1] = "#"
  <2> DEFINE u == <<"#">>
  <2>1. Len(x) >= 1 /\ Len(s) >= 1
    <3>1. Len(x) # 0
      <4> SUFFICES ASSUME Len(x) = 0 PROVE FALSE
        OBVIOUS
      <4>1. Len(s) = 1
        BY <1>1
      <4>2. QED
        BY <1>1, <1>5, <4>1
    <3>2. QED
      BY <1>1, <3>1
  <2>2. u \in Text /\ Len(u) = 1
    BY <1>2, TextAlgebra
  <2>3. Begins(u, s)
    <3>1. \E z \in Text : s = <<s[1]>> \o z
      BY <1>1, <2>1, HeadIs
    <3>2. QED
      BY <1>5, <3>1 DEF Begins
  <2>4. InComment(Run(m, u))
    <3>1. Run(m, u) = Go(m, m.parser, "comment")
      BY <1>1, <1>2, RunOne, MainSteps
    <3>2. QED
      BY <1>1, <1>2, <3>1, StayIs DEF Goes, InComment
  <2> HIDE DEF u
  <2>5. QED
    BY <2>1, <2>2, <2>3, <2>4, CommentIsRead
<1>6. QED
  BY <1>3, <1>4, <1>5 DEF IsSilent

Joined(w, y, s) == s = w \o y
Shared(w, t, y, s) ==
    \E z \in Text : Joined(<<t>>, z, y) /\ Joined(w \o <<t>>, z, s)

\* w, then the token t, then something more.
LEMMA TokenAfter ==
    ASSUME NEW w \in Text, NEW y \in Text, NEW s, Joined(w, y, s), Len(y) >= 1,
           NEW t \in Token, y[1] = t
    PROVE  /\ w \o <<t>> \in Text /\ Len(w \o <<t>>) = Len(w) + 1
           /\ Begins(w \o <<t>>, s)
           /\ Shared(w, t, y, s)
<1> DEFINE h == <<t>>
<1>1. h \in Text
  BY TextAlgebra
<1>2. PICK z \in Text : y = h \o z
  BY HeadIs
<1>3. w \o h \in Text /\ Len(w \o h) = Len(w) + 1
  BY OneMore
<1> HIDE DEF h
<1>4. s = (w \o h) \o z
  <2>1. (w \o h) \o z = w \o (h \o z)
    BY <1>1, <1>2, TextAlgebra, ZenonT(60)
  <2>2. QED
    BY <1>2, <2>1 DEF Joined
<1>5. Begins(w \o h, s)
  BY <1>4 DEF Begins
<1>6. Joined(h, z, y) /\ Joined(w \o h, z, s)
  BY <1>2, <1>4 DEF Joined
<1>7. QED
  BY <1>3, <1>5, <1>6 DEF h, Shared

LEMMA CallIsRead ==
    ASSUME NEW m, NEW x, Whole(m, x), NEW s, Says(x, s),
           NEW c \in Calls, NEW w \in Spellings(c), IsPrefix(w, s),
           LET rest == Rest(w, s)
           IN  \/ rest = <<"nl">>
               \/ /\ c.does # "command"
                  /\ rest[1] = "#" \/ (rest[1] = "space" /\ rest[2] = "#")
    PROVE  Run(m, s).refused = FALSE
<1> DEFINE y == Rest(w, s)
<1>1. /\ m \in Machine /\ m.parser.cs = "main" /\ m.refused = FALSE
      /\ s \in Text /\ Len(x) \in Nat /\ Len(s) = Len(x) + 1 /\ s[Len(s)] = "nl"
  BY WholeIs DEF Says
<1>2. {"nl", "space", "#"} \subseteq Token /\ "comment" \in State
  BY DEF Token, Sign, State
<1>3. /\ w \in Text /\ y \in Text /\ s = w \o y /\ Len(y) >= 1
      /\ Len(w) \in Nat /\ Len(y) \in Nat /\ Len(s) = Len(w) + Len(y)
      /\ \A k \in 1..Len(y) : y[k] = s[Len(w) + k]
  BY SpelledRest
<1>4. \/ y = <<"nl">>
      \/ c.does # "command" /\ y[1] = "#"
      \/ c.does # "command" /\ y[1] = "space" /\ y[2] = "#"
  OBVIOUS
<1> HIDE DEF y
<1>5. y[Len(y)] = "nl" /\ Joined(w, y, s)
  BY <1>1, <1>3 DEF Joined
<1> DEFINE Lengths == /\ Len(w) \in Nat /\ Len(x) \in Nat /\ Len(y) \in Nat
                      /\ Len(w) + Len(y) = Len(x) + 1 /\ Len(y) >= 1
<1>6. Lengths
  BY <1>1, <1>3
<1>7. CASE y = <<"nl">>
  <2>1. Led(m, Run(m, w \o <<"nl">>), After("nl"))
    BY <1>1, CallMade
  <2>2. s = w \o <<"nl">>
    BY <1>3, <1>7
  <2>3. QED
    BY <1>1, <2>1, <2>2 DEF Led
<1>8. CASE c.does # "command" /\ y[1] = "#"
  <2> DEFINE u == w \o <<"#">>
  <2>1. u \in Text /\ Len(u) = Len(w) + 1 /\ Begins(u, s)
    BY <1>2, <1>3, <1>5, <1>8, TokenAfter
  <2>2. Led(m, Run(m, u), After("#"))
    BY <1>1, <1>8, CallMade
  <2> HIDE DEF u
  <2>3. InComment(Run(m, u))
    BY <1>1, <2>2 DEF Led, After, InComment
  <2>4. Len(y) # 1
    BY <1>5, <1>8
  <2>5. Len(u) <= Len(x)
    <3>1. \A i, j, k \in Nat : i + j = k + 1 /\ j >= 1 /\ j # 1 => i + 1 <= k
      OBVIOUS
    <3>2. Len(w) + 1 <= Len(x)
      BY <1>6, <2>4, <3>1
    <3>3. QED
      BY <2>1, <3>2
  <2>6. QED
    BY <2>1, <2>3, <2>5, CommentIsRead
<1>9. CASE c.does # "command" /\ y[1] = "space" /\ y[2] = "#"
  <2> DEFINE u == w \o <<"space">>
             n == Run(m, u)
             v == u \o <<"#">>
  <2>1. PICK z \in Text : Joined(<<"space">>, z, y) /\ Joined(u, z, s)
    <3>1. Shared(w, "space", y, s)
      BY <1>2, <1>3, <1>5, <1>9, TokenAfter
    <3>2. QED
      BY <3>1 DEF Shared
  <2>2. u \in Text /\ Len(u) = Len(w) + 1
    BY <1>2, <1>3, <1>5, <1>9, TokenAfter
  <2>3. Led(m, n, After("space"))
    BY <1>1, <1>9, CallMade
  <2> HIDE DEF u
  <2>4. Run(m, v) = Step(n, "#")
    BY <1>1, <1>2, <2>2, RunMore
  <2> HIDE DEF n
  <2>5. n \in Machine /\ n.parser.cs = "rest" /\ n.refused = FALSE
    BY <1>1, <2>3 DEF Led, After
  <2>6. InComment(Run(m, v))
    <3>1. Step(n, "#") = Go(n, n.parser, "comment")
      BY <1>2, <2>5, RestSteps
    <3>2. QED
      BY <1>2, <2>4, <2>5, <3>1, StayIs DEF Goes, InComment
  <2>7. Len(y) >= 3
    BY <1>3, <1>5, <1>9
  <2>8. Len(z) >= 1 /\ z[1] = "#"
    <3> DEFINE h == <<"space">>
    <3>1. h \in Text /\ Len(h) = 1
      BY <1>2, TextAlgebra
    <3>2. y = h \o z
      BY <2>1 DEF Joined
    <3> HIDE DEF h
    <3>3. /\ Len(z) \in Nat /\ Len(y) = Len(h) + Len(z)
          /\ \A k \in 1..Len(z) : y[Len(h) + k] = z[k]
      BY <3>1, <3>2, ConcatIs
    <3>4. Len(z) >= 1 /\ 1 \in 1..Len(z)
      BY <2>7, <3>1, <3>3
    <3>5. y[1 + 1] = z[1]
      BY <3>1, <3>3, <3>4
    <3>6. QED
      BY <1>9, <3>4, <3>5
  <2>9. v \in Text /\ Len(v) = Len(u) + 1 /\ Begins(v, s)
    BY <1>2, <2>1, <2>2, <2>8, TokenAfter
  <2> HIDE DEF v
  <2>10. Len(v) <= Len(x)
    BY <1>6, <2>2, <2>7, <2>9
  <2>11. QED
    BY <2>6, <2>9, <2>10, CommentIsRead
<1>10. QED
  BY <1>4, <1>7, <1>8, <1>9

\* What is in the language is read without an error.
LEMMA SentenceIsRead ==
    ASSUME NEW m, NEW x, Whole(m, x), NEW s, Says(x, s), IsSentence(s)
    PROVE  Run(m, s).refused = FALSE
<1>1. CASE IsSilent(s)
  BY <1>1, SilentIsRead
<1>2. CASE ~IsSilent(s)
  <2>1. PICK c \in CallsIn(s) : \E w \in Spellings(c) :
           /\ IsPrefix(w, s)
           /\ LET rest == Rest(w, s)
              IN  \/ rest = <<"nl">>
                  \/ /\ c.does # "command"
                     /\ rest[1] = "#" \/ (rest[1] = "space" /\ rest[2] = "#")
    BY <1>2 DEF IsSentence, Rest
  <2>2. c \in Calls
    BY <2>1, WholeIs, CallsInAre DEF Says
  <2>3. QED
    BY <2>1, <2>2, CallIsRead
<1>3. QED
  BY <1>1, <1>2

\* What was called, and nothing or a comment after it, is in the language.
LEMMA FollowedIsSentence ==
    ASSUME NEW n, NEW s, NEW R \in {{<<"nl">>}, Remarks}, Followed(n, s, R)
    PROVE  IsSentence(s)
<1>1. PICK c \in Calls : \E w \in Spellings(c) : \E r \in R :
         /\ n.calls = <<c>> /\ s = w \o r
         /\ c.does = "command" => r = <<"nl">>
  BY DEF Followed
<1>2. PICK w \in Spellings(c) : \E r \in R :
         /\ n.calls = <<c>> /\ s = w \o r
         /\ c.does = "command" => r = <<"nl">>
  BY <1>1
<1>3. PICK r \in R : /\ s = w \o r
                     /\ c.does = "command" => r = <<"nl">>
  BY <1>2
<1>4. r \in Text
  <2>1. <<"nl">> \in Text
    <3>1. "nl" \in Token
      BY DEF Token, Sign
    <3>2. QED
      BY <3>1, TextAlgebra
  <2>2. QED
    BY <2>1 DEF Remarks, Tails
<1>5. w \in Text
  BY SpellingsAreText
<1>6. c \in CallsIn(s)
  BY <1>3, <1>4, SpelledIn
<1>7. IsPrefix(w, s) /\ SubSeq(s, Len(w) + 1, Len(s)) = r
  BY <1>3, <1>4, <1>5, ConcatIs
<1>8. \/ r = <<"nl">>
      \/ c.does # "command" /\ (r[1] = "#" \/ (r[1] = "space" /\ r[2] = "#"))
  <2>1. CASE R = Remarks
    <3>1. r[1] = "#" \/ (r[1] = "space" /\ r[2] = "#")
      BY <2>1 DEF Remarks
    <3>2. QED
      BY <1>3, <3>1
  <2>2. QED
    BY <2>1
<1>9. \E d \in CallsIn(s) : \E v \in Spellings(d) :
         /\ IsPrefix(v, s)
         /\ LET rest == SubSeq(s, Len(v) + 1, Len(s))
            IN  \/ rest = <<"nl">>
                \/ d.does # "command" /\ (rest[1] = "#" \/ (rest[1] = "space" /\ rest[2] = "#"))
  BY <1>6, <1>7, <1>8
<1>10. QED
  BY <1>9 DEF IsSentence

\* A whole command: the calls, the error and the state that it leaves.
LEMMA WholeIsAsWritten ==
    ASSUME NEW m, NEW x, Whole(m, x), NEW s, Says(x, s), NEW n, n = Run(m, s)
    PROVE  /\ \/ n.calls = <<>> /\ \A c \in CallsIn(s) : ~Asks(s, c)
              \/ \E c \in CallsIn(s) : n.calls = <<c>> /\ Asks(s, c)
           /\ n.refused \in BOOLEAN /\ (n.refused <=> ~IsSentence(s))
           /\ n.parser.cs = "main"
<1>1. Over(n, s) /\ s \in Text
  BY WholeIs DEF Says
<1>2. ASSUME n.calls = <<>>, NEW c \in CallsIn(s), Asks(s, c)
      PROVE  FALSE
  <2>1. c \in Calls
    BY <1>1, CallsInAre
  <2>2. QED
    BY <1>2, <2>1, AskedIsCalled DEF Says
<1>3. ASSUME n.calls # <<>>
      PROVE  \E c \in CallsIn(s) : n.calls = <<c>> /\ Asks(s, c)
  <2>1. \E R \in {{<<"nl">>}, Remarks, Tails} : Followed(n, s, R)
    BY <1>1, <1>3 DEF Over
  <2>2. QED
    BY <2>1, CalledIsAsked
<1>4. n.refused \in BOOLEAN /\ n.parser.cs = "main"
  BY <1>1 DEF Over, Machine
<1>5. IsSentence(s) => n.refused = FALSE
  BY SentenceIsRead
<1>6. n.refused = FALSE => IsSentence(s)
  <2> SUFFICES ASSUME n.refused = FALSE PROVE IsSentence(s)
    OBVIOUS
  <2>1. \/ IsSilent(s) \/ Followed(n, s, {<<"nl">>}) \/ Followed(n, s, Remarks)
    BY <1>1 DEF Over
  <2>2. QED
    BY <2>1, FollowedIsSentence DEF IsSentence
<1>7. QED
  BY <1>2, <1>3, <1>4, <1>5, <1>6

LEMMA InvSays == CommandInv => CallsAsWritten /\ ErrorsPrinted
<1> SUFFICES ASSUME CommandInv, ~InString, said # <<>>
             PROVE  /\ \/ calls = <<>> /\ \A c \in CallsIn(said) : ~Asks(said, c)
                       \/ \E c \in CallsIn(said) : calls = <<c>> /\ Asks(said, c)
                    /\ (refused <=> ~IsSentence(said)) /\ parser.cs = "main"
  BY DEF CallsAsWritten, ErrorsPrinted
<1>1. PICK first \in Machine, x \in Text :
         /\ Fresh(first) /\ said = x \o <<"nl">> /\ RunsOfBlanks(said)
         /\ OpenAtEnds(first, x) /\ Reader = Run(first, said)
  BY DEF CommandInv, HasRead
<1>2. Reader.parser = parser /\ Reader.calls = calls /\ Reader.refused = refused
  BY DEF Reader
<1>3. Whole(first, x) /\ Says(x, said)
  BY <1>1, <1>2 DEF Whole, Says, InString, Strings
<1>4. /\ \/ Reader.calls = <<>> /\ \A c \in CallsIn(said) : ~Asks(said, c)
         \/ \E c \in CallsIn(said) : Reader.calls = <<c>> /\ Asks(said, c)
      /\ (Reader.refused <=> ~IsSentence(said))
      /\ Reader.parser.cs = "main"
  BY <1>1, <1>3, WholeIsAsWritten
<1>5. QED
  BY <1>2, <1>4

\* text_command.rl:186: for every name, class, value and line, a command asks
\* the planet for exactly what is written, once, however many lines it takes
\* and whatever stood on the lines before it.
THEOREM CallsAlwaysAsWritten == TextSpec => []CallsAsWritten
BY CommandInvAlways, InvSays, PTL

\* text_command.rl:159: for every line, an error is printed exactly when the
\* line is not in the language, and the next one is read from the start state.
THEOREM ErrorsAlwaysPrinted == TextSpec => []ErrorsPrinted
BY CommandInvAlways, InvSays, PTL

-----------------------------------------------------------------------------
(* The life of a planet: whatever the threads are called and however they  *)
(* interleave, only a quit ends the program, and it ends after all of its  *)
(* threads.                                                                *)

-----------------------------------------------------------------------------
(* The inductive invariant.                                                *)

LifeTypeOK ==
    /\ main \in {"startup", "adopt", "join", "destroy", "done"}
    /\ DOMAIN thread = Commander \cup {Worker}
    /\ thread[Worker] \in {"none", "sleeping", "round", "ended"}
    /\ \A c \in Commander : thread[c] \in
          {"none", "waiting", "asking", "calling", "answered", "ended"}
    /\ should_run \in [Commander \cup {Worker} -> BOOLEAN]
    /\ commands \subseteq Commander
    /\ deleting \in Commander \cup {Nobody}
    /\ DOMAIN request = Commander
    /\ mutex \in Commander \cup {Worker, Nobody}
    /\ asked \in BOOLEAN

\* The lock is held exactly by the thread that is in its locked section.
HolderIsInside ==
    /\ thread[Worker] = "round" <=> mutex = Worker
    /\ \A c \in Commander : thread[c] = "calling" <=> mutex = c

\* The worker exists from the end of adopt_command() on, and is joined
\* before anything is destroyed.
WorkerStage ==
    /\ main \in {"startup", "adopt"} <=> thread[Worker] = "none"
    /\ main \in {"destroy", "done"} => thread[Worker] = "ended"

\* A command is in the tree from the start of its thread to the end of it.
CommandStage ==
    /\ main = "startup" => commands = {}
    /\ \A c \in Commander :
          /\ thread[c] = "none" => main \in {"startup", "adopt"}
          /\ thread[c] \notin {"none", "ended"} => c \in commands
    /\ main = "done" => commands = {}
    /\ deleting # Nobody => main = "destroy" /\ deleting \in commands

\* should_run_ of the worker remembers the quits since its start, and the
\* worker ends only when it is cleared.
QuitRemembered ==
    /\ thread[Worker] # "none" => (asked <=> ~should_run[Worker])
    /\ thread[Worker] = "ended" => ~should_run[Worker]

LifeInv == /\ LifeTypeOK /\ HolderIsInside /\ WorkerStage
           /\ CommandStage /\ QuitRemembered

-----------------------------------------------------------------------------
(* The threads are different from each other and from nobody.              *)
LEMMA ThreadsDiffer ==
    /\ Worker \notin Commander /\ Nobody \notin Commander
    /\ Worker # Nobody /\ Terminal # Osc
    /\ Terminal \in Commander /\ Osc \in Commander
BY ThreadAssumption DEF Commander

(* main() begins with nothing started.                                     *)
LEMMA LifeInitInv == LifeInit => LifeInv
BY ThreadsDiffer
DEF LifeInit, LifeInv, LifeTypeOK, HolderIsInside, WorkerStage,
    CommandStage, QuitRemembered

(* A step of the main thread.                                              *)
LEMMA MainKeepsInv == LifeInv /\ Main => LifeInv'
<1> SUFFICES ASSUME LifeInv, Main PROVE LifeInv'
    OBVIOUS
<1> USE ThreadsDiffer
        DEF LifeInv, LifeTypeOK, HolderIsInside, WorkerStage, CommandStage,
            QuitRemembered, deletion
<1>1. CASE ParseStartupFile
    BY <1>1 DEF ParseStartupFile
<1>2. CASE StartWorker
    BY <1>2 DEF StartWorker
<1>3. CASE Join
    BY <1>3 DEF Join
<1>4. CASE DeleteCommand
    BY <1>4 DEF DeleteCommand
<1>5. CASE Finish
    BY <1>5 DEF Finish
<1>6. ASSUME NEW c \in Commander, AdoptCommand(c) PROVE LifeInv'
    BY <1>6 DEF AdoptCommand
<1>7. ASSUME NEW c \in Commander, KillCommand(c) PROVE LifeInv'
    BY <1>7 DEF KillCommand
<1> QED
    BY <1>1, <1>2, <1>3, <1>4, <1>5, <1>6, <1>7 DEF Main

(* A step of the worker.                                                   *)
LEMMA WorkerKeepsInv == LifeInv /\ (Lock \/ Unlock) => LifeInv'
<1> SUFFICES ASSUME LifeInv, Lock \/ Unlock PROVE LifeInv'
    OBVIOUS
<1> USE ThreadsDiffer
        DEF LifeInv, LifeTypeOK, HolderIsInside, WorkerStage, CommandStage,
            QuitRemembered, deletion
<1>1. CASE Lock
    BY <1>1 DEF Lock
<1>2. CASE Unlock
    BY <1>2 DEF Unlock
<1> QED
    BY <1>1, <1>2

(* A step of the terminal's user, or of a command that calls nobody.       *)
LEMMA InputKeepsInv ==
    ASSUME LifeInv,
           \/ Type \/ ReadNothing \/ StopServer
           \/ \E what \in {"call", "quit"} : ReceiveMessage(what)
           \/ \E c \in Commander : Again(c)
    PROVE  LifeInv'
<1> USE ThreadsDiffer
        DEF LifeInv, LifeTypeOK, HolderIsInside, WorkerStage, CommandStage,
            QuitRemembered, deletion
<1>1. ASSUME NEW what \in {"call", "quit"}, ReadLine(what) PROVE LifeInv'
    BY <1>1 DEF ReadLine
<1>2. CASE ReadLongLine
    BY <1>2 DEF ReadLongLine
<1>3. CASE ReadEnd
    BY <1>3 DEF ReadEnd
<1>4. CASE ReadNothing
    BY <1>4 DEF ReadNothing
<1>5. CASE StopServer
    BY <1>5 DEF StopServer
<1>6. ASSUME NEW what \in {"call", "quit"}, ReceiveMessage(what) PROVE LifeInv'
    BY <1>6 DEF ReceiveMessage
<1>7. ASSUME NEW c \in Commander, Again(c) PROVE LifeInv'
    BY <1>7 DEF Again
<1> QED
    BY <1>1, <1>2, <1>3, <1>4, <1>5, <1>6, <1>7 DEF Type

(* A call of the planet, from the lock to the unlock.                      *)
LEMMA CallKeepsInv ==
    ASSUME LifeInv, NEW c \in Commander, Call(c) \/ Return(c)
    PROVE  LifeInv'
<1> USE ThreadsDiffer
        DEF LifeInv, LifeTypeOK, HolderIsInside, WorkerStage, CommandStage,
            QuitRemembered, deletion
<1>1. CASE Call(c)
    BY <1>1 DEF Call
<1>2. CASE Return(c)
    BY <1>2 DEF Return
<1> QED
    BY <1>1, <1>2

-----------------------------------------------------------------------------
(* The invariant holds of the threads as main.cpp and the loops of the     *)
(* worker and of the commands run them, fair or not.                       *)
THEOREM LifeInvariant == LifeSpec => []LifeInv
<1>1. LifeInv /\ UNCHANGED lifeVars => LifeInv'
    BY DEF LifeInv, LifeTypeOK, HolderIsInside, WorkerStage, CommandStage,
           QuitRemembered, lifeVars, deletion
<1>2. LifeInv /\ LifeNext => LifeInv'
    BY MainKeepsInv, WorkerKeepsInv, InputKeepsInv, CallKeepsInv DEF LifeNext
<1> QED
    BY LifeInitInv, <1>1, <1>2, PTL DEF LifeSpec

(* Only a quit ends the program: the worker is joined (main.cpp:40) when   *)
(* it has seen should_run_ cleared, and nothing but Planet::quit clears it. *)
THEOREM EndsWhenAskedAlways == LifeSpec => []EndsWhenAsked
<1>1. LifeInv => EndsWhenAsked
    BY DEF LifeInv, WorkerStage, QuitRemembered, EndsWhenAsked
<1> QED
    BY LifeInvariant, <1>1, PTL

(* When main() returns every thread has ended and the lock is free: the    *)
(* worker is joined, and ~Root waits for each command it deletes.          *)
THEOREM AllThreadsEndedAlways == LifeSpec => []AllThreadsEnded
<1>1. LifeInv => AllThreadsEnded
    BY ThreadsDiffer
    DEF LifeInv, LifeTypeOK, HolderIsInside, WorkerStage, CommandStage,
        AllThreadsEnded
<1> QED
    BY LifeInvariant, <1>1, PTL
=============================================================================
