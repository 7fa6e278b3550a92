---------------------------- MODULE MCLuaScript ----------------------------
(* Two inlets and four texts: one that answers what it receives, one that  *)
(* does not compile, one that fails after it has redefined a function, and *)
(* one without a function for the inlet it declares.                       *)
EXTENDS LuaScript

Function(f, ops) == [do |-> "function", name |-> f, body |-> ops]
Inlet(f) == [do |-> "inlet", name |-> f]
Text(statements) == [compiles |-> TRUE, does |-> statements]

Answers  == Text(<<Inlet("a"), [do |-> "outlet"], Function("a", <<"send">>)>>)
Garbled  == [compiles |-> FALSE, does |-> <<>>]
HalfWay  == Text(<<Inlet("a"), Function("a", <<"send", "send", "fail">>), [do |-> "error"]>>)
Unnamed  == Text(<<Inlet("b"), Function("a", <<"send", "fail">>)>>)

MCScript == {Answers, Garbled, HalfWay, Unnamed}
=============================================================================
