------------------------------ MODULE LuaScript ------------------------------
(***************************************************************************)
(* A Lua node (core/lua_script.cpp, core/lua_inlet.cpp, objects/Lua.cpp):  *)
(* a script declares inlets and an outlet and defines one function per     *)
(* inlet; a value received by an inlet calls the function of that name,    *)
(* and the function may send through the outlet, which may be linked to an *)
(* inlet of the same node, so that the function is entered again before it *)
(* has returned.  The script is evaluated when the node is created         *)
(* (core/new_method.h), when it is set with the method `script` or `file`, *)
(* and, before a call, when its file has changed.                          *)
(*                                                                         *)
(* All of it runs under the lock of the worker: only the user's editor     *)
(* writes the file at any time.  The links of several outlets and their    *)
(* order are the subject of Patch; one link is enough to come back.        *)
(***************************************************************************)
EXTENDS Naturals, Sequences, SequencesExt

CONSTANTS
  Name,      \* names of inlets, which are the names of the functions
  Script,    \* texts the user may write, see IsScript
  NoScript,  \* no script yet, or no parameter
  NoBody,    \* a global that is nil
  MaxCalls   \* nested calls from C into Lua, LUAI_MAXCCALLS (200)

\* What a function does: values it sends, or an error that it raises.
Op == {"send", "fail"}

\* `inlet`, `Outlet`, the definition of a function, or one that raises an error.
Statement ==
  [do : {"inlet"}, name : Name]
    \cup [do : {"outlet", "error"}]
    \cup [do : {"function"}, name : Name, body : Seq(Op)]

\* A script either does not compile or is a list of statements.
IsScript(s) == s.compiles \in BOOLEAN /\ s.does \in Seq(Statement)

ASSUME ScriptAssumption ==
  /\ NoScript \notin Script
  /\ \A s \in Script : IsScript(s)
  /\ MaxCalls \in Nat \ {0}

VARIABLES
  node,      \* the node and its Lua state, see LuaInit
  linked,    \* inlets of the node that its outlet is linked to, one at most
  file,      \* the script in the file
  changed,   \* the file has changed since it was last read
  due,       \* it is time to look at the file
  frames,    \* what is left of the functions under way, innermost last
  edited     \* a script was evaluated after the node had been created

vars == <<node, linked, file, changed, due, frames, edited>>

-----------------------------------------------------------------------------
(* Evaluating a script. *)

Failed(n) == [n EXCEPT !.sound = FALSE]

\* One statement; an error ends the evaluation and what was done before stays.
\* (A statement of the script itself that sends is left out: it would call the
\* linked methods at once, in the middle of the evaluation and under the flag
\* of the script before.)
Do(n, st) ==
  IF ~n.sound THEN n
  ELSE CASE st.do = "inlet"    -> [n EXCEPT !.inlets = @ \cup {st.name}]
         [] st.do = "outlet"   -> IF n.lib THEN [n EXCEPT !.outlet = TRUE] ELSE Failed(n)
         [] st.do = "function" -> [n EXCEPT !.body[st.name] = st.body]
         [] st.do = "error"    -> Failed(n)

\* Mutant: the slots are built anew with every script.
EvalFresh(n, s) ==
  LET after[k \in 0..Len(s.does)] ==
        IF k = 0 THEN [n EXCEPT !.script = s, !.sound = s.compiles, !.inlets = {}]
        ELSE Do(after[k - 1], s.does[k])
  IN  after[Len(s.does)]

\* eval_script(): compile, then run; globals and slots of older scripts stay.
EvalScript(n, s) ==
  LET after[k \in 0..Len(s.does)] ==
        IF k = 0 THEN [n EXCEPT !.script = s, !.sound = s.compiles]
        ELSE Do(after[k - 1], s.does[k])
  IN  after[Len(s.does)]

\* Mutant: the flag of the node is left alone when a script was evaluated.
KeepOk(n) == n

\* set_script_ok(): the flag of the script and the flag of the node.
SetScriptOk(n) == [n EXCEPT !.ok = n.sound]

Evaluated(n, s) == SetScriptOk(EvalScript(n, s))

\* lua_init(): the library rubyk.lua is found or it is not.
LuaInit(lib) ==
  [ok |-> lib, sound |-> lib, lib |-> lib, script |-> NoScript, inlets |-> {},
   outlet |-> FALSE, body |-> [f \in Name |-> NoBody]]

(* cast_create(): init, the parameters, start().  A node whose init failed *)
(* stays, broken; what the parameters did is not looked at, and start()    *)
(* has the last word on the flag.                                          *)
Created(lib, s) ==
  LET n == LuaInit(lib)
  IN  IF ~lib THEN n
      ELSE [(IF s = NoScript THEN n ELSE Evaluated(n, s)) EXCEPT !.ok = TRUE]

-----------------------------------------------------------------------------
(* Calling a function. *)

Idle == frames = <<>>

\* Mutant: a broken node refuses the call before it looks at the file.
LookIfOk == changed /\ due /\ node.ok

\* The file is read when it has changed and it is time to look at it.
Look == changed /\ due

\* reload_script(): the script of the file, if it is time and it changed.
Reloaded == IF Look THEN Evaluated(node, file) ELSE node

Reload ==
  /\ node' = Reloaded
  /\ changed' = (changed /\ ~Look)
  /\ due' = FALSE
  /\ edited' = (edited \/ Look)

\* lua_pcall() enters the function; it fails on nil and when nested too deep.
Enters(n, f) == n.ok /\ n.body[f] # NoBody /\ Len(frames) < MaxCalls

(* call_lua() from the inlet f, with the frames that are left of the       *)
(* functions under way.  The caller does not look at the result.           *)
CallLua(f, left) ==
  /\ Reload
  /\ frames' = IF Enters(Reloaded, f) THEN Append(left, Reloaded.body[f]) ELSE left

\* LuaInlet::receive_method(): a value arrives.
ReceiveMethod(f, left) ==
  CallLua(f, left) /\ UNCHANGED <<linked, file>>

Receive(f) == Idle /\ f \in node.inlets /\ ReceiveMethod(f, <<>>)

Running(op) == ~Idle /\ Last(frames) # <<>> /\ Head(Last(frames)) = op

\* Mutant: the function is left where it was.
Again == frames

\* The functions under way when the innermost has done its next operation.
Advanced == Append(Front(frames), Tail(Last(frames)))

\* An operation that raises an error ends the function; lua_pcall() returns.
Abandon == frames' = Front(frames) /\ UNCHANGED <<node, linked, file, changed, due, edited>>

\* lua_send() when the outlet was never built: the global is nil.
SendWithoutOutlet == Running("send") /\ ~node.outlet /\ Abandon

\* lua_send(): the outlet calls the inlet that it is linked to, if any.
LuaSend ==
  /\ Running("send") /\ node.outlet
  /\ \/ \E f \in linked : ReceiveMethod(f, Advanced)
     \/ /\ linked = {} /\ frames' = Advanced
        /\ UNCHANGED <<node, linked, file, changed, due, edited>>

Fail == Running("fail") /\ Abandon

Return == ~Idle /\ Last(frames) = <<>> /\ Abandon

-----------------------------------------------------------------------------
(* The user. *)

\* The method `script`.
SetScript(s) ==
  /\ Idle
  /\ node' = Evaluated(node, s) /\ edited' = TRUE
  /\ UNCHANGED <<linked, file, changed, due, frames>>

\* The method `file`.
SetFile ==
  /\ Idle
  /\ node' = Evaluated(node, file) /\ edited' = TRUE /\ changed' = FALSE
  /\ UNCHANGED <<linked, file, due, frames>>

\* The editor saves another text, at any time.
WriteFile(s) ==
  /\ s # file
  /\ file' = s /\ changed' = TRUE
  /\ UNCHANGED <<node, linked, due, frames, edited>>

\* The time to look at the file comes; the worker's clock stands in a call.
Elapse == Idle /\ ~due /\ due' = TRUE /\ UNCHANGED <<node, linked, file, changed, frames, edited>>

\* The outlet is linked to an inlet of the node.
Link(f) ==
  /\ Idle /\ node.outlet /\ f \in node.inlets /\ linked = {}
  /\ linked' = {f} /\ UNCHANGED <<node, file, changed, due, frames, edited>>

-----------------------------------------------------------------------------
Init ==
  /\ \E lib \in BOOLEAN, s \in Script \cup {NoScript} : node = Created(lib, s)
  /\ linked = {} /\ frames = <<>> /\ due = FALSE /\ edited = FALSE
  /\ file \in Script /\ changed = FALSE

Program == LuaSend \/ SendWithoutOutlet \/ Fail \/ Return

User ==
  \/ \E f \in Name : Link(f)
  \/ \E s \in Script : SetScript(s) \/ WriteFile(s)
  \/ SetFile

Next ==
  \/ Program
  \/ User
  \/ Elapse
  \/ \E f \in Name : Receive(f)

(* A function that was entered runs; time passes; values keep coming, for  *)
(* which a metronome linked to an inlet is enough.  Of the user nothing is *)
(* assumed.                                                                *)
LuaSpec ==
  /\ Init /\ [][Next]_vars
  /\ WF_vars(Program) /\ WF_vars(Elapse) /\ SF_vars(\E f \in Name : Receive(f))

-----------------------------------------------------------------------------
(* The type of the node and of the calls under way; a link of the outlet   *)
(* leads to a slot that exists, whatever was evaluated since it was made   *)
(* (lua_inlet() keeps what it finds).                                      *)
LuaTypeOK ==
  /\ node.script \in Script \cup {NoScript}
  /\ {node.ok, node.sound, node.lib, node.outlet, changed, due, edited} \subseteq BOOLEAN
  /\ node.inlets \subseteq Name /\ linked \subseteq node.inlets
  /\ file \in Script
  /\ \A k \in DOMAIN frames : \A i \in DOMAIN frames[k] : frames[k][i] \in Op

(* Once a script has been evaluated after the creation, by a method or by  *)
(* a reload in the middle of the traffic, the flag that call_lua() obeys   *)
(* says whether the latest evaluation succeeded, and a new function is     *)
(* entered only in that case (lua_script.cpp: `Script is broken.`).        *)
LatestDecides ==
  [][/\ edited' => (node'.ok <=> node'.sound)
     /\ edited' /\ Len(frames') > Len(frames) => node'.sound]_vars

(* A message ends, even when the outlet of the node is linked to its own   *)
(* inlet: the call that nests too deep fails (Lua's ldo.c, luaD_call), the *)
(* functions around it go on and return.                                   *)
MessageEnds == ~Idle ~> Idle

\* The file holds a script that compiles and runs, and was not read yet.
Repaired == changed /\ node.inlets # {} /\ EvalScript(node, file).sound

(* A node that was broken works again when its file has been repaired: the *)
(* file is looked at before the flag is (lua_script.cpp:82).               *)
Recovers == (Repaired /\ ~node.ok) ~> (node.ok \/ ~Repaired)

(* `If something bad arrived to the node during initialization or edit,    *)
(* the node goes into broken state [...] In 'broken' mode, the node does   *)
(* nothing.` (node.h:239): no function of a script that could not be       *)
(* evaluated is called.                                                    *)
BrokenDoesNothing == [][Len(frames') > Len(frames) => node'.sound]_vars
=============================================================================
