------------------------------ MODULE LuaProofs ------------------------------
(***************************************************************************)
(* Theorems about Lua nodes, for every set of names and of scripts, every  *)
(* length of a script and every limit of nested calls.                     *)
(***************************************************************************)
EXTENDS LuaScript, ListProofs

-----------------------------------------------------------------------------
(* Evaluating a script.                                                    *)

LuaNode == [ok : BOOLEAN, sound : BOOLEAN, lib : BOOLEAN,
            script : Script \cup {NoScript}, inlets : SUBSET Name,
            outlet : BOOLEAN, body : [Name -> Seq(Op) \cup {NoBody}]]

\* The nodes that have the inlets of n and maybe more.
Grown(n) == {m \in LuaNode : n.inlets \subseteq m.inlets}

LEMMA DoGrows ==
    ASSUME NEW n \in LuaNode, NEW m \in Grown(n), NEW st \in Statement
    PROVE  Do(m, st) \in Grown(n)
<1>1. m \in LuaNode /\ n.inlets \subseteq m.inlets
  BY DEF Grown
<1>2. /\ m.inlets \in SUBSET Name /\ m.body \in [Name -> Seq(Op) \cup {NoBody}]
      /\ m.sound \in BOOLEAN /\ m.lib \in BOOLEAN
  BY <1>1 DEF LuaNode
<1>3. Failed(m) \in LuaNode /\ Failed(m).inlets = m.inlets
  BY <1>1 DEF LuaNode, Failed
<1>4. CASE ~m.sound
  BY <1>1, <1>4 DEF Do, Grown
<1>5. CASE m.sound
  <2>1. CASE st.do = "inlet"
    <3>1. st.name \in Name
      BY <2>1 DEF Statement
    <3>2. Do(m, st) = [m EXCEPT !.inlets = @ \cup {st.name}]
      BY <1>5, <2>1 DEF Do
    <3>3. m.inlets \cup {st.name} \in SUBSET Name
      BY <1>2, <3>1
    <3>4. Do(m, st) \in LuaNode /\ Do(m, st).inlets = m.inlets \cup {st.name}
      BY <1>1, <3>2, <3>3 DEF LuaNode
    <3>5. QED
      BY <1>1, <3>4 DEF Grown
  <2>2. CASE st.do = "outlet"
    <3>1. Do(m, st) = IF m.lib THEN [m EXCEPT !.outlet = TRUE] ELSE Failed(m)
      BY <1>5, <2>2 DEF Do
    <3>2. [m EXCEPT !.outlet = TRUE] \in LuaNode
          /\ [m EXCEPT !.outlet = TRUE].inlets = m.inlets
      BY <1>1 DEF LuaNode
    <3>3. QED
      BY <1>1, <1>3, <3>1, <3>2 DEF Grown
  <2>3. CASE st.do = "function"
    <3>1. st.name \in Name /\ st.body \in Seq(Op)
      BY <2>3 DEF Statement
    <3>2. Do(m, st) = [m EXCEPT !.body = [m.body EXCEPT ![st.name] = st.body]]
      BY <1>1, <1>5, <2>3 DEF Do, LuaNode
    <3>3. [m.body EXCEPT ![st.name] = st.body] \in [Name -> Seq(Op) \cup {NoBody}]
      BY <1>2, <3>1
    <3>4. Do(m, st) \in LuaNode /\ Do(m, st).inlets = m.inlets
      BY <1>1, <3>2, <3>3 DEF LuaNode
    <3>5. QED
      BY <1>1, <3>4 DEF Grown
  <2>4. CASE st.do = "error"
    <3>1. Do(m, st) = Failed(m)
      BY <1>5, <2>4 DEF Do
    <3>2. QED
      BY <1>1, <1>3, <3>1 DEF Grown
  <2>5. QED
    BY <2>1, <2>2, <2>3, <2>4 DEF Statement
<1>6. QED
  BY <1>2, <1>4, <1>5

\* A script, of any length, leaves a node with the slots that it had.
LEMMA EvalGrows ==
    ASSUME NEW n \in LuaNode, NEW s \in Script
    PROVE  EvalScript(n, s) \in Grown(n)
<1> DEFINE start == [n EXCEPT !.script = s, !.sound = s.compiles]
           len == Len(s.does)
           after[k \in 0..len] == IF k = 0 THEN start ELSE Do(after[k - 1], s.does[k])
           T == Grown(n)
           step == [k \in 1..len |-> [m \in T |-> Do(m, s.does[k])]]
<1>1. s.compiles \in BOOLEAN /\ s.does \in Seq(Statement)
  BY ScriptAssumption DEF IsScript
<1>2. len \in Nat /\ \A k \in 1..len : s.does[k] \in Statement
  BY <1>1, ElementsOf
<1>3. start \in T
  BY <1>1 DEF LuaNode, Grown
<1> HIDE DEF T, start
<1>4. \A k \in 1..len, m \in T : Do(m, s.does[k]) \in T
  BY <1>2, DoGrows DEF T
<1>5. step \in [1..len -> [T -> T]]
  BY <1>2, <1>4
<1>6. \A k \in 1..len, m \in T : step[k][m] = Do(m, s.does[k])
  OBVIOUS
<1> HIDE DEF step
<1>7. PICK g \in [0..len -> T] :
         g[0] = start /\ \A k \in 1..len : g[k] = step[k][g[k - 1]]
  <2>1. \E g : Recursion(g, len, T, start, step)
    BY <1>2, <1>3, <1>5, RecursionExists
  <2>2. QED
    BY <2>1 DEF Recursion
<1>8. \A k \in 1..len : g[k] = Do(g[k - 1], s.does[k])
  <2>1. \A k \in 1..len : g[k - 1] \in T
    BY <1>2, <1>7
  <2>2. QED
    BY <2>1, <1>6, <1>7
<1>9. g = [k \in 0..len |-> IF k = 0 THEN start ELSE Do(g[k - 1], s.does[k])]
  <2>1. \A k \in 0..len : k = 0 \/ k \in 1..len
    BY <1>2
  <2>2. \A k \in 0..len :
           g[k] = IF k = 0 THEN start ELSE Do(g[k - 1], s.does[k])
    BY <2>1, <1>7, <1>8
  <2>3. QED
    BY <1>7, <2>2
<1>10. after = [k \in 0..len |-> IF k = 0 THEN start ELSE Do(after[k - 1], s.does[k])]
  BY <1>9
<1>11. EvalScript(n, s) = after[len]
  BY DEF EvalScript, start
<1> HIDE DEF after
<1> DEFINE G == {k \in 0..len : after[k] \in T}
<1>12. after[0] = start /\ \A k \in 1..len : after[k] = Do(after[k - 1], s.does[k])
  <2>1. 0 \in 0..len /\ \A k \in 1..len : k \in 0..len /\ k # 0
    BY <1>2
  <2>2. QED
    BY <2>1, <1>10
<1>13. 0 \in G
  BY <1>2, <1>3, <1>12
<1>14. \A k \in 1..len : k - 1 \in G => k \in G
  BY <1>2, <1>4, <1>12
<1>15. 0..len \subseteq G
  <2> HIDE DEF G
  <2>1. QED
    BY <1>2, <1>13, <1>14, UpTo
<1>16. QED
  BY <1>2, <1>11, <1>15 DEF T

LEMMA EvaluatedGrows ==
    ASSUME NEW n \in LuaNode, NEW s \in Script
    PROVE  /\ Evaluated(n, s) \in LuaNode
           /\ n.inlets \subseteq Evaluated(n, s).inlets
           /\ Evaluated(n, s).ok = Evaluated(n, s).sound
<1> DEFINE m == EvalScript(n, s)
<1>1. m \in LuaNode /\ n.inlets \subseteq m.inlets
  BY EvalGrows DEF Grown
<1>2. Evaluated(n, s) = [m EXCEPT !.ok = m.sound]
  BY DEF Evaluated, SetScriptOk
<1> HIDE DEF m
<1>3. QED
  BY <1>1, <1>2 DEF LuaNode

\* Whatever its parameters did, cast_create() leaves a node.
LEMMA CreatedNode ==
    ASSUME NEW lib \in BOOLEAN, NEW s \in Script \cup {NoScript}
    PROVE  Created(lib, s) \in LuaNode
<1> DEFINE n == LuaInit(lib)
           m == IF s = NoScript THEN n ELSE Evaluated(n, s)
<1>1. n \in LuaNode
  BY DEF LuaInit, LuaNode
<1> HIDE DEF n
<1>2. m \in LuaNode
  BY <1>1, EvaluatedGrows
<1>3. Created(lib, s) = IF ~lib THEN n ELSE [m EXCEPT !.ok = TRUE]
  BY DEF Created, n
<1> HIDE DEF m
<1>4. QED
  BY <1>1, <1>2, <1>3 DEF LuaNode

-----------------------------------------------------------------------------
(* The inductive invariant.                                                *)

\* After an evaluation the flag that calls obey is the flag of the script.
FlagsAgree == edited => node.ok = node.sound

LuaInv ==
    /\ node \in LuaNode
    /\ linked \subseteq node.inlets
    /\ file \in Script
    /\ changed \in BOOLEAN /\ due \in BOOLEAN /\ edited \in BOOLEAN
    /\ frames \in Seq(Seq(Op))
    /\ FlagsAgree

LEMMA LuaInitEstablishes == Init => LuaInv
<1> SUFFICES ASSUME Init PROVE LuaInv
  OBVIOUS
<1>1. node \in LuaNode
  BY CreatedNode DEF Init
<1>2. frames \in Seq(Seq(Op))
  BY DEF Init
<1>3. QED
  BY <1>1, <1>2 DEF Init, LuaInv, FlagsAgree

\* What is left of the functions under way.
LEMMA FramesLeft ==
    ASSUME LuaInv, ~Idle
    PROVE  /\ Last(frames) \in Seq(Op)
           /\ Front(frames) \in Seq(Seq(Op)) /\ Len(Front(frames)) < Len(frames)
           /\ Last(frames) # <<>> => /\ Advanced \in Seq(Seq(Op))
                                     /\ Len(Advanced) = Len(frames)
<1>1. /\ frames \in Seq(Seq(Op)) /\ Len(frames) \in Nat \ {0}
      /\ \A k \in 1..Len(frames) : frames[k] \in Seq(Op)
  BY ElementsOf, EmptySeq DEF LuaInv, Idle
<1>2. Last(frames) \in Seq(Op)
  BY <1>1 DEF Last
<1>3. Front(frames) \in Seq(Seq(Op)) /\ Len(Front(frames)) = Len(frames) - 1
  <2> DEFINE n == Len(frames) - 1
  <2>1. /\ n \in Nat /\ n \in Int /\ 1 \in Int
        /\ \A k \in 1..n : frames[k] \in Seq(Op)
    BY <1>1
  <2>2. Front(frames) = SubSeq(frames, 1, n)
    BY DEF Front
  <2> HIDE DEF n
  <2>3. /\ SubSeq(frames, 1, n) \in Seq(Seq(Op))
        /\ Len(SubSeq(frames, 1, n)) = IF 1 <= n THEN n - 1 + 1 ELSE 0
    BY <2>1, SubSeqProperties
  <2>4. Len(SubSeq(frames, 1, n)) = n
    BY <2>1, <2>3
  <2>5. QED
    BY <2>2, <2>3, <2>4 DEF n
<1>4. ASSUME Last(frames) # <<>>
      PROVE  Advanced \in Seq(Seq(Op)) /\ Len(Advanced) = Len(frames)
  <2>1. Tail(Last(frames)) \in Seq(Op)
    BY <1>2, <1>4, HeadTailProperties
  <2>2. /\ Advanced \in Seq(Seq(Op))
        /\ Len(Advanced) = Len(Front(frames)) + 1
    BY <1>3, <2>1, AppendProperties DEF Advanced
  <2>3. QED
    BY <1>1, <1>3, <2>2
<1>5. QED
  BY <1>1, <1>2, <1>3, <1>4

\* What LatestDecides says of the functions that a step enters.
EntersSound == edited' /\ Len(frames') > Len(frames) => node'.sound

\* A value that an inlet receives, from outside or from a function under way.
LEMMA ReceivingKeeps ==
    ASSUME LuaInv, NEW f \in node.inlets, NEW left \in Seq(Seq(Op)),
           Len(left) <= Len(frames), ReceiveMethod(f, left)
    PROVE  LuaInv' /\ EntersSound
<1>1. /\ node \in LuaNode /\ file \in Script /\ linked \subseteq node.inlets
      /\ frames \in Seq(Seq(Op)) /\ changed \in BOOLEAN /\ due \in BOOLEAN
      /\ edited \in BOOLEAN /\ f \in Name
  BY DEF LuaInv, LuaNode
<1>2. /\ node' = Reloaded /\ changed' = (changed /\ ~Look) /\ due' = FALSE
      /\ edited' = (edited \/ Look) /\ linked' = linked /\ file' = file
      /\ frames' = IF Enters(Reloaded, f) THEN Append(left, Reloaded.body[f]) ELSE left
  BY DEF ReceiveMethod, CallLua, Reload
<1>3. /\ Reloaded \in LuaNode /\ node.inlets \subseteq Reloaded.inlets
      /\ edited' => Reloaded.ok = Reloaded.sound
  <2>1. CASE Look
    BY <1>1, <2>1, EvaluatedGrows DEF Reloaded
  <2>2. CASE ~Look
    BY <1>1, <1>2, <2>2 DEF Reloaded, LuaInv, FlagsAgree
  <2>3. QED
    BY <2>1, <2>2
<1>4. /\ node' \in LuaNode /\ linked' \subseteq node'.inlets /\ file' \in Script
      /\ changed' \in BOOLEAN /\ due' \in BOOLEAN /\ edited' \in BOOLEAN
      /\ FlagsAgree'
  BY <1>1, <1>2, <1>3 DEF FlagsAgree, Look
<1>5. CASE Enters(Reloaded, f)
  <2>1. Reloaded.ok /\ Reloaded.body[f] \in Seq(Op)
    BY <1>1, <1>3, <1>5 DEF Enters, LuaNode
  <2>2. frames' \in Seq(Seq(Op))
    BY <1>2, <1>5, <2>1, AppendProperties
  <2>3. QED
    BY <1>2, <1>3, <1>4, <2>1, <2>2 DEF LuaInv, EntersSound
<1>6. CASE ~Enters(Reloaded, f)
  <2>1. frames' = left /\ ~(Len(frames') > Len(frames))
    BY <1>1, <1>2, <1>6
  <2>2. QED
    BY <1>4, <2>1 DEF LuaInv, EntersSound
<1>7. QED
  BY <1>5, <1>6

LEMMA AbandonKeeps ==
    ASSUME LuaInv, ~Idle, Abandon
    PROVE  LuaInv' /\ EntersSound
<1>1. /\ frames' = Front(frames)
      /\ UNCHANGED <<node, linked, file, changed, due, edited>>
  BY DEF Abandon
<1>2. frames' \in Seq(Seq(Op)) /\ Len(frames') < Len(frames)
  BY <1>1, FramesLeft
<1>3. ~(Len(frames') > Len(frames))
  <2>1. Len(frames) \in Nat /\ Len(frames') \in Nat
    BY <1>2 DEF LuaInv
  <2>2. QED
    BY <1>2, <2>1
<1>4. QED
  BY <1>1, <1>2, <1>3 DEF LuaInv, FlagsAgree, EntersSound

LEMMA LuaStep == LuaInv /\ [Next]_vars => LuaInv' /\ (EntersSound \/ UNCHANGED vars)
<1> SUFFICES ASSUME LuaInv, [Next]_vars
             PROVE  LuaInv' /\ (EntersSound \/ UNCHANGED vars)
  OBVIOUS
<1>1. /\ node \in LuaNode /\ file \in Script /\ linked \subseteq node.inlets
      /\ frames \in Seq(Seq(Op)) /\ Len(frames) \in Nat
      /\ node.inlets \subseteq Name /\ edited \in BOOLEAN
  BY DEF LuaInv, LuaNode
<1>2. CASE LuaSend
  <2>1. ~Idle /\ Last(frames) # <<>>
    BY <1>2 DEF LuaSend, Running
  <2>2. Advanced \in Seq(Seq(Op)) /\ Len(Advanced) = Len(frames)
    BY <2>1, FramesLeft
  <2>3. CASE \E f \in linked : ReceiveMethod(f, Advanced)
    <3>1. PICK f \in node.inlets : ReceiveMethod(f, Advanced)
      BY <1>1, <2>3
    <3>2. QED
      BY <1>1, <2>2, <3>1, ReceivingKeeps
  <2>4. CASE frames' = Advanced /\ UNCHANGED <<node, linked, file, changed, due, edited>>
    BY <1>1, <2>2, <2>4 DEF LuaInv, FlagsAgree, EntersSound
  <2>5. QED
    BY <1>2, <2>3, <2>4 DEF LuaSend
<1>3. CASE SendWithoutOutlet \/ Fail \/ Return
  BY <1>3, AbandonKeeps DEF SendWithoutOutlet, Fail, Return, Running
<1>4. CASE \E f \in Name : Receive(f)
  <2>1. PICK f \in node.inlets : ReceiveMethod(f, <<>>)
    BY <1>4 DEF Receive
  <2>2. <<>> \in Seq(Seq(Op)) /\ Len(<<>>) <= Len(frames)
    BY <1>1
  <2>3. QED
    BY <2>1, <2>2, ReceivingKeeps
<1>5. CASE \E f \in Name : Link(f)
  BY <1>1, <1>5 DEF Link, LuaInv, FlagsAgree, EntersSound
<1>6. ASSUME NEW s \in Script, SetScript(s) PROVE LuaInv' /\ EntersSound
  BY <1>1, <1>6, EvaluatedGrows DEF SetScript, LuaInv, FlagsAgree, EntersSound
<1>7. CASE SetFile
  <2>1. /\ node' \in LuaNode /\ node.inlets \subseteq node'.inlets
        /\ node'.ok = node'.sound
    BY <1>1, <1>7, EvaluatedGrows DEF SetFile
  <2>2. /\ edited' = TRUE /\ changed' = FALSE
        /\ UNCHANGED <<linked, file, due, frames>>
    BY <1>7 DEF SetFile
  <2>3. ~(Len(frames') > Len(frames))
    BY <1>1, <2>2
  <2>4. QED
    BY <1>1, <2>1, <2>2, <2>3 DEF LuaInv, FlagsAgree, EntersSound
<1>8. ASSUME NEW s \in Script, WriteFile(s) PROVE LuaInv' /\ EntersSound
  BY <1>1, <1>8 DEF WriteFile, LuaInv, FlagsAgree, EntersSound
<1>9. CASE Elapse
  BY <1>1, <1>9 DEF Elapse, LuaInv, FlagsAgree, EntersSound
<1>10. CASE UNCHANGED vars
  BY <1>10 DEF vars, LuaInv, FlagsAgree
<1>11. QED
  BY <1>2, <1>3, <1>4, <1>5, <1>6, <1>7, <1>8, <1>9, <1>10 DEF Next, Program, User

-----------------------------------------------------------------------------
(* The theorems.                                                           *)

\* Every state that a Lua node can reach satisfies the invariant, without any
\* fairness.
THEOREM LuaInvariance == LuaSpec => []LuaInv
<1>1. LuaInv /\ [Next]_vars => LuaInv'
  BY LuaStep
<1>2. QED
  BY <1>1, LuaInitEstablishes, PTL DEF LuaSpec

\* lua_script.cpp:140: a script that is evaluated keeps the slots of the ones
\* before it, also when it fails half way or comes in the middle of a message,
\* so that a link never leads to a slot that is gone; and the node, its
\* globals and the functions under way keep their types.
THEOREM LuaTypeCorrect == LuaSpec => []LuaTypeOK
<1>1. LuaInv => LuaTypeOK
  <2> SUFFICES ASSUME LuaInv PROVE LuaTypeOK
    OBVIOUS
  <2>1. /\ frames \in Seq(Seq(Op)) /\ node \in LuaNode
    BY DEF LuaInv
  <2>2. \A k \in DOMAIN frames : frames[k] \in Seq(Op)
    BY <2>1, ElementsOf
  <2>3. \A k \in DOMAIN frames : \A i \in DOMAIN frames[k] : frames[k][i] \in Op
    BY <2>2, ElementsOf
  <2>4. QED
    BY <2>1, <2>3 DEF LuaInv, LuaNode, LuaTypeOK
<1>2. QED
  BY <1>1, LuaInvariance, PTL

\* lua_script.h:88: once a script has been evaluated after the creation, the
\* flag that call_lua() obeys is the verdict on the latest text, and functions
\* are entered only when it is good, also by a call that comes back to the node
\* while its functions run.
THEOREM LatestAlwaysDecides == LuaSpec => LatestDecides
<1>1. LuaInv /\ [Next]_vars
        => [/\ edited' => (node'.ok <=> node'.sound)
            /\ edited' /\ Len(frames') > Len(frames) => node'.sound]_vars
  BY LuaStep DEF LuaInv, FlagsAgree, EntersSound
<1>2. QED
  BY <1>1, LuaInvariance, PTL DEF LuaSpec, LatestDecides
==============================================================================
