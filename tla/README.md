# rubyk: a TLA+ verification development

rubyk is a realtime patcher: a tree of *nodes* (metronome, value, MIDI out, Lua
script...) whose *outlets* are linked to the *inlets* of other nodes, built and
changed while it runs by text commands and OSC messages.  The programs modelled
here are `src/core`, `src/objects` and `src/lib_objects/midi` of the repository;
paths below are relative to the repository's `src/` directory.

## 1. The system

One process runs three kinds of threads: the main thread (`main.cpp`), the
*worker* (`core/worker.*`), and the *commands* (`core/text_command.*` on the
standard input, oscit's OSC server on a port).  All of them act on one tree of
objects, the *planet* (`core/planet.*`), under one lock: the worker is the mutex
(`oscit::Thread` is a `Mutex`) and is handed to every node as its context.  The
worker holds the lock for one round of its loop, sleeps 10 us without it, and
starts over.  A command takes it for each *call* of a method (`Root::call`), not for
a line: `a = Metro(1)` is two calls, the creation of the node and the retry of the
pending links, and other threads may act between them.

| Component | State | Operations | Works with |
|---|---|---|---|
| Ordered list `core/ordered_list.h` | linked list, sorted by `operator>=` of its elements | push, pop, remove, get, sort | worker (events), slots (connections) |
| Events `core/event.*` | due time, node, parameter, forced | trigger, compare | worker, nodes |
| Worker `core/worker.*` | logical time, event queue, looped nodes, `should_run_` | register/free events, looped nodes, the round (`loop`), start, quit | nodes call it back from inside their bangs |
| Node `core/node.*` | inlets, outlets, trigger position, `looped_`, `is_ok_` | bang_me_in, remove_my_events, loop_me, send, register slots, set position, destroy | worker, slots |
| Slots `core/slot.*`, `inlet.*`, `outlet.*` | sorted list of connected slots on both sides | connect, disconnect, sort, send, change_link, destroy | nodes, planet |
| Planet `core/planet.*`, `main.cpp` | pending links, worker, classes, commands | link, create/remove pending links, adopt commands, start, join, quit, inspect | commands, slots, threads |
| Classes `core/class*.{h,cpp}`, `new_method.h` | prototypes of methods, inlets and outlets; loaded libraries | declare, load, new | commands, nodes |
| Text command `core/text_command.*` | state of the parser, registers with the tokens read so far, standard input | parse, create_instance, change_link, execute_command, listen | planet |
| Lua scripts `core/lua_*`, `objects/Lua.cpp` | interpreter, script, `script_ok_`, time of the file | eval, reload, call, build slots, send | nodes, slots |
| Metro `objects/Metro.cpp` | tempo, `run_` | start, start_stop, tempo, bang | worker |
| Value, Print, NoteOut, OscMap `objects/` | one value each | set and send | slots |
| MidiOut `lib_objects/midi/MidiOut.cpp` | port, `is_ok_` | midi, bang (note off as a forced event), port | worker, RtMidi |

### 1.1 What is hard here

Everything runs under one lock, so data races are not the problem: *re-entrancy*
is.  The bang of an event, run by the worker in the middle of a round with the
lock held, travels synchronously through the links of the patch
(`Outlet::send` calls `Inlet::receive`, which calls a method, which sends again)
and may come back to the worker to register, remove or free events while
`pop_events()` still holds a copy of the head of the queue.  Next to it:

- **time** has three readings: the clock, the time a round started (`realTime`)
  and the logical time (`current_time_`), which runs behind the others while late
  events are worked off.  Nodes reckon with the logical one.
- **lists that are kept sorted** by an order that depends on the state of other
  objects (a slot's place depends on the trigger position of its node), which
  changes while the list stands;
- **links stored twice**, once at each end, and destroyed from either end;
- **commands in any order**: links are asked for before their nodes or slots exist, nodes
  are destroyed and created again under the same name, metros are started,
  stopped and retuned while an event of theirs is in the queue;
- **state that outlives its command**: the registers of the parser live from line to
  line, globals and slots of a Lua node from script to script;
- **recursion as dispatch**: a value is delivered by nested calls; what bounds them
  is the shape of the patch, or for Lua the limit of nested C calls;
- **start and stop**: the startup file is parsed before the worker runs, quitting
  refuses new events, and the threads of the commands must end before the tree does.

### 1.2 What makes each component correct

| Component | Correct when | Where |
|---|---|---|
| Ordered list | sorted by `>=`, an object at most once, sorting loses nothing | `QueueOrdered`, `LinksMutual`, `RightmostFirst`, `NoLinkLost` |
| Worker | every accepted event is triggered once, in order of time, at its own logical time, or withdrawn for its node; the lock is given back with nothing overdue; no pointer to a dead node stays | `Worker`, `Calendar` |
| Metro | bangs of a running metro are one beat apart; a running metro has its next beat in the queue | `Metro` |
| Slots | both ends agree, dead nodes leave no link, an outlet's list is rightmost first whatever changed since | `Patch`, `Wiring` |
| Planet | between slots that exist the links are those that were asked for and not withdrawn, in whatever order links, nodes and slots came | `PlanetLinks` |
| Outlet::send | serves the inlets linked when it began once each and in order, only living nodes, no deeper than there are nodes in a patch without cycles, and ends | `Dispatch` |
| MidiOut | every note on is followed by its note off | `MidiOut` |
| Planet life | a quit ends the worker and every command thread, but for a terminal where nobody types, nothing else does, and no thread is left when `main()` returns | `PlanetLife` |
| Text commands | the planet is asked for exactly what the line says, whatever was on the lines before; an error is printed exactly for lines that are not in the language | `TextCommand` |
| Lua scripts | the broken flag follows the latest text; a message ends, also one that comes back to its own node; a repaired script works again | `LuaScript` |
| Node creation | broken nodes stay inert (finding 3) | `LuaScript` |
| Class finder | a class is loaded once and found afterwards | not modelled |

## 2. The modules

```
Lists ── OrderedList ── Worker ── Metro     Calendar   (abstract, of Worker; uses Lists)
              │            └───── MidiOut   Wiring     (abstract, of Patch)
              │                             PlanetLife
              └──────── Patch ─┬─ Dispatch  TextCommand
                               └─ PlanetLinks   LuaScript

proofs:  ListProofs ─┬─ WorkerProofs ─┬─ MetroProofs
                     │                └─ MidiOutProofs
                     ├─ PatchProofs ─── PlanetLinksProofs
                     ├─ LuaProofs
                     └─ CommandProofs
```

`PatchProofs` is about `Dispatch` as well, `CommandProofs` about `TextCommand` and `PlanetLife`.  A line to the right or down is EXTENDS; `Worker` and `Patch` take their abstract
specifications with `INSTANCE ... WITH`.  Each `MC` module gives the constants of one
module their values.

**OrderedList** is the pointer specialisation of `core/ordered_list.h`, the one
that is instantiated: push behind everything the newcomer is `>=` to, pop, remove
by address, and `sort()`, which takes the containers out and pushes them again
one by one.  An order is a set of pairs; a `Sort` is a recursive function.
**Lists** has what is left of a list without some of its elements (`Without`), which is
what the `~Slot()` of the slots of a node leave of another slot's list, what a retry leaves
of the pending links and a cancellation of a page; it is a recursive function and not `SelectSeq`, whose
definition the provers cannot use.

**Worker** is `core/worker.*` with the calls `core/node.h` makes on it.
`queue`, `looped`, `current_time`, `should_run` are the fields of the same names;
`real_time`, `event` and `turn` are the local variables of `pop_events()` and
`trigger_loop_events()`, and `pc` says where the thread is: asleep, in a bang of
a looped node (`bang`), between events (`popping`), in a bang of an event
(`trigger`), after `unlock()`.  A node's call (`BangMeIn`, `RemoveMyEvents`,
`LoopMe`, `UnloopMe`, `Destroy`, `Quit`) is enabled when the thread does not
have the lock (another thread calls) or is inside a bang (the patch calls).
Time is in whole milliseconds as in the code; `WORKER_SLEEP_MS` is 0.01, so
"within WORKER_SLEEP_MS of the logical time" means "not after it".
The constant `SelfCancel` says whether a bang may lead back to a method of its
own node that removes that node's events, as a patch with feedback does.

**Calendar** is what a worker promises: a page per instant, events run one at a
time, earliest page first, first come first served, and an accepted event leaves
only by running or by being cancelled for its node.  `Worker` implements it
under a mapping that hides the event being triggered from its page.

**Metro** is `objects/Metro.cpp` on the worker (it extends `Worker`, with its own
calls instead of the unrestricted ones).  A tempo is represented by its beat in
1/100 ms, which is what `bang_me_in` gets and truncates.  `Bang` is the body of
`bang()` (next beat first, then send) and `BangReturn` the worker's `pop()`
after it; methods of metros may run between the two.  `tick` is a history
variable.

**MidiOut** is `lib_objects/midi/MidiOut.cpp` on the worker, with what it uses of
RtMidi (the CoreMIDI part): the virtual port, once made, stays and gets every
message, next to the port connected to.  The nodes of the worker are outputs and
*players*, other nodes that send notes from their bangs.  `message` is the
parameter of the event at each address, `sounding` a history variable: notes with
a length that were sent on and not off, on ports that were not closed since.
`SendLater` keeps what the code does with a wait: `bang_me_in()` takes an interval
and gets the present time plus the wait, so the present time counts twice.

**Patch** is the patch bay: `core/slot.*`, `inlet.*`, `outlet.*` and what
`core/node.*` does to slots.  `connections` holds the list of every slot, at both
ends; `SetTriggerPosition` and `SetId` sort exactly the lists that the code
sorts, as often as it does.  `Ties` says whether nodes may share a position or
the slots of a node an id.

`MaxCreations` bounds how often nodes are created.

**Wiring** is a patch as a set of links between the nodes that exist, and the places where nodes and
slots stand.  A link is made or broken as a whole while nothing moves; a node that comes changes no link, a node that goes
takes exactly its own; a move changes no link.  `Patch` implements it, with its two lists per link, and with a move
that sorts the lists of other nodes.  (A renumbering to the place where the node or the slot stands already is no move; what its
sort may do is bounded by `NoLinkLost` and `LinksMutual`.)

**Dispatch** is sending: `Outlet::send`, `Inlet::receive`, `Node::send`.  `stack` is the
C++ stack as far as it matters, a *walk* per `send()` that has not returned: its outlet,
the place of its iterator, how often the method it calls has sent already, and (history)
the inlets still due.  `Start` is a send out of the blue (a bang, a command), `Send` one
from inside a method, `Return` the return of a method with the step of the iterator and,
after the last inlet, the return of `send()`.  `Command` is any operation of `Patch`, and
waits for the lock and so for an empty stack.  What a method answers is left open:
any number of sends up to `MaxSends`, through any outlet of its node.

**PlanetLinks** is `Planet::link` with its pending links, `Slot::change_link` and
the text commands behind them, on the patch.  A link is named by a pair of
urls, each of a slot, of a node (whose first slot is meant) or of nothing that ever exists (`Nowhere`, a misspelt url).
`tree` holds the urls that `object_at` finds: a node comes with the slots of its class (`Born`), and a Lua
node gets more when a later script declares them (`Declare`, the slots in `Late`), again without a retry.  The creation of a node
by a text command (`CreateInstance`) and the retry of the pending links that follows it
(`AskForPending`) are two steps, and other commands come between them; `asking` says that
a retry is due.  `CreateElsewhere` is a creation without a retry (over OSC, or by an `init()` or
`start()` that failed and left the node in the tree).  Three history variables: `wanted`,
the links asked for, not withdrawn since and not lost with one of their nodes;
`strays`, urls found that are newer than the latest retry; `revived`, links that were withdrawn with
both ends there, or lost with a node, while they still waited (see section 5).  `Repeats` allows a pending link
to be asked for again.

**TextCommand** is the grammar of `core/text_command.rl`.  A character of the model is a
*token* (a name, a class, a value, a run of blanks, a sign), and the machine is a table of
moves: state, kind of token, next state, actions.  `Perform` is what each action does to the
registers `token_`, `var_`, `class_`, `from_port_`... and what it asks the planet for; an action runs
while the line is read, so a line can be executed before its error is found.
`Clear` resets the registers that `clear()` resets and no others.  `SyntaxError` is the
error action, which goes on to the end of the line.  A string left open goes over several lines
(`InString`).  `Run` is `parse()`: one character after the other.  A run of blanks is one token, `space`, so a
line never has two of them in a row (`LineAssumption`).  The table was compared with the machine that Ragel generated
(`core/text_command.cpp`): on 4539 texts the calls
and errors of both are the same.  `CallsAsWritten` and `ErrorsPrinted` compare the machine with a
definition of the language that does not mention it.

**PlanetLife** is the life of the threads: the main thread (`main`: startup file, adoption
of the commands, start of the worker, join, destruction), the worker between rounds,
and the two commands, the terminal and the OSC server, which wait, ask for the lock,
call and look at `should_run_` again.  `stream` is standard input: a line that is too long for
the buffer sets its failbit, and `getline()` returns at once from then on.  `asked` is a history
variable: a quit that no start of the worker has undone.

**LuaScript** is a Lua node: `core/lua_script.*`, `core/lua_inlet.*`, `objects/Lua.cpp`, the Lua
side in `lib_objects/lua/rubyk.lua` and `cast_create()` of `core/new_method.h`, which creates it.
A script either does not compile or is a list of statements that declare an inlet or the
outlet, define a function or raise an error; a function is a list of sends and failures.
`node` holds the record of the node (`ok` is `is_ok_`, `sound` is `script_ok_`), its slots and the
globals of its interpreter; `frames` is the stack of functions under way, which grows when the
outlet of the node is linked to its own inlet.  The user edits the file at any time (`WriteFile`)
and the node looks at it again when `due`.

Operators named *Mutant* in a comment are wrong versions of the operator after
them; they are part of no specification.  Each is a plausible bug that the
properties must find.

## 3. The runs

| Run | Shows | Bounds | States |
|---|---|---|---|
| `worker` | order of the queue, nothing overdue, no dangling node, triggers in order, no event dropped, implements `Calendar`, every event served, every round ends; without feedback | 2 nodes, 2 events alive, clock 0..3, intervals 0, 1, 2 | 182 584 |
| `metro` | bangs one beat apart | 2 metros, 4 events, clock 0..5, beats of 1.1, 1.5, 2 and 3 ms | 683 296 |
| `metro_live` | a running metro has its beat pending and bangs again, also after tempos that are not positive | 1 metro, 3 events, clock 0..5 | 19 955 |
| `dispatch` | both ends of a link agree, rightmost first, no link lost, implements `Wiring`; sends serve every inlet once and in order, are no deeper than the patch and end | 3 nodes, 5 links (a fork, a detour, two inlets of one node, a self link), positions 0..4, 3 creations, ids 0..2, 3 nested sends, 1 send per call | 490 921 |
| `planet_links` | the patch is what was asked for, nothing asked for is forgotten, what waits waits for a reason | 2 nodes, one of them with a slot that a script declares later; 3 links, one request that is refused and one with a url that leads nowhere; 3 creations | 815 515 |
| `midi` | a sounding note has its note off in the queue, and ends | 1 output, 1 player, 3 events, clock 0..3, lengths 0 and 2, wait 1, virtual port and one other | 410 128 |
| `text` | what a line asks for and whether it prints an error are what its text says | 2 names, 1 class, 1 value; every form of command, its beginnings and each with a token too many or too few; lines of up to 10 tokens, any sequence of lines | 217 806 |
| `planet_life` | a quit ends the program or leaves it at a terminal where nobody types, and nowhere else; nothing else ends it; no thread is left | the threads of `main.cpp` | 1 047 |
| `lua` | the broken flag follows the latest text, a message ends, a repaired node works again | 2 inlets, 4 texts (sound, garbled, failing half way, without a function), 4 nested calls | 1 272 |
| `worker_feedback` | finding 1 | as `worker`, 3 events, with feedback | |
| `midi_gone` | finding 2 | as `midi` | |
| `lua_broken` | finding 3 | as `lua` | |

Why the bounds are enough.  The hazards of the worker need an event being
triggered and one behind it in the queue, or one that the bang registers; addresses are used
again after an event is deleted, so runs are not limited to two events.  (The proofs of
section 4 hold for any number; the loss of a third event in `worker_feedback` gets a third
address.)  Two nodes tell "its own" from "another's".  The clock
needs a round that is late by two instants and an instant after it.  A metro has
at most one event in the queue unless it is broken, two metros interleave, and
four addresses leave room for a second chain of beats; in `Metro` and `MidiOut`
calls leave one address for the next bang (`CanAllocate`, `Room`), so that the
bound on addresses never stops the worker.  Three addresses let two notes of a
pitch overlap, or a note and the event of a player.

The patch of `dispatch` has an outlet with two inlets of one node and one of another
(every comparison of `operator>=`), a node reached on two ways of different length, and a
node linked to itself; longer cycles recurse in the same way.  Each of the three nodes
is created once, and positions go to 4, so that a node can be moved before and behind every
other; a node that comes back is the business of `planet_links`, where either node is destroyed and created
again, in three creations (what that run shows is proved for any number).  Three nested sends are one more than a patch without cycles
needs here, which is how a mistake shows (`DepthBounded`).

In `text` an open string may go on over as many lines as fit `MaxText`; two names suffice to
tell the registers from each other because what is compared is which name lands where, and
the sentence before is one that sets other registers.  `MaxCalls` = 4 stands for
`LUAI_MAXCCALLS` = 200: what matters is that the limit is reached by a function that sends to
itself, and that the error unwinds through every frame.  In `lua` the functions of one text send and
fail, those of another send twice.

Every run explores its whole state space; nodes and addresses of events are
symmetric where no property is temporal or names one of them.  `CHECK_DEADLOCK FALSE`
is set where the systems may stop: the worker
ends after quit and the clock at its bound, positions and creations run out, the program
ends.  A Lua node can always receive, and `lua` checks for deadlock.

**Fairness.**  `FairSpec`, `MetroFairSpec` and `MidiFairSpec` assume weak fairness of the worker
thread (the operating system schedules it, and a bang, being straight code in an
acyclic patch, returns), of `Start` (`main()` calls it unconditionally) and of
the clock.  No node and no command is assumed to call anything.  Weak fairness
is enough because a step of the thread stays enabled until it is taken.
`DispatchSpec` assumes that a method returns in the end (WF of `Return`) and nothing
of who sends.  `LifeSpec` assumes that threads are scheduled, that a call returns, and
that a thread that waits for the lock again and again gets it (SF of `Lock` and `Call`:
the worker sleeps between rounds and commands wait for input between calls).  Nobody is assumed to type, to close the
terminal or to send a message.  So a quit that comes from elsewhere may leave the program at its terminal: the destructor of the
terminal's command waits for a thread that is reading a line (`core/text_command.rl:310` knows of it).  `QuitEnds` says that this is the only
way in which a quit does not end the program (`LeftAtTheTerminal`), and that a quit typed there always does.
`LuaSpec` assumes that a function that runs goes on (WF of `Program`), that the time to look
at the file comes (WF of `Elapse`) and that messages keep coming (SF of `Receive`); nothing is
assumed of the user, and `Recovers` speaks of a file that is sound and stays so.

## 4. What is proved

**The worker.**  `WorkerProofs` proves, for every set of nodes, addresses and intervals, every
bound of the clock, and with or without feedback: `TypeOK`, `QueueOrdered`,
`NothingOverdue` and `NoDanglingNode` are invariants and `TriggersInOrder` holds
of every step; and, for patches without feedback (`SelfCancel = FALSE`), that
`NoEventDropped` holds.  The assumptions are those named in `Worker`: the bound is
a natural number, intervals are natural numbers, `NoEvent` is no event.

The invariants are not inductive one by one.  The inductive invariant `IInv` adds

- `LoopedOnce`: without it, freeing one entry of the loop could leave another;
- `TimesOrdered`: last trigger <= logical time <= time of the round <= clock, with
  the two in the middle equal except while the queue is worked off.  It is what
  turns the test at the end of `pop_events()`, made with the time of the round,
  into a fact about the logical time (`NothingOverdue`);
- `QueueAfterLast` and `TriggerTimes`: nothing in the queue is before the event
  being triggered, hence the next head is not either (`TriggersInOrder`).

`NoEventDropped` needs one more, `HeadIsRunning`: during a bang the event being
triggered is still the head of the queue.  It holds because a newcomer is after
the logical time and so never placed in front of it, and because without
feedback nobody removes it; then the blind `pop()` after the bang pops the right
one.  With feedback the second half fails, which is finding 1.

With the same invariant the worker implements `Calendar` (`WorkerImplementsCalendar`).  The page of
an instant is the part of the queue due then, without the event that is running, so
every case of a step is a lemma about `Page`: a newcomer goes to the end of its page and to no
other, a cancellation takes the events of a node out of every page, the pop at the end of a
trigger changes none, because its event is off its page already.  With feedback the last one is
false, and so is the refinement.

The lemmas about the queue say what `RegisterEvent`, `FreeEventsFor` and the pop do to a
sorted list (`EventInsertionPoint`, `InsertionKeepsOrder`, `SurvivorsKeepOrder`, and, as sets,
`RegisteredEvents`, `FreedEvents`, `PoppedEvents`); those of `ListProofs` what `InsertAt`, `RemoveAt`
and `Without` do to any sequence.

**The nodes on the worker.**  `MetroProofs` and `MidiOutProofs` carry the invariant of the worker over
to their own calls: every step of theirs moves the queue as a call of the worker may
(`Fits`, `FittingCall`, `FittingReturn`), so `IInv` holds again without being proved
again.  `MetrosKeepTheQueue` says what this gives for metros.  `Metro` and `MidiOut` have their
own calls in the place of the worker's, so they are no refinements of its `Spec`.

`AlwaysRegular` holds for any set of metros, addresses and positive beats, with feedback and early
creation too.  Its invariant says that a metro with an event ahead runs, has only this one and gets it one beat after
its latest bang (`OneBeat`; once the bang is under way, the triggered event is not ahead any more); that the triggered
event, if it is still in the queue, is the head (`RunningFirst`); and that nobody removes it
between the choice of the worker and the bang (`ChosenIsQueued`).  The hypothesis
on the beats is needed: a tempo of zero breaks `OneBeat` (section 5).

`BeatAlwaysPending` is proved for *playable* patches (`Playable`), and each part of it is one of the
smaller findings of section 5: no bang comes back to its own metro, no metro is
created before the worker runs, and a beat is longer than a millisecond.  Beats
that are not positive are allowed.  Its invariant is `ServedInv`: the triggered event is still in
the queue until the worker pops it (`StillThere`), nobody bangs before the worker has started
(`NobodyEarly`), and a running metro has a beat in the queue that is not the one being popped
(`Served`).  Events beyond the bound of the clock are left out by `ScheduleBeat`, and so
`BeatPending` speaks of the beats up to the bound; the bound is any number.

`NoteOffAlwaysPending` has no hypothesis.  Its invariant is that the message of an event stays with its
address as long as the event is queued (`MessagesThere`), that an address is left for the note off
when the bang of a delayed note needs one (`AddressLeft`, about the bound), that the sounding notes are on ports their output reaches
(`NotesReached`), and the property itself.  The note off is forced, which is why `quit()` does
not refuse it, and lost only with its node, whose notes are no longer counted (finding 2).

**The patch bay.**  `PatchProofs` proves, for any nodes, numbers of slots, compatible types and
positions: `PatchTypeOK` and `LinksMutual` are invariants, `NoLinkLost` holds of every step, and
the patch implements `Wiring`: what each operation does to the set of links is a lemma of its own (`SortingKeepsLinks`,
`ConnectMakes`, `DisconnectBreaks`, `DestroyDetaches`).  The inductive invariant is `Tidy`: every list is free of
repetitions and holds slots of the other kind of living nodes, and a slot is in the list of another exactly
when the other is in its own.  It is inductive whatever the order of a list is, so
these four do not depend on `operator>=`, and hold with `Ties` as well.

`RightmostFirst` is proved for `~Ties`, which is what `set_trigger_position()` breaks (only
tests call it).  Its invariant `Rightmost` adds that positions of living nodes and ids of the inlets of a node
differ (`OwnPositions`): `operator>=` is a weak order only then; and that the
lists of outlets are settled in that order.  The hard step is `SetTriggerPosition`: it changes the order of lists that are
stored at other nodes, and only those of the outlets that lead to its own inlets; every other list
must be settled in the new order because it does not contain the node.

`ListProofs` has what both rest on: a push into a settled list leaves it settled
(for a weak order), a sort of *any* list settles it, and push, remove and sort
keep its elements, each once.  A sort is a recursive function over the containers taken out; since
induction theorems that take a predicate are beyond the provers, the inductions go through the
least element of a set of counterexamples (`UpTo`), and the recursive functions through
the theorem on their existence (`RecursionExists`).

**The planet's links.**  `PlanetLinksProofs` proves `NothingForgotten` and `PendingForAReason` for any urls, nodes and
requests, with or without `Repeats`.  Given `Tidy`, a list of pending links that holds requests only, and `Grown`, which says that
what is found belongs to living nodes and that a node is found together with its first slots, the two are
inductive together (`Asked`): a pending link has an end that is missing or newer than the latest
retry (`strays`), or else the retry would have made it.  `Grown` is why it does not matter whether a link is named by its slots or by its nodes
(`FoundEnds`), and why a link that is found missing is not made either (`LinksFound`).  What carries it is a lemma about `Retry`, an
induction over the pending links: it keeps those with an end missing, in their order, and connects the others, so it neither
drops a link nor leaves one that can be made.  `WiredAsAsked` needs the other direction as well, that
a link made or pending was asked for (`Account`), and that none is pending twice; it is proved for `~Repeats` and for requests that name
each link in one way (`OneName`), which the two findings of section 5 on `||` show to be needed.

`RightmostFirst` is proved here without the assumption `~Ties` that it needs for `Patch`: nodes that commands create get
positions that grow and nobody moves them, so that no two living nodes share one (`OwnPositions`, from `Aged`), which the theorem states as well.

**Sending.**  A step of `Dispatch` is one of `Patch` or leaves the patch alone, by its definition, so all of the above
holds while values are sent.  `PatchProofs` goes on to prove that `ChainOfCalls` is an invariant, that
`ServedOnceInOrder` is (for `~Ties`), and that `DepthBounded` is, for a finite set of nodes.  The
inductive invariant `Sending` is `Tidy` and `Stacked`: every walk on the stack is inside the list of its
outlet, what is due is the rest of that list, and it was begun by the node that the walk below
serves.  That no list moves under a walk is the point: only `Command` changes lists, and it
waits for the empty stack.  For `DepthBounded`, levels grow strictly along links and therefore along the stack; so the nodes
of the stack and the one served last are all different, and the stack is shorter than the nodes are many.

**The language.**  `CommandProofs` proves `CallsAsWritten` and `ErrorsPrinted` for any names, classes, values
and lines, of any length.  Both compare the machine with a definition of the language that does not mention it, so
there are three things to show.

- *What was read so far.*  For each state of the machine a predicate (`AtWord`, `AtFromPort`, `AtNewArgs`... 24 of
  them, together `Within`) says what text took the machine there and what its registers hold: in `AtFrom`, say, the
  text is the node in `from_node_`, a `~` and the name in `token_`, and `to_port_` is empty.  `Over` is the same of the
  end of a line.  `WithinReads` is one step of the machine, from every state with every token: that is where the
  registers that `clear()` leaves alone (`method_`, `from_node_`, `to_node_`) turn out to be set
  before they are read, and the ones a form of command does not set to be empty.  `TextInduction` makes a line of it.
- *Nothing else is asked for.*  `Over` gives the call and one of its spellings as a beginning of the line.
- *Nothing is missed.*  A line that begins with a spelling of a call takes the machine to the state in which the call is
  made: `Leads(a, w, b)` says that the text `w` leads from state `a` to state `b`, whatever is in the registers.  It composes
  (`LeadsBoth`), so each form of command is a chain of short ones.  `IsSilent` and the comments get the same.

The invariant of the specification, `CommandInv`, is that the machine is what a fresh one becomes when it reads (`Run`) what
was said since the last command, and that a string was open at every line feed inside of that.  The
second half is what lets a command go over several lines, and nothing but a string.  The three steps
above then speak of one text and no longer of lines.

**The threads.**  `CommandProofs` proves `EndsWhenAsked` and `AllThreadsEnded`, for which no fairness is needed.  Its inductive invariant says who may hold the lock (`HolderIsInside`), what the
worker and the commands may be doing at each stage of `main()` (`WorkerStage`, `CommandStage`), and that
a worker told to stop was told so by a quit (`QuitRemembered`).

**The scripts.**  `LuaProofs` proves `LuaTypeOK` and `LatestDecides` for any names, scripts of any
length and any limit of nested calls.  The invariant `LuaInv` adds to the types that the flag of the node and the flag of
the script agree after any evaluation but the one at the creation (`FlagsAgree`; finding 3 is the exception).  The lemma
it rests on is an induction over the statements of a script: an evaluation, however far it gets, keeps the inlets that
were there (`EvalGrows`), so that a link made before it, or a message in the middle of which it happens,
still leads to a slot.

Every invariant and every action property that a run checks, and both refinements, are stated by a theorem.  Checked with
TLC and not proved is what is out of the prover's reach, liveness: `EveryEventServed`, `RoundEnds`,
`KeepsBanging`, `NotesEnd`, `DispatchEnds`, `QuitEnds`, `MessageEnds`, `Recovers`.  Some theorems have
hypotheses, which the instances of the runs meet; each is named with its theorem above, and what it excludes is
one of the findings of section 5, or a set of nodes that is not finite.

## 5. Findings

1. `core/worker.cpp:71` (`worker_feedback`): after the bang of an event,
   `pop_events()` pops the head of the queue, whatever it is.  When the bang led
   to `remove_my_events()` of its own node, the head is another event, possibly
   in the future and of another node, and it is lost.
2. `core/node.cpp:38` (`midi_gone`): the destructor of the node triggers the forced
   events of an output when `~MidiOut()` is over: `bang()` is `Node`'s by then, and a
   note that sounds is never ended.
3. `core/new_method.h:130` (`lua_broken`): a node is created in the order init, parameters, start.
   What the parameters return is dropped, and `is_ok_` is set from `start()` alone: a Lua node whose script
   fails at creation counts as sound, and the functions the script defined before its error are called.

Smaller ones that have no run of their own, and how to see them:

- `objects/Metro.cpp:84`: a tempo of zero or less stops the metro without removing its event; started
  again before that event is due, the metro has two chains of beats: `Regular` fails in `MCMetro.cfg`
  with one node and `Beat <- MCBeatOrZero`.
- `objects/Metro.cpp:89`: the clamp for fast tempos gives 0.015 ms, truncated to 0, which the worker refuses:
  the metro is silent for ever: `BeatPending` fails in `MCMetroLive.cfg` with `Beat <- MCBeatOrFast`.
- `objects/Metro.cpp:91`: finding 1 as a metro meets it.  A bang that comes back to
  its own `tempo` loses the beat just registered: `BeatPending` fails in
  `MCMetroLive.cfg` with `SelfCancel = TRUE` and `Beat <- MCBeat`.
- `core/worker.h:80`: the startup file is parsed before the worker starts, while
  `should_run_` is false (as far as oscit is known), and the first beat of a metro is
  refused: `BeatPending` fails in `MCMetroLive.cfg` with `EarlyCreate = TRUE`.  In the same way the start
  undoes a quit in the startup file: `QuitEnds` is about quits that come later.
- `core/text_command.rl:225`: pending links are made only by the
  text command that creates a node, and only when its start succeeded: `PendingMeansMissing` of
  `PlanetLinks` fails in `MCPlanetLinks.cfg`.  A slot that a script declares later (`core/lua_script.cpp:153`) makes none either.
- `core/planet.cpp:74`: `||` on two nodes that exist does not look into the pending links; a link that still
  waits there, because its node came without a retry, is made by the next retry although it was withdrawn.
  `WiredAsAsked` leaves these links (`revived`) out, and fails when `Unlink` does not add to them.
- `core/planet.cpp:123`: a link asked for twice while pending is pending twice, and
  one unlink removes one: `WiredAsAsked` fails with `Repeats = TRUE`.
- `core/planet.cpp:119`: a pending link is found again by its urls only, and a link
  has several: `WiredAsAsked` fails when `Request` names one link in two ways.
- `core/slot.cpp:68`: slots of different nodes at one position compare false both
  ways; insertion stops there and does not reach the slots of its own node, whose
  order is then accidental: `RightmostFirst` fails in `MCDispatch.cfg` with `Ties = TRUE`.
- `core/node.cpp:50`: a new trigger position sorts the lists that lead to the
  node's inlets, not those its outlets are in.  `InOrder` fails for the lists of
  inlets in the run `dispatch`.  They are used for display only.
- `core/text_command.rl:310`: a quit over OSC does not end the program while the terminal waits for a
  line: `QuitEnds` leaves this outcome open, and fails in `MCPlanetLife.cfg` without `[]LeftAtTheTerminal`.
- `core/text_command.h:167`: of a line longer than 1022 characters the beginning is executed as a command; then
  the stream has its failbit and `listen()` spins on empty lines until it is told to stop (`ReadNothing`).
- `core/text_command.rl:190`: a link or a creation is executed at the blank after it; when the rest of the line
  is no comment, it is done *and* reported as a syntax error.  `CallsAsWritten` and `ErrorsPrinted` say so.
- `main.cpp:40`: commands may still call the planet after `~Worker` destroyed the mutex they lock, because they
  are deleted later, by `~Root`.  In the model the mutex goes on working.
- `core/lua_script.cpp:98`: the message of a failed call stays on the Lua stack until a call succeeds.
- `lib_objects/midi/MidiOut.cpp:41`: a delayed note counts the present time twice; a
  port that is closed keeps the notes that sound on it.  A port that cannot be opened when the node is created
  leaves it working, as in finding 3; `MidiInit` starts from nodes whose port was opened later.

## 6. Assumptions and what is left out

oscit is a git submodule and not in the repository.  The models assume of it:

- a `Thread` is a mutex, its `should_run_` is false until the thread starts, then
  true, and `quit()` clears it; `lock()` gives the lock to one thread at a time; `kill()` and the destructor
  clear the flag, send a signal and wait for the end of the thread; the signal ends a wait for messages and
  not a wait for a line;
- `Root::call` runs the method of an object with the lock that is its context;
- the tree deletes the children of an object with it; `object_at` finds an object that is
  in the tree; types are compatible or not, for ever;
- a `Script` has a method `script` that sets its text and evaluates it, a method `file` that reads a file and does
  the same, and `reload_script` looks at the file when the reload time is over and evaluates it when it has changed.

Left out on purpose:

- `pop_all_events()` has no caller.
- `loop_me()` and `unloop_me()` from inside the bang of a *looped* node, and the
  destruction of a node by its own bang: `trigger_loop_events()` would go on with
  an erased iterator, which is undefined.  The guards `pc # "bang"` and
  `n # event.node` exclude them.
- freeing a forced event triggers it.  The only object with forced events is MidiOut,
  nothing but its destructor frees them, and that trigger does nothing (finding 2).  So `RemoveMyEvents` of `Worker` is not for nodes
  with a forced event in the queue (`NoneForced`), and `Destroy` triggers none.
- `~Node()` skips every other slot because each `~Slot()` erases from the vector it
  walks.  The slots it skips go with the tree under the same lock, so `DestroyNode`
  is one step.
- `execute_method()` and `execute_class_method()`: the grammar no longer reaches them.
- hashes of parameters, floats, escapes and the results that are printed, in text commands; they are one token each.
- the conversion of values between Lua and rubyk, and several outlets of a script; statements of a script that send
  while it is evaluated (`Do`): they would reach other methods, and the node itself, in the middle of `eval_script()` and under the
  flag of the text before.
- urls of objects that are neither slots nor nodes, which `Planet::link` refuses at once.
- the command's own lock, which `listen()` holds around `parse()` and no other code takes (`ReadLine`), and the empty line that
  `getline()` may return before the end of the input (`ReadEnd`).
- Value, Print, NoteOut, OscMap, Group: each keeps one value and sends or prints it, which is a method that sends
  in `Dispatch`.
- the class finder: a lookup by name, with `dlopen` behind it.
- wording, JSON, OSC, inspection and printing.

### Not modelled

Most of the repository's lines are not the program's: Lua 5.1 (`lib/lua`), RtMidi, cxxtest and libsvm are
third-party; `core/off` and `objects_off` (with `svm`, `gllua`, `Turing`...) hold the objects of an earlier version,
no build file compiles them and they do not fit the present headers; `core/observer.h` and
`core/tmatrix.h` are included by nothing; `core/text_command.cpp` is generated from the grammar that is modelled.
The modules cover the code that is compiled and keeps state; what remains of it are headers, tables of methods,
printing and JSON.

## 7. Plan

Modelled: `OrderedList`, `Worker` with `Calendar`, `Metro`, `MidiOut`, `Patch` with
`Wiring`, `Dispatch`, `PlanetLinks`, `TextCommand`, `PlanetLife`, `LuaScript`.  Proved: the worker, the patch bay with
its refinement, sending, the planet's links, the metros, the outputs, the scripts,
the language of the commands, the threads.

Next, most important first:

1. the class finder, and the creation of an output with a port that fails;
2. an abstract specification of the planet's links that `PlanetLinks` implements.
