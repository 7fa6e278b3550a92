----------------------------- MODULE PlanetLife -----------------------------
(***************************************************************************)
(* The threads of a planet from main() to its end (main.cpp, the           *)
(* constructor of core/planet.h, Worker::start and loop in core/worker.h,  *)
(* TextCommand::listen in core/text_command.rl): the main thread builds    *)
(* the planet, starts the commands and the worker, waits for the worker    *)
(* and destroys everything; the terminal and the OSC server call the       *)
(* planet, which is guarded by the worker's mutex.                         *)
(*                                                                         *)
(* Threads are oscit's (external), as the code uses them: start_thread     *)
(* sets should_run and runs the function, kill() clears it, signals the    *)
(* thread and waits for its end.  The signal ends a wait for OSC messages  *)
(* but not a wait for a line (text_command.rl:310).                        *)
(***************************************************************************)
EXTENDS Naturals

CONSTANTS Terminal, Osc, Worker, Nobody     \* the threads; no thread

Commander == {Terminal, Osc}

ASSUME ThreadAssumption ==
    /\ Terminal # Osc /\ Worker # Nobody
    /\ Commander \cap {Worker, Nobody} = {}

VARIABLES main,         \* where the main thread is
          thread,       \* where each of the other threads is
          should_run,   \* should_run_ of each of them
          commands,     \* the commands of the tree
          deleting,     \* the one that ~Root is deleting
          request,      \* what the command thread is about to ask for
          stream,       \* the state of standard input
          mutex,        \* who holds the planet's lock
          asked         \* history: a quit was done and not undone by a start

deletion == <<commands, deleting>>
lifeVars == <<main, thread, should_run, deletion, request, stream, mutex, asked>>

-----------------------------------------------------------------------------
(* The main thread.                                                        *)

\* Planet(argc, argv): a command without a thread parses the startup file;
\* a quit in it is a call like any other.
ParseStartupFile ==
    /\ main = "startup"
    /\ main' = "adopt"
    /\ asked' \in BOOLEAN
    /\ UNCHANGED <<thread, should_run, deletion, request, stream, mutex>>

\* adopt_command(): the thread of the command starts.
AdoptCommand(c) ==
    /\ main = "adopt"
    /\ thread[c] = "none"
    /\ c = Osc => thread[Terminal] # "none"
    /\ thread' = [thread EXCEPT ![c] = "waiting"]
    /\ should_run' = [should_run EXCEPT ![c] = TRUE]
    /\ commands' = commands \cup {c}
    /\ UNCHANGED <<main, deleting, request, stream, mutex, asked>>

\* venus.start(): whatever was asked before, the worker is to run.
StartWorker ==
    /\ main = "adopt"
    /\ \A c \in Commander : thread[c] # "none"
    /\ main' = "join"
    /\ thread' = [thread EXCEPT ![Worker] = "sleeping"]
    /\ should_run' = [should_run EXCEPT ![Worker] = TRUE]
    /\ asked' = FALSE
    /\ UNCHANGED <<deletion, request, stream, mutex>>

\* venus.join(), and the destruction of the planet begins: ~Worker, then the
\* pending links, then ~Root with the commands.
Join ==
    /\ main = "join"
    /\ thread[Worker] = "ended"
    /\ main' = "destroy"
    /\ UNCHANGED <<thread, should_run, deletion, request, stream, mutex, asked>>

\* ~Root deletes its commands, one after the other, in whatever order the
\* tree keeps them: ~Thread kills the thread ...
KillCommand(c) ==
    /\ main = "destroy"
    /\ deleting = Nobody
    /\ c \in commands
    /\ deleting' = c
    /\ should_run' = [should_run EXCEPT ![c] = FALSE]
    /\ UNCHANGED <<main, thread, commands, request, stream, mutex, asked>>

\* Mutant: kill() does not wait for the thread.
DeleteAtOnce ==
    /\ deleting # Nobody
    /\ commands' = commands \ {deleting}
    /\ deleting' = Nobody
    /\ UNCHANGED <<main, thread, should_run, request, stream, mutex, asked>>

\* ... and waits for its end.
DeleteCommand ==
    /\ deleting # Nobody
    /\ thread[deleting] = "ended"
    /\ commands' = commands \ {deleting}
    /\ deleting' = Nobody
    /\ UNCHANGED <<main, thread, should_run, request, stream, mutex, asked>>

\* main() returns.
Finish ==
    /\ main = "destroy"
    /\ commands = {}
    /\ main' = "done"
    /\ UNCHANGED <<thread, should_run, deletion, request, stream, mutex, asked>>

-----------------------------------------------------------------------------
(* The worker.                                                             *)

\* loop(), up to the lock; the first one does not look at should_run_.
Lock ==
    /\ thread[Worker] = "sleeping"
    /\ mutex = Nobody
    /\ mutex' = Worker
    /\ thread' = [thread EXCEPT ![Worker] = "round"]
    /\ UNCHANGED <<main, should_run, deletion, request, stream, asked>>

\* loop(), from the unlock on, and start_worker().
Unlock ==
    /\ thread[Worker] = "round"
    /\ mutex' = Nobody
    /\ thread' = [thread EXCEPT ![Worker] =
                    IF should_run[Worker] THEN "sleeping" ELSE "ended"]
    /\ UNCHANGED <<main, should_run, deletion, request, stream, asked>>

-----------------------------------------------------------------------------
(* The commands.                                                           *)

\* getline() and parse(): a line with a call or a quit.  A line is done
\* also when the thread was told to stop while it waited.  "quit" stops this
\* thread itself before it asks the planet.  (listen() holds the command's own
\* lock meanwhile, which is not the planet's and which no other code takes.)
ReadLine(what) ==
    /\ thread[Terminal] = "waiting"
    /\ stream = "good"
    /\ request' = [request EXCEPT ![Terminal] = what]
    /\ thread' = [thread EXCEPT ![Terminal] = "asking"]
    /\ should_run' = [should_run EXCEPT ![Terminal] = @ /\ what # "quit"]
    /\ UNCHANGED <<main, deletion, stream, mutex, asked>>

\* A line that does not fit the buffer: its beginning is parsed, and the
\* stream fails for good.
ReadLongLine ==
    /\ thread[Terminal] = "waiting"
    /\ stream = "good"
    /\ stream' = "failed"
    /\ request' = [request EXCEPT ![Terminal] = "call"]
    /\ thread' = [thread EXCEPT ![Terminal] = "asking"]
    /\ UNCHANGED <<deletion, main, should_run, mutex, asked>>

\* Mutant: the end of the input quits the planet.
ReadEndQuits ==
    /\ thread[Terminal] = "waiting"
    /\ stream = "good"
    /\ thread' = [thread EXCEPT ![Terminal] = "ended"]
    /\ should_run' = [should_run EXCEPT ![Worker] = FALSE]
    /\ UNCHANGED <<main, deletion, request, stream, mutex, asked>>

\* The end of the input: getline() is false, the thread ends.  (The empty line
\* that it returns before, when the input ends with a whole line, calls
\* nothing: it is not a step of its own.)
ReadEnd ==
    /\ thread[Terminal] = "waiting"
    /\ stream = "good"
    /\ thread' = [thread EXCEPT ![Terminal] = "ended"]
    /\ UNCHANGED <<main, should_run, deletion, request, stream, mutex, asked>>

\* A stream that failed is not at its end: getline() returns an empty line
\* at once, for as long as the thread may run.
ReadNothing ==
    /\ thread[Terminal] = "waiting"
    /\ stream = "failed"
    /\ thread' = [thread EXCEPT ![Terminal] = "answered"]
    /\ UNCHANGED <<main, should_run, deletion, request, stream, mutex, asked>>

\* The OSC server gets a message.
ReceiveMessage(what) ==
    /\ thread[Osc] = "waiting"
    /\ should_run[Osc]
    /\ request' = [request EXCEPT ![Osc] = what]
    /\ thread' = [thread EXCEPT ![Osc] = "asking"]
    /\ UNCHANGED <<main, should_run, deletion, stream, mutex, asked>>

\* The OSC server is told to stop.
StopServer ==
    /\ thread[Osc] = "waiting"
    /\ ~should_run[Osc]
    /\ thread' = [thread EXCEPT ![Osc] = "ended"]
    /\ UNCHANGED <<main, should_run, deletion, request, stream, mutex, asked>>

\* root_->call(): the method runs with the planet's lock.  (A command may
\* still call while main() destroys the planet and the mutex is gone already;
\* what that does is undefined, here the mutex goes on working.)
Call(c) ==
    /\ thread[c] = "asking"
    /\ mutex = Nobody
    /\ mutex' = c
    /\ thread' = [thread EXCEPT ![c] = "calling"]
    /\ UNCHANGED <<main, should_run, deletion, request, stream, asked>>

\* The call returns.  That of a quit is Planet::quit(): worker_.quit().
Return(c) ==
    /\ thread[c] = "calling"
    /\ mutex' = Nobody
    /\ thread' = [thread EXCEPT ![c] = "answered"]
    /\ should_run' = [should_run EXCEPT ![Worker] = @ /\ request[c] # "quit"]
    /\ asked' = (asked \/ request[c] = "quit")
    /\ UNCHANGED <<main, deletion, request, stream>>

\* Mutant: the loop does not look at should_run.
AgainForEver(c) ==
    /\ thread[c] = "answered"
    /\ thread' = [thread EXCEPT ![c] = "waiting"]
    /\ UNCHANGED <<main, should_run, deletion, request, stream, mutex, asked>>

\* The condition of the loop of listen(); the OSC server goes on waiting.
Again(c) ==
    /\ thread[c] = "answered"
    /\ thread' = [thread EXCEPT ![c] =
                    IF c = Osc \/ should_run[c] THEN "waiting" ELSE "ended"]
    /\ UNCHANGED <<main, should_run, deletion, request, stream, mutex, asked>>

-----------------------------------------------------------------------------
LifeInit ==
    /\ main = "startup"
    /\ thread = [t \in Commander \cup {Worker} |-> "none"]
    /\ should_run = [t \in Commander \cup {Worker} |-> FALSE]
    /\ commands = {}
    /\ deleting = Nobody
    /\ request = [c \in Commander |-> "call"]
    /\ stream = "good"
    /\ mutex = Nobody
    /\ asked = FALSE

Main == \/ ParseStartupFile \/ StartWorker \/ Join \/ DeleteCommand \/ Finish
        \/ \E c \in Commander : AdoptCommand(c) \/ KillCommand(c)

\* What the user of the terminal does.
Type == \/ \E what \in {"call", "quit"} : ReadLine(what)
        \/ ReadLongLine
        \/ ReadEnd

LifeNext == \/ Main \/ Type
            \/ Lock \/ Unlock
            \/ ReadNothing \/ StopServer
            \/ \E what \in {"call", "quit"} : ReceiveMessage(what)
            \/ \E c \in Commander : Call(c) \/ Return(c) \/ Again(c)

\* Threads are scheduled.  The worker sleeps without the lock, so whoever
\* waits for it gets it in the end (SF); a bang and a call return.
ThreadFairness ==
    /\ WF_lifeVars(Main)
    /\ SF_lifeVars(Lock) /\ WF_lifeVars(Unlock)
    /\ WF_lifeVars(ReadNothing) /\ WF_lifeVars(StopServer)
    /\ \A c \in Commander :
          SF_lifeVars(Call(c)) /\ WF_lifeVars(Return(c)) /\ WF_lifeVars(Again(c))

\* The user may leave the terminal alone: nothing makes anyone type.
LifeSpec == LifeInit /\ [][LifeNext]_lifeVars /\ ThreadFairness

-----------------------------------------------------------------------------
(* Properties.                                                             *)

\* ~Root waits for the terminal, which waits for a line: "Readline won't quit
\* with a SIGTERM" (text_command.rl:310).
LeftAtTheTerminal ==
    /\ main = "destroy"
    /\ deleting = Terminal
    /\ thread[Terminal] = "waiting"
    /\ stream = "good"

\* planet.cpp:48 "Stop all operations and quit.": a quit that is not undone
\* by the start of the worker ends the program, from wherever it comes and
\* whatever the others ask for meanwhile, or leaves it for ever at a terminal
\* where nobody types: there is no other place to hang.  A quit that is typed
\* at the terminal ends the program.
QuitEnds ==
    /\ asked /\ main # "adopt" ~> main = "done" \/ []LeftAtTheTerminal
    /\ main \in {"join", "destroy"} /\ thread[Terminal] = "asking"
          /\ request[Terminal] = "quit" ~> main = "done"

\* Nobody but a quit ends the program: neither the end of the input nor a
\* stream that failed.
EndsWhenAsked == main \in {"destroy", "done"} => asked

\* main.cpp:40: when main() returns no thread of the planet is left, and the
\* planet's lock is free when the last of them ends.
AllThreadsEnded ==
    main = "done" => /\ \A t \in Commander \cup {Worker} : thread[t] = "ended"
                     /\ mutex = Nobody
=============================================================================
