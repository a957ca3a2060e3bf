------------------------------- MODULE Process -------------------------------
(***************************************************************************)
(* cppprocess::process composed with SignalChild: start() of one command   *)
(* A, or of a pipeline A | B, with data for the input of A (io_data_pipe)  *)
(* and a capture of the output of the last command (io_capture_pipe), then *)
(* wait(), which runs the communicator until the children, the input and   *)
(* the output are all done, in whatever order that happens.                *)
(*                                                                         *)
(* A pipe is the number of bytes in it and the processes that hold its     *)
(* read and write ends: a child inherits every end its parent has open     *)
(* when it is forked and execute_command() closes some of them.            *)
(***************************************************************************)
EXTENDS SignalChild

CONSTANTS A, B,         \* the first command and the one its output goes to
          PipeSize,     \* capacity of a pipe
          ReadSize,     \* size of the buffer of process_read()
          Inputs,       \* sizes of the data for the input of A
          MaxOwn        \* bytes a command outputs on its own

ASSUME ProcessAssumption ==
    /\ A # B /\ {A, B} \subseteq Children /\ "parent" \notin Children
    /\ PipeSize \in Nat \ {0} /\ Inputs \subseteq Nat /\ Inputs # {}
    /\ MaxOwn \in Nat
    /\ ReadSize \in Nat /\ ReadSize >= PipeSize  \* both are 64Kb

VARIABLES main,         \* where the parent is in start() and wait()
          setup,        \* what the application set up
          pipe,         \* the pipes
          execd,        \* children past execute_command()
          buf,          \* bytes a child has to write
          status,       \* the status a child exits with
          conns,        \* the pipes in the list of the communicator
          f_pos,        \* bytes of the input written so far
          f_output,     \* bytes captured
          written,      \* history: bytes the last command wrote
          f_running, f_child, f_exit_code,  \* the process objects
          done          \* history: calls of child_done()

pvars == <<main, setup, pipe, execd, buf, status, conns, f_pos, f_output,
           written, f_running, f_child, f_exit_code, done>>
allvars == <<vars, pvars>>

Parent == "parent"
Last == IF setup.next THEN B ELSE A
Pipes == {"in", "mid", "out"}

\* The pipes that are the stdin and the stdout of a child.
Stdin(c) == IF c = B THEN "mid" ELSE "in"
Stdout(c) == IF c = Last THEN "out" ELSE "mid"
Exists(p) == CASE p = "in" -> setup.input
               [] p = "out" -> setup.output
               [] OTHER -> setup.next

\* close() of both ends of some of the pipes by process q.
CloseEnds(pipes, ps, q) ==
    [p \in Pipes |-> [data |-> pipes[p].data,
                      w |-> IF p \in ps THEN pipes[p].w \ {q} ELSE pipes[p].w,
                      r |-> IF p \in ps THEN pipes[p].r \ {q} ELSE pipes[p].r]]

---------------------------------------------------------------------------
(* start() *)

\* fork(): the child has what the parent has. Then close_other() by the
\* parent: the read end of the input, the write end of the output.
ForkEnds(c) ==
    [p \in Pipes |->
       LET w == pipe[p].w \cup (IF Parent \in pipe[p].w THEN {c} ELSE {})
           r == pipe[p].r \cup (IF Parent \in pipe[p].r THEN {c} ELSE {})
       IN  [data |-> pipe[p].data,
            w |-> IF p = "out" /\ c = Last THEN w \ {Parent} ELSE w,
            r |-> IF p = "in" /\ c = A THEN r \ {Parent} ELSE r]]

\* start_process(): prepare_input() and prepare_output() add the pipes of the
\* application to the communicator; fork() may fail.
StartProcess(c, ok) ==
    /\ conns' = conns \cup {p \in {"in", "out"} :
                    Exists(p) /\ (p = "in" => c = A) /\ (p = "out" => c = Last)}
    /\ \/ /\ ok
          /\ proc' = [proc EXCEPT ![c] = "running"]
          /\ forked' = forked \cup {c}
          /\ f_child' = [f_child EXCEPT ![c] = TRUE]
          /\ f_running' = [f_running EXCEPT ![c] = TRUE]
       \/ ~ok /\ UNCHANGED <<proc, forked, f_child, f_running, pipe>>
    /\ UNCHANGED <<stops, owner, blocked, pending, missed, f_listeners, added,
                   f_count, in_comm, loop, setup, execd, buf, status, f_pos,
                   f_output, written, f_exit_code, done>>

\* start(): the first process, then the next one, after which the parent has
\* no use for the pipe between them (forked() of direct_output_to_input_pipe
\* closes both ends). -1 is returned as soon as a fork() fails.
Start(ok) ==
    /\ main = "new"
    /\ StartProcess(A, ok)
    /\ main' = IF ~ok THEN "failed" ELSE IF setup.next THEN "next" ELSE "started"
    /\ ok => pipe' = ForkEnds(A)

StartNext(ok) ==
    /\ main = "next"
    /\ StartProcess(B, ok)
    /\ main' = IF ok THEN "started" ELSE "failed"
    /\ ok => pipe' = CloseEnds(ForkEnds(B), {"mid"}, Parent)

\* Mutant: B keeps the write end of the input of A.
ClosedByCommandOwn(c) ==
    (IF c = A THEN {"in"} ELSE {}) \cup {"mid"} \cup (IF c = Last THEN {"out"} ELSE {})

\* execute_command(): the stdin and the stdout are duplicated, then the input
\* of the first process, the own input and output and the pipe between the
\* processes are closed. The capture of B was created before A was forked: A
\* keeps both of its ends.
ClosedByCommand(c) ==
    {"in", "mid"} \cup (IF c = Last THEN {"out"} ELSE {})

ExecuteCommand(c) ==
    /\ proc[c] = "running"
    /\ c \notin execd
    /\ execd' = execd \cup {c}
    /\ pipe' = LET closed == CloseEnds(pipe, ClosedByCommand(c), c)
               IN  [p \in Pipes |->
                     [data |-> closed[p].data,
                      w |-> closed[p].w \cup {q \in {c} : p = Stdout(c) /\ Exists(p)},
                      r |-> closed[p].r \cup {q \in {c} : p = Stdin(c) /\ Exists(p)}]]
    /\ UNCHANGED <<vars, main, setup, buf, status, conns, f_pos, f_output,
                   written, f_running, f_child, f_exit_code, done>>

---------------------------------------------------------------------------
(* The commands: each copies its input to its output *)

ChildRead(c) ==
    /\ proc[c] = "running" /\ c \in execd
    /\ buf[c] = 0
    /\ Exists(Stdin(c)) /\ pipe[Stdin(c)].data > 0
    /\ pipe' = [pipe EXCEPT ![Stdin(c)].data = @ - 1]
    /\ buf' = [buf EXCEPT ![c] = 1]
    /\ UNCHANGED <<vars, main, setup, execd, status, conns, f_pos, f_output,
                   written, f_running, f_child, f_exit_code, done>>

ChildWrite(c) ==
    /\ proc[c] = "running" /\ c \in execd
    /\ buf[c] > 0
    /\ \/ /\ Exists(Stdout(c))
          /\ pipe[Stdout(c)].r # {}
          /\ pipe[Stdout(c)].data < PipeSize
          /\ pipe' = [pipe EXCEPT ![Stdout(c)].data = @ + 1]
       \/ ~Exists(Stdout(c)) /\ UNCHANGED pipe
    /\ buf' = [buf EXCEPT ![c] = @ - 1]
    /\ written' = IF c = Last THEN written + 1 ELSE written
    /\ UNCHANGED <<vars, main, setup, execd, status, conns, f_pos, f_output,
                   f_running, f_child, f_exit_code, done>>

\* The kernel closes the ends of a child that dies.
ChildDies(c, code, s) ==
    /\ Die(c, code)
    /\ pipe' = CloseEnds(pipe, Pipes, c)
    /\ status' = [status EXCEPT ![c] = s]
    /\ UNCHANGED <<main, setup, execd, buf, conns, f_pos, f_output, written,
                   f_running, f_child, f_exit_code, done>>

\* A command ends at the end of its input, of SIGPIPE, or when it likes; a
\* command that could not be executed exits with 1.
ChildEnds(c) ==
    /\ c \in execd
    /\ \/ /\ buf[c] = 0
          /\ Exists(Stdin(c)) => pipe[Stdin(c)].data = 0 /\ pipe[Stdin(c)].w = {}
          /\ ChildDies(c, "CLD_EXITED", 0)
       \/ /\ buf[c] > 0 /\ Exists(Stdout(c)) /\ pipe[Stdout(c)].r = {}
          /\ ChildDies(c, "CLD_KILLED", 13)

ChildFails(c) == ChildDies(c, "CLD_EXITED", 1) \/ ChildDies(c, "CLD_KILLED", 9)

---------------------------------------------------------------------------
(* wait() and the communicator *)

\* The processes must have been started; the singleton is created if this is
\* the first use of it.
Wait ==
    /\ main = "started"
    /\ \A c \in {A, Last} : f_child[c] /\ f_running[c]
    /\ \/ owner = "child" /\ UNCHANGED <<owner, blocked>>
       \/ owner = "none" /\ owner' = "child" /\ blocked' = TRUE
    /\ main' = "listen"
    /\ UNCHANGED <<proc, stops, pending, missed, list, loop, setup, pipe, execd,
                   buf, status, conns, f_pos, f_output, written, f_running,
                   f_child, f_exit_code, done>>

\* add_listener() for the first process, then for the next one; only then
\* the loop runs.
Listen(c) ==
    /\ main = IF c = A THEN "listen" ELSE "listen next"
    /\ AddListener(c, {"EXITED", "SIGNALED"})
    /\ main' = IF c = Last THEN "run" ELSE "listen next"
    /\ UNCHANGED <<setup, pipe, execd, buf, status, conns, f_pos, f_output,
                   written, f_running, f_child, f_exit_code, done>>

\* Mutant: the status is taken for an exit code whatever ended the child.
ExitCodeAlways(c, code) == status[c]

\* signal_child as in SignalChild; the callback is child_done().
ExitCode(c, code) == IF IsExited(code) THEN status[c] ELSE -1
SignalEvent ==
    /\ main = "run"
    /\ \/ /\ Poll \/ Process \/ WaitId \/ Return \/ Release
          /\ UNCHANGED <<f_exit_code, f_child, done>>
       \/ /\ Call
          /\ f_exit_code' = [f_exit_code EXCEPT
                               ![info.pid] = ExitCode(info.pid, info.code)]
          /\ f_child' = [f_child EXCEPT ![info.pid] = FALSE]
          /\ done' = [done EXCEPT ![info.pid] = @ + 1]
    /\ UNCHANGED <<main, setup, pipe, execd, buf, status, conns, f_pos,
                   f_output, written, f_running>>

\* io_pipe::process_done(): close both ends, leave the communicator.
PipeDone(p) == /\ pipe' = CloseEnds(pipe, {p}, Parent)
               /\ conns' = conns \ {p}

\* Mutant: the end of the output comes before what is left in it.
CaptureHupFirst ==
    /\ main = "run" /\ pc = "idle"
    /\ "out" \in conns
    /\ \/ /\ pipe["out"].w = {}
          /\ PipeDone("out")
          /\ UNCHANGED f_output
       \/ /\ pipe["out"].w # {} /\ pipe["out"].data > 0
          /\ f_output' = f_output + pipe["out"].data
          /\ pipe' = [pipe EXCEPT !["out"].data = 0]
          /\ UNCHANGED conns
    /\ UNCHANGED <<vars, main, setup, execd, buf, status, f_pos, written,
                   f_running, f_child, f_exit_code, done>>

\* The output: process_read() first when there is something to read, and
\* process_hup() in the same turn when nobody can write any more.
CaptureEvent ==
    /\ main = "run" /\ pc = "idle"
    /\ "out" \in conns
    /\ pipe["out"].data > 0 \/ pipe["out"].w = {}
    /\ LET n == IF pipe["out"].data < ReadSize THEN pipe["out"].data ELSE ReadSize
       IN  /\ f_output' = f_output + n
           /\ \/ pipe["out"].w = {} /\ PipeDone("out")
              \/ /\ pipe["out"].w # {}
                 /\ pipe' = [pipe EXCEPT !["out"].data = @ - n]
                 /\ UNCHANGED conns
    /\ UNCHANGED <<vars, main, setup, execd, buf, status, f_pos, written,
                   f_running, f_child, f_exit_code, done>>

\* The input: process_write() of all that remains. The pipe is a blocking
\* one, so that the parent remains in write() until all of it is in the pipe.
IsWriter == f_pos < setup.size
InputEvent ==
    /\ main = "run" /\ pc = "idle"
    /\ "in" \in conns /\ IsWriter
    /\ pipe["in"].r # {}
    /\ pipe["in"].data < PipeSize
    /\ main' = "write"
    /\ UNCHANGED <<vars, setup, pipe, execd, buf, status, conns, f_pos, f_output,
                   written, f_running, f_child, f_exit_code, done>>

\* The last byte is followed by process_done(DONE_REASON_EOF).
WriteStep ==
    /\ main = "write"
    /\ pipe["in"].r # {}
    /\ pipe["in"].data < PipeSize
    /\ f_pos' = f_pos + 1
    /\ IF f_pos' >= setup.size
         THEN /\ main' = "run"
              /\ conns' = conns \ {"in"}
              /\ pipe' = [pipe EXCEPT !["in"] =
                            [data |-> @.data + 1, w |-> @.w \ {Parent}, r |-> @.r]]
         ELSE /\ pipe' = [pipe EXCEPT !["in"].data = @ + 1]
              /\ UNCHANGED <<main, conns>>
    /\ UNCHANGED <<vars, setup, execd, buf, status, f_output, written, f_running,
                   f_child, f_exit_code, done>>

\* Nobody reads the input any more: write() raises SIGPIPE, which ends the
\* application unless it ignores that signal; POLLERR is process_error().
InputGone ==
    /\ main \in {"run", "write"} /\ pc = "idle"
    /\ "in" \in conns /\ IsWriter
    /\ pipe["in"].r = {}
    /\ \/ /\ ~setup.ignore
          /\ main' = "killed"
          /\ UNCHANGED <<pipe, conns>>
       \/ /\ setup.ignore
          /\ main' = "run"
          /\ PipeDone("in")
    /\ UNCHANGED <<vars, setup, execd, buf, status, f_pos, f_output, written,
                   f_running, f_child, f_exit_code, done>>

\* run() returns once the communicator has nothing left to poll.
RunReturns ==
    /\ main = "run" /\ pc = "idle"
    /\ ~in_comm
    /\ "out" \notin conns
    /\ "in" \in conns => ~IsWriter
    /\ main' = "returned"
    /\ UNCHANGED <<vars, setup, pipe, execd, buf, status, conns, f_pos, f_output,
                   written, f_running, f_child, f_exit_code, done>>

---------------------------------------------------------------------------

ProcessInit ==
    /\ Init
    /\ setup \in [next : BOOLEAN, input : BOOLEAN, output : BOOLEAN,
                 ignore : BOOLEAN, size : Inputs]
    /\ ~setup.input => setup.size = (CHOOSE n \in Inputs : TRUE) /\ setup.ignore
    /\ pipe = [p \in Pipes |->
                 LET q == IF Exists(p) THEN {Parent} ELSE {}
                 IN  [data |-> 0, w |-> q, r |-> q]]
    /\ main = "new"
    /\ execd = {}
    /\ buf \in [Children -> 0 .. MaxOwn]
    /\ ~setup.next => buf[B] = 0
    /\ status = [c \in Children |-> 0]
    /\ conns = {}
    /\ f_pos = 0
    /\ f_output = 0
    /\ written = 0
    /\ f_running = [c \in Children |-> FALSE]
    /\ f_child = [c \in Children |-> FALSE]
    /\ f_exit_code = [c \in Children |-> -1]
    /\ done = [c \in Children |-> 0]

\* An application that gets the signal_child object before it calls start().
GetInstance ==
    /\ main = "new"
    /\ Signal("child")
    /\ UNCHANGED pvars

Command(c) == ExecuteCommand(c) \/ ChildRead(c) \/ ChildWrite(c) \/ ChildEnds(c)

Parents ==
    \/ GetInstance \/ Wait \/ Listen(A) \/ Listen(B) \/ RunReturns
    \/ \E ok \in BOOLEAN : Start(ok) \/ StartNext(ok)

ProcessNext ==
    \/ Parents \/ SignalEvent \/ CaptureEvent
    \/ InputEvent \/ WriteStep \/ InputGone
    \/ \E c \in Children : Command(c) \/ ChildFails(c)

\* The application calls start() and wait(), poll() serves whatever is ready,
\* and the commands run.
ProcessSpec ==
    /\ ProcessInit /\ [][ProcessNext]_allvars
    /\ WF_allvars(Parents)
    /\ WF_allvars(SignalEvent)
    /\ WF_allvars(CaptureEvent)
    /\ WF_allvars(InputEvent \/ WriteStep \/ InputGone)
    /\ \A c \in {A, B} : WF_allvars(Command(c))

---------------------------------------------------------------------------
(* Properties *)

\* When wait() returns, the capture has all that the last command wrote,
\* whichever of the end of the child and the end of its output came first:
\* what is left in the pipe when it hangs up is read before the pipe is
\* closed (io_capture_pipe.cpp:56-98, process.cpp:1176-1220).
OutputComplete ==
    main = "returned" /\ setup.output => f_output = written

\* When wait() returns, child_done() was called once for each child, its exit
\* code is the one the child ended with (-1 when a signal ended it) and no
\* zombie is left, even when both children end with a single SIGCHLD or one
\* ends before the loop runs (process.cpp:1176-1263).
ExitCodeKnown ==
    main = "returned" =>
        \A c \in {A, Last} :
            /\ done[c] = 1 /\ proc[c] = "reaped" /\ ~f_child[c]
            /\ f_exit_code[c] = IF status[c] \in {0, 1} THEN status[c] ELSE -1

\* The parent is in write() and nobody can go on: the input pipe is full, the
\* commands have a byte they cannot write, and the output is for the parent
\* to read.
Stuck ==
    /\ main = "write" /\ pipe["in"].data = PipeSize
    /\ setup.output /\ pipe["out"].data = PipeSize
    /\ \A c \in {A, Last} : proc[c] = "running" /\ buf[c] > 0
    /\ setup.next => pipe["mid"].data = PipeSize

\* "wait for the command to be done": wait() returns, or SIGPIPE ends the
\* application, whatever the order in which the child, its output and its
\* input end. There are two exceptions: a child that died before SIGCHLD was
\* blocked, which happens when wait() is the first one to get the
\* signal_child object, and an input larger than all the pipes together, of
\* which the parent writes more than is read (process.cpp:1156-1220,
\* io_data_pipe.cpp:165-181).
WaitReturns ==
    main = "listen" ~> (main \in {"returned", "killed"} \/ missed # {} \/ []Stuck)

\* "The function writes as much data as possible (i.e. as large as the FIFO
\* buffer supports) then returns": process_write() returns to the loop
\* (io_data_pipe.cpp:158-159).
WriteReturns == main = "write" ~> main # "write"
=============================================================================
