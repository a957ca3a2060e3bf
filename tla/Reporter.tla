------------------------------- MODULE Reporter --------------------------------
(***************************************************************************)
(* The reporter: a script that plays the other side of a service in tests. *)
(* The main thread executes the script up to its run() instruction, then a *)
(* background thread takes over while the main thread is in                *)
(* communicator::run() with the service. The script accepts connections,   *)
(* waits for data or messages, verifies them and sends its own.            *)
(*                                                                         *)
(* A script is a sequence of statements, records with the name of the      *)
(* instruction and its parameters already computed. A byte and a message   *)
(* are numbered by the peer that sends them. Instructions that only        *)
(* print, sleep or set a variable to something no property looks at        *)
(* (print, show_data, show_message, sleep, hostname, now, max_pid, hex,    *)
(* random, sort, strlen, kill) are the instruction "other".                *)
(***************************************************************************)
EXTENDS Integers, Sequences, FiniteSets, SequencesExt

CONSTANTS Programs,      \* the scripts
          Peers,         \* clients of the script
          MaxSent        \* how many bytes or messages a peer sends

\* The labels a script goes to are in it: for another one
\* state::get_label_position() throws, which is left out. The parser and the
\* instructions verified the values of the parameters.
Labels(program) == {program[i].name : i \in {j \in DOMAIN program : program[j].op = "label"}}
ASSUME ProgramsAssumption ==
    \A program \in Programs :
        /\ Len(program) \in Nat /\ DOMAIN program = 1 .. Len(program)
        /\ \A i \in DOMAIN program :
              LET s == program[i]
              IN  /\ s.op \in {"call", "goto"} => s.label \in Labels(program)
                  /\ s.op = "if" => \A l \in DOMAIN s.labels : s.labels[l] \in Labels(program)
                  /\ s.op = "compare" => s.value \in {"UNORDERED", "LESS", "EQUAL", "GREATER"}
                  /\ s.op = "listen" => s.type \in {"tcp", "messenger"}
                  /\ s.op = "wait" => s.mode \in {"wait", "drain", "timeout"}
                  /\ s.op = "verify_data" => s.size \in Nat \ {0}

VARIABLES f_program,     \* the script
          f_ip,          \* the next statement
          f_stack,       \* return addresses
          f_compare,     \* result of the last comparison
          f_variables,   \* type and sign of the variables
          f_connection_data, f_data_position,   \* data received, not yet read
          f_message,     \* messages received
          f_listen,      \* type of the listening connection, or "none"
          f_connections, \* clients accepted so far
          f_in_thread, f_exit_code,
          mode,          \* mode of the wait() that goes on
          serving,       \* events poll() found, not served yet: <<connection, events>>
          runner,        \* where the execution of the script is
          main,          \* where the main thread is
          done,          \* bytes in the pipe of the done signal
          net,           \* state of the peers: "none", "pending", "open", "closed"
          rx,            \* what a peer sent and the script did not receive
          sent,          \* how much a peer sent
          read           \* history: the bytes the script took, in order

script == <<f_ip, f_stack, f_compare, f_variables>>
data == <<f_connection_data, f_data_position, f_message, read>>
conns == <<f_listen, f_connections>>
waiting == <<mode, serving>>
executor == <<f_in_thread, f_exit_code, runner, main, done>>
peers == <<net, rx, sent>>
vars == <<f_program, script, data, conns, waiting, executor, peers>>

---------------------------------------------------------------------------
(* state *)

Stmt == f_program[f_ip]
get_label_position(name) ==
    CHOOSE i \in DOMAIN f_program : f_program[i].op = "label" /\ f_program[i].name = name
Executing == /\ \/ runner = "start"
                \/ runner = "thread" /\ main # "stop"
             /\ f_ip <= Len(f_program)

\* The statement at f_ip is executed, and the next one follows.
Instruction(op) == Executing /\ Stmt.op = op /\ UNCHANGED f_program
Following == f_ip' = f_ip + 1

\* An exception: in start() it goes to the caller, in the thread it is
\* caught by cppthread, which then calls leave().
Throw ==
    /\ runner' = IF runner = "start" THEN "left" ELSE "leave"
    /\ main' = IF runner = "start" THEN "threw" ELSE main
    /\ UNCHANGED <<f_in_thread, f_exit_code, done>>

\* The bytes of some buffers after a position in the first one.
Bytes(buffers, position) ==
    LET all == FlattenSeq(buffers)
    IN  SubSeq(all, position + 1, Len(all))
Unread == Bytes(f_connection_data, f_data_position)
data_size == Len(FlattenSeq(f_connection_data))

\* One turn of the loop of read_data(): bytes of the first buffer, which is
\* dropped once it was read to its end.
Progress(buf, buffers, position, size) ==
    [buf |-> buf, buffers |-> buffers, position |-> position, size |-> size]
Turn(r) ==
    LET first == Head(r.buffers)
        left == Len(first) - r.position
        copy == IF left < r.size THEN left ELSE r.size
        buf == r.buf \o SubSeq(first, r.position + 1, r.position + copy)
    IN  IF r.buffers = <<>> \/ r.size = 0 THEN r
        ELSE IF r.position + copy >= Len(first)
          THEN Progress(buf, Tail(r.buffers), 0, r.size - copy)
          ELSE Progress(buf, r.buffers, r.position + copy, r.size - copy)

\* A turn that does not drop a buffer is the last one.
read_data(buffers, position, size) ==
    LET turn[k \in 0 .. Len(buffers)] ==
          IF k = 0 THEN Progress(<<>>, buffers, position, size) ELSE Turn(turn[k - 1])
    IN  turn[Len(buffers)]

---------------------------------------------------------------------------
(* Instructions: the flow of the script *)

Call ==
    /\ Instruction("call")
    /\ f_stack' = Append(f_stack, f_ip + 1)
    /\ f_ip' = get_label_position(Stmt.label)
    /\ UNCHANGED <<f_compare, f_variables, data, conns, waiting, executor, peers>>

\* A script returns from a call only: pop_ip() of an empty stack is undefined.
Return ==
    /\ Instruction("return")
    /\ f_stack # <<>>
    /\ f_ip' = f_stack[Len(f_stack)]
    /\ f_stack' = SubSeq(f_stack, 1, Len(f_stack) - 1)
    /\ UNCHANGED <<f_compare, f_variables, data, conns, waiting, executor, peers>>

Goto ==
    /\ Instruction("goto")
    /\ f_ip' = get_label_position(Stmt.label)
    /\ UNCHANGED <<f_stack, f_compare, f_variables, data, conns, waiting, executor, peers>>

\* The labels if() looks for, in this order, given the comparison.
LabelOrder(compare) ==
    CASE compare = "UNORDERED" -> <<"unordered">>
      [] compare = "LESS" -> <<"less", "less_or_equal", "not_equal", "true", "ordered">>
      [] compare = "EQUAL" -> <<"equal", "less_or_equal", "greater_or_equal", "false", "ordered">>
      [] compare = "GREATER" -> <<"greater", "greater_or_equal", "not_equal", "true", "ordered">>

\* What if() compares: the sign of a variable or the last comparison.
Comparison(name) ==
    IF name = "" THEN f_compare
    ELSE IF name \notin DOMAIN f_variables THEN "UNORDERED"
    ELSE IF f_variables[name].type \in {"integer", "floating_point"} THEN f_variables[name].sign
    ELSE "UNDEFINED"

If ==
    /\ Instruction("if")
    /\ LET compare == Comparison(Stmt.variable)
           order == LabelOrder(compare)
           found == {i \in DOMAIN order : order[i] \in DOMAIN Stmt.labels}
       IN  \/ /\ compare = "UNDEFINED"
              /\ Throw
              /\ Following
           \/ /\ compare # "UNDEFINED"
              /\ \/ found = {} /\ Following
                 \/ \E i \in found :
                      /\ \A j \in found : i <= j
                      /\ f_ip' = get_label_position(Stmt.labels[order[i]])
              /\ UNCHANGED executor
    /\ UNCHANGED <<f_stack, f_compare, f_variables, data, conns, waiting, peers>>

\* label() and the instructions that change nothing the model has.
Nothing ==
    /\ Instruction("label") \/ Instruction("other")
    /\ Following
    /\ UNCHANGED <<f_stack, f_compare, f_variables, data, conns, waiting, executor, peers>>

Compare(value) ==
    /\ f_compare' = value
    /\ Following
    /\ UNCHANGED <<f_stack, f_variables, data, conns, waiting, executor, peers>>
Truth(b) == IF b THEN "GREATER" ELSE "EQUAL"

CompareInstruction ==
    /\ Instruction("compare")
    /\ Compare(Stmt.value)

HasType ==
    /\ Instruction("has_type")
    /\ Compare(IF Stmt.name \notin DOMAIN f_variables THEN "UNORDERED"
               ELSE Truth(f_variables[Stmt.name].type = Stmt.type))

HasData ==
    /\ Instruction("has_data")
    /\ Compare(Truth(data_size > 0 /\ data_size >= Stmt.min_size))

\* get_message() is a message without a command when there is none.
HasMessage ==
    /\ Instruction("has_message")
    /\ Compare(Truth(/\ f_message # <<>>
                     /\ Stmt.command \in {"", f_message[1].command}))

\* set_variable(), and save_parameter_value() with a value of the message.
SetVariable ==
    /\ Instruction("set_variable") \/ Instruction("save_parameter_value")
    /\ f_variables' = [n \in DOMAIN f_variables \cup {Stmt.name} |->
                         IF n = Stmt.name THEN Stmt.value ELSE f_variables[n]]
    /\ Following
    /\ UNCHANGED <<f_stack, f_compare, data, conns, waiting, executor, peers>>

UnsetVariable ==
    /\ Instruction("unset_variable")
    /\ f_variables' = [n \in DOMAIN f_variables \ {Stmt.name} |-> f_variables[n]]
    /\ Following
    /\ UNCHANGED <<f_stack, f_compare, data, conns, waiting, executor, peers>>

---------------------------------------------------------------------------
(* Instructions: connections, data and messages *)

\* listen() without a disconnect() in between is an error.
Listen ==
    /\ Instruction("listen")
    /\ Following
    /\ \/ f_listen = "none" /\ f_listen' = Stmt.type /\ UNCHANGED executor
       \/ f_listen # "none" /\ Throw /\ UNCHANGED f_listen
    /\ UNCHANGED <<f_stack, f_compare, f_variables, f_connections, data, waiting, peers>>

\* The listening socket is closed: peers it did not accept are turned down.
Disconnect ==
    /\ Instruction("disconnect")
    /\ Following
    /\ f_listen' = "none"
    /\ net' = [p \in Peers |-> IF net[p] = "pending" THEN "closed" ELSE net[p]]
    /\ rx' = [p \in Peers |-> IF net[p] = "pending" THEN <<>> ELSE rx[p]]
    /\ sent' = [p \in Peers |-> IF net[p] = "pending" THEN 0 ELSE sent[p]]
    /\ UNCHANGED <<f_stack, f_compare, f_variables, f_connections, data, waiting, executor>>

\* Mutant: the position in the first buffer is kept.
ClearDataKeepsPosition ==
    /\ Instruction("clear_data")
    /\ Following
    /\ read' = read \o Unread
    /\ f_connection_data' = <<>>
    /\ UNCHANGED <<f_stack, f_compare, f_variables, f_data_position, f_message, conns,
                   waiting, executor, peers>>

ClearData ==
    /\ Instruction("clear_data")
    /\ Following
    /\ read' = read \o Unread
    /\ f_connection_data' = <<>>
    /\ f_data_position' = 0
    /\ UNCHANGED <<f_stack, f_compare, f_variables, f_message, conns, waiting, executor, peers>>

ClearMessage ==
    /\ Instruction("clear_message")
    /\ Following
    /\ f_message' = IF f_message = <<>> THEN <<>> ELSE Tail(f_message)
    /\ UNCHANGED <<f_stack, f_compare, f_variables, f_connection_data, f_data_position,
                   read, conns, waiting, executor, peers>>

\* The bytes are taken even when there are not enough of them; they may not
\* be the expected ones either.
VerifyData ==
    /\ Instruction("verify_data")
    /\ Following
    /\ LET r == read_data(f_connection_data, f_data_position, Stmt.size)
       IN  /\ f_connection_data' = r.buffers
           /\ f_data_position' = r.position
           /\ read' = read \o r.buf
           /\ \/ Len(r.buf) = Stmt.size /\ UNCHANGED executor
              \/ Throw
    /\ UNCHANGED <<f_stack, f_compare, f_variables, f_message, conns, waiting, peers>>

\* The names and the parameters may be wrong when the command is right.
VerifyMessage ==
    /\ Instruction("verify_message")
    /\ Following
    /\ \/ f_message # <<>> /\ f_message[1].command = Stmt.command /\ UNCHANGED executor
       \/ Throw
    /\ UNCHANGED <<f_stack, f_compare, f_variables, data, conns, waiting, peers>>

\* send_message() and send_data() use the first connection there ever was.
\* The former writes what the socket takes, if nothing waits to be written,
\* and keeps the rest in a buffer; the latter has no buffer.
SendMessage ==
    /\ Instruction("send_message")
    /\ Following
    /\ IF f_connections # <<>> /\ f_connections[1].type = "messenger"
         THEN \E rest \in 0 .. 1 :
                /\ f_connections' = [f_connections EXCEPT
                      ![1].out = IF f_connections[1].open /\ @ = 0 THEN rest ELSE @]
                /\ UNCHANGED executor
         ELSE Throw /\ UNCHANGED f_connections
    /\ UNCHANGED <<f_stack, f_compare, f_variables, f_listen, data, waiting, peers>>

SendData ==
    /\ Instruction("send_data")
    /\ Following
    /\ IF f_connections = <<>> THEN Throw ELSE UNCHANGED executor
    /\ UNCHANGED <<f_stack, f_compare, f_variables, data, conns, waiting, peers>>

---------------------------------------------------------------------------
(* Instructions: wait() and exit() *)

\* The connections poll() looks at: the clients in the order they were
\* accepted, and the listening one, number 0, at the end.
All == DOMAIN f_connections \cup (IF f_listen = "none" THEN {} ELSE {0})
Before(i, j) == i # 0 /\ (j = 0 \/ i < j)
FirstOf(S) == CHOOSE i \in S : \A j \in S \ {i} : Before(i, j)
IsWriter(i) == i # 0 /\ f_connections[i].open /\ f_connections[i].out > 0
Polled(m) == {i \in All : m # "drain" \/ IsWriter(i)}

\* What poll() reports of a connection; a closed one has the socket -1.
Revents(i, m) ==
    IF i = 0 THEN IF \E p \in Peers : net[p] = "pending" THEN {"IN"} ELSE {}
    ELSE LET c == f_connections[i]
             hup == net[c.peer] = "closed"
         IN  IF ~c.open THEN {}
             ELSE    (IF m # "drain" /\ (rx[c.peer] # <<>> \/ hup) THEN {"IN"} ELSE {})
                \cup (IF IsWriter(i) THEN {"OUT"} ELSE {})
                \cup (IF hup THEN {"RDHUP"} ELSE {})

\* Mutant: one position for all.
PositionFirst(i, m) == FirstOf(Polled(m))

\* Where the loop after poll() looks for the events of a connection: at its
\* position, or at the first one if it was not polled.
Position(i, m) == IF i \in Polled(m) THEN i ELSE FirstOf(Polled(m))

Wait ==
    /\ Instruction("wait")
    /\ Following
    /\ \/ /\ ~f_in_thread \/ (Polled(Stmt.mode) = {} /\ Stmt.mode # "drain")
          /\ Throw /\ UNCHANGED mode
       \/ /\ f_in_thread /\ Polled(Stmt.mode) = {} /\ Stmt.mode = "drain"
          /\ UNCHANGED <<executor, mode>>
       \/ /\ f_in_thread /\ Polled(Stmt.mode) # {}
          /\ mode' = Stmt.mode
          /\ runner' = "poll"
          /\ UNCHANGED <<f_in_thread, f_exit_code, main, done>>
    /\ UNCHANGED <<f_stack, f_compare, f_variables, data, conns, serving, peers>>

\* ppoll() returns, with events or because it timed out, which is an error
\* unless it is what the script expects.
PollReturns ==
    /\ runner = "poll"
    /\ LET events == {<<i, Revents(Position(i, mode), mode)>> : i \in All}
           timed_out == \A e \in events : e[2] = {}
       IN  \/ /\ timed_out /\ mode # "timeout"
              /\ Throw /\ UNCHANGED serving
           \/ /\ ~timed_out \/ mode = "timeout"
              /\ serving' = {e \in events : e[2] # {}}
              /\ runner' = "serve"
              /\ UNCHANGED <<f_in_thread, f_exit_code, main, done>>
    /\ UNCHANGED <<f_program, script, data, conns, mode, peers>>

\* process_accept() of the listening connection.
Accept ==
    \E p \in Peers :
        /\ net[p] = "pending"
        /\ net' = [net EXCEPT ![p] = "open"]
        /\ f_connections' = Append(f_connections,
                              [peer |-> p, type |-> f_listen, open |-> TRUE, out |-> 0])
        /\ UNCHANGED <<data, rx>>

\* process_read(), process_write() and process_hup() of a client. All the
\* data is one buffer; messages are read up to the limit of a buffered
\* connection, and the end of the peer closes such a connection.
Client(i, events) ==
    LET c == f_connections[i]
        p == c.peer
        n == IF "IN" \in events /\ c.open THEN Len(rx[p]) ELSE 0
    IN  \E k \in IF c.type = "tcp" \/ n = 0 THEN {n} ELSE 1 .. n :
          /\ rx' = [rx EXCEPT ![p] = IF "RDHUP" \in events /\ c.type = "messenger"
                                       THEN <<>> ELSE SubSeq(@, k + 1, Len(@))]
          /\ f_connection_data' = IF c.type = "tcp" /\ k > 0
                                    THEN Append(f_connection_data, rx[p]) ELSE f_connection_data
          /\ f_message' = IF c.type = "messenger"
                            THEN f_message \o SubSeq(rx[p], 1, k) ELSE f_message
          /\ f_connections' = [f_connections EXCEPT
                                 ![i].out = IF "OUT" \in events THEN 0 ELSE @,
                                 ![i].open = @ /\ ~("RDHUP" \in events /\ c.type = "messenger")]
          /\ UNCHANGED <<f_data_position, read, net>>

Serve ==
    /\ runner = "serve"
    /\ \E e \in serving :
          /\ \A other \in serving \ {e} : Before(e[1], other[1])
          /\ serving' = serving \ {e}
          /\ \/ e[1] = 0 /\ "IN" \in e[2] /\ Accept
             \/ e[1] = 0 /\ "IN" \notin e[2] /\ UNCHANGED <<data, f_connections, net, rx>>
             \/ e[1] # 0 /\ Client(e[1], e[2])
    /\ UNCHANGED <<f_program, script, f_listen, mode, executor, sent>>

\* All were served: wait() returns, or goes on until everything is written.
WaitEnds ==
    /\ runner = "serve"
    /\ serving = {}
    /\ runner' = IF mode = "drain" /\ Polled(mode) # {} THEN "poll" ELSE "thread"
    /\ UNCHANGED <<f_program, script, data, conns, waiting, f_in_thread, f_exit_code,
                   main, done, peers>>

\* exit(): the next instruction is the end of the script. With a timeout
\* the first thing received in the meantime is an error; the hang ups found
\* before it are processed.
Exit ==
    LET Hup(k) == "RDHUP" \in Revents(k, "wait")
        errors == {k \in All : Revents(k, "wait") # {} /\ ~Hup(k)}
        Closed(k) == /\ Stmt.how = "timeout" /\ Hup(k) /\ \A j \in errors : Before(k, j)
                     /\ f_connections[k].type = "messenger"
    IN  /\ Instruction("exit")
        /\ f_ip' = Len(f_program) + 1
        /\ f_exit_code' = IF Stmt.how = "error" \/ (Stmt.how = "timeout" /\ errors # {})
                            THEN 1 ELSE 0
        /\ f_connections' = [k \in DOMAIN f_connections |->
                               IF Closed(k) THEN [f_connections[k] EXCEPT !.open = FALSE]
                               ELSE f_connections[k]]
        /\ rx' = [p \in Peers |->
                    IF \E k \in DOMAIN f_connections : f_connections[k].peer = p /\ Closed(k)
                      THEN <<>> ELSE rx[p]]
        /\ UNCHANGED <<f_stack, f_compare, f_variables, data, f_listen, waiting,
                       f_in_thread, runner, main, done, net, sent>>

---------------------------------------------------------------------------
(* executor and background_executor *)

\* run() ends start(): the thread is started and the main thread goes to
\* communicator::run(). In the thread it is an error.
Run ==
    /\ Instruction("run")
    /\ Following
    /\ \/ /\ ~f_in_thread
          /\ runner' = "enter"
          /\ main' = "run"
          /\ UNCHANGED <<f_in_thread, f_exit_code, done>>
       \/ f_in_thread /\ Throw
    /\ UNCHANGED <<f_stack, f_compare, f_variables, data, conns, waiting, peers>>

Enter ==
    /\ runner = "enter"
    /\ runner' = "thread"
    /\ f_in_thread' = TRUE
    /\ UNCHANGED <<f_program, script, data, conns, waiting, f_exit_code, main, done, peers>>

\* Mutant: the thread signals at the end of the script and again in leave().
StepDoneTwice ==
    /\ \/ runner \in {"start", "thread"} /\ f_ip > Len(f_program)
       \/ runner = "thread" /\ main = "stop"
    /\ runner' = IF runner = "start" THEN "left" ELSE "leave"
    /\ main' = IF runner = "start" THEN "run" ELSE main
    /\ done' = done + 1
    /\ UNCHANGED <<f_program, script, data, conns, waiting, f_in_thread, f_exit_code, peers>>

\* The end of the script: start() says that the thread it never started is
\* done, the thread leaves. A thread asked to stop leaves too.
StepDone ==
    /\ \/ runner \in {"start", "thread"} /\ f_ip > Len(f_program)
       \/ runner = "thread" /\ main = "stop"
    /\ \/ /\ runner = "start"
          /\ runner' = "left" /\ done' = done + 1 /\ main' = "run"
       \/ /\ runner = "thread"
          /\ runner' = "leave" /\ UNCHANGED <<done, main>>
    /\ UNCHANGED <<f_program, script, data, conns, waiting, f_in_thread, f_exit_code, peers>>

\* Mutant: leave() of a thread that failed does not signal.
ThreadDoneIfSuccess ==
    /\ runner = "leave"
    /\ runner' = "leaving"
    /\ done' = IF f_ip > Len(f_program) THEN done + 1 ELSE done
    /\ UNCHANGED <<f_program, script, data, conns, waiting, f_in_thread, f_exit_code, main, peers>>

\* leave(): the signal first, then the flag.
ThreadDone ==
    /\ runner = "leave"
    /\ runner' = "leaving"
    /\ done' = done + 1
    /\ UNCHANGED <<f_program, script, data, conns, waiting, f_in_thread, f_exit_code, main, peers>>

Leave ==
    /\ runner = "leaving"
    /\ runner' = "left"
    /\ f_in_thread' = FALSE
    /\ UNCHANGED <<f_program, script, data, conns, waiting, f_exit_code, main, done, peers>>

\* process_read() of the done signal removes it, and with no other connection
\* communicator::run() returns.
ProcessDone ==
    /\ main = "run"
    /\ done > 0
    /\ done' = done - 1
    /\ main' = "returned"
    /\ UNCHANGED <<f_program, script, data, conns, waiting, f_in_thread, f_exit_code, runner, peers>>

\* stop() waits for the thread, then removes the signal. The service may
\* call it in the loop; the destructor calls it at the end.
Stop ==
    /\ main \in {"run", "returned"}
    /\ main' = "stop"
    /\ UNCHANGED <<f_program, script, data, conns, waiting, f_in_thread, f_exit_code,
                   runner, done, peers>>

Stopped ==
    /\ main = "stop"
    /\ runner = "left"
    /\ main' = "stopped"
    /\ UNCHANGED <<f_program, script, data, conns, waiting, f_in_thread, f_exit_code,
                   runner, done, peers>>

---------------------------------------------------------------------------
(* The service under test; what it does once the script is over is not seen. *)

Watched == runner \notin {"leave", "leaving", "left"}

\* The clients send bytes; messages otherwise, whose command is seen.
Direct == f_listen # "messenger" /\ \A k \in DOMAIN f_connections : f_connections[k].type = "tcp"

\* The script closed the connection: what is sent now is lost.
Hung(p) == \E k \in DOMAIN f_connections : f_connections[k].peer = p /\ ~f_connections[k].open

Connect(p) ==
    /\ Watched
    /\ net[p] = "none"
    /\ f_listen # "none"
    /\ net' = [net EXCEPT ![p] = "pending"]
    /\ UNCHANGED <<f_program, script, data, conns, waiting, executor, rx, sent>>

Send(p, command) ==
    /\ Watched
    /\ net[p] \in {"pending", "open"}
    /\ sent[p] < MaxSent
    /\ sent' = [sent EXCEPT ![p] = @ + 1]
    /\ rx' = [rx EXCEPT ![p] = IF Hung(p) THEN @ ELSE Append(@,
                [peer |-> p, number |-> sent[p] + 1, command |-> command])]
    /\ UNCHANGED <<f_program, script, data, conns, waiting, executor, net>>

Close(p) ==
    /\ Watched
    /\ net[p] = "open"
    /\ net' = [net EXCEPT ![p] = "closed"]
    /\ UNCHANGED <<f_program, script, data, conns, waiting, executor, rx, sent>>

---------------------------------------------------------------------------

Init ==
    /\ f_program \in Programs
    /\ f_ip = 1 /\ f_stack = <<>> /\ f_compare = "UNDEFINED" /\ f_variables = <<>>
    /\ f_connection_data = <<>> /\ f_data_position = 0 /\ f_message = <<>> /\ read = <<>>
    /\ f_listen = "none" /\ f_connections = <<>>
    /\ mode = "wait" /\ serving = {}
    /\ f_in_thread = FALSE /\ f_exit_code = -1
    /\ runner = "start" /\ main = "start" /\ done = 0
    /\ net = [p \in Peers |-> "none"]
    /\ rx = [p \in Peers |-> <<>>]
    /\ sent = [p \in Peers |-> 0]

Script == \/ Call \/ Return \/ Goto \/ If \/ Nothing \/ CompareInstruction
          \/ HasType \/ HasData \/ HasMessage \/ SetVariable \/ UnsetVariable
          \/ Listen \/ Disconnect \/ ClearData \/ ClearMessage
          \/ VerifyData \/ VerifyMessage \/ SendMessage \/ SendData
          \/ Wait \/ PollReturns \/ Serve \/ WaitEnds \/ Exit \/ Run
Executor == Enter \/ StepDone \/ ThreadDone \/ Leave

Next == \/ Script \/ Executor \/ ProcessDone \/ Stop \/ Stopped
        \/ \E p \in Peers :
            \/ Connect(p) \/ Close(p)
            \/ \E command \in IF Direct THEN {"A"} ELSE {"A", "B"} : Send(p, command)

\* The thread goes on, ppoll() times out in the end, and the main thread
\* serves its done signal. Nothing is assumed of the service.
Spec == /\ Init /\ [][Next]_vars
        /\ WF_vars(Script \/ Executor) /\ WF_vars(ProcessDone \/ Stopped)

---------------------------------------------------------------------------
(* Properties *)

TypeOK ==
    /\ f_ip \in 1 .. Len(f_program) + 1
    /\ \A k \in DOMAIN f_stack : f_stack[k] \in 2 .. Len(f_program) + 1
    /\ f_compare \in {"UNDEFINED", "UNORDERED", "LESS", "EQUAL", "GREATER"}
    /\ f_listen \in {"none", "tcp", "messenger"}
    /\ f_data_position \in Nat
    /\ f_in_thread \in BOOLEAN /\ f_exit_code \in {-1, 0, 1}
    /\ mode \in {"wait", "drain", "timeout"}
    /\ runner \in {"start", "enter", "thread", "poll", "serve", "leave", "leaving", "left"}
    /\ main \in {"start", "run", "returned", "stop", "stopped", "threw"}
    /\ done \in 0 .. 1

\* What a peer sent and what the script got of it.
Stream(p) == read \o Unread \o f_message \o rx[p]
Of(p, s) == {i \in DOMAIN s : s[i].peer = p}
Numbers(p, s) == {s[i].number : i \in Of(p, s)}
Consecutive(p, s) ==
    \A i, j \in Of(p, s) :
        i < j /\ Of(p, s) \cap (i + 1 .. j - 1) = {} => s[j].number = s[i].number + 1
HasMessenger(p) ==
    \E k \in DOMAIN f_connections : f_connections[k].peer = p /\ f_connections[k].type = "messenger"

\* The script gets the bytes of a peer once and in the order they were sent,
\* however they are cut in buffers and read in pieces that end within a
\* buffer, at its end or in a later one; messages are consecutive too, but
\* the end of a peer may take some away (state.cpp:293-376,
\* direct_tcp_server_client.cpp:50-95).
StreamIntact ==
    /\ \A p \in Peers :
          LET s == Stream(p)
          IN  /\ Consecutive(p, s)
              /\ HasMessenger(p) \/ Numbers(p, s) = 1 .. sent[p]
    /\ f_connection_data # <<>> => f_data_position < Len(f_connection_data[1])

\* Only the client that hung up is closed: the loop after ppoll() finds the
\* events of each connection at the right position, whoever connected, hung
\* up or was closed before. A wait() that drains does not keep to it: a
\* connection that has nothing to write is not polled, its events are read at
\* the position 0 a map gives to what it does not have, and it is closed when
\* another client hung up. One with something to write never is
\* (basic_instructions.cpp:2830-2950).
HupOnlyOwn ==
    [][\A k \in DOMAIN f_connections :
         f_connections[k].open /\ ~f_connections'[k].open
         => \/ net[f_connections[k].peer] = "closed"
            \/ /\ mode = "drain" /\ runner = "serve" /\ f_connections[k].out = 0
               /\ \E j \in DOMAIN f_connections \ {k} :
                    net[f_connections[j].peer] = "closed"]_vars

\* communicator::run() of the test returns when the script ended and not
\* before, also when it ended in start() or with an exception, and the done
\* signal is sent once (executor.cpp:134-151, 1430-1450, 1490-1521).
EndsOnce ==
    /\ TypeOK
    /\ main = "returned" => runner \in {"leaving", "left"} /\ done = 0
    /\ done = 1 => runner \in {"leaving", "left"}

\* It does return: a script ends even if the service never sends what it
\* waits for, because wait() fails when it times out; only a client without
\* a buffer that hung up makes wait() return at once again and again
\* (basic_instructions.cpp:2748-2970).
RunReturns ==
    (main = "run") ~>
        (main # "run" \/ (Direct /\ \E p \in Peers : net[p] = "closed"))

=============================================================================
