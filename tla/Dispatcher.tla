------------------------------- MODULE Dispatcher -------------------------------
(***************************************************************************)
(* Two services that talk to each other through message connections. Each  *)
(* has an ed::dispatcher with the commands every service understands       *)
(* (connection_with_send_message) and a catch-all match that answers       *)
(* UNKNOWN. The application of the service "s" adds and removes matches of *)
(* its own; the one of the peer "c" builds and sends messages, one ed::    *)
(* message object that it changes between two sends.                       *)
(*                                                                         *)
(* Messages are on the wire as the text to_string() makes of them. The     *)
(* wire keeps lines whole and in order (see BufferConnection). dispatch()  *)
(* and the callbacks run to their end before anything else is read; the    *)
(* list of matches changes between two dispatches only.                    *)
(***************************************************************************)
EXTENDS Message

CONSTANTS Commands,      \* the commands "c" sends
          ParameterNames, Values,  \* the parameters "c" adds
          Definitions,   \* definitions of the parameters by command
          UserMatches,   \* the matches "s" adds
          MaxSent,       \* how many messages "c" sends
          MaxAdded       \* how many matches "s" adds

\* A match of one command names it; callback_match() is for all of them.
ASSUME MatchesAssumption ==
    /\ UserMatches \subseteq [expr : STRING, priority : Nat, tag : Nat,
                              kind : {"one_to_one", "one_to_one_callback", "callback"}]
    /\ \A m \in UserMatches : m.kind = "callback" <=> m.expr = None
ASSUME TextAssumption ==
    Commands \subseteq Names /\ ParameterNames \subseteq Names /\ Values \subseteq Seq(STRING)
ASSUME BoundsAssumption == MaxSent \in Nat /\ MaxAdded \in Nat

VARIABLES f_message, f_cached_message,  \* the message object of "c"
          sent,
          wire,          \* lines on their way to a service
          f_matches,     \* the matches of "s", by priority
          f_end,         \* its catch-all match, a sequence of one or none
          added,
          f_ready,
          registered,    \* register_service() was called
          open,          \* the connection is in the communicator
          thrown,        \* an exception left run()
          last,          \* history: what the last dispatch did
          listed         \* history: the commands a service said it knows

object == <<f_message, f_cached_message, sent>>
matches == <<f_matches, f_end, added>>
life == <<f_ready, registered, open, thrown>>
vars == <<object, wire, matches, life, last, listed>>

Services == {"s", "c"}
Nothing == [called |-> <<>>, unknown |-> FALSE]
Other(s) == IF s = "s" THEN "c" ELSE "s"

---------------------------------------------------------------------------
(* The list of matches *)

NoDefinition == "none"
NoTag == 0
SystemPriority == 10
Match(expr, kind, priority, tag) ==
    [expr |-> expr, kind |-> kind, priority |-> priority, tag |-> tag]

\* The elements of a list at some positions, in the order of the list.
Kept(list, positions) ==
    FlattenSeq([i \in DOMAIN list |-> IF i \in positions THEN <<list[i]>> ELSE <<>>])

\* Mutant: inserted before the matches of the same priority.
InsertedFirst(list, m) ==
    LET later == {i \in DOMAIN list : m.priority <= list[i].priority}
        at == IF later = {} THEN Len(list) + 1 ELSE Min(later)
    IN  SubSeq(list, 1, at - 1) \o <<m>> \o SubSeq(list, at, Len(list))

\* add_match(): before the first match of a larger priority.
Inserted(list, m) ==
    LET later == {i \in DOMAIN list : m.priority < list[i].priority}
        at == IF later = {} THEN Len(list) + 1 ELSE Min(later)
    IN  SubSeq(list, 1, at - 1) \o <<m>> \o SubSeq(list, at, Len(list))

\* A match that was added has an identifier, and no definition yet if it
\* matches more than one command.
Numbered(m, id) ==
    [expr |-> m.expr, kind |-> m.kind, priority |-> m.priority, tag |-> m.tag, id |-> id,
     f_message_definition |-> IF m.expr = None THEN NoDefinition ELSE m.expr]

\* Mutant: nobody thought of UNKNOWN.
CommandsButUnknown ==
    <<"ALIVE", "HELP", "INVALID", "LEAK", "LOG_ROTATE", "QUITTING", "READY",
      "RESTART", "SERVICE_UNAVAILABLE", "STOP">>

add_communicator_commands ==
    <<"ALIVE", "HELP", "INVALID", "LEAK", "LOG_ROTATE", "QUITTING", "READY",
      "RESTART", "SERVICE_UNAVAILABLE", "STOP", "UNKNOWN">>

InitialMatches ==
    [i \in DOMAIN add_communicator_commands |->
        Numbered(Match(add_communicator_commands[i], "one_to_one", SystemPriority, NoTag), i)]

\* The list of a service; nothing changes the one of "c".
Matches(s) == IF s = "s" THEN f_matches ELSE InitialMatches

AddMatch(m) ==
    /\ added < MaxAdded
    /\ added' = added + 1
    /\ f_matches' = Inserted(f_matches, Numbered(m, Len(InitialMatches) + added + 1))
    /\ UNCHANGED <<object, wire, f_end, life, listed>>
    /\ last' = Nothing

Removed(tag) == {m.expr : m \in {d \in ToSet(f_matches) : d.tag = tag /\ tag # NoTag}}

\* Mutant: no tag is a tag.
RemoveMatchesAny(tag) ==
    /\ f_matches' = Kept(f_matches, {i \in DOMAIN f_matches : f_matches[i].tag # tag})
    /\ listed' = [listed EXCEPT !["s"] = @ \ Removed(tag)]
    /\ UNCHANGED <<object, wire, f_end, added, life>>
    /\ last' = Nothing

remove_matches(tag) ==
    /\ f_matches' = Kept(f_matches, {i \in DOMAIN f_matches : tag = NoTag \/ f_matches[i].tag # tag})
    /\ listed' = [listed EXCEPT !["s"] = @ \ Removed(tag)]
    /\ UNCHANGED <<object, wire, f_end, added, life>>
    /\ last' = Nothing

---------------------------------------------------------------------------
(* dispatch() *)

one_to_one_match(m, msg) == m.kind = "one_to_one" /\ m.expr = msg.command
one_to_one_callback_match(m, msg) == m.kind = "one_to_one_callback" /\ m.expr = msg.command
callback_match(m) == m.kind = "callback"

\* A match whose function returns MATCH_TRUE ends the loop; one that returns
\* MATCH_CALLBACK does not.
MatchTrue(m, msg) == one_to_one_match(m, msg)
MatchAny(m, msg) == MatchTrue(m, msg) \/ one_to_one_callback_match(m, msg) \/ callback_match(m)

\* A definition without a file is empty.
get_message_definition(command) ==
    IF command \in DOMAIN Definitions THEN Definitions[command] ELSE <<>>

\* execute(): the definition of the first command that matched stays, which
\* for a match of one command is always the one of that command.
WithDefinition(m, msg) ==
    [m EXCEPT !.f_message_definition = IF @ = NoDefinition THEN msg.command ELSE @]
Runs(m, msg) ==
    check_parameters(get_message_definition(WithDefinition(m, msg).f_message_definition),
                     msg.parameters)

\* The matches the loop executes, in order.
Executed(list, msg) ==
    {i \in DOMAIN list : /\ MatchAny(list[i], msg)
                         /\ \A j \in 1 .. i - 1 : ~MatchTrue(list[j], msg)}

\* What dispatch() does: the new list, the new catch-all and the callbacks.
dispatch(list, end, msg) ==
    LET executed == Executed(list, msg)
        last_resort == executed = {} /\ end # <<>>
    IN  [list |-> [i \in DOMAIN list |->
                     IF i \in executed THEN WithDefinition(list[i], msg) ELSE list[i]],
         end |-> IF last_resort THEN <<WithDefinition(end[1], msg)>> ELSE end,
         called |-> Kept(list, {i \in executed : Runs(list[i], msg)}),
         unknown |-> last_resort /\ Runs(end[1], msg),
         caught |-> executed # {} \/ end # <<>>]

\* get_commands(): each command once.
get_commands(s) ==
    LET list == Matches(s)
        named == {i \in DOMAIN list : list[i].kind # "callback"}
        first == Kept(list, {i \in named : \A j \in named : j < i => list[j].expr # list[i].expr})
    IN  [k \in DOMAIN first |-> first[k].expr]

---------------------------------------------------------------------------
(* connection_with_send_message *)

reply_to(msg) == [EmptyMessage EXCEPT !.server = msg.sent_from_server,
                                      !.service = msg.sent_from_service]
\* A line on the wire; answers counts the answers to answers that led to it.
Line(msg, answers) == [text |-> to_string(msg), msg |-> msg, answers |-> answers]

msg_alive(msg) ==
    [reply_to(msg) EXCEPT !.command = "ABSOLUTELY",
        !.parameters = Added(
            [n \in DOMAIN msg.parameters \cap {"serial", "timestamp"} |-> msg.parameters[n]],
            "reply_timestamp", <<"1">>)]
send_commands(s, msg) ==
    [reply_to(msg) EXCEPT !.command = "COMMANDS",
        !.parameters = [n \in {"list"} |-> get_commands(s)]]
msg_reply_with_unknown(msg) ==
    [reply_to(msg) EXCEPT !.command = "UNKNOWN",
        !.parameters = [n \in {"command"} |-> <<msg.command>>]]

\* The replies of the callbacks of the system to one message. The other
\* callbacks are silent: READY is a flag, STOP and QUITTING call the stop()
\* function of the application; LEAK, LOG_ROTATE, UNKNOWN and INVALID are
\* logged or done elsewhere; those of the application are not seen.
Replies(s, d, msg) ==
    LET System(command) == \E m \in ToSet(d.called) : m.priority = SystemPriority /\ m.expr = command
    IN     (IF System("ALIVE") THEN <<msg_alive(msg)>> ELSE <<>>)
        \o (IF System("HELP") THEN <<send_commands(s, msg)>> ELSE <<>>)
        \o (IF d.unknown THEN <<msg_reply_with_unknown(msg)>> ELSE <<>>)

unregister_msg(s) ==
    [EmptyMessage EXCEPT !.command = "UNREGISTER", !.parameters = [n \in {"service"} |-> <<s>>]]

\* The line is read; the replies and the UNREGISTER of a stop() are written.
Written(s, replies, end) ==
    [wire EXCEPT
        ![s] = Tail(@),
        ![Other(s)] = @ \o [i \in DOMAIN replies |-> Line(replies[i], Head(wire[s]).answers + 1)]
                       \o (IF end = "unregisters" THEN <<Line(unregister_msg(s), 0)>> ELSE <<>>)]

\* What dispatch() and the callbacks change. A stop() may call
\* unregister_service(): the connection is marked done and is removed once
\* UNREGISTER was written, or at once if that fails.
Callbacks(s, msg, d) ==
    LET Called(command) == \E m \in ToSet(d.called) : m.expr = command
        may_stop == open[s] /\ (Called("STOP") \/ Called("QUITTING"))
    IN  \E replies \in {Replies(s, d, msg)},
           end \in IF may_stop THEN {"stays", "unregisters", "fails"} ELSE {"stays"} :
          /\ f_matches' = IF s = "s" THEN d.list ELSE f_matches
          /\ f_end' = [f_end EXCEPT ![s] = d.end]
          /\ f_ready' = [f_ready EXCEPT ![s] = @ \/ Called("READY")]
          /\ open' = [open EXCEPT ![s] = @ /\ end = "stays"]
          /\ thrown' = [thrown EXCEPT ![s] = ~d.caught]
          /\ last' = [called |-> d.called, unknown |-> d.unknown]
          /\ listed' = IF \E r \in ToSet(replies) : r.command = "COMMANDS"
                         THEN [listed EXCEPT ![s] = ToSet(get_commands(s))] ELSE listed
          /\ wire' = Written(s, replies, end)
          /\ UNCHANGED registered

\* A line is read: process_line(), dispatch_message() and the callbacks.
Receive(s) ==
    /\ wire[s] # <<>>
    /\ ~thrown[s]
    /\ \E msg \in {from_string(Head(wire[s]).text)} :
         \/ /\ msg = Refused
            /\ wire' = [wire EXCEPT ![s] = Tail(@)]
            /\ last' = Nothing
            /\ UNCHANGED <<f_matches, f_end, life, listed>>
         \/ /\ msg # Refused
            /\ \E d \in {dispatch(Matches(s), f_end[s], msg)} : Callbacks(s, msg, d)
    /\ UNCHANGED <<object, added>>

\* register_service() of "s", once connected.
register_service ==
    /\ ~registered
    /\ registered' = TRUE
    /\ wire' = [wire EXCEPT !["c"] = Append(@, Line(
                  [EmptyMessage EXCEPT !.command = "REGISTER",
                     !.parameters = [n \in {"service"} |-> <<"s">>]], 0))]
    /\ UNCHANGED <<object, matches, f_ready, open, thrown, listed>>
    /\ last' = Nothing

---------------------------------------------------------------------------
(* The message object of "c" *)

Modify(m) ==
    /\ f_message' = m
    /\ f_cached_message' = <<>>
    /\ UNCHANGED <<sent, wire, matches, life, listed>>
    /\ last' = Nothing

\* Mutant: the cache is kept.
SetCommandOnly(command) ==
    /\ f_message.command # command
    /\ f_message' = [f_message EXCEPT !.command = command]
    /\ UNCHANGED <<f_cached_message, sent, wire, matches, life, listed>>
    /\ last' = Nothing

\* The same name again changes nothing.
set_command(command) ==
    /\ f_message.command # command
    /\ Modify([f_message EXCEPT !.command = command])

set_sent_from(server, service) ==
    /\ f_message.sent_from_server # server \/ f_message.sent_from_service # service
    /\ Modify([f_message EXCEPT !.sent_from_server = server, !.sent_from_service = service])

add_parameter(name, value) ==
    Modify([f_message EXCEPT !.parameters = Added(@, name, value)])

\* The object is gone after the last message.
send_message ==
    /\ sent < MaxSent
    /\ registered
    /\ f_message.command # None
    /\ sent' = sent + 1
    /\ LET text == IF f_cached_message = <<>> THEN to_string(f_message) ELSE f_cached_message
       IN  /\ f_cached_message' = IF sent' < MaxSent THEN text ELSE <<>>
           /\ wire' = [wire EXCEPT !["s"] = Append(@, [text |-> text, msg |-> f_message, answers |-> 0])]
    /\ f_message' = IF sent' < MaxSent THEN f_message ELSE EmptyMessage
    /\ UNCHANGED <<matches, life, listed>>
    /\ last' = Nothing

---------------------------------------------------------------------------

Init ==
    /\ f_message = EmptyMessage
    /\ f_cached_message = <<>>
    /\ sent = 0
    /\ wire = [s \in Services |-> <<>>]
    /\ f_matches = InitialMatches
    /\ \E auto_catch_all \in BOOLEAN :
         f_end = [s \in Services |-> IF s = "c" \/ auto_catch_all
                    THEN <<Numbered(Match(None, "always", SystemPriority, NoTag), 0)>> ELSE <<>>]
    /\ added = 0
    /\ f_ready = [s \in Services |-> FALSE]
    /\ registered = FALSE
    /\ open = [s \in Services |-> TRUE]
    /\ thrown = [s \in Services |-> FALSE]
    /\ last = Nothing
    /\ listed = [s \in Services |-> {}]

Idle == \A s \in Services : wire[s] = <<>>

\* What "c" does to its object has no effect on the rest; it is done while
\* nothing is on its way.
Client ==
    \/ send_message
    \/ /\ sent < MaxSent /\ Idle
       /\ \/ \E command \in Commands : set_command(command)
          \/ \E name \in ParameterNames, value \in Values : add_parameter(name, value)
          \/ \E n \in {None, "c"} : set_sent_from(n, n)

Application ==
    \/ register_service
    \/ \E m \in UserMatches : AddMatch(m)
    \/ added > 0 /\ \E tag \in {NoTag} \cup {m.tag : m \in UserMatches} : remove_matches(tag)

Next == Client \/ Application \/ \E s \in Services : Receive(s)

Spec == Init /\ [][Next]_vars

---------------------------------------------------------------------------
(* Properties *)

\* A line says what its message says, whatever was sent before and changed
\* since (the cache), and the other side reads the same message from it
\* unless it has a server without a service or a value that from_string()
\* cannot read back: one with a character 0, one in quotes that ends with a
\* backslash, one that ends with white space (message.cpp:208-458, 795-891).
\* So not every value is read as it was written, although "only parameter
\* values support absolutely any character" (message.cpp:144).
WireFaithful ==
    \A s \in Services : \A i \in DOMAIN wire[s] :
        Lossy(wire[s][i].msg) \/ from_string(wire[s][i].text) = wire[s][i].msg

\* The callbacks for a command are called in the order of their priorities
\* and, for one priority, in the order they were added, up to and including
\* the first that ends the search, and only if the parameters agree with the
\* definition of the command, whatever was added, removed and received
\* before (dispatcher.cpp:328-490, dispatcher_match.cpp:309-350).
Before(d, e) == d.priority < e.priority \/ (d.priority = e.priority /\ d.id < e.id)
Expected(s, msg) ==
    {e.id : e \in {m \in ToSet(Matches(s)) :
        /\ m.kind # "callback" /\ m.expr = msg.command
        /\ check_parameters(get_message_definition(msg.command), msg.parameters)
        /\ ~\E d \in ToSet(Matches(s)) :
              d.kind = "one_to_one" /\ d.expr = msg.command /\ Before(d, m)}}
DispatchedRight ==
    [][\A s \in Services : Len(wire'[s]) < Len(wire[s]) =>
         \A msg \in {from_string(Head(wire[s]).text)} \ {Refused} :
            LET called == last'.called
            IN  /\ {m.id : m \in {d \in ToSet(called) : d.kind # "callback"}} = Expected(s, msg)
                /\ \A i, j \in DOMAIN called : i < j => Before(called[i], called[j])]_vars

\* A service that said in a COMMANDS message that it knows a command does
\* not answer it with UNKNOWN as long as it keeps its matches, even with
\* parameters it does not accept (dispatcher.cpp:401-419, 564-625).
CommandsHonest ==
    [][\A s \in Services : Len(wire'[s]) < Len(wire[s]) /\ last'.unknown =>
         \A msg \in {from_string(Head(wire[s]).text)} : msg.command \notin listed[s]]_vars

\* Services do not answer each other for ever: a message is answered, the
\* answer may be one its receiver does not know, and the UNKNOWN that follows
\* is the last one, even when it is UNKNOWN that was sent in the first place
\* (connection_with_send_message.cpp:432-505, dispatcher.cpp:230-300).
AnswersEnd ==
    \A s \in Services : \A i \in DOMAIN wire[s] : wire[s][i].answers <= 2
=============================================================================
