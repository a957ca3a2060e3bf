------------------------------ MODULE SocketEvents ------------------------------
(***************************************************************************)
(* ed::socket_events: an object tells its application when the service at  *)
(* its address starts to listen. All the objects of a process share one    *)
(* socket_listener, a timer with a NETLINK socket: as long as an object    *)
(* waits it asks the kernel about the addresses in every pass of the       *)
(* communicator, and it goes to sleep when none does.                      *)
(*                                                                         *)
(* The kernel answers within sendmsg(): the answers stay in the socket     *)
(* until process_read(), while services start and stop. The application    *)
(* connects in process_listening(), at once or later, and calls            *)
(* lost_connection() when that fails or when the connection breaks.        *)
(***************************************************************************)
EXTENDS Integers, Sequences

CONSTANTS Objects,      \* the socket_events objects
          Addresses,    \* addresses of services
          MaxServiceChanges    \* how many times services start and stop

ASSUME MaxServiceChangesAssumption == MaxServiceChanges \in Nat

VARIABLES addr,             \* the address of each object
          f_socket_events,  \* the list of the listener
          f_listening,      \* per object, nothing to ask about any more
          g_socket_listener,\* the listener exists, and is in the communicator
          listener_enabled,        \* connection::is_enabled() of the listener
          answers,          \* NETLINK messages to read: <<address, state>>
          todo,             \* the callbacks of the listener in this pass
          pos,              \* in process_read(): position in the list, or 0
          calling,          \* process_listening() runs
          server,           \* the addresses somebody listens on
          service_changes,          \* how often that changed
          app,              \* per object: "none", "waiting", "connecting",
                            \* "connected"
          dropped           \* objects that called lost_connection() in their
                            \* own process_listening()

listener == <<f_socket_events, f_listening, g_socket_listener, listener_enabled>>
pass == <<answers, todo, pos, calling>>
world == <<server, service_changes>>
socket_vars == <<addr, listener, pass, world, app, dropped>>

Listed == {f_socket_events[i] : i \in DOMAIN f_socket_events}
Waits == {o \in Listed : ~f_listening[o]}

\* The application runs between two passes and in its own callbacks.
Outside == todo = <<>>
InCallbackOf(o) == calling /\ f_socket_events[pos] = o

---------------------------------------------------------------------------
(* socket_events *)

\* The constructor: the first object creates the listener.
socket_events(o) ==
    /\ Outside
    /\ app[o] = "none"
    /\ app' = [app EXCEPT ![o] = "waiting"]
    /\ g_socket_listener' = TRUE
    /\ f_socket_events' = Append(f_socket_events, o)
    /\ f_listening' = [f_listening EXCEPT ![o] = FALSE]
    /\ listener_enabled' = TRUE
    /\ UNCHANGED <<addr, pass, world, dropped>>

\* The destructor: the listener leaves with the last object, its socket too.
\* In process_listening() it would change the list that process_read() walks
\* through, which is undefined.
remove_socket_events(o) ==
    /\ Outside
    /\ app[o] # "none"
    /\ app' = [app EXCEPT ![o] = "none"]
    /\ \E i \in DOMAIN f_socket_events :
         /\ f_socket_events[i] = o
         /\ f_socket_events' = SubSeq(f_socket_events, 1, i - 1)
                               \o SubSeq(f_socket_events, i + 1, Len(f_socket_events))
    /\ g_socket_listener' = (f_socket_events' # <<>>)
    /\ listener_enabled' = (listener_enabled /\ g_socket_listener')
    /\ answers' = IF g_socket_listener' THEN answers ELSE <<>>
    /\ dropped' = dropped \ {o}
    /\ UNCHANGED <<addr, f_listening, todo, pos, calling, world>>

lost_connection(o) ==
    /\ f_listening' = [f_listening EXCEPT ![o] = FALSE]
    /\ listener_enabled' = TRUE

\* The service is gone: connecting to it fails, or the connection breaks.
Lost(o) ==
    /\ Outside
    /\ app[o] \in {"connecting", "connected"}
    /\ addr[o] \notin server
    /\ lost_connection(o)
    /\ app' = [app EXCEPT ![o] = "waiting"]
    /\ dropped' = dropped \ {o}
    /\ UNCHANGED <<addr, f_socket_events, g_socket_listener, pass, world>>

Connected(o) ==
    /\ Outside
    /\ app[o] = "connecting"
    /\ addr[o] \in server
    /\ app' = [app EXCEPT ![o] = "connected"]
    /\ UNCHANGED <<addr, listener, pass, world, dropped>>

---------------------------------------------------------------------------
(* socket_listener *)

\* poll() with the flags of the listener: answers to read, the timer of one
\* second, and a socket that always can be written to.
is_writer == Waits # {}
PollListener(timeout) ==
    /\ Outside
    /\ g_socket_listener /\ listener_enabled
    /\ todo' = (IF answers # <<>> THEN <<"read">> ELSE <<>>)
               \o (IF is_writer THEN <<"write">> ELSE <<>>)
               \o (IF timeout THEN <<"timeout">> ELSE <<>>)
    /\ todo' # <<>>
    /\ UNCHANGED <<addr, listener, answers, pos, calling, world, app, dropped>>

\* The object at position i is the next one that the first answer is about.
Matches(i) ==
    /\ Head(answers)[2] = "LISTEN"
    /\ ~f_listening[f_socket_events[i]]
    /\ addr[f_socket_events[i]] = Head(answers)[1]
NextMatch(i) == i > pos /\ Matches(i) /\ \A j \in pos + 1 .. i - 1 : ~Matches(j)

\* process_read(), one step: the next answer, the call of
\* process_listening() for an object it is about, or the end.
process_read ==
    /\ todo # <<>> /\ Head(todo) = "read" /\ ~calling
    /\ \/ /\ answers = <<>>
          /\ todo' = Tail(todo)
          /\ UNCHANGED <<answers, pos, calling>>
       \/ /\ answers # <<>>
          /\ \A i \in DOMAIN f_socket_events : ~NextMatch(i)
          /\ answers' = Tail(answers)
          /\ pos' = 0
          /\ UNCHANGED <<todo, calling>>
       \/ /\ answers # <<>>
          /\ \E i \in DOMAIN f_socket_events : NextMatch(i) /\ pos' = i
          /\ calling' = TRUE
          /\ UNCHANGED <<answers, todo>>
    /\ UNCHANGED <<addr, listener, world, app, dropped>>

\* process_listening() of the application: it connects, or starts to, or
\* fails to and calls lost_connection(). Once it returned f_listening is set,
\* whatever it did.
process_listening(o) ==
    /\ InCallbackOf(o)
    /\ \/ app' = [app EXCEPT ![o] = "connecting"] /\ UNCHANGED <<dropped, listener_enabled>>
       \/ /\ addr[o] \in server
          /\ app' = [app EXCEPT ![o] = "connected"]
          /\ UNCHANGED <<dropped, listener_enabled>>
       \/ /\ addr[o] \notin server
          /\ listener_enabled' = TRUE
          /\ dropped' = dropped \cup {o}
          /\ UNCHANGED app
    /\ f_listening' = [f_listening EXCEPT ![o] = TRUE]
    /\ calling' = FALSE
    /\ UNCHANGED <<addr, f_socket_events, g_socket_listener, answers, todo, pos, world>>

\* Mutant: only the first object that waits is asked about.
ProcessWriteFirst(ok) ==
    /\ todo # <<>> /\ Head(todo) = "write"
    /\ todo' = Tail(todo)
    /\ LET asked == SelectSeq(f_socket_events, LAMBDA o : o \in Waits)
           State(o) == IF addr[o] \in server THEN "LISTEN" ELSE "ENOENT"
       IN  answers' = IF ok /\ asked # <<>>
                        THEN Append(answers, <<addr[asked[1]], State(asked[1])>>)
                      ELSE answers
    /\ UNCHANGED <<addr, listener, pos, calling, world, app, dropped>>

\* process_write(): one message with a request for each object that waits;
\* the kernel answers them in order. An address nobody listens on is an
\* error, ENOENT. sendmsg() may fail: the objects are told, and nothing else
\* changes.
process_write(ok) ==
    /\ todo # <<>> /\ Head(todo) = "write"
    /\ todo' = Tail(todo)
    /\ LET asked == SelectSeq(f_socket_events, LAMBDA o : o \in Waits)
           State(o) == IF addr[o] \in server THEN "LISTEN" ELSE "ENOENT"
       IN  answers' = IF ok THEN answers \o [i \in DOMAIN asked |->
                                               <<addr[asked[i]], State(asked[i])>>]
                      ELSE answers
    /\ UNCHANGED <<addr, listener, pos, calling, world, app, dropped>>

\* Mutant: goes to sleep as soon as one object is done.
ProcessTimeoutAny ==
    /\ todo # <<>> /\ Head(todo) = "timeout"
    /\ todo' = Tail(todo)
    /\ listener_enabled' = (listener_enabled /\ Waits = Listed)
    /\ UNCHANGED <<addr, f_socket_events, f_listening, g_socket_listener, answers, pos,
                   calling, world, app, dropped>>

\* process_timeout(): nothing to ask about, go to sleep.
process_timeout ==
    /\ todo # <<>> /\ Head(todo) = "timeout"
    /\ todo' = Tail(todo)
    /\ listener_enabled' = (listener_enabled /\ Waits # {})
    /\ UNCHANGED <<addr, f_socket_events, f_listening, g_socket_listener, answers, pos,
                   calling, world, app, dropped>>

---------------------------------------------------------------------------

\* A service starts or stops to listen.
ServiceChanges(a) ==
    /\ service_changes < MaxServiceChanges
    /\ service_changes' = service_changes + 1
    /\ server' = IF a \in server THEN server \ {a} ELSE server \cup {a}
    /\ UNCHANGED <<addr, listener, pass, app, dropped>>

SocketInit ==
    /\ addr \in [Objects -> Addresses]
    /\ f_socket_events = <<>>
    /\ f_listening = [o \in Objects |-> FALSE]
    /\ g_socket_listener = FALSE
    /\ listener_enabled = FALSE
    /\ answers = <<>>
    /\ todo = <<>>
    /\ pos = 0
    /\ calling = FALSE
    /\ server = {}
    /\ service_changes = 0
    /\ app = [o \in Objects |-> "none"]
    /\ dropped = {}

Loop ==
    \/ \E timeout \in BOOLEAN : PollListener(timeout)
    \/ process_read
    \/ \E o \in Objects : process_listening(o)
    \/ process_timeout
Application == \E o \in Objects : Lost(o) \/ Connected(o)

SocketNext ==
    \/ Loop \/ Application
    \/ \E ok \in BOOLEAN : process_write(ok)
    \/ \E o \in Objects : socket_events(o) \/ remove_socket_events(o)
    \/ \E a \in Addresses : ServiceChanges(a)

\* The communicator goes on, sendmsg() does not fail for ever, and the
\* application notices what became of its connections.
SocketSpec == /\ SocketInit /\ [][SocketNext]_socket_vars
        /\ WF_socket_vars(Loop \/ process_write(FALSE)) /\ SF_socket_vars(process_write(TRUE))
        /\ \A o \in Objects : SF_socket_vars(Lost(o)) /\ SF_socket_vars(Connected(o))

---------------------------------------------------------------------------
(* Properties *)

SocketTypeOK ==
    /\ Listed \subseteq Objects
    /\ f_listening \in [Objects -> BOOLEAN]
    /\ g_socket_listener \in BOOLEAN /\ listener_enabled \in BOOLEAN /\ calling \in BOOLEAN
    /\ pos \in 0 .. Len(f_socket_events)
    /\ app \in [Objects -> {"none", "waiting", "connecting", "connected"}]
    /\ server \subseteq Addresses /\ service_changes \in 0 .. MaxServiceChanges /\ dropped \subseteq Objects

\* An object the application expects a call for is one the listener asks the
\* kernel about: it is in the list, not marked as listening, and the listener
\* is in the communicator and awake, whatever was lost, created, destroyed or
\* timed out before, and whatever old answer was read. The exception is the
\* object that called lost_connection() in its own process_listening(), which
\* is marked when that one returns. The listener exists as long as an object
\* does (socket_events.cpp:287-446, 551-581).
WaitingIsAsked ==
    /\ SocketTypeOK
    /\ g_socket_listener <=> Listed # {}
    /\ \A o \in Objects :
        /\ app[o] = "none" <=> o \notin Listed
        /\ app[o] = "waiting" /\ o \notin dropped => ~f_listening[o] /\ listener_enabled
        /\ app[o] \in {"connecting", "connected"} => f_listening[o]

\* "you expect a call to the process_listening() once the service is
\* available": an object that waits is called if its service listens from
\* then on, with the same exception (socket_events.cpp:462-683, 815-825).
ListeningTold ==
    \A o \in Objects :
        (app[o] = "waiting" /\ o \notin dropped /\ addr[o] \in server)
            ~> (app[o] # "waiting" \/ o \in dropped \/ addr[o] \notin server)
=============================================================================
