------------------------------ MODULE FileChanged ------------------------------
(***************************************************************************)
(* ed::file_changed: a connection that turns the events of inotify into    *)
(* calls to process_event(). The map f_watches has the number inotify gave *)
(* to a watch as its key.                                                  *)
(*                                                                         *)
(* The kernel side is external: numbers of watches grow and are not used   *)
(* again, a watch of something deleted goes away with an IN_IGNORED event, *)
(* and once the queue is full events are dropped and a last one says so.   *)
(*                                                                         *)
(* A pattern is the set of the names it matches; "*" matches anything, the *)
(* empty name of the watched path itself included. A watched path is a     *)
(* directory.                                                              *)
(***************************************************************************)
EXTENDS Integers, Sequences, FiniteSets

CONSTANTS Paths,         \* what can be watched
          Files,         \* names of files in a watched path
          Patterns,      \* other patterns than "*"
          EventSets,     \* the events an application asks for
          MaxWatches,    \* how many watches the kernel ever creates
          MaxChanges,    \* how many changes are made to the files
          MaxQueued      \* max_queued_events

ASSUME PatternsAssumption == Patterns \subseteq SUBSET Files
ASSUME BoundsAssumption == MaxWatches \in Nat /\ MaxChanges \in Nat /\ MaxQueued \in Nat

VARIABLES exists,        \* the paths that exist
          watches,       \* inotify: path and mask by watch number
          created,       \* inotify: number of the last watch
          queue,         \* inotify: the events
          changes,       \* number of changes so far
          f_watches,     \* the map
          buffer,        \* what read() returned and is not handled yet
          pc,            \* where process_read() is
          dead,          \* an exception left run(), or undefined behaviour
          owed,          \* history: changes process_event() has yet to tell
          asked,         \* history: what was asked for a path since it is watched
          merged         \* history: paths that were watched again

vars == <<exists, watches, created, queue, changes, f_watches, buffer, pc,
          dead, owed, asked, merged>>
kernel == <<exists, watches, created, queue, changes>>
history == <<owed, asked, merged>>

---------------------------------------------------------------------------
(* Flags *)

Self == ""               \* the name in an event of the watched path itself
Star == Files \cup {Self}
Elsewhere == "elsewhere" \* where a renamed path went
Error == 0               \* the watch number of an event that has no watch

EventNames == {"ATTRIBUTES", "READ", "WRITE", "CREATED", "DELETED", "ACCESS",
               "UPDATED", "EXISTS", "RECURSIVE"}

InCreated == {"IN_CREATE", "IN_MOVED_TO"}
InDeleted == {"IN_DELETE", "IN_DELETE_SELF", "IN_MOVED_FROM"}
InAccess == {"IN_OPEN", "IN_CLOSE_WRITE", "IN_CLOSE_NOWRITE"}

events_to_mask(events) ==
    UNION {CASE e = "ATTRIBUTES" -> {"IN_ATTRIB"}
             [] e = "READ" -> {"IN_ACCESS"}
             [] e = "WRITE" -> {"IN_MODIFY"}
             [] e = "CREATED" -> InCreated \cup {"IN_MOVE_SELF"}
             [] e = "DELETED" -> InDeleted \cup {"IN_MOVE_SELF"}
             [] e = "RECURSIVE" -> InCreated \cup InDeleted \cup {"IN_MOVE_SELF"}
             [] e = "ACCESS" -> InAccess
             [] e = "UPDATED" -> {"IN_CLOSE_WRITE"}
             [] e = "EXISTS" -> {} : e \in events}

mask_to_events(mask) ==
    LET Flag(event, flags) == IF mask \cap flags = {} THEN {} ELSE {event}
    IN  UNION {Flag("ATTRIBUTES", {"IN_ATTRIB"}), Flag("READ", {"IN_ACCESS"}),
               Flag("WRITE", {"IN_MODIFY"}), Flag("CREATED", InCreated),
               Flag("DELETED", InDeleted), Flag("ACCESS", InAccess),
               Flag("UPDATED", {"IN_CLOSE_WRITE"}),
               Flag("DIRECTORY", {"IN_ISDIR"}), Flag("GONE", {"IN_IGNORED"}),
               Flag("UNMOUNTED", {"IN_UNMOUNT"})}

\* An empty set of patterns stands for "*".
match_patterns(w, name) ==
    w.patterns = {} \/ \E p \in w.patterns : name \in p

---------------------------------------------------------------------------
(* inotify *)

Event(wd, flag, name) == [wd |-> wd, mask |-> {flag}, name |-> name]
Overflow == Event(Error, "IN_Q_OVERFLOW", Self)

\* Events at the end of a queue: those after the limit become one overflow.
Queued(q, events) ==
    LET room == IF Len(q) < MaxQueued THEN MaxQueued - Len(q) ELSE 0
    IN  IF Len(events) <= room THEN q \o events
        ELSE IF q # <<>> /\ room = 0 /\ q[Len(q)] = Overflow THEN q
        ELSE q \o SubSeq(events, 1, room) \o <<Overflow>>

\* Removes wd if the kernel knows it, in which case it says IN_IGNORED.
inotify_rm_watch(wd) ==
    IF wd \in DOMAIN watches
      THEN /\ watches' = [w \in DOMAIN watches \ {wd} |-> watches[w]]
           /\ queue' = Queued(queue, <<Event(wd, "IN_IGNORED", Self)>>)
      ELSE UNCHANGED <<watches, queue>>

\* Someone changes a file: the watch of its directory sees it if it asked
\* for it. The event is owed to the application if the map has that watch.
Seen(p, flag) == {wd \in DOMAIN watches : watches[wd].path = p /\ flag \in watches[wd].mask}
Owed(p, name) == {<<p, name>> : wd \in {k \in DOMAIN f_watches :
                     f_watches[k].path = p /\ match_patterns(f_watches[k], name)}}

Change(p, name, flag) ==
    /\ changes < MaxChanges
    /\ p \in exists
    /\ \E wd \in Seen(p, flag) :
        /\ queue' = Queued(queue, <<Event(wd, flag, name)>>)
        /\ owed' = owed \cup Owed(p, name)
    /\ changes' = changes + 1
    /\ UNCHANGED <<exists, watches, created, f_watches, buffer, pc, dead, asked, merged>>

\* The watched path is renamed: its watch goes with it.
Rename(p) ==
    /\ changes < MaxChanges
    /\ p \in exists
    /\ exists' = exists \ {p}
    /\ changes' = changes + 1
    /\ \/ /\ Seen(p, "IN_MOVE_SELF") = {}
          /\ UNCHANGED queue
       \/ \E wd \in Seen(p, "IN_MOVE_SELF") :
            queue' = Queued(queue, <<Event(wd, "IN_MOVE_SELF", Self)>>)
    /\ watches' = [wd \in DOMAIN watches |->
                     IF watches[wd].path = p THEN [watches[wd] EXCEPT !.path = Elsewhere]
                     ELSE watches[wd]]
    /\ UNCHANGED <<created, f_watches, buffer, pc, dead, history>>

\* The watched path is deleted, and its watch with it.
Delete(p) ==
    LET of == {wd \in DOMAIN watches : watches[wd].path = p}
        Told(wd) == IF wd \in Seen(p, "IN_DELETE_SELF")
                      THEN <<Event(wd, "IN_DELETE_SELF", Self)>> ELSE <<>>
    IN  /\ changes < MaxChanges
        /\ p \in exists
        /\ exists' = exists \ {p}
        /\ changes' = changes + 1
        /\ \/ of = {} /\ UNCHANGED <<watches, queue>>
           \/ \E wd \in of :
                /\ watches' = [w \in DOMAIN watches \ {wd} |-> watches[w]]
                /\ queue' = Queued(queue, Told(wd) \o <<Event(wd, "IN_IGNORED", Self)>>)
        /\ UNCHANGED <<created, f_watches, buffer, pc, dead, history>>

Create(p) ==
    /\ changes < MaxChanges
    /\ p \notin exists
    /\ exists' = exists \cup {p}
    /\ changes' = changes + 1
    /\ UNCHANGED <<watches, created, queue, f_watches, buffer, pc, dead, history>>

---------------------------------------------------------------------------
(* watch_files(), watch_symlinks(), watch_directories() and stop_watch() *)

Free == pc \in {"idle", "callback"} /\ dead = "no"
KeysOf(p) == {k \in DOMAIN f_watches : f_watches[k].path = p}
PatternSet(pattern) == IF pattern = Star THEN {} ELSE {pattern}

\* inotify_add_watch(): q and ws are the queue and the watches it finds.
AddWatch(p, mask, q, ws) ==
    /\ created' = created + 1
    /\ watches' = [w \in DOMAIN ws \cup {created + 1} |->
                     IF w = created + 1 THEN [path |-> p, mask |-> mask] ELSE ws[w]]
    /\ queue' = q

\* merge_watch() of a path that is not in the map; it throws, and nothing
\* changes, if there is no such path or nothing to ask inotify for. With EXISTS
\* process_event() is also called for the files that are there already.
NewWatch(p, pattern, events) ==
    /\ Free
    /\ events_to_mask(events) # {}
    /\ KeysOf(p) = {}
    /\ p \in exists
    /\ created < MaxWatches
    /\ AddWatch(p, events_to_mask(events), queue, watches)
    /\ f_watches' = [k \in DOMAIN f_watches \cup {created + 1} |->
                       IF k = created + 1
                         THEN [path |-> p, patterns |-> PatternSet(pattern), watch |-> k,
                               mask |-> events_to_mask(events)]
                         ELSE f_watches[k]]
    /\ asked' = [asked EXCEPT ![p] = {<<pattern, events>>}]
    /\ merged' = merged \ {p}
    /\ UNCHANGED <<exists, changes, buffer, pc, dead, owed>>

\* merge_watch() of a path of the map: the watch is removed and created again
\* under another number; the map keeps the old one as its key. Without the
\* path there is no new watch and add_watch() throws; the application that
\* called it may catch that and go on.
MergeWatch(p, pattern, events) ==
    /\ Free
    /\ events_to_mask(events) # {}
    /\ created < MaxWatches
    /\ \E k \in KeysOf(p) :
        LET w == f_watches[k]
            known == w.watch \in DOMAIN watches
            q == IF known THEN Queued(queue, <<Event(w.watch, "IN_IGNORED", Self)>>) ELSE queue
            ws == [x \in DOMAIN watches \ {w.watch} |-> watches[x]]
            mask == w.mask \cup events_to_mask(events)
            patterns == IF w.patterns = {} \/ pattern = Star THEN {}
                        ELSE w.patterns \cup {pattern}
            new == [w EXCEPT !.patterns = patterns, !.mask = mask]
        IN  \/ /\ p \in exists
               /\ AddWatch(p, mask, q, ws)
               /\ f_watches' = [f_watches EXCEPT ![k] = [new EXCEPT !.watch = created + 1]]
               /\ UNCHANGED dead
            \/ /\ p \notin exists
               /\ watches' = ws
               /\ queue' = q
               /\ f_watches' = [f_watches EXCEPT ![k] = [new EXCEPT !.watch = -1]]
               /\ dead' \in {"no", "throws"}
               /\ UNCHANGED created
    /\ asked' = [asked EXCEPT ![p] = @ \cup {<<pattern, events>>}]
    /\ merged' = merged \cup {p}
    /\ UNCHANGED <<exists, changes, buffer, pc, owed>>

\* Mutant: the kernel keeps the watch of a stopped path.
StopWatchForgets(p) ==
    /\ Free
    /\ \E k \in KeysOf(p) : f_watches' = [x \in DOMAIN f_watches \ {k} |-> f_watches[x]]
    /\ owed' = {o \in owed : o[1] # p}
    /\ asked' = [asked EXCEPT ![p] = {}]
    /\ UNCHANGED <<kernel, buffer, pc, dead, merged>>

\* Mutant: the map keeps the entry of a stopped path.
StopWatchKeeps(p) ==
    /\ Free
    /\ \E k \in KeysOf(p) : inotify_rm_watch(f_watches[k].watch)
    /\ owed' = {o \in owed : o[1] # p}
    /\ asked' = [asked EXCEPT ![p] = {}]
    /\ UNCHANGED <<exists, created, changes, f_watches, buffer, pc, dead, merged>>

\* stop_watch() forgets all the patterns of a path.
StopWatch(p) ==
    /\ Free
    /\ \E k \in KeysOf(p) :
        /\ inotify_rm_watch(f_watches[k].watch)
        /\ f_watches' = [x \in DOMAIN f_watches \ {k} |-> f_watches[x]]
    /\ owed' = {o \in owed : o[1] # p}
    /\ asked' = [asked EXCEPT ![p] = {}]
    /\ UNCHANGED <<exists, created, changes, buffer, pc, dead, merged>>

---------------------------------------------------------------------------
(* process_read() *)

\* get_socket() is -1 without watches: poll() does not look at the queue.
Poll ==
    /\ pc = "idle"
    /\ dead = "no"
    /\ queue # <<>>
    /\ f_watches # <<>>
    /\ pc' = "read"
    /\ UNCHANGED <<kernel, f_watches, buffer, dead, history>>

\* read() of as many events as the buffer has room for.
Read ==
    /\ pc = "read"
    /\ \/ queue = <<>> /\ pc' = "idle" /\ UNCHANGED <<buffer, queue>>
       \/ /\ queue # <<>>
          /\ \E n \in 1 .. Len(queue) :
              /\ buffer' = SubSeq(queue, 1, n)
              /\ queue' = SubSeq(queue, n + 1, Len(queue))
          /\ pc' = "handle"
    /\ UNCHANGED <<exists, watches, created, changes, f_watches, dead, history>>

E == Head(buffer)
Known == E.wd \in DOMAIN f_watches
Wanted == Known /\ match_patterns(f_watches[E.wd], E.name)

\* Mutant: an overflow is logged and nobody is told of it.
TellWatchOnly ==
    /\ pc = "handle"
    /\ buffer # <<>>
    /\ E.wd = Error \/ Wanted
    /\ pc' = "callback"
    /\ owed' = IF E.wd = Error THEN owed ELSE owed \ {<<f_watches[E.wd].path, E.name>>}
    /\ UNCHANGED <<kernel, f_watches, buffer, dead, asked, merged>>

\* The event is told: process_event() is called. The constructor of the
\* file_event throws when there is no event to tell.
Tell ==
    /\ pc = "handle"
    /\ buffer # <<>>
    /\ E.wd = Error \/ Wanted
    /\ \/ /\ E.wd # Error /\ mask_to_events(E.mask) = {}
          /\ dead' = "throws"
          /\ UNCHANGED <<pc, owed>>
       \/ /\ E.wd = Error \/ mask_to_events(E.mask) # {}
          /\ pc' = "callback"
          /\ owed' = IF E.wd = Error THEN {}
                     ELSE owed \ {<<f_watches[E.wd].path, E.name>>}
          /\ UNCHANGED dead
    /\ UNCHANGED <<kernel, f_watches, buffer, asked, merged>>

\* process_event() returned, or there was nothing to tell. IN_IGNORED erases
\* the watch by its number and once more through the iterator, which is
\* then not valid: either nothing more happens or the process is broken.
Handled ==
    /\ buffer # <<>>
    /\ \/ pc = "callback"
       \/ pc = "handle" /\ E.wd # Error /\ ~Wanted
    /\ pc' = "handle"
    /\ buffer' = Tail(buffer)
    /\ \/ /\ E.wd # Error /\ Known /\ "IN_IGNORED" \in E.mask
          /\ inotify_rm_watch(f_watches[E.wd].watch)
          /\ asked' = [asked EXCEPT ![f_watches[E.wd].path] = {}]
          /\ owed' = {o \in owed : o[1] # f_watches[E.wd].path}
          /\ f_watches' = [k \in DOMAIN f_watches \ {E.wd} |-> f_watches[k]]
          /\ dead' \in {"no", "undefined"}
       \/ /\ E.wd # Error /\ ~Known /\ pc = "handle"
          /\ inotify_rm_watch(E.wd)
          /\ UNCHANGED <<f_watches, dead, asked, owed>>
       \/ /\ E.wd # Error /\ ~Known /\ pc = "callback"
          /\ dead' = IF "IN_IGNORED" \in E.mask THEN "undefined" ELSE dead
          /\ UNCHANGED <<watches, queue, f_watches, asked, owed>>
       \/ /\ E.wd = Error \/ (Known /\ "IN_IGNORED" \notin E.mask)
          /\ UNCHANGED <<watches, queue, f_watches, dead, asked, owed>>
    /\ UNCHANGED <<exists, created, changes, merged>>

ReadAgain ==
    /\ pc = "handle"
    /\ buffer = <<>>
    /\ pc' = "read"
    /\ UNCHANGED <<kernel, f_watches, buffer, dead, history>>

---------------------------------------------------------------------------

Init ==
    /\ exists = Paths
    /\ watches = <<>> /\ created = 0 /\ queue = <<>> /\ changes = 0
    /\ f_watches = <<>> /\ buffer = <<>> /\ pc = "idle" /\ dead = "no"
    /\ owed = {} /\ asked = [p \in Paths |-> {}] /\ merged = {}

EventLoop == dead = "no" /\ (Poll \/ Read \/ Tell \/ Handled \/ ReadAgain)

Next ==
    \/ EventLoop
    \/ \E p \in Paths :
        \/ \E name \in Files, flag \in {"IN_CREATE", "IN_CLOSE_WRITE"} : Change(p, name, flag)
        \/ Rename(p) \/ Delete(p) \/ Create(p) \/ StopWatch(p)
        \/ \E pattern \in Patterns \cup {Star}, events \in EventSets :
            NewWatch(p, pattern, events) \/ MergeWatch(p, pattern, events)

\* The event loop goes on.
Spec == Init /\ [][Next]_vars /\ WF_vars(EventLoop)

---------------------------------------------------------------------------
(* Properties *)

TypeOK ==
    /\ exists \subseteq Paths
    /\ created \in 0 .. MaxWatches /\ changes \in 0 .. MaxChanges
    /\ DOMAIN watches \subseteq 1 .. created
    /\ DOMAIN f_watches \subseteq 1 .. created
    /\ \A k \in DOMAIN f_watches :
        /\ f_watches[k].path \in Paths
        /\ f_watches[k].patterns \subseteq Patterns
        /\ f_watches[k].watch \in {-1} \cup k .. created
    /\ Len(queue) <= MaxQueued + 1
    /\ pc \in {"idle", "read", "handle", "callback"}
    /\ dead \in {"no", "throws", "undefined"}

\* The map and the kernel agree, whatever is merged, stopped, deleted or
\* renamed while events are in the queue and whatever the callbacks do: a
\* path has one entry, as stop_watch() relies on, every watch of the
\* kernel is one that stop_watch() or the destructor can still remove, and
\* process_read() finds an entry under the number of its watch, unless the
\* path was watched again (file_changed.cpp:344-373, 489-513, 693-719).
MapConsistent ==
    /\ TypeOK
    /\ dead = "no" =>
        /\ \A j, k \in DOMAIN f_watches :
            f_watches[j].path = f_watches[k].path => j = k
        /\ \A wd \in DOMAIN watches :
            \E k \in DOMAIN f_watches : f_watches[k].watch = wd
        /\ \A k \in DOMAIN f_watches :
            f_watches[k].watch = k \/ f_watches[k].path \in merged

\* An event that is told belongs to what was asked for that path since it
\* is watched: events of a watch that was stopped in the meantime, still in
\* the queue or in the buffer, are not told, even when the path is watched
\* again for something else (file_changed.cpp:697-729).
ToldWasAsked ==
    [][pc = "handle" /\ pc' = "callback" /\ E.wd # Error =>
        LET requests == asked[f_watches[E.wd].path]
        IN  /\ \E r \in requests : E.name \in r[1]
            /\ \/ "IN_IGNORED" \in E.mask
               \/ \E r \in requests : E.mask \subseteq events_to_mask(r[2])]_vars

\* A change to a watched file is told, or the application is told that the
\* queue overflowed and it has to look by itself, unless the path is not
\* watched any more, was watched again or the process ended
\* (file_changed.cpp:564-731).
ChangeTold ==
    \A p \in Paths, name \in Files :
        (<<p, name>> \in owed) ~>
            (<<p, name>> \notin owed \/ p \in merged \/ dead # "no")
=============================================================================
