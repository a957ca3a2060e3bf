------------------------------ MODULE MCDispatcher ------------------------------
EXTENDS Dispatcher

MCValues == {<<"1">>, <<Quote, "\n">>, <<";", Backslash>>, <<"1", Nul, "n">>}

Is(flags, type) == [flags |-> flags, type |-> type]
MCDefinitions ==
    [A |-> [serial |-> Is({"required"}, "integer")],
     ALIVE |-> [serial |-> Is({}, "string")],
     READY |-> [serial |-> Is({}, "string")],
     COMMANDS |-> [list |-> Is({"required"}, "string")],
     UNKNOWN |-> [command |-> Is({}, "string")]]

MCUserMatches ==
    {Match("A", "one_to_one", 7, 1),
     Match("A", "one_to_one_callback", 7, NoTag),
     Match(None, "callback", 0, 1)}

\* Every value of up to three characters survives exactly if it is not lossy.
Characters == {"a", "n", ";", " ", Tab, Nul, Quote, Backslash, "\n"}
ASSUME RoundTrip ==
    \A v \in UNION {[1 .. n -> Characters] : n \in 0 .. 3} :
        LET m == [EmptyMessage EXCEPT !.command = "A", !.parameters = [n \in {"p"} |-> v]]
        IN  (from_string(to_string(m)) = m) # LossyValue(v)
=============================================================================
