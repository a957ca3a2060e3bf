------------------------------ MODULE MCReporter ------------------------------
EXTENDS Reporter

Op(name) == [op |-> name]
MCLabel(name) == [op |-> "label", name |-> name]
MCIf(variable, labels) == [op |-> "if", variable |-> variable, labels |-> labels]
MCListen(type) == [op |-> "listen", type |-> type]
MCWait(how) == [op |-> "wait", mode |-> how]
MCExit(how) == [op |-> "exit", how |-> how]

\* Binary data, verified in pieces.
Data ==
    <<MCListen("tcp"), Op("run"), MCLabel("more"), MCWait("wait"),
      [op |-> "has_data", min_size |-> 2], MCIf("", [false |-> "more"]),
      [op |-> "verify_data", size |-> 1], Op("send_data"), MCWait("timeout"),
      [op |-> "has_data", min_size |-> 3], MCIf("", [true |-> "rest"]),
      Op("clear_data"), MCWait("timeout"),
      MCLabel("rest"), [op |-> "verify_data", size |-> 2],
      Op("disconnect"), MCExit("success")>>

\* Messages and an answer that is drained; a function with a variable.
Messages ==
    <<MCListen("messenger"), Op("run"), MCLabel("more"), Op("clear_message"), MCWait("wait"),
      [op |-> "has_message", command |-> "A"], MCIf("", [equal |-> "more"]),
      [op |-> "verify_message", command |-> "A"],
      [op |-> "call", label |-> "func"], MCWait("drain"), MCExit("timeout"),
      MCLabel("func"),
      [op |-> "save_parameter_value", name |-> "v", value |-> [type |-> "integer", sign |-> "LESS"]],
      MCIf("v", [ordered |-> "send"]),
      MCLabel("send"), Op("send_message"),
      [op |-> "unset_variable", name |-> "v"],
      [op |-> "has_type", name |-> "v", type |-> "integer"],
      MCIf("", [unordered |-> "end"]), MCExit("error"),
      MCLabel("end"), Op("return")>>

\* Scripts that end early: in start(), with an exception or without one, and
\* in the thread.
Early ==
    {<<[op |-> "compare", value |-> "EQUAL"], MCIf("", [greater |-> "x"]), MCExit("success"),
       MCLabel("x")>>,
     <<MCIf("", [true |-> "x"]), MCLabel("x")>>,
     <<MCWait("drain")>>,
     <<Op("run"), Op("other"), MCWait("wait")>>,
     <<Op("run"), [op |-> "goto", label |-> "x"], MCLabel("x"), Op("send_message")>>,
     <<MCListen("tcp"), Op("run"), MCListen("tcp")>>}

MCPrograms == {Data, Messages} \cup Early
=============================================================================
