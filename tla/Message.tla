-------------------------------- MODULE Message --------------------------------
(***************************************************************************)
(* ed::message: the fields of a message, the line of text it is sent as    *)
(* (to_string() and its cache), the parser of that line (from_string())    *)
(* and the verification of parameters against a definition.                *)
(*                                                                         *)
(* A text is a sequence of characters. A name (server, service, command,   *)
(* parameter) has none of the special characters and counts as one.        *)
(***************************************************************************)
EXTENDS Integers, Sequences, SequencesExt, FiniteSets

None == ""               \* an empty name
Less == "<"
Colon == ":"
Slash == "/"
Blank == " "
Tab == "\t"
Nul == "NUL"             \* the character 0, which ends a text for from_string()
Equal == "="
Semicolon == ";"
Quote == "\""
Backslash == "\\"
Newline == "\n"
Return == "\r"
White == {Blank, Tab, Newline, Return}
Specials ==
    {Less, Colon, Slash, Equal, Semicolon, ",", Quote, Backslash, Nul} \cup White

Names == STRING \ (Specials \cup {None})

NoParameters == [p \in {} |-> <<>>]
EmptyMessage ==
    [sent_from_server |-> None, sent_from_service |-> None,
     server |-> None, service |-> None, command |-> None,
     parameters |-> NoParameters]
Refused == EmptyMessage

Added(f, name, value) ==
    [n \in DOMAIN f \cup {name} |-> IF n = name THEN value ELSE f[n]]

---------------------------------------------------------------------------
(* to_string() *)

\* The characters that are replaced, and by what.
Escape(c, quote) ==
    CASE c = Backslash -> <<Backslash, Backslash>>
      [] c = Newline -> <<Backslash, "n">>
      [] c = Return -> <<Backslash, "r">>
      [] c = Quote /\ quote -> <<Backslash, Quote>>
      [] OTHER -> <<c>>

NeedsQuotes(value) ==
    value # <<>> /\ (value[1] = Quote \/ Semicolon \in ToSet(value))

Escaped(value, quote) == FlattenSeq([i \in DOMAIN value |-> Escape(value[i], quote)])
SafeValue(value) ==
    IF NeedsQuotes(value) THEN <<Quote>> \o Escaped(value, TRUE) \o <<Quote>>
    ELSE Escaped(value, FALSE)

\* An empty name adds nothing to the text.
Sender(m) ==
    LET server == m.sent_from_server
        service == m.sent_from_service
    IN  CASE server = None /\ service = None -> <<>>
          [] server = None /\ service # None -> <<Less, Colon, service, Blank>>
          [] server # None /\ service = None -> <<Less, server, Colon, Blank>>
          [] OTHER -> <<Less, server, Colon, service, Blank>>

\* The server is part of the text only if there is a service.
Recipient(m) ==
    IF m.service = None THEN <<m.command>>
    ELSE IF m.server = None THEN <<m.service, Slash, m.command>>
    ELSE <<m.server, Colon, m.service, Slash, m.command>>

\* The order of the parameters is that of a map.
ParameterText(separator, name, value) == <<separator, name, Equal>> \o SafeValue(value)
to_string(m) ==
    LET names == SetToSeq(DOMAIN m.parameters)
    IN  Sender(m) \o Recipient(m) \o FlattenSeq([i \in DOMAIN names |->
            ParameterText(IF i = 1 THEN Blank ELSE Semicolon, names[i], m.parameters[names[i]])])

---------------------------------------------------------------------------
(* from_string() *)

\* Everything up to the first of some characters, from position i on.
EndOf(text, i, stops) ==
    LET found == {k \in i .. Len(text) : text[k] \in stops}
    IN  IF found = {} THEN Len(text) + 1 ELSE Min(found)

Trim(text) ==
    LET used == {i \in DOMAIN text : text[i] \notin White}
    IN  IF used = {} THEN <<>> ELSE SubSeq(text, Min(used), Max(used))

\* The text is read with a C pointer.
BeforeNul(text) == SubSeq(text, 1, EndOf(text, 1, {Nul}) - 1)

\* A backslash before a quote goes away, the next quote ends the value; zero
\* when there is none.
QuotedFrom(text, k, parse) ==
    IF k > Len(text) THEN [end |-> 0, value |-> <<>>]
    ELSE IF text[k] = Quote THEN [end |-> k + 1, value |-> <<>>]
    ELSE LET escaped == /\ text[k] = Backslash
                        /\ k < Len(text) /\ text[k + 1] = Quote
             next == parse[IF escaped THEN k + 2 ELSE k + 1]
         IN  [end |-> next.end,
              value |-> <<IF escaped THEN Quote ELSE text[k]>> \o next.value]
Quoted(text, start) ==
    LET parse[k \in start .. Len(text) + 2] == QuotedFrom(text, k, parse)
    IN  parse[start]

\* string_replace_many(): one pass from left to right.
UnescapeFrom(value, k, replace) ==
    IF k > Len(value) THEN <<>>
    ELSE IF /\ value[k] = Backslash /\ k < Len(value)
            /\ value[k + 1] \in {Backslash, "n", "r"}
      THEN <<CASE value[k + 1] = "n" -> Newline
               [] value[k + 1] = "r" -> Return
               [] OTHER -> Backslash>> \o replace[k + 2]
      ELSE <<value[k]>> \o replace[k + 1]
Unescape(value) ==
    LET replace[k \in 1 .. Len(value) + 2] == UnescapeFrom(value, k, replace)
    IN  replace[1]

\* The value after the equal sign and where it ends.
ValueAt(text, equal) ==
    IF equal < Len(text) /\ text[equal + 1] = Quote THEN Quoted(text, equal + 2)
    ELSE LET e == EndOf(text, equal + 1, {Semicolon})
         IN  [end |-> e, value |-> SubSeq(text, equal + 1, e - 1)]

\* The parameters from position i on: a valid name, an equal sign, a value,
\* and a semicolon if there is another one.
ParametersFrom(text, i, parse) ==
    IF i > Len(text) THEN [ok |-> TRUE, parameters |-> NoParameters]
    ELSE LET equal == EndOf(text, i, {Equal})
             v == ValueAt(text, equal)
         IN  IF \/ equal # i + 1 \/ text[i] \in Specials \/ equal > Len(text)
                \/ v.end = 0 \/ (v.end <= Len(text) /\ text[v.end] # Semicolon)
               THEN [ok |-> FALSE, parameters |-> NoParameters]
               ELSE LET rest == parse[v.end + 1]
                    IN  [ok |-> rest.ok,
                         parameters |-> IF text[i] \in DOMAIN rest.parameters
                                          THEN rest.parameters
                                          ELSE Added(rest.parameters, text[i], Unescape(v.value))]
Parameters(text, start) ==
    LET parse[i \in start .. Len(text) + 2] == ParametersFrom(text, i, parse)
    IN  parse[start]

\* [<server> ':'] [<service> '/'] <command>; any character but the two
\* separators may be in a name, which is one element here.
Destination(h) ==
    IF \E i \in DOMAIN h : (i % 2 = 1) = (h[i] \in {Colon, Slash}) THEN Refused
    ELSE CASE Len(h) = 1 -> [EmptyMessage EXCEPT !.command = h[1]]
           [] Len(h) = 3 /\ h[2] = Slash ->
                [EmptyMessage EXCEPT !.service = h[1], !.command = h[3]]
           [] Len(h) = 3 /\ h[2] = Colon ->
                [EmptyMessage EXCEPT !.server = h[1], !.command = h[3]]
           [] Len(h) = 5 /\ h[2] = Colon /\ h[4] = Slash ->
                [EmptyMessage EXCEPT !.server = h[1], !.service = h[3], !.command = h[5]]
           [] OTHER -> Refused

\* A text that is refused changes nothing of the message.
Parsed(text) ==
    LET sender == text # <<>> /\ text[1] = Less
        colon == EndOf(text, 2, {Colon, Blank})
        blank == EndOf(text, 1, {Blank})
        start == IF sender THEN blank + 1 ELSE 1
        space == EndOf(text, start, {Blank})
        m == Destination(SubSeq(text, start, space - 1))
        p == Parameters(text, space + 1)
    IN  IF (sender /\ (blank > Len(text) \/ text[colon] = Blank)) \/ m = Refused \/ ~p.ok
          THEN Refused
          ELSE [sent_from_server |-> IF sender /\ colon = 3 THEN text[2] ELSE None,
                sent_from_service |-> IF sender /\ blank = colon + 2 THEN text[colon + 1] ELSE None,
                server |-> m.server, service |-> m.service, command |-> m.command,
                parameters |-> p.parameters]
from_string(original) == Parsed(BeforeNul(Trim(original)))

\* What does not survive: a value with a character 0, which ends the text; one
\* in quotes that ends with a backslash, which hides the closing quote; and
\* white space at the end of a value without quotes, if it is the last one. An
\* end of line is safe: it is escaped.
LossyValue(value) ==
    \/ Nul \in ToSet(value)
    \/ /\ value # <<>>
       /\ IF NeedsQuotes(value) THEN value[Len(value)] = Backslash
          ELSE value[Len(value)] \in {Blank, Tab}
Lossy(m) ==
    \/ \E p \in DOMAIN m.parameters : LossyValue(m.parameters[p])
    \/ m.server # None /\ m.service = None

---------------------------------------------------------------------------
(* check_parameters() *)

\* Strings convert to anything; the value 1 stands for all that can be
\* converted to the other types.
Converts(type, value) == type = "string" \/ value = <<"1">>

check_parameters(definition, parameters) ==
    \A n \in DOMAIN definition :
        IF n \notin DOMAIN parameters THEN "required" \notin definition[n].flags
        ELSE /\ "forbidden" \notin definition[n].flags
             /\ IF parameters[n] = <<>> THEN "empty" \in definition[n].flags
                ELSE Converts(definition[n].type, parameters[n])
=============================================================================
