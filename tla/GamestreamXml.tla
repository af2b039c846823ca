--------------------------- MODULE GamestreamXml ---------------------------
(***************************************************************************)
(* libgamestream/xml.c: what the client reads out of an answer of the      *)
(* host.  A document is the sequence of events the expat parser reports:   *)
(* an element opens or closes, or text is found.  The handlers of xml.c    *)
(* are operators on the record that the code calls xml_query.              *)
(*                                                                         *)
(* A piece of text is one value, and what realloc and memcpy collect is a  *)
(* sequence of such values: <<>> is the empty string.                      *)
(***************************************************************************)
EXTENDS Integers, Sequences, SequencesExt

(* errors.h *)
GS_OK == 0
GS_FAILED == -1
GS_INVALID == -3
GS_WRONG_STATE == -4
GS_IO_ERROR == -5
GS_NOT_SUPPORTED_4K == -6
GS_UNSUPPORTED_VERSION == -7
GS_NOT_SUPPORTED_MODE == -8
GS_ERROR == -9

STATUS_OK == 200

Open(name) == [event |-> "open", of |-> name]
Close(name) == [event |-> "close", of |-> name]
Text(value) == [event |-> "text", of |-> value]
Element(name, value) == <<Open(name), Text(value), Close(name)>>

(* An answer: whether expat accepts it, the status_code of its root, and   *)
(* the events inside the root.                                             *)
Document(status, events) ==
    [wellFormed |-> TRUE, status |-> status, events |-> events]
Garbled == [wellFormed |-> FALSE, status |-> 0, events |-> <<>>]
NoDocument == Garbled

atoi(memory) == IF memory = <<>> THEN 0 ELSE memory[1]

-----------------------------------------------------------------------------
xml_status(doc) ==
    CASE ~doc.wellFormed          -> GS_INVALID
      [] doc.status = STATUS_OK   -> GS_OK
      [] OTHER                    -> GS_ERROR

(* expat calls the handlers with one event after the other: what they make *)
(* of the query by each of them.                                           *)
XML_Parse(handler(_, _), query, events) ==
    LET after[n \in 0..Len(events)] ==
          IF n = 0 THEN query ELSE handler(after[n - 1], events[n])
    IN  after[Len(events)]

(* xml_search: the text of every element called node, run together. *)
SearchEvent(node, query, ev) ==
    CASE ev.event = "open" /\ ev.of = node ->
           [query EXCEPT !.start = @ + 1]
      [] ev.event = "close" /\ ev.of = node ->
           [query EXCEPT !.start = @ - 1]
      [] ev.event = "text" /\ query.start > 0 ->
           [query EXCEPT !.memory = Append(@, ev.of)]
      [] OTHER -> query

xml_search(doc, node) ==
    IF doc.wellFormed
    THEN [ret |-> GS_OK,
          result |-> XML_Parse(LAMBDA q, ev : SearchEvent(node, q, ev),
                               [start |-> 0, memory |-> <<>>],
                               doc.events).memory]
    ELSE [ret |-> GS_INVALID, result |-> <<>>]

(* xml_applist: a new application is put in front of the list, and the     *)
(* text of an ID or an AppTitle goes to the application in front.          *)
NoName == "null"
ApplistEvent(query, ev) ==
    CASE ev.event = "open" /\ ev.of = "App" ->
           [query EXCEPT !.data = <<[id |-> 0, name |-> NoName]>> \o @]
      [] ev.event = "open" /\ ev.of \in {"ID", "AppTitle"} ->
           [query EXCEPT !.memory = <<>>, !.start = 1]
      [] ev.event = "text" /\ query.start > 0 ->
           [query EXCEPT !.memory = Append(@, ev.of)]
      [] ev.event = "close" /\ query.start > 0 /\ query.data # <<>> ->
           [query EXCEPT
              !.start = 0,
              !.data = CASE ev.of = "ID" ->
                              [@ EXCEPT ![1].id = atoi(query.memory)]
                         [] ev.of = "AppTitle" /\ query.memory # <<>> ->
                              [@ EXCEPT ![1].name = query.memory[1]]
                         [] OTHER -> @]
      [] OTHER -> query

xml_applist(doc) ==
    IF doc.wellFormed
    THEN [ret |-> GS_OK,
          list |-> XML_Parse(ApplistEvent,
                            [start |-> 0, memory |-> <<>>, data |-> <<>>],
                            doc.events).data]
    ELSE [ret |-> GS_INVALID, list |-> <<>>]

(* xml_modelist: the same for the display modes the host offers. *)
ModeEvent(query, ev) ==
    CASE ev.event = "open" /\ ev.of = "DisplayMode" ->
           [query EXCEPT !.data =
              <<[width |-> 0, height |-> 0, refresh |-> 0]>> \o @]
      [] /\ ev.event = "open"
         /\ query.data # <<>>
         /\ ev.of \in {"Width", "Height", "RefreshRate"} ->
           [query EXCEPT !.memory = <<>>, !.start = 1]
      [] ev.event = "text" /\ query.start > 0 ->
           [query EXCEPT !.memory = Append(@, ev.of)]
      [] ev.event = "close" /\ query.start > 0 /\ query.data # <<>> ->
           [query EXCEPT
              !.start = 0,
              !.data = CASE ev.of = "Width" ->
                              [@ EXCEPT ![1].width = atoi(query.memory)]
                         [] ev.of = "Height" ->
                              [@ EXCEPT ![1].height = atoi(query.memory)]
                         [] ev.of = "RefreshRate" ->
                              [@ EXCEPT ![1].refresh = atoi(query.memory)]
                         [] OTHER -> @]
      [] OTHER -> query

xml_modelist(doc) ==
    XML_Parse(ModeEvent, [start |-> 0, memory |-> <<>>, data |-> <<>>],
              doc.events).data
=============================================================================
