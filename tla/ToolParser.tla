---- MODULE ToolParser ----
(***************************************************************************)
(* The fail-closed tool-call parser that yama-glm47.py edits into the GLM  *)
(* parser of vLLM, with HAREM_GLM47_FAILCLOSED on, for one response: what  *)
(* the model writes reaches the parser as events, a batch of events makes  *)
(* one delta for the client, and the engine under the parser (external)    *)
(* keeps a slot for each tool call and ends a call that is still open when *)
(* the response does.  Text is an item, a call is its name and the keys of *)
(* its complete pairs.                                                     *)
(***************************************************************************)
EXTENDS Naturals, Sequences

CONSTANTS
  Tools,              \* the names of the tools that a request carries
  Props, Required,    \* of each tool: properties and required, as sets of keys
  Invented,           \* a name or key of no tool, shaped like an identifier
  Garbage,            \* a name or key not shaped like one
  NoName,              \* the name of a slot that has none yet
  HasTools,           \* the values of "the request carries tools" to choose from
  HAREM_GLM47_REQUIRED,
  MaxItems            \* bound on the items of a response

ASSUME ParserNames ==
  /\ Invented \notin Tools /\ Garbage \notin Tools /\ NoName \notin Tools
  /\ Invented # Garbage /\ Invented # NoName /\ Garbage # NoName
  /\ \A t \in Tools : Required[t] \subseteq Props[t] /\ Garbage \notin Props[t]

VARIABLES
  hasTools,
  parser,       \* slots, the closed calls, _harem_reject_text, and the delta
  callOpen,     \* the engine is inside a call: that of the last slot
  written,      \* what the model has completed: numbered texts, and slots
  client,       \* what the client has got: content items and calls, with the delta
  nDeltas, finished

parserVars == <<hasTools, parser, callOpen, written, client, nDeltas, finished>>

Keys == (UNION {Props[t] : t \in Tools}) \union {Invented, Garbage}

FreshSlot == [name |-> NoName, keys |-> {}, ragged |-> FALSE]
NoDelta == [content |-> <<>>, calls |-> <<>>]
LastOf(s) == s[Len(s)]

ParserInit ==
  /\ hasTools \in HasTools
  /\ parser = [slots |-> <<>>, closed |-> {}, rejects |-> <<>>, delta |-> NoDelta]
  /\ callOpen = FALSE /\ finished = FALSE
  /\ written = <<>> /\ client = NoDelta /\ nDeltas = 0

PropertiesOf(name) == IF hasTools /\ name \in Tools THEN Props[name] ELSE {}
RequiredOf(name) ==
  IF HAREM_GLM47_REQUIRED /\ hasTools /\ name \in Tools THEN Required[name] ELSE {}

(* _harem_validate_call returns None.  A body without a complete pair is   *)
(* either empty or truncated.                                              *)
Validates(slot) ==
  /\ slot.name \notin {NoName, Garbage}
  /\ hasTools => slot.name \in Tools
  /\ slot.ragged => slot.keys # {}
  /\ Garbage \notin slot.keys
  /\ PropertiesOf(slot.name) # {} => slot.keys \subseteq PropertiesOf(slot.name)
  /\ RequiredOf(slot.name) \subseteq slot.keys

(* Mutant: a rejected call stays in its slot.                              *)
KeepsSlot(p, idx) == [p EXCEPT !.rejects = Append(@, <<"call", idx>>)]

(* _harem_reject: the text of the call is kept and the slot is cleared.    *)
Reject(p, idx) ==
  [p EXCEPT !.rejects = Append(@, <<"call", idx>>), !.slots[idx] = FreshSlot]

(* _handle_tool_end: a call is validated when it closes, and only then     *)
(* becomes a tool call in the delta.                                       *)
HandleToolEnd(p) ==
  LET idx == Len(p.slots)
      q == [p EXCEPT !.closed = @ \union {idx}]
  IN IF Validates(p.slots[idx])
     THEN [q EXCEPT !.delta.calls = Append(@, [idx |-> idx, call |-> p.slots[idx]])]
     ELSE Reject(q, idx)

(* The slots that were never closed, which the end of the response sweeps. *)
NeverClosed(p) ==
  {i \in 1 .. Len(p.slots) :
     i \notin p.closed /\ p.slots[i] # FreshSlot}

(* Mutants: what is rejected at the very end is not flushed; rejected text *)
(* waits for the end of the response.                                      *)
FlushesUntilEnd(p, atEnd) ==
  IF atEnd THEN p ELSE [p EXCEPT !.delta.content = @ \o p.rejects, !.rejects = <<>>]
FlushesAtEnd(p, atEnd) ==
  IF atEnd THEN [p EXCEPT !.delta.content = @ \o p.rejects, !.rejects = <<>>] ELSE p

(* _harem_finalize: the rejected text goes behind the content of the delta.*)
Finalize(p, atEnd) ==
  LET swept == IF atEnd /\ NeverClosed(p) # {} THEN Reject(p, Len(p.slots)) ELSE p
  IN [swept EXCEPT !.delta.content = @ \o swept.rejects, !.rejects = <<>>]

(* The delta of the parser state p goes to the client.                     *)
Deliver(p) ==
  LET stamped(s) == [i \in 1 .. Len(s) |-> [item |-> s[i], delta |-> nDeltas + 1]] IN
  /\ client' = [content |-> client.content \o stamped(p.delta.content),
                calls |-> client.calls \o stamped(p.delta.calls)]
  /\ parser' = [p EXCEPT !.delta = NoDelta]
  /\ nDeltas' = nDeltas + 1

(* Events of the engine. *)
TextEvent ==
  LET item == <<"text", Len(written)>> IN
  /\ ~finished /\ ~callOpen /\ Len(written) < MaxItems
  /\ written' = Append(written, item)
  /\ parser' = [parser EXCEPT !.delta.content = Append(@, item)]
  /\ UNCHANGED <<hasTools, callOpen, client, nDeltas, finished>>

CallStarts ==
  /\ ~finished /\ ~callOpen /\ Len(written) < MaxItems
  /\ callOpen' = TRUE
  /\ parser' = [parser EXCEPT !.slots = Append(@, FreshSlot)]
  /\ UNCHANGED <<hasTools, written, client, nDeltas, finished>>

(* More of the open call: its name before any argument, the beginning of a *)
(* pair, or the rest of one.  No delta of a name leaves (_emit_name_delta).*)
NameEvent(n) ==
  /\ callOpen /\ LastOf(parser.slots) = FreshSlot
  /\ parser' = [parser EXCEPT !.slots[Len(parser.slots)].name = n]
  /\ UNCHANGED <<hasTools, callOpen, written, client, nDeltas, finished>>

ArgChunk ==
  /\ callOpen /\ ~LastOf(parser.slots).ragged
  /\ parser' = [parser EXCEPT !.slots[Len(parser.slots)].ragged = TRUE]
  /\ UNCHANGED <<hasTools, callOpen, written, client, nDeltas, finished>>

PairCompletes(k) ==
  LET slot == LastOf(parser.slots) IN
  /\ callOpen /\ slot.ragged
  /\ parser' = [parser EXCEPT !.slots[Len(parser.slots)] =
                   [slot EXCEPT !.ragged = FALSE, !.keys = slot.keys \union {k}]]
  /\ UNCHANGED <<hasTools, callOpen, written, client, nDeltas, finished>>

CallEnds ==
  /\ callOpen
  /\ callOpen' = FALSE
  /\ written' = Append(written, <<"call", Len(parser.slots)>>)
  /\ parser' = HandleToolEnd(parser)
  /\ UNCHANGED <<hasTools, client, nDeltas, finished>>

(* _events_to_delta returns: the batch of events ends here.                *)
DeltaEnds ==
  /\ ~finished
  /\ parser.delta # NoDelta \/ parser.rejects # <<>>
  /\ Deliver(Finalize(parser, FALSE))
  /\ UNCHANGED <<hasTools, callOpen, written, finished>>

(* finish_streaming: the engine ends an open call, and what is left is     *)
(* swept.                                                                  *)
FinishStreaming ==
  /\ ~finished
  /\ finished' = TRUE /\ callOpen' = FALSE
  /\ written' = IF callOpen THEN Append(written, <<"cut", Len(parser.slots)>>) ELSE written
  /\ Deliver(Finalize(IF callOpen THEN HandleToolEnd(parser) ELSE parser, TRUE))
  /\ UNCHANGED hasTools

ParserNext ==
  \/ TextEvent \/ CallStarts
  \/ \E n \in Tools \union {Invented, Garbage} : NameEvent(n)
  \/ ArgChunk
  \/ \E k \in Keys : PairCompletes(k)
  \/ CallEnds \/ DeltaEnds \/ FinishStreaming

ParserSpec == ParserInit /\ [][ParserNext]_parserVars

(* _build_extracted_result, for a response that is not streamed: every     *)
(* slot with a name or arguments becomes a tool call.                      *)
Extracted == {i \in 1 .. Len(parser.slots) : parser.slots[i] # FreshSlot}

-----------------------------------------------------------------------------
(* Properties. *)

Streamed == {client.calls[i].item.idx : i \in 1 .. Len(client.calls)}
Surfaced == {client.content[i].item : i \in 1 .. Len(client.content)}

(* The name is of the request, or looks like one if it has no tools, the   *)
(* keys are the schema's, and none that it requires is missing.            *)
SoundCall(call) ==
  /\ IF hasTools THEN call.name \in Tools ELSE call.name \notin {NoName, Garbage}
  /\ Garbage \notin call.keys
  /\ hasTools =>
       /\ Props[call.name] # {} => call.keys \subseteq Props[call.name]
       /\ HAREM_GLM47_REQUIRED => Required[call.name] \subseteq call.keys

(* "Nothing partial leaves the parser": however the events are cut into    *)
(* deltas, a call that the client was given came in one delta and was      *)
(* sound, and a response that is not streamed gives the same calls.        *)
SoundCallsOnly ==
  /\ \A i \in 1 .. Len(client.calls) : SoundCall(client.calls[i].item.call)
  /\ \A i, j \in 1 .. Len(client.calls) :
       client.calls[i].item.idx = client.calls[j].item.idx => i = j
  /\ finished => Streamed = Extracted

(* "A rejected call becomes content": at the end each text, and each call  *)
(* that is not a tool call, is in the content once, and nothing else is.   *)
NothingLost ==
  finished =>
    /\ Surfaced = {written[i] : i \in {j \in 1 .. Len(written) : written[j][1] = "text"}}
                    \union {<<"call", i>> : i \in (1 .. Len(parser.slots)) \ Streamed}
    /\ Len(client.content) + Len(client.calls) = Len(written)

(* The content keeps the order in which it was written, but for rejected   *)
(* text, which comes after what follows it in its own delta.               *)
ContentOrder ==
  \A i, j \in 1 .. Len(client.content), m, n \in 1 .. Len(written) :
    i < j /\ n < m /\ written[m] = client.content[i].item /\ written[n] = client.content[j].item
      => /\ client.content[i].delta = client.content[j].delta
         /\ written[m][1] = "text" /\ written[n][1] = "call"

(* "A call that never closes is caught twice": what the client is given as *)
(* a tool call was closed by the model.                                    *)
UnclosedRejected ==
  \A i \in 1 .. Len(written) : written[i][1] = "cut" => written[i][2] \notin Streamed
====
