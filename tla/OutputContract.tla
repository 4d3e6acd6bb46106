--------------------------- MODULE OutputContract ---------------------------
(***************************************************************************)
(* What is read out of a worker's stdout when it has ended: the values of  *)
(* its lines, those the contract selects, the result collected from them,  *)
(* the session, and the state the task ends in.                            *)
(*                                                                         *)
(* A JSON value is [text |-> t], a string, or [object |-> f], a function   *)
(* from keys to values; a path is a sequence of keys.  A line is a value,  *)
(* Blank, Garbled (no JSON) or Undecodable (no UTF-8, which only the       *)
(* format "json" minds).  Every text is already stripped, and the JSON     *)
(* text of an object is one constant.                                      *)
(***************************************************************************)
EXTENDS Integers, SequencesExt

CONSTANTS Blank, Garbled, Undecodable, Missing, JsonText

IsObject(value) == "object" \in DOMAIN value

\* The value at a path, or Missing.
Lookup(value, path) ==
  LET Down(current, key) ==
        IF current # Missing /\ IsObject(current) /\ key \in DOMAIN current.object
        THEN current.object[key] ELSE Missing
  IN  FoldLeft(Down, value, path)

\* expected: a function from paths to values.
Matches(value, expected) ==
  IsObject(value) /\ \A path \in DOMAIN expected : Lookup(value, path) = expected[path]

AsText(value) == IF IsObject(value) THEN JsonText ELSE value.text

\* The values of a file, by their lines.
ReadJsonValues(file) == {i \in DOMAIN file : file[i] # Blank}

\* The texts at some of the lines, gathered line by line.
TextsUpTo(file, path, lines) ==
  LET texts[n \in 0 .. Len(file)] ==
        IF n = 0 THEN <<>>
        ELSE IF n \in lines THEN Append(texts[n - 1], AsText(Lookup(file[n], path)))
        ELSE texts[n - 1]
  IN  texts

\* A bug: empty texts are kept.
SelectKeepingEmpty(file, output) ==
  LET selected == {i \in ReadJsonValues(file) : /\ Matches(file[i], output.match)
                                                /\ Lookup(file[i], output.field) # Missing}
  IN  TextsUpTo(file, output.field, selected)[Len(file)]

SelectJsonValues(file, output) ==
  LET selected == {i \in ReadJsonValues(file) : /\ Matches(file[i], output.match)
                                                /\ Lookup(file[i], output.field) # Missing
                                                /\ AsText(Lookup(file[i], output.field)) # ""}
  IN  TextsUpTo(file, output.field, selected)[Len(file)]

Collect(texts, mode) ==
  CASE mode = "first"  -> <<Head(texts)>>
    [] mode = "last"   -> <<texts[Len(texts)]>>
    [] mode = "concat" -> texts

\* How reading the lines goes wrong.  A document of the format "json" is its
\* one value, and its decoding error is none of those the parsers expect.
ReadingError(file, format) ==
  CASE format = "json" /\ Contains(file, Undecodable) -> "uncaught"
    [] /\ format = "json" /\ ~Contains(file, Undecodable)
       /\ Len(file) # 1 \/ file[1] \in {Garbled, Blank} -> "protocol"
    [] format = "jsonl" /\ Contains(file, Garbled) -> "protocol"
    [] OTHER -> "none"

Raises(error) == [error |-> error]

\* Of the format "text" the whole file is the result.
ParseText(file) ==
  IF \A i \in DOMAIN file : file[i] = Blank THEN Raises("protocol")
  ELSE [error |-> "none", result |-> file]

ParseOutput(file, output) ==
  LET error == ReadingError(file, output.format)
      texts == SelectJsonValues(file, output)
  IN  IF output.format = "text" THEN ParseText(file)
      ELSE IF error # "none" THEN Raises(error)
      ELSE IF texts = <<>> THEN Raises("protocol")
      ELSE [error |-> "none", result |-> Collect(texts, output.collect)]

\* The result that was found, or the end of the file: either is a partial.
BestEffortPartial(file, output) ==
  LET parsed == ParseOutput(file, output)
  IN  IF parsed.error = "protocol" THEN [error |-> "none"] ELSE [error |-> parsed.error]

-----------------------------------------------------------------------------
\* The sessions that the lines of the file name.
SessionCandidates(file, session) ==
  LET named == {i \in ReadJsonValues(file) : Matches(file[i], session.id_match)}
  IN  {Lookup(file[i], session.id_field) : i \in named} \ {Missing}

\* A bug: any of the sessions will do.
ParseSessionIdFirst(file, format, session) ==
  LET error == ReadingError(file, format)
      ids   == SessionCandidates(file, session)
  IN  IF error # "none" THEN Raises(error)
      ELSE IF ids = {} \/ \E id \in ids : IsObject(id) \/ id.text = ""
      THEN Raises("protocol")
      ELSE [error |-> "none", id |-> (CHOOSE id \in ids : TRUE).text]

\* There is one, and it is a text.
ParseSessionId(file, format, session) ==
  LET error == ReadingError(file, format)
      ids   == SessionCandidates(file, session)
  IN  IF error # "none" THEN Raises(error)
      ELSE IF ids = {} \/ (\E id \in ids : IsObject(id) \/ id.text = "") \/ (\E v, w \in ids : v # w)
      THEN Raises("protocol")
      ELSE [error |-> "none", id |-> (CHOOSE id \in ids : TRUE).text]

-----------------------------------------------------------------------------
(* How a task ends.  run.reason: why the supervisor stopped the worker, or *)
(* "none"; run.exited: with a success code; run.native: the session to     *)
(* resume, or Missing.                                                     *)

ReasonState(reason) ==
  CASE reason = "CANCELLED"    -> "CANCELLED"
    [] reason = "TIMEOUT"      -> "TIMED_OUT"
    [] reason = "OUTPUT_LIMIT" -> "FAILED"

\* The session at the end: what the output says, which a resumed worker must
\* agree with.  session is Missing for an agent without an output selector.
EndSession(file, format, session, run) ==
  IF session = Missing THEN [error |-> "none", id |-> run.native]
  ELSE LET parsed == ParseSessionId(file, format, session)
       IN  IF parsed.error = "none" /\ run.native \notin {Missing, parsed.id}
           THEN Raises("mismatch") ELSE parsed

\* An exception nobody expects is the last-resort handler's.
Fails(state, code, partial) ==
  IF partial.error = "none" THEN [state |-> state, code |-> code]
                            ELSE [state |-> "FAILED", code |-> "SPAWN_ERROR"]

\* A bug: the exit code is looked at before the reason.
ConcludeByExit(file, output, session, run) ==
  LET found   == EndSession(file, output.format, session, run)
      final   == ParseOutput(file, output)
      partial == BestEffortPartial(file, output)
  IN  IF found.error = "mismatch" THEN Fails("FAILED", "PROTOCOL_ERROR", partial)
      ELSE IF ~run.exited THEN Fails("FAILED", "NONZERO_EXIT", partial)
      ELSE IF run.reason # "none" THEN Fails(ReasonState(run.reason), run.reason, partial)
      ELSE IF found.error # "none" \/ final.error # "none"
           THEN Fails("FAILED", "PROTOCOL_ERROR", partial)
      ELSE [state |-> "COMPLETED", code |-> "none", result |-> final.result, session |-> found.id]

Conclude(file, output, session, run) ==
  LET found   == EndSession(file, output.format, session, run)
      final   == ParseOutput(file, output)
      partial == BestEffortPartial(file, output)
  IN  IF found.error = "mismatch" THEN Fails("FAILED", "PROTOCOL_ERROR", partial)
      ELSE IF run.reason # "none" THEN Fails(ReasonState(run.reason), run.reason, partial)
      ELSE IF ~run.exited THEN Fails("FAILED", "NONZERO_EXIT", partial)
      ELSE IF found.error # "none" \/ final.error # "none"
           THEN Fails("FAILED", "PROTOCOL_ERROR", partial)
      ELSE [state |-> "COMPLETED", code |-> "none", result |-> final.result, session |-> found.id]
=============================================================================
