------------------------------- MODULE Answers -------------------------------
(***************************************************************************)
(* One request for an answer: the loop over accounts, the reading of the    *)
(* upstream's stream, what goes to the client, and what is reported about   *)
(* each account (completions of chat.py and console_chat.py, create of      *)
(* responses.py, messages.py and their console variants, the streams of     *)
(* build/chat.py and build/messages.py, and the wrappers of the routers).   *)
(* An event leaves when the server asks the generator for it, so the client *)
(* may go away after any of them.                                           *)
(***************************************************************************)
EXTENDS Naturals, Sequences, SequencesExt, FiniteSetsExt, ToolSieve, StreamAdapter, AnswerFormats

CONSTANTS Configs,     \* requests: [api, stream, tools, think, summary]
          Frames(_),   \* frames the upstream may send for a request
          Failures,    \* statuses a call may fail with
          MaxFrames(_), \* frames of a whole request
          MaxRetries   \* max_retries

VARIABLES cfg, pc, attempt, held, success, fail, gone,
          adapter, sieve, h,
          called,   \* "", or where the block of calls was found: "stream", "end"
          queue,    \* events the generator still has to yield
          out,      \* events the client has (history)
          view,     \* what a stream's events have made of the answer (history)
          mark,     \* how many it had when the attempt began (history)
          frames,   \* frames read (bound)
          reports   \* one entry per account that was used (history)

loop   == <<attempt, held, success, fail, gone>>
reader == <<adapter, sieve, h, called, frames>>
client == <<queue, out, mark, view>>
vars   == <<cfg, pc, loop, reader, client, reports>>

Console == {"console_chat", "console_messages", "console_responses"}
Build   == {"build_chat", "build_messages"}
Grok    == {"chat", "messages", "responses"}

(* Only the handlers of grok.com parse calls and read thinking.             *)
ASSUME ConfigsAssumption ==
  \A c \in Configs :
    /\ c.api \in Grok \cup Console \cup Build
    /\ {c.stream, c.tools, c.think, c.summary} \subseteq BOOLEAN
    /\ c.tools => c.api \in Grok

ASSUME FramesAssumption ==
  \A c \in Configs : \A f \in Frames(c) :
    /\ f.k = "token" => f.s \in Seq(STRING)
    /\ c.summary /\ f.k = "thinking" => f.x.class \in FragmentClasses
    /\ c.summary /\ f.k = "tool_card" => f.x.class \in ToolClasses

-----------------------------------------------------------------------------
(* The formats by API *)
Opening(api) ==
  CASE api = "chat"              -> ChatBegin
    [] api = "messages"          -> MessagesBegin
    [] api = "responses"         -> ResponsesBegin
    [] api = "console_chat"      -> ConsoleChatBegin
    [] api = "console_messages"  -> ConsoleMessagesBegin
    [] api = "console_responses" -> ConsoleResponsesBegin
    [] api = "build_chat"        -> BuildChatBegin
    [] api = "build_messages"    -> BuildMessagesBegin

Thinking(api, l) ==
  CASE api = "chat" -> ChatThinking(l) [] api = "messages" -> MessagesThinking(l)
    [] api = "responses" -> ResponsesThinking(l)

CloseThinking(api, l) ==
  CASE api = "messages" -> MessagesCloseThinking(l) [] api = "responses" -> ResponsesCloseThinking(l)
    [] OTHER -> Sends(l, <<>>)

Text(api, l, s) ==
  CASE api = "chat"              -> ChatText(l, s)
    [] api = "messages"          -> MessagesText(l, s)
    [] api = "responses"         -> ResponsesText(l, s)
    [] api = "console_chat"      -> ConsoleChatText(l, s)
    [] api = "console_messages"  -> ConsoleMessagesText(l, s)
    [] api = "console_responses" -> ConsoleResponsesText(l, s)
    [] api = "build_chat"        -> BuildChatText(l, s)
    [] api = "build_messages"    -> BuildMessagesText(l, s)

Note(api, l) ==
  CASE api = "responses" -> ResponsesNote(l) [] OTHER -> ChatNote(l)

Calls(api, l, safe, n) ==
  CASE api = "chat" -> ChatCalls(l, safe, n) [] api = "messages" -> MessagesCalls(l, n)
    [] api = "responses" -> ResponsesCalls(l, n)

CallsAtEnd(api, l, n) ==
  CASE api = "chat" -> ChatCalls(l, <<>>, n) [] api = "messages" -> MessagesCallsAtEnd(l, n)
    [] api = "responses" -> ResponsesCalls(l, n)

(* Chat has sent its last chunk with the calls. *)
Finishing(api, l, a, where) ==
  CASE api = "chat" ->
         IF where # "" THEN Sends(l, <<>>) ELSE ChatFinish(l, a.images, a.sources)
    [] api = "messages"          -> MessagesFinish(l, a.images, a.sources, where # "")
    [] api = "responses"         -> ResponsesFinish(l, a.images, a.sources, where # "")
    [] api = "console_chat"      -> ConsoleChatFinish(l)
    [] api = "console_messages"  -> ConsoleMessagesFinish(l)
    [] api = "console_responses" -> ConsoleResponsesFinish(l)
    [] api = "build_chat"        -> BuildChatFinish(l)
    [] api = "build_messages"    -> BuildMessagesFinish(l)

-----------------------------------------------------------------------------
(* One event of the adapter; after a stop or a block of calls the rest of   *)
(* the frame is dropped.  st has h, sieve, called, ended and out; c is the  *)
(* request.                                                                 *)
Sent(st, r) == [st EXCEPT !.h = r.h, !.out = @ \o r.out]

HandleText(c, st, s) ==
  LET shut == Sent(st, CloseThinking(c.api, st.h))
      fed  == Feed(st.sieve, s)
  IN  IF ~c.tools THEN Sent(shut, Text(c.api, shut.h, s))
      ELSE IF fed.found
      THEN [Sent(shut, Calls(c.api, shut.h, fed.safe, fed.calls))
              EXCEPT !.sieve = fed.sieve, !.called = "stream", !.ended = TRUE]
      ELSE [Sent(shut, Text(c.api, shut.h, fed.safe)) EXCEPT !.sieve = fed.sieve]

Handle(c, st, ev) ==
  CASE st.ended                          -> st
    [] ~st.ended /\ ev.kind = "text"       -> HandleText(c, st, ev.s)
    [] ~st.ended /\ ev.kind = "thinking"   -> IF c.think THEN Sent(st, Thinking(c.api, st.h)) ELSE st
    [] ~st.ended /\ ev.kind = "annotation" -> Sent(st, Note(c.api, st.h))
    [] ~st.ended /\ ev.kind = "soft_stop"  -> [st EXCEPT !.ended = TRUE]
    [] ~st.ended /\ ev.kind = "image"      -> st

(* The events of a frame, in the request c. *)
Handled(c, st, events) == FoldLeft(LAMBDA s, ev : Handle(c, s, ev), st, events)

FedBy(f) == IF cfg.api \in Grok THEN FeedFrame(adapter, f, cfg.summary) ELSE FeedConsole(adapter, f)

(* What a request that is not streamed returns: made of everything the last *)
(* adapter has.                                                             *)
Result ==
  LET text == adapter.text \o (IF cfg.api \in Grok THEN
                                 [i \in 1..adapter.images |-> "g"]
                                 \o (IF adapter.sources THEN <<"s">> ELSE <<>>)
                               ELSE <<>>)
      n == IF cfg.tools THEN ParseToolCalls(text) ELSE 0
  IN  IF n > 0 THEN E("result", "tool_calls", n, <<>>) ELSE E("result", "stop", 0, text)

RetryCodes == {429, 401, 503}

(* Mutant: what did not fail succeeded. *)
VerdictNoError(ok, status) ==
  CASE status = 0 -> "success" [] status = 429 -> "rate_limited" [] status = 401 -> "unauthorized"
    [] OTHER -> "server_error"

(* _feedback_kind of the exception; an end without one, as when the client  *)
(* goes away, counts against the server.                                    *)
Verdict(ok, status) ==
  CASE ok                              -> "success"
    [] ~ok /\ status = 429             -> "rate_limited"
    [] ~ok /\ status = 401             -> "unauthorized"
    [] ~ok /\ status \notin {429, 401} -> "server_error"

-----------------------------------------------------------------------------
(* The answer as AnswerProtocol sees it, and as an event changes it.      *)
Unstarted == [phase |-> "idle", part |-> "none", index |-> 0, at |-> 0]
Fits(part, kind) == part \in {"bare", kind} \/ <<part, kind>> = <<"text", "annotation">>
Shape(api, v, e) ==
  CASE e.t = "begin"  -> [phase |-> "open", index |-> 0, at |-> 0,
                          part |-> IF api \in {"chat", "console_chat", "build_chat"}
                                   THEN "bare" ELSE "none"]
    [] e.t = "open"   -> [v EXCEPT !.part = e.kind, !.at = e.i]
    [] e.t = "write"  -> [v EXCEPT !.at = e.i, !.part = IF Fits(@, e.kind) THEN @ ELSE "misfit"]
    [] e.t = "close"  -> [v EXCEPT !.part = "none", !.at = e.i, !.index = @ + 1]
    [] e.t = "finish" -> [v EXCEPT !.phase = "finished"]
    [] e.t = "error"  -> [v EXCEPT !.phase = "failed"]
    [] e.t = "end"    -> [v EXCEPT !.phase = "ended"]

-----------------------------------------------------------------------------
Init ==
  /\ cfg \in Configs
  /\ pc = "reserve" /\ attempt = 0 /\ held = FALSE /\ success = FALSE /\ fail = 0 /\ gone = FALSE
  /\ adapter = NewAdapter /\ sieve = NewSieve /\ h = NewLocals /\ called = "" /\ frames = 0
  /\ queue = <<>> /\ out = <<>> /\ mark = 0 /\ view = Unstarted /\ reports = <<>>

(* An account; Build opens its answer once, before the first.               *)
Reserve ==
  /\ pc = "reserve" /\ queue = <<>>
  /\ pc' = "read" /\ attempt' = attempt + 1 /\ held' = TRUE /\ success' = FALSE /\ fail' = 0
  /\ adapter' = IF cfg.api \in Grok THEN NewAdapter ELSE NewConsole
  /\ sieve' = NewSieve /\ h' = NewLocals /\ called' = ""
  /\ queue' = IF cfg.stream /\ (cfg.api \notin Build \/ attempt = 0) THEN Opening(cfg.api) ELSE <<>>
  /\ mark' = Len(out)
  /\ UNCHANGED <<cfg, gone, frames, out, view, reports>>

(* An exception leaves the handler: the wrapper of the stream makes events  *)
(* of it, the application a response.                                       *)
Raise ==
  /\ pc' = "closing"
  /\ queue' = IF cfg.stream THEN <<Error, End>> ELSE <<Error>>

(* "No available accounts for this model tier" *)
NoAccount ==
  /\ pc = "reserve" /\ queue = <<>>
  /\ Raise
  /\ UNCHANGED <<cfg, loop, reader, out, mark, view, reports>>

Yield ==
  /\ queue # <<>>
  /\ out' = Append(out, Head(queue)) /\ queue' = Tail(queue)
  /\ view' = IF cfg.stream THEN Shape(cfg.api, view, Head(queue)) ELSE view
  /\ UNCHANGED <<cfg, pc, loop, reader, mark, reports>>

Read(f) ==
  /\ pc = "read" /\ queue = <<>> /\ frames < MaxFrames(cfg)
  /\ frames' = frames + 1
  /\ LET fed == FedBy(f)
         st  == Handled(cfg, [h |-> h, sieve |-> sieve, called |-> "", ended |-> FALSE, out |-> <<>>],
                        fed.events)
     IN  /\ adapter' = fed.a
         /\ IF cfg.stream
            THEN /\ h' = st.h /\ sieve' = st.sieve /\ called' = st.called /\ queue' = st.out
                 /\ pc' = IF st.ended \/ (cfg.api \in Build /\ f.k = "stop") THEN "flush" ELSE "read"
            ELSE /\ pc' = IF \E i \in DOMAIN fed.events : fed.events[i].kind = "soft_stop"
                          THEN "flush" ELSE "read"
                 /\ UNCHANGED <<h, sieve, called, queue>>
  /\ UNCHANGED <<cfg, loop, out, mark, view, reports>>

(* The stream ends, by a "done" line or without one. *)
EndOfStream ==
  /\ pc = "read" /\ queue = <<>>
  /\ pc' = "flush"
  /\ UNCHANGED <<cfg, loop, reader, client, reports>>

(* The call fails, or a frame carries an error: UpstreamError. *)
Fails(status) ==
  /\ pc = "read" /\ queue = <<>>
  /\ fail' = status
  /\ pc' = "finally"
  /\ UNCHANGED <<cfg, attempt, held, success, gone, reader, client, reports>>

ErrorFrame(cause) ==
  /\ Fails(StreamErrorStatus(cause))
  /\ cfg.api \in Console => ConsoleFails(adapter, [k |-> "error"])
  /\ cfg.api \notin Grok => cause = "other"

(* After the loop: calls at the end of the text, and the end of the answer. *)
Finishes ==
  /\ pc = "flush" /\ queue = <<>>
  /\ LET flushed == Flush(sieve)
         late  == called = "" /\ cfg.tools /\ flushed.calls > 0
         calls == IF late THEN CallsAtEnd(cfg.api, h, flushed.calls) ELSE Sends(h, <<>>)
         where == IF late THEN "end" ELSE called
         final == Finishing(cfg.api, calls.h, adapter, where)
     IN  IF cfg.stream
         THEN /\ sieve' = IF called = "" /\ cfg.tools THEN flushed.sieve ELSE sieve
              /\ h' = final.h /\ called' = where /\ queue' = calls.out \o final.out
         ELSE UNCHANGED <<sieve, h, called, queue>>
  /\ pc' = "sent"
  /\ UNCHANGED <<cfg, loop, adapter, frames, out, mark, view, reports>>

(* An image cannot be put into the format that is configured: an exception  *)
(* of another kind, which is neither caught nor retried.                    *)
FinishRaises ==
  /\ pc = "flush" /\ queue = <<>> /\ cfg.stream /\ cfg.api \in Grok
  /\ adapter.images > 0 /\ called = "" /\ ~(cfg.tools /\ Flush(sieve).calls > 0)
  /\ pc' = "finally"
  /\ UNCHANGED <<cfg, loop, reader, client, reports>>

Succeeds ==
  /\ pc = "sent" /\ queue = <<>>
  /\ success' = TRUE
  /\ pc' = "finally"
  /\ UNCHANGED <<cfg, attempt, held, fail, gone, reader, client, reports>>

(* The client of a stream goes away; the generator is closed where it is.   *)
Leave ==
  /\ cfg.stream /\ ~gone /\ pc \notin {"finally", "done"}
  /\ gone' = TRUE /\ queue' = <<>>
  /\ pc' = IF held THEN "finally" ELSE "done"
  /\ UNCHANGED <<cfg, attempt, held, success, fail, reader, out, mark, view, reports>>

(* The finally of an attempt, and what comes after it.  Grok Build tries    *)
(* another account only while nothing has come.                             *)
Retries ==
  /\ fail \in RetryCodes /\ attempt <= MaxRetries
  /\ cfg.api \in Build => frames = 0

Finally ==
  /\ pc = "finally"
  /\ held' = FALSE
  /\ reports' = IF cfg.api \in Build THEN reports   \* BuildPool has those
                ELSE Append(reports, Verdict(success, fail))
  /\ \/ /\ gone \/ success
        /\ pc' = IF gone \/ cfg.stream THEN "done" ELSE "result"
        /\ UNCHANGED queue
     \/ ~gone /\ ~success /\ Retries /\ pc' = "reserve" /\ UNCHANGED queue
     \/ ~gone /\ ~success /\ ~Retries /\ Raise
  /\ UNCHANGED <<cfg, attempt, success, fail, gone, reader, out, mark, view>>

(* A request that is not streamed answers after its account is released.    *)
Answer ==
  /\ pc = "result"
  /\ queue' = <<Result>>
  /\ pc' = "closing"
  /\ UNCHANGED <<cfg, loop, reader, out, mark, view, reports>>

Closed ==
  /\ pc = "closing" /\ queue = <<>>
  /\ pc' = "done"
  /\ UNCHANGED <<cfg, loop, reader, client, reports>>

Next ==
  \/ Reserve \/ NoAccount \/ Yield \/ EndOfStream \/ Finishes \/ FinishRaises \/ Succeeds
  \/ Leave \/ Finally \/ Answer \/ Closed
  \/ \E f \in Frames(cfg) : Read(f)
  \/ \E status \in Failures : Fails(status)
  \/ \E cause \in {"usage limit", "load shed", "other"} : ErrorFrame(cause)

Spec == Init /\ [][Next]_vars

-----------------------------------------------------------------------------
(* What the client has of the attempt under way *)
Current == SubSeq(out, mark + 1, Len(out))
Delivered(events) ==
  FoldLeft(LAMBDA s, e : IF e.t = "write" /\ e.kind = "text" THEN s \o e.s ELSE s, <<>>, events)
Finished(events) == \E i \in DOMAIN events : events[i].t = "finish" /\ Last(events) = End

(* Where Messages and Responses lose the order of their parts: calls after  *)
(* text that is not closed first, which the prompt of tool_prompt.py asks   *)
(* the model not to write ("output ONLY the XML block") and the handlers    *)
(* are there to catch; and lines of thinking that were held back, which     *)
(* begin when the text has, and which calls do not close.                   *)
Mixed(api, l, where) ==
  /\ api \in {"messages", "responses"}
  /\ \/ l.text /\ where # ""
     \/ l.thinking /\ ~l.closed /\ (l.text \/ where # "")

Tangled == cfg.stream /\ Mixed(cfg.api, h, called)

Protocol == INSTANCE AnswerProtocol
  WITH Part <- {"thinking", "reasoning", "text", "call"}, NoPart <- "none", Bare <- "bare",
       MayDangle <- {"bare", "reasoning"},
       phase <- view.phase, part <- view.part, index <- view.index, at <- view.at, tangled <- Tangled,
       seen <- IF cfg.stream THEN Len(out) ELSE 0

-----------------------------------------------------------------------------
(* Properties *)

(* Whatever the upstream sends and wherever it fails, the client of a       *)
(* stream sees one beginning for each attempt and one end, after a finish or*)
(* an error; and until an answer of Messages or Responses is Tangled, parts *)
(* that come one after the other, numbered without gaps, each written under *)
(* its own number and closed before the answer is finished, except for the  *)
(* reasoning of Responses, which may be left open: the events of every API  *)
(* implement AnswerProtocol.                                                *)
ProtocolSpec == Protocol!Spec

(* Text is neither lost nor repeated on its way: while an attempt reads,    *)
(* what the client has, what is about to be yielded and what the detector   *)
(* of calls holds back are together the text of the adapter; and where the  *)
(* request has tools, the tag that opens a block never reaches the client.  *)
TextIntact ==
  cfg.stream /\ pc = "read" /\ ~gone =>
    LET sent == Delivered(Current \o queue)
    IN  /\ sent \o sieve.buf = adapter.text
        /\ cfg.tools => Openings(sent) = {}

(* Every annotation names the place of its own citation in the text, and no *)
(* two name the same place.                                                 *)
AnnotationsPointAtCitations ==
  cfg.api \in Grok /\ attempt > 0 =>
    LET notes == adapter.notes
    IN  /\ \A i \in DOMAIN notes :
              SubSeq(adapter.text, notes[i].start + 1, notes[i].end) = <<notes[i].url>>
        /\ \A i, j \in DOMAIN notes : i < j => notes[i].end <= notes[j].start

(* Every account that was used is reported once, and as a success exactly   *)
(* when its answer went out complete: an account is not praised for a       *)
(* failed, abandoned or repeated attempt, nor blamed for one that the       *)
(* client has in full, unless the client left at its last event.            *)
FeedbackTruthful ==
  cfg.api \notin Build =>
    /\ Len(reports) = attempt - (IF held THEN 1 ELSE 0)
    /\ ~held /\ reports # <<>> /\ cfg.stream =>
         /\ Last(reports) = "success" => Finished(Current)
         /\ Finished(Current) /\ ~gone /\ pc = "done" =>
              Last(reports) = "success" \/ \E i \in DOMAIN Current : Current[i] = Error
    /\ \A i \in 1..Len(reports) - 1 : reports[i] # "success"

(* The report of the thinking keeps its order: nothing under scope once     *)
(* there is evidence or a finding, nothing under evidence once there is a   *)
(* finding, each title once and before its lines.                           *)
SummaryInOrder == cfg.api \in Grok /\ attempt > 0 => InOrder(adapter.report)

(* Does not hold where a call comes after text (messages.py, 431 and 393    *)
(* of responses.py): no two blocks of an answer have the same number, as    *)
(* messages.py says that block_index "tracks next content_block index".     *)
NumbersFresh ==
  cfg.api = "messages" =>
    \A i, j \in DOMAIN Current :
      i < j /\ Current[i].t = "open" /\ Current[j].t = "open" => Current[i].i # Current[j].i

(* Does not hold: a retry is transparent, it repeats nothing the client has.*)
RetryTransparent ==
  Cardinality({i \in DOMAIN out : out[i].t = "begin"}) <= 1
    \/ \A i \in 1..mark : out[i].t \in {"begin", "open"}
=============================================================================
