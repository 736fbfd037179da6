---------------------------- MODULE AnswerFormats ----------------------------
(***************************************************************************)
(* The events the handlers of the APIs send for what an adapter reports:    *)
(* Chat Completions (chat.py, console_chat.py, build/chat.py), Responses    *)
(* (responses.py, console_responses.py) and Anthropic Messages (messages.py,*)
(* console_messages.py, build/messages.py).  An operator takes the locals h *)
(* of the handler's loop and returns them with the events to yield.         *)
(***************************************************************************)
EXTENDS Naturals, Sequences

NewLocals == [thinking |-> FALSE,  \* think_started, reasoning_started
              closed   |-> FALSE,  \* think_closed, reasoning_closed
              text     |-> FALSE,  \* text_started, message_started
              index    |-> 0,      \* block_index
              notes    |-> 0]      \* collected_annotations

(* An event names a part by its number; s is the text it carries.  Events   *)
(* that always come together are one.                                       *)
E(t, kind, i, s) == [t |-> t, kind |-> kind, i |-> i, s |-> s]
Begin           == E("begin", "", 0, <<>>)
Open(kind, i)   == E("open", kind, i, <<>>)
Write(kind, i, s) == E("write", kind, i, s)
Close(kind, i)  == E("close", kind, i, <<>>)
Finish(reason)  == E("finish", reason, 0, <<>>)
End             == E("end", "", 0, <<>>)       \* data: [DONE]
Error           == E("error", "", 0, <<>>)

Sends(h, out) == [h |-> h, out |-> out]

-----------------------------------------------------------------------------
(* Chat Completions: a heartbeat, chunks, a chunk with a finish reason.     *)
ChatBegin == <<Begin>>
ChatThinking(h) == Sends(h, <<Write("thinking", 0, <<>>)>>)
ChatText(h, s) == Sends(h, IF s = <<>> THEN <<>> ELSE <<Write("text", 0, s)>>)
ChatNote(h) == Sends([h EXCEPT !.notes = @ + 1], <<>>)
ChatCalls(h, safe, n) ==
  Sends(h, ChatText(h, safe).out \o [i \in 1..n |-> Write("call", 0, <<>>)]
           \o <<Finish("tool_calls"), End>>)
ChatFinish(h, images, sources) ==
  Sends(h, [i \in 1..images |-> Write("text", 0, <<"g">>)]
           \o (IF sources THEN <<Write("text", 0, <<"s">>)>> ELSE <<>>)
           \o <<Finish("stop"), End>>)

-----------------------------------------------------------------------------
(* Anthropic Messages: a block of thinking, a block of text, blocks of      *)
(* calls, numbered by block_index.                                          *)
MessagesBegin == <<Begin>>

MessagesThinking(h) ==
  IF h.closed THEN Sends(h, <<>>)
  ELSE Sends([h EXCEPT !.thinking = TRUE],
             (IF h.thinking THEN <<>> ELSE <<Open("thinking", h.index)>>)
             \o <<Write("thinking", h.index, <<>>)>>)

(* Mutant: the thinking is closed, and its number used again. *)
MessagesCloseThinkingInPlace(h) ==
  IF h.thinking /\ ~h.closed
  THEN Sends([h EXCEPT !.closed = TRUE], <<Close("thinking", h.index)>>)
  ELSE Sends(h, <<>>)

(* The first text closes the thinking, also when the sieve keeps the text. *)
MessagesCloseThinking(h) ==
  IF h.thinking /\ ~h.closed
  THEN Sends([h EXCEPT !.closed = TRUE, !.index = @ + 1], <<Close("thinking", h.index)>>)
  ELSE Sends(h, <<>>)

MessagesText(h, s) ==
  IF s = <<>> THEN Sends(h, <<>>)
  ELSE Sends([h EXCEPT !.text = TRUE],
             (IF h.text THEN <<>> ELSE <<Open("text", h.index)>>) \o <<Write("text", h.index, s)>>)

MessagesBlocks(from, n) ==
  [j \in 1..3 * n |->
     LET i == from + (j - 1) \div 3
     IN  CASE j % 3 = 1 -> Open("call", i) [] j % 3 = 2 -> Write("call", i, <<>>)
           [] j % 3 = 0 -> Close("call", i)]

(* Calls found in the stream start at block_index, which an open block of   *)
(* text still has, and what the sieve released with them is not sent; calls *)
(* found at its end close the text first.                                   *)
MessagesCalls(h, n) ==
  Sends([h EXCEPT !.index = @ + n], MessagesBlocks(h.index, n))
MessagesCallsAtEnd(h, n) ==
  LET from == IF h.text THEN h.index + 1 ELSE h.index
  IN  Sends([h EXCEPT !.index = from + n, !.text = FALSE],
            (IF h.text THEN <<Close("text", h.index)>> ELSE <<>>) \o MessagesBlocks(from, n))

MessagesFinish(h, images, sources, called) ==
  LET shut == IF h.thinking /\ ~h.closed THEN <<Close("thinking", h.index)>> ELSE <<>>
      i    == h.index + Len(shut)
  IN  Sends(h,
        IF called THEN <<Finish("tool_use"), End>>
        ELSE (IF h.text THEN [j \in 1..images |-> Write("text", h.index, <<"g">>)]
                             \o (IF sources THEN <<Write("text", h.index, <<"s">>)>> ELSE <<>>)
              ELSE <<>>)
             \o shut \o (IF h.text THEN <<Close("text", i)>> ELSE <<>>)
             \o <<Finish("end_turn"), End>>)

-----------------------------------------------------------------------------
(* Responses: the reasoning is item 0, what follows it item 1, or item 0 if *)
(* there is no reasoning; calls are numbered from there.                    *)
ResponsesBegin == <<Begin>>
NextItem(h) == IF h.thinking THEN 1 ELSE 0

ResponsesThinking(h) ==
  IF h.closed THEN Sends(h, <<>>)
  ELSE Sends([h EXCEPT !.thinking = TRUE],
             (IF h.thinking THEN <<>> ELSE <<Open("reasoning", 0)>>) \o <<Write("reasoning", 0, <<>>)>>)

ResponsesCloseThinking(h) ==
  IF h.thinking /\ ~h.closed THEN Sends([h EXCEPT !.closed = TRUE], <<Close("reasoning", 0)>>)
  ELSE Sends(h, <<>>)

ResponsesText(h, s) ==
  IF s = <<>> THEN Sends(h, <<>>)
  ELSE Sends([h EXCEPT !.text = TRUE],
             (IF h.text THEN <<>> ELSE <<Open("text", NextItem(h))>>)
             \o <<Write("text", NextItem(h), s)>>)

(* Annotations go out at once, if the message has begun. *)
ResponsesNote(h) ==
  IF ~h.text THEN Sends(h, <<>>)
  ELSE Sends([h EXCEPT !.notes = @ + 1], <<Write("annotation", NextItem(h), <<>>)>>)

(* _emit_fc_events, in the stream and at its end. *)
ResponsesCalls(h, n) == Sends(h, MessagesBlocks(NextItem(h), n))

ResponsesFinish(h, images, sources, called) ==
  LET i == NextItem(h)
  IN  Sends(h,
        IF called THEN <<Finish("completed"), End>>
        ELSE (IF h.text THEN [j \in 1..images |-> Write("text", i, <<"g">>)]
                             \o (IF sources THEN <<Write("text", i, <<"s">>)>> ELSE <<>>)
                             \o <<Close("text", i)>>
              ELSE <<>>)
             \o <<Finish("completed"), End>>)

-----------------------------------------------------------------------------
(* The console: text only, and its part is opened before the first word.    *)
ConsoleChatBegin == <<Begin>>
ConsoleChatText(h, s) == Sends(h, <<Write("text", 0, s)>>)
ConsoleChatFinish(h) == Sends(h, <<Finish("stop"), End>>)

ConsoleMessagesBegin == <<Begin, Open("text", 0)>>
ConsoleMessagesText(h, s) == Sends(h, <<Write("text", 0, s)>>)
ConsoleMessagesFinish(h) == Sends(h, <<Close("text", 0), Finish("end_turn"), End>>)

ConsoleResponsesBegin == <<Begin, Open("text", 0)>>
ConsoleResponsesText(h, s) == Sends(h, <<Write("text", 0, s)>>)
ConsoleResponsesFinish(h) == Sends(h, <<Close("text", 0), Finish("completed"), End>>)

(* Grok Build: its Responses stream rewritten as chunks or blocks.          *)
BuildChatBegin == <<Begin>>
BuildChatText(h, s) == Sends(h, <<Write("text", 0, s)>>)
BuildChatFinish(h) == Sends(h, <<Finish("stop"), End>>)

BuildMessagesBegin == <<Begin, Open("text", 0)>>
BuildMessagesText(h, s) == Sends(h, <<Write("text", 0, s)>>)
BuildMessagesFinish(h) == Sends(h, <<Close("text", 0), Finish("end_turn")>>)
=============================================================================
