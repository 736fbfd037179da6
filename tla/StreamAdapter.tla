---------------------------- MODULE StreamAdapter ----------------------------
(***************************************************************************)
(* From the frames of an upstream to events (xai_chat.py, and               *)
(* xai_console_chat.py for the console).  An adapter lives for one attempt. *)
(*                                                                         *)
(* Text is a sequence of pieces, as in ToolSieve, and of                    *)
(*   "R1" "R2"  a citation tag of the card with that url                    *)
(*   "u1" "u2"  the link that is put in its place                           *)
(*   "n"        a line break, "g" a link to an image, "s" the sources       *)
(***************************************************************************)
EXTENDS Naturals, Sequences, SequencesExt, FiniteSetsExt, Reasoning

Link == [R1 |-> "u1", R2 |-> "u2"]
Links == {Link[r] : r \in DOMAIN Link}

NewAdapter ==
  [text     |-> <<>>,   \* text_buf: its length is _text_offset
   notes    |-> <<>>,   \* annotations: url and absolute position
   order    |-> <<>>,   \* _citation_order
   last     |-> "",     \* _last_citation_index
   started  |-> FALSE,  \* _content_started
   rollout  |-> "",     \* _last_rollout
   keys     |-> {},     \* _emitted_reasoning_keys
   cards    |-> {},     \* citation cards in _card_cache
   card     |-> [progress |-> 0, url |-> FALSE, moderated |-> FALSE],   \* the image card in it
   images   |-> 0,      \* image_urls
   sources  |-> FALSE,  \* _web_search_results is not empty
   agg      |-> NewAggregator,
   report   |-> <<>>]   \* lines of the aggregator (history)

(* Events of one frame, oldest first. *)
Fed(a, events) == [a |-> a, events |-> events]
Ev(kind, s) == [kind |-> kind, s |-> s]

-----------------------------------------------------------------------------
(* Text: citations *)

(* _render_replace: the tag of an unknown card, and a repetition of the     *)
(* last citation, disappear.                                                *)
Replace(acc, piece) ==
  IF piece \notin DOMAIN Link THEN [acc EXCEPT !.text = Append(@, piece)]
  ELSE IF piece \notin acc.cards \/ acc.last = Link[piece] THEN acc
  ELSE [acc EXCEPT !.text = Append(@, Link[piece]),
                   !.last = Link[piece],
                   !.pending = Append(@, Link[piece]),
                   !.order = IF Link[piece] \in Range(@) THEN @ ELSE Append(@, Link[piece])]

DropBreak(s) == IF s # <<>> /\ s[1] = "n" /\ \E i \in DOMAIN s : s[i] \in Links
                THEN Tail(s) ELSE s

(* Mutant: each link is looked for from the start. *)
LocatedFromStart(cleaned, pending) ==
  [i \in DOMAIN pending |->
     LET at == Min({j \in DOMAIN cleaned : cleaned[j] = pending[i]})
     IN  [url |-> pending[i], start |-> at - 1, end |-> at]]

(* The annotations of cleaned: each pending link where it is first found    *)
(* behind the one before it.                                                *)
Located(cleaned, pending) ==
  FoldLeft(LAMBDA acc, link :
             LET at == {i \in acc.from + 1..Len(cleaned) : cleaned[i] = link}
             IN  IF at = {} THEN acc
                 ELSE [from |-> Min(at),
                       notes |-> Append(acc.notes, [url |-> link, start |-> Min(at) - 1, end |-> Min(at)])],
           [from |-> 0, notes |-> <<>>], pending).notes

CleanToken(a, token) ==
  LET r == FoldLeft(Replace, [text |-> <<>>, last |-> a.last, order |-> a.order,
                              pending |-> <<>>, cards |-> a.cards], token)
      cleaned == DropBreak(r.text)
  IN  [text |-> cleaned, last |-> r.last, order |-> r.order,
       notes |-> Located(cleaned, r.pending)]

Shifted(notes, by) ==
  [i \in DOMAIN notes |-> [url |-> notes[i].url, start |-> notes[i].start + by, end |-> notes[i].end + by]]

FeedText(a, token) ==
  LET c == CleanToken(a, token)
      notes == Shifted(c.notes, Len(a.text))
      b == [a EXCEPT !.started = TRUE, !.last = c.last, !.order = c.order]
  IN  IF c.text = <<>> THEN Fed(b, <<>>)
      ELSE Fed([b EXCEPT !.text = @ \o c.text, !.notes = @ \o notes],
               <<Ev("text", c.text)>> \o [i \in DOMAIN notes |-> Ev("annotation", <<notes[i].url>>)])

-----------------------------------------------------------------------------
(* Thinking *)

(* _append_reasoning: a line that was sent before is not sent again. *)
AppendReasoning(fed, key) ==
  IF key \in fed.a.keys THEN fed
  ELSE [a |-> [fed.a EXCEPT !.keys = @ \cup {key}], events |-> Append(fed.events, Ev("thinking", <<>>))]

(* Lines of the aggregator, each new for _append_reasoning. *)
Report(a, r) ==
  Fed([a EXCEPT !.agg = r.g, !.report = @ \o r.lines],
      [i \in DOMAIN r.lines |-> Ev("thinking", <<>>)])

(* The header of another agent goes out even if it was sent before. *)
Switch(a, rollout) ==
  IF rollout = "" \/ rollout = a.rollout THEN Fed(a, <<>>)
  ELSE Fed([a EXCEPT !.rollout = rollout], <<Ev("thinking", <<>>)>>)

FeedThinking(a, f, summary) ==
  IF a.started THEN Fed(a, <<>>)
  ELSE IF summary THEN Report(a, OnThinking(a.agg, f.x))
  ELSE AppendReasoning(Switch(a, f.rollout), <<f.rollout, f.x.key>>)

FeedToolCard(a, f, summary) ==
  IF a.started THEN Fed(a, <<>>)
  ELSE IF summary THEN Report(a, OnToolUsage(a.agg, f.x))
  ELSE AppendReasoning(Fed([a EXCEPT !.rollout = IF f.rollout = "" THEN @ ELSE f.rollout], <<>>),
                       <<f.rollout, f.x.class>>)

(* _flush_pending_reasoning, which does not ask whether the text has begun. *)
FeedStop(a, summary) ==
  IF ~summary THEN Fed(a, <<Ev("soft_stop", <<>>)>>)
  ELSE LET fed == Report(a, Finalize(a.agg))
       IN  Fed(fed.a, Append(fed.events, Ev("soft_stop", <<>>)))

-----------------------------------------------------------------------------
(* Cards *)

(* _handle_card: an update of the image card is merged into what is known   *)
(* of it; the image counts when it is complete and has an address.  f has   *)
(* the fields of the update: progress (0 if absent), url, moderated.        *)
FeedImageCard(a, f) ==
  LET card == [progress |-> IF f.progress = 0 THEN a.card.progress ELSE f.progress,
               url |-> a.card.url \/ f.url,
               moderated |-> a.card.moderated \/ f.moderated]
      new == card.progress = 100 /\ card.url /\ ~card.moderated /\ a.images = 0
  IN  Fed([a EXCEPT !.card = card, !.images = IF new THEN 1 ELSE @],
          IF new THEN <<Ev("image", <<>>)>> ELSE <<>>)

FeedCitationCard(a, f) == Fed([a EXCEPT !.cards = @ \cup {f.id}], <<>>)

(* The results of a search are collected over the frames. *)
FeedSearch(a) == Fed([a EXCEPT !.sources = TRUE], <<>>)

(* feed, of a frame that carries no error: f.k is the field that decides.   *)
FeedFrame(a, f, summary) ==
  CASE f.k = "token"         -> FeedText(a, f.s)
    [] f.k = "thinking"      -> FeedThinking(a, f, summary)
    [] f.k = "tool_card"     -> FeedToolCard(a, f, summary)
    [] f.k = "image_card"    -> FeedImageCard(a, f)
    [] f.k = "citation_card" -> FeedCitationCard(a, f)
    [] f.k = "search"        -> FeedSearch(a)
    [] f.k = "stop"          -> FeedStop(a, summary)
    [] OTHER                 -> Fed(a, <<>>)   \* raw_function_result, follow-ups

-----------------------------------------------------------------------------
(* ConsoleStreamAdapter *)
NewConsole == [text |-> <<>>, done |-> FALSE, usage |-> FALSE]

(* An error, too, is read only until the answer is complete. *)
ConsoleFails(c, f) == ~c.done /\ f.k = "error"

FeedConsole(c, f) ==
  IF c.done THEN Fed(c, <<>>)
  ELSE CASE f.k = "token" -> Fed([c EXCEPT !.text = @ \o f.s], <<Ev("text", f.s)>>)
         [] f.k = "stop"  -> Fed([c EXCEPT !.done = TRUE, !.usage = TRUE], <<>>)
         [] OTHER         -> Fed(c, <<>>)

-----------------------------------------------------------------------------
(* raise_for_stream_error: an error inside a frame has the status of its    *)
(* kind, and what has no kind is a bad gateway.                             *)
StreamErrorStatus(cause) ==
  CASE cause = "usage limit" -> 429
    [] cause = "load shed"   -> 503
    [] OTHER                 -> 502
=============================================================================
