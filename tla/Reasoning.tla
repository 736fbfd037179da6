------------------------------ MODULE Reasoning ------------------------------
(***************************************************************************)
(* The aggregator that turns fragments of an upstream's thinking into a     *)
(* short report (xai_chat_reasoning.py): what is read becomes an event of a *)
(* section (understanding, scope, evidence, finding) on a track; events wait*)
(* until the language is known; what repeats, or comes too late for its     *)
(* section, is dropped.  The classification of texts by keywords is input:  *)
(* a fragment has a class, a track ("" if none) and a language.             *)
(***************************************************************************)
EXTENDS Naturals, Sequences, SequencesExt, FiniteSetsExt

(* Tracks whose late evidence becomes a finding. *)
Promotable == {"latest_updates", "release_status", "official_confirmation",
               "specs_architecture", "v4_lite"}

NewAggregator == [lang |-> "", en |-> 0, agents |-> FALSE, pending |-> <<>>, emitted |-> {}]

Event(section, track, level, key) ==
  [section |-> section, track |-> track, level |-> level, key |-> key, promoted |-> FALSE]

Sections(g) == {e.section : e \in g.emitted}

-----------------------------------------------------------------------------
(* _emit *)
Promote(g, e) ==
  IF e.section = "evidence" /\ "finding" \in Sections(g)
     /\ (e.level >= 4 \/ e.track \in Promotable)
  THEN [e EXCEPT !.section = "finding", !.promoted = TRUE]
  ELSE e

(* Mutant: only findings close the scope. *)
TooLateFindingOnly(g, e) == e.section = "scope" /\ "finding" \in Sections(g)

TooLate(g, e) ==
  \/ e.section = "scope" /\ Sections(g) \cap {"evidence", "finding"} # {}
  \/ e.section = "evidence" /\ "finding" \in Sections(g)
     /\ ~(e.level >= 4 \/ e.track \in Promotable)

OnTrack(g, e) == {d \in g.emitted : d.section = e.section /\ d.track = e.track}
MaxPerTrack(section) == IF section \in {"scope", "evidence"} THEN 1 ELSE 2

Repeats(g, e) ==
  \/ \E d \in g.emitted : d.key = e.key /\ d.promoted = e.promoted
  \/ /\ e.track # ""
     /\ \/ Cardinality(OnTrack(g, e)) >= MaxPerTrack(e.section) /\ e.key # "agents_started"
        \/ \E d \in OnTrack(g, e) : d.level > e.level

(* The report grows by a line, after the title of a new section. *)
Line(e) == [section |-> e.section, title |-> FALSE]
Title(section) == [section |-> section, title |-> TRUE]

Emit(r, e) ==
  LET g == r.g
      f == Promote(g, e)
  IN  IF TooLate(g, e) \/ Repeats(g, f) THEN r
      ELSE [g |-> [g EXCEPT !.emitted = @ \cup {f}],
            lines |-> r.lines
                      \o (IF f.section \in Sections(g) THEN <<>> ELSE <<Title(f.section)>>)
                      \o <<Line(f)>>]

FlushPending(r) ==
  FoldLeft(Emit, [r EXCEPT !.g.pending = <<>>], r.g.pending)

(* _dispatch: three pieces of English or four events settle the language; *)
(* Chinese is settled when it is seen.                                     *)
Dispatch(r, e) ==
  IF r.g.lang # "" THEN Emit(FlushPending(r), e)
  ELSE LET waiting == [r EXCEPT !.g.pending = Append(@, e)]
       IN  IF r.g.en < 3 /\ Len(r.g.pending) + 1 < 4 THEN waiting
           ELSE FlushPending([waiting EXCEPT !.g.lang = "en"])

ObserveLanguage(g, lang) ==
  CASE lang = "zh" -> [g EXCEPT !.lang = IF @ = "" THEN "zh" ELSE @]
    [] lang = "en" -> [g EXCEPT !.en = IF @ < 3 THEN @ + 1 ELSE @]
    [] OTHER       -> g

(* finalize *)
Finalize(g) ==
  IF g.pending = <<>> THEN [g |-> g, lines |-> <<>>]
  ELSE FlushPending([g |-> [g EXCEPT !.lang = IF @ # "" THEN @
                                              ELSE IF g.en > 0 THEN "en" ELSE "zh"],
                     lines |-> <<>>])

-----------------------------------------------------------------------------
(* What a fragment of thinking becomes, if anything (_normalize_header,     *)
(* _normalize_summary).  A fragment is                                      *)
(*   [class, track, late, key, lang]                                        *)
(* where late says that its step is not the first.                          *)
HeaderEvents(x) ==
  CASE x.class = "generic" -> <<>>
    [] x.class = "header"  -> <<Event(IF x.late THEN "evidence" ELSE "understanding", "", 0, x.key)>>
    [] x.class = "verify_header" -> <<Event("evidence", "", 0, x.key)>>

SummaryEvents(x, agents) ==
  CASE x.class = "suggestion"  -> <<>>
    [] x.class = "progress"    -> <<Event("scope", x.track, 1, x.key)>>
    [] x.class = "verifying"   -> <<Event("evidence", x.track, 2, x.key)>>
    [] x.class = "unconfirmed" -> <<Event("evidence", x.track, 2, x.key)>>
    [] x.class = "finding"     -> <<IF ~agents /\ ~x.late
                                    THEN Event("understanding", x.track, 2, x.key)
                                    ELSE Event("finding", x.track, 3, x.key)>>
    [] x.class = "plain"       -> <<Event(IF x.late THEN "scope" ELSE "understanding",
                                          x.track, 1, x.key)>>

HeaderClasses == {"generic", "header", "verify_header"}
FragmentClasses ==
  HeaderClasses \cup {"suggestion", "progress", "verifying", "unconfirmed", "finding", "plain"}

OnThinking(g, x) ==
  LET seen == [g |-> ObserveLanguage(g, x.lang), lines |-> <<>>]
  IN  FoldLeft(Dispatch, seen, IF x.class \in HeaderClasses THEN HeaderEvents(x)
                               ELSE SummaryEvents(x, g.agents))

(* A clause of an agent's report: at most six, evidence first. *)
ReportEvents(x) ==
  <<Event("evidence", x.track, 2, x.key), Event("finding", x.track, 3, x.key \o "+")>>

(* on_tool_usage: x.class is the tool, x.agent that an agent uses it. *)
ToolClasses ==
  {"web_search", "x_search", "browse_official", "browse_community", "search_images",
   "chatroom_send", "code_execution"}

ToolEvents(g, x) ==
  CASE x.class = "web_search" ->
         (IF x.agent /\ ~g.agents THEN <<Event("scope", "", 0, "agents_started")>> ELSE <<>>)
         \o (IF x.track = "" THEN <<>> ELSE <<Event("scope", x.track, 1, x.key)>>)
    [] x.class = "x_search" ->
         IF x.track = "" THEN <<>> ELSE <<Event("evidence", x.track, 2, x.key)>>
    [] x.class = "browse_official"  -> <<Event("evidence", x.track, 4, x.key)>>
    [] x.class = "browse_community" -> <<Event("evidence", x.track, 3, x.key)>>
    [] x.class = "search_images"    -> <<Event("scope", "visual_assets", 1, x.key)>>
    [] x.class = "chatroom_send"    -> ReportEvents(x)
    [] x.class = "code_execution"   -> <<Event("evidence", "", 0, "code_execution")>>

OnToolUsage(g, x) ==
  LET started == g.agents \/ (x.class = "web_search" /\ x.agent)
      seen == [g |-> [ObserveLanguage(g, x.lang) EXCEPT !.agents = started], lines |-> <<>>]
  IN  FoldLeft(Dispatch, seen, ToolEvents(g, x))

-----------------------------------------------------------------------------
(* Nothing is put under scope once there is evidence or a finding, nothing  *)
(* under evidence once there is a finding, and each title is there once,    *)
(* before the lines of its section.                                         *)
Rank(section) == CASE section = "scope" -> 1 [] section = "evidence" -> 2
                   [] section = "finding" -> 3 [] OTHER -> 0

InOrder(lines) ==
  /\ \A i, j \in DOMAIN lines :
       i < j /\ "understanding" \notin {lines[i].section, lines[j].section}
         => Rank(lines[i].section) <= Rank(lines[j].section)
  /\ \A i \in DOMAIN lines :
       lines[i].title <=> \A j \in 1..i - 1 : lines[j].section # lines[i].section
=============================================================================
