------------------------------ MODULE MCAnswers ------------------------------
EXTENDS Answers

Request(api, stream, tools, think, summary) ==
  [api |-> api, stream |-> stream, tools |-> tools, think |-> think, summary |-> summary]

MCConfigs ==
  {Request(api, TRUE, tools, TRUE, FALSE) : api \in Grok, tools \in BOOLEAN}
  \cup {Request(api, TRUE, tools, TRUE, TRUE) : api \in {"messages", "responses"}, tools \in BOOLEAN}
  \cup {Request("responses", TRUE, FALSE, FALSE, FALSE),
        Request("chat", TRUE, FALSE, FALSE, TRUE), Request("chat", FALSE, TRUE, FALSE, FALSE),
        Request("chat", FALSE, FALSE, TRUE, FALSE)}
  \cup {Request(api, stream, FALSE, TRUE, FALSE) : api \in Console, stream \in BOOLEAN}
  \cup {Request(api, TRUE, FALSE, TRUE, FALSE) : api \in Build}

Token(s) == [k |-> "token", s |-> s]
Fragment(class, track, late, key, lang) ==
  [k |-> "thinking", rollout |-> "",
   x |-> [class |-> class, track |-> track, late |-> late, key |-> key, lang |-> lang]]
Tool(class, track, key) ==
  [k |-> "tool_card", rollout |-> "A",
   x |-> [class |-> class, track |-> track, key |-> key, lang |-> "en", agent |-> TRUE]]
Thought(rollout, key) ==
  [Fragment("plain", "", FALSE, key, "") EXCEPT !.rollout = rollout]
Image(progress, url, moderated) ==
  [k |-> "image_card", progress |-> progress, url |-> url, moderated |-> moderated]
Citation(id) == [k |-> "citation_card", id |-> id]
Stop == [k |-> "stop"]

MCFrames(c) ==
  IF c.api \notin Grok THEN {Token(<<"a">>), Stop, [k |-> "other"]}
  ELSE IF c.tools
  THEN {Token(s) : s \in {<<"a">>, <<"a", "p">>, <<"p">>, <<"q", "c">>, <<"p", "q", "i">>,
                          <<"u", "z", "a">>, <<"z">>}}
       \cup {Stop, Thought("", "t1")}
  ELSE IF c.summary
  THEN {Fragment("header", "", TRUE, "e1", "en"), Fragment("progress", "news", FALSE, "s1", "zh"),
        Fragment("verifying", "news", FALSE, "e2", "en"), Fragment("finding", "news", TRUE, "f1", ""),
        Tool("web_search", "news", "s2"), Tool("chatroom_send", "release_status", "r1"),
        Token(<<"a">>), Stop}
  ELSE IF c.think
  THEN {Token(<<"a">>), Thought("A", "t1"), Thought("B", "t1"), [k |-> "search"],
        Image(50, TRUE, FALSE), Image(100, FALSE, FALSE), Image(100, TRUE, TRUE), Stop}
  ELSE {Token(s) : s \in {<<"a">>, <<"R1">>, <<"n", "R2">>, <<"R1", "R2", "R1">>}}
       \cup {Citation("R1"), Citation("R2"), Stop}

MCMaxFrames(c) == 4
=============================================================================
