------------------------------ MODULE ToolSieve ------------------------------
(***************************************************************************)
(* The detector of tool calls in a stream of text (_tool_sieve.py) and the  *)
(* parser of what it finds (tool_parser.py).  Text is a sequence of pieces: *)
(*   "a"       text                                                        *)
(*   "p" "q"   the two parts of the tag that opens a block of calls, which  *)
(*             the upstream may cut anywhere                                *)
(*   "c" "u"   a call in the canonical form, of a tool the request has, or  *)
(*             of one it has not                                            *)
(*   "i"       a call in one of the other forms the parser knows            *)
(*   "z"       the tag that closes the block                                *)
(***************************************************************************)
EXTENDS Naturals, Sequences, SequencesExt, FiniteSetsExt

(* Where an opening tag stands in s. *)
Openings(s) == {i \in 1..Len(s) - 1 : s[i] = "p" /\ s[i + 1] = "q"}
Closings(s) == {i \in DOMAIN s : s[i] = "z"}

-----------------------------------------------------------------------------
(* tool_parser.py *)
HasToolSyntax(s) == Openings(s) # {} \/ \E i \in DOMAIN s : s[i] \in {"c", "u", "i"}

(* Parser 1: the calls of the first complete block. *)
CanonicalCalls(s) ==
  LET from == IF Openings(s) = {} THEN 0 ELSE Min(Openings(s))
      ends == {j \in Closings(s) : j > from}
  IN  IF from = 0 \/ ends = {} THEN <<>>
      ELSE SelectSeq(SubSeq(s, from, Min(ends)), LAMBDA x : x \in {"c", "u"})

(* Parsers 2 to 4 look at the whole text and need no complete block. *)
OtherCalls(s) == SelectSeq(s, LAMBDA x : x = "i")

(* How many calls of known tools parse_tool_calls returns. *)
ParseToolCalls(s) ==
  LET calls == IF CanonicalCalls(s) # <<>> THEN CanonicalCalls(s) ELSE OtherCalls(s)
  IN  IF HasToolSyntax(s) THEN Len(SelectSeq(calls, LAMBDA x : x # "u")) ELSE 0

-----------------------------------------------------------------------------
(* _tool_sieve.py.  Each operation returns the sieve, the text that may go  *)
(* to the client, and whether a block was found with how many calls.        *)
NewSieve == [buf |-> <<>>, capturing |-> FALSE, done |-> FALSE]

Sieved(sieve, safe, found, calls) ==
  [sieve |-> sieve, safe |-> safe, found |-> found, calls |-> calls]

(* Mutant: text is passed on as it comes. *)
LeftoverNone(s) == <<>>

(* _split_at_boundary: how much of the end of s may be the start of a tag. *)
Leftover(s) == IF s # <<>> /\ Last(s) = "p" THEN <<"p">> ELSE <<>>

FeedCapturing(sv, chunk) ==
  LET buf == sv.buf \o chunk
  IN  IF Closings(buf) = {} THEN Sieved([sv EXCEPT !.buf = buf], <<>>, FALSE, 0)
      ELSE LET block == SubSeq(buf, 1, Min(Closings(buf)))
           IN  Sieved([buf |-> <<>>, capturing |-> FALSE, done |-> TRUE],
                      <<>>, HasToolSyntax(block), ParseToolCalls(block))

FeedScanning(sv, chunk) ==
  LET text == sv.buf \o chunk
      keep == Len(text) - Len(Leftover(text))
  IN  IF Openings(text) = {}
      THEN Sieved([sv EXCEPT !.buf = Leftover(text)], SubSeq(text, 1, keep), FALSE, 0)
      ELSE LET at == Min(Openings(text))
               captured == FeedCapturing([sv EXCEPT !.buf = <<>>, !.capturing = TRUE],
                                         SubSeq(text, at, Len(text)))
           IN  [captured EXCEPT !.safe = SubSeq(text, 1, at - 1)]

Feed(sv, chunk) ==
  IF sv.done THEN Sieved(sv, IF sv.capturing THEN <<>> ELSE chunk, FALSE, 0)
  ELSE IF sv.capturing THEN FeedCapturing(sv, chunk)
  ELSE FeedScanning(sv, chunk)

(* flush: what is left in the buffer is parsed, and dropped if it is text. *)
Flush(sv) ==
  IF sv.done \/ sv.buf = <<>> THEN Sieved(sv, <<>>, FALSE, 0)
  ELSE Sieved([sv EXCEPT !.buf = <<>>, !.done = TRUE], <<>>,
              HasToolSyntax(sv.buf), ParseToolCalls(sv.buf))
=============================================================================
