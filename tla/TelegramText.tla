---------------------------- MODULE TelegramText -----------------------------
(***************************************************************************)
(* WrapDigits (internal/sender/telegram.go), which makes a text into HTML  *)
(* and marks its runs of digits, and what Telegram shows of the result.    *)
(* A text is a sequence of characters; "<code>" and "</code>" are one each. *)
(***************************************************************************)
EXTENDS Integers, Sequences, SequencesExt

Digits == {"0", "1", "2", "3", "4", "5", "6", "7", "8", "9"}

\* html.EscapeString
Escaped(c) ==
  CASE c = "&"  -> <<"&", "a", "m", "p", ";">>
    [] c = "<"  -> <<"&", "l", "t", ";">>
    [] c = ">"  -> <<"&", "g", "t", ";">>
    [] c = "'"  -> <<"&", "#", "3", "9", ";">>
    [] c = "\"" -> <<"&", "#", "3", "4", ";">>
    [] OTHER    -> <<c>>

Escape(text) == FlattenSeq([i \in 1..Len(text) |-> Escaped(text[i])])

IsRun(text, i, j) == \A k \in i..j : text[k] \in Digits
Starts(text, i) == i = 1 \/ text[i - 1] \notin Digits
Ends(text, j) == j = Len(text) \/ text[j + 1] \notin Digits

\* Mutant: runs of two digits count.
PairsOfDigits(text) ==
  {run \in (1..Len(text)) \X (1..Len(text)) :
     /\ run[1] + 1 <= run[2] /\ IsRun(text, run[1], run[2])
     /\ Starts(text, run[1]) /\ Ends(text, run[2])}

\* reDigitRun: the first and last places of runs of three or more.
DigitRuns(text) ==
  {run \in (1..Len(text)) \X (1..Len(text)) :
     /\ run[1] + 2 <= run[2] /\ IsRun(text, run[1], run[2])
     /\ Starts(text, run[1]) /\ Ends(text, run[2])}

\* A mark at the first, the other at the last character of each.
Opened(html, i) == IF \E run \in DigitRuns(html) : run[1] = i THEN <<"<code>">> ELSE <<>>
Closed(html, i) == IF \E run \in DigitRuns(html) : run[2] = i THEN <<"</code>">> ELSE <<>>

Wrapped(html) ==
  FlattenSeq([i \in 1..Len(html) |-> Opened(html, i) \o <<html[i]>> \o Closed(html, i)])

WrapDigits(text) == Wrapped(Escape(text))

-------------------------------------------------------------------------------
(* Telegram (external): an entity in one piece is shown as its character *)

Special == {"&", "<", ">", "'", "\""}
Tags == {"<code>", "</code>"}

EntityAt(html, i, c) ==
  LET e == Escaped(c) IN i + Len(e) - 1 <= Len(html) /\ SubSeq(html, i, i + Len(e) - 1) = e

InEntity(html, i) ==
  \E k \in 1..(i - 1), c \in Special : EntityAt(html, k, c) /\ i < k + Len(Escaped(c))

ShownAt(html, i) ==
  IF \E c \in Special : EntityAt(html, i, c) THEN <<CHOOSE c \in Special : EntityAt(html, i, c)>>
  ELSE IF InEntity(html, i) \/ html[i] \in Tags THEN <<>>
  ELSE <<html[i]>>

Shown(html) == FlattenSeq([i \in 1..Len(html) |-> ShownAt(html, i)])

\* From one mark to the next.
Spans(html) ==
  {span \in (1..Len(html)) \X (1..Len(html)) :
     /\ span[1] < span[2]
     /\ html[span[1]] = "<code>" /\ html[span[2]] = "</code>"
     /\ \A k \in (span[1] + 1)..(span[2] - 1) : html[k] \notin Tags}

Marked(html) == {SubSeq(html, span[1] + 1, span[2] - 1) : span \in Spans(html)}
===============================================================================
