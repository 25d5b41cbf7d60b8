------------------------------- MODULE MCTexts -------------------------------
(***************************************************************************)
(* Texts, grown word by word: an inbox for ParseSMSOutput, the words of a  *)
(* message for the translator, characters for Telegram.  Each behaviour is *)
(* about one of the three; every text within the bounds is reached.        *)
(***************************************************************************)
EXTENDS SmsRows, GeorgianLatin, TelegramText

CONSTANTS
  MaxInbox,       \* messages on the phone (bound)
  MaxSize,        \* messages and tokens of their bodies (bound)
  MaxWords,       \* words of each kind (bound)
  Characters, MaxCharacters  \* of a text for Telegram (bounds)

\* A mark of Telegram's is no character.
ASSUME CharactersAssumption == Characters \intersect Tags = {}

VARIABLES subject, inbox, words, characters
vars == <<subject, inbox, words, characters>>

Tokens ==
  {<<"word", 0>>, Newline, Header, Failure,
   <<"_id=", 9>>, <<"address=", 9>>, <<", body=", 0>>, <<", date=", 9>>}

NoWords == [k \in Kinds |-> 0]

\* Many plain words, few of the other kinds.
WordBounds ==
  [dictionary |-> 2, english |-> 3, suffix |-> 2, cluster |-> 3, all |-> 1, acronym |-> 1,
   plain |-> MaxWords, foreign |-> 2]

Start(s) == subject = s /\ inbox = <<>> /\ words = NoWords /\ characters = <<>>

Init == \E s \in {"inbox", "words", "characters"} : Start(s)

\* Messages and tokens of their bodies.
Size == Len(inbox) + Len(FlattenSeq([i \in 1..Len(inbox) |-> inbox[i].body]))

Receive ==
  /\ subject = "inbox" /\ Len(inbox) < MaxInbox /\ Size < MaxSize
  /\ inbox' = Append(inbox, [id |-> Len(inbox) + 1, address |-> 5, body |-> <<>>, date |-> 0])
  /\ UNCHANGED <<subject, words, characters>>

Write(t) ==
  /\ inbox # <<>> /\ Size < MaxSize
  /\ inbox' = [inbox EXCEPT ![Len(inbox)].body = Append(@, t)]
  /\ UNCHANGED <<subject, words, characters>>

AddWord(k) ==
  /\ subject = "words" /\ words[k] < WordBounds[k]
  /\ words' = [words EXCEPT ![k] = @ + 1]
  /\ UNCHANGED <<subject, inbox, characters>>

Type(c) ==
  /\ subject = "characters" /\ Len(characters) < MaxCharacters
  /\ characters' = Append(characters, c)
  /\ UNCHANGED <<subject, inbox, words>>

StartOver ==
  /\ inbox' = <<>> /\ words' = NoWords /\ characters' = <<>>
  /\ UNCHANGED subject

Next ==
  \/ Receive \/ StartOver
  \/ \E t \in Tokens : Write(t)
  \/ \E k \in Kinds : AddWord(k)
  \/ \E c \in Characters : Type(c)

Spec == Init /\ [][Next]_vars

-------------------------------------------------------------------------------
(* Properties *)

Parsed == ParseSMSOutput(ContentQuery(inbox))

\* sms.go:277, T1-07: what the phone prints is read back as it was, bodies of several
\* lines and bodies with the format's own marks in them included.
LegibleIsRead ==
  (\A i \in 1..Len(inbox) : Legible(inbox[i])) => Parsed = Result("none", inbox)

\* The rest is refused as a whole: no message is read as another, cut short or left
\* out of a batch that moves the cursor past it, and no order of marks takes the program
\* down (sms.go:322), unless a body spells the end of one row and the fields of the next,
\* which no reader of this format could tell from two rows.
NoneIsGarbled ==
  (\A i \in 1..Len(inbox) : ~Mimics(inbox[i])) =>
    /\ Parsed.error # "panic"
    /\ Parsed.error = "none" => Parsed.messages = inbox

Evidence == {"dictionary", "suffix", "cluster", "all"}

Looks(t) == [r \in Recipients |-> LooksLikeGeorgianLatinFor(t, r)]

\* georgian_latin.go:49: a Georgian number makes recognition likelier, never less
\* likely; it neither replaces the evidence nor the guard against English.
PriorNotFilter ==
  /\ Looks(words)["another"] => Looks(words)["Georgian"]
  /\ Looks(words)["Georgian"] =>
       /\ \E k \in Evidence : words[k] > 0
       /\ words["english"] < 2 \/ 10 * words["english"] < WordsOf(words)

\* A further word that speaks for Georgian never makes a text less Georgian, although each
\* also moves the shares the guards are about.
EvidenceCounts ==
  [][\A k \in Evidence, r \in Recipients :
       words' = [words EXCEPT ![k] = @ + 1] /\ Looks(words)[r] => Looks(words')[r]]_vars

\* telegram.go:22: Telegram shows the message as it is, with just its runs of three or
\* more digits marked; the digits of an entity are not.
TelegramShowsTheText ==
  LET html == WrapDigits(characters) IN
  /\ Shown(html) = characters
  /\ Marked(html) = {SubSeq(characters, run[1], run[2]) : run \in DigitRuns(characters)}
===============================================================================
