---------------------------- MODULE GeorgianLatin ----------------------------
(***************************************************************************)
(* LooksLikeGeorgianLatinFor (internal/translator/georgian_latin.go):      *)
(* whether a text is Georgian in Latin letters.  The answer depends on how *)
(* many words of each kind the text has and on whose number it came to; a  *)
(* text is therefore a function from kinds of words to numbers, its words  *)
(* being equally long and its links taken out.  Scores are in halves.      *)
(***************************************************************************)
EXTENDS Integers

\* dictionary: a Georgian word or stem.  english: an English function word.  suffix: a
\* word with a Georgian suffix.  cluster: one with a postposition, a bigram or a run of
\* consonants.  all: one with all of them.  foreign: letters that are not Latin.
Kinds ==
  {"dictionary", "english", "suffix", "cluster", "all", "acronym", "plain", "foreign"}

Recipients == {"Georgian", "another"}

\* What wordRe finds.
WordsOf(t) ==
  t["dictionary"] + t["english"] + t["suffix"] + t["cluster"] + t["all"] + t["acronym"] + t["plain"]

MostlyLatin(t) == 10 * WordsOf(t) >= 9 * (WordsOf(t) + t["foreign"])

English(t) == t["english"] >= 2 /\ 10 * t["english"] >= WordsOf(t)

\* Mutant: the bonus reaches the threshold.
BonusOfThree(recipient) == IF recipient = "Georgian" THEN 6 ELSE 0

\* IsGeorgianNumber and georgianRecipientBonus
Bonus(recipient) == IF recipient = "Georgian" THEN 4 ELSE 0

Score(t, recipient) ==
  Bonus(recipient) + 4 * t["dictionary"] + 2 * t["suffix"] + t["cluster"] + 5 * t["all"]

\* Words whose weak signals were looked for.
Weighed(t) == WordsOf(t) - t["dictionary"] - t["acronym"]

\* Mutant: a point per word, not half a point.
DenseByPoints(t, recipient) == t["dictionary"] > 0 \/ Score(t, recipient) >= 2 * Weighed(t)

Dense(t, recipient) == t["dictionary"] > 0 \/ Score(t, recipient) >= Weighed(t)

LooksLikeGeorgianLatinFor(t, recipient) ==
  /\ WordsOf(t) > 0
  /\ MostlyLatin(t)
  /\ ~English(t)
  /\ Score(t, recipient) >= 6
  /\ Dense(t, recipient)
===============================================================================
