------------------------------- MODULE SmsRows -------------------------------
(***************************************************************************)
(* The rows that "content query" prints for a phone's inbox, and           *)
(* ParseSMSOutput (internal/adb/sms.go), which reads messages back from    *)
(* them.  The output is one text: nothing quotes a body, so its lines and  *)
(* the marks of the format are told apart by where they stand.             *)
(*                                                                         *)
(* A text is a sequence of tokens, pairs of a kind and a value.  The SIM   *)
(* column is left out.                                                     *)
(***************************************************************************)
EXTENDS Integers, Sequences, SequencesExt

Newline == <<"newline", 0>>
Header  == <<"Row: ", 0>>
Failure == <<"SQLiteException", 0>>  \* or "Error while accessing provider"

-------------------------------------------------------------------------------
(* What the phone prints (external): a message has an id, a sender, a body, a date *)

RowOf(m) ==
  <<Header, <<"_id=", m.id>>, <<"address=", m.address>>, <<", body=", 0>>>>
    \o m.body \o <<<<", date=", m.date>>, Newline>>

ContentQuery(inbox) == FlattenSeq([i \in 1..Len(inbox) |-> RowOf(inbox[i])])

-------------------------------------------------------------------------------
(* ParseSMSOutput *)

\* reRowSplit: where a line begins with "Row: N ".
HeaderAt(text, i) == text[i] = Header /\ (i = 1 \/ text[i - 1] = Newline)

\* TrimSpace, at the end of a row.
Trim(row) ==
  LET rest == {i \in 1..Len(row) : row[i] # Newline} IN
  IF rest = {} THEN <<>> ELSE SubSeq(row, 1, CHOOSE i \in rest : \A j \in rest : j <= i)

Places(row, kind) == {i \in 1..Len(row) : row[i][1] = kind}
First(row, kind) == CHOOSE i \in Places(row, kind) : \A j \in Places(row, kind) : i <= j

\* Mutant: the first date, wherever it stands.
DateAtFirst(row) == IF Places(row, ", date=") = {} THEN 0 ELSE First(row, ", date=")

\* reDateSuffix: a date that ends the row; 0 if there is none.
DateAt(row) == IF row # <<>> /\ Last(row)[1] = ", date=" THEN Len(row) ELSE 0

Readable(row) ==
  /\ Places(row, "_id=") # {}
  /\ DateAt(row) # 0
  /\ Places(row, "address=") # {} /\ Places(row, ", body=") # {}

\* row[addrStart+len("address=") : bodyTag], with the marks in the other order.
Panics(row) == Readable(row) /\ First(row, ", body=") < First(row, "address=")

ParseRow(row) ==
  [id      |-> row[First(row, "_id=")][2],
   address |-> row[First(row, "address=")][2],
   body    |-> SubSeq(row, First(row, ", body=") + 1, DateAt(row) - 1),
   date    |-> row[DateAt(row)][2]]

\* The line before the next such place, or the end.
EndOf(text, i) ==
  CHOOSE j \in i..Len(text) :
    /\ \A k \in (i + 1)..j : ~HeaderAt(text, k)
    /\ j = Len(text) \/ HeaderAt(text, j + 1)

RowAt(text, i) == Trim(SubSeq(text, i + 1, EndOf(text, i)))

\* What is not empty between such places, in order; the first is where the text begins.
RowsFrom(text, i) ==
  IF HeaderAt(text, i) /\ RowAt(text, i) # <<>> THEN <<RowAt(text, i)>> ELSE <<>>
Rows(text) == FlattenSeq([i \in 1..Len(text) |-> RowsFrom(text, i)])

Result(error, messages) == [error |-> error, messages |-> messages]

\* Mutant: a row that cannot be read is passed over.
ParseWhatCanBe(text) ==
  LET good == SelectSeq(Rows(text), Readable) IN
  IF Failure \in ToSet(text) THEN Result("sqlite", <<>>)
  ELSE Result("none", [k \in 1..Len(good) |-> ParseRow(good[k])])

\* The first row that cannot be read refuses the whole output, or panics.
ParseSMSOutput(text) ==
  LET rows    == Rows(text)
      failing == {k \in 1..Len(rows) : ~Readable(rows[k]) \/ Panics(rows[k])}
      first   == CHOOSE k \in failing : \A j \in failing : k <= j
  IN
  IF Failure \in ToSet(text) THEN Result("sqlite", <<>>)
  ELSE IF failing = {} THEN Result("none", [k \in 1..Len(rows) |-> ParseRow(rows[k])])
  ELSE Result(IF Panics(rows[first]) THEN "panic" ELSE "row", <<>>)

-------------------------------------------------------------------------------
(* Which messages can be read: Unparsable of PhoneBridge are the others *)

\* No line of the body looks like a row's first, and nothing in it like an error.
Legible(m) ==
  /\ \A i \in 1..Len(m.body) : ~(m.body[i] = Header /\ i > 1 /\ m.body[i - 1] = Newline)
  /\ Failure \notin ToSet(m.body)

\* A line that ends like a row, the next one that begins like one, and a row's fields.
Mimics(m) ==
  \E i, j \in 1..Len(m.body) :
    /\ m.body[i][1] = ", date=" /\ i + 1 < j
    /\ \A k \in (i + 1)..(j - 1) : m.body[k] = Newline
    /\ m.body[j] = Header
    /\ \A kind \in {"_id=", "address=", ", body="} :
         \E k \in (j + 1)..Len(m.body) : m.body[k][1] = kind
===============================================================================
