----------------------------- MODULE BankEmails -----------------------------
(***************************************************************************)
(* The parsers of the banks' e-mails (parsers/).  The text of an e-mail is *)
(* a sequence of labelled pieces about one payment; what a regular         *)
(* expression finds in it depends on the labels it knows, on the order in  *)
(* which the expressions are tried and on which piece comes first.         *)
(***************************************************************************)
EXTENDS Naturals, Sequences, SequencesExt

CONSTANTS
  MaxPieces,      \* bound: pieces in a text
  WrittenLabels,  \* bound: the labels they have
  SentSubjects    \* bound: the subjects of the e-mails

Bank == {"BAC", "BCR", "BN", "Scotiabank", "TestBank"}
Sender == Bank \cup {"other"}
Subject == {"sinpe", "transferencia", "pago recibido", "pago", "alerta", "recibiste", "news"}

\* What a piece is introduced by.  Amounts: a sign, "Monto:", "Colones:" or
\* "Dolares:" without or with its accent; a number that stands alone is "bare";
\* a name after "de" without a colon is "de_word"; a phone stands behind
\* "Telefono:" or "Tel:", or in parentheses.
Amounts == {"crc_sign", "usd_sign", "monto", "colones", "dolares", "accented"}
References == {"referencia", "ref", "comprobante", "codigo", "bare"}
Phones == {"telefono", "tel", "paren"}
Dates == {"24h", "iso", "12h"}
Names == {"de_word", "desde", "de", "remitente", "enviado_por"}

\* How a name is spelled: with the letters and blanks the patterns know; with "tel"
\* behind its first letter, as in "Estela"; with a mark they do not know (an
\* apostrophe, a dot, a hyphen); or with both, "tel" first.  Every name begins with
\* a letter and has no "de" behind a mark.
Spellings == {"plain", "tel", "marked", "tel_marked"}

\* A reference is a code in the bank's own format or some short number; a phone
\* may be one of the numbers that start with 506.
Piece ==
  [label : Amounts, shows : {"amount"}] \cup [label : References \ {"bare"}, shows : {"code", "short"}]
    \cup [label : {"bare"}, shows : {"code"}] \cup [label : Phones, shows : {"mobile", "506"}]
    \cup [label : Dates, shows : {"date"}] \cup [label : Names, shows : Spellings]

Written == {p \in Piece : p.label \in WrittenLabels}

Kinds == {Amounts, References, Phones, Dates, Names}

ASSUME BankEmailsAssumption ==
  MaxPieces \in Nat \ {0} /\ WrittenLabels \subseteq UNION Kinds /\ SentSubjects \subseteq Subject

VARIABLES
  text,     \* pieces of the e-mail
  email,    \* the rest of it: sender, subject, and whether the text has line
            \* ends (stripHtml leaves none)
  parsed    \* what parserFactory.parse has returned

bvars == <<text, email, parsed>>

Email == [from : Sender, subject : SentSubjects, lines : BOOLEAN]
Draft == [from |-> "draft"]
Nothing == [bank |-> "none"]

-----------------------------------------------------------------------------
(***************************************************************************)
(* What the parsers look for: words in the subject; then, in this order,   *)
(* the labels of an amount, of a reference and of the sender's name, each  *)
(* of these with what ends the name.                                       *)
(***************************************************************************)

Label(labels, ends) == [labels |-> labels, ends |-> ends]

\* extractAmount.
BaseAmounts == <<{"crc_sign"}, {"usd_sign"}, {"monto"}>>

BACParser ==
  [subjects |-> {"sinpe", "transferencia", "pago recibido"},
   amounts |-> BaseAmounts,
   references |-> <<{"referencia", "ref"}, {"comprobante"}, {"bare"}>>,
   names |-> <<Label({"de_word"}, "paren"), Label({"de", "desde"}, "any"), Label({"remitente"}, "any")>>]

\* Faulty: BCR's pattern for the name is greedy like those of the other banks.
GreedyBCRParser ==
  [subjects |-> {"sinpe", "transferencia", "pago recibido", "recibiste"},
   amounts |-> BaseAmounts,
   references |-> <<{"comprobante"}, {"referencia", "ref"}>>,
   names |-> <<Label({"de", "desde"}, "any"), Label({"remitente"}, "any")>>]

\* The pattern for a bare code has no group and so never yields one.
BCRParser ==
  [subjects |-> {"sinpe", "transferencia", "pago recibido", "recibiste"},
   amounts |-> BaseAmounts,
   references |-> <<{"comprobante"}, {"referencia", "ref"}>>,
   names |-> <<Label({"de", "desde"}, "tel"), Label({"remitente"}, "any"), Label({"enviado_por"}, "any")>>]

\* Faulty: VALID_SUBJECTS without 'Pago recibido'.
NarrowBNParser ==
  [subjects |-> {"sinpe", "transferencia", "recibiste"},
   amounts |-> <<{"colones"}, {"dolares", "accented"}>> \o BaseAmounts,
   references |-> <<{"referencia", "ref"}, {"bare"}, {"comprobante", "codigo"}>>,
   names |-> <<Label({"desde"}, "paren"), Label({"de", "desde"}, "any"), Label({"remitente"}, "any")>>]

\* extractBNAmount comes before extractAmount.
BNParser ==
  [subjects |-> {"sinpe", "transferencia", "pago recibido", "recibiste"},
   amounts |-> <<{"colones"}, {"dolares", "accented"}>> \o BaseAmounts,
   references |-> <<{"referencia", "ref"}, {"bare"}, {"comprobante", "codigo"}>>,
   names |-> <<Label({"desde"}, "paren"), Label({"de", "desde"}, "any"), Label({"remitente"}, "any")>>]

ScotiabankParser ==
  [subjects |-> {"sinpe", "transferencia", "pago recibido", "pago", "alerta", "recibiste"},
   amounts |-> BaseAmounts,
   references |-> <<{"codigo"}, {"referencia", "ref"}, {"bare"}, {"comprobante"}>>,
   names |-> <<Label({"de_word"}, "sign"), Label({"de", "desde"}, "any"), Label({"remitente"}, "any"),
               Label({"enviado_por"}, "any")>>]

TestBankParser ==
  [subjects |-> Subject,
   amounts |-> BaseAmounts,
   references |-> <<{"comprobante", "ref"}>>,
   names |-> <<Label({"de", "desde"}, "telefono")>>]

Parsers ==
  [BAC |-> BACParser, BCR |-> BCRParser, BN |-> BNParser, Scotiabank |-> ScotiabankParser,
   TestBank |-> TestBankParser]

-----------------------------------------------------------------------------
(***************************************************************************)
(* The search for a label: pattern by pattern, each at its first match.    *)
(***************************************************************************)

\* A pattern for the bank's own format finds it behind any label.
At(labels) ==
  {i \in DOMAIN text : text[i].label \in labels \/ ("bare" \in labels /\ text[i].shows = "code")}
Shows(labels) == At(labels) # {}

\* text.match of one pattern after the other; 0 when none matches.
FirstMatch(patterns) ==
  LET hits == {k \in DOMAIN patterns : Shows(patterns[k])}
  IN  IF hits = {} THEN 0 ELSE Min(At(patterns[Min(hits)]))

\* Faulty: a sign of dollars decides.
DollarsFirst ==
  IF Shows({"usd_sign", "dolares"}) THEN "USD" ELSE "CRC"

\* detectCurrency: "dolares" is looked for without its accent.
Currency ==
  IF Shows({"crc_sign", "colones"}) THEN "CRC"
  ELSE IF Shows({"usd_sign", "dolares"}) THEN "USD" ELSE "CRC"

\* extractDate(content) || email.date: an hour of one digit is not recognised.
DateOf == IF Shows({"24h", "iso"}) THEN "shown" ELSE "arrival"

\* Eight digits in a row, with or without a separator: a phone, or the beginning
\* of the codes of three of the banks.
EightDigits(bank) ==
  At(Phones) \cup {i \in DOMAIN text : text[i].shows = "code" /\ bank \in {"BAC", "BN", "Scotiabank"}}

\* Faulty: the last number is the phone.
LastNumber(bank) ==
  LET found == EightDigits(bank)
      i == Max(found)
  IN  IF found = {} THEN "none"
      ELSE IF text[i].label \in References THEN "reference"
      ELSE IF text[i].shows = "506" THEN "none" ELSE "sender"

\* extractPhone, whose first pattern decides, and normalizeCostaRicaPhone, which
\* throws when a 506 that is part of the number is taken for the country code.
PhoneOf(bank) ==
  LET i == Min(EightDigits(bank))
  IN  IF EightDigits(bank) = {} THEN "none"
      ELSE IF text[i].label \in References THEN "reference"
      ELSE IF text[i].shows = "506" THEN "none" ELSE "sender"

-----------------------------------------------------------------------------
(***************************************************************************)
(* The sender's name                                                       *)
(***************************************************************************)

\* What the text goes on with after piece i: a label that begins with letters, that
\* of the phone, a parenthesis, a sign, or nothing.
Next(i) ==
  IF i = Len(text) THEN "end"
  ELSE IF text[i + 1].label \in Phones THEN text[i + 1].label
  ELSE IF text[i + 1].label \in {"crc_sign", "usd_sign"} THEN "sign" ELSE "word"

Marked(i) == text[i].shows \in {"marked", "tel_marked"}
HasTel(i) == text[i].shows \in {"tel", "tel_marked"}

\* A greedy pattern takes letters and white space, line ends included: the name up
\* to a mark, or with it the word the next piece begins with.
Greedy(i) ==
  IF Marked(i) THEN "cut"
  ELSE IF Next(i) \in {"word", "telefono", "tel"} THEN "runs_on" ELSE "exact"

\* A lazy pattern must reach the end of the line or of the text, or one of the words
\* it stops at, by letters and white space.
Lazy(i, stops, lines) ==
  IF ~Marked(i) /\ (Next(i) \in stops \cup {"end"} \/ (lines /\ Next(i) # "paren"))
  THEN "exact" ELSE "none"

\* A pattern that wants a parenthesis behind the name.
BeforeParen(i) == IF Next(i) = "paren" /\ ~Marked(i) THEN "exact" ELSE "none"

\* One that wants an amount before it.
AfterSign(i) == IF i > 1 /\ text[i - 1].label \in {"crc_sign", "usd_sign"} THEN Greedy(i) ELSE "none"

\* BCR's lazy pattern stops at "tel" wherever it stands, in the name too.
UpToTel(i, lines) == IF HasTel(i) THEN "cut" ELSE Lazy(i, {"telefono", "tel"}, lines)

NameAt(i, ends, lines) ==
  CASE ends = "paren" -> BeforeParen(i)
    [] ends = "tel" -> UpToTel(i, lines)
    [] ends = "telefono" -> Lazy(i, {"telefono"}, lines)
    [] ends = "sign" -> AfterSign(i)
    [] ends = "any" -> Greedy(i)

\* extractSenderName.
NameOf(bank, lines) ==
  LET patterns == Parsers[bank].names
      Read(k) == {NameAt(i, patterns[k].ends, lines) : i \in At(patterns[k].labels)} \ {"none"}
      hits == {k \in DOMAIN patterns : Read(k) # {}}
  IN  IF hits = {} THEN "none" ELSE CHOOSE n \in Read(Min(hits)) : TRUE

-----------------------------------------------------------------------------
(***************************************************************************)
(* The parsing of an e-mail                                                *)
(***************************************************************************)

\* getParser: the senders of the banks are disjoint, so at most one can parse.
CanParse(e, bank) == e.from = bank /\ e.subject \in Parsers[bank].subjects

\* parse of each bank: without an amount or a reference there is no transaction.
Parse(bank, lines) ==
  LET r == FirstMatch(Parsers[bank].references)
  IN  IF FirstMatch(Parsers[bank].amounts) = 0 \/ r = 0 THEN Nothing
      ELSE [bank |-> bank, code |-> text[r].shows, currency |-> Currency, date |-> DateOf,
            phone |-> PhoneOf(bank), name |-> NameOf(bank, lines)]

BInit == text = <<>> /\ email = Draft /\ parsed = Nothing

\* The bank writes one more piece: at most two amounts, and one of each other kind.
Write ==
  /\ email = Draft /\ Len(text) < MaxPieces
  /\ \E p \in Written :
       /\ \A kind \in Kinds : p.label \in kind => Cardinality(At(kind)) < (IF kind = Amounts THEN 2 ELSE 1)
       /\ text' = Append(text, p)
  /\ UNCHANGED <<email, parsed>>

\* The e-mail arrives and is parsed: parserFactory.parse.
ParseEmail(e) ==
  /\ email = Draft /\ email' = e
  /\ \/ \E bank \in Bank : CanParse(e, bank) /\ parsed' = Parse(bank, e.lines)
     \/ ~(\E bank \in Bank : CanParse(e, bank)) /\ parsed' = Nothing
  /\ UNCHANGED text

BNext == Write \/ \E e \in Email : ParseEmail(e)

BSpec == BInit /\ [][BNext]_bvars

-----------------------------------------------------------------------------
Received == email # Draft
Parsed == Received /\ parsed # Nothing

\* SINPE_QUERY, by which fetchNewEmails finds e-mails.
Found == {"sinpe", "transferencia", "pago recibido"}

\* The amounts and references that the comments of the parsers name.
Documented ==
  [BAC |-> <<{"crc_sign", "usd_sign"}, {"referencia", "ref", "comprobante"}>>,
   BCR |-> <<{"crc_sign", "usd_sign", "monto"}, {"comprobante", "referencia"}>>,
   BN |-> <<{"colones", "accented", "crc_sign", "usd_sign"}, {"ref", "referencia"}>>,
   Scotiabank |-> <<{"crc_sign", "usd_sign"}, {"codigo", "referencia"}>>]

\* What the mailbox is searched for and what the parsers accept are written in
\* different files: an e-mail of a bank that is found and follows the bank's
\* documented format becomes a transaction (EmailMonitorService, canParse, parse).
DocumentedIsParsed ==
  Received /\ email.from \in DOMAIN Documented /\ email.subject \in Found =>
    LET d == Documented[email.from] IN (Shows(d[1]) /\ Shows(d[2]) => Parsed)

\* Amount and currency are looked for by different rules: the amount taken is still
\* in the currency recorded when a text shows amounts with both signs.  Not so for
\* BN, whose own labels come before the signs, nor when the word "colones" stands
\* beside an amount in dollars (extractAmount, detectCurrency).
AmountInItsCurrency ==
  Parsed /\ email.from # "BN" /\ ~Shows({"colones"}) =>
    text[FirstMatch(Parsers[email.from].amounts)].label \in
      {"monto", IF parsed.currency = "CRC" THEN "crc_sign" ELSE "usd_sign"}

\* A phone that the text shows before any code is the one that is notified, and no
\* number is made of one that begins with 506 (extractPhone).
PhoneShownIsRead ==
  Parsed /\ Shows(Phones) /\ (\A i \in DOMAIN text : text[i].shows = "code" => i > Min(At(Phones))) =>
    parsed.phone = IF text[Min(At(Phones))].shows = "506" THEN "none" ELSE "sender"

\* A name that stands where the bank's documented format has it: the comments of
\* extractSenderName, without Scotiabank's, whose example runs on.
InFormat(i) ==
  \/ email.from = "BAC" /\ text[i].label = "de_word" /\ Next(i) = "paren"
  \/ email.from = "BN" /\ text[i].label \in {"desde", "de"} /\ Next(i) = "paren"
  \/ email.from = "BCR" /\ text[i].label = "de" /\ email.lines /\ Next(i) # "paren"

\* The name is the key by which members are matched.  One in its bank's format is
\* recorded as it is, unless it has a mark, or for BCR "tel" in it; for no other
\* reason is a name recorded in part, and none takes in what follows when that is a
\* parenthesis, an amount or nothing (extractSenderName, SinpeNameMappingRepository).
NameIsExact ==
  Parsed => \A i \in At(Names) :
    LET spoilt == Marked(i) \/ (email.from = "BCR" /\ HasTel(i)) IN
    /\ InFormat(i) /\ ~spoilt => parsed.name = "exact"
    /\ parsed.name = "cut" => spoilt
    /\ parsed.name = "runs_on" => Next(i) \notin {"paren", "sign", "end"}

\* "Notify the person who sent the SINPE" (transaction.worker.ts): the phone that is
\* read is the sender's.
PhoneIsSenders == Parsed => parsed.phone \in {"none", "sender"}
=============================================================================
