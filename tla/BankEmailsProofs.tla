-------------------------- MODULE BankEmailsProofs --------------------------
(***************************************************************************)
(* Proofs about BankEmails, for texts of any length and with any of the    *)
(* labels: what follows a bank's documented format is parsed, the amount   *)
(* is in its currency, a phone shown before any code is read, and a name   *)
(* in its bank's format is read as it is.                                  *)
(***************************************************************************)
EXTENDS BankEmails, FiniteSetTheorems, TLAPS

-----------------------------------------------------------------------------
(***************************************************************************)
(* Least elements                                                          *)
(***************************************************************************)

\* A set of numbers has a least element: the intervals up to its elements are
\* finite sets, which strict inclusion orders well.
LEMMA LeastExists ==
  ASSUME NEW S \in SUBSET Nat, S # {}
  PROVE  \E m \in S : \A n \in S : m <= n
<1> DEFINE Below == {0 .. n : n \in S}
<1>1. Below \subseteq FiniteSubsetsOf(Nat) /\ Below # {}
  <2>1. ASSUME NEW n \in S
        PROVE  0 .. n \in FiniteSubsetsOf(Nat)
    <3>1. IsFiniteSet(0 .. n)
      BY FS_Interval
    <3> QED  BY <3>1 DEF FiniteSubsetsOf
  <2> QED  BY <2>1
<1>2. IsWellFoundedOn(StrictSubsetOrdering(Nat), FiniteSubsetsOf(Nat))
  BY FS_StrictSubsetOrderingWellFounded
<1>3. PICK low \in Below : \A b \in Below : <<b, low>> \notin StrictSubsetOrdering(Nat)
  <2> HIDE DEF Below
  <2> QED  BY <1>1, <1>2, WFMin, Zenon
<1>4. PICK m \in S : low = 0 .. m
  OBVIOUS
<1>5. ASSUME NEW n \in S, n < m
      PROVE  FALSE
  <2>1. 0 .. n \subseteq 0 .. m /\ 0 .. n # 0 .. m /\ 0 .. n \in SUBSET Nat /\ 0 .. m \in SUBSET Nat
    <3>1. m \in 0 .. m /\ m \notin 0 .. n
      BY <1>5
    <3> QED  BY <1>5, <3>1
  <2>2. <<0 .. n, 0 .. m>> \in StrictSubsetOrdering(Nat)
    BY <2>1, Zenon DEF StrictSubsetOrdering
  <2> QED  BY <1>3, <1>4, <2>2
<1> QED  BY <1>5

\* So Min is the first pattern that matches, or the place of its first match.
LEMMA LeastOf ==
  ASSUME NEW S \in SUBSET Nat, S # {}
  PROVE  Min(S) \in S /\ \A n \in S : Min(S) <= n
  BY LeastExists DEF Min

-----------------------------------------------------------------------------
(***************************************************************************)
(* The text                                                                *)
(***************************************************************************)

\* The bank writes at most one name.
TextInv ==
  /\ text \in Seq(Piece)
  /\ \A i, j \in At(Names) : i = j

\* What has been parsed is the text there still is.
OutcomeInv ==
  IF Received
  THEN /\ email \in Email
       /\ \/ \E bank \in Bank : CanParse(email, bank) /\ parsed = Parse(bank, email.lines)
          \/ ~(\E bank \in Bank : CanParse(email, bank)) /\ parsed = Nothing
  ELSE parsed = Nothing

BInv == TextInv /\ OutcomeInv

\* Matches are places of the text.
LEMMA PlacesType ==
  ASSUME text \in Seq(Piece), NEW labels
  PROVE  At(labels) \subseteq DOMAIN text /\ DOMAIN text = 1 .. Len(text) /\ At(labels) \in SUBSET (Nat \ {0})
  BY DEF At

LEMMA NoNameWritten ==
  ASSUME text \in Seq(Piece), Cardinality(At(Names)) < 1
  PROVE  At(Names) = {}
<1>1. At(Names) \in SUBSET (1 .. Len(text)) /\ Len(text) \in Int
  BY PlacesType
<1>2. IsFiniteSet(At(Names))
  BY <1>1, FS_Interval, FS_Subset
<1>3. Cardinality(At(Names)) \in Nat
  BY <1>2, FS_CardinalityType
<1> QED  BY <1>2, <1>3, FS_EmptySet

LEMMA WriteKeeps ==
  ASSUME BInv, Write
  PROVE  BInv'
<1>1. PICK p \in Written :
        /\ \A kind \in Kinds : p.label \in kind => Cardinality(At(kind)) < (IF kind = Amounts THEN 2 ELSE 1)
        /\ text' = Append(text, p)
  BY DEF Write
<1>2. text \in Seq(Piece) /\ p \in Piece
  BY <1>1 DEF BInv, TextInv, Written
<1>3. /\ text' \in Seq(Piece) /\ Len(text') = Len(text) + 1 /\ text'[Len(text) + 1] = p
      /\ \A i \in 1 .. Len(text) : text'[i] = text[i]
  BY <1>1, <1>2
<1>4. "bare" \notin Names
  BY DEF Names
<1>5. \A i \in At(Names)' : i \in At(Names) \/ (i = Len(text) + 1 /\ p.label \in Names)
  BY <1>2, <1>3, <1>4 DEF At
<1>6. p.label \in Names => At(Names) = {}
  <2>1. Names \in Kinds /\ Names # Amounts
    <3>1. "de" \in Names /\ "de" \notin Amounts
      BY DEF Names, Amounts
    <3> QED  BY <3>1 DEF Kinds
  <2> QED  BY <1>1, <1>2, <2>1, NoNameWritten
<1>7. TextInv'
  BY <1>3, <1>5, <1>6 DEF BInv, TextInv
<1>8. OutcomeInv'
  BY DEF Write, BInv, OutcomeInv, Received
<1> QED  BY <1>7, <1>8 DEF BInv

\* What is parsed depends on the text alone.
LEMMA SameText ==
  ASSUME text' = text, NEW bank \in Bank, NEW lines \in BOOLEAN
  PROVE  Parse(bank, lines)' = Parse(bank, lines)
  BY DEF Parse, FirstMatch, Shows, At, Currency, DateOf, PhoneOf, EightDigits, NameOf, NameAt,
     BeforeParen, UpToTel, AfterSign, Lazy, Greedy, Marked, HasTel, Next

LEMMA ParseEmailKeeps ==
  ASSUME BInv, NEW e \in Email, ParseEmail(e)
  PROVE  BInv'
<1>1. text' = text /\ email' = e
  BY DEF ParseEmail
<1>2. e # Draft
  BY DEF Email, Sender, Bank, Draft
<1>3. TextInv'
  BY <1>1 DEF BInv, TextInv, At
<1>4. e.lines \in BOOLEAN
  BY DEF Email
<1>5. \A bank \in Bank : Parse(bank, e.lines)' = Parse(bank, e.lines)
  BY <1>1, <1>4, SameText
<1>6. OutcomeInv'
  BY <1>1, <1>2, <1>5 DEF ParseEmail, OutcomeInv, Received
<1> QED  BY <1>3, <1>6 DEF BInv

LEMMA AlwaysBInv == BSpec => []BInv
<1>1. BInit => BInv
  BY DEF BInit, BInv, TextInv, OutcomeInv, Received, At
<1>2. BInv /\ [BNext]_bvars => BInv'
  <2> SUFFICES ASSUME BInv, [BNext]_bvars PROVE BInv'
    OBVIOUS
  <2>1. CASE UNCHANGED bvars
    <3>1. text' = text /\ email' = email /\ parsed' = parsed
      BY <2>1 DEF bvars
    <3>2. TextInv'
      BY <3>1 DEF BInv, TextInv, At
    <3>3. Received => \A bank \in Bank : Parse(bank, email.lines)' = Parse(bank, email.lines)
      <4>1. Received => email.lines \in BOOLEAN
        BY DEF BInv, OutcomeInv, Email
      <4> QED  BY <3>1, <4>1, SameText
    <3>4. OutcomeInv'
      BY <3>1, <3>3 DEF BInv, OutcomeInv, Received, CanParse
    <3> QED  BY <3>2, <3>4 DEF BInv
  <2> QED  BY <2>1, WriteKeeps, ParseEmailKeeps DEF BNext
<1> QED  BY <1>1, <1>2, PTL DEF BSpec

-----------------------------------------------------------------------------
(***************************************************************************)
(* What is parsed                                                          *)
(***************************************************************************)

\* Of the patterns that match somewhere the first is taken, at its first match.
LEMMA FirstMatchFound ==
  ASSUME text \in Seq(Piece), NEW patterns, DOMAIN patterns \subseteq Nat,
         NEW k \in DOMAIN patterns, Shows(patterns[k])
  PROVE  \E h \in DOMAIN patterns :
           /\ FirstMatch(patterns) \in At(patterns[h]) /\ FirstMatch(patterns) \in Nat \ {0}
           /\ \A g \in DOMAIN patterns : Shows(patterns[g]) => h <= g
<1> DEFINE hits == {g \in DOMAIN patterns : Shows(patterns[g])}
<1>1. hits \in SUBSET Nat /\ hits # {}
  OBVIOUS
<1>2. Min(hits) \in hits /\ \A g \in hits : Min(hits) <= g
  BY <1>1, LeastOf
<1>3. FirstMatch(patterns) = Min(At(patterns[Min(hits)]))
  BY <1>1 DEF FirstMatch
<1>4. At(patterns[Min(hits)]) # {} /\ At(patterns[Min(hits)]) \in SUBSET (Nat \ {0})
  BY <1>2, PlacesType DEF Shows
<1>5. Min(At(patterns[Min(hits)])) \in At(patterns[Min(hits)])
  BY <1>4, LeastOf
<1> QED  BY <1>2, <1>3, <1>4, <1>5

\* A label that one of the patterns knows is not overlooked.
LEMMA KnownLabelsMatch ==
  ASSUME text \in Seq(Piece), NEW patterns, DOMAIN patterns \subseteq Nat,
         NEW labels, "bare" \notin labels, Shows(labels),
         \A l \in labels : \E k \in DOMAIN patterns : l \in patterns[k]
  PROVE  FirstMatch(patterns) # 0
<1>1. PICK i \in DOMAIN text : text[i].label \in labels
  BY DEF Shows, At
<1>2. PICK k \in DOMAIN patterns : text[i].label \in patterns[k]
  BY <1>1
<1>3. Shows(patterns[k])
  BY <1>2 DEF Shows, At
<1> QED  BY <1>3, FirstMatchFound

\* The table of the parsers, bank by bank and field by field.
LEMMA ParserOf ==
  /\ Parsers["BAC"] = BACParser /\ Parsers["BCR"] = BCRParser /\ Parsers["BN"] = BNParser
  /\ Parsers["Scotiabank"] = ScotiabankParser /\ Parsers["TestBank"] = TestBankParser
  BY Zenon DEF Parsers

LEMMA SubjectsOf ==
  /\ Found \subseteq BACParser.subjects /\ Found \subseteq BCRParser.subjects
  /\ Found \subseteq BNParser.subjects /\ Found \subseteq ScotiabankParser.subjects
<1>1. Found \subseteq BACParser.subjects
  BY DEF Found, BACParser
<1>2. Found \subseteq BCRParser.subjects
  BY DEF Found, BCRParser
<1>3. Found \subseteq BNParser.subjects
  BY DEF Found, BNParser
<1>4. Found \subseteq ScotiabankParser.subjects
  BY DEF Found, ScotiabankParser
<1> QED  BY <1>1, <1>2, <1>3, <1>4

LEMMA AmountsOf ==
  ASSUME NEW bank \in Bank \ {"BN"}
  PROVE  Parsers[bank].amounts = BaseAmounts
<1>1. BACParser.amounts = BaseAmounts
  BY DEF BACParser
<1>2. BCRParser.amounts = BaseAmounts
  BY DEF BCRParser
<1>3. ScotiabankParser.amounts = BaseAmounts
  BY DEF ScotiabankParser
<1>4. TestBankParser.amounts = BaseAmounts
  BY DEF TestBankParser
<1> QED  BY <1>1, <1>2, <1>3, <1>4, ParserOf DEF Bank

LEMMA BaseAmountsType ==
  /\ DOMAIN BaseAmounts = 1 .. 3
  /\ BaseAmounts[1] = {"crc_sign"} /\ BaseAmounts[2] = {"usd_sign"} /\ BaseAmounts[3] = {"monto"}
  BY DEF BaseAmounts

LEMMA BNAmountsType ==
  LET amounts == BNParser.amounts
  IN  /\ DOMAIN amounts = 1 .. 5
      /\ amounts[1] = {"colones"} /\ amounts[2] = {"dolares", "accented"}
      /\ amounts[3] = {"crc_sign"} /\ amounts[4] = {"usd_sign"} /\ amounts[5] = {"monto"}
  BY DEF BNParser, BaseAmounts

\* What was parsed comes from the bank that sent the e-mail.
LEMMA ParsedByItsBank ==
  ASSUME BInv, Parsed
  PROVE  /\ email \in Email /\ email.from \in Bank
         /\ FirstMatch(Parsers[email.from].amounts) # 0
         /\ parsed.currency = Currency
         /\ parsed.phone = PhoneOf(email.from)
         /\ parsed.name = NameOf(email.from, email.lines)
<1>1. PICK bank \in Bank : CanParse(email, bank) /\ parsed = Parse(bank, email.lines)
  BY DEF BInv, OutcomeInv, Parsed
<1>2. email.from = bank /\ email \in Email
  BY <1>1 DEF CanParse, BInv, OutcomeInv, Parsed
<1>3. FirstMatch(Parsers[bank].amounts) # 0 /\ FirstMatch(Parsers[bank].references) # 0
  BY <1>1 DEF Parse, Parsed
<1> QED  BY <1>1, <1>2, <1>3 DEF Parse

\* An e-mail that a bank's parser accepts and that shows amount and reference.
LEMMA ShownIsParsed ==
  ASSUME BInv, Received, email.from \in Bank, CanParse(email, email.from),
         FirstMatch(Parsers[email.from].amounts) # 0, FirstMatch(Parsers[email.from].references) # 0
  PROVE  Parsed
<1>1. parsed = Parse(email.from, email.lines)
  BY DEF BInv, OutcomeInv, CanParse
<1>2. parsed.bank = email.from
  BY <1>1 DEF Parse
<1>3. "none" \notin Bank
  BY DEF Bank
<1> QED  BY <1>2, <1>3 DEF Parsed, Nothing

\* Every e-mail of a bank that is searched for and follows its documented format
\* becomes a transaction, however long it is (canParse, parse).
THEOREM FormatIsParsed == BSpec => []DocumentedIsParsed
<1>1. ASSUME BInv, Received, email.from \in DOMAIN Documented, email.subject \in Found,
             Shows(Documented[email.from][1]), Shows(Documented[email.from][2])
      PROVE  Parsed
  <2> DEFINE amounts == Parsers[email.from].amounts
             references == Parsers[email.from].references
             d == Documented[email.from]
  <2>1. email.from \in {"BAC", "BCR", "BN", "Scotiabank"}
    BY <1>1 DEF Documented
  <2>2. email.from \in Bank /\ CanParse(email, email.from)
    BY <1>1, <2>1, ParserOf, SubjectsOf DEF Bank, CanParse
  <2>3. text \in Seq(Piece)
    BY <1>1 DEF BInv, TextInv
  <2>4. /\ DOMAIN amounts \subseteq Nat /\ "bare" \notin d[1]
        /\ \A l \in d[1] : \E k \in DOMAIN amounts : l \in amounts[k]
    <3>1. CASE email.from = "BN"
      <4>1. amounts = BNParser.amounts
        BY <3>1, ParserOf
      <4>2. d[1] = {"colones", "accented", "crc_sign", "usd_sign"}
        BY <3>1 DEF Documented
      <4> HIDE DEF amounts, d
      <4> QED  BY <4>1, <4>2, BNAmountsType
    <3>2. CASE email.from # "BN"
      <4>1. amounts = BaseAmounts
        BY <2>2, <3>2, AmountsOf
      <4>2. d[1] \subseteq {"crc_sign", "usd_sign", "monto"}
        BY <2>1, <3>2 DEF Documented
      <4> HIDE DEF amounts, d
      <4> QED  BY <4>1, <4>2, BaseAmountsType
    <3> QED  BY <3>1, <3>2
  <2>5. /\ DOMAIN references \subseteq Nat /\ "bare" \notin d[2]
        /\ \A l \in d[2] : \E k \in DOMAIN references : l \in references[k]
    <3>1. CASE email.from = "BAC"
      <4>1. references = <<{"referencia", "ref"}, {"comprobante"}, {"bare"}>>
        <5>1. BACParser.references = <<{"referencia", "ref"}, {"comprobante"}, {"bare"}>>
          BY Zenon DEF BACParser
        <5> QED  BY <3>1, <5>1, ParserOf, Zenon
      <4>2. d[2] = {"referencia", "ref", "comprobante"}
        BY <3>1 DEF Documented
      <4> HIDE DEF references, d
      <4> QED  BY <4>1, <4>2
    <3>2. CASE email.from = "BCR"
      <4>1. references = <<{"comprobante"}, {"referencia", "ref"}>>
        <5>1. BCRParser.references = <<{"comprobante"}, {"referencia", "ref"}>>
          BY Zenon DEF BCRParser
        <5> QED  BY <3>2, <5>1, ParserOf, Zenon
      <4>2. d[2] = {"comprobante", "referencia"}
        BY <3>2 DEF Documented
      <4> HIDE DEF references, d
      <4> QED  BY <4>1, <4>2
    <3>3. CASE email.from = "BN"
      <4>1. references = <<{"referencia", "ref"}, {"bare"}, {"comprobante", "codigo"}>>
        <5>1. BNParser.references = <<{"referencia", "ref"}, {"bare"}, {"comprobante", "codigo"}>>
          BY Zenon DEF BNParser
        <5> QED  BY <3>3, <5>1, ParserOf, Zenon
      <4>2. d[2] = {"ref", "referencia"}
        BY <3>3 DEF Documented
      <4> HIDE DEF references, d
      <4> QED  BY <4>1, <4>2
    <3>4. CASE email.from = "Scotiabank"
      <4>1. references = <<{"codigo"}, {"referencia", "ref"}, {"bare"}, {"comprobante"}>>
        <5>1. ScotiabankParser.references = <<{"codigo"}, {"referencia", "ref"}, {"bare"}, {"comprobante"}>>
          BY Zenon DEF ScotiabankParser
        <5> QED  BY <3>4, <5>1, ParserOf, Zenon
      <4>2. d[2] = {"codigo", "referencia"}
        BY <3>4 DEF Documented
      <4> HIDE DEF references, d
      <4> QED  BY <4>1, <4>2
    <3> QED  BY <2>1, <3>1, <3>2, <3>3, <3>4
  <2>6. FirstMatch(amounts) # 0 /\ FirstMatch(references) # 0
    <3> HIDE DEF amounts, references
    <3> QED  BY <1>1, <2>3, <2>4, <2>5, KnownLabelsMatch
  <2> QED  BY <1>1, <2>2, <2>6, ShownIsParsed
<1>2. BInv => DocumentedIsParsed
  BY <1>1 DEF DocumentedIsParsed
<1> QED  BY <1>2, AlwaysBInv, PTL

\* The amount and the currency agree in every text of the four banks that share
\* extractAmount, however many amounts it shows (extractAmount, detectCurrency).
THEOREM CurrencyCorrect == BSpec => []AmountInItsCurrency
<1>1. ASSUME BInv, Parsed, email.from # "BN", ~Shows({"colones"})
      PROVE  text[FirstMatch(Parsers[email.from].amounts)].label \in
               {"monto", IF parsed.currency = "CRC" THEN "crc_sign" ELSE "usd_sign"}
  <2> DEFINE i == FirstMatch(BaseAmounts)
  <2>1. Parsers[email.from].amounts = BaseAmounts
    BY <1>1, ParsedByItsBank, AmountsOf
  <2>2. text \in Seq(Piece) /\ i # 0 /\ parsed.currency = Currency
    BY <1>1, <2>1, ParsedByItsBank DEF BInv, TextInv
  <2>3. PICK k \in DOMAIN BaseAmounts : Shows(BaseAmounts[k])
    BY <2>2 DEF FirstMatch
  <2>4. PICK h \in 1 .. 3 : i \in At(BaseAmounts[h]) /\ \A g \in 1 .. 3 : Shows(BaseAmounts[g]) => h <= g
    BY <2>2, <2>3, FirstMatchFound, BaseAmountsType
  <2>5. \A labels : "bare" \notin labels /\ i \in At(labels) => text[i].label \in labels /\ Shows(labels)
    BY DEF At, Shows
  <2>6. CASE h = 1
    <3>1. text[i].label = "crc_sign" /\ Shows({"crc_sign"})
      BY <2>4, <2>5, <2>6, BaseAmountsType
    <3>2. Currency = "CRC"
      BY <3>1 DEF Currency, Shows, At
    <3> QED  BY <2>1, <2>2, <3>1, <3>2
  <2>7. CASE h = 2
    <3>1. text[i].label = "usd_sign" /\ Shows({"usd_sign"}) /\ ~Shows({"crc_sign"})
      BY <2>4, <2>5, <2>7, BaseAmountsType
    <3>2. Currency = "USD"
      BY <1>1, <3>1 DEF Currency, Shows, At
    <3> QED  BY <2>1, <2>2, <3>1, <3>2
  <2>8. CASE h = 3
    BY <2>1, <2>4, <2>5, <2>8, BaseAmountsType
  <2> QED  BY <2>4, <2>6, <2>7, <2>8
<1>2. BInv => AmountInItsCurrency
  BY <1>1 DEF AmountInItsCurrency
<1> QED  BY <1>2, AlwaysBInv, PTL

\* A phone that stands before any code is the phone that is read (extractPhone,
\* normalizeCostaRicaPhone).
THEOREM PhoneCorrect == BSpec => []PhoneShownIsRead
<1>1. ASSUME BInv, Parsed, Shows(Phones),
             \A i \in DOMAIN text : text[i].shows = "code" => i > Min(At(Phones))
      PROVE  parsed.phone = IF text[Min(At(Phones))].shows = "506" THEN "none" ELSE "sender"
  <2> DEFINE p == Min(At(Phones))
             numbers == EightDigits(email.from)
  <2>1. text \in Seq(Piece) /\ parsed.phone = PhoneOf(email.from)
    BY <1>1, ParsedByItsBank DEF BInv, TextInv
  <2>2. p \in At(Phones) /\ \A i \in At(Phones) : p <= i
    BY <1>1, <2>1, PlacesType, LeastOf DEF Shows
  <2>3. numbers \in SUBSET Nat /\ numbers # {}
    BY <2>1, <2>2, PlacesType DEF EightDigits
  <2>4. Min(numbers) \in numbers /\ \A i \in numbers : Min(numbers) <= i
    BY <2>3, LeastOf
  <2>5. p \in numbers /\ \A i \in numbers : p <= i
    BY <1>1, <2>1, <2>2, PlacesType DEF EightDigits
  <2>6. Min(numbers) = p
    BY <2>3, <2>4, <2>5
  <2>7. text[p].label \in Phones /\ text[p].label \notin References
    BY <2>2 DEF At, Phones, References
  <2> QED  BY <2>1, <2>3, <2>6, <2>7 DEF PhoneOf
<1>2. BInv => PhoneShownIsRead
  BY <1>1 DEF PhoneShownIsRead
<1> QED  BY <1>2, AlwaysBInv, PTL

\* Each bank's patterns for the name.
LEMMA NamesOf ==
  /\ Parsers["BAC"].names =
       <<Label({"de_word"}, "paren"), Label({"de", "desde"}, "any"), Label({"remitente"}, "any")>>
  /\ Parsers["BCR"].names =
       <<Label({"de", "desde"}, "tel"), Label({"remitente"}, "any"), Label({"enviado_por"}, "any")>>
  /\ Parsers["BN"].names =
       <<Label({"desde"}, "paren"), Label({"de", "desde"}, "any"), Label({"remitente"}, "any")>>
  /\ Parsers["Scotiabank"].names =
       <<Label({"de_word"}, "sign"), Label({"de", "desde"}, "any"), Label({"remitente"}, "any"),
         Label({"enviado_por"}, "any")>>
  /\ Parsers["TestBank"].names = <<Label({"de", "desde"}, "telefono")>>
<1>1. BACParser.names =
        <<Label({"de_word"}, "paren"), Label({"de", "desde"}, "any"), Label({"remitente"}, "any")>>
  BY Zenon DEF BACParser
<1>2. BCRParser.names =
        <<Label({"de", "desde"}, "tel"), Label({"remitente"}, "any"), Label({"enviado_por"}, "any")>>
  BY Zenon DEF BCRParser
<1>3. BNParser.names =
        <<Label({"desde"}, "paren"), Label({"de", "desde"}, "any"), Label({"remitente"}, "any")>>
  BY Zenon DEF BNParser
<1>4. ScotiabankParser.names =
        <<Label({"de_word"}, "sign"), Label({"de", "desde"}, "any"), Label({"remitente"}, "any"),
          Label({"enviado_por"}, "any")>>
  BY Zenon DEF ScotiabankParser
<1>5. TestBankParser.names = <<Label({"de", "desde"}, "telefono")>>
  BY Zenon DEF TestBankParser
<1> QED  BY <1>1, <1>2, <1>3, <1>4, <1>5, ParserOf, Zenon

\* What a pattern for the name may end with; only BCR's stops at "tel".
LEMMA NamesType ==
  ASSUME NEW bank \in Bank
  PROVE  LET patterns == Parsers[bank].names
         IN  /\ DOMAIN patterns \subseteq Nat
             /\ \A k \in DOMAIN patterns :
                  /\ patterns[k].ends \in {"paren", "tel", "telefono", "sign", "any"}
                  /\ patterns[k].ends = "tel" => bank = "BCR"
                  /\ patterns[k].labels \subseteq Names
<1> DEFINE patterns == Parsers[bank].names
<1>1. CASE bank = "BAC"
  <2>1. patterns = <<Label({"de_word"}, "paren"), Label({"de", "desde"}, "any"), Label({"remitente"}, "any")>>
    BY <1>1, NamesOf, Zenon
  <2> HIDE DEF patterns
  <2> QED  BY <2>1 DEF Label, Names, patterns
<1>2. CASE bank = "BCR"
  <2>1. patterns = <<Label({"de", "desde"}, "tel"), Label({"remitente"}, "any"), Label({"enviado_por"}, "any")>>
    BY <1>2, NamesOf, Zenon
  <2> HIDE DEF patterns
  <2> QED  BY <1>2, <2>1 DEF Label, Names, patterns
<1>3. CASE bank = "BN"
  <2>1. patterns = <<Label({"desde"}, "paren"), Label({"de", "desde"}, "any"), Label({"remitente"}, "any")>>
    BY <1>3, NamesOf, Zenon
  <2> HIDE DEF patterns
  <2> QED  BY <2>1 DEF Label, Names, patterns
<1>4. CASE bank = "Scotiabank"
  <2>1. patterns = <<Label({"de_word"}, "sign"), Label({"de", "desde"}, "any"), Label({"remitente"}, "any"),
                     Label({"enviado_por"}, "any")>>
    BY <1>4, NamesOf, Zenon
  <2> HIDE DEF patterns
  <2> QED  BY <2>1 DEF Label, Names, patterns
<1>5. CASE bank = "TestBank"
  <2>1. patterns = <<Label({"de", "desde"}, "telefono")>>
    BY <1>5, NamesOf, Zenon
  <2> HIDE DEF patterns
  <2> QED  BY <2>1 DEF Label, Names, patterns
<1> QED  BY <1>1, <1>2, <1>3, <1>4, <1>5 DEF Bank

\* The reading of a name takes what the first pattern reads that reads anything.
LEMMA FirstReading ==
  ASSUME NEW bank \in Bank, NEW lines
  PROVE  LET patterns == Parsers[bank].names
         IN  IF \E k \in DOMAIN patterns : \E i \in At(patterns[k].labels) :
                  NameAt(i, patterns[k].ends, lines) # "none"
             THEN /\ NameOf(bank, lines) # "none"
                  /\ \E k \in DOMAIN patterns : \E i \in At(patterns[k].labels) :
                       NameOf(bank, lines) = NameAt(i, patterns[k].ends, lines)
             ELSE NameOf(bank, lines) = "none"
<1> DEFINE patterns == Parsers[bank].names
           Read(k) == {NameAt(i, patterns[k].ends, lines) : i \in At(patterns[k].labels)} \ {"none"}
           hits == {k \in DOMAIN patterns : Read(k) # {}}
           first == CHOOSE n \in Read(Min(hits)) : TRUE
<1>1. NameOf(bank, lines) = IF hits = {} THEN "none" ELSE first
  BY DEF NameOf
<1>2. hits \in SUBSET Nat
  BY NamesType
<1>3. CASE hits = {}
  <2>1. NameOf(bank, lines) = "none"
    BY <1>1, <1>3
  <2>2. \A k \in DOMAIN patterns : Read(k) = {}
    BY <1>3
  <2>3. ~ \E k \in DOMAIN patterns : \E i \in At(patterns[k].labels) :
            NameAt(i, patterns[k].ends, lines) # "none"
    BY <2>2
  <2> QED  BY <2>1, <2>3
<1>4. CASE hits # {}
  <2>1. Min(hits) \in hits
    <3> HIDE DEF hits
    <3> QED  BY <1>2, <1>4, LeastOf
  <2>2. Read(Min(hits)) # {} /\ Min(hits) \in DOMAIN patterns
    BY <2>1
  <2>3. NameOf(bank, lines) \in Read(Min(hits))
    <3> HIDE DEF hits, Read
    <3> QED  BY <1>1, <1>4, <2>2
  <2>4. \E i \in At(patterns[Min(hits)].labels) :
          /\ NameOf(bank, lines) = NameAt(i, patterns[Min(hits)].ends, lines)
          /\ NameOf(bank, lines) # "none"
    <3> HIDE DEF hits
    <3> QED  BY <2>3
  <2> HIDE DEF hits
  <2> QED  BY <2>2, <2>4
<1> QED  BY <1>3, <1>4

\* The one name of the text is read by one of the patterns, or by none.
LEMMA OneName ==
  ASSUME BInv, Parsed, NEW i \in At(Names)
  PROVE  LET patterns == Parsers[email.from].names
             Outcome(k) == NameAt(i, patterns[k].ends, email.lines)
             mine == {k \in DOMAIN patterns : text[i].label \in patterns[k].labels}
         IN  IF \A k \in mine : Outcome(k) = "none"
             THEN parsed.name = "none"
             ELSE parsed.name # "none" /\ \E k \in mine : parsed.name = Outcome(k)
<1> DEFINE patterns == Parsers[email.from].names
           mine == {k \in DOMAIN patterns : text[i].label \in patterns[k].labels}
<1>1. email.from \in Bank /\ parsed.name = NameOf(email.from, email.lines)
  BY ParsedByItsBank
<1>2. \A k \in DOMAIN patterns : patterns[k].labels \subseteq Names /\ "bare" \notin patterns[k].labels
  BY <1>1, NamesType DEF Names
<1>3. ASSUME NEW k \in DOMAIN patterns, NEW j
      PROVE  j \in At(patterns[k].labels) <=> j = i /\ k \in mine
  <2> HIDE DEF patterns
  <2>1. j \in At(patterns[k].labels) => j \in At(Names)
    BY <1>2 DEF At
  <2>2. j \in At(patterns[k].labels) => j = i
    BY <2>1 DEF BInv, TextInv
  <2>3. i \in DOMAIN text
    BY DEF At
  <2> QED  BY <1>2, <2>2, <2>3 DEF At
<1> HIDE DEF patterns, mine
<1>4. \A k \in mine : k \in DOMAIN patterns
  BY DEF mine
<1>5. IF \E k \in DOMAIN patterns : \E j \in At(patterns[k].labels) :
           NameAt(j, patterns[k].ends, email.lines) # "none"
      THEN /\ parsed.name # "none"
           /\ \E k \in DOMAIN patterns : \E j \in At(patterns[k].labels) :
                parsed.name = NameAt(j, patterns[k].ends, email.lines)
      ELSE parsed.name = "none"
  BY <1>1, FirstReading DEF patterns
<1>6. IF \E k \in mine : NameAt(i, patterns[k].ends, email.lines) # "none"
      THEN parsed.name # "none" /\ \E k \in mine : parsed.name = NameAt(i, patterns[k].ends, email.lines)
      ELSE parsed.name = "none"
  <2>1. (\E k \in DOMAIN patterns : \E j \in At(patterns[k].labels) :
           NameAt(j, patterns[k].ends, email.lines) # "none")
         <=> \E k \in mine : NameAt(i, patterns[k].ends, email.lines) # "none"
    BY <1>3, <1>4
  <2>2. (\E k \in DOMAIN patterns : \E j \in At(patterns[k].labels) :
           parsed.name = NameAt(j, patterns[k].ends, email.lines))
         => \E k \in mine : parsed.name = NameAt(i, patterns[k].ends, email.lines)
    BY <1>3
  <2> QED  BY <1>5, <2>1, <2>2
<1> QED  BY <1>6 DEF patterns, mine

\* What can come of a name, by any pattern.
LEMMA Outcomes ==
  ASSUME NEW i, NEW lines, NEW ends \in {"paren", "tel", "telefono", "sign", "any"}
  PROVE  LET n == NameAt(i, ends, lines)
         IN  /\ n \in {"none", "exact", "cut", "runs_on"}
             /\ n = "cut" => Marked(i) \/ (ends = "tel" /\ HasTel(i))
             /\ n = "runs_on" => Next(i) \in {"word", "telefono", "tel"}
  BY DEF NameAt, BeforeParen, UpToTel, AfterSign, Lazy, Greedy

\* A name that stands in its bank's documented format, and is spelled with the
\* letters and blanks that the patterns know, is recorded as it is; and no name is
\* recorded in part or with more than the name for any other reason
\* (extractSenderName).
THEOREM NameCorrect == BSpec => []NameIsExact
<1>1. ASSUME BInv, Parsed, NEW i \in At(Names)
      PROVE  /\ parsed.name \in {"none", "exact", "cut", "runs_on"}
             /\ parsed.name = "cut" => Marked(i) \/ (email.from = "BCR" /\ HasTel(i))
             /\ parsed.name = "runs_on" => Next(i) \in {"word", "telefono", "tel"}
  <2> DEFINE patterns == Parsers[email.from].names
  <2>1. email.from \in Bank
    BY <1>1, ParsedByItsBank
  <2>2. parsed.name = "none" \/ \E k \in DOMAIN patterns : parsed.name = NameAt(i, patterns[k].ends, email.lines)
    BY <1>1, OneName
  <2>3. CASE parsed.name = "none"
    BY <2>3
  <2>4. ASSUME NEW k \in DOMAIN patterns, parsed.name = NameAt(i, patterns[k].ends, email.lines)
        PROVE  /\ parsed.name \in {"none", "exact", "cut", "runs_on"}
               /\ parsed.name = "cut" => Marked(i) \/ (email.from = "BCR" /\ HasTel(i))
               /\ parsed.name = "runs_on" => Next(i) \in {"word", "telefono", "tel"}
    <3>1. /\ patterns[k].ends \in {"paren", "tel", "telefono", "sign", "any"}
          /\ patterns[k].ends = "tel" => email.from = "BCR"
      BY <2>1, NamesType
    <3> HIDE DEF patterns
    <3> QED  BY <2>4, <3>1, Outcomes
  <2> QED  BY <2>2, <2>3, <2>4
<1>2. ASSUME BInv, Parsed, NEW i \in At(Names), InFormat(i), ~Marked(i), ~(email.from = "BCR" /\ HasTel(i))
      PROVE  parsed.name # "none"
  <2> DEFINE patterns == Parsers[email.from].names
  <2>1. SUFFICES \E k \in DOMAIN patterns : /\ text[i].label \in patterns[k].labels
                                            /\ NameAt(i, patterns[k].ends, email.lines) # "none"
    BY <1>2, OneName
  <2>2. CASE email.from = "BAC"
    <3>1. patterns = <<Label({"de_word"}, "paren"), Label({"de", "desde"}, "any"), Label({"remitente"}, "any")>>
      BY <2>2, NamesOf, Zenon
    <3>2. text[i].label = "de_word" /\ NameAt(i, "paren", email.lines) = "exact"
      BY <1>2, <2>2 DEF InFormat, NameAt, BeforeParen
    <3> HIDE DEF patterns
    <3> QED  BY <3>1, <3>2 DEF Label
  <2>3. CASE email.from = "BN"
    <3>1. patterns = <<Label({"desde"}, "paren"), Label({"de", "desde"}, "any"), Label({"remitente"}, "any")>>
      BY <2>3, NamesOf, Zenon
    <3>2. text[i].label \in {"de", "desde"} /\ NameAt(i, "any", email.lines) = "exact"
      BY <1>2, <2>3 DEF InFormat, NameAt, Greedy
    <3> HIDE DEF patterns
    <3> QED  BY <3>1, <3>2 DEF Label
  <2>4. CASE email.from = "BCR"
    <3>1. patterns = <<Label({"de", "desde"}, "tel"), Label({"remitente"}, "any"), Label({"enviado_por"}, "any")>>
      BY <2>4, NamesOf, Zenon
    <3>2. text[i].label = "de" /\ NameAt(i, "tel", email.lines) = "exact"
      BY <1>2, <2>4 DEF InFormat, NameAt, UpToTel, Lazy
    <3> HIDE DEF patterns
    <3> QED  BY <3>1, <3>2 DEF Label
  <2> QED  BY <1>2, <2>2, <2>3, <2>4 DEF InFormat
<1>3. ASSUME BInv, Parsed, NEW i \in At(Names), InFormat(i), ~Marked(i), ~(email.from = "BCR" /\ HasTel(i))
      PROVE  parsed.name # "runs_on"
  <2>1. CASE Next(i) = "paren"
    BY <1>1, <1>3, <2>1
  <2>2. CASE email.from = "BCR" /\ text[i].label = "de"
    <3> DEFINE patterns == Parsers[email.from].names
    <3>1. patterns = <<Label({"de", "desde"}, "tel"), Label({"remitente"}, "any"), Label({"enviado_por"}, "any")>>
      BY <2>2, NamesOf, Zenon
    <3>2. \A k \in DOMAIN patterns : text[i].label \in patterns[k].labels => patterns[k].ends = "tel"
      <4> HIDE DEF patterns
      <4> QED  BY <2>2, <3>1 DEF Label
    <3>3. parsed.name = "none" \/ parsed.name = NameAt(i, "tel", email.lines)
      BY <1>3, <3>2, OneName
    <3>4. NameAt(i, "tel", email.lines) # "runs_on"
      BY DEF NameAt, UpToTel, Lazy
    <3> QED  BY <3>3, <3>4
  <2> QED  BY <1>3, <2>1, <2>2 DEF InFormat
<1>4. BInv => NameIsExact
  <2> SUFFICES ASSUME BInv, Parsed, NEW i \in At(Names)
               PROVE  LET spoilt == Marked(i) \/ (email.from = "BCR" /\ HasTel(i))
                      IN  /\ InFormat(i) /\ ~spoilt => parsed.name = "exact"
                          /\ parsed.name = "cut" => spoilt
                          /\ parsed.name = "runs_on" => Next(i) \notin {"paren", "sign", "end"}
    BY DEF NameIsExact
  <2> QED  BY <1>1, <1>2, <1>3
<1> QED  BY <1>4, AlwaysBInv, PTL
=============================================================================
