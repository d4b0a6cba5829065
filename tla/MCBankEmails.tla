---------------------------- MODULE MCBankEmails ----------------------------
(***************************************************************************)
(* An instance of BankEmails for TLC: of labels that all patterns treat    *)
(* alike, one.                                                             *)
(***************************************************************************)
EXTENDS BankEmails

DistinctLabels ==
  Amounts \cup {"referencia", "comprobante", "codigo", "bare"} \cup Phones \cup {"24h"}
    \cup {"de_word", "desde", "de", "remitente"}
=============================================================================
