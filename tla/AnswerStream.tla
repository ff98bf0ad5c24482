---------------------------- MODULE AnswerStream -----------------------------
(* _AnswerDeltaDecoder: the text of "answer" is decoded from a JSON reply    *)
(* that arrives in arbitrary pieces, so that it can be shown while the rest  *)
(* of the object is still being generated.  The reply is modelled from the   *)
(* opening quote of the value on, over an alphabet with one letter, an       *)
(* escape that the letter n completes, and a code point of HexDigits digits  *)
(* ("0" is the digit) instead of four.                                       *)
EXTENDS Integers, Sequences, SequencesExt

CONSTANTS MaxReply, HexDigits

VARIABLES
  reply,     \* the reply received so far
  decoder,   \* encoded, decoded_length, finished
  shown      \* the text emitted so far

streamVars == <<reply, decoder, shown>>

Symbols == {"n", "0", "u", "quote", "backslash"}

StreamInit ==
  /\ reply = <<>> /\ shown = <<>>
  /\ decoder = [cursor |-> 0, encoded |-> <<>>, length |-> 0, finished |-> FALSE]

\* mutant: a quote after a backslash is always taken as escaped
EscapedByLast(encoded) == encoded # <<>> /\ Last(encoded) = "backslash"
QuoteIsEscaped(encoded) ==
  LET run[k \in 0 .. Len(encoded)] ==
        IF k > 0 /\ encoded[k] = "backslash" THEN 1 + run[k - 1] ELSE 0
  IN run[Len(encoded)] % 2 = 1

\* The while loop of feed: it copies up to the closing quote.
Copied(source, d) ==
  LET from[k \in d.cursor .. Len(source)] ==
        IF k = d.cursor THEN [d EXCEPT !.cursor = k]
        ELSE LET before == from[k - 1]
             IN IF before.finished THEN before
                ELSE IF source[k] = "quote" /\ ~QuoteIsEscaped(before.encoded)
                     THEN [before EXCEPT !.finished = TRUE]
                     ELSE [before EXCEPT !.encoded = Append(@, source[k]), !.cursor = k]
  IN from[Len(source)]

Digits(encoded, i) == SubSeq(encoded, i + 2, i + 1 + HexDigits)
CodePointAt(encoded, i) ==
  Len(encoded) >= i + 1 + HexDigits /\ \A j \in 1 .. HexDigits : Digits(encoded, i)[j] = "0"
Replacement == [n |-> "newline", quote |-> "quote", backslash |-> "backslash"]

\* _decode_complete_prefix: an escape that is incomplete or unknown ends it.
DecodeCompletePrefix(encoded) ==
  LET decode[i \in 1 .. Len(encoded) + HexDigits + 2] ==
        IF i > Len(encoded) THEN <<>>
        ELSE IF encoded[i] # "backslash" THEN <<encoded[i]>> \o decode[i + 1]
        ELSE IF i = Len(encoded) THEN <<>>
        ELSE IF encoded[i + 1] = "u"
             THEN IF CodePointAt(encoded, i) THEN <<"point">> \o decode[i + 2 + HexDigits] ELSE <<>>
        ELSE IF encoded[i + 1] \in DOMAIN Replacement
             THEN <<Replacement[encoded[i + 1]]>> \o decode[i + 2]
        ELSE <<>>
  IN decode[1]

Feed(delta) ==
  /\ ~decoder.finished
  /\ reply' = reply \o delta
  /\ LET copied == Copied(reply', decoder)
         decoded == DecodeCompletePrefix(copied.encoded)
     IN /\ shown' = shown \o SubSeq(decoded, copied.length + 1, Len(decoded))
        /\ decoder' = [copied EXCEPT !.length = Len(decoded)]

StreamNext == \E delta \in SeqOf(Symbols, MaxReply - Len(reply)) \ {<<>>} : Feed(delta)

StreamSpec == StreamInit /\ [][StreamNext]_streamVars

-----------------------------------------------------------------------------
(* The reference: JSON's own reading of a string, one symbol at a time.      *)
StartOfText == [mode |-> "text", digits |-> 0, text |-> <<>>]

ReadText(r, c) ==
  IF c = "quote" THEN [r EXCEPT !.mode = "closed"]
  ELSE IF c = "backslash" THEN [r EXCEPT !.mode = "escape"]
  ELSE [r EXCEPT !.text = Append(@, c)]

ReadEscape(r, c) ==
  IF c = "u" THEN [r EXCEPT !.mode = "digits", !.digits = 0]
  ELSE IF c \in DOMAIN Replacement THEN [r EXCEPT !.mode = "text", !.text = Append(@, Replacement[c])]
  ELSE [r EXCEPT !.mode = "invalid"]

ReadDigit(r, c) ==
  IF c # "0" THEN [r EXCEPT !.mode = "invalid"]
  ELSE IF r.digits + 1 < HexDigits THEN [r EXCEPT !.digits = @ + 1]
  ELSE [r EXCEPT !.mode = "text", !.text = Append(@, "point")]

ReadOn(r, c) ==
  CASE r.mode = "text" -> ReadText(r, c)
    [] r.mode = "escape" -> ReadEscape(r, c)
    [] r.mode = "digits" -> ReadDigit(r, c)
    [] OTHER -> r

\* What has been read after each symbol of s.
Reading(s) == LET read[k \in 0 .. Len(s)] == IF k = 0 THEN StartOfText ELSE ReadOn(read[k - 1], s[k])
              IN read

Read(s) == Reading(s)[Len(s)]

\* feed: whichever way the reply is cut into pieces, what has been shown is
\* what a JSON reader makes of the reply so far, and the decoder stops exactly
\* at the quote that closes the value, for every reply that is valid so far.
ShownIsTheAnswer ==
  LET read == Read(reply)
  IN read.mode # "invalid" =>
       shown = read.text /\ (decoder.finished <=> read.mode = "closed")
=============================================================================
