------------------------------- MODULE SmsText -------------------------------
(***************************************************************************)
(* What becomes of the text of a message: the encoding and the segments    *)
(* that analyze counts (internal/message/message.go), and the line that    *)
(* ConsoleText writes for an emulator's console (internal/devicelab/       *)
(* adb.go).  Both read the body rune by rune; analyze reads it a second    *)
(* time to pack it when it is too long for one segment.                    *)
(*                                                                         *)
(* Beside the packing of the code runs one of somebody who may begin a new *)
(* segment wherever he likes.  The limits are constants: 160 and 153 units *)
(* of GSM-7, 70 and 67 of UTF-16.                                          *)
(***************************************************************************)
EXTENDS Integers, Sequences

CONSTANTS
    Single,   \* units of an unsplit message, by encoding
    Multi,    \* units of a segment of a split one, by encoding
    MaxRunes  \* bound: runes of a body

Encoding == {"GSM-7", "UTF-16"}

ASSUME SmsTextAssumption ==
    /\ Single \in [Encoding -> Nat] /\ Multi \in [Encoding -> Nat]
    /\ \A e \in Encoding : 2 <= Multi[e] /\ Multi[e] <= Single[e]
    /\ MaxRunes \in Nat

\* One rune of each kind the code tells apart: "n" any other ASCII character, "cr" a control
\* character, "eacute" of the basic table, "euro" of the extension table, "han" of neither,
\* "smile" outside the basic plane.
Rune == {"n", "backslash", "newline", "cr", "eacute", "euro", "han", "smile"}
Basic == {"n", "newline", "cr", "eacute"}
Extension == {"backslash", "euro"}
Ascii == {"n", "backslash", "newline", "cr"}

\* What a console line is made of; "high", "low" and non-ASCII runes are four hexadecimal digits.
Token == Rune \cup {"u", "high", "low"}

VARIABLES
    body,       \* the runes read
    forced,     \* AnalyzeUnicode
    pc,         \* "read", "pack" or "done"
    encoding, gsm, utf16,   \* the first loop: the encoding, the units in either
    sums,       \* history: those units after each rune
    segments,   \* segments begun
    used,       \* units in the last of them
    packed,     \* history: units in all of them
    other,      \* the other packing: its segments and the units in its last one
    at,         \* the second loop: the next rune
    line,       \* the text for the console
    text,       \* history: the body in UTF-16
    heard       \* what the emulator's console has made of the line

console == <<line, text, heard>>
vars == <<body, forced, pc, encoding, gsm, utf16, sums, segments, used, packed, other, at,
          console>>

Count == [gsm : Nat, utf16 : Nat]
Packing == [segments : Nat, used : Nat]

\* The console after some symbols of the line: the text of the message so far, and whether
\* an escape is open or the command has ended.
Hearing == [text : Seq(Token), mode : {"plain", "escape", "digits", "over"}]

TypeOK ==
    /\ body \in Seq(Rune)
    /\ forced \in BOOLEAN
    /\ pc \in {"read", "pack", "done"}
    /\ encoding \in Encoding
    /\ gsm \in Nat /\ utf16 \in Nat /\ sums \in Seq(Count)
    /\ segments \in Nat /\ used \in Nat /\ packed \in Nat
    /\ other \in Packing
    /\ at \in 1..Len(body) + 1
    /\ line \in Seq(Token) /\ text \in Seq(Token)
    /\ heard \in Hearing

Init ==
    /\ body = <<>> /\ forced \in BOOLEAN /\ pc = "read"
    /\ encoding = "GSM-7" /\ gsm = 0 /\ utf16 = 0 /\ sums = <<>>
    /\ segments = 0 /\ used = 0 /\ packed = 0
    /\ other = [segments |-> 0, used |-> 0]
    /\ at = 1
    /\ line = <<>> /\ text = <<>> /\ heard = [text |-> <<>>, mode |-> "plain"]

-----------------------------------------------------------------------------
(* The first loop, and the console.                                        *)

\* The UTF-16 code units of a rune.
CodeUnits(r) == IF r = "smile" THEN <<"high", "low">> ELSE <<r>>

\* Mutant: backslashes are ASCII like any other.
MutantEscaped(r) ==
    CASE r = "newline" -> <<"backslash", "n">>
      [] r \in Ascii \ {"newline"} -> <<r>>
      [] r = "smile" -> <<"backslash", "u", "high", "backslash", "u", "low">>
      [] OTHER -> <<"backslash", "u", r>>

\* ConsoleText, of one rune.
Escaped(r) ==
    CASE r = "backslash" -> <<"backslash", "backslash">>
      [] r = "newline" -> <<"backslash", "n">>
      [] r \in Ascii \ {"backslash", "newline"} -> <<r>>
      [] r = "smile" -> <<"backslash", "u", "high", "backslash", "u", "low">>
      [] OTHER -> <<"backslash", "u", r>>

\* The emulator's end, one symbol.  `\\', `\n' and `\u' are the escapes it knows, a control
\* character ends the command, and what is outside the basic plane loses its first half
\* (the comment of ConsoleText).
ModeAfter(mode, x) ==
    IF mode = "plain" /\ x = "backslash" THEN "escape"
    ELSE IF mode = "plain" /\ x \in {"newline", "cr"} THEN "over"
    ELSE IF mode = "escape" /\ x = "u" THEN "digits"
    ELSE IF mode = "over" THEN "over"
    ELSE "plain"

Meaning(mode, x) ==
    IF mode = "escape" /\ x = "n" THEN "newline"
    ELSE IF mode = "plain" /\ x = "smile" THEN "low"
    ELSE x

\* A symbol that leaves no escape open is a unit of the text.
Takes(h, x) ==
    LET mode == ModeAfter(h.mode, x)
    IN  [text |-> IF mode = "plain" THEN Append(h.text, Meaning(h.mode, x)) ELSE h.text,
         mode |-> mode]

\* One symbol after the other.
Hears(h, symbols) ==
    LET after[k \in 0..Len(symbols)] == IF k = 0 THEN h ELSE Takes(after[k - 1], symbols[k])
    IN  after[Len(symbols)]

GsmUnits(r) == IF r \in Basic THEN 1 ELSE IF r \in Extension THEN 2 ELSE 0

Read(r) ==
    /\ pc = "read" /\ Len(body) < MaxRunes
    /\ body' = Append(body, r)
    /\ gsm' = gsm + GsmUnits(r)
    /\ utf16' = utf16 + Len(CodeUnits(r))
    /\ sums' = Append(sums, [gsm |-> gsm', utf16 |-> utf16'])
    /\ encoding' = IF r \in Basic \cup Extension THEN encoding ELSE "UTF-16"
    /\ line' = line \o Escaped(r)
    /\ text' = text \o CodeUnits(r)
    /\ heard' = Hears(heard, Escaped(r))
    /\ UNCHANGED <<forced, pc, segments, used, packed, other, at>>

\* Units: those of the second alphabet are counted when the first is given up.
Units == IF encoding = "UTF-16" THEN utf16 ELSE gsm

\* The end of the first loop: the alphabet is decided, and whether there is a second loop.
Decide ==
    LET e == IF forced THEN "UTF-16" ELSE encoding
        n == IF e = "UTF-16" THEN utf16 ELSE gsm
    IN  /\ pc = "read"
        /\ encoding' = e
        /\ segments' = IF n > 0 THEN 1 ELSE 0
        /\ IF n > Single[e]
           THEN pc' = "pack" /\ other' = [segments |-> 1, used |-> 0]
           ELSE pc' = "done" /\ UNCHANGED other
        /\ UNCHANGED <<body, forced, gsm, utf16, sums, used, packed, at, console>>

-----------------------------------------------------------------------------
(* The second loop.                                                        *)

Width(r) ==
    IF (encoding = "GSM-7" /\ r \in Extension) \/ (encoding = "UTF-16" /\ r = "smile")
    THEN 2 ELSE 1

\* Mutant: a segment is never filled up.
MutantFull(w) == used + w >= Multi[encoding]

\* The next rune does not fit.
Full(w) == used + w > Multi[encoding]

\* The other packing takes a rune of w units, in a new segment or, if it fits, in its last.
OtherTakes(w) ==
    \/ /\ other.used + w <= Multi[encoding]
       /\ other' = [other EXCEPT !.used = @ + w]
    \/ other' = [segments |-> other.segments + 1, used |-> w]

Pack ==
    LET w == Width(body[at]) IN
    /\ pc = "pack" /\ at <= Len(body)
    /\ segments' = IF Full(w) THEN segments + 1 ELSE segments
    /\ used' = IF Full(w) THEN w ELSE used + w
    /\ packed' = packed + w
    /\ OtherTakes(w)
    /\ at' = at + 1
    /\ UNCHANGED <<body, forced, pc, encoding, gsm, utf16, sums, console>>

Packed ==
    /\ pc = "pack" /\ at > Len(body)
    /\ pc' = "done"
    /\ UNCHANGED <<body, forced, encoding, gsm, utf16, sums, segments, used, packed, other, at,
                   console>>

Next == (\E r \in Rune : Read(r)) \/ Decide \/ Pack \/ Packed

Spec == Init /\ [][Next]_vars

-----------------------------------------------------------------------------
(* What must hold.                                                         *)

\* A message that does not fit one segment is counted in the fewest segments that hold its
\* runes whole: every unit of the first count is packed, in at least two segments, none
\* overfull, and nobody could do with fewer (analyze, its comment at message.go:174).
FewestSegments ==
    /\ used <= Multi[encoding]
    /\ pc = "done" /\ Units > Single[encoding] =>
          /\ packed = Units
          /\ 2 <= segments /\ segments <= other.segments

\* The units of the first k runes.
Gsm(k) == IF k = 0 THEN 0 ELSE sums[k].gsm
Utf16(k) == IF k = 0 THEN 0 ELSE sums[k].utf16

\* The counts add up, rune by rune.
CountsAdd ==
    /\ Len(sums) = Len(body)
    /\ \A k \in 1..Len(body) : /\ Gsm(k) = Gsm(k - 1) + GsmUnits(body[k])
                               /\ Utf16(k) = Utf16(k - 1) + Len(CodeUnits(body[k]))
    /\ Gsm(Len(body)) = gsm /\ Utf16(Len(body)) = utf16
    /\ encoding = "GSM-7" => \A k \in 1..Len(body) : body[k] \in Basic \cup Extension

\* The code is never behind the other packing: it has begun no more segments, and if as
\* many, its last one is not fuller.
Ahead ==
    /\ used <= Multi[encoding]
    /\ pc = "read" => used = 0 /\ packed = 0 /\ segments = 0 /\ at = 1
    /\ pc = "done" /\ Units > Single[encoding] => at = Len(body) + 1
    /\ pc = "pack" \/ (pc = "done" /\ Units > Single[encoding]) =>
          /\ Units > Single[encoding]
          /\ packed = IF encoding = "UTF-16" THEN Utf16(at - 1) ELSE Gsm(at - 1)
          /\ segments >= 1 /\ (segments = 1 => packed = used)
          /\ \/ segments < other.segments
             \/ segments = other.segments /\ used <= other.used

\* ValidateBody lets no control character but the line feed pass.
Refused == "cr" \in {body[k] : k \in 1..Len(body)}

\* The emulator receives the text that was sent, and no line break of it ends the command
\* (ConsoleText; docs/DEVICE-LAB.md:63-66).
ConsoleFaithful ==
    ~ Refused =>
        /\ heard = [text |-> text, mode |-> "plain"]
        /\ \A k \in 1..Len(line) : line[k] # "newline"

\* The inductive invariant.
Inv == TypeOK /\ CountsAdd /\ Ahead /\ ConsoleFaithful
=============================================================================
