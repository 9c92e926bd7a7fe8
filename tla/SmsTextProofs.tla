---------------------------- MODULE SmsTextProofs ----------------------------
(***************************************************************************)
(* Proofs about SmsText, for bodies of every length and all limits: the    *)
(* packing of analyze is a packing, no other needs fewer segments, and an  *)
(* emulator's console receives the text that was sent.                     *)
(***************************************************************************)
EXTENDS SmsText, SequenceTheorems, TLAPS

\* Widths are the counts of the encoding that was decided on.
LEMMA Widths ==
    /\ \A r \in Rune : /\ CodeUnits(r) \in Seq(Token)
                       /\ Len(CodeUnits(r)) \in {1, 2}
                       /\ Escaped(r) \in Seq(Token)
                       /\ GsmUnits(r) \in {0, 1, 2} /\ Width(r) \in {1, 2}
    /\ encoding = "UTF-16" => \A r \in Rune : Width(r) = Len(CodeUnits(r))
    /\ encoding = "GSM-7" => \A r \in Basic \cup Extension : Width(r) = GsmUnits(r)
  <1>1. \A r \in Rune : CodeUnits(r) \in Seq(Token)
    <2> SUFFICES ASSUME NEW r \in Rune PROVE CodeUnits(r) \in Seq(Token)
      OBVIOUS
    <2>1. <<"high", "low">> \in Seq(Token) /\ <<r>> \in Seq(Token)
      BY DEF Token
    <2>2. QED
      BY <2>1 DEF CodeUnits
  <1>2. \A r \in Rune : Len(CodeUnits(r)) = IF r = "smile" THEN 2 ELSE 1
    BY DEF CodeUnits
  <1>3. \A r \in Rune : Escaped(r) \in Seq(Token)
    <2> SUFFICES ASSUME NEW r \in Rune PROVE Escaped(r) \in Seq(Token)
      OBVIOUS
    <2>1. CASE r = "backslash"
      BY <2>1 DEF Escaped, Token, Rune
    <2>2. CASE r = "newline"
      BY <2>2 DEF Escaped, Token, Rune
    <2>3. CASE r \in Ascii \ {"backslash", "newline"}
      <3>1. r # "backslash" /\ r # "newline" /\ r # "smile"
        BY <2>3 DEF Ascii
      <3>2. Escaped(r) = <<r>>
        BY <2>3, <3>1 DEF Escaped
      <3>3. QED
        BY <3>2 DEF Token
    <2>4. CASE r = "smile"
      BY <2>4 DEF Escaped, Token, Rune, Ascii
    <2>5. CASE r \notin Ascii /\ r # "smile"
      <3>1. Escaped(r) = <<"backslash", "u", r>>
        BY <2>5 DEF Escaped, Ascii
      <3>2. QED
        BY <3>1 DEF Token, Rune
    <2>6. QED
      BY <2>1, <2>2, <2>3, <2>4, <2>5 DEF Ascii
  <1>4. \A r \in Rune : GsmUnits(r) \in {0, 1, 2} /\ Width(r) \in {1, 2}
    BY DEF GsmUnits, Width
  <1>5. encoding = "UTF-16" => \A r \in Rune : Width(r) = Len(CodeUnits(r))
    BY <1>2 DEF Width
  <1>6. encoding = "GSM-7" => \A r \in Basic \cup Extension : Width(r) = GsmUnits(r)
    BY DEF Width, GsmUnits, Basic, Extension
  <1>7. QED
    BY <1>1, <1>2, <1>3, <1>4, <1>5, <1>6

\* Hears is what it says, for the lengths an escape can have: each state of the console comes
\* from the one before.
LEMMA HearsOneByOne ==
    ASSUME NEW h, NEW s, NEW n \in 1..6, Len(s) = n
    PROVE  \E after : /\ after[0] = h /\ Hears(h, s) = after[n]
                      /\ \A k \in 1..n : after[k] = Takes(after[k - 1], s[k])
  <1> DEFINE h1 == Takes(h, s[1])
             h2 == Takes(h1, s[2])
             h3 == Takes(h2, s[3])
             h4 == Takes(h3, s[4])
             h5 == Takes(h4, s[5])
             h6 == Takes(h5, s[6])
             after == [k \in 0..n |->
                          IF k = 0 THEN h ELSE IF k = 1 THEN h1 ELSE IF k = 2 THEN h2
                          ELSE IF k = 3 THEN h3 ELSE IF k = 4 THEN h4
                          ELSE IF k = 5 THEN h5 ELSE h6]
             Run(f) == f = [k \in 0..n |-> IF k = 0 THEN h ELSE Takes(f[k - 1], s[k])]
  <1>1. Run(after)
    <2>1. ASSUME NEW k \in 0..n
          PROVE  after[k] = IF k = 0 THEN h ELSE Takes(after[k - 1], s[k])
      <3>1. k \in 0..6
        OBVIOUS
      <3>2. QED
        BY <3>1
    <2>2. QED
      BY <2>1
  <1> DEFINE run == CHOOSE f : Run(f)
  <1>2. Run(run)
    BY <1>1
  <1>3. Hears(h, s) = run[n]
    BY DEF Hears
  <1> HIDE DEF run, after
  <1>4. run[0] = h /\ \A k \in 1..n : run[k] = Takes(run[k - 1], s[k])
    BY <1>2
  <1>5. QED
    BY <1>3, <1>4

LEMMA TakesTyped ==
    ASSUME NEW h \in Hearing, NEW x \in Token
    PROVE  Takes(h, x) \in Hearing
  <1>1. /\ ModeAfter(h.mode, x) \in {"plain", "escape", "digits", "over"}
        /\ Meaning(h.mode, x) \in Token /\ h.text \in Seq(Token)
    BY DEF Hearing, ModeAfter, Meaning, Token, Rune
  <1>2. Append(h.text, Meaning(h.mode, x)) \in Seq(Token)
    BY <1>1
  <1>3. QED
    BY <1>1, <1>2 DEF Takes, Hearing

LEMMA HearsShort ==
    ASSUME NEW h
    PROVE  /\ \A a : Hears(h, <<a>>) = Takes(h, a)
           /\ \A a, b : Hears(h, <<a, b>>) = Takes(Takes(h, a), b)
           /\ \A a, b, c : Hears(h, <<a, b, c>>) = Takes(Takes(Takes(h, a), b), c)
           /\ \A a, b, c, d, e, f : Hears(h, <<a, b, c, d, e, f>>)
                 = Takes(Takes(Takes(Takes(Takes(Takes(h, a), b), c), d), e), f)
  <1>1. ASSUME NEW a
        PROVE  Hears(h, <<a>>) = Takes(h, a)
    <2> DEFINE s == <<a>>
    <2>1. Len(s) = 1 /\ s[1] = a
      OBVIOUS
    <2> HIDE DEF s
    <2>2. 1 \in 1..6
      OBVIOUS
    <2>3. PICK after : /\ after[0] = h /\ Hears(h, s) = after[1]
                       /\ \A k \in 1..1 : after[k] = Takes(after[k - 1], s[k])
      BY <2>1, <2>2, HearsOneByOne
    <2>4. after[1] = Takes(h, a)
      BY <2>1, <2>3
    <2>5. QED
      BY <2>3, <2>4 DEF s
  <1>2. ASSUME NEW a, NEW b
        PROVE  Hears(h, <<a, b>>) = Takes(Takes(h, a), b)
    <2> DEFINE s == <<a, b>>
    <2>1. Len(s) = 2 /\ s[1] = a /\ s[2] = b
      OBVIOUS
    <2> HIDE DEF s
    <2>2. 2 \in 1..6
      OBVIOUS
    <2>3. PICK after : /\ after[0] = h /\ Hears(h, s) = after[2]
                       /\ \A k \in 1..2 : after[k] = Takes(after[k - 1], s[k])
      BY <2>1, <2>2, HearsOneByOne
    <2>4. after[1] = Takes(h, a) /\ after[2] = Takes(after[1], b)
      BY <2>1, <2>3
    <2>5. QED
      BY <2>3, <2>4 DEF s
  <1>3. ASSUME NEW a, NEW b, NEW c
        PROVE  Hears(h, <<a, b, c>>) = Takes(Takes(Takes(h, a), b), c)
    <2> DEFINE s == <<a, b, c>>
    <2>1. Len(s) = 3 /\ s[1] = a /\ s[2] = b /\ s[3] = c
      OBVIOUS
    <2> HIDE DEF s
    <2>2. 3 \in 1..6
      OBVIOUS
    <2>3. PICK after : /\ after[0] = h /\ Hears(h, s) = after[3]
                       /\ \A k \in 1..3 : after[k] = Takes(after[k - 1], s[k])
      BY <2>1, <2>2, HearsOneByOne
    <2>4. /\ after[1] = Takes(h, a) /\ after[2] = Takes(after[1], b)
          /\ after[3] = Takes(after[2], c)
      BY <2>1, <2>3
    <2>5. QED
      BY <2>3, <2>4 DEF s
  <1>4. ASSUME NEW a, NEW b, NEW c, NEW d, NEW e, NEW f
        PROVE  Hears(h, <<a, b, c, d, e, f>>)
                 = Takes(Takes(Takes(Takes(Takes(Takes(h, a), b), c), d), e), f)
    <2> DEFINE s == <<a, b, c, d, e, f>>
    <2>1. /\ Len(s) = 6 /\ s[1] = a /\ s[2] = b /\ s[3] = c
          /\ s[4] = d /\ s[5] = e /\ s[6] = f
      OBVIOUS
    <2> HIDE DEF s
    <2>2. 6 \in 1..6
      OBVIOUS
    <2>3. PICK after : /\ after[0] = h /\ Hears(h, s) = after[6]
                       /\ \A k \in 1..6 : after[k] = Takes(after[k - 1], s[k])
      BY <2>1, <2>2, HearsOneByOne
    <2>4. /\ after[1] = Takes(h, a) /\ after[2] = Takes(after[1], b)
          /\ after[3] = Takes(after[2], c) /\ after[4] = Takes(after[3], d)
          /\ after[5] = Takes(after[4], e) /\ after[6] = Takes(after[5], f)
      BY <2>1, <2>3
    <2>5. QED
      BY <2>3, <2>4 DEF s
  <1>5. QED
    BY <1>1, <1>2, <1>3, <1>4

\* Whatever the console has heard, an escape leaves it in one of its states.
LEMMA HearsTyped ==
    ASSUME NEW h \in Hearing, NEW r \in Rune
    PROVE  Hears(h, Escaped(r)) \in Hearing
  <1>1. {r, "backslash", "n", "u", "high", "low"} \subseteq Token
    BY DEF Token, Rune
  <1>2. \/ Escaped(r) = <<"backslash", "backslash">>
        \/ Escaped(r) = <<"backslash", "n">>
        \/ Escaped(r) = <<r>>
        \/ Escaped(r) = <<"backslash", "u", "high", "backslash", "u", "low">>
        \/ Escaped(r) = <<"backslash", "u", r>>
    BY DEF Escaped, Rune, Ascii
  <1>3. ASSUME NEW a \in Token
        PROVE  Hears(h, <<a>>) \in Hearing
    BY HearsShort, TakesTyped
  <1>4. ASSUME NEW a \in Token, NEW b \in Token
        PROVE  Hears(h, <<a, b>>) \in Hearing
    <2>1. Takes(h, a) \in Hearing
      BY TakesTyped
    <2>2. Takes(Takes(h, a), b) \in Hearing
      BY <2>1, TakesTyped
    <2>3. QED
      BY <2>2, HearsShort
  <1>5. ASSUME NEW g \in Hearing, NEW a \in Token, NEW b \in Token, NEW c \in Token
        PROVE  Takes(Takes(Takes(g, a), b), c) \in Hearing
    <2>1. Takes(g, a) \in Hearing
      BY TakesTyped
    <2>2. Takes(Takes(g, a), b) \in Hearing
      BY <2>1, TakesTyped
    <2>3. QED
      BY <2>2, TakesTyped
  <1>6. ASSUME NEW a \in Token, NEW b \in Token, NEW c \in Token,
               NEW d \in Token, NEW e \in Token, NEW f \in Token
        PROVE  /\ Hears(h, <<a, b, c>>) \in Hearing
               /\ Hears(h, <<a, b, c, d, e, f>>) \in Hearing
    <2>1. Takes(Takes(Takes(h, a), b), c) \in Hearing
      BY <1>5
    <2>2. Takes(Takes(Takes(Takes(Takes(Takes(h, a), b), c), d), e), f) \in Hearing
      BY <1>5, <2>1
    <2>3. QED
      BY <2>1, <2>2, HearsShort
  <1>7. QED
    BY <1>1, <1>2, <1>3, <1>4, <1>6

\* What the console makes of an escape is the rune.
LEMMA HeardRight ==
    ASSUME NEW t \in Seq(Token), NEW r \in Rune \ {"cr"}
    PROVE  Hears([text |-> t, mode |-> "plain"], Escaped(r))
              = [text |-> t \o CodeUnits(r), mode |-> "plain"]
  <1> DEFINE Plain(u) == [text |-> u, mode |-> "plain"]
             Escape(u) == [text |-> u, mode |-> "escape"]
             Digits(u) == [text |-> u, mode |-> "digits"]
  <1>1. ASSUME NEW u \in Seq(Token)
        PROVE  /\ Takes(Plain(u), "backslash") = Escape(u)
               /\ Takes(Plain(u), "n") = Plain(Append(u, "n"))
               /\ Takes(Escape(u), "u") = Digits(u)
               /\ Takes(Escape(u), "n") = Plain(Append(u, "newline"))
               /\ Takes(Escape(u), "backslash") = Plain(Append(u, "backslash"))
               /\ \A x \in Token : Takes(Digits(u), x) = Plain(Append(u, x))
    <2>1. /\ ModeAfter("plain", "backslash") = "escape" /\ ModeAfter("plain", "n") = "plain"
          /\ ModeAfter("escape", "u") = "digits" /\ ModeAfter("escape", "n") = "plain"
          /\ ModeAfter("escape", "backslash") = "plain"
          /\ \A x \in Token : ModeAfter("digits", x) = "plain"
      BY DEF ModeAfter
    <2>2. /\ Meaning("plain", "n") = "n" /\ Meaning("escape", "n") = "newline"
          /\ Meaning("escape", "backslash") = "backslash"
          /\ \A x \in Token : Meaning("digits", x) = x
      BY DEF Meaning
    <2>3. \A m, x : Takes([text |-> u, mode |-> m], x)
                      = [text |-> IF ModeAfter(m, x) = "plain" THEN Append(u, Meaning(m, x)) ELSE u,
                         mode |-> ModeAfter(m, x)]
      BY DEF Takes
    <2>4. Takes(Plain(u), "backslash") = Escape(u) /\ Takes(Escape(u), "u") = Digits(u)
      BY <2>1, <2>3
    <2>5. Takes(Plain(u), "n") = Plain(Append(u, "n"))
      BY <2>1, <2>2, <2>3
    <2>6. /\ Takes(Escape(u), "n") = Plain(Append(u, "newline"))
          /\ Takes(Escape(u), "backslash") = Plain(Append(u, "backslash"))
      BY <2>1, <2>2, <2>3
    <2>7. \A x \in Token : Takes(Digits(u), x) = Plain(Append(u, x))
      BY <2>1, <2>2, <2>3
    <2>8. QED
      BY <2>4, <2>5, <2>6, <2>7
  <1>2. \A x \in Token : Append(t, x) = t \o <<x>> /\ Append(t, x) \in Seq(Token)
    OBVIOUS
  <1> HIDE DEF Plain, Escape, Digits
  <1>3. CASE r = "backslash"
    <2>1. Escaped(r) = <<"backslash", "backslash">> /\ CodeUnits(r) = <<r>> /\ r \in Token
      BY <1>3 DEF Escaped, CodeUnits, Ascii, Token
    <2>2. Hears(Plain(t), Escaped(r)) = Plain(Append(t, r))
      BY <1>1, <1>3, <2>1, HearsShort
    <2>3. QED
      BY <1>2, <2>1, <2>2 DEF Plain
  <1>4. CASE r = "newline"
    <2>1. Escaped(r) = <<"backslash", "n">> /\ CodeUnits(r) = <<r>> /\ r \in Token
      BY <1>4 DEF Escaped, CodeUnits, Ascii, Token
    <2>2. Hears(Plain(t), Escaped(r)) = Plain(Append(t, r))
      BY <1>1, <1>4, <2>1, HearsShort
    <2>3. QED
      BY <1>2, <2>1, <2>2 DEF Plain
  <1>5. CASE r = "n"
    <2>1. Escaped(r) = <<r>> /\ CodeUnits(r) = <<r>> /\ r \in Token
      BY <1>5 DEF Escaped, CodeUnits, Ascii, Token
    <2>2. Hears(Plain(t), Escaped(r)) = Plain(Append(t, r))
      BY <1>1, <1>5, <2>1, HearsShort
    <2>3. QED
      BY <1>2, <2>1, <2>2 DEF Plain
  <1>6. CASE r \in {"eacute", "euro", "han"}
    <2>1. Escaped(r) = <<"backslash", "u", r>> /\ CodeUnits(r) = <<r>> /\ r \in Token
      BY <1>6 DEF Escaped, CodeUnits, Ascii, Token
    <2>2. Hears(Plain(t), Escaped(r)) = Plain(Append(t, r))
      BY <1>1, <2>1, HearsShort
    <2>3. QED
      BY <1>2, <2>1, <2>2 DEF Plain
  <1>7. CASE r = "smile"
    <2>1. /\ Escaped(r) = <<"backslash", "u", "high", "backslash", "u", "low">>
          /\ CodeUnits(r) = <<"high", "low">> /\ {"high", "low"} \subseteq Token
      BY <1>7 DEF Escaped, CodeUnits, Ascii, Token
    <2>2. Takes(Takes(Takes(Plain(t), "backslash"), "u"), "high") = Plain(Append(t, "high"))
      BY <1>1, <2>1
    <2>3. Takes(Takes(Takes(Plain(Append(t, "high")), "backslash"), "u"), "low")
             = Plain(Append(Append(t, "high"), "low"))
      <3>1. Append(t, "high") \in Seq(Token) /\ "low" \in Token
        BY <1>2, <2>1
      <3>2. Takes(Plain(Append(t, "high")), "backslash") = Escape(Append(t, "high"))
        BY <1>1, <3>1
      <3>3. Takes(Escape(Append(t, "high")), "u") = Digits(Append(t, "high"))
        BY <1>1, <3>1
      <3>4. QED
        BY <1>1, <3>1, <3>2, <3>3
    <2>4. Hears(Plain(t), Escaped(r)) = Plain(Append(Append(t, "high"), "low"))
      BY <2>1, <2>2, <2>3, HearsShort
    <2>5. Append(Append(t, "high"), "low") = t \o <<"high", "low">>
      <3> DEFINE p == Append(Append(t, "high"), "low")
                 q == t \o <<"high", "low">>
      <3>1. p \in Seq(Token) /\ q \in Seq(Token)
        BY <2>1
      <3>2. Len(p) = Len(t) + 2 /\ Len(q) = Len(t) + 2
        BY <2>1
      <3>3. ASSUME NEW i \in 1..Len(t) + 2
            PROVE  p[i] = q[i]
        BY <2>1
      <3>4. QED
        BY <3>1, <3>2, <3>3, SeqEqual
    <2>6. QED
      BY <2>1, <2>4, <2>5 DEF Plain
  <1>8. QED
    BY <1>3, <1>4, <1>5, <1>6, <1>7 DEF Rune

LEMMA InitInv == Init => Inv
  <1> SUFFICES ASSUME Init PROVE Inv
    OBVIOUS
  <1>1. TypeOK /\ CountsAdd /\ Ahead
    BY SmsTextAssumption DEF Init, TypeOK, CountsAdd, Gsm, Utf16, Ahead, Encoding, Packing, Units,
       Hearing
  <1>2. ConsoleFaithful
    BY DEF Init, ConsoleFaithful
  <1>3. QED
    BY <1>1, <1>2 DEF Inv

\* Reading a rune that ValidateBody lets pass adds the rune to what the console hears, and no
\* line break to the line.
LEMMA ReadFaithful ==
    ASSUME Inv, NEW r \in Rune, Read(r)
    PROVE  ConsoleFaithful'
  <1> SUFFICES ASSUME ~ Refused'
               PROVE  /\ heard' = [text |-> text', mode |-> "plain"]
                      /\ \A k \in 1..Len(line') : line'[k] # "newline"
    BY DEF ConsoleFaithful
  <1>1. /\ body' = Append(body, r) /\ line' = line \o Escaped(r)
        /\ text' = text \o CodeUnits(r) /\ heard' = Hears(heard, Escaped(r))
        /\ body \in Seq(Rune) /\ line \in Seq(Token) /\ text \in Seq(Token)
        /\ Escaped(r) \in Seq(Token)
    BY Widths DEF Read, Inv, TypeOK
  <1>2. /\ Len(body') = Len(body) + 1 /\ body'[Len(body) + 1] = r
        /\ \A k \in 1..Len(body) : body'[k] = body[k]
    BY <1>1
  <1>3. r # "cr"
    BY <1>1, <1>2 DEF Refused
  <1>4. ~ Refused
    BY <1>1, <1>2 DEF Refused
  <1>5. heard = [text |-> text, mode |-> "plain"] /\ \A k \in 1..Len(line) : line[k] # "newline"
    BY <1>4 DEF Inv, ConsoleFaithful
  <1>6. heard' = [text |-> text', mode |-> "plain"]
    BY <1>1, <1>3, <1>5, HeardRight
  <1>7. \A k \in 1..Len(Escaped(r)) : Escaped(r)[k] # "newline"
    <2>1. \/ Escaped(r) = <<"backslash", "backslash">>
          \/ Escaped(r) = <<"backslash", "n">>
          \/ Escaped(r) = <<r>> /\ r # "newline"
          \/ Escaped(r) = <<"backslash", "u", "high", "backslash", "u", "low">>
          \/ Escaped(r) = <<"backslash", "u", r>> /\ r # "newline"
      BY DEF Escaped, Rune, Ascii
    <2>2. QED
      BY <2>1
  <1>8. \A k \in 1..Len(line') : line'[k] # "newline"
    BY <1>1, <1>5, <1>7
  <1>9. QED
    BY <1>6, <1>8

LEMMA ReadInv ==
    ASSUME Inv, NEW r \in Rune, Read(r)
    PROVE  Inv'
  <1>1. /\ Len(CodeUnits(r)) \in Nat /\ GsmUnits(r) \in Nat /\ Escaped(r) \in Seq(Token)
        /\ "UTF-16" \in Encoding
    BY Widths DEF Encoding
  <1>2. /\ body' = Append(body, r) /\ Len(body') = Len(body) + 1 /\ body' \in Seq(Rune)
        /\ body'[Len(body) + 1] = r /\ \A k \in 1..Len(body) : body'[k] = body[k]
    BY DEF Inv, TypeOK, Read
  <1>3. /\ sums' \in Seq(Count) /\ Len(sums') = Len(sums) + 1
        /\ sums'[Len(sums) + 1] = [gsm |-> gsm + GsmUnits(r), utf16 |-> utf16 + Len(CodeUnits(r))]
        /\ \A k \in 1..Len(sums) : sums'[k] = sums[k]
    BY <1>1 DEF Inv, TypeOK, Read, Count
  <1>4. TypeOK'
    <2>1. line' \in Seq(Token) /\ text' \in Seq(Token) /\ heard' \in Hearing
      BY <1>1, Widths, HearsTyped DEF Inv, TypeOK, Read
    <2>2. /\ forced' \in BOOLEAN /\ pc' \in {"read", "pack", "done"} /\ encoding' \in Encoding
          /\ gsm' \in Nat /\ utf16' \in Nat
          /\ segments' \in Nat /\ used' \in Nat /\ packed' \in Nat /\ other' \in Packing
      BY <1>1 DEF Inv, TypeOK, Read
    <2>3. at' \in 1..Len(body') + 1
      BY <1>2 DEF Inv, TypeOK, Read
    <2>4. QED
      BY <1>2, <1>3, <2>1, <2>2, <2>3 DEF TypeOK
  <1>5. CountsAdd'
    <2>1. Len(sums) = Len(body) /\ Len(body) \in Nat
      BY DEF Inv, TypeOK, CountsAdd
    <2>2. PICK n \in Nat : n = Len(body)
      BY <2>1
    <2>3. \A k \in 0..n : Gsm(k)' = Gsm(k) /\ Utf16(k)' = Utf16(k)
      BY <1>3, <2>1, <2>2 DEF Gsm, Utf16
    <2>4. Gsm(n) = gsm /\ Utf16(n) = utf16
      BY <2>2 DEF Inv, CountsAdd
    <2>5. /\ Gsm(n + 1)' = gsm + GsmUnits(r)
          /\ Utf16(n + 1)' = utf16 + Len(CodeUnits(r))
      BY <1>3, <2>1, <2>2 DEF Gsm, Utf16
    <2>6. ASSUME NEW k \in 1..Len(body')
          PROVE  /\ Gsm(k)' = Gsm(k - 1)' + GsmUnits(body'[k])
                 /\ Utf16(k)' = Utf16(k - 1)' + Len(CodeUnits(body'[k]))
      <3>1. CASE k \in 1..n
        <4>1. k - 1 \in 0..n /\ k \in 0..n
          BY <3>1
        <4>2. QED
          BY <1>2, <2>2, <2>3, <3>1, <4>1 DEF Inv, CountsAdd
      <3>2. CASE k = n + 1
        <4>1. k - 1 = n /\ n \in 0..n
          BY <3>2
        <4>2. Gsm(k - 1)' = gsm /\ Utf16(k - 1)' = utf16
          BY <2>3, <2>4, <4>1
        <4>3. body'[k] = r
          BY <1>2, <2>2, <3>2
        <4>4. QED
          BY <2>5, <3>2, <4>2, <4>3
      <3>3. QED
        BY <1>2, <2>2, <3>1, <3>2
    <2>7. encoding' = "GSM-7" => \A k \in 1..Len(body') : body'[k] \in Basic \cup Extension
      BY <1>2, <2>1 DEF Inv, CountsAdd, Read
    <2>8. gsm' = gsm + GsmUnits(r) /\ utf16' = utf16 + Len(CodeUnits(r))
      BY DEF Read
    <2>9. Gsm(Len(body))' = gsm' /\ Utf16(Len(body))' = utf16'
      BY <1>2, <2>2, <2>5, <2>8
    <2>10. QED
      BY <1>2, <1>3, <2>1, <2>6, <2>7, <2>9 DEF CountsAdd
  <1>6. Ahead'
    BY <1>4, SmsTextAssumption DEF Inv, TypeOK, Ahead, Read
  <1>7. QED
    BY <1>4, <1>5, <1>6, ReadFaithful DEF Inv

\* Only reading touches the console.
LEMMA FaithfulStays ==
    ASSUME Inv, UNCHANGED <<body, console>>
    PROVE  ConsoleFaithful'
  BY DEF Inv, ConsoleFaithful, Refused, console

LEMMA DecideInv ==
    ASSUME Inv, Decide
    PROVE  Inv'
  <1> DEFINE e == IF forced THEN "UTF-16" ELSE encoding
             n == IF e = "UTF-16" THEN utf16 ELSE gsm
  <1>1. /\ e \in Encoding /\ n \in Nat /\ pc = "read" /\ encoding' = e
        /\ e = "GSM-7" => encoding = "GSM-7"
        /\ segments' = IF n > 0 THEN 1 ELSE 0
        /\ IF n > Single[e]
           THEN pc' = "pack" /\ other' = [segments |-> 1, used |-> 0]
           ELSE pc' = "done" /\ other' = other
        /\ UNCHANGED <<body, forced, gsm, utf16, sums, used, packed, at, line, text, heard>>
    BY DEF Inv, TypeOK, Decide, Encoding, console
  <1>2. Units' = n
    BY <1>1 DEF Units
  <1>3. Single[e] \in Nat /\ Multi[e] \in Nat
    BY <1>1, SmsTextAssumption
  <1> HIDE DEF e, n
  <1>4. TypeOK'
    BY <1>1 DEF Inv, TypeOK, Packing
  <1>5. CountsAdd'
    BY <1>1 DEF Inv, CountsAdd, Gsm, Utf16
  <1>6. used = 0 /\ packed = 0 /\ at = 1
    BY <1>1 DEF Inv, Ahead
  <1>7. Ahead'
    BY <1>1, <1>2, <1>3, <1>6 DEF Ahead, Gsm, Utf16
  <1>8. ConsoleFaithful'
    BY <1>1, FaithfulStays DEF console
  <1>9. QED
    BY <1>4, <1>5, <1>7, <1>8 DEF Inv

\* A rune is packed with the units it was counted with.
LEMMA PackSum ==
    ASSUME Inv, pc = "pack", at <= Len(body)
    PROVE  /\ body[at] \in Rune /\ Width(body[at]) \in {1, 2}
           /\ packed + Width(body[at]) = IF encoding = "UTF-16" THEN Utf16(at) ELSE Gsm(at)
  <1>1. at \in 1..Len(body) /\ Len(body) \in Nat
    BY DEF Inv, TypeOK
  <1>2. body[at] \in Rune
    BY <1>1 DEF Inv, TypeOK
  <1>3. encoding = "GSM-7" => body[at] \in Basic \cup Extension
    BY <1>1 DEF Inv, CountsAdd
  <1>4. encoding \in {"GSM-7", "UTF-16"}
    BY DEF Inv, TypeOK, Encoding
  <1>5. packed = IF encoding = "UTF-16" THEN Utf16(at - 1) ELSE Gsm(at - 1)
    BY DEF Inv, Ahead
  <1>6. IF encoding = "UTF-16" THEN Width(body[at]) = Len(CodeUnits(body[at]))
                               ELSE Width(body[at]) = GsmUnits(body[at])
    BY <1>2, <1>3, <1>4, Widths
  <1>7. /\ Gsm(at) = Gsm(at - 1) + GsmUnits(body[at])
        /\ Utf16(at) = Utf16(at - 1) + Len(CodeUnits(body[at]))
    BY <1>1 DEF Inv, CountsAdd
  <1>8. QED
    BY <1>2, <1>5, <1>6, <1>7, Widths

LEMMA PackInv ==
    ASSUME Inv, Pack
    PROVE  Inv'
  <1> DEFINE w == Width(body[at])
  <1>1. pc = "pack" /\ at <= Len(body) /\ w \in {1, 2} /\ at \in 1..Len(body)
        /\ packed + w = IF encoding = "UTF-16" THEN Utf16(at) ELSE Gsm(at)
    BY PackSum DEF Pack, Inv, TypeOK
  <1>2. /\ segments' = IF used + w > Multi[encoding] THEN segments + 1 ELSE segments
        /\ used' = IF used + w > Multi[encoding] THEN w ELSE used + w
        /\ packed' = packed + w /\ at' = at + 1
        /\ UNCHANGED <<body, forced, pc, encoding, gsm, utf16, sums, line, text, heard>>
    BY DEF Pack, Full, console
  <1>3. \/ /\ other.used + w <= Multi[encoding]
           /\ other'.segments = other.segments /\ other'.used = other.used + w
        \/ other'.segments = other.segments + 1 /\ other'.used = w
    BY DEF Pack, OtherTakes, Inv, TypeOK, Packing
  <1>4. other' \in Packing /\ other \in Packing
    <2>1. other \in Packing /\ Packing = [segments : Nat, used : Nat]
      BY DEF Inv, TypeOK, Packing
    <2>2. \/ other' = [other EXCEPT !.used = @ + w]
          \/ other' = [segments |-> other.segments + 1, used |-> w]
      BY DEF Pack, OtherTakes
    <2>3. w \in Nat
      BY <1>1
    <2> HIDE DEF w
    <2>4. QED
      BY <2>1, <2>2, <2>3
  <1>5. /\ encoding \in Encoding /\ Multi[encoding] \in Nat /\ Multi[encoding] >= 2
        /\ Single[encoding] \in Nat /\ segments \in Nat /\ used \in Nat /\ packed \in Nat
        /\ other.segments \in Nat /\ other.used \in Nat
    BY <1>4, SmsTextAssumption DEF Inv, TypeOK, Packing
  <1>6. /\ Units > Single[encoding] /\ segments >= 1 /\ (segments = 1 => packed = used)
        /\ used <= Multi[encoding]
        /\ \/ segments < other.segments
           \/ segments = other.segments /\ used <= other.used
    BY <1>1 DEF Inv, Ahead
  <1> HIDE DEF w
  <1>7. TypeOK'
    BY <1>1, <1>2, <1>4, <1>5 DEF Inv, TypeOK
  <1>8. CountsAdd'
    BY <1>2 DEF Inv, CountsAdd, Gsm, Utf16
  <1>9. /\ used' <= Multi[encoding] /\ segments' >= 1 /\ (segments' = 1 => packed' = used')
        /\ \/ segments' < other'.segments
           \/ segments' = other'.segments /\ used' <= other'.used
    <2>1. CASE used + w > Multi[encoding]
      <3>1. segments' = segments + 1 /\ used' = w /\ w <= Multi[encoding]
        BY <1>1, <1>2, <1>5, <2>1
      <3>2. CASE segments < other.segments
        BY <1>1, <1>3, <1>5, <1>6, <3>1, <3>2
      <3>3. CASE segments = other.segments /\ used <= other.used
        <4>1. ~ (other.used + w <= Multi[encoding])
          BY <1>1, <1>5, <2>1, <3>3
        <4>2. QED
          BY <1>1, <1>3, <1>5, <1>6, <3>1, <3>3, <4>1
      <3>4. QED
        BY <1>6, <3>2, <3>3
    <2>2. CASE used + w <= Multi[encoding]
      <3>1. segments' = segments /\ used' = used + w /\ packed' = packed + w
        BY <1>1, <1>2, <1>5, <2>2
      <3>2. segments' >= 1 /\ (segments' = 1 => packed' = used')
        BY <1>6, <3>1
      <3>3. CASE segments < other.segments
        BY <1>1, <1>3, <1>5, <2>2, <3>1, <3>2, <3>3
      <3>4. CASE segments = other.segments /\ used <= other.used
        BY <1>1, <1>3, <1>5, <2>2, <3>1, <3>2, <3>4
      <3>5. QED
        BY <1>6, <3>3, <3>4
    <2>3. QED
      BY <1>1, <1>5, <2>1, <2>2
  <1>10. Ahead'
    <2>1. Units' = Units
      BY <1>2 DEF Units
    <2>2. at' - 1 = at
      BY <1>1, <1>2
    <2>3. packed' = (IF encoding = "UTF-16" THEN Utf16(at - 1) ELSE Gsm(at - 1))'
      BY <1>1, <1>2, <2>2 DEF Utf16, Gsm
    <2>4. QED
      BY <1>1, <1>2, <1>6, <1>9, <2>1, <2>3 DEF Ahead
  <1>11. ConsoleFaithful'
    BY <1>2, FaithfulStays DEF console
  <1>12. QED
    BY <1>7, <1>8, <1>10, <1>11 DEF Inv

LEMMA PackedInv ==
    ASSUME Inv, Packed
    PROVE  Inv'
  <1>1. at = Len(body) + 1
    BY DEF Inv, TypeOK, Packed
  <1>2. ConsoleFaithful'
    BY FaithfulStays DEF Packed
  <1>3. QED
    BY <1>1, <1>2 DEF Inv, TypeOK, CountsAdd, Gsm, Utf16, Ahead, Packed, Units, console

\* The inductive invariant: the counts of the two loops agree, rune by rune, the code is
\* never behind the other packing, and the console is never behind the body.
THEOREM Invariance == Spec => []Inv
  <1>1. Inv /\ [Next]_vars => Inv'
    <2> SUFFICES ASSUME Inv, [Next]_vars PROVE Inv'
      OBVIOUS
    <2>1. CASE UNCHANGED vars
      <3>1. ConsoleFaithful'
        BY <2>1, FaithfulStays DEF vars
      <3>2. QED
        BY <2>1, <3>1 DEF vars, console, Inv, TypeOK, CountsAdd, Gsm, Utf16, Ahead, Units
    <2>2. QED
      BY <2>1, ReadInv, DecideInv, PackInv, PackedInv DEF Next
  <1>2. QED
    BY InitInv, <1>1, PTL DEF Spec

\* Whatever the body and whatever the limits, no packing that keeps runes whole needs fewer
\* segments than analyze counts, and the segments it counts hold every unit (message.go:174).
THEOREM SegmentsMinimal == Spec => []FewestSegments
  <1>1. Inv => FewestSegments
    <2> SUFFICES ASSUME Inv PROVE FewestSegments
      OBVIOUS
    <2>1. used <= Multi[encoding]
      BY DEF Inv, Ahead
    <2>2. ASSUME pc = "done", Units > Single[encoding]
          PROVE  packed = Units /\ 2 <= segments /\ segments <= other.segments
      <3>1. /\ at = Len(body) + 1 /\ segments >= 1 /\ (segments = 1 => packed = used)
            /\ \/ segments < other.segments
               \/ segments = other.segments /\ used <= other.used
            /\ packed = IF encoding = "UTF-16" THEN Utf16(at - 1) ELSE Gsm(at - 1)
        BY <2>2 DEF Inv, Ahead
      <3>2. /\ encoding \in Encoding /\ Multi[encoding] \in Nat /\ Single[encoding] \in Nat
            /\ Multi[encoding] <= Single[encoding]
            /\ Len(body) \in Nat /\ Units \in Nat
            /\ segments \in Nat /\ other.segments \in Nat /\ used \in Nat
        BY SmsTextAssumption DEF Inv, TypeOK, Units, Packing
      <3>3. Gsm(Len(body)) = gsm /\ Utf16(Len(body)) = utf16 /\ at - 1 = Len(body)
        BY <3>1, <3>2 DEF Inv, CountsAdd
      <3>4. packed = Units
        BY <3>1, <3>2, <3>3 DEF Units
      <3>5. 2 <= segments
        BY <2>1, <2>2, <3>1, <3>2, <3>4
      <3>6. segments <= other.segments
        BY <3>1, <3>2
      <3>7. QED
        BY <3>4, <3>5, <3>6
    <2>3. QED
      BY <2>1, <2>2 DEF FewestSegments
  <1>2. QED
    BY Invariance, <1>1, PTL

\* Whatever the body, the console of the emulator makes of the line that ConsoleText writes
\* the UTF-16 text of the body and nothing else, and no line break in it ends the command.
THEOREM ConsoleHearsBody == Spec => []ConsoleFaithful
  <1>1. Inv => ConsoleFaithful
    BY DEF Inv
  <1>2. QED
    BY Invariance, <1>1, PTL
=============================================================================
