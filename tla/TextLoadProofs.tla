--------------------------- MODULE TextLoadProofs ---------------------------
(***************************************************************************)
(* What is loaded from a baseline or a report is what was saved, whatever  *)
(* characters the strings have and wherever the text was cut.              *)
(***************************************************************************)
EXTENDS TextFilesProofs

(***************************************************************************)
(* Parts.  A text is put together from others; each stands at its place.   *)
(***************************************************************************)
Part(w, p, a) ==
  /\ p \in Nat \ {0} /\ p - 1 + Len(a) <= Len(w)
  /\ \A j \in 1..Len(a) : w[p - 1 + j] = a[j]

LEMMA WholePart == ASSUME NEW w \in Text PROVE Part(w, 1, w)
  BY LenProperties DEF Text, Part

LEMMA PartsOfConcat ==
  ASSUME NEW w \in Text, NEW a \in Text, NEW b \in Text, NEW p, Part(w, p, a \o b)
  PROVE  Part(w, p, a) /\ Part(w, p + Len(a), b)
<1>1. Len(a) \in Nat /\ Len(b) \in Nat /\ Len(w) \in Nat /\ p \in Nat \ {0}
  BY LenProperties DEF Text, Part
<1>2. /\ Len(a \o b) = Len(a) + Len(b)
      /\ \A j \in 1..Len(a) + Len(b) : (a \o b)[j] = IF j <= Len(a) THEN a[j] ELSE b[j - Len(a)]
  BY ConcatProperties DEF Text
<1> DEFINE c == a \o b
<1> HIDE DEF c
<1>3. p - 1 + Len(a) + Len(b) <= Len(w)
  BY <1>1, <1>2 DEF Part, c
<1>4. \A j \in 1..Len(a) + Len(b) : w[p - 1 + j] = c[j]
  BY <1>2 DEF Part, c
<1>5. \A j \in 1..Len(a) : w[p - 1 + j] = a[j]
  <2> TAKE j \in 1..Len(a)
  <2>1. j \in 1..Len(a) + Len(b) /\ j <= Len(a)
    BY <1>1
  <2> QED BY <1>2, <1>4, <2>1 DEF c
<1>6. \A j \in 1..Len(b) : w[p + Len(a) - 1 + j] = b[j]
  <2> TAKE j \in 1..Len(b)
  <2>1. /\ Len(a) + j \in 1..Len(a) + Len(b) /\ ~(Len(a) + j <= Len(a)) /\ (Len(a) + j) - Len(a) = j
        /\ p + Len(a) - 1 + j = p - 1 + (Len(a) + j)
    BY <1>1
  <2> QED BY <1>2, <1>4, <2>1 DEF c
<1> QED BY <1>1, <1>3, <1>5, <1>6 DEF Part

\* The places of texts that are put together, and the place behind them.
Places(w, p, f, e) ==
  /\ e \in [0..Len(f) -> Nat \ {0}] /\ e[0] = p /\ e[Len(f)] = p + Len(FlattenSeq(f))
  /\ \A k \in 1..Len(f) : Part(w, e[k - 1], f[k]) /\ e[k] = e[k - 1] + Len(f[k])

LEMMA PartsOfFlatten ==
  ASSUME NEW w \in Text, NEW f \in Seq(Text), NEW p, Part(w, p, FlattenSeq(f))
  PROVE  \E e : Places(w, p, f, e)
<1>1. Len(f) \in Nat /\ p \in Nat \ {0} /\ \A k \in 1..Len(f) : f[k] \in Text
  BY LenProperties, ElementOfSeq DEF Part
<1>2. PICK flat : /\ flat = [k \in 1..Len(f) |-> OneMore(f, flat, k)]
                  /\ FlattenSeq(f) = IF Len(f) = 0 THEN <<>> ELSE flat[Len(f)]
  BY FlattenIs DEF Text
<1> DEFINE t == [k \in 0..Len(f) |-> IF k = 0 THEN <<>> ELSE flat[k]]
<1>3. /\ \A k \in 1..Len(f) : t[k] = t[k - 1] \o f[k]
      /\ t[0] = <<>> /\ FlattenSeq(f) = t[Len(f)]
  <2>1. \A k \in 1..Len(f) : t[k] = t[k - 1] \o f[k]
    <3> TAKE k \in 1..Len(f)
    <3>1. t[k] = OneMore(f, flat, k)
      BY <1>1, <1>2
    <3>2. CASE k = 1
      <4>1. t[k - 1] = <<>> /\ <<>> \o f[k] = f[k]
        BY <1>1, <3>2, ConcatEmptySeq DEF Text
      <4> HIDE DEF t
      <4> QED BY <3>1, <3>2, <4>1 DEF OneMore
    <3>3. CASE k # 1
      <4>1. t[k - 1] = flat[k - 1]
        BY <1>1, <3>3
      <4> HIDE DEF t
      <4> QED BY <3>1, <3>3, <4>1 DEF OneMore
    <3> QED BY <3>2, <3>3
  <2>2. t[0] = <<>> /\ t[Len(f)] = IF Len(f) = 0 THEN <<>> ELSE flat[Len(f)]
    BY <1>1
  <2> QED BY <1>2, <2>1, <2>2, Zenon
<1> HIDE DEF t
<1> DEFINE Typed == {k \in Nat : k \in 0..Len(f) => t[k] \in Text}
<1>4. \A k \in 0..Len(f) : t[k] \in Text
  <2>1. 0 \in Typed
    BY <1>3, SmallTexts
  <2>2. ASSUME NEW k \in Nat, k \in Typed PROVE k + 1 \in Typed
    <3> SUFFICES ASSUME k + 1 \in 0..Len(f) PROVE t[k + 1] \in Text
      OBVIOUS
    <3>1. t[k] \in Text /\ f[k + 1] \in Text
      BY <1>1, <2>2
    <3>2. k + 1 \in 1..Len(f) /\ (k + 1) - 1 = k
      BY <1>1
    <3>3. t[k + 1] = t[k] \o f[k + 1]
      BY <1>3, <3>2
    <3> QED BY <3>1, <3>3, Concat
  <2> HIDE DEF Typed
  <2>3. Nat \subseteq Typed
    BY <2>1, <2>2, Induction
  <2> QED BY <1>1, <2>3 DEF Typed
<1> DEFINE Fit == {j \in Nat : Len(f) - j \in 0..Len(f) => Part(w, p, t[Len(f) - j])}
<1>5. \A k \in 0..Len(f) : Part(w, p, t[k])
  <2>1. 0 \in Fit
    BY <1>1, <1>3
  <2>2. ASSUME NEW j \in Nat, j \in Fit PROVE j + 1 \in Fit
    <3> DEFINE k == Len(f) - (j + 1)
    <3> SUFFICES ASSUME k \in 0..Len(f) PROVE Part(w, p, t[k])
      OBVIOUS
    <3>1. k + 1 \in 1..Len(f) /\ (k + 1) - 1 = k /\ Len(f) - j = k + 1
      BY <1>1
    <3>2. Part(w, p, t[k + 1])
      BY <2>2, <3>1
    <3> HIDE DEF k
    <3>3. t[k + 1] = t[k] \o f[k + 1] /\ t[k] \in Text /\ f[k + 1] \in Text
      BY <1>1, <1>3, <1>4, <3>1
    <3> QED BY <3>2, <3>3, PartsOfConcat
  <2> HIDE DEF Fit
  <2>3. Nat \subseteq Fit
    BY <2>1, <2>2, Induction
  <2>4. \A k \in 0..Len(f) : Len(f) - k \in Nat /\ Len(f) - (Len(f) - k) = k
    BY <1>1
  <2> QED BY <2>3, <2>4 DEF Fit
<1> DEFINE e == [k \in 0..Len(f) |-> p + Len(t[k])]
<1>6. \A k \in 0..Len(f) : Len(t[k]) \in Nat
  BY <1>4, LenProperties DEF Text
<1>7. e \in [0..Len(f) -> Nat \ {0}] /\ e[0] = p /\ e[Len(f)] = p + Len(FlattenSeq(f))
  <2>1. Len(t[0]) = 0
    BY <1>3, EmptySeq
  <2> QED BY <1>1, <1>3, <1>6, <2>1
<1>8. ASSUME NEW k \in 1..Len(f) PROVE Part(w, e[k - 1], f[k]) /\ e[k] = e[k - 1] + Len(f[k])
  <2>1. k - 1 \in 0..Len(f) /\ k \in 0..Len(f)
    BY <1>1
  <2>2. t[k] = t[k - 1] \o f[k] /\ t[k - 1] \in Text /\ f[k] \in Text
    BY <1>1, <1>3, <1>4, <2>1
  <2>3. Part(w, p, t[k - 1] \o f[k])
    <3>1. Part(w, p, t[k])
      BY <1>5, <2>1
    <3> QED BY <2>2, <3>1
  <2>4. Part(w, p + Len(t[k - 1]), f[k])
    BY <2>2, <2>3, PartsOfConcat
  <2>5. Len(t[k]) = Len(t[k - 1]) + Len(f[k]) /\ Len(f[k]) \in Nat
    BY <2>2, ConcatProperties, LenProperties DEF Text
  <2>6. e[k - 1] = p + Len(t[k - 1]) /\ e[k] = p + Len(t[k]) /\ Len(t[k - 1]) \in Nat
    BY <1>6, <2>1
  <2> HIDE DEF e
  <2>7. Part(w, e[k - 1], f[k])
    BY <2>4, <2>6
  <2>8. e[k] = e[k - 1] + Len(f[k])
    <3>1. \A x, y \in Nat : p + (x + y) = (p + x) + y
      BY <1>1
    <3> QED BY <2>5, <2>6, <3>1, Zenon
  <2> QED BY <2>7, <2>8
<1> HIDE DEF e
<1> QED BY <1>7, <1>8 DEF Places

(***************************************************************************)
(* Characters.  What is written for one of them is read as the character,  *)
(* or as what is kept of it, unless the text ends before.                  *)
(***************************************************************************)

\* The text that is read is the first part of w.
CutFrom(w) ==
  /\ text \in Text /\ w \in Text /\ Len(text) <= Len(w)
  /\ \A j \in 1..Len(text) : text[j] = w[j]

Written(c) == EscapeChar(ToUtf8(c))
KeptChar(c) == IF c = Surrogate THEN Replacement ELSE IF c = Control THEN "?" ELSE c

LEMMA WrittenForms ==
  ASSUME NEW c \in Character
  PROVE  \/ Written(c) = <<Backslash, c>> /\ c \in {Quote, Backslash}
         \/ Written(c) = <<Backslash, "n">> /\ c = "newline"
         \/ Written(c) = <<Backslash, "t">> /\ c = "tab"
         \/ Written(c) = <<Backslash, "u", "0", "0", "1", "f">> /\ c = Control
         \/ Written(c) = <<Replacement>> /\ c = Surrogate
         \/ /\ Written(c) = <<c>>
            /\ c \notin {Quote, Backslash, "newline", "tab", Control, Surrogate}
<1>1. /\ DOMAIN Named = {"newline", "tab"} /\ Named["newline"] = "n" /\ Named["tab"] = "t"
  BY DEF Named
<1>2. CASE c = Surrogate
  <2>1. ToUtf8(c) = Replacement
    BY <1>2 DEF ToUtf8
  <2>2. Replacement \notin {Quote, Backslash, "newline", "tab", Control}
    BY DEF Replacement, Quote, Backslash, Control
  <2>3. Written(c) = <<Replacement>>
    BY <1>1, <2>1, <2>2 DEF Written, EscapeChar
  <2> QED BY <1>2, <2>3
<1>3. CASE c # Surrogate
  <2>1. ToUtf8(c) = c
    BY <1>3 DEF ToUtf8
  <2>2. Quote \notin {"newline", "tab", Control} /\ Backslash \notin {"newline", "tab", Control}
    BY DEF Quote, Backslash, Control
  <2>3. Control \notin {"newline", "tab"} /\ "newline" # "tab"
    BY DEF Control
  <2>4. CASE c \in {Quote, Backslash}
    <3>1. Written(c) = <<Backslash, c>>
      BY <2>1, <2>4 DEF Written, EscapeChar
    <3> QED BY <2>4, <3>1
  <2>5. CASE c = "newline"
    <3>1. Written(c) = <<Backslash, "n">>
      BY <1>1, <2>1, <2>2, <2>5 DEF Written, EscapeChar
    <3> QED BY <2>5, <3>1
  <2>6. CASE c = "tab"
    <3>1. Written(c) = <<Backslash, "t">>
      BY <1>1, <2>1, <2>2, <2>6 DEF Written, EscapeChar
    <3> QED BY <2>6, <3>1
  <2>7. CASE c = Control
    <3>1. Written(c) = <<Backslash, "u", "0", "0", "1", "f">>
      BY <1>1, <2>1, <2>2, <2>3, <2>7 DEF Written, EscapeChar
    <3> QED BY <2>7, <3>1
  <2>8. CASE c \notin {Quote, Backslash, "newline", "tab", Control}
    <3>1. Written(c) = <<c>>
      BY <1>1, <2>1, <2>8 DEF Written, EscapeChar
    <3> QED BY <1>3, <2>8, <3>1
  <2> QED BY <2>4, <2>5, <2>6, <2>7, <2>8
<1> QED BY <1>2, <1>3

\* A quote is written only as the last character for one.
LEMMA WrittenQuote ==
  ASSUME NEW c \in Character
  PROVE  /\ Len(Written(c)) \in Nat \ {0}
         /\ \A j \in 1..Len(Written(c)) : Written(c)[j] = Quote => j = Len(Written(c)) /\ j # 1
<1>1. Backslash # Quote /\ "n" # Quote /\ "t" # Quote /\ "u" # Quote /\ "0" # Quote /\ "1" # Quote
      /\ "f" # Quote /\ Replacement # Quote
  BY DEF Backslash, Quote, Replacement
<1> DEFINE u == Written(c)
<1>2. CASE \E d : u = <<Backslash, d>>
  <2>1. Len(u) = 2 /\ u[1] # Quote
    BY <1>1, <1>2
  <2> HIDE DEF u
  <2> QED BY <2>1 DEF u
<1>3. CASE u = <<Backslash, "u", "0", "0", "1", "f">>
  <2>1. Len(u) = 6 /\ \A j \in 1..6 : u[j] # Quote
    BY <1>1, <1>3
  <2> HIDE DEF u
  <2> QED BY <2>1 DEF u
<1>4. CASE \E d : u = <<d>> /\ d # Quote
  <2>1. Len(u) = 1 /\ u[1] # Quote
    BY <1>4
  <2> HIDE DEF u
  <2> QED BY <2>1 DEF u
<1> QED BY <1>1, <1>2, <1>3, <1>4, WrittenForms

LEMMA UnitRead ==
  ASSUME NEW w, CutFrom(w), NEW c \in Character, NEW q, Part(w, q, Written(c))
  PROVE  /\ q + Len(Written(c)) - 1 <= Len(text) =>
              /\ There(q) /\ text[q] # Quote
              /\ Unit(q) = {[out |-> KeptChar(c), size |-> Len(Written(c))]}
         /\ Len(text) < q + Len(Written(c)) - 1 => ~There(q) \/ Unit(q) = {}
<1>1. Len(text) \in Nat /\ Len(w) \in Nat /\ q \in Nat \ {0}
  BY LenProperties DEF CutFrom, Text, Part
<1> DEFINE u == Written(c)
<1>2. \A j \in 1..Len(u) : w[q - 1 + j] = u[j]
  BY DEF Part
<1>3. \A x \in Nat \ {0} : CharAt(x) = IF x <= Len(text) THEN w[x] ELSE "end"
  BY DEF CharAt, There, CutFrom
<1>4. /\ Unescaped[Quote] = Quote /\ Unescaped[Backslash] = Backslash /\ Unescaped["n"] = "newline"
      /\ Unescaped["t"] = "tab" /\ DOMAIN Unescaped = {Quote, Backslash, "n", "t"}
  BY DEF Unescaped, Quote, Backslash
<1>5. /\ Quote # Backslash /\ "end" \notin {Quote, Backslash, "n", "t", "u"}
      /\ "u" \notin {Quote, Backslash, "n", "t"} /\ Replacement \notin {Quote, Backslash}
  BY DEF Quote, Backslash, Replacement
<1>6. ASSUME Len(u) = 2, u[1] = Backslash, u[2] \in DOMAIN Unescaped, Unescaped[u[2]] = KeptChar(c)
      PROVE  /\ q + 1 <= Len(text) => /\ There(q) /\ text[q] # Quote
                                      /\ Unit(q) = {[out |-> KeptChar(c), size |-> 2]}
             /\ Len(text) < q + 1 => ~There(q) \/ Unit(q) = {}
  <2>1. w[q] = Backslash /\ w[q + 1] = u[2]
    BY <1>1, <1>2, <1>6
  <2>2. q <= Len(text) => CharAt(q) = Backslash /\ text[q] = Backslash
    BY <1>1, <1>3, <2>1 DEF CutFrom
  <2>3. CharAt(q + 1) = IF q + 1 <= Len(text) THEN u[2] ELSE "end"
    BY <1>1, <1>3, <2>1
  <2>4. CASE q + 1 <= Len(text)
    <3>1. There(q) /\ CharAt(q) = Backslash /\ text[q] = Backslash /\ CharAt(q + 1) = u[2]
      BY <1>1, <2>2, <2>3, <2>4 DEF There
    <3>2. Unit(q) = {[out |-> KeptChar(c), size |-> 2]}
      BY <1>6, <3>1 DEF Unit
    <3> QED BY <1>1, <1>5, <2>4, <3>1, <3>2
  <2>5. CASE ~(q + 1 <= Len(text))
    <3>1. CharAt(q + 1) = "end"
      BY <2>3, <2>5
    <3>2. There(q) => CharAt(q) = Backslash
      BY <2>2 DEF There
    <3>3. There(q) => Unit(q) = {}
      BY <1>4, <1>5, <3>1, <3>2 DEF Unit
    <3> QED BY <2>5, <3>3
  <2> QED BY <2>4, <2>5
<1>7. ASSUME Len(u) = 1, u[1] \notin {Quote, Backslash}, u[1] = KeptChar(c)
      PROVE  /\ q <= Len(text) => /\ There(q) /\ text[q] # Quote
                                  /\ Unit(q) = {[out |-> KeptChar(c), size |-> 1]}
             /\ Len(text) < q => ~There(q)
  <2>1. w[q] = u[1]
    BY <1>1, <1>2, <1>7
  <2>2. q <= Len(text) => There(q) /\ CharAt(q) = u[1] /\ text[q] = u[1]
    BY <1>1, <1>3, <2>1 DEF There, CutFrom
  <2>3. q <= Len(text) => Unit(q) = {[out |-> KeptChar(c), size |-> 1]}
    BY <1>7, <2>2 DEF Unit
  <2> QED BY <1>1, <1>7, <2>2, <2>3 DEF There
<1>8. ASSUME Len(u) = 6, u[1] = Backslash, u[2] = "u", KeptChar(c) = "?"
      PROVE  /\ q + 5 <= Len(text) => /\ There(q) /\ text[q] # Quote
                                      /\ Unit(q) = {[out |-> KeptChar(c), size |-> 6]}
             /\ Len(text) < q + 5 => ~There(q) \/ Unit(q) = {}
  <2>1. w[q] = Backslash /\ w[q + 1] = "u"
    BY <1>1, <1>2, <1>8
  <2>2. q <= Len(text) => CharAt(q) = Backslash /\ text[q] = Backslash
    BY <1>1, <1>3, <2>1 DEF CutFrom
  <2>3. CharAt(q + 1) = IF q + 1 <= Len(text) THEN "u" ELSE "end"
    BY <1>1, <1>3, <2>1
  <2>4. CharAt(q + 1) \notin DOMAIN Unescaped
    BY <1>4, <1>5, <2>3
  <2>5. There(q + 5) <=> q + 5 <= Len(text)
    BY DEF There
  <2>6. q + 5 <= Len(text) => There(q) /\ Unit(q) = {[out |-> "?", size |-> 6]}
    BY <1>1, <2>2, <2>3, <2>4, <2>5 DEF Unit, There
  <2>7. Len(text) < q + 5 => ~There(q) \/ Unit(q) = {}
    BY <1>1, <2>2, <2>4, <2>5 DEF Unit, There
  <2> QED BY <1>1, <1>5, <1>8, <2>2, <2>6, <2>7
<1>9. "newline" \notin {Surrogate, Control} /\ "tab" \notin {Surrogate, Control}
      /\ Quote \notin {Surrogate, Control} /\ Backslash \notin {Surrogate, Control} /\ Control # Surrogate
  BY DEF Surrogate, Control, Quote, Backslash
<1>10. CASE u = <<Backslash, c>> /\ c \in {Quote, Backslash}
  <2>1. Len(u) = 2 /\ u[1] = Backslash /\ u[2] = c /\ KeptChar(c) = c
    BY <1>9, <1>10 DEF KeptChar
  <2> HIDE DEF u
  <2> QED BY <1>1, <1>4, <1>6, <1>10, <2>1 DEF u
<1>11. CASE u = <<Backslash, "n">> /\ c = "newline"
  <2>1. Len(u) = 2 /\ u[1] = Backslash /\ u[2] = "n" /\ KeptChar(c) = "newline"
    BY <1>9, <1>11 DEF KeptChar
  <2> HIDE DEF u
  <2> QED BY <1>1, <1>4, <1>6, <2>1 DEF u
<1>12. CASE u = <<Backslash, "t">> /\ c = "tab"
  <2>1. Len(u) = 2 /\ u[1] = Backslash /\ u[2] = "t" /\ KeptChar(c) = "tab"
    BY <1>9, <1>12 DEF KeptChar
  <2> HIDE DEF u
  <2> QED BY <1>1, <1>4, <1>6, <2>1 DEF u
<1>13. CASE u = <<Backslash, "u", "0", "0", "1", "f">> /\ c = Control
  <2>1. Len(u) = 6 /\ u[1] = Backslash /\ u[2] = "u" /\ KeptChar(c) = "?"
    BY <1>9, <1>13 DEF KeptChar
  <2> HIDE DEF u
  <2> QED BY <1>1, <1>8, <2>1 DEF u
<1>14. CASE u = <<Replacement>> /\ c = Surrogate
  <2>1. Len(u) = 1 /\ u[1] = Replacement /\ KeptChar(c) = Replacement
    BY <1>14 DEF KeptChar
  <2> HIDE DEF u
  <2> QED BY <1>1, <1>5, <1>7, <2>1 DEF u
<1>15. CASE u = <<c>> /\ c \notin {Quote, Backslash, "newline", "tab", Control, Surrogate}
  <2>1. Len(u) = 1 /\ u[1] = c /\ KeptChar(c) = c
    BY <1>15 DEF KeptChar
  <2> HIDE DEF u
  <2> QED BY <1>1, <1>7, <1>15, <2>1 DEF u
<1> QED BY <1>10, <1>11, <1>12, <1>13, <1>14, <1>15, WrittenForms

(***************************************************************************)
(* Strings.  From its opening quote, or from a quote that was escaped, a   *)
(* string is read to its closing quote.                                    *)
(***************************************************************************)
Escaped(w, p, s, e) ==
  /\ e \in [0..Len(s) -> Nat \ {0}] /\ e[0] = p
  /\ \A k \in 1..Len(s) :
       Part(w, e[k - 1], Written(s[k])) /\ e[k] = e[k - 1] + Len(Written(s[k]))

\* The string s between the quotes at q and at z.
StringAt(w, q, s, z) ==
  /\ s \in Text /\ q \in Nat \ {0} /\ z \in q + 1..Len(w) /\ w[q] = Quote /\ w[z] = Quote
  /\ \E e : Escaped(w, q + 1, s, e) /\ e[Len(s)] = z

LEMMA Covered ==
  ASSUME NEW m \in Nat, NEW e \in [0..m -> Nat], NEW x \in Nat, e[0] <= x, x < e[m]
  PROVE  \E k \in 1..m : e[k - 1] <= x /\ x < e[k]
<1> DEFINE S == {k \in 0..m : x < e[k]}
<1>1. S \in SUBSET Nat /\ S # {}
  OBVIOUS
<1>2. PICK k \in S : \A l \in S : k <= l
  <2> HIDE DEF S
  <2> QED BY <1>1, Smallest
<1>3. k \in 0..m /\ k # 0
  OBVIOUS
<1>4. k - 1 \in 0..m /\ k - 1 \notin S
  BY <1>2, <1>3
<1>5. e[k - 1] \in Nat
  BY <1>4
<1> QED BY <1>2, <1>3, <1>4, <1>5

LEMMA JsonStringAt ==
  ASSUME NEW w \in Text, NEW s \in Text, NEW q, Part(w, q, JsonString(s))
  PROVE  /\ StringAt(w, q, s, q + 1 + Len(Escape(s)))
         /\ Len(JsonString(s)) = Len(Escape(s)) + 2 /\ Len(Escape(s)) \in Nat
<1> DEFINE f == [k \in DOMAIN s |-> EscapeChar(ToUtf8(s[k]))]
           one == <<Quote>>
<1>1. Len(s) \in Nat /\ DOMAIN s = 1..Len(s) /\ \A k \in 1..Len(s) : s[k] \in Character
  BY LenProperties, ElementOfSeq DEF Text
<1>2. \A k \in 1..Len(s) : f[k] = Written(s[k]) /\ f[k] \in Text
  BY <1>1, EscapeTyped DEF Written
<1>3. f \in Seq(Text) /\ Len(f) = Len(s)
  <2>1. f \in [1..Len(s) -> Text]
    BY <1>1, EscapeTyped
  <2> HIDE DEF f
  <2> QED BY <1>1, <2>1, SeqDef, LenProperties
<1>4. Escape(s) = FlattenSeq(f)
  BY Zenon DEF Escape
<1> HIDE DEF f
<1>5. Escape(s) \in Text /\ Len(Escape(s)) \in Nat
  BY <1>3, <1>4, FlattenTyped, LenProperties DEF Text
<1>6. one \in Text /\ Len(one) = 1 /\ one[1] = Quote
  BY SmallTexts DEF Character
<1> HIDE DEF one
<1>7. one \o Escape(s) \in Text /\ Len(one \o Escape(s)) = 1 + Len(Escape(s))
  <2> DEFINE b == Escape(s)
  <2>1. b \in Seq(Character) /\ one \in Seq(Character) /\ Len(one) = 1
    BY <1>5, <1>6 DEF Text
  <2> HIDE DEF b
  <2>2. one \o b \in Seq(Character) /\ Len(one \o b) = Len(one) + Len(b)
    BY <2>1, ConcatProperties
  <2> QED BY <2>1, <2>2 DEF Text, b
<1>8. JsonString(s) = (one \o Escape(s)) \o one
  BY DEF JsonString, one
<1>9. Len(JsonString(s)) = Len(Escape(s)) + 2
  BY <1>5, <1>6, <1>7, <1>8, ConcatProperties DEF Text
<1>10. Part(w, q, one \o Escape(s)) /\ Part(w, q + (1 + Len(Escape(s))), one)
  BY <1>6, <1>7, <1>8, PartsOfConcat
<1>11. Part(w, q, one) /\ Part(w, q + 1, Escape(s))
  BY <1>5, <1>6, <1>10, PartsOfConcat
<1>12. PICK e : Places(w, q + 1, f, e)
  BY <1>3, <1>4, <1>11, PartsOfFlatten
<1> DEFINE z == q + (1 + Len(Escape(s)))
<1>13. q \in Nat \ {0} /\ w[q] = Quote
  BY <1>6, <1>11 DEF Part
<1>14. z \in q + 1..Len(w) /\ w[z] = Quote
  <2>1. z - 1 + 1 <= Len(w) /\ w[z - 1 + 1] = Quote
    BY <1>6, <1>10 DEF Part
  <2> QED BY <1>5, <1>13, <2>1, LenProperties DEF Text
<1>15. Escaped(w, q + 1, s, e) /\ e[Len(s)] = z
  <2>1. e[Len(s)] = (q + 1) + Len(Escape(s))
    BY <1>3, <1>4, <1>12 DEF Places
  <2>2. Escaped(w, q + 1, s, e)
    BY <1>1, <1>2, <1>3, <1>12, Zenon DEF Places, Escaped
  <2> QED BY <1>5, <1>13, <2>1, <2>2
<1>16. z = q + 1 + Len(Escape(s))
  BY <1>5, <1>13
<1> HIDE DEF z
<1> QED BY <1>5, <1>9, <1>13, <1>14, <1>15, <1>16 DEF StringAt

LEMMA KeptTyped ==
  ASSUME NEW s \in Text
  PROVE  /\ Kept(s) \in Text /\ Len(Kept(s)) = Len(s)
         /\ \A k \in 1..Len(s) : Kept(s)[k] = KeptChar(s[k])
<1>1. Len(s) \in Nat /\ DOMAIN s = 1..Len(s) /\ \A k \in 1..Len(s) : s[k] \in Character
  BY LenProperties, ElementOfSeq DEF Text
<1>2. \A c \in Character : KeptChar(c) \in Character
  BY DEF KeptChar, Character
<1>3. Kept(s) = [k \in 1..Len(s) |-> KeptChar(s[k])]
  BY <1>1 DEF Kept, KeptChar
<1>4. Kept(s) \in [1..Len(s) -> Character]
  BY <1>1, <1>2, <1>3
<1>5. Kept(s) \in Seq(Character) /\ DOMAIN Kept(s) = 1..Len(s)
  BY <1>1, <1>4, SeqDef
<1>6. Len(Kept(s)) = Len(s)
  BY <1>1, <1>5, LenProperties
<1> QED BY <1>3, <1>5, <1>6 DEF Text

LEMMA SubSeqOfNext ==
  ASSUME NEW t \in Text, NEW k \in 1..Len(t)
  PROVE  SubSeq(t, k, Len(t)) = <<t[k]>> \o SubSeq(t, k + 1, Len(t))
<1>1. Len(t) \in Nat /\ t \in Seq(Character)
  BY LenProperties DEF Text
<1>2. k \in 1..Len(t) + 1 /\ k \in k - 1..Len(t) /\ Len(t) \in k..Len(t)
  BY <1>1
<1>3. SubSeq(t, k, k) \o SubSeq(t, k + 1, Len(t)) = SubSeq(t, k, Len(t))
  BY <1>1, <1>2, ConcatAdjacentSubSeq
<1>4. SubSeq(t, k, k) = <<t[k]>>
  <2>1. k \in Int /\ \A i \in k..k : t[i] \in Character
    BY <1>1, ElementOfSeq
  <2>2. /\ SubSeq(t, k, k) \in Seq(Character) /\ Len(SubSeq(t, k, k)) = 1
        /\ SubSeq(t, k, k)[1] = t[k]
    BY <2>1, SubSeqProperties
  <2> DEFINE one == <<t[k]>>
             sub == SubSeq(t, k, k)
  <2>3. one \in Seq(Character) /\ Len(one) = 1 /\ one[1] = t[k]
    BY <2>1
  <2> HIDE DEF one, sub
  <2>4. \A i \in 1..Len(sub) : sub[i] = one[i]
    BY <2>2, <2>3 DEF sub
  <2>5. sub = one
    BY <2>2, <2>3, <2>4, SeqEqual DEF sub
  <2> QED BY <2>5 DEF one, sub
<1> QED BY <1>3, <1>4

LEMMA OneUnitRead ==
  ASSUME NEW f, NEW x, NEW o, NEW m, There(x), text[x] # Quote, Unit(x) = {[out |-> o, size |-> m]}
  PROVE  OneUnit(f, x) = IF f[x + m].ok THEN [f[x + m] EXCEPT !.out = <<o>> \o @] ELSE Failed
<1> DEFINE u == CHOOSE y \in Unit(x) : TRUE
<1>1. u = [out |-> o, size |-> m]
  OBVIOUS
<1>2. Unit(x) # {}
  OBVIOUS
<1>3. OneUnit(f, x) = IF f[x + u.size].ok THEN [f[x + u.size] EXCEPT !.out = <<u.out>> \o @] ELSE Failed
  BY <1>2, Zenon DEF OneUnit
<1> HIDE DEF u
<1>4. u.out = o /\ u.size = m
  BY <1>1
<1> QED BY <1>3, <1>4

LEMMA OneMoreOut ==
  ASSUME NEW r, NEW x, NEW o, NEW c, NEW y,
         r = [ok |-> TRUE, pos |-> x, out |-> o], y = [r EXCEPT !.out = c \o @]
  PROVE  y = [ok |-> TRUE, pos |-> x, out |-> c \o o]
  OBVIOUS

LEMMA ReadEscaped ==
  ASSUME NEW w, CutFrom(w), NEW s \in Text, NEW p, NEW e, Escaped(w, p, s, e),
         e[Len(s)] <= Len(w), w[e[Len(s)]] = Quote
  PROVE  \A k \in 0..Len(s) :
           /\ e[k] <= e[Len(s)]
           /\ e[Len(s)] <= Len(text) =>
                Rest[e[k]] = [ok |-> TRUE, pos |-> e[Len(s)] + 1, out |-> SubSeq(Kept(s), k + 1, Len(s))]
           /\ Len(text) < e[Len(s)] /\ e[k] <= Len(text) + 1 => Rest[e[k]] = Failed
<1> DEFINE L == Len(s)
           z == e[L]
           C(k) == /\ e[k] <= z
                   /\ z <= Len(text) =>
                        Rest[e[k]] = [ok |-> TRUE, pos |-> z + 1, out |-> SubSeq(Kept(s), k + 1, L)]
                   /\ Len(text) < z /\ e[k] <= Len(text) + 1 => Rest[e[k]] = Failed
           S == {j \in Nat : L - j \in 0..L => C(L - j)}
<1>1. /\ L \in Nat /\ Len(text) \in Nat /\ Len(text) <= Len(w) /\ Len(w) \in Nat
      /\ \A k \in 0..L : e[k] \in Nat \ {0}
      /\ \A k \in 1..L : s[k] \in Character
  BY LenProperties, ElementOfSeq DEF CutFrom, Text, Escaped
<1>2. \A x \in 1..Len(text) + 1 : Rest[x] = OneUnit(Rest, x)
  BY <1>1, RestIs
<1>3. Quote # Backslash
  BY DEF Quote, Backslash
<1>4. C(L)
  <2>1. SubSeq(Kept(s), L + 1, L) = <<>>
    BY <1>1, SubSeqEmpty
  <2>2. ASSUME z <= Len(text)
        PROVE  Rest[z] = [ok |-> TRUE, pos |-> z + 1, out |-> <<>>]
    <3>1. z \in 1..Len(text) /\ text[z] = Quote
      BY <1>1, <2>2 DEF CutFrom
    <3>2. There(z) /\ CharAt(z) = Quote
      BY <3>1 DEF There, CharAt
    <3>3. Unit(z) # {}
      BY <1>3, <3>2 DEF Unit
    <3>4. Rest[z] = OneUnit(Rest, z)
      BY <1>1, <1>2, <3>1
    <3> HIDE DEF z
    <3> QED BY <3>1, <3>2, <3>3, <3>4, Zenon DEF OneUnit
  <2>3. ASSUME Len(text) < z, z <= Len(text) + 1 PROVE Rest[z] = Failed
    <3>1. z \in 1..Len(text) + 1 /\ ~There(z)
      BY <1>1, <2>3 DEF There
    <3>2. Rest[z] = OneUnit(Rest, z)
      BY <1>2, <3>1
    <3> HIDE DEF z
    <3> QED BY <3>1, <3>2, Zenon DEF OneUnit
  <2>4. z <= z
    BY <1>1
  <2> QED BY <2>1, <2>2, <2>3, <2>4
<1>5. ASSUME NEW k \in 0..L - 1, C(k + 1) PROVE C(k)
  <2> DEFINE c == s[k + 1]
             m == Len(Written(c))
  <2>1. /\ k + 1 \in 1..L /\ (k + 1) - 1 = k /\ k \in 0..L /\ k + 1 \in 0..L
    BY <1>1
  <2>2. c \in Character /\ Part(w, e[k], Written(c)) /\ e[k + 1] = e[k] + m
    BY <1>1, <2>1 DEF Escaped
  <2>3. m \in Nat \ {0}
    BY <2>2, WrittenQuote
  <2>4. e[k] \in Nat \ {0} /\ z \in Nat \ {0}
    BY <1>1, <2>1
  <2> HIDE DEF c, m
  <2>5. /\ e[k] + m - 1 <= Len(text) =>
             There(e[k]) /\ text[e[k]] # Quote /\ Unit(e[k]) = {[out |-> KeptChar(c), size |-> m]}
        /\ Len(text) < e[k] + m - 1 => ~There(e[k]) \/ Unit(e[k]) = {}
    BY <2>2, UnitRead DEF m
  <2>6. e[k] + m - 1 <= Len(text) =>
          OneUnit(Rest, e[k]) =
            IF Rest[e[k + 1]].ok THEN [Rest[e[k + 1]] EXCEPT !.out = <<KeptChar(c)>> \o @] ELSE Failed
    BY <2>2, <2>5, OneUnitRead
  <2>7. Len(text) < e[k] + m - 1 => OneUnit(Rest, e[k]) = Failed
    BY <2>5, Zenon DEF OneUnit
  <2>8. e[k] <= z
    BY <1>5, <2>2, <2>3, <2>4
  <2>9. e[k] <= Len(text) + 1 => Rest[e[k]] = OneUnit(Rest, e[k])
    BY <1>1, <1>2, <2>4
  <2>10. ASSUME z <= Len(text)
         PROVE  Rest[e[k]] = [ok |-> TRUE, pos |-> z + 1, out |-> SubSeq(Kept(s), k + 1, L)]
    <3>1. e[k] + m - 1 <= Len(text) /\ e[k] <= Len(text) + 1
      <4>1. e[k] + m <= z /\ Len(text) \in Nat
        BY <1>1, <1>5, <2>2
      <4> HIDE DEF z, C
      <4> QED BY <2>3, <2>4, <2>10, <4>1
    <3>2. Rest[e[k + 1]] = [ok |-> TRUE, pos |-> z + 1, out |-> SubSeq(Kept(s), (k + 1) + 1, L)]
      BY <1>5, <2>10
    <3>3. SubSeq(Kept(s), k + 1, L) = <<KeptChar(c)>> \o SubSeq(Kept(s), (k + 1) + 1, L)
      BY <2>1, KeptTyped, SubSeqOfNext DEF c
    <3>4. Rest[e[k]] = [Rest[e[k + 1]] EXCEPT !.out = <<KeptChar(c)>> \o @]
      BY <2>6, <2>9, <3>1, <3>2
    <3>5. PICK out : out = SubSeq(Kept(s), (k + 1) + 1, L)
      OBVIOUS
    <3>6. PICK x : x = z + 1
      OBVIOUS
    <3>7. Rest[e[k + 1]] = [ok |-> TRUE, pos |-> x, out |-> out]
      BY <3>2, <3>5, <3>6
    <3>8. Rest[e[k]] = [ok |-> TRUE, pos |-> x, out |-> <<KeptChar(c)>> \o out]
      <4>1. PICK r : r = Rest[e[k + 1]]
        OBVIOUS
      <4>2. PICK y : y = Rest[e[k]]
        OBVIOUS
      <4>3. y = [r EXCEPT !.out = <<KeptChar(c)>> \o @]
        BY <3>4, <4>1, <4>2, Zenon
      <4>4. r = [ok |-> TRUE, pos |-> x, out |-> out]
        BY <3>7, <4>1, Zenon
      <4> QED BY <4>2, <4>3, <4>4, OneMoreOut, Zenon
    <3> QED BY <3>3, <3>5, <3>6, <3>8
  <2>11. ASSUME Len(text) < z, e[k] <= Len(text) + 1 PROVE Rest[e[k]] = Failed
    <3>1. CASE e[k] + m - 1 <= Len(text)
      <4>1. e[k + 1] <= Len(text) + 1
        BY <1>1, <2>2, <2>3, <2>4, <3>1
      <4>2. Rest[e[k + 1]] = Failed
        BY <1>5, <2>11, <4>1
      <4>3. ~Failed.ok
        BY DEF Failed
      <4> QED BY <2>6, <2>9, <2>11, <3>1, <4>2, <4>3
    <3>2. CASE ~(e[k] + m - 1 <= Len(text))
      BY <1>1, <2>3, <2>4, <2>7, <2>9, <2>11, <3>2
    <3> QED BY <3>1, <3>2
  <2> QED BY <2>8, <2>10, <2>11
<1> HIDE DEF C
<1>6. 0 \in S
  BY <1>1, <1>4
<1>7. ASSUME NEW j \in Nat, j \in S PROVE j + 1 \in S
  <2> SUFFICES ASSUME L - (j + 1) \in 0..L PROVE C(L - (j + 1))
    OBVIOUS
  <2>1. L - (j + 1) \in 0..L - 1 /\ (L - (j + 1)) + 1 = L - j /\ L - j \in 0..L
    BY <1>1
  <2>2. C((L - (j + 1)) + 1)
    BY <1>7, <2>1
  <2> QED BY <1>5, <2>1, <2>2
<1> HIDE DEF S
<1>8. Nat \subseteq S
  BY <1>6, <1>7, Induction
<1>9. \A k \in 0..L : C(k)
  <2> TAKE k \in 0..L
  <2>1. L - k \in Nat /\ L - (L - k) = k
    BY <1>1
  <2> QED BY <1>8, <2>1 DEF S
<1> QED BY <1>9, Zenon DEF C

\* The reader gets the string out from p, and goes on at m; or it gets none.
Reads(p, m, out) ==
  LET string == ParseJsonString(p) IN string.ok /\ string.pos = m /\ string.out = out
Broken(p) == ~ParseJsonString(p).ok

LEMMA ReadsOnce ==
  ASSUME NEW p, NEW m, NEW out, Reads(p, m, out)
  PROVE  /\ ~Broken(p)
         /\ \A m2, out2 : Reads(p, m2, out2) => m2 = m /\ out2 = out
  BY Zenon DEF Reads, Broken

LEMMA ReadsIf ==
  /\ \A p, m, out : ParseJsonString(p) = [ok |-> TRUE, pos |-> m, out |-> out] => Reads(p, m, out)
  /\ \A p : ParseJsonString(p) = Failed => Broken(p)
<1>1. ASSUME NEW p, NEW m, NEW out, ParseJsonString(p) = [ok |-> TRUE, pos |-> m, out |-> out]
      PROVE  Reads(p, m, out)
  <2>1. PICK r : r = ParseJsonString(p)
    OBVIOUS
  <2>2. r = [ok |-> TRUE, pos |-> m, out |-> out]
    BY <1>1, <2>1, Zenon
  <2>3. r.ok /\ r.pos = m /\ r.out = out
    BY <2>2
  <2> QED BY <2>1, <2>3, Zenon DEF Reads
<1>2. ~Failed.ok
  BY DEF Failed
<1> QED BY <1>1, <1>2, Zenon DEF Broken

\* A string that the text has to its closing quote is read as what is kept of it; from a
\* quote inside of it, it is read to the same end.
LEMMA QuoteOpens ==
  ASSUME Len(text) \in Nat, NEW q \in 1..Len(text), text[q] = Quote
  PROVE  ParseJsonString(q) = Rest[q + 1]
<1>1. CharAt(q) = Quote
  BY DEF CharAt, There
<1>2. Quote # Blank
  BY DEF Quote, Blank
<1>3. SkipWs(q) = q
  BY <1>1, <1>2 DEF SkipWs
<1> QED BY <1>1, <1>3, RestIs

LEMMA ReadString ==
  ASSUME NEW w, CutFrom(w), NEW q, NEW s, NEW z, StringAt(w, q, s, z), q <= Len(text)
  PROVE  /\ z <= Len(text) => Reads(q, z + 1, Kept(s))
         /\ Len(text) < z => Broken(q)
<1>1. /\ s \in Text /\ q \in Nat \ {0} /\ z \in q + 1..Len(w) /\ w[q] = Quote /\ w[z] = Quote
      /\ Len(text) \in Nat /\ Len(w) \in Nat /\ Len(s) \in Nat
  BY LenProperties DEF StringAt, CutFrom, Text
<1>2. PICK e : Escaped(w, q + 1, s, e) /\ e[Len(s)] = z
  BY DEF StringAt
<1>3. e[0] = q + 1
  BY <1>2 DEF Escaped
<1>4. /\ z <= Len(text) =>
           Rest[e[0]] = [ok |-> TRUE, pos |-> z + 1, out |-> SubSeq(Kept(s), 0 + 1, Len(s))]
      /\ Len(text) < z /\ e[0] <= Len(text) + 1 => Rest[e[0]] = Failed
  <2>1. 0 \in 0..Len(s) /\ z <= Len(w)
    BY <1>1
  <2> QED BY <1>1, <1>2, <2>1, ReadEscaped
<1>5. SubSeq(Kept(s), 0 + 1, Len(s)) = Kept(s)
  <2>1. Kept(s) \in Seq(Character) /\ Len(Kept(s)) = Len(s)
    BY <1>1, KeptTyped DEF Text
  <2> QED BY <2>1
<1>6. ParseJsonString(q) = Rest[q + 1]
  <2>1. q \in 1..Len(text) /\ text[q] = Quote
    BY <1>1 DEF CutFrom
  <2> QED BY <1>1, <2>1, QuoteOpens
<1>7. q + 1 <= Len(text) + 1
  BY <1>1
<1>8. z <= Len(text) => ParseJsonString(q) = [ok |-> TRUE, pos |-> z + 1, out |-> Kept(s)]
  BY <1>3, <1>4, <1>5, <1>6
<1>9. Len(text) < z => ParseJsonString(q) = Failed
  BY <1>3, <1>4, <1>6, <1>7
<1> QED BY <1>8, <1>9, ReadsIf, Zenon

LEMMA ReadFromInside ==
  ASSUME NEW w, CutFrom(w), NEW q, NEW s, NEW z, StringAt(w, q, s, z),
         NEW x \in q + 1..z - 1, x <= Len(text), w[x] = Quote
  PROVE  /\ z <= Len(text) => \E out : Reads(x, z + 1, out)
         /\ Len(text) < z => Broken(x)
<1>1. /\ s \in Text /\ q \in Nat \ {0} /\ z \in q + 1..Len(w) /\ w[q] = Quote /\ w[z] = Quote
      /\ Len(text) \in Nat /\ Len(w) \in Nat /\ Len(s) \in Nat /\ x \in Nat \ {0}
      /\ \A k \in 1..Len(s) : s[k] \in Character
  BY LenProperties, ElementOfSeq DEF StringAt, CutFrom, Text
<1>2. PICK e : Escaped(w, q + 1, s, e) /\ e[Len(s)] = z
  BY DEF StringAt
<1>3. PICK k \in 1..Len(s) : e[k - 1] <= x /\ x < e[k]
  <2>1. e \in [0..Len(s) -> Nat] /\ e[0] <= x /\ x < e[Len(s)]
    BY <1>1, <1>2 DEF Escaped
  <2> QED BY <1>1, <2>1, Covered
<1> DEFINE u == Written(s[k])
<1>4. Part(w, e[k - 1], u) /\ e[k] = e[k - 1] + Len(u) /\ e[k - 1] \in Nat \ {0}
  <2>1. Part(w, e[k - 1], u) /\ e[k] = e[k - 1] + Len(u)
    BY <1>2, Zenon DEF Escaped
  <2>2. k - 1 \in 0..Len(s)
    BY <1>1
  <2>3. e \in [0..Len(s) -> Nat \ {0}]
    BY <1>2 DEF Escaped
  <2> QED BY <2>1, <2>2, <2>3
<1>5. /\ Len(u) \in Nat \ {0}
      /\ \A j \in 1..Len(u) : u[j] = Quote => j = Len(u) /\ j # 1
  BY <1>1, WrittenQuote
<1> HIDE DEF u
<1>6. e[k] = x + 1
  <2>1. PICK b \in Nat \ {0} : b = e[k - 1]
    BY <1>4
  <2>2. PICK m \in Nat \ {0} : m = Len(u)
    BY <1>5
  <2>3. b <= x /\ x < b + m /\ e[k] = b + m
    BY <1>3, <1>4, <2>1, <2>2
  <2>4. PICK j \in 1..m : b - 1 + j = x
    <3>1. x - b + 1 \in 1..m /\ b - 1 + (x - b + 1) = x
      BY <1>1, <2>3
    <3> QED BY <3>1
  <2>5. u[j] = Quote
    <3>1. w[b - 1 + j] = u[j]
      BY <1>4, <2>1, <2>2 DEF Part
    <3> QED BY <2>4, <3>1
  <2>6. j = m
    BY <1>5, <2>2, <2>5
  <2> QED BY <1>1, <2>3, <2>4, <2>6
<1>7. /\ z <= Len(text) =>
           Rest[e[k]] = [ok |-> TRUE, pos |-> z + 1, out |-> SubSeq(Kept(s), k + 1, Len(s))]
      /\ Len(text) < z /\ e[k] <= Len(text) + 1 => Rest[e[k]] = Failed
  <2>1. k \in 0..Len(s) /\ z <= Len(w)
    BY <1>1
  <2>2. e[Len(s)] <= Len(w) /\ w[e[Len(s)]] = Quote
    BY <1>1, <1>2, <2>1
  <2> DEFINE C(i) ==
               /\ e[i] <= e[Len(s)]
               /\ e[Len(s)] <= Len(text) =>
                    Rest[e[i]] = [ok |-> TRUE, pos |-> e[Len(s)] + 1, out |-> SubSeq(Kept(s), i + 1, Len(s))]
               /\ Len(text) < e[Len(s)] /\ e[i] <= Len(text) + 1 => Rest[e[i]] = Failed
  <2>3. \A i \in 0..Len(s) : C(i)
    <3>1. s \in Text /\ Escaped(w, q + 1, s, e)
      BY <1>1, <1>2
    <3> QED BY <2>2, <3>1, ReadEscaped
  <2>4. C(k)
    <3> HIDE DEF C
    <3> QED BY <2>1, <2>3, Zenon
  <2> QED BY <1>2, <2>4, Zenon
<1>8. ParseJsonString(x) = Rest[x + 1]
  <2>1. x \in 1..Len(text) /\ text[x] = Quote
    BY <1>1 DEF CutFrom
  <2> QED BY <1>1, <2>1, QuoteOpens
<1>9. x + 1 <= Len(text) + 1
  BY <1>1
<1>10. z <= Len(text) =>
         ParseJsonString(x) = [ok |-> TRUE, pos |-> z + 1, out |-> SubSeq(Kept(s), k + 1, Len(s))]
  BY <1>6, <1>7, <1>8
<1>11. Len(text) < z => ParseJsonString(x) = Failed
  BY <1>6, <1>7, <1>8, <1>9
<1> QED BY <1>10, <1>11, ReadsIf, Zenon

\* From a closing quote, what stands behind it is read to the next quote, if there is one.
Plain(w, a, y) == \A x \in a..y - 1 : w[x] \notin {Quote, Backslash}

LEMMA ReadFromEnd ==
  ASSUME NEW w, CutFrom(w), NEW z \in Nat \ {0}, z <= Len(text), w[z] = Quote,
         NEW y \in z + 1..Len(w) + 1, Plain(w, z + 1, y), y <= Len(w) => w[y] = Quote
  PROVE  /\ y <= Len(text) => \E out : Reads(z, y + 1, out)
         /\ Len(text) < y => Broken(z)
<1> DEFINE C(x) == /\ y <= Len(text) => \E o : Rest[x] = [ok |-> TRUE, pos |-> y + 1, out |-> o]
                   /\ Len(text) < y /\ x <= Len(text) + 1 => Rest[x] = Failed
           S == {j \in Nat : y - j \in z + 1..y => C(y - j)}
<1>1. Len(text) \in Nat /\ Len(w) \in Nat /\ Len(text) <= Len(w)
  BY LenProperties DEF CutFrom, Text
<1>2. \A x \in 1..Len(text) + 1 : Rest[x] = OneUnit(Rest, x)
  BY <1>1, RestIs
<1>3. Quote # Backslash
  BY DEF Quote, Backslash
<1>4. C(y)
  <2>1. ASSUME y <= Len(text) PROVE Rest[y] = [ok |-> TRUE, pos |-> y + 1, out |-> <<>>]
    <3>1. y \in 1..Len(text) + 1 /\ y \in 1..Len(text) /\ text[y] = Quote
      BY <1>1, <2>1 DEF CutFrom
    <3>2. There(y) /\ CharAt(y) = Quote
      BY <3>1 DEF There, CharAt
    <3>3. Unit(y) # {}
      BY <1>3, <3>2 DEF Unit
    <3>4. Rest[y] = OneUnit(Rest, y)
      BY <1>2, <3>1
    <3> QED BY <3>1, <3>2, <3>3, <3>4, Zenon DEF OneUnit
  <2>2. ASSUME Len(text) < y, y <= Len(text) + 1 PROVE Rest[y] = Failed
    <3>1. y \in 1..Len(text) + 1 /\ ~There(y)
      BY <1>1, <2>2 DEF There
    <3>2. Rest[y] = OneUnit(Rest, y)
      BY <1>2, <3>1
    <3> QED BY <3>1, <3>2, Zenon DEF OneUnit
  <2> QED BY <2>1, <2>2
<1>5. ASSUME NEW x \in z + 1..y - 1, C(x + 1) PROVE C(x)
  <2>1. x \in 1..Len(w) /\ w[x] \notin {Quote, Backslash}
    BY <1>1 DEF Plain
  <2>2. x <= Len(text) =>
          There(x) /\ text[x] # Quote /\ Unit(x) = {[out |-> w[x], size |-> 1]}
    <3>1. x <= Len(text) => There(x) /\ text[x] = w[x] /\ CharAt(x) = w[x]
      BY <2>1 DEF There, CharAt, CutFrom
    <3> QED BY <2>1, <3>1 DEF Unit
  <2>3. x <= Len(text) =>
          Rest[x] = IF Rest[x + 1].ok THEN [Rest[x + 1] EXCEPT !.out = <<w[x]>> \o @] ELSE Failed
    <3>1. x <= Len(text) => Rest[x] = OneUnit(Rest, x)
      BY <1>1, <1>2, <2>1
    <3> QED BY <2>2, <3>1, OneUnitRead
  <2>4. ASSUME y <= Len(text) PROVE \E o : Rest[x] = [ok |-> TRUE, pos |-> y + 1, out |-> o]
    <3>1. PICK o : Rest[x + 1] = [ok |-> TRUE, pos |-> y + 1, out |-> o]
      BY <1>5, <2>4
    <3>2. x <= Len(text)
      BY <1>1, <2>1, <2>4
    <3>3. Rest[x] = [Rest[x + 1] EXCEPT !.out = <<w[x]>> \o @]
      BY <2>3, <3>1, <3>2
    <3>4. PICK r : r = Rest[x + 1]
      OBVIOUS
    <3>5. PICK v : v = Rest[x]
      OBVIOUS
    <3>6. v = [r EXCEPT !.out = <<w[x]>> \o @]
      BY <3>3, <3>4, <3>5, Zenon
    <3>7. r = [ok |-> TRUE, pos |-> y + 1, out |-> o]
      BY <3>1, <3>4, Zenon
    <3>8. v = [ok |-> TRUE, pos |-> y + 1, out |-> <<w[x]>> \o o]
      BY <3>6, <3>7, OneMoreOut, Zenon
    <3> QED BY <3>5, <3>8
  <2>5. ASSUME Len(text) < y, x <= Len(text) + 1 PROVE Rest[x] = Failed
    <3>1. CASE x <= Len(text)
      <4>1. x + 1 <= Len(text) + 1 /\ ~Failed.ok
        BY <1>1, <2>1, <3>1 DEF Failed
      <4>2. Rest[x + 1] = Failed
        BY <1>5, <2>5, <4>1
      <4> QED BY <2>3, <3>1, <4>1, <4>2
    <3>2. CASE ~(x <= Len(text))
      <4>1. x \in 1..Len(text) + 1 /\ ~There(x)
        BY <1>1, <2>1, <2>5, <3>2 DEF There
      <4>2. Rest[x] = OneUnit(Rest, x)
        BY <1>2, <4>1
      <4> QED BY <4>1, <4>2, Zenon DEF OneUnit
    <3> QED BY <3>1, <3>2
  <2> QED BY <2>4, <2>5
<1> HIDE DEF C
<1>6. 0 \in S
  BY <1>1, <1>4
<1>7. ASSUME NEW j \in Nat, j \in S PROVE j + 1 \in S
  <2> SUFFICES ASSUME y - (j + 1) \in z + 1..y PROVE C(y - (j + 1))
    OBVIOUS
  <2>1. y - (j + 1) \in z + 1..y - 1 /\ (y - (j + 1)) + 1 = y - j /\ y - j \in z + 1..y
    BY <1>1
  <2>2. C((y - (j + 1)) + 1)
    BY <1>7, <2>1
  <2> QED BY <1>5, <2>1, <2>2
<1> HIDE DEF S
<1>8. Nat \subseteq S
  BY <1>6, <1>7, Induction
<1>9. C(z + 1)
  <2>1. y - (z + 1) \in Nat /\ y - (y - (z + 1)) = z + 1 /\ z + 1 \in z + 1..y
    BY <1>1
  <2> QED BY <1>8, <2>1 DEF S
<1>10. ParseJsonString(z) = Rest[z + 1]
  <2>1. z \in 1..Len(text) /\ text[z] = Quote
    BY <1>1 DEF CutFrom
  <2> QED BY <1>1, <2>1, QuoteOpens
<1>11. z + 1 <= Len(text) + 1
  BY <1>1
<1>12. y <= Len(text) => \E out : Reads(z, y + 1, out)
  BY <1>9, <1>10, ReadsIf, Zenon DEF C
<1>13. Len(text) < y => Broken(z)
  BY <1>9, <1>10, <1>11, ReadsIf, Zenon DEF C
<1> QED BY <1>12, <1>13

(***************************************************************************)
(* Keys.  K is the set of the places at which the keys of a text open.     *)
(***************************************************************************)
KeyAt(w, g) ==
  /\ g \in Nat /\ g >= 2 /\ g + 4 <= Len(w)
  /\ w[g - 1] = Blank /\ w[g] = Quote /\ w[g + 1] \notin {Quote, Backslash, Blank, ":"}
  /\ w[g + 2] = Quote /\ w[g + 3] = ":" /\ w[g + 4] = Blank

\* What stands behind a closing quote at z is no colon, nor a blank and a colon.
NoColon(w, z) ==
  /\ z \in Nat /\ z + 2 <= Len(w)
  /\ w[z + 1] # ":"
  /\ w[z + 1] = Blank => w[z + 2] # ":"

LEMMA CharIs ==
  ASSUME NEW w, CutFrom(w), NEW x \in Nat \ {0}
  PROVE  CharAt(x) = IF x <= Len(text) THEN w[x] ELSE "end"
<1>1. Len(text) \in Nat
  BY LenProperties DEF CutFrom, Text
<1> QED BY <1>1 DEF CharAt, There, CutFrom

LEMMA NoColonThere ==
  ASSUME NEW w, CutFrom(w), NEW z, NoColon(w, z)
  PROVE  CharAt(SkipWs(z + 1)) # ":"
<1>1. z + 1 \in Nat \ {0} /\ z + 2 \in Nat \ {0} /\ (z + 1) + 1 = z + 2
  BY DEF NoColon
<1>2. CharAt(z + 1) \in {w[z + 1], "end"} /\ CharAt(z + 2) \in {w[z + 2], "end"}
  BY <1>1, CharIs
<1>3. "end" # ":" /\ Blank # ":" /\ "end" # Blank
  BY DEF Blank
<1>4. CASE CharAt(z + 1) = Blank
  <2>1. SkipWs(z + 1) = z + 2 /\ w[z + 1] = Blank
    BY <1>1, <1>2, <1>3, <1>4 DEF SkipWs
  <2> QED BY <1>2, <1>3, <2>1 DEF NoColon
<1>5. CASE CharAt(z + 1) # Blank
  <2>1. SkipWs(z + 1) = z + 1
    BY <1>5 DEF SkipWs
  <2> QED BY <1>2, <1>3, <2>1 DEF NoColon
<1> QED BY <1>4, <1>5

LEMMA KeyRead ==
  ASSUME NEW w, CutFrom(w), NEW g, KeyAt(w, g), g <= Len(text)
  PROVE  /\ g + 2 <= Len(text) => Reads(g, g + 3, <<w[g + 1]>>)
         /\ Len(text) < g + 2 => Broken(g)
<1>1. /\ g \in Nat /\ g >= 2 /\ Len(text) \in Nat /\ text[g] = Quote
      /\ g + 2 <= Len(text) => text[g + 2] = Quote
      /\ g + 1 <= Len(text) => text[g + 1] = w[g + 1]
      /\ w[g + 1] \notin {Quote, Backslash}
  <2>1. Len(text) \in Nat
    BY LenProperties DEF CutFrom, Text
  <2> QED BY <2>1 DEF KeyAt, CutFrom
<1>2. ParseJsonString(g) = Rest[g + 1]
  <2>1. g \in 1..Len(text)
    BY <1>1
  <2> QED BY <1>1, <2>1, QuoteOpens
<1>3. \A x \in 1..Len(text) + 1 : Rest[x] = OneUnit(Rest, x)
  BY <1>1, RestIs
<1>4. Rest[g + 1] = OneUnit(Rest, g + 1)
  BY <1>1, <1>3
<1>5. CASE g + 2 <= Len(text)
  <2>1. There(g + 1) /\ CharAt(g + 1) = w[g + 1] /\ text[g + 1] # Quote
    BY <1>1, <1>5 DEF There, CharAt
  <2>2. Unit(g + 1) = {[out |-> w[g + 1], size |-> 1]}
    BY <1>1, <2>1 DEF Unit
  <2>3. OneUnit(Rest, g + 1) =
          IF Rest[(g + 1) + 1].ok THEN [Rest[(g + 1) + 1] EXCEPT !.out = <<w[g + 1]>> \o @] ELSE Failed
    BY <2>1, <2>2, OneUnitRead
  <2>4. (g + 1) + 1 = g + 2 /\ g + 2 \in 1..Len(text) + 1 /\ (g + 2) + 1 = g + 3
    BY <1>1, <1>5
  <2>5. Rest[g + 2] = [ok |-> TRUE, pos |-> g + 3, out |-> <<>>]
    <3>1. There(g + 2) /\ CharAt(g + 2) = Quote /\ text[g + 2] = Quote
      BY <1>1, <1>5 DEF There, CharAt
    <3>2. Unit(g + 2) # {}
      <4>1. Quote # Backslash
        BY DEF Quote, Backslash
      <4> QED BY <3>1, <4>1 DEF Unit
    <3>3. OneUnit(Rest, g + 2) = [ok |-> TRUE, pos |-> (g + 2) + 1, out |-> <<>>]
      BY <3>1, <3>2, Zenon DEF OneUnit
    <3> QED BY <1>3, <2>4, <3>3
  <2>6. PICK r : r = Rest[g + 2]
    OBVIOUS
  <2>7. r = [ok |-> TRUE, pos |-> g + 3, out |-> <<>>]
    BY <2>5, <2>6
  <2>8. r.ok
    BY <2>7
  <2>9. Rest[g + 1] = [r EXCEPT !.out = <<w[g + 1]>> \o @]
    BY <1>4, <2>3, <2>4, <2>6, <2>8, Zenon
  <2>10. Rest[g + 1] = [ok |-> TRUE, pos |-> g + 3, out |-> <<w[g + 1]>> \o <<>>]
    <3>1. PICK y : y = Rest[g + 1]
      OBVIOUS
    <3>2. y = [r EXCEPT !.out = <<w[g + 1]>> \o @]
      BY <2>9, <3>1, Zenon
    <3>3. y = [ok |-> TRUE, pos |-> g + 3, out |-> <<w[g + 1]>> \o <<>>]
      BY <2>7, <3>2, OneMoreOut, Zenon
    <3> QED BY <3>1, <3>3, Zenon
  <2>11. <<w[g + 1]>> \o <<>> = <<w[g + 1]>>
    <3> DEFINE one == <<w[g + 1]>>
    <3>1. one \in Seq({w[g + 1]})
      OBVIOUS
    <3> HIDE DEF one
    <3>2. one \o <<>> = one
      BY <3>1, ConcatEmptySeq
    <3> QED BY <3>2 DEF one
  <2>12. ParseJsonString(g) = [ok |-> TRUE, pos |-> g + 3, out |-> <<w[g + 1]>>]
    BY <1>2, <2>10, <2>11, Zenon
  <2> QED BY <1>1, <1>5, <2>12, ReadsIf
<1>6. CASE ~(g + 2 <= Len(text))
  <2>1. CASE g + 1 <= Len(text)
    <3>1. There(g + 1) /\ CharAt(g + 1) = w[g + 1] /\ text[g + 1] # Quote
      BY <1>1, <2>1 DEF There, CharAt
    <3>2. Unit(g + 1) = {[out |-> w[g + 1], size |-> 1]}
      BY <1>1, <3>1 DEF Unit
    <3>3. OneUnit(Rest, g + 1) =
            IF Rest[(g + 1) + 1].ok THEN [Rest[(g + 1) + 1] EXCEPT !.out = <<w[g + 1]>> \o @] ELSE Failed
      BY <3>1, <3>2, OneUnitRead
    <3>4. (g + 1) + 1 \in 1..Len(text) + 1 /\ ~There((g + 1) + 1)
      BY <1>1, <1>6, <2>1 DEF There
    <3>5. Rest[(g + 1) + 1] = Failed
      BY <1>3, <3>4, Zenon DEF OneUnit
    <3>6. ~Failed.ok
      BY DEF Failed
    <3>7. ParseJsonString(g) = Failed
      BY <1>2, <1>4, <3>3, <3>5, <3>6, Zenon
    <3> QED BY <1>1, <1>6, <3>7, ReadsIf
  <2>2. CASE ~(g + 1 <= Len(text))
    <3>1. ~There(g + 1)
      BY <2>2 DEF There
    <3>2. ParseJsonString(g) = Failed
      BY <1>2, <1>4, <3>1, Zenon DEF OneUnit
    <3> QED BY <1>1, <1>6, <3>2, ReadsIf
  <2> QED BY <2>1, <2>2
<1> QED BY <1>5, <1>6

\* A quote with which the text ends opens no string.
LEMMA LastQuoteBroken ==
  ASSUME Len(text) \in Nat, NEW p \in 1..Len(text), text[p] = Quote, p = Len(text)
  PROVE  Broken(p)
<1>1. ParseJsonString(p) = Rest[p + 1]
  BY QuoteOpens
<1>2. p + 1 \in 1..Len(text) + 1 /\ ~There(p + 1)
  BY DEF There
<1>3. Rest[p + 1] = OneUnit(Rest, p + 1)
  BY <1>2, RestIs
<1>4. OneUnit(Rest, p + 1) = Failed
  BY <1>2, Zenon DEF OneUnit
<1> QED BY <1>1, <1>3, <1>4, ReadsIf, Zenon

\* A quote that belongs to a value passes for no key, and hides none.
Harmless(K, p) ==
  \/ \E m, out : Reads(p, m, out) /\ CharAt(SkipWs(m)) # ":"
  \/ Broken(p) /\ \A g \in K : g > p => Len(text) <= g + 2

LEMMA ValueHarmless ==
  ASSUME NEW w, CutFrom(w), NEW K, \A g \in K : KeyAt(w, g),
         NEW q, NEW s, NEW z, StringAt(w, q, s, z), NoColon(w, z), \A g \in K : g < q \/ g > z,
         NEW y \in z + 1..Len(w) + 1, Plain(w, z + 1, y), y <= Len(w) => w[y] = Quote /\ NoColon(w, y),
         NEW x \in q..z, x <= Len(text), w[x] = Quote
  PROVE  Harmless(K, x)
<1>1. /\ q \in Nat \ {0} /\ z \in q + 1..Len(w) /\ w[q] = Quote /\ w[z] = Quote
      /\ Len(text) \in Nat /\ Len(w) \in Nat /\ Len(text) <= Len(w) /\ x \in Nat
      /\ \A g \in K : g \in Nat /\ w[g] = Quote /\ g + 4 <= Len(w)
  BY LenProperties DEF StringAt, CutFrom, Text, KeyAt
<1>2. CASE x < z /\ z <= Len(text)
  <2>1. \E out : Reads(x, z + 1, out)
    <3>1. CASE x = q
      BY <1>2, <3>1, ReadString
    <3>2. CASE x # q
      <4>1. x \in q + 1..z - 1
        BY <1>1, <1>2, <3>2
      <4> QED BY <1>2, <4>1, ReadFromInside
    <3> QED BY <3>1, <3>2
  <2> QED BY <2>1, NoColonThere DEF Harmless
<1>3. CASE x < z /\ Len(text) < z
  <2>1. Broken(x)
    <3>1. CASE x = q
      BY <1>3, <3>1, ReadString
    <3>2. CASE x # q
      <4>1. x \in q + 1..z - 1
        BY <1>1, <1>3, <3>2
      <4> QED BY <1>3, <4>1, ReadFromInside
    <3> QED BY <3>1, <3>2
  <2>2. \A g \in K : g > x => Len(text) <= g + 2
    BY <1>1, <1>3
  <2> QED BY <2>1, <2>2 DEF Harmless
<1>4. CASE x = z /\ y <= Len(text)
  <2>1. \E out : Reads(x, y + 1, out)
    BY <1>1, <1>4, ReadFromEnd
  <2>2. NoColon(w, y)
    BY <1>1, <1>4
  <2> QED BY <2>1, <2>2, NoColonThere DEF Harmless
<1>5. CASE x = z /\ Len(text) < y
  <2>1. Broken(x)
    BY <1>1, <1>5, ReadFromEnd
  <2>2. ASSUME NEW g \in K, g > x PROVE Len(text) <= g + 2
    <3>1. g \notin z + 1..y - 1
      BY <1>1 DEF Plain
    <3> QED BY <1>1, <1>5, <2>2, <3>1
  <2> QED BY <2>1, <2>2 DEF Harmless
<1> QED BY <1>1, <1>2, <1>3, <1>4, <1>5

(***************************************************************************)
(* The search for a key.  Up to lim, every quote is known: one of a key,   *)
(* or harmless.  The search has begun at start, and passes over no key     *)
(* that it looks for, unless the text ends before its closing quote.       *)
(***************************************************************************)
Known(K, lim) ==
  \A p \in 1..Len(text) :
    text[p] = Quote /\ p <= lim => p \in K \/ (\E g \in K : p = g + 2) \/ Harmless(K, p)

Wanted(w, K, start, word) == {g \in K : g >= start /\ w[g + 1] = word}

Passed(w, K, start, p, word) ==
  /\ start <= p
  /\ \A g \in K : p = g + 1 \/ p = g + 2 => Len(text) <= g + 2
  /\ \A g \in Wanted(w, K, start, word) : g < p => Len(text) <= g + 2

Missing(w, K, start, word) == \A g \in Wanted(w, K, start, word) : Len(text) <= g + 2

\* What is known of the keys and of the search.
Searching(w, K, start, lim) ==
  /\ CutFrom(w) /\ \A g \in K : KeyAt(w, g)
  /\ start \in Nat /\ lim \in Nat
  /\ Known(K, lim)
  /\ lim >= Len(text) \/ \E g \in Wanted(w, K, start, key) : g + 2 = lim
  /\ pos \in 1..Len(text) + 1 /\ Passed(w, K, start, pos, key)

LEMMA KeysApart ==
  ASSUME NEW w, NEW g, KeyAt(w, g), NEW h, KeyAt(w, h), g < h PROVE g + 4 < h
<1>1. h # g + 1 /\ h # g + 2 /\ h # g + 3 /\ h # g + 4
  <2>1. (g + 2) - 1 = g + 1 /\ g \in Nat /\ h \in Nat
    BY DEF KeyAt
  <2>2. ":" # Quote /\ Blank # Quote
    BY DEF Quote, Blank
  <2> QED BY <2>1, <2>2 DEF KeyAt
<1> QED BY <1>1 DEF KeyAt

LEMMA SearchStep ==
  ASSUME NEW w, NEW K, NEW start, NEW lim, Searching(w, K, start, lim), NEW p \in NextQuote
  PROVE  \/ /\ p \in K /\ p + 3 <= Len(text) /\ Reads(p, p + 3, <<w[p + 1]>>)
            /\ w[p + 1] # key => Passed(w, K, start, p + 4, key)
            /\ p >= start
            /\ \A g \in Wanted(w, K, start, key) : p <= g
         \/ /\ \E m, out : Reads(p, m, out) /\ CharAt(SkipWs(m)) # ":"
            /\ Passed(w, K, start, p + 1, key)
         \/ Broken(p) /\ Missing(w, K, start, key)
<1>1. /\ CutFrom(w) /\ \A g \in K : KeyAt(w, g)
      /\ start \in Nat /\ lim \in Nat /\ pos \in Nat \ {0} /\ start <= pos /\ Len(text) \in Nat
  <2>1. Len(text) \in Nat
    BY LenProperties DEF Searching, CutFrom, Text
  <2> QED BY <2>1 DEF Searching, Passed
<1>2. /\ p \in Nat /\ pos <= p /\ p <= Len(text) /\ text[p] = Quote /\ w[p] = Quote
      /\ \A c \in pos..p - 1 : text[c] # Quote
  BY <1>1 DEF NextQuote, CutFrom
<1>3. /\ \A g \in K : pos = g + 1 \/ pos = g + 2 => Len(text) <= g + 2
      /\ \A g \in K : g >= start /\ w[g + 1] = key /\ g < pos => Len(text) <= g + 2
  BY DEF Searching, Passed, Wanted
<1>4. \A g \in K : /\ g \in Nat /\ g >= 2 /\ w[g] = Quote /\ w[g + 1] \notin {Quote, Backslash, Blank, ":"}
                   /\ g <= Len(text) => text[g] = Quote
  <2> TAKE g \in K
  <2>1. g \in Nat /\ g >= 2 /\ w[g] = Quote /\ w[g + 1] \notin {Quote, Backslash, Blank, ":"}
    BY <1>1, Zenon DEF KeyAt
  <2>2. ASSUME g <= Len(text) PROVE text[g] = w[g]
    <3>1. g \in 1..Len(text)
      BY <1>1, <2>1, <2>2
    <3> QED BY <1>1, <3>1, Zenon DEF CutFrom
  <2> QED BY <2>1, <2>2
<1>5. \A g \in K : g >= start /\ w[g + 1] = key /\ g < p => Len(text) <= g + 2
  <2> TAKE g \in K
  <2>1. g < p => g < pos
    BY <1>1, <1>2, <1>4
  <2> QED BY <1>3, <2>1
<1>6. p <= lim
  <2>1. CASE lim >= Len(text)
    BY <1>1, <1>2, <2>1
  <2>2. CASE \E g \in Wanted(w, K, start, key) : g + 2 = lim
    <3>1. PICK g \in K : g >= start /\ w[g + 1] = key /\ g + 2 = lim
      BY <2>2 DEF Wanted
    <3>2. g < p => Len(text) <= lim
      BY <1>5, <3>1
    <3> QED BY <1>1, <1>2, <1>4, <3>1, <3>2
  <2> QED BY <2>1, <2>2 DEF Searching
\* Whatever is passed over, the place behind p is not inside of a key that opens before.
<1>7. ASSUME Len(text) <= p + 2 \/ p \notin K PROVE Passed(w, K, start, p + 1, key)
  <2>1. start <= p + 1
    BY <1>1, <1>2
  <2>2. ASSUME NEW g \in K, p + 1 = g + 1 \/ p + 1 = g + 2 PROVE Len(text) <= g + 2
    <3>1. CASE p + 1 = g + 1
      BY <1>2, <1>4, <1>7, <3>1
    <3>2. CASE p + 1 = g + 2
      <4>1. p = g + 1
        BY <1>2, <1>4, <3>2
      <4> QED BY <1>2, <1>4, <4>1
    <3> QED BY <2>2, <3>1, <3>2
  <2>3. ASSUME NEW g \in K, g >= start, w[g + 1] = key, g < p + 1 PROVE Len(text) <= g + 2
    <3>1. g < p \/ g = p
      BY <1>2, <1>4, <2>3
    <3> QED BY <1>5, <1>7, <2>3, <3>1
  <2> QED BY <2>1, <2>2, <2>3 DEF Passed, Wanted
<1>8. CASE p \in K
  <2>1. KeyAt(w, p)
    BY <1>1, <1>8
  <2>2. CASE p + 3 <= Len(text)
    <3>1. Reads(p, p + 3, <<w[p + 1]>>)
      <4>1. p + 2 <= Len(text)
        BY <1>1, <1>2, <2>2
      <4> QED BY <1>1, <1>2, <2>1, <4>1, KeyRead, Zenon
    <3>2. ASSUME NEW g \in K, g >= start, w[g + 1] = key PROVE p <= g
      <4>1. g < p => Len(text) <= g + 2
        BY <1>5, <3>2
      <4> QED BY <1>1, <1>2, <1>4, <2>2, <4>1
    <3>3. ASSUME w[p + 1] # key PROVE Passed(w, K, start, p + 4, key)
      <4>1. start <= p + 4
        BY <1>1, <1>2
      <4>2. ASSUME NEW g \in K, p + 4 = g + 1 \/ p + 4 = g + 2 PROVE FALSE
        <5>1. p < g /\ g <= p + 4
          BY <1>2, <1>4, <4>2
        <5>2. p + 4 < g
          BY <1>1, <2>1, <5>1, KeysApart
        <5> QED BY <1>2, <1>4, <5>1, <5>2
      <4>3. ASSUME NEW g \in K, g >= start, w[g + 1] = key, g < p + 4 PROVE FALSE
        <5>1. p <= g
          BY <3>2, <4>3
        <5>2. p # g
          BY <3>3, <4>3
        <5>3. p + 4 < g
          <6>1. p < g
            BY <1>2, <1>4, <5>1, <5>2
          <6> QED BY <1>1, <2>1, <6>1, KeysApart
        <5> QED BY <1>2, <1>4, <4>3, <5>3
      <4> QED BY <4>1, <4>2, <4>3 DEF Passed, Wanted
    <3>4. p >= start
      BY <1>1, <1>2
    <3>5. \A g \in Wanted(w, K, start, key) : p <= g
      BY <3>2 DEF Wanted
    <3> QED BY <1>8, <2>2, <3>1, <3>3, <3>4, <3>5, Zenon
  <2>3. CASE p + 2 = Len(text)
    <3>1. Reads(p, p + 3, <<w[p + 1]>>)
      <4>1. p + 2 <= Len(text)
        BY <1>1, <1>2, <2>3
      <4> QED BY <1>1, <1>2, <2>1, <4>1, KeyRead, Zenon
    <3>2. CharAt(p + 3) = "end"
      BY <1>2, <2>3 DEF CharAt, There
    <3>3. CharAt(SkipWs(p + 3)) # ":"
      <4>1. "end" # ":" /\ "end" # Blank
        BY DEF Blank
      <4> QED BY <3>2, <4>1 DEF SkipWs
    <3>4. Passed(w, K, start, p + 1, key)
      BY <1>1, <1>2, <1>7, <2>3
    <3> QED BY <3>1, <3>3, <3>4
  <2>4. CASE Len(text) < p + 2
    <3>1. Broken(p)
      BY <1>1, <1>2, <2>1, <2>4, KeyRead
    <3>2. ASSUME NEW g \in K, g >= start, w[g + 1] = key PROVE Len(text) <= g + 2
      <4>1. g < p => Len(text) <= g + 2
        BY <1>5, <3>2
      <4> QED BY <1>1, <1>2, <1>4, <2>4, <4>1
    <3> QED BY <3>1, <3>2 DEF Missing, Wanted
  <2> QED BY <1>1, <1>2, <2>2, <2>3, <2>4
<1>9. CASE p \notin K /\ \E g \in K : p = g + 2
  <2>1. PICK g \in K : p = g + 2
    BY <1>9
  <2>2. Len(text) <= g + 2
    <3>1. pos = g + 1 \/ pos = g + 2 \/ pos <= g
      BY <1>1, <1>2, <1>4, <2>1
    <3>2. ~(pos <= g)
      <4>1. pos <= g => g \in pos..p - 1
        BY <1>1, <1>2, <1>4, <2>1
      <4>2. text[g] = Quote
        BY <1>1, <1>2, <1>4, <2>1
      <4> QED BY <1>2, <4>1, <4>2
    <3> QED BY <1>3, <3>1, <3>2
  <2>3. Broken(p)
    <3>1. p \in 1..Len(text) /\ p = Len(text)
      BY <1>1, <1>2, <1>4, <2>1, <2>2
    <3> QED BY <1>1, <1>2, <3>1, LastQuoteBroken
  <2>4. ASSUME NEW h \in K, h >= start, w[h + 1] = key PROVE Len(text) <= h + 2
    <3>1. h < p => Len(text) <= h + 2
      BY <1>5, <2>4
    <3> QED BY <1>1, <1>2, <1>4, <2>1, <2>2, <3>1
  <2> QED BY <2>3, <2>4 DEF Missing, Wanted
<1>10. CASE p \notin K /\ Harmless(K, p)
  <2>1. CASE \E m, out : Reads(p, m, out) /\ CharAt(SkipWs(m)) # ":"
    BY <1>7, <1>10, <2>1
  <2>2. CASE Broken(p) /\ \A g \in K : g > p => Len(text) <= g + 2
    <3>1. ASSUME NEW h \in K, h >= start, w[h + 1] = key PROVE Len(text) <= h + 2
      <4>1. h < p => Len(text) <= h + 2
        BY <1>5, <3>1
      <4>2. h # p
        BY <1>10
      <4> QED BY <1>1, <1>2, <1>4, <2>2, <4>1, <4>2
    <3> QED BY <2>2, <3>1 DEF Missing, Wanted
  <2> QED BY <1>10, <2>1, <2>2 DEF Harmless
<1> QED
  <2>1. p \in 1..Len(text)
    BY <1>1, <1>2
  <2>2. Known(K, lim)
    BY DEF Searching
  <2>3. p \in K \/ (\E g \in K : p = g + 2) \/ Harmless(K, p)
    BY <1>2, <1>6, <2>1, <2>2 DEF Known
  <2> QED BY <1>8, <1>9, <1>10, <2>3

\* The first of the keys that are looked for is the one that is found.
LEMMA FindStep ==
  ASSUME NEW w, NEW K, NEW start, NEW lim, Searching(w, K, start, lim), FindKeyValue
  PROVE  \/ pc' = pc /\ Passed(w, K, start, pos', key)
         \/ /\ Goto(Saver, "value")
            /\ \E g \in Wanted(w, K, start, key) :
                 /\ pos' = SkipWs(g + 4) /\ g + 3 <= Len(text)
                 /\ \A h \in Wanted(w, K, start, key) : g <= h
<1>0. PICK p \in NextQuote : \E m, out :
        /\ Reads(p, m, out)
        /\ \/ CharAt(SkipWs(m)) # ":" /\ pos' = p + 1 /\ pc' = pc
           \/ CharAt(SkipWs(m)) = ":" /\ out # <<key>> /\ pos' = SkipWs(m) + 1 /\ pc' = pc
           \/ CharAt(SkipWs(m)) = ":" /\ out = <<key>> /\ pos' = SkipWs(SkipWs(m) + 1)
              /\ Goto(Saver, "value")
  BY Zenon DEF FindKeyValue, Reads, Resume
<1>1. PICK m, out :
        /\ Reads(p, m, out)
        /\ \/ CharAt(SkipWs(m)) # ":" /\ pos' = p + 1 /\ pc' = pc
           \/ CharAt(SkipWs(m)) = ":" /\ out # <<key>> /\ pos' = SkipWs(m) + 1 /\ pc' = pc
           \/ CharAt(SkipWs(m)) = ":" /\ out = <<key>> /\ pos' = SkipWs(SkipWs(m) + 1)
              /\ Goto(Saver, "value")
  BY <1>0
<1>2. ~Broken(p) /\ \A m2, out2 : Reads(p, m2, out2) => m2 = m /\ out2 = out
  BY <1>1, ReadsOnce
<1>3. CASE /\ p \in K /\ p + 3 <= Len(text) /\ Reads(p, p + 3, <<w[p + 1]>>)
           /\ w[p + 1] # key => Passed(w, K, start, p + 4, key)
           /\ p >= start
           /\ \A g \in Wanted(w, K, start, key) : p <= g
  <2>1. m = p + 3 /\ out = <<w[p + 1]>>
    BY <1>2, <1>3, Zenon
  <2>2. KeyAt(w, p) /\ CutFrom(w)
    BY <1>3 DEF Searching
  <2>3. p + 3 \in Nat \ {0} /\ p \in Nat /\ (p + 3) + 1 = p + 4
    BY <2>2 DEF KeyAt
  <2>4. CharAt(p + 3) = ":"
    <3>1. CharAt(p + 3) = w[p + 3]
      BY <1>3, <2>2, <2>3, CharIs
    <3> QED BY <2>2, <3>1 DEF KeyAt
  <2>5. SkipWs(m) = p + 3
    <3>1. ":" # Blank
      BY DEF Blank
    <3> QED BY <2>1, <2>4, <3>1 DEF SkipWs
  <2>6. CharAt(SkipWs(m)) = ":"
    BY <2>4, <2>5
  <2>7. out = <<key>> <=> w[p + 1] = key
    BY <2>1
  <2>8. CASE w[p + 1] = key
    <3>1. pos' = SkipWs(p + 4) /\ Goto(Saver, "value")
      BY <1>1, <2>3, <2>5, <2>6, <2>7, <2>8, Zenon
    <3>2. p \in Wanted(w, K, start, key)
      BY <1>3, <2>8 DEF Wanted
    <3> QED BY <1>3, <3>1, <3>2
  <2>9. CASE w[p + 1] # key
    <3>1. pos' = p + 4 /\ pc' = pc
      BY <1>1, <2>3, <2>5, <2>6, <2>7, <2>9, Zenon
    <3> QED BY <1>3, <2>9, <3>1, Zenon
  <2> QED BY <2>8, <2>9
<1>4. CASE /\ \E m2, out2 : Reads(p, m2, out2) /\ CharAt(SkipWs(m2)) # ":"
           /\ Passed(w, K, start, p + 1, key)
  <2>1. CharAt(SkipWs(m)) # ":"
    BY <1>2, <1>4, Zenon
  <2>2. pos' = p + 1 /\ pc' = pc
    BY <1>1, <2>1, Zenon
  <2> QED BY <1>4, <2>2, Zenon
<1> QED BY <1>2, <1>3, <1>4, SearchStep, Zenon

LEMMA MissStep ==
  ASSUME NEW w, NEW K, NEW start, NEW lim, Searching(w, K, start, lim), KeyMissing
  PROVE  Missing(w, K, start, key)
<1>1. \A p \in NextQuote : Broken(p)
  BY Zenon DEF KeyMissing, Broken
<1>2. CASE NextQuote # {}
  <2>1. PICK p \in NextQuote : TRUE
    BY <1>2
  <2>2. Broken(p)
    BY <1>1
  <2>3. \A m, out : ~Reads(p, m, out)
    BY <2>2, ReadsOnce, Zenon
  <2> QED BY <2>3, SearchStep, Zenon
<1>3. CASE NextQuote = {}
  <2>1. /\ CutFrom(w) /\ \A g \in K : KeyAt(w, g)
        /\ start \in Nat /\ pos \in Nat \ {0} /\ Len(text) \in Nat
    <3>1. Len(text) \in Nat
      BY LenProperties DEF Searching, CutFrom, Text
    <3> QED BY <3>1 DEF Searching, Passed
  <2>2. ASSUME NEW x \in pos..Len(text) PROVE text[x] # Quote
    <3> DEFINE S == {y \in pos..Len(text) : text[y] = Quote}
    <3> SUFFICES ASSUME S # {} PROVE FALSE
      OBVIOUS
    <3>1. S \in SUBSET Nat
      BY <2>1
    <3>2. PICK y \in S : \A v \in S : y <= v
      <4> HIDE DEF S
      <4> QED BY <3>1, Smallest
    <3>3. \A c \in pos..y - 1 : c \in pos..Len(text) /\ ~(y <= c)
      BY <2>1, <3>1
    <3>4. y \in NextQuote
      BY <2>1, <3>2, <3>3 DEF NextQuote
    <3> QED BY <1>3, <3>4
  <2>3. ASSUME NEW g \in Wanted(w, K, start, key) PROVE Len(text) <= g + 2
    <3>1. g \in K /\ g \in Nat /\ g >= 2 /\ w[g] = Quote
      BY <2>1 DEF Wanted, KeyAt
    <3>2. g < pos => Len(text) <= g + 2
      BY DEF Searching, Passed
    <3>3. g <= Len(text) => text[g] = Quote
      BY <2>1, <3>1 DEF CutFrom
    <3> QED BY <2>1, <2>2, <3>1, <3>2, <3>3
  <2> QED BY <2>3 DEF Missing
<1> QED BY <1>2, <1>3

\* The value of the key that opens at g.
LEMMA ReadValue ==
  ASSUME NEW w, CutFrom(w), NEW g, KeyAt(w, g), g + 3 <= Len(text),
         NEW s, NEW z, StringAt(w, g + 5, s, z)
  PROVE  /\ z <= Len(text) => Reads(SkipWs(g + 4), z + 1, Kept(s))
         /\ Len(text) < z => Broken(SkipWs(g + 4))
<1>1. /\ g \in Nat /\ Len(text) \in Nat /\ w[g + 4] = Blank /\ w[g + 5] = Quote
      /\ z \in Nat /\ z >= g + 6
      /\ g + 4 \in Nat \ {0} /\ g + 5 \in Nat \ {0} /\ (g + 4) + 1 = g + 5
  <2>1. Len(text) \in Nat /\ Len(w) \in Nat
    BY LenProperties DEF CutFrom, Text
  <2> QED BY <2>1 DEF KeyAt, StringAt
<1>2. Blank # "end" /\ Blank # Quote /\ Quote # "end"
  BY DEF Blank, Quote
<1>3. CASE Len(text) < g + 4
  <2>1. CharAt(g + 4) = "end"
    BY <1>1, <1>3, CharIs
  <2>2. SkipWs(g + 4) = g + 4
    BY <1>2, <2>1 DEF SkipWs
  <2>3. ParseJsonString(g + 4) = Failed
    BY <1>1, <1>2, <2>1, <2>2, RestIs
  <2> QED BY <1>1, <1>3, <2>2, <2>3, ReadsIf
<1>4. CASE g + 4 <= Len(text)
  <2>1. CharAt(g + 4) = Blank
    BY <1>1, <1>4, CharIs
  <2>2. SkipWs(g + 4) = g + 5
    BY <1>1, <2>1 DEF SkipWs
  <2>3. CASE g + 5 <= Len(text)
    BY <2>2, <2>3, ReadString
  <2>4. CASE Len(text) < g + 5
    <3>1. CharAt(g + 5) = "end"
      BY <1>1, <2>4, CharIs
    <3>2. SkipWs(g + 5) = g + 5
      BY <1>2, <3>1 DEF SkipWs
    <3>3. ParseJsonString(g + 5) = Failed
      BY <1>1, <1>2, <3>1, <3>2, RestIs
    <3> QED BY <1>1, <2>2, <2>4, <3>3, ReadsIf
  <2> QED BY <1>1, <2>3, <2>4
<1> QED BY <1>1, <1>3, <1>4

(***************************************************************************)
(* The layout of the elements of an array, and of a baseline.              *)
(***************************************************************************)
LEMMA SmallParts ==
  ASSUME NEW w, NEW p
  PROVE  /\ \A a : Part(w, p, <<a>>) => p \in Nat \ {0} /\ p <= Len(w) /\ w[p] = a
         /\ \A a, b : Part(w, p, <<a, b>>) =>
              p \in Nat \ {0} /\ p + 1 <= Len(w) /\ w[p] = a /\ w[p + 1] = b
<1>1. ASSUME NEW a, Part(w, p, <<a>>) PROVE p \in Nat \ {0} /\ p <= Len(w) /\ w[p] = a
  <2>1. Len(<<a>>) = 1 /\ <<a>>[1] = a
    OBVIOUS
  <2>2. p \in Nat \ {0} /\ p - 1 + 1 <= Len(w) /\ w[p - 1 + 1] = a
    BY <1>1, <2>1 DEF Part
  <2>3. p - 1 + 1 = p
    BY <2>2
  <2> QED BY <2>2, <2>3, Zenon
<1>2. ASSUME NEW a, NEW b, Part(w, p, <<a, b>>)
      PROVE  p \in Nat \ {0} /\ p + 1 <= Len(w) /\ w[p] = a /\ w[p + 1] = b
  <2>1. Len(<<a, b>>) = 2 /\ <<a, b>>[1] = a /\ <<a, b>>[2] = b
    OBVIOUS
  <2>2. p \in Nat \ {0} /\ p - 1 + 2 <= Len(w) /\ w[p - 1 + 1] = a /\ w[p - 1 + 2] = b
    BY <1>2, <2>1 DEF Part
  <2>3. p - 1 + 1 = p /\ p - 1 + 2 = p + 1
    BY <2>2
  <2> QED BY <2>2, <2>3, Zenon
<1> QED BY <1>1, <1>2

LEMMA KeyParts ==
  ASSUME NEW w, NEW p, NEW k, k \notin {Quote, Backslash, Blank, ":"}, Part(w, p, Key(k))
  PROVE  KeyAt(w, p + 1) /\ w[p + 2] = k /\ p \in Nat \ {0} /\ w[p] = Blank
<1>1. /\ Len(Key(k)) = 6 /\ Key(k)[1] = Blank /\ Key(k)[2] = Quote /\ Key(k)[3] = k
      /\ Key(k)[4] = Quote /\ Key(k)[5] = ":" /\ Key(k)[6] = Blank
  BY DEF Key
<1>2. /\ p \in Nat \ {0} /\ p - 1 + 6 <= Len(w) /\ w[p - 1 + 1] = Blank /\ w[p - 1 + 2] = Quote
      /\ w[p - 1 + 3] = k /\ w[p - 1 + 4] = Quote /\ w[p - 1 + 5] = ":" /\ w[p - 1 + 6] = Blank
  BY <1>1 DEF Part
<1>3. /\ p - 1 + 1 = p /\ (p + 1) - 1 = p /\ p - 1 + 2 = p + 1 /\ p - 1 + 3 = p + 2 /\ (p + 1) + 1 = p + 2
      /\ p - 1 + 4 = p + 3 /\ (p + 1) + 2 = p + 3 /\ p - 1 + 5 = p + 4 /\ (p + 1) + 3 = p + 4
      /\ p - 1 + 6 = p + 5 /\ (p + 1) + 4 = p + 5 /\ p + 1 \in Nat /\ p + 1 >= 2
  BY <1>2
<1> QED BY <1>2, <1>3, Zenon DEF KeyAt

LEMMA ConcatLen ==
  ASSUME NEW a \in Text, NEW b \in Text
  PROVE  a \o b \in Text /\ Len(a \o b) = Len(a) + Len(b) /\ Len(a) \in Nat /\ Len(b) \in Nat
  BY ConcatProperties, LenProperties DEF Text

\* The elements begin at the blanks at e; a comma ends each but the last.
ElementsAt(w, p, es, e) ==
  /\ e \in [0..Len(es) -> Nat \ {0}] /\ e[0] = p /\ e[Len(es)] = p + Len(Elements(es))
  /\ \A k \in 1..Len(es) :
       /\ w[e[k - 1]] = Blank /\ Part(w, e[k - 1] + 1, es[k])
       /\ k < Len(es) => /\ w[e[k - 1] + 1 + Len(es[k])] = ","
                         /\ e[k] = e[k - 1] + 2 + Len(es[k])
       /\ k = Len(es) => e[k] = e[k - 1] + 1 + Len(es[k])

LEMMA PartsOfElements ==
  ASSUME NEW w \in Text, NEW es \in Seq(Text), NEW p, Part(w, p, Elements(es))
  PROVE  /\ Elements(es) \in Text
         /\ \E e : ElementsAt(w, p, es, e)
<1> DEFINE f == [k \in DOMAIN es |-> <<Blank>> \o es[k] \o (IF k < Len(es) THEN <<",">> ELSE <<>>)]
           comma(k) == IF k < Len(es) THEN <<",">> ELSE <<>>
<1>1. Len(es) \in Nat /\ DOMAIN es = 1..Len(es) /\ \A k \in 1..Len(es) : es[k] \in Text
  BY LenProperties, ElementOfSeq
<1>2. /\ <<Blank>> \in Text /\ Len(<<Blank>>) = 1
      /\ \A k : comma(k) \in Text /\ Len(comma(k)) = IF k < Len(es) THEN 1 ELSE 0
  BY SmallTexts DEF Character
<1> HIDE DEF comma
<1>3. \A k \in 1..Len(es) :
        /\ f[k] = (<<Blank>> \o es[k]) \o comma(k)
        /\ <<Blank>> \o es[k] \in Text /\ f[k] \in Text
        /\ Len(<<Blank>> \o es[k]) = 1 + Len(es[k]) /\ Len(es[k]) \in Nat
        /\ Len(f[k]) = (1 + Len(es[k])) + Len(comma(k))
  <2> TAKE k \in 1..Len(es)
  <2> DEFINE blank == <<Blank>>
  <2>1. f[k] = (blank \o es[k]) \o comma(k)
    BY <1>1 DEF comma
  <2>2. blank \in Text /\ Len(blank) = 1
    BY <1>2
  <2> HIDE DEF blank, f
  <2>3. blank \o es[k] \in Text /\ Len(blank \o es[k]) = 1 + Len(es[k]) /\ Len(es[k]) \in Nat
    <3>1. es[k] \in Text
      BY <1>1
    <3> QED BY <2>2, <3>1, ConcatLen
  <2>4. f[k] \in Text /\ Len(f[k]) = (1 + Len(es[k])) + Len(comma(k))
    <3>1. comma(k) \in Text
      BY <1>2
    <3>2. PICK a \in Text : a = blank \o es[k]
      BY <2>3
    <3>3. f[k] = a \o comma(k)
      BY <2>1, <3>2
    <3> QED BY <2>3, <3>1, <3>2, <3>3, ConcatLen
  <2> QED BY <2>1, <2>3, <2>4 DEF blank
<1>4. f \in Seq(Text) /\ Len(f) = Len(es)
  <2>1. f \in [1..Len(es) -> Text]
    BY <1>1, <1>3
  <2> HIDE DEF f
  <2> QED BY <1>1, <2>1, SeqDef, LenProperties
<1>5. Elements(es) = FlattenSeq(f)
  BY Zenon DEF Elements
<1> HIDE DEF f
<1>6. Elements(es) \in Text
  BY <1>4, <1>5, FlattenTyped DEF Text
<1>7. PICK e : Places(w, p, f, e)
  BY <1>4, <1>5, PartsOfFlatten
<1>8. e \in [0..Len(es) -> Nat \ {0}] /\ e[0] = p /\ e[Len(es)] = p + Len(Elements(es))
  BY <1>4, <1>5, <1>7 DEF Places
<1>9. ASSUME NEW k \in 1..Len(es)
      PROVE  /\ w[e[k - 1]] = Blank /\ Part(w, e[k - 1] + 1, es[k])
             /\ k < Len(es) => /\ w[e[k - 1] + 1 + Len(es[k])] = ","
                               /\ e[k] = e[k - 1] + 2 + Len(es[k])
             /\ k = Len(es) => e[k] = e[k - 1] + 1 + Len(es[k])
  <2>1. Part(w, e[k - 1], f[k]) /\ e[k] = e[k - 1] + Len(f[k])
    BY <1>4, <1>7 DEF Places
  <2>2. PICK b \in Nat \ {0} : b = e[k - 1]
    <3>1. k - 1 \in 0..Len(es)
      BY <1>1
    <3> QED BY <1>8, <3>1
  <2> DEFINE blank == <<Blank>>
  <2>3. /\ f[k] = (blank \o es[k]) \o comma(k) /\ blank \o es[k] \in Text
        /\ Len(blank \o es[k]) = 1 + Len(es[k]) /\ blank \in Text /\ Len(blank) = 1 /\ es[k] \in Text
        /\ comma(k) \in Text
    BY <1>1, <1>2, <1>3
  <2> HIDE DEF blank
  <2>4. Part(w, b, blank \o es[k]) /\ Part(w, b + (1 + Len(es[k])), comma(k))
    <3>1. PICK a \in Text : a = blank \o es[k]
      BY <2>3
    <3>2. Part(w, b, a \o comma(k))
      BY <2>1, <2>2, <2>3, <3>1, Zenon
    <3>3. Part(w, b, a) /\ Part(w, b + Len(a), comma(k))
      BY <2>3, <3>2, PartsOfConcat
    <3> QED BY <2>3, <3>1, <3>3, Zenon
  <2>5. Part(w, b, blank) /\ Part(w, b + 1, es[k])
    BY <2>3, <2>4, PartsOfConcat
  <2>6. w[b] = Blank
    BY <2>5, SmallParts DEF blank
  <2>7. PICK m \in Nat : m = Len(es[k])
    BY <1>3
  <2>8. e[k] = b + ((1 + m) + Len(comma(k)))
    BY <1>3, <2>1, <2>2, <2>7
  <2>9. CASE k < Len(es)
    <3>1. comma(k) = <<",">> /\ Len(comma(k)) = 1
      BY <1>2, <2>9 DEF comma
    <3>2. w[b + (1 + m)] = ","
      <4>1. Part(w, b + (1 + m), <<",">>)
        BY <2>4, <2>7, <3>1, Zenon
      <4> QED BY <4>1, SmallParts, Zenon
    <3>3. b + (1 + m) = b + 1 + m /\ b + ((1 + m) + 1) = b + 2 + m
      OBVIOUS
    <3>4. w[b + 1 + m] = "," /\ e[k] = b + 2 + m
      BY <2>8, <3>1, <3>2, <3>3
    <3>5. k # Len(es)
      <4>1. PICK l \in Nat : l = Len(es)
        BY <1>1
      <4>2. k \in 1..l /\ k < l
        BY <2>9, <4>1
      <4>3. k # l
        BY <4>2
      <4> QED BY <4>1, <4>3
    <3> QED BY <2>2, <2>5, <2>6, <2>7, <3>4, <3>5
  <2>10. CASE ~(k < Len(es))
    <3>1. Len(comma(k)) = 0
      BY <1>2, <2>10
    <3>2. e[k] = b + 1 + m
      BY <2>8, <3>1
    <3> QED BY <2>2, <2>5, <2>6, <2>7, <2>10, <3>2
  <2> QED BY <2>9, <2>10
<1>10. ElementsAt(w, p, es, e)
  BY <1>8, <1>9 DEF ElementsAt
<1> QED BY <1>6, <1>10

Fingerprint(d, k) == d.items[k].fingerprint

\* The app of a baseline closes at z; its elements begin at e.
BaselineAt(w, d, z, e) ==
  /\ w[1] = "{" /\ KeyAt(w, 3) /\ w[4] = "schema_version" /\ w[8] = "1" /\ w[9] = ","
  /\ KeyAt(w, 11) /\ w[12] = "app" /\ StringAt(w, 16, d.app, z) /\ w[z + 1] = ","
  /\ KeyAt(w, z + 3) /\ w[z + 4] = "allowed" /\ w[z + 8] = "[" /\ z + 10 <= Len(w)
  /\ e \in [0..Len(d.items) -> Nat \ {0}] /\ e[0] = z + 9
  /\ Len(d.items) = 0 => w[z + 9] = Blank /\ w[z + 10] = "]"
  /\ \A k \in 1..Len(d.items) :
       /\ w[e[k - 1]] = Blank
       /\ \E c : /\ StringAt(w, e[k - 1] + 1, Fingerprint(d, k), c)
                 /\ k < Len(d.items) => w[c + 1] = "," /\ e[k] = c + 2
                 /\ k = Len(d.items) => c + 2 <= Len(w) /\ w[c + 1] = Blank /\ w[c + 2] = "]"

LEMMA BaselineLayout ==
  ASSUME NEW d \in Documents, d.kind = "baseline"
  PROVE  \E z, e : BaselineAt(TextOf(d), d, z, e)
<1> DEFINE N == Len(d.items)
           es == [k \in DOMAIN d.items |-> JsonString(d.items[k].fingerprint)]
           schema == Key("schema_version")
           one == <<"1", ",">>
           appKey == Key("app")
           string == JsonString(d.app)
           comma == <<",">>
           allowed == Key("allowed")
           bracket == <<"[">>
           array == Elements(es)
           ending == <<Blank, "]", Blank, "}", Blank>>
           x1 == <<"{">>
           x2 == x1 \o schema
           x3 == x2 \o one
           x4 == x3 \o appKey
           x5 == x4 \o string
           x6 == x5 \o comma
           x7 == x6 \o allowed
           x8 == x7 \o bracket
           x9 == x8 \o array
           x10 == x9 \o ending
           m == Len(string)
<1>1. /\ d.app \in Text /\ N \in Nat /\ DOMAIN d.items = 1..N
      /\ \A k \in 1..N : Fingerprint(d, k) \in Text
  BY DocumentIs DEF Fingerprint
<1>2. es \in Seq(Text) /\ Len(es) = N /\ \A k \in 1..N : es[k] = JsonString(Fingerprint(d, k))
  <2>1. \A k \in 1..N : JsonString(d.items[k].fingerprint) \in Text
    BY <1>1, JsonStringTyped DEF Fingerprint
  <2>2. es \in [1..N -> Text]
    BY <1>1, <2>1
  <2>3. \A k \in 1..N : es[k] = JsonString(Fingerprint(d, k))
    BY <1>1 DEF Fingerprint
  <2> HIDE DEF es
  <2> QED BY <1>1, <2>2, <2>3, SeqDef, LenProperties
<1>3. PICK w \in Text : w = TextOf(d)
  BY DocumentTyped
<1>4. w = x10
  BY <1>3, Zenon DEF TextOf, BaselineText
<1> HIDE DEF es, N
<1>5. array \in Text /\ string \in Text
  <2>1. es \in [DOMAIN es -> Text]
    BY <1>2, SeqDef, LenProperties
  <2> QED BY <1>1, <1>2, <2>1, ElementsTyped, JsonStringTyped
<1>6. m \in Nat
  BY <1>5, LenProperties DEF Text
<1> HIDE DEF m
<1>7. /\ schema \in Text /\ Len(schema) = 6 /\ appKey \in Text /\ Len(appKey) = 6
      /\ allowed \in Text /\ Len(allowed) = 6
      /\ x1 \in Text /\ Len(x1) = 1 /\ one \in Text /\ Len(one) = 2 /\ comma \in Text /\ Len(comma) = 1
      /\ bracket \in Text /\ Len(bracket) = 1 /\ ending \in Text
  BY BetweenTexts
<1> HIDE DEF x1, schema, one, appKey, comma, allowed, bracket, ending, string, array
<1>8. x2 \in Text /\ Len(x2) = Len(x1) + Len(schema)
  BY <1>7, ConcatLen, Zenon
<1> HIDE DEF x2
<1>9. x3 \in Text /\ Len(x3) = Len(x2) + Len(one)
  BY <1>7, <1>8, ConcatLen, Zenon
<1> HIDE DEF x3
<1>10. x4 \in Text /\ Len(x4) = Len(x3) + Len(appKey)
  BY <1>7, <1>9, ConcatLen, Zenon
<1> HIDE DEF x4
<1>11. x5 \in Text /\ Len(x5) = Len(x4) + Len(string)
  BY <1>5, <1>10, ConcatLen, Zenon
<1> HIDE DEF x5
<1>12. x6 \in Text /\ Len(x6) = Len(x5) + Len(comma)
  BY <1>7, <1>11, ConcatLen, Zenon
<1> HIDE DEF x6
<1>13. x7 \in Text /\ Len(x7) = Len(x6) + Len(allowed)
  BY <1>7, <1>12, ConcatLen, Zenon
<1> HIDE DEF x7
<1>14. x8 \in Text /\ Len(x8) = Len(x7) + Len(bracket)
  BY <1>7, <1>13, ConcatLen, Zenon
<1> HIDE DEF x8
<1>15. x9 \in Text /\ Len(x9) = Len(x8) + Len(array)
  BY <1>5, <1>14, ConcatLen, Zenon
<1> HIDE DEF x9
<1>16. Part(w, 1, x9) /\ Part(w, 1 + Len(x9), ending)
  <2>1. Part(w, 1, x10)
    BY <1>4, WholePart
  <2> QED BY <1>7, <1>15, <2>1, PartsOfConcat
<1>17. Part(w, 1, x8) /\ Part(w, 1 + Len(x8), array)
  BY <1>5, <1>14, <1>16, PartsOfConcat DEF x9
<1>18. Part(w, 1, x7) /\ Part(w, 1 + Len(x7), bracket)
  BY <1>13, <1>17, <1>7, PartsOfConcat DEF x8
<1>19. Part(w, 1, x6) /\ Part(w, 1 + Len(x6), allowed)
  BY <1>12, <1>18, <1>7, PartsOfConcat DEF x7
<1>20. Part(w, 1, x5) /\ Part(w, 1 + Len(x5), comma)
  BY <1>11, <1>19, <1>7, PartsOfConcat DEF x6
<1>21. Part(w, 1, x4) /\ Part(w, 1 + Len(x4), string)
  BY <1>5, <1>10, <1>20, PartsOfConcat DEF x5
<1>22. Part(w, 1, x3) /\ Part(w, 1 + Len(x3), appKey)
  BY <1>9, <1>21, <1>7, PartsOfConcat DEF x4
<1>23. Part(w, 1, x2) /\ Part(w, 1 + Len(x2), one)
  BY <1>8, <1>22, <1>7, PartsOfConcat DEF x3
<1>24. Part(w, 1, x1) /\ Part(w, 1 + Len(x1), schema)
  BY <1>7, <1>23, PartsOfConcat DEF x2
<1>25. PICK z \in Nat : z = 15 + m
  BY <1>6
<1>26. /\ 1 + Len(x1) = 2 /\ 1 + Len(x2) = 8 /\ 1 + Len(x3) = 10 /\ 1 + Len(x4) = 16
       /\ 1 + Len(x5) = z + 1 /\ 1 + Len(x6) = z + 2 /\ 1 + Len(x7) = z + 8 /\ 1 + Len(x8) = z + 9
       /\ 1 + Len(x9) = (z + 9) + Len(array)
  <2>1. Len(array) \in Nat
    BY <1>5, LenProperties DEF Text
  <2>2. Len(x5) = 15 + m
    BY <1>7, <1>8, <1>9, <1>10, <1>11 DEF m
  <2> HIDE DEF m
  <2> QED BY <1>6, <1>7, <1>8, <1>9, <1>10, <1>12, <1>13, <1>14, <1>15, <1>25, <2>1, <2>2
<1>27. /\ Part(w, 2, schema) /\ Part(w, 8, one) /\ Part(w, 10, appKey) /\ Part(w, 16, string)
       /\ Part(w, z + 1, comma) /\ Part(w, z + 2, allowed) /\ Part(w, z + 8, bracket)
       /\ Part(w, z + 9, array) /\ Part(w, (z + 9) + Len(array), ending)
  BY <1>16, <1>17, <1>18, <1>19, <1>20, <1>21, <1>22, <1>23, <1>24, <1>26, Zenon
<1>28. w[1] = "{" /\ w[8] = "1" /\ w[9] = "," /\ w[z + 1] = "," /\ w[z + 8] = "["
  <2>1. w[1] = "{"
    BY <1>24, SmallParts, Zenon DEF x1
  <2>2. w[8] = "1" /\ w[8 + 1] = ","
    <3>1. Part(w, 8, <<"1", ",">>)
      BY <1>27 DEF one
    <3>2. \A p : Part(w, p, <<"1", ",">>) => w[p] = "1" /\ w[p + 1] = ","
      BY SmallParts, Zenon
    <3> QED BY <3>1, <3>2
  <2>3. w[z + 1] = "," /\ w[z + 8] = "["
    <3>1. Part(w, z + 1, <<",">>) /\ Part(w, z + 8, <<"[">>)
      BY <1>27 DEF comma, bracket
    <3>2. \A p : Part(w, p, <<",">>) => w[p] = ","
      BY SmallParts, Zenon
    <3>3. \A p : Part(w, p, <<"[">>) => w[p] = "["
      BY SmallParts, Zenon
    <3> QED BY <3>1, <3>2, <3>3
  <2>4. 8 + 1 = 9
    OBVIOUS
  <2> QED BY <2>1, <2>2, <2>3, <2>4, Zenon
<1>29. /\ KeyAt(w, 3) /\ w[4] = "schema_version" /\ KeyAt(w, 11) /\ w[12] = "app"
       /\ KeyAt(w, z + 3) /\ w[z + 4] = "allowed"
  <2>0. /\ "schema_version" \notin {Quote, Backslash, Blank, ":"}
        /\ "app" \notin {Quote, Backslash, Blank, ":"}
        /\ "allowed" \notin {Quote, Backslash, Blank, ":"}
    BY BetweenTexts
  <2>1. KeyAt(w, 2 + 1) /\ w[2 + 2] = "schema_version"
    <3>1. Part(w, 2, Key("schema_version"))
      BY <1>27 DEF schema
    <3> QED BY <2>0, <3>1, KeyParts, Zenon
  <2>2. KeyAt(w, 10 + 1) /\ w[10 + 2] = "app"
    <3>1. Part(w, 10, Key("app"))
      BY <1>27 DEF appKey
    <3>2. \A p : Part(w, p, Key("app")) => KeyAt(w, p + 1) /\ w[p + 2] = "app"
      BY <2>0, KeyParts, Zenon
    <3> QED BY <3>1, <3>2
  <2>3. KeyAt(w, (z + 2) + 1) /\ w[(z + 2) + 2] = "allowed"
    <3>1. Part(w, z + 2, Key("allowed"))
      BY <1>27 DEF allowed
    <3> QED BY <2>0, <3>1, KeyParts, Zenon
  <2>4. (z + 2) + 1 = z + 3 /\ (z + 2) + 2 = z + 4
    BY <1>25
  <2> QED BY <2>1, <2>2, <2>3, <2>4
<1>30. StringAt(w, 16, d.app, z)
  <2>1. /\ StringAt(w, 16, d.app, 16 + 1 + Len(Escape(d.app)))
        /\ m = Len(Escape(d.app)) + 2 /\ Len(Escape(d.app)) \in Nat
    BY <1>1, <1>27, JsonStringAt DEF string, m
  <2>2. 16 + 1 + Len(Escape(d.app)) = z
    BY <1>25, <2>1
  <2> QED BY <2>1, <2>2
<1>31. PICK e : ElementsAt(w, z + 9, es, e)
  BY <1>2, <1>27, PartsOfElements DEF array
<1>32. /\ e \in [0..N -> Nat \ {0}] /\ e[0] = z + 9 /\ e[N] = (z + 9) + Len(array)
  BY <1>2, <1>31 DEF ElementsAt, array
<1>33. e[N] \in Nat /\ e[N] + 4 <= Len(w) /\ w[e[N]] = Blank /\ w[e[N] + 1] = "]"
  <2>1. Part(w, e[N], ending)
    BY <1>27, <1>32
  <2>2. Len(ending) = 5 /\ ending[1] = Blank /\ ending[2] = "]"
    BY DEF ending
  <2>3. PICK x \in Nat \ {0} : x = e[N]
    BY <1>1, <1>32
  <2>4. x - 1 + 5 <= Len(w) /\ w[x - 1 + 1] = Blank /\ w[x - 1 + 2] = "]"
    BY <2>1, <2>2, <2>3 DEF Part
  <2>5. x - 1 + 1 = x /\ x - 1 + 2 = x + 1 /\ x - 1 + 5 = x + 4
    OBVIOUS
  <2> QED BY <2>3, <2>4, <2>5
<1>34. z + 10 <= Len(w)
  <2>1. Len(array) \in Nat /\ Len(w) \in Nat
    BY <1>5, LenProperties DEF Text
  <2> QED BY <1>32, <1>33, <2>1
<1>35. N = 0 => w[z + 9] = Blank /\ w[z + 10] = "]"
  <2>1. (z + 9) + 1 = z + 10
    BY <1>25
  <2> QED BY <1>32, <1>33, <2>1
<1>36. ASSUME NEW k \in 1..N
       PROVE  /\ w[e[k - 1]] = Blank
              /\ \E c : /\ StringAt(w, e[k - 1] + 1, Fingerprint(d, k), c)
                        /\ k < N => w[c + 1] = "," /\ e[k] = c + 2
                        /\ k = N => c + 2 <= Len(w) /\ w[c + 1] = Blank /\ w[c + 2] = "]"
  <2>1. PICK b \in Nat \ {0} : b = e[k - 1]
    <3>1. k - 1 \in 0..N
      BY <1>1
    <3> QED BY <1>32, <3>1
  <2>2. /\ w[b] = Blank /\ Part(w, b + 1, es[k])
        /\ k < N => /\ w[b + 1 + Len(es[k])] = ","
                    /\ e[k] = b + 2 + Len(es[k])
        /\ k = N => e[k] = b + 1 + Len(es[k])
    BY <1>2, <1>31, <2>1 DEF ElementsAt
  <2>3. PICK l \in Nat : l = Len(Escape(Fingerprint(d, k)))
    BY <1>1, <1>2, <2>2, JsonStringAt
  <2>4. StringAt(w, b + 1, Fingerprint(d, k), b + 1 + 1 + l) /\ Len(es[k]) = l + 2
    <3>1. Fingerprint(d, k) \in Text /\ Part(w, b + 1, JsonString(Fingerprint(d, k)))
      BY <1>1, <1>2, <2>2
    <3> QED BY <1>2, <2>3, <3>1, JsonStringAt
  <2>5. PICK c \in Nat : c = b + 1 + 1 + l
    OBVIOUS
  <2>6. b + 1 + Len(es[k]) = c + 1 /\ b + 2 + Len(es[k]) = c + 2
    BY <2>4, <2>5
  <2>7. k < N => w[c + 1] = "," /\ e[k] = c + 2
    BY <2>2, <2>6, Zenon
  <2>8. k = N => c + 2 <= Len(w) /\ w[c + 1] = Blank /\ w[c + 2] = "]"
    <3>1. k = N => e[N] = c + 1
      BY <2>2, <2>6, Zenon
    <3>2. (c + 1) + 1 = c + 2 /\ Len(w) \in Nat
      BY <2>5, LenProperties DEF Text
    <3> QED BY <1>33, <3>1, <3>2
  <2> QED BY <2>1, <2>2, <2>4, <2>5, <2>7, <2>8, Zenon
<1>37. BaselineAt(w, d, z, e)
  BY <1>28, <1>29, <1>30, <1>32, <1>34, <1>35, <1>36, Zenon DEF BaselineAt, N
<1> QED BY <1>3, <1>37, Zenon

(***************************************************************************)
(* Loading a baseline.  The keys before the array are the only ones that   *)
(* the reader comes to, because it looks for the array from the start and  *)
(* finds its key, unless the text ends before.                             *)
(***************************************************************************)
LEMMA TextIsCut == ASSUME TextInv PROVE CutFrom(TextOf(doc)) /\ Len(text) \in Nat
<1> DEFINE w == TextOf(doc)
<1>1. w \in Text /\ text \in Text /\ IsPrefix(text, w)
  BY DocumentTyped DEF TextInv
<1> HIDE DEF w
<1>2. Len(w) \in Nat /\ Len(text) \in Nat /\ text \in Seq(Character) /\ w \in Seq(Character)
  BY <1>1, LenProperties DEF Text
<1>3. Len(text) <= Len(w) /\ SubSeq(text, 1, Len(text)) = SubSeq(w, 1, Len(text))
  BY <1>1 DEF IsPrefix
<1>4. ASSUME NEW j \in 1..Len(text) PROVE text[j] = w[j]
  <2>1. SubSeq(text, 1, Len(text))[j] = text[j]
    BY <1>2
  <2>2. SubSeq(w, 1, Len(text))[j] = w[j]
    BY <1>2, <1>3
  <2> QED BY <1>3, <2>1, <2>2
<1> QED BY <1>1, <1>2, <1>3, <1>4 DEF CutFrom, w

BaselineKeys(z) == {3, 11, z + 3}

LEMMA BaselineSearched ==
  ASSUME TextInv, NEW z, NEW e, BaselineAt(TextOf(doc), doc, z, e)
  PROVE  LET w == TextOf(doc) IN
         /\ z \in Nat /\ z > 16 /\ \A g \in BaselineKeys(z) : KeyAt(w, g)
         /\ Known(BaselineKeys(z), z + 5) /\ Known(BaselineKeys(z), 13)
         /\ Wanted(w, BaselineKeys(z), 1, "app") = {11}
         /\ Wanted(w, BaselineKeys(z), 1, "allowed") = {z + 3}
<1> DEFINE w == TextOf(doc)
           K == BaselineKeys(z)
<1>1. CutFrom(w) /\ Len(text) \in Nat
  BY TextIsCut
<1>2. BaselineAt(w, doc, z, e)
  OBVIOUS
<1> HIDE DEF w
<1>3. /\ w[1] = "{" /\ w[4] = "schema_version" /\ w[8] = "1" /\ w[9] = "," /\ w[12] = "app"
      /\ w[z + 1] = "," /\ w[z + 4] = "allowed"
  BY <1>2, Zenon DEF BaselineAt
<1>13. z + 10 <= Len(w)
  BY <1>2, Zenon DEF BaselineAt
<1>12. KeyAt(w, 3) /\ KeyAt(w, 11) /\ KeyAt(w, z + 3) /\ StringAt(w, 16, doc.app, z)
  BY <1>2, Zenon DEF BaselineAt
<1>4. z \in Nat /\ z > 16 /\ w[16] = Quote /\ w[z] = Quote /\ Len(w) \in Nat
  <2>1. Len(w) \in Nat
    BY <1>1, LenProperties DEF CutFrom, Text
  <2>2. z \in 16 + 1..Len(w) /\ w[16] = Quote /\ w[z] = Quote
    BY <1>12, Zenon DEF StringAt
  <2> QED BY <2>1, <2>2
<1>5. \A g \in K : KeyAt(w, g)
  BY <1>12 DEF BaselineKeys
<1>6. /\ w[2] = Blank /\ w[3] = Quote /\ w[5] = Quote /\ w[6] = ":" /\ w[7] = Blank
      /\ w[10] = Blank /\ w[11] = Quote /\ w[13] = Quote /\ w[14] = ":" /\ w[15] = Blank
      /\ w[z + 2] = Blank /\ w[z + 3] = Quote /\ w[z + 5] = Quote
  <2>1. /\ w[3 - 1] = Blank /\ w[3] = Quote /\ w[3 + 2] = Quote /\ w[3 + 3] = ":" /\ w[3 + 4] = Blank
        /\ w[11 - 1] = Blank /\ w[11] = Quote /\ w[11 + 2] = Quote /\ w[11 + 3] = ":" /\ w[11 + 4] = Blank
    BY <1>12 DEF KeyAt
  <2>2. w[(z + 3) - 1] = Blank /\ w[z + 3] = Quote /\ w[(z + 3) + 2] = Quote
    BY <1>12, Zenon DEF KeyAt
  <2>3. (z + 3) - 1 = z + 2 /\ (z + 3) + 2 = z + 5
    BY <1>4
  <2> QED BY <2>1, <2>2, <2>3
<1>7. /\ "{" # Quote /\ Blank # Quote /\ "schema_version" # Quote /\ ":" # Quote /\ "1" # Quote /\ "," # Quote
      /\ "app" # Quote /\ "allowed" # Quote /\ "," # Backslash /\ Blank # Backslash
  BY DEF Quote, Blank, Backslash
<1>8. ASSUME NEW x \in 16..z, x <= Len(text), w[x] = Quote PROVE Harmless(K, x)
  <2>1. NoColon(w, z)
    <3>1. z \in Nat /\ z + 2 <= Len(w)
      BY <1>4, <1>13
    <3>2. "," # ":" /\ "," # Blank
      BY DEF Blank
    <3> QED BY <1>3, <3>1, <3>2, Zenon DEF NoColon
  <2>2. NoColon(w, z + 3)
    <3>1. (z + 3) + 1 = z + 4 /\ z + 3 \in Nat /\ (z + 3) + 2 <= Len(w)
      BY <1>4, <1>13
    <3>2. "allowed" # ":" /\ "allowed" # Blank
      BY DEF Blank
    <3> QED BY <1>3, <3>1, <3>2 DEF NoColon
  <2>3. Plain(w, z + 1, z + 3)
    <3>1. \A y \in z + 1..(z + 3) - 1 : y = z + 1 \/ y = z + 2
      BY <1>4
    <3>2. w[z + 1] \notin {Quote, Backslash} /\ w[z + 2] \notin {Quote, Backslash}
      BY <1>3, <1>6, <1>7
    <3> QED BY <3>1, <3>2 DEF Plain
  <2>4. \A g \in K : g < 16 \/ g > z
    BY <1>4 DEF BaselineKeys
  <2>5. z + 3 \in z + 1..Len(w) + 1
    BY <1>4, <1>13
  <2> HIDE DEF K
  <2> QED BY <1>1, <1>12, <1>5, <1>6, <1>8, <2>1, <2>2, <2>3, <2>4, <2>5, ValueHarmless
<1>9. Known(K, z + 5)
  <2> SUFFICES ASSUME NEW p \in 1..Len(text), text[p] = Quote, p <= z + 5
               PROVE  p \in K \/ (\E g \in K : p = g + 2) \/ Harmless(K, p)
    BY DEF Known
  <2>1. w[p] = Quote
    BY <1>1 DEF CutFrom
  <2>2. CASE p < 16
    <3>1. p \in {1, 2, 3, 4, 5, 6, 7, 8, 9, 10, 11, 12, 13, 14, 15}
      BY <1>1, <2>2
    <3>2. p \notin {1, 2, 4, 6, 7, 8, 9, 10, 12, 14, 15}
      <4>1. p # 1 /\ p # 2 /\ p # 4 /\ p # 8 /\ p # 9 /\ p # 12
        BY <1>3, <1>6, <1>7, <2>1, Zenon
      <4>2. p # 6 /\ p # 7 /\ p # 10 /\ p # 14 /\ p # 15
        BY <1>6, <1>7, <2>1, Zenon
      <4> QED BY <4>1, <4>2
    <3>3. p \in {3, 5, 11, 13}
      BY <3>1, <3>2
    <3> QED BY <3>3 DEF BaselineKeys
  <2>3. CASE p \in 16..z
    BY <1>8, <2>1, <2>3
  <2>4. CASE p > z
    <3>1. p \in {z + 1, z + 2, z + 3, z + 4, z + 5}
      BY <1>1, <1>4, <2>4
    <3>2. p \in {z + 3, z + 5}
      BY <1>3, <1>6, <1>7, <2>1, <3>1
    <3>3. (z + 3) + 2 = z + 5
      BY <1>4
    <3> QED BY <3>2, <3>3 DEF BaselineKeys
  <2> QED BY <1>1, <1>4, <2>2, <2>3, <2>4
<1>10. Known(K, 13)
  <2>1. \A p \in 1..Len(text) : p <= 13 => p <= z + 5
    BY <1>1, <1>4
  <2> HIDE DEF K
  <2> QED BY <1>9, <2>1 DEF Known
<1>11. Wanted(w, K, 1, "app") = {11} /\ Wanted(w, K, 1, "allowed") = {z + 3}
  <2>1. /\ w[3 + 1] = "schema_version" /\ w[11 + 1] = "app" /\ w[(z + 3) + 1] = "allowed"
        /\ 3 >= 1 /\ 11 >= 1 /\ z + 3 >= 1
    <3>1. 3 + 1 = 4 /\ 11 + 1 = 12 /\ (z + 3) + 1 = z + 4 /\ 3 >= 1 /\ 11 >= 1 /\ z + 3 >= 1
      BY <1>4
    <3> QED BY <1>3, <3>1, Zenon
  <2>2. "schema_version" # "app" /\ "app" # "allowed" /\ "schema_version" # "allowed"
    OBVIOUS
  <2> QED BY <2>1, <2>2 DEF Wanted, BaselineKeys
<1> QED BY <1>4, <1>5, <1>9, <1>10, <1>11 DEF w

AppLoaded == app \in {NoText, Kept(doc.app)} /\ (WholeText => app = Kept(doc.app))
AtComma == Last(text) = ","
ArrayLoaded ==
  \E k \in 0..Len(doc.items) :
    /\ found = SavedUpTo(k)
    /\ k \in 1..Len(doc.items) - 1 => AtComma
    /\ WholeText => k = Len(doc.items)

SearchesApp(z) ==
  /\ pc[Saver] = "search" /\ key = "app" /\ app = NoText /\ found = <<>>
  /\ Passed(TextOf(doc), BaselineKeys(z), 1, pos, "app")
FoundApp ==
  /\ pc[Saver] = "value" /\ key = "app" /\ app = NoText /\ found = <<>>
  /\ 14 <= Len(text) /\ pos = SkipWs(15)
SearchesArray(z) ==
  /\ pc[Saver] = "search" /\ key = "allowed" /\ AppLoaded /\ found = <<>>
  /\ Passed(TextOf(doc), BaselineKeys(z), 1, pos, "allowed")
FoundArray(z) ==
  /\ pc[Saver] = "value" /\ key = "allowed" /\ AppLoaded /\ found = <<>>
  /\ z + 6 <= Len(text) /\ pos = SkipWs(z + 7)
BehindComma(p) == text[p - 1] = ","
ReadsArray(e) ==
  /\ pc[Saver] = "items" /\ AppLoaded
  /\ \E k \in 0..Len(doc.items) :
       /\ k < Len(doc.items) \/ k = 0
       /\ pos = e[k] /\ found = SavedUpTo(k)
       /\ k # 0 => BehindComma(pos)
BaselineDone == pc[Saver] = "done" /\ AppLoaded /\ ArrayLoaded

BaselineRead(z, e) ==
  \/ SearchesApp(z) \/ FoundApp \/ SearchesArray(z) \/ FoundArray(z) \/ ReadsArray(e) \/ BaselineDone

LEMMA PassedStays ==
  ASSUME text' = text, doc' = doc, NEW K, NEW start, NEW word,
         Passed(TextOf(doc), K, start, pos', word)
  PROVE  Passed(TextOf(doc), K, start, pos, word)'
  BY DEF Passed, Wanted

LEMMA AppLoadedStays == ASSUME AppLoaded, text' = text, doc' = doc, app' = app PROVE AppLoaded'
  BY DEF AppLoaded, WholeText, Kept

LEMMA NothingSaved == SavedUpTo(0) = <<>>
  BY DEF SavedUpTo

\* Of a text that was cut, no element may have been read.
LEMMA CutArray ==
  ASSUME doc \in Documents, found = <<>>, WholeText => Len(doc.items) = 0 PROVE ArrayLoaded
<1>1. 0 \in 0..Len(doc.items) /\ 0 \notin 1..Len(doc.items) - 1
  BY DocumentIs
<1> QED BY <1>1, NothingSaved DEF ArrayLoaded

LEMMA ArrayLoadedNext ==
  ASSUME text' = text, doc' = doc, NEW k \in 0..Len(doc.items), found' = SavedUpTo(k),
         k \in 1..Len(doc.items) - 1 => AtComma, WholeText => k = Len(doc.items)
  PROVE  ArrayLoaded'
<1>1. AtComma' <=> AtComma
  BY Zenon DEF AtComma, Last
<1> QED BY <1>1 DEF ArrayLoaded, WholeText, SavedUpTo, Kept

LEMMA ArrayLoadedStays ==
  ASSUME ArrayLoaded, text' = text, doc' = doc, found' = found PROVE ArrayLoaded'
  BY ArrayLoadedNext DEF ArrayLoaded

LEMMA ReadsArrayNext ==
  ASSUME text' = text, doc' = doc, pc'[Saver] = "items", AppLoaded', NEW e,
         NEW k \in 0..Len(doc.items), k < Len(doc.items) \/ k = 0,
         pos' = e[k], found' = SavedUpTo(k), k # 0 => BehindComma(pos')
  PROVE  ReadsArray(e)'
<1>1. k # 0 => BehindComma(pos)'
  BY Zenon DEF BehindComma
<1> QED BY <1>1 DEF ReadsArray, SavedUpTo, Kept

LEMMA SearchesAppStep ==
  ASSUME TextInv, MadeInv, NEW z, NEW e, BaselineAt(TextOf(doc), doc, z, e),
         SearchesApp(z), FindKeyValue
  PROVE  SearchesApp(z)' \/ FoundApp'
<1> DEFINE w == TextOf(doc)
           K == BaselineKeys(z)
<1>1. /\ \A g \in K : KeyAt(w, g)
      /\ Known(K, 13) /\ Wanted(w, K, 1, "app") = {11}
  BY BaselineSearched
<1>2. CutFrom(w) /\ Len(text) \in Nat /\ pos \in 1..Len(text) + 1
  BY TextIsCut DEF TextInv
<1>3. doc' = doc /\ text' = text /\ key' = key /\ app' = app /\ found' = found
  BY DEF FindKeyValue
<1>4. key = "app" /\ Passed(w, K, 1, pos, key)
  BY DEF SearchesApp
<1> HIDE DEF w, K
<1>5. Searching(w, K, 1, 13)
  <2>1. 11 \in Wanted(w, K, 1, key) /\ 11 + 2 = 13
    BY <1>1, <1>4
  <2> QED BY <1>1, <1>2, <1>4, <2>1 DEF Searching
<1>6. CASE pc' = pc /\ Passed(w, K, 1, pos', key)
  <2>1. Passed(TextOf(doc), BaselineKeys(z), 1, pos, "app")'
    BY <1>3, <1>4, <1>6, PassedStays DEF w, K
  <2> QED BY <1>3, <1>6, <2>1 DEF SearchesApp
<1>7. CASE /\ Goto(Saver, "value")
           /\ \E g \in Wanted(w, K, 1, key) :
                /\ pos' = SkipWs(g + 4) /\ g + 3 <= Len(text)
                /\ \A h \in Wanted(w, K, 1, key) : g <= h
  <2>1. pos' = SkipWs(11 + 4) /\ 11 + 3 <= Len(text)
    BY <1>1, <1>4, <1>7
  <2>2. pc'[Saver] = "value"
    BY <1>7, TextAssumption DEF Goto, MadeInv
  <2>3. SkipWs(15)' = SkipWs(15)
    BY <1>3 DEF SkipWs, CharAt, There
  <2> QED BY <1>3, <2>1, <2>2, <2>3 DEF FoundApp, SearchesApp
<1> QED BY <1>5, <1>6, <1>7, FindStep

LEMMA SearchesArrayStep ==
  ASSUME TextInv, MadeInv, NEW z, NEW e, BaselineAt(TextOf(doc), doc, z, e),
         SearchesArray(z), FindKeyValue
  PROVE  SearchesArray(z)' \/ FoundArray(z)'
<1> DEFINE w == TextOf(doc)
           K == BaselineKeys(z)
<1>1. /\ z \in Nat /\ \A g \in K : KeyAt(w, g)
      /\ Known(K, z + 5) /\ Wanted(w, K, 1, "allowed") = {z + 3}
  BY BaselineSearched
<1>2. CutFrom(w) /\ Len(text) \in Nat /\ pos \in 1..Len(text) + 1
  BY TextIsCut DEF TextInv
<1>3. doc' = doc /\ text' = text /\ key' = key /\ app' = app /\ found' = found
  BY DEF FindKeyValue
<1>4. key = "allowed" /\ Passed(w, K, 1, pos, key)
  BY DEF SearchesArray
<1> HIDE DEF w, K
<1>5. Searching(w, K, 1, z + 5)
  <2>1. z + 3 \in Wanted(w, K, 1, key) /\ (z + 3) + 2 = z + 5
    BY <1>1, <1>4
  <2> QED BY <1>1, <1>2, <1>4, <2>1 DEF Searching
<1>6. AppLoaded'
  BY <1>3, AppLoadedStays DEF SearchesArray
<1>7. CASE pc' = pc /\ Passed(w, K, 1, pos', key)
  <2>1. Passed(TextOf(doc), BaselineKeys(z), 1, pos, "allowed")'
    BY <1>3, <1>4, <1>7, PassedStays DEF w, K
  <2> QED BY <1>3, <1>6, <1>7, <2>1 DEF SearchesArray
<1>8. CASE /\ Goto(Saver, "value")
           /\ \E g \in Wanted(w, K, 1, key) :
                /\ pos' = SkipWs(g + 4) /\ g + 3 <= Len(text)
                /\ \A h \in Wanted(w, K, 1, key) : g <= h
  <2>1. pos' = SkipWs((z + 3) + 4) /\ (z + 3) + 3 <= Len(text)
    BY <1>1, <1>4, <1>8
  <2>2. pc'[Saver] = "value"
    BY <1>8, TextAssumption DEF Goto, MadeInv
  <2>3. (z + 3) + 4 = z + 7 /\ (z + 3) + 3 = z + 6
    BY <1>1
  <2>4. SkipWs(z + 7)' = SkipWs(z + 7)
    BY <1>3 DEF SkipWs, CharAt, There
  <2> QED BY <1>3, <1>6, <2>1, <2>2, <2>3, <2>4 DEF FoundArray, SearchesArray
<1> QED BY <1>5, <1>7, <1>8, FindStep

\* The search for the array begins at the start.
LEMMA ArrayFromStart ==
  ASSUME TextInv, MadeInv, NEW z, NEW e, BaselineAt(TextOf(doc), doc, z, e),
         text' = text, doc' = doc, found' = found, found = <<>>, key = "app", GoOn, AppLoaded'
  PROVE  SearchesArray(z)'
<1>1. key' = "allowed" /\ pos' = 1 /\ pc'[Saver] = "search"
  BY TextAssumption DEF GoOn, Goto, MadeInv
<1>2. z \in Nat /\ \A g \in BaselineKeys(z) : g \in Nat /\ g >= 2
  BY BaselineSearched, Zenon DEF KeyAt
<1>3. Passed(TextOf(doc), BaselineKeys(z), 1, pos', "allowed")
  <2>1. \A g \in BaselineKeys(z) : 1 # g + 1 /\ 1 # g + 2 /\ ~(g < 1)
    BY <1>2
  <2> QED BY <1>1, <2>1 DEF Passed, Wanted
<1>4. Passed(TextOf(doc), BaselineKeys(z), 1, pos, "allowed")'
  BY <1>3, PassedStays
<1> QED BY <1>1, <1>4 DEF SearchesArray

LEMMA MissedAppStep ==
  ASSUME TextInv, MadeInv, NEW z, NEW e, BaselineAt(TextOf(doc), doc, z, e),
         SearchesApp(z), KeyMissing
  PROVE  SearchesArray(z)'
<1> DEFINE w == TextOf(doc)
           K == BaselineKeys(z)
<1>1. /\ z \in Nat /\ z > 16 /\ \A g \in K : KeyAt(w, g)
      /\ Known(K, 13) /\ Wanted(w, K, 1, "app") = {11}
  BY BaselineSearched
<1>2. CutFrom(w) /\ Len(text) \in Nat /\ pos \in 1..Len(text) + 1
  BY TextIsCut DEF TextInv
<1>3. doc' = doc /\ text' = text /\ app' = app /\ found' = found /\ GoOn
  BY DEF KeyMissing
<1>4. key = "app" /\ Passed(w, K, 1, pos, key) /\ app = NoText /\ found = <<>>
  BY DEF SearchesApp
<1>5. z + 10 <= Len(w)
  BY Zenon DEF BaselineAt
<1> HIDE DEF w, K
<1>6. Searching(w, K, 1, 13)
  <2>1. 11 \in Wanted(w, K, 1, key) /\ 11 + 2 = 13
    BY <1>1, <1>4
  <2> QED BY <1>1, <1>2, <1>4, <2>1 DEF Searching
<1>7. Len(text) <= 13
  <2>1. Missing(w, K, 1, key)
    BY <1>6, MissStep
  <2> QED BY <1>1, <1>4, <2>1 DEF Missing
<1>8. ~WholeText
  <2>1. WholeText => Len(text) = Len(w)
    BY DEF WholeText, w
  <2> QED BY <1>1, <1>2, <1>5, <1>7, <2>1
<1>9. AppLoaded'
  BY <1>3, <1>4, <1>8 DEF AppLoaded, WholeText
<1> QED BY <1>3, <1>4, <1>9, ArrayFromStart

LEMMA MissedArrayStep ==
  ASSUME TextInv, MadeInv, NEW z, NEW e, BaselineAt(TextOf(doc), doc, z, e),
         SearchesArray(z), KeyMissing
  PROVE  BaselineDone'
<1> DEFINE w == TextOf(doc)
           K == BaselineKeys(z)
<1>1. /\ z \in Nat /\ \A g \in K : KeyAt(w, g)
      /\ Known(K, z + 5) /\ Wanted(w, K, 1, "allowed") = {z + 3}
  BY BaselineSearched
<1>2. CutFrom(w) /\ Len(text) \in Nat /\ pos \in 1..Len(text) + 1
  BY TextIsCut DEF TextInv
<1>3. doc' = doc /\ text' = text /\ app' = app /\ found' = found /\ GoOn
  BY DEF KeyMissing
<1>4. key = "allowed" /\ Passed(w, K, 1, pos, key) /\ found = <<>>
  BY DEF SearchesArray
<1>5. z + 10 <= Len(w)
  BY Zenon DEF BaselineAt
<1> HIDE DEF w, K
<1>6. Searching(w, K, 1, z + 5)
  <2>1. z + 3 \in Wanted(w, K, 1, key) /\ (z + 3) + 2 = z + 5
    BY <1>1, <1>4
  <2> QED BY <1>1, <1>2, <1>4, <2>1 DEF Searching
<1>7. Len(text) <= z + 5
  <2>1. Missing(w, K, 1, key)
    BY <1>6, MissStep
  <2>2. Len(text) <= (z + 3) + 2
    BY <1>1, <1>4, <2>1 DEF Missing
  <2> QED BY <1>1, <1>2, <2>2
<1>8. ~WholeText
  <2>1. WholeText => Len(text) = Len(w)
    BY DEF WholeText, w
  <2> QED BY <1>1, <1>2, <1>5, <1>7, <2>1
<1>9. AppLoaded' /\ ArrayLoaded'
  <2>1. ArrayLoaded
    BY <1>4, <1>8, CutArray DEF TextInv
  <2> QED BY <1>3, <2>1, AppLoadedStays, ArrayLoadedStays DEF SearchesArray
<1>10. pc'[Saver] = "done"
  BY <1>3, <1>4, TextAssumption DEF GoOn, Goto, MadeInv
<1> QED BY <1>9, <1>10 DEF BaselineDone

LEMMA FoundAppStep ==
  ASSUME TextInv, MadeInv, NEW z, NEW e, BaselineAt(TextOf(doc), doc, z, e),
         FoundApp, FindString
  PROVE  SearchesArray(z)'
<1> DEFINE w == TextOf(doc)
<1>1. CutFrom(w) /\ Len(text) \in Nat
  BY TextIsCut
<1>2. KeyAt(w, 11) /\ StringAt(w, 16, doc.app, z)
  BY Zenon DEF BaselineAt
<1>3. /\ key = "app" /\ app = NoText /\ found = <<>> /\ 14 <= Len(text) /\ pos = SkipWs(15)
  BY DEF FoundApp
<1>4. doc' = doc /\ text' = text /\ found' = found /\ GoOn
  BY <1>3 DEF FindString
<1>5. app' = IF ParseJsonString(pos).ok THEN ParseJsonString(pos).out ELSE app
  BY <1>3, Zenon DEF FindString
<1> HIDE DEF w
<1>6. /\ z <= Len(text) => Reads(pos, z + 1, Kept(doc.app))
      /\ Len(text) < z => Broken(pos)
  <2>1. 11 + 3 = 14 /\ 11 + 4 = 15 /\ 11 + 5 = 16
    OBVIOUS
  <2>2. 11 + 3 <= Len(text) /\ StringAt(w, 11 + 5, doc.app, z) /\ pos = SkipWs(11 + 4)
    BY <1>2, <1>3, <2>1
  <2> QED BY <1>1, <1>2, <2>2, ReadValue
<1>7. z \in Nat /\ z <= Len(w)
  <2>1. z \in 16 + 1..Len(w) /\ Len(w) \in Nat
    BY <1>1, <1>2, LenProperties DEF StringAt, CutFrom, Text
  <2> QED BY <2>1
<1>8. CASE z <= Len(text)
  <2>1. app' = Kept(doc.app)
    BY <1>5, <1>6, <1>8, Zenon DEF Reads
  <2>2. AppLoaded'
    BY <1>4, <2>1 DEF AppLoaded, WholeText, Kept
  <2> QED BY <1>3, <1>4, <2>2, ArrayFromStart
<1>9. CASE Len(text) < z
  <2>1. app' = NoText
    BY <1>3, <1>5, <1>6, <1>9, Zenon DEF Broken
  <2>2. ~WholeText
    <3>1. WholeText => Len(text) = Len(w)
      BY DEF WholeText, w
    <3> QED BY <1>1, <1>7, <1>9, <3>1
  <2>3. AppLoaded'
    BY <1>4, <2>1, <2>2 DEF AppLoaded, WholeText
  <2> QED BY <1>3, <1>4, <2>3, ArrayFromStart
<1> QED BY <1>1, <1>7, <1>8, <1>9

LEMMA FoundArrayStep ==
  ASSUME TextInv, MadeInv, NEW z, NEW e, BaselineAt(TextOf(doc), doc, z, e),
         FoundArray(z), OpenArray
  PROVE  ReadsArray(e)' \/ BaselineDone'
<1> DEFINE w == TextOf(doc)
           N == Len(doc.items)
<1>1. CutFrom(w) /\ Len(text) \in Nat /\ N \in Nat /\ Len(w) \in Nat
  BY TextIsCut, DocumentIs, LenProperties DEF TextInv, CutFrom, Text
<1>2. KeyAt(w, z + 3) /\ w[z + 8] = "["
  BY Zenon DEF BaselineAt
<1>3. z + 10 <= Len(w) /\ e[0] = z + 9
  BY Zenon DEF BaselineAt
<1>4. key = "allowed" /\ AppLoaded /\ found = <<>> /\ pos = SkipWs(z + 7)
  BY DEF FoundArray
<1>5. doc' = doc /\ text' = text /\ app' = app /\ found' = found
  BY DEF OpenArray
<1>6. z \in Nat /\ \A to : Goto(Saver, to) => pc'[Saver] = to
  BY BaselineSearched, TextAssumption, Zenon DEF Goto, MadeInv
<1>7. AppLoaded'
  BY <1>4, <1>5, AppLoadedStays
<1> HIDE DEF w
<1>8. w[z + 7] = Blank
  <2>1. (z + 3) + 4 = z + 7
    BY <1>6
  <2> QED BY <1>2, <2>1 DEF KeyAt
<1>9. /\ CharAt(z + 7) = IF z + 7 <= Len(text) THEN Blank ELSE "end"
      /\ CharAt(z + 8) = IF z + 8 <= Len(text) THEN "[" ELSE "end"
  <2>1. z + 7 \in Nat \ {0} /\ z + 8 \in Nat \ {0}
    BY <1>6
  <2> QED BY <1>1, <1>2, <1>8, <2>1, CharIs
<1>10. "end" # "[" /\ "end" # Blank /\ (z + 7) + 1 = z + 8
  BY <1>6 DEF Blank
<1>11. CASE CharAt(pos) = "["
  <2>1. pos = z + 8
    BY <1>4, <1>9, <1>10, <1>11 DEF SkipWs
  <2>2. pos' = z + 9 /\ pc'[Saver] = "items"
    <3>1. pos' = pos + 1 /\ Goto(Saver, "items")
      BY <1>11 DEF OpenArray
    <3>2. (z + 8) + 1 = z + 9
      BY <1>6
    <3> QED BY <1>6, <2>1, <3>1, <3>2
  <2>3. found' = SavedUpTo(0)
    BY <1>4, <1>5, NothingSaved
  <2>4. 0 \in 0..N
    BY <1>1
  <2> QED BY <1>3, <1>5, <1>7, <2>2, <2>3, <2>4, ReadsArrayNext
<1>12. CASE CharAt(pos) # "["
  <2>1. pc'[Saver] = "done"
    BY <1>6, <1>12 DEF OpenArray
  <2>2. ~(z + 8 <= Len(text))
    <3>1. z + 8 <= Len(text) => z + 7 <= Len(text)
      BY <1>1, <1>6
    <3> QED BY <1>4, <1>9, <1>10, <1>12, <3>1 DEF SkipWs
  <2>3. ~WholeText
    <3>1. WholeText => Len(text) = Len(w)
      BY DEF WholeText, w
    <3> QED BY <1>1, <1>3, <1>6, <2>2, <3>1
  <2>4. ArrayLoaded
    BY <1>4, <2>3, CutArray DEF TextInv
  <2> QED BY <1>5, <1>7, <2>1, <2>4, ArrayLoadedStays DEF BaselineDone
<1> QED BY <1>11, <1>12

LEMMA ReadStringIfThere ==
  ASSUME NEW w, CutFrom(w), NEW q, NEW s, NEW z, StringAt(w, q, s, z)
  PROVE  /\ z <= Len(text) => Reads(q, z + 1, Kept(s))
         /\ Len(text) < z => Broken(q)
<1>1. Len(text) \in Nat /\ Len(w) \in Nat /\ q \in Nat \ {0} /\ z \in q + 1..Len(w)
  BY LenProperties DEF StringAt, CutFrom, Text
<1>2. CASE q <= Len(text)
  BY <1>2, ReadString
<1>3. CASE ~(q <= Len(text))
  <2>1. CharAt(q) = "end"
    BY <1>3 DEF CharAt, There
  <2>2. "end" # Blank /\ "end" # Quote
    BY DEF Blank, Quote
  <2>3. SkipWs(q) = q
    BY <2>1, <2>2 DEF SkipWs
  <2>4. ParseJsonString(q) = Failed
    BY <1>1, <2>1, <2>2, <2>3, RestIs
  <2>5. ~(z <= Len(text))
    BY <1>1, <1>3
  <2> QED BY <1>1, <2>4, <2>5, ReadsIf
<1> QED BY <1>2, <1>3

LEMMA SavedNext ==
  ASSUME doc \in Documents, NEW k \in Nat, k + 1 <= Len(doc.items)
  PROVE  SavedUpTo(k + 1) = Append(SavedUpTo(k), Kept(Fingerprint(doc, k + 1)))
<1> DEFINE f == [j \in 1..k |-> Kept(doc.items[j].fingerprint)]
           g == [j \in 1..k + 1 |-> Kept(doc.items[j].fingerprint)]
           next == Kept(doc.items[k + 1].fingerprint)
<1>1. \A j \in 1..k + 1 : Kept(doc.items[j].fingerprint) \in Text
  <2> TAKE j \in 1..k + 1
  <2>1. j \in 1..Len(doc.items)
    BY DocumentIs
  <2>2. doc.items[j].fingerprint \in Text
    BY <2>1, DocumentIs
  <2> QED BY <2>2, KeptTyped
<1>2. f \in Seq(Text) /\ Len(f) = k /\ \A j \in 1..k : f[j] = g[j]
  <2>1. f \in [1..k -> Text]
    BY <1>1
  <2>2. \A j \in 1..k : f[j] = g[j]
    OBVIOUS
  <2> HIDE DEF f, g
  <2> QED BY <2>1, <2>2, SeqDef, LenProperties
<1>3. g \in Seq(Text) /\ Len(g) = k + 1 /\ g[k + 1] = next
  <2>1. g \in [1..k + 1 -> Text]
    BY <1>1
  <2>2. g[k + 1] = next
    OBVIOUS
  <2> HIDE DEF g, next
  <2> QED BY <2>1, <2>2, SeqDef, LenProperties
<1>4. next \in Text
  BY <1>1
<1>5. SavedUpTo(k) = f /\ SavedUpTo(k + 1) = g /\ Kept(Fingerprint(doc, k + 1)) = next
  BY DEF SavedUpTo, Fingerprint
<1> HIDE DEF f, g, next
<1>6. /\ Append(f, next) \in Seq(Text) /\ Len(Append(f, next)) = k + 1
      /\ \A j \in 1..k : Append(f, next)[j] = f[j]
      /\ Append(f, next)[k + 1] = next
  BY <1>2, <1>4, AppendProperties
<1>7. \A j \in 1..Len(g) : g[j] = Append(f, next)[j]
  <2> TAKE j \in 1..Len(g)
  <2>1. j \in 1..k \/ j = k + 1
    BY <1>3
  <2> QED BY <1>2, <1>3, <1>6, <2>1
<1>8. g = Append(f, next)
  <2>1. Len(g) = Len(Append(f, next))
    BY <1>3, <1>6
  <2> QED BY <1>3, <1>6, <1>7, <2>1, SeqEqual
<1> QED BY <1>5, <1>8

\* One step through an array: it ends, or an element is read, or it is broken.
LEMMA ElementStep ==
  ASSUME ReadElement
  PROVE  \/ (~There(pos) \/ CharAt(SkipWs(pos)) = "]") /\ Goto(Saver, "done") /\ found' = found
         \/ /\ There(pos) /\ CharAt(SkipWs(pos)) # "]"
            /\ \E m, out : /\ Reads(SkipWs(pos), m, out) /\ CharAt(SkipWs(m)) \in {",", "]"}
                           /\ found' = Append(found, out) /\ pos' = SkipWs(m) + 1
                           /\ CharAt(SkipWs(m)) = "," => pc' = pc
                           /\ CharAt(SkipWs(m)) # "," => Goto(Saver, "done")
         \/ /\ There(pos) /\ CharAt(SkipWs(pos)) # "]"
            /\ \A m, out : Reads(SkipWs(pos), m, out) => CharAt(SkipWs(m)) \notin {",", "]"}
            /\ found' = <<>> /\ Goto(Saver, "done")
  BY Zenon DEF ReadElement, Reads, ArrayBroken

LEMMA ElementKeeps == ASSUME ReadElement PROVE doc' = doc /\ text' = text /\ app' = app
<1>1. UNCHANGED <<dirs, n, doc, text, key, mark, app>>
  BY Zenon DEF ReadElement
<1> QED BY <1>1

\* Of an array that the cut broke nothing is kept.
LEMMA ArrayCutHere ==
  ASSUME doc \in Documents, AppLoaded, ~WholeText, text' = text, doc' = doc, app' = app,
         found' = <<>>, pc'[Saver] = "done"
  PROVE  BaselineDone'
<1>1. 0 \in 0..Len(doc.items) /\ 0 \notin 1..Len(doc.items) - 1
  BY DocumentIs
<1>2. ArrayLoaded'
  BY <1>1, NothingSaved, ArrayLoadedNext
<1> QED BY <1>2, AppLoadedStays DEF BaselineDone

LEMMA NoElementStep ==
  ASSUME TextInv, MadeInv, NEW z, NEW e, BaselineAt(TextOf(doc), doc, z, e),
         ReadsArray(e), Len(doc.items) = 0, ReadElement
  PROVE  BaselineDone'
<1> DEFINE w == TextOf(doc)
<1>1. CutFrom(w) /\ Len(text) \in Nat /\ Len(w) \in Nat /\ z \in Nat
  BY TextIsCut, BaselineSearched, LenProperties DEF CutFrom, Text
<1>2. w[z + 9] = Blank /\ w[z + 10] = "]" /\ z + 10 <= Len(w) /\ e[0] = z + 9
  BY Zenon DEF BaselineAt
<1>3. AppLoaded /\ pos = z + 9 /\ found = <<>>
  <2>1. PICK k \in 0..Len(doc.items) : pos = e[k] /\ found = SavedUpTo(k)
    BY DEF ReadsArray
  <2>2. k = 0
    OBVIOUS
  <2> QED BY <1>2, <2>1, <2>2, NothingSaved DEF ReadsArray
<1>4. doc' = doc /\ text' = text /\ app' = app
  BY ElementKeeps
<1>5. \A to : Goto(Saver, to) => pc'[Saver] = to
  BY TextAssumption, Zenon DEF Goto, MadeInv
<1> HIDE DEF w
<1>6. \A m, out : ~Reads(z + 10, m, out)
  <2>1. "]" # Blank /\ "]" # Quote /\ "end" # Blank /\ "end" # Quote
    BY DEF Blank, Quote
  <2>2. z + 10 \in Nat \ {0}
    BY <1>1
  <2>3. CharAt(z + 10) \in {"]", "end"}
    BY <1>1, <1>2, <2>2, CharIs
  <2>4. SkipWs(z + 10) = z + 10
    BY <2>1, <2>3 DEF SkipWs
  <2>5. ParseJsonString(z + 10) = Failed
    BY <1>1, <2>1, <2>3, <2>4, RestIs
  <2> QED BY <2>5, ReadsIf, ReadsOnce
<1>7. There(pos) => SkipWs(pos) = z + 10
  <2>1. There(pos) => CharAt(pos) = Blank
    <3>1. z + 9 \in Nat \ {0}
      BY <1>1
    <3> QED BY <1>1, <1>2, <1>3, <3>1, CharIs DEF There
  <2>2. pos + 1 = z + 10
    BY <1>1, <1>3
  <2> QED BY <2>1, <2>2 DEF SkipWs
<1>8. pc'[Saver] = "done" /\ found' = <<>>
  BY <1>3, <1>5, <1>6, <1>7, ElementStep, Zenon
<1>9. AppLoaded'
  BY <1>3, <1>4, AppLoadedStays
<1>10. ArrayLoaded'
  <2>1. 0 \in 0..Len(doc.items) /\ 0 \notin 1..Len(doc.items) - 1
    OBVIOUS
  <2> QED BY <1>4, <1>8, <2>1, NothingSaved, ArrayLoadedNext
<1> QED BY <1>8, <1>9, <1>10 DEF BaselineDone

\* The element that is next: where it stands, and what comes behind it.
ElementHere(w, q, fp, c, last) ==
  /\ w[q - 1] = Blank /\ StringAt(w, q, fp, c) /\ c + 2 <= Len(w)
  /\ ~last => w[c + 1] = ","
  /\ last => w[c + 1] = Blank /\ w[c + 2] = "]"

LEMMA NextElement ==
  ASSUME NEW w, CutFrom(w), NEW d \in Documents, NEW z, NEW e, BaselineAt(w, d, z, e),
         NEW k \in 0..Len(d.items) - 1
  PROVE  \E c : /\ ElementHere(w, e[k] + 1, Fingerprint(d, k + 1), c, k + 1 = Len(d.items))
                /\ k + 1 < Len(d.items) => e[k + 1] = c + 2
<1> DEFINE N == Len(d.items)
<1>1. N \in Nat /\ Len(w) \in Nat
  BY DocumentIs, LenProperties DEF CutFrom, Text
<1>2. e \in [0..N -> Nat \ {0}]
  BY Zenon DEF BaselineAt
<1>3. \A j \in 1..N :
           /\ w[e[j - 1]] = Blank
           /\ \E c : /\ StringAt(w, e[j - 1] + 1, Fingerprint(d, j), c)
                     /\ j < N => w[c + 1] = "," /\ e[j] = c + 2
                     /\ j = N => c + 2 <= Len(w) /\ w[c + 1] = Blank /\ w[c + 2] = "]"
  BY Zenon DEF BaselineAt
<1> HIDE DEF N
<1>4. PICK i : i = k + 1
  OBVIOUS
<1>5. i \in 1..N /\ i - 1 = k /\ k \in 0..N /\ (i < N \/ i = N) /\ (i < N => i # N)
  BY <1>1, <1>4 DEF N
<1>6. w[e[k]] = Blank
  BY <1>3, <1>5, Zenon
<1>7. e[k] \in Nat \ {0} /\ (e[k] + 1) - 1 = e[k]
  BY <1>2, <1>5
<1>8. PICK c : /\ StringAt(w, e[k] + 1, Fingerprint(d, i), c)
               /\ i < N => w[c + 1] = "," /\ e[i] = c + 2
               /\ i = N => c + 2 <= Len(w) /\ w[c + 1] = Blank /\ w[c + 2] = "]"
  BY <1>3, <1>5, Zenon
<1>9. (i < N => e[i] = c + 2) /\ (i = N => c + 2 <= Len(w))
  BY <1>8, Zenon
<1>10. c + 2 <= Len(w)
  <2>1. CASE i < N
    <3>1. PICK m : m = i + 1
      OBVIOUS
    <3>2. m \in 1..N /\ m - 1 = i /\ e[i] \in Nat
      BY <1>2, <1>5, <2>1, <3>1, <1>1
    <3>3. PICK c2 : StringAt(w, e[i] + 1, Fingerprint(d, m), c2)
      BY <1>3, <3>2, Zenon
    <3>4. c2 \in (e[i] + 1) + 1..Len(w)
      BY <3>3 DEF StringAt
    <3> QED BY <1>1, <1>9, <2>1, <3>2, <3>4
  <2> QED BY <1>5, <1>9, <2>1
<1>11. ElementHere(w, e[k] + 1, Fingerprint(d, i), c, i = N)
  <2>1. ~(i = N) => w[c + 1] = ","
    BY <1>5, <1>8, Zenon
  <2>2. i = N => w[c + 1] = Blank /\ w[c + 2] = "]"
    BY <1>8, Zenon
  <2>3. w[(e[k] + 1) - 1] = Blank
    BY <1>6, <1>7
  <2> QED BY <1>8, <1>10, <2>1, <2>2, <2>3, Zenon DEF ElementHere
<1> QED BY <1>4, <1>9, <1>11 DEF N

\* What is read behind the string of an element.
LEMMA BehindElement ==
  ASSUME NEW w, CutFrom(w), NEW q, NEW fp, NEW c, NEW last \in BOOLEAN, ElementHere(w, q, fp, c, last)
  PROVE  /\ CharAt(SkipWs(c + 1)) \in {",", "]", "end"}
         /\ CharAt(SkipWs(c + 1)) = "," => ~last /\ SkipWs(c + 1) = c + 1 /\ c + 1 <= Len(text)
                                             /\ w[c + 1] = ","
         /\ CharAt(SkipWs(c + 1)) = "]" => last
         /\ CharAt(SkipWs(c + 1)) = "end" => Len(text) < Len(w)
<1>0. StringAt(w, q, fp, c) /\ c + 2 <= Len(w)
  BY Zenon DEF ElementHere
<1>1. /\ c \in Nat /\ c + 1 \in Nat \ {0} /\ c + 2 \in Nat \ {0} /\ (c + 1) + 1 = c + 2
      /\ Len(text) \in Nat /\ Len(w) \in Nat /\ c + 2 <= Len(w)
  BY <1>0, LenProperties DEF StringAt, CutFrom, Text
<1>2. /\ CharAt(c + 1) = IF c + 1 <= Len(text) THEN w[c + 1] ELSE "end"
      /\ CharAt(c + 2) = IF c + 2 <= Len(text) THEN w[c + 2] ELSE "end"
  BY <1>1, CharIs
<1>3. "end" # Blank /\ "," # Blank /\ "]" # Blank /\ "end" # "," /\ "end" # "]" /\ "," # "]"
  BY DEF Blank
<1>4. CASE ~last
  <2>1. w[c + 1] = ","
    BY <1>4, Zenon DEF ElementHere
  <2>2. SkipWs(c + 1) = c + 1
    BY <1>2, <1>3, <2>1, Zenon DEF SkipWs
  <2>3. ~(c + 1 <= Len(text)) => Len(text) < Len(w)
    BY <1>1
  <2> QED BY <1>2, <1>3, <1>4, <2>1, <2>2, <2>3, Zenon
<1>5. CASE last
  <2>1. w[c + 1] = Blank /\ w[c + 2] = "]"
    BY <1>5, Zenon DEF ElementHere
  <2>2. CASE c + 1 <= Len(text)
    <3>1. SkipWs(c + 1) = c + 2
      BY <1>1, <1>2, <2>1, <2>2 DEF SkipWs
    <3>2. ~(c + 2 <= Len(text)) => Len(text) < Len(w)
      BY <1>1
    <3> QED BY <1>2, <1>3, <1>5, <2>1, <3>1, <3>2, Zenon
  <2>3. CASE ~(c + 1 <= Len(text))
    <3>1. SkipWs(c + 1) = c + 1
      BY <1>2, <1>3, <2>3, Zenon DEF SkipWs
    <3>2. Len(text) < Len(w)
      BY <1>1, <2>3
    <3> QED BY <1>2, <1>3, <2>3, <3>1, <3>2, Zenon
  <2> QED BY <2>2, <2>3, Zenon
<1> QED BY <1>4, <1>5, Zenon

\* How the string of an element is read.
LEMMA ReadNext ==
  ASSUME NEW w, CutFrom(w), NEW q, NEW fp, NEW c, NEW last \in BOOLEAN, ElementHere(w, q, fp, c, last),
         q > 1, There(q - 1)
  PROVE  /\ SkipWs(q - 1) = q /\ CharAt(q) # "]"
         /\ \/ Reads(q, c + 1, Kept(fp))
            \/ Broken(q) /\ Len(text) < Len(w)
<1>1. StringAt(w, q, fp, c) /\ w[q - 1] = Blank /\ c + 2 <= Len(w)
  BY Zenon DEF ElementHere
<1>2. q \in Nat \ {0} /\ c \in Nat /\ w[q] = Quote /\ Len(text) \in Nat /\ Len(w) \in Nat /\ (q - 1) + 1 = q
  BY <1>1, LenProperties DEF StringAt, CutFrom, Text
<1>3. CharAt(q) \in {Quote, "end"}
  BY <1>2, CharIs
<1>4. Quote # "]" /\ "end" # "]" /\ "end" # Quote /\ Blank # Quote
  BY DEF Quote, Blank
<1>5. /\ c <= Len(text) => Reads(q, c + 1, Kept(fp))
      /\ Len(text) < c => Broken(q)
  BY <1>1, ReadStringIfThere
<1>6. c <= Len(text) \/ (Len(text) < c /\ Len(text) < Len(w))
  BY <1>1, <1>2
<1>7. SkipWs(q - 1) = q
  <2>1. q - 1 \in Nat \ {0}
    BY <1>2
  <2>2. CharAt(q - 1) = Blank
    BY <1>1, <2>1, CharIs DEF There
  <2> QED BY <1>2, <2>2 DEF SkipWs
<1> QED BY <1>3, <1>4, <1>5, <1>6, <1>7

\* The next element is read, or the array ends with it, or where the text was cut.
LEMMA OneElementStep ==
  ASSUME TextInv, MadeInv, NEW z, NEW e, BaselineAt(TextOf(doc), doc, z, e),
         ReadsArray(e), Len(doc.items) # 0, ReadElement
  PROVE  ReadsArray(e)' \/ BaselineDone'
<1> DEFINE w == TextOf(doc)
           N == Len(doc.items)
<1>1. /\ CutFrom(w) /\ Len(text) \in Nat /\ Len(w) \in Nat /\ N \in Nat /\ N # 0
      /\ doc \in Documents /\ pos \in 1..Len(text) + 1
  BY TextIsCut, LenProperties, DocumentIs DEF CutFrom, Text, TextInv
<1>2. AppLoaded /\ pc[Saver] = "items"
  BY DEF ReadsArray
<1>3. PICK k \in 0..N : /\ k < N \/ k = 0
                        /\ pos = e[k] /\ found = SavedUpTo(k)
                        /\ k # 0 => BehindComma(pos)
  BY DEF ReadsArray
<1>4. /\ k \in 0..N - 1 /\ k \in Nat /\ k + 1 \in 0..N
      /\ k + 1 < N \/ k + 1 = N
      /\ k + 1 # 0
  BY <1>1, <1>3
<1>5. PICK c : /\ ElementHere(w, e[k] + 1, Fingerprint(doc, k + 1), c, k + 1 = N)
               /\ k + 1 < N => e[k + 1] = c + 2
  BY <1>1, <1>4, NextElement
<1>6. doc' = doc /\ text' = text /\ app' = app
  BY ElementKeeps
<1>7. AppLoaded'
  BY <1>2, <1>6, AppLoadedStays
<1>8. \A to : Goto(Saver, to) => pc'[Saver] = to
  BY TextAssumption, Zenon DEF Goto, MadeInv
<1>9. WholeText => Len(text) = Len(w)
  BY DEF WholeText, w
<1> DEFINE q == pos + 1
           fp == Fingerprint(doc, k + 1)
           last == k + 1 = N
<1>10. ElementHere(w, q, fp, c, last) /\ last \in BOOLEAN /\ q - 1 = pos /\ q > 1
  <2>1. q = e[k] + 1
    BY <1>3
  <2>2. ElementHere(w, q, fp, c, last)
    BY <1>5, <2>1, Zenon
  <2>3. q - 1 = pos /\ q > 1
    BY <1>1
  <2> QED BY <2>2, <2>3, Zenon
<1>11. c \in Nat /\ (c + 1) + 1 = c + 2 /\ (c + 2) - 1 = c + 1 /\ q < Len(w)
  <2>1. StringAt(w, q, fp, c) /\ c + 2 <= Len(w)
    BY <1>10, Zenon DEF ElementHere
  <2> QED BY <1>1, <2>1 DEF StringAt
<1>12. SavedUpTo(k + 1) = Append(found, Kept(fp))
  <2>1. k + 1 <= N
    BY <1>4
  <2>2. SavedUpTo(k + 1) = Append(SavedUpTo(k), Kept(fp))
    BY <1>1, <1>4, <2>1, SavedNext, Zenon
  <2> QED BY <1>3, <2>2
<1>13. ASSUME ~WholeText, found' = <<>>, Goto(Saver, "done") PROVE BaselineDone'
  BY <1>1, <1>2, <1>6, <1>8, <1>13, ArrayCutHere
<1> HIDE DEF w, N, fp, last, q
<1>14. There(pos) => SkipWs(pos) = q /\ CharAt(q) # "]"
         /\ (Reads(q, c + 1, Kept(fp)) \/ (Broken(q) /\ ~WholeText))
  BY <1>1, <1>9, <1>10, ReadNext
<1>15. CASE (~There(pos) \/ CharAt(SkipWs(pos)) = "]") /\ Goto(Saver, "done") /\ found' = found
  <2>1. ~There(pos)
    BY <1>14, <1>15, Zenon
  <2>2. pos - 1 = Len(text) /\ ~WholeText
    BY <1>1, <1>9, <1>11, <2>1 DEF There, q
  <2>3. k # 0 => AtComma
    BY <1>3, <2>2, Zenon DEF BehindComma, AtComma, Last
  <2>4. ArrayLoaded'
    <3>1. k \in 1..N - 1 => k # 0
      OBVIOUS
    <3> QED BY <1>3, <1>4, <1>6, <1>15, <2>2, <2>3, <3>1, ArrayLoadedNext DEF N
  <2> QED BY <1>7, <1>8, <1>15, <2>4 DEF BaselineDone
<1>16. ASSUME There(pos), NEW m, NEW out, Reads(SkipWs(pos), m, out), CharAt(SkipWs(m)) \in {",", "]"},
              found' = Append(found, out), pos' = SkipWs(m) + 1,
              CharAt(SkipWs(m)) = "," => pc' = pc,
              CharAt(SkipWs(m)) # "," => Goto(Saver, "done")
       PROVE  ReadsArray(e)' \/ BaselineDone'
  <2>1. m = c + 1 /\ out = Kept(fp)
    <3>1. Reads(q, m, out)
      BY <1>14, <1>16, Zenon
    <3>2. ~Broken(q) /\ \A m2, out2 : Reads(q, m2, out2) => m2 = m /\ out2 = out
      BY <3>1, ReadsOnce
    <3> QED BY <1>14, <1>16, <3>2, Zenon
  <2>2. found' = SavedUpTo(k + 1)
    BY <1>12, <1>16, <2>1, Zenon
  <2>3. CASE CharAt(SkipWs(c + 1)) = ","
    <3>1. ~last /\ SkipWs(c + 1) = c + 1 /\ c + 1 <= Len(text) /\ w[c + 1] = ","
      BY <1>1, <1>10, <2>3, BehindElement, Zenon
    <3>2. pc' = pc
      BY <1>16, <2>1, <2>3, Zenon
    <3>3. pos' = c + 2
      BY <1>11, <1>16, <2>1, <3>1, Zenon
    <3>4. text[c + 1] = w[c + 1]
      <4>1. c + 1 <= Len(text)
        BY <3>1, Zenon
      <4> QED BY <1>1, <1>11, <4>1 DEF CutFrom
    <3>5. BehindComma(pos')
      <4>1. pos' - 1 = c + 1
        BY <1>11, <3>3
      <4> QED BY <3>1, <3>4, <4>1, Zenon DEF BehindComma
    <3>6. k + 1 < N
      BY <1>4, <3>1, Zenon DEF last
    <3>7. pos' = e[k + 1]
      BY <1>5, <3>3, <3>6
    <3> QED BY <1>2, <1>4, <1>6, <1>7, <2>2, <3>2, <3>5, <3>6, <3>7, ReadsArrayNext DEF N
  <2>4. CASE CharAt(SkipWs(c + 1)) = "]"
    <3>1. last
      BY <1>1, <1>10, <2>4, BehindElement, Zenon
    <3>2. Goto(Saver, "done")
      <4>1. "]" # ","
        OBVIOUS
      <4> QED BY <1>16, <2>1, <2>4, <4>1, Zenon
    <3>3. k + 1 = N /\ k + 1 \notin 1..N - 1
      BY <1>1, <3>1 DEF last
    <3>4. ArrayLoaded'
      BY <1>4, <1>6, <2>2, <3>3, ArrayLoadedNext DEF N
    <3> QED BY <1>7, <1>8, <3>2, <3>4 DEF BaselineDone
  <2> QED BY <1>16, <2>1, <2>3, <2>4, Zenon
<1>17. CASE /\ There(pos)
            /\ \A m, out : Reads(SkipWs(pos), m, out) => CharAt(SkipWs(m)) \notin {",", "]"}
            /\ found' = <<>> /\ Goto(Saver, "done")
  <2>1. ~WholeText
    <3>1. CASE Reads(q, c + 1, Kept(fp))
      <4>1. CharAt(SkipWs(c + 1)) \notin {",", "]"}
        BY <1>14, <1>17, <3>1, Zenon
      <4>2. CharAt(SkipWs(c + 1)) = "end" /\ (CharAt(SkipWs(c + 1)) = "end" => Len(text) < Len(w))
        BY <1>1, <1>10, <4>1, BehindElement, Zenon
      <4> QED BY <1>1, <1>9, <4>2
    <3> QED BY <1>14, <1>17, <3>1, Zenon
  <2> QED BY <1>13, <1>17, <2>1, Zenon
<1> QED BY <1>15, <1>16, <1>17, ElementStep, Zenon

LEMMA ReadsArrayStep ==
  ASSUME TextInv, MadeInv, NEW z, NEW e, BaselineAt(TextOf(doc), doc, z, e),
         ReadsArray(e), ReadElement
  PROVE  ReadsArray(e)' \/ BaselineDone'
  BY OneElementStep, NoElementStep

(***************************************************************************)
(* The baseline, step by step.                                             *)
(***************************************************************************)
\* Nothing is loaded before the text is written.
Unread == pc[Saver] \in Early => app = NoText /\ found = <<>>

\* What a step is for the reader: it is none of his, the text is written, or he reads.
LEMMA StepKinds ==
  ASSUME MadeInv, [Next]_vars
  PROVE  \/ /\ doc' = doc /\ text' = text /\ key' = key /\ pos' = pos /\ mark' = mark
            /\ app' = app /\ found' = found
            /\ pc'[Saver] = pc[Saver] \/ (pc[Saver] \in Early /\ pc'[Saver] \in Early)
         \/ WriteTextFile
         \/ Read
<1>1. Saver \in Shells /\ pc \in [Shells -> {"mkdir", "made", "failed", "write", "search", "value",
                                             "items", "report", "done"}]
  BY TextAssumption DEF MadeInv
<1>2. CASE (\E s \in Shells : EnsureDirectory(s) \/ DirectoryThere(s)) \/ UNCHANGED vars
  <2>1. doc' = doc /\ text' = text /\ key' = key /\ pos' = pos /\ mark' = mark /\ app' = app /\ found' = found
    BY <1>2 DEF EnsureDirectory, DirectoryThere, vars, reader
  <2>2. pc'[Saver] = pc[Saver] \/ (pc[Saver] \in Early /\ pc'[Saver] \in Early)
    <3>1. CASE \E s \in Shells : EnsureDirectory(s)
      <4>1. PICK s \in Shells : EnsureDirectory(s)
        BY <3>1
      <4>2. pc[s] = "mkdir" /\ (pc' = pc \/ Goto(s, "failed"))
        BY <4>1, Zenon DEF EnsureDirectory
      <4> QED BY <1>1, <4>2 DEF Goto, Early
    <3>2. CASE \E s \in Shells : DirectoryThere(s)
      BY <1>1, <3>2 DEF DirectoryThere, Goto, Early
    <3>3. CASE UNCHANGED vars
      BY <3>3 DEF vars
    <3> QED BY <1>2, <3>1, <3>2, <3>3
  <2> QED BY <2>1, <2>2
<1> QED BY <1>2 DEF Next

LEMMA UnreadStays == ASSUME MadeInv, TextInv, Unread, [Next]_vars PROVE Unread'
<1>1. CASE WriteTextFile
  <2>1. pc[Saver] = "write" /\ reader' = reader
    BY <1>1, Zenon DEF WriteTextFile
  <2>2. app' = app /\ found' = found
    BY <2>1 DEF reader
  <2> QED BY <2>1, <2>2 DEF Unread, Early
<1>2. CASE Read
  BY <1>2, ReadInside DEF Unread
<1> QED BY <1>1, <1>2, StepKinds DEF Unread

BaselineInv ==
  doc.kind = "baseline" /\ pc[Saver] \notin Early =>
    \E z, e : BaselineAt(TextOf(doc), doc, z, e) /\ BaselineRead(z, e)

\* A step that changes nothing of what is read and loaded.
LEMMA BaselineIdle ==
  ASSUME doc' = doc, text' = text, key' = key, pos' = pos, app' = app, found' = found,
         pc'[Saver] = pc[Saver], NEW z, NEW e, BaselineRead(z, e)
  PROVE  BaselineRead(z, e)'
<1>1. AppLoaded => AppLoaded'
  BY AppLoadedStays
<1>2. ArrayLoaded => ArrayLoaded'
  BY ArrayLoadedStays
<1>3. SearchesApp(z) => SearchesApp(z)'
  <2>1. \A word : Passed(TextOf(doc), BaselineKeys(z), 1, pos, word) =>
                    Passed(TextOf(doc), BaselineKeys(z), 1, pos, word)'
    BY DEF Passed, Wanted
  <2> QED BY <2>1 DEF SearchesApp
<1>4. SearchesArray(z) => SearchesArray(z)'
  <2>1. \A word : Passed(TextOf(doc), BaselineKeys(z), 1, pos, word) =>
                    Passed(TextOf(doc), BaselineKeys(z), 1, pos, word)'
    BY DEF Passed, Wanted
  <2> QED BY <1>1, <2>1 DEF SearchesArray
<1>5. \A p : SkipWs(p)' = SkipWs(p)
  BY DEF SkipWs, CharAt, There
<1>6. (FoundApp => FoundApp') /\ (FoundArray(z) => FoundArray(z)')
  BY <1>1, <1>5 DEF FoundApp, FoundArray
<1>7. ReadsArray(e) => ReadsArray(e)'
  <2> SUFFICES ASSUME ReadsArray(e) PROVE ReadsArray(e)'
    OBVIOUS
  <2>1. PICK k \in 0..Len(doc.items) : /\ k < Len(doc.items) \/ k = 0
                                       /\ pos = e[k] /\ found = SavedUpTo(k)
                                       /\ k # 0 => BehindComma(pos)
    BY DEF ReadsArray
  <2>2. pc'[Saver] = "items" /\ AppLoaded'
    BY <1>1 DEF ReadsArray
  <2> QED BY <2>1, <2>2, ReadsArrayNext
<1>8. BaselineDone => BaselineDone'
  BY <1>1, <1>2 DEF BaselineDone
<1> QED BY <1>3, <1>4, <1>6, <1>7, <1>8 DEF BaselineRead

LEMMA BaselineWritten ==
  ASSUME TextInv, MadeInv, Unread, WriteTextFile, doc.kind = "baseline"
  PROVE  (\E z, e : BaselineAt(TextOf(doc), doc, z, e) /\ BaselineRead(z, e))'
<1>1. pc[Saver] = "write" /\ doc' = doc /\ reader' = reader
  BY Zenon DEF WriteTextFile
<1>2. Goto(Saver, IF doc.kind = "baseline" THEN "search" ELSE "report")
  BY Zenon DEF WriteTextFile
<1>3. pc'[Saver] = "search"
  BY <1>2, TextAssumption DEF Goto, MadeInv
<1>4. key' = "app" /\ pos' = 1 /\ app' = NoText /\ found' = <<>>
  BY <1>1 DEF TextInv, Unread, Early, reader
<1>5. PICK z, e : BaselineAt(TextOf(doc), doc, z, e)
  BY BaselineLayout DEF TextInv
<1>6. \A g \in BaselineKeys(z) : g \in Nat /\ g >= 2
  BY <1>5, BaselineSearched, Zenon DEF KeyAt
<1>7. Passed(TextOf(doc), BaselineKeys(z), 1, pos, "app")'
  <2>1. \A g \in BaselineKeys(z) : pos' # g + 1 /\ pos' # g + 2 /\ ~(g < pos') /\ 1 <= pos'
    BY <1>4, <1>6
  <2>2. \A g \in BaselineKeys(z)' : pos' # g + 1 /\ pos' # g + 2 /\ ~(g < pos')
    BY <2>1 DEF BaselineKeys
  <2> QED BY <1>4, <2>2 DEF Passed, Wanted
<1>8. SearchesApp(z)'
  BY <1>3, <1>4, <1>7 DEF SearchesApp
<1>9. BaselineAt(TextOf(doc), doc, z, e)'
  BY <1>1, <1>5
<1> QED BY <1>8, <1>9, Zenon DEF BaselineRead

LEMMA BaselineReads ==
  ASSUME TextInv, MadeInv, Read, NEW z, NEW e, BaselineAt(TextOf(doc), doc, z, e), BaselineRead(z, e)
  PROVE  BaselineRead(z, e)'
<1>1. CASE SearchesApp(z)
  <2>1. FindKeyValue \/ KeyMissing
    BY <1>1, Zenon DEF SearchesApp, Read, FindString, OpenArray, ReadElement, NextFingerprint
  <2> QED BY <1>1, <2>1, SearchesAppStep, MissedAppStep, Zenon DEF BaselineRead
<1>2. CASE FoundApp
  <2>1. FindString
    BY <1>2, Zenon DEF FoundApp, Read, Search, FindKeyValue, KeyMissing, OpenArray, ReadElement,
       NextFingerprint
  <2> QED BY <1>2, <2>1, FoundAppStep, Zenon DEF BaselineRead
<1>3. CASE SearchesArray(z)
  <2>1. FindKeyValue \/ KeyMissing
    BY <1>3, Zenon DEF SearchesArray, Read, FindString, OpenArray, ReadElement, NextFingerprint
  <2> QED BY <1>3, <2>1, SearchesArrayStep, MissedArrayStep, Zenon DEF BaselineRead
<1>4. CASE FoundArray(z)
  <2>1. OpenArray
    BY <1>4, Zenon DEF FoundArray, Read, Search, FindKeyValue, KeyMissing, FindString, ReadElement,
       NextFingerprint
  <2> QED BY <1>4, <2>1, FoundArrayStep, Zenon DEF BaselineRead
<1>5. CASE ReadsArray(e)
  <2>1. ReadElement
    BY <1>5, Zenon DEF ReadsArray, Read, Search, FindKeyValue, KeyMissing, FindString, OpenArray,
       NextFingerprint
  <2> QED BY <1>5, <2>1, ReadsArrayStep, Zenon DEF BaselineRead
<1>6. CASE BaselineDone
  BY <1>6, Zenon DEF BaselineDone, Read, Search, FindKeyValue, KeyMissing, FindString, OpenArray,
     ReadElement, NextFingerprint
<1> QED BY <1>1, <1>2, <1>3, <1>4, <1>5, <1>6 DEF BaselineRead

LEMMA BaselineStays ==
  ASSUME MadeInv, TextInv, Unread, BaselineInv, [Next]_vars PROVE BaselineInv'
<1>1. CASE WriteTextFile
  <2>1. doc' = doc
    BY <1>1, Zenon DEF WriteTextFile
  <2> QED BY <1>1, <2>1, BaselineWritten, Zenon DEF BaselineInv
<1>2. ASSUME pc[Saver] \notin Early, doc.kind = "baseline",
             doc' = doc,
             \A z, e : BaselineAt(TextOf(doc), doc, z, e) /\ BaselineRead(z, e) => BaselineRead(z, e)'
      PROVE  BaselineInv'
  <2>1. PICK z, e : BaselineAt(TextOf(doc), doc, z, e) /\ BaselineRead(z, e)
    BY <1>2 DEF BaselineInv
  <2>2. BaselineAt(TextOf(doc), doc, z, e)' /\ BaselineRead(z, e)'
    <3>1. BaselineAt(TextOf(doc), doc, z, e)'
      BY <1>2, <2>1
    <3> QED BY <1>2, <2>1, <3>1, Zenon
  <2> QED BY <2>2, Zenon DEF BaselineInv
<1>3. CASE Read
  <2>1. doc' = doc /\ pc[Saver] \notin Early
    <3>1. pc[Saver] \in {"search", "value", "items", "report"}
      BY <1>3, Zenon DEF Read, Search, FindKeyValue, KeyMissing, FindString, OpenArray,
         ReadElement, NextFingerprint
    <3> QED BY <1>3, <3>1, ReadInside DEF Early
  <2> QED BY <1>2, <1>3, <2>1, BaselineReads DEF BaselineInv
<1>4. CASE /\ doc' = doc /\ text' = text /\ key' = key /\ pos' = pos /\ mark' = mark
           /\ app' = app /\ found' = found
           /\ pc'[Saver] = pc[Saver] \/ (pc[Saver] \in Early /\ pc'[Saver] \in Early)
  <2>1. CASE pc'[Saver] \in Early \/ doc.kind # "baseline"
    BY <1>4, <2>1 DEF BaselineInv
  <2>2. CASE pc'[Saver] \notin Early /\ doc.kind = "baseline"
    <3>1. pc'[Saver] = pc[Saver]
      BY <1>4, <2>2
    <3> QED BY <1>2, <1>4, <2>2, <3>1, BaselineIdle
  <2> QED BY <2>1, <2>2
<1> QED BY <1>1, <1>3, <1>4, StepKinds

\* What is loaded from a baseline is what was saved, whatever characters the app and the
\* fingerprints have; of a text that was cut off, the app or none and the first
\* fingerprints, none unless the text ends behind their comma (config.cpp:22-46,
\* json.cpp:69-94, 245-287).
THEOREM BaselineExact == Spec => []BaselineLoadsWhatWasSaved
<1>1. Init => MadeInv /\ TextInv /\ Unread /\ BaselineInv
  <2>1. Init => pc[Saver] \in Early /\ app = NoText /\ found = <<>>
    BY TextAssumption DEF Init, Early
  <2> QED BY <2>1, MadeAtFirst, TypedAtFirst DEF Unread, BaselineInv
<1>2. MadeInv /\ TextInv /\ Unread /\ BaselineInv /\ [Next]_vars =>
      (MadeInv /\ TextInv /\ Unread /\ BaselineInv)'
  BY MadeStays, TextStays, UnreadStays, BaselineStays
<1>3. BaselineInv => BaselineLoadsWhatWasSaved
  <2> SUFFICES ASSUME BaselineInv, pc[Saver] = "done", doc.kind = "baseline"
               PROVE  BaselineLoadsWhatWasSaved
    BY Zenon DEF BaselineLoadsWhatWasSaved
  <2>1. PICK z, e : BaselineRead(z, e)
    BY DEF BaselineInv, Early
  <2>2. AppLoaded /\ ArrayLoaded
    BY <2>1, Zenon DEF BaselineRead, SearchesApp, FoundApp, SearchesArray, FoundArray, ReadsArray,
       BaselineDone
  <2>3. PICK k \in 0..Len(doc.items) : /\ found = SavedUpTo(k)
                                       /\ k \in 1..Len(doc.items) - 1 => AtComma
                                       /\ WholeText => k = Len(doc.items)
    BY <2>2 DEF ArrayLoaded
  <2> QED BY <2>2, <2>3, Zenon DEF BaselineLoadsWhatWasSaved, AppLoaded, AtComma
<1> QED BY <1>1, <1>2, <1>3, PTL DEF Spec

(***************************************************************************)
(* The layout of a report.                                                 *)
(***************************************************************************)

\* An item from its bracket at b; the process closes at p, the import names at i, and the
\* fingerprint at f.
ItemAt(w, b, item, p, i, f) ==
  /\ w[b] = "{" /\ KeyAt(w, b + 2) /\ w[b + 3] = "process"
  /\ StringAt(w, b + 7, item.process, p) /\ w[p + 1] = ","
  /\ KeyAt(w, p + 3) /\ w[p + 4] = "import_names" /\ w[p + 8] = "["
  /\ StringAt(w, p + 9, item.process, i) /\ w[i + 1] = "]" /\ w[i + 2] = ","
  /\ KeyAt(w, i + 4) /\ w[i + 5] = "fingerprint"
  /\ StringAt(w, i + 9, item.fingerprint, f) /\ w[f + 1] = Blank /\ w[f + 2] = "}"

LEMMA ItemLayout ==
  ASSUME NEW w \in Text, NEW item, item.process \in Text, item.fingerprint \in Text,
         NEW b, Part(w, b, ItemText(item))
  PROVE  \E p, i, f : ItemAt(w, b, item, p, i, f) /\ Len(ItemText(item)) = f + 3 - b
<1> DEFINE open == <<"{">>
           processKey == Key("process")
           process == JsonString(item.process)
           comma == <<",">>
           namesKey == Key("import_names")
           bracket == <<"[">>
           closing == <<"]", ",">>
           fpKey == Key("fingerprint")
           fp == JsonString(item.fingerprint)
           ending == <<Blank, "}">>
           x2 == open \o processKey
           x3 == x2 \o process
           x4 == x3 \o comma
           x5 == x4 \o namesKey
           x6 == x5 \o bracket
           x7 == x6 \o process
           x8 == x7 \o closing
           x9 == x8 \o fpKey
           x10 == x9 \o fp
           x11 == x10 \o ending
           m == Len(process)
           l == Len(fp)
<1>1. x11 = ItemText(item)
  BY Zenon DEF ItemText
<1>2. process \in Text /\ fp \in Text
  BY JsonStringTyped
<1>3. m \in Nat /\ l \in Nat /\ Len(process) = m /\ Len(fp) = l
  BY <1>2, LenProperties DEF Text
<1> HIDE DEF m, l
<1>4. /\ processKey \in Text /\ Len(processKey) = 6 /\ namesKey \in Text /\ Len(namesKey) = 6
      /\ fpKey \in Text /\ Len(fpKey) = 6
      /\ open \in Text /\ Len(open) = 1 /\ comma \in Text /\ Len(comma) = 1
      /\ bracket \in Text /\ Len(bracket) = 1 /\ closing \in Text /\ Len(closing) = 2
      /\ ending \in Text /\ Len(ending) = 2
  <2>1. /\ processKey \in Text /\ Len(processKey) = 6 /\ namesKey \in Text /\ Len(namesKey) = 6
        /\ fpKey \in Text /\ Len(fpKey) = 6
    BY BetweenTexts, Zenon
  <2>2. open \in Text /\ comma \in Text /\ bracket \in Text /\ closing \in Text /\ ending \in Text
    BY BetweenTexts, Zenon
  <2>3. Len(open) = 1 /\ Len(comma) = 1 /\ Len(bracket) = 1 /\ Len(closing) = 2 /\ Len(ending) = 2
    <3>1. \A x, y : Len(<<x>>) = 1 /\ Len(<<x, y>>) = 2
      OBVIOUS
    <3> QED BY <3>1, Zenon
  <2> QED BY <2>1, <2>2, <2>3, Zenon
<1> HIDE DEF open, processKey, process, comma, namesKey, bracket, closing, fpKey, fp, ending
<1>5. x2 \in Text /\ Len(x2) = Len(open) + Len(processKey)
  BY <1>4, ConcatLen, Zenon
<1> HIDE DEF x2
<1>6. x3 \in Text /\ Len(x3) = Len(x2) + Len(process)
  BY <1>2, <1>5, ConcatLen, Zenon
<1> HIDE DEF x3
<1>7. x4 \in Text /\ Len(x4) = Len(x3) + Len(comma)
  BY <1>4, <1>6, ConcatLen, Zenon
<1> HIDE DEF x4
<1>8. x5 \in Text /\ Len(x5) = Len(x4) + Len(namesKey)
  BY <1>4, <1>7, ConcatLen, Zenon
<1> HIDE DEF x5
<1>9. x6 \in Text /\ Len(x6) = Len(x5) + Len(bracket)
  BY <1>4, <1>8, ConcatLen, Zenon
<1> HIDE DEF x6
<1>10. x7 \in Text /\ Len(x7) = Len(x6) + Len(process)
  BY <1>2, <1>9, ConcatLen, Zenon
<1> HIDE DEF x7
<1>11. x8 \in Text /\ Len(x8) = Len(x7) + Len(closing)
  BY <1>4, <1>10, ConcatLen, Zenon
<1> HIDE DEF x8
<1>12. x9 \in Text /\ Len(x9) = Len(x8) + Len(fpKey)
  BY <1>4, <1>11, ConcatLen, Zenon
<1> HIDE DEF x9
<1>13. x10 \in Text /\ Len(x10) = Len(x9) + Len(fp)
  BY <1>2, <1>12, ConcatLen, Zenon
<1> HIDE DEF x10
<1>14. Len(x11) = Len(x10) + Len(ending)
  BY <1>4, <1>13, ConcatLen, Zenon
<1>15. Part(w, b, x10) /\ Part(w, b + Len(x10), ending)
  <2>1. Part(w, b, x11)
    BY <1>1
  <2> QED BY <1>4, <1>13, <2>1, PartsOfConcat
<1>16. Part(w, b, x9) /\ Part(w, b + Len(x9), fp)
  BY <1>2, <1>12, <1>15, PartsOfConcat DEF x10
<1>17. Part(w, b, x8) /\ Part(w, b + Len(x8), fpKey)
  BY <1>4, <1>11, <1>16, PartsOfConcat DEF x9
<1>18. Part(w, b, x7) /\ Part(w, b + Len(x7), closing)
  BY <1>4, <1>10, <1>17, PartsOfConcat DEF x8
<1>19. Part(w, b, x6) /\ Part(w, b + Len(x6), process)
  BY <1>2, <1>9, <1>18, PartsOfConcat DEF x7
<1>20. Part(w, b, x5) /\ Part(w, b + Len(x5), bracket)
  BY <1>4, <1>8, <1>19, PartsOfConcat DEF x6
<1>21. Part(w, b, x4) /\ Part(w, b + Len(x4), namesKey)
  BY <1>4, <1>7, <1>20, PartsOfConcat DEF x5
<1>22. Part(w, b, x3) /\ Part(w, b + Len(x3), comma)
  BY <1>4, <1>6, <1>21, PartsOfConcat DEF x4
<1>23. Part(w, b, x2) /\ Part(w, b + Len(x2), process)
  BY <1>2, <1>5, <1>22, PartsOfConcat DEF x3
<1>24. Part(w, b, open) /\ Part(w, b + Len(open), processKey)
  BY <1>4, <1>23, PartsOfConcat DEF x2
<1>25. b \in Nat \ {0}
  BY <1>24 DEF Part
<1>26. PICK p \in Nat, i \in Nat, f \in Nat : p = b + 6 + m /\ i = p + 8 + m /\ f = i + 8 + l
  BY <1>3, <1>25
<1>27. /\ b + Len(open) = b + 1 /\ b + Len(x2) = b + 7 /\ b + Len(x3) = p + 1 /\ b + Len(x4) = p + 2
       /\ b + Len(x5) = p + 8 /\ b + Len(x6) = p + 9 /\ b + Len(x7) = i + 1 /\ b + Len(x8) = i + 3
       /\ b + Len(x9) = i + 9 /\ b + Len(x10) = f + 1 /\ Len(x11) = f + 3 - b
  BY <1>3, <1>4, <1>5, <1>6, <1>7, <1>8, <1>9, <1>10, <1>11, <1>12, <1>13, <1>14, <1>25, <1>26
<1>28. /\ Part(w, b + 1, processKey) /\ Part(w, b + 7, process) /\ Part(w, p + 1, comma)
       /\ Part(w, p + 2, namesKey) /\ Part(w, p + 8, bracket) /\ Part(w, p + 9, process)
       /\ Part(w, i + 1, closing) /\ Part(w, i + 3, fpKey) /\ Part(w, i + 9, fp) /\ Part(w, f + 1, ending)
  BY <1>15, <1>16, <1>17, <1>18, <1>19, <1>20, <1>21, <1>22, <1>23, <1>24, <1>27, Zenon
<1>29. /\ w[b] = "{" /\ w[p + 1] = "," /\ w[p + 8] = "[" /\ w[i + 1] = "]" /\ w[i + 2] = ","
       /\ w[f + 1] = Blank /\ w[f + 2] = "}"
  <2>1. w[b] = "{"
    BY <1>24, SmallParts, Zenon DEF open
  <2>2. /\ \A x : Part(w, x, <<",">>) => w[x] = ","
        /\ \A x : Part(w, x, <<"[">>) => w[x] = "["
        /\ \A x : Part(w, x, <<"]", ",">>) => w[x] = "]" /\ w[x + 1] = ","
        /\ \A x : Part(w, x, <<Blank, "}">>) => w[x] = Blank /\ w[x + 1] = "}"
    BY SmallParts, Zenon
  <2>3. /\ Part(w, p + 1, <<",">>) /\ Part(w, p + 8, <<"[">>)
        /\ Part(w, i + 1, <<"]", ",">>) /\ Part(w, f + 1, <<Blank, "}">>)
    BY <1>28, Zenon DEF comma, bracket, closing, ending
  <2>4. (i + 1) + 1 = i + 2 /\ (f + 1) + 1 = f + 2
    OBVIOUS
  <2> QED BY <2>1, <2>2, <2>3, <2>4, Zenon
<1>30. /\ KeyAt(w, b + 2) /\ w[b + 3] = "process" /\ KeyAt(w, p + 3) /\ w[p + 4] = "import_names"
       /\ KeyAt(w, i + 4) /\ w[i + 5] = "fingerprint"
  <2>1. /\ "process" \notin {Quote, Backslash, Blank, ":"}
        /\ "import_names" \notin {Quote, Backslash, Blank, ":"}
        /\ "fingerprint" \notin {Quote, Backslash, Blank, ":"}
    BY BetweenTexts, Zenon
  <2>2. /\ \A x : Part(w, x, Key("process")) => KeyAt(w, x + 1) /\ w[x + 2] = "process"
        /\ \A x : Part(w, x, Key("import_names")) => KeyAt(w, x + 1) /\ w[x + 2] = "import_names"
        /\ \A x : Part(w, x, Key("fingerprint")) => KeyAt(w, x + 1) /\ w[x + 2] = "fingerprint"
    BY <2>1, KeyParts, Zenon
  <2>3. /\ Part(w, b + 1, Key("process")) /\ Part(w, p + 2, Key("import_names"))
        /\ Part(w, i + 3, Key("fingerprint"))
    BY <1>28, Zenon DEF processKey, namesKey, fpKey
  <2>4. /\ KeyAt(w, (b + 1) + 1) /\ w[(b + 1) + 2] = "process"
        /\ KeyAt(w, (p + 2) + 1) /\ w[(p + 2) + 2] = "import_names"
        /\ KeyAt(w, (i + 3) + 1) /\ w[(i + 3) + 2] = "fingerprint"
    BY <2>2, <2>3, Zenon
  <2>5. /\ (b + 1) + 1 = b + 2 /\ (b + 1) + 2 = b + 3 /\ (p + 2) + 1 = p + 3 /\ (p + 2) + 2 = p + 4
        /\ (i + 3) + 1 = i + 4 /\ (i + 3) + 2 = i + 5
    BY <1>25
  <2> QED BY <2>4, <2>5, Zenon
<1>31. \A x, s : s \in Text /\ Part(w, x, JsonString(s)) => StringAt(w, x, s, x - 1 + Len(JsonString(s)))
  <2> SUFFICES ASSUME NEW x, NEW s \in Text, Part(w, x, JsonString(s))
               PROVE  StringAt(w, x, s, x - 1 + Len(JsonString(s)))
    OBVIOUS
  <2>1. /\ StringAt(w, x, s, x + 1 + Len(Escape(s)))
        /\ Len(JsonString(s)) = Len(Escape(s)) + 2 /\ Len(Escape(s)) \in Nat
    BY JsonStringAt
  <2>2. x \in Nat
    BY DEF Part
  <2>3. x - 1 + Len(JsonString(s)) = x + 1 + Len(Escape(s))
    BY <2>1, <2>2
  <2> QED BY <2>1, <2>3
<1>32. /\ StringAt(w, b + 7, item.process, p) /\ StringAt(w, p + 9, item.process, i)
       /\ StringAt(w, i + 9, item.fingerprint, f)
  <2>1. /\ StringAt(w, b + 7, item.process, (b + 7) - 1 + Len(JsonString(item.process)))
        /\ StringAt(w, p + 9, item.process, (p + 9) - 1 + Len(JsonString(item.process)))
        /\ StringAt(w, i + 9, item.fingerprint, (i + 9) - 1 + Len(JsonString(item.fingerprint)))
    BY <1>28, <1>31, Zenon DEF process, fp
  <2>2. Len(JsonString(item.process)) = m /\ Len(JsonString(item.fingerprint)) = l
    BY <1>3 DEF process, fp
  <2>3. (b + 7) - 1 + m = p /\ (p + 9) - 1 + m = i /\ (i + 9) - 1 + l = f
    BY <1>3, <1>25, <1>26
  <2> QED BY <2>1, <2>2, <2>3, Zenon
<1>33. ItemAt(w, b, item, p, i, f)
  BY <1>29, <1>30, <1>32, Zenon DEF ItemAt
<1> QED BY <1>1, <1>27, <1>33, Zenon

\* The items of a report: the blanks before them are at e.
ItemsAt(w, d, e, p, i, f) ==
  /\ e \in [0..Len(d.items) -> Nat \ {0}] /\ e[0] = 9
  /\ \A k \in 1..Len(d.items) :
       /\ w[e[k - 1]] = Blank /\ ItemAt(w, e[k - 1] + 1, d.items[k], p[k], i[k], f[k])
       /\ k < Len(d.items) => w[f[k] + 3] = "," /\ e[k] = f[k] + 4
       /\ k = Len(d.items) => e[k] = f[k] + 3

EndingAt(w, x) ==
  /\ w[x] = Blank /\ w[x + 1] = "]" /\ w[x + 2] = Blank /\ w[x + 3] = "}" /\ w[x + 4] = Blank
  /\ Len(w) = x + 4

ReportAt(w, d, e, p, i, f) ==
  /\ w[1] = "{" /\ KeyAt(w, 3) /\ w[4] = "items" /\ w[8] = "["
  /\ ItemsAt(w, d, e, p, i, f) /\ EndingAt(w, e[Len(d.items)])

LEMMA FiveParts ==
  ASSUME NEW w, NEW x, NEW a1, NEW a2, NEW a3, NEW a4, NEW a5, Part(w, x, <<a1, a2, a3, a4, a5>>)
  PROVE  /\ x \in Nat \ {0}
         /\ w[x] = a1 /\ w[x + 1] = a2 /\ w[x + 2] = a3 /\ w[x + 3] = a4 /\ w[x + 4] = a5
<1> DEFINE a == <<a1, a2, a3, a4, a5>>
<1>1. Len(a) = 5 /\ a[1] = a1 /\ a[2] = a2 /\ a[3] = a3 /\ a[4] = a4 /\ a[5] = a5
  OBVIOUS
<1>2. x \in Nat \ {0} /\ \A j \in 1..Len(a) : w[x - 1 + j] = a[j]
  BY DEF Part
<1> HIDE DEF a
<1>3. /\ w[x - 1 + 1] = a1 /\ w[x - 1 + 2] = a2 /\ w[x - 1 + 3] = a3
      /\ w[x - 1 + 4] = a4 /\ w[x - 1 + 5] = a5
  BY <1>1, <1>2
<1>4. x - 1 + 1 = x /\ x - 1 + 2 = x + 1 /\ x - 1 + 3 = x + 2 /\ x - 1 + 4 = x + 3 /\ x - 1 + 5 = x + 4
  BY <1>2
<1> QED BY <1>2, <1>3, <1>4

LEMMA EndingLayout ==
  ASSUME NEW w \in Text, NEW x, Part(w, x, <<Blank, "]", Blank, "}", Blank>>), Len(w) = x + 4
  PROVE  EndingAt(w, x)
<1>1. w[x] = Blank /\ w[x + 1] = "]" /\ w[x + 2] = Blank /\ w[x + 3] = "}" /\ w[x + 4] = Blank
  BY FiveParts, Zenon
<1> QED BY <1>1, Zenon DEF EndingAt

LEMMA ReportLayout ==
  ASSUME NEW d \in Documents, d.kind # "baseline"
  PROVE  \E e, p, i, f : ReportAt(TextOf(d), d, e, p, i, f)
<1> DEFINE N == Len(d.items)
           es == [k \in DOMAIN d.items |-> ItemText(d.items[k])]
           x1 == <<"{">>
           itemsKey == Key("items")
           bracket == <<"[">>
           array == Elements(es)
           ending == <<Blank, "]", Blank, "}", Blank>>
           x2 == x1 \o itemsKey
           x3 == x2 \o bracket
           x4 == x3 \o array
           x5 == x4 \o ending
<1>1. /\ N \in Nat /\ DOMAIN d.items = 1..N
      /\ \A k \in 1..N : d.items[k].process \in Text /\ d.items[k].fingerprint \in Text
  BY DocumentIs
<1>2. es \in Seq(Text) /\ Len(es) = N /\ \A k \in 1..N : es[k] = ItemText(d.items[k])
  <2>1. \A k \in 1..N : ItemText(d.items[k]) \in Text
    BY <1>1, ItemTyped
  <2>2. es \in [1..N -> Text]
    BY <1>1, <2>1
  <2>3. \A k \in 1..N : es[k] = ItemText(d.items[k])
    BY <1>1
  <2> HIDE DEF es
  <2> QED BY <1>1, <2>2, <2>3, SeqDef, LenProperties
<1>3. PICK w \in Text : w = TextOf(d)
  BY DocumentTyped
<1>4. w = x5
  BY <1>3, Zenon DEF TextOf, ReportText
<1> HIDE DEF es, N
<1>5. array \in Text
  <2>1. es \in [DOMAIN es -> Text]
    BY <1>2, SeqDef, LenProperties
  <2> QED BY <1>1, <1>2, <2>1, ElementsTyped
<1>6. Len(array) \in Nat /\ Len(w) \in Nat
  BY <1>5, LenProperties DEF Text
<1>7. /\ x1 \in Text /\ Len(x1) = 1 /\ itemsKey \in Text /\ Len(itemsKey) = 6
      /\ bracket \in Text /\ Len(bracket) = 1 /\ ending \in Text /\ Len(ending) = 5
  <2>1. x1 \in Text /\ itemsKey \in Text /\ Len(itemsKey) = 6 /\ bracket \in Text /\ ending \in Text
    BY BetweenTexts, Zenon
  <2>2. (\A x : Len(<<x>>) = 1) /\ \A x1_, x2_, x3_, x4_, x5_ : Len(<<x1_, x2_, x3_, x4_, x5_>>) = 5
    OBVIOUS
  <2> QED BY <2>1, <2>2, Zenon
<1> HIDE DEF x1, itemsKey, bracket, ending, array
<1>8. x2 \in Text /\ Len(x2) = Len(x1) + Len(itemsKey)
  BY <1>7, ConcatLen, Zenon
<1> HIDE DEF x2
<1>9. x3 \in Text /\ Len(x3) = Len(x2) + Len(bracket)
  BY <1>7, <1>8, ConcatLen, Zenon
<1> HIDE DEF x3
<1>10. x4 \in Text /\ Len(x4) = Len(x3) + Len(array)
  BY <1>5, <1>9, ConcatLen, Zenon
<1> HIDE DEF x4
<1>11. Len(w) = Len(x4) + Len(ending)
  BY <1>4, <1>7, <1>10, ConcatLen, Zenon
<1>12. Part(w, 1, x4) /\ Part(w, 1 + Len(x4), ending)
  <2>1. Part(w, 1, x5)
    BY <1>4, WholePart
  <2> QED BY <1>7, <1>10, <2>1, PartsOfConcat
<1>13. Part(w, 1, x3) /\ Part(w, 1 + Len(x3), array)
  BY <1>5, <1>9, <1>12, PartsOfConcat DEF x4
<1>14. Part(w, 1, x2) /\ Part(w, 1 + Len(x2), bracket)
  BY <1>7, <1>8, <1>13, PartsOfConcat DEF x3
<1>15. Part(w, 1, x1) /\ Part(w, 1 + Len(x1), itemsKey)
  BY <1>7, <1>14, PartsOfConcat DEF x2
<1>16. 1 + Len(x1) = 2 /\ 1 + Len(x2) = 8 /\ 1 + Len(x3) = 9 /\ 1 + Len(x4) = 9 + Len(array)
       /\ Len(w) = 9 + Len(array) + 4
  BY <1>6, <1>7, <1>8, <1>9, <1>10, <1>11
<1>17. w[1] = "{" /\ KeyAt(w, 3) /\ w[4] = "items" /\ w[8] = "["
  <2>1. w[1] = "{"
    BY <1>15, SmallParts, Zenon DEF x1
  <2>2. w[8] = "["
    <3>1. Part(w, 8, <<"[">>)
      BY <1>14, <1>16 DEF bracket
    <3>2. \A q : Part(w, q, <<"[">>) => w[q] = "["
      BY SmallParts, Zenon
    <3> QED BY <3>1, <3>2
  <2>3. KeyAt(w, 2 + 1) /\ w[2 + 2] = "items"
    <3>1. Part(w, 2, Key("items"))
      BY <1>15, <1>16 DEF itemsKey
    <3>2. "items" \notin {Quote, Backslash, Blank, ":"}
      BY BetweenTexts, Zenon
    <3> QED BY <3>1, <3>2, KeyParts, Zenon
  <2>4. 2 + 1 = 3 /\ 2 + 2 = 4
    OBVIOUS
  <2> QED BY <2>1, <2>2, <2>3, <2>4, Zenon
<1>18. PICK e : ElementsAt(w, 9, es, e)
  <2>1. Part(w, 9, array)
    BY <1>13, <1>16
  <2> QED BY <1>2, <2>1, PartsOfElements DEF array
<1>19. e \in [0..N -> Nat \ {0}] /\ e[0] = 9 /\ e[N] = 9 + Len(array)
  BY <1>2, <1>18, Zenon DEF ElementsAt, array
<1>20. EndingAt(w, e[N])
  <2>1. Part(w, e[N], ending) /\ Len(w) = e[N] + 4
    BY <1>12, <1>16, <1>19
  <2> QED BY <2>1, EndingLayout, Zenon DEF ending
<1> DEFINE C(k, t) == /\ ItemAt(w, e[k - 1] + 1, d.items[k], t[1], t[2], t[3])
                      /\ Len(es[k]) = t[3] + 3 - (e[k - 1] + 1)
<1>21. ASSUME NEW k \in 1..N
       PROVE  /\ e[k - 1] \in Nat /\ w[e[k - 1]] = Blank
              /\ k < N => /\ w[e[k - 1] + 1 + Len(es[k])] = ","
                          /\ e[k] = e[k - 1] + 2 + Len(es[k])
              /\ k = N => e[k] = e[k - 1] + 1 + Len(es[k])
              /\ \E t : C(k, t)
  <2>1. k - 1 \in 0..N
    BY <1>1
  <2>2. /\ w[e[k - 1]] = Blank /\ Part(w, e[k - 1] + 1, es[k])
        /\ k < N => /\ w[e[k - 1] + 1 + Len(es[k])] = ","
                    /\ e[k] = e[k - 1] + 2 + Len(es[k])
        /\ k = N => e[k] = e[k - 1] + 1 + Len(es[k])
    BY <1>2, <1>18, Zenon DEF ElementsAt
  <2>3. e[k - 1] \in Nat
    BY <1>19, <2>1
  <2>4. PICK p, i, f : /\ ItemAt(w, e[k - 1] + 1, d.items[k], p, i, f)
                       /\ Len(es[k]) = f + 3 - (e[k - 1] + 1)
    <3>1. Part(w, e[k - 1] + 1, ItemText(d.items[k])) /\ es[k] = ItemText(d.items[k])
      BY <1>2, <2>2, Zenon
    <3>2. d.items[k].process \in Text /\ d.items[k].fingerprint \in Text
      BY <1>1
    <3>3. \E p, i, f : /\ ItemAt(w, e[k - 1] + 1, d.items[k], p, i, f)
                       /\ Len(ItemText(d.items[k])) = f + 3 - (e[k - 1] + 1)
      <4>1. PICK item, b : item = d.items[k] /\ b = e[k - 1] + 1
        OBVIOUS
      <4>2. /\ Part(w, b, ItemText(item)) /\ item.process \in Text /\ item.fingerprint \in Text
        BY <3>1, <3>2, <4>1, Zenon
      <4>3. \E p, i, f : ItemAt(w, b, item, p, i, f) /\ Len(ItemText(item)) = f + 3 - b
        BY <4>2, ItemLayout
      <4> QED BY <4>1, <4>3, Zenon
    <3> QED BY <3>1, <3>3, Zenon
  <2>5. \E t : C(k, t)
    <3>1. PICK t : t = <<p, i, f>>
      OBVIOUS
    <3>2. t[1] = p /\ t[2] = i /\ t[3] = f
      BY <3>1
    <3>3. C(k, t)
      BY <2>4, <3>2, Zenon
    <3> QED BY <3>3
  <2> QED BY <2>2, <2>3, <2>5, Zenon
<1> DEFINE T(k) == CHOOSE t : C(k, t)
           p == [k \in 1..N |-> T(k)[1]]
           i == [k \in 1..N |-> T(k)[2]]
           f == [k \in 1..N |-> T(k)[3]]
<1>22. \A k \in 1..N : C(k, T(k))
  <2> HIDE DEF C
  <2> QED BY <1>21, Zenon
<1>23. \A k \in 1..N : p[k] = T(k)[1] /\ i[k] = T(k)[2] /\ f[k] = T(k)[3]
  <2> HIDE DEF T
  <2> QED OBVIOUS
<1> HIDE DEF T, p, i, f
<1>24. ASSUME NEW k \in 1..N
       PROVE  /\ ItemAt(w, e[k - 1] + 1, d.items[k], p[k], i[k], f[k])
              /\ Len(es[k]) = f[k] + 3 - (e[k - 1] + 1)
  BY <1>22, <1>23, Zenon
<1>25. ASSUME NEW k \in 1..N
       PROVE  /\ w[e[k - 1]] = Blank /\ ItemAt(w, e[k - 1] + 1, d.items[k], p[k], i[k], f[k])
              /\ k < N => w[f[k] + 3] = "," /\ e[k] = f[k] + 4
              /\ k = N => e[k] = f[k] + 3
  <2>1. f[k] \in Nat
    <3>1. StringAt(w, i[k] + 9, d.items[k].fingerprint, f[k])
      BY <1>24, Zenon DEF ItemAt
    <3>2. f[k] \in (i[k] + 9) + 1..Len(w) /\ i[k] + 9 \in Nat
      BY <3>1 DEF StringAt
    <3> QED BY <1>6, <3>2
  <2>2. /\ e[k - 1] + 1 + Len(es[k]) = f[k] + 3 /\ e[k - 1] + 2 + Len(es[k]) = f[k] + 4
    <3>1. e[k - 1] \in Nat
      BY <1>21, Zenon
    <3>2. Len(es[k]) = f[k] + 3 - (e[k - 1] + 1)
      BY <1>24, Zenon
    <3>3. \A b, l, z \in Nat : l = z + 3 - (b + 1) => b + 1 + l = z + 3 /\ b + 2 + l = z + 4
      OBVIOUS
    <3>4. Len(es[k]) \in Nat
      <4>1. es[k] \in Text
        BY <1>2, ElementOfSeq
      <4> QED BY <4>1, LenProperties DEF Text
    <3> QED BY <2>1, <3>1, <3>2, <3>3, <3>4, Zenon
  <2> QED BY <1>21, <1>24, <2>2, Zenon
<1>26. ItemsAt(w, d, e, p, i, f)
  BY <1>19, <1>25, Zenon DEF ItemsAt, N
<1>27. ReportAt(w, d, e, p, i, f)
  BY <1>17, <1>20, <1>26, Zenon DEF ReportAt, N
<1> QED BY <1>3, <1>27, Zenon

(***************************************************************************)
(* The keys of a report, and the quotes between them.                      *)
(***************************************************************************)

\* The places of an item follow each other, and the items do.
InOrder(N, e, p, i, f) ==
  /\ N \in Nat /\ e \in [0..N -> Nat] /\ e[0] = 9
  /\ \A k \in 1..N :
       /\ p[k] \in Nat /\ i[k] \in Nat /\ f[k] \in Nat
       /\ p[k] >= e[k - 1] + 9 /\ i[k] >= p[k] + 10 /\ f[k] >= i[k] + 10 /\ e[k] >= f[k] + 3
  /\ \A j, k \in 0..N : j <= k => e[j] <= e[k]

LEMMA Ascending ==
  ASSUME NEW N \in Nat, NEW e \in [0..N -> Nat], \A k \in 1..N : e[k - 1] <= e[k]
  PROVE  \A j, k \in 0..N : j <= k => e[j] <= e[k]
<1> DEFINE S == {k \in Nat : k <= N => \A j \in 0..k : e[j] <= e[k]}
<1>1. 0 \in S
  OBVIOUS
<1>2. \A k \in Nat : k \in S => k + 1 \in S
  <2> SUFFICES ASSUME NEW k \in Nat, k \in S, k + 1 <= N, NEW j \in 0..k + 1 PROVE e[j] <= e[k + 1]
    OBVIOUS
  <2>1. k + 1 \in 1..N /\ (k + 1) - 1 = k
    OBVIOUS
  <2>2. e[k] <= e[k + 1] /\ e[k] \in Nat /\ e[k + 1] \in Nat
    BY <2>1
  <2>3. CASE j = k + 1
    BY <2>2, <2>3
  <2>4. CASE j \in 0..k
    <3>1. e[j] <= e[k] /\ e[j] \in Nat
      BY <2>4
    <3> QED BY <2>2, <3>1
  <2> QED BY <2>3, <2>4
<1> HIDE DEF S
<1>3. Nat \subseteq S
  BY <1>1, <1>2, Induction
<1> QED BY <1>3 DEF S

LEMMA ReportInOrder ==
  ASSUME NEW w \in Text, NEW d \in Documents, NEW e, NEW p, NEW i, NEW f, ItemsAt(w, d, e, p, i, f)
  PROVE  InOrder(Len(d.items), e, p, i, f)
<1> DEFINE N == Len(d.items)
<1>1. N \in Nat /\ Len(w) \in Nat
  BY DocumentIs, LenProperties DEF Text
<1>2. e \in [0..N -> Nat \ {0}] /\ e[0] = 9
  BY Zenon DEF ItemsAt
<1>3. \A k \in 1..N : /\ ItemAt(w, e[k - 1] + 1, d.items[k], p[k], i[k], f[k])
                      /\ k < N => e[k] = f[k] + 4
                      /\ k = N => e[k] = f[k] + 3
  BY Zenon DEF ItemsAt
<1> HIDE DEF N
<1>4. ASSUME NEW k \in 1..N
      PROVE  /\ p[k] \in Nat /\ i[k] \in Nat /\ f[k] \in Nat /\ e[k - 1] \in Nat /\ e[k] \in Nat
             /\ p[k] >= e[k - 1] + 9 /\ i[k] >= p[k] + 10 /\ f[k] >= i[k] + 10 /\ e[k] >= f[k] + 3
  <2>1. k - 1 \in 0..N /\ k \in 0..N /\ (k < N \/ k = N)
    BY <1>1
  <2>2. e[k - 1] \in Nat /\ e[k] \in Nat
    BY <1>2, <2>1
  <2>3. /\ StringAt(w, (e[k - 1] + 1) + 7, d.items[k].process, p[k])
        /\ StringAt(w, p[k] + 9, d.items[k].process, i[k])
        /\ StringAt(w, i[k] + 9, d.items[k].fingerprint, f[k])
    BY <1>3, Zenon DEF ItemAt
  <2>4. /\ p[k] \in ((e[k - 1] + 1) + 7) + 1..Len(w) /\ i[k] \in (p[k] + 9) + 1..Len(w)
        /\ f[k] \in (i[k] + 9) + 1..Len(w)
    BY <2>3, Zenon DEF StringAt
  <2>10. \A a, l \in Nat : \A x : x \in (a + 9) + 1..l => x \in Nat /\ x >= a + 10
    OBVIOUS
  <2>5. p[k] \in Nat /\ p[k] >= e[k - 1] + 9
    <3>1. \A a, l \in Nat : \A x : x \in ((a + 1) + 7) + 1..l => x \in Nat /\ x >= a + 9
      OBVIOUS
    <3> QED BY <1>1, <2>2, <2>4, <3>1, Zenon
  <2>6. i[k] \in Nat /\ i[k] >= p[k] + 10
    BY <1>1, <2>4, <2>5, <2>10, Zenon
  <2>7. f[k] \in Nat /\ f[k] >= i[k] + 10
    BY <1>1, <2>4, <2>6, <2>10, Zenon
  <2>8. (k < N => e[k] = f[k] + 4) /\ (k = N => e[k] = f[k] + 3)
    BY <1>3
  <2>9. e[k] >= f[k] + 3
    BY <2>1, <2>7, <2>8
  <2> QED BY <2>2, <2>5, <2>6, <2>7, <2>9
<1>5. \A k \in 1..N : e[k - 1] <= e[k]
  BY <1>4
<1>6. e \in [0..N -> Nat]
  BY <1>2
<1>7. \A j, k \in 0..N : j <= k => e[j] <= e[k]
  BY <1>1, <1>5, <1>6, Ascending
<1> QED BY <1>1, <1>2, <1>4, <1>6, <1>7 DEF InOrder, N

LEMMA ItemsApart ==
  ASSUME NEW N, NEW e, NEW p, NEW i, NEW f, InOrder(N, e, p, i, f), NEW j \in 1..N, NEW k \in 1..N, j < k
  PROVE  e[j] <= e[k - 1] /\ f[j] + 3 <= e[k - 1]
<1>1. j \in 0..N /\ k - 1 \in 0..N /\ j <= k - 1
  BY DEF InOrder
<1>2. e[j] <= e[k - 1] /\ e[j] \in Nat /\ e[k - 1] \in Nat /\ e[j] >= f[j] + 3 /\ f[j] \in Nat
  BY <1>1 DEF InOrder
<1> QED BY <1>2

ReportKeys(N, e, p, i) ==
  {3} \cup {e[k - 1] + 3 : k \in 1..N} \cup {p[k] + 3 : k \in 1..N} \cup {i[k] + 4 : k \in 1..N}

\* No key is inside of a value.
LEMMA KeysOutside ==
  ASSUME NEW N, NEW e, NEW p, NEW i, NEW f, InOrder(N, e, p, i, f), NEW k \in 1..N,
         NEW g \in ReportKeys(N, e, p, i)
  PROVE  /\ g \in Nat
         /\ g < e[k - 1] + 8 \/ g > p[k]
         /\ g < p[k] + 9 \/ g > i[k]
         /\ g < i[k] + 9 \/ g > f[k]
<1>1. /\ e[k - 1] \in Nat /\ p[k] \in Nat /\ i[k] \in Nat /\ f[k] \in Nat /\ e[k] \in Nat
      /\ p[k] >= e[k - 1] + 9 /\ i[k] >= p[k] + 10 /\ f[k] >= i[k] + 10 /\ e[k] >= f[k] + 3 /\ e[k - 1] >= 9
  BY DEF InOrder
<1>2. CASE g = 3
  BY <1>1, <1>2
<1>3. ASSUME NEW j \in 1..N, g \in {e[j - 1] + 3, p[j] + 3, i[j] + 4}
      PROVE  /\ g \in Nat
             /\ g < e[k - 1] + 8 \/ g > p[k]
             /\ g < p[k] + 9 \/ g > i[k]
             /\ g < i[k] + 9 \/ g > f[k]
  <2>1. /\ e[j - 1] \in Nat /\ p[j] \in Nat /\ i[j] \in Nat /\ f[j] \in Nat /\ e[j] \in Nat
        /\ p[j] >= e[j - 1] + 9 /\ i[j] >= p[j] + 10 /\ f[j] >= i[j] + 10 /\ e[j] >= f[j] + 3
    BY DEF InOrder
  <2>2. CASE j = k
    BY <1>1, <1>3, <2>2
  <2>3. CASE j < k
    <3>1. e[j] <= e[k - 1]
      BY <2>3, ItemsApart
    <3> QED BY <1>1, <1>3, <2>1, <3>1
  <2>4. CASE k < j
    <3>1. e[k] <= e[j - 1]
      BY <2>4, ItemsApart
    <3> QED BY <1>1, <1>3, <2>1, <3>1
  <2> QED BY <2>2, <2>3, <2>4
<1> QED BY <1>2, <1>3 DEF ReportKeys

\* A character that is part of no string, and no colon.
Bare(c) == c \notin {Quote, Backslash, ":"}

LEMMA BareCharacters ==
  \A c \in {"{", "}", "[", "]", ",", Blank} : Bare(c)
<1>1. Bare("{") /\ Bare("}") /\ Bare("[") /\ Bare("]") /\ Bare(",") /\ Bare(Blank)
  <2>1. "{" \notin {Quote, Backslash, ":"}
    BY Zenon DEF Quote, Backslash
  <2>2. "}" \notin {Quote, Backslash, ":"}
    BY Zenon DEF Quote, Backslash
  <2>3. "[" \notin {Quote, Backslash, ":"}
    BY Zenon DEF Quote, Backslash
  <2>4. "]" \notin {Quote, Backslash, ":"}
    BY Zenon DEF Quote, Backslash
  <2>5. "," \notin {Quote, Backslash, ":"}
    BY Zenon DEF Quote, Backslash
  <2>6. Blank \notin {Quote, Backslash, ":"}
    BY Zenon DEF Quote, Backslash, Blank
  <2> QED BY <2>1, <2>2, <2>3, <2>4, <2>5, <2>6, Zenon DEF Bare
<1> QED BY <1>1, Zenon

\* What an item, with the blank at b before it, consists of.
ItemIs(w, b, item, p, i, f) ==
  /\ Bare(w[b]) /\ Bare(w[b + 1]) /\ KeyAt(w, b + 3) /\ StringAt(w, b + 8, item.process, p)
  /\ Bare(w[p + 1]) /\ KeyAt(w, p + 3) /\ Bare(w[p + 8]) /\ StringAt(w, p + 9, item.process, i)
  /\ Bare(w[i + 1]) /\ Bare(w[i + 2]) /\ KeyAt(w, i + 4) /\ StringAt(w, i + 9, item.fingerprint, f)
  /\ Bare(w[f + 1]) /\ Bare(w[f + 2])

ItemWords(w, b, p, i) ==
  w[b + 4] = "process" /\ w[p + 4] = "import_names" /\ w[i + 5] = "fingerprint"

LEMMA ItemHas ==
  ASSUME NEW w, NEW b \in Nat, w[b] = Blank, NEW item, NEW p, NEW i, NEW f,
         ItemAt(w, b + 1, item, p, i, f)
  PROVE  ItemIs(w, b, item, p, i, f) /\ ItemWords(w, b, p, i)
<1>1. (b + 1) + 2 = b + 3 /\ (b + 1) + 3 = b + 4 /\ (b + 1) + 7 = b + 8
  OBVIOUS
<1>2. /\ Bare(w[b]) /\ Bare(w[b + 1]) /\ Bare(w[p + 1]) /\ Bare(w[p + 8]) /\ Bare(w[i + 1])
      /\ Bare(w[i + 2]) /\ Bare(w[f + 1]) /\ Bare(w[f + 2])
  BY BareCharacters, Zenon DEF ItemAt
<1>3. /\ KeyAt(w, (b + 1) + 2) /\ KeyAt(w, p + 3) /\ KeyAt(w, i + 4)
      /\ StringAt(w, (b + 1) + 7, item.process, p) /\ StringAt(w, p + 9, item.process, i)
      /\ StringAt(w, i + 9, item.fingerprint, f)
  BY Zenon DEF ItemAt
<1>4. w[(b + 1) + 3] = "process" /\ w[p + 4] = "import_names" /\ w[i + 5] = "fingerprint"
  BY Zenon DEF ItemAt
<1>5. KeyAt(w, b + 3) /\ StringAt(w, b + 8, item.process, p) /\ w[b + 4] = "process"
  BY <1>1, <1>3, <1>4
<1> QED BY <1>2, <1>3, <1>4, <1>5, Zenon DEF ItemIs, ItemWords

LEMMA NoQuotes == ":" # Quote /\ Blank # Quote
  BY DEF Quote, Blank

LEMMA KeyQuotes ==
  ASSUME NEW w, NEW g, KeyAt(w, g), NEW x \in Nat, g <= x + 1, x <= g + 4, w[x] = Quote
  PROVE  x = g \/ x = g + 2
<1>1. /\ g \in Nat /\ g - 1 \in Nat
      /\ w[g - 1] # Quote /\ w[g + 1] # Quote /\ w[g + 3] # Quote /\ w[g + 4] # Quote
  BY NoQuotes DEF KeyAt
<1>2. x \in {g - 1, g, g + 1, g + 2, g + 3, g + 4}
  BY <1>1
<1> QED BY <1>1, <1>2

LEMMA ItemQuotes ==
  ASSUME NEW w, NEW b \in Nat, NEW item, NEW p \in Nat, NEW i \in Nat, NEW f \in Nat,
         ItemIs(w, b, item, p, i, f), NEW x \in Nat, b <= x, x <= f + 2, w[x] = Quote
  PROVE  \/ x \in {b + 3, p + 3, i + 4} \/ x \in {(b + 3) + 2, (p + 3) + 2, (i + 4) + 2}
         \/ x \in b + 8..p \/ x \in p + 9..i \/ x \in i + 9..f
<1>1. /\ w[b] # Quote /\ w[b + 1] # Quote /\ w[p + 1] # Quote /\ w[p + 8] # Quote
      /\ w[i + 1] # Quote /\ w[i + 2] # Quote /\ w[f + 1] # Quote /\ w[f + 2] # Quote
  BY DEF ItemIs, Bare
<1>2. KeyAt(w, b + 3) /\ KeyAt(w, p + 3) /\ KeyAt(w, i + 4)
  BY DEF ItemIs
<1>3. CASE x \in b + 2..b + 7
  <2>1. x = b + 3 \/ x = (b + 3) + 2
    BY <1>2, <1>3, KeyQuotes
  <2> QED BY <2>1
<1>4. CASE x \in p + 2..p + 7
  <2>1. x = p + 3 \/ x = (p + 3) + 2
    BY <1>2, <1>4, KeyQuotes
  <2> QED BY <2>1
<1>5. CASE x \in i + 3..i + 8
  <2>1. x = i + 4 \/ x = (i + 4) + 2
    BY <1>2, <1>5, KeyQuotes
  <2> QED BY <2>1
<1>6. /\ x \notin {b, b + 1, p + 1, p + 8, i + 1, i + 2, f + 1, f + 2}
  BY <1>1
<1> QED BY <1>3, <1>4, <1>5, <1>6

LEMMA BareNoColon ==
  ASSUME NEW w, NEW z \in Nat, z + 2 <= Len(w), Bare(w[z + 1]), Bare(w[z + 2]) PROVE NoColon(w, z)
  BY DEF NoColon, Bare

LEMMA KeyNoColon ==
  ASSUME NEW w, Len(w) \in Nat, NEW g, KeyAt(w, g) PROVE NoColon(w, g)
  BY DEF NoColon, KeyAt

LEMMA PlacesTyped ==
  ASSUME NEW N, NEW e, NEW p, NEW i, NEW f, InOrder(N, e, p, i, f)
  PROVE  N \in Nat /\ e[N] \in Nat /\ e[N] >= 9 /\ \A k \in 1..N : e[k - 1] \in Nat
           /\ e[k] <= e[N] /\ k - 1 \in 0..N
<1>1. N \in Nat /\ 0 \in 0..N /\ N \in 0..N
  BY DEF InOrder
<1>2. e[0] <= e[N] /\ \A k \in 1..N : k \in 0..N /\ k <= N /\ e[k] <= e[N]
  BY <1>1 DEF InOrder
<1> QED BY <1>1, <1>2 DEF InOrder

\* What a report consists of.
ReportIs(w, d, e, p, i, f) ==
  /\ InOrder(Len(d.items), e, p, i, f)
  /\ Bare(w[1]) /\ KeyAt(w, 3) /\ w[4] = "items" /\ Bare(w[8])
  /\ \A k \in 1..Len(d.items) :
       /\ ItemIs(w, e[k - 1], d.items[k], p[k], i[k], f[k])
       /\ ItemWords(w, e[k - 1], p[k], i[k])
       /\ k < Len(d.items) => Bare(w[f[k] + 3]) /\ e[k] = f[k] + 4
       /\ k = Len(d.items) => e[k] = f[k] + 3
  /\ Len(w) = e[Len(d.items)] + 4
  /\ \A v \in e[Len(d.items)]..Len(w) : Bare(w[v])

LEMMA EndingIs ==
  ASSUME NEW w, NEW x \in Nat, EndingAt(w, x)
  PROVE  Len(w) = x + 4 /\ \A v \in x..Len(w) : Bare(w[v])
<1>1. Len(w) = x + 4
  BY Zenon DEF EndingAt
<1>2. Bare(w[x]) /\ Bare(w[x + 1]) /\ Bare(w[x + 2]) /\ Bare(w[x + 3]) /\ Bare(w[x + 4])
  BY BareCharacters, Zenon DEF EndingAt
<1>3. \A v \in x..Len(w) : v = x \/ v = x + 1 \/ v = x + 2 \/ v = x + 3 \/ v = x + 4
  BY <1>1
<1> QED BY <1>1, <1>2, <1>3

LEMMA ReportHas ==
  ASSUME NEW w \in Text, NEW d \in Documents, NEW e, NEW p, NEW i, NEW f, ReportAt(w, d, e, p, i, f)
  PROVE  ReportIs(w, d, e, p, i, f)
<1> DEFINE N == Len(d.items)
<1>1. ItemsAt(w, d, e, p, i, f) /\ EndingAt(w, e[N])
  BY Zenon DEF ReportAt
<1>2. InOrder(N, e, p, i, f)
  BY <1>1, ReportInOrder
<1>3. Bare(w[1]) /\ KeyAt(w, 3) /\ w[4] = "items" /\ Bare(w[8])
  BY BareCharacters, Zenon DEF ReportAt
<1>4. e[N] \in Nat /\ \A k \in 1..N : e[k - 1] \in Nat
  BY <1>2, PlacesTyped
<1>5. Len(w) = e[N] + 4 /\ \A v \in e[N]..Len(w) : Bare(w[v])
  BY <1>1, <1>4, EndingIs
<1>6. \A k \in 1..N : /\ w[e[k - 1]] = Blank
                      /\ ItemAt(w, e[k - 1] + 1, d.items[k], p[k], i[k], f[k])
                      /\ k < N => Bare(w[f[k] + 3]) /\ e[k] = f[k] + 4
                      /\ k = N => e[k] = f[k] + 3
  BY <1>1, BareCharacters, Zenon DEF ItemsAt
<1> HIDE DEF N
<1>7. ASSUME NEW k \in 1..N
      PROVE  ItemIs(w, e[k - 1], d.items[k], p[k], i[k], f[k]) /\ ItemWords(w, e[k - 1], p[k], i[k])
  <2>1. PICK b \in Nat : b = e[k - 1]
    BY <1>4
  <2>2. PICK item : item = d.items[k]
    OBVIOUS
  <2>3. w[b] = Blank /\ ItemAt(w, b + 1, item, p[k], i[k], f[k])
    BY <1>6, <2>1, <2>2, Zenon
  <2>4. ItemIs(w, b, item, p[k], i[k], f[k]) /\ ItemWords(w, b, p[k], i[k])
    BY <2>3, ItemHas, Zenon
  <2> QED BY <2>1, <2>2, <2>4, Zenon
<1> QED BY <1>2, <1>3, <1>5, <1>6, <1>7, Zenon DEF ReportIs, N

LEMMA ValueBetween ==
  ASSUME NEW w, CutFrom(w), NEW K, \A g \in K : KeyAt(w, g),
         NEW q, NEW s, NEW z, StringAt(w, q, s, z), \A g \in K : g < q \/ g > z,
         z + 2 <= Len(w), NEW y \in z + 3..Len(w) + 1, \A v \in z + 1..y - 1 : Bare(w[v]),
         y <= Len(w) => KeyAt(w, y),
         NEW x \in q..z, x <= Len(text), w[x] = Quote
  PROVE  Harmless(K, x)
<1>1. z \in Nat /\ Len(w) \in Nat
  <2>1. Len(w) \in Nat
    BY LenProperties DEF CutFrom, Text
  <2>2. q \in Nat \ {0} /\ z \in q + 1..Len(w)
    BY Zenon DEF StringAt
  <2> QED BY <2>1, <2>2
<1>2. Plain(w, z + 1, y)
  BY Zenon DEF Plain, Bare
<1>3. NoColon(w, z)
  <2>1. z + 1 \in z + 1..y - 1 /\ z + 2 \in z + 1..y - 1
    BY <1>1
  <2> QED BY <1>1, <2>1, BareNoColon
<1>4. y <= Len(w) => w[y] = Quote /\ NoColon(w, y)
  BY <1>1, KeyNoColon DEF KeyAt
<1>5. y \in z + 1..Len(w) + 1
  BY <1>1
<1> QED BY <1>2, <1>3, <1>4, <1>5, ValueHarmless

\* Behind the last value of an item, up to the next key or to the end, is no quote.
LEMMA BetweenItems ==
  ASSUME NEW w, NEW x \in Nat, Bare(w[x + 1]), Bare(w[x + 2]), Bare(w[x + 3]), Bare(w[x + 4]), Bare(w[x + 5]),
         KeyAt(w, x + 7), Len(w) \in Nat
  PROVE  /\ x + 2 <= Len(w)
         /\ \E y \in x + 3..Len(w) + 1 :
              (\A v \in x + 1..y - 1 : Bare(w[v])) /\ (y <= Len(w) => KeyAt(w, y))
<1> DEFINE y == x + 7
<1>1. y + 4 <= Len(w) /\ w[y - 1] = Blank
  BY Zenon DEF KeyAt
<1>2. Bare(Blank)
  BY BareCharacters, Zenon
<1>3. Bare(w[x + 6])
  <2>1. y - 1 = x + 6
    OBVIOUS
  <2> QED BY <1>1, <1>2, <2>1
<1>4. \A v \in x + 1..y - 1 : v \in {x + 1, x + 2, x + 3, x + 4, x + 5, x + 6}
  OBVIOUS
<1>5. \A v \in x + 1..y - 1 : Bare(w[v])
  BY <1>3, <1>4
<1>6. y \in x + 3..Len(w) + 1 /\ x + 2 <= Len(w)
  BY <1>1
<1> QED BY <1>5, <1>6

LEMMA BehindItems ==
  ASSUME NEW w, NEW x \in Nat, Bare(w[x + 1]), Bare(w[x + 2]), Len(w) = x + 7, \A v \in x + 3..Len(w) : Bare(w[v])
  PROVE  /\ x + 2 <= Len(w)
         /\ \E y \in x + 3..Len(w) + 1 :
              (\A v \in x + 1..y - 1 : Bare(w[v])) /\ (y <= Len(w) => KeyAt(w, y))
<1> DEFINE y == Len(w) + 1
<1>1. \A v \in x + 1..y - 1 : v = x + 1 \/ v = x + 2 \/ v \in x + 3..Len(w)
  OBVIOUS
<1>2. \A v \in x + 1..y - 1 : Bare(w[v])
  BY <1>1
<1>3. y \in x + 3..Len(w) + 1 /\ ~(y <= Len(w)) /\ x + 2 <= Len(w)
  OBVIOUS
<1> QED BY <1>2, <1>3

LEMMA BehindItem ==
  ASSUME NEW w, Len(w) \in Nat, NEW d, NEW e, NEW p, NEW i, NEW f, ReportIs(w, d, e, p, i, f),
         NEW k \in 1..Len(d.items)
  PROVE  /\ f[k] + 2 <= Len(w)
         /\ \E y \in f[k] + 3..Len(w) + 1 :
              (\A v \in f[k] + 1..y - 1 : Bare(w[v])) /\ (y <= Len(w) => KeyAt(w, y))
<1>1. PICK N \in Nat : N = Len(d.items)
  BY PlacesTyped DEF ReportIs
<1>2. PICK x \in Nat : x = f[k]
  BY DEF ReportIs, InOrder
<1>3. Bare(w[x + 1]) /\ Bare(w[x + 2])
  BY <1>2, Zenon DEF ReportIs, ItemIs
<1>4. k < N => Bare(w[x + 3]) /\ e[k] = x + 4
  BY <1>1, <1>2, Zenon DEF ReportIs
<1>5. k = N => e[k] = x + 3
  BY <1>1, <1>2, Zenon DEF ReportIs
<1>6. CASE k < N
  <2>1. k + 1 \in 1..N /\ (k + 1) - 1 = k
    BY <1>1, <1>6
  <2>2. Bare(w[e[(k + 1) - 1]]) /\ Bare(w[e[(k + 1) - 1] + 1]) /\ KeyAt(w, e[(k + 1) - 1] + 3)
    BY <1>1, <2>1, Zenon DEF ReportIs, ItemIs
  <2>3. (x + 4) + 1 = x + 5 /\ (x + 4) + 3 = x + 7
    OBVIOUS
  <2>4. Bare(w[x + 4]) /\ Bare(w[(x + 4) + 1]) /\ KeyAt(w, (x + 4) + 3)
    BY <1>4, <1>6, <2>1, <2>2, Zenon
  <2>5. Bare(w[x + 4]) /\ Bare(w[x + 5]) /\ KeyAt(w, x + 7)
    BY <2>3, <2>4, Zenon
  <2> QED BY <1>2, <1>3, <1>4, <1>6, <2>5, BetweenItems, Zenon
<1>7. CASE k = N
  <2>1. Len(w) = e[k] + 4 /\ \A v \in e[k]..Len(w) : Bare(w[v])
    BY <1>1, <1>7, Zenon DEF ReportIs
  <2>2. (x + 3) + 4 = x + 7
    OBVIOUS
  <2>3. Len(w) = x + 7 /\ \A v \in x + 3..Len(w) : Bare(w[v])
    BY <1>5, <1>7, <2>1, <2>2, Zenon
  <2> QED BY <1>2, <1>3, <2>3, BehindItems, Zenon
<1>8. k < N \/ k = N
  BY <1>1
<1> QED BY <1>6, <1>7, <1>8

LEMMA RoomBehind ==
  \A a, l \in Nat :
    /\ (a + 3) + 4 <= l => a + 3 \in a + 3..l + 1 /\ a + 2 <= l
    /\ (a + 4) + 4 <= l => a + 4 \in a + 3..l + 1 /\ a + 2 <= l
  OBVIOUS

LEMMA ValuesHarmless ==
  ASSUME NEW w, CutFrom(w), NEW K, \A g \in K : KeyAt(w, g),
         NEW b \in Nat, NEW p \in Nat, NEW i \in Nat, NEW f \in Nat, NEW item, ItemIs(w, b, item, p, i, f),
         \A g \in K : /\ g < b + 8 \/ g > p
                      /\ g < p + 9 \/ g > i
                      /\ g < i + 9 \/ g > f,
         f + 2 <= Len(w),
         \E y \in f + 3..Len(w) + 1 :
           (\A v \in f + 1..y - 1 : Bare(w[v])) /\ (y <= Len(w) => KeyAt(w, y)),
         NEW x, x <= Len(text), w[x] = Quote, x \in b + 8..p \/ x \in p + 9..i \/ x \in i + 9..f
  PROVE  Harmless(K, x)
<1>1. /\ Bare(w[p + 1]) /\ KeyAt(w, p + 3) /\ Bare(w[i + 1]) /\ Bare(w[i + 2]) /\ KeyAt(w, i + 4)
      /\ StringAt(w, b + 8, item.process, p) /\ StringAt(w, p + 9, item.process, i)
      /\ StringAt(w, i + 9, item.fingerprint, f)
  BY Zenon DEF ItemIs
<1>2. Len(w) \in Nat
  BY LenProperties DEF CutFrom, Text
<1>3. Bare(w[p + 2]) /\ Bare(w[i + 3])
  <2>1. w[(p + 3) - 1] = Blank /\ w[(i + 4) - 1] = Blank
    BY <1>1, Zenon DEF KeyAt
  <2>2. (p + 3) - 1 = p + 2 /\ (i + 4) - 1 = i + 3
    OBVIOUS
  <2>3. Bare(Blank)
    BY BareCharacters, Zenon
  <2> QED BY <2>1, <2>2, <2>3
<1>4. (p + 3) + 4 <= Len(w) /\ (i + 4) + 4 <= Len(w)
  BY <1>1, Zenon DEF KeyAt
<1>5. CASE x \in b + 8..p
  <2> DEFINE y == p + 3
  <2>1. y \in p + 3..Len(w) + 1 /\ p + 2 <= Len(w)
    BY <1>2, <1>4, RoomBehind, Zenon
  <2>2. \A v \in p + 1..y - 1 : Bare(w[v])
    <3>1. \A v \in p + 1..y - 1 : v = p + 1 \/ v = p + 2
      OBVIOUS
    <3> QED BY <1>1, <1>3, <3>1
  <2>3. y <= Len(w) => KeyAt(w, y)
    BY <1>1
  <2> HIDE DEF y
  <2> QED BY <1>1, <1>5, <2>1, <2>2, <2>3, ValueBetween
<1>6. CASE x \in p + 9..i
  <2> DEFINE y == i + 4
  <2>1. y \in i + 3..Len(w) + 1 /\ i + 2 <= Len(w)
    BY <1>2, <1>4, RoomBehind, Zenon
  <2>2. \A v \in i + 1..y - 1 : Bare(w[v])
    <3>1. \A v \in i + 1..y - 1 : v = i + 1 \/ v = i + 2 \/ v = i + 3
      OBVIOUS
    <3> QED BY <1>1, <1>3, <3>1
  <2>3. y <= Len(w) => KeyAt(w, y)
    BY <1>1
  <2> HIDE DEF y
  <2> QED BY <1>1, <1>6, <2>1, <2>2, <2>3, ValueBetween
<1>7. CASE x \in i + 9..f
  <2>1. PICK y \in f + 3..Len(w) + 1 :
          (\A v \in f + 1..y - 1 : Bare(w[v])) /\ (y <= Len(w) => KeyAt(w, y))
    OBVIOUS
  <2> QED BY <1>1, <1>7, <2>1, ValueBetween
<1> QED BY <1>5, <1>6, <1>7

LEMMA ItemHarmless ==
  ASSUME NEW w, CutFrom(w), NEW d, NEW e, NEW p, NEW i, NEW f, ReportIs(w, d, e, p, i, f),
         NEW K, K = ReportKeys(Len(d.items), e, p, i), \A g \in K : KeyAt(w, g),
         NEW k \in 1..Len(d.items), NEW x, x <= Len(text), w[x] = Quote,
         x \in e[k - 1] + 8..p[k] \/ x \in p[k] + 9..i[k] \/ x \in i[k] + 9..f[k]
  PROVE  Harmless(K, x)
<1>1. e[k - 1] \in Nat /\ p[k] \in Nat /\ i[k] \in Nat /\ f[k] \in Nat
  <2>1. e[k - 1] \in Nat
    BY PlacesTyped DEF ReportIs
  <2> QED BY <2>1 DEF ReportIs, InOrder
<1>2. PICK b \in Nat, pk \in Nat, ik \in Nat, fk \in Nat, item \in {d.items[k]} :
        b = e[k - 1] /\ pk = p[k] /\ ik = i[k] /\ fk = f[k]
  BY <1>1
<1>3. ItemIs(w, b, item, pk, ik, fk)
  BY <1>2, Zenon DEF ReportIs
<1>4. \A g \in K : /\ g < b + 8 \/ g > pk
                   /\ g < pk + 9 \/ g > ik
                   /\ g < ik + 9 \/ g > fk
  <2>1. InOrder(Len(d.items), e, p, i, f)
    BY Zenon DEF ReportIs
  <2> QED BY <1>2, <2>1, KeysOutside, Zenon
<1>5. Len(w) \in Nat
  BY LenProperties DEF CutFrom, Text
<1>6. /\ fk + 2 <= Len(w)
      /\ \E y \in fk + 3..Len(w) + 1 :
           (\A v \in fk + 1..y - 1 : Bare(w[v])) /\ (y <= Len(w) => KeyAt(w, y))
  BY <1>2, <1>5, BehindItem, Zenon
<1>7. x \in b + 8..pk \/ x \in pk + 9..ik \/ x \in ik + 9..fk
  BY <1>2, Zenon
<1> QED BY <1>3, <1>4, <1>6, <1>7, ValuesHarmless, Zenon

\* The keys of a report, and which of them are those of fingerprints.
LEMMA KeysOfReport ==
  ASSUME NEW w, NEW d, NEW e, NEW p, NEW i, NEW f, ReportIs(w, d, e, p, i, f)
  PROVE  LET K == ReportKeys(Len(d.items), e, p, i) IN
         /\ \A g \in K : KeyAt(w, g)
         /\ \A g \in K : w[g + 1] = "fingerprint" => \E k \in 1..Len(d.items) : g = i[k] + 4
         /\ \A k \in 1..Len(d.items) : i[k] + 4 \in K /\ w[(i[k] + 4) + 1] = "fingerprint"
<1> DEFINE N == Len(d.items)
           K == ReportKeys(N, e, p, i)
<1>1. KeyAt(w, 3) /\ w[4] = "items"
  BY Zenon DEF ReportIs
<1>2. ASSUME NEW k \in 1..N
      PROVE  /\ KeyAt(w, e[k - 1] + 3) /\ KeyAt(w, p[k] + 3) /\ KeyAt(w, i[k] + 4)
             /\ w[e[k - 1] + 4] = "process" /\ w[p[k] + 4] = "import_names" /\ w[i[k] + 5] = "fingerprint"
  BY <1>2, Zenon DEF ReportIs, ItemIs, ItemWords
<1>3. ASSUME NEW k \in 1..N
      PROVE  (e[k - 1] + 3) + 1 = e[k - 1] + 4 /\ (p[k] + 3) + 1 = p[k] + 4 /\ (i[k] + 4) + 1 = i[k] + 5
  <2>1. e[k - 1] \in Nat
    BY PlacesTyped DEF ReportIs
  <2>2. p[k] \in Nat /\ i[k] \in Nat
    BY DEF ReportIs, InOrder
  <2>3. \A x \in Nat : (x + 3) + 1 = x + 4 /\ (x + 4) + 1 = x + 5
    OBVIOUS
  <2> QED BY <2>1, <2>2, <2>3, Zenon
<1>4. 3 + 1 = 4
  OBVIOUS
<1>5. "items" # "fingerprint" /\ "process" # "fingerprint" /\ "import_names" # "fingerprint"
  OBVIOUS
<1>6. ASSUME NEW k \in 1..N
      PROVE  /\ w[(e[k - 1] + 3) + 1] = "process" /\ w[(p[k] + 3) + 1] = "import_names"
             /\ w[(i[k] + 4) + 1] = "fingerprint"
  BY <1>2, <1>3, Zenon
<1>7. w[3 + 1] = "items"
  BY <1>1, <1>4, Zenon
<1>8. \A g \in K : \/ g = 3
                   \/ \E k \in 1..N : g = e[k - 1] + 3 \/ g = p[k] + 3 \/ g = i[k] + 4
  BY Zenon DEF ReportKeys
<1>9. \A k \in 1..N : i[k] + 4 \in K
  BY Zenon DEF ReportKeys
<1> HIDE DEF K, N
<1>10. \A g \in K : KeyAt(w, g)
  BY <1>1, <1>2, <1>8, Zenon
<1>11. \A g \in K : w[g + 1] = "fingerprint" => \E k \in 1..N : g = i[k] + 4
  BY <1>5, <1>6, <1>7, <1>8, Zenon
<1>12. \A k \in 1..N : i[k] + 4 \in K /\ w[(i[k] + 4) + 1] = "fingerprint"
  BY <1>6, <1>9, Zenon
<1> QED BY <1>10, <1>11, <1>12, Zenon DEF K, N

\* Every quote belongs to a key, or to a value and is harmless.
LEMMA QuoteInItem ==
  ASSUME NEW w, CutFrom(w), NEW d, NEW e, NEW p, NEW i, NEW f, ReportIs(w, d, e, p, i, f),
         NEW K, K = ReportKeys(Len(d.items), e, p, i), NEW k \in 1..Len(d.items),
         NEW x \in Nat, e[k - 1] <= x, x < e[k], x <= Len(text), w[x] = Quote
  PROVE  x \in K \/ (\E g \in K : x = g + 2) \/ Harmless(K, x)
<1>1. e[k - 1] \in Nat /\ p[k] \in Nat /\ i[k] \in Nat /\ f[k] \in Nat
  <2>1. e[k - 1] \in Nat
    BY PlacesTyped DEF ReportIs
  <2> QED BY <2>1 DEF ReportIs, InOrder
<1>2. PICK N \in Nat : N = Len(d.items)
  BY PlacesTyped DEF ReportIs
<1>3. PICK b \in Nat, pk \in Nat, ik \in Nat, fk \in Nat, item \in {d.items[k]} :
        b = e[k - 1] /\ pk = p[k] /\ ik = i[k] /\ fk = f[k]
  BY <1>1
<1>4. ItemIs(w, b, item, pk, ik, fk)
  BY <1>3, Zenon DEF ReportIs
<1>5. b + 3 \in K /\ pk + 3 \in K /\ ik + 4 \in K
  BY <1>3, Zenon DEF ReportKeys
<1>6. k < N => Bare(w[fk + 3]) /\ e[k] = fk + 4
  BY <1>2, <1>3, Zenon DEF ReportIs
<1>7. k = N => e[k] = fk + 3
  BY <1>2, <1>3, Zenon DEF ReportIs
<1>8. x <= fk + 2
  <2>1. ~Bare(w[x])
    BY Zenon DEF Bare
  <2>2. k < N \/ k = N
    BY <1>2
  <2>3. CASE k = N
    <3>1. \A a, c \in Nat : c < a + 3 => c <= a + 2
      OBVIOUS
    <3> QED BY <1>7, <2>3, <3>1, Zenon
  <2>4. CASE k < N
    <3>1. \A a, c \in Nat : c < a + 4 /\ c # a + 3 => c <= a + 2
      OBVIOUS
    <3>2. x # fk + 3
      BY <1>6, <2>1, <2>4, Zenon
    <3> QED BY <1>6, <2>4, <3>1, <3>2, Zenon
  <2> QED BY <2>2, <2>3, <2>4
<1>9. b <= x
  BY <1>3, Zenon
<1>10. \/ x \in {b + 3, pk + 3, ik + 4} \/ x \in {(b + 3) + 2, (pk + 3) + 2, (ik + 4) + 2}
       \/ x \in b + 8..pk \/ x \in pk + 9..ik \/ x \in ik + 9..fk
  BY <1>4, <1>8, <1>9, ItemQuotes, Zenon
<1>11. \A g \in K : KeyAt(w, g)
  BY KeysOfReport, Zenon
<1>12. CASE x \in b + 8..pk \/ x \in pk + 9..ik \/ x \in ik + 9..fk
  BY <1>3, <1>11, <1>12, ItemHarmless, Zenon
<1> QED BY <1>5, <1>10, <1>12, Zenon

LEMMA ReportKnown ==
  ASSUME NEW w, CutFrom(w), NEW d, NEW e, NEW p, NEW i, NEW f, ReportIs(w, d, e, p, i, f)
  PROVE  Known(ReportKeys(Len(d.items), e, p, i), Len(text))
<1> DEFINE K == ReportKeys(Len(d.items), e, p, i)
<1> SUFFICES ASSUME NEW x \in 1..Len(text), text[x] = Quote
             PROVE  x \in K \/ (\E g \in K : x = g + 2) \/ Harmless(K, x)
  BY Zenon DEF Known
<1>1. Len(text) \in Nat /\ Len(w) \in Nat /\ Len(text) <= Len(w)
  BY LenProperties DEF CutFrom, Text
<1>2. x \in Nat /\ x <= Len(text) /\ x <= Len(w) /\ x > 0
  BY <1>1
<1>3. w[x] = Quote
  BY DEF CutFrom
<1>4. InOrder(Len(d.items), e, p, i, f)
  BY Zenon DEF ReportIs
<1>5. PICK N \in Nat : N = Len(d.items)
  BY <1>4, PlacesTyped
<1>6. e \in [0..N -> Nat] /\ e[0] = 9
  BY <1>4, <1>5 DEF InOrder
<1>7. ~Bare(w[x])
  BY <1>3, Zenon DEF Bare
<1> HIDE DEF K
<1>8. CASE x < 9
  <2>1. x \in {1, 2, 3, 4, 5, 6, 7, 8}
    BY <1>2, <1>8
  <2>2. Bare(w[1]) /\ Bare(w[8]) /\ KeyAt(w, 3)
    BY Zenon DEF ReportIs
  <2>3. x # 1 /\ x # 8
    BY <1>7, <2>2, Zenon
  <2>4. x = 3 \/ x = 3 + 2
    <3>1. 3 <= x + 1 /\ x <= 3 + 4
      BY <2>1, <2>3
    <3> QED BY <1>2, <1>3, <2>2, <3>1, KeyQuotes
  <2>5. 3 \in K
    BY DEF K, ReportKeys
  <2> QED BY <2>4, <2>5
<1>9. CASE 9 <= x /\ x < e[N]
  <2>1. e[0] <= x
    BY <1>6, <1>9
  <2>2. PICK k \in 1..N : e[k - 1] <= x /\ x < e[k]
    BY <1>2, <1>6, <1>9, <2>1, Covered
  <2> QED BY <1>2, <1>3, <1>5, <2>2, QuoteInItem, Zenon DEF K
<1>10. CASE e[N] <= x
  <2>1. \A v \in e[N]..Len(w) : Bare(w[v])
    BY <1>5, Zenon DEF ReportIs
  <2>2. x \in e[N]..Len(w)
    <3>1. e[N] \in Nat
      BY <1>6
    <3> QED BY <1>1, <1>2, <1>10, <3>1
  <2> QED BY <1>7, <2>1, <2>2
<1>11. e[N] \in Nat
  BY <1>6
<1> QED BY <1>2, <1>8, <1>9, <1>10, <1>11 DEF K

(***************************************************************************)
(* What the reader of a report does.  Wherever it looks for the word in    *)
(* quotes next, every fingerprint whose key is before is loaded, or the    *)
(* text ends inside of it.                                                 *)
(***************************************************************************)
LEMMA FingerprintPlaces ==
  ASSUME NEW w, Len(w) \in Nat, NEW d, NEW e, NEW p, NEW i, NEW f, ReportIs(w, d, e, p, i, f),
         NEW k \in 1..Len(d.items)
  PROVE  /\ i[k] \in Nat /\ f[k] \in Nat /\ f[k] >= i[k] + 10 /\ f[k] <= Len(w)
         /\ KeyAt(w, i[k] + 4) /\ StringAt(w, i[k] + 9, Fingerprint(d, k), f[k])
         /\ \A j \in 1..Len(d.items) : j < k => f[j] < i[k] /\ i[j] < i[k]
<1>1. i[k] \in Nat /\ f[k] \in Nat /\ p[k] \in Nat /\ f[k] >= i[k] + 10 /\ i[k] >= p[k] + 10
         /\ p[k] >= e[k - 1] + 9
  BY DEF ReportIs, InOrder
<1>2. e[k - 1] \in Nat
  BY PlacesTyped DEF ReportIs
<1>3. KeyAt(w, i[k] + 4) /\ StringAt(w, i[k] + 9, Fingerprint(d, k), f[k])
  BY Zenon DEF ReportIs, ItemIs, Fingerprint
<1>4. f[k] \in (i[k] + 9) + 1..Len(w)
  BY <1>3, Zenon DEF StringAt
<1>5. \A a, l \in Nat : \A x : x \in (a + 9) + 1..l => x <= l
  OBVIOUS
<1>7. f[k] <= Len(w)
  BY <1>1, <1>4, <1>5, Zenon
<1>8. ASSUME NEW j \in 1..Len(d.items), j < k PROVE f[j] < i[k] /\ i[j] < i[k]
  <2>1. f[j] + 3 <= e[k - 1]
    BY <1>8, ItemsApart DEF ReportIs
  <2>2. f[j] \in Nat /\ i[j] \in Nat /\ f[j] >= i[j] + 10
    BY DEF ReportIs, InOrder
  <2>3. \A a, b, c, x, y \in Nat : a + 3 <= b /\ c >= b + 9 /\ x >= c + 10 /\ a >= y + 10 => a < x /\ y < x
    OBVIOUS
  <2> QED BY <1>1, <1>2, <2>1, <2>2, <2>3, Zenon
<1> QED BY <1>1, <1>3, <1>7, <1>8, Zenon

\* The first k fingerprints are loaded, and all before edge are among them or cut.
HasLoaded(k) == found \in Seq(Text) /\ ToSet(found) = ToSet(SavedUpTo(k)) \ {<<>>}
Loaded(i, f, edge) ==
  \E k \in 0..Len(doc.items) :
    HasLoaded(k) /\ \A j \in 1..Len(doc.items) : i[j] + 4 < edge => j <= k \/ Len(text) < f[j]

SearchesMark(i, f) == pc[Saver] = "report" /\ Loaded(i, f, pos)
SearchesFingerprint(e, p, i, f) ==
  /\ pc[Saver] = "search" /\ key = "fingerprint" /\ Loaded(i, f, mark)
  /\ Passed(TextOf(doc), ReportKeys(Len(doc.items), e, p, i), mark, pos, "fingerprint")
FoundFingerprint(i, f) ==
  /\ pc[Saver] = "value" /\ key = "fingerprint" /\ Loaded(i, f, mark)
  /\ \E j \in 1..Len(doc.items) :
       /\ i[j] + 4 >= mark /\ (i[j] + 4) + 3 <= Len(text) /\ pos = SkipWs((i[j] + 4) + 4)
       /\ \A h \in 1..Len(doc.items) : i[h] + 4 >= mark => i[j] + 4 <= i[h] + 4
ReportDone(f) ==
  /\ pc[Saver] = "done"
  /\ \E k \in 0..Len(doc.items) :
       HasLoaded(k) /\ \A j \in 1..Len(doc.items) : j <= k \/ Len(text) < f[j]

ReportRead(e, p, i, f) ==
  SearchesMark(i, f) \/ SearchesFingerprint(e, p, i, f) \/ FoundFingerprint(i, f) \/ ReportDone(f)

LEMMA LoadedNext ==
  ASSUME text' = text, doc' = doc, NEW k \in 0..Len(doc.items),
         found' \in Seq(Text), ToSet(found') = ToSet(SavedUpTo(k)) \ {<<>>},
         NEW i, NEW f
  PROVE  /\ (\A j \in 1..Len(doc.items) : i[j] + 4 < mark' => j <= k \/ Len(text) < f[j]) => Loaded(i, f, mark)'
         /\ (\A j \in 1..Len(doc.items) : i[j] + 4 < pos' => j <= k \/ Len(text) < f[j]) => Loaded(i, f, pos)'
         /\ pc'[Saver] = "done" /\ (\A j \in 1..Len(doc.items) : j <= k \/ Len(text) < f[j]) => ReportDone(f)'
<1>1. SavedUpTo(k)' = SavedUpTo(k)
  BY DEF SavedUpTo, Kept
<1>2. HasLoaded(k)'
  BY <1>1 DEF HasLoaded
<1> QED BY <1>2, Zenon DEF Loaded, ReportDone

LEMMA ThreeCharacters ==
  ASSUME NEW t \in Text, NEW g \in Nat \ {0}, g + 2 <= Len(t), NEW c
  PROVE  SubSeq(t, g, g + 2) = <<Quote, c, Quote>> <=> t[g] = Quote /\ t[g + 1] = c /\ t[g + 2] = Quote
<1> DEFINE s == SubSeq(t, g, g + 2)
           r == <<Quote, c, Quote>>
<1>1. t \in Seq(Character) /\ Len(t) \in Nat
  BY LenProperties DEF Text
<1>2. \A k \in g..g + 2 : t[k] \in Character
  BY <1>1, ElementOfSeq
<1>3. s \in Seq(Character) /\ Len(s) = 3 /\ s[1] = t[g] /\ s[2] = t[g + 1] /\ s[3] = t[g + 2]
  <2>1. g + 2 \in Nat /\ g \in 1..Len(t) + 1 /\ g + 2 \in g - 1..Len(t)
    BY <1>1
  <2>2. s \in Seq(Character) /\ Len(s) = (g + 2) - g + 1 /\ \A k \in 1..(g + 2) - g + 1 : s[k] = t[g + k - 1]
    BY <1>1, <2>1, SubSeqProperties
  <2>3. (g + 2) - g + 1 = 3 /\ g + 1 - 1 = g /\ g + 2 - 1 = g + 1 /\ g + 3 - 1 = g + 2
    OBVIOUS
  <2> HIDE DEF s
  <2> QED BY <2>2, <2>3
<1>4. Len(r) = 3 /\ r[1] = Quote /\ r[2] = c /\ r[3] = Quote
  OBVIOUS
<1>5. s = r => t[g] = Quote /\ t[g + 1] = c /\ t[g + 2] = Quote
  BY <1>3, <1>4
<1>6. ASSUME t[g] = Quote, t[g + 1] = c, t[g + 2] = Quote PROVE s = r
  <2>1. g \in g..g + 2 /\ g + 1 \in g..g + 2
    OBVIOUS
  <2>2. c \in Character /\ Quote \in Character
    BY <1>2, <1>6, <2>1
  <2>3. r \in Seq(Character)
    BY <2>2
  <2> HIDE DEF s, r
  <2>4. \A k \in 1..Len(s) : s[k] = r[k]
    BY <1>3, <1>4, <1>6
  <2> QED BY <1>3, <1>4, <2>3, <2>4, SeqEqual
<1> QED BY <1>5, <1>6

LEMMA PassedNext ==
  ASSUME text' = text, doc' = doc, NEW e, NEW p, NEW i,
         Passed(TextOf(doc), ReportKeys(Len(doc.items), e, p, i), mark', pos', "fingerprint")
  PROVE  Passed(TextOf(doc), ReportKeys(Len(doc.items), e, p, i), mark, pos, "fingerprint")'
  BY DEF Passed, Wanted

LEMMA MarkStep ==
  ASSUME NextFingerprint
  PROVE  /\ text' = text /\ doc' = doc /\ found' = found /\ app' = app
         /\ \/ Marks = {} /\ Goto(Saver, "done")
            \/ /\ mark' \in Marks /\ (\A q \in Marks : mark' <= q) /\ pos' = mark'
               /\ key' = "fingerprint" /\ Goto(Saver, "search")
  BY Zenon DEF NextFingerprint

LEMMA IsMark ==
  ASSUME NEW w, CutFrom(w), pos \in 1..Len(text) + 1,
         NEW g \in Nat, KeyAt(w, g), w[g + 1] = "fingerprint", ~(g < pos), g + 2 <= Len(text)
  PROVE  g \in Marks
<1>1. Len(text) \in Nat
  BY LenProperties DEF CutFrom, Text
<1>2. g \in 1..Len(text) /\ g + 1 \in 1..Len(text) /\ g + 2 \in 1..Len(text) /\ g \in pos..Len(text) - 2
      /\ g \in Nat \ {0}
  BY <1>1
<1>3. w[g] = Quote /\ w[g + 2] = Quote
  BY Zenon DEF KeyAt
<1>4. text[g] = Quote /\ text[g + 1] = "fingerprint" /\ text[g + 2] = Quote
  BY <1>2, <1>3, Zenon DEF CutFrom
<1>5. text \in Text
  BY Zenon DEF CutFrom
<1>6. SubSeq(text, g, g + 2) = <<Quote, "fingerprint", Quote>>
  <2>1. g \in Nat \ {0} /\ g + 2 <= Len(text)
    BY <1>2
  <2>2. \A c : SubSeq(text, g, g + 2) = <<Quote, c, Quote>> <=>
                 text[g] = Quote /\ text[g + 1] = c /\ text[g + 2] = Quote
    BY <1>5, <2>1, ThreeCharacters, Zenon
  <2> QED BY <1>4, <2>2, Zenon
<1> QED BY <1>2, <1>6, Zenon DEF Marks

LEMMA MarkThere ==
  ASSUME NEW w, CutFrom(w), pos \in 1..Len(text) + 1, NEW m \in Marks
  PROVE  m \in Nat \ {0} /\ pos <= m /\ m + 2 <= Len(text) /\ w[m] = Quote /\ w[m + 1] = "fingerprint"
<1>1. Len(text) \in Nat
  BY LenProperties DEF CutFrom, Text
<1>2. m \in pos..Len(text) - 2 /\ SubSeq(text, m, m + 2) = <<Quote, "fingerprint", Quote>>
  BY Zenon DEF Marks
<1>3. m \in Nat \ {0} /\ pos <= m /\ m + 2 <= Len(text) /\ m \in 1..Len(text) /\ m + 1 \in 1..Len(text)
  BY <1>1, <1>2
<1>4. text \in Text
  BY Zenon DEF CutFrom
<1>5. text[m] = Quote /\ text[m + 1] = "fingerprint"
  BY <1>2, <1>3, <1>4, ThreeCharacters, Zenon
<1>6. w[m] = Quote /\ w[m + 1] = "fingerprint"
  BY <1>3, <1>5, Zenon DEF CutFrom
<1> QED BY <1>3, <1>6

LEMMA SearchesMarkStep ==
  ASSUME TextInv, MadeInv, NEW e, NEW p, NEW i, NEW f, ReportIs(TextOf(doc), doc, e, p, i, f),
         SearchesMark(i, f), NextFingerprint
  PROVE  SearchesFingerprint(e, p, i, f)' \/ ReportDone(f)'
<1>0. PICK w : w = TextOf(doc)
  OBVIOUS
<1> DEFINE K == ReportKeys(Len(doc.items), e, p, i)
<1>1. CutFrom(w)
  BY <1>0, TextIsCut
<1>2. ReportIs(w, doc, e, p, i, f)
  BY <1>0
<1>3. Len(text) \in Nat /\ Len(w) \in Nat
  BY <1>1, LenProperties DEF CutFrom, Text
<1>4. ASSUME NEW j \in 1..Len(doc.items)
      PROVE  /\ i[j] \in Nat /\ f[j] \in Nat /\ f[j] >= i[j] + 10 /\ KeyAt(w, i[j] + 4)
             /\ w[(i[j] + 4) + 1] = "fingerprint"
  <2>1. i[j] \in Nat /\ f[j] \in Nat /\ f[j] >= i[j] + 10 /\ KeyAt(w, i[j] + 4)
    BY <1>2, <1>3, FingerprintPlaces, Zenon
  <2>2. w[(i[j] + 4) + 1] = "fingerprint"
    <3>1. \A k \in 1..Len(doc.items) : i[k] + 4 \in K /\ w[(i[k] + 4) + 1] = "fingerprint"
      BY <1>2, KeysOfReport, Zenon
    <3> QED BY <3>1
  <2> QED BY <2>1, <2>2
<1>5. \A g \in K : KeyAt(w, g)
  BY <1>2, KeysOfReport, Zenon
<1>6. PICK k \in 0..Len(doc.items) :
        HasLoaded(k) /\ \A j \in 1..Len(doc.items) : i[j] + 4 < pos => j <= k \/ Len(text) < f[j]
  BY Zenon DEF SearchesMark, Loaded
<1>7. text' = text /\ doc' = doc /\ found' = found
  BY MarkStep
<1>8. found' \in Seq(Text) /\ ToSet(found') = ToSet(SavedUpTo(k)) \ {<<>>}
  BY <1>6, <1>7, Zenon DEF HasLoaded
<1>9. Goto(Saver, "done") => pc'[Saver] = "done"
  BY TextAssumption DEF MadeInv, Goto
<1>10. Goto(Saver, "search") => pc'[Saver] = "search"
  BY TextAssumption DEF MadeInv, Goto
<1>11. pos \in 1..Len(text) + 1
  BY DEF TextInv
<1> HIDE DEF K
<1>12. ASSUME NEW j \in 1..Len(doc.items), ~(i[j] + 4 < pos), ~(i[j] + 4 \in Marks) PROVE Len(text) < f[j]
  <2>1. PICK g \in Nat : g = i[j] + 4
    BY <1>4
  <2>2. KeyAt(w, g) /\ w[g + 1] = "fingerprint" /\ ~(g < pos) /\ ~(g \in Marks)
    BY <1>4, <1>12, <2>1, Zenon
  <2>3. ~(g + 2 <= Len(text))
    BY <1>1, <1>11, <2>2, IsMark, Zenon
  <2>4. \A a, b, c \in Nat : ~((a + 4) + 2 <= c) /\ b >= a + 10 => c < b
    OBVIOUS
  <2> QED BY <1>3, <1>4, <2>1, <2>3, <2>4, Zenon
<1>13. CASE Marks = {} /\ Goto(Saver, "done")
  <2>1. ASSUME NEW j \in 1..Len(doc.items) PROVE j <= k \/ Len(text) < f[j]
    BY <1>6, <1>12, <1>13, Zenon
  <2> QED BY <1>7, <1>8, <1>9, <1>13, <2>1, LoadedNext, Zenon
<1>14. CASE /\ mark' \in Marks /\ (\A q \in Marks : mark' <= q) /\ pos' = mark'
            /\ key' = "fingerprint" /\ Goto(Saver, "search")
  <2>1. PICK m : m = mark'
    OBVIOUS
  <2>2. m \in Nat \ {0} /\ pos <= m /\ m + 2 <= Len(text) /\ w[m] = Quote /\ w[m + 1] = "fingerprint"
    BY <1>1, <1>11, <1>14, <2>1, MarkThere, Zenon
  <2>3. ASSUME NEW j \in 1..Len(doc.items), i[j] + 4 < m PROVE j <= k \/ Len(text) < f[j]
    <3>1. \A x \in Nat : ~(x + 4 < m /\ m <= x + 4)
      BY <2>2
    <3>2. i[j] + 4 \notin Marks
      BY <1>4, <1>14, <2>1, <2>3, <3>1, Zenon
    <3> QED BY <1>6, <1>12, <3>2, Zenon
  <2>4. Loaded(i, f, mark)'
    BY <1>7, <1>8, <2>1, <2>3, LoadedNext, Zenon
  <2>5. Passed(w, K, m, m, "fingerprint")
    <3>1. m <= m
      BY <2>2
    <3>2. ASSUME NEW g \in K, m = g + 1 \/ m = g + 2 PROVE FALSE
      <4>1. g \in Nat /\ w[g + 1] # Quote /\ w[g + 3] = ":"
        BY <1>5, Zenon DEF KeyAt
      <4>2. \A x \in Nat : (x + 2) + 1 = x + 3
        OBVIOUS
      <4>3. ":" # "fingerprint"
        OBVIOUS
      <4> QED BY <2>2, <3>2, <4>1, <4>2, <4>3, Zenon
    <3>3. \A g \in Wanted(w, K, m, "fingerprint") : ~(g < m)
      <4>1. \A g \in K : g \in Nat
        BY <1>5, Zenon DEF KeyAt
      <4>2. \A g \in Nat : g >= m => ~(g < m)
        BY <2>2
      <4> QED BY <4>1, <4>2, Zenon DEF Wanted
    <3> QED BY <3>1, <3>2, <3>3, Zenon DEF Passed
  <2>6. Passed(TextOf(doc), ReportKeys(Len(doc.items), e, p, i), mark, pos, "fingerprint")'
    <3>1. mark' = m /\ pos' = m
      BY <1>14, <2>1
    <3> QED BY <1>0, <1>7, <2>5, <3>1, PassedNext DEF K
  <2> QED BY <1>10, <1>14, <2>4, <2>6, Zenon DEF SearchesFingerprint
<1> QED BY <1>13, <1>14, MarkStep

LEMMA LoadedStays ==
  ASSUME text' = text, doc' = doc, found' = found, NEW i, NEW f
  PROVE  /\ mark' = mark /\ Loaded(i, f, mark) => Loaded(i, f, mark)'
         /\ pos' = pos /\ Loaded(i, f, pos) => Loaded(i, f, pos)'
         /\ pc'[Saver] = pc[Saver] /\ ReportDone(f) => ReportDone(f)'
<1>1. ASSUME mark' = mark, Loaded(i, f, mark) PROVE Loaded(i, f, mark)'
  <2>1. PICK k \in 0..Len(doc.items) :
          HasLoaded(k) /\ \A j \in 1..Len(doc.items) : i[j] + 4 < mark => j <= k \/ Len(text) < f[j]
    BY <1>1, Zenon DEF Loaded
  <2>2. found' \in Seq(Text) /\ ToSet(found') = ToSet(SavedUpTo(k)) \ {<<>>}
    BY <2>1, Zenon DEF HasLoaded
  <2> QED BY <1>1, <2>1, <2>2, LoadedNext, Zenon
<1>2. ASSUME pos' = pos, Loaded(i, f, pos) PROVE Loaded(i, f, pos)'
  <2>1. PICK k \in 0..Len(doc.items) :
          HasLoaded(k) /\ \A j \in 1..Len(doc.items) : i[j] + 4 < pos => j <= k \/ Len(text) < f[j]
    BY <1>2, Zenon DEF Loaded
  <2>2. found' \in Seq(Text) /\ ToSet(found') = ToSet(SavedUpTo(k)) \ {<<>>}
    BY <2>1, Zenon DEF HasLoaded
  <2> QED BY <1>2, <2>1, <2>2, LoadedNext, Zenon
<1>3. ASSUME pc'[Saver] = pc[Saver], ReportDone(f) PROVE ReportDone(f)'
  <2>1. PICK k \in 0..Len(doc.items) :
          HasLoaded(k) /\ \A j \in 1..Len(doc.items) : j <= k \/ Len(text) < f[j]
    BY <1>3, Zenon DEF ReportDone
  <2>2. found' \in Seq(Text) /\ ToSet(found') = ToSet(SavedUpTo(k)) \ {<<>>}
    BY <2>1, Zenon DEF HasLoaded
  <2>3. pc'[Saver] = "done"
    BY <1>3, Zenon DEF ReportDone
  <2> QED BY <2>1, <2>2, <2>3, LoadedNext, Zenon
<1> QED BY <1>1, <1>2, <1>3

LEMMA ReportSearching ==
  ASSUME TextInv, NEW w, w = TextOf(doc), NEW e, NEW p, NEW i, NEW f, ReportIs(w, doc, e, p, i, f),
         SearchesFingerprint(e, p, i, f)
  PROVE  Searching(w, ReportKeys(Len(doc.items), e, p, i), mark, Len(text))
<1>1. CutFrom(w)
  BY TextIsCut
<1>2. Len(text) \in Nat /\ Len(text) >= Len(text)
  BY <1>1, LenProperties DEF CutFrom, Text
<1>3. mark \in Nat /\ pos \in 1..Len(text) + 1
  BY <1>2 DEF TextInv
<1>4. \A g \in ReportKeys(Len(doc.items), e, p, i) : KeyAt(w, g)
  BY KeysOfReport, Zenon
<1>5. Known(ReportKeys(Len(doc.items), e, p, i), Len(text))
  BY <1>1, ReportKnown, Zenon
<1>6. Passed(w, ReportKeys(Len(doc.items), e, p, i), mark, pos, key)
  BY Zenon DEF SearchesFingerprint
<1> QED BY <1>1, <1>2, <1>3, <1>4, <1>5, <1>6, Zenon DEF Searching

\* The keys of the fingerprints are the ones that are looked for.
LEMMA WantedFingerprints ==
  ASSUME NEW w, NEW d, NEW e, NEW p, NEW i, NEW f, ReportIs(w, d, e, p, i, f), NEW start
  PROVE  LET W == Wanted(w, ReportKeys(Len(d.items), e, p, i), start, "fingerprint") IN
         /\ \A g \in W : \E k \in 1..Len(d.items) : g = i[k] + 4 /\ g >= start
         /\ \A k \in 1..Len(d.items) : i[k] + 4 >= start => i[k] + 4 \in W
<1> DEFINE K == ReportKeys(Len(d.items), e, p, i)
<1>1. \A g \in K : w[g + 1] = "fingerprint" => \E k \in 1..Len(d.items) : g = i[k] + 4
  BY KeysOfReport
<1>6. \A k \in 1..Len(d.items) : i[k] + 4 \in K /\ w[(i[k] + 4) + 1] = "fingerprint"
  BY KeysOfReport, Zenon
<1> HIDE DEF K
<1>2. \A g \in Wanted(w, K, start, "fingerprint") : g \in K /\ g >= start /\ w[g + 1] = "fingerprint"
  BY DEF Wanted
<1>3. \A g \in K : g >= start /\ w[g + 1] = "fingerprint" => g \in Wanted(w, K, start, "fingerprint")
  BY DEF Wanted
<1>4. \A g \in Wanted(w, K, start, "fingerprint") : \E k \in 1..Len(d.items) : g = i[k] + 4 /\ g >= start
  BY <1>1, <1>2, Zenon
<1>5. \A k \in 1..Len(d.items) : i[k] + 4 >= start => i[k] + 4 \in Wanted(w, K, start, "fingerprint")
  BY <1>3, <1>6, Zenon
<1> QED BY <1>4, <1>5, Zenon DEF K

LEMMA SearchesFingerprintStep ==
  ASSUME TextInv, MadeInv, NEW e, NEW p, NEW i, NEW f, ReportIs(TextOf(doc), doc, e, p, i, f),
         SearchesFingerprint(e, p, i, f), FindKeyValue
  PROVE  SearchesFingerprint(e, p, i, f)' \/ FoundFingerprint(i, f)'
<1>1. PICK w : w = TextOf(doc)
  OBVIOUS
<1> DEFINE K == ReportKeys(Len(doc.items), e, p, i)
<1>2. ReportIs(w, doc, e, p, i, f)
  BY <1>1
<1>3. Searching(w, K, mark, Len(text))
  BY <1>1, <1>2, ReportSearching, Zenon
<1>4. key = "fingerprint" /\ pc[Saver] = "search" /\ Loaded(i, f, mark)
  BY Zenon DEF SearchesFingerprint
<1>5. text' = text /\ doc' = doc /\ found' = found /\ mark' = mark /\ key' = key
  BY Zenon DEF FindKeyValue
<1>6. Loaded(i, f, mark)'
  BY <1>4, <1>5, LoadedStays, Zenon
<1>7. CASE pc' = pc /\ Passed(w, K, mark, pos', key)
  <2>1. Passed(TextOf(doc), ReportKeys(Len(doc.items), e, p, i), mark, pos, "fingerprint")'
    BY <1>1, <1>4, <1>5, <1>7, PassedNext
  <2> QED BY <1>4, <1>5, <1>6, <1>7, <2>1, Zenon DEF SearchesFingerprint
<1>8. CASE /\ Goto(Saver, "value")
           /\ \E g \in Wanted(w, K, mark, key) :
                /\ pos' = SkipWs(g + 4) /\ g + 3 <= Len(text)
                /\ \A h \in Wanted(w, K, mark, key) : g <= h
  <2>1. PICK g \in Wanted(w, K, mark, "fingerprint") :
          /\ pos' = SkipWs(g + 4) /\ g + 3 <= Len(text)
          /\ \A h \in Wanted(w, K, mark, "fingerprint") : g <= h
    BY <1>4, <1>8, Zenon
  <2>2. PICK j \in 1..Len(doc.items) : g = i[j] + 4 /\ g >= mark
    <3>1. \A x \in Wanted(w, K, mark, "fingerprint") : \E k \in 1..Len(doc.items) : x = i[k] + 4 /\ x >= mark
      BY <1>2, WantedFingerprints, Zenon
    <3> QED BY <3>1, Zenon
  <2>3. \A h \in 1..Len(doc.items) : i[h] + 4 >= mark => g <= i[h] + 4
    <3>1. \A k \in 1..Len(doc.items) : i[k] + 4 >= mark => i[k] + 4 \in Wanted(w, K, mark, "fingerprint")
      BY <1>2, WantedFingerprints, Zenon
    <3> QED BY <2>1, <3>1, Zenon
  <2>4. pc'[Saver] = "value"
    BY <1>8, TextAssumption DEF MadeInv, Goto
  <2>5. \A x : SkipWs(x)' = SkipWs(x)
    BY <1>5 DEF SkipWs, CharAt, There
  <2>6. (\E m \in 1..Len(doc.items) :
          /\ i[m] + 4 >= mark /\ (i[m] + 4) + 3 <= Len(text) /\ pos = SkipWs((i[m] + 4) + 4)
          /\ \A h \in 1..Len(doc.items) : i[h] + 4 >= mark => i[m] + 4 <= i[h] + 4)'
    BY <1>5, <2>1, <2>2, <2>3, <2>5
  <2> QED BY <1>4, <1>5, <1>6, <2>4, <2>6, Zenon DEF FoundFingerprint
<1> QED BY <1>3, <1>7, <1>8, FindStep, Zenon

LEMMA GoesOn ==
  ASSUME MadeInv, GoOn, key = "fingerprint"
  PROVE  pos' = mark + 3 /\ pc'[Saver] = "report"
<1>1. key # "app"
  OBVIOUS
<1>2. pos' = mark + 3 /\ Goto(Saver, "report")
  BY <1>1, Zenon DEF GoOn, BehindMark
<1> QED BY <1>2, TextAssumption DEF MadeInv, Goto

LEMMA MissedFingerprintStep ==
  ASSUME TextInv, MadeInv, NEW e, NEW p, NEW i, NEW f, ReportIs(TextOf(doc), doc, e, p, i, f),
         SearchesFingerprint(e, p, i, f), KeyMissing
  PROVE  SearchesMark(i, f)'
<1>1. PICK w : w = TextOf(doc)
  OBVIOUS
<1> DEFINE K == ReportKeys(Len(doc.items), e, p, i)
<1>2. ReportIs(w, doc, e, p, i, f)
  BY <1>1
<1>3. Searching(w, K, mark, Len(text))
  BY <1>1, <1>2, ReportSearching, Zenon
<1>4. key = "fingerprint" /\ Loaded(i, f, mark)
  BY Zenon DEF SearchesFingerprint
<1>5. text' = text /\ doc' = doc /\ found' = found /\ GoOn
  BY Zenon DEF KeyMissing
<1>6. \A g \in Wanted(w, K, mark, "fingerprint") : Len(text) <= g + 2
  BY <1>3, <1>4, MissStep, Zenon DEF Missing
<1>7. pos' = mark + 3 /\ pc'[Saver] = "report"
  BY <1>4, <1>5, GoesOn
<1>8. PICK k \in 0..Len(doc.items) :
        HasLoaded(k) /\ \A j \in 1..Len(doc.items) : i[j] + 4 < mark => j <= k \/ Len(text) < f[j]
  BY <1>4, Zenon DEF Loaded
<1>9. Len(text) \in Nat /\ Len(w) \in Nat /\ mark \in Nat
  <2>1. CutFrom(w)
    BY <1>1, TextIsCut
  <2>2. Len(text) \in Nat /\ Len(w) \in Nat
    BY <2>1, LenProperties DEF CutFrom, Text
  <2> QED BY <2>2 DEF TextInv
<1> HIDE DEF K
<1>10. ASSUME NEW j \in 1..Len(doc.items) PROVE j <= k \/ Len(text) < f[j]
  <2>1. i[j] \in Nat /\ f[j] \in Nat /\ f[j] >= i[j] + 10
    BY <1>2, <1>9, FingerprintPlaces, Zenon
  <2>2. CASE i[j] + 4 >= mark
    <3>1. \A h \in 1..Len(doc.items) : i[h] + 4 >= mark => i[h] + 4 \in Wanted(w, K, mark, "fingerprint")
      BY <1>2, WantedFingerprints, Zenon DEF K
    <3>2. Len(text) <= (i[j] + 4) + 2
      BY <1>6, <2>2, <3>1, Zenon
    <3>3. \A a, b, c \in Nat : c <= (a + 4) + 2 /\ b >= a + 10 => c < b
      OBVIOUS
    <3> QED BY <1>9, <2>1, <3>2, <3>3, Zenon
  <2>3. CASE i[j] + 4 < mark
    BY <1>8, <2>3, Zenon
  <2>4. \A a, b \in Nat : a + 4 >= b \/ a + 4 < b
    OBVIOUS
  <2> QED BY <1>9, <2>1, <2>2, <2>3, <2>4, Zenon
<1>11. found' \in Seq(Text) /\ ToSet(found') = ToSet(SavedUpTo(k)) \ {<<>>}
  BY <1>5, <1>8, Zenon DEF HasLoaded
<1>12. Loaded(i, f, pos)'
  BY <1>5, <1>10, <1>11, LoadedNext, Zenon
<1> QED BY <1>7, <1>12, Zenon DEF SearchesMark

\* What is loaded is a set: of the first k fingerprints, and one more.
LEMMA SetOfAppend ==
  ASSUME NEW s \in Seq(Text), NEW x \in Text
  PROVE  Append(s, x) \in Seq(Text) /\ ToSet(Append(s, x)) = ToSet(s) \cup {x}
<1>1. /\ Append(s, x) \in Seq(Text) /\ Len(s) \in Nat /\ Len(Append(s, x)) = Len(s) + 1
      /\ \A k \in 1..Len(s) : Append(s, x)[k] = s[k]
      /\ Append(s, x)[Len(s) + 1] = x
  BY AppendProperties, LenProperties
<1>2. DOMAIN s = 1..Len(s) /\ DOMAIN Append(s, x) = 1..Len(s) + 1
  BY <1>1, LenProperties
<1> DEFINE t == Append(s, x)
<1> HIDE DEF t
<1>3. ASSUME NEW c PROVE c \in ToSet(t) <=> c \in ToSet(s) \/ c = x
  <2>1. c \in ToSet(t) <=> \E k \in 1..Len(s) + 1 : t[k] = c
    BY <1>2 DEF ToSet, t
  <2>2. c \in ToSet(s) <=> \E k \in 1..Len(s) : s[k] = c
    BY <1>2 DEF ToSet
  <2>3. \A k : k \in 1..Len(s) + 1 <=> k \in 1..Len(s) \/ k = Len(s) + 1
    BY <1>1
  <2>4. (\A k \in 1..Len(s) : t[k] = s[k]) /\ t[Len(s) + 1] = x
    BY <1>1 DEF t
  <2> QED BY <2>1, <2>2, <2>3, <2>4, Zenon
<1>4. ToSet(t) = ToSet(s) \cup {x}
  BY <1>3
<1> QED BY <1>1, <1>4 DEF t

LEMMA SavedSet ==
  ASSUME doc \in Documents, NEW k \in 0..Len(doc.items)
  PROVE  /\ SavedUpTo(k) \in Seq(Text)
         /\ \A j \in 1..k : Kept(Fingerprint(doc, j)) \in Text
                            /\ Kept(Fingerprint(doc, j)) \in ToSet(SavedUpTo(k))
<1>1. ASSUME NEW j \in 1..k PROVE Kept(Fingerprint(doc, j)) \in Text
  <2>1. j \in 1..Len(doc.items)
    BY DocumentIs
  <2>2. Fingerprint(doc, j) \in Text
    BY <2>1, DocumentIs DEF Fingerprint
  <2> QED BY <2>2, KeptTyped
<1> DEFINE s == SavedUpTo(k)
<1>2. s = [j \in 1..k |-> Kept(Fingerprint(doc, j))]
  BY DEF SavedUpTo, Fingerprint
<1>3. s \in [1..k -> Text]
  BY <1>1, <1>2
<1>4. k \in Nat
  BY DocumentIs
<1>5. s \in Seq(Text)
  BY <1>3, <1>4, SeqDef
<1>6. ASSUME NEW j \in 1..k PROVE Kept(Fingerprint(doc, j)) \in ToSet(s)
  BY <1>2 DEF ToSet
<1> QED BY <1>1, <1>5, <1>6

\* An empty fingerprint is not one.
Added(s, out) == IF out # <<>> THEN Append(s, out) ELSE s

LEMMA FindStringStep ==
  ASSUME FindString, key = "fingerprint"
  PROVE  /\ text' = text /\ doc' = doc /\ mark' = mark /\ GoOn
         /\ Broken(pos) => found' = found
         /\ \A m, out : Reads(pos, m, out) => found' = Added(found, out)
  BY Zenon DEF FindString, Reads, Broken, Added

LEMMA AddsFingerprint ==
  ASSUME doc \in Documents, NEW k \in 0..Len(doc.items), HasLoaded(k), NEW j \in 1..Len(doc.items), j <= k + 1,
         NEW out, out = Kept(Fingerprint(doc, j)), found' = Added(found, out)
  PROVE  /\ found' \in Seq(Text)
         /\ \E h \in 0..Len(doc.items) :
              k <= h /\ j <= h /\ ToSet(found') = ToSet(SavedUpTo(h)) \ {<<>>}
<1>1. k \in Nat /\ Len(doc.items) \in Nat /\ j \in Nat
  BY DocumentIs
<1>2. found \in Seq(Text) /\ ToSet(found) = ToSet(SavedUpTo(k)) \ {<<>>}
  BY Zenon DEF HasLoaded
<1>3. out \in Text
  <2>1. Fingerprint(doc, j) \in Text
    BY DocumentIs DEF Fingerprint
  <2> QED BY <2>1, KeptTyped
<1>4. found' \in Seq(Text) /\ ToSet(found') = ToSet(found) \cup ({out} \ {<<>>})
  <2>1. CASE out # <<>>
    BY <1>2, <1>3, <2>1, SetOfAppend DEF Added
  <2>2. CASE out = <<>>
    BY <1>2, <2>2 DEF Added
  <2> QED BY <2>1, <2>2
<1>5. CASE j <= k
  <2>1. j \in 1..k
    BY <1>1, <1>5
  <2>2. out \in ToSet(SavedUpTo(k))
    BY <2>1, SavedSet
  <2>3. ToSet(found') = ToSet(SavedUpTo(k)) \ {<<>>}
    BY <1>2, <1>4, <2>2
  <2>4. k <= k
    BY <1>1
  <2> QED BY <1>4, <1>5, <2>3, <2>4
<1>6. CASE j = k + 1
  <2>1. k + 1 \in 0..Len(doc.items) /\ k <= k + 1 /\ j <= k + 1 /\ k + 1 <= Len(doc.items)
    BY <1>1, <1>6
  <2>2. SavedUpTo(k + 1) = Append(SavedUpTo(k), out)
    BY <1>1, <1>6, <2>1, SavedNext
  <2>3. SavedUpTo(k) \in Seq(Text)
    BY SavedSet
  <2>4. ToSet(SavedUpTo(k + 1)) = ToSet(SavedUpTo(k)) \cup {out}
    BY <1>3, <2>2, <2>3, SetOfAppend
  <2>5. ToSet(found') = ToSet(SavedUpTo(k + 1)) \ {<<>>}
    BY <1>2, <1>4, <2>4
  <2> QED BY <1>4, <2>1, <2>5
<1> QED BY <1>1, <1>5, <1>6

LEMMA FoundFingerprintStep ==
  ASSUME TextInv, MadeInv, NEW e, NEW p, NEW i, NEW f, ReportIs(TextOf(doc), doc, e, p, i, f),
         FoundFingerprint(i, f), FindString
  PROVE  SearchesMark(i, f)'
<1>1. PICK w : w = TextOf(doc)
  OBVIOUS
<1>2. ReportIs(w, doc, e, p, i, f) /\ CutFrom(w)
  BY <1>1, TextIsCut
<1>3. key = "fingerprint" /\ Loaded(i, f, mark)
  BY Zenon DEF FoundFingerprint
<1>4. text' = text /\ doc' = doc /\ GoOn
  BY <1>3, FindStringStep
<1>5. pos' = mark + 3 /\ pc'[Saver] = "report"
  BY <1>3, <1>4, GoesOn
<1>6. PICK k \in 0..Len(doc.items) :
        HasLoaded(k) /\ \A j \in 1..Len(doc.items) : i[j] + 4 < mark => j <= k \/ Len(text) < f[j]
  BY <1>3, Zenon DEF Loaded
<1>7. PICK j \in 1..Len(doc.items) :
        /\ i[j] + 4 >= mark /\ (i[j] + 4) + 3 <= Len(text) /\ pos = SkipWs((i[j] + 4) + 4)
        /\ \A h \in 1..Len(doc.items) : i[h] + 4 >= mark => i[j] + 4 <= i[h] + 4
  BY Zenon DEF FoundFingerprint
<1>8. Len(text) \in Nat /\ Len(w) \in Nat /\ mark \in Nat /\ doc \in Documents
  <2>1. Len(text) \in Nat /\ Len(w) \in Nat
    BY <1>2, LenProperties DEF CutFrom, Text
  <2> QED BY <2>1 DEF TextInv
<1>9. ASSUME NEW h \in 1..Len(doc.items)
      PROVE  /\ i[h] \in Nat /\ f[h] \in Nat /\ f[h] >= i[h] + 10 /\ KeyAt(w, i[h] + 4)
             /\ StringAt(w, i[h] + 9, Fingerprint(doc, h), f[h])
             /\ \A l \in 1..Len(doc.items) : l < h => f[l] < i[h] /\ i[l] < i[h]
  BY <1>2, <1>8, FingerprintPlaces, Zenon
<1>10. /\ f[j] <= Len(text) => Reads(pos, f[j] + 1, Kept(Fingerprint(doc, j)))
       /\ Len(text) < f[j] => Broken(pos)
  <2>1. PICK g \in Nat : g = i[j] + 4
    BY <1>9
  <2>2. g + 5 = i[j] + 9
    <3>1. \A x \in Nat : (x + 4) + 5 = x + 9
      OBVIOUS
    <3> QED BY <1>9, <2>1, <3>1, Zenon
  <2>3. PICK s : s = Fingerprint(doc, j)
    OBVIOUS
  <2>4. KeyAt(w, g) /\ g + 3 <= Len(text) /\ StringAt(w, g + 5, s, f[j]) /\ pos = SkipWs(g + 4)
    BY <1>7, <1>9, <2>1, <2>2, <2>3, Zenon
  <2>5. /\ f[j] <= Len(text) => Reads(SkipWs(g + 4), f[j] + 1, Kept(s))
        /\ Len(text) < f[j] => Broken(SkipWs(g + 4))
    BY <1>2, <2>4, ReadValue, Zenon
  <2> QED BY <2>3, <2>4, <2>5, Zenon
\* Of the fingerprints before the next mark, only this one is new.
<1>11. ASSUME NEW h \in 1..Len(doc.items), i[h] + 4 < mark + 3, h # j PROVE i[h] + 4 < mark
  <2> SUFFICES ASSUME ~(i[h] + 4 < mark) PROVE FALSE
    OBVIOUS
  <2>1. PICK a \in Nat, b \in Nat : a = i[h] /\ b = i[j]
    BY <1>9
  <2>2. a + 4 >= mark
    <3>1. ~(a + 4 < mark)
      BY <2>1, Zenon
    <3> QED BY <1>8, <3>1
  <2>3. b + 4 <= a + 4
    BY <1>7, <2>1, <2>2, Zenon
  <2>4. b + 4 >= mark
    BY <1>7, <2>1, Zenon
  <2>5. KeyAt(w, a + 4) /\ KeyAt(w, b + 4)
    BY <1>9, <2>1, Zenon
  <2>6. a # b
    <3>1. h \in Nat /\ j \in Nat
      BY <1>8, DocumentIs
    <3>2. h < j \/ j < h
      BY <1>11, <3>1
    <3>3. a < b \/ b < a
      BY <1>9, <2>1, <3>2, Zenon
    <3> QED BY <3>3
  <2>7. b + 4 < a + 4
    BY <2>3, <2>6
  <2>8. (b + 4) + 4 < a + 4
    BY <2>5, <2>7, KeysApart, Zenon
  <2>9. a + 4 < mark + 3
    BY <1>11, <2>1, Zenon
  <2> QED BY <1>8, <2>4, <2>8, <2>9
<1>12. CASE Len(text) < f[j]
  <2>1. found' \in Seq(Text) /\ ToSet(found') = ToSet(SavedUpTo(k)) \ {<<>>}
    BY <1>3, <1>6, <1>10, <1>12, FindStringStep DEF HasLoaded
  <2>2. \A h \in 1..Len(doc.items) : i[h] + 4 < mark + 3 => h <= k \/ Len(text) < f[h]
    BY <1>6, <1>11, <1>12, Zenon
  <2>3. Loaded(i, f, pos)'
    BY <1>4, <1>5, <2>1, <2>2, LoadedNext, Zenon
  <2> QED BY <1>5, <2>3, Zenon DEF SearchesMark
<1>13. CASE f[j] <= Len(text)
  <2>1. k \in Nat /\ j \in Nat /\ Len(doc.items) \in Nat
    BY <1>8, DocumentIs
  <2>2. j <= k + 1
    <3> SUFFICES ASSUME ~(j <= k + 1) PROVE FALSE
      OBVIOUS
    <3>1. k + 1 \in 1..Len(doc.items) /\ k + 1 < j /\ ~(k + 1 <= k)
      BY <2>1
    <3>2. PICK h \in 1..Len(doc.items) : h = k + 1
      BY <3>1
    <3>3. f[h] < i[j] /\ i[h] < i[j]
      BY <1>9, <3>1, <3>2, Zenon
    <3>4. i[h] + 4 < mark
      <4>1. PICK a \in Nat, b \in Nat : a = i[h] /\ b = i[j]
        BY <1>9
      <4>2. ~(b + 4 <= a + 4)
        BY <3>3, <4>1
      <4>3. ~(a + 4 >= mark)
        BY <1>7, <4>1, <4>2, Zenon
      <4>4. a + 4 < mark
        BY <1>8, <4>3
      <4> QED BY <4>1, <4>4, Zenon
    <3>5. Len(text) < f[h]
      BY <1>6, <3>1, <3>2, <3>4, Zenon
    <3>6. PICK a \in Nat, b \in Nat, c \in Nat : a = f[h] /\ b = i[j] /\ c = f[j]
      BY <1>9
    <3>7. a < b /\ c >= b + 10 /\ c <= Len(text) /\ Len(text) < a
      BY <1>9, <1>13, <3>3, <3>5, <3>6, Zenon
    <3> QED BY <1>8, <3>7
  <2>3. PICK out : out = Kept(Fingerprint(doc, j))
    OBVIOUS
  <2>4. found' = Added(found, out)
    <3>1. Reads(pos, f[j] + 1, out)
      BY <1>10, <1>13, <2>3, Zenon
    <3> QED BY <1>3, <3>1, FindStringStep, Zenon
  <2>5. found' \in Seq(Text)
    BY <1>6, <1>8, <2>2, <2>3, <2>4, AddsFingerprint, Zenon
  <2>6. PICK l \in 0..Len(doc.items) : k <= l /\ j <= l /\ ToSet(found') = ToSet(SavedUpTo(l)) \ {<<>>}
    BY <1>6, <1>8, <2>2, <2>3, <2>4, AddsFingerprint, Zenon
  <2>7. \A h \in 1..Len(doc.items) : i[h] + 4 < mark + 3 => h <= l \/ Len(text) < f[h]
    <3>1. \A h \in 1..Len(doc.items) : h <= k => h <= l
      BY <2>1, <2>6
    <3> QED BY <1>6, <1>11, <2>6, <3>1, Zenon
  <2>8. Loaded(i, f, pos)'
    BY <1>4, <1>5, <2>5, <2>6, <2>7, LoadedNext, Zenon
  <2> QED BY <1>5, <2>8, Zenon DEF SearchesMark
<1>14. Len(text) < f[j] \/ f[j] <= Len(text)
  <2>1. \A a, b \in Nat : a < b \/ b <= a
    OBVIOUS
  <2> QED BY <1>8, <1>9, <2>1, Zenon
<1> QED BY <1>12, <1>13, <1>14

(***************************************************************************)
(* The report, step by step.                                               *)
(***************************************************************************)
ReportInv ==
  doc.kind # "baseline" /\ pc[Saver] \notin Early =>
    \E e, p, i, f : ReportIs(TextOf(doc), doc, e, p, i, f) /\ ReportRead(e, p, i, f)

LEMMA ReportIdle ==
  ASSUME doc' = doc, text' = text, key' = key, pos' = pos, mark' = mark, found' = found,
         pc'[Saver] = pc[Saver], NEW e, NEW p, NEW i, NEW f, ReportRead(e, p, i, f)
  PROVE  ReportRead(e, p, i, f)'
<1>1. SearchesMark(i, f) => SearchesMark(i, f)'
  BY LoadedStays, Zenon DEF SearchesMark
<1>2. SearchesFingerprint(e, p, i, f) => SearchesFingerprint(e, p, i, f)'
  <2>1. Passed(TextOf(doc), ReportKeys(Len(doc.items), e, p, i), mark, pos, "fingerprint") =>
          Passed(TextOf(doc), ReportKeys(Len(doc.items), e, p, i), mark, pos, "fingerprint")'
    BY PassedNext
  <2> QED BY <2>1, LoadedStays, Zenon DEF SearchesFingerprint
<1>3. FoundFingerprint(i, f) => FoundFingerprint(i, f)'
  <2>1. \A x : SkipWs(x)' = SkipWs(x)
    BY DEF SkipWs, CharAt, There
  <2>2. Loaded(i, f, mark) => Loaded(i, f, mark)'
    BY LoadedStays, Zenon
  <2> QED BY <2>1, <2>2 DEF FoundFingerprint
<1>4. ReportDone(f) => ReportDone(f)'
  BY LoadedStays, Zenon
<1> QED BY <1>1, <1>2, <1>3, <1>4, Zenon DEF ReportRead

LEMMA ReportWritten ==
  ASSUME TextInv, MadeInv, Unread, WriteTextFile, doc.kind # "baseline"
  PROVE  (\E e, p, i, f : ReportIs(TextOf(doc), doc, e, p, i, f) /\ ReportRead(e, p, i, f))'
<1>1. pc[Saver] = "write" /\ doc' = doc /\ reader' = reader
  BY Zenon DEF WriteTextFile
<1>2. Goto(Saver, IF doc.kind = "baseline" THEN "search" ELSE "report")
  BY Zenon DEF WriteTextFile
<1>3. pc'[Saver] = "report"
  BY <1>2, TextAssumption DEF Goto, MadeInv
<1>4. pos' = 1 /\ found' = <<>>
  BY <1>1 DEF TextInv, Unread, Early, reader
<1>5. PICK e, p, i, f : ReportAt(TextOf(doc), doc, e, p, i, f)
  BY ReportLayout DEF TextInv
<1>6. PICK w \in Text : w = TextOf(doc)
  BY DocumentTyped DEF TextInv
<1>7. ReportIs(w, doc, e, p, i, f)
  BY <1>5, <1>6, ReportHas, Zenon DEF TextInv
<1>8. SavedUpTo(0)' = <<>>
  BY NothingSaved DEF SavedUpTo
<1>9. HasLoaded(0)'
  <2>1. ToSet(<<>>) = {} /\ <<>> \in Seq(Text)
    BY DEF ToSet
  <2>2. ToSet(found') = ToSet(SavedUpTo(0)') \ {<<>>} /\ found' \in Seq(Text)
    BY <1>4, <1>8, <2>1
  <2> QED BY <1>8, <2>1, <1>4 DEF HasLoaded
<1>10. Loaded(i, f, pos)'
  <2>1. \A j \in 1..Len(doc.items) : i[j] \in Nat
    <3>1. Len(w) \in Nat
      BY LenProperties DEF Text
    <3> QED BY <1>7, <3>1, FingerprintPlaces, Zenon
  <2>2. \A j \in 1..Len(doc.items) : ~(i[j] + 4 < pos')
    BY <1>4, <2>1
  <2>3. 0 \in 0..Len(doc.items)
    BY DocumentIs DEF TextInv
  <2> QED BY <1>1, <1>9, <2>2, <2>3, Zenon DEF Loaded
<1>11. SearchesMark(i, f)'
  BY <1>3, <1>10, Zenon DEF SearchesMark
<1>12. ReportIs(TextOf(doc), doc, e, p, i, f)'
  BY <1>1, <1>6, <1>7
<1> QED BY <1>11, <1>12, Zenon DEF ReportRead

LEMMA ReportReads ==
  ASSUME TextInv, MadeInv, Read, NEW e, NEW p, NEW i, NEW f,
         ReportIs(TextOf(doc), doc, e, p, i, f), ReportRead(e, p, i, f)
  PROVE  ReportRead(e, p, i, f)'
<1>1. CASE SearchesMark(i, f)
  <2>1. NextFingerprint
    BY <1>1, Zenon DEF SearchesMark, Read, Search, FindKeyValue, KeyMissing, FindString, OpenArray,
       ReadElement
  <2> QED BY <1>1, <2>1, SearchesMarkStep, Zenon DEF ReportRead
<1>2. CASE SearchesFingerprint(e, p, i, f)
  <2>1. FindKeyValue \/ KeyMissing
    BY <1>2, Zenon DEF SearchesFingerprint, Read, FindString, OpenArray, ReadElement, NextFingerprint
  <2> QED BY <1>2, <2>1, SearchesFingerprintStep, MissedFingerprintStep, Zenon DEF ReportRead
<1>3. CASE FoundFingerprint(i, f)
  <2>1. "fingerprint" # "allowed"
    OBVIOUS
  <2>2. FindString
    BY <1>3, <2>1, Zenon DEF FoundFingerprint, Read, Search, FindKeyValue, KeyMissing, OpenArray,
       ReadElement, NextFingerprint
  <2> QED BY <1>3, <2>2, FoundFingerprintStep, Zenon DEF ReportRead
<1>4. CASE ReportDone(f)
  BY <1>4, Zenon DEF ReportDone, Read, Search, FindKeyValue, KeyMissing, FindString, OpenArray,
     ReadElement, NextFingerprint
<1> QED BY <1>1, <1>2, <1>3, <1>4, Zenon DEF ReportRead

LEMMA ReportStays ==
  ASSUME MadeInv, TextInv, Unread, ReportInv, [Next]_vars PROVE ReportInv'
<1>1. CASE WriteTextFile
  <2>1. doc' = doc
    BY <1>1, Zenon DEF WriteTextFile
  <2> QED BY <1>1, <2>1, ReportWritten, Zenon DEF ReportInv
<1>2. ASSUME pc[Saver] \notin Early, doc.kind # "baseline", doc' = doc,
             \A e, p, i, f : ReportIs(TextOf(doc), doc, e, p, i, f) /\ ReportRead(e, p, i, f) =>
                               ReportRead(e, p, i, f)'
      PROVE  ReportInv'
  <2>1. PICK e, p, i, f : ReportIs(TextOf(doc), doc, e, p, i, f) /\ ReportRead(e, p, i, f)
    BY <1>2 DEF ReportInv
  <2>2. ReportIs(TextOf(doc), doc, e, p, i, f)'
    BY <1>2, <2>1
  <2>3. ReportRead(e, p, i, f)'
    BY <1>2, <2>1, Zenon
  <2> QED BY <2>2, <2>3, Zenon DEF ReportInv
<1>3. CASE Read
  <2>1. doc' = doc /\ pc[Saver] \notin Early
    <3>1. pc[Saver] \in {"search", "value", "items", "report"}
      BY <1>3, Zenon DEF Read, Search, FindKeyValue, KeyMissing, FindString, OpenArray,
         ReadElement, NextFingerprint
    <3> QED BY <1>3, <3>1, ReadInside DEF Early
  <2> QED BY <1>2, <1>3, <2>1, ReportReads, Zenon DEF ReportInv
<1>4. CASE /\ doc' = doc /\ text' = text /\ key' = key /\ pos' = pos /\ mark' = mark
           /\ app' = app /\ found' = found
           /\ pc'[Saver] = pc[Saver] \/ (pc[Saver] \in Early /\ pc'[Saver] \in Early)
  <2>1. CASE pc'[Saver] \in Early \/ doc.kind = "baseline"
    BY <1>4, <2>1 DEF ReportInv
  <2>2. CASE pc'[Saver] \notin Early /\ doc.kind # "baseline"
    <3>1. pc'[Saver] = pc[Saver]
      BY <1>4, <2>2
    <3> QED BY <1>2, <1>4, <2>2, <3>1, ReportIdle
  <2> QED BY <2>1, <2>2
<1> QED BY <1>1, <1>3, <1>4, StepKinds

\* All that is saved is loaded if the text is whole: it does not end before a fingerprint.
LEMMA WholeReport ==
  ASSUME TextInv, NEW e, NEW p, NEW i, NEW f, ReportIs(TextOf(doc), doc, e, p, i, f),
         NEW k \in 0..Len(doc.items), HasLoaded(k),
         \A j \in 1..Len(doc.items) : j <= k \/ Len(text) < f[j], WholeText
  PROVE  ToSet(found) = Saved \ {<<>>}
<1>1. Len(doc.items) \in Nat /\ DOMAIN doc.items = 1..Len(doc.items)
  BY DocumentIs DEF TextInv
<1>2. PICK w : w = TextOf(doc)
  OBVIOUS
<1>3. Len(w) \in Nat /\ text = w
  BY <1>2, TextIsCut DEF WholeText
<1>4. k = Len(doc.items)
  <2> SUFFICES ASSUME k # Len(doc.items) PROVE FALSE
    OBVIOUS
  <2>1. Len(doc.items) \in 1..Len(doc.items) /\ ~(Len(doc.items) <= k)
    BY <1>1
  <2>2. PICK j \in 1..Len(doc.items) : j = Len(doc.items)
    BY <2>1
  <2>3. Len(w) < f[j]
    BY <1>3, <2>1, <2>2, Zenon
  <2>4. f[j] <= Len(w) /\ f[j] \in Nat
    BY <1>2, <1>3, FingerprintPlaces, Zenon
  <2> QED BY <1>3, <2>3, <2>4
<1>5. ToSet(SavedUpTo(k)) = Saved
  BY <1>1, <1>4 DEF ToSet, SavedUpTo, Saved
<1> QED BY <1>5, Zenon DEF HasLoaded

\* What is loaded from a report is the set of the fingerprints that were saved, whatever
\* characters an application has in its path; of a report that was cut off, the first
\* ones (main.cpp:113-131).
THEOREM ReportExact == Spec => []ReportLoadsWhatWasSaved
<1>1. Init => MadeInv /\ TextInv /\ Unread /\ ReportInv
  <2>1. Init => pc[Saver] \in Early /\ app = NoText /\ found = <<>>
    BY TextAssumption DEF Init, Early
  <2> QED BY <2>1, MadeAtFirst, TypedAtFirst DEF Unread, ReportInv
<1>2. MadeInv /\ TextInv /\ Unread /\ ReportInv /\ [Next]_vars => (MadeInv /\ TextInv /\ Unread /\ ReportInv)'
  BY MadeStays, TextStays, UnreadStays, ReportStays
<1>3. TextInv /\ ReportInv => ReportLoadsWhatWasSaved
  <2> SUFFICES ASSUME TextInv, ReportInv, pc[Saver] = "done", doc.kind = "report"
               PROVE  ReportLoadsWhatWasSaved
    BY Zenon DEF ReportLoadsWhatWasSaved
  <2>1. PICK e, p, i, f : ReportIs(TextOf(doc), doc, e, p, i, f) /\ ReportRead(e, p, i, f)
    BY DEF ReportInv, Early
  <2>2. ReportDone(f)
    BY <2>1, Zenon DEF ReportRead, SearchesMark, SearchesFingerprint, FoundFingerprint
  <2>3. PICK k \in 0..Len(doc.items) :
          HasLoaded(k) /\ \A j \in 1..Len(doc.items) : j <= k \/ Len(text) < f[j]
    BY <2>2, Zenon DEF ReportDone
  <2>4. WholeText => ToSet(found) = Saved \ {<<>>}
    BY <2>1, <2>3, WholeReport, Zenon
  <2> QED BY <2>3, <2>4, Zenon DEF ReportLoadsWhatWasSaved, HasLoaded
<1> QED BY <1>1, <1>2, <1>3, PTL DEF Spec
=============================================================================
