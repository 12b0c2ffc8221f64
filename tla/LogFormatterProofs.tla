------------------------- MODULE LogFormatterProofs --------------------------
(***************************************************************************)
(* LogFormatter::init stays inside the pattern and parses it by the        *)
(* grammar if it has no doubled "%", and never if it has, for patterns of  *)
(* any length over any characters.                                         *)
(*                                                                         *)
(* The proof compares two readings of a pattern, which differ in where     *)
(* they go on after the first of two "%": the grammar's, two characters    *)
(* on, and init()'s own, one character on.                                 *)
(***************************************************************************)
EXTENDS LogFormatter, SequenceTheorems, WellFoundedInduction, TLAPS

Token == [text : Seq(Chars), fmt : Seq(Chars), type : 0 .. 2]
Name == Letters \cup {"rbrace"}

\* The two readings, by the step over a doubled "%".
Steps == {1, 2}
TwoAt(p, k) == k + 1 < Len(p) /\ p[k + 1] = "%" /\ p[k + 2] = "%"
Reads(p, k, step, T) == IF TwoAt(p, k) THEN Prefix("%", T[k + step]) ELSE TokensFrom(p, k, T)

\* The tokens of pattern p from position k on, and of the whole pattern.
From(p, k, step) == LET T[j \in 0 .. Len(p)] == Reads(p, j, step, T) IN T[k]
Reading(step) == From(m_pattern, 0, step)

\* What the bounds need besides themselves: the item begins with the "%" at i, so that
\* the name and the format lie behind it.
BoundInv ==
  /\ size \in Nat
  /\ pc \in {"scan", "item", "push", "done"}
  /\ fmt_status \in {0, 1} /\ fmt_begin \in Nat
  /\ InBounds

TypeInv ==
  /\ m_pattern \in Seq(Chars)
  /\ str \in Seq(Chars) /\ fmt \in Seq(Chars) /\ nstr \in Seq(Chars)
  /\ vec \in Seq(Token)
  /\ m_error \in BOOLEAN /\ doubled \in BOOLEAN

\* The inner loop has passed over a name, and in the format over no right brace.
NameEnd == Skip(m_pattern, i + 1, Name)
ItemInv ==
  pc = "item" =>
    /\ ~Doubled /\ fmt = << >>
    /\ fmt_status = 0 =>
         /\ \A q \in i + 1 .. n - 1 : At(q) \in Name
         /\ str = IF n = size THEN rest(i + 1) ELSE << >>
    /\ fmt_status = 1 =>
         /\ fmt_begin = NameEnd /\ At(fmt_begin) = "lbrace"
         /\ \A q \in fmt_begin + 1 .. n - 1 : At(q) # "rbrace"
         /\ n < size => str = SubSeq(m_pattern, i + 2, fmt_begin)

\* What it then has is what the grammar says of position i.
PushInv ==
  pc = "push" => \A step \in Steps :
    From(m_pattern, i, step) =
      IF fmt_status = 0 THEN Front(str, fmt, From(m_pattern, n, step)) ELSE Broken

\* Literal text s in front of tokens ts.
Text(s, ts) ==
  IF s = << >> THEN ts
  ELSE IF ts # << >> /\ ts[1].type = 0 THEN <<Literal(s \o ts[1].text)>> \o Tail(ts)
  ELSE <<Literal(s)>> \o ts

\* All of the pattern, when list and the literal text s were made of it and ts are the
\* tokens of what is left.
Unknown(list) == \E k \in DOMAIN list : list[k].type = 1 /\ ~Known(list[k].text)
Whole(list, s, ts) == IF ts = Broken \/ Unknown(list) THEN Broken ELSE list \o Text(s, ts)

\* Before the end, the tokens of the pattern follow from those found and those to come.
Follows(step) ==
  IF m_error THEN Reading(step) = Broken
  ELSE /\ \A k \in DOMAIN vec : vec[k].type # 2
       /\ Reading(step) = Whole(vec, nstr, From(m_pattern, i, step))

\* At the end they are those found.
Found(step) == (m_error <=> Reading(step) = Broken) /\ (~m_error => vec = Reading(step))

\* init() is on the way to its own reading, and to the grammar's while no "%" was doubled.
Ways == IF doubled THEN {1} ELSE Steps
ParseInv == \A step \in Ways : IF pc = "done" THEN Found(step) ELSE Follows(step)

\* After a doubled "%" the two readings differ, unless both or one of them is broken.
Differ(a, b) == a = Broken \/ b = Broken \/ a # b
ForkInv == doubled => Differ(Reading(1), Reading(2))

IInv == BoundInv /\ TypeInv /\ ItemInv /\ PushInv /\ ParseInv /\ ForkInv

------------------------------------------------------------------------------
(***************************************************************************)
(* The grammar is defined at every position.                               *)
(***************************************************************************)
\* Induction, for the set of numbers that have a property.
LEMMA SetInduction ==
  ASSUME NEW S, 0 \in S, \A k \in Nat : k \in S => k + 1 \in S
  PROVE  Nat \subseteq S
<1> DEFINE R == OpToRel(<, Nat)
<1>1. IsWellFoundedOn(R, Nat)
  BY NatLessThanWellFounded
<1>2. \A a, b \in Nat : a < b => <<a, b>> \in R
  BY DEF OpToRel
<1> HIDE DEF R
<1>3. SUFFICES ASSUME Nat \ S # {} PROVE FALSE
  OBVIOUS
<1>4. PICK x \in Nat \ S : \A y \in Nat \ S : ~ (<<y, x>> \in R)
  BY <1>1, <1>3, WFMin
<1>5. x # 0 /\ x - 1 \in Nat /\ x - 1 < x
  BY <1>4
<1>6. x - 1 \in S
  BY <1>2, <1>4, <1>5
<1>7. QED
  BY <1>4, <1>5, <1>6

\* e is the first position from k on that holds none of C, or the end.
Skips(p, k, C, e) ==
  /\ e \in k .. Len(p)
  /\ \A q \in k .. e - 1 : p[q + 1] \in C
  /\ e = Len(p) \/ p[e + 1] \notin C

\* There is one such position, and Skip finds it.
LEMMA SkipIs ==
  ASSUME NEW p \in Seq(Chars), NEW k \in 0 .. Len(p), NEW C
  PROVE  /\ Skips(p, k, C, Skip(p, k, C))
         /\ \A e : Skips(p, k, C, e) => e = Skip(p, k, C)
<1>1. Len(p) \in Nat
  OBVIOUS
<1> DEFINE Stop(e) == e = Len(p) \/ p[e + 1] \notin C
           S == {d \in Nat : k + d \in 0 .. Len(p) =>
                   (\E e \in k .. Len(p) : Skips(p, k, C, e)) \/ \A q \in k .. k + d - 1 : p[q + 1] \in C}
<1>2. 0 \in S
  OBVIOUS
<1>3. ASSUME NEW d \in Nat, d \in S PROVE d + 1 \in S
  <2> SUFFICES ASSUME k + (d + 1) \in 0 .. Len(p), ~ \E e \in k .. Len(p) : Skips(p, k, C, e)
               PROVE  \A q \in k .. k + (d + 1) - 1 : p[q + 1] \in C
    OBVIOUS
  <2>1. \A q \in k .. k + d - 1 : p[q + 1] \in C
    BY <1>1, <1>3
  <2>2. k + d \in k .. Len(p) /\ k + d # Len(p)
    BY <1>1
  <2>3. p[(k + d) + 1] \in C
    BY <1>1, <2>1, <2>2 DEF Skips
  <2>4. \A q \in k .. k + (d + 1) - 1 : q \in k .. k + d - 1 \/ q = k + d
    BY <1>1
  <2>5. QED
    BY <2>1, <2>3, <2>4
<1> HIDE DEF S
<1>4. Len(p) - k \in S
  BY <1>1, <1>2, <1>3, SetInduction
<1>5. \E e \in k .. Len(p) : Skips(p, k, C, e)
  <2> SUFFICES ASSUME ~ \E e \in k .. Len(p) : Skips(p, k, C, e) PROVE FALSE
    OBVIOUS
  <2>1. \A q \in k .. k + (Len(p) - k) - 1 : p[q + 1] \in C
    BY <1>1, <1>4 DEF S
  <2>2. Skips(p, k, C, Len(p))
    BY <1>1, <2>1 DEF Skips
  <2>3. QED
    BY <1>1, <2>2
<1>6. Skips(p, k, C, Skip(p, k, C))
  BY <1>5 DEF Skip, Skips
<1>7. ASSUME NEW d, NEW e, Skips(p, k, C, d), Skips(p, k, C, e) PROVE ~ d < e
  <2> SUFFICES ASSUME d < e PROVE FALSE
    OBVIOUS
  <2>1. d \in k .. e - 1 /\ d # Len(p)
    BY <1>1, <1>7 DEF Skips
  <2>2. QED
    BY <1>7, <2>1 DEF Skips
<1>8. ASSUME NEW e, Skips(p, k, C, e) PROVE e = Skip(p, k, C)
  <2>1. e \in Int /\ Skip(p, k, C) \in Int /\ ~ (e < Skip(p, k, C)) /\ ~ (Skip(p, k, C) < e)
    BY <1>1, <1>6, <1>7, <1>8 DEF Skips
  <2>2. QED
    BY <2>1
<1>9. QED
  BY <1>6, <1>8

\* The two places TokensFrom looks for lie behind k.
LEMMA SkipsAhead ==
  ASSUME NEW p \in Seq(Chars), NEW k \in 0 .. Len(p), k # Len(p)
  PROVE  LET e == Skip(p, k + 1, Name)
             c == Skip(p, e + 1, Chars \ {"rbrace"})
         IN /\ e \in k + 1 .. Len(p)
            /\ e # Len(p) => c \in e + 1 .. Len(p)
<1> DEFINE e == Skip(p, k + 1, Name)
<1>1. Len(p) \in Nat /\ k + 1 \in 0 .. Len(p)
  OBVIOUS
<1>2. e \in k + 1 .. Len(p)
  BY <1>1, SkipIs DEF Skips
<1> HIDE DEF e
<1>3. e # Len(p) => e + 1 \in 0 .. Len(p)
  BY <1>1, <1>2
<1>4. e # Len(p) => Skip(p, e + 1, Chars \ {"rbrace"}) \in e + 1 .. Len(p)
  BY <1>3, SkipIs DEF Skips
<1>5. QED
  BY <1>2, <1>4 DEF e

\* Reads(p, k, step, T) depends on T behind k only.
LEMMA ReadsLocal ==
  ASSUME NEW p \in Seq(Chars), NEW k \in 0 .. Len(p), NEW step \in Steps, NEW T, NEW U,
         \A j \in k + 1 .. Len(p) : T[j] = U[j]
  PROVE  Reads(p, k, step, T) = Reads(p, k, step, U)
<1>1. CASE k = Len(p)
  <2>1. ~TwoAt(p, k)
    BY <1>1 DEF TwoAt
  <2>2. QED
    BY <1>1, <2>1 DEF Reads, TokensFrom
<1>2. CASE TwoAt(p, k)
  <2>1. k + step \in k + 1 .. Len(p)
    BY <1>2 DEF TwoAt, Steps
  <2>2. QED
    BY <1>2, <2>1 DEF Reads
<1>3. CASE k # Len(p) /\ ~TwoAt(p, k)
  <2> DEFINE e == Skip(p, k + 1, Name)
             c == Skip(p, e + 1, Chars \ {"rbrace"})
  <2>1. Len(p) \in Nat /\ k + 1 \in k + 1 .. Len(p)
    BY <1>3
  <2>2. e \in k + 1 .. Len(p) /\ (e # Len(p) => c \in e + 1 .. Len(p))
    BY <1>3, SkipsAhead
  <2> HIDE DEF e, c
  <2>3. e # Len(p) /\ c # Len(p) => c + 1 \in k + 1 .. Len(p)
    BY <2>1, <2>2
  <2>4. T[k + 1] = U[k + 1] /\ T[e] = U[e] /\ (e # Len(p) /\ c # Len(p) => T[c + 1] = U[c + 1])
    BY <2>1, <2>2, <2>3
  <2>5. TokensFrom(p, k, T) = TokensFrom(p, k, U)
    BY <1>3, <2>1, <2>4 DEF TokensFrom, TwoAt, e, c, Name
  <2>6. QED
    BY <1>3, <2>5 DEF Reads
<1>4. QED
  BY <1>1, <1>2, <1>3

IsGrammar(p, a, step, T) == T = [k \in a .. Len(p) |-> Reads(p, k, step, T)]

\* From the end of the pattern backwards.
LEMMA GrammarExists ==
  ASSUME NEW p \in Seq(Chars), NEW step \in Steps
  PROVE  \E T : IsGrammar(p, 0, step, T)
<1>1. Len(p) \in Nat
  OBVIOUS
<1> DEFINE L == Len(p)
           S == {d \in Nat : d <= L => \E T : IsGrammar(p, L - d, step, T)}
<1>2. ASSUME NEW a \in 0 .. L, NEW T, \A k \in a + 1 .. L : T[k] = Reads(p, k, step, T)
      PROVE  \E U : IsGrammar(p, a, step, U)
  <2> DEFINE U == [k \in a .. L |-> IF k = a THEN Reads(p, k, step, T) ELSE T[k]]
  <2>1. ASSUME NEW k \in a .. L PROVE Reads(p, k, step, U) = Reads(p, k, step, T)
    <3>1. \A j \in k + 1 .. L : j \in a .. L /\ j # a
      BY <1>1
    <3>2. \A j \in k + 1 .. L : U[j] = T[j]
      BY <3>1
    <3>3. k \in 0 .. Len(p)
      BY <1>1
    <3> HIDE DEF U
    <3>4. QED
      BY <3>2, <3>3, ReadsLocal
  <2>2. ASSUME NEW k \in a .. L PROVE U[k] = Reads(p, k, step, T)
    <3>1. k # a => k \in a + 1 .. L
      BY <1>1
    <3>2. QED
      BY <1>2, <3>1
  <2>3. U = [k \in a .. L |-> U[k]]
    OBVIOUS
  <2> HIDE DEF U
  <2>4. U = [k \in a .. L |-> Reads(p, k, step, U)]
    BY <2>1, <2>2, <2>3
  <2>5. QED
    BY <2>4 DEF IsGrammar
<1>3. 0 \in S
  <2>1. \A k \in L + 1 .. L : FALSE
    BY <1>1
  <2>2. L \in 0 .. L
    BY <1>1
  <2>3. \E U : IsGrammar(p, L, step, U)
    BY <1>2, <2>1, <2>2
  <2>4. QED
    BY <1>1, <2>3
<1>4. ASSUME NEW d \in Nat, d \in S PROVE d + 1 \in S
  <2> SUFFICES ASSUME d + 1 <= L PROVE \E T : IsGrammar(p, L - (d + 1), step, T)
    OBVIOUS
  <2>1. PICK T : IsGrammar(p, L - d, step, T)
    BY <1>1, <1>4
  <2>2. L - (d + 1) \in 0 .. L /\ L - (d + 1) + 1 = L - d
    BY <1>1
  <2>3. \A k \in L - d .. L : T[k] = Reads(p, k, step, T)
    BY <2>1 DEF IsGrammar
  <2>4. QED
    BY <1>2, <2>2, <2>3
<1> HIDE DEF S
<1>5. L \in S
  BY <1>1, <1>3, <1>4, SetInduction
<1>6. \E T : IsGrammar(p, L - L, step, T)
  BY <1>1, <1>5 DEF S
<1>7. QED
  BY <1>1, <1>6

\* So From(p, k, step) is what the grammar says it is.
LEMMA FromDef ==
  ASSUME NEW p \in Seq(Chars), NEW step \in Steps
  PROVE  \E T : /\ \A k \in 0 .. Len(p) : From(p, k, step) = T[k] /\ T[k] = Reads(p, k, step, T)
<1> DEFINE T == CHOOSE T : IsGrammar(p, 0, step, T)
<1>1. IsGrammar(p, 0, step, T)
  BY GrammarExists
<1>2. \A k : From(p, k, step) = T[k]
  BY DEF From, IsGrammar
<1> HIDE DEF T
<1>3. \A k \in 0 .. Len(p) : T[k] = Reads(p, k, step, T)
  BY <1>1 DEF IsGrammar
<1>4. QED
  BY <1>2, <1>3

\* The grammar, case by case.
LEMMA FromCases ==
  ASSUME NEW p \in Seq(Chars), NEW k \in 0 .. Len(p), NEW step \in Steps
  PROVE  /\ From(p, Len(p), step) = << >>
         /\ TwoAt(p, k) => From(p, k, step) = Prefix("%", From(p, k + step, step))
         /\ k # Len(p) /\ p[k + 1] # "%" => From(p, k, step) = Prefix(p[k + 1], From(p, k + 1, step))
         /\ k # Len(p) /\ p[k + 1] = "%" /\ ~TwoAt(p, k) =>
              LET e == Skip(p, k + 1, Name)
                  c == Skip(p, e + 1, Chars \ {"rbrace"})
                  name == SubSeq(p, k + 2, e)
              IN From(p, k, step) =
                   IF e = Len(p) \/ p[e + 1] # "lbrace" THEN Front(name, << >>, From(p, e, step))
                   ELSE IF c = Len(p) THEN Broken
                   ELSE Front(name, SubSeq(p, e + 2, c), From(p, c + 1, step))
<1> DEFINE e == Skip(p, k + 1, Name)
           c == Skip(p, e + 1, Chars \ {"rbrace"})
<1>1. Len(p) \in Nat /\ Len(p) \in 0 .. Len(p)
  OBVIOUS
<1>2. PICK T : \A j \in 0 .. Len(p) : From(p, j, step) = T[j] /\ T[j] = Reads(p, j, step, T)
  BY FromDef
<1>3. From(p, Len(p), step) = << >>
  <2>1. ~TwoAt(p, Len(p))
    BY <1>1 DEF TwoAt
  <2>2. Reads(p, Len(p), step, T) = << >>
    BY <2>1 DEF Reads, TokensFrom
  <2>3. QED
    BY <1>1, <1>2, <2>2
<1>4. CASE TwoAt(p, k)
  <2>1. k # Len(p) /\ p[k + 1] = "%" /\ k + step \in 0 .. Len(p)
    BY <1>1, <1>4 DEF TwoAt, Steps
  <2>2. From(p, k, step) = Prefix("%", T[k + step])
    BY <1>2, <1>4 DEF Reads
  <2>3. QED
    BY <1>2, <1>3, <1>4, <2>1, <2>2
<1>5. CASE k # Len(p) /\ ~TwoAt(p, k)
  <2>1. k + 1 \in 0 .. Len(p)
    BY <1>1, <1>5
  <2>2. e \in k + 1 .. Len(p) /\ (e # Len(p) => c \in e + 1 .. Len(p))
    BY <1>5, SkipsAhead
  <2> HIDE DEF e, c
  <2>3. e \in 0 .. Len(p) /\ (e # Len(p) /\ c # Len(p) => c + 1 \in 0 .. Len(p))
    BY <1>1, <2>1, <2>2
  <2>4. /\ From(p, k, step) = TokensFrom(p, k, T) /\ From(p, k + 1, step) = T[k + 1]
        /\ From(p, e, step) = T[e]
        /\ e # Len(p) /\ c # Len(p) => From(p, c + 1, step) = T[c + 1]
    BY <1>2, <1>5, <2>1, <2>3 DEF Reads
  <2>5. QED
    BY <1>3, <1>5, <2>4 DEF TokensFrom, TwoAt, e, c, Name
<1>6. CASE k = Len(p)
  BY <1>1, <1>3, <1>6 DEF TwoAt
<1>7. QED
  BY <1>4, <1>5, <1>6

(***************************************************************************)
(* Tokens.                                                                 *)
(***************************************************************************)
LEMMA BrokenType ==
  /\ Broken \in Seq(Token) /\ Broken # << >> /\ Broken[1].type = 2
  /\ \A s \in Seq(Chars) : Literal(s) \in Token /\ Literal(s).type = 0 /\ Literal(s).text = s
  /\ \A s, f \in Seq(Chars) : Item(s, f) \in Token /\ Item(s, f).type = 1 /\ Item(s, f).text = s
<1>1. << >> \in Seq(Chars)
  BY EmptySeq
<1>2. PatternError \in Token /\ PatternError.type = 2
  BY <1>1 DEF PatternError, Token
<1>3. Broken \in Seq(Token) /\ Len(Broken) = 1 /\ Broken[1] = PatternError
  BY <1>2 DEF Broken
<1>4. Broken # << >>
  BY <1>3
<1>5. QED
  BY <1>1, <1>2, <1>3, <1>4 DEF Literal, Item, Token

\* One token in front of others.
LEMMA Cons ==
  ASSUME NEW S, NEW x \in S, NEW ts \in Seq(S)
  PROVE  LET s == <<x>> \o ts
         IN s \in Seq(S) /\ s # << >> /\ s[1] = x /\ Tail(s) = ts
<1> DEFINE s == <<x>> \o ts
<1>1. <<x>> \in Seq(S) /\ Len(<<x>>) = 1 /\ <<x>>[1] = x
  OBVIOUS
<1>2. s \in Seq(S) /\ Len(s) = 1 + Len(ts)
      /\ \A j \in 1 .. 1 + Len(ts) : s[j] = IF j <= 1 THEN <<x>>[j] ELSE ts[j - 1]
  BY <1>1, ConcatProperties
<1>3. Len(ts) \in Nat
  OBVIOUS
<1> HIDE DEF s
<1>4. s # << >> /\ s[1] = x
  BY <1>1, <1>2, <1>3, EmptySeq
<1>5. Tail(s) \in Seq(S) /\ Len(Tail(s)) = Len(ts) /\ \A j \in 1 .. Len(Tail(s)) : Tail(s)[j] = s[j + 1]
  BY <1>2, <1>3, <1>4, HeadTailProperties
<1>6. \A j \in 1 .. Len(ts) : Tail(s)[j] = ts[j]
  BY <1>2, <1>3, <1>5
<1>7. Tail(s) = ts
  BY <1>5, <1>6, SeqEqual
<1>8. QED
  BY <1>2, <1>4, <1>7 DEF s

\* Prefix and Front give lists of tokens, which Broken comes out of only if it went in.
LEMMA TextType ==
  ASSUME NEW s \in Seq(Chars), NEW ts \in Seq(Token)
  PROVE  /\ Text(s, ts) \in Seq(Token)
         /\ s # << >> => Text(s, ts) # << >> /\ Text(s, ts)[1].type = 0
<1>1. CASE s # << >> /\ ts # << >> /\ ts[1].type = 0
  <2>1. ts[1] \in Token /\ Tail(ts) \in Seq(Token)
    <3>1. Len(ts) \in Nat \ {0}
      BY <1>1, EmptySeq
    <3>2. 1 \in 1 .. Len(ts)
      BY <3>1
    <3>3. QED
      BY <1>1, <3>2, ElementOfSeq, HeadTailProperties
  <2>2. s \o ts[1].text \in Seq(Chars)
    BY <2>1, ConcatProperties DEF Token
  <2> DEFINE x == Literal(s \o ts[1].text)
  <2>3. x \in Token /\ x.type = 0
    BY <2>2, BrokenType
  <2>4. Text(s, ts) = <<x>> \o Tail(ts)
    BY <1>1 DEF Text
  <2> HIDE DEF x
  <2>5. QED
    BY <2>1, <2>3, <2>4, Cons
<1>2. CASE s # << >> /\ ~ (ts # << >> /\ ts[1].type = 0)
  <2> DEFINE x == Literal(s)
  <2>1. x \in Token /\ x.type = 0
    BY BrokenType
  <2>2. Text(s, ts) = <<x>> \o ts
    BY <1>2 DEF Text
  <2> HIDE DEF x
  <2>3. QED
    BY <2>1, <2>2, Cons
<1>3. CASE s = << >>
  BY <1>3 DEF Text
<1>4. QED
  BY <1>1, <1>2, <1>3

LEMMA PrefixType ==
  ASSUME NEW c \in Chars, NEW ts \in Seq(Token)
  PROVE  /\ Prefix(c, ts) = IF ts = Broken THEN Broken ELSE Text(<<c>>, ts)
         /\ Prefix(c, ts) \in Seq(Token)
         /\ Prefix(c, ts) = Broken <=> ts = Broken
<1>1. <<c>> \in Seq(Chars) /\ <<c>> # << >>
  OBVIOUS
<1>2. Prefix(c, ts) = IF ts = Broken THEN Broken ELSE Text(<<c>>, ts)
  BY <1>1 DEF Prefix, Text
<1>3. Text(<<c>>, ts) \in Seq(Token) /\ Text(<<c>>, ts)[1].type = 0
  BY <1>1, TextType
<1>4. QED
  BY <1>2, <1>3, BrokenType

LEMMA FrontType ==
  ASSUME NEW s \in Seq(Chars), NEW f \in Seq(Chars), NEW ts \in Seq(Token)
  PROVE  /\ Front(s, f, ts) \in Seq(Token)
         /\ Front(s, f, ts) = Broken <=> ts = Broken \/ ~Known(s)
<1> DEFINE x == Item(s, f)
<1>1. x \in Token /\ x.type = 1
  BY BrokenType
<1>2. Front(s, f, ts) = IF ts = Broken \/ ~Known(s) THEN Broken ELSE <<x>> \o ts
  BY DEF Front
<1> HIDE DEF x
<1>3. <<x>> \o ts \in Seq(Token) /\ (<<x>> \o ts)[1] = x
  BY <1>1, Cons
<1>4. QED
  BY <1>1, <1>2, <1>3, BrokenType

\* A cut of the pattern.
LEMMA CutType ==
  ASSUME NEW p \in Seq(Chars), NEW a \in Nat \ {0}, NEW b \in 0 .. Len(p)
  PROVE  SubSeq(p, a, b) \in Seq(Chars)
<1>1. \A j \in a .. b : p[j] \in Chars
  <2> TAKE j \in a .. b
  <2>1. j \in 1 .. Len(p)
    OBVIOUS
  <2>2. QED
    BY <2>1, ElementOfSeq
<1>2. a \in Int /\ b \in Int
  OBVIOUS
<1>3. QED
  BY <1>1, <1>2, SubSeqProperties

\* The grammar gives every position a list of tokens.
LEMMA FromType ==
  ASSUME NEW p \in Seq(Chars), NEW step \in Steps
  PROVE  \A k \in 0 .. Len(p) : From(p, k, step) \in Seq(Token)
<1>1. Len(p) \in Nat
  OBVIOUS
<1>2. ASSUME NEW k \in 0 .. Len(p), \A j \in k + 1 .. Len(p) : From(p, j, step) \in Seq(Token)
      PROVE  From(p, k, step) \in Seq(Token)
  <2>1. CASE k = Len(p)
    BY <2>1, FromCases, EmptySeq
  <2>2. CASE TwoAt(p, k)
    <3>1. k + step \in k + 1 .. Len(p) /\ "%" \in Chars
      BY <1>1, <2>2 DEF TwoAt, Steps, Chars
    <3>2. From(p, k, step) = Prefix("%", From(p, k + step, step))
      BY <2>2, FromCases
    <3>3. QED
      BY <1>2, <3>1, <3>2, PrefixType
  <2>3. CASE k # Len(p) /\ p[k + 1] # "%"
    <3>1. k + 1 \in 1 .. Len(p) /\ k + 1 \in k + 1 .. Len(p)
      BY <1>1, <2>3
    <3>2. p[k + 1] \in Chars
      BY <3>1, ElementOfSeq
    <3>3. From(p, k, step) = Prefix(p[k + 1], From(p, k + 1, step))
      BY <2>3, FromCases
    <3>4. QED
      BY <1>2, <3>1, <3>2, <3>3, PrefixType
  <2>4. CASE k # Len(p) /\ p[k + 1] = "%" /\ ~TwoAt(p, k)
    <3> DEFINE e == Skip(p, k + 1, Name)
               c == Skip(p, e + 1, Chars \ {"rbrace"})
               name == SubSeq(p, k + 2, e)
               f == SubSeq(p, e + 2, c)
    <3>1. From(p, k, step) = IF e = Len(p) \/ p[e + 1] # "lbrace" THEN Front(name, << >>, From(p, e, step))
                       ELSE IF c = Len(p) THEN Broken ELSE Front(name, f, From(p, c + 1, step))
      BY <2>4, FromCases
    <3>2. e \in k + 1 .. Len(p) /\ (e # Len(p) => c \in e + 1 .. Len(p))
      BY <2>4, SkipsAhead
    <3> HIDE DEF e, c
    <3>3. name \in Seq(Chars) /\ << >> \in Seq(Chars)
      BY <1>1, <3>2, CutType, EmptySeq
    <3>4. e # Len(p) => f \in Seq(Chars)
      BY <1>1, <3>2, CutType
    <3>5. From(p, e, step) \in Seq(Token)
      BY <1>2, <3>2
    <3>6. e # Len(p) /\ c # Len(p) => From(p, c + 1, step) \in Seq(Token)
      BY <1>1, <1>2, <3>2
    <3> HIDE DEF name, f
    <3>7. Front(name, << >>, From(p, e, step)) \in Seq(Token)
      BY <3>3, <3>5, FrontType
    <3>8. e # Len(p) /\ c # Len(p) => Front(name, f, From(p, c + 1, step)) \in Seq(Token)
      BY <3>3, <3>4, <3>6, FrontType
    <3>9. QED
      BY <3>1, <3>7, <3>8, BrokenType
  <2>5. QED
    BY <2>1, <2>2, <2>3, <2>4
<1> DEFINE S == {d \in Nat : \A k \in 0 .. Len(p) : k >= Len(p) - d => From(p, k, step) \in Seq(Token)}
<1>3. 0 \in S
  <2>1. \A k \in 0 .. Len(p) : k >= Len(p) - 0 => k = Len(p)
    BY <1>1
  <2>2. QED
    BY <1>1, <2>1, FromCases, EmptySeq
<1>4. ASSUME NEW d \in Nat, d \in S PROVE d + 1 \in S
  <2> SUFFICES ASSUME NEW k \in 0 .. Len(p), k >= Len(p) - (d + 1) PROVE From(p, k, step) \in Seq(Token)
    OBVIOUS
  <2>1. \A j \in k + 1 .. Len(p) : j \in 0 .. Len(p) /\ j >= Len(p) - d
    BY <1>1
  <2>2. QED
    BY <1>2, <1>4, <2>1
<1> HIDE DEF S
<1>5. Len(p) \in S
  BY <1>1, <1>3, <1>4, SetInduction
<1>6. QED
  BY <1>1, <1>5 DEF S

(***************************************************************************)
(* What the outer loop does to the tokens it has.                          *)
(***************************************************************************)
\* A character is moved from the tokens to come to the text collected.
LEMMA TextGrows ==
  ASSUME NEW s \in Seq(Chars), NEW c \in Chars, NEW ts \in Seq(Token)
  PROVE  Text(s, Text(<<c>>, ts)) = Text(Append(s, c), ts)
<1>1. Append(s, c) \in Seq(Chars) /\ Append(s, c) # << >> /\ Append(s, c) = s \o <<c>>
      /\ <<c>> \in Seq(Chars) /\ <<c>> # << >>
  OBVIOUS
<1>2. CASE ts # << >> /\ ts[1].type = 0
  <2> DEFINE x == Literal(<<c>> \o ts[1].text)
  <2>1. ts[1] \in Token /\ Tail(ts) \in Seq(Token)
    <3>1. Len(ts) \in Nat \ {0}
      BY <1>2, EmptySeq
    <3>2. 1 \in 1 .. Len(ts)
      BY <3>1
    <3>3. QED
      BY <1>2, <3>2, ElementOfSeq, HeadTailProperties
  <2>2. ts[1].text \in Seq(Chars)
    BY <2>1 DEF Token
  <2>3. <<c>> \o ts[1].text \in Seq(Chars)
    BY <1>1, <2>2, ConcatProperties
  <2>4. x \in Token /\ x.type = 0 /\ x.text = <<c>> \o ts[1].text
    BY <2>3, BrokenType
  <2>5. Text(<<c>>, ts) = <<x>> \o Tail(ts)
    BY <1>1, <1>2 DEF Text
  <2>6. Text(Append(s, c), ts) = <<Literal(Append(s, c) \o ts[1].text)>> \o Tail(ts)
    BY <1>1, <1>2 DEF Text
  <2> HIDE DEF x
  <2>7. Text(<<c>>, ts) # << >> /\ Text(<<c>>, ts)[1] = x /\ Tail(Text(<<c>>, ts)) = Tail(ts)
    <3> DEFINE tl == Tail(ts)
               all == <<x>> \o tl
    <3>1. tl \in Seq(Token) /\ x \in Token /\ Text(<<c>>, ts) = all
      BY <2>1, <2>4, <2>5
    <3> HIDE DEF tl
    <3>2. all # << >> /\ all[1] = x /\ Tail(all) = tl
      BY <3>1, Cons
    <3> HIDE DEF all
    <3>3. QED
      BY <3>1, <3>2 DEF tl
  <2>8. CASE s = << >>
    <3>1. Append(s, c) = <<c>>
      BY <2>8
    <3>2. QED
      BY <2>8, <3>1 DEF Text
  <2>9. CASE s # << >>
    <3>1. Text(s, Text(<<c>>, ts)) = <<Literal(s \o x.text)>> \o Tail(ts)
      BY <2>4, <2>7, <2>9 DEF Text
    <3>2. s \o x.text = Append(s, c) \o ts[1].text
      <4> DEFINE first == ts[1].text
      <4>1. first \in Seq(Chars) /\ x.text = <<c>> \o first
        BY <2>2, <2>4
      <4> HIDE DEF first
      <4>2. (s \o <<c>>) \o first = s \o (<<c>> \o first)
        BY <1>1, <4>1, ConcatAssociative
      <4>3. QED
        BY <1>1, <4>1, <4>2 DEF first
    <3>3. QED
      BY <2>6, <3>1, <3>2
  <2>10. QED
    BY <2>8, <2>9
<1>3. CASE ~ (ts # << >> /\ ts[1].type = 0)
  <2> DEFINE x == Literal(<<c>>)
  <2>1. x \in Token /\ x.type = 0 /\ x.text = <<c>>
    BY <1>1, BrokenType
  <2>2. Text(<<c>>, ts) = <<x>> \o ts
    BY <1>1, <1>3 DEF Text
  <2>3. Text(Append(s, c), ts) = <<Literal(Append(s, c))>> \o ts
    BY <1>1, <1>3 DEF Text
  <2> HIDE DEF x
  <2>4. Text(<<c>>, ts) # << >> /\ Text(<<c>>, ts)[1] = x /\ Tail(Text(<<c>>, ts)) = ts
    <3> DEFINE all == <<x>> \o ts
    <3>1. all # << >> /\ all[1] = x /\ Tail(all) = ts
      BY <2>1, Cons
    <3> HIDE DEF all
    <3>2. QED
      BY <2>2, <3>1 DEF all
  <2>5. CASE s = << >>
    <3>1. Append(s, c) = <<c>>
      BY <2>5
    <3>2. QED
      BY <2>5, <3>1 DEF Text
  <2>6. CASE s # << >>
    <3>1. Text(s, Text(<<c>>, ts)) = <<Literal(s \o x.text)>> \o Tail(Text(<<c>>, ts))
      BY <2>1, <2>4, <2>6 DEF Text
    <3>2. QED
      BY <1>1, <2>1, <2>3, <2>4, <3>1
  <2>7. QED
    BY <2>5, <2>6
<1>4. QED
  BY <1>2, <1>3

\* So the whole stays the same.
LEMMA WholePrefix ==
  ASSUME NEW list \in Seq(Token), NEW s \in Seq(Chars), NEW c \in Chars, NEW ts \in Seq(Token)
  PROVE  Whole(list, s, Prefix(c, ts)) = Whole(list, Append(s, c), ts)
<1>1. Prefix(c, ts) = Broken <=> ts = Broken
  BY PrefixType
<1>2. ts # Broken => Prefix(c, ts) = Text(<<c>>, ts)
  BY PrefixType
<1>3. Text(s, Text(<<c>>, ts)) = Text(Append(s, c), ts)
  BY TextGrows
<1>4. QED
  BY <1>1, <1>2, <1>3 DEF Whole

\* The text collected and an item become tokens.
FlushedOf(list, s) == IF s = << >> THEN list ELSE Append(list, Literal(s))

LEMMA FlushedType ==
  ASSUME NEW list \in Seq(Token), NEW s \in Seq(Chars)
  PROVE  /\ FlushedOf(list, s) \in Seq(Token)
         /\ Unknown(FlushedOf(list, s)) <=> Unknown(list)
         /\ (\A k \in DOMAIN list : list[k].type # 2) =>
              \A k \in DOMAIN FlushedOf(list, s) : FlushedOf(list, s)[k].type # 2
         /\ FlushedOf(list, s) = list \o Text(s, << >>)
<1>1. CASE s = << >>
  BY <1>1, ConcatEmptySeq DEF FlushedOf, Text
<1>2. CASE s # << >>
  <2> DEFINE x == Literal(s)
             l2 == Append(list, x)
  <2>1. x \in Token /\ x.type = 0
    BY BrokenType
  <2> HIDE DEF x
  <2>2. /\ l2 \in Seq(Token) /\ Len(list) \in Nat /\ DOMAIN list = 1 .. Len(list)
        /\ DOMAIN l2 = 1 .. Len(list) + 1
        /\ l2[Len(list) + 1] = x /\ \A k \in 1 .. Len(list) : l2[k] = list[k]
    BY <2>1
  <2>3. FlushedOf(list, s) = l2 /\ Text(s, << >>) = <<x>> \o << >>
    BY <1>2 DEF FlushedOf, Text, x
  <2>4. <<x>> \o << >> = <<x>> /\ list \o <<x>> = l2
    BY <2>1
  <2> HIDE DEF l2
  <2>5. Unknown(l2) <=> Unknown(list)
    BY <2>1, <2>2 DEF Unknown
  <2>6. (\A k \in DOMAIN list : list[k].type # 2) => \A k \in DOMAIN l2 : l2[k].type # 2
    BY <2>1, <2>2
  <2>7. QED
    BY <2>2, <2>3, <2>4, <2>5, <2>6
<1>3. QED
  BY <1>1, <1>2

Pushed(list, s, name, f) == Append(FlushedOf(list, s), Item(name, f))

LEMMA WholeFront ==
  ASSUME NEW list \in Seq(Token), NEW s \in Seq(Chars), NEW name \in Seq(Chars), NEW f \in Seq(Chars),
         NEW ts \in Seq(Token)
  PROVE  /\ Pushed(list, s, name, f) \in Seq(Token)
         /\ (\A k \in DOMAIN list : list[k].type # 2) =>
              \A k \in DOMAIN Pushed(list, s, name, f) : Pushed(list, s, name, f)[k].type # 2
         /\ Whole(list, s, Front(name, f, ts)) = Whole(Pushed(list, s, name, f), << >>, ts)
<1> DEFINE x == Item(name, f)
           fl == FlushedOf(list, s)
           list2 == Append(fl, x)
<1>1. x \in Token /\ x.type = 1 /\ x.text = name
  BY BrokenType
<1>2. /\ fl \in Seq(Token) /\ (Unknown(fl) <=> Unknown(list))
      /\ (\A k \in DOMAIN list : list[k].type # 2) => \A k \in DOMAIN fl : fl[k].type # 2
  BY FlushedType
<1>3. Front(name, f, ts) = IF ts = Broken \/ ~Known(name) THEN Broken ELSE <<x>> \o ts
  BY DEF Front
<1>4. fl = IF s = << >> THEN list ELSE Append(list, Literal(s))
  BY DEF FlushedOf
<1> HIDE DEF x, fl
<1>5. /\ list2 \in Seq(Token) /\ Len(fl) \in Nat /\ DOMAIN fl = 1 .. Len(fl)
      /\ DOMAIN list2 = 1 .. Len(fl) + 1 /\ list2[Len(fl) + 1] = x
      /\ \A k \in 1 .. Len(fl) : list2[k] = fl[k]
  BY <1>1, <1>2
<1>6. list2 = fl \o <<x>> /\ <<x>> \in Seq(Token)
  BY <1>1, <1>2
<1> HIDE DEF list2
<1> DEFINE last == Len(fl) + 1
<1>7. last \in DOMAIN list2 /\ list2[last] = x
       /\ (\A k \in DOMAIN list2 : k = last \/ (k \in DOMAIN fl /\ list2[k] = fl[k]))
       /\ (\A k \in DOMAIN fl : k \in DOMAIN list2 /\ list2[k] = fl[k])
  BY <1>5
<1> HIDE DEF last
<1>8. Unknown(list2) <=> Unknown(list) \/ ~Known(name)
  <2>1. Unknown(list2) => Unknown(fl) \/ ~Known(name)
    BY <1>1, <1>7 DEF Unknown
  <2>2. Unknown(fl) => Unknown(list2)
    BY <1>7 DEF Unknown
  <2>3. ~Known(name) => Unknown(list2)
    BY <1>1, <1>7 DEF Unknown
  <2>4. QED
    BY <1>2, <2>1, <2>2, <2>3
<1>9. (\A k \in DOMAIN list : list[k].type # 2) => \A k \in DOMAIN list2 : list2[k].type # 2
  <2>1. x.type # 2
    BY <1>1
  <2>2. QED
    BY <1>2, <1>7, <2>1
<1>10. CASE ts # Broken /\ Known(name)
  <2> DEFINE all == <<x>> \o ts
  <2>1. all \in Seq(Token) /\ all # << >> /\ all[1] = x
    BY <1>1, Cons
  <2>2. list2 \o ts = fl \o all
    BY <1>2, <1>6, ConcatAssociative
  <2> HIDE DEF all
  <2>3. Front(name, f, ts) = all /\ all # Broken
    BY <1>1, <1>3, <1>10, <2>1, BrokenType DEF all
  <2>4. fl \o all = list \o Text(s, all)
    <3>1. CASE s = << >>
      BY <1>4, <3>1 DEF Text
    <3>2. CASE s # << >>
      <4> DEFINE y == Literal(s)
      <4>1. y \in Token
        BY BrokenType
      <4>2. Text(s, all) = <<y>> \o all
        BY <1>1, <2>1, <3>2 DEF Text
      <4> HIDE DEF y
      <4>3. fl = list \o <<y>> /\ <<y>> \in Seq(Token)
        BY <1>4, <3>2, <4>1 DEF y
      <4>4. (list \o <<y>>) \o all = list \o (<<y>> \o all)
        BY <2>1, <4>3, ConcatAssociative
      <4>5. QED
        BY <4>2, <4>3, <4>4
    <3>3. QED
      BY <3>1, <3>2
  <2>5. Text(<< >>, ts) = ts
    BY DEF Text
  <2>6. Whole(list, s, Front(name, f, ts)) = Whole(list2, << >>, ts)
    BY <1>8, <1>10, <2>2, <2>3, <2>4, <2>5 DEF Whole
  <2>7. QED
    BY <1>5, <1>9, <2>6 DEF list2, fl, x, Pushed
<1>11. CASE ts = Broken \/ ~Known(name)
  <2>1. Whole(list, s, Front(name, f, ts)) = Broken
    BY <1>3, <1>11 DEF Whole
  <2>2. Whole(list2, << >>, ts) = Broken
    BY <1>8, <1>11 DEF Whole
  <2>3. QED
    BY <1>5, <1>9, <2>1, <2>2 DEF list2, fl, x, Pushed
<1>12. QED
  BY <1>10, <1>11

(***************************************************************************)
(* Where the two readings part: at a run of r > 1 times "%".  Read one by  *)
(* one, it gives r - 1 of them in front of an item; read two by two, half  *)
(* of them, or other text behind them.                                     *)
(***************************************************************************)
\* The text that a list of tokens begins with.
Lead(ts) == IF ts # << >> /\ ts[1].type = 0 THEN ts[1].text ELSE << >>
Percents(s) == \A q \in 1 .. Len(s) : s[q] = "%"

LEMMA LeadText ==
  ASSUME NEW s \in Seq(Chars), NEW ts \in Seq(Token)
  PROVE  Lead(ts) \in Seq(Chars) /\ Lead(Text(s, ts)) = s \o Lead(ts)
<1>1. CASE ts # << >> /\ ts[1].type = 0
  <2>1. ts[1] \in Token /\ Tail(ts) \in Seq(Token)
    <3>1. Len(ts) \in Nat \ {0}
      BY <1>1, EmptySeq
    <3>2. 1 \in 1 .. Len(ts)
      BY <3>1
    <3>3. QED
      BY <1>1, <3>2, ElementOfSeq, HeadTailProperties
  <2>2. Lead(ts) = ts[1].text /\ Lead(ts) \in Seq(Chars)
    BY <1>1, <2>1 DEF Lead, Token
  <2>3. CASE s = << >>
    BY <2>2, <2>3, ConcatEmptySeq DEF Text
  <2>4. CASE s # << >>
    <3> DEFINE x == Literal(s \o Lead(ts))
               tl == Tail(ts)
    <3>1. s \o Lead(ts) \in Seq(Chars)
      BY <2>2, ConcatProperties
    <3>2. x \in Token /\ x.type = 0 /\ x.text = s \o Lead(ts)
      BY <3>1, BrokenType
    <3>3. Text(s, ts) = <<x>> \o tl
      BY <1>1, <2>2, <2>4 DEF Text
    <3> HIDE DEF x, tl
    <3>4. <<x>> \o tl # << >> /\ (<<x>> \o tl)[1] = x
      BY <2>1, <3>2, Cons DEF tl
    <3>5. QED
      BY <2>2, <3>2, <3>3, <3>4 DEF Lead
  <2>5. QED
    BY <2>3, <2>4
<1>2. CASE ~ (ts # << >> /\ ts[1].type = 0)
  <2>1. Lead(ts) = << >> /\ s \o Lead(ts) = s
    BY <1>2, ConcatEmptySeq DEF Lead
  <2>2. CASE s = << >>
    BY <2>1, <2>2, EmptySeq DEF Text
  <2>3. CASE s # << >>
    <3> DEFINE x == Literal(s)
    <3>1. x \in Token /\ x.type = 0 /\ x.text = s
      BY BrokenType
    <3>2. Text(s, ts) = <<x>> \o ts
      BY <1>2, <2>3 DEF Text
    <3> HIDE DEF x
    <3>3. <<x>> \o ts # << >> /\ (<<x>> \o ts)[1] = x
      BY <3>1, Cons
    <3>4. QED
      BY <2>1, <3>1, <3>2, <3>3, EmptySeq DEF Lead
  <2>4. QED
    BY <2>2, <2>3, <2>1, EmptySeq
<1>3. QED
  BY <1>1, <1>2

\* One more character in front.
LEMMA LeadPrefix ==
  ASSUME NEW c \in Chars, NEW ts \in Seq(Token), ts # Broken
  PROVE  LET s == Lead(ts)
             s2 == Lead(Prefix(c, ts))
         IN /\ s \in Seq(Chars) /\ s2 \in Seq(Chars) /\ Len(s2) = Len(s) + 1
            /\ s2[1] = c /\ \A q \in 1 .. Len(s) : s2[q + 1] = s[q]
<1> DEFINE s == Lead(ts)
           s2 == <<c>> \o s
<1>1. <<c>> \in Seq(Chars) /\ Len(<<c>>) = 1 /\ <<c>>[1] = c
  OBVIOUS
<1>2. s \in Seq(Chars) /\ Lead(Prefix(c, ts)) = s2
  BY <1>1, PrefixType, LeadText
<1> HIDE DEF s
<1>3. s2 \in Seq(Chars) /\ Len(s2) = 1 + Len(s)
      /\ \A j \in 1 .. 1 + Len(s) : s2[j] = IF j <= 1 THEN <<c>>[j] ELSE s[j - 1]
  BY <1>1, <1>2, ConcatProperties
<1>4. Len(s) \in Nat
  BY <1>2
<1> HIDE DEF s2
<1>5. s2[1] = c /\ \A q \in 1 .. Len(s) : s2[q + 1] = s[q]
  BY <1>1, <1>3, <1>4
<1>6. QED
  BY <1>2, <1>3, <1>4, <1>5 DEF s

\* A "%" that none follows begins an item.
LEMMA LeadItem ==
  ASSUME NEW p \in Seq(Chars), NEW k \in 0 .. Len(p), NEW step \in Steps,
         k # Len(p), p[k + 1] = "%", ~TwoAt(p, k)
  PROVE  /\ From(p, k, step) = Broken \/ Lead(From(p, k, step)) = << >>
         /\ k + 1 = Len(p) => From(p, k, step) = Broken
<1> DEFINE e == Skip(p, k + 1, Name)
           c == Skip(p, e + 1, Chars \ {"rbrace"})
           name == SubSeq(p, k + 2, e)
           f == SubSeq(p, e + 2, c)
<1>1. From(p, k, step) = IF e = Len(p) \/ p[e + 1] # "lbrace" THEN Front(name, << >>, From(p, e, step))
                         ELSE IF c = Len(p) THEN Broken ELSE Front(name, f, From(p, c + 1, step))
  BY FromCases
<1>2. e \in k + 1 .. Len(p) /\ (e # Len(p) => c \in e + 1 .. Len(p))
  BY SkipsAhead
<1>3. k + 1 = Len(p) => e = Len(p) /\ name = << >>
  BY <1>2
<1> HIDE DEF e, c
<1>4. name \in Seq(Chars) /\ << >> \in Seq(Chars) /\ (e # Len(p) => f \in Seq(Chars))
  BY <1>2, CutType, EmptySeq
<1>5. From(p, e, step) \in Seq(Token) /\ (e # Len(p) /\ c # Len(p) => From(p, c + 1, step) \in Seq(Token))
  BY <1>2, FromType
<1> HIDE DEF name, f
<1>6. ASSUME NEW s \in Seq(Chars), NEW g \in Seq(Chars), NEW ts \in Seq(Token)
      PROVE  Front(s, g, ts) = Broken \/ Lead(Front(s, g, ts)) = << >>
  <2> DEFINE x == Item(s, g)
  <2>1. x \in Token /\ x.type = 1
    BY BrokenType
  <2>2. Front(s, g, ts) = Broken \/ Front(s, g, ts) = <<x>> \o ts
    BY DEF Front
  <2> HIDE DEF x
  <2>3. (<<x>> \o ts)[1] = x
    BY <2>1, Cons
  <2>4. QED
    BY <2>1, <2>2, <2>3 DEF Lead
<1>7. k + 1 = Len(p) => From(p, k, step) = Broken
  <2>1. ~Known(<< >>)
    BY DEF Known
  <2>2. QED
    BY <1>1, <1>3, <2>1 DEF Front
<1>8. From(p, k, step) = Broken \/ Lead(From(p, k, step)) = << >>
  <2>1. CASE e = Len(p) \/ p[e + 1] # "lbrace"
    BY <1>1, <1>4, <1>5, <1>6, <2>1
  <2>2. CASE e # Len(p) /\ p[e + 1] = "lbrace" /\ c # Len(p)
    BY <1>1, <1>4, <1>5, <1>6, <2>2
  <2>3. CASE e # Len(p) /\ p[e + 1] = "lbrace" /\ c = Len(p)
    BY <1>1, <2>3
  <2>4. QED
    BY <2>1, <2>2, <2>3
<1>9. QED
  BY <1>7, <1>8

\* A run of "%" from k to j, read one by one.
LEMMA OneByOne ==
  ASSUME NEW p \in Seq(Chars), NEW k \in 0 .. Len(p), NEW j, Skips(p, k, {"%"}, j), j # k
  PROVE  LET ts == From(p, k, 1)
         IN ts = Broken \/ (j # Len(p) /\ Percents(Lead(ts)) /\ Len(Lead(ts)) = j - k - 1)
<1> DEFINE Good(s, a) == j # Len(p) /\ Percents(s) /\ Len(s) = j - a - 1
           Claim(a) == From(p, a, 1) = Broken \/ Good(Lead(From(p, a, 1)), a)
           S == {m \in Nat : \A a \in 0 .. Len(p) : j - a = m + 1 /\ Skips(p, a, {"%"}, j) => Claim(a)}
<1>1. Len(p) \in Nat /\ j \in 0 .. Len(p) /\ j - k \in Nat \ {0} /\ 1 \in Steps
  BY DEF Skips, Steps
<1>2. ASSUME NEW a \in 0 .. Len(p), Skips(p, a, {"%"}, j), j # a
      PROVE  a \in Int /\ a < j /\ a # Len(p) /\ p[a + 1] = "%"
  BY <1>1, <1>2 DEF Skips
<1>3. 0 \in S
  <2> SUFFICES ASSUME NEW a \in 0 .. Len(p), j - a = 0 + 1, Skips(p, a, {"%"}, j) PROVE Claim(a)
    OBVIOUS
  <2>1. j = a + 1 /\ a # Len(p) /\ p[a + 1] = "%"
    BY <1>1, <1>2
  <2>2. ~TwoAt(p, a)
    <3>1. a + 1 + 1 = a + 2
      OBVIOUS
    <3>2. QED
      BY <2>1, <3>1 DEF Skips, TwoAt
  <2>3. /\ From(p, a, 1) = Broken \/ Lead(From(p, a, 1)) = << >>
        /\ j = Len(p) => From(p, a, 1) = Broken
    BY <1>1, <2>1, <2>2, LeadItem
  <2>4. Percents(<< >>) /\ Len(<< >>) = j - a - 1
    BY <1>1, <2>1 DEF Percents
  <2>5. QED
    BY <2>3, <2>4
<1>4. ASSUME NEW m \in Nat, m \in S PROVE m + 1 \in S
  <2> SUFFICES ASSUME NEW a \in 0 .. Len(p), j - a = (m + 1) + 1, Skips(p, a, {"%"}, j) PROVE Claim(a)
    OBVIOUS
  <2>1. a + 1 \in 0 .. Len(p) /\ j # a /\ j # a + 1 /\ j - (a + 1) = m + 1
    BY <1>1
  <2>2. Skips(p, a + 1, {"%"}, j)
    BY <1>1, <2>1 DEF Skips
  <2>3. TwoAt(p, a)
    <3>1. p[a + 1] = "%" /\ p[(a + 1) + 1] = "%" /\ a + 1 < Len(p) /\ a + 1 + 1 = a + 2
      BY <1>1, <1>2, <2>1, <2>2
    <3>2. QED
      BY <3>1 DEF TwoAt
  <2> DEFINE ts == From(p, a + 1, 1)
  <2>4. ts \in Seq(Token) /\ From(p, a, 1) = Prefix("%", ts) /\ "%" \in Chars
    BY <1>1, <2>1, <2>3, FromType, FromCases DEF Chars
  <2>5. ts = Broken \/ Good(Lead(ts), a + 1)
    BY <1>4, <2>1, <2>2
  <2> HIDE DEF ts
  <2>6. CASE ts = Broken
    BY <2>4, <2>6, PrefixType
  <2>7. CASE ts # Broken
    <3> DEFINE s == Lead(ts)
               s2 == Lead(Prefix("%", ts))
    <3>1. /\ s \in Seq(Chars) /\ s2 \in Seq(Chars) /\ Len(s2) = Len(s) + 1
          /\ s2[1] = "%" /\ \A q \in 1 .. Len(s) : s2[q + 1] = s[q]
      BY <2>4, <2>7, LeadPrefix
    <3>2. \A q \in 1 .. Len(s) : s[q] = "%"
      BY <2>5, <2>7 DEF Percents
    <3> HIDE DEF s, s2
    <3>3. ASSUME NEW q \in 1 .. Len(s2) PROVE s2[q] = "%"
      <4>1. q = 1 \/ (q - 1 \in 1 .. Len(s) /\ (q - 1) + 1 = q)
        BY <3>1
      <4>2. QED
        BY <3>1, <3>2, <4>1
    <3>4. Percents(s2) /\ j # Len(p)
      BY <2>5, <2>7, <3>3 DEF Percents
    <3>5. Len(s2) = j - a - 1
      <4>1. Len(s) = j - (a + 1) - 1
        BY <2>5, <2>7 DEF s
      <4>2. QED
        BY <1>1, <3>1, <4>1
    <3>6. QED
      BY <2>4, <3>4, <3>5 DEF s2
  <2>8. QED
    BY <2>6, <2>7
<1> HIDE DEF S
<1>5. j - k - 1 \in Nat
  BY <1>1
<1>6. j - k - 1 \in S /\ j - k = (j - k - 1) + 1
  BY <1>1, <1>3, <1>4, <1>5, SetInduction
<1>7. QED
  BY <1>6 DEF S

\* And read two by two, when the pattern goes on behind it.
LEMMA TwoByTwo ==
  ASSUME NEW p \in Seq(Chars), NEW k \in 0 .. Len(p), NEW j, Skips(p, k, {"%"}, j), j # Len(p)
  PROVE  LET ts == From(p, k, 2)
         IN ts = Broken \/ ~Percents(Lead(ts)) \/ 2 * Len(Lead(ts)) < j - k
<1> DEFINE Good(s, a) == ~Percents(s) \/ 2 * Len(s) < j - a
           Claim(a) == From(p, a, 2) = Broken \/ Good(Lead(From(p, a, 2)), a)
           S == {m \in Nat : \A a \in 0 .. Len(p) :
                   (j - a = m \/ j - a = m + 1) /\ Skips(p, a, {"%"}, j) => Claim(a)}
<1>1. Len(p) \in Nat /\ j \in 0 .. Len(p) /\ j - k \in Nat /\ 2 \in Steps
  BY DEF Skips, Steps
<1>2. ASSUME NEW a \in 0 .. Len(p), j = a, Skips(p, a, {"%"}, j) PROVE Claim(a)
  <2>1. a # Len(p) /\ p[a + 1] # "%" /\ a + 1 \in 1 .. Len(p) /\ a + 1 \in 0 .. Len(p)
    BY <1>1, <1>2 DEF Skips
  <2> DEFINE ts == From(p, a + 1, 2)
             c == p[a + 1]
  <2>2. c \in Chars /\ ts \in Seq(Token) /\ From(p, a, 2) = Prefix(c, ts)
    BY <1>1, <2>1, ElementOfSeq, FromType, FromCases
  <2> HIDE DEF ts
  <2>3. CASE ts = Broken
    BY <2>2, <2>3, PrefixType
  <2>4. CASE ts # Broken
    <3> DEFINE s == Lead(ts)
               s2 == Lead(Prefix(c, ts))
    <3>1. s \in Seq(Chars) /\ Len(s2) = Len(s) + 1 /\ s2[1] = c
      BY <2>2, <2>4, LeadPrefix
    <3>2. 1 \in 1 .. Len(s2)
      <4> HIDE DEF s, s2
      <4>1. QED
        BY <3>1
    <3>3. ~Percents(s2)
      BY <2>1, <3>1, <3>2 DEF Percents
    <3>4. QED
      BY <2>2, <3>3
  <2>5. QED
    BY <2>3, <2>4
<1>3. ASSUME NEW a \in 0 .. Len(p), j = a + 1, Skips(p, a, {"%"}, j) PROVE Claim(a)
  <2>1. a # Len(p) /\ p[a + 1] = "%"
    BY <1>1, <1>3 DEF Skips
  <2>2. ~TwoAt(p, a)
    <3>1. a + 1 + 1 = a + 2
      OBVIOUS
    <3>2. QED
      BY <1>3, <2>1, <3>1 DEF Skips, TwoAt
  <2>3. From(p, a, 2) = Broken \/ Lead(From(p, a, 2)) = << >>
    BY <1>1, <2>1, <2>2, LeadItem
  <2>4. QED
    BY <1>1, <1>3, <2>3
<1>4. 0 \in S
  <2> SUFFICES ASSUME NEW a \in 0 .. Len(p), j - a = 0 \/ j - a = 0 + 1, Skips(p, a, {"%"}, j) PROVE Claim(a)
    OBVIOUS
  <2>1. j = a \/ j = a + 1
    BY <1>1
  <2> HIDE DEF Claim
  <2>2. QED
    BY <1>2, <1>3, <2>1
<1>5. ASSUME NEW m \in Nat, m \in S PROVE m + 1 \in S
  <2> SUFFICES ASSUME NEW a \in 0 .. Len(p), j - a = m + 1 \/ j - a = (m + 1) + 1, Skips(p, a, {"%"}, j)
               PROVE  Claim(a)
    OBVIOUS
  <2>1. CASE j - a = m + 1
    BY <1>5, <2>1
  <2>2. CASE j - a = (m + 1) + 1
    <3>1. a + 2 \in 0 .. Len(p) /\ a + 1 < Len(p) /\ a \in a .. j - 1 /\ a + 1 \in a .. j - 1 /\ j - (a + 2) = m
      BY <1>1, <2>2
    <3>2. Skips(p, a + 2, {"%"}, j)
      BY <1>1, <3>1 DEF Skips
    <3>3. TwoAt(p, a)
      <4>1. p[a + 1] = "%" /\ p[(a + 1) + 1] = "%" /\ a + 1 + 1 = a + 2
        BY <3>1 DEF Skips
      <4>2. QED
        BY <3>1, <4>1 DEF TwoAt
    <3> DEFINE ts == From(p, a + 2, 2)
    <3>4. ts \in Seq(Token) /\ From(p, a, 2) = Prefix("%", ts) /\ "%" \in Chars
      BY <1>1, <3>1, <3>3, FromType, FromCases DEF Chars
    <3>5. ts = Broken \/ Good(Lead(ts), a + 2)
      BY <1>5, <3>1, <3>2
    <3> HIDE DEF ts
    <3>6. CASE ts = Broken
      BY <3>4, <3>6, PrefixType
    <3>7. CASE ts # Broken
      <4> DEFINE s == Lead(ts)
                 s2 == Lead(Prefix("%", ts))
      <4>1. /\ s \in Seq(Chars) /\ Len(s2) = Len(s) + 1 /\ \A q \in 1 .. Len(s) : s2[q + 1] = s[q]
        BY <3>4, <3>7, LeadPrefix
      <4>2. Good(s, a + 2)
        BY <3>5, <3>7
      <4> HIDE DEF s, s2
      <4>3. ~Percents(s) => ~Percents(s2)
        <5> SUFFICES ASSUME NEW q \in 1 .. Len(s), s[q] # "%" PROVE ~Percents(s2)
          BY DEF Percents
        <5>1. q + 1 \in 1 .. Len(s2) /\ s2[q + 1] # "%"
          BY <4>1
        <5>2. QED
          BY <5>1 DEF Percents
      <4>4. 2 * Len(s) < j - (a + 2) => 2 * Len(s2) < j - a
        BY <1>1, <4>1
      <4>5. QED
        BY <3>4, <4>2, <4>3, <4>4 DEF s2
    <3>8. QED
      BY <3>6, <3>7
  <2>3. QED
    BY <2>1, <2>2
<1> HIDE DEF S
<1>6. j - k \in S
  BY <1>1, <1>4, <1>5, SetInduction
<1>7. QED
  BY <1>6 DEF S

\* So they differ.
LEMMA Part ==
  ASSUME NEW p \in Seq(Chars), NEW k \in 0 .. Len(p), TwoAt(p, k)
  PROVE  LET a == From(p, k, 1)
             b == From(p, k, 2)
         IN a = Broken \/ b = Broken \/ Lead(a) # Lead(b)
<1> DEFINE j == Skip(p, k, {"%"})
           a == From(p, k, 1)
           b == From(p, k, 2)
<1>1. Skips(p, k, {"%"}, j)
  BY SkipIs
<1> HIDE DEF j
<1>2. Len(p) \in Nat /\ j \in k .. Len(p)
  BY <1>1 DEF Skips
<1>3. j # k /\ j # k + 1
  <2>1. k + 1 + 1 = k + 2
    OBVIOUS
  <2>2. QED
    BY <1>1, <1>2, <2>1 DEF Skips, TwoAt
<1>4. a = Broken \/ (j # Len(p) /\ Percents(Lead(a)) /\ Len(Lead(a)) = j - k - 1)
  BY <1>1, <1>3, OneByOne
<1>5. j # Len(p) => b = Broken \/ ~Percents(Lead(b)) \/ 2 * Len(Lead(b)) < j - k
  BY <1>1, TwoByTwo
<1>6. ~ (2 * (j - k - 1) < j - k)
  BY <1>2, <1>3
<1>7. QED
  BY <1>4, <1>5, <1>6

\* Equal lists with an equal front have an equal rest.
LEMMA Cancel ==
  ASSUME NEW S, NEW s \in Seq(S), NEW a \in Seq(S), NEW b \in Seq(S), s \o a = s \o b
  PROVE  a = b
<1>1. /\ Len(s \o a) = Len(s) + Len(a) /\ Len(s \o b) = Len(s) + Len(b)
      /\ \A q \in 1 .. Len(s) + Len(a) : (s \o a)[q] = IF q <= Len(s) THEN s[q] ELSE a[q - Len(s)]
      /\ \A q \in 1 .. Len(s) + Len(b) : (s \o b)[q] = IF q <= Len(s) THEN s[q] ELSE b[q - Len(s)]
  BY ConcatProperties
<1>2. Len(s) \in Nat /\ Len(a) \in Nat /\ Len(b) \in Nat
  OBVIOUS
<1>3. Len(a) = Len(b)
  BY <1>1, <1>2
<1>4. ASSUME NEW q \in 1 .. Len(a) PROVE a[q] = b[q]
  <2>1. Len(s) + q \in 1 .. Len(s) + Len(a) /\ ~ (Len(s) + q <= Len(s)) /\ (Len(s) + q) - Len(s) = q
    BY <1>2
  <2>2. (s \o a)[Len(s) + q] = a[q] /\ (s \o b)[Len(s) + q] = b[q]
    BY <1>1, <1>3, <2>1
  <2>3. QED
    BY <2>2
<1>5. QED
  BY <1>3, <1>4, SeqEqual

\* The grammar of the model is the reading two by two.
LEMMA TokensIs == ASSUME m_pattern \in Seq(Chars) PROVE Tokens = Reading(2)
<1> DEFINE L == Len(m_pattern)
           Next1(T) == [k \in 0 .. L |-> TokensFrom(m_pattern, k, T)]
           Next2(T) == [k \in 0 .. L |-> Reads(m_pattern, k, 2, T)]
<1>1. L \in Nat
  OBVIOUS
<1>2. ASSUME NEW T, NEW k \in 0 .. L PROVE Reads(m_pattern, k, 2, T) = TokensFrom(m_pattern, k, T)
  <2>1. CASE TwoAt(m_pattern, k)
    <3>1. k # L
      BY <1>1, <2>1 DEF TwoAt
    <3>2. TokensFrom(m_pattern, k, T) = Prefix("%", T[k + 2])
      BY <2>1, <3>1 DEF TokensFrom, TwoAt
    <3>3. QED
      BY <2>1, <3>2 DEF Reads
  <2>2. CASE ~TwoAt(m_pattern, k)
    BY <2>2 DEF Reads
  <2>3. QED
    BY <2>1, <2>2
<1>3. \A T : Next1(T) = Next2(T)
  BY <1>2
<1>4. Tokens = (CHOOSE T : T = Next1(T))[0]
  BY DEF Tokens, size
<1>5. Reading(2) = (CHOOSE T : T = Next2(T))[0]
  BY DEF Reading, From
<1> HIDE DEF Next1, Next2
<1>6. (CHOOSE T : T = Next1(T)) = (CHOOSE T : T = Next2(T))
  BY <1>3
<1>7. QED
  BY <1>4, <1>5, <1>6

------------------------------------------------------------------------------
(***************************************************************************)
(* The invariant.                                                          *)
(***************************************************************************)
\* Every pattern has a length.
LEMMA PatternLength == Init => m_pattern \in Seq(Chars) /\ size \in Nat
<1> SUFFICES ASSUME Init PROVE m_pattern \in Seq(Chars) /\ size \in Nat
    OBVIOUS
<1>1. PICK k \in 0 .. MaxLen : m_pattern \in [1 .. k -> Chars]
  BY DEF Init, Patterns
<1>2. k \in Nat
  BY LogFormatterAssumption
<1>3. Len(m_pattern) = k /\ m_pattern \in Seq(Chars)
  BY <1>1, <1>2
<1>4. QED
  BY <1>2, <1>3 DEF size

LEMMA InitInv == Init => IInv
<1> SUFFICES ASSUME Init PROVE IInv
    OBVIOUS
<1>1. m_pattern \in Seq(Chars) /\ size \in Nat
  BY PatternLength
<1>2. BoundInv /\ ItemInv /\ PushInv /\ ForkInv
  BY <1>1 DEF Init, BoundInv, InBounds, ItemInv, PushInv, ForkInv
<1>3. TypeInv
  BY <1>1, EmptySeq DEF Init, TypeInv
<1>4. ASSUME NEW step \in Steps PROVE Follows(step)
  <2> DEFINE all == From(m_pattern, 0, step)
  <2>1. all \in Seq(Token)
    BY <1>1, FromType DEF size
  <2> HIDE DEF all
  <2>2. << >> \o all = all /\ Text(<< >>, all) = all
    BY <2>1, ConcatEmptySeq DEF Text
  <2>3. ~Unknown(<< >>) /\ \A k \in DOMAIN << >> : FALSE
    BY DEF Unknown
  <2>4. vec = << >> /\ nstr = << >> /\ i = 0 /\ ~m_error
    BY DEF Init
  <2>5. Reading(step) = all /\ From(m_pattern, i, step) = all
    BY <2>4 DEF Reading, all
  <2> HIDE DEF Init
  <2>6. QED
    BY <2>2, <2>3, <2>4, <2>5 DEF Follows, Whole
<1>5. ParseInv
  BY <1>4 DEF Init, ParseInv, Ways
<1>6. QED
  BY <1>2, <1>3, <1>5 DEF IInv

\* Every iteration of the loops stays inside the pattern.
LEMMA BoundStep == BoundInv /\ [Next]_vars => BoundInv'
<1> SUFFICES ASSUME BoundInv, [Next]_vars
             PROVE  BoundInv'
    OBVIOUS
<1> USE DEF BoundInv, InBounds, size, At
<1>1. CASE literal
  BY <1>1 DEF literal
<1>2. CASE percent
  BY <1>2 DEF percent, Doubled
<1>3. CASE directive
  BY <1>3 DEF directive, Doubled
<1>4. CASE itemEnd
  BY <1>4 DEF itemEnd
<1>5. CASE itemOpen
  BY <1>5 DEF itemOpen
<1>6. CASE itemClose
  BY <1>6 DEF itemClose
<1>7. CASE itemNext
  BY <1>7 DEF itemNext
<1>8. CASE itemStop
  BY <1>8 DEF itemStop
<1>9. CASE push
  BY <1>9 DEF push
<1>10. CASE pushError
  BY <1>10 DEF pushError
<1>11. CASE finish
  BY <1>11 DEF finish
<1>12. CASE UNCHANGED vars
  BY <1>12 DEF vars
<1>13. QED
  BY <1>1, <1>2, <1>3, <1>4, <1>5, <1>6, <1>7, <1>8, <1>9, <1>10, <1>11, <1>12 DEF Next

LEMMA FromHere ==
  ASSUME IInv, NEW k \in 0 .. size, NEW step \in Steps
  PROVE  From(m_pattern, k, step) \in Seq(Token) /\ m_pattern \in Seq(Chars) /\ size = Len(m_pattern)
BY FromType DEF IInv, TypeInv, size

LEMMA ReadingSame == ASSUME m_pattern' = m_pattern PROVE \A step : Reading(step)' = Reading(step)
BY DEF Reading

LEMMA WaysType == Ways \subseteq Steps /\ Steps \subseteq Nat
BY DEF Ways, Steps

\* What is left of the pattern still follows, when the whole stays the same.
LEMMA FollowsOn ==
  ASSUME NEW step, Follows(step), m_pattern' = m_pattern, m_error' = m_error,
         (\A k \in DOMAIN vec : vec[k].type # 2) => \A k \in DOMAIN vec' : vec'[k].type # 2,
         Whole(vec, nstr, From(m_pattern, i, step)) = Whole(vec', nstr', From(m_pattern, i', step))
  PROVE  Follows(step)'
<1> DEFINE W == Whole(vec, nstr, From(m_pattern, i, step))
           W2 == Whole(vec', nstr', From(m_pattern', i', step))
<1>1. W = W2 /\ Reading(step)' = Reading(step)
  BY ReadingSame
<1>2. IF m_error THEN Reading(step) = Broken
      ELSE (\A k \in DOMAIN vec : vec[k].type # 2) /\ Reading(step) = W
  BY DEF Follows
<1> HIDE DEF W, W2
<1>3. IF m_error' THEN Reading(step)' = Broken
      ELSE (\A k \in DOMAIN vec' : vec'[k].type # 2) /\ Reading(step)' = W2
  BY <1>1, <1>2
<1>4. QED
  BY <1>3 DEF Follows, W2

\* One more character of literal text.
LEMMA TextStep ==
  ASSUME IInv, BoundInv', pc = "scan", pc' = "scan", i < size, i' = i + 1,
         NEW c \in Chars, nstr' = Append(nstr, c),
         \A step \in Ways' : From(m_pattern, i, step) = Prefix(c, From(m_pattern, i + 1, step)),
         Ways' \subseteq Ways, doubled' \in BOOLEAN, ForkInv',
         UNCHANGED <<m_pattern, str, fmt, vec, m_error>>
  PROVE  IInv'
<1>1. i + 1 \in 0 .. size
  BY DEF IInv, BoundInv, InBounds
<1>2. TypeInv'
  BY DEF IInv, TypeInv
<1>3. ItemInv' /\ PushInv'
  BY DEF ItemInv, PushInv
<1>4. ASSUME NEW step \in Ways' PROVE Follows(step)'
  <2>1. step \in Ways /\ step \in Steps
    BY <1>4, WaysType
  <2>2. From(m_pattern, i + 1, step) \in Seq(Token)
    BY <1>1, <2>1, FromHere
  <2>3. Whole(vec, nstr, From(m_pattern, i, step)) = Whole(vec, nstr', From(m_pattern, i', step))
    BY <1>4, <2>2, WholePrefix DEF IInv, TypeInv
  <2>4. Follows(step)
    BY <2>1 DEF IInv, ParseInv
  <2>5. QED
    BY <2>3, <2>4, FollowsOn
<1>5. ParseInv'
  <2>1. \A step \in Ways' : Follows(step)'
    BY <1>4
  <2>2. pc' # "done"
    OBVIOUS
  <2>3. QED
    BY <2>1, <2>2 DEF ParseInv
<1>6. QED
  BY <1>2, <1>3, <1>5 DEF IInv

LEMMA LiteralStep ==
  ASSUME IInv, BoundInv', literal
  PROVE  IInv'
<1>1. i \in 0 .. size /\ i # size /\ i < size
  BY DEF literal, IInv, BoundInv, InBounds
<1>2. m_pattern \in Seq(Chars) /\ size = Len(m_pattern)
  BY DEF IInv, TypeInv, size
<1>3. At(i) = m_pattern[i + 1] /\ i + 1 \in 1 .. Len(m_pattern)
  BY <1>1, <1>2 DEF At
<1>4. At(i) \in Chars
  BY <1>2, <1>3, ElementOfSeq
<1>5. \A step \in Steps : From(m_pattern, i, step) = Prefix(At(i), From(m_pattern, i + 1, step))
  BY <1>1, <1>2, <1>3, FromCases DEF literal
<1>6. doubled' = doubled /\ m_pattern' = m_pattern /\ doubled \in BOOLEAN
  BY DEF literal, IInv, TypeInv
<1>7. Ways' = Ways /\ ForkInv'
  BY <1>6, ReadingSame DEF Ways, ForkInv, IInv
<1>8. QED
  BY <1>1, <1>4, <1>5, <1>6, <1>7, WaysType, TextStep DEF literal

\* At the first doubled "%" the readings part, and with them those of the whole.
LEMMA PartHere ==
  ASSUME IInv, pc = "scan", i \in 0 .. size, TwoAt(m_pattern, i)
  PROVE  Differ(Reading(1), Reading(2))
<1> DEFINE a == From(m_pattern, i, 1)
           b == From(m_pattern, i, 2)
           ta == Text(nstr, a)
           tb == Text(nstr, b)
<1>1. CASE doubled
  BY <1>1 DEF IInv, ForkInv
<1>2. CASE ~doubled
  <2>1. Follows(1) /\ Follows(2)
    BY <1>2 DEF IInv, ParseInv, Ways, Steps
  <2>2. m_pattern \in Seq(Chars) /\ size = Len(m_pattern) /\ nstr \in Seq(Chars) /\ vec \in Seq(Token)
    BY DEF IInv, TypeInv, size
  <2>3. a \in Seq(Token) /\ b \in Seq(Token)
    BY FromHere DEF Steps
  <2>4. a = Broken \/ b = Broken \/ Lead(a) # Lead(b)
    BY <2>2, Part
  <2>5. m_error \/ (Reading(1) = Whole(vec, nstr, a) /\ Reading(2) = Whole(vec, nstr, b))
    BY <2>1 DEF Follows
  <2> HIDE DEF a, b
  <2>6. CASE m_error
    BY <2>1, <2>6 DEF Follows, Differ
  <2>7. CASE ~m_error /\ (a = Broken \/ b = Broken \/ Unknown(vec))
    BY <2>5, <2>7 DEF Whole, Differ
  <2>8. CASE ~m_error /\ a # Broken /\ b # Broken /\ ~Unknown(vec)
    <3>1. Reading(1) = vec \o ta /\ Reading(2) = vec \o tb
      BY <2>5, <2>8 DEF Whole
    <3>2. /\ ta \in Seq(Token) /\ Lead(ta) = nstr \o Lead(a) /\ Lead(a) \in Seq(Chars)
          /\ tb \in Seq(Token) /\ Lead(tb) = nstr \o Lead(b) /\ Lead(b) \in Seq(Chars)
      BY <2>2, <2>3, TextType, LeadText
    <3> HIDE DEF ta, tb
    <3>3. ASSUME ta = tb PROVE FALSE
      <4>1. Lead(a) = Lead(b)
        BY <2>2, <3>2, <3>3, Cancel
      <4>2. QED
        BY <2>4, <2>8, <4>1
    <3>4. vec \o ta # vec \o tb
      BY <2>2, <3>2, <3>3, Cancel
    <3>5. QED
      BY <3>1, <3>4 DEF Differ
  <2>9. QED
    BY <2>6, <2>7, <2>8
<1>3. QED
  BY <1>1, <1>2

LEMMA PercentStep ==
  ASSUME IInv, BoundInv', percent
  PROVE  IInv'
<1>1. i \in 0 .. size /\ i # size /\ i < size /\ doubled' = TRUE /\ m_pattern' = m_pattern
  BY DEF percent, IInv, BoundInv, InBounds
<1>2. m_pattern \in Seq(Chars) /\ size = Len(m_pattern)
  BY <1>1 DEF IInv, TypeInv, size
<1>3. TwoAt(m_pattern, i)
  <2>1. i + 1 + 1 = i + 2
    BY <1>1, <1>2
  <2>2. QED
    BY <1>2, <2>1 DEF percent, Doubled, At, TwoAt
<1>4. Ways' = {1} /\ 1 \in Steps /\ 1 \in Ways
  BY <1>1 DEF Ways, Steps
<1>5. From(m_pattern, i, 1) = Prefix("%", From(m_pattern, i + 1, 1))
  BY <1>1, <1>2, <1>3, <1>4, FromCases
<1>6. "%" \in Chars
  BY DEF Chars
<1>7. Differ(Reading(1), Reading(2))
  BY <1>1, <1>3, PartHere DEF percent
<1>8. ForkInv'
  BY <1>1, <1>7, ReadingSame DEF ForkInv
<1>9. \A step \in Ways' : From(m_pattern, i, step) = Prefix("%", From(m_pattern, i + 1, step))
  BY <1>4, <1>5
<1>10. Ways' \subseteq Ways /\ doubled' \in BOOLEAN
  BY <1>1, <1>4
<1>11. QED
  BY <1>1, <1>6, <1>8, <1>9, <1>10, TextStep DEF percent

\* The inner loop, and the tests before and behind it, only make the item.
LEMMA InsideStep ==
  ASSUME IInv, BoundInv', ItemInv', PushInv', pc # "done", pc' # "done",
         str' \in Seq(Chars), fmt' \in Seq(Chars),
         UNCHANGED <<m_pattern, i, nstr, vec, m_error, doubled>>
  PROVE  IInv'
<1>1. TypeInv'
  BY DEF IInv, TypeInv
<1>2. Ways' = Ways /\ ForkInv'
  BY ReadingSame DEF Ways, ForkInv, IInv
<1>3. ASSUME NEW step \in Ways PROVE Follows(step)'
  BY <1>3, FollowsOn DEF IInv, ParseInv
<1>4. ParseInv'
  BY <1>2, <1>3 DEF ParseInv
<1>5. QED
  BY <1>1, <1>2, <1>4 DEF IInv

\* What the grammar says of the item at i: e ends its name, c its format.
FormatEnd == Skip(m_pattern, NameEnd + 1, Chars \ {"rbrace"})

LEMMA ItemGrammar ==
  ASSUME IInv, pc = "item"
  PROVE  /\ m_pattern \in Seq(Chars) /\ size = Len(m_pattern) /\ size \in Nat
         /\ i \in 0 .. size - 1 /\ n \in i + 1 .. size
         /\ \A step \in Steps : From(m_pattern, i, step) =
              IF NameEnd = size \/ m_pattern[NameEnd + 1] # "lbrace"
              THEN Front(SubSeq(m_pattern, i + 2, NameEnd), << >>, From(m_pattern, NameEnd, step))
              ELSE IF FormatEnd = size THEN Broken
              ELSE Front(SubSeq(m_pattern, i + 2, NameEnd), SubSeq(m_pattern, NameEnd + 2, FormatEnd),
                         From(m_pattern, FormatEnd + 1, step))
         /\ \A e : Skips(m_pattern, i + 1, Name, e) => e = NameEnd
         /\ NameEnd \in i + 1 .. size
         /\ NameEnd # size => \A c : Skips(m_pattern, NameEnd + 1, Chars \ {"rbrace"}, c) => c = FormatEnd
<1>1. m_pattern \in Seq(Chars) /\ size = Len(m_pattern) /\ size \in Nat
  BY DEF IInv, TypeInv, BoundInv, size
<1>2. i \in 0 .. size - 1 /\ n \in i + 1 .. size /\ m_pattern[i + 1] = "%"
  BY <1>1 DEF IInv, BoundInv, InBounds, At
<1>3. ~TwoAt(m_pattern, i)
  <2>1. i + 1 + 1 = i + 2
    BY <1>1, <1>2
  <2>2. QED
    BY <1>1, <2>1 DEF IInv, ItemInv, Doubled, At, TwoAt
<1>4. i \in 0 .. Len(m_pattern) /\ i # Len(m_pattern) /\ i + 1 \in 0 .. Len(m_pattern)
  BY <1>1, <1>2
<1>5. \A step \in Steps : From(m_pattern, i, step) =
        IF NameEnd = size \/ m_pattern[NameEnd + 1] # "lbrace"
        THEN Front(SubSeq(m_pattern, i + 2, NameEnd), << >>, From(m_pattern, NameEnd, step))
        ELSE IF FormatEnd = size THEN Broken
        ELSE Front(SubSeq(m_pattern, i + 2, NameEnd), SubSeq(m_pattern, NameEnd + 2, FormatEnd),
                   From(m_pattern, FormatEnd + 1, step))
  BY <1>1, <1>2, <1>3, <1>4, FromCases DEF NameEnd, FormatEnd
<1>6. \A e : Skips(m_pattern, i + 1, Name, e) => e = NameEnd
  BY <1>1, <1>4, SkipIs DEF NameEnd
<1>7. NameEnd \in i + 1 .. size
  BY <1>1, <1>4, SkipIs DEF NameEnd, Skips
<1>8. NameEnd # size => \A c : Skips(m_pattern, NameEnd + 1, Chars \ {"rbrace"}, c) => c = FormatEnd
  <2>1. NameEnd # size => NameEnd + 1 \in 0 .. Len(m_pattern)
    BY <1>1, <1>2, <1>7
  <2>2. QED
    BY <1>1, <2>1, SkipIs DEF FormatEnd
<1>9. QED
  BY <1>1, <1>2, <1>5, <1>6, <1>7, <1>8

LEMMA DirectiveStep ==
  ASSUME IInv, BoundInv', directive
  PROVE  IInv'
<1>1. << >> \in Seq(Chars)
  BY EmptySeq
<1>2. size \in Nat /\ i \in 0 .. size /\ i # size /\ m_pattern \in Seq(Chars) /\ size = Len(m_pattern)
  BY DEF directive, IInv, BoundInv, InBounds, TypeInv, size
<1>3. /\ pc = "scan" /\ pc' = "item" /\ ~Doubled /\ n' = i + 1 /\ fmt_status' = 0
      /\ str' = << >> /\ fmt' = << >> /\ UNCHANGED <<m_pattern, i, nstr, vec, m_error, doubled>>
  BY DEF directive
<1>4. ItemInv'
  <2>1. Doubled' = Doubled /\ size' = size
    BY <1>3 DEF Doubled, size, At
  <2>2. \A q \in i' + 1 .. n' - 1 : FALSE
    BY <1>2, <1>3
  <2>3. n' = size' => rest(i + 1)' = << >>
    <3>1. i + 1 = size => SubSeq(m_pattern, i + 1 + 1, size) = << >>
      BY <1>2, SubSeqEmpty
    <3>2. QED
      BY <1>3, <2>1, <3>1 DEF rest
  <2>4. QED
    BY <1>3, <2>1, <2>2, <2>3 DEF ItemInv
<1>5. PushInv'
  BY <1>3 DEF PushInv
<1>6. QED
  BY <1>1, <1>3, <1>4, <1>5, InsideStep

\* The name ends: at another character, or at a left brace.
LEMMA ItemEndStep ==
  ASSUME IInv, BoundInv', itemEnd
  PROVE  IInv'
<1>1. /\ pc = "item" /\ pc' = "push" /\ fmt_status = 0 /\ fmt_status' = 0 /\ n < size /\ n' = n
      /\ fmt' = fmt /\ UNCHANGED <<m_pattern, i, nstr, vec, m_error, doubled>>
      /\ str' = substr(i + 1, n - i - 1) /\ At(n) \notin Letters \cup {"lbrace", "rbrace"}
  BY DEF itemEnd
<1>2. /\ m_pattern \in Seq(Chars) /\ size = Len(m_pattern) /\ size \in Nat
      /\ i \in 0 .. size - 1 /\ n \in i + 1 .. size
  BY <1>1, ItemGrammar
<1>3. str' = SubSeq(m_pattern, i + 2, n)
  <2>1. i + 1 + 1 = i + 2 /\ i + 1 + (n - i - 1) = n
    BY <1>2
  <2>2. QED
    BY <1>1, <2>1 DEF substr
<1>4. \A q \in i + 1 .. n - 1 : m_pattern[q + 1] \in Name
  BY <1>1 DEF IInv, ItemInv, At
<1>5. n = NameEnd
  <2>1. Skips(m_pattern, i + 1, Name, n)
    BY <1>1, <1>2, <1>4 DEF Skips, Name, At
  <2>2. QED
    BY <1>1, <2>1, ItemGrammar
<1>6. \A step \in Steps : From(m_pattern, i, step) = Front(str', fmt', From(m_pattern, n, step))
  <2>1. m_pattern[NameEnd + 1] # "lbrace" /\ fmt = << >>
    BY <1>1, <1>5 DEF At, IInv, ItemInv
  <2>2. QED
    BY <1>1, <1>3, <1>5, <2>1, ItemGrammar
<1>7. ItemInv' /\ PushInv'
  BY <1>1, <1>6 DEF ItemInv, PushInv
<1>8. str' \in Seq(Chars) /\ fmt' \in Seq(Chars)
  <2>1. i + 2 \in Nat \ {0} /\ n \in 0 .. Len(m_pattern)
    BY <1>2
  <2>2. QED
    BY <1>1, <1>2, <1>3, <2>1, CutType DEF IInv, TypeInv
<1>9. QED
  BY <1>1, <1>7, <1>8, InsideStep

LEMMA ItemOpenStep ==
  ASSUME IInv, BoundInv', itemOpen
  PROVE  IInv'
<1>1. /\ pc = "item" /\ pc' = "item" /\ fmt_status = 0 /\ fmt_status' = 1 /\ n < size /\ n' = n + 1
      /\ fmt_begin' = n
      /\ fmt' = fmt /\ UNCHANGED <<m_pattern, i, nstr, vec, m_error, doubled>>
      /\ str' = substr(i + 1, n - i - 1) /\ At(n) = "lbrace"
  BY DEF itemOpen
<1>2. /\ m_pattern \in Seq(Chars) /\ size = Len(m_pattern) /\ size \in Nat
      /\ i \in 0 .. size - 1 /\ n \in i + 1 .. size
  BY <1>1, ItemGrammar
<1>3. str' = SubSeq(m_pattern, i + 2, n)
  <2>1. i + 1 + 1 = i + 2 /\ i + 1 + (n - i - 1) = n
    BY <1>2
  <2>2. QED
    BY <1>1, <2>1 DEF substr
<1>4. \A q \in i + 1 .. n - 1 : m_pattern[q + 1] \in Name
  BY <1>1 DEF IInv, ItemInv, At
<1>5. n = NameEnd
  <2>1. "lbrace" \notin Name
    BY LogFormatterAssumption DEF Name
  <2>2. Skips(m_pattern, i + 1, Name, n)
    BY <1>1, <1>2, <1>4, <2>1 DEF Skips, At
  <2>3. QED
    BY <1>1, <2>2, ItemGrammar
<1>6. ItemInv'
  <2>1. NameEnd' = NameEnd /\ Doubled' = Doubled /\ At(fmt_begin)' = At(n)
    BY <1>1 DEF NameEnd, Doubled, size, At
  <2>2. \A q \in fmt_begin' + 1 .. n' - 1 : FALSE
    BY <1>1, <1>2
  <2>3. ~Doubled /\ fmt = << >>
    BY <1>1 DEF IInv, ItemInv
  <2>4. QED
    BY <1>1, <1>3, <1>5, <2>1, <2>2, <2>3 DEF ItemInv
<1>7. PushInv'
  BY <1>1 DEF PushInv
<1>8. str' \in Seq(Chars) /\ fmt' \in Seq(Chars)
  <2>1. i + 2 \in Nat \ {0} /\ n \in 0 .. Len(m_pattern)
    BY <1>2
  <2>2. QED
    BY <1>1, <1>2, <1>3, <2>1, CutType DEF IInv, TypeInv
<1>9. QED
  BY <1>1, <1>6, <1>7, <1>8, InsideStep

\* The format is closed.
LEMMA ItemCloseStep ==
  ASSUME IInv, BoundInv', itemClose
  PROVE  IInv'
<1>1. /\ pc = "item" /\ pc' = "push" /\ fmt_status = 1 /\ fmt_status' = 0 /\ n < size /\ n' = n + 1
      /\ str' = str /\ UNCHANGED <<m_pattern, i, nstr, vec, m_error, doubled>>
      /\ fmt' = substr(fmt_begin + 1, n - fmt_begin - 1) /\ At(n) = "rbrace"
  BY DEF itemClose
<1>2. /\ m_pattern \in Seq(Chars) /\ size = Len(m_pattern) /\ size \in Nat
      /\ i \in 0 .. size - 1 /\ n \in i + 1 .. size /\ NameEnd \in i + 1 .. size
  BY <1>1, ItemGrammar
<1>3. /\ fmt_begin = NameEnd /\ m_pattern[NameEnd + 1] = "lbrace" /\ NameEnd < n
      /\ \A q \in NameEnd + 1 .. n - 1 : m_pattern[q + 1] # "rbrace"
      /\ str = SubSeq(m_pattern, i + 2, NameEnd)
  BY <1>1 DEF IInv, ItemInv, BoundInv, InBounds, At
<1>4. fmt' = SubSeq(m_pattern, NameEnd + 2, n)
  <2>1. NameEnd + 1 + 1 = NameEnd + 2 /\ NameEnd + 1 + (n - NameEnd - 1) = n
    BY <1>2
  <2>2. QED
    BY <1>1, <1>3, <2>1 DEF substr
<1>5. n = FormatEnd /\ NameEnd # size
  <2>1. \A q \in NameEnd + 1 .. n - 1 : m_pattern[q + 1] \in Chars \ {"rbrace"}
    <3> TAKE q \in NameEnd + 1 .. n - 1
    <3>1. q + 1 \in 1 .. Len(m_pattern)
      BY <1>1, <1>2
    <3>2. QED
      BY <1>2, <1>3, <3>1, ElementOfSeq
  <2>2. Skips(m_pattern, NameEnd + 1, Chars \ {"rbrace"}, n)
    BY <1>1, <1>2, <1>3, <2>1 DEF Skips, At
  <2>3. NameEnd # size
    BY <1>1, <1>2, <1>3
  <2>4. QED
    BY <1>1, <2>2, <2>3, ItemGrammar
<1>6. \A step \in Steps : From(m_pattern, i, step) = Front(str', fmt', From(m_pattern, n + 1, step))
  <2>1. FormatEnd # size
    BY <1>1, <1>2, <1>5
  <2>2. QED
    BY <1>1, <1>3, <1>4, <1>5, <2>1, ItemGrammar
<1>7. ItemInv' /\ PushInv'
  BY <1>1, <1>6 DEF ItemInv, PushInv
<1>8. str' \in Seq(Chars) /\ fmt' \in Seq(Chars)
  <2>1. NameEnd + 2 \in Nat \ {0} /\ n \in 0 .. Len(m_pattern)
    BY <1>2
  <2>2. QED
    BY <1>1, <1>2, <1>4, <2>1, CutType DEF IInv, TypeInv
<1>9. QED
  BY <1>1, <1>7, <1>8, InsideStep

LEMMA ItemNextStep ==
  ASSUME IInv, BoundInv', itemNext
  PROVE  IInv'
<1>1. /\ pc = "item" /\ pc' = "item" /\ n < size /\ n' = n + 1
      /\ \/ fmt_status = 0 /\ At(n) \in Letters \cup {"rbrace"}
         \/ fmt_status = 1 /\ At(n) # "rbrace"
      /\ str' = IF n' = size /\ str = << >> THEN rest(i + 1) ELSE str
      /\ fmt' = fmt /\ UNCHANGED <<m_pattern, i, fmt_status, fmt_begin, nstr, vec, m_error, doubled>>
  BY DEF itemNext
<1>2. /\ m_pattern \in Seq(Chars) /\ size = Len(m_pattern) /\ size \in Nat
      /\ i \in 0 .. size - 1 /\ n \in i + 1 .. size
  BY <1>1, ItemGrammar
<1>3. rest(i + 1) \in Seq(Chars)
  <2>1. i + 1 + 1 \in Nat \ {0} /\ size \in 0 .. Len(m_pattern)
    BY <1>2
  <2>2. QED
    BY <1>2, <2>1, CutType DEF rest
<1>4. str' \in Seq(Chars) /\ fmt' \in Seq(Chars)
  BY <1>1, <1>3 DEF IInv, TypeInv
<1>5. ItemInv'
  <2>1. /\ NameEnd' = NameEnd /\ Doubled' = Doubled /\ size' = size /\ rest(i + 1)' = rest(i + 1)
        /\ \A q : At(q)' = At(q)
    BY <1>1 DEF NameEnd, Doubled, size, At, rest
  <2>2. ~Doubled /\ fmt = << >> /\ n # size
    BY <1>1, <1>2 DEF IInv, ItemInv
  <2>3. CASE fmt_status = 0
    <3>1. \A q \in i + 1 .. n - 1 : At(q) \in Name
      BY <1>1, <2>3 DEF IInv, ItemInv
    <3>2. \A q \in i + 1 .. (n + 1) - 1 : q \in i + 1 .. n - 1 \/ q = n
      BY <1>2
    <3>3. At(n) \in Name
      BY <1>1, <2>3 DEF Name
    <3>4. \A q \in i + 1 .. n' - 1 : At(q) \in Name
      BY <1>1, <3>1, <3>2, <3>3
    <3>5. str = << >>
      BY <1>1, <2>2, <2>3 DEF IInv, ItemInv
    <3>6. str' = IF n' = size THEN rest(i + 1) ELSE << >>
      BY <1>1, <3>5
    <3>7. (\A q \in i + 1 .. n - 1 : At(q) \in Name)'
      BY <1>1, <2>1, <3>4
    <3>8. str' = IF n' = size' THEN rest(i + 1)' ELSE << >>
      BY <2>1, <3>6
    <3>9. QED
      BY <1>1, <2>1, <2>2, <2>3, <3>7, <3>8 DEF ItemInv
  <2>4. CASE fmt_status = 1
    <3>1. /\ fmt_begin = NameEnd /\ At(fmt_begin) = "lbrace" /\ fmt_begin \in Nat
          /\ \A q \in fmt_begin + 1 .. n - 1 : At(q) # "rbrace"
          /\ str = SubSeq(m_pattern, i + 2, fmt_begin)
      BY <1>1, <2>4 DEF IInv, ItemInv, BoundInv
    <3>2. \A q \in fmt_begin + 1 .. (n + 1) - 1 : q \in fmt_begin + 1 .. n - 1 \/ q = n
      BY <1>2, <3>1
    <3>3. \A q \in fmt_begin + 1 .. n' - 1 : At(q) # "rbrace"
      BY <1>1, <2>4, <3>1, <3>2
    <3>4. n' < size => str' = SubSeq(m_pattern, i + 2, fmt_begin)
      BY <1>1, <1>2, <3>1
    <3>5. (\A q \in fmt_begin + 1 .. n - 1 : At(q) # "rbrace")'
      BY <1>1, <2>1, <3>3
    <3>6. fmt_begin' = NameEnd' /\ At(fmt_begin)' = "lbrace"
      BY <1>1, <2>1, <3>1
    <3>7. n' < size' => str' = SubSeq(m_pattern, i + 2, fmt_begin)'
      BY <1>1, <2>1, <3>4
    <3>8. fmt_status' # 0 /\ ~Doubled' /\ fmt' = << >>
      BY <1>1, <2>1, <2>2, <2>4
    <3>9. QED
      BY <3>5, <3>6, <3>7, <3>8 DEF ItemInv
  <2>5. QED
    BY <1>1, <2>3, <2>4
<1>6. PushInv'
  BY <1>1 DEF PushInv
<1>7. QED
  BY <1>1, <1>4, <1>5, <1>6, InsideStep

\* The pattern ends: the rest is the name, or the format was not closed.
LEMMA ItemStopStep ==
  ASSUME IInv, BoundInv', itemStop
  PROVE  IInv'
<1>1. /\ pc = "item" /\ pc' = "push" /\ n >= size
      /\ UNCHANGED <<m_pattern, i, n, fmt_status, fmt_begin, str, fmt, nstr, vec, m_error, doubled>>
  BY DEF itemStop
<1>2. /\ m_pattern \in Seq(Chars) /\ size = Len(m_pattern) /\ size \in Nat
      /\ i \in 0 .. size - 1 /\ n \in i + 1 .. size /\ NameEnd \in i + 1 .. size
  BY <1>1, ItemGrammar
<1>3. n = size
  BY <1>1, <1>2
<1>4. CASE fmt_status = 0
  <2>1. \A q \in i + 1 .. size - 1 : m_pattern[q + 1] \in Name
    BY <1>1, <1>3, <1>4 DEF IInv, ItemInv, At
  <2>2. Skips(m_pattern, i + 1, Name, size)
    BY <1>2, <2>1 DEF Skips
  <2>3. NameEnd = size
    BY <1>1, <2>2, ItemGrammar
  <2>4. str = SubSeq(m_pattern, i + 2, size) /\ fmt = << >>
    <3>1. i + 1 + 1 = i + 2
      BY <1>2
    <3>2. QED
      BY <1>1, <1>3, <1>4, <3>1 DEF IInv, ItemInv, rest
  <2>5. \A step \in Steps : From(m_pattern, i, step) = Front(str, fmt, From(m_pattern, n, step))
    BY <1>1, <1>3, <2>3, <2>4, ItemGrammar
  <2>6. PushInv'
    BY <1>1, <1>4, <2>5 DEF PushInv
  <2>7. QED
    BY <1>1, <2>6, InsideStep DEF ItemInv, IInv, TypeInv
<1>5. CASE fmt_status = 1
  <2>1. /\ fmt_begin = NameEnd /\ m_pattern[NameEnd + 1] = "lbrace" /\ NameEnd < n
        /\ \A q \in NameEnd + 1 .. size - 1 : m_pattern[q + 1] # "rbrace"
    BY <1>1, <1>3, <1>5 DEF IInv, ItemInv, BoundInv, InBounds, At
  <2>2. \A q \in NameEnd + 1 .. size - 1 : m_pattern[q + 1] \in Chars \ {"rbrace"}
    <3> TAKE q \in NameEnd + 1 .. size - 1
    <3>1. q + 1 \in 1 .. Len(m_pattern)
      BY <1>2
    <3>2. QED
      BY <1>2, <2>1, <3>1, ElementOfSeq
  <2>3. Skips(m_pattern, NameEnd + 1, Chars \ {"rbrace"}, size)
    BY <1>2, <1>3, <2>1, <2>2 DEF Skips
  <2>4. NameEnd # size
    BY <1>2, <1>3, <2>1
  <2>5. FormatEnd = size
    BY <1>1, <2>3, <2>4, ItemGrammar
  <2>6. \A step \in Steps : From(m_pattern, i, step) = Broken
    BY <1>1, <2>1, <2>4, <2>5, ItemGrammar
  <2>7. PushInv'
    BY <1>1, <1>5, <2>6 DEF PushInv
  <2>8. QED
    BY <1>1, <2>7, InsideStep DEF ItemInv, IInv, TypeInv
<1>6. QED
  BY <1>4, <1>5 DEF IInv, BoundInv

LEMMA PushStep ==
  ASSUME IInv, BoundInv', push
  PROVE  IInv'
<1> DEFINE list2 == Pushed(vec, nstr, str, fmt)
<1>1. /\ pc = "push" /\ pc' = "scan" /\ fmt_status = 0 /\ vec' = list2 /\ nstr' = << >> /\ i' = n
      /\ UNCHANGED <<m_pattern, n, fmt_status, fmt_begin, str, fmt, m_error, doubled>>
  BY DEF push, Flushed, FlushedOf, Pushed
<1>2. vec \in Seq(Token) /\ nstr \in Seq(Chars) /\ str \in Seq(Chars) /\ fmt \in Seq(Chars)
  BY DEF IInv, TypeInv
<1>3. /\ list2 \in Seq(Token)
      /\ (\A k \in DOMAIN vec : vec[k].type # 2) => \A k \in DOMAIN list2 : list2[k].type # 2
  <2>1. Broken \in Seq(Token)
    BY BrokenType
  <2>2. QED
    BY <1>2, <2>1, WholeFront
<1>4. ASSUME NEW step \in Steps
      PROVE  Whole(vec, nstr, From(m_pattern, i, step)) = Whole(list2, << >>, From(m_pattern, n, step))
  <2>1. From(m_pattern, n, step) \in Seq(Token)
    BY <1>1, FromHere DEF IInv, BoundInv, InBounds
  <2>2. From(m_pattern, i, step) = Front(str, fmt, From(m_pattern, n, step))
    BY <1>1 DEF IInv, PushInv
  <2>3. QED
    BY <1>2, <2>1, <2>2, WholeFront
<1> HIDE DEF list2
<1>5. TypeInv'
  BY <1>1, <1>2, <1>3, EmptySeq DEF IInv, TypeInv
<1>6. ItemInv' /\ PushInv'
  BY <1>1 DEF ItemInv, PushInv
<1>7. Ways' = Ways /\ ForkInv'
  BY <1>1, ReadingSame DEF Ways, ForkInv, IInv
<1>8. ASSUME NEW step \in Ways PROVE Follows(step)'
  <2>1. Follows(step)
    BY <1>1 DEF IInv, ParseInv
  <2>2. Whole(vec, nstr, From(m_pattern, i, step)) = Whole(vec', nstr', From(m_pattern, i', step))
    BY <1>1, <1>4, WaysType
  <2>3. QED
    BY <1>1, <1>3, <2>1, <2>2, FollowsOn
<1>9. ParseInv'
  BY <1>1, <1>7, <1>8 DEF ParseInv
<1>10. QED
  BY <1>5, <1>6, <1>7, <1>9 DEF IInv

LEMMA PushErrorStep ==
  ASSUME IInv, BoundInv', pushError
  PROVE  IInv'
<1>1. /\ pc = "push" /\ pc' = "scan" /\ fmt_status = 1 /\ m_error' = TRUE /\ vec' = Append(vec, PatternError)
      /\ UNCHANGED <<m_pattern, n, fmt_status, fmt_begin, str, fmt, nstr, doubled>>
  BY DEF pushError
<1>2. PatternError \in Token
  BY EmptySeq DEF PatternError, Token
<1>3. vec' \in Seq(Token)
  BY <1>1, <1>2 DEF IInv, TypeInv
<1>4. TypeInv'
  BY <1>1, <1>3 DEF IInv, TypeInv
<1>5. ItemInv' /\ PushInv'
  BY <1>1 DEF ItemInv, PushInv
<1>6. Ways' = Ways /\ ForkInv'
  BY <1>1, ReadingSame DEF Ways, ForkInv, IInv
<1>7. ASSUME NEW step \in Ways PROVE Follows(step)'
  <2>1. From(m_pattern, i, step) = Broken
    BY <1>1, WaysType DEF IInv, PushInv
  <2>2. Follows(step)
    BY <1>1 DEF IInv, ParseInv
  <2>3. Reading(step) = Broken
    BY <2>1, <2>2 DEF Follows, Whole
  <2>4. Reading(step)' = Broken'
    BY <1>1, <2>3, ReadingSame DEF Broken, PatternError
  <2>5. QED
    BY <1>1, <2>4 DEF Follows
<1>8. ParseInv'
  BY <1>1, <1>6, <1>7 DEF ParseInv
<1>9. QED
  BY <1>4, <1>5, <1>6, <1>8 DEF IInv

\* The end: what is left has no tokens, and an item that s_format_items does not know is
\* an error.
LEMMA FinishStep ==
  ASSUME IInv, BoundInv', finish
  PROVE  IInv'
<1> DEFINE fl == FlushedOf(vec, nstr)
<1>1. /\ pc = "scan" /\ pc' = "done" /\ i >= size /\ vec' = fl
      /\ UNCHANGED <<m_pattern, i, n, fmt_status, fmt_begin, str, fmt, nstr, doubled>>
  BY DEF finish, Flushed, FlushedOf
<1>2. m_error' = (m_error \/ Unknown(fl))
  BY <1>1 DEF finish, Unknown
<1>3. vec \in Seq(Token) /\ nstr \in Seq(Chars) /\ m_error \in BOOLEAN
  BY DEF IInv, TypeInv
<1>4. /\ fl \in Seq(Token) /\ (Unknown(fl) <=> Unknown(vec))
      /\ (\A k \in DOMAIN vec : vec[k].type # 2) => \A k \in DOMAIN fl : fl[k].type # 2
      /\ fl = vec \o Text(nstr, << >>)
  BY <1>3, FlushedType
<1> HIDE DEF fl
<1>5. TypeInv'
  BY <1>1, <1>2, <1>3, <1>4 DEF IInv, TypeInv
<1>6. ItemInv' /\ PushInv'
  BY <1>1 DEF ItemInv, PushInv
<1>7. Ways' = Ways /\ ForkInv'
  BY <1>1, ReadingSame DEF Ways, ForkInv, IInv
<1>8. ASSUME NEW step \in Ways PROVE Found(step)'
  <2>1. From(m_pattern, i, step) = << >>
    <3>1. i = size /\ size = Len(m_pattern) /\ m_pattern \in Seq(Chars) /\ i \in 0 .. Len(m_pattern)
      BY <1>1 DEF IInv, BoundInv, InBounds, TypeInv, size
    <3>2. QED
      BY <3>1, FromCases, WaysType
  <2>2. << >> # Broken
    BY BrokenType
  <2>3. Follows(step)
    BY <1>1 DEF IInv, ParseInv
  <2>4. ~m_error => Reading(step) = IF Unknown(fl) THEN Broken ELSE fl
    BY <1>1, <1>4, <2>1, <2>2, <2>3 DEF Follows, Whole
  <2>5. ~m_error => fl # Broken
    <3>1. ~m_error => \A k \in DOMAIN fl : fl[k].type # 2
      BY <1>4, <2>3 DEF Follows
    <3>2. 1 \in DOMAIN Broken /\ Broken[1].type = 2
      BY BrokenType DEF Broken
    <3>3. QED
      BY <3>1, <3>2
  <2>6. m_error => Reading(step) = Broken
    BY <2>3 DEF Follows
  <2>7. /\ m_error' <=> Reading(step) = Broken
        /\ ~m_error' => vec' = Reading(step)
    BY <1>1, <1>2, <2>4, <2>5, <2>6
  <2>8. Reading(step)' = Reading(step)
    BY <1>1, ReadingSame
  <2>9. QED
    BY <2>7, <2>8 DEF Found
<1>9. ParseInv'
  BY <1>1, <1>7, <1>8 DEF ParseInv
<1>10. QED
  BY <1>5, <1>6, <1>7, <1>9 DEF IInv

LEMMA StepInv == IInv /\ [Next]_vars => IInv'
<1> SUFFICES ASSUME IInv, [Next]_vars
             PROVE  IInv'
    OBVIOUS
<1>1. BoundInv'
  BY BoundStep DEF IInv
<1>2. CASE Next
  BY <1>1, <1>2, LiteralStep, PercentStep, DirectiveStep, ItemEndStep, ItemOpenStep, ItemCloseStep,
     ItemNextStep, ItemStopStep, PushStep, PushErrorStep, FinishStep DEF Next
<1>3. CASE UNCHANGED vars
  <2>1. UNCHANGED <<m_pattern, i, n, fmt_status, fmt_begin, str, fmt, nstr, vec, m_error, pc, doubled>>
    BY <1>3 DEF vars
  <2>2. TypeInv'
    BY <2>1 DEF IInv, TypeInv
  <2>3. ItemInv'
    BY <2>1 DEF IInv, ItemInv, NameEnd, Doubled, At, size, rest
  <2>4. PushInv'
    BY <2>1 DEF IInv, PushInv
  <2>5. Ways' = Ways /\ ForkInv'
    BY <2>1, ReadingSame DEF Ways, ForkInv, IInv
  <2>6. ASSUME NEW step \in Ways PROVE IF pc' = "done" THEN Found(step)' ELSE Follows(step)'
    <3>1. CASE pc = "done"
      <4>1. Found(step)
        BY <3>1 DEF IInv, ParseInv
      <4>2. Reading(step)' = Reading(step)
        BY <2>1, ReadingSame
      <4>3. QED
        BY <2>1, <3>1, <4>1, <4>2 DEF Found
    <3>2. CASE pc # "done"
      <4>1. Follows(step)
        BY <3>2 DEF IInv, ParseInv
      <4>2. QED
        BY <2>1, <3>2, <4>1, FollowsOn
    <3>3. QED
      BY <3>1, <3>2
  <2>7. ParseInv'
    BY <2>5, <2>6 DEF ParseInv
  <2>8. QED
    BY <1>1, <2>2, <2>3, <2>4, <2>5, <2>7 DEF IInv
<1>4. QED
  BY <1>2, <1>3

THEOREM ParserInvariance == Spec => []IInv
BY InitInv, StepInv, PTL DEF Spec

\* init() never indexes or cuts the pattern outside its bounds.
THEOREM StaysInBounds == Spec => []InBounds
<1>1. IInv => InBounds
  BY DEF IInv, BoundInv
<1>2. QED
  BY ParserInvariance, <1>1, PTL

\* init() (logger.cpp:489-629) parses by the grammar every pattern without a doubled "%",
\* and never one with a doubled "%" that the grammar accepts.
THEOREM FindsTokens == Spec => []ParsesGrammar
<1>1. IInv => ParsesGrammar
  <2> SUFFICES ASSUME IInv, pc = "done"
               PROVE  (~doubled => Parsed) /\ (doubled /\ Tokens # Broken => ~Parsed)
    BY DEF ParsesGrammar
  <2>1. Tokens = Reading(2)
    BY TokensIs DEF IInv, TypeInv
  <2>2. CASE ~doubled
    <3>1. Found(2)
      BY <2>2 DEF IInv, ParseInv, Ways, Steps
    <3>2. QED
      BY <2>1, <2>2, <3>1 DEF Found, Parsed
  <2>3. CASE doubled
    <3>1. Found(1) /\ Differ(Reading(1), Reading(2))
      BY <2>3 DEF IInv, ParseInv, Ways, ForkInv
    <3>2. QED
      BY <2>1, <2>3, <3>1 DEF Found, Differ, Parsed
  <2>4. QED
    BY <2>2, <2>3
<1>2. QED
  BY ParserInvariance, <1>1, PTL
==============================================================================
