---------------------------- MODULE LogFormatter -----------------------------
(***************************************************************************)
(* LogFormatter::init (chord/logger.cpp): the parser of log patterns, one  *)
(* step per iteration of its loops, against the grammar its comment gives, *)
(* written position by position.  A pattern is a sequence of characters;   *)
(* positions count from 0 as in the code.  Characters stand for classes:   *)
(* "%", the braces, the letters that are the name of an item, other        *)
(* letters, and the rest.                                                  *)
(***************************************************************************)
EXTENDS Integers, Sequences

CONSTANTS Items,   \* letters that are keys of s_format_items, e.g. "m"
          Letters, \* letters (isalpha), Items among them
          Others,  \* characters that are neither letters nor "%" nor braces
          MaxLen   \* bound: length of patterns

ASSUME LogFormatterAssumption ==
  /\ Items \subseteq Letters
  /\ (Letters \cup Others) \cap {"%", "lbrace", "rbrace"} = {} /\ Letters \cap Others = {}
  /\ MaxLen \in Nat

Chars == Letters \cup Others \cup {"%", "lbrace", "rbrace"}

VARIABLES m_pattern, i, n, fmt_status, fmt_begin, str, fmt, nstr, vec, m_error, pc,
          doubled  \* history: a "%" in front of another was met outside an item

vars == <<m_pattern, i, n, fmt_status, fmt_begin, str, fmt, nstr, vec, m_error, pc, doubled>>

size == Len(m_pattern)
At(k) == m_pattern[k + 1]

\* m_pattern.substr(pos, count) and m_pattern.substr(pos)
substr(pos, count) == SubSeq(m_pattern, pos + 1, pos + count)
rest(pos) == SubSeq(m_pattern, pos + 1, size)

\* The tuples of vec, and what m_items makes of an unknown name or a broken item.
Literal(s) == [text |-> s, fmt |-> << >>, type |-> 0]
Item(s, f) == [text |-> s, fmt |-> f, type |-> 1]
PatternError == [text |-> << >>, fmt |-> << >>, type |-> 2]

\* vec with the literal text collected so far.
Flushed == IF nstr = << >> THEN vec ELSE Append(vec, Literal(nstr))

------------------------------------------------------------------------------
\* A character other than "%".
literal ==
  /\ pc = "scan" /\ i < size /\ At(i) # "%"
  /\ nstr' = Append(nstr, At(i))
  /\ i' = i + 1
  /\ UNCHANGED <<m_pattern, n, fmt_status, fmt_begin, str, fmt, vec, m_error, pc, doubled>>

\* Is the "%" at i followed by another?
Doubled == i + 1 < size /\ At(i + 1) = "%"

\* "%%": a "%" is collected, and the loop goes on with the second one.
percent ==
  /\ pc = "scan" /\ i < size /\ At(i) = "%" /\ Doubled
  /\ nstr' = Append(nstr, "%")
  /\ i' = i + 1
  /\ doubled' = TRUE
  /\ UNCHANGED <<m_pattern, n, fmt_status, fmt_begin, str, fmt, vec, m_error, pc>>

\* "%" begins an item.
directive ==
  /\ pc = "scan" /\ i < size /\ At(i) = "%" /\ ~Doubled
  /\ n' = i + 1 /\ fmt_status' = 0 /\ fmt_begin' = 0 /\ str' = << >> /\ fmt' = << >>
  /\ pc' = "item"
  /\ UNCHANGED <<m_pattern, i, nstr, vec, m_error, doubled>>

\* A character that ends the name.
itemEnd ==
  /\ pc = "item" /\ n < size /\ fmt_status = 0
  /\ At(n) \notin Letters \cup {"lbrace", "rbrace"}
  /\ str' = substr(i + 1, n - i - 1)
  /\ pc' = "push"
  /\ UNCHANGED <<m_pattern, i, n, fmt_status, fmt_begin, fmt, nstr, vec, m_error, doubled>>

\* Mutant of itemOpen: the format is taken to begin one character later.
itemOpenOff ==
  /\ pc = "item" /\ n < size /\ fmt_status = 0 /\ At(n) = "lbrace"
  /\ str' = substr(i + 1, n - i - 1)
  /\ fmt_status' = 1 /\ fmt_begin' = n + 1
  /\ n' = n + 1
  /\ UNCHANGED <<m_pattern, i, fmt, nstr, vec, m_error, pc, doubled>>

\* A left brace ends the name and begins the format.
itemOpen ==
  /\ pc = "item" /\ n < size /\ fmt_status = 0 /\ At(n) = "lbrace"
  /\ str' = substr(i + 1, n - i - 1)
  /\ fmt_status' = 1 /\ fmt_begin' = n
  /\ n' = n + 1
  /\ UNCHANGED <<m_pattern, i, fmt, nstr, vec, m_error, pc, doubled>>

\* Mutant of itemClose: the right brace becomes part of the format.
itemCloseOff ==
  /\ pc = "item" /\ n < size /\ fmt_status = 1 /\ At(n) = "rbrace"
  /\ fmt' = substr(fmt_begin + 1, n - fmt_begin)
  /\ fmt_status' = 0
  /\ n' = n + 1
  /\ pc' = "push"
  /\ UNCHANGED <<m_pattern, i, fmt_begin, str, nstr, vec, m_error, doubled>>

\* A right brace ends the format and the item.
itemClose ==
  /\ pc = "item" /\ n < size /\ fmt_status = 1 /\ At(n) = "rbrace"
  /\ fmt' = substr(fmt_begin + 1, n - fmt_begin - 1)
  /\ fmt_status' = 0
  /\ n' = n + 1
  /\ pc' = "push"
  /\ UNCHANGED <<m_pattern, i, fmt_begin, str, nstr, vec, m_error, doubled>>

\* Mutant of itemNext: n is not advanced.
itemNextStuck ==
  /\ pc = "item" /\ n < size
  /\ \/ fmt_status = 0 /\ At(n) \in Letters \cup {"rbrace"}
     \/ fmt_status = 1 /\ At(n) # "rbrace"
  /\ UNCHANGED vars

\* A character of the name or of the format; the pattern may end here.
itemNext ==
  /\ pc = "item" /\ n < size
  /\ \/ fmt_status = 0 /\ At(n) \in Letters \cup {"rbrace"}
     \/ fmt_status = 1 /\ At(n) # "rbrace"
  /\ n' = n + 1
  /\ str' = IF n' = size /\ str = << >> THEN rest(i + 1) ELSE str
  /\ UNCHANGED <<m_pattern, i, fmt_status, fmt_begin, fmt, nstr, vec, m_error, pc, doubled>>

\* The pattern ends inside the item.
itemStop ==
  /\ pc = "item" /\ n >= size
  /\ pc' = "push"
  /\ UNCHANGED <<m_pattern, i, n, fmt_status, fmt_begin, str, fmt, nstr, vec, m_error, doubled>>

\* The literal text before the item, and the item; i = n - 1, then ++i.
push ==
  /\ pc = "push" /\ fmt_status = 0
  /\ vec' = Append(Flushed, Item(str, fmt))
  /\ nstr' = << >>
  /\ i' = n
  /\ pc' = "scan"
  /\ UNCHANGED <<m_pattern, n, fmt_status, fmt_begin, str, fmt, m_error, doubled>>

\* The format was not closed: an error marker, and the scan goes on behind the "%".
pushError ==
  /\ pc = "push" /\ fmt_status = 1
  /\ m_error' = TRUE
  /\ vec' = Append(vec, PatternError)
  /\ i' = i + 1
  /\ pc' = "scan"
  /\ UNCHANGED <<m_pattern, n, fmt_status, fmt_begin, str, fmt, nstr, doubled>>

\* A name s_format_items knows: a single letter.
Known(s) == Len(s) = 1 /\ s[1] \in Items

\* The end of the pattern; then m_items is built from vec.
finish ==
  /\ pc = "scan" /\ i >= size
  /\ vec' = Flushed
  /\ m_error' = (m_error \/ \E k \in DOMAIN vec' : vec'[k].type = 1 /\ ~Known(vec'[k].text))
  /\ pc' = "done"
  /\ UNCHANGED <<m_pattern, i, n, fmt_status, fmt_begin, str, fmt, nstr, doubled>>

Patterns == UNION {[1 .. k -> Chars] : k \in 0 .. MaxLen}

Init ==
  /\ m_pattern \in Patterns
  /\ i = 0 /\ n = 0 /\ fmt_status = 0 /\ fmt_begin = 0
  /\ str = << >> /\ fmt = << >> /\ nstr = << >> /\ vec = << >>
  /\ m_error = FALSE /\ pc = "scan" /\ doubled = FALSE

Next ==
  literal \/ percent \/ directive \/ itemEnd \/ itemOpen \/ itemClose \/ itemNext \/ itemStop
  \/ push \/ pushError \/ finish

\* init() is a sequential function: it runs until it returns.
Spec == Init /\ [][Next]_vars /\ WF_vars(Next)

------------------------------------------------------------------------------
(***************************************************************************)
(* The grammar of logger.cpp:488, `%xxx %xxx{xxx} %%`.  From every         *)
(* position the rest of the pattern is a list of tokens or is broken.  A   *)
(* doubled "%" stands for one "%", and the rest follows behind both.       *)
(***************************************************************************)
Broken == <<PatternError>>

\* The first position of pattern p from k on that holds none of C; its end if there is none.
Skip(p, k, C) == CHOOSE e \in k .. Len(p) :
  /\ \A q \in k .. e - 1 : p[q + 1] \in C
  /\ e = Len(p) \/ p[e + 1] \notin C

\* Literal text c in front of tokens ts.
Prefix(c, ts) ==
  IF ts = Broken THEN Broken
  ELSE IF ts # << >> /\ ts[1].type = 0 THEN <<Literal(<<c>> \o ts[1].text)>> \o Tail(ts)
  ELSE <<Literal(<<c>>)>> \o ts

\* Item s with format f in front of tokens ts.
Front(s, f, ts) == IF ts = Broken \/ ~Known(s) THEN Broken ELSE <<Item(s, f)>> \o ts

\* The tokens of p from position k on, when T[j] are those from any later j on.
TokensFrom(p, k, T) ==
  LET e == Skip(p, k + 1, Letters \cup {"rbrace"})
      c == Skip(p, e + 1, Chars \ {"rbrace"})
      name == SubSeq(p, k + 2, e)
  IN IF k = Len(p) THEN << >>
     ELSE IF p[k + 1] # "%" THEN Prefix(p[k + 1], T[k + 1])
     ELSE IF k + 1 < Len(p) /\ p[k + 2] = "%" THEN Prefix("%", T[k + 2])
     ELSE IF e = Len(p) \/ p[e + 1] # "lbrace" THEN Front(name, << >>, T[e])
     ELSE IF c = Len(p) THEN Broken
     ELSE Front(name, SubSeq(p, e + 2, c), T[c + 1])

\* The tokens of the pattern; T[k] are those from position k on.
Tokens == LET T[k \in 0 .. size] == TokensFrom(m_pattern, k, T) IN T[0]

\* The variables keep their types and every index stays inside the pattern: no
\* substr() throws and no character is read behind the end.
InBounds ==
  /\ i \in 0 .. size /\ n \in 0 .. size
  /\ pc \in {"item", "push"} => i < n /\ At(i) = "%"
  /\ pc \in {"item", "push"} /\ fmt_status = 1 => i < fmt_begin /\ fmt_begin < n

\* m_error is set exactly for a broken pattern, and otherwise vec holds the tokens.
Parsed == (m_error <=> Tokens = Broken) /\ (~m_error => vec = Tokens)

\* init() parses by the grammar of logger.cpp:488 every pattern in which no "%" is doubled
\* outside an item: no token is lost, merged or cut short.  A pattern with a doubled "%"
\* that the grammar accepts it never parses: the "%" it appends (logger.cpp:507) moves i
\* by one, so the second "%" is read again, is refused at the end of the pattern, and
\* otherwise makes an item or one "%" too many of what stands behind it.
ParsesGrammar ==
  pc = "done" =>
    /\ ~doubled => Parsed
    /\ doubled /\ Tokens # Broken => ~Parsed

\* init() returns for every pattern.
Terminates == <>(pc = "done")
==============================================================================
