----------------------------- MODULE Containers -----------------------------
(***************************************************************************)
(* chord::LexicalCast for the containers of the standard library           *)
(* (chord/config.h).  The conversions of the elements are parameters, as   *)
(* the type T of the templates is.  A conversion gives <<v>>, or <<>> when *)
(* the code throws.                                                        *)
(*                                                                         *)
(* node.size() is 0 for a scalar and for Null, so such a text reads as an  *)
(* empty container, although the comment in every specialisation says that *)
(* what is not an array fails to parse.                                    *)
(***************************************************************************)
EXTENDS Yaml

CONSTANTS
  From(_),   \* LexicalCast<std::string, T>
  To(_)      \* LexicalCast<T, std::string>

\* LexicalCast<std::string, std::vector<T>>.
VectorFrom(text) ==
  LET items == Elements(Load(text))
  IN  AllOrNothing([i \in DOMAIN items |-> From(items[i])])

\* LexicalCast<std::vector<T>, std::string>.
VectorTo(v) == Pushed([i \in DOMAIN v |-> Load(To(v[i]))])

\* LexicalCast for std::list<T>.
ListFrom(text) == VectorFrom(text)
ListTo(v) == VectorTo(v)

\* LexicalCast<std::string, std::set<T>>: equal elements are one.
SetFrom(text) ==
  LET items == VectorFrom(text)
  IN  IF items = <<>> THEN <<>> ELSE <<Range(items[1])>>

\* LexicalCast<std::set<T>, std::string>.
SetTo(v) == VectorTo(SetToSeq(v))

\* LexicalCast for std::unordered_set<T>: only the printed order differs.
UnorderedSetFrom(text) == SetFrom(text)
UnorderedSetTo(v) == SetTo(v)

\* LexicalCast<std::string, std::map<std::string, T>>: insert keeps the first value
\* of a key; iterating over a sequence gives no first and second, and throws.
MapFrom(text) ==
  LET node == Load(text)
      entries == IF node.kind = "map" THEN node.entries ELSE <<>>
      values == AllOrNothing([i \in DOMAIN entries |-> From(entries[i].node)])
  IN  IF values = <<>> \/ (node.kind = "seq" /\ node.items # <<>>) THEN <<>>
      ELSE <<[k \in {entries[i].key : i \in DOMAIN entries} |-> values[1][First(entries, k)]]>>

\* LexicalCast<std::map<std::string, T>, std::string>.
MapTo(v) ==
  LET keys == SetToSeq(DOMAIN v)
  IN  IF keys = <<>> THEN Null
      ELSE Map([i \in DOMAIN keys |-> Entry(keys[i], Load(To(v[keys[i]])))])

\* LexicalCast for std::unordered_map<std::string, T>.
UnorderedMapFrom(text) == MapFrom(text)
UnorderedMapTo(v) == MapTo(v)
==============================================================================
