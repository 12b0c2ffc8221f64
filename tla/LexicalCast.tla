----------------------------- MODULE LexicalCast -----------------------------
(***************************************************************************)
(* chord::LexicalCast (chord/config.h) as ConfigVar<T> uses it: values to  *)
(* and from YAML text, for int and for containers of int and of sets of    *)
(* int.  A conversion gives <<v>>, or <<>> when the code throws.           *)
(***************************************************************************)
EXTENDS Yaml, FiniteSets

CONSTANTS
  Ints,        \* the integers the program and the documents write
  IntText(_)   \* the digits of an integer

\* Two integers are not written alike.
ASSUME IntTextAssumption == \A v, w \in Ints : IntText(v) = IntText(w) => v = w

\* boost::lexical_cast<int>(text).
IntFrom(text) ==
  IF text.kind = "scalar" /\ \E v \in Ints : IntText(v) = text.text
  THEN <<CHOOSE v \in Ints : IntText(v) = text.text>> ELSE <<>>

\* boost::lexical_cast<std::string>(v).
IntTo(v) == Scalar(IntText(v))

\* The specialisations for containers of int.
OfInt == INSTANCE Containers WITH From <- IntFrom, To <- IntTo

\* Mutant of IntSetTo: the first element is lost (++it before the body).
IntSetToButFirst(v) ==
  IF v = {} THEN Null ELSE OfInt!UnorderedSetTo(v \ {CHOOSE e \in v : TRUE})

\* The conversions of std::unordered_set<int>.
IntSetFrom(text) == OfInt!UnorderedSetFrom(text)
IntSetTo(v) == OfInt!UnorderedSetTo(v)

\* The specialisations for containers of std::unordered_set<int>.
OfSet == INSTANCE Containers WITH From <- IntSetFrom, To <- IntSetTo

\* FromStr and ToStr of a variable's type: int, list<unordered_set<int>> and
\* unordered_map<string, int> stand for all.
FromYaml(type, text) ==
  CASE type = "int" -> IntFrom(text)
    [] type = "set" -> IntSetFrom(text)
    [] type = "list of set" -> OfSet!ListFrom(text)
    [] type = "map" -> OfInt!UnorderedMapFrom(text)

ToYaml(type, v) ==
  CASE type = "int" -> IntTo(v)
    [] type = "set" -> IntSetTo(v)
    [] type = "list of set" -> OfSet!ListTo(v)
    [] type = "map" -> OfInt!UnorderedMapTo(v)

\* The values of a type: T's.
IsValue(type, v) ==
  CASE type = "int" -> v \in Ints
    [] type = "set" -> v \in SUBSET Ints /\ IsFiniteSet(v)
    [] type = "list of set" ->
         v \in Seq(SUBSET Ints) /\ \A i \in DOMAIN v : IsFiniteSet(v[i])
    [] type = "map" -> IsFiniteSet(DOMAIN v) /\ v \in [DOMAIN v -> Ints]
==============================================================================
