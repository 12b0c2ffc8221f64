-------------------------------- MODULE Yaml --------------------------------
(***************************************************************************)
(* YAML nodes and texts, as chord/config.h and chord/config.cpp use them.   *)
(*                                                                         *)
(* A node is Null, a plain scalar, a sequence or a map; a map keeps its    *)
(* entries in document order, duplicates included, as yaml-cpp does.  A    *)
(* name is the sequence of its parts between dots, "" is <<>>, and a map   *)
(* key is a name too ("a.b" may be written as one key).  A text given to a *)
(* conversion is the node it was printed from, or EmptyText.               *)
(***************************************************************************)
EXTENDS SequencesExt, Integers

Null == [kind |-> "null"]
Scalar(s) == [kind |-> "scalar", text |-> s]
Sequence(items) == [kind |-> "seq", items |-> items]
Map(entries) == [kind |-> "map", entries |-> entries]
Entry(key, node) == [key |-> key, node |-> node]

EmptyText == [kind |-> "empty"]

\* YAML::Load(text): a printed node is read back as it was, no text is Null.
Load(text) == IF text = EmptyText THEN Null ELSE text

\* What LoadFromYaml hands to fromString: Scalar() of a scalar, else the printed node.
TextOf(node) == IF node = Scalar("") THEN EmptyText ELSE node

\* node.size() elements, node[0] .. node[size - 1]: an index finds nothing in a map,
\* and the size of a scalar and of Null is 0.
Elements(node) ==
  CASE node.kind = "seq" -> node.items
    [] node.kind = "map" -> [i \in DOMAIN node.entries |-> EmptyText]
    [] OTHER -> <<>>

\* node.push_back for every element: without one the node stays Null.
Pushed(items) == IF items = <<>> THEN Null ELSE Sequence(items)

\* The first of the entries with a key, which insert keeps.
First(entries, k) ==
  CHOOSE i \in DOMAIN entries :
    entries[i].key = k /\ \A j \in DOMAIN entries : entries[j].key = k => i <= j

\* A loop of conversions, each of which gives <<v>>, or <<>> when it throws: it throws
\* when one of them does.
AllOrNothing(results) ==
  IF \E i \in DOMAIN results : results[i] = <<>> THEN <<>>
  ELSE <<[i \in DOMAIN results |-> results[i][1]]>>
=============================================================================
