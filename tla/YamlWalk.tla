------------------------------ MODULE YamlWalk ------------------------------
(***************************************************************************)
(* ListAllMember (chord/config.cpp): the nodes of a document with their    *)
(* names.                                                                  *)
(***************************************************************************)
EXTENDS Yaml

CONSTANTS Parts,    \* the parts that names are made of, "" included
          BadParts, \* parts with a character outside config.cpp:15's set
          Node,     \* the nodes of the documents
          Depth(_)  \* how deep the nodes below a node go

\* Documents are finite.
ASSUME NodeAssumption ==
  /\ "" \in Parts
  /\ \A n \in Node :
       /\ Depth(n) \in Nat
       /\ n.kind = "seq" => n.items \in Seq(Node)
       /\ n.kind = "map" =>
            /\ n.entries \in Seq([key : Seq(Parts), node : Node])
            /\ \A i \in DOMAIN n.entries : Depth(n.entries[i].node) < Depth(n)

\* find_first_not_of(...) == npos.
ValidName(name) == \A i \in DOMAIN name : name[i] \notin BadParts

\* Mutant of Member: the prefix is not passed on.
MemberAlone(prefix, key) == key

\* prefix.empty() ? key : prefix + "." + key; a key without text is the part "".
Member(prefix, key) ==
  IF prefix = <<>> THEN key
  ELSE prefix \o IF key = <<>> THEN <<"">> ELSE key

\* ListAllMember(prefix, node): node itself, then all that is below it, in document
\* order; a name with a bad character cuts off everything below it.
ListAllMember[node \in Node] == [prefix \in Seq(Parts) |->
  IF ~ValidName(prefix) THEN <<>>
  ELSE <<Entry(prefix, node)>> \o
       IF node.kind # "map" THEN <<>>
       ELSE FlattenSeq([i \in DOMAIN node.entries |->
              ListAllMember[node.entries[i].node][Member(prefix, node.entries[i].key)]])]

\* ListAllMember("", root, all_nodes).
ListAll(root) == ListAllMember[root][<<>>]

------------------------------------------------------------------------------
(***************************************************************************)
(* The nodes a document has for a name, in document order, found from the  *)
(* name: with the first k parts of the name found, a key takes the next    *)
(* ones, and a key that has no text takes none at the top and an empty     *)
(* part below.                                                             *)
(***************************************************************************)
Taken(key, k) == IF key = <<>> /\ k # 0 THEN <<"">> ELSE key

Continues(name, k, parts) ==
  /\ k + Len(parts) <= Len(name)
  /\ \A i \in DOMAIN parts : name[k + i] = parts[i]

NodesAt(doc, name) ==
  LET from[node \in Node] == [k \in 0 .. Len(name) |->
        (IF k = Len(name) THEN <<node>> ELSE <<>>) \o
        IF node.kind # "map" THEN <<>>
        ELSE FlattenSeq([i \in DOMAIN node.entries |->
               LET parts == Taken(node.entries[i].key, k)
               IN  IF Continues(name, k, parts)
                   THEN from[node.entries[i].node][k + Len(parts)] ELSE <<>>])]
  IN  from[doc][0]
=============================================================================
