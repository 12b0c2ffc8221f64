------------------------------- MODULE MCConfig -------------------------------
(***************************************************************************)
(* Config with the YAML documents of Yaml and the conversions of           *)
(* LexicalCast: what a document leaves in the variables.                   *)
(***************************************************************************)
EXTENDS Config

CONSTANT t1   \* the thread that loads the configuration file

A == <<"a">>
AB == <<"a", "b">>
C == <<"c">>
D == <<"d">>      \* config.h:442 leaves out the letter d
UpperA == <<"A">>

MCNames == {A, AB, C, D}
MCStatics == <<[name |-> A, type |-> "map"], [name |-> AB, type |-> "int"]>>

MCDefault(type) ==
  CASE type = "int" -> 0
    [] type = "map" -> [k \in {} |-> 0]
    [] type = "list of set" -> <<{1}, {}>>

MCLowerPart(part) == IF part = "A" THEN "a" ELSE part
MCIntText(v) == ToString(v)

One == Scalar("1")
Two == Scalar("2")
Word == Scalar("w")

(***************************************************************************)
(* The documents: one key that does not convert before one that does; a    *)
(* key written twice, with dots and nested; keys with no text and with a   *)
(* bad character above a good one.                                         *)
(***************************************************************************)
File ==
  { Map(<<Entry(A, Map(<<Entry(<<"b">>, Word)>>)), Entry(AB, One),
          Entry(C, Sequence(<<Sequence(<<One, Two, One>>), One>>))>>),
    Map(<<Entry(AB, Two), Entry(<<>>, Map(<<Entry(AB, Word)>>)),
          Entry(A, Map(<<Entry(<<"b">>, Two), Entry(<<"b">>, One)>>)),
          Entry(C, Map(<<Entry(<<"b">>, Null)>>))>>),
    Map(<<Entry(UpperA, Map(<<Entry(<<"b">>, One)>>)), Entry(D, One),
          Entry(C, Sequence(<<Sequence(<<One, Word>>), Null>>)), Entry(A, Null),
          Entry(AB, Scalar(""))>>) }

Children(node) ==
  CASE node.kind = "seq" -> Range(node.items)
    [] node.kind = "map" -> {e.node : e \in Range(node.entries)}
    [] OTHER -> {}

RECURSIVE NodesOf(_), MCDepth(_)
NodesOf(node) == {node} \cup UNION {NodesOf(n) : n \in Children(node)}
MCDepth(node) ==
  IF Children(node) = {} THEN 0 ELSE 1 + Max({MCDepth(n) : n \in Children(node)})

\* Any other thread sets one variable, as a test or a command does.
Override == Map(<<Entry(AB, Two)>>)

MCDocs(t) == IF t = t1 THEN File ELSE {Override}

MCNode == UNION {NodesOf(doc) : doc \in File \cup {Override}}

MCMaxCalls(t) == IF t = t1 THEN 1 ELSE 2
==============================================================================
